------------------------------ MODULE EventProofs ------------------------------
(***************************************************************************)
(* Proofs about the text of an event.                                      *)
(***************************************************************************)
EXTENDS Event, FiniteSetTheorems, WellFoundedInduction, TLAPS

\* A set of numbers that is not empty has a least one.
LEMMA Smallest ==
  ASSUME NEW S \in SUBSET Nat, S # {}
  PROVE  \E m \in S : \A k \in S : m <= k
<1> DEFINE R == OpToRel(<, Nat)
<1>1. R = {ss \in Nat \X Nat : ss[1] < ss[2]}
  BY Zenon DEF OpToRel
<1>2. IsWellFoundedOn(R, Nat)
  BY NatLessThanWellFounded
<1> HIDE DEF R
<1>3. PICK m \in S : \A k \in S : ~ (<<k, m>> \in R)
  BY <1>2, WFMin
<1>4. \A k \in S : ~ (k < m)
  BY <1>1, <1>3
<1> QED BY <1>4

-----------------------------------------------------------------------------
(* The loop over the tags of a block                                       *)

Unparsed(c) == [ctx |-> c, pwr |-> Whole, nested |-> FALSE]

\* p is the state of ass_parse_tags after each of the first m tags.
Parsed(p, c, tags, m) ==
  p = [k \in 0 .. m |-> IF k = 0 THEN Unparsed(c) ELSE NextTag(p[k - 1], tags[k])]

\* There is one such p, and what it ends with is what the tags do.
LEMMA ParsedToEnd ==
  ASSUME NEW c, NEW tags, Len(tags) \in Nat
  PROVE  \E p : /\ p[0] = Unparsed(c)
                /\ \A k \in 1 .. Len(tags) : p[k] = NextTag(p[k - 1], tags[k])
                /\ ParseTags(c, tags) = p[Len(tags)].ctx
<1> DEFINE len == Len(tags)
           Has(m) == \E p : Parsed(p, c, tags, m)
           Bad == {m \in 0 .. len : ~ Has(m)}
<1>1. Bad = {}
  <2>1. SUFFICES ASSUME Bad # {} PROVE FALSE
    OBVIOUS
  <2> HIDE DEF Has
  <2>2. PICK m \in Bad : \A k \in Bad : m <= k
    <3>1. Bad \in SUBSET Nat
      OBVIOUS
    <3> QED BY <2>1, <3>1, Smallest
  <2>3. m \in 0 .. len /\ ~ Has(m) /\ m \in Nat
    OBVIOUS
  <2>4. CASE m = 0
    <3> DEFINE p == [k \in 0 .. 0 |-> Unparsed(c)]
    <3>1. p = [k \in 0 .. 0 |-> IF k = 0 THEN Unparsed(c) ELSE NextTag(p[k - 1], tags[k])]
      OBVIOUS
    <3> HIDE DEF p
    <3> QED BY <2>3, <2>4, <3>1 DEF Has, Parsed
  <2>5. CASE m > 0
    <3>1. m - 1 \in 0 .. len /\ ~ (m <= m - 1) /\ m - 1 \in Nat
      BY <2>3, <2>5
    <3>2. Has(m - 1)
      <4>1. m - 1 \notin Bad
        BY <2>2, <3>1
      <4> QED BY <3>1, <4>1
    <3>3. PICK p : Parsed(p, c, tags, m - 1)
      BY <3>2 DEF Has
    <3> DEFINE last == NextTag(p[m - 1], tags[m])
               q == [k \in 0 .. m |-> IF k = m THEN last ELSE p[k]]
    <3>4. ASSUME NEW k \in 0 .. m
          PROVE  q[k] = IF k = 0 THEN Unparsed(c) ELSE NextTag(q[k - 1], tags[k])
      <4> HIDE DEF last
      <4>1. CASE k = m
        <5>1. q[m] = last /\ q[m - 1] = p[m - 1] /\ m # 0
          BY <2>5, <3>1
        <5> QED BY <4>1, <5>1 DEF last
      <4>2. CASE k # m
        <5>1. k \in 0 .. m - 1 /\ q[k] = p[k] /\ (k # 0 => q[k - 1] = p[k - 1])
          BY <4>2, <2>3
        <5>2. p[k] = IF k = 0 THEN Unparsed(c) ELSE NextTag(p[k - 1], tags[k])
          BY <3>3, <5>1 DEF Parsed
        <5> QED BY <5>1, <5>2
      <4> QED BY <4>1, <4>2
    <3>5. q = [k \in 0 .. m |-> q[k]]
      OBVIOUS
    <3> HIDE DEF q
    <3>6. Parsed(q, c, tags, m)
      BY <3>4, <3>5 DEF Parsed
    <3> QED BY <2>3, <3>6 DEF Has
  <2> QED BY <2>3, <2>4, <2>5
<1>2. len \in 0 .. len
  OBVIOUS
<1>3. \E p : Parsed(p, c, tags, len)
  BY <1>1, <1>2
<1> DEFINE P == CHOOSE p : Parsed(p, c, tags, len)
<1>4. Parsed(P, c, tags, len)
  BY <1>3
<1>5. ParseTags(c, tags) = P[len].ctx
  BY Zenon DEF ParseTags, Parsed, Unparsed
<1> HIDE DEF P
<1>6. P[0] = Unparsed(c) /\ \A k \in 1 .. len : P[k] = NextTag(P[k - 1], tags[k])
  BY <1>4 DEF Parsed
<1> QED BY <1>5, <1>6

-----------------------------------------------------------------------------
(* What a tag does to a context                                            *)

Fields ==
  {"event", "parsed_tags", "evt_type", "wrap_style", "pos", "org", "have_origin", "clip",
   "clip_mode", "clip_drawing_text", "clip_drawing_mode", "detect_collisions", "fade",
   "drawing_scale", "pbo", "effect_type", "effect_timing", "effect_skip_timing",
   "reset_effect", "explicit", "apply_font_scale", "style", "look", "alignment", "justify"}

\* A context has these fields, and a look its own; an event that has been
\* placed or moves is not kept apart from others.
Context(c) ==
  /\ c = [f \in Fields |-> c[f]]
  /\ c.look = [f \in LookFields |-> c.look[f]]
  /\ c.effect_type \in EffectTypes
  /\ c.detect_collisions => c.evt_type = {} /\ ~c.have_origin

\* Contexts that differ in nothing but the mode of a drawing that is not there
Alike(c, d) ==
  /\ Context(c) /\ Context(d)
  /\ \A f \in Fields \ {"clip_drawing_mode"} : c[f] = d[f]
  /\ c.clip_drawing_text # 0 => c.clip_drawing_mode = d.clip_drawing_mode

LEMMA AnimateKeeps ==
  ASSUME NEW c, NEW t, NEW pwr, Context(c)
  PROVE  Context(Animate(c, t, pwr)) /\ Animate(c, t, pwr).event = c.event
BY DEF Context, Animate, Fields

LEMMA AnimateAlike ==
  ASSUME NEW c, NEW d, NEW t, NEW pwr, Alike(c, d)
  PROVE  Alike(Animate(c, t, pwr), Animate(d, t, pwr))
<1>1. c.look = d.look /\ c.style = d.style
  BY DEF Alike, Fields
<1>2. ASSUME NEW f PROVE Fallback(c, f) = Fallback(d, f)
  BY <1>1 DEF Fallback
<1>3. Animate(c, t, pwr).look = Animate(d, t, pwr).look
  BY <1>1, <1>2 DEF Animate, Alike, Context, Fields
<1>4. /\ Context(Animate(c, t, pwr)) /\ Context(Animate(d, t, pwr))
  BY AnimateKeeps DEF Alike
<1>5. \A f \in Fields \ {"look"} : /\ Animate(c, t, pwr)[f] = c[f]
                                   /\ Animate(d, t, pwr)[f] = d[f]
  BY DEF Animate, Alike, Context
<1> QED BY <1>3, <1>4, <1>5 DEF Alike, Fields

LEMMA SwitchKeeps ==
  ASSUME NEW c, NEW t, Context(c), t.name \in DOMAIN Switches
  PROVE  Context(Switch(c, t)) /\ Switch(c, t).event = c.event
BY DEF Context, Switch, Fields

LEMMA SwitchAlike ==
  ASSUME NEW c, NEW d, NEW t, Alike(c, d), t.name \in DOMAIN Switches
  PROVE  Alike(Switch(c, t), Switch(d, t))
<1>1. c.look = d.look /\ c.style = d.style
  BY DEF Alike, Fields
<1>2. ASSUME NEW f PROVE Fallback(c, f) = Fallback(d, f)
  BY <1>1 DEF Fallback
<1>3. Switch(c, t).look = Switch(d, t).look
  BY <1>1, <1>2 DEF Switch, Alike, Context, Fields
<1>4. /\ Context(Switch(c, t)) /\ Context(Switch(d, t))
  BY SwitchKeeps DEF Alike
<1>5. \A f \in Fields \ {"look"} : Switch(c, t)[f] = c[f] /\ Switch(d, t)[f] = d[f]
  BY DEF Switch, Alike, Context
<1> QED BY <1>3, <1>4, <1>5 DEF Alike, Fields

LEMMA ResetKeeps ==
  ASSUME NEW c, NEW style, Context(c)
  PROVE  Context(Reset(c, style)) /\ Reset(c, style).event = c.event
BY DEF Context, Reset, LookOf, Fields

LEMMA ResetAlike ==
  ASSUME NEW c, NEW d, NEW style, Alike(c, d)
  PROVE  Alike(Reset(c, style), Reset(d, style))
<1>1. c.explicit = d.explicit
  BY DEF Alike, Fields
<1>2. StyleFor(c, style) = StyleFor(d, style)
  BY <1>1 DEF StyleFor
<1>3. /\ Reset(c, style).look = Reset(d, style).look
      /\ Reset(c, style).style = Reset(d, style).style
      /\ Reset(c, style).apply_font_scale = Reset(d, style).apply_font_scale
  BY <1>1, <1>2 DEF Reset, Alike, Context, Fields
<1>4. /\ Context(Reset(c, style)) /\ Context(Reset(d, style))
  BY ResetKeeps DEF Alike
<1>5. \A f \in Fields \ {"look", "style", "apply_font_scale"} :
        Reset(c, style)[f] = c[f] /\ Reset(d, style)[f] = d[f]
  BY DEF Reset, Alike, Context
<1> QED BY <1>3, <1>4, <1>5 DEF Alike, Fields

\* Changes that are the same to both, of fields that nothing else hangs on
LEMMA StillAlike ==
  ASSUME NEW c, NEW d, Alike(c, d), NEW x, NEW y,
         NEW S \in SUBSET (Fields \ {"event", "look", "effect_type", "clip_drawing_text",
                                    "clip_drawing_mode"}),
         x = [f \in Fields |-> x[f]], y = [f \in Fields |-> y[f]],
         \A f \in S : x[f] = y[f],
         \A f \in Fields \ S : x[f] = c[f] /\ y[f] = d[f],
         x.detect_collisions => x.evt_type = {} /\ ~x.have_origin
  PROVE  Alike(x, y) /\ x.event = c.event
<1>1. \A f \in Fields \ {"clip_drawing_mode"} : x[f] = y[f]
  BY DEF Alike
<1>2. /\ x.look = c.look /\ y.look = d.look /\ x.effect_type = c.effect_type
      /\ y.effect_type = d.effect_type /\ x.event = c.event
      /\ x.clip_drawing_text = c.clip_drawing_text
      /\ x.clip_drawing_mode = c.clip_drawing_mode /\ y.clip_drawing_mode = d.clip_drawing_mode
  BY DEF Fields
<1>3. /\ y.detect_collisions = x.detect_collisions /\ y.evt_type = x.evt_type
      /\ y.have_origin = x.have_origin
  BY <1>1 DEF Fields
<1>4. Context(x) /\ Context(y)
  BY <1>2, <1>3 DEF Alike, Context
<1> QED BY <1>1, <1>2, <1>4 DEF Alike

LEMMA PositionAlike ==
  ASSUME NEW c, NEW d, NEW t, Alike(c, d)
  PROVE  Alike(Position(c, t), Position(d, t)) /\ Position(c, t).event = c.event
<1> DEFINE wrong == \/ ~ (IF t.name = "pos" THEN Len(t.args) = 2 ELSE Len(t.args) \in {4, 6})
                    \/ "POSITIONED" \in c.evt_type
           place == PlaceOf(c.event, t)
           type == c.evt_type \cup {"POSITIONED"}
<1>1. c.event = d.event /\ c.evt_type = d.evt_type
  BY DEF Alike, Fields
<1>2. /\ Position(c, t) = IF wrong THEN c ELSE
           [c EXCEPT !.pos = place, !.detect_collisions = FALSE, !.evt_type = type]
      /\ Position(d, t) = IF wrong THEN d ELSE
           [d EXCEPT !.pos = place, !.detect_collisions = FALSE, !.evt_type = type]
  BY <1>1 DEF Position
<1> DEFINE x == [c EXCEPT !.pos = place, !.detect_collisions = FALSE, !.evt_type = type]
           y == [d EXCEPT !.pos = place, !.detect_collisions = FALSE, !.evt_type = type]
           S == {"pos", "detect_collisions", "evt_type"}
<1> HIDE DEF wrong, place, type
<1>3. c = [f \in Fields |-> c[f]] /\ d = [f \in Fields |-> d[f]]
  BY DEF Alike, Context
<1>4. x = [f \in Fields |-> x[f]] /\ y = [f \in Fields |-> y[f]]
  BY <1>3
<1>5. /\ x.pos = place /\ x.detect_collisions = FALSE /\ x.evt_type = type
      /\ y.pos = place /\ y.detect_collisions = FALSE /\ y.evt_type = type
  BY <1>3 DEF Fields
<1>6. \A f \in Fields \ S : x[f] = c[f] /\ y[f] = d[f]
  BY <1>3
<1>7. x.detect_collisions => x.evt_type = {} /\ ~x.have_origin
  BY <1>5, <1>6 DEF Alike, Context, Fields
<1> HIDE DEF x, y
<1>s. /\ S \in SUBSET (Fields \ {"event", "look", "effect_type", "clip_drawing_text",
                                "clip_drawing_mode"})
      /\ \A f \in S : x[f] = y[f]
  BY <1>5 DEF Fields
<1> HIDE DEF S
<1>8. Alike(x, y) /\ x.event = c.event
  BY <1>4, <1>6, <1>7, <1>s, StillAlike
<1>9. CASE wrong
  <2>1. Position(c, t) = c /\ Position(d, t) = d
    BY <1>2, <1>9
  <2> QED BY <2>1
<1>10. CASE ~wrong
  <2>1. Position(c, t) = x /\ Position(d, t) = y
    BY <1>2, <1>10 DEF x, y
  <2> QED BY <2>1, <1>8
<1> QED BY <1>9, <1>10

LEMMA OriginAlike ==
  ASSUME NEW c, NEW d, NEW t, Alike(c, d)
  PROVE  Alike(Origin(c, t), Origin(d, t)) /\ Origin(c, t).event = c.event
BY DEF Alike, Context, Origin, Fields

LEMMA AlignAlike ==
  ASSUME NEW c, NEW d, NEW t, Alike(c, d)
  PROVE  Alike(Align(c, t), Align(d, t)) /\ Align(c, t).event = c.event
<1> DEFINE had == "A" \in c.parsed_tags
           now == c.parsed_tags \cup {"A"}
           v == ValueOf(t)
           align == IF IF t.name = "an" THEN v \in 1 .. 9 ELSE v \in 1 .. 11
                    THEN IF t.name = "an" THEN Numpad(v) ELSE IF v % 4 = 0 THEN 5 ELSE v
                    ELSE c.style.Alignment
<1>1. c.parsed_tags = d.parsed_tags /\ c.style = d.style
  BY DEF Alike, Fields
<1>2. /\ Align(c, t) = IF had THEN c ELSE [c EXCEPT !.parsed_tags = now, !.alignment = align]
      /\ Align(d, t) = IF had THEN d ELSE [d EXCEPT !.parsed_tags = now, !.alignment = align]
  BY <1>1 DEF Align
<1> DEFINE x == [c EXCEPT !.parsed_tags = now, !.alignment = align]
           y == [d EXCEPT !.parsed_tags = now, !.alignment = align]
           S == {"parsed_tags", "alignment"}
<1> HIDE DEF had, now, align
<1>3. c = [f \in Fields |-> c[f]] /\ d = [f \in Fields |-> d[f]]
  BY DEF Alike, Context
<1>4. x = [f \in Fields |-> x[f]] /\ y = [f \in Fields |-> y[f]]
  BY <1>3
<1>5. /\ x.parsed_tags = now /\ x.alignment = align
      /\ y.parsed_tags = now /\ y.alignment = align
  BY <1>3 DEF Fields
<1>6. \A f \in Fields \ S : x[f] = c[f] /\ y[f] = d[f]
  BY <1>3
<1>7. x.detect_collisions => x.evt_type = {} /\ ~x.have_origin
  BY <1>5, <1>6 DEF Alike, Context, Fields
<1> HIDE DEF x, y
<1>s. /\ S \in SUBSET (Fields \ {"event", "look", "effect_type", "clip_drawing_text",
                                "clip_drawing_mode"})
      /\ \A f \in S : x[f] = y[f]
  BY <1>5 DEF Fields
<1> HIDE DEF S
<1>8. Alike(x, y) /\ x.event = c.event
  BY <1>4, <1>6, <1>7, <1>s, StillAlike
<1>9. CASE had
  <2>1. Align(c, t) = c /\ Align(d, t) = d
    BY <1>2, <1>9
  <2> QED BY <2>1
<1>10. CASE ~had
  <2>1. Align(c, t) = x /\ Align(d, t) = y
    BY <1>2, <1>10 DEF x, y
  <2> QED BY <2>1, <1>8
<1> QED BY <1>9, <1>10

LEMMA FadeAlike ==
  ASSUME NEW c, NEW d, NEW t, Alike(c, d)
  PROVE  Alike(Fade(c, t), Fade(d, t)) /\ Fade(c, t).event = c.event
<1> DEFINE wrong == Len(t.args) \notin {2, 7} \/ "FADE" \in c.parsed_tags
           now == c.parsed_tags \cup {"FADE"}
           fade == FadeOf(c.event, t.args)
<1>1. c.parsed_tags = d.parsed_tags /\ c.event = d.event
  BY DEF Alike, Fields
<1>2. /\ Fade(c, t) = IF wrong THEN c ELSE [c EXCEPT !.parsed_tags = now, !.fade = fade]
      /\ Fade(d, t) = IF wrong THEN d ELSE [d EXCEPT !.parsed_tags = now, !.fade = fade]
  BY <1>1 DEF Fade
<1> DEFINE x == [c EXCEPT !.parsed_tags = now, !.fade = fade]
           y == [d EXCEPT !.parsed_tags = now, !.fade = fade]
           S == {"parsed_tags", "fade"}
<1> HIDE DEF wrong, now, fade
<1>3. c = [f \in Fields |-> c[f]] /\ d = [f \in Fields |-> d[f]]
  BY DEF Alike, Context
<1>4. x = [f \in Fields |-> x[f]] /\ y = [f \in Fields |-> y[f]]
  BY <1>3
<1>5. /\ x.parsed_tags = now /\ x.fade = fade
      /\ y.parsed_tags = now /\ y.fade = fade
  BY <1>3 DEF Fields
<1>6. \A f \in Fields \ S : x[f] = c[f] /\ y[f] = d[f]
  BY <1>3
<1>7. x.detect_collisions => x.evt_type = {} /\ ~x.have_origin
  BY <1>5, <1>6 DEF Alike, Context, Fields
<1> HIDE DEF x, y
<1>s. /\ S \in SUBSET (Fields \ {"event", "look", "effect_type", "clip_drawing_text",
                                "clip_drawing_mode"})
      /\ \A f \in S : x[f] = y[f]
  BY <1>5 DEF Fields
<1> HIDE DEF S
<1>8. Alike(x, y) /\ x.event = c.event
  BY <1>4, <1>6, <1>7, <1>s, StillAlike
<1>9. CASE wrong
  <2>1. Fade(c, t) = c /\ Fade(d, t) = d
    BY <1>2, <1>9
  <2> QED BY <2>1
<1>10. CASE ~wrong
  <2>1. Fade(c, t) = x /\ Fade(d, t) = y
    BY <1>2, <1>10 DEF x, y
  <2> QED BY <2>1, <1>8
<1> QED BY <1>9, <1>10

LEMMA ClipAlike ==
  ASSUME NEW c, NEW d, NEW t, NEW pwr, Alike(c, d)
  PROVE  Alike(Clip(c, t, pwr), Clip(d, t, pwr)) /\ Clip(c, t, pwr).event = c.event
<1> DEFINE v == Clipped(c.clip, t.args, pwr)
           inverse == (t.name = "iclip")
           drawing == t.args[Len(t.args)]
<1>1. c.clip = d.clip /\ c.clip_drawing_text = d.clip_drawing_text
  BY DEF Alike, Fields
<1>c. c = [f \in Fields |-> c[f]] /\ d = [f \in Fields |-> d[f]]
  BY DEF Alike, Context
<1>3. CASE Len(t.args) = 4
  <2> DEFINE x == [c EXCEPT !.clip = v, !.clip_mode = inverse]
             y == [d EXCEPT !.clip = v, !.clip_mode = inverse]
  <2>1. Clip(c, t, pwr) = x /\ Clip(d, t, pwr) = y
    BY <1>1, <1>3 DEF Clip
  <2> HIDE DEF v, inverse
  <2>2. x = [f \in Fields |-> x[f]] /\ y = [f \in Fields |-> y[f]]
    BY <1>c
  <2>3. /\ x.clip = v /\ x.clip_mode = inverse /\ y.clip = v /\ y.clip_mode = inverse
    BY <1>c DEF Fields
  <2>4. \A f \in Fields \ {"clip", "clip_mode"} : x[f] = c[f] /\ y[f] = d[f]
    BY <1>c
  <2> HIDE DEF x, y
  <2>5. x.detect_collisions => x.evt_type = {} /\ ~x.have_origin
    BY <2>4 DEF Alike, Context, Fields
  <2> DEFINE S == {"clip", "clip_mode"}
  <2>6. /\ S \in SUBSET (Fields \ {"event", "look", "effect_type", "clip_drawing_text",
                                  "clip_drawing_mode"})
        /\ \A f \in S : x[f] = y[f]
        /\ \A f \in Fields \ S : x[f] = c[f] /\ y[f] = d[f]
    BY <2>3, <2>4 DEF Fields
  <2> HIDE DEF S
  <2>7. Alike(x, y) /\ x.event = c.event
    BY <2>2, <2>5, <2>6, StillAlike
  <2> QED BY <2>1, <2>7
<1>4. CASE Len(t.args) # 4 /\ Len(t.args) \in {1, 2} /\ c.clip_drawing_text = 0
  <2> DEFINE x == [c EXCEPT !.clip_drawing_text = drawing, !.clip_drawing_mode = inverse]
             y == [d EXCEPT !.clip_drawing_text = drawing, !.clip_drawing_mode = inverse]
  <2>1. Clip(c, t, pwr) = x /\ Clip(d, t, pwr) = y
    BY <1>1, <1>4 DEF Clip
  <2> HIDE DEF drawing, inverse
  <2>2. x = [f \in Fields |-> x[f]] /\ y = [f \in Fields |-> y[f]]
    BY <1>c
  <2>3. /\ x.clip_drawing_text = drawing /\ x.clip_drawing_mode = inverse
        /\ y.clip_drawing_text = drawing /\ y.clip_drawing_mode = inverse
    BY <1>c DEF Fields
  <2>4. \A f \in Fields \ {"clip_drawing_text", "clip_drawing_mode"} : x[f] = c[f] /\ y[f] = d[f]
    BY <1>c
  <2> HIDE DEF x, y
  <2>5. Context(x) /\ Context(y)
    BY <2>2, <2>4 DEF Alike, Context, Fields
  <2>6. \A f \in Fields : x[f] = y[f]
    BY <2>3, <2>4 DEF Alike
  <2>7. x.event = c.event
    BY <2>4 DEF Fields
  <2> QED BY <2>1, <2>5, <2>6, <2>7 DEF Alike, Fields
<1>5. CASE Len(t.args) # 4 /\ ~ (Len(t.args) \in {1, 2} /\ c.clip_drawing_text = 0)
    <2>1. Clip(c, t, pwr) = c /\ Clip(d, t, pwr) = d
    BY <1>1, <1>5 DEF Clip
  <2> QED BY <2>1
<1> QED BY <1>3, <1>4, <1>5

LEMMA SyllableAlike ==
  ASSUME NEW c, NEW d, NEW t, Alike(c, d), t.name \in DOMAIN Effects
  PROVE  Alike(Syllable(c, t), Syllable(d, t)) /\ Syllable(c, t).event = c.event
<1> DEFINE type == Effects[t.name]
           skip == c.effect_skip_timing + c.effect_timing
           time == IF t.args = <<>> THEN 100 ELSE t.args[1]
           x == [c EXCEPT !.effect_type = type, !.effect_skip_timing = skip, !.effect_timing = time]
           y == [d EXCEPT !.effect_type = type, !.effect_skip_timing = skip, !.effect_timing = time]
           S == {"effect_type", "effect_skip_timing", "effect_timing"}
<1>1. c.effect_skip_timing = d.effect_skip_timing /\ c.effect_timing = d.effect_timing
  BY DEF Alike, Fields
<1>2. c = [f \in Fields |-> c[f]] /\ d = [f \in Fields |-> d[f]]
  BY DEF Alike, Context
<1>3. Syllable(c, t) = x /\ Syllable(d, t) = y
  BY <1>1, <1>2 DEF Syllable, Fields
<1>4. type \in EffectTypes
  BY DEF Effects, EffectTypes
<1> HIDE DEF type, skip, time
<1>5. x = [f \in Fields |-> x[f]] /\ y = [f \in Fields |-> y[f]]
  BY <1>2
<1>6. /\ x.effect_type = type /\ x.effect_skip_timing = skip /\ x.effect_timing = time
      /\ y.effect_type = type /\ y.effect_skip_timing = skip /\ y.effect_timing = time
  BY <1>2 DEF Fields
<1>7. \A f \in Fields \ S : x[f] = c[f] /\ y[f] = d[f]
  BY <1>2
<1> HIDE DEF x, y
<1>8. Context(x) /\ Context(y)
  BY <1>4, <1>5, <1>6, <1>7 DEF Alike, Context, Fields
<1>9. \A f \in Fields \ {"clip_drawing_mode"} : x[f] = y[f]
  BY <1>6, <1>7 DEF Alike
<1>10. /\ x.clip_drawing_text = c.clip_drawing_text /\ x.event = c.event
       /\ x.clip_drawing_mode = c.clip_drawing_mode /\ y.clip_drawing_mode = d.clip_drawing_mode
  BY <1>7 DEF Fields
<1> QED BY <1>3, <1>8, <1>9, <1>10 DEF Alike

LEMMA OthersAlike ==
  ASSUME NEW c, NEW d, NEW t, Alike(c, d)
  PROVE  /\ Alike(SetClock(c, t), SetClock(d, t)) /\ SetClock(c, t).event = c.event
         /\ Alike(DrawingScale(c, t), DrawingScale(d, t)) /\ DrawingScale(c, t).event = c.event
         /\ Alike(BaselineOffset(c, t), BaselineOffset(d, t))
         /\ BaselineOffset(c, t).event = c.event
         /\ Alike(Wrap(c, t), Wrap(d, t)) /\ Wrap(c, t).event = c.event
         /\ Alike([c EXCEPT !.detect_collisions = FALSE], [d EXCEPT !.detect_collisions = FALSE])
         /\ [c EXCEPT !.detect_collisions = FALSE].event = c.event
<1>1. Alike(SetClock(c, t), SetClock(d, t)) /\ SetClock(c, t).event = c.event
  BY DEF Alike, Context, Fields, SetClock
<1>2. Alike(DrawingScale(c, t), DrawingScale(d, t)) /\ DrawingScale(c, t).event = c.event
  BY DEF Alike, Context, Fields, DrawingScale
<1>3. Alike(BaselineOffset(c, t), BaselineOffset(d, t)) /\ BaselineOffset(c, t).event = c.event
  BY DEF Alike, Context, Fields, BaselineOffset
<1>4. Alike(Wrap(c, t), Wrap(d, t)) /\ Wrap(c, t).event = c.event
  BY DEF Alike, Context, Fields, Wrap
<1>5. /\ Alike([c EXCEPT !.detect_collisions = FALSE], [d EXCEPT !.detect_collisions = FALSE])
      /\ [c EXCEPT !.detect_collisions = FALSE].event = c.event
  BY DEF Alike, Context, Fields
<1> QED BY <1>1, <1>2, <1>3, <1>4, <1>5

\* One tag does the same to both, and none changes the event.
LEMMA ApplyAlike ==
  ASSUME NEW c, NEW d, NEW t, NEW pwr, Alike(c, d)
  PROVE  Alike(Apply(c, t, pwr), Apply(d, t, pwr)) /\ Apply(c, t, pwr).event = c.event
<1>1. c.event = d.event /\ Context(c)
  BY DEF Alike, Fields
<1>2. /\ Alike(Animate(c, t, pwr), Animate(d, t, pwr)) /\ Animate(c, t, pwr).event = c.event
      /\ Alike(Position(c, t), Position(d, t)) /\ Position(c, t).event = c.event
      /\ Alike(Origin(c, t), Origin(d, t)) /\ Origin(c, t).event = c.event
      /\ Alike(Align(c, t), Align(d, t)) /\ Align(c, t).event = c.event
      /\ Alike(Fade(c, t), Fade(d, t)) /\ Fade(c, t).event = c.event
      /\ Alike(Clip(c, t, pwr), Clip(d, t, pwr)) /\ Clip(c, t, pwr).event = c.event
  BY <1>1, AnimateAlike, AnimateKeeps, PositionAlike, OriginAlike, AlignAlike, FadeAlike, ClipAlike
<1>3. t.name \in DOMAIN Switches =>
        Alike(Switch(c, t), Switch(d, t)) /\ Switch(c, t).event = c.event
  BY <1>1, SwitchAlike, SwitchKeeps
<1>4. t.name \in DOMAIN Effects =>
        Alike(Syllable(c, t), Syllable(d, t)) /\ Syllable(c, t).event = c.event
  BY SyllableAlike
<1>5. Alike(ResetTag(c, t), ResetTag(d, t)) /\ ResetTag(c, t).event = c.event
  <2> DEFINE style == IF t.args # <<>> /\ t.args[1] \in DOMAIN Styles THEN Styles[t.args[1]]
                                                                   ELSE Styles[c.event.Style]
  <2>1. ResetTag(c, t) = Reset(c, style) /\ ResetTag(d, t) = Reset(d, style)
    BY <1>1 DEF ResetTag
  <2> HIDE DEF style
  <2> QED BY <1>1, <2>1, ResetAlike, ResetKeeps
<1>6. /\ Alike(SetClock(c, t), SetClock(d, t)) /\ SetClock(c, t).event = c.event
      /\ Alike(DrawingScale(c, t), DrawingScale(d, t)) /\ DrawingScale(c, t).event = c.event
      /\ Alike(BaselineOffset(c, t), BaselineOffset(d, t))
      /\ BaselineOffset(c, t).event = c.event
      /\ Alike(Wrap(c, t), Wrap(d, t)) /\ Wrap(c, t).event = c.event
      /\ Alike([c EXCEPT !.detect_collisions = FALSE], [d EXCEPT !.detect_collisions = FALSE])
      /\ [c EXCEPT !.detect_collisions = FALSE].event = c.event
  BY OthersAlike
<1> DEFINE x == [c EXCEPT !.detect_collisions = FALSE]
           y == [d EXCEPT !.detect_collisions = FALSE]
<1> HIDE DEF x, y
<1>7. Alike(x, y) /\ x.event = c.event
  BY <1>6 DEF x, y
<1> QED BY <1>1, <1>2, <1>3, <1>4, <1>5, <1>6, <1>7 DEF Apply, x, y

LEMMA NextTagAlike ==
  ASSUME NEW s, NEW r, NEW t, Alike(s.ctx, r.ctx), s.pwr = r.pwr, s.nested = r.nested
  PROVE  /\ Alike(NextTag(s, t).ctx, NextTag(r, t).ctx)
         /\ NextTag(s, t).ctx.event = s.ctx.event
         /\ NextTag(s, t).pwr = NextTag(r, t).pwr
         /\ NextTag(s, t).nested = NextTag(r, t).nested
<1>1. /\ Alike(Apply(s.ctx, t, s.pwr), Apply(r.ctx, t, s.pwr))
      /\ Apply(s.ctx, t, s.pwr).event = s.ctx.event
  BY ApplyAlike
<1>2. Progress(s.ctx, t) = Progress(r.ctx, t)
  <2>1. s.ctx.event = r.ctx.event
    BY DEF Alike, Fields
  <2> QED BY <2>1 DEF Progress
<1> DEFINE x == Apply(s.ctx, t, s.pwr)
           y == Apply(r.ctx, t, s.pwr)
           go == Progress(s.ctx, t)
           takesOver == t.name = "t" /\ (s.nested \/ t.opens)
           pwr == IF takesOver THEN go ELSE s.pwr
           nested == s.nested \/ takesOver
           sNext == [ctx |-> x, pwr |-> pwr, nested |-> nested]
           rNext == [ctx |-> y, pwr |-> pwr, nested |-> nested]
<1>3. /\ NextTag(s, t) = IF s.nested /\ t.paren
                           THEN [sNext EXCEPT !.pwr = Whole, !.nested = FALSE] ELSE sNext
      /\ NextTag(r, t) = IF s.nested /\ t.paren
                           THEN [rNext EXCEPT !.pwr = Whole, !.nested = FALSE] ELSE rNext
  BY <1>2 DEF NextTag
<1> HIDE DEF x, y, pwr, nested
<1>4. /\ NextTag(s, t).ctx = x /\ NextTag(r, t).ctx = y
      /\ NextTag(s, t).pwr = NextTag(r, t).pwr
      /\ NextTag(s, t).nested = NextTag(r, t).nested
  BY <1>3
<1> QED BY <1>1, <1>4 DEF x, y

\* A block of tags does the same to both.
LEMMA ParseTagsAlike ==
  ASSUME NEW c, NEW d, NEW tags, Len(tags) \in Nat, Alike(c, d)
  PROVE  Alike(ParseTags(c, tags), ParseTags(d, tags)) /\ ParseTags(c, tags).event = c.event
<1>1. PICK p : /\ p[0] = Unparsed(c)
               /\ \A k \in 1 .. Len(tags) : p[k] = NextTag(p[k - 1], tags[k])
               /\ ParseTags(c, tags) = p[Len(tags)].ctx
  BY ParsedToEnd
<1>2. PICK q : /\ q[0] = Unparsed(d)
               /\ \A k \in 1 .. Len(tags) : q[k] = NextTag(q[k - 1], tags[k])
               /\ ParseTags(d, tags) = q[Len(tags)].ctx
  BY ParsedToEnd
<1> DEFINE Same(k) == /\ Alike(p[k].ctx, q[k].ctx) /\ p[k].ctx.event = c.event
                      /\ p[k].pwr = q[k].pwr /\ p[k].nested = q[k].nested
           Bad == {k \in 0 .. Len(tags) : ~ Same(k)}
<1>3. Same(0)
  BY <1>1, <1>2 DEF Unparsed
<1>4. ASSUME NEW k \in 1 .. Len(tags), Same(k - 1)
      PROVE  Same(k)
  <2>1. p[k] = NextTag(p[k - 1], tags[k]) /\ q[k] = NextTag(q[k - 1], tags[k])
    BY <1>1, <1>2
  <2> DEFINE s == p[k - 1]
             r == q[k - 1]
  <2>2. Alike(s.ctx, r.ctx) /\ s.pwr = r.pwr /\ s.nested = r.nested /\ s.ctx.event = c.event
    BY <1>4
  <2> HIDE DEF s, r
  <2>3. /\ Alike(NextTag(s, tags[k]).ctx, NextTag(r, tags[k]).ctx)
        /\ NextTag(s, tags[k]).ctx.event = s.ctx.event
        /\ NextTag(s, tags[k]).pwr = NextTag(r, tags[k]).pwr
        /\ NextTag(s, tags[k]).nested = NextTag(r, tags[k]).nested
    BY <2>2, NextTagAlike
  <2> QED BY <2>1, <2>2, <2>3 DEF s, r
<1> HIDE DEF Same
<1>5. Bad = {}
  <2>1. SUFFICES ASSUME Bad # {} PROVE FALSE
    OBVIOUS
  <2>2. Bad \in SUBSET Nat
    OBVIOUS
  <2>3. PICK m \in Bad : \A k \in Bad : m <= k
    BY <2>1, <2>2, Smallest
  <2>4. m \in 1 .. Len(tags) /\ m - 1 \in 0 .. Len(tags) /\ ~ (m <= m - 1)
    BY <1>3
  <2>5. Same(m - 1)
    BY <2>3, <2>4
  <2> QED BY <1>4, <2>4, <2>5
<1>6. Same(Len(tags))
  BY <1>5
<1> QED BY <1>1, <1>2, <1>6 DEF Same

LEMMA FreeKeeps ==
  ASSUME NEW c, Context(c)
  PROVE  /\ Context(FreeContext(c)) /\ FreeContext(c).event = c.event
         /\ FreeContext(c).clip_drawing_text = 0
BY DEF Context, FreeContext, Fields

\* A context is set up for an event in the same way whatever it was, and all that
\* can be left is the mode of a drawing.
LEMMA InitAlike ==
  ASSUME NEW c, NEW d, NEW e, Context(c), Context(d),
         c.clip_drawing_text = 0, d.clip_drawing_text = 0
  PROVE  Alike(InitContext(c, e), InitContext(d, e)) /\ InitContext(c, e).event = e
<1> DEFINE Bare(z) == [z EXCEPT
             !.event = e, !.parsed_tags = {}, !.evt_type = {}, !.wrap_style = TrackWrapStyle,
             !.pos = <<0, 0>>, !.org = <<0, 0>>, !.have_origin = FALSE,
             !.clip = <<0, 0, PlayRes[1], PlayRes[2]>>, !.clip_mode = FALSE,
             !.detect_collisions = TRUE, !.fade = 0, !.drawing_scale = 0, !.pbo = 0,
             !.effect_type = "NONE", !.effect_timing = 0, !.effect_skip_timing = 0,
             !.reset_effect = FALSE]
           Moving(z) == Transition(Bare(z), e.Effect)
           Placed(z) == [Moving(z) EXCEPT
             !.explicit = Moving(z).evt_type # {} \/ HardOverrides(e.Text)]
           Ready(z) == Reset(Placed(z), Styles[e.Style])
           Late == {"clip_drawing_mode", "look", "style", "apply_font_scale", "explicit",
                    "alignment", "justify"}
           Record(z) == z = [f \in Fields |-> z[f]]
           Look(z) == z = [f \in LookFields |-> z[f]]
           Free(z) == z.detect_collisions => z.evt_type = {} /\ ~z.have_origin
<1>1. /\ InitContext(c, e) = [Ready(c) EXCEPT !.alignment = Ready(c).style.Alignment,
                                             !.justify = Ready(c).style.Justify]
      /\ InitContext(d, e) = [Ready(d) EXCEPT !.alignment = Ready(d).style.Alignment,
                                             !.justify = Ready(d).style.Justify]
  BY DEF InitContext
<1>2. Record(c) /\ Record(d) /\ Look(c.look) /\ Look(d.look)
  BY DEF Context
<1>3. ASSUME NEW z, Record(z), Look(z.look)
      PROVE  /\ Record(Bare(z)) /\ Look(Bare(z).look) /\ Bare(z).event = e
             /\ Bare(z).effect_type = "NONE" /\ Free(Bare(z))
             /\ Bare(z).clip_drawing_text = z.clip_drawing_text
  <2>1. Record(Bare(z))
    BY <1>3
  <2>3. Bare(z).look = z.look /\ Bare(z).event = e
    BY <1>3 DEF Fields
  <2>2. /\ Bare(z).effect_type = "NONE" /\ Bare(z).evt_type = {} /\ Bare(z).have_origin = FALSE
        /\ Bare(z).clip_drawing_text = z.clip_drawing_text
    BY <1>3 DEF Fields
  <2> HIDE DEF Bare
  <2> QED BY <1>3, <2>1, <2>2, <2>3
<1>b. \A f \in Fields \ (Late \cup {"clip_drawing_text"}) : Bare(c)[f] = Bare(d)[f]
  <2> DEFINE Set(w) ==
               /\ w.event = e /\ w.parsed_tags = {} /\ w.evt_type = {}
               /\ w.wrap_style = TrackWrapStyle /\ w.pos = <<0, 0>>
               /\ w.org = <<0, 0>> /\ w.have_origin = FALSE
               /\ w.clip = <<0, 0, PlayRes[1], PlayRes[2]>>
               /\ w.clip_mode = FALSE /\ w.detect_collisions = TRUE
               /\ w.fade = 0 /\ w.drawing_scale = 0 /\ w.pbo = 0
               /\ w.effect_type = "NONE" /\ w.effect_timing = 0
               /\ w.effect_skip_timing = 0 /\ w.reset_effect = FALSE
  <2>1. Set(Bare(c)) /\ Set(Bare(d))
    BY <1>2 DEF Fields
  <2> HIDE DEF Bare
  <2> DEFINE x == Bare(c)
             y == Bare(d)
  <2>2. Set(x) /\ Set(y)
    BY <2>1
  <2> HIDE DEF x, y
  <2>3. \A f \in Fields \ (Late \cup {"clip_drawing_text"}) : x[f] = y[f]
    <3>1. /\ x.event = y.event /\ x.parsed_tags = y.parsed_tags /\ x.evt_type = y.evt_type
          /\ x.wrap_style = y.wrap_style /\ x.pos = y.pos /\ x.org = y.org
          /\ x.have_origin = y.have_origin /\ x.clip = y.clip /\ x.clip_mode = y.clip_mode
          /\ x.detect_collisions = y.detect_collisions /\ x.fade = y.fade
          /\ x.drawing_scale = y.drawing_scale /\ x.pbo = y.pbo
          /\ x.effect_type = y.effect_type /\ x.effect_timing = y.effect_timing
          /\ x.effect_skip_timing = y.effect_skip_timing /\ x.reset_effect = y.reset_effect
      BY <2>2
    <3> QED BY <3>1 DEF Fields
  <2> QED BY <2>3 DEF x, y
<1> HIDE DEF Bare
<1>d. \A f \in Fields \ Late : Bare(c)[f] = Bare(d)[f]
  BY <1>2, <1>3, <1>b
<1>4. ASSUME NEW z, Record(z), Look(z.look)
      PROVE  /\ Record(Moving(z)) /\ Look(Moving(z).look) /\ Moving(z).event = e
             /\ Moving(z).effect_type = "NONE" /\ Free(Moving(z))
             /\ Moving(z).clip_drawing_text = z.clip_drawing_text
  <2> DEFINE x == Bare(z)
  <2>1. /\ Record(x) /\ Look(x.look) /\ x.event = e
        /\ x.effect_type = "NONE" /\ Free(x) /\ x.clip_drawing_text = z.clip_drawing_text
    BY <1>3, <1>4
  <2> HIDE DEF x
  <2>2. CASE e.Effect = "Banner"
    <3>1. Moving(z) = [x EXCEPT !.evt_type = x.evt_type \cup {"HSCROLL"},
                                !.detect_collisions = FALSE, !.wrap_style = 2]
      BY <2>1, <2>2 DEF Transition, x, Fields
    <3> QED BY <2>1, <3>1 DEF Fields
  <2>3. CASE e.Effect = "Scroll"
    <3>1. Moving(z) = [x EXCEPT !.evt_type = x.evt_type \cup {"VSCROLL"},
                                !.detect_collisions = FALSE]
      BY <2>1, <2>3 DEF Transition, x, Fields
    <3> QED BY <2>1, <3>1 DEF Fields
  <2>4. CASE e.Effect # "Banner" /\ e.Effect # "Scroll"
    BY <2>1, <2>4 DEF Transition, x
  <2> QED BY <2>2, <2>3, <2>4
<1>5. \A f \in Fields \ Late : Moving(c)[f] = Moving(d)[f]
  <2> DEFINE x == Bare(c)
             y == Bare(d)
  <2>1. Record(x) /\ Record(y) /\ \A f \in Fields \ Late : x[f] = y[f]
    BY <1>2, <1>3, <1>d
  <2> HIDE DEF x, y
  <2>2. x.evt_type = y.evt_type
    BY <2>1 DEF Fields
  <2> QED BY <2>1, <2>2 DEF Transition, x, y
<1> HIDE DEF Moving
<1>e. ASSUME NEW z, Record(z), Look(z.look)
      PROVE  /\ Record(Placed(z)) /\ Look(Placed(z).look) /\ Placed(z).event = e
             /\ Placed(z).effect_type = "NONE" /\ Free(Placed(z))
             /\ Placed(z).clip_drawing_text = z.clip_drawing_text
             /\ Placed(z).explicit = (Moving(z).evt_type # {} \/ HardOverrides(e.Text))
             /\ \A f \in Fields \ Late : Placed(z)[f] = Moving(z)[f]
  <2> DEFINE x == Moving(z)
             v == x.evt_type # {} \/ HardOverrides(e.Text)
             w == Placed(z)
  <2>1. /\ Record(x) /\ Look(x.look) /\ x.event = e
        /\ x.effect_type = "NONE" /\ Free(x) /\ x.clip_drawing_text = z.clip_drawing_text
    BY <1>4, <1>e
  <2>2. w = [x EXCEPT !.explicit = v]
    OBVIOUS
  <2> HIDE DEF x, v, w
  <2>3. Record(w) /\ w.explicit = v
    BY <2>1, <2>2 DEF Fields
  <2>4. \A f \in Fields \ {"explicit"} : w[f] = x[f]
    BY <2>1, <2>2
  <2> HIDE DEF Placed
  <2>5. /\ w.look = x.look /\ w.event = x.event /\ w.effect_type = x.effect_type
        /\ w.detect_collisions = x.detect_collisions /\ w.evt_type = x.evt_type
        /\ w.have_origin = x.have_origin /\ w.clip_drawing_text = x.clip_drawing_text
        /\ \A f \in Fields \ Late : w[f] = x[f]
    BY <2>4 DEF Fields
  <2> QED BY <2>1, <2>3, <2>5 DEF x, v, w
<1> HIDE DEF Placed
<1>f. /\ \A f \in Fields \ Late : Placed(c)[f] = Placed(d)[f]
      /\ Moving(c).evt_type = Moving(d).evt_type
  <2>1. \A f \in Fields \ Late : Placed(c)[f] = Moving(c)[f] /\ Placed(d)[f] = Moving(d)[f]
    <3>1. \A f \in Fields \ Late : Placed(c)[f] = Moving(c)[f]
      BY <1>2, <1>e
    <3>2. \A f \in Fields \ Late : Placed(d)[f] = Moving(d)[f]
      BY <1>2, <1>e
    <3> QED BY <3>1, <3>2
  <2>2. \A f \in Fields \ Late : Placed(c)[f] = Placed(d)[f]
    BY <1>5, <2>1
  <2>3. Moving(c).evt_type = Moving(d).evt_type
    BY <1>5 DEF Fields
  <2> QED BY <2>2, <2>3
<1>6. Placed(c).explicit = Placed(d).explicit
  <2>1. /\ Placed(c).explicit = (Moving(c).evt_type # {} \/ HardOverrides(e.Text))
        /\ Placed(d).explicit = (Moving(d).evt_type # {} \/ HardOverrides(e.Text))
    BY <1>2, <1>e
  <2> QED BY <1>f, <2>1
<1>7. StyleFor(Placed(c), Styles[e.Style]) = StyleFor(Placed(d), Styles[e.Style])
  BY <1>6 DEF StyleFor
<1> DEFINE style == StyleFor(Placed(c), Styles[e.Style])
           look == LookOf(style)
           scale == ~Placed(c).explicit \/ ~ScaleOnly
<1>8. /\ Ready(c) = [Placed(c) EXCEPT !.style = style, !.look = look, !.apply_font_scale = scale]
      /\ Ready(d) = [Placed(d) EXCEPT !.style = style, !.look = look, !.apply_font_scale = scale]
  BY <1>6, <1>7 DEF Reset
<1>9. Look(look)
  BY DEF LookOf
<1> HIDE DEF style, look, scale, Ready
<1>10. ASSUME NEW z, Record(z), Look(z.look),
              Ready(z) = [Placed(z) EXCEPT !.style = style, !.look = look,
                                           !.apply_font_scale = scale]
       PROVE  /\ Record(Ready(z)) /\ Ready(z).look = look /\ Ready(z).event = e
              /\ Ready(z).effect_type = "NONE" /\ Free(Ready(z))
              /\ Ready(z).clip_drawing_text = z.clip_drawing_text /\ Ready(z).style = style
              /\ Ready(z).apply_font_scale = scale
              /\ \A f \in Fields \ {"style", "look", "apply_font_scale"} :
                   Ready(z)[f] = Placed(z)[f]
  <2> DEFINE x == Placed(z)
  <2>1. /\ Record(x) /\ x.event = e
        /\ x.effect_type = "NONE" /\ Free(x) /\ x.clip_drawing_text = z.clip_drawing_text
    BY <1>e, <1>10
  <2>2. Ready(z) = [x EXCEPT !.style = style, !.look = look, !.apply_font_scale = scale]
    BY <1>10
  <2> HIDE DEF x
  <2>3. /\ Record(Ready(z)) /\ Ready(z).look = look /\ Ready(z).style = style
        /\ Ready(z).apply_font_scale = scale
    BY <2>1, <2>2 DEF Fields
  <2>4. \A f \in Fields \ {"style", "look", "apply_font_scale"} : Ready(z)[f] = x[f]
    BY <2>1, <2>2
  <2> QED BY <2>1, <2>3, <2>4 DEF Fields, x
<1>11. ASSUME NEW z, Record(z), Look(z.look),
              Ready(z) = [Placed(z) EXCEPT !.style = style, !.look = look,
                                           !.apply_font_scale = scale],
              InitContext(z, e) = [Ready(z) EXCEPT !.alignment = Ready(z).style.Alignment,
                                                   !.justify = Ready(z).style.Justify]
       PROVE  /\ Context(InitContext(z, e)) /\ InitContext(z, e).event = e
              /\ InitContext(z, e).alignment = style.Alignment
              /\ InitContext(z, e).justify = style.Justify
              /\ \A f \in Fields \ {"alignment", "justify"} : InitContext(z, e)[f] = Ready(z)[f]
  <2> DEFINE r == Ready(z)
             x == InitContext(z, e)
             a == style.Alignment
             j == style.Justify
  <2>1. /\ Record(r) /\ r.look = look /\ r.event = e /\ r.effect_type = "NONE" /\ Free(r)
        /\ r.style = style
    BY <1>10, <1>11
  <2>2. x = [r EXCEPT !.alignment = a, !.justify = j]
    BY <1>11, <2>1
  <2> HIDE DEF r, x, a, j
  <2>3. Record(x) /\ x.alignment = a /\ x.justify = j
    BY <2>1, <2>2 DEF Fields
  <2>4. \A f \in Fields \ {"alignment", "justify"} : x[f] = r[f]
    BY <2>1, <2>2
  <2>5. /\ x.look = look /\ x.event = e /\ x.effect_type = "NONE" /\ Free(x)
    BY <2>1, <2>4 DEF Fields
  <2>6. Context(x)
    BY <1>9, <2>3, <2>5 DEF Context, EffectTypes
  <2> QED BY <2>3, <2>4, <2>5, <2>6 DEF r, x, a, j
<1> DEFINE x == InitContext(c, e)
           y == InitContext(d, e)
<1>12. /\ Context(x) /\ x.event = e
       /\ x.alignment = style.Alignment /\ x.justify = style.Justify
       /\ \A f \in Fields \ {"alignment", "justify"} : x[f] = Ready(c)[f]
  BY <1>1, <1>2, <1>8, <1>11
<1>13. /\ Context(y)
       /\ y.alignment = style.Alignment /\ y.justify = style.Justify
       /\ \A f \in Fields \ {"alignment", "justify"} : y[f] = Ready(d)[f]
  BY <1>1, <1>2, <1>8, <1>11
<1> HIDE DEF x, y
<1>g. \A f \in Fields \ {"clip_drawing_mode", "alignment", "justify"} : Ready(c)[f] = Ready(d)[f]
  <2> DEFINE p == Ready(c)
             q == Ready(d)
  <2>1. /\ p.look = look /\ p.style = style /\ p.apply_font_scale = scale
        /\ q.look = look /\ q.style = style /\ q.apply_font_scale = scale
        /\ \A f \in Fields \ {"style", "look", "apply_font_scale"} :
             p[f] = Placed(c)[f] /\ q[f] = Placed(d)[f]
    <3>1. /\ p.look = look /\ p.style = style /\ p.apply_font_scale = scale
          /\ \A f \in Fields \ {"style", "look", "apply_font_scale"} : p[f] = Placed(c)[f]
      BY <1>2, <1>8, <1>10
    <3>2. /\ q.look = look /\ q.style = style /\ q.apply_font_scale = scale
          /\ \A f \in Fields \ {"style", "look", "apply_font_scale"} : q[f] = Placed(d)[f]
      BY <1>2, <1>8, <1>10
    <3> QED BY <3>1, <3>2
  <2> HIDE DEF p, q
  <2>2. \A f \in Fields \ {"clip_drawing_mode", "alignment", "justify"} : p[f] = q[f]
    BY <1>6, <1>f, <2>1
  <2> QED BY <2>2 DEF p, q
<1>h. x.clip_drawing_text = 0
  <2>1. Ready(c).clip_drawing_text = 0
    BY <1>2, <1>8, <1>10
  <2> QED BY <1>12, <2>1 DEF Fields
<1>i. \A f \in Fields \ {"clip_drawing_mode"} : x[f] = y[f]
  BY <1>12, <1>13, <1>g
<1>14. Alike(x, y) /\ x.event = e
  BY <1>12, <1>13, <1>h, <1>i DEF Alike
<1> QED BY <1>14 DEF x, y

-----------------------------------------------------------------------------
(* The context of the event in progress                                    *)

LEMMA WithoutEffectAlike ==
  ASSUME NEW c, NEW d, Alike(c, d)
  PROVE  Alike(WithoutEffect(c), WithoutEffect(d)) /\ WithoutEffect(c).event = c.event
<1> DEFINE x == WithoutEffect(c)
           y == WithoutEffect(d)
           S == {"effect_type", "effect_timing", "effect_skip_timing", "reset_effect"}
<1>1. c = [f \in Fields |-> c[f]] /\ d = [f \in Fields |-> d[f]]
  BY DEF Alike, Context
<1>2. /\ x = [f \in Fields |-> x[f]] /\ y = [f \in Fields |-> y[f]]
      /\ \A f \in Fields \ S : x[f] = c[f] /\ y[f] = d[f]
  BY <1>1 DEF WithoutEffect
<1>3. /\ x.effect_type = "NONE" /\ x.effect_timing = 0 /\ x.effect_skip_timing = 0
      /\ x.reset_effect = FALSE
      /\ y.effect_type = "NONE" /\ y.effect_timing = 0 /\ y.effect_skip_timing = 0
      /\ y.reset_effect = FALSE
  BY <1>1 DEF WithoutEffect, Fields
<1> HIDE DEF x, y
<1>4. Context(x) /\ Context(y)
  BY <1>2, <1>3 DEF Alike, Context, Fields, EffectTypes
<1>5. \A f \in Fields \ {"clip_drawing_mode"} : x[f] = y[f]
  BY <1>2, <1>3 DEF Alike
<1>6. /\ x.clip_drawing_text = c.clip_drawing_text /\ x.event = c.event
      /\ x.clip_drawing_mode = c.clip_drawing_mode /\ y.clip_drawing_mode = d.clip_drawing_mode
  BY <1>2 DEF Fields
<1>7. Alike(x, y) /\ x.event = c.event
  BY <1>4, <1>5, <1>6 DEF Alike
<1> QED BY <1>7 DEF x, y

LEMMA EmptyIsContext == Context(EmptyContext) /\ EmptyContext.clip_drawing_text = 0
<1> DEFINE x == EmptyContext
<1>1. x = [f \in Fields |-> x[f]]
  BY DEF EmptyContext, Fields
<1>2. /\ x.look = [f \in LookFields |-> 0] /\ x.effect_type = "NONE"
      /\ x.detect_collisions = FALSE /\ x.clip_drawing_text = 0
  BY DEF EmptyContext
<1> HIDE DEF x
<1>3. Context(x)
  BY <1>1, <1>2 DEF Context, EffectTypes
<1> QED BY <1>2, <1>3 DEF x

\* The rendering context has its fields and is that of the event in progress;
\* nothing is left of the balancing of an event.
CInv ==
  /\ session \in Sessions /\ n \in 0 .. Len(session.events)
  /\ Context(state)
  /\ n = 0 => pc = "idle"
  /\ n > 0 => state.event = session.events[n]
  /\ n > 0 => at \in 1 .. Len(Text) + 1
  /\ pc # "balance" => s2 = 0 /\ moved = FALSE

LEMMA TextOfSession ==
  ASSUME CInv, n > 0
  PROVE  /\ Len(Text) \in Nat
         /\ \A k \in 1 .. Len(Text) : Len(Text[k].tags) \in Nat
<1>1. Text = session.events[n].Text /\ n \in 1 .. Len(session.events) /\ session \in Sessions
  BY SessionsAssumption DEF CInv, Text
<1>2. n \in DOMAIN session.events /\ session.events[n].Text = Text
  BY <1>1 DEF CInv
<1> QED BY <1>1, <1>2, SessionsAssumption

\* A set of numbers in a range that is not empty has a least one and a greatest one.
LEMMA MinMaxIn ==
  ASSUME NEW a \in Int, NEW b \in Int, NEW S \in SUBSET (a .. b), S # {}
  PROVE  /\ Min(S) \in S /\ \A x \in S : Min(S) <= x
         /\ Max(S) \in S /\ \A x \in S : x <= Max(S)
<1> DEFINE Up == {k \in Nat : a + k \in S}
           Down == {k \in Nat : b - k \in S}
<1>1. Up # {} /\ Down # {}
  <2>1. PICK x \in S : TRUE
    OBVIOUS
  <2>2. x - a \in Up /\ b - x \in Down
    OBVIOUS
  <2> QED BY <2>2
<1>2. PICK u \in Up : \A k \in Up : u <= k
  BY <1>1, Smallest
<1>3. PICK d \in Down : \A k \in Down : d <= k
  BY <1>1, Smallest
<1>4. a + u \in S /\ \A x \in S : a + u <= x
  <2>1. ASSUME NEW x \in S PROVE a + u <= x
    <3>1. x - a \in Up
      OBVIOUS
    <3>2. u <= x - a
      BY <1>2, <3>1
    <3> QED BY <3>2
  <2> QED BY <2>1
<1>5. b - d \in S /\ \A x \in S : x <= b - d
  <2>1. ASSUME NEW x \in S PROVE x <= b - d
    <3>1. b - x \in Down
      OBVIOUS
    <3>2. d <= b - x
      BY <1>3, <3>1
    <3> QED BY <3>2
  <2> QED BY <2>1
<1>6. Min(S) \in S /\ \A x \in S : Min(S) <= x
  BY <1>4 DEF Min
<1>7. Max(S) \in S /\ \A x \in S : x <= Max(S)
  <2>1. \A x \in S : b - d >= x
    BY <1>5
  <2>2. Max(S) \in S /\ \A x \in S : Max(S) >= x
    BY <1>5, <2>1 DEF Max
  <2> QED BY <2>2
<1> QED BY <1>6, <1>7

LEMMA NextBlockAhead ==
  ASSUME at \in Nat, Len(Text) \in Nat, at <= Len(Text)
  PROVE  NextBlock \in at .. Len(Text) + 1
<1> DEFINE blocks == {k \in at .. Len(Text) : IsBlock(k)}
<1>1. blocks # {} => Min(blocks) \in at .. Len(Text)
  <2>1. blocks \in SUBSET (at .. Len(Text))
    OBVIOUS
  <2> HIDE DEF blocks
  <2>2. ASSUME blocks # {} PROVE Min(blocks) \in blocks
    <3> DEFINE a == at
               b == Len(Text)
    <3>1. a \in Int /\ b \in Int /\ blocks \in SUBSET (a .. b)
      BY <2>1
    <3> HIDE DEF a, b
    <3> QED BY <2>2, <3>1, MinMaxIn
  <2> QED BY <2>1, <2>2
<1>2. NextBlock = IF blocks = {} THEN Len(Text) + 1 ELSE Min(blocks)
  BY Zenon DEF NextBlock
<1> HIDE DEF blocks
<1> QED BY <1>1, <1>2

LEMMA CInvInit == Init => CInv
BY SessionsAssumption, EmptyIsContext DEF Init, CInv

LEMMA CInvNext == CInv /\ [Next]_vars => CInv'
<1> SUFFICES ASSUME CInv, [Next]_vars PROVE CInv'
  OBVIOUS
<1> USE DEF CInv, Text
<1>1. CASE UNCHANGED vars
  BY <1>1 DEF vars, textVars, breakVars, loopVars, lineVars, runVars
<1>2. ASSUME GiveUp, pc \in {"parse", "split"} PROVE CInv'
  BY <1>2, FreeKeeps DEF GiveUp, breakVars, loopVars, lineVars, runVars
<1>3. CASE Begin
  <2>1. n + 1 \in 1 .. Len(session.events)
    BY <1>3, SessionsAssumption DEF Begin
  <2>2. Context(FreeContext(state)) /\ FreeContext(state).clip_drawing_text = 0
    BY FreeKeeps
  <2>3. /\ Alike(state', state') /\ state'.event = session.events[n + 1]
    BY <1>3, <2>2, InitAlike DEF Begin
  <2> QED BY <1>3, <2>1, <2>3 DEF Begin, Alike, loopVars
<1>4. CASE Block
  <2>1. Len(Text[at].tags) \in Nat
    BY <1>4, TextOfSession DEF Block
  <2>2. Alike(state, state)
    BY DEF Alike
  <2>3. Alike(state', state') /\ state'.event = state.event
    BY <1>4, <2>1, <2>2, ParseTagsAlike DEF Block
  <2>4. at' \in 1 .. Len(Text) + 1
    <3>1. Len(Text) \in Nat /\ at \in Nat /\ at <= Len(Text) /\ at' = at + 1
      BY <1>4, TextOfSession DEF Block
    <3> HIDE DEF Text
    <3> QED BY <3>1
  <2> QED BY <1>4, <2>3, <2>4 DEF Block, Alike, breakVars, loopVars, lineVars, runVars
<1>5. CASE Glyph
  <2>1. Alike(state, state)
    BY DEF Alike
  <2>2. Alike(state', state') /\ state'.event = state.event
    BY <1>5, <2>1, WithoutEffectAlike DEF Glyph
  <2>3. Len(Text) \in Nat /\ at \in Nat /\ at <= Len(Text)
    BY <1>5, TextOfSession DEF Glyph
  <2>4. at' \in 1 .. Len(Text) + 1
    <3> HIDE DEF CInv, Text
    <3>1. at' \in {NextBlock, at + 1}
      BY <1>5 DEF Glyph
    <3>2. at >= 1
      BY <1>5 DEF CInv, Glyph
    <3> QED BY <2>3, <3>1, <3>2, NextBlockAhead
  <2> QED BY <1>5, <2>2, <2>4 DEF Glyph, Alike, breakVars, loopVars, lineVars, runVars
<1>6. CASE GlyphFails
  BY <1>2, <1>6 DEF GlyphFails
<1>7. CASE TextEnd
  BY <1>2, <1>7 DEF TextEnd, textVars, breakVars, loopVars, lineVars, runVars
<1>8. CASE Split
  BY <1>8 DEF Split, lineVars, runVars
<1>9. CASE ShapingFails
  BY <1>2, <1>9 DEF ShapingFails
<1>10. CASE WrapGlyph
  BY <1>10 DEF WrapGlyph, textVars, breakVars, lineVars, runVars
<1>11. CASE \E fails \in BOOLEAN : WrapBreak(fails)
  BY <1>11 DEF WrapBreak, lineVars, runVars
<1>12. CASE WrapEnd
  BY <1>12 DEF WrapEnd, textVars, breakVars, lineVars, runVars
<1>13. CASE Balance
  BY <1>13 DEF Balance, breakVars, lineVars, runVars
<1>14. CASE BalanceEnd
  BY <1>14 DEF BalanceEnd, textVars, breakVars, lineVars, runVars
<1>15. CASE Trim
  BY <1>15 DEF Trim, breakVars, loopVars, lineVars, runVars
<1>16. CASE Measure
  BY <1>16 DEF Measure, textVars, breakVars, loopVars, runVars
<1>17. CASE Karaoke
  BY <1>17 DEF Karaoke, breakVars, loopVars, lineVars, runVars
<1>18. CASE Reorder
  BY <1>18 DEF Reorder, textVars, breakVars, loopVars, runVars
<1>19. CASE AlignLines
  BY <1>19 DEF AlignLines, textVars, breakVars, loopVars, runVars
<1>20. CASE End
  BY <1>20, FreeKeeps DEF End, breakVars, loopVars, lineVars
<1> QED
  BY <1>1, <1>3, <1>4, <1>5, <1>6, <1>7, <1>8, <1>9, <1>10, <1>11, <1>12, <1>13, <1>14, <1>15,
     <1>16, <1>17, <1>18, <1>19, <1>20 DEF Next

-----------------------------------------------------------------------------
(* The glyphs and the lines of the event in progress                       *)

Sequence(s) == Len(s) \in Nat /\ s = [k \in 1 .. Len(s) |-> s[k]]

LEMMA SequenceOf ==
  ASSUME NEW len \in Nat, NEW f, f = [k \in 1 .. len |-> f[k]]
  PROVE  Len(f) = len /\ Sequence(f)
<1> DEFINE S == {f[k] : k \in 1 .. len}
<1>1. f \in [1 .. len -> S]
  OBVIOUS
<1>2. f \in Seq(S)
  BY <1>1
<1>3. DOMAIN f = 1 .. Len(f) /\ Len(f) \in Nat
  BY <1>2
<1>4. Len(f) = len
  BY <1>1, <1>3
<1> QED BY <1>4 DEF Sequence

LEMMA EmptySequence == Sequence(<<>>) /\ Len(<<>>) = 0
<1>1. <<>> \in Seq({}) /\ Len(<<>>) = 0
  OBVIOUS
<1>2. <<>> \in [1 .. 0 -> {}]
  BY <1>1
<1>3. <<>> = [k \in 1 .. 0 |-> <<>>[k]]
  BY <1>2
<1> QED BY <1>1, <1>3 DEF Sequence

LEMMA Appended ==
  ASSUME NEW s, Sequence(s), NEW x
  PROVE  /\ Sequence(Append(s, x)) /\ Len(Append(s, x)) = Len(s) + 1
         /\ \A k \in 1 .. Len(s) : Append(s, x)[k] = s[k]
         /\ Append(s, x)[Len(s) + 1] = x
<1> DEFINE S == {s[k] : k \in 1 .. Len(s)} \cup {x}
           len == Len(s)
<1>1. len \in Nat /\ s = [k \in 1 .. len |-> s[k]]
  BY DEF Sequence
<1>2. s \in [1 .. len -> S]
  BY <1>1
<1> HIDE DEF len
<1>3. s \in Seq(S) /\ x \in S
  BY <1>1, <1>2
<1> HIDE DEF S
<1>4. /\ Append(s, x) \in Seq(S) /\ Len(Append(s, x)) = Len(s) + 1
      /\ \A k \in 1 .. Len(s) : Append(s, x)[k] = s[k]
      /\ Append(s, x)[Len(s) + 1] = x
  BY <1>3
<1>5. /\ Append(s, x) = [k \in 1 .. Len(Append(s, x)) |-> Append(s, x)[k]]
      /\ Len(Append(s, x)) \in Nat
  <2> DEFINE a == Append(s, x)
  <2>1. a \in Seq(S)
    BY <1>4
  <2> HIDE DEF a
  <2>2. Len(a) \in Nat /\ a \in [1 .. Len(a) -> S]
    BY <2>1
  <2>3. a = [k \in 1 .. Len(a) |-> a[k]]
    BY <2>2
  <2> QED BY <2>2, <2>3 DEF a
<1> QED BY <1>4, <1>5 DEF Sequence

GlyphFields ==
  {"symbol", "look", "fade", "drawing", "effect_type", "effect_timing", "effect_skip_timing",
   "reset_effect", "linebreak", "skip", "starts_new_run", "sung", "source"}

IsGlyph(g) ==
  /\ g = [f \in GlyphFields |-> g[f]]
  /\ g.linebreak \in 0 .. 2 /\ g.effect_type \in EffectTypes

IsGlyphs(gs) == Sequence(gs) /\ \A k \in 1 .. Len(gs) : IsGlyph(gs[k])

\* Where the loops over the glyphs are, and that there is room for the lines
GInv ==
  /\ pc \in Steps
  /\ IsGlyphs(glyphs)
  /\ pc \notin {"idle", "parse"} => Length > 0
  /\ i \in Nat \ {0} /\ s1 \in Nat
  /\ pc \notin {"idle", "parse", "split"} => last_breakable \in 0 .. Length
  /\ pc = "balance" => s2 \in 0 .. Length /\ s2 < i
  /\ moved \in BOOLEAN /\ discarded \in BOOLEAN
  /\ max_lines \in Nat \ {0} /\ n_lines \in 0 .. max_lines
  /\ Sequence(lines) /\ Len(lines) <= Length
  /\ pc \in {"parse", "split", "wrap", "balance", "trim", "measure"} => lines = <<>>

LEMMA WordBounds ==
  ASSUME Length \in Nat, NEW a \in 1 .. Length, NEW b \in 1 .. Length, a < b
  PROVE  WordAfter(a, b) \in a .. b - 1 /\ LastWord(a, b) \in a .. b
<1> DEFINE R == {a} \cup {j \in a .. b - 1 : Symbol(j) # " "}
<1>0. a \in Int /\ b - 1 \in Int /\ a \in a .. b - 1
  OBVIOUS
<1>1. Rewind(a, b - 1) \in a .. b - 1
  <2>1. R \in SUBSET (a .. b - 1) /\ R # {}
    BY <1>0
  <2>2. Rewind(a, b - 1) = Max(R)
    BY DEF Rewind
  <2> HIDE DEF R
  <2>3. a \in Int /\ b - 1 \in Int
    BY <1>0
  <2>4. Max(R) \in R
    BY <2>1, <2>3, MinMaxIn
  <2> QED BY <2>1, <2>2, <2>4
<1> DEFINE r == Rewind(a, b - 1)
           W == {a} \cup {j \in a .. r : AllowBreak(j)}
<1>2. WordAfter(a, b) \in a .. b - 1
  <2>1. WordAfter(a, b) = Max(W)
    BY DEF WordAfter
  <2> HIDE DEF r
  <2>2. W \in SUBSET (a .. b - 1) /\ W # {}
    BY <1>0, <1>1 DEF r
  <2> HIDE DEF W
  <2>3. a \in Int /\ b - 1 \in Int
    BY <1>0
  <2>4. Max(W) \in W
    BY <2>2, <2>3, MinMaxIn
  <2> QED BY <2>1, <2>2, <2>4
<1>3. LastWord(a, b) \in {WordAfter(a, b), WordAfter(a, b) + 1}
  BY DEF LastWord
<1> QED BY <1>0, <1>2, <1>3

LEMMA BoundaryAhead ==
  ASSUME Length \in Nat, i \in Nat, i <= Length
  PROVE  NextBoundary \in i + 1 .. Length + 1
<1> DEFINE S == {Length + 1} \cup {k \in i + 1 .. Length : glyphs[k].linebreak # 0}
<1>1. S \in SUBSET (i + 1 .. Length + 1) /\ S # {}
  OBVIOUS
<1>2. NextBoundary = Min(S)
  BY DEF NextBoundary
<1> HIDE DEF S
<1>3. i + 1 \in Int /\ Length + 1 \in Int
  OBVIOUS
<1>4. Min(S) \in S
  BY <1>1, <1>3, MinMaxIn
<1> QED BY <1>1, <1>2, <1>4

LEMMA StartsFew ==
  ASSUME Length \in Nat \ {0}
  PROVE  /\ IsFiniteSet(Starts) /\ Cardinality(Starts) \in 1 .. Length
<1>1. Starts \in SUBSET (1 .. Length) /\ 1 \in Starts
  BY DEF Starts, Breakings
<1>2. IsFiniteSet(1 .. Length) /\ Cardinality(1 .. Length) = Length
  BY FS_Interval
<1>3. IsFiniteSet(Starts) /\ Cardinality(Starts) <= Length
  BY <1>1, <1>2, FS_Subset
<1>4. Cardinality(Starts) \in Nat /\ Cardinality(Starts) # 0
  BY <1>1, <1>3, FS_CardinalityType, FS_EmptySet
<1> QED BY <1>3, <1>4

\* The runs that karaoke has been given up to a glyph
WordFields == {"start", "type", "timing", "skip_timing", "has_reset", "words"}
WordsUpTo(w, k) ==
  /\ w = [f \in WordFields |-> w[f]]
  /\ w.start \in 0 .. k /\ w.type \in EffectTypes
  /\ Sequence(w.words) /\ \A x \in 1 .. Len(w.words) : w.words[x].type \in EffectTypes
NoWord == [start |-> 0, type |-> "NONE", timing |-> 0, skip_timing |-> 0,
           has_reset |-> FALSE, words |-> <<>>]
NextWord(w, k) == IF EndsWord(w, k) THEN EndWord(w, k) ELSE InWord(w, k)
WordsAfter(p, m) == p = [k \in 0 .. m |-> IF k = 0 THEN NoWord ELSE NextWord(p[k - 1], k)]

LEMMA NextWordTyped ==
  ASSUME IsGlyphs(glyphs), NEW k \in 1 .. Length + 1, NEW w, WordsUpTo(w, k - 1)
  PROVE  WordsUpTo(NextWord(w, k), k)
<1>0. Length \in Nat
  BY DEF IsGlyphs, Sequence, Length
<1>1. w.start \in 0 .. k /\ w.start \in 0 .. Length
  BY <1>0 DEF WordsUpTo
<1>2. CASE ~ EndsWord(w, k)
  <2>1. /\ InWord(w, k) = [f \in WordFields |-> InWord(w, k)[f]]
        /\ InWord(w, k).start = w.start /\ InWord(w, k).type = w.type
        /\ InWord(w, k).words = w.words
    BY DEF InWord, WordsUpTo, WordFields
  <2> QED BY <1>1, <1>2, <2>1 DEF NextWord, WordsUpTo
<1>3. CASE EndsWord(w, k)
  <2> DEFINE type == IF glyphs[w.start].effect_type # "NONE" THEN glyphs[w.start].effect_type
                     ELSE w.type
  <2>1. CASE w.start = 0 \/ type = "NONE"
    <3> DEFINE x == [w EXCEPT !.start = k]
    <3>1. /\ x = [f \in WordFields |-> x[f]] /\ x.start = k /\ x.type = w.type
          /\ x.words = w.words
      BY DEF WordsUpTo, WordFields
    <3>2. NextWord(w, k) = x
      BY <1>3, <2>1 DEF NextWord, EndWord
    <3> HIDE DEF x
    <3> QED BY <3>1, <3>2 DEF WordsUpTo
  <2>2. CASE ~ (w.start = 0 \/ type = "NONE")
    <3> DEFINE x == EndWord(w, k)
    <3>1. type \in EffectTypes
      <4>1. w.start \in 1 .. Length
        BY <1>0, <1>1, <2>2
      <4> QED BY <4>1 DEF IsGlyphs, IsGlyph, WordsUpTo, Length
    <3> HIDE DEF type
    <3>2. PICK timing, word :
            /\ x = [start |-> k, type |-> type, timing |-> timing, skip_timing |-> 0,
                    has_reset |-> FALSE, words |-> Append(w.words, word)]
            /\ word.type = type
      <4> DEFINE start == glyphs[w.start]
                 from == (IF start.reset_effect THEN 0 ELSE w.timing) + start.effect_skip_timing
                 till == from + start.effect_timing
                 last == [first |-> w.start, last |-> k - 1, type |-> type,
                          sung |-> <<from, IF type = "KARAOKE_KF" THEN till ELSE from>>]
                 next == (IF w.has_reset THEN 0 ELSE till) + w.skip_timing
      <4>1. last.type = type
        OBVIOUS
      <4>2. x = [start |-> k, type |-> type, timing |-> next, skip_timing |-> 0,
                 has_reset |-> FALSE, words |-> Append(w.words, last)]
        BY Zenon, <2>2 DEF EndWord, type
      <4> HIDE DEF last, next, x
      <4> QED BY <4>1, <4>2
    <3>3. NextWord(w, k) = x
      BY <1>3 DEF NextWord
    <3> HIDE DEF x
    <3>4. /\ x = [f \in WordFields |-> x[f]] /\ x.start = k /\ x.type = type
          /\ x.words = Append(w.words, word)
      BY <3>2 DEF WordFields
    <3>5. Sequence(w.words) /\ \A y \in 1 .. Len(w.words) : w.words[y].type \in EffectTypes
      BY DEF WordsUpTo
    <3>6. /\ Sequence(x.words) /\ Len(x.words) = Len(w.words) + 1
          /\ \A y \in 1 .. Len(w.words) : x.words[y] = w.words[y]
          /\ x.words[Len(w.words) + 1] = word
      <4> DEFINE ws == w.words
      <4>1. Sequence(ws)
        BY <3>5
      <4>2. x.words = Append(ws, word)
        BY <3>4
      <4> HIDE DEF ws
      <4>3. /\ Sequence(Append(ws, word)) /\ Len(Append(ws, word)) = Len(ws) + 1
            /\ \A y \in 1 .. Len(ws) : Append(ws, word)[y] = ws[y]
            /\ Append(ws, word)[Len(ws) + 1] = word
        BY <4>1, Appended
      <4> QED BY <4>2, <4>3 DEF ws
    <3>7. \A y \in 1 .. Len(x.words) : x.words[y].type \in EffectTypes
      <4>1. Len(w.words) \in Nat
        BY <3>5 DEF Sequence
      <4>2. \A y \in 1 .. Len(x.words) : y \in 1 .. Len(w.words) \/ y = Len(w.words) + 1
        BY <3>6, <4>1
      <4> QED BY <3>1, <3>2, <3>5, <3>6, <4>2
    <3>8. k \in 0 .. k
      BY <1>0
    <3> QED BY <3>1, <3>3, <3>4, <3>6, <3>7, <3>8 DEF WordsUpTo
  <2> QED BY <2>1, <2>2
<1> QED BY <1>2, <1>3

\* p is the loop, glyph by glyph.
LEMMA WordsReached ==
  ASSUME IsGlyphs(glyphs)
  PROVE  \E p : /\ p[0] = NoWord
                /\ \A k \in 1 .. Length + 1 : p[k] = NextWord(p[k - 1], k)
                /\ \A k \in 0 .. Length + 1 : WordsUpTo(p[k], k)
                /\ Words = p[Length + 1].words
<1> DEFINE len == Length + 1
           Has(m) == \E p : WordsAfter(p, m)
           Bad == {m \in 0 .. len : ~ Has(m)}
<1>0. len \in Nat
  BY DEF IsGlyphs, Sequence, Length
<1>1. Bad = {}
  <2>1. SUFFICES ASSUME Bad # {} PROVE FALSE
    OBVIOUS
  <2> HIDE DEF Has, len
  <2>2. PICK m \in Bad : \A k \in Bad : m <= k
    <3>1. Bad \in SUBSET Nat
      BY <1>0
    <3> QED BY <2>1, <3>1, Smallest
  <2>3. m \in 0 .. len /\ ~ Has(m) /\ m \in Nat
    BY <1>0
  <2>4. CASE m = 0
    <3> DEFINE p == [k \in 0 .. 0 |-> NoWord]
    <3>1. p = [k \in 0 .. 0 |-> IF k = 0 THEN NoWord ELSE NextWord(p[k - 1], k)]
      OBVIOUS
    <3> HIDE DEF p
    <3> QED BY <2>3, <2>4, <3>1 DEF Has, WordsAfter
  <2>5. CASE m > 0
    <3>1. m - 1 \in 0 .. len /\ ~ (m <= m - 1) /\ m - 1 \in Nat /\ m \in 1 .. len
      BY <1>0, <2>3, <2>5
    <3>2. Has(m - 1)
      <4>1. m - 1 \notin Bad
        BY <2>2, <3>1
      <4> QED BY <3>1, <4>1
    <3>3. PICK p : WordsAfter(p, m - 1)
      BY <3>2 DEF Has
    <3> DEFINE last == NextWord(p[m - 1], m)
               q == [k \in 0 .. m |-> IF k = m THEN last ELSE p[k]]
    <3>4. ASSUME NEW k \in 0 .. m
          PROVE  q[k] = IF k = 0 THEN NoWord ELSE NextWord(q[k - 1], k)
      <4> HIDE DEF last
      <4>1. CASE k = m
        <5>1. q[m] = last /\ q[m - 1] = p[m - 1] /\ m # 0
          BY <2>5, <3>1
        <5> QED BY <4>1, <5>1 DEF last
      <4>2. CASE k # m
        <5>1. k \in 0 .. m - 1 /\ q[k] = p[k] /\ (k # 0 => q[k - 1] = p[k - 1])
          BY <4>2, <2>3
        <5>2. p[k] = IF k = 0 THEN NoWord ELSE NextWord(p[k - 1], k)
          BY <3>3, <5>1 DEF WordsAfter
        <5> QED BY <5>1, <5>2
      <4> QED BY <4>1, <4>2
    <3>5. q = [k \in 0 .. m |-> q[k]]
      OBVIOUS
    <3> HIDE DEF q
    <3>6. WordsAfter(q, m)
      BY <3>4, <3>5 DEF WordsAfter
    <3> QED BY <2>3, <3>6 DEF Has
  <2> QED BY <2>3, <2>4, <2>5
<1>2. len \in 0 .. len
  BY <1>0
<1>3. \E p : WordsAfter(p, len)
  BY <1>1, <1>2
<1> DEFINE P == CHOOSE p : WordsAfter(p, len)
<1>4. WordsAfter(P, len)
  BY <1>3
<1>5. Words = P[len].words
  BY Zenon DEF Words, WordsAfter, NextWord, NoWord
<1> HIDE DEF P, len
<1>6. \A k \in 0 .. len : WordsUpTo(P[k], k)
  <2> DEFINE Off == {k \in 0 .. len : ~ WordsUpTo(P[k], k)}
  <2>1. SUFFICES ASSUME Off # {} PROVE FALSE
    OBVIOUS
  <2>2. PICK m \in Off : \A k \in Off : m <= k
    <3>1. Off \in SUBSET Nat
      BY <1>0
    <3> QED BY <2>1, <3>1, Smallest
  <2>3. m \in 0 .. len /\ ~ WordsUpTo(P[m], m)
    OBVIOUS
  <2>4. P[m] = IF m = 0 THEN NoWord ELSE NextWord(P[m - 1], m)
    BY <1>4, <2>3 DEF WordsAfter
  <2>5. CASE m = 0
    <3>1. NoWord = [f \in WordFields |-> NoWord[f]]
      BY DEF NoWord, WordFields
    <3>2. NoWord.start = 0 /\ NoWord.type = "NONE" /\ NoWord.words = <<>>
      BY DEF NoWord
    <3>3. WordsUpTo(NoWord, 0)
      BY <3>1, <3>2, EmptySequence DEF WordsUpTo, EffectTypes
    <3> QED BY <2>3, <2>4, <2>5, <3>3
  <2>6. CASE m # 0
    <3>1. m \in 1 .. Length + 1 /\ m - 1 \in 0 .. len /\ ~ (m <= m - 1)
      BY <1>0, <2>3, <2>6 DEF len
    <3>2. WordsUpTo(P[m - 1], m - 1)
      BY <2>2, <3>1
    <3> QED BY <2>3, <2>4, <2>6, <3>1, <3>2, NextWordTyped
  <2> QED BY <2>5, <2>6
<1>7. P[0] = NoWord /\ \A k \in 1 .. len : P[k] = NextWord(P[k - 1], k)
  BY <1>0, <1>4 DEF WordsAfter
<1> QED BY <1>5, <1>6, <1>7 DEF len

LEMMA WordsTyped ==
  ASSUME IsGlyphs(glyphs)
  PROVE  \A w \in DOMAIN Words : Words[w].type \in EffectTypes
<1>1. PICK p : /\ \A k \in 0 .. Length + 1 : WordsUpTo(p[k], k)
               /\ Words = p[Length + 1].words
  BY WordsReached
<1>2. Length + 1 \in 0 .. Length + 1
  BY DEF IsGlyphs, Sequence, Length
<1>3. Sequence(Words) /\ \A w \in 1 .. Len(Words) : Words[w].type \in EffectTypes
  BY <1>1, <1>2 DEF WordsUpTo
<1> QED BY <1>3 DEF Sequence

\* What the steps do to a glyph leaves it a glyph.
LEMMA GlyphTyped ==
  /\ CInv => \A symbol : IsGlyph(GlyphOf(state, symbol))
  /\ \A g, x : IsGlyph(g) => IsGlyph([g EXCEPT !.starts_new_run = x])
  /\ \A g, x, y : IsGlyph(g) => IsGlyph([g EXCEPT !.skip = x, !.starts_new_run = y])
  /\ \A g : \A x \in 0 .. 2 : IsGlyph(g) => IsGlyph([g EXCEPT !.linebreak = x])
  /\ \A g, word : IsGlyph(g) /\ word.type \in EffectTypes => IsGlyph(Sing(g, word))
<1>1. ASSUME CInv, NEW symbol PROVE IsGlyph(GlyphOf(state, symbol))
  <2> DEFINE x == GlyphOf(state, symbol)
  <2>1. /\ x = [f \in GlyphFields |-> x[f]] /\ x.linebreak = 0
        /\ x.effect_type = state.effect_type
    BY DEF GlyphOf, GlyphFields
  <2> HIDE DEF x
  <2>2. IsGlyph(x)
    BY <1>1, <2>1 DEF IsGlyph, CInv, Context
  <2> QED BY <2>2 DEF x
<1>2. ASSUME NEW g, NEW x, IsGlyph(g) PROVE IsGlyph([g EXCEPT !.starts_new_run = x])
  BY <1>2 DEF IsGlyph, GlyphFields
<1>3. ASSUME NEW g, NEW x, NEW y, IsGlyph(g)
      PROVE  IsGlyph([g EXCEPT !.skip = x, !.starts_new_run = y])
  BY <1>3 DEF IsGlyph, GlyphFields
<1>4. ASSUME NEW g, NEW x \in 0 .. 2, IsGlyph(g) PROVE IsGlyph([g EXCEPT !.linebreak = x])
  BY <1>4 DEF IsGlyph, GlyphFields
<1>5. ASSUME NEW g, NEW word, IsGlyph(g), word.type \in EffectTypes
      PROVE  IsGlyph(Sing(g, word))
  <2> DEFINE x == Sing(g, word)
  <2>1. /\ x = [f \in GlyphFields |-> x[f]] /\ x.linebreak = g.linebreak
        /\ x.effect_type = word.type
    BY <1>5 DEF Sing, IsGlyph, GlyphFields
  <2> HIDE DEF x
  <2>2. IsGlyph(x)
    BY <1>5, <2>1 DEF IsGlyph
  <2> QED BY <2>2 DEF x
<1> QED BY <1>1, <1>2, <1>3, <1>4, <1>5

LEMMA GlyphsOf ==
  ASSUME IsGlyphs(glyphs), NEW gs, gs = [k \in 1 .. Length |-> gs[k]],
         \A k \in 1 .. Length : IsGlyph(gs[k])
  PROVE  IsGlyphs(gs) /\ Len(gs) = Length
<1>1. Length \in Nat
  BY DEF IsGlyphs, Sequence, Length
<1>2. Sequence(gs) /\ Len(gs) = Length
  BY <1>1, SequenceOf
<1> QED BY <1>2 DEF IsGlyphs

LEMMA NoGlyphs == IsGlyphs(<<>>)
BY EmptySequence DEF IsGlyphs

LEMMA GInvInit == Init => GInv
<1> SUFFICES ASSUME Init PROVE GInv
  OBVIOUS
<1>1. Length = 0 /\ Len(lines) = 0 /\ Sequence(lines)
  BY EmptySequence DEF Init, Length
<1>2. Len(lines) <= Length
  BY <1>1
<1>3. max_lines \in Nat \ {0} /\ n_lines \in 0 .. max_lines
  BY LinesAssumption DEF Init
<1>4. /\ IsGlyphs(glyphs) /\ pc = "idle" /\ lines = <<>> /\ i = 1 /\ s1 = 1
      /\ moved = FALSE /\ discarded = FALSE
  BY NoGlyphs DEF Init
<1>5. i \in Nat \ {0} /\ s1 \in Nat
  BY <1>4
<1>6. moved \in BOOLEAN /\ discarded \in BOOLEAN /\ pc \in Steps
  BY <1>4 DEF Steps
<1> QED BY <1>1, <1>2, <1>3, <1>4, <1>5, <1>6 DEF GInv

\* The actions by which glyphs or lines come about or change
LEMMA GInvGlyph == CInv /\ GInv /\ Glyph => GInv'
<1> SUFFICES ASSUME CInv, GInv, Glyph PROVE GInv'
  OBVIOUS
<1>1. PICK symbol : glyphs' = Append(glyphs, GlyphOf(state, symbol))
  BY Zenon DEF Glyph
<1>2. IsGlyph(GlyphOf(state, symbol))
  BY GlyphTyped
<1> DEFINE g == GlyphOf(state, symbol)
<1> HIDE DEF g
<1>3. Sequence(glyphs) /\ Len(glyphs) \in Nat /\ \A k \in 1 .. Len(glyphs) : IsGlyph(glyphs[k])
  BY DEF GInv, IsGlyphs, Sequence
<1>4. /\ Sequence(glyphs') /\ Len(glyphs') = Len(glyphs) + 1
      /\ \A k \in 1 .. Len(glyphs) : glyphs'[k] = glyphs[k]
      /\ glyphs'[Len(glyphs) + 1] = g
  BY <1>1, <1>3, Appended DEF g
<1>5. \A k \in 1 .. Len(glyphs') : k \in 1 .. Len(glyphs) \/ k = Len(glyphs) + 1
  BY <1>3, <1>4
<1>6. \A k \in 1 .. Len(glyphs') : IsGlyph(glyphs'[k])
  BY <1>2, <1>3, <1>4, <1>5 DEF g
<1>7. IsGlyphs(glyphs')
  BY <1>4, <1>6 DEF IsGlyphs
<1>8. /\ pc = "parse" /\ pc' = pc
      /\ UNCHANGED <<n_lines, max_lines, discarded, i, s1, moved, lines>>
  BY DEF Glyph, breakVars, loopVars, lineVars
<1>9. lines = <<>> /\ Len(lines) = 0
  BY <1>8, EmptySequence DEF GInv
<1>10. i' \in Nat \ {0} /\ s1' \in Nat /\ moved' \in BOOLEAN /\ discarded' \in BOOLEAN
       /\ max_lines' \in Nat \ {0} /\ n_lines' \in 0 .. max_lines' /\ Sequence(lines')
       /\ pc \in Steps
  BY <1>8 DEF GInv
<1>11. Len(lines') <= Len(glyphs') /\ lines' = <<>>
  BY <1>3, <1>4, <1>8, <1>9
<1> QED BY <1>7, <1>8, <1>10, <1>11 DEF GInv, Length

LEMMA GInvSplit == GInv /\ Split => GInv'
<1> SUFFICES ASSUME GInv, Split PROVE GInv'
  OBVIOUS
<1>1. /\ glyphs' = [k \in 1 .. Length |-> glyphs'[k]]
      /\ \A k \in 1 .. Length : glyphs'[k] = [glyphs[k] EXCEPT !.starts_new_run = StartsRun(k)]
  BY DEF Split
<1>2. \A k \in 1 .. Length : IsGlyph(glyphs'[k])
  <2>1. \A k \in 1 .. Length : IsGlyph(glyphs[k])
    BY DEF GInv, IsGlyphs, Length
  <2>2. ASSUME NEW k \in 1 .. Length PROVE IsGlyph(glyphs'[k])
    <3>1. IsGlyph([glyphs[k] EXCEPT !.starts_new_run = StartsRun(k)])
      BY Zenon, <2>1, <2>2, GlyphTyped
    <3> QED BY <1>1, <2>2, <3>1
  <2> QED BY <2>2
<1>3. IsGlyphs(glyphs') /\ Len(glyphs') = Length
  BY <1>1, <1>2, GlyphsOf DEF GInv
<1>4. Length \in Nat
  BY DEF GInv, IsGlyphs, Sequence, Length
<1> QED BY <1>3, <1>4 DEF GInv, Split, lineVars, Length, Steps

LEMMA GInvWrapBreak == GInv /\ (\E fails \in BOOLEAN : WrapBreak(fails)) => GInv'
<1> SUFFICES ASSUME GInv, NEW fails \in BOOLEAN, WrapBreak(fails) PROVE GInv'
  OBVIOUS
<1> DEFINE lead == BreakAt(i) + 1
           kind(k) == IF k = lead THEN IF ForceBreak(i) THEN 2 ELSE 1
                      ELSE IF fails /\ k = s1 THEN 0 ELSE glyphs[k].linebreak
<1>1. /\ glyphs' = [k \in 1 .. Length |-> glyphs'[k]]
      /\ \A k \in 1 .. Length : glyphs'[k] = [glyphs[k] EXCEPT !.linebreak = kind(k)]
  BY DEF WrapBreak
<1>2. \A k \in 1 .. Length : IsGlyph(glyphs[k]) /\ kind(k) \in 0 .. 2
  BY DEF GInv, IsGlyphs, IsGlyph, Length
<1> HIDE DEF kind
<1>3. \A k \in 1 .. Length : IsGlyph(glyphs'[k])
  <2>1. ASSUME NEW k \in 1 .. Length PROVE IsGlyph(glyphs'[k])
    <3>1. IsGlyph([glyphs[k] EXCEPT !.linebreak = kind(k)])
      BY Zenon, <1>2, <2>1, GlyphTyped
    <3> QED BY <1>1, <2>1, <3>1
  <2> QED BY <2>1
<1>4. IsGlyphs(glyphs') /\ Len(glyphs') = Length
  BY <1>1, <1>3, GlyphsOf DEF GInv
<1>5. Length \in Nat
  BY DEF GInv, IsGlyphs, Sequence, Length
<1>6. BreakAt(i) \in 1 .. Length - 1 /\ s1' = BreakAt(i) + 1
  BY Zenon DEF WrapBreak, Breaks
<1>7. /\ max_lines' = (IF NoRoom THEN 2 * max_lines ELSE max_lines)
      /\ n_lines' = (IF fails THEN n_lines ELSE n_lines + 1)
      /\ discarded' = (discarded \/ fails) /\ i' = i + 1 /\ last_breakable' = 0
      /\ pc = "wrap" /\ pc' = pc /\ lines' = lines /\ moved' = moved
  <2>1. PICK grow \in {NoRoom} : max_lines' = IF grow THEN 2 * max_lines ELSE max_lines
    BY Zenon DEF WrapBreak
  <2>2. grow = NoRoom
    OBVIOUS
  <2>3. /\ n_lines' = (IF fails THEN n_lines ELSE n_lines + 1)
        /\ discarded' = (discarded \/ fails) /\ i' = i + 1 /\ last_breakable' = 0
        /\ pc = "wrap" /\ pc' = pc /\ lines' = lines /\ moved' = moved
    BY Zenon DEF WrapBreak, lineVars
  <2> QED BY <2>1, <2>2, <2>3
<1>8. max_lines' \in Nat \ {0} /\ n_lines' \in 0 .. max_lines'
  BY <1>7 DEF GInv, NoRoom
<1>9. s1' \in Nat /\ i' \in Nat \ {0} /\ last_breakable' \in 0 .. Len(glyphs')
  BY <1>4, <1>5, <1>6, <1>7 DEF GInv
<1>10. discarded' \in BOOLEAN /\ moved' \in BOOLEAN /\ pc' \in Steps
  BY <1>7 DEF GInv
<1>11. Sequence(lines') /\ Len(lines') <= Len(glyphs') /\ lines' = <<>> /\ Len(glyphs') > 0
  BY <1>4, <1>7 DEF GInv, Length
<1> QED BY <1>4, <1>7, <1>8, <1>9, <1>10, <1>11 DEF GInv, Length

LEMMA GInvBalance == GInv /\ Balance => GInv'
<1> SUFFICES ASSUME GInv, Balance PROVE GInv'
  OBVIOUS
<1>1. Length \in Nat /\ i \in 1 .. Length /\ s2 \in 0 .. Length /\ s2 < i
  BY DEF GInv, IsGlyphs, Sequence, Length, Balance
<1>2. NextBoundary \in i + 1 .. Length + 1
  BY <1>1, BoundaryAhead
<1>3. /\ i' = NextBoundary /\ pc = "balance" /\ pc' = pc
      /\ UNCHANGED <<n_lines, max_lines, discarded, s1, last_breakable, lines>>
  BY DEF Balance, breakVars, lineVars
<1>4. /\ IsGlyphs(glyphs') /\ Len(glyphs') = Length
      /\ s2' \in 0 .. Length /\ s2' < NextBoundary /\ moved' \in BOOLEAN
  <2>1. CASE s2 # 0 /\ glyphs[i].linebreak = 1 /\ Better(s2, i, NextBoundary)
    <3> DEFINE word == LastWord(s2, i)
               kind(k) == IF k = i THEN 0 ELSE IF k = word THEN 1 ELSE glyphs[k].linebreak
    <3>1. /\ glyphs' = [k \in 1 .. Length |-> glyphs'[k]]
          /\ \A k \in 1 .. Length : glyphs'[k] = [glyphs[k] EXCEPT !.linebreak = kind(k)]
          /\ s2' = word /\ moved' = TRUE
      BY <2>1 DEF Balance
    <3>2. \A k \in 1 .. Length : IsGlyph(glyphs[k]) /\ kind(k) \in 0 .. 2
      BY DEF GInv, IsGlyphs, IsGlyph, Length
    <3>3. word \in s2 .. i
      BY <1>1, <2>1, WordBounds
    <3> HIDE DEF kind, word
    <3>4. \A k \in 1 .. Length : IsGlyph(glyphs'[k])
      <4>1. ASSUME NEW k \in 1 .. Length PROVE IsGlyph(glyphs'[k])
        <5>1. IsGlyph([glyphs[k] EXCEPT !.linebreak = kind(k)])
          BY Zenon, <3>2, <4>1, GlyphTyped
        <5> QED BY <3>1, <4>1, <5>1
      <4> QED BY <4>1
    <3>5. IsGlyphs(glyphs') /\ Len(glyphs') = Length
      BY <3>1, <3>4, GlyphsOf DEF GInv
    <3> QED BY <1>1, <1>2, <3>1, <3>3, <3>5
  <2>2. CASE ~ (s2 # 0 /\ glyphs[i].linebreak = 1 /\ Better(s2, i, NextBoundary))
    <3>1. s2' = i /\ glyphs' = glyphs /\ moved' = moved
      BY <2>2 DEF Balance
    <3> QED BY <1>1, <1>2, <3>1 DEF GInv, Length
  <2> QED BY <2>1, <2>2
<1> QED BY <1>1, <1>2, <1>3, <1>4 DEF GInv, Length

LEMMA GInvTrim == GInv /\ Trim => GInv'
<1> SUFFICES ASSUME GInv, Trim PROVE GInv'
  OBVIOUS
<1>1. /\ glyphs' = [k \in 1 .. Length |-> glyphs'[k]]
      /\ \A k \in 1 .. Length : glyphs'[k] = [glyphs[k] EXCEPT !.skip = k \in Trimmed,
           !.starts_new_run = glyphs[k].starts_new_run \/ k \in LineRuns]
  BY DEF Trim
<1>2. \A k \in 1 .. Length : IsGlyph(glyphs'[k])
  <2>1. \A k \in 1 .. Length : IsGlyph(glyphs[k])
    BY DEF GInv, IsGlyphs, Length
  <2>2. ASSUME NEW k \in 1 .. Length PROVE IsGlyph(glyphs'[k])
    <3>1. IsGlyph([glyphs[k] EXCEPT !.skip = k \in Trimmed,
                     !.starts_new_run = glyphs[k].starts_new_run \/ k \in LineRuns])
      BY Zenon, <2>1, <2>2, GlyphTyped
    <3> QED BY <1>1, <2>2, <3>1
  <2> QED BY <2>2
<1>3. IsGlyphs(glyphs') /\ Len(glyphs') = Length
  BY <1>1, <1>2, GlyphsOf DEF GInv
<1>4. Length \in Nat
  BY DEF GInv, IsGlyphs, Sequence, Length
<1> QED BY <1>3, <1>4 DEF GInv, Trim, breakVars, loopVars, lineVars, Length, Steps

LEMMA GInvKaraoke == GInv /\ Karaoke => GInv'
<1> SUFFICES ASSUME GInv, Karaoke PROVE GInv'
  OBVIOUS
<1> DEFINE Sung(k) == {w \in DOMAIN Words : k \in Words[w].first .. Words[w].last}
<1>1. /\ glyphs' = [k \in 1 .. Length |-> glyphs'[k]]
      /\ \A k \in 1 .. Length :
           \/ glyphs'[k] = glyphs[k]
           \/ \E w \in DOMAIN Words : glyphs'[k] = Sing(glyphs[k], Words[w])
  <2> DEFINE singer(k) == CHOOSE w \in DOMAIN Words : k \in Words[w].first .. Words[w].last
  <2>1. glyphs' = [k \in 1 .. Length |->
          IF \E w \in DOMAIN Words : k \in Words[w].first .. Words[w].last
            THEN Sing(glyphs[k], Words[singer(k)]) ELSE glyphs[k]]
    BY DEF Karaoke
  <2>2. ASSUME NEW k, \E w \in DOMAIN Words : k \in Words[w].first .. Words[w].last
        PROVE  singer(k) \in DOMAIN Words
    BY <2>2
  <2> HIDE DEF singer
  <2> QED BY <2>1, <2>2
<1>2. \A w \in DOMAIN Words : Words[w].type \in EffectTypes
  BY WordsTyped DEF GInv
<1>3. \A k \in 1 .. Length : IsGlyph(glyphs'[k])
  <2>1. \A k \in 1 .. Length : IsGlyph(glyphs[k])
    BY DEF GInv, IsGlyphs, Length
  <2>2. ASSUME NEW k \in 1 .. Length PROVE IsGlyph(glyphs'[k])
    <3>1. CASE glyphs'[k] = glyphs[k]
      BY <2>1, <2>2, <3>1
    <3>2. ASSUME NEW w \in DOMAIN Words, glyphs'[k] = Sing(glyphs[k], Words[w])
          PROVE  IsGlyph(glyphs'[k])
      <4>1. IsGlyph(Sing(glyphs[k], Words[w]))
        BY Zenon, <1>2, <2>1, <2>2, <3>2, GlyphTyped
      <4> QED BY <3>2, <4>1
    <3> QED BY <1>1, <2>2, <3>1, <3>2
  <2> QED BY <2>2
<1>4. IsGlyphs(glyphs') /\ Len(glyphs') = Length
  BY <1>1, <1>3, GlyphsOf DEF GInv
<1>5. Length \in Nat
  BY DEF GInv, IsGlyphs, Sequence, Length
<1> QED BY <1>4, <1>5 DEF GInv, Karaoke, breakVars, loopVars, lineVars, Length, Steps

LEMMA GInvMeasure == GInv /\ Measure => GInv'
<1> SUFFICES ASSUME GInv, Measure PROVE GInv'
  OBVIOUS
<1> DEFINE len == Cardinality(Starts)
<1>1. Length \in Nat \ {0}
  BY DEF GInv, IsGlyphs, Sequence, Length, Measure
<1>2. len \in 1 .. Length
  BY <1>1, StartsFew
<1>3. lines' = [l \in 1 .. len |-> lines'[l]]
  BY DEF Measure
<1> HIDE DEF len
<1>4. Sequence(lines') /\ Len(lines') = len
  BY <1>2, <1>3, SequenceOf
<1>5. /\ pc = "measure" /\ pc' = "karaoke"
      /\ UNCHANGED <<glyphs, n_lines, max_lines, discarded, i, s1, last_breakable, moved>>
  BY DEF Measure, textVars, breakVars, loopVars
<1>6. Len(lines') <= Length
  BY <1>1, <1>2, <1>4
<1> QED BY <1>1, <1>4, <1>5, <1>6 DEF GInv, Length, Steps

\* The lines stay as many when they are moved.
LEMMA GInvMoved ==
  ASSUME GInv, pc \in {"reorder", "align"}, pc' \in {"align", "done"},
         lines' = [l \in DOMAIN lines |-> lines'[l]],
         UNCHANGED <<glyphs, n_lines, max_lines, discarded, i, s1, last_breakable, s2, moved>>
  PROVE  GInv'
<1>1. Sequence(lines) /\ Len(lines) \in Nat
  BY DEF GInv, Sequence
<1>2. DOMAIN lines = 1 .. Len(lines)
  BY <1>1 DEF Sequence
<1> DEFINE len == Len(lines)
<1>3. len \in Nat /\ lines' = [l \in 1 .. len |-> lines'[l]]
  BY <1>1, <1>2
<1> HIDE DEF len
<1>4. Sequence(lines') /\ Len(lines') = len
  BY <1>3, SequenceOf
<1> QED BY <1>4 DEF GInv, Length, Steps, len

LEMMA GInvNext == CInv /\ GInv /\ [Next]_vars => GInv'
<1> SUFFICES ASSUME CInv, GInv, [Next]_vars PROVE GInv'
  OBVIOUS
<1>0. Length \in Nat /\ Len(<<>>) = 0 /\ Sequence(<<>>) /\ IsGlyphs(<<>>)
  BY EmptySequence, NoGlyphs DEF GInv, IsGlyphs, Sequence, Length
<1>1. CASE UNCHANGED vars
  BY <1>1 DEF vars, textVars, breakVars, loopVars, lineVars, runVars, GInv, Length
<1>2. ASSUME GiveUp, pc \in {"parse", "split"} PROVE GInv'
  BY <1>0, <1>2 DEF GiveUp, breakVars, loopVars, lineVars, GInv, Length, Steps
<1>3. CASE Begin
  <2>1. /\ pc' = "parse" /\ glyphs' = <<>> /\ lines' = <<>> /\ discarded' = FALSE
        /\ UNCHANGED <<n_lines, max_lines, i, s1, moved>>
    BY <1>3 DEF Begin, loopVars
  <2>2. Length' = 0 /\ Len(lines') <= Length' /\ IsGlyphs(glyphs') /\ Sequence(lines')
    BY <1>0, <2>1 DEF Length
  <2> QED BY <2>1, <2>2 DEF GInv, Steps
<1>4. CASE Block
  BY <1>4 DEF Block, breakVars, loopVars, lineVars, GInv, Length, Steps
<1>5. CASE Glyph
  BY <1>5, GInvGlyph
<1>6. CASE GlyphFails
  BY <1>2, <1>6 DEF GlyphFails
<1>7. CASE TextEnd
  <2>1. CASE glyphs = <<>>
    BY <1>2, <1>7, <2>1 DEF TextEnd
  <2>2. CASE glyphs # <<>>
    <3>1. Length > 0
      <4>1. Length = 0 => glyphs = <<>>
        <5>1. Sequence(glyphs)
          BY DEF GInv, IsGlyphs
        <5> QED BY <1>0, <5>1 DEF Sequence, Length
      <4> QED BY <1>0, <2>2, <4>1
    <3> QED BY <1>7, <2>2, <3>1
         DEF TextEnd, textVars, breakVars, loopVars, lineVars, GInv, Length, Steps
  <2> QED BY <2>1, <2>2
<1>8. CASE Split
  BY <1>8, GInvSplit
<1>9. CASE ShapingFails
  BY <1>2, <1>9 DEF ShapingFails
<1>10. CASE WrapGlyph
  BY <1>0, <1>10 DEF WrapGlyph, textVars, breakVars, lineVars, GInv, Length, Steps
<1>11. CASE \E fails \in BOOLEAN : WrapBreak(fails)
  BY <1>11, GInvWrapBreak
<1>12. CASE WrapEnd
  <2>1. /\ pc = "wrap" /\ pc' \in {"trim", "balance"} /\ i' = 1 /\ s2' = 0 /\ moved' = FALSE
        /\ UNCHANGED <<glyphs, n_lines, max_lines, discarded, s1, last_breakable, lines>>
    BY <1>12 DEF WrapEnd, textVars, breakVars, lineVars
  <2>2. i' \in Nat \ {0} /\ s2' < i' /\ s2' \in 0 .. Len(glyphs)
    BY <1>0, <2>1 DEF Length
  <2>3. pc' \in Steps /\ moved' \in BOOLEAN
    BY <2>1 DEF Steps
  <2> QED BY <1>0, <2>1, <2>2, <2>3 DEF GInv, Length
<1>13. CASE Balance
  BY <1>13, GInvBalance
<1>14. CASE BalanceEnd
  <2>1. /\ pc = "balance" /\ pc' \in {"trim", "balance"} /\ i' = 1 /\ s2' = 0 /\ moved' = FALSE
        /\ UNCHANGED <<glyphs, n_lines, max_lines, discarded, s1, last_breakable, lines>>
    BY <1>14 DEF BalanceEnd, textVars, breakVars, lineVars
  <2>2. i' \in Nat \ {0} /\ s2' < i' /\ s2' \in 0 .. Len(glyphs)
    BY <1>0, <2>1 DEF Length
  <2>3. pc' \in Steps /\ moved' \in BOOLEAN
    BY <2>1 DEF Steps
  <2> QED BY <1>0, <2>1, <2>2, <2>3 DEF GInv, Length
<1>15. CASE Trim
  BY <1>15, GInvTrim
<1>16. CASE Measure
  BY <1>16, GInvMeasure
<1>17. CASE Karaoke
  BY <1>17, GInvKaraoke
<1>18. CASE Reorder
  BY <1>18, GInvMoved DEF Reorder, textVars, breakVars, loopVars
<1>19. CASE AlignLines
  BY <1>19, GInvMoved DEF AlignLines, textVars, breakVars, loopVars
<1>20. CASE End
  BY <1>0, <1>20 DEF End, breakVars, loopVars, lineVars, GInv, Length, Steps
<1> QED
  BY <1>1, <1>3, <1>4, <1>5, <1>6, <1>7, <1>8, <1>9, <1>10, <1>11, <1>12, <1>13, <1>14, <1>15,
     <1>16, <1>17, <1>18, <1>19, <1>20 DEF Next

\* Every event that is rendered goes through the steps with the context, the
\* glyphs and the marks of line breaks that the steps expect (ass_render_event).
THEOREM TypesOK == Spec => []TypeOK
<1>1. Init => CInv /\ GInv
  BY CInvInit, GInvInit
<1>2. (CInv /\ GInv) /\ [Next]_vars => (CInv /\ GInv)'
  BY CInvNext, GInvNext
<1>3. CInv /\ GInv => TypeOK
  <2> SUFFICES ASSUME CInv, GInv PROVE TypeOK
    OBVIOUS
  <2>1. DOMAIN state = DOMAIN EmptyContext /\ DOMAIN state.look = LookFields
    <3>1. DOMAIN state = Fields /\ DOMAIN EmptyContext = Fields
      BY EmptyIsContext DEF CInv, Context
    <3> QED BY <3>1 DEF CInv, Context
  <2>2. \A k \in DOMAIN glyphs :
          glyphs[k].linebreak \in 0 .. 2 /\ glyphs[k].effect_type \in EffectTypes
    <3>1. DOMAIN glyphs = 1 .. Len(glyphs)
      BY DEF GInv, IsGlyphs, Sequence
    <3> QED BY <3>1 DEF GInv, IsGlyphs, IsGlyph
  <2>3. s2 \in 0 .. Length /\ moved \in BOOLEAN
    BY DEF CInv, GInv, IsGlyphs, Sequence, Length
  <2>4. state.detect_collisions => state.evt_type = {} /\ ~state.have_origin
    BY DEF CInv, Context
  <2> QED BY <2>1, <2>2, <2>3, <2>4 DEF TypeOK, CInv, GInv
<1> QED BY <1>1, <1>2, <1>3, PTL DEF Spec

-----------------------------------------------------------------------------
(* What an event looks like is a function of the event.  The definitions   *)
(* of Event are taken for values instead of variables; with them a step    *)
(* of the rendering is a function of what the context has got so far.      *)

Reading(st, a) == INSTANCE Event WITH
  state <- st, at <- a,
  session <- 0, n <- 0, pc <- 0, glyphs <- 0, n_lines <- 0, max_lines <- 0, allocated <- 0,
  i <- 0, s1 <- 0, last_breakable <- 0, s2 <- 0, moved <- 0, lines <- 0, height <- 0,
  discarded <- 0, rendered <- 0
Breaking(sn, st, g, k, s, b) == INSTANCE Event WITH
  session <- sn, state <- st, glyphs <- g, i <- k, s1 <- s, last_breakable <- b,
  n <- 0, pc <- 0, at <- 0, n_lines <- 0, max_lines <- 0, allocated <- 0,
  s2 <- 0, moved <- 0, lines <- 0, height <- 0, discarded <- 0, rendered <- 0
Setting(sn, st, g, ln) == INSTANCE Event WITH
  session <- sn, state <- st, glyphs <- g, lines <- ln,
  n <- 0, pc <- 0, at <- 0, n_lines <- 0, max_lines <- 0, allocated <- 0,
  i <- 0, s1 <- 0, last_breakable <- 0, s2 <- 0, moved <- 0, height <- 0,
  discarded <- 0, rendered <- 0

\* Outcome of any context
Settled(c) ==
  IF c.clip_drawing_text = 0 THEN [c EXCEPT !.clip_drawing_mode = FALSE] ELSE c

\* What there is of an event
Stage(step, ctx, a, g, ln, k, s, b, t, mv) ==
  [step |-> step, ctx |-> ctx, at |-> a, glyphs |-> g, lines |-> ln, i |-> k, s1 |-> s,
   last |-> b, s2 |-> t, moved |-> mv]

\* ... of the one in progress: what the event before has left in the variables of
\* the loops does not count.
Loop(step, k) == IF step \in {"parse", "split"} THEN 0 ELSE k
Now == Stage(pc, Settled(state), at, glyphs, lines, Loop(pc, i), Loop(pc, s1),
             Loop(pc, last_breakable), s2, moved)

\* The actions, of values
GlyphsBroken(g, lead, kind) ==
  [k \in 1 .. Len(g) |-> [g[k] EXCEPT !.linebreak = IF k = lead THEN kind ELSE @]]
GlyphsSplit(g) ==
  [k \in 1 .. Len(g) |-> [g[k] EXCEPT !.starts_new_run = Setting(0, 0, g, 0)!StartsRun(k)]]
GlyphsBalanced(g, old, new) ==
  [k \in 1 .. Len(g) |-> [g[k] EXCEPT !.linebreak = IF k = old THEN 0 ELSE IF k = new THEN 1 ELSE @]]
GlyphsTrimmed(g) ==
  [k \in 1 .. Len(g) |-> [g[k] EXCEPT
    !.skip = k \in Setting(0, 0, g, 0)!Trimmed,
    !.starts_new_run = @ \/ k \in Setting(0, 0, g, 0)!LineRuns]]
GlyphsSung(st, g) ==
  LET words == Setting(0, 0, g, 0)!Words
  IN  [k \in 1 .. Len(g) |->
         IF \E w \in DOMAIN words : k \in words[w].first .. words[w].last
           THEN Setting(0, st, g, 0)!Sing(g[k], words[CHOOSE w \in DOMAIN words :
                                               k \in words[w].first .. words[w].last])
           ELSE g[k]]
LinesMeasured(g) ==
  [l \in 1 .. Cardinality(Setting(0, 0, g, 0)!Starts) |->
     Setting(0, 0, g, 0)!LineFrom(Setting(0, 0, g, 0)!StartOf(l))]
LinesReordered(ln) ==
  [l \in DOMAIN ln |-> [ln[l] EXCEPT !.y =
     SumTo([m \in DOMAIN ln |-> IF m = 1 THEN 0
              ELSE ln[m - 1].desc + ln[m].asc + line_spacing], l)]]
LinesAligned(sn, halign, scrolls, justify, g, ln) ==
  [l \in DOMAIN ln |-> [ln[l] EXCEPT !.x =
     IF scrolls THEN Setting(sn, 0, g, ln)!Shift(l, 1, halign)
                ELSE Setting(sn, 0, g, ln)!Shift(l, halign, justify)]]

Read(c) ==
  LET text == c.ctx.event.Text
      next == Settled(WithoutEffect(c.ctx))
  IN  IF c.at > Len(text) THEN Stage("split", c.ctx, c.at, c.glyphs, c.lines, 0, 0, 0, c.s2, c.moved)
      ELSE IF Reading(c.ctx, c.at)!IsBlock(c.at) THEN
        Stage("parse", Settled(ParseTags(c.ctx, text[c.at].tags)), c.at + 1, c.glyphs, c.lines,
              0, 0, 0, c.s2, c.moved)
      ELSE IF c.ctx.drawing_scale # 0 THEN
        Stage("parse", next, Reading(c.ctx, c.at)!NextBlock,
              Append(c.glyphs, Reading(c.ctx, c.at)!GlyphOf(c.ctx, "drawing")), c.lines,
              0, 0, 0, c.s2, c.moved)
      ELSE
        Stage("parse", next, c.at + 1,
              Append(c.glyphs, Reading(c.ctx, c.at)!GlyphOf(c.ctx,
                                 NextChar(c.ctx, text[c.at].symbol))), c.lines,
              0, 0, 0, c.s2, c.moved)

Wrapped(sn, c) ==
  LET lead == Breaking(sn, c.ctx, c.glyphs, c.i, c.s1, c.last)!BreakAt(c.i) + 1
      forced == Breaking(sn, c.ctx, c.glyphs, c.i, c.s1, c.last)!ForceBreak(c.i)
      allowed == Breaking(sn, c.ctx, c.glyphs, c.i, c.s1, c.last)!AllowBreak(c.i)
  IN  IF c.i > Len(c.glyphs) THEN
        Stage(IF c.ctx.wrap_style = 1 THEN "trim" ELSE "balance", c.ctx, c.at, c.glyphs, c.lines,
              1, c.s1, c.last, 0, FALSE)
      ELSE IF Breaking(sn, c.ctx, c.glyphs, c.i, c.s1, c.last)!Breaks(c.i) THEN
        Stage("wrap", c.ctx, c.at, GlyphsBroken(c.glyphs, lead, IF forced THEN 2 ELSE 1), c.lines,
              c.i + 1, lead, 0, c.s2, c.moved)
      ELSE
        Stage("wrap", c.ctx, c.at, c.glyphs, c.lines, c.i + 1, c.s1,
              IF allowed THEN c.i ELSE c.last, c.s2, c.moved)

Balanced(sn, c) ==
  LET next == Breaking(0, 0, c.glyphs, c.i, 0, 0)!NextBoundary
      word == Breaking(sn, 0, c.glyphs, 0, 0, 0)!LastWord(c.s2, c.i)
  IN  IF c.i > Len(c.glyphs) THEN
        Stage(IF c.moved THEN "balance" ELSE "trim", c.ctx, c.at, c.glyphs, c.lines,
              1, c.s1, c.last, 0, FALSE)
      ELSE IF /\ c.s2 # 0 /\ c.glyphs[c.i].linebreak = 1
              /\ Breaking(sn, 0, c.glyphs, 0, 0, 0)!Better(c.s2, c.i, next) THEN
        Stage("balance", c.ctx, c.at, GlyphsBalanced(c.glyphs, c.i, word), c.lines,
              next, c.s1, c.last, word, TRUE)
      ELSE
        Stage("balance", c.ctx, c.at, c.glyphs, c.lines, next, c.s1, c.last, c.i, c.moved)

\* From the glyphs and the lines there are to the next step
Set(c, step, g, ln) == Stage(step, c.ctx, c.at, g, ln, c.i, c.s1, c.last, c.s2, c.moved)

\* One step
Step(sn, c) ==
  CASE c.step = "parse" -> Read(c)
    [] c.step = "split" -> Stage("wrap", c.ctx, c.at, GlyphsSplit(c.glyphs), c.lines,
                                 1, 1, 0, c.s2, c.moved)
    [] c.step = "wrap" -> Wrapped(sn, c)
    [] c.step = "balance" -> Balanced(sn, c)
    [] c.step = "trim" -> Set(c, "measure", GlyphsTrimmed(c.glyphs), c.lines)
    [] c.step = "measure" -> Set(c, "karaoke", c.glyphs, LinesMeasured(c.glyphs))
    [] c.step = "karaoke" -> Set(c, "reorder", GlyphsSung(c.ctx, c.glyphs), c.lines)
    [] c.step = "reorder" -> Set(c, "align", c.glyphs, LinesReordered(c.lines))
    [] c.step = "align" -> Set(c, "done", c.glyphs,
         LinesAligned(sn, c.ctx.alignment % 4, "HSCROLL" \in c.ctx.evt_type,
                      c.ctx.justify, c.glyphs, c.lines))

LEMMA SettledSame ==
  ASSUME NEW c, Context(c)
  PROVE  /\ Alike(c, Settled(c)) /\ Context(Settled(c))
         /\ \A f \in Fields \ {"clip_drawing_mode"} : Settled(c)[f] = c[f]
<1> DEFINE x == [c EXCEPT !.clip_drawing_mode = FALSE]
<1>1. c = [f \in Fields |-> c[f]]
  BY DEF Context
<1>2. /\ x = [f \in Fields |-> x[f]]
      /\ \A f \in Fields \ {"clip_drawing_mode"} : x[f] = c[f]
  BY <1>1
<1>3. c.clip_drawing_text = 0 => Settled(c) = x
  BY DEF Settled
<1>4. c.clip_drawing_text # 0 => Settled(c) = c
  BY DEF Settled
<1> HIDE DEF x
<1>5. Context(x)
  BY <1>2 DEF Context, Fields
<1> QED BY <1>2, <1>3, <1>4, <1>5 DEF Alike, Fields

LEMMA AlikeSettled ==
  ASSUME NEW c, NEW d, Alike(c, d)
  PROVE  Settled(c) = Settled(d)
<1> DEFINE x == [c EXCEPT !.clip_drawing_mode = FALSE]
           y == [d EXCEPT !.clip_drawing_mode = FALSE]
<1>1. /\ c = [f \in Fields |-> c[f]] /\ d = [f \in Fields |-> d[f]]
      /\ \A f \in Fields \ {"clip_drawing_mode"} : c[f] = d[f]
  BY DEF Alike, Context
<1>2. c.clip_drawing_text = d.clip_drawing_text
  BY <1>1 DEF Fields
<1>3. CASE c.clip_drawing_text = 0
  <2>1. x = [f \in Fields |-> x[f]] /\ y = [f \in Fields |-> y[f]]
    BY <1>1
  <2>2. \A f \in Fields : x[f] = y[f]
    BY <1>1
  <2> HIDE DEF x, y
  <2>3. x = y
    BY <2>1, <2>2
  <2> QED BY <1>2, <1>3, <2>3 DEF Settled, x, y
<1>4. CASE c.clip_drawing_text # 0
  <2>1. \A f \in Fields : c[f] = d[f]
    BY <1>1, <1>4 DEF Alike
  <2>2. c = d
    BY <1>1, <2>1
  <2> QED BY <2>2
<1> QED BY <1>3, <1>4

\* The definitions, taken for the values of the variables, are the definitions.
LEMMA ReadSame ==
  ASSUME CInv
  PROVE  /\ Reading(Settled(state), at)!IsBlock(at) = IsBlock(at)
         /\ Reading(Settled(state), at)!NextBlock = NextBlock
         /\ \A symbol : Reading(Settled(state), at)!GlyphOf(Settled(state), symbol)
                        = GlyphOf(state, symbol)
         /\ \A symbol : NextChar(Settled(state), symbol) = NextChar(state, symbol)
<1> DEFINE st == Settled(state)
<1>1. /\ st.event = state.event /\ st.look = state.look /\ st.fade = state.fade
      /\ st.drawing_scale = state.drawing_scale /\ st.pbo = state.pbo
      /\ st.effect_type = state.effect_type /\ st.effect_timing = state.effect_timing
      /\ st.effect_skip_timing = state.effect_skip_timing
      /\ st.reset_effect = state.reset_effect /\ st.wrap_style = state.wrap_style
  BY SettledSame DEF CInv, Fields
<1> HIDE DEF st
<1>2. Reading(st, at)!NextBlock = NextBlock
  <2> DEFINE A == {k \in at .. Len(st.event.Text) : st.event.Text[k].symbol = ""}
             B == {k \in at .. Len(state.event.Text) : state.event.Text[k].symbol = ""}
  <2>1. A = B
    BY <1>1
  <2>2. Reading(st, at)!NextBlock = IF A = {} THEN Len(st.event.Text) + 1 ELSE Min(A)
    BY DEF Reading!NextBlock, Reading!IsBlock, Reading!IsTags, Reading!Text, Reading!Min, Min,
           IsTags
  <2>3. NextBlock = IF B = {} THEN Len(state.event.Text) + 1 ELSE Min(B)
    BY DEF NextBlock, IsBlock, IsTags, Text
  <2> HIDE DEF A, B
  <2> QED BY <1>1, <2>1, <2>2, <2>3
<1>3. ASSUME NEW symbol
      PROVE  Reading(st, at)!GlyphOf(st, symbol) = GlyphOf(state, symbol)
  BY <1>1 DEF Reading!GlyphOf, GlyphOf
<1>4. ASSUME NEW symbol
      PROVE  NextChar(st, symbol) = NextChar(state, symbol)
  BY <1>1 DEF NextChar
<1>5. Reading(st, at)!IsBlock(at) = IsBlock(at)
  BY Zenon, <1>1 DEF Reading!IsBlock, Reading!IsTags, Reading!Text, IsBlock, IsTags, Text
<1> QED BY <1>2, <1>3, <1>4, <1>5 DEF st

LEMMA BreakSame ==
  ASSUME NEW st, st.wrap_style = state.wrap_style, NEW k, NEW s, NEW b
  PROVE  /\ Breaking(session, st, glyphs, i, s1, last_breakable)!Breaks(k) = Breaks(k)
         /\ Breaking(session, st, glyphs, i, s1, last_breakable)!BreakAt(k) = BreakAt(k)
         /\ Breaking(session, st, glyphs, i, s1, last_breakable)!ForceBreak(k) = ForceBreak(k)
         /\ Breaking(session, st, glyphs, i, s1, last_breakable)!AllowBreak(k) = AllowBreak(k)
         /\ Breaking(0, 0, glyphs, i, 0, 0)!NextBoundary = NextBoundary
         /\ Breaking(session, 0, glyphs, 0, 0, 0)!LastWord(s, k) = LastWord(s, k)
         /\ Breaking(session, 0, glyphs, 0, 0, 0)!Better(s, k, b) = Better(s, k, b)
<1>1. Breaking(session, st, glyphs, i, s1, last_breakable)!Overflows(k) = Overflows(k)
  BY DEF Breaking!Overflows, Breaking!Right, Breaking!Left, Breaking!Ink, Breaking!Advance,
     Breaking!Symbol, Breaking!SumTo, Breaking!Length, Overflows, Right, Left, Ink, Advance,
     Symbol, SumTo, Length
<1>2. Breaking(session, st, glyphs, i, s1, last_breakable)!ForceBreak(k) = ForceBreak(k)
  BY DEF Breaking!ForceBreak, Breaking!Symbol, ForceBreak, Symbol
<1>3. Breaking(session, st, glyphs, i, s1, last_breakable)!AllowBreak(k) = AllowBreak(k)
  BY DEF Breaking!AllowBreak, Breaking!Symbol, Breaking!Length, AllowBreak, Symbol, Length
<1>4. Breaking(session, st, glyphs, i, s1, last_breakable)!BreakAt(k) = BreakAt(k)
  BY <1>1, <1>2 DEF Breaking!BreakAt, BreakAt
<1>5. Breaking(session, st, glyphs, i, s1, last_breakable)!Breaks(k) = Breaks(k)
  BY <1>4 DEF Breaking!Breaks, Breaks, Breaking!Length, Length
<1>6. Breaking(0, 0, glyphs, i, 0, 0)!NextBoundary = NextBoundary
  BY DEF Breaking!NextBoundary, NextBoundary, Breaking!Length, Length, Breaking!Min, Min
<1>7. Breaking(session, 0, glyphs, 0, 0, 0)!LastWord(s, k) = LastWord(s, k)
  BY DEF Breaking!LastWord, Breaking!WordAfter, Breaking!Rewind, Breaking!AllowBreak,
     Breaking!Symbol, Breaking!Length, Breaking!Max,
     LastWord, WordAfter, Rewind, AllowBreak, Symbol, Length, Max
<1>8. Breaking(session, 0, glyphs, 0, 0, 0)!Better(s, k, b) = Better(s, k, b)
  BY DEF Breaking!Better, Breaking!LastWord, Breaking!WordAfter, Breaking!Rewind,
     Breaking!AllowBreak, Breaking!Right, Breaking!Left, Breaking!Ink, Breaking!Advance,
     Breaking!Apart, Breaking!SumTo, Breaking!Symbol, Breaking!Length, Breaking!Max,
     Better, LastWord, WordAfter, Rewind, AllowBreak, Right, Left, Ink, Advance, Apart, SumTo,
     Symbol, Length, Max
<1> QED BY <1>2, <1>3, <1>4, <1>5, <1>6, <1>7, <1>8

LEMMA GlyphsSame ==
  /\ GlyphsSplit(glyphs) =
       [k \in 1 .. Length |-> [glyphs[k] EXCEPT !.starts_new_run = StartsRun(k)]]
  /\ GlyphsTrimmed(glyphs) =
       [k \in 1 .. Length |-> [glyphs[k] EXCEPT
         !.skip = k \in Trimmed, !.starts_new_run = @ \/ k \in LineRuns]]
  /\ LinesMeasured(glyphs) = [l \in 1 .. Cardinality(Starts) |-> LineFrom(StartOf(l))]
<1>1. ASSUME NEW k PROVE Setting(0, 0, glyphs, 0)!StartsRun(k) = StartsRun(k)
  BY DEF Setting!StartsRun, Setting!LastEffect, Setting!LookFields, Setting!StyleField,
     Setting!Max, StartsRun, LastEffect, LookFields, StyleField, Max
<1>2. /\ Setting(0, 0, glyphs, 0)!Trimmed = Trimmed
  BY DEF Setting!Trimmed, Setting!Trailing, Setting!Leading, Setting!BeforeBreak,
     Setting!AfterBreak, Setting!Breakings, Setting!White, Setting!Blank, Setting!Symbol,
     Setting!Length, Trimmed, Trailing, Leading, BeforeBreak, AfterBreak, Breakings, White,
     Blank, Symbol, Length
<1>3. Setting(0, 0, glyphs, 0)!LineRuns = LineRuns
  BY DEF Setting!LineRuns, Setting!Leading, Setting!AfterBreak, Setting!Breakings,
     Setting!White, Setting!Blank, Setting!Symbol, Setting!Length, Setting!Cardinality,
     LineRuns, Leading, AfterBreak, Breakings, White, Blank, Symbol, Length, Cardinality
<1>4. Setting(0, 0, glyphs, 0)!Starts = Starts
  BY DEF Setting!Starts, Setting!Breakings, Setting!Length, Starts, Breakings, Length
<1>5. ASSUME NEW l PROVE Setting(0, 0, glyphs, 0)!StartOf(l) = StartOf(l)
  BY DEF Setting!StartOf, Setting!Starts, Setting!Breakings, Setting!Length, StartOf, Starts,
     Breakings, Length, Setting!Cardinality, Cardinality
<1>6. ASSUME NEW l PROVE Setting(0, 0, glyphs, 0)!LineFrom(l) = LineFrom(l)
  BY DEF Setting!LineFrom, Setting!HeightOf, Setting!Counted, Setting!Asc, Setting!Breakings,
     Setting!Symbol, Setting!Length, Setting!Min, Setting!Max, LineFrom, HeightOf, Counted, Asc,
     Breakings, Symbol, Length, Min, Max
<1>7. GlyphsSplit(glyphs) =
       [k \in 1 .. Length |-> [glyphs[k] EXCEPT !.starts_new_run = StartsRun(k)]]
  BY <1>1 DEF GlyphsSplit, Length
<1>8. GlyphsTrimmed(glyphs) =
       [k \in 1 .. Length |-> [glyphs[k] EXCEPT
         !.skip = k \in Trimmed, !.starts_new_run = @ \/ k \in LineRuns]]
  BY <1>2, <1>3 DEF GlyphsTrimmed, Length
<1>9. LinesMeasured(glyphs) = [l \in 1 .. Cardinality(Starts) |-> LineFrom(StartOf(l))]
  BY <1>4, <1>5, <1>6 DEF LinesMeasured
<1> QED BY <1>7, <1>8, <1>9

LEMMA SungSame ==
  ASSUME NEW st, st.event = state.event
  PROVE  GlyphsSung(st, glyphs) =
           [k \in 1 .. Length |->
              IF \E w \in DOMAIN Words : k \in Words[w].first .. Words[w].last
                THEN Sing(glyphs[k], Words[CHOOSE w \in DOMAIN Words :
                                             k \in Words[w].first .. Words[w].last])
                ELSE glyphs[k]]
<1>1. Setting(0, 0, glyphs, 0)!Words = Words
  BY DEF Setting!Words, Setting!EndsWord, Setting!EndWord, Setting!InWord, Setting!Length,
     Words, EndsWord, EndWord, InWord, Length
<1>2. ASSUME NEW info, NEW word
      PROVE  Setting(0, st, glyphs, 0)!Sing(info, word) = Sing(info, word)
  <2>1. Setting(0, st, glyphs, 0)!Reversed(word) = Reversed(word)
    BY DEF Setting!Reversed, Reversed
  <2> QED BY <2>1 DEF Setting!Sing, Sing
<1> QED BY <1>1, <1>2 DEF GlyphsSung, Length

LEMMA AlignedSame ==
  ASSUME NEW halign, NEW scrolls, NEW justify
  PROVE  LinesAligned(session, halign, scrolls, justify, glyphs, lines) =
           [l \in DOMAIN lines |-> [lines[l] EXCEPT !.x =
              IF scrolls THEN Shift(l, 1, halign) ELSE Shift(l, halign, justify)]]
<1>1. ASSUME NEW l, NEW h, NEW j
      PROVE  Setting(session, 0, glyphs, lines)!Shift(l, h, j) = Shift(l, h, j)
  BY DEF Setting!Shift, Setting!MaxWidth, Setting!Width, Setting!SumTo, Setting!Glyphs,
     Setting!Advance, Setting!Symbol, Setting!Length, Setting!Max,
     Shift, MaxWidth, Width, SumTo, Glyphs, Advance, Symbol, Length, Max
<1> QED BY <1>1 DEF LinesAligned

LEMMA StageFields ==
  ASSUME NEW step, NEW ctx, NEW a, NEW g, NEW ln, NEW k, NEW s, NEW b, NEW t, NEW mv
  PROVE  /\ Stage(step, ctx, a, g, ln, k, s, b, t, mv).step = step
         /\ Stage(step, ctx, a, g, ln, k, s, b, t, mv).ctx = ctx
         /\ Stage(step, ctx, a, g, ln, k, s, b, t, mv).at = a
         /\ Stage(step, ctx, a, g, ln, k, s, b, t, mv).glyphs = g
         /\ Stage(step, ctx, a, g, ln, k, s, b, t, mv).lines = ln
         /\ Stage(step, ctx, a, g, ln, k, s, b, t, mv).i = k
         /\ Stage(step, ctx, a, g, ln, k, s, b, t, mv).s1 = s
         /\ Stage(step, ctx, a, g, ln, k, s, b, t, mv).last = b
         /\ Stage(step, ctx, a, g, ln, k, s, b, t, mv).s2 = t
         /\ Stage(step, ctx, a, g, ln, k, s, b, t, mv).moved = mv
BY DEF Stage

LEMMA NowFields ==
  /\ Now.step = pc /\ Now.ctx = Settled(state) /\ Now.at = at /\ Now.glyphs = glyphs
  /\ Now.lines = lines /\ Now.s2 = s2 /\ Now.moved = moved
  /\ pc \in {"parse", "split"} => Now.i = 0 /\ Now.s1 = 0 /\ Now.last = 0
  /\ pc \notin {"parse", "split"} => Now.i = i /\ Now.s1 = s1 /\ Now.last = last_breakable
BY StageFields DEF Now, Loop

LEMMA NowNext ==
  /\ pc' \in {"parse", "split"} =>
       Now' = Stage(pc', Settled(state'), at', glyphs', lines', 0, 0, 0, s2', moved')
  /\ pc' \notin {"parse", "split"} =>
       Now' = Stage(pc', Settled(state'), at', glyphs', lines', i', s1', last_breakable',
                    s2', moved')
BY DEF Now, Loop

\* Every action but those that fail, begin or end takes the step there is.
LEMMA BlockStep == CInv /\ Block => Now' = Step(session, Now)
<1> SUFFICES ASSUME CInv, Block PROVE Now' = Step(session, Now)
  OBVIOUS
<1> DEFINE st == Settled(state)
           tags == Text[at].tags
           next == Settled(ParseTags(st, tags))
<1>1. /\ Alike(state, st) /\ st.event = state.event
  BY SettledSame DEF CInv, Fields
<1>2. Len(tags) \in Nat /\ at \in 1 .. Len(Text) /\ IsBlock(at) /\ pc = "parse" /\ n > 0
  BY TextOfSession DEF Block, CInv
<1>3. Settled(ParseTags(state, tags)) = next
  BY <1>1, <1>2, ParseTagsAlike, AlikeSettled
<1>4. Reading(st, at)!IsBlock(at)
  BY <1>2, ReadSame
<1>5. st.event.Text = Text
  BY <1>1 DEF Text
<1> HIDE DEF st
<1>6. Step(session, Now) = Stage("parse", next, at + 1, glyphs, lines, 0, 0, 0, s2, moved)
  <2>1. /\ Now.step = "parse" /\ Now.ctx = st /\ Now.at = at /\ Now.glyphs = glyphs
        /\ Now.lines = lines /\ Now.s2 = s2 /\ Now.moved = moved
    BY <1>2, NowFields DEF st
  <2>2. Step(session, Now) = Read(Now)
    BY <2>1 DEF Step
  <2> QED BY <1>2, <1>4, <1>5, <2>1, <2>2 DEF Read
<1> HIDE DEF tags, next
<1>7. /\ pc' = "parse" /\ Settled(state') = next /\ at' = at + 1 /\ glyphs' = glyphs
      /\ lines' = lines /\ s2' = s2 /\ moved' = moved
  BY <1>3 DEF Block, loopVars, lineVars, tags
<1> QED BY <1>6, <1>7, NowNext

LEMMA GlyphStep == CInv /\ Glyph => Now' = Step(session, Now)
<1> SUFFICES ASSUME CInv, Glyph PROVE Now' = Step(session, Now)
  OBVIOUS
<1> DEFINE st == Settled(state)
           next == Settled(WithoutEffect(st))
           symbol == NextChar(state, Text[at].symbol)
<1>1. /\ Alike(state, st) /\ st.event = state.event /\ st.drawing_scale = state.drawing_scale
  BY SettledSame DEF CInv, Fields
<1>2. Len(Text) \in Nat /\ ~ IsBlock(at) /\ at \in 1 .. Len(Text) /\ pc = "parse" /\ pc' = pc
  BY TextOfSession DEF Glyph, CInv
<1>3. Settled(state') = next
  BY <1>1, WithoutEffectAlike, AlikeSettled DEF Glyph
<1>4. /\ ~ Reading(st, at)!IsBlock(at)
      /\ Reading(st, at)!NextBlock = NextBlock
      /\ Reading(st, at)!GlyphOf(st, "drawing") = GlyphOf(state, "drawing")
      /\ NextChar(st, Text[at].symbol) = symbol
      /\ Reading(st, at)!GlyphOf(st, symbol) = GlyphOf(state, symbol)
  BY <1>2, ReadSame
<1>5. st.event.Text = Text
  BY <1>1 DEF Text
<1>6. /\ Now.step = "parse" /\ Now.ctx = st /\ Now.at = at /\ Now.glyphs = glyphs
      /\ Now.lines = lines /\ Now.s2 = s2 /\ Now.moved = moved
  BY <1>2, NowFields
<1>7. Step(session, Now) = Read(Now)
  BY <1>6 DEF Step
<1> HIDE DEF st, symbol
<1>8. lines' = lines /\ s2' = s2 /\ moved' = moved
  BY DEF Glyph, loopVars, lineVars
<1>9. CASE state.drawing_scale # 0
  <2>1. Read(Now) = Stage("parse", next, NextBlock, Append(glyphs, GlyphOf(state, "drawing")),
                          lines, 0, 0, 0, s2, moved)
    BY <1>1, <1>2, <1>4, <1>5, <1>6, <1>9 DEF Read
  <2> HIDE DEF next
  <2>2. at' = NextBlock /\ glyphs' = Append(glyphs, GlyphOf(state, "drawing"))
    BY <1>9 DEF Glyph
  <2> QED BY <1>2, <1>3, <1>7, <1>8, <2>1, <2>2, NowNext
<1>10. CASE state.drawing_scale = 0
  <2>1. Read(Now) = Stage("parse", next, at + 1, Append(glyphs, GlyphOf(state, symbol)),
                          lines, 0, 0, 0, s2, moved)
    BY <1>1, <1>2, <1>4, <1>5, <1>6, <1>10 DEF Read
  <2> HIDE DEF next
  <2>2. at' = at + 1 /\ glyphs' = Append(glyphs, GlyphOf(state, symbol))
    BY <1>10 DEF Glyph, symbol
  <2> QED BY <1>2, <1>3, <1>7, <1>8, <2>1, <2>2, NowNext
<1> QED BY <1>9, <1>10

LEMMA TextEndStep == CInv /\ TextEnd /\ pc' # "idle" => Now' = Step(session, Now)
<1> SUFFICES ASSUME CInv, TextEnd, pc' # "idle" PROVE Now' = Step(session, Now)
  OBVIOUS
<1> DEFINE st == Settled(state)
<1>1. st.event.Text = Text
  BY SettledSame DEF CInv, Fields, Text
<1>2. /\ pc' = "split" /\ UNCHANGED <<textVars, breakVars, loopVars, lineVars, runVars>>
      /\ pc = "parse" /\ at > Len(Text)
  BY DEF TextEnd, GiveUp
<1>3. /\ Now.step = "parse" /\ Now.ctx = st /\ Now.at = at /\ Now.glyphs = glyphs
      /\ Now.lines = lines /\ Now.s2 = s2 /\ Now.moved = moved
  BY <1>2, NowFields
<1> HIDE DEF st
<1>4. Step(session, Now) = Stage("split", st, at, glyphs, lines, 0, 0, 0, s2, moved)
  BY <1>1, <1>2, <1>3 DEF Read, Step
<1>5. /\ Settled(state') = st /\ at' = at /\ glyphs' = glyphs /\ lines' = lines
      /\ s2' = s2 /\ moved' = moved
  BY <1>2 DEF textVars, loopVars, lineVars, st
<1> QED BY <1>2, <1>4, <1>5, NowNext

LEMMA SplitStep == CInv /\ Split => Now' = Step(session, Now)
<1> SUFFICES ASSUME CInv, Split PROVE Now' = Step(session, Now)
  OBVIOUS
<1>1. glyphs' = GlyphsSplit(glyphs)
  BY GlyphsSame DEF Split
<1>2. /\ pc = "split" /\ pc' = "wrap" /\ state' = state /\ at' = at /\ lines' = lines
      /\ s2' = s2 /\ moved' = moved /\ i' = 1 /\ s1' = 1 /\ last_breakable' = 0
  BY DEF Split, lineVars
<1>3. Step(session, Now) =
        Stage("wrap", Settled(state), at, GlyphsSplit(glyphs), lines, 1, 1, 0, s2, moved)
  BY <1>2, NowFields DEF Step
<1> QED BY <1>1, <1>2, <1>3, NowNext

LEMMA WrapGlyphStep == CInv /\ GInv /\ WrapGlyph => Now' = Step(session, Now)
<1> SUFFICES ASSUME CInv, GInv, WrapGlyph PROVE Now' = Step(session, Now)
  OBVIOUS
<1> DEFINE st == Settled(state)
<1>1. st.wrap_style = state.wrap_style
  BY SettledSame DEF CInv, Fields
<1>2. /\ pc = "wrap" /\ pc' = "wrap" /\ ~ Breaks(i) /\ state' = state /\ at' = at
      /\ glyphs' = glyphs /\ lines' = lines /\ s1' = s1 /\ s2' = s2 /\ moved' = moved
      /\ i' = i + 1 /\ last_breakable' = IF AllowBreak(i) THEN i ELSE last_breakable
  BY DEF WrapGlyph, textVars, lineVars, runVars
<1>3. ~ (i > Len(glyphs))
  BY DEF WrapGlyph, Length, GInv, IsGlyphs, Sequence
<1>4. /\ ~ Breaking(session, st, glyphs, i, s1, last_breakable)!Breaks(i)
      /\ Breaking(session, st, glyphs, i, s1, last_breakable)!AllowBreak(i) = AllowBreak(i)
  BY <1>1, <1>2, BreakSame
<1>5. /\ Now.step = "wrap" /\ Now.ctx = st /\ Now.at = at /\ Now.glyphs = glyphs
      /\ Now.lines = lines /\ Now.s2 = s2 /\ Now.moved = moved
      /\ Now.i = i /\ Now.s1 = s1 /\ Now.last = last_breakable
  BY <1>2, NowFields
<1> HIDE DEF st
<1>6. Step(session, Now) = Wrapped(session, Now)
  BY <1>5 DEF Step
<1>7. Wrapped(session, Now) =
        Stage("wrap", st, at, glyphs, lines, i + 1, s1,
              IF AllowBreak(i) THEN i ELSE last_breakable, s2, moved)
  BY <1>3, <1>4, <1>5 DEF Wrapped
<1> QED BY <1>2, <1>6, <1>7, NowNext DEF st

LEMMA WrapBreakStep == CInv /\ GInv /\ WrapBreak(FALSE) => Now' = Step(session, Now)
<1> SUFFICES ASSUME CInv, GInv, WrapBreak(FALSE) PROVE Now' = Step(session, Now)
  OBVIOUS
<1> DEFINE st == Settled(state)
           lead == BreakAt(i) + 1
           kind == IF ForceBreak(i) THEN 2 ELSE 1
<1>1. st.wrap_style = state.wrap_style
  BY SettledSame DEF CInv, Fields
<1>2. /\ pc = "wrap" /\ pc' = "wrap" /\ Breaks(i) /\ state' = state /\ at' = at
      /\ lines' = lines /\ s1' = lead /\ s2' = s2 /\ moved' = moved
      /\ i' = i + 1 /\ last_breakable' = 0
      /\ glyphs' = [k \in 1 .. Length |-> [glyphs[k] EXCEPT !.linebreak =
                      IF k = lead THEN IF ForceBreak(i) THEN 2 ELSE 1
                      ELSE IF FALSE /\ k = s1 THEN 0 ELSE @]]
  BY Zenon DEF WrapBreak, lineVars
<1>3. ~ (i > Len(glyphs))
  BY DEF WrapBreak, Length, GInv, IsGlyphs, Sequence
<1>4. /\ Breaking(session, st, glyphs, i, s1, last_breakable)!Breaks(i)
      /\ Breaking(session, st, glyphs, i, s1, last_breakable)!BreakAt(i) = BreakAt(i)
      /\ Breaking(session, st, glyphs, i, s1, last_breakable)!ForceBreak(i) = ForceBreak(i)
  BY <1>1, <1>2, BreakSame
<1>5. /\ Now.step = "wrap" /\ Now.ctx = st /\ Now.at = at /\ Now.glyphs = glyphs
      /\ Now.lines = lines /\ Now.s2 = s2 /\ Now.moved = moved
      /\ Now.i = i /\ Now.s1 = s1 /\ Now.last = last_breakable
  BY <1>2, NowFields
<1>6. Step(session, Now) = Wrapped(session, Now)
  BY <1>5 DEF Step
<1> HIDE DEF st
<1>7. Wrapped(session, Now) =
        Stage("wrap", st, at, GlyphsBroken(glyphs, lead, kind), lines, i + 1, lead, 0, s2, moved)
  BY <1>3, <1>4, <1>5 DEF Wrapped
<1> HIDE DEF lead
<1>8. glyphs' = GlyphsBroken(glyphs, lead, kind)
  BY <1>2 DEF GlyphsBroken, Length
<1> QED BY <1>2, <1>6, <1>7, <1>8, NowNext DEF st

LEMMA WrapEndStep == CInv /\ WrapEnd => Now' = Step(session, Now)
<1> SUFFICES ASSUME CInv, WrapEnd PROVE Now' = Step(session, Now)
  OBVIOUS
<1> DEFINE st == Settled(state)
<1>1. st.wrap_style = state.wrap_style
  BY SettledSame DEF CInv, Fields
<1>2. /\ pc = "wrap" /\ pc' = (IF state.wrap_style = 1 THEN "trim" ELSE "balance")
      /\ state' = state /\ at' = at /\ glyphs' = glyphs /\ lines' = lines /\ s1' = s1
      /\ s2' = 0 /\ moved' = FALSE /\ i' = 1 /\ last_breakable' = last_breakable
      /\ i > Len(glyphs)
  BY DEF WrapEnd, textVars, lineVars, Length
<1>3. /\ Now.step = "wrap" /\ Now.ctx = st /\ Now.at = at /\ Now.glyphs = glyphs
      /\ Now.lines = lines /\ Now.i = i /\ Now.s1 = s1 /\ Now.last = last_breakable
  BY <1>2, NowFields
<1> HIDE DEF st
<1>4. Step(session, Now) = Wrapped(session, Now)
  BY <1>3 DEF Step
<1>5. Wrapped(session, Now) =
        Stage(IF st.wrap_style = 1 THEN "trim" ELSE "balance", st, at, glyphs, lines,
              1, s1, last_breakable, 0, FALSE)
  BY <1>2, <1>3 DEF Wrapped
<1>6. pc' \notin {"parse", "split"}
  BY <1>2
<1> QED BY <1>1, <1>2, <1>4, <1>5, <1>6, NowNext DEF st

LEMMA BalanceStep == CInv /\ GInv /\ Balance => Now' = Step(session, Now)
<1> SUFFICES ASSUME CInv, GInv, Balance PROVE Now' = Step(session, Now)
  OBVIOUS
<1> DEFINE st == Settled(state)
           word == LastWord(s2, i)
           better == s2 # 0 /\ glyphs[i].linebreak = 1 /\ Better(s2, i, NextBoundary)
<1>1. /\ pc = "balance" /\ pc' = "balance" /\ i' = NextBoundary /\ state' = state /\ at' = at
      /\ lines' = lines /\ s1' = s1 /\ last_breakable' = last_breakable
  BY DEF Balance, lineVars
<1>2. ~ (i > Len(glyphs))
  BY DEF Balance, Length, GInv, IsGlyphs, Sequence
<1>3. /\ Breaking(0, 0, glyphs, i, 0, 0)!NextBoundary = NextBoundary
      /\ Breaking(session, 0, glyphs, 0, 0, 0)!LastWord(s2, i) = word
      /\ Breaking(session, 0, glyphs, 0, 0, 0)!Better(s2, i, NextBoundary)
         = Better(s2, i, NextBoundary)
  <2>1. state.wrap_style = state.wrap_style
    OBVIOUS
  <2> QED BY <2>1, BreakSame
<1>4. /\ Now.step = "balance" /\ Now.ctx = st /\ Now.at = at /\ Now.glyphs = glyphs
      /\ Now.lines = lines /\ Now.i = i /\ Now.s1 = s1 /\ Now.last = last_breakable
      /\ Now.s2 = s2 /\ Now.moved = moved
  BY <1>1, NowFields
<1>5. Step(session, Now) = Balanced(session, Now)
  BY <1>4 DEF Step
<1> HIDE DEF st, word
<1>6. CASE better
  <2>1. Balanced(session, Now) =
          Stage("balance", st, at, GlyphsBalanced(glyphs, i, word), lines, NextBoundary,
                s1, last_breakable, word, TRUE)
    BY <1>2, <1>3, <1>4, <1>6 DEF Balanced
  <2>2. /\ glyphs' = GlyphsBalanced(glyphs, i, word) /\ s2' = word /\ moved' = TRUE
    BY <1>6 DEF Balance, GlyphsBalanced, Length, word
  <2> QED BY <1>1, <1>5, <2>1, <2>2, NowNext DEF st
<1>7. CASE ~better
  <2>1. Balanced(session, Now) =
          Stage("balance", st, at, glyphs, lines, NextBoundary, s1, last_breakable, i, moved)
    BY <1>2, <1>3, <1>4, <1>7 DEF Balanced
  <2>2. glyphs' = glyphs /\ s2' = i /\ moved' = moved
    BY <1>7 DEF Balance
  <2> QED BY <1>1, <1>5, <2>1, <2>2, NowNext DEF st
<1> QED BY <1>6, <1>7

LEMMA BalanceEndStep == CInv /\ BalanceEnd => Now' = Step(session, Now)
<1> SUFFICES ASSUME CInv, BalanceEnd PROVE Now' = Step(session, Now)
  OBVIOUS
<1>1. /\ pc = "balance" /\ pc' = (IF moved THEN "balance" ELSE "trim")
      /\ state' = state /\ at' = at /\ glyphs' = glyphs /\ lines' = lines /\ s1' = s1
      /\ s2' = 0 /\ moved' = FALSE /\ i' = 1 /\ last_breakable' = last_breakable
      /\ i > Len(glyphs)
  BY DEF BalanceEnd, textVars, lineVars, Length
<1>2. /\ Now.step = "balance" /\ Now.ctx = Settled(state) /\ Now.at = at /\ Now.glyphs = glyphs
      /\ Now.lines = lines /\ Now.i = i /\ Now.s1 = s1 /\ Now.last = last_breakable
      /\ Now.s2 = s2 /\ Now.moved = moved
  BY <1>1, NowFields
<1>3. Step(session, Now) = Balanced(session, Now)
  BY <1>2 DEF Step
<1>4. Balanced(session, Now) =
        Stage(IF moved THEN "balance" ELSE "trim", Settled(state), at, glyphs, lines,
              1, s1, last_breakable, 0, FALSE)
  BY <1>1, <1>2 DEF Balanced
<1>5. pc' \notin {"parse", "split"}
  BY <1>1
<1> QED BY <1>1, <1>3, <1>4, <1>5, NowNext

LEMMA TrimStep == CInv /\ Trim => Now' = Step(session, Now)
<1> SUFFICES ASSUME CInv, Trim PROVE Now' = Step(session, Now)
  OBVIOUS
<1>1. glyphs' = GlyphsTrimmed(glyphs)
  BY GlyphsSame DEF Trim
<1>2. /\ pc = "trim" /\ pc' = "measure" /\ state' = state /\ at' = at
      /\ i' = i /\ s1' = s1 /\ last_breakable' = last_breakable /\ s2' = s2 /\ moved' = moved
      /\ lines' = lines
  BY DEF Trim, lineVars, loopVars
<1>3. Step(session, Now) = Set(Now, "measure", GlyphsTrimmed(glyphs), lines)
  BY <1>2, NowFields DEF Step
<1>4. Set(Now, "measure", GlyphsTrimmed(glyphs), lines) =
        Stage("measure", Settled(state), at, GlyphsTrimmed(glyphs), lines,
              i, s1, last_breakable, s2, moved)
  BY <1>2, NowFields DEF Set
<1> QED BY <1>1, <1>2, <1>3, <1>4, NowNext

LEMMA MeasureStep == CInv /\ Measure => Now' = Step(session, Now)
<1> SUFFICES ASSUME CInv, Measure PROVE Now' = Step(session, Now)
  OBVIOUS
<1>1. lines' = LinesMeasured(glyphs)
  BY GlyphsSame DEF Measure
<1>2. /\ pc = "measure" /\ pc' = "karaoke" /\ state' = state /\ at' = at
      /\ i' = i /\ s1' = s1 /\ last_breakable' = last_breakable /\ s2' = s2 /\ moved' = moved
      /\ glyphs' = glyphs
  BY DEF Measure, textVars, loopVars
<1>3. Step(session, Now) = Set(Now, "karaoke", glyphs, LinesMeasured(glyphs))
  BY <1>2, NowFields DEF Step
<1>4. Set(Now, "karaoke", glyphs, LinesMeasured(glyphs)) =
        Stage("karaoke", Settled(state), at, glyphs, LinesMeasured(glyphs),
              i, s1, last_breakable, s2, moved)
  BY <1>2, NowFields DEF Set
<1> QED BY <1>1, <1>2, <1>3, <1>4, NowNext

LEMMA KaraokeStep == CInv /\ Karaoke => Now' = Step(session, Now)
<1> SUFFICES ASSUME CInv, Karaoke PROVE Now' = Step(session, Now)
  OBVIOUS
<1>1. glyphs' = GlyphsSung(Settled(state), glyphs)
  <2>1. Settled(state).event = state.event
    BY SettledSame DEF CInv, Fields
  <2> QED BY <2>1, SungSame DEF Karaoke
<1>2. /\ pc = "karaoke" /\ pc' = "reorder" /\ state' = state /\ at' = at
      /\ i' = i /\ s1' = s1 /\ last_breakable' = last_breakable /\ s2' = s2 /\ moved' = moved
      /\ lines' = lines
  BY DEF Karaoke, lineVars, loopVars
<1>3. Step(session, Now) = Set(Now, "reorder", GlyphsSung(Settled(state), glyphs), lines)
  BY <1>2, NowFields DEF Step
<1>4. Set(Now, "reorder", GlyphsSung(Settled(state), glyphs), lines) =
        Stage("reorder", Settled(state), at, GlyphsSung(Settled(state), glyphs), lines,
              i, s1, last_breakable, s2, moved)
  BY <1>2, NowFields DEF Set
<1> QED BY <1>1, <1>2, <1>3, <1>4, NowNext

LEMMA ReorderStep == CInv /\ Reorder => Now' = Step(session, Now)
<1> SUFFICES ASSUME CInv, Reorder PROVE Now' = Step(session, Now)
  OBVIOUS
<1>1. lines' = LinesReordered(lines)
  BY DEF Reorder, LinesReordered
<1>2. /\ pc = "reorder" /\ pc' = "align" /\ state' = state /\ at' = at
      /\ i' = i /\ s1' = s1 /\ last_breakable' = last_breakable /\ s2' = s2 /\ moved' = moved
      /\ glyphs' = glyphs
  BY DEF Reorder, textVars, loopVars
<1>3. Step(session, Now) = Set(Now, "align", glyphs, LinesReordered(lines))
  BY <1>2, NowFields DEF Step
<1>4. Set(Now, "align", glyphs, LinesReordered(lines)) =
        Stage("align", Settled(state), at, glyphs, LinesReordered(lines),
              i, s1, last_breakable, s2, moved)
  BY <1>2, NowFields DEF Set
<1> QED BY <1>1, <1>2, <1>3, <1>4, NowNext

LEMMA AlignLinesStep == CInv /\ AlignLines => Now' = Step(session, Now)
<1> SUFFICES ASSUME CInv, AlignLines PROVE Now' = Step(session, Now)
  OBVIOUS
<1>0. /\ Settled(state).alignment = state.alignment /\ Settled(state).evt_type = state.evt_type
      /\ Settled(state).justify = state.justify
  BY SettledSame DEF CInv, Fields
<1> DEFINE aligned == LinesAligned(session, Settled(state).alignment % 4, "HSCROLL" \in Settled(state).evt_type,
              Settled(state).justify, glyphs, lines)
<1>1. lines' = aligned
  BY <1>0, AlignedSame DEF AlignLines
<1>2. /\ pc = "align" /\ pc' = "done" /\ state' = state /\ at' = at
      /\ i' = i /\ s1' = s1 /\ last_breakable' = last_breakable /\ s2' = s2 /\ moved' = moved
      /\ glyphs' = glyphs
  BY DEF AlignLines, textVars, loopVars
<1>3. Step(session, Now) = Set(Now, "done", glyphs, aligned)
  BY <1>2, NowFields DEF Step
<1>4. Set(Now, "done", glyphs, aligned) =
        Stage("done", Settled(state), at, glyphs, aligned,
              i, s1, last_breakable, s2, moved)
  BY <1>2, NowFields DEF Set
<1> QED BY <1>1, <1>2, <1>3, <1>4, NowNext

-----------------------------------------------------------------------------
(* The rendering of an event as a run of these steps                       *)

Start(e) ==
  Stage("parse", Settled(InitContext(FreeContext(EmptyContext), e)), 1, <<>>, <<>>,
        0, 0, 0, 0, FALSE)

\* f is a run of m steps with an event, not beyond the end.
IsRun(sn, f, m, e) ==
  /\ f[0] = Start(e)
  /\ \A k \in 0 .. m - 1 : f[k].step # "done" /\ f[k + 1] = Step(sn, f[k])

LEMMA ExtendRun ==
  ASSUME NEW sn, NEW f, NEW m \in Nat, NEW e, IsRun(sn, f, m, e), f[m].step # "done"
  PROVE  \E g : IsRun(sn, g, m + 1, e) /\ g[m + 1] = Step(sn, f[m])
<1> DEFINE last == Step(sn, f[m])
           g == [k \in 0 .. m + 1 |-> IF k = m + 1 THEN last ELSE f[k]]
<1> HIDE DEF last
<1>1. /\ g[m + 1] = last
      /\ \A k \in 0 .. m : g[k] = f[k]
  OBVIOUS
<1> HIDE DEF g
<1>2. g[0] = Start(e)
  BY <1>1 DEF IsRun
<1>3. ASSUME NEW k \in 0 .. m
      PROVE  g[k].step # "done" /\ g[k + 1] = Step(sn, g[k])
  <2>1. CASE k = m
    BY <1>1, <2>1 DEF last
  <2>2. CASE k # m
    <3>1. k \in 0 .. m - 1 /\ k + 1 \in 0 .. m
      BY <2>2
    <3>2. f[k].step # "done" /\ f[k + 1] = Step(sn, f[k])
      BY <3>1 DEF IsRun
    <3> QED BY <1>1, <3>1, <3>2
  <2> QED BY <2>1, <2>2
<1>4. IsRun(sn, g, m + 1, e)
  BY <1>2, <1>3 DEF IsRun
<1> QED BY <1>1, <1>4 DEF last

\* There is one way only for an event to end.
LEMMA SameRun ==
  ASSUME NEW sn, NEW e, NEW f, NEW g, NEW m \in Nat, NEW l \in Nat, m <= l,
         IsRun(sn, f, m, e), f[m].step = "done", IsRun(sn, g, l, e), g[l].step = "done"
  PROVE  f[m] = g[l]
<1> DEFINE Off == {k \in 0 .. m : f[k] # g[k]}
<1>1. Off = {}
  <2>1. SUFFICES ASSUME Off # {} PROVE FALSE
    OBVIOUS
  <2>2. PICK k \in Off : \A j \in Off : k <= j
    <3>1. Off \in SUBSET Nat
      OBVIOUS
    <3> QED BY <2>1, <3>1, Smallest
  <2>3. k # 0
    BY DEF IsRun
  <2>4. k \in 1 .. m /\ k - 1 \in 0 .. m - 1 /\ k - 1 \in 0 .. l - 1 /\ ~ (k <= k - 1)
        /\ k - 1 \in 0 .. m /\ (k - 1) + 1 = k
    BY <2>3
  <2>5. f[k - 1] = g[k - 1]
    BY <2>2, <2>4
  <2>6. f[k] = Step(sn, f[k - 1])
    BY <2>4 DEF IsRun
  <2>7. g[k] = Step(sn, g[k - 1])
    BY <2>4 DEF IsRun
  <2> QED BY <2>5, <2>6, <2>7
<1>2. f[m] = g[m]
  BY <1>1
<1>3. m = l
  <2>1. m < l => g[m].step # "done"
    BY DEF IsRun
  <2> QED BY <1>2, <2>1
<1> QED BY <1>2, <1>3

\* What has been rendered is the end of a run.
Ended(sn, r) ==
  \E m \in Nat : \E f :
    /\ IsRun(sn, f, m, r.ctx.event) /\ f[m].step = "done"
    /\ r = [ctx |-> f[m].ctx, glyphs |-> f[m].glyphs, lines |-> f[m].lines]

RunInv ==
  /\ pc # "idle" /\ ~discarded =>
       \E m \in Nat : \E f : IsRun(session, f, m, state.event) /\ f[m] = Now
  /\ Sequence(rendered)
  /\ \A j \in 1 .. Len(rendered) : Ended(session, rendered[j])

LEMMA BeginStep == CInv /\ Begin => Now' = Start(state'.event)
<1> SUFFICES ASSUME CInv, Begin PROVE Now' = Start(state'.event)
  OBVIOUS
<1> DEFINE c == FreeContext(state)
           d == FreeContext(EmptyContext)
           e == session.events[n + 1]
<1>1. Context(c) /\ Context(d) /\ c.clip_drawing_text = 0 /\ d.clip_drawing_text = 0
  BY FreeKeeps, EmptyIsContext DEF CInv
<1> HIDE DEF c, d, e
<1>2. Alike(InitContext(c, e), InitContext(d, e)) /\ InitContext(c, e).event = e
  BY <1>1, InitAlike
<1>3. state' = InitContext(c, e)
  BY DEF Begin, c, e
<1>4. state'.event = e /\ Settled(state') = Settled(InitContext(d, e))
  BY <1>2, <1>3, AlikeSettled
<1>5. /\ pc' = "parse" /\ at' = 1 /\ glyphs' = <<>> /\ lines' = <<>> /\ s2' = 0 /\ moved' = FALSE
  BY DEF Begin, loopVars, CInv
<1>6. Now' = Stage("parse", Settled(state'), 1, <<>>, <<>>, 0, 0, 0, 0, FALSE)
  BY <1>5, NowNext
<1> QED BY <1>4, <1>6 DEF Start, d

\* The other actions that do not fail
Goes ==
  \/ Block \/ Glyph \/ (TextEnd /\ pc' # "idle") \/ Split \/ WrapGlyph \/ WrapBreak(FALSE)
  \/ WrapEnd \/ Balance \/ BalanceEnd \/ Trim \/ Measure \/ Karaoke \/ Reorder \/ AlignLines

LEMMA GoesStep ==
  CInv /\ GInv /\ Goes =>
    /\ Now' = Step(session, Now)
    /\ pc \notin {"idle", "done"}
    /\ session' = session /\ n' = n /\ rendered' = rendered /\ discarded' = discarded
<1> SUFFICES ASSUME CInv, GInv, Goes
             PROVE  /\ Now' = Step(session, Now)
                    /\ pc \notin {"idle", "done"}
                    /\ session' = session /\ n' = n /\ rendered' = rendered
                    /\ discarded' = discarded
  OBVIOUS
<1>1. CASE Block
  BY <1>1, BlockStep DEF Block, runVars, breakVars
<1>2. CASE Glyph
  BY <1>2, GlyphStep DEF Glyph, runVars, breakVars
<1>3. CASE TextEnd /\ pc' # "idle"
  BY <1>3, TextEndStep DEF TextEnd, GiveUp, runVars, breakVars
<1>4. CASE Split
  BY <1>4, SplitStep DEF Split, runVars
<1>5. CASE WrapGlyph
  BY <1>5, WrapGlyphStep DEF WrapGlyph, runVars, breakVars
<1>6. CASE WrapBreak(FALSE)
  <2>1. /\ pc = "wrap" /\ session' = session /\ n' = n /\ rendered' = rendered
        /\ discarded' = (discarded \/ FALSE)
    BY Zenon, <1>6 DEF WrapBreak, runVars
  <2> QED BY <1>6, <2>1, WrapBreakStep DEF GInv
<1>7. CASE WrapEnd
  BY <1>7, WrapEndStep DEF WrapEnd, runVars, breakVars
<1>8. CASE Balance
  BY <1>8, BalanceStep DEF Balance, runVars, breakVars
<1>9. CASE BalanceEnd
  BY <1>9, BalanceEndStep DEF BalanceEnd, runVars, breakVars
<1>10. CASE Trim
  BY <1>10, TrimStep DEF Trim, runVars, breakVars
<1>11. CASE Measure
  BY <1>11, MeasureStep DEF Measure, runVars, breakVars
<1>12. CASE Karaoke
  BY <1>12, KaraokeStep DEF Karaoke, runVars, breakVars
<1>13. CASE Reorder
  BY <1>13, ReorderStep DEF Reorder, runVars, breakVars
<1>14. CASE AlignLines
  BY <1>14, AlignLinesStep DEF AlignLines, runVars, breakVars
<1> QED BY <1>1, <1>2, <1>3, <1>4, <1>5, <1>6, <1>7, <1>8, <1>9, <1>10, <1>11, <1>12, <1>13,
           <1>14 DEF Goes

LEMMA RunInvInit == Init => RunInv
BY EmptySequence DEF Init, RunInv

LEMMA RunInvNext == CInv /\ CInv' /\ GInv /\ RunInv /\ [Next]_vars => RunInv'
<1> SUFFICES ASSUME CInv, CInv', GInv, RunInv, [Next]_vars PROVE RunInv'
  OBVIOUS
<1>0. ASSUME session' = session, rendered' = rendered,
             pc' # "idle" /\ ~discarded' =>
               \E m \in Nat : \E f : IsRun(session, f, m, state'.event) /\ f[m] = Now'
      PROVE  RunInv'
  BY <1>0 DEF RunInv, Ended
<1>1. CASE UNCHANGED vars
  BY <1>1 DEF vars, textVars, breakVars, loopVars, lineVars, runVars, RunInv, Ended, Now, Loop
<1>2. CASE GiveUp
  BY <1>0, <1>2 DEF GiveUp, runVars
<1>3. CASE Begin
  <2>1. session' = session /\ rendered' = rendered
    BY <1>3 DEF Begin
  <2>2. PICK e : e = state'.event
    OBVIOUS
  <2> DEFINE f == [k \in 0 .. 0 |-> Start(e)]
  <2>3. IsRun(session, f, 0, e) /\ f[0] = Now'
    BY <1>3, <2>2, BeginStep DEF IsRun
  <2> QED BY <1>0, <2>1, <2>2, <2>3
<1>4. CASE Goes
  <2>1. /\ Now' = Step(session, Now)
        /\ pc \notin {"idle", "done"}
        /\ session' = session /\ n' = n /\ rendered' = rendered /\ discarded' = discarded
    BY <1>4, GoesStep
  <2>2. state'.event = state.event
    <3>1. n > 0
      BY <2>1 DEF CInv
    <3> QED BY <2>1, <3>1 DEF CInv
  <2>3. ASSUME ~discarded'
        PROVE  \E m \in Nat : \E f : IsRun(session, f, m, state'.event) /\ f[m] = Now'
    <3>0. PICK m \in Nat : \E f : IsRun(session, f, m, state.event) /\ f[m] = Now
      BY <2>1, <2>3 DEF RunInv
    <3>1. PICK f : IsRun(session, f, m, state.event) /\ f[m] = Now
      BY <3>0
    <3>2. f[m].step # "done"
      BY <2>1, <3>1, NowFields
    <3>3. PICK g : IsRun(session, g, m + 1, state.event) /\ g[m + 1] = Step(session, f[m])
      BY <3>1, <3>2, ExtendRun
    <3>4. m + 1 \in Nat /\ g[m + 1] = Now' /\ IsRun(session, g, m + 1, state'.event)
      BY <2>1, <2>2, <3>1, <3>3
    <3> QED BY <3>4
  <2> QED BY <1>0, <2>1, <2>3
<1>5. CASE WrapBreak(TRUE)
  <2>1. discarded' = (discarded \/ TRUE) /\ session' = session /\ rendered' = rendered
    BY Zenon, <1>5 DEF WrapBreak, runVars
  <2> QED BY <1>0, <2>1
<1>6. CASE End
  <2>1. pc = "done" /\ pc' = "idle" /\ session' = session
    BY <1>6 DEF End
  <2>2. Sequence(rendered) /\ Len(rendered) \in Nat
    BY DEF RunInv, Sequence
  <2>3. CASE discarded
    BY <1>0, <1>6, <2>1, <2>3 DEF End
  <2>4. CASE ~discarded
    <3> DEFINE r == [ctx |-> Outcome, glyphs |-> glyphs, lines |-> lines]
    <3>1. rendered' = Append(rendered, r)
      BY <1>6, <2>4 DEF End
    <3>2. Outcome = Settled(state) /\ Outcome.event = state.event
      <4>1. Outcome = Settled(state)
        BY Zenon DEF Outcome, Settled
      <4>2. Settled(state).event = state.event
        BY SettledSame DEF CInv, Fields
      <4> QED BY <4>1, <4>2
    <3>0. PICK m \in Nat : \E f : IsRun(session, f, m, state.event) /\ f[m] = Now
      BY <2>1, <2>4 DEF RunInv
    <3>3. PICK f : IsRun(session, f, m, state.event) /\ f[m] = Now
      BY <3>0
    <3>4. Ended(session, r)
      <4>1. /\ f[m].step = "done" /\ f[m].ctx = Outcome /\ f[m].glyphs = glyphs
            /\ f[m].lines = lines
        BY <2>1, <3>2, <3>3, NowFields
      <4>2. r.ctx.event = state.event
        BY <3>2
      <4>3. r = [ctx |-> f[m].ctx, glyphs |-> f[m].glyphs, lines |-> f[m].lines]
        BY <4>1
      <4> HIDE DEF r
      <4> QED BY <3>3, <4>1, <4>2, <4>3 DEF Ended
    <3> HIDE DEF r
    <3>5. /\ Sequence(rendered') /\ Len(rendered') = Len(rendered) + 1
          /\ \A k \in 1 .. Len(rendered) : rendered'[k] = rendered[k]
          /\ rendered'[Len(rendered) + 1] = r
      BY <2>2, <3>1, Appended
    <3>6. \A k \in 1 .. Len(rendered') : k \in 1 .. Len(rendered) \/ k = Len(rendered) + 1
      BY <2>2, <3>5
    <3>7. \A k \in 1 .. Len(rendered') : Ended(session, rendered'[k])
      BY <2>1, <3>4, <3>5, <3>6 DEF RunInv
    <3> QED BY <2>1, <3>5, <3>7 DEF RunInv
  <2> QED BY <2>3, <2>4
<1> QED
  <2>1. CASE Next
    <3>1. TextEnd => GiveUp \/ (TextEnd /\ pc' # "idle")
      BY DEF TextEnd
    <3>2. \A fails \in BOOLEAN : WrapBreak(fails) => WrapBreak(TRUE) \/ WrapBreak(FALSE)
      <4>1. ASSUME NEW fails \in BOOLEAN, WrapBreak(fails)
            PROVE  WrapBreak(TRUE) \/ WrapBreak(FALSE)
        <5>1. CASE fails = TRUE
          BY <4>1, <5>1
        <5>2. CASE fails = FALSE
          BY <4>1, <5>2
        <5> QED BY <5>1, <5>2
      <4> QED BY <4>1
    <3> QED BY <1>2, <1>3, <1>4, <1>5, <1>6, <2>1, <3>1, <3>2
         DEF Next, Goes, GlyphFails, ShapingFails
  <2> QED BY <1>1, <2>1

\* What an event looks like does not depend on what the context rendered
\* before: of two events that say the same both come out the same, their
\* context, glyphs and lines (init_render_context, free_render_context).
THEOREM Fresh == Spec => []FreshEvent
<1>1. Init => CInv /\ GInv /\ RunInv
  BY CInvInit, GInvInit, RunInvInit
<1>2. (CInv /\ GInv /\ RunInv) /\ [Next]_vars => (CInv /\ GInv /\ RunInv)'
  BY CInvNext, GInvNext, RunInvNext
<1>3. RunInv => FreshEvent
  <2> SUFFICES ASSUME RunInv, NEW j \in DOMAIN rendered, NEW k \in DOMAIN rendered,
                      rendered[j].ctx.event = rendered[k].ctx.event
               PROVE  rendered[j] = rendered[k]
    BY DEF FreshEvent
  <2>1. DOMAIN rendered = 1 .. Len(rendered)
    BY DEF RunInv, Sequence
  <2>2. Ended(session, rendered[j]) /\ Ended(session, rendered[k])
    BY <2>1 DEF RunInv
  <2> DEFINE e == rendered[j].ctx.event
  <2>2a. PICK m \in Nat : \E f :
            /\ IsRun(session, f, m, e) /\ f[m].step = "done"
            /\ rendered[j] = [ctx |-> f[m].ctx, glyphs |-> f[m].glyphs, lines |-> f[m].lines]
    BY <2>2 DEF Ended
  <2>3. PICK f :
          /\ IsRun(session, f, m, e) /\ f[m].step = "done"
          /\ rendered[j] = [ctx |-> f[m].ctx, glyphs |-> f[m].glyphs, lines |-> f[m].lines]
    BY <2>2a
  <2>2b. PICK l \in Nat : \E g :
            /\ IsRun(session, g, l, e) /\ g[l].step = "done"
            /\ rendered[k] = [ctx |-> g[l].ctx, glyphs |-> g[l].glyphs, lines |-> g[l].lines]
    BY <2>2 DEF Ended
  <2>4. PICK g :
          /\ IsRun(session, g, l, e) /\ g[l].step = "done"
          /\ rendered[k] = [ctx |-> g[l].ctx, glyphs |-> g[l].glyphs, lines |-> g[l].lines]
    BY <2>2b
  <2> HIDE DEF e
  <2>5. f[m] = g[l]
    <3>1. CASE m <= l
      BY <2>3, <2>4, <3>1, SameRun
    <3>2. CASE l <= m
      BY <2>3, <2>4, <3>2, SameRun
    <3> QED BY <3>1, <3>2
  <2> QED BY <2>3, <2>4, <2>5
<1> QED BY <1>1, <1>2, <1>3, PTL DEF Spec

-----------------------------------------------------------------------------
(* The clock of a text                                                     *)

Clocks == [from : Int, till : Int, type : EffectTypes]
NoClock == [from |-> 0, till |-> 0, type |-> "NONE"]

\* A text without tags but in its blocks, and these with integers
IsText(text) ==
  /\ Len(text) \in Nat
  /\ \A k \in 1 .. Len(text) :
       /\ Len(text[k].tags) \in Nat /\ DOMAIN text[k].tags = 1 .. Len(text[k].tags)
       /\ ~IsTags(text[k]) => Len(text[k].tags) = 0
       /\ \A j \in 1 .. Len(text[k].tags) : text[k].tags[j].args \in Seq(Int)

\* p is the clock after each of the first m tags.
Ticked(p, clock, tags, m) ==
  p = [k \in 0 .. m |-> IF k = 0 THEN clock ELSE Tick(p[k - 1], tags[k])]

LEMMA TickedToEnd ==
  ASSUME NEW clock, NEW tags, Len(tags) \in Nat
  PROVE  \E p : /\ p[0] = clock
                /\ \A k \in 1 .. Len(tags) : p[k] = Tick(p[k - 1], tags[k])
                /\ ClockAfter(clock, tags) = p[Len(tags)]
<1> DEFINE len == Len(tags)
           Has(m) == \E p : Ticked(p, clock, tags, m)
           Bad == {m \in 0 .. len : ~ Has(m)}
<1>1. Bad = {}
  <2>1. SUFFICES ASSUME Bad # {} PROVE FALSE
    OBVIOUS
  <2> HIDE DEF Has
  <2>2. PICK m \in Bad : \A k \in Bad : m <= k
    <3>1. Bad \in SUBSET Nat
      OBVIOUS
    <3> QED BY <2>1, <3>1, Smallest
  <2>3. m \in 0 .. len /\ ~ Has(m) /\ m \in Nat
    OBVIOUS
  <2>4. CASE m = 0
    <3> DEFINE p == [k \in 0 .. 0 |-> clock]
    <3>1. p = [k \in 0 .. 0 |-> IF k = 0 THEN clock ELSE Tick(p[k - 1], tags[k])]
      OBVIOUS
    <3> HIDE DEF p
    <3> QED BY <2>3, <2>4, <3>1 DEF Has, Ticked
  <2>5. CASE m > 0
    <3>1. m - 1 \in 0 .. len /\ ~ (m <= m - 1) /\ m - 1 \in Nat
      BY <2>3, <2>5
    <3>2. Has(m - 1)
      <4>1. m - 1 \notin Bad
        BY <2>2, <3>1
      <4> QED BY <3>1, <4>1
    <3>3. PICK p : Ticked(p, clock, tags, m - 1)
      BY <3>2 DEF Has
    <3> DEFINE last == Tick(p[m - 1], tags[m])
               q == [k \in 0 .. m |-> IF k = m THEN last ELSE p[k]]
    <3>4. ASSUME NEW k \in 0 .. m
          PROVE  q[k] = IF k = 0 THEN clock ELSE Tick(q[k - 1], tags[k])
      <4> HIDE DEF last
      <4>1. CASE k = m
        <5>1. q[m] = last /\ q[m - 1] = p[m - 1] /\ m # 0
          BY <2>5, <3>1
        <5> QED BY <4>1, <5>1 DEF last
      <4>2. CASE k # m
        <5>1. k \in 0 .. m - 1 /\ q[k] = p[k] /\ (k # 0 => q[k - 1] = p[k - 1])
          BY <4>2, <2>3
        <5>2. p[k] = IF k = 0 THEN clock ELSE Tick(p[k - 1], tags[k])
          BY <3>3, <5>1 DEF Ticked
        <5> QED BY <5>1, <5>2
      <4> QED BY <4>1, <4>2
    <3>5. q = [k \in 0 .. m |-> q[k]]
      OBVIOUS
    <3> HIDE DEF q
    <3>6. Ticked(q, clock, tags, m)
      BY <3>4, <3>5 DEF Ticked
    <3> QED BY <2>3, <3>6 DEF Has
  <2> QED BY <2>3, <2>4, <2>5
<1>2. len \in 0 .. len
  OBVIOUS
<1>3. \E p : Ticked(p, clock, tags, len)
  BY <1>1, <1>2
<1> DEFINE P == CHOOSE p : Ticked(p, clock, tags, len)
<1>4. Ticked(P, clock, tags, len)
  BY <1>3
<1>5. ClockAfter(clock, tags) = P[len]
  BY Zenon DEF ClockAfter, Ticked
<1> HIDE DEF P
<1>6. P[0] = clock /\ \A k \in 1 .. len : P[k] = Tick(P[k - 1], tags[k])
  BY <1>4 DEF Ticked
<1> QED BY <1>5, <1>6

LEMMA TickTyped ==
  ASSUME NEW clock \in Clocks, NEW t, t.args \in Seq(Int)
  PROVE  Tick(clock, t) \in Clocks
<1>1. t.args # <<>> => t.args[1] \in Int
  OBVIOUS
<1>2. t.name \in DOMAIN Effects => Effects[t.name] \in EffectTypes
  BY DEF Effects, EffectTypes
<1>3. CASE t.name = "kt"
  <2>1. Tick(clock, t) = [clock EXCEPT !.from = ValueOf(t), !.till = ValueOf(t)]
    BY <1>3 DEF Tick, Timed
  <2>2. ValueOf(t) \in Int
    BY <1>1 DEF ValueOf
  <2> QED BY <2>1, <2>2 DEF Clocks
<1>4. CASE t.name # "kt" /\ ~ Timed(t)
  BY <1>4 DEF Tick
<1>5. CASE t.name # "kt" /\ Timed(t)
  <2>1. t.name \in DOMAIN Effects
    BY <1>5 DEF Timed
  <2> QED BY <1>1, <1>2, <1>5, <2>1 DEF Tick, Clocks
<1> QED BY <1>3, <1>4, <1>5

LEMMA ClockAfterTyped ==
  ASSUME NEW clock \in Clocks, NEW tags, Len(tags) \in Nat,
         \A j \in 1 .. Len(tags) : tags[j].args \in Seq(Int)
  PROVE  /\ ClockAfter(clock, tags) \in Clocks
         /\ Len(tags) = 0 => ClockAfter(clock, tags) = clock
<1>1. PICK p : /\ p[0] = clock
               /\ \A k \in 1 .. Len(tags) : p[k] = Tick(p[k - 1], tags[k])
               /\ ClockAfter(clock, tags) = p[Len(tags)]
  BY TickedToEnd
<1> DEFINE Off == {k \in 0 .. Len(tags) : p[k] \notin Clocks}
<1>2. Off = {}
  <2>1. SUFFICES ASSUME Off # {} PROVE FALSE
    OBVIOUS
  <2>2. PICK m \in Off : \A k \in Off : m <= k
    <3>1. Off \in SUBSET Nat
      OBVIOUS
    <3> QED BY <2>1, <3>1, Smallest
  <2>3. m # 0
    BY <1>1
  <2>4. m \in 1 .. Len(tags) /\ m - 1 \in 0 .. Len(tags) /\ ~ (m <= m - 1)
    BY <2>3
  <2>5. p[m - 1] \in Clocks
    BY <2>2, <2>4
  <2>6. Tick(p[m - 1], tags[m]) \in Clocks
    BY <2>4, <2>5, TickTyped
  <2> QED BY <1>1, <2>4, <2>6
<1>3. Len(tags) \in 0 .. Len(tags)
  OBVIOUS
<1> QED BY <1>1, <1>2, <1>3

\* The clock when a text has been read up to k (ClockAt)
Passed(p, text, m) ==
  p = [k \in 0 .. m |-> IF k = 0 THEN NoClock ELSE ClockAfter(p[k - 1], text[k].tags)]
ClockOn(text, k) == (CHOOSE p : Passed(p, text, k))[k]

LEMMA ClockOfText == \A k : ClockAt(k) = ClockOn(Text, k)
BY Zenon DEF ClockAt, ClockOn, Passed, NoClock

LEMMA PassedExists ==
  ASSUME NEW text, NEW m \in Nat
  PROVE  \E p : Passed(p, text, m)
<1> DEFINE Has(j) == \E p : Passed(p, text, j)
           Bad == {j \in Nat : ~ Has(j)}
<1>1. SUFFICES ASSUME Bad # {} PROVE FALSE
  OBVIOUS
<1> HIDE DEF Has
<1>2. PICK j \in Bad : \A k \in Bad : j <= k
  BY <1>1, Smallest
<1>3. j \in Nat /\ ~ Has(j)
  OBVIOUS
<1>4. CASE j = 0
  <2> DEFINE p == [k \in 0 .. 0 |-> NoClock]
  <2>1. p = [k \in 0 .. 0 |-> IF k = 0 THEN NoClock ELSE ClockAfter(p[k - 1], text[k].tags)]
    OBVIOUS
  <2> HIDE DEF p
  <2> QED BY <1>3, <1>4, <2>1 DEF Has, Passed
<1>5. CASE j > 0
  <2>1. ~ (j <= j - 1) /\ j - 1 \in Nat
    BY <1>3, <1>5
  <2>2. Has(j - 1)
    BY <1>2, <2>1
  <2>3. PICK p : Passed(p, text, j - 1)
    BY <2>2 DEF Has
  <2> DEFINE last == ClockAfter(p[j - 1], text[j].tags)
             q == [k \in 0 .. j |-> IF k = j THEN last ELSE p[k]]
  <2>4. ASSUME NEW k \in 0 .. j
        PROVE  q[k] = IF k = 0 THEN NoClock ELSE ClockAfter(q[k - 1], text[k].tags)
    <3> HIDE DEF last
    <3>1. CASE k = j
      <4>1. q[j] = last /\ q[j - 1] = p[j - 1] /\ j # 0
        BY <1>5, <2>1
      <4> QED BY <3>1, <4>1 DEF last
    <3>2. CASE k # j
      <4>1. k \in 0 .. j - 1 /\ q[k] = p[k] /\ (k # 0 => q[k - 1] = p[k - 1])
        BY <3>2, <1>3
      <4>2. p[k] = IF k = 0 THEN NoClock ELSE ClockAfter(p[k - 1], text[k].tags)
        BY <2>3, <4>1 DEF Passed
      <4> QED BY <4>1, <4>2
    <3> QED BY <3>1, <3>2
  <2>5. q = [k \in 0 .. j |-> q[k]]
    OBVIOUS
  <2> HIDE DEF q
  <2>6. Passed(q, text, j)
    BY <2>4, <2>5 DEF Passed
  <2> QED BY <1>3, <2>6 DEF Has
<1> QED BY <1>3, <1>4, <1>5

LEMMA ClockOnNext ==
  ASSUME NEW text
  PROVE  /\ ClockOn(text, 0) = NoClock
         /\ \A k \in Nat \ {0} : ClockOn(text, k) = ClockAfter(ClockOn(text, k - 1), text[k].tags)
<1> DEFINE P(k) == CHOOSE p : Passed(p, text, k)
<1>1. \A k \in Nat : Passed(P(k), text, k)
  BY PassedExists
<1>2. \A k \in Nat : ClockOn(text, k) = P(k)[k]
  BY DEF ClockOn
<1> HIDE DEF P
<1>3. ASSUME NEW m \in Nat
      PROVE  P(m)[0] = NoClock
             /\ \A k \in 1 .. m : P(m)[k] = ClockAfter(P(m)[k - 1], text[k].tags)
  BY <1>1, <1>3 DEF Passed
<1>4. ASSUME NEW k \in Nat \ {0}
      PROVE  ClockOn(text, k) = ClockAfter(ClockOn(text, k - 1), text[k].tags)
  <2>1. k - 1 \in Nat
    BY <1>4
  <2> DEFINE Off == {j \in 0 .. k - 1 : P(k)[j] # P(k - 1)[j]}
  <2>2. Off = {}
    <3>1. SUFFICES ASSUME Off # {} PROVE FALSE
      OBVIOUS
    <3>2. PICK m \in Off : \A j \in Off : m <= j
      <4>1. Off \in SUBSET Nat
        BY <2>1
      <4> QED BY <3>1, <4>1, Smallest
    <3>3. m # 0
      BY <1>3, <2>1
    <3>4. m \in 1 .. k /\ m \in 1 .. k - 1 /\ m - 1 \in 0 .. k - 1 /\ ~ (m <= m - 1)
      BY <2>1, <3>3
    <3>5. P(k)[m - 1] = P(k - 1)[m - 1]
      BY <3>2, <3>4
    <3>6. P(k)[m] = ClockAfter(P(k)[m - 1], text[m].tags)
      BY <1>3, <3>4
    <3>7. P(k - 1)[m] = ClockAfter(P(k - 1)[m - 1], text[m].tags)
      BY <1>3, <2>1, <3>4
    <3> QED BY <3>5, <3>6, <3>7
  <2>3. P(k)[k - 1] = P(k - 1)[k - 1]
    <3>1. k - 1 \in 0 .. k - 1
      BY <2>1
    <3> QED BY <2>2, <3>1
  <2>4. P(k)[k] = ClockAfter(P(k)[k - 1], text[k].tags)
    <3>1. k \in 1 .. k
      BY <1>4
    <3> QED BY <1>3, <1>4, <3>1
  <2>5. ClockOn(text, k) = P(k)[k] /\ ClockOn(text, k - 1) = P(k - 1)[k - 1]
    BY <1>2, <1>4, <2>1
  <2> QED BY <2>3, <2>4, <2>5
<1>5. ClockOn(text, 0) = NoClock
  BY <1>2, <1>3
<1> QED BY <1>4, <1>5

LEMMA ClockOnTyped ==
  ASSUME NEW text, IsText(text), NEW k \in 0 .. Len(text)
  PROVE  ClockOn(text, k) \in Clocks
<1> DEFINE Off == {j \in 0 .. Len(text) : ClockOn(text, j) \notin Clocks}
<1>0. Len(text) \in Nat
  BY DEF IsText
<1>1. SUFFICES ASSUME Off # {} PROVE FALSE
  OBVIOUS
<1>2. PICK m \in Off : \A j \in Off : m <= j
  <2>1. Off \in SUBSET Nat
    BY <1>0
  <2> QED BY <1>1, <2>1, Smallest
<1>3. NoClock \in Clocks
  BY DEF NoClock, Clocks, EffectTypes
<1>4. m # 0
  BY <1>3, ClockOnNext
<1>5. m \in 1 .. Len(text) /\ m \in Nat \ {0} /\ m - 1 \in 0 .. Len(text) /\ ~ (m <= m - 1)
  BY <1>0, <1>4
<1>6. ClockOn(text, m - 1) \in Clocks
  BY <1>2, <1>5
<1>7. ClockAfter(ClockOn(text, m - 1), text[m].tags) \in Clocks
  BY <1>5, <1>6, ClockAfterTyped DEF IsText
<1> QED BY <1>5, <1>7, ClockOnNext

\* Is there a karaoke tag, is the clock set, in the text from a to b?
Times(tags, m) == \E j \in 1 .. m : Timed(tags[j])
Sets(tags, m) == \E j \in 1 .. m : tags[j].name = "kt"
TimesIn(text, a, b) == \E k \in a .. b : Times(text[k].tags, Len(text[k].tags))
SetsIn(text, a, b) == \E k \in a .. b : Sets(text[k].tags, Len(text[k].tags))

\* Characters do not move the clock.
LEMMA Silent ==
  ASSUME NEW text, IsText(text), NEW a \in 1 .. Len(text) + 1, NEW b \in 0 .. Len(text),
         a <= b + 1,
         \A k \in a .. b : ~IsTags(text[k])
  PROVE  /\ ClockOn(text, b) = ClockOn(text, a - 1)
         /\ \A c \in 1 .. a : /\ TimesIn(text, c, b) <=> TimesIn(text, c, a - 1)
                              /\ SetsIn(text, c, b) <=> SetsIn(text, c, a - 1)
<1>0. Len(text) \in Nat
  BY DEF IsText
<1>1. \A k \in a .. b : Len(text[k].tags) = 0
  BY <1>0 DEF IsText
<1>2. ClockOn(text, b) = ClockOn(text, a - 1)
  <2> DEFINE Off == {k \in a - 1 .. b : ClockOn(text, k) # ClockOn(text, a - 1)}
  <2>1. Off = {}
    <3>1. SUFFICES ASSUME Off # {} PROVE FALSE
      OBVIOUS
    <3>2. PICK m \in Off : \A j \in Off : m <= j
      <4>1. Off \in SUBSET Nat
        BY <1>0
      <4> QED BY <3>1, <4>1, Smallest
    <3>3. m # a - 1
      OBVIOUS
    <3>4. /\ m \in a .. b /\ m \in Nat \ {0} /\ m - 1 \in a - 1 .. b /\ ~ (m <= m - 1)
          /\ m - 1 \in 0 .. Len(text) /\ m \in 1 .. Len(text)
      BY <1>0, <3>3
    <3>5. ClockOn(text, m - 1) = ClockOn(text, a - 1)
      BY <3>2, <3>4
    <3>6. ClockOn(text, m) = ClockAfter(ClockOn(text, m - 1), text[m].tags)
      BY <3>4, ClockOnNext
    <3>7. ClockOn(text, m - 1) \in Clocks
      BY <3>4, ClockOnTyped
    <3>8. ClockAfter(ClockOn(text, m - 1), text[m].tags) = ClockOn(text, m - 1)
      BY <1>1, <3>4, <3>7, ClockAfterTyped DEF IsText
    <3> QED BY <3>5, <3>6, <3>8
  <2>2. b \in a - 1 .. b
    BY <1>0
  <2> QED BY <2>1, <2>2
<1>3. ASSUME NEW c \in 1 .. a
      PROVE  /\ TimesIn(text, c, b) <=> TimesIn(text, c, a - 1)
             /\ SetsIn(text, c, b) <=> SetsIn(text, c, a - 1)
  <2>1. \A k \in a .. b : ~ Times(text[k].tags, Len(text[k].tags))
                          /\ ~ Sets(text[k].tags, Len(text[k].tags))
    BY <1>1 DEF Times, Sets
  <2>2. \A k \in c .. b : k \in c .. a - 1 \/ k \in a .. b
    BY <1>0
  <2>3. \A k \in c .. a - 1 : k \in c .. b
    BY <1>0
  <2> QED BY <2>1, <2>2, <2>3 DEF TimesIn, SetsIn
<1> QED BY <1>2, <1>3

-----------------------------------------------------------------------------
(* The clock and the effect that a context has for the next glyph          *)

\* What x has for the next glyph makes the clock now of the clock old; timed and
\* set say whether there were karaoke tags in between, and one that set it.
Follows(x, old, now, timed, set) ==
  /\ x.effect_type \in EffectTypes
  /\ x.effect_timing \in Int /\ x.effect_skip_timing \in Int /\ x.reset_effect \in BOOLEAN
  /\ now.type = IF x.effect_type # "NONE" THEN x.effect_type ELSE old.type
  /\ now.till = (IF x.reset_effect = TRUE THEN 0 ELSE old.till)
                + x.effect_skip_timing + x.effect_timing
  /\ timed => now.from = (IF x.reset_effect = TRUE THEN 0 ELSE old.till) + x.effect_skip_timing
  /\ ~timed => x.effect_type = "NONE" /\ x.reset_effect = FALSE
  /\ ~timed \/ (x.effect_type = "NONE" /\ x.reset_effect = FALSE) =>
       now = old /\ x.effect_timing = 0 /\ x.effect_skip_timing = 0
  /\ x.reset_effect = TRUE => set

LEMMA ApplyTimes ==
  ASSUME NEW c, NEW t, NEW pwr, Context(c), t.args \in Seq(Int),
         NEW old \in Clocks, NEW now \in Clocks,
         NEW timed \in BOOLEAN, NEW set \in BOOLEAN, Follows(c, old, now, timed, set)
  PROVE  Follows(Apply(c, t, pwr), old, Tick(now, t), timed \/ Timed(t), set \/ t.name = "kt")
<1>1. t.args # <<>> => t.args[1] \in Int
  OBVIOUS
<1>2. CASE t.name = "kt"
  <2> DEFINE x == SetClock(c, t)
  <2>1. Apply(c, t, pwr) = x
    BY <1>2 DEF Apply, Animates, Switches, Effects
  <2>2. ValueOf(t) \in Int
    BY <1>1 DEF ValueOf
  <2>3. /\ x.effect_type = c.effect_type /\ x.effect_timing = 0
        /\ x.effect_skip_timing = ValueOf(t) /\ x.reset_effect = TRUE
    BY DEF SetClock, Context, Fields
  <2>4. /\ Tick(now, t).type = now.type /\ Tick(now, t).from = ValueOf(t)
        /\ Tick(now, t).till = ValueOf(t)
    BY <1>2 DEF Tick, Timed, Clocks
  <2> HIDE DEF x
  <2>5. Timed(t)
    BY <1>2 DEF Timed
  <2>6. Follows(x, old, Tick(now, t), TRUE, TRUE)
    <3> DEFINE v == ValueOf(t)
               next == Tick(now, t)
    <3>1. /\ x.effect_type = c.effect_type /\ x.effect_timing = 0 /\ x.effect_skip_timing = v
          /\ x.reset_effect = TRUE /\ x.reset_effect # FALSE
          /\ next.type = now.type /\ next.from = v /\ next.till = v /\ v \in Int
      BY <2>2, <2>3, <2>4
    <3>2. /\ c.effect_type \in EffectTypes
          /\ now.type = IF c.effect_type # "NONE" THEN c.effect_type ELSE old.type
      BY DEF Follows
    <3> HIDE DEF v, next
    <3>3. next.type = IF x.effect_type # "NONE" THEN x.effect_type ELSE old.type
      BY <3>1, <3>2
    <3>4. next.till = (IF x.reset_effect = TRUE THEN 0 ELSE old.till)
                      + x.effect_skip_timing + x.effect_timing
      BY <3>1
    <3>5. next.from = (IF x.reset_effect = TRUE THEN 0 ELSE old.till) + x.effect_skip_timing
      BY <3>1
    <3>6. /\ x.effect_type \in EffectTypes /\ x.effect_timing \in Int
          /\ x.effect_skip_timing \in Int /\ x.reset_effect \in BOOLEAN
      <4>1. x.reset_effect \in BOOLEAN
        BY Zenon, <3>1
      <4>2. x.effect_timing \in Int
        BY <3>1
      <4> QED BY Zenon, <3>1, <3>2, <4>1, <4>2
    <3>7. ~ (x.effect_type = "NONE" /\ x.reset_effect = FALSE)
      BY <3>1
    <3>8. Follows(x, old, next, TRUE, TRUE)
      BY Zenon, <3>3, <3>4, <3>5, <3>6, <3>7 DEF Follows
    <3> QED BY <3>8 DEF next
  <2>7. (timed \/ Timed(t)) = TRUE /\ (set \/ t.name = "kt") = TRUE
    BY <1>2, <2>5
  <2> QED BY <2>1, <2>6, <2>7
<1>3. CASE t.name \in DOMAIN Effects
  <2> DEFINE x == Syllable(c, t)
             arg == IF t.args = <<>> THEN 100 ELSE t.args[1]
             type == Effects[t.name]
  <2>1. Apply(c, t, pwr) = x /\ t.name # "kt"
    BY <1>3 DEF Apply, Animates, Switches, Effects
  <2>2. arg \in Int
    BY <1>1
  <2>3. /\ x.effect_type = type /\ x.effect_timing = arg
        /\ x.effect_skip_timing = c.effect_skip_timing + c.effect_timing
        /\ x.reset_effect = c.reset_effect
    BY DEF Syllable, Context, Fields
  <2>4. Tick(now, t) = [from |-> now.till, type |-> type, till |-> now.till + arg]
    BY <1>3, <2>1 DEF Tick, Timed
  <2>5. type # "NONE" /\ type \in EffectTypes
    BY <1>3 DEF Effects, EffectTypes
  <2>6. Timed(t)
    BY <1>3 DEF Timed
  <2> HIDE DEF x, arg, type
  <2>7. old.till \in Int /\ now.till \in Int
    BY DEF Clocks
  <2> QED BY <2>1, <2>2, <2>3, <2>4, <2>5, <2>6, <2>7 DEF Follows
<1>4. CASE ~ Timed(t)
  <2> DEFINE x == Apply(c, t, pwr)
  <2>1. /\ x.effect_type = c.effect_type /\ x.effect_timing = c.effect_timing
        /\ x.effect_skip_timing = c.effect_skip_timing /\ x.reset_effect = c.reset_effect
    BY <1>4 DEF Timed, Apply, Context, Fields, Animate, Switch, Position, Origin, Align, Fade,
                Clip, ResetTag, Reset, DrawingScale, BaselineOffset, Wrap
  <2>2. Tick(now, t) = now /\ t.name # "kt"
    BY <1>4 DEF Tick, Timed
  <2>3. Apply(c, t, pwr) = x
    OBVIOUS
  <2> HIDE DEF x
  <2>4. Follows(x, old, now, timed, set)
    BY <2>1 DEF Follows
  <2>5. (timed \/ Timed(t)) = timed /\ (set \/ t.name = "kt") = set
    BY <1>4, <2>2
  <2> QED BY <2>2, <2>3, <2>4, <2>5
<1> QED BY <1>2, <1>3, <1>4 DEF Timed

LEMMA NextTagApplies ==
  ASSUME NEW s, NEW t
  PROVE  NextTag(s, t).ctx = Apply(s.ctx, t, s.pwr)
<1> DEFINE x == Apply(s.ctx, t, s.pwr)
           takesOver == t.name = "t" /\ (s.nested \/ t.opens)
           pwr == IF takesOver THEN Progress(s.ctx, t) ELSE s.pwr
           nested == s.nested \/ takesOver
           next == [ctx |-> x, pwr |-> pwr, nested |-> nested]
<1>1. NextTag(s, t) = IF s.nested /\ t.paren
                        THEN [next EXCEPT !.pwr = Whole, !.nested = FALSE] ELSE next
  BY DEF NextTag
<1> HIDE DEF x, pwr, nested
<1> QED BY <1>1 DEF x

LEMMA ParseTagsTimes ==
  ASSUME NEW c, NEW tags, Context(c), Len(tags) \in Nat,
         \A j \in 1 .. Len(tags) : tags[j].args \in Seq(Int),
         NEW old \in Clocks, NEW now \in Clocks,
         NEW timed \in BOOLEAN, NEW set \in BOOLEAN, Follows(c, old, now, timed, set)
  PROVE  Follows(ParseTags(c, tags), old, ClockAfter(now, tags),
                 timed \/ Times(tags, Len(tags)), set \/ Sets(tags, Len(tags)))
<1>1. PICK p : /\ p[0] = Unparsed(c)
               /\ \A k \in 1 .. Len(tags) : p[k] = NextTag(p[k - 1], tags[k])
               /\ ParseTags(c, tags) = p[Len(tags)].ctx
  BY ParsedToEnd
<1>2. PICK q : /\ q[0] = now
               /\ \A k \in 1 .. Len(tags) : q[k] = Tick(q[k - 1], tags[k])
               /\ ClockAfter(now, tags) = q[Len(tags)]
  BY TickedToEnd
<1> DEFINE Goes1(k) == Context(p[k].ctx) /\ q[k] \in Clocks
           Goes2(k) == Follows(p[k].ctx, old, q[k], timed \/ Times(tags, k), set \/ Sets(tags, k))
           Off == {k \in 0 .. Len(tags) : ~ (Goes1(k) /\ Goes2(k))}
<1>3. Goes1(0) /\ Goes2(0)
  <2>1. p[0].ctx = c /\ q[0] = now
    BY <1>1, <1>2 DEF Unparsed
  <2>2. (timed \/ Times(tags, 0)) = timed /\ (set \/ Sets(tags, 0)) = set
    BY DEF Times, Sets
  <2> QED BY <2>1, <2>2
<1>4. ASSUME NEW k \in 1 .. Len(tags), Goes1(k - 1), Goes2(k - 1)
      PROVE  Goes1(k) /\ Goes2(k)
  <2> DEFINE x == p[k - 1].ctx
             pwr == p[k - 1].pwr
             clock == q[k - 1]
             was == timed \/ Times(tags, k - 1)
             sets == set \/ Sets(tags, k - 1)
             t == tags[k]
  <2>1. p[k].ctx = Apply(x, t, pwr) /\ q[k] = Tick(clock, t)
    <3> DEFINE r == p[k - 1]
    <3>1. p[k] = NextTag(r, t) /\ q[k] = Tick(clock, t)
      BY <1>1, <1>2
    <3> HIDE DEF r, t
    <3>2. NextTag(r, t).ctx = Apply(r.ctx, t, r.pwr)
      BY NextTagApplies
    <3> QED BY <3>1, <3>2 DEF r
  <2>2. Context(x) /\ clock \in Clocks /\ t.args \in Seq(Int)
    BY <1>4
  <2>3. was \in BOOLEAN /\ sets \in BOOLEAN /\ Follows(x, old, clock, was, sets)
    BY <1>4
  <2>4. (timed \/ Times(tags, k)) = (was \/ Timed(t))
    <3>1. Times(tags, k) <=> Times(tags, k - 1) \/ Timed(t)
      <4>1. \A j \in 1 .. k : j \in 1 .. k - 1 \/ j = k
        OBVIOUS
      <4>2. \A j \in 1 .. k - 1 : j \in 1 .. k
        OBVIOUS
      <4>3. k \in 1 .. k
        OBVIOUS
      <4> QED BY <4>1, <4>2, <4>3 DEF Times
    <3> QED BY <3>1
  <2>5. (set \/ Sets(tags, k)) = (sets \/ t.name = "kt")
    <3>1. Sets(tags, k) <=> Sets(tags, k - 1) \/ t.name = "kt"
      <4>1. \A j \in 1 .. k : j \in 1 .. k - 1 \/ j = k
        OBVIOUS
      <4>2. \A j \in 1 .. k - 1 : j \in 1 .. k
        OBVIOUS
      <4>3. k \in 1 .. k
        OBVIOUS
      <4> QED BY <4>1, <4>2, <4>3 DEF Sets
    <3> QED BY <3>1
  <2> HIDE DEF x, pwr, clock, was, sets, t
  <2>6. Context(Apply(x, t, pwr))
    <3>1. Alike(x, x)
      BY <2>2 DEF Alike
    <3>2. Alike(Apply(x, t, pwr), Apply(x, t, pwr))
      BY <3>1, ApplyAlike
    <3> QED BY <3>2 DEF Alike
  <2>7. Tick(clock, t) \in Clocks
    BY <2>2, TickTyped
  <2>8. Follows(Apply(x, t, pwr), old, Tick(clock, t), was \/ Timed(t), sets \/ t.name = "kt")
    BY <2>2, <2>3, ApplyTimes
  <2> QED BY <2>1, <2>4, <2>5, <2>6, <2>7, <2>8
<1> HIDE DEF Goes1, Goes2
<1>5. Off = {}
  <2>1. SUFFICES ASSUME Off # {} PROVE FALSE
    OBVIOUS
  <2>2. Off \in SUBSET Nat
    OBVIOUS
  <2>3. PICK m \in Off : \A k \in Off : m <= k
    BY <2>1, <2>2, Smallest
  <2>4. m \in 1 .. Len(tags) /\ m - 1 \in 0 .. Len(tags) /\ ~ (m <= m - 1)
    BY <1>3
  <2>5. Goes1(m - 1) /\ Goes2(m - 1)
    BY <2>3, <2>4
  <2> QED BY <1>4, <2>4, <2>5
<1>6. Goes2(Len(tags))
  BY <1>5
<1> QED BY <1>1, <1>2, <1>6 DEF Goes2

-----------------------------------------------------------------------------
(* The clock and the glyphs                                                *)

\* Where the text had been read to before a glyph
Before(gs, k) == IF k = 1 THEN 0 ELSE gs[k - 1].source

\* A glyph has what makes the clock of its place of the clock of the one before.
TimedGlyph(text, gs, k) ==
  /\ gs[k].source \in 1 .. Len(text) /\ Before(gs, k) < gs[k].source
  /\ Follows(gs[k], ClockOn(text, Before(gs, k)), ClockOn(text, gs[k].source),
             TimesIn(text, Before(gs, k) + 1, gs[k].source),
             SetsIn(text, Before(gs, k) + 1, gs[k].source))
  /\ gs[k].sung = <<0, 0>>

\* In the middle of a run nothing begins.
InRun(text, gs, k) ==
  ~gs[k].starts_new_run =>
    /\ k # 1 /\ gs[k].effect_timing = 0
    /\ gs[k].effect_type \in {"NONE", ClockOn(text, Before(gs, k)).type}

\* The context has what comes for the next glyph.
Pending(text, gs, len, c, place) ==
  /\ Before(gs, len + 1) < place
  /\ Follows(c, ClockOn(text, Before(gs, len + 1)), ClockOn(text, place - 1),
             TimesIn(text, Before(gs, len + 1) + 1, place - 1),
             SetsIn(text, Before(gs, len + 1) + 1, place - 1))

\* SetEarly, RunStart, SungAt, of a text and its glyphs
Early(text, gs) ==
  \E k \in 1 .. Len(gs) :
    /\ ClockOn(text, gs[k].source).type = "NONE"
    /\ SetsIn(text, 1, gs[k].source)
RunOf(gs, k) == Max({1} \cup {j \in 1 .. k : gs[j].starts_new_run})
TimeOf(text, gs, k) ==
  LET clock == ClockOn(text, gs[k].source)
  IN  IF clock.type = "NONE" THEN <<0, 0>>
      ELSE IF ~TimesIn(text, Before(gs, k) + 1, gs[k].source) THEN <<clock.till, clock.till>>
      ELSE <<clock.from, IF clock.type = "KARAOKE_KF" THEN clock.till ELSE clock.from>>
SungRight(text, gs) ==
  ~Early(text, gs) =>
    \A k \in 1 .. Len(gs) :
      /\ gs[k].sung = TimeOf(text, gs, RunOf(gs, k))
      /\ gs[k].effect_type = ClockOn(text, gs[RunOf(gs, k)].source).type

KInv ==
  /\ pc \in {"parse", "split", "wrap", "balance", "trim", "measure", "karaoke"} =>
       \A k \in 1 .. Length : TimedGlyph(Text, glyphs, k)
  /\ pc = "parse" => Pending(Text, glyphs, Length, state, at)
  /\ pc \in {"wrap", "balance", "trim", "measure", "karaoke"} =>
       \A k \in 1 .. Length : InRun(Text, glyphs, k)
  /\ pc \in {"reorder", "align", "done"} =>
       SungRight(Text, glyphs) /\ \A k \in 1 .. Length : glyphs[k].source \in 1 .. Len(Text)

LEMMA TextIsText == CInv /\ n > 0 => IsText(Text)
<1> SUFFICES ASSUME CInv, n > 0 PROVE IsText(Text)
  OBVIOUS
<1>1. Text = session.events[n].Text /\ n \in 1 .. Len(session.events) /\ session \in Sessions
  BY SessionsAssumption DEF CInv, Text
<1>2. n \in DOMAIN session.events
  BY <1>1 DEF CInv
<1> DEFINE e == session.events[n]
<1>3. /\ Len(e.Text) \in Nat
      /\ \A k \in 1 .. Len(e.Text) :
           /\ Len(e.Text[k].tags) \in Nat /\ DOMAIN e.Text[k].tags = 1 .. Len(e.Text[k].tags)
           /\ ~IsTags(e.Text[k]) => Len(e.Text[k].tags) = 0
           /\ \A j \in 1 .. Len(e.Text[k].tags) : e.Text[k].tags[j].args \in Seq(Int)
  BY Zenon, <1>1, <1>2, SessionsAssumption
<1> HIDE DEF e
<1>4. IsText(e.Text)
  BY <1>3 DEF IsText
<1> QED BY <1>1, <1>4 DEF e

LEMMA FollowsSame ==
  ASSUME NEW x, NEW y, NEW old, NEW now, NEW timed \in BOOLEAN, NEW set \in BOOLEAN,
         x.effect_type = y.effect_type, x.effect_timing = y.effect_timing,
         x.effect_skip_timing = y.effect_skip_timing, x.reset_effect = y.reset_effect,
         Follows(x, old, now, timed, set)
  PROVE  Follows(y, old, now, timed, set)
BY Zenon DEF Follows

\* A glyph keeps its times when it keeps its effect and its source.
LEMMA GlyphTimesKept ==
  ASSUME NEW text, NEW gs, NEW hs, NEW len \in Nat,
         \A k \in 1 .. len :
           /\ hs[k].source = gs[k].source /\ hs[k].sung = gs[k].sung
           /\ hs[k].effect_type = gs[k].effect_type /\ hs[k].effect_timing = gs[k].effect_timing
           /\ hs[k].effect_skip_timing = gs[k].effect_skip_timing
           /\ hs[k].reset_effect = gs[k].reset_effect
  PROVE  /\ \A k \in 1 .. len + 1 : Before(hs, k) = Before(gs, k)
         /\ \A k \in 1 .. len : TimedGlyph(text, gs, k) => TimedGlyph(text, hs, k)
<1>1. ASSUME NEW k \in 1 .. len + 1 PROVE Before(hs, k) = Before(gs, k)
  <2>1. k # 1 => k - 1 \in 1 .. len
    OBVIOUS
  <2> QED BY <2>1 DEF Before
<1>2. ASSUME NEW k \in 1 .. len, TimedGlyph(text, gs, k) PROVE TimedGlyph(text, hs, k)
  <2>1. Before(hs, k) = Before(gs, k) /\ hs[k].source = gs[k].source /\ hs[k].sung = gs[k].sung
    BY <1>1
  <2> DEFINE timed == TimesIn(text, Before(gs, k) + 1, gs[k].source)
             set == SetsIn(text, Before(gs, k) + 1, gs[k].source)
             old == ClockOn(text, Before(gs, k))
             now == ClockOn(text, gs[k].source)
             x == gs[k]
             y == hs[k]
  <2>2. Follows(x, old, now, timed, set)
    BY <1>2 DEF TimedGlyph
  <2>3. timed \in BOOLEAN /\ set \in BOOLEAN
    BY DEF TimesIn, SetsIn
  <2>4. /\ x.effect_type = y.effect_type /\ x.effect_timing = y.effect_timing
        /\ x.effect_skip_timing = y.effect_skip_timing /\ x.reset_effect = y.reset_effect
    OBVIOUS
  <2> HIDE DEF timed, set, old, now, x, y
  <2>5. Follows(y, old, now, timed, set)
    BY <2>2, <2>3, <2>4, FollowsSame
  <2> QED BY <1>2, <2>1, <2>5 DEF TimedGlyph, timed, set, old, now, y
<1> QED BY <1>1, <1>2

\* What has no effect leaves the clock as it is.
LEMMA QuietFollows ==
  ASSUME NEW x, NEW old \in Clocks, x.effect_type = "NONE", x.effect_timing = 0,
         x.effect_skip_timing = 0, x.reset_effect = FALSE
  PROVE  Follows(x, old, old, FALSE, FALSE)
<1>1. x.reset_effect \in BOOLEAN
  BY Zenon
<1>2. /\ x.effect_type \in EffectTypes /\ x.effect_timing \in Int
      /\ x.effect_skip_timing \in Int /\ ~ (x.reset_effect = TRUE)
  BY DEF EffectTypes
<1>3. old.till \in Int
  BY DEF Clocks
<1>4. /\ old.type = IF x.effect_type # "NONE" THEN x.effect_type ELSE old.type
      /\ old.till = (IF x.reset_effect = TRUE THEN 0 ELSE old.till)
                    + x.effect_skip_timing + x.effect_timing
  BY <1>2, <1>3
<1> QED BY Zenon, <1>1, <1>2, <1>4 DEF Follows

LEMMA InitEffect ==
  ASSUME NEW c, NEW e, Context(c)
  PROVE  /\ InitContext(c, e).effect_type = "NONE" /\ InitContext(c, e).effect_timing = 0
         /\ InitContext(c, e).effect_skip_timing = 0 /\ InitContext(c, e).reset_effect = FALSE
<1> DEFINE Quiet(x) == /\ x = [f \in Fields |-> x[f]]
                       /\ x.effect_type = "NONE" /\ x.effect_timing = 0
                       /\ x.effect_skip_timing = 0 /\ x.reset_effect = FALSE
           blank == [c EXCEPT
             !.event = e, !.parsed_tags = {}, !.evt_type = {}, !.wrap_style = TrackWrapStyle,
             !.pos = <<0, 0>>, !.org = <<0, 0>>, !.have_origin = FALSE,
             !.clip = <<0, 0, PlayRes[1], PlayRes[2]>>, !.clip_mode = FALSE,
             !.detect_collisions = TRUE, !.fade = 0, !.drawing_scale = 0, !.pbo = 0,
             !.effect_type = "NONE", !.effect_timing = 0, !.effect_skip_timing = 0,
             !.reset_effect = FALSE]
           moving == Transition(blank, e.Effect)
           explicit == moving.evt_type # {} \/ HardOverrides(e.Text)
           placed == [moving EXCEPT !.explicit = explicit]
           ready == Reset(placed, Styles[e.Style])
<1>1. InitContext(c, e) = [ready EXCEPT !.alignment = ready.style.Alignment,
                                        !.justify = ready.style.Justify]
  BY DEF InitContext
<1>2. Quiet(blank)
  <2>1. c = [f \in Fields |-> c[f]]
    BY DEF Context
  <2>2. blank = [f \in Fields |-> blank[f]]
    BY <2>1
  <2>3. /\ blank.effect_type = "NONE" /\ blank.effect_timing = 0
        /\ blank.effect_skip_timing = 0 /\ blank.reset_effect = FALSE
    BY <2>1 DEF Fields
  <2> HIDE DEF blank
  <2> QED BY <2>2, <2>3
<1> HIDE DEF blank
<1>3. Quiet(moving)
  <2>1. CASE e.Effect = "Banner"
    <3>1. moving = [blank EXCEPT !.evt_type = blank.evt_type \cup {"HSCROLL"},
                                 !.detect_collisions = FALSE, !.wrap_style = 2]
      BY <1>2, <2>1 DEF Transition, Fields
    <3> QED BY <1>2, <3>1 DEF Fields
  <2>2. CASE e.Effect = "Scroll"
    <3>1. moving = [blank EXCEPT !.evt_type = blank.evt_type \cup {"VSCROLL"},
                                 !.detect_collisions = FALSE]
      BY <1>2, <2>2 DEF Transition, Fields
    <3> QED BY <1>2, <3>1 DEF Fields
  <2>3. CASE e.Effect # "Banner" /\ e.Effect # "Scroll"
    BY <1>2, <2>3 DEF Transition
  <2> QED BY <2>1, <2>2, <2>3
<1> HIDE DEF moving, explicit
<1>4. Quiet(placed)
  BY <1>3 DEF Fields
<1> HIDE DEF placed
<1>5. Quiet(ready)
  <2> DEFINE style == StyleFor(placed, Styles[e.Style])
             look == LookOf(style)
             scale == ~placed.explicit \/ ~ScaleOnly
  <2>1. ready = [placed EXCEPT !.style = style, !.look = look, !.apply_font_scale = scale]
    BY DEF Reset
  <2> HIDE DEF style, look, scale, ready
  <2> QED BY <1>4, <2>1 DEF Fields
<1> HIDE DEF ready
<1> QED BY <1>1, <1>5 DEF Fields

LEMMA KInvBegin == CInv /\ CInv' /\ Begin => KInv'
<1> SUFFICES ASSUME CInv, CInv', Begin PROVE KInv'
  OBVIOUS
<1>1. /\ pc' = "parse" /\ glyphs' = <<>> /\ at' = 1 /\ Len(glyphs') = 0
      /\ state' = InitContext(FreeContext(state), session.events[n + 1])
  BY EmptySequence DEF Begin
<1>2. /\ state'.effect_type = "NONE" /\ state'.effect_timing = 0
      /\ state'.effect_skip_timing = 0 /\ state'.reset_effect = FALSE
  <2>1. Context(FreeContext(state))
    BY FreeKeeps DEF CInv
  <2> QED BY <1>1, <2>1, InitEffect
<1> DEFINE text == Text'
<1>3. Before(glyphs', 1) = 0
  BY DEF Before
<1>4. TimesIn(text, 1, 0) = FALSE /\ SetsIn(text, 1, 0) = FALSE
  BY DEF TimesIn, SetsIn
<1>5. ClockOn(text, 0) = NoClock
  BY ClockOnNext
<1> HIDE DEF text
<1>6. Follows(state', NoClock, NoClock, FALSE, FALSE)
  <2>1. NoClock \in Clocks
    BY DEF NoClock, Clocks, EffectTypes
  <2> QED BY <1>2, <2>1, QuietFollows
<1>7. Pending(text, glyphs', 0, state', 1)
  <2>1. 0 + 1 = 1 /\ 1 - 1 = 0 /\ 0 < 1
    OBVIOUS
  <2>2. /\ Before(glyphs', 1) < 1
        /\ Follows(state', ClockOn(text, Before(glyphs', 1)), ClockOn(text, 0),
                   TimesIn(text, 0 + 1, 0), SetsIn(text, 0 + 1, 0))
    BY Zenon, <1>3, <1>4, <1>5, <1>6, <2>1
  <2> QED BY Zenon, <1>3, <2>1, <2>2 DEF Pending
<1>8. Pending(Text', glyphs', Length', state', at')
  BY <1>1, <1>7 DEF text, Length
<1> QED BY <1>1, <1>8 DEF KInv, Length

LEMMA KInvBlock == CInv /\ CInv' /\ GInv /\ KInv /\ Block => KInv'
<1> SUFFICES ASSUME CInv, CInv', GInv, KInv, Block PROVE KInv'
  OBVIOUS
<1>1. /\ pc = "parse" /\ pc' = "parse" /\ glyphs' = glyphs /\ at' = at + 1
      /\ state' = ParseTags(state, Text[at].tags) /\ n > 0 /\ n' = n /\ session' = session
  BY DEF Block, CInv, runVars
<1>2. Text' = Text
  BY <1>1 DEF CInv, Text
<1>3. IsText(Text) /\ at \in 1 .. Len(Text)
  <2>1. IsText(Text)
    BY <1>1, TextIsText
  <2>2. Len(Text) \in Nat /\ at \in 1 .. Len(Text) + 1
    BY <1>1, <2>1 DEF IsText, CInv
  <2>3. at <= Len(Text)
    BY DEF Block
  <2> HIDE DEF Text
  <2> QED BY <2>1, <2>2, <2>3
<1> DEFINE text == Text
           tags == Text[at].tags
           last == Before(glyphs, Length + 1)
           old == ClockOn(text, last)
           now == ClockOn(text, at - 1)
           timed == TimesIn(text, last + 1, at - 1)
           set == SetsIn(text, last + 1, at - 1)
<1>4. Pending(text, glyphs, Length, state, at)
  BY <1>1 DEF KInv
<1>5. last < at /\ Follows(state, old, now, timed, set) /\ timed \in BOOLEAN /\ set \in BOOLEAN
  BY <1>4 DEF Pending, TimesIn, SetsIn
<1>6. last \in Nat /\ last <= at - 1 /\ last + 1 <= at
  <2>1. last \in Nat
    <3>1. Length \in Nat /\ Len(text) \in Nat
      BY <1>3 DEF GInv, IsGlyphs, Sequence, Length, IsText
    <3>2. Length # 0 => Length \in 1 .. Length /\ last = glyphs[Length].source
      BY <3>1 DEF Before
    <3>3. Length = 0 => last = 0
      BY DEF Before
    <3>4. \A k \in 1 .. Length : glyphs[k].source \in 1 .. Len(text)
      BY <1>1 DEF KInv, TimedGlyph
    <3> HIDE DEF last, text
    <3> QED BY <3>1, <3>2, <3>3, <3>4
  <2> HIDE DEF last
  <2> QED BY <1>3, <1>5, <2>1 DEF IsText
<1>7. ClockOn(text, at) = ClockAfter(now, tags)
  <2>1. at \in Nat \ {0}
    BY <1>3 DEF IsText
  <2> QED BY <2>1, ClockOnNext
<1>8. /\ TimesIn(text, last + 1, at) = (timed \/ Times(tags, Len(tags)))
      /\ SetsIn(text, last + 1, at) = (set \/ Sets(tags, Len(tags)))
  <2> DEFINE a == last + 1
  <2>1. a \in Nat /\ a <= at /\ at \in Nat
    BY <1>3, <1>6 DEF IsText
  <2> HIDE DEF last, text, tags
  <2>2. \A k \in a .. at : k \in a .. at - 1 \/ k = at
    BY <2>1
  <2>3. (\A k \in a .. at - 1 : k \in a .. at) /\ at \in a .. at
    BY <2>1
  <2> HIDE DEF a
  <2>4. TimesIn(text, a, at) <=> TimesIn(text, a, at - 1) \/ Times(text[at].tags, Len(text[at].tags))
    BY <2>2, <2>3 DEF TimesIn
  <2>5. SetsIn(text, a, at) <=> SetsIn(text, a, at - 1) \/ Sets(text[at].tags, Len(text[at].tags))
    BY <2>2, <2>3 DEF SetsIn
  <2>6. TimesIn(text, a, at) \in BOOLEAN /\ SetsIn(text, a, at) \in BOOLEAN
    BY DEF TimesIn, SetsIn
  <2> QED BY <2>4, <2>5, <2>6 DEF a, text, tags
<1>9. old \in Clocks /\ now \in Clocks
  <2>1. last \in 0 .. Len(text) /\ at - 1 \in 0 .. Len(text)
    BY <1>3, <1>6 DEF IsText
  <2> HIDE DEF last
  <2> QED BY <1>3, <2>1, ClockOnTyped
<1>10. Context(state) /\ Len(tags) \in Nat /\ \A j \in 1 .. Len(tags) : tags[j].args \in Seq(Int)
  BY <1>3 DEF CInv, IsText
<1> HIDE DEF text, last, old, now, timed, set, tags
<1>11. Follows(ParseTags(state, tags), old, ClockAfter(now, tags),
               timed \/ Times(tags, Len(tags)), set \/ Sets(tags, Len(tags)))
  BY <1>5, <1>9, <1>10, ParseTagsTimes
<1>12. Follows(state', old, ClockOn(text, at), TimesIn(text, last + 1, at),
               SetsIn(text, last + 1, at))
  BY <1>1, <1>7, <1>8, <1>11 DEF tags
<1>13. at' - 1 = at /\ last < at'
  BY <1>1, <1>3, <1>5, <1>6 DEF IsText
<1>14. Pending(text, glyphs, Length, state', at')
  BY <1>12, <1>13 DEF Pending, last, old
<1>15. Pending(Text', glyphs', Length', state', at')
  BY <1>1, <1>2, <1>14 DEF text, Length
<1>16. \A k \in 1 .. Length' : TimedGlyph(Text', glyphs', k)
  BY <1>1, <1>2 DEF KInv, Length
<1> QED BY <1>1, <1>15, <1>16 DEF KInv
LEMMA NextBlockSilent ==
  ASSUME at \in Nat, Len(Text) \in Nat, at <= Len(Text), ~IsBlock(at)
  PROVE  /\ NextBlock \in at + 1 .. Len(Text) + 1
         /\ \A k \in at .. NextBlock - 1 : ~IsTags(Text[k])
<1> DEFINE len == Len(Text)
           blocks == {k \in at .. len : IsBlock(k)}
<1>1. NextBlock = IF blocks = {} THEN len + 1 ELSE Min(blocks)
  BY Zenon DEF NextBlock
<1>2. \A k : IsBlock(k) <=> IsTags(Text[k])
  BY DEF IsBlock
<1> DEFINE Is(k) == IsTags(Text[k])
<1>3. blocks = {k \in at .. len : Is(k)} /\ ~ Is(at)
  BY <1>2
<1>4. len \in Nat /\ at \in Nat /\ at <= len
  OBVIOUS
<1> HIDE DEF Is, blocks, len
<1>5. CASE blocks = {}
  <2>1. \A k \in at .. len + 1 - 1 : ~ Is(k)
    BY <1>3, <1>4, <1>5
  <2> QED BY <1>1, <1>4, <1>5, <2>1 DEF Is, len
<1>6. CASE blocks # {}
  <2>1. blocks \in SUBSET (at .. len) /\ at \in Int /\ len \in Int
    BY <1>3, <1>4
  <2>2. Min(blocks) \in blocks /\ \A k \in blocks : Min(blocks) <= k
    BY <1>6, <2>1, MinMaxIn
  <2>3. Min(blocks) \in at + 1 .. len + 1
    BY <1>3, <1>4, <2>2
  <2>4. ASSUME NEW k \in at .. Min(blocks) - 1 PROVE ~ Is(k)
    <3>1. k \in at .. len /\ ~ (Min(blocks) <= k)
      BY <1>4, <2>3, <2>4
    <3>2. k \notin blocks
      BY <2>2, <3>1
    <3> QED BY <1>3, <3>1, <3>2
  <2> QED BY <1>1, <1>6, <2>3, <2>4 DEF Is, len
<1> QED BY <1>5, <1>6

LEMMA GlyphEffect ==
  ASSUME NEW c, NEW symbol, Context(c)
  PROVE  /\ LET g == GlyphOf(c, symbol)
            IN  /\ g.effect_type = c.effect_type /\ g.effect_timing = c.effect_timing
                /\ g.effect_skip_timing = c.effect_skip_timing /\ g.reset_effect = c.reset_effect
                /\ g.sung = <<0, 0>> /\ g.source = at
         /\ LET d == WithoutEffect(c)
            IN  /\ d.effect_type = "NONE" /\ d.effect_timing = 0
                /\ d.effect_skip_timing = 0 /\ d.reset_effect = FALSE
<1>1. LET g == GlyphOf(c, symbol)
      IN  /\ g.effect_type = c.effect_type /\ g.effect_timing = c.effect_timing
          /\ g.effect_skip_timing = c.effect_skip_timing /\ g.reset_effect = c.reset_effect
          /\ g.sung = <<0, 0>> /\ g.source = at
  BY DEF GlyphOf
<1>2. c = [f \in Fields |-> c[f]]
  BY DEF Context
<1>3. LET d == WithoutEffect(c)
      IN  /\ d.effect_type = "NONE" /\ d.effect_timing = 0
          /\ d.effect_skip_timing = 0 /\ d.reset_effect = FALSE
  BY <1>2 DEF WithoutEffect, Fields
<1> QED BY <1>1, <1>3

LEMMA KInvGlyph == CInv /\ CInv' /\ GInv /\ KInv /\ Glyph => KInv'
<1> SUFFICES ASSUME CInv, CInv', GInv, KInv, Glyph PROVE KInv'
  OBVIOUS
<1>1. /\ pc = "parse" /\ pc' = "parse" /\ n > 0 /\ n' = n /\ session' = session
      /\ state' = WithoutEffect(state) /\ at <= Len(Text) /\ ~IsBlock(at)
  BY DEF Glyph, CInv, runVars
<1>2. Text' = Text
  BY <1>1 DEF CInv, Text
<1>3. IsText(Text) /\ at \in 1 .. Len(Text) /\ Len(Text) \in Nat
  <2>1. IsText(Text)
    BY <1>1, TextIsText
  <2>2. Len(Text) \in Nat /\ at \in 1 .. Len(Text) + 1
    BY <1>1, <2>1 DEF IsText, CInv
  <2> QED BY <1>1, <2>1, <2>2
<1>4. PICK symbol : /\ glyphs' = Append(glyphs, GlyphOf(state, symbol))
                    /\ at' = at + 1 \/ at' = NextBlock
  BY Zenon DEF Glyph
<1> DEFINE text == Text
           g == GlyphOf(state, symbol)
           last == Before(glyphs, Length + 1)
           old == ClockOn(text, last)
<1>5. /\ g.effect_type = state.effect_type /\ g.effect_timing = state.effect_timing
      /\ g.effect_skip_timing = state.effect_skip_timing
      /\ g.reset_effect = state.reset_effect /\ g.sung = <<0, 0>> /\ g.source = at
      /\ state'.effect_type = "NONE" /\ state'.effect_timing = 0
      /\ state'.effect_skip_timing = 0 /\ state'.reset_effect = FALSE
  BY <1>1, GlyphEffect DEF CInv
<1>6. at' \in at + 1 .. Len(text) + 1 /\ \A k \in at .. at' - 1 : ~IsTags(text[k])
  <2>1. /\ NextBlock \in at + 1 .. Len(Text) + 1
        /\ \A k \in at .. NextBlock - 1 : ~IsTags(Text[k])
    BY <1>1, <1>3, NextBlockSilent
  <2>2. \A k \in at .. at + 1 - 1 : ~IsTags(Text[k])
    <3>1. ~IsTags(Text[at])
      BY <1>1 DEF IsBlock
    <3>2. \A k \in at .. at + 1 - 1 : k = at
      BY <1>3
    <3> QED BY <3>1, <3>2
  <2> QED BY <1>3, <1>4, <2>1, <2>2
<1>7. Pending(text, glyphs, Length, state, at)
  BY <1>1 DEF KInv
<1>8. Sequence(glyphs) /\ Length \in Nat
  BY DEF GInv, IsGlyphs, Sequence, Length
<1> HIDE DEF g
<1>9. /\ Length' = Length + 1 /\ glyphs'[Length + 1] = g
      /\ \A k \in 1 .. Length : glyphs'[k] = glyphs[k]
  BY <1>4, <1>8, Appended DEF g, Length
<1>10. /\ \A k \in 1 .. Length + 1 : Before(glyphs', k) = Before(glyphs, k)
       /\ \A k \in 1 .. Length : TimedGlyph(text, glyphs, k) => TimedGlyph(text, glyphs', k)
  <2> DEFINE len == Length
             hs == glyphs'
  <2>1. len \in Nat /\ \A k \in 1 .. len : hs[k] = glyphs[k]
    BY <1>8, <1>9
  <2> HIDE DEF len, hs, text
  <2>2. /\ \A k \in 1 .. len + 1 : Before(hs, k) = Before(glyphs, k)
        /\ \A k \in 1 .. len : TimedGlyph(text, glyphs, k) => TimedGlyph(text, hs, k)
    BY <2>1, GlyphTimesKept
  <2> QED BY <2>2 DEF len, hs
<1>11. last \in Nat /\ last < at
  <2>1. last < at
    BY <1>7 DEF Pending
  <2>2. Length # 0 => Length \in 1 .. Length /\ last = glyphs[Length].source
    BY <1>8 DEF Before
  <2>3. Length = 0 => last = 0
    BY DEF Before
  <2>4. \A k \in 1 .. Length : glyphs[k].source \in 1 .. Len(text)
    BY <1>1 DEF KInv, TimedGlyph
  <2> HIDE DEF last, text
  <2> QED BY <2>1, <2>2, <2>3, <2>4
<1>12. /\ ClockOn(text, at) = ClockOn(text, at - 1)
       /\ TimesIn(text, last + 1, at) = TimesIn(text, last + 1, at - 1)
       /\ SetsIn(text, last + 1, at) = SetsIn(text, last + 1, at - 1)
  <2>1. at \in 1 .. Len(text) + 1 /\ at \in 0 .. Len(text) /\ at <= at + 1
        /\ \A k \in at .. at : ~IsTags(text[k])
    <3>1. ~IsTags(text[at])
      BY <1>1 DEF IsBlock
    <3>2. \A k \in at .. at : k = at
      BY <1>3
    <3>3. at \in 1 .. Len(text) + 1 /\ at \in 0 .. Len(text) /\ at <= at + 1
      BY <1>3
    <3> QED BY <3>1, <3>2, <3>3
  <2>2. last + 1 \in 1 .. at
    BY <1>3, <1>11
  <2> HIDE DEF text, last
  <2>3. IsText(text)
    BY <1>3 DEF text
  <2>4. /\ ClockOn(text, at) = ClockOn(text, at - 1)
        /\ TimesIn(text, last + 1, at) <=> TimesIn(text, last + 1, at - 1)
        /\ SetsIn(text, last + 1, at) <=> SetsIn(text, last + 1, at - 1)
    BY <2>1, <2>2, <2>3, Silent
  <2> QED BY <2>4 DEF TimesIn, SetsIn
<1>13. TimedGlyph(text, glyphs', Length + 1)
  <2> DEFINE now == ClockOn(text, at - 1)
             timed == TimesIn(text, last + 1, at - 1)
             set == SetsIn(text, last + 1, at - 1)
  <2>1. Follows(state, old, now, timed, set) /\ timed \in BOOLEAN /\ set \in BOOLEAN
    BY <1>7 DEF Pending, TimesIn, SetsIn
  <2> HIDE DEF old, now, timed, set
  <2>2. Follows(g, old, now, timed, set)
    BY <1>5, <2>1, FollowsSame
  <2>3. Before(glyphs', Length + 1) = last
    <3>1. Length + 1 \in 1 .. Length + 1
      BY <1>8
    <3> QED BY <1>10, <3>1
  <2> DEFINE hs == glyphs'
             k == Length + 1
  <2>4. hs[k] = g /\ Before(hs, k) = last
    BY <1>9, <2>3
  <2>5. now = ClockOn(text, at) /\ timed = TimesIn(text, last + 1, at)
        /\ set = SetsIn(text, last + 1, at)
    BY <1>12 DEF now, timed, set
  <2>6. at \in 1 .. Len(text)
    BY <1>3
  <2> HIDE DEF hs, k, last, text
  <2>7. TimedGlyph(text, hs, k)
    BY Zenon, <1>5, <1>11, <2>2, <2>4, <2>5, <2>6 DEF TimedGlyph, old
  <2> QED BY <2>7 DEF hs, k
<1>14. Pending(text, glyphs', Length + 1, state', at')
  <2>1. Before(glyphs', Length + 1 + 1) = at
    BY <1>5, <1>8, <1>9 DEF Before
  <2> DEFINE a == at + 1
             b == at' - 1
  <2>2. a \in 1 .. Len(text) + 1 /\ b \in 0 .. Len(text) /\ a <= b + 1 /\ a \in 1 .. a
        /\ a - 1 = at
        /\ \A k \in a .. b : ~IsTags(text[k])
    <3> DEFINE Is(k) == IsTags(text[k])
               len == Len(text)
               next == at'
    <3>1. /\ next \in at + 1 .. len + 1 /\ at \in 1 .. len /\ len \in Nat
          /\ a = at + 1 /\ b = next - 1
      BY <1>3, <1>6
    <3>2. \A k \in at .. next - 1 : ~ Is(k)
      BY <1>6
    <3> HIDE DEF Is, len, next, a, b
    <3>3. /\ a \in 1 .. len + 1 /\ b \in 0 .. len /\ a <= b + 1 /\ a \in 1 .. a
          /\ a - 1 = at
      BY <3>1
    <3>4. \A k \in a .. b : ~ Is(k)
      BY <3>1, <3>2
    <3> HIDE DEF a, b
    <3> QED BY <3>3, <3>4 DEF Is, len
  <2>3. IsText(text) /\ ClockOn(text, at) \in Clocks
    <3>1. at \in 0 .. Len(text)
      BY <1>3
    <3> QED BY <1>3, <3>1, ClockOnTyped
  <2>4. at < at'
    BY <1>3, <1>6
  <2> HIDE DEF a, b, text
  <2>5. /\ ClockOn(text, b) = ClockOn(text, at)
        /\ TimesIn(text, a, b) <=> TimesIn(text, a, at)
        /\ SetsIn(text, a, b) <=> SetsIn(text, a, at)
    BY <2>2, <2>3, Silent
  <2>6. TimesIn(text, a, b) = FALSE /\ SetsIn(text, a, b) = FALSE
    <3>1. a .. at = {}
      BY <1>3 DEF a
    <3>2. ~ TimesIn(text, a, at) /\ ~ SetsIn(text, a, at)
      BY <3>1 DEF TimesIn, SetsIn
    <3> QED BY <2>5, <3>2 DEF TimesIn, SetsIn
  <2>7. Follows(state', ClockOn(text, at), ClockOn(text, at), FALSE, FALSE)
    BY <1>5, <2>3, QuietFollows
  <2>8. Follows(state', ClockOn(text, at), ClockOn(text, b), TimesIn(text, a, b),
                SetsIn(text, a, b))
    BY Zenon, <2>5, <2>6, <2>7
  <2> QED BY Zenon, <2>1, <2>4, <2>8 DEF Pending, a, b
<1>15. \A k \in 1 .. Length + 1 : TimedGlyph(text, glyphs', k)
  <2>1. \A k \in 1 .. Length + 1 : k \in 1 .. Length \/ k = Length + 1
    BY <1>8
  <2>2. \A k \in 1 .. Length : TimedGlyph(text, glyphs, k)
    BY <1>1 DEF KInv
  <2> QED BY <1>10, <1>13, <2>1, <2>2
<1>16. /\ Pending(Text', glyphs', Length', state', at')
       /\ \A k \in 1 .. Length' : TimedGlyph(Text', glyphs', k)
  BY <1>2, <1>9, <1>14, <1>15
<1> QED BY <1>1, <1>16 DEF KInv

LEMMA LastEffectNext ==
  ASSUME Length \in Nat, NEW k \in 1 .. Length
  PROVE  /\ LastEffect(1) = "NONE"
         /\ LastEffect(k + 1) = IF glyphs[k].effect_type # "NONE" THEN glyphs[k].effect_type
                               ELSE LastEffect(k)
<1> DEFINE Has(j) == glyphs[j].effect_type # "NONE"
           S(m) == {j \in 1 .. m - 1 : Has(j)}
<1>1. \A m : LastEffect(m) = IF S(m) = {} THEN "NONE" ELSE glyphs[Max(S(m))].effect_type
  BY DEF LastEffect
<1>2. S(1) = {}
  OBVIOUS
<1>3. CASE Has(k)
  <2> DEFINE T == S(k + 1)
  <2>1. k \in T /\ T \in SUBSET (1 .. k)
    BY <1>3
  <2> HIDE DEF T
  <2>2. 1 \in Int /\ k \in Int /\ T # {}
    BY <2>1
  <2>3. Max(T) \in T /\ \A x \in T : x <= Max(T)
    BY <2>1, <2>2, MinMaxIn
  <2>4. Max(T) = k
    <3>1. Max(T) \in 1 .. k /\ k <= Max(T)
      BY <2>1, <2>3
    <3> QED BY <3>1
  <2>5. LastEffect(k + 1) = glyphs[k].effect_type
    BY <1>1, <2>2, <2>4 DEF T
  <2> QED BY <1>1, <1>2, <1>3, <2>5
<1>4. CASE ~ Has(k)
  <2>1. S(k + 1) = S(k)
    BY <1>4
  <2> HIDE DEF S
  <2>2. LastEffect(k + 1) = LastEffect(k)
    BY <1>1, <2>1
  <2> QED BY <1>1, <1>2, <1>4, <2>2
<1> QED BY <1>3, <1>4

\* The syllable before a glyph is what split_style_runs takes for it.
LEMMA EffectBefore ==
  ASSUME NEW text, Length \in Nat, \A k \in 1 .. Length : TimedGlyph(text, glyphs, k),
         NEW k \in 1 .. Length
  PROVE  ClockOn(text, Before(glyphs, k)).type = LastEffect(k)
<1> DEFINE Told(j) == ClockOn(text, Before(glyphs, j)).type = LastEffect(j)
           Bad == {j \in 1 .. Length : ~ Told(j)}
<1>1. SUFFICES ASSUME Bad # {} PROVE FALSE
  OBVIOUS
<1>2. PICK m \in Bad : \A j \in Bad : m <= j
  <2>1. Bad \in SUBSET Nat
    OBVIOUS
  <2> QED BY <1>1, <2>1, Smallest
<1>3. m \in 1 .. Length /\ ~ Told(m)
  OBVIOUS
<1>4. m # 1
  <2>1. Before(glyphs, 1) = 0 /\ ClockOn(text, 0).type = "NONE"
    BY ClockOnNext DEF Before, NoClock
  <2>2. LastEffect(1) = "NONE"
    BY <1>3, LastEffectNext
  <2> QED BY <1>3, <2>1, <2>2
<1> DEFINE l == m - 1
<1>5. l \in 1 .. Length /\ m = l + 1 /\ ~ (m <= l)
  BY <1>3, <1>4
<1>6. Told(l)
  BY <1>2, <1>5
<1>7. Before(glyphs, m) = glyphs[l].source
  BY <1>4 DEF Before
<1> DEFINE old == ClockOn(text, Before(glyphs, l))
           now == ClockOn(text, glyphs[l].source)
<1>8. now.type = IF glyphs[l].effect_type # "NONE" THEN glyphs[l].effect_type ELSE old.type
  BY <1>5 DEF TimedGlyph, Follows
<1>9. LastEffect(m) = IF glyphs[l].effect_type # "NONE" THEN glyphs[l].effect_type
                      ELSE LastEffect(l)
  BY <1>5, LastEffectNext
<1> HIDE DEF l, Bad
<1>10. now.type = LastEffect(m)
  BY <1>6, <1>8, <1>9
<1> QED BY <1>3, <1>7, <1>10

\* The glyph h is g but for its marks.
SameTimes(h, g) ==
  /\ h.source = g.source /\ h.sung = g.sung
  /\ h.effect_type = g.effect_type /\ h.effect_timing = g.effect_timing
  /\ h.effect_skip_timing = g.effect_skip_timing /\ h.reset_effect = g.reset_effect

\* ... and begins a run if g does.
Marked(h, g) == SameTimes(h, g) /\ (g.starts_new_run => h.starts_new_run)

LEMMA MarkedSame ==
  /\ \A g, x : IsGlyph(g) => /\ SameTimes([g EXCEPT !.starts_new_run = x], g)
                            /\ [g EXCEPT !.starts_new_run = x].starts_new_run = x
  /\ \A g, x, y : IsGlyph(g) =>
       /\ SameTimes([g EXCEPT !.skip = x, !.starts_new_run = y], g)
       /\ [g EXCEPT !.skip = x, !.starts_new_run = y].starts_new_run = y
  /\ \A g, x : IsGlyph(g) => /\ SameTimes([g EXCEPT !.linebreak = x], g)
                            /\ [g EXCEPT !.linebreak = x].starts_new_run = g.starts_new_run
<1>1. ASSUME NEW g, NEW x, IsGlyph(g)
      PROVE  /\ SameTimes([g EXCEPT !.starts_new_run = x], g)
             /\ [g EXCEPT !.starts_new_run = x].starts_new_run = x
  <2>1. g = [f \in GlyphFields |-> g[f]]
    BY <1>1 DEF IsGlyph
  <2> QED BY <2>1 DEF SameTimes, GlyphFields
<1>2. ASSUME NEW g, NEW x, NEW y, IsGlyph(g)
      PROVE  /\ SameTimes([g EXCEPT !.skip = x, !.starts_new_run = y], g)
             /\ [g EXCEPT !.skip = x, !.starts_new_run = y].starts_new_run = y
  <2>1. g = [f \in GlyphFields |-> g[f]]
    BY <1>2 DEF IsGlyph
  <2> QED BY <2>1 DEF SameTimes, GlyphFields
<1>3. ASSUME NEW g, NEW x, IsGlyph(g)
      PROVE  /\ SameTimes([g EXCEPT !.linebreak = x], g)
             /\ [g EXCEPT !.linebreak = x].starts_new_run = g.starts_new_run
  <2>1. g = [f \in GlyphFields |-> g[f]]
    BY <1>3 DEF IsGlyph
  <2> QED BY <2>1 DEF SameTimes, GlyphFields
<1> QED BY <1>1, <1>2, <1>3

LEMMA KInvSplit == CInv /\ GInv /\ KInv /\ Split => KInv'
<1> SUFFICES ASSUME CInv, GInv, KInv, Split PROVE KInv'
  OBVIOUS
<1>1. /\ pc = "split" /\ pc' = "wrap" /\ state' = state
      /\ glyphs' = [k \in 1 .. Length |-> glyphs'[k]]
      /\ \A k \in 1 .. Length : glyphs'[k] = [glyphs[k] EXCEPT !.starts_new_run = StartsRun(k)]
  BY DEF Split
<1>2. Text' = Text
  BY <1>1 DEF Text
<1>3. Length \in Nat /\ \A k \in 1 .. Length : IsGlyph(glyphs[k])
  BY DEF GInv, IsGlyphs, Sequence, Length
<1>4. Length' = Length
  BY <1>1, <1>3, SequenceOf DEF Length
<1>5. \A k \in 1 .. Length : /\ SameTimes(glyphs'[k], glyphs[k])
                            /\ glyphs'[k].starts_new_run = StartsRun(k)
  <2>1. ASSUME NEW k \in 1 .. Length
        PROVE  /\ SameTimes(glyphs'[k], glyphs[k])
               /\ glyphs'[k].starts_new_run = StartsRun(k)
    <3>1. /\ SameTimes([glyphs[k] EXCEPT !.starts_new_run = StartsRun(k)], glyphs[k])
          /\ [glyphs[k] EXCEPT !.starts_new_run = StartsRun(k)].starts_new_run = StartsRun(k)
      BY Zenon, <1>3, <2>1, MarkedSame
    <3>2. glyphs'[k] = [glyphs[k] EXCEPT !.starts_new_run = StartsRun(k)]
      BY <1>1, <2>1
    <3> QED BY Zenon, <3>1, <3>2
  <2> QED BY <2>1
<1> DEFINE text == Text
           gs == glyphs
           hs == glyphs'
           len == Length
<1>6. \A k \in 1 .. len : TimedGlyph(text, gs, k)
  BY <1>1 DEF KInv
<1>7. /\ \A k \in 1 .. len + 1 : Before(hs, k) = Before(gs, k)
      /\ \A k \in 1 .. len : TimedGlyph(text, gs, k) => TimedGlyph(text, hs, k)
  <2>1. len \in Nat /\ \A k \in 1 .. len : SameTimes(hs[k], gs[k])
    BY <1>3, <1>5
  <2> HIDE DEF text, gs, hs, len
  <2> QED BY <2>1, GlyphTimesKept DEF SameTimes
<1>8. ASSUME NEW k \in 1 .. len PROVE InRun(text, hs, k)
  <2>1. SUFFICES ASSUME ~ StartsRun(k)
        PROVE  /\ k # 1 /\ hs[k].effect_timing = 0
               /\ hs[k].effect_type \in {"NONE", ClockOn(text, Before(hs, k)).type}
    BY Zenon, <1>5, <1>8 DEF InRun
  <2>2. /\ k # 1 /\ glyphs[k].effect_timing = 0
        /\ glyphs[k].effect_type \in {"NONE", LastEffect(k)}
    BY Zenon, <2>1 DEF StartsRun
  <2>3. LastEffect(k) = ClockOn(text, Before(gs, k)).type
    BY <1>3, <1>6, EffectBefore
  <2>4. hs[k].effect_timing = gs[k].effect_timing /\ hs[k].effect_type = gs[k].effect_type
    BY <1>5 DEF SameTimes
  <2>5. Before(hs, k) = Before(gs, k)
    <3>1. k \in 1 .. len + 1
      BY <1>3
    <3> QED BY <1>7, <3>1
  <2> HIDE DEF text, hs
  <2> QED BY <2>2, <2>3, <2>4, <2>5
<1>9. /\ \A k \in 1 .. Length' : TimedGlyph(Text', glyphs', k)
      /\ \A k \in 1 .. Length' : InRun(Text', glyphs', k)
  BY <1>2, <1>4, <1>6, <1>7, <1>8
<1> QED BY <1>1, <1>9 DEF KInv

\* Marks do not disturb the times, and a run may come to begin anywhere.
LEMMA KInvMarked ==
  ASSUME KInv, Length \in Nat, pc \in {"wrap", "balance", "trim", "measure"},
         pc' \in {"wrap", "balance", "trim", "measure", "karaoke"},
         state' = state, Length' = Length,
         \A k \in 1 .. Length : Marked(glyphs'[k], glyphs[k])
  PROVE  KInv'
<1> DEFINE text == Text
           gs == glyphs
           hs == glyphs'
           len == Length
<1>1. Text' = text
  BY DEF Text
<1>2. \A k \in 1 .. len : TimedGlyph(text, gs, k) /\ InRun(text, gs, k)
  BY DEF KInv
<1>3. /\ \A k \in 1 .. len + 1 : Before(hs, k) = Before(gs, k)
      /\ \A k \in 1 .. len : TimedGlyph(text, gs, k) => TimedGlyph(text, hs, k)
  <2>1. len \in Nat /\ \A k \in 1 .. len : SameTimes(hs[k], gs[k])
    BY Zenon DEF Marked
  <2> HIDE DEF text, gs, hs, len
  <2> QED BY <2>1, GlyphTimesKept DEF SameTimes
<1>4. ASSUME NEW k \in 1 .. len PROVE InRun(text, hs, k)
  <2>1. InRun(text, gs, k)
    BY <1>2
  <2>2. Before(hs, k) = Before(gs, k)
    <3>1. k \in 1 .. len + 1
      BY <1>4
    <3> QED BY <1>3, <3>1
  <2>3. /\ hs[k].effect_timing = gs[k].effect_timing /\ hs[k].effect_type = gs[k].effect_type
        /\ gs[k].starts_new_run => hs[k].starts_new_run
    BY Zenon, <1>4 DEF Marked, SameTimes
  <2> HIDE DEF text, hs, gs
  <2> QED BY Zenon, <2>1, <2>2, <2>3 DEF InRun
<1>5. /\ \A k \in 1 .. Length' : TimedGlyph(Text', glyphs', k)
      /\ \A k \in 1 .. Length' : InRun(Text', glyphs', k)
  BY <1>1, <1>2, <1>3, <1>4
<1> QED BY <1>5 DEF KInv

LEMMA KInvBroken ==
  ASSUME KInv, GInv, pc \in {"wrap", "balance"}, pc' = pc, state' = state,
         glyphs' = [k \in 1 .. Length |-> glyphs'[k]],
         \A k \in 1 .. Length :
           \E kind : glyphs'[k] = [glyphs[k] EXCEPT !.linebreak = kind]
  PROVE  KInv'
<1>1. Length \in Nat /\ \A k \in 1 .. Length : IsGlyph(glyphs[k])
  BY DEF GInv, IsGlyphs, Sequence, Length
<1>2. Length' = Length
  BY <1>1, SequenceOf DEF Length
<1>3. \A k \in 1 .. Length : Marked(glyphs'[k], glyphs[k])
  <2>1. ASSUME NEW k \in 1 .. Length PROVE Marked(glyphs'[k], glyphs[k])
    <3>1. PICK kind : glyphs'[k] = [glyphs[k] EXCEPT !.linebreak = kind]
      BY <2>1
    <3>2. /\ SameTimes([glyphs[k] EXCEPT !.linebreak = kind], glyphs[k])
          /\ [glyphs[k] EXCEPT !.linebreak = kind].starts_new_run = glyphs[k].starts_new_run
      BY Zenon, <1>1, <2>1, MarkedSame
    <3> QED BY Zenon, <3>1, <3>2 DEF Marked
  <2> QED BY <2>1
<1>4. /\ pc \in {"wrap", "balance", "trim", "measure"}
      /\ pc' \in {"wrap", "balance", "trim", "measure", "karaoke"}
  OBVIOUS
<1> QED BY <1>1, <1>2, <1>3, <1>4, KInvMarked

LEMMA KInvWrapBreak == GInv /\ KInv /\ (\E fails \in BOOLEAN : WrapBreak(fails)) => KInv'
<1> SUFFICES ASSUME GInv, KInv, NEW fails \in BOOLEAN, WrapBreak(fails) PROVE KInv'
  OBVIOUS
<1> DEFINE lead == BreakAt(i) + 1
           kind(k) == IF k = lead THEN IF ForceBreak(i) THEN 2 ELSE 1
                      ELSE IF fails /\ k = s1 THEN 0 ELSE glyphs[k].linebreak
<1>1. /\ glyphs' = [k \in 1 .. Length |-> glyphs'[k]]
      /\ \A k \in 1 .. Length : glyphs'[k] = [glyphs[k] EXCEPT !.linebreak = kind(k)]
  BY DEF WrapBreak
<1> HIDE DEF kind
<1>2. pc = "wrap" /\ pc' = pc /\ state' = state
  BY Zenon DEF WrapBreak
<1>3. \A k \in 1 .. Length : \E x : glyphs'[k] = [glyphs[k] EXCEPT !.linebreak = x]
  BY Zenon, <1>1
<1> QED BY <1>1, <1>2, <1>3, KInvBroken

LEMMA KInvBalance == GInv /\ KInv /\ Balance => KInv'
<1> SUFFICES ASSUME GInv, KInv, Balance PROVE KInv'
  OBVIOUS
<1>1. pc = "balance" /\ pc' = pc /\ state' = state
  BY Zenon DEF Balance
<1>2. Length \in Nat
  BY DEF GInv, IsGlyphs, Sequence, Length
<1>3. CASE s2 # 0 /\ glyphs[i].linebreak = 1 /\ Better(s2, i, NextBoundary)
  <2> DEFINE word == LastWord(s2, i)
             kind(k) == IF k = i THEN 0 ELSE IF k = word THEN 1 ELSE glyphs[k].linebreak
  <2>1. /\ glyphs' = [k \in 1 .. Length |-> glyphs'[k]]
        /\ \A k \in 1 .. Length : glyphs'[k] = [glyphs[k] EXCEPT !.linebreak = kind(k)]
    BY <1>3 DEF Balance
  <2> HIDE DEF kind, word
  <2>2. \A k \in 1 .. Length : \E x : glyphs'[k] = [glyphs[k] EXCEPT !.linebreak = x]
    BY Zenon, <2>1
  <2> QED BY <1>1, <2>1, <2>2, KInvBroken
<1>4. CASE ~ (s2 # 0 /\ glyphs[i].linebreak = 1 /\ Better(s2, i, NextBoundary))
  <2>1. glyphs' = glyphs
    BY <1>4 DEF Balance
  <2>2. \A k \in 1 .. Length : Marked(glyphs'[k], glyphs[k])
    BY Zenon, <2>1 DEF Marked, SameTimes
  <2>3. Length' = Length
    BY <2>1 DEF Length
  <2> QED BY <1>1, <1>2, <2>2, <2>3, KInvMarked
<1> QED BY <1>3, <1>4

LEMMA KInvTrim == GInv /\ KInv /\ Trim => KInv'
<1> SUFFICES ASSUME GInv, KInv, Trim PROVE KInv'
  OBVIOUS
<1>1. /\ glyphs' = [k \in 1 .. Length |-> glyphs'[k]]
      /\ \A k \in 1 .. Length : glyphs'[k] = [glyphs[k] EXCEPT !.skip = k \in Trimmed,
           !.starts_new_run = glyphs[k].starts_new_run \/ k \in LineRuns]
  BY DEF Trim
<1>2. Length \in Nat /\ \A k \in 1 .. Length : IsGlyph(glyphs[k])
  BY DEF GInv, IsGlyphs, Sequence, Length
<1>3. Length' = Length
  BY <1>1, <1>2, SequenceOf DEF Length
<1>4. ASSUME NEW k \in 1 .. Length PROVE Marked(glyphs'[k], glyphs[k])
  <2> DEFINE g == glyphs[k]
             skips == k \in Trimmed
             begins == glyphs[k].starts_new_run \/ k \in LineRuns
             h == [g EXCEPT !.skip = skips, !.starts_new_run = begins]
  <2>1. glyphs'[k] = h
    BY <1>1, <1>4
  <2>2. IsGlyph(g)
    BY <1>2, <1>4
  <2>3. g.starts_new_run => begins
    OBVIOUS
  <2> HIDE DEF g, skips, begins
  <2>4. SameTimes(h, g)
    BY Zenon, <2>2, MarkedSame
  <2>5. h.starts_new_run = begins
    BY <2>2 DEF IsGlyph, GlyphFields
  <2> HIDE DEF h
  <2>6. Marked(h, g)
    BY Zenon, <2>3, <2>4, <2>5 DEF Marked
  <2> QED BY <2>1, <2>6 DEF g
<1>5. pc = "trim" /\ pc' = "measure" /\ state' = state
  BY DEF Trim
<1> QED BY <1>2, <1>3, <1>4, <1>5, KInvMarked

-----------------------------------------------------------------------------
(* The runs and the clock                                                  *)

LEMMA RunOfNext ==
  ASSUME NEW gs, NEW k \in Nat \ {0}
  PROVE  /\ RunOf(gs, k) \in 1 .. k
         /\ gs[k].starts_new_run \/ k = 1 => RunOf(gs, k) = k
         /\ k # 1 /\ ~gs[k].starts_new_run => RunOf(gs, k) = RunOf(gs, k - 1)
<1> DEFINE Is(j) == gs[j].starts_new_run
           S(m) == {1} \cup {j \in 1 .. m : Is(j)}
<1>1. \A m : RunOf(gs, m) = Max(S(m))
  BY DEF RunOf
<1>2. S(k) \in SUBSET (1 .. k) /\ S(k) # {} /\ 1 \in Int /\ k \in Int
  OBVIOUS
<1>3. Max(S(k)) \in S(k) /\ \A x \in S(k) : x <= Max(S(k))
  <2> DEFINE T == S(k)
  <2>1. T \in SUBSET (1 .. k) /\ T # {} /\ 1 \in Int /\ k \in Int
    BY <1>2
  <2> HIDE DEF T
  <2>2. Max(T) \in T /\ \A x \in T : x <= Max(T)
    BY <2>1, MinMaxIn
  <2> QED BY <2>2 DEF T
<1>4. Is(k) \/ k = 1 => k \in S(k)
  OBVIOUS
<1>5. k # 1 /\ ~ Is(k) => S(k) = S(k - 1)
  <2> SUFFICES ASSUME k # 1, ~ Is(k) PROVE S(k) = S(k - 1)
    OBVIOUS
  <2> HIDE DEF Is
  <2>1. \A j \in 1 .. k : j \in 1 .. k - 1 \/ j = k
    OBVIOUS
  <2>2. \A j \in 1 .. k - 1 : j \in 1 .. k
    OBVIOUS
  <2> QED BY <2>1, <2>2
<1> DEFINE top == Max(S(k))
<1>6. Is(k) \/ k = 1 => top = k
  <2>1. top \in 1 .. k /\ \A x \in S(k) : x <= top
    BY <1>2, <1>3
  <2> HIDE DEF top, S, Is
  <2> QED BY <1>4, <2>1
<1>7. top \in 1 .. k
  BY <1>2, <1>3
<1> HIDE DEF S
<1>8. RunOf(gs, k) = top /\ (k # 1 /\ ~ Is(k) => RunOf(gs, k) = RunOf(gs, k - 1))
  BY <1>1, <1>5
<1> HIDE DEF top
<1> QED BY <1>6, <1>7, <1>8

\* The times of glyphs that are in runs, in a text that does not set the clock early
Timely(text) ==
  /\ IsText(text) /\ IsGlyphs(glyphs)
  /\ \A k \in 1 .. Length : TimedGlyph(text, glyphs, k) /\ InRun(text, glyphs, k)
  /\ ~ Early(text, glyphs)

OldClock(text, k) == ClockOn(text, Before(glyphs, k))
Clock(text, k) == ClockOn(text, glyphs[k].source)
FromTime(text, k) ==
  (IF glyphs[k].reset_effect THEN 0 ELSE OldClock(text, k).till) + glyphs[k].effect_skip_timing

\* What a glyph brings, when the clock goes from old to now
Brings(x, old, now, from) ==
  /\ old \in Clocks /\ now \in Clocks /\ from \in Int
  /\ x.effect_type \in EffectTypes
  /\ x.effect_timing \in Int /\ x.effect_skip_timing \in Int /\ x.reset_effect \in BOOLEAN
  /\ from = (IF x.reset_effect THEN 0 ELSE old.till) + x.effect_skip_timing
  /\ now.type = IF x.effect_type # "NONE" THEN x.effect_type ELSE old.type
  /\ now.till = from + x.effect_timing
  /\ now.type = "NONE" =>
       /\ now = old /\ x.effect_type = "NONE"
       /\ x.effect_timing = 0 /\ x.effect_skip_timing = 0 /\ x.reset_effect = FALSE

LEMMA FollowsBrings ==
  ASSUME NEW x, NEW old \in Clocks, NEW now \in Clocks, NEW timed \in BOOLEAN,
         NEW set \in BOOLEAN, Follows(x, old, now, timed, set), now.type = "NONE" => ~set
  PROVE  LET from == (IF x.reset_effect THEN 0 ELSE old.till) + x.effect_skip_timing
         IN  /\ Brings(x, old, now, from)
             /\ timed => now.from = from
             /\ ~timed => from = now.till
<1> DEFINE from == (IF x.reset_effect THEN 0 ELSE old.till) + x.effect_skip_timing
<1>1. /\ x.effect_type \in EffectTypes
      /\ x.effect_timing \in Int /\ x.effect_skip_timing \in Int /\ x.reset_effect \in BOOLEAN
      /\ now.type = IF x.effect_type # "NONE" THEN x.effect_type ELSE old.type
      /\ x.reset_effect = TRUE => set
  BY Zenon DEF Follows
<1>2. /\ now.till = (IF x.reset_effect = TRUE THEN 0 ELSE old.till)
                    + x.effect_skip_timing + x.effect_timing
      /\ timed => now.from = (IF x.reset_effect = TRUE THEN 0 ELSE old.till)
                             + x.effect_skip_timing
  BY Zenon DEF Follows
<1>3. ~timed \/ (x.effect_type = "NONE" /\ x.reset_effect = FALSE) =>
        now = old /\ x.effect_timing = 0 /\ x.effect_skip_timing = 0
  BY Zenon DEF Follows
<1>4. ~timed => x.effect_type = "NONE" /\ x.reset_effect = FALSE
  BY Zenon DEF Follows
<1>5. from = (IF x.reset_effect = TRUE THEN 0 ELSE old.till) + x.effect_skip_timing
  <2>1. CASE x.reset_effect = TRUE
    BY Zenon, <2>1
  <2>2. CASE x.reset_effect = FALSE
    BY Zenon, <2>2
  <2> QED BY Zenon, <1>1, <2>1, <2>2
<1>6. from \in Int /\ old.till \in Int /\ now.till \in Int
  <2>1. old.till \in Int /\ now.till \in Int
    BY DEF Clocks
  <2> HIDE DEF from
  <2>2. from \in Int
    BY <1>1, <1>5, <2>1
  <2> QED BY <2>1, <2>2
<1> HIDE DEF from
<1>7. now.till = from + x.effect_timing /\ (timed => now.from = from)
  BY <1>2, <1>5
<1>8. now.type = "NONE" =>
        /\ now = old /\ x.effect_type = "NONE"
        /\ x.effect_timing = 0 /\ x.effect_skip_timing = 0 /\ x.reset_effect = FALSE
  <2> SUFFICES ASSUME now.type = "NONE"
               PROVE  /\ now = old /\ x.effect_type = "NONE"
                      /\ x.effect_timing = 0 /\ x.effect_skip_timing = 0
                      /\ x.reset_effect = FALSE
    OBVIOUS
  <2>1. x.effect_type = "NONE"
    BY <1>1
  <2>2. x.reset_effect = FALSE
    BY Zenon, <1>1
  <2> QED BY Zenon, <1>3, <2>1, <2>2
<1>9. ~timed => from = now.till
  <2>1. ~timed => x.effect_timing = 0
    BY Zenon, <1>3
  <2> QED BY <1>6, <1>7, <2>1
<1>10. Brings(x, old, now, from)
  <2>1. from = (IF x.reset_effect THEN 0 ELSE old.till) + x.effect_skip_timing
    BY DEF from
  <2> QED BY Zenon, <1>1, <1>6, <1>7, <1>8, <2>1 DEF Brings
<1> QED BY <1>7, <1>9, <1>10 DEF from

LEMMA GlyphBrings ==
  ASSUME NEW text, Timely(text), NEW k \in 1 .. Length
  PROVE  /\ Brings(glyphs[k], OldClock(text, k), Clock(text, k), FromTime(text, k))
         /\ k = 1 => OldClock(text, k) = NoClock
         /\ k # 1 => OldClock(text, k) = Clock(text, k - 1)
         /\ ~glyphs[k].starts_new_run =>
              /\ k # 1 /\ glyphs[k].effect_timing = 0
              /\ Clock(text, k).type = OldClock(text, k).type
         /\ Clock(text, k).type # "NONE" =>
              TimeOf(text, glyphs, k) =
                <<FromTime(text, k), IF Clock(text, k).type = "KARAOKE_KF"
                                       THEN Clock(text, k).till ELSE FromTime(text, k)>>
         /\ Clock(text, k).type = "NONE" => TimeOf(text, glyphs, k) = <<0, 0>>
         /\ glyphs[k].sung = <<0, 0>>
<1> DEFINE before == Before(glyphs, k)
           source == glyphs[k].source
           timed == TimesIn(text, before + 1, source)
           set == SetsIn(text, before + 1, source)
           old == OldClock(text, k)
           now == Clock(text, k)
           from == FromTime(text, k)
           x == glyphs[k]
<1>1. Length \in Nat /\ Len(text) \in Nat /\ IsText(text)
  BY DEF Timely, IsGlyphs, Sequence, Length, IsText
<1>2. \A j \in 1 .. Length : glyphs[j].source \in 1 .. Len(text)
  BY DEF Timely, TimedGlyph
<1>3. /\ source \in 1 .. Len(text) /\ before < source /\ x.sung = <<0, 0>>
      /\ Follows(x, old, now, timed, set)
  BY Zenon DEF Timely, TimedGlyph, OldClock, Clock
<1>4. /\ k = 1 => before = 0 /\ old = NoClock
      /\ k # 1 => before = glyphs[k - 1].source /\ old = Clock(text, k - 1)
  BY ClockOnNext DEF Before, OldClock, Clock
<1>5. before \in 0 .. Len(text)
  <2>1. k # 1 => k - 1 \in 1 .. Length
    BY <1>1
  <2> HIDE DEF before
  <2> QED BY <1>1, <1>2, <1>4, <2>1
<1>6. timed \in BOOLEAN /\ set \in BOOLEAN
  BY DEF TimesIn, SetsIn
<1>7. old \in Clocks /\ now \in Clocks
  <2>1. source \in 0 .. Len(text)
    BY <1>1, <1>3
  <2> HIDE DEF before, source
  <2>2. ClockOn(text, before) \in Clocks /\ ClockOn(text, source) \in Clocks
    BY <1>1, <1>5, <2>1, ClockOnTyped
  <2> QED BY <2>2 DEF OldClock, Clock, before, source
<1>8. now.type = "NONE" => ~set
  <2> SUFFICES ASSUME now.type = "NONE", set PROVE FALSE
    OBVIOUS
  <2>1. \A b \in before + 1 .. source : b \in 1 .. source
    BY <1>1, <1>3, <1>5
  <2>2. SetsIn(text, 1, source)
    BY <2>1 DEF SetsIn
  <2> QED BY <2>2 DEF Timely, Early, Clock, Length
<1>9. from = (IF x.reset_effect THEN 0 ELSE old.till) + x.effect_skip_timing
  BY Zenon DEF FromTime
<1>10. TimeOf(text, glyphs, k) =
         IF now.type = "NONE" THEN <<0, 0>>
         ELSE IF ~timed THEN <<now.till, now.till>>
         ELSE <<now.from, IF now.type = "KARAOKE_KF" THEN now.till ELSE now.from>>
  BY Zenon DEF TimeOf, Clock
<1>11. ~x.starts_new_run => k # 1 /\ x.effect_timing = 0 /\ x.effect_type \in {"NONE", old.type}
  BY Zenon DEF Timely, InRun, OldClock
<1> HIDE DEF before, source, timed, set, old, now, from, x
<1>12. Brings(x, old, now, from) /\ (timed => now.from = from) /\ (~timed => from = now.till)
  BY <1>3, <1>6, <1>7, <1>8, <1>9, FollowsBrings
<1>13. ~x.starts_new_run => now.type = old.type
  <2>1. now.type = IF x.effect_type # "NONE" THEN x.effect_type ELSE old.type
    BY Zenon, <1>12 DEF Brings
  <2> QED BY <1>11, <2>1
<1>14. now.type # "NONE" =>
         TimeOf(text, glyphs, k) = <<from, IF now.type = "KARAOKE_KF" THEN now.till ELSE from>>
  <2>1. CASE timed
    BY <1>10, <1>12, <2>1
  <2>2. CASE ~timed
    BY <1>10, <1>12, <2>2
  <2> QED BY <2>1, <2>2
<1>15. now.type = "NONE" => TimeOf(text, glyphs, k) = <<0, 0>>
  BY <1>10
<1> QED BY Zenon, <1>3, <1>4, <1>11, <1>12, <1>13, <1>14, <1>15 DEF old, now, from, x

\* A word is a run with its syllable and its times.
SungWord(text, word) ==
  /\ word.first \in 1 .. Length /\ word.last \in 1 .. Length
  /\ \A j \in word.first .. word.last : RunOf(glyphs, j) = word.first
  /\ word.type = Clock(text, word.first).type /\ word.sung = TimeOf(text, glyphs, word.first)

\* Words for the first m glyphs: those that are in none have no syllable.
WordsSung(text, words, m) ==
  /\ \A x \in 1 .. Len(words) : SungWord(text, words[x])
  /\ \A j \in 1 .. m :
       \/ Clock(text, j).type = "NONE"
       \/ \E x \in 1 .. Len(words) : j \in words[x].first .. words[x].last

\* The run that is open when karaoke has come to the k-th glyph
RunSoFar(text, w, k) ==
  /\ w.start \in 1 .. k
  /\ \A j \in w.start .. k : /\ RunOf(glyphs, j) = w.start
                           /\ Clock(text, j).type = Clock(text, w.start).type
  /\ w.type = OldClock(text, w.start).type /\ w.timing = OldClock(text, w.start).till
  /\ w.skip_timing \in Int /\ w.has_reset \in BOOLEAN
  /\ Clock(text, k).till = (IF w.has_reset THEN 0 ELSE Clock(text, w.start).till) + w.skip_timing
  /\ Clock(text, w.start).type = "NONE" =>
       /\ w.has_reset = FALSE /\ w.skip_timing = 0
       /\ Clock(text, k) = OldClock(text, w.start)
  /\ WordsSung(text, w.words, w.start - 1)

LEMMA RunBegins ==
  ASSUME NEW text, Timely(text), NEW k \in 1 .. Length, NEW w,
         glyphs[k].starts_new_run \/ k = 1,
         w.start = k, w.type = OldClock(text, k).type, w.timing = OldClock(text, k).till,
         w.skip_timing = 0, w.has_reset = FALSE, WordsSung(text, w.words, k - 1)
  PROVE  RunSoFar(text, w, k)
<1>0. Length \in Nat /\ k \in Nat \ {0}
  BY DEF Timely, IsGlyphs, Sequence, Length
<1>1. RunOf(glyphs, k) = k
  <2>1. glyphs[k].starts_new_run \/ k = 1 => RunOf(glyphs, k) = k
    BY <1>0, RunOfNext
  <2> QED BY Zenon, <2>1
<1> DEFINE now == Clock(text, k)
           old == OldClock(text, k)
           from == FromTime(text, k)
<1>2. Brings(glyphs[k], old, now, from)
  BY GlyphBrings
<1> HIDE DEF now, old, from
<1>3. now.till \in Int /\ (now.type = "NONE" => now = old)
  BY <1>2 DEF Brings, Clocks
<1>4. now.till = (IF w.has_reset THEN 0 ELSE now.till) + w.skip_timing
  <2>1. now.till = now.till + 0
    BY <1>3
  <2>2. ~ w.has_reset
    BY Zenon
  <2> QED BY Zenon, <2>1, <2>2
<1>5. \A j \in w.start .. k : j = k
  BY <1>0
<1>6. \A j \in w.start .. k : /\ RunOf(glyphs, j) = w.start
                           /\ Clock(text, j).type = Clock(text, w.start).type
  BY Zenon, <1>1, <1>5
<1>7. w.start \in 1 .. k /\ w.skip_timing \in Int
  BY <1>0
<1>8. w.has_reset \in BOOLEAN
  BY Zenon
<1>9. WordsSung(text, w.words, w.start - 1)
  OBVIOUS
<1> QED BY Zenon, <1>3, <1>4, <1>6, <1>7, <1>8, <1>9 DEF RunSoFar, now, old

LEMMA RunGoesOn ==
  ASSUME NEW text, Timely(text), NEW k \in 1 .. Length, NEW w, k # 1,
         WordsUpTo(w, k - 1), RunSoFar(text, w, k - 1), ~glyphs[k].starts_new_run
  PROVE  RunSoFar(text, InWord(w, k), k)
<1>0. Length \in Nat /\ k \in Nat \ {0} /\ k - 1 \in 1 .. Length /\ k \in Int
  BY DEF Timely, IsGlyphs, Sequence, Length
<1> DEFINE x == InWord(w, k)
           g == glyphs[k]
           a == w.start
           now == Clock(text, k)
           old == OldClock(text, k)
           from == FromTime(text, k)
           first == Clock(text, a)
<1>1. w = [f \in WordFields |-> w[f]]
  BY DEF WordsUpTo
<1>2. /\ x.start = w.start /\ x.type = w.type /\ x.timing = w.timing /\ x.words = w.words
      /\ x.skip_timing = g.effect_skip_timing + (IF g.reset_effect THEN 0 ELSE w.skip_timing)
  BY <1>1 DEF InWord, WordFields
<1>3. x.has_reset = (w.has_reset \/ g.reset_effect)
  BY <1>1 DEF InWord, WordFields
<1>4. /\ Brings(g, old, now, from) /\ old = Clock(text, k - 1)
      /\ g.effect_timing = 0 /\ now.type = old.type
  BY Zenon, GlyphBrings
<1>5. /\ a \in 1 .. k - 1
      /\ \A j \in a .. k - 1 : RunOf(glyphs, j) = a /\ Clock(text, j).type = first.type
      /\ w.type = OldClock(text, a).type /\ w.timing = OldClock(text, a).till
      /\ w.skip_timing \in Int /\ w.has_reset \in BOOLEAN
      /\ old.till = (IF w.has_reset THEN 0 ELSE first.till) + w.skip_timing
      /\ first.type = "NONE" =>
           w.has_reset = FALSE /\ w.skip_timing = 0 /\ old = OldClock(text, a)
      /\ WordsSung(text, w.words, a - 1)
  BY Zenon, <1>4 DEF RunSoFar
<1>6. RunOf(glyphs, k) = a
  <2>1. k # 1 /\ ~glyphs[k].starts_new_run => RunOf(glyphs, k) = RunOf(glyphs, k - 1)
    BY <1>0, RunOfNext
  <2>2. k - 1 \in a .. k - 1
    BY <1>0, <1>5
  <2> QED BY Zenon, <1>5, <2>1, <2>2
<1>7. first \in Clocks
  <2>1. a \in 1 .. Length
    BY <1>0, <1>5
  <2>2. Brings(glyphs[a], OldClock(text, a), Clock(text, a), FromTime(text, a))
    BY <2>1, GlyphBrings
  <2> QED BY <2>2 DEF Brings
<1> HIDE DEF x, g, a, now, old, from, first
<1>8. a \in 1 .. k
  BY <1>0, <1>5
<1>9. \A j \in a .. k : RunOf(glyphs, j) = a /\ Clock(text, j).type = first.type
  <2>1. old.type = first.type
    <3>1. k - 1 \in a .. k - 1
      BY <1>0, <1>5
    <3> QED BY Zenon, <1>4, <1>5, <3>1
  <2>2. \A j \in a .. k : j \in a .. k - 1 \/ j = k
    BY <1>0, <1>5
  <2> QED BY Zenon, <1>4, <1>5, <1>6, <2>1, <2>2 DEF now
<1> DEFINE h == w.has_reset
           r == g.reset_effect
           s == w.skip_timing
           skip == g.effect_skip_timing
<1>10. h \in BOOLEAN /\ r \in BOOLEAN /\ s \in Int /\ skip \in Int /\ first.till \in Int
  <2>1. first.till \in Int
    BY <1>7 DEF Clocks
  <2> QED BY Zenon, <1>4, <1>5, <2>1 DEF Brings
<1>11. /\ now.till = from + g.effect_timing /\ from = (IF r THEN 0 ELSE old.till) + skip
       /\ from \in Int /\ g.effect_timing = 0 /\ old.till = (IF h THEN 0 ELSE first.till) + s
  BY Zenon, <1>4, <1>5 DEF Brings
<1>12. x.has_reset = (h \/ r) /\ x.skip_timing = skip + (IF r THEN 0 ELSE s)
  BY Zenon, <1>2, <1>3
<1>13. /\ first.type = "NONE" => h = FALSE /\ s = 0 /\ old = OldClock(text, a)
       /\ now.type = "NONE" => now = old /\ skip = 0 /\ r = FALSE
       /\ now.type = first.type
  <2>1. now.type = first.type
    <3>1. k \in a .. k
      BY <1>0, <1>8
    <3> QED BY Zenon, <1>9, <3>1 DEF now
  <2> QED BY Zenon, <1>4, <1>5, <2>1 DEF Brings
<1> HIDE DEF h, r, s, skip
<1>14. now.till = (IF h \/ r THEN 0 ELSE first.till) + (skip + (IF r THEN 0 ELSE s))
  <2>1. now.till = from
    BY <1>11
  <2>2. from = (IF h \/ r THEN 0 ELSE first.till) + (skip + (IF r THEN 0 ELSE s))
    BY <1>10, <1>11
  <2> QED BY Zenon, <2>1, <2>2
<1>15. now.till = (IF x.has_reset THEN 0 ELSE first.till) + x.skip_timing
  BY Zenon, <1>12, <1>14
<1>16. x.skip_timing \in Int
  <2>1. skip + (IF r THEN 0 ELSE s) \in Int
    BY <1>10
  <2> QED BY Zenon, <1>12, <2>1
<1>17. x.has_reset \in BOOLEAN
  BY Zenon, <1>10, <1>12
<1>18. first.type = "NONE" =>
         x.has_reset = FALSE /\ x.skip_timing = 0 /\ now = OldClock(text, a)
  <2> SUFFICES ASSUME first.type = "NONE"
               PROVE  x.has_reset = FALSE /\ x.skip_timing = 0 /\ now = OldClock(text, a)
    OBVIOUS
  <2>1. h = FALSE /\ r = FALSE /\ s = 0 /\ skip = 0 /\ now = old /\ old = OldClock(text, a)
    BY Zenon, <1>13
  <2>2. skip + (IF r THEN 0 ELSE s) = 0
    BY <2>1
  <2>3. (h \/ r) = FALSE
    BY Zenon, <2>1
  <2> QED BY Zenon, <1>12, <2>1, <2>2, <2>3
<1>19. x.start = a /\ x.type = w.type /\ x.timing = w.timing /\ x.words = w.words
  BY <1>2 DEF a
<1>20. RunSoFar(text, x, k)
  BY Zenon, <1>5, <1>8, <1>9, <1>15, <1>16, <1>17, <1>18, <1>19 DEF RunSoFar, first, now
<1> QED BY <1>20 DEF x

LEMMA RunEnds ==
  ASSUME NEW text, Timely(text), NEW k \in 1 .. Length, NEW w,
         WordsUpTo(w, k), RunSoFar(text, w, k)
  PROVE  LET x == EndWord(w, k + 1)
         IN  /\ x.start = k + 1
             /\ x.type = Clock(text, k).type /\ x.timing = Clock(text, k).till
             /\ x.skip_timing = 0 /\ x.has_reset = FALSE /\ WordsSung(text, x.words, k)
<1>0. Length \in Nat /\ k \in Nat \ {0} /\ (k + 1) - 1 = k
  BY DEF Timely, IsGlyphs, Sequence, Length
<1> DEFINE x == EndWord(w, k + 1)
           a == w.start
           start == glyphs[a]
           now == Clock(text, k)
           first == Clock(text, a)
           old == OldClock(text, a)
           from == FromTime(text, a)
           words == w.words
           type == IF start.effect_type # "NONE" THEN start.effect_type ELSE w.type
           begins == (IF start.reset_effect THEN 0 ELSE w.timing) + start.effect_skip_timing
           till == begins + start.effect_timing
<1>1. /\ a \in 1 .. k
      /\ \A j \in a .. k : RunOf(glyphs, j) = a /\ Clock(text, j).type = first.type
      /\ w.type = old.type /\ w.timing = old.till
      /\ w.skip_timing \in Int /\ w.has_reset \in BOOLEAN
      /\ now.till = (IF w.has_reset THEN 0 ELSE first.till) + w.skip_timing
      /\ first.type = "NONE" =>
           w.has_reset = FALSE /\ w.skip_timing = 0 /\ now = old
      /\ WordsSung(text, words, a - 1)
  BY Zenon DEF RunSoFar
<1>2. a \in 1 .. Length /\ a \in Nat /\ a # 0 /\ k \in a .. k
  BY <1>0, <1>1
<1>3. /\ Brings(start, old, first, from)
      /\ first.type # "NONE" =>
           TimeOf(text, glyphs, a) =
             <<from, IF first.type = "KARAOKE_KF" THEN first.till ELSE from>>
  BY Zenon, <1>2, GlyphBrings
<1>4. type = first.type
  BY Zenon, <1>1, <1>3 DEF Brings
<1>5. begins = from
  BY Zenon, <1>1, <1>3 DEF Brings
<1>6. till = first.till
  <2>1. first.till = from + start.effect_timing
    BY Zenon, <1>3 DEF Brings
  <2> QED BY Zenon, <1>5, <2>1
<1>7. now.type = first.type
  BY Zenon, <1>1, <1>2
<1>8. w = [f \in WordFields |-> w[f]] /\ Sequence(words)
  BY DEF WordsUpTo
<1>9. \A j \in 1 .. k : j \in 1 .. a - 1 \/ j \in a .. k
  BY <1>0, <1>1
<1>10. /\ \A y \in 1 .. Len(words) : SungWord(text, words[y])
       /\ \A j \in 1 .. a - 1 :
            \/ Clock(text, j).type = "NONE"
            \/ \E y \in 1 .. Len(words) : j \in words[y].first .. words[y].last
  BY Zenon, <1>1 DEF WordsSung
<1>11. CASE first.type = "NONE"
  <2>1. x = [w EXCEPT !.start = k + 1]
    BY Zenon, <1>4, <1>11 DEF EndWord
  <2> HIDE DEF x
  <2>2. /\ x.start = k + 1 /\ x.type = w.type /\ x.timing = w.timing
        /\ x.skip_timing = w.skip_timing /\ x.words = words
    BY <1>8, <2>1 DEF WordFields
  <2>3. x.has_reset = w.has_reset
    BY <1>8, <2>1 DEF WordFields
  <2>4. WordsSung(text, words, k)
    BY Zenon, <1>1, <1>9, <1>10, <1>11 DEF WordsSung
  <2> QED BY Zenon, <1>1, <1>11, <2>2, <2>3, <2>4 DEF x
<1>12. CASE first.type # "NONE"
  <2> DEFINE word == [first |-> a, last |-> (k + 1) - 1, type |-> type,
                      sung |-> <<begins, IF type = "KARAOKE_KF" THEN till ELSE begins>>]
             next == (IF w.has_reset THEN 0 ELSE till) + w.skip_timing
             more == Append(words, word)
  <2>1. ~ (a = 0 \/ type = "NONE")
    BY Zenon, <1>2, <1>4, <1>12
  <2>2. x = [start |-> k + 1, type |-> type, timing |-> next, skip_timing |-> 0,
             has_reset |-> FALSE, words |-> more]
    <3>1. x = IF a = 0 \/ type = "NONE" THEN [w EXCEPT !.start = k + 1]
              ELSE [start |-> k + 1, type |-> type, timing |-> next, skip_timing |-> 0,
                    has_reset |-> FALSE, words |-> more]
      BY DEF EndWord
    <3> HIDE DEF type, next, more, x
    <3> QED BY <2>1, <3>1
  <2>3. next = now.till
    BY Zenon, <1>1, <1>6
  <2>4. SungWord(text, word)
    <3>1. word.first = a /\ word.last = k /\ word.type = type
          /\ word.sung = <<begins, IF type = "KARAOKE_KF" THEN till ELSE begins>>
      BY <1>0
    <3> HIDE DEF word, type, begins, till
    <3>2. word.type = first.type
      BY Zenon, <1>4, <3>1
    <3>3. word.sung = TimeOf(text, glyphs, a)
      BY Zenon, <1>3, <1>4, <1>5, <1>6, <1>12, <3>1
    <3> QED BY Zenon, <1>1, <1>2, <3>1, <3>2, <3>3 DEF SungWord, first
  <2>5. /\ Len(words) \in Nat /\ Len(more) = Len(words) + 1
        /\ \A y \in 1 .. Len(words) : more[y] = words[y]
        /\ more[Len(words) + 1] = word
        /\ word.first = a /\ word.last = k
    <3>1. word.first = a /\ word.last = k
      BY <1>0
    <3> HIDE DEF word, words
    <3>2. /\ Len(Append(words, word)) = Len(words) + 1
          /\ \A y \in 1 .. Len(words) : Append(words, word)[y] = words[y]
          /\ Append(words, word)[Len(words) + 1] = word
      BY <1>8, Appended
    <3>3. Len(words) \in Nat
      BY <1>8 DEF Sequence
    <3> QED BY <3>1, <3>2, <3>3
  <2> HIDE DEF x, word, next, more, words, type
  <2>6. /\ x.start = k + 1 /\ x.type = type /\ x.timing = next /\ x.skip_timing = 0
        /\ x.words = more
    BY <2>2
  <2>7. x.has_reset = FALSE
    BY Zenon, <2>2
  <2>8. WordsSung(text, more, k)
    <3>1. /\ \A y \in 1 .. Len(more) : y \in 1 .. Len(words) \/ y = Len(words) + 1
          /\ \A y \in 1 .. Len(words) : y \in 1 .. Len(more)
          /\ Len(words) + 1 \in 1 .. Len(more)
      BY <2>5
    <3>2. \A y \in 1 .. Len(more) : SungWord(text, more[y])
      BY Zenon, <1>10, <2>4, <2>5, <3>1
    <3>3. ASSUME NEW j \in 1 .. a - 1
          PROVE  \/ Clock(text, j).type = "NONE"
                 \/ \E y \in 1 .. Len(more) : j \in more[y].first .. more[y].last
      BY Zenon, <1>10, <2>5, <3>1, <3>3
    <3>4. ASSUME NEW j \in a .. k
          PROVE  \E y \in 1 .. Len(more) : j \in more[y].first .. more[y].last
      BY Zenon, <2>5, <3>1, <3>4
    <3> QED BY Zenon, <1>9, <3>2, <3>3, <3>4 DEF WordsSung
  <2> QED BY Zenon, <1>4, <1>7, <2>3, <2>6, <2>7, <2>8 DEF x
<1> QED BY <1>11, <1>12

LEMMA AllSung ==
  ASSUME NEW text, Timely(text), Length > 0
  PROVE  Sequence(Words) /\ WordsSung(text, Words, Length)
<1>0. Length \in Nat \ {0} /\ IsGlyphs(glyphs)
  BY DEF Timely, IsGlyphs, Sequence, Length
<1>1. PICK p : /\ p[0] = NoWord
               /\ \A k \in 1 .. Length + 1 : p[k] = NextWord(p[k - 1], k)
               /\ \A k \in 0 .. Length + 1 : WordsUpTo(p[k], k)
               /\ Words = p[Length + 1].words
  BY <1>0, WordsReached
<1>2. \A k \in 1 .. Length : \A w : EndsWord(w, k) <=> glyphs[k].starts_new_run
  <2>1. \A k \in 1 .. Length : ~ (k > Length)
    BY <1>0
  <2> QED BY Zenon, <2>1 DEF EndsWord
<1>3. RunSoFar(text, p[1], 1)
  <2>1. 1 \in 1 .. Length /\ 1 \in 1 .. Length + 1 /\ 1 - 1 = 0
    BY <1>0
  <2>2. OldClock(text, 1) = NoClock /\ glyphs[1].starts_new_run
    BY Zenon, <2>1, GlyphBrings
  <2>3. p[1] = NextWord(NoWord, 1)
    BY <1>1, <2>1
  <2>4. EndsWord(NoWord, 1)
    BY Zenon, <1>2, <2>1, <2>2
  <2>5. NoWord.start = 0
    BY DEF NoWord
  <2>6. p[1] = [NoWord EXCEPT !.start = 1]
    BY Zenon, <2>3, <2>4, <2>5 DEF NextWord, EndWord
  <2> DEFINE w == p[1]
  <2>7. /\ w.start = 1 /\ w.type = "NONE" /\ w.timing = 0 /\ w.skip_timing = 0
        /\ w.words = <<>>
    BY <2>6 DEF NoWord
  <2>8. w.has_reset = FALSE
    BY <2>6 DEF NoWord
  <2> HIDE DEF w
  <2>9. WordsSung(text, w.words, 0)
    <3>1. Len(w.words) = 0
      BY <2>7, EmptySequence
    <3>2. 1 .. Len(w.words) = {} /\ 1 .. 0 = {}
      BY <3>1
    <3> QED BY Zenon, <3>2 DEF WordsSung
  <2>10. NoClock.type = "NONE" /\ NoClock.till = 0
    BY DEF NoClock
  <2>11. RunSoFar(text, w, 1)
    BY Zenon, <2>1, <2>2, <2>7, <2>8, <2>9, <2>10, RunBegins
  <2> QED BY <2>11 DEF w
<1>4. ASSUME NEW k \in 2 .. Length, RunSoFar(text, p[k - 1], k - 1)
      PROVE  RunSoFar(text, p[k], k)
  <2>1. /\ k \in 1 .. Length /\ k - 1 \in 1 .. Length /\ k # 1 /\ k \in 1 .. Length + 1
        /\ k - 1 \in 0 .. Length + 1 /\ (k - 1) + 1 = k
    BY <1>0, <1>4
  <2> DEFINE w == p[k - 1]
  <2>2. p[k] = NextWord(w, k) /\ WordsUpTo(w, k - 1) /\ RunSoFar(text, w, k - 1)
    BY <1>1, <1>4, <2>1
  <2> HIDE DEF w
  <2>3. CASE ~glyphs[k].starts_new_run
    <3>1. RunSoFar(text, InWord(w, k), k)
      BY <2>1, <2>2, <2>3, RunGoesOn
    <3> QED BY Zenon, <1>2, <2>1, <2>2, <2>3, <3>1 DEF NextWord
  <2>4. CASE glyphs[k].starts_new_run
    <3> DEFINE x == EndWord(w, k)
    <3>1. p[k] = x
      BY Zenon, <1>2, <2>1, <2>2, <2>4 DEF NextWord
    <3>2. /\ x.start = k
          /\ x.type = Clock(text, k - 1).type /\ x.timing = Clock(text, k - 1).till
          /\ x.skip_timing = 0 /\ x.has_reset = FALSE /\ WordsSung(text, x.words, k - 1)
      <4> DEFINE j == k - 1
      <4>1. j \in 1 .. Length /\ WordsUpTo(w, j) /\ RunSoFar(text, w, j) /\ j + 1 = k
        BY <2>1, <2>2
      <4> HIDE DEF j, x
      <4>2. LET y == EndWord(w, j + 1)
            IN  /\ y.start = j + 1
                /\ y.type = Clock(text, j).type /\ y.timing = Clock(text, j).till
                /\ y.skip_timing = 0 /\ y.has_reset = FALSE /\ WordsSung(text, y.words, j)
        BY Zenon, <4>1, RunEnds
      <4> QED BY Zenon, <4>1, <4>2 DEF x, j
    <3> HIDE DEF x
    <3>3. OldClock(text, k) = Clock(text, k - 1)
      BY Zenon, <2>1, GlyphBrings
    <3>4. RunSoFar(text, x, k)
      BY Zenon, <2>1, <2>4, <3>2, <3>3, RunBegins
    <3> QED BY <3>1, <3>4
  <2> QED BY <2>3, <2>4
<1>5. RunSoFar(text, p[Length], Length)
  <2> DEFINE Off == {k \in 1 .. Length : ~ RunSoFar(text, p[k], k)}
  <2>1. Off = {}
    <3>1. SUFFICES ASSUME Off # {} PROVE FALSE
      OBVIOUS
    <3>2. PICK m \in Off : \A k \in Off : m <= k
      <4>1. Off \in SUBSET Nat
        OBVIOUS
      <4> QED BY <3>1, <4>1, Smallest
    <3>3. m # 1
      BY <1>3
    <3>4. m \in 2 .. Length /\ m - 1 \in 1 .. Length /\ ~ (m <= m - 1)
      BY <1>0, <3>3
    <3>5. RunSoFar(text, p[m - 1], m - 1)
      BY <3>2, <3>4
    <3> QED BY <1>4, <3>4, <3>5
  <2>2. Length \in 1 .. Length
    BY <1>0
  <2> QED BY <2>1, <2>2
<1>6. /\ Length \in 1 .. Length /\ Length + 1 \in 1 .. Length + 1 /\ Length + 1 > Length
      /\ (Length + 1) - 1 = Length /\ Length \in 0 .. Length + 1
      /\ Length + 1 \in 0 .. Length + 1
  BY <1>0
<1>7. p[Length + 1] = EndWord(p[Length], Length + 1)
  <2>1. p[Length + 1] = NextWord(p[Length], Length + 1)
    BY <1>1, <1>6
  <2> QED BY Zenon, <1>6, <2>1 DEF NextWord, EndsWord
<1>8. WordsSung(text, p[Length + 1].words, Length)
  <2>1. WordsUpTo(p[Length], Length)
    BY <1>1, <1>6
  <2> QED BY Zenon, <1>5, <1>6, <1>7, <2>1, RunEnds
<1>9. Sequence(p[Length + 1].words)
  BY <1>1, <1>6 DEF WordsUpTo
<1> QED BY Zenon, <1>1, <1>8, <1>9

\* A run has one syllable.
LEMMA RunType ==
  ASSUME NEW text, Timely(text), NEW k \in 1 .. Length
  PROVE  Clock(text, k).type = Clock(text, RunOf(glyphs, k)).type
<1> DEFINE One(j) == Clock(text, j).type = Clock(text, RunOf(glyphs, j)).type
           Off == {j \in 1 .. Length : ~ One(j)}
<1>0. Length \in Nat
  BY DEF Timely, IsGlyphs, Sequence, Length
<1>1. SUFFICES ASSUME Off # {} PROVE FALSE
  OBVIOUS
<1>2. PICK m \in Off : \A j \in Off : m <= j
  <2>1. Off \in SUBSET Nat
    OBVIOUS
  <2> QED BY <1>1, <2>1, Smallest
<1>3. m \in 1 .. Length /\ m \in Nat \ {0} /\ ~ One(m)
  OBVIOUS
<1>4. CASE glyphs[m].starts_new_run \/ m = 1
  <2>1. glyphs[m].starts_new_run \/ m = 1 => RunOf(glyphs, m) = m
    BY <1>3, RunOfNext
  <2> QED BY Zenon, <1>3, <1>4, <2>1
<1>5. CASE ~ (glyphs[m].starts_new_run \/ m = 1)
  <2>1. m # 1 /\ ~glyphs[m].starts_new_run => RunOf(glyphs, m) = RunOf(glyphs, m - 1)
    BY <1>3, RunOfNext
  <2>2. Clock(text, m).type = OldClock(text, m).type /\ OldClock(text, m) = Clock(text, m - 1)
    BY Zenon, <1>3, <1>5, GlyphBrings
  <2>3. m # 1
    BY <1>5
  <2>4. m - 1 \in 1 .. Length /\ ~ (m <= m - 1)
    BY <1>0, <1>3, <2>3
  <2>5. One(m - 1)
    BY <1>2, <2>4
  <2> QED BY Zenon, <1>3, <1>5, <2>1, <2>2, <2>5
<1> QED BY <1>4, <1>5

LEMMA SungSets ==
  ASSUME NEW g, NEW word, IsGlyph(g)
  PROVE  /\ Sing(g, word).effect_type = word.type /\ Sing(g, word).sung = word.sung
         /\ Sing(g, word).source = g.source
         /\ Sing(g, word).starts_new_run = g.starts_new_run
<1>1. g = [f \in GlyphFields |-> g[f]]
  BY DEF IsGlyph
<1> QED BY <1>1 DEF Sing, GlyphFields

LEMMA KInvKaraoke == CInv /\ GInv /\ KInv /\ Karaoke => KInv'
<1> SUFFICES ASSUME CInv, GInv, KInv, Karaoke PROVE KInv'
  OBVIOUS
<1>1. /\ pc = "karaoke" /\ pc' = "reorder" /\ state' = state /\ n > 0 /\ Length > 0
      /\ Length \in Nat /\ IsGlyphs(glyphs)
  BY DEF Karaoke, CInv, GInv, IsGlyphs, Sequence, Length
<1> DEFINE text == Text
           gs == glyphs
           hs == glyphs'
           len == Length
           singer(k) == CHOOSE w \in DOMAIN Words : k \in Words[w].first .. Words[w].last
           Sings(k) == \E w \in DOMAIN Words : k \in Words[w].first .. Words[w].last
<1>2. hs = [k \in 1 .. len |-> IF Sings(k) THEN Sing(gs[k], Words[singer(k)]) ELSE gs[k]]
  BY Zenon DEF Karaoke
<1>3. \A k : Sings(k) => singer(k) \in DOMAIN Words
                       /\ k \in Words[singer(k)].first .. Words[singer(k)].last
  OBVIOUS
<1> HIDE DEF singer, Sings
<1>4. /\ hs = [k \in 1 .. len |-> hs[k]]
      /\ \A k \in 1 .. len : hs[k] = IF Sings(k) THEN Sing(gs[k], Words[singer(k)]) ELSE gs[k]
  BY <1>2
<1>5. Length' = Length
  <2> HIDE DEF hs
  <2>1. Len(hs) = len
    BY <1>1, <1>4, SequenceOf
  <2> QED BY <2>1 DEF hs, Length
<1>6. \A k \in 1 .. len : IsGlyph(gs[k])
  BY <1>1 DEF IsGlyphs, Length
<1>7. \A k \in 1 .. len : hs[k].source = gs[k].source /\ hs[k].starts_new_run = gs[k].starts_new_run
  <2>1. ASSUME NEW k \in 1 .. len
        PROVE  hs[k].source = gs[k].source /\ hs[k].starts_new_run = gs[k].starts_new_run
    <3> DEFINE sung == Sing(gs[k], Words[singer(k)])
    <3>1. sung.source = gs[k].source /\ sung.starts_new_run = gs[k].starts_new_run
      BY Zenon, <1>6, <2>1, SungSets
    <3>2. hs[k] = sung \/ hs[k] = gs[k]
      BY Zenon, <1>4, <2>1
    <3> HIDE DEF sung, hs, gs
    <3> QED BY Zenon, <3>1, <3>2
  <2> QED BY <2>1
<1>8. Text' = text /\ IsText(text)
  BY <1>1, TextIsText DEF Text
<1> HIDE DEF text, hs
<1>9. ASSUME ~Early(text, hs), NEW k \in 1 .. len
      PROVE  /\ hs[k].sung = TimeOf(text, hs, RunOf(hs, k))
             /\ hs[k].effect_type = ClockOn(text, hs[RunOf(hs, k)].source).type
  <2>1. Timely(text)
    <3>1. ~ Early(text, gs)
      <4>1. Len(hs) = len /\ Len(gs) = len
        BY <1>5 DEF hs, Length
      <4> QED BY Zenon, <1>7, <1>9, <4>1 DEF Early
    <3>2. \A j \in 1 .. Length : TimedGlyph(text, glyphs, j) /\ InRun(text, glyphs, j)
      BY <1>1 DEF KInv, text
    <3> QED BY Zenon, <1>1, <1>8, <3>1, <3>2 DEF Timely
  <2> DEFINE a == RunOf(gs, k)
  <2>2. a \in 1 .. k /\ a \in 1 .. len
    <3>1. k \in Nat \ {0}
      OBVIOUS
    <3>2. a \in 1 .. k
      BY <3>1, RunOfNext
    <3> HIDE DEF a
    <3> QED BY <1>1, <3>2
  <2>3. RunOf(hs, k) = a
    <3>1. {j \in 1 .. k : hs[j].starts_new_run} = {j \in 1 .. k : gs[j].starts_new_run}
      <4>1. \A j \in 1 .. k : j \in 1 .. len
        BY <1>1
      <4> QED BY Zenon, <1>7, <4>1
    <3> QED BY Zenon, <3>1 DEF RunOf
  <2>4. Before(hs, a) = Before(gs, a)
    <3>1. a # 1 => a - 1 \in 1 .. len
      <4> HIDE DEF a
      <4> QED BY <1>1, <2>2
    <3> HIDE DEF a
    <3> QED BY <1>7, <3>1 DEF Before
  <2>5. hs[a].source = gs[a].source
    BY <1>7, <2>2
  <2>6. TimeOf(text, hs, a) = TimeOf(text, gs, a)
    <3> HIDE DEF a
    <3> QED BY Zenon, <2>4, <2>5 DEF TimeOf
  <2>7. ClockOn(text, hs[a].source).type = Clock(text, a).type
    BY Zenon, <2>5 DEF Clock
  <2>8. Sequence(Words) /\ WordsSung(text, Words, len)
    BY <1>1, <2>1, AllSung
  <2>9. DOMAIN Words = 1 .. Len(Words)
    BY <2>8 DEF Sequence
  <2> SUFFICES hs[k].sung = TimeOf(text, gs, a) /\ hs[k].effect_type = Clock(text, a).type
    BY Zenon, <2>3, <2>6, <2>7
  <2>10. CASE Sings(k)
    <3> DEFINE word == Words[singer(k)]
    <3>1. SungWord(text, word) /\ k \in word.first .. word.last
      BY Zenon, <1>3, <2>8, <2>9, <2>10 DEF WordsSung
    <3>2. a = word.first /\ word.type = Clock(text, a).type /\ word.sung = TimeOf(text, gs, a)
      BY Zenon, <3>1 DEF SungWord
    <3> DEFINE sung == Sing(gs[k], word)
    <3>3. hs[k] = sung
      BY Zenon, <1>4, <1>9, <2>10
    <3>5. sung.effect_type = word.type /\ sung.sung = word.sung
      BY Zenon, <1>6, <1>9, SungSets
    <3> HIDE DEF sung
    <3>4. hs[k].effect_type = word.type /\ hs[k].sung = word.sung
      BY Zenon, <3>3, <3>5
    <3> QED BY Zenon, <3>2, <3>4
  <2>11. CASE ~Sings(k)
    <3>1. Clock(text, k).type = "NONE"
      BY Zenon, <1>9, <2>8, <2>9, <2>11 DEF WordsSung, Sings
    <3>2. Clock(text, a).type = "NONE"
      <4>1. Clock(text, k).type = Clock(text, a).type
        BY <2>1, RunType
      <4> QED BY <3>1, <4>1
    <3>3. hs[k] = gs[k]
      BY Zenon, <1>4, <1>9, <2>11
    <3>4. TimeOf(text, gs, a) = <<0, 0>>
      BY Zenon, <2>1, <2>2, <3>2, GlyphBrings
    <3>5. gs[k].sung = <<0, 0>> /\ gs[k].effect_type = "NONE"
      <4>1. /\ Brings(gs[k], OldClock(text, k), Clock(text, k), FromTime(text, k))
            /\ gs[k].sung = <<0, 0>>
        BY <2>1, GlyphBrings
      <4> QED BY Zenon, <3>1, <4>1 DEF Brings
    <3> QED BY Zenon, <3>2, <3>3, <3>4, <3>5
  <2> QED BY <2>10, <2>11
<1>10. SungRight(Text', glyphs')
  <2>1. Len(hs) = len
    BY <1>5 DEF hs, Length
  <2>2. SungRight(text, hs)
    BY Zenon, <1>9, <2>1 DEF SungRight
  <2> QED BY <1>8, <2>2 DEF hs
<1>11. \A k \in 1 .. Length' : glyphs'[k].source \in 1 .. Len(Text')
  <2>1. \A k \in 1 .. len : gs[k].source \in 1 .. Len(text)
    BY <1>1 DEF KInv, TimedGlyph, text
  <2> QED BY Zenon, <1>5, <1>7, <1>8, <2>1 DEF hs
<1> QED BY <1>1, <1>10, <1>11 DEF KInv

LEMMA KInvStill ==
  ASSUME KInv, UNCHANGED textVars,
         \/ pc' = pc
         \/ pc = "parse" /\ pc' = "split"
         \/ /\ pc \in {"wrap", "balance", "trim", "measure"}
            /\ pc' \in {"wrap", "balance", "trim", "measure", "karaoke"}
         \/ pc \in {"reorder", "align"} /\ pc' \in {"align", "done"}
  PROVE  KInv'
<1>1. Text' = Text /\ glyphs' = glyphs /\ Length' = Length /\ state' = state /\ at' = at
  BY DEF textVars, Text, Length
<1> DEFINE text == Text
<1>2. /\ pc \in {"parse", "split", "wrap", "balance", "trim", "measure", "karaoke"} =>
           \A k \in 1 .. Length : TimedGlyph(text, glyphs, k)
      /\ pc = "parse" => Pending(text, glyphs, Length, state, at)
      /\ pc \in {"wrap", "balance", "trim", "measure", "karaoke"} =>
           \A k \in 1 .. Length : InRun(text, glyphs, k)
      /\ pc \in {"reorder", "align", "done"} =>
           SungRight(text, glyphs) /\ \A k \in 1 .. Length : glyphs[k].source \in 1 .. Len(text)
  BY DEF KInv
<1>3. Text' = text
  BY <1>1
<1> HIDE DEF text
<1>4. /\ pc' \in {"parse", "split", "wrap", "balance", "trim", "measure", "karaoke"} =>
           \A k \in 1 .. Length' : TimedGlyph(Text', glyphs', k)
      /\ pc' \in {"wrap", "balance", "trim", "measure", "karaoke"} =>
           \A k \in 1 .. Length' : InRun(Text', glyphs', k)
  BY <1>1, <1>2, <1>3
<1>5. pc' = "parse" => Pending(Text', glyphs', Length', state', at')
  BY <1>1, <1>2, <1>3
<1>6. pc' \in {"reorder", "align", "done"} =>
        /\ SungRight(Text', glyphs')
        /\ \A k \in 1 .. Length' : glyphs'[k].source \in 1 .. Len(Text')
  BY <1>1, <1>2, <1>3
<1> QED BY <1>4, <1>5, <1>6 DEF KInv

LEMMA KInvNext == CInv /\ CInv' /\ GInv /\ KInv /\ [Next]_vars => KInv'
<1> SUFFICES ASSUME CInv, CInv', GInv, KInv, [Next]_vars PROVE KInv'
  OBVIOUS
<1>0. ASSUME pc' = "idle" PROVE KInv'
  BY <1>0 DEF KInv
<1>1. CASE UNCHANGED vars
  BY <1>1, KInvStill DEF vars
<1>2. CASE Begin
  BY <1>2, KInvBegin
<1>3. CASE Block
  BY <1>3, KInvBlock
<1>4. CASE Glyph
  BY <1>4, KInvGlyph
<1>5. CASE GlyphFails
  BY <1>0, <1>5 DEF GlyphFails, GiveUp
<1>6. CASE TextEnd
  <2>1. CASE glyphs = <<>>
    BY <1>0, <1>6, <2>1 DEF TextEnd, GiveUp
  <2>2. CASE glyphs # <<>>
    <3>1. pc = "parse" /\ pc' = "split" /\ UNCHANGED textVars
      BY <1>6, <2>2 DEF TextEnd
    <3> QED BY <3>1, KInvStill
  <2> QED BY <2>1, <2>2
<1>7. CASE Split
  BY <1>7, KInvSplit
<1>8. CASE ShapingFails
  BY <1>0, <1>8 DEF ShapingFails, GiveUp
<1>9. CASE WrapGlyph
  BY <1>9, KInvStill DEF WrapGlyph
<1>10. CASE \E fails \in BOOLEAN : WrapBreak(fails)
  BY <1>10, KInvWrapBreak
<1>11. CASE WrapEnd
  <2>1. pc = "wrap" /\ pc' \in {"trim", "balance"} /\ UNCHANGED textVars
    BY <1>11 DEF WrapEnd
  <2> QED BY <2>1, KInvStill
<1>12. CASE Balance
  BY <1>12, KInvBalance
<1>13. CASE BalanceEnd
  <2>1. pc = "balance" /\ pc' \in {"trim", "balance"} /\ UNCHANGED textVars
    BY <1>13 DEF BalanceEnd
  <2> QED BY <2>1, KInvStill
<1>14. CASE Trim
  BY <1>14, KInvTrim
<1>15. CASE Measure
  BY <1>15, KInvStill DEF Measure
<1>16. CASE Karaoke
  BY <1>16, KInvKaraoke
<1>17. CASE Reorder
  BY <1>17, KInvStill DEF Reorder
<1>18. CASE AlignLines
  BY <1>18, KInvStill DEF AlignLines
<1>19. CASE End
  BY <1>0, <1>19 DEF End
<1> QED
  BY <1>1, <1>2, <1>3, <1>4, <1>5, <1>6, <1>7, <1>8, <1>9, <1>10, <1>11, <1>12, <1>13, <1>14,
     <1>15, <1>16, <1>17, <1>18, <1>19 DEF Next

\* The times of a text, and those that its runs are given, are the same.
LEMMA TimesAreThose ==
  ASSUME CInv, GInv, KInv, pc = "done", ~SetEarly, NEW k \in 1 .. Length
  PROVE  /\ glyphs[k].sung = SungAt(RunStart(k))
         /\ glyphs[k].effect_type = ClockAt(glyphs[RunStart(k)].source).type
<1>1. IsText(Text) /\ Len(Text) \in Nat /\ Length \in Nat /\ Len(glyphs) = Length
  <2>1. n > 0
    BY DEF CInv
  <2> QED BY <2>1, TextIsText DEF IsText, GInv, IsGlyphs, Sequence, Length
<1>2. SungRight(Text, glyphs) /\ \A j \in 1 .. Length : glyphs[j].source \in 1 .. Len(Text)
  BY DEF KInv
<1> DEFINE text == Text
<1>3. \A b \in 1 .. Len(text) : DOMAIN text[b].tags = 1 .. Len(text[b].tags)
  BY <1>1 DEF IsText
<1>4. \A j \in 1 .. Length : Before(glyphs, j) \in Nat /\ SourceBefore(j) = Before(glyphs, j)
  <2>1. ASSUME NEW j \in 1 .. Length PROVE Before(glyphs, j) \in Nat
    <3>1. j # 1 => j - 1 \in 1 .. Length
      BY <1>1
    <3>2. j # 1 => Before(glyphs, j) \in 1 .. Len(text)
      BY <1>2, <3>1 DEF Before
    <3>3. j = 1 => Before(glyphs, j) = 0
      BY DEF Before
    <3> QED BY <1>1, <3>2, <3>3
  <2> QED BY <2>1 DEF Before, SourceBefore
<1> HIDE DEF text
<1>5. ~ Early(text, glyphs)
  <2>1. SUFFICES ASSUME NEW j \in 1 .. Length, ClockOn(text, glyphs[j].source).type = "NONE",
                        SetsIn(text, 1, glyphs[j].source)
                 PROVE  FALSE
    BY <1>1 DEF Early
  <2>2. PICK b \in 1 .. glyphs[j].source : Sets(text[b].tags, Len(text[b].tags))
    BY <2>1 DEF SetsIn
  <2>3. b \in 1 .. Len(text)
    BY <1>1, <1>2, <2>1 DEF text
  <2>4. PICK m \in DOMAIN text[b].tags : text[b].tags[m].name = "kt"
    BY Zenon, <1>3, <2>2, <2>3 DEF Sets
  <2>5. ClockAt(glyphs[j].source).type = "NONE"
    BY Zenon, <2>1, ClockOfText DEF text
  <2> QED BY Zenon, <2>1, <2>2, <2>4, <2>5 DEF SetEarly, text
<1> DEFINE a == RunOf(glyphs, k)
<1>6. RunStart(k) = a /\ a \in 1 .. Length
  <2>1. RunStart(k) = a
    BY Zenon DEF RunStart, RunOf
  <2>2. a \in 1 .. k
    <3>1. k \in Nat \ {0}
      BY <1>1
    <3> QED BY <3>1, RunOfNext
  <2> HIDE DEF a
  <2>3. a \in 1 .. Length
    BY <1>1, <2>2
  <2> QED BY <2>1, <2>3
<1>7. /\ glyphs[k].sung = TimeOf(text, glyphs, a)
      /\ glyphs[k].effect_type = ClockOn(text, glyphs[a].source).type
  BY Zenon, <1>1, <1>2, <1>5 DEF SungRight, text
<1> HIDE DEF a
<1>8. TimesIn(text, Before(glyphs, a) + 1, glyphs[a].source)
        <=> TimedBetween(SourceBefore(a) + 1, glyphs[a].source)
  <2> DEFINE from == Before(glyphs, a) + 1
             till == glyphs[a].source
  <2>1. from = SourceBefore(a) + 1
    BY Zenon, <1>4, <1>6
  <2>2. \A b \in from .. till : b \in 1 .. Len(text)
    <3>1. Before(glyphs, a) \in Nat /\ till \in 1 .. Len(text)
      BY <1>2, <1>4, <1>6 DEF text
    <3> HIDE DEF till
    <3> QED BY <1>1, <3>1 DEF text
  <2>3. SourceBefore(a) + 1 = from
    BY Zenon, <2>1
  <2> HIDE DEF from, till
  <2>4. TimesIn(text, from, till) <=> TimedBetween(from, till)
    BY Zenon, <1>3, <2>2 DEF TimesIn, Times, TimedBetween, text
  <2> QED BY Zenon, <2>3, <2>4 DEF from, till
<1>9. ClockAt(glyphs[a].source) = ClockOn(text, glyphs[a].source)
  BY Zenon, ClockOfText DEF text
<1>10. SungAt(a) = TimeOf(text, glyphs, a)
  BY Zenon, <1>8, <1>9 DEF SungAt, TimeOf
<1> QED BY Zenon, <1>6, <1>7, <1>9, <1>10

\* Every run of a text is sung when its karaoke tags say so, unless they set the
\* clock before there is a syllable (parse_events, split_style_runs,
\* ass_process_karaoke_effects).
THEOREM OnTime == Spec => []KaraokeOnTime
<1> DEFINE Inv == CInv /\ GInv /\ KInv
<1>1. Init => Inv
  <2>1. Init => KInv
    BY DEF Init, KInv
  <2> QED BY <2>1, CInvInit, GInvInit
<1>2. Inv /\ [Next]_vars => Inv'
  <2>1. CInv /\ [Next]_vars => CInv'
    BY CInvNext
  <2>2. CInv /\ GInv /\ [Next]_vars => GInv'
    BY GInvNext
  <2> QED BY <2>1, <2>2, KInvNext
<1>3. Inv => KaraokeOnTime
  BY TimesAreThose DEF KaraokeOnTime
<1> HIDE DEF Inv
<1> QED BY <1>1, <1>2, <1>3, PTL DEF Spec

-----------------------------------------------------------------------------
(* Sums                                                                    *)

Added(p, f, m) == p = [k \in 0 .. m |-> IF k = 0 THEN 0 ELSE p[k - 1] + f[k]]

LEMMA AddedExists ==
  ASSUME NEW f, NEW m \in Nat
  PROVE  \E p : Added(p, f, m)
<1> DEFINE Has(j) == \E p : Added(p, f, j)
           Bad == {j \in Nat : ~ Has(j)}
<1>1. SUFFICES ASSUME Bad # {} PROVE FALSE
  OBVIOUS
<1> HIDE DEF Has
<1>2. PICK j \in Bad : \A k \in Bad : j <= k
  BY <1>1, Smallest
<1>3. j \in Nat /\ ~ Has(j)
  OBVIOUS
<1>4. CASE j = 0
  <2> DEFINE p == [k \in 0 .. 0 |-> 0]
  <2>1. p = [k \in 0 .. 0 |-> IF k = 0 THEN 0 ELSE p[k - 1] + f[k]]
    OBVIOUS
  <2> HIDE DEF p
  <2> QED BY <1>3, <1>4, <2>1 DEF Has, Added
<1>5. CASE j > 0
  <2>1. ~ (j <= j - 1) /\ j - 1 \in Nat
    BY <1>3, <1>5
  <2>2. Has(j - 1)
    BY <1>2, <2>1
  <2>3. PICK p : Added(p, f, j - 1)
    BY <2>2 DEF Has
  <2> DEFINE last == p[j - 1] + f[j]
             q == [k \in 0 .. j |-> IF k = j THEN last ELSE p[k]]
  <2>4. ASSUME NEW k \in 0 .. j
        PROVE  q[k] = IF k = 0 THEN 0 ELSE q[k - 1] + f[k]
    <3> HIDE DEF last
    <3>1. CASE k = j
      <4>1. q[j] = last /\ q[j - 1] = p[j - 1] /\ j # 0
        BY <1>5, <2>1
      <4> QED BY <3>1, <4>1 DEF last
    <3>2. CASE k # j
      <4>1. k \in 0 .. j - 1 /\ q[k] = p[k] /\ (k # 0 => q[k - 1] = p[k - 1])
        BY <3>2, <1>3
      <4>2. p[k] = IF k = 0 THEN 0 ELSE p[k - 1] + f[k]
        BY <2>3, <4>1 DEF Added
      <4> QED BY <4>1, <4>2
    <3> QED BY <3>1, <3>2
  <2>5. q = [k \in 0 .. j |-> q[k]]
    OBVIOUS
  <2> HIDE DEF q
  <2>6. Added(q, f, j)
    BY <2>4, <2>5 DEF Added
  <2> QED BY <1>3, <2>6 DEF Has
<1> QED BY <1>3, <1>4, <1>5

LEMMA SumNext ==
  ASSUME NEW f
  PROVE  /\ SumTo(f, 0) = 0
         /\ \A k \in Nat \ {0} : SumTo(f, k) = SumTo(f, k - 1) + f[k]
<1> DEFINE P(k) == CHOOSE p : Added(p, f, k)
<1>1. \A k \in Nat : Added(P(k), f, k)
  BY AddedExists
<1>2. \A k \in Nat : SumTo(f, k) = P(k)[k]
  BY Zenon DEF SumTo, Added
<1> HIDE DEF P
<1>3. ASSUME NEW m \in Nat
      PROVE  P(m)[0] = 0 /\ \A k \in 1 .. m : P(m)[k] = P(m)[k - 1] + f[k]
  BY <1>1, <1>3 DEF Added
<1>4. ASSUME NEW k \in Nat \ {0}
      PROVE  SumTo(f, k) = SumTo(f, k - 1) + f[k]
  <2>1. k - 1 \in Nat
    BY <1>4
  <2> DEFINE Off == {j \in 0 .. k - 1 : P(k)[j] # P(k - 1)[j]}
  <2>2. Off = {}
    <3>1. SUFFICES ASSUME Off # {} PROVE FALSE
      OBVIOUS
    <3>2. PICK m \in Off : \A j \in Off : m <= j
      <4>1. Off \in SUBSET Nat
        BY <2>1
      <4> QED BY <3>1, <4>1, Smallest
    <3>3. m # 0
      BY <1>3, <2>1
    <3>4. m \in 1 .. k /\ m \in 1 .. k - 1 /\ m - 1 \in 0 .. k - 1 /\ ~ (m <= m - 1)
      BY <2>1, <3>3
    <3>5. P(k)[m - 1] = P(k - 1)[m - 1]
      BY <3>2, <3>4
    <3>6. P(k)[m] = P(k)[m - 1] + f[m]
      BY <1>3, <3>4
    <3>7. P(k - 1)[m] = P(k - 1)[m - 1] + f[m]
      BY <1>3, <2>1, <3>4
    <3> QED BY <3>5, <3>6, <3>7
  <2>3. P(k)[k - 1] = P(k - 1)[k - 1]
    <3>1. k - 1 \in 0 .. k - 1
      BY <2>1
    <3> QED BY <2>2, <3>1
  <2>4. P(k)[k] = P(k)[k - 1] + f[k]
    <3>1. k \in 1 .. k
      BY <1>4
    <3> QED BY <1>3, <1>4, <3>1
  <2>5. SumTo(f, k) = P(k)[k] /\ SumTo(f, k - 1) = P(k - 1)[k - 1]
    BY <1>2, <1>4, <2>1
  <2> QED BY <2>3, <2>4, <2>5
<1>5. SumTo(f, 0) = 0
  BY <1>2, <1>3
<1> QED BY <1>4, <1>5

\* A sum is that of its terms.
LEMMA SumSame ==
  ASSUME NEW f, NEW g, NEW k \in Nat, \A j \in 1 .. k : f[j] = g[j]
  PROVE  SumTo(f, k) = SumTo(g, k)
<1> DEFINE Off == {j \in 0 .. k : SumTo(f, j) # SumTo(g, j)}
<1>1. SUFFICES ASSUME Off # {} PROVE FALSE
  OBVIOUS
<1>2. PICK m \in Off : \A j \in Off : m <= j
  <2>1. Off \in SUBSET Nat
    OBVIOUS
  <2> QED BY <1>1, <2>1, Smallest
<1>3. m # 0
  BY SumNext
<1>4. m \in 1 .. k /\ m \in Nat \ {0} /\ m - 1 \in 0 .. k /\ ~ (m <= m - 1)
  BY <1>3
<1>5. SumTo(f, m - 1) = SumTo(g, m - 1)
  BY <1>2, <1>4
<1>6. SumTo(f, m) = SumTo(f, m - 1) + f[m] /\ SumTo(g, m) = SumTo(g, m - 1) + g[m]
  BY <1>4, SumNext
<1> QED BY <1>4, <1>5, <1>6

LEMMA SumTyped ==
  ASSUME NEW f, NEW k \in Nat, \A j \in 1 .. k : f[j] \in Int
  PROVE  \A j \in 0 .. k : SumTo(f, j) \in Int
<1> DEFINE Off == {j \in 0 .. k : SumTo(f, j) \notin Int}
<1>1. SUFFICES ASSUME Off # {} PROVE FALSE
  OBVIOUS
<1>2. PICK m \in Off : \A j \in Off : m <= j
  <2>1. Off \in SUBSET Nat
    OBVIOUS
  <2> QED BY <1>1, <2>1, Smallest
<1>3. m # 0
  BY SumNext
<1>4. m \in 1 .. k /\ m \in Nat \ {0} /\ m - 1 \in 0 .. k /\ ~ (m <= m - 1)
  BY <1>3
<1>5. SumTo(f, m - 1) \in Int
  BY <1>2, <1>4
<1>6. SumTo(f, m) = SumTo(f, m - 1) + f[m]
  BY <1>4, SumNext
<1> QED BY <1>4, <1>5, <1>6

\* With terms that are not negative, it grows.
LEMMA SumGrows ==
  ASSUME NEW f, NEW k \in Nat, \A j \in 1 .. k : f[j] \in Nat
  PROVE  \A a, b \in 0 .. k : a <= b => SumTo(f, a) <= SumTo(f, b)
<1>0. \A j \in 0 .. k : SumTo(f, j) \in Int
  BY SumTyped
<1> SUFFICES ASSUME NEW a \in 0 .. k
             PROVE  \A b \in 0 .. k : a <= b => SumTo(f, a) <= SumTo(f, b)
  OBVIOUS
<1> DEFINE Off == {b \in a .. k : ~ (SumTo(f, a) <= SumTo(f, b))}
<1>1. SUFFICES ASSUME Off # {} PROVE FALSE
  OBVIOUS
<1>2. PICK m \in Off : \A j \in Off : m <= j
  <2>1. Off \in SUBSET Nat
    OBVIOUS
  <2> QED BY <1>1, <2>1, Smallest
<1>3. m # a
  BY <1>0
<1>4. /\ m \in 1 .. k /\ m \in Nat \ {0} /\ m - 1 \in a .. k /\ m - 1 \in 0 .. k
      /\ ~ (m <= m - 1)
  BY <1>3
<1>5. SumTo(f, a) <= SumTo(f, m - 1)
  BY <1>2, <1>4
<1>6. SumTo(f, m) = SumTo(f, m - 1) + f[m]
  BY <1>4, SumNext
<1>7. SumTo(f, a) \in Int /\ SumTo(f, m - 1) \in Int /\ f[m] \in Nat
  BY <1>0, <1>4
<1> QED BY <1>5, <1>6, <1>7

-----------------------------------------------------------------------------
(* Places of glyphs                                                        *)

\* The blanks
Space(k) == Symbol(k) = " "
Feed(k) == Symbol(k) = "\n"

LEMMA Blanks ==
  /\ \A k : ForceBreak(k) <=> Feed(k)
  /\ \A k : Blank(k) <=> Space(k) \/ Feed(k)
  /\ \A k : ~ (Space(k) /\ Feed(k))
  /\ \A k : ~session.unicode => (AllowBreak(k) <=> Space(k))
  /\ SingleSpaced <=> \A k \in 2 .. Length : ~ (Space(k - 1) /\ Space(k))
<1>1. \A k : ~ (Space(k) /\ Feed(k))
  BY Zenon DEF Space, Feed
<1> QED BY Zenon, <1>1 DEF ForceBreak, Blank, AllowBreak, SingleSpaced, Space, Feed

LEMMA Advances ==
  ASSUME NEW k
  PROVE  /\ Advance(k) \in {0, 1, 2} /\ (~Feed(k) => Advance(k) # 0)
         /\ Ink(k) = Advance(k) \/ (Ink(k) = 0 /\ Advance(k) = 1)
         /\ Space(k) => Advance(k) = 1 /\ Ink(k) = 0
<1>1. Feed(k) => Advance(k) = 0 /\ Ink(k) = 0
  BY Zenon DEF Feed, Advance, Ink
<1>2. Symbol(k) = "drawing" => Advance(k) = 2 /\ Ink(k) = Advance(k)
  BY Zenon DEF Advance, Ink
<1>3. ~Feed(k) /\ Symbol(k) # "drawing" => Advance(k) = 1 /\ (Ink(k) = 0 \/ Ink(k) = Advance(k))
  BY Zenon DEF Feed, Advance, Ink
<1>4. Space(k) => ~Feed(k) /\ Symbol(k) # "drawing" /\ Ink(k) = 0
  BY Zenon DEF Space, Feed, Ink
<1> QED BY <1>1, <1>2, <1>3, <1>4

\* Glyphs stand one after the other.
LEMMA Lefts ==
  ASSUME Length \in Nat
  PROVE  /\ \A k \in 1 .. Length + 1 : Left(k) \in Int
         /\ \A k \in 1 .. Length : Left(k + 1) = Left(k) + Advance(k) /\ Right(k) = Left(k) + Ink(k)
         /\ \A a, b \in 1 .. Length + 1 : a <= b => Left(a) <= Left(b)
<1> DEFINE f == [j \in 1 .. Length |-> Advance(j)]
<1>1. \A j \in 1 .. Length : f[j] = Advance(j) /\ f[j] \in Nat
  <2>1. \A j : Advance(j) \in {0, 1, 2}
    BY Advances
  <2> QED BY <2>1
<1>2. \A k : Left(k) = SumTo(f, k - 1)
  BY Zenon DEF Left
<1> HIDE DEF f
<1>3. \A j \in 1 .. Length : f[j] \in Int
  BY <1>1
<1>4. \A j \in 0 .. Length : SumTo(f, j) \in Int
  BY <1>3, SumTyped
<1>5. \A a, b \in 0 .. Length : a <= b => SumTo(f, a) <= SumTo(f, b)
  BY <1>1, SumGrows
<1>6. ASSUME NEW k \in 1 .. Length + 1 PROVE Left(k) \in Int
  <2>1. k - 1 \in 0 .. Length
    OBVIOUS
  <2> QED BY <1>2, <1>4, <2>1
<1>7. ASSUME NEW k \in 1 .. Length
      PROVE  Left(k + 1) = Left(k) + Advance(k) /\ Right(k) = Left(k) + Ink(k)
  <2>1. k \in Nat \ {0} /\ (k + 1) - 1 = k
    OBVIOUS
  <2>2. SumTo(f, k) = SumTo(f, k - 1) + f[k]
    BY <2>1, SumNext
  <2>3. Left(k + 1) = SumTo(f, k) /\ Left(k) = SumTo(f, k - 1)
    BY <1>2, <2>1
  <2> QED BY <1>1, <2>2, <2>3 DEF Right
<1>8. ASSUME NEW a \in 1 .. Length + 1, NEW b \in 1 .. Length + 1, a <= b
      PROVE  Left(a) <= Left(b)
  <2>1. a - 1 \in 0 .. Length /\ b - 1 \in 0 .. Length /\ a - 1 <= b - 1
    BY <1>8
  <2> QED BY <1>2, <1>5, <2>1
<1> QED BY <1>6, <1>7, <1>8

-----------------------------------------------------------------------------
(* The lines of an event                                                   *)

\* k is in the line that begins with a.
InLine(a, k) ==
  a \in Starts /\ a <= k /\ \A j \in a + 1 .. k : glyphs[j].linebreak = 0

\* What a line has up to k is short enough, or a single word.
Fits(a, k) == Right(k) - Left(a) < session.width \/ \A j \in a .. k - 1 : ~AllowBreak(j)
FitsUpTo(m) ==
  SingleSpaced /\ state.wrap_style # 2 =>
    \A a \in 1 .. Length, k \in 1 .. m : InLine(a, k) /\ ~Blank(k) => Fits(a, k)

\* The marks are right, the first m line feeds having been seen.
MarkedUpTo(m) ==
  \A k \in 2 .. Length :
    /\ glyphs[k].linebreak = 2 <=> Feed(k - 1) /\ k - 1 <= m
    /\ glyphs[k].linebreak = 1 => AllowBreak(k - 1)

AllMarked == MarkedUpTo(Length)
AllFit == FitsUpTo(Length)

\* s1 is the last line, and last_breakable where it may be broken last.
Wrapping ==
  /\ s1 \in Starts /\ s1 <= i /\ i <= Length + 1
  /\ \A k \in s1 + 1 .. Length : glyphs[k].linebreak = 0
  /\ last_breakable # 0 => last_breakable \in s1 .. i - 1 /\ AllowBreak(last_breakable)
  /\ \A k \in s1 .. i - 1 : AllowBreak(k) => k <= last_breakable
  /\ MarkedUpTo(i - 1) /\ FitsUpTo(i - 1)

\* s2 is the line before the one that begins with i.
Balancing ==
  \/ s2 = 0 /\ i = 1
  \/ /\ s2 \in Starts /\ i \in Starts \cup {Length + 1}
     /\ \A k \in s2 + 1 .. i - 1 : glyphs[k].linebreak = 0

\* A line as it was marked: blanks at its edges are not shown, and what is shown
\* begins a run.
IsLine(a, z) ==
  InLine(a, z) /\ z \in 1 .. Length /\ (z = Length \/ glyphs[z + 1].linebreak # 0)
LineTrimmed(a, z) ==
  \A k \in a .. z :
    /\ glyphs[k].skip <=> \/ \A j \in a .. k : Blank(j)
                          \/ \A j \in k .. z : Blank(j)
    /\ ~glyphs[k].skip /\ (\A j \in a .. k - 1 : glyphs[j].skip) => glyphs[k].starts_new_run
TextTrimmed == \A a, z \in 1 .. Length : IsLine(a, z) => LineTrimmed(a, z)

Heights == [m \in 1 .. Len(lines) |-> lines[m].asc + lines[m].desc]
HeightUpTo(l) == SumTo(Heights, l) + (l - 1) * line_spacing
LineFields == {"first", "last", "asc", "desc", "x", "y"}
Measured ==
  /\ Len(lines) = Cardinality(Starts)
  /\ \A l \in 1 .. Len(lines) :
       /\ lines[l] = [f \in LineFields |-> lines[l][f]]
       /\ IsLine(lines[l].first, lines[l].last)
       /\ lines[l].asc \in Int /\ lines[l].desc = lines[l].asc
Stacked == lines[1].asc + lines[Len(lines)].y + lines[Len(lines)].desc = height
InFrame ==
  MaxWidth <= 2 * session.width =>
    \A l \in 1 .. Len(lines) : lines[l].x \in 0 .. 2 * session.width - Width(l)

\* What is not promised: lines given up for want of memory, and the breaks of the
\* Unicode algorithm.
Promised == ~discarded /\ ~session.unicode

Unmarked == \A k \in 1 .. Length : glyphs[k].linebreak = 0
Counts == glyphs[1].linebreak = 0 /\ n_lines = Cardinality(Starts)

LInv ==
  /\ pc \in {"parse", "split"} => Unmarked
  /\ pc \notin {"idle", "parse", "split"} /\ Promised =>
       /\ Counts
       /\ pc = "wrap" => Wrapping
       /\ pc # "wrap" => AllMarked /\ AllFit
       /\ pc = "balance" => Balancing
       /\ pc \in {"measure", "karaoke", "reorder", "align", "done"} => TextTrimmed
       /\ pc \in {"karaoke", "reorder", "align", "done"} => Measured
       /\ pc \in {"karaoke", "reorder"} => height = HeightUpTo(Len(lines))
       /\ pc \in {"align", "done"} => Stacked
       /\ pc = "done" => InFrame

-----------------------------------------------------------------------------
(* A word that moves to the next line                                      *)

LEMMA Rewound ==
  ASSUME NEW a \in Nat, NEW k \in Nat, a <= k
  PROVE  /\ Rewind(a, k) \in a .. k /\ (Rewind(a, k) = a \/ ~Space(Rewind(a, k)))
         /\ \A j \in a .. k : ~Space(j) => j <= Rewind(a, k)
<1> DEFINE R == {a} \cup {j \in a .. k : ~Space(j)}
<1>1. Rewind(a, k) = Max(R)
  BY Zenon DEF Rewind, Space
<1>2. R \in SUBSET (a .. k) /\ a \in R
  OBVIOUS
<1>3. \A j \in R : j = a \/ ~Space(j)
  OBVIOUS
<1>4. \A j \in a .. k : ~Space(j) => j \in R
  OBVIOUS
<1> HIDE DEF R
<1>5. Max(R) \in R /\ \A j \in R : j <= Max(R)
  BY <1>2, MinMaxIn
<1> QED BY <1>1, <1>2, <1>3, <1>4, <1>5

LEMMA WordFound ==
  ASSUME ~session.unicode, NEW a \in Nat, NEW b \in Nat, a < b
  PROVE  /\ WordAfter(a, b) \in a .. Rewind(a, b - 1)
         /\ WordAfter(a, b) = a \/ Space(WordAfter(a, b))
         /\ \A j \in a .. Rewind(a, b - 1) : Space(j) => j <= WordAfter(a, b)
         /\ LastWord(a, b) = IF Space(WordAfter(a, b)) THEN WordAfter(a, b) + 1
                                                       ELSE WordAfter(a, b)
<1> DEFINE r == Rewind(a, b - 1)
           W == {a} \cup {j \in a .. r : AllowBreak(j)}
<1>1. r \in a .. b - 1
  <2>1. b - 1 \in Nat /\ a <= b - 1
    OBVIOUS
  <2> QED BY <2>1, Rewound
<1>2. WordAfter(a, b) = Max(W)
  BY Zenon DEF WordAfter
<1> HIDE DEF r
<1>3. W \in SUBSET (a .. r) /\ a \in W /\ r \in Int
  BY <1>1
<1>4. \A j \in W : j = a \/ Space(j)
  BY Blanks
<1>5. \A j \in a .. r : Space(j) => j \in W
  BY Blanks
<1> HIDE DEF W
<1>6. Max(W) \in W /\ \A j \in W : j <= Max(W)
  <2>1. a \in Int /\ W # {}
    BY <1>3
  <2> QED BY <1>3, <2>1, MinMaxIn
<1>7. LastWord(a, b) = IF Space(WordAfter(a, b)) THEN WordAfter(a, b) + 1 ELSE WordAfter(a, b)
  BY Zenon DEF LastWord, Space
<1> QED BY <1>2, <1>3, <1>4, <1>5, <1>6, <1>7 DEF r

\* It begins within the line, after a blank.
LEMMA WordBegins ==
  ASSUME Length \in Nat, ~session.unicode, NEW a \in 1 .. Length, NEW b \in 1 .. Length, a < b,
         NEW c \in b + 1 .. Length + 1, Space(b - 1), Better(a, b, c)
  PROVE  /\ LastWord(a, b) \in a + 1 .. b - 1 /\ Space(LastWord(a, b) - 1)
         /\ WordAfter(a, b) = LastWord(a, b) - 1
<1> DEFINE r == Rewind(a, b - 1)
           v == WordAfter(a, b)
           w == LastWord(a, b)
<1>1. a \in Nat /\ b \in Nat /\ b - 1 \in Nat /\ a <= b - 1
  OBVIOUS
<1>2. r \in a .. b - 1 /\ (r = a \/ ~Space(r))
  BY <1>1, Rewound
<1>3. /\ v \in a .. r /\ (v = a \/ Space(v))
      /\ w = IF Space(v) THEN v + 1 ELSE v
  BY <1>1, WordFound
<1>4. w # a
  BY Zenon DEF Better
<1>5. Space(v) /\ w = v + 1
  BY <1>3, <1>4
<1>6. v # b - 1
  <2> SUFFICES ASSUME v = b - 1 PROVE FALSE
    OBVIOUS
  <2>1. r = b - 1 /\ r = a /\ v = a /\ w = b
    BY <1>1, <1>2, <1>3, <1>5
  <2> DEFINE l1 == Right(Rewind(a, b - 1)) - Left(a)
             l2 == Right(Rewind(b, c - 1)) - Left(b)
             l1_new == Right(Rewind(a, v)) - Left(a)
             l2_new == Right(Rewind(b, c - 1)) - Left(w)
  <2>2. Apart(l1_new, l2_new) < Apart(l1, l2)
    BY Zenon DEF Better
  <2>3. Rewind(a, v) = Rewind(a, b - 1)
    BY Zenon, <2>1
  <2>4. l1_new = l1 /\ l2_new = l2
    BY Zenon, <2>1, <2>3
  <2>5. l1 \in Int /\ l2 \in Int
    <3>1. Rewind(b, c - 1) \in b .. c - 1
      <4>1. c - 1 \in Nat /\ b <= c - 1
        OBVIOUS
      <4> QED BY <1>1, <4>1, Rewound
    <3>2. \A k \in 1 .. Length : Left(k) \in Int /\ Right(k) \in Int
      <4>1. \A k : Ink(k) \in Int
        <5>1. \A k : Ink(k) = Advance(k) \/ Ink(k) = 0
          BY Advances
        <5>2. \A k : Advance(k) \in {0, 1, 2}
          BY Advances
        <5> QED BY <5>1, <5>2
      <4> QED BY <4>1, Lefts
    <3>3. Rewind(b, c - 1) \in 1 .. Length /\ Rewind(a, b - 1) \in 1 .. Length
      BY <1>2, <3>1
    <3> QED BY <3>2, <3>3
  <2> HIDE DEF l1, l2, l1_new, l2_new
  <2>6. Apart(l1, l2) \in Int
    BY <2>5 DEF Apart
  <2> QED BY <2>2, <2>4, <2>6
<1> HIDE DEF r, v, w
<1>7. w \in a + 1 .. b - 1 /\ w - 1 = v
  BY <1>2, <1>3, <1>5, <1>6
<1> QED BY <1>5, <1>7 DEF v, w

\* What is left of the first line and what is right of it, when both are written
\* with one blank between words.
LEMMA Nearer ==
  ASSUME NEW x \in Int, NEW y \in Int, NEW p \in Int, NEW q \in Int,
         NEW d \in 1 .. 2, NEW e \in 1 .. 2,
         x - y >= 1, q - p = x - y + d - e, Apart(y, q) < Apart(x, p)
  PROVE  q <= x
BY DEF Apart

LEMMA RightGrows ==
  ASSUME Length \in Nat
  PROVE  /\ \A k \in 1 .. Length : Right(k) \in Int /\ Left(k) <= Right(k) /\ Right(k) <= Left(k + 1)
         /\ \A k, m \in 1 .. Length : k <= m => Right(k) <= Right(m)
<1>1. ASSUME NEW k \in 1 .. Length
      PROVE  Right(k) \in Int /\ Left(k) <= Right(k) /\ Right(k) <= Left(k + 1)
  <2>1. Advance(k) \in {0, 1, 2} /\ (Ink(k) = Advance(k) \/ (Ink(k) = 0 /\ Advance(k) = 1))
    BY Advances
  <2>2. /\ Left(k) \in Int /\ Left(k + 1) = Left(k) + Advance(k) /\ Right(k) = Left(k) + Ink(k)
    BY Lefts
  <2> QED BY <2>1, <2>2
<1>2. ASSUME NEW k \in 1 .. Length, NEW m \in 1 .. Length, k <= m
      PROVE  Right(k) <= Right(m)
  <2>1. CASE k = m
    BY <1>1, <2>1
  <2>2. CASE k # m
    <3>1. k + 1 \in 1 .. Length + 1 /\ m \in 1 .. Length + 1 /\ k + 1 <= m
      BY <1>2, <2>2
    <3>2. Left(k + 1) <= Left(m) /\ Left(k + 1) \in Int /\ Left(m) \in Int
      BY <3>1, Lefts
    <3> QED BY <1>1, <3>2
  <2> QED BY <2>1, <2>2
<1> QED BY <1>1, <1>2

\* The blank after a word: the next begins one or two units after its ink.
LEMMA AfterWord ==
  ASSUME Length \in Nat, NEW k \in 1 .. Length, k < Length, Space(k + 1), ~Feed(k)
  PROVE  \E d \in 1 .. 2 : Left((k + 1) + 1) = Right(k) + d
<1>1. k + 1 \in 1 .. Length
  OBVIOUS
<1>2. /\ Left(k) \in Int /\ Left(k + 1) = Left(k) + Advance(k) /\ Right(k) = Left(k) + Ink(k)
      /\ Left((k + 1) + 1) = Left(k + 1) + Advance(k + 1)
  BY <1>1, Lefts
<1>3. /\ Advance(k) \in {0, 1, 2} /\ (Ink(k) = Advance(k) \/ (Ink(k) = 0 /\ Advance(k) = 1))
      /\ Advance(k + 1) = 1
  BY Advances
<1>4. CASE Ink(k) = Advance(k)
  <2>1. Left((k + 1) + 1) = Right(k) + 1
    BY <1>2, <1>3, <1>4
  <2> QED BY <2>1
<1>5. CASE Ink(k) = 0 /\ Advance(k) = 1
  <2>1. Left((k + 1) + 1) = Right(k) + 2
    BY <1>2, <1>3, <1>5
  <2> QED BY <2>1
<1> QED BY <1>3, <1>4, <1>5

\* The second line, with the word, is not longer than the first one was without.
LEMMA WordFits ==
  ASSUME Length \in Nat, ~session.unicode, SingleSpaced, session.width \in Int,
         NEW a \in 1 .. Length, NEW b \in 1 .. Length, a < b,
         NEW c \in b + 1 .. Length + 1, Space(b - 1), Better(a, b, c),
         \A k \in a .. b - 1 : ~Feed(k),
         \A k \in a .. b - 1 : ~Blank(k) => Fits(a, k)
  PROVE  \A k \in LastWord(a, b) .. c - 1 :
           ~Blank(k) => Right(k) - Left(LastWord(a, b)) < session.width
<1> DEFINE r == Rewind(a, b - 1)
           w == LastWord(a, b)
           v == WordAfter(a, b)
           rn == Rewind(a, v)
           r2 == Rewind(b, c - 1)
<1>1. a \in Nat /\ b \in Nat /\ b - 1 \in Nat /\ a <= b - 1 /\ c - 1 \in Nat /\ b <= c - 1
  OBVIOUS
<1>2. /\ r \in a .. b - 1 /\ (r = a \/ ~Space(r))
      /\ \A j \in a .. b - 1 : ~Space(j) => j <= r
  BY <1>1, Rewound
<1>3. w \in a + 1 .. b - 1 /\ v = w - 1 /\ Space(v)
  <2>1. WordAfter(a, b) = LastWord(a, b) - 1 /\ Space(LastWord(a, b) - 1)
    BY WordBegins
  <2>2. w \in a + 1 .. b - 1
    BY WordBegins
  <2> QED BY <2>1, <2>2
<1>4. v \in a .. r
  BY <1>1, WordFound
<1>5. \A k \in 2 .. Length : ~ (Space(k - 1) /\ Space(k))
  BY Blanks
<1>6. r # a /\ ~Space(r)
  <2> SUFFICES ASSUME r = a PROVE FALSE
    BY <1>2
  <2>1. v = a /\ w = a + 1 /\ a + 1 \in a .. b - 1
    BY <1>3, <1>4
  <2>2. Space(a + 1)
    BY <1>2, <2>1
  <2>3. a + 1 \in 2 .. Length /\ (a + 1) - 1 = a
    BY <2>1
  <2>4. ~ (Space((a + 1) - 1) /\ Space(a + 1))
    BY <1>5, <2>3
  <2> QED BY <1>3, <2>1, <2>2, <2>3, <2>4
<1>7. v < r /\ w <= r
  <2>1. v # r
    BY Zenon, <1>3, <1>6
  <2> QED BY <1>2, <1>3, <1>4, <2>1
<1>8. Right(r) - Left(a) < session.width
  <2>1. ~Blank(r)
    BY <1>2, <1>6, Blanks
  <2>2. Fits(a, r)
    BY <1>2, <2>1
  <2>3. AllowBreak(v)
    BY <1>3, Blanks
  <2>4. v \in a .. r - 1
    BY <1>2, <1>4, <1>7
  <2> QED BY <2>2, <2>3, <2>4 DEF Fits
<1>9. \A k \in 1 .. Length : /\ Left(k) \in Int /\ Right(k) \in Int
                             /\ Left(k) <= Right(k) /\ Right(k) <= Left(k + 1)
  BY Lefts, RightGrows
<1>10. \E e \in 1 .. 2 : Left(w) = Right(rn) + e
  <2>1. v \in Nat /\ a <= v /\ v \in 1 .. Length /\ w = v + 1
    BY <1>3, <1>4
  <2>2. /\ rn \in a .. v /\ (rn = a \/ ~Space(rn))
        /\ \A j \in a .. v : ~Space(j) => j <= rn
    BY <1>1, <2>1, Rewound
  <2>3. CASE v = a
    <3>1. rn = v
      BY <2>2, <2>3
    <3>2. Left(v + 1) = Left(v) + Advance(v) /\ Right(v) = Left(v) + Ink(v) /\ Left(v) \in Int
      BY <2>1, Lefts
    <3>3. Advance(v) = 1 /\ Ink(v) = 0
      BY <1>3, Advances
    <3>4. Left(w) = Right(rn) + 1
      BY <2>1, <3>1, <3>2, <3>3
    <3> QED BY <3>4
  <2>4. CASE v # a
    <3>1. v - 1 \in a .. v /\ v - 1 \in 1 .. Length /\ v - 1 < Length /\ (v - 1) + 1 = v
          /\ v \in 2 .. Length
      BY <2>1, <2>4
    <3>2. ~Space(v - 1)
      BY <1>3, <1>5, <3>1
    <3>3. rn # v
      BY <1>3, <2>2, <2>4
    <3>4. rn = v - 1
      BY <2>2, <3>1, <3>2, <3>3
    <3>5. ~Feed(v - 1)
      BY <1>3, <3>1
    <3>6. Space((v - 1) + 1)
      BY <1>3, <3>1
    <3>7. PICK e \in 1 .. 2 : Left(((v - 1) + 1) + 1) = Right(v - 1) + e
      BY <3>1, <3>5, <3>6, AfterWord
    <3>8. Left(w) = Right(rn) + e
      BY <2>1, <3>1, <3>4, <3>7
    <3> QED BY <3>8
  <2> QED BY <2>3, <2>4
<1>11. \E d \in 1 .. 2 : Left(b) = Right(r) + d
  <2>1. r # b - 1
    BY <1>6
  <2>2. r + 1 = b - 1
    <3>1. b - 1 \in 2 .. Length /\ (b - 1) - 1 \in a .. b - 1
      BY <1>2, <1>6, <2>1
    <3>2. ~Space((b - 1) - 1)
      BY <1>5, <3>1
    <3>3. (b - 1) - 1 <= r
      BY <1>2, <3>1, <3>2
    <3> QED BY <1>2, <2>1, <3>3
  <2>3. r \in 1 .. Length /\ r < Length /\ Space(r + 1) /\ ~Feed(r) /\ (r + 1) + 1 = b
    BY <1>2, <2>2
  <2>4. PICK d \in 1 .. 2 : Left((r + 1) + 1) = Right(r) + d
    BY <2>3, AfterWord
  <2>5. Left(b) = Right(r) + d
    BY <2>3, <2>4
  <2> QED BY <2>5
<1>12. r2 \in b .. c - 1 /\ \A j \in b .. c - 1 : ~Space(j) => j <= r2
  BY <1>1, Rewound
<1> DEFINE x == Right(r) - Left(a)
           y == Right(rn) - Left(a)
           p == Right(r2) - Left(b)
           q == Right(r2) - Left(w)
<1>13. Apart(y, q) < Apart(x, p)
  BY Zenon DEF Better
<1>14. rn \in 1 .. Length /\ r \in 1 .. Length /\ r2 \in 1 .. Length /\ w \in 1 .. Length
  <2>1. v \in Nat /\ a <= v
    BY <1>4
  <2>2. rn \in a .. v
    BY <1>1, <2>1, Rewound
  <2> HIDE DEF r, rn, r2, w, v
  <2> QED BY <1>2, <1>3, <1>12, <2>2
<1> HIDE DEF r, rn, r2, w, v
<1>15. PICK e \in 1 .. 2 : Left(w) = Right(rn) + e
  BY <1>10
<1>16. PICK d \in 1 .. 2 : Left(b) = Right(r) + d
  BY <1>11
<1>17. /\ Left(a) \in Int /\ Left(b) \in Int /\ Left(w) \in Int /\ Right(r) \in Int
       /\ Right(rn) \in Int /\ Right(r2) \in Int /\ Left(w) <= Left(r) /\ Left(r) <= Right(r)
       /\ Left(a) <= Left(w) /\ Left(r) \in Int
  <2>1. /\ w \in 1 .. Length + 1 /\ r \in 1 .. Length + 1 /\ a \in 1 .. Length + 1
        /\ w <= r /\ a <= w
    BY <1>3, <1>7, <1>14
  <2>2. Left(w) <= Left(r) /\ Left(a) <= Left(w)
    BY <2>1, Lefts
  <2> QED BY <1>9, <1>14, <2>2
<1>18. q <= x
  <2>1. x - y >= 1 /\ q - p = (x - y) + d - e
    BY <1>15, <1>16, <1>17
  <2>2. x \in Int /\ y \in Int /\ p \in Int /\ q \in Int
    BY <1>17
  <2> HIDE DEF x, y, p, q
  <2> QED BY <1>13, <2>1, <2>2, Nearer
<1> SUFFICES ASSUME NEW k \in w .. c - 1, ~Blank(k)
             PROVE  Right(k) - Left(w) < session.width
  BY DEF w
<1>19. k \in 1 .. Length /\ ~Space(k) /\ Right(k) \in Int
  <2>1. k \in 1 .. Length
    BY <1>3
  <2> QED BY <1>9, <2>1, Blanks
<1>20. CASE k < b
  <2>1. k \in a .. b - 1
    BY <1>3, <1>20
  <2>2. k <= r
    BY <1>2, <1>19, <2>1
  <2>3. Right(k) <= Right(r)
    BY <1>14, <1>19, <2>2, RightGrows
  <2> QED BY <1>8, <1>17, <1>19, <2>3
<1>21. CASE k >= b
  <2>1. k \in b .. c - 1
    BY <1>19, <1>21
  <2>2. k <= r2
    BY <1>12, <1>19, <2>1
  <2>3. Right(k) <= Right(r2)
    BY <1>14, <1>19, <2>2, RightGrows
  <2>4. Right(r2) - Left(w) <= Right(r) - Left(a)
    BY <1>18
  <2> QED BY <1>8, <1>17, <1>19, <2>3, <2>4
<1> QED BY <1>19, <1>20, <1>21

-----------------------------------------------------------------------------
(* Steps that leave the text, or the marks, as they are                    *)

LEMMA TextKept ==
  ASSUME Length \in Nat, Length' = Length, session' = session,
         \A k \in 1 .. Length : glyphs'[k].symbol = glyphs[k].symbol
  PROVE  /\ \A k \in 1 .. Length : /\ Space(k)' <=> Space(k)
                                   /\ Feed(k)' <=> Feed(k)
                                   /\ Blank(k)' <=> Blank(k)
                                   /\ AllowBreak(k)' <=> AllowBreak(k)
                                   /\ Advance(k)' = Advance(k)
                                   /\ Right(k)' = Right(k)
         /\ \A k \in 1 .. Length + 1 : Left(k)' = Left(k)
         /\ SingleSpaced' <=> SingleSpaced
<1>1. \A k \in 1 .. Length : Symbol(k)' = Symbol(k)
  BY Zenon DEF Symbol
<1>2. ASSUME NEW k \in 1 .. Length
      PROVE  /\ Space(k)' <=> Space(k)
             /\ Feed(k)' <=> Feed(k)
             /\ Blank(k)' <=> Blank(k)
             /\ Advance(k)' = Advance(k) /\ Ink(k)' = Ink(k)
  <2>1. Symbol(k)' = Symbol(k)
    BY <1>1
  <2>2. (Space(k)' <=> Space(k)) /\ (Feed(k)' <=> Feed(k)) /\ (Blank(k)' <=> Blank(k))
    BY Zenon, <2>1 DEF Space, Feed, Blank
  <2>3. Advance(k)' = Advance(k)
    BY Zenon, <2>1 DEF Advance
  <2>4. Ink(k)' = Ink(k)
    BY Zenon, <2>1, <2>3 DEF Ink
  <2> QED BY <2>2, <2>3, <2>4
<1>3. ASSUME NEW k \in 1 .. Length PROVE AllowBreak(k)' <=> AllowBreak(k)
  <2>1. k < Length => k + 1 \in 1 .. Length
    BY <1>3
  <2>2. Symbol(k)' = Symbol(k) /\ (k < Length => Symbol(k + 1)' = Symbol(k + 1))
    BY <1>1, <2>1
  <2> QED BY Zenon, <2>2 DEF AllowBreak
<1>4. ASSUME NEW k \in 1 .. Length + 1 PROVE Left(k)' = Left(k)
  <2> DEFINE f == [j \in 1 .. Length |-> Advance(j)]
             g == [j \in 1 .. Length' |-> Advance(j)']
  <2>1. Left(k) = SumTo(f, k - 1) /\ Left(k)' = SumTo(g, k - 1)
    BY Zenon DEF Left
  <2>2. k - 1 \in Nat
    OBVIOUS
  <2>3. \A j \in 1 .. k - 1 : f[j] = g[j]
    <3>1. ASSUME NEW j \in 1 .. k - 1 PROVE f[j] = g[j]
      <4>1. j \in 1 .. Length /\ j \in 1 .. Length'
        OBVIOUS
      <4>2. Advance(j)' = Advance(j)
        BY <1>2, <4>1
      <4> QED BY Zenon, <4>1, <4>2
    <3> QED BY <3>1
  <2> HIDE DEF f, g
  <2> QED BY <2>1, <2>2, <2>3, SumSame
<1>5. ASSUME NEW k \in 1 .. Length PROVE Right(k)' = Right(k)
  <2>1. k \in 1 .. Length + 1
    OBVIOUS
  <2>2. Left(k)' = Left(k) /\ Ink(k)' = Ink(k)
    BY <1>2, <1>4, <2>1
  <2> QED BY Zenon, <2>2 DEF Right
<1>6. SingleSpaced' <=> SingleSpaced
  <2>1. \A k \in 2 .. Length : (Symbol(k - 1)' = Symbol(k - 1)) /\ Symbol(k)' = Symbol(k)
    <3>1. ASSUME NEW k \in 2 .. Length PROVE Symbol(k - 1)' = Symbol(k - 1) /\ Symbol(k)' = Symbol(k)
      <4>1. k - 1 \in 1 .. Length /\ k \in 1 .. Length
        OBVIOUS
      <4> QED BY <1>1, <4>1
    <3> QED BY <3>1
  <2> QED BY Zenon, <2>1 DEF SingleSpaced
<1> QED BY <1>2, <1>3, <1>4, <1>5, <1>6

\* The marks at which lines begin
LEMMA StartsIn ==
  ASSUME Length \in Nat
  PROVE  /\ \A k : k \in Starts <=> k = 1 \/ (k \in 1 .. Length /\ glyphs[k].linebreak # 0)
         /\ Length > 0 => Starts \in SUBSET (1 .. Length)
BY DEF Starts, Breakings

LEMMA MarksKept ==
  ASSUME Length \in Nat, Length > 0, Length' = Length, session' = session, state' = state,
         \A k \in 1 .. Length : glyphs'[k].symbol = glyphs[k].symbol,
         \A k \in 1 .. Length : glyphs'[k].linebreak = glyphs[k].linebreak
  PROVE  /\ Starts' = Starts
         /\ \A a, k \in 1 .. Length : InLine(a, k)' <=> InLine(a, k)
         /\ \A a, k \in 1 .. Length : IsLine(a, k)' <=> IsLine(a, k)
         /\ AllMarked => AllMarked'
         /\ AllFit => AllFit'
         /\ n_lines' = n_lines /\ Counts => Counts'
<1>1. Starts' = Starts
  BY DEF Starts, Breakings
<1>2. ASSUME NEW a \in 1 .. Length, NEW k \in 1 .. Length
      PROVE  InLine(a, k)' <=> InLine(a, k)
  <2>1. \A j \in a + 1 .. k : glyphs'[j].linebreak = glyphs[j].linebreak
    OBVIOUS
  <2> QED BY Zenon, <1>1, <2>1 DEF InLine
<1>3. ASSUME NEW a \in 1 .. Length, NEW z \in 1 .. Length
      PROVE  IsLine(a, z)' <=> IsLine(a, z)
  <2>1. z # Length => glyphs'[z + 1].linebreak = glyphs[z + 1].linebreak
    OBVIOUS
  <2> QED BY Zenon, <1>2, <2>1 DEF IsLine
<1>4. ASSUME AllMarked PROVE AllMarked'
  <2>1. ASSUME NEW k \in 2 .. Length
        PROVE  /\ glyphs'[k].linebreak = 2 <=> Feed(k - 1)' /\ k - 1 <= Length
               /\ glyphs'[k].linebreak = 1 => AllowBreak(k - 1)'
    <3>1. k \in 1 .. Length /\ k - 1 \in 1 .. Length
      OBVIOUS
    <3>2. (Feed(k - 1)' <=> Feed(k - 1)) /\ (AllowBreak(k - 1)' <=> AllowBreak(k - 1))
      BY <3>1, TextKept
    <3>3. /\ glyphs[k].linebreak = 2 <=> Feed(k - 1) /\ k - 1 <= Length
          /\ glyphs[k].linebreak = 1 => AllowBreak(k - 1)
      BY <1>4 DEF AllMarked, MarkedUpTo
    <3> QED BY <3>1, <3>2, <3>3
  <2> QED BY <2>1 DEF AllMarked, MarkedUpTo
<1>5. ASSUME AllFit PROVE AllFit'
  <2> SUFFICES ASSUME SingleSpaced', state'.wrap_style # 2,
                      NEW a \in 1 .. Length, NEW k \in 1 .. Length, InLine(a, k)', ~Blank(k)'
               PROVE  Fits(a, k)'
    BY DEF AllFit, FitsUpTo
  <2>1. SingleSpaced /\ state.wrap_style # 2 /\ ~Blank(k)
    BY TextKept
  <2>2. InLine(a, k)
    BY <1>2
  <2>3. Fits(a, k)
    BY <1>5, <2>1, <2>2 DEF AllFit, FitsUpTo
  <2>4. Right(k)' = Right(k) /\ Left(a)' = Left(a)
    <3>1. a \in 1 .. Length + 1
      OBVIOUS
    <3> QED BY <3>1, TextKept
  <2>5. \A j \in a .. k - 1 : AllowBreak(j)' <=> AllowBreak(j)
    <3>1. \A j \in a .. k - 1 : j \in 1 .. Length
      OBVIOUS
    <3> QED BY <3>1, TextKept
  <2> QED BY <2>3, <2>4, <2>5 DEF Fits
<1>6. n_lines' = n_lines /\ Counts => Counts'
  <2>1. 1 \in 1 .. Length
    OBVIOUS
  <2> QED BY <1>1, <2>1 DEF Counts
<1> QED BY <1>1, <1>2, <1>3, <1>4, <1>5, <1>6

-----------------------------------------------------------------------------
(* Font sizes and alignments are numbers                                   *)

Sized(c) ==
  /\ c.look["font_size"] \in Int
  /\ c.style["FontSize"] \in Int /\ c.style["Alignment"] \in Int /\ c.alignment \in Int
  /\ c.event.Style \in DOMAIN Styles

LEMMA ResetSized ==
  ASSUME NEW c, Context(c), Sized(c), NEW s \in DOMAIN Styles
  PROVE  /\ Sized(Reset(c, Styles[s])) /\ Reset(c, Styles[s]).event = c.event
         /\ Reset(c, Styles[s]).style["Alignment"] \in Int
<1> DEFINE style == StyleFor(c, Styles[s])
           x == Reset(c, Styles[s])
<1>1. style["FontSize"] \in Int /\ style["Alignment"] \in Int
  BY StylesAssumption DEF StyleFor
<1>2. /\ x.style = style /\ x.look = LookOf(style) /\ x.alignment = c.alignment
      /\ x.event = c.event
  BY DEF Reset, Context, Fields
<1> HIDE DEF style, x
<1>3. LookOf(style)["font_size"] = style["FontSize"]
  BY DEF LookOf, LookFields, StyleField
<1> QED BY <1>1, <1>2, <1>3 DEF Sized, x

LEMMA AnimateSized ==
  ASSUME NEW c, NEW t, Context(c), Sized(c), t.args \in Seq(Int), NEW pwr \in 0 .. 2,
         t.name \in DOMAIN Animates
  PROVE  Sized(Animate(c, t, pwr))
<1> DEFINE x == Animate(c, t, pwr)
           old == c.look["font_size"]
           size == x.look["font_size"]
<1>1. /\ x.style = c.style /\ x.alignment = c.alignment /\ x.event = c.event
  BY DEF Animate, Context, Fields
<1>2. old \in Int /\ Fallback(c, "font_size") \in Int
  BY DEF Sized, Fallback, StyleField
<1>3. size \in Int
  <2>1. CASE "font_size" \notin Animates[t.name]
    <3>1. size = old
      BY <2>1 DEF Animate, Context, Fields, LookFields, StyleField
    <3> QED BY <1>2, <3>1
  <2>2. CASE "font_size" \in Animates[t.name]
    <3>1. t.name \in {"fs", "fsrel"}
      BY <2>2 DEF Animates
    <3> DEFINE v == Clamped(t.name, Moved(t.name, old, t.args[1], pwr))
    <3>2. size \in {Fallback(c, "font_size"), v} /\ (t.args = <<>> => size = Fallback(c, "font_size"))
      BY <2>2, <3>1 DEF Animate, Context, Fields, LookFields, StyleField
    <3>3. CASE t.args # <<>>
      <4>1. t.args[1] \in Int
        BY <3>3
      <4> DEFINE new == t.args[1]
      <4>2. v = Moved(t.name, old, new, pwr)
        BY <3>1 DEF Clamped
      <4> HIDE DEF old, v
      <4>3. Moved(t.name, old, new, pwr) \in Int
        <5>1. pwr \in {0, 1, 2} /\ old \in Int /\ new \in Int
          BY <1>2, <4>1
        <5> HIDE DEF new
        <5>2. Mix(old, new, pwr) \in Int
          BY <5>1 DEF Mix, Whole
        <5>3. (old * (10 * Whole + pwr * new)) \div (10 * Whole) \in Int
          <6> DEFINE m == 10 * Whole + pwr * new
          <6>1. m \in Int
            BY <5>1 DEF Whole
          <6> HIDE DEF m
          <6>2. old * m \in Int
            BY <5>1, <6>1
          <6>3. (old * m) \div 20 \in Int
            BY <6>2
          <6>4. 10 * Whole = 20
            BY DEF Whole
          <6> QED BY <6>3, <6>4 DEF m
        <5> QED BY Zenon, <5>2, <5>3 DEF Moved
      <4> QED BY <1>2, <3>2, <4>2, <4>3
    <3> QED BY <1>2, <3>2, <3>3
  <2> QED BY <2>1, <2>2
<1> HIDE DEF x
<1> QED BY <1>1, <1>3 DEF Sized, x

LEMMA ApplySized ==
  ASSUME NEW c, NEW t, Context(c), Sized(c), t.args \in Seq(Int), NEW pwr \in 0 .. 2
  PROVE  Sized(Apply(c, t, pwr))
<1> DEFINE x == Apply(c, t, pwr)
<1>1. CASE t.name \in DOMAIN Animates
  <2>1. x = Animate(c, t, pwr)
    BY <1>1 DEF Apply, Animates, Switches, Effects
  <2> QED BY <1>1, <2>1, AnimateSized
<1>2. CASE t.name \in {"an", "a"}
  <2>1. x = Align(c, t)
    BY <1>2 DEF Apply, Animates, Switches, Effects
  <2>2. ValueOf(t) \in Int
    BY DEF ValueOf
  <2>3. c.alignment \in Int /\ c.style["Alignment"] \in Int
    BY DEF Sized
  <2>4. Align(c, t).alignment \in Int
    <3> DEFINE v == ValueOf(t)
               align == IF t.name = "an" THEN Numpad(v) ELSE IF v % 4 = 0 THEN 5 ELSE v
    <3>1. align \in Int
      <4>1. v \in Int
        BY <2>2
      <4> HIDE DEF v
      <4>2. Numpad(v) \in Int
        BY <4>1 DEF Numpad
      <4> QED BY <4>1, <4>2
    <3>2. Align(c, t).alignment \in {c.alignment, align, c.style["Alignment"]}
      <4> HIDE DEF align
      <4>1. /\ c = [f \in Fields |-> c[f]] /\ c.style.Alignment = c.style["Alignment"]
        BY DEF Context
      <4>2. \/ Align(c, t) = c
            \/ \E e \in {align, c.style["Alignment"]} :
                 Align(c, t) = [c EXCEPT !.parsed_tags = @ \cup {"A"}, !.alignment = e]
        BY DEF Align, align
      <4> QED BY <4>1, <4>2 DEF Fields
    <3> HIDE DEF align
    <3> QED BY <2>3, <3>1, <3>2
  <2>5. /\ Align(c, t).look = c.look /\ Align(c, t).style = c.style
        /\ Align(c, t).event = c.event
    BY DEF Align, Context, Fields
  <2> QED BY <2>1, <2>4, <2>5 DEF Sized
<1>3. CASE t.name = "r"
  <2> DEFINE s == IF t.args # <<>> /\ t.args[1] \in DOMAIN Styles THEN t.args[1]
                                                                 ELSE c.event.Style
  <2>1. s \in DOMAIN Styles
    BY DEF Sized
  <2>2. x = Reset(c, Styles[s])
    BY <1>3 DEF Apply, Animates, Switches, Effects, ResetTag
  <2> HIDE DEF s
  <2> QED BY <2>1, <2>2, ResetSized
<1>4. CASE t.name \in DOMAIN Switches
  <2>1. x = Switch(c, t)
    BY <1>4 DEF Apply, Animates, Switches, Effects
  <2>2. Switches[t.name] # "font_size"
    BY <1>4 DEF Switches
  <2>3. /\ x.style = c.style /\ x.alignment = c.alignment /\ x.event = c.event
        /\ x.look["font_size"] = c.look["font_size"]
    BY <2>1, <2>2 DEF Switch, Context, Fields, LookFields, StyleField
  <2> QED BY <2>3 DEF Sized
<1>5. CASE t.name \notin DOMAIN Animates \cup DOMAIN Switches \cup {"an", "a", "r"}
  <2>1. /\ x.look = c.look /\ x.style = c.style /\ x.alignment = c.alignment
        /\ x.event = c.event
    BY <1>5 DEF Apply, Context, Fields, Position, Origin, Fade,
                Clip, Syllable, SetClock, DrawingScale, BaselineOffset, Wrap
  <2> QED BY <2>1 DEF Sized
<1> QED BY <1>1, <1>2, <1>3, <1>4, <1>5

LEMMA NextTagSized ==
  ASSUME NEW s, NEW t, Context(s.ctx), Sized(s.ctx), s.pwr \in 0 .. 2, t.args \in Seq(Int)
  PROVE  Context(NextTag(s, t).ctx) /\ Sized(NextTag(s, t).ctx) /\ NextTag(s, t).pwr \in 0 .. 2
<1>1. NextTag(s, t).ctx = Apply(s.ctx, t, s.pwr)
  BY NextTagApplies
<1>2. Sized(Apply(s.ctx, t, s.pwr))
  <2> DEFINE c == s.ctx
             pwr == s.pwr
  <2>1. Context(c) /\ Sized(c) /\ pwr \in 0 .. 2
    OBVIOUS
  <2> HIDE DEF c, pwr
  <2>2. Sized(Apply(c, t, pwr))
    BY <2>1, ApplySized
  <2> QED BY <2>2 DEF c, pwr
<1>3. Context(Apply(s.ctx, t, s.pwr))
  <2>1. Alike(s.ctx, s.ctx)
    BY DEF Alike
  <2>2. Alike(Apply(s.ctx, t, s.pwr), Apply(s.ctx, t, s.pwr))
    BY <2>1, ApplyAlike
  <2> QED BY <2>2 DEF Alike
<1>4. Progress(s.ctx, t) \in {0, 1, 2}
  BY DEF Progress, Whole
<1>5. NextTag(s, t).pwr \in {Progress(s.ctx, t), s.pwr, Whole}
  <2> DEFINE x == Apply(s.ctx, t, s.pwr)
             takesOver == t.name = "t" /\ (s.nested \/ t.opens)
             pwr == IF takesOver THEN Progress(s.ctx, t) ELSE s.pwr
             nested == s.nested \/ takesOver
             next == [ctx |-> x, pwr |-> pwr, nested |-> nested]
  <2>1. NextTag(s, t) = IF s.nested /\ t.paren
                          THEN [next EXCEPT !.pwr = Whole, !.nested = FALSE] ELSE next
    BY DEF NextTag
  <2>2. pwr \in {Progress(s.ctx, t), s.pwr}
    OBVIOUS
  <2> HIDE DEF x, pwr, nested
  <2> QED BY <2>1, <2>2
<1>6. NextTag(s, t).pwr \in 0 .. 2
  <2> DEFINE p == NextTag(s, t).pwr
  <2>1. p \in {0, 1, 2} \cup {s.pwr}
    BY <1>4, <1>5 DEF Whole
  <2> HIDE DEF p
  <2>2. p \in 0 .. 2
    BY <2>1
  <2> QED BY <2>2 DEF p
<1> QED BY <1>1, <1>2, <1>3, <1>6

LEMMA ParseTagsSized ==
  ASSUME NEW c, NEW tags, Context(c), Sized(c), Len(tags) \in Nat,
         \A j \in 1 .. Len(tags) : tags[j].args \in Seq(Int)
  PROVE  Sized(ParseTags(c, tags))
<1>1. PICK p : /\ p[0] = Unparsed(c)
               /\ \A k \in 1 .. Len(tags) : p[k] = NextTag(p[k - 1], tags[k])
               /\ ParseTags(c, tags) = p[Len(tags)].ctx
  BY ParsedToEnd
<1> DEFINE Stays(k) == Context(p[k].ctx) /\ Sized(p[k].ctx) /\ p[k].pwr \in 0 .. 2
           Off == {k \in 0 .. Len(tags) : ~ Stays(k)}
<1>2. Stays(0)
  BY <1>1 DEF Unparsed, Whole
<1>3. ASSUME NEW k \in 1 .. Len(tags), Stays(k - 1)
      PROVE  Stays(k)
  <2> DEFINE r == p[k - 1]
             t == tags[k]
  <2>1. p[k] = NextTag(r, t) /\ t.args \in Seq(Int)
    BY <1>1
  <2>2. Context(r.ctx) /\ Sized(r.ctx) /\ r.pwr \in 0 .. 2
    BY <1>3
  <2> HIDE DEF r, t
  <2>3. Context(NextTag(r, t).ctx) /\ Sized(NextTag(r, t).ctx) /\ NextTag(r, t).pwr \in 0 .. 2
    BY <2>1, <2>2, NextTagSized
  <2> QED BY <2>1, <2>3
<1> HIDE DEF Stays
<1>4. Off = {}
  <2>1. SUFFICES ASSUME Off # {} PROVE FALSE
    OBVIOUS
  <2>2. Off \in SUBSET Nat
    OBVIOUS
  <2>3. PICK m \in Off : \A k \in Off : m <= k
    BY <2>1, <2>2, Smallest
  <2>4. m \in 1 .. Len(tags) /\ m - 1 \in 0 .. Len(tags) /\ ~ (m <= m - 1)
    BY <1>2
  <2>5. Stays(m - 1)
    BY <2>3, <2>4
  <2> QED BY <1>3, <2>4, <2>5
<1>5. Stays(Len(tags))
  BY <1>4
<1> QED BY <1>1, <1>5 DEF Stays

LEMMA InitSized ==
  ASSUME NEW c, NEW e, Context(c), c.clip_drawing_text = 0, e.Style \in DOMAIN Styles
  PROVE  Sized(InitContext(c, e))
<1> DEFINE Record(x) == x = [f \in Fields |-> x[f]]
           blank == [c EXCEPT
             !.event = e, !.parsed_tags = {}, !.evt_type = {}, !.wrap_style = TrackWrapStyle,
             !.pos = <<0, 0>>, !.org = <<0, 0>>, !.have_origin = FALSE,
             !.clip = <<0, 0, PlayRes[1], PlayRes[2]>>, !.clip_mode = FALSE,
             !.detect_collisions = TRUE, !.fade = 0, !.drawing_scale = 0, !.pbo = 0,
             !.effect_type = "NONE", !.effect_timing = 0, !.effect_skip_timing = 0,
             !.reset_effect = FALSE]
           moving == Transition(blank, e.Effect)
           explicit == moving.evt_type # {} \/ HardOverrides(e.Text)
           placed == [moving EXCEPT !.explicit = explicit]
           ready == Reset(placed, Styles[e.Style])
<1>1. InitContext(c, e) = [ready EXCEPT !.alignment = ready.style.Alignment,
                                        !.justify = ready.style.Justify]
  BY DEF InitContext
<1>2. Record(blank)
  BY DEF Context
<1> HIDE DEF blank
<1>3. Record(moving)
  <2>1. CASE e.Effect = "Banner"
    <3>1. moving = [blank EXCEPT !.evt_type = blank.evt_type \cup {"HSCROLL"},
                                 !.detect_collisions = FALSE, !.wrap_style = 2]
      BY <1>2, <2>1 DEF Transition, Fields
    <3> QED BY <1>2, <3>1 DEF Fields
  <2>2. CASE e.Effect = "Scroll"
    <3>1. moving = [blank EXCEPT !.evt_type = blank.evt_type \cup {"VSCROLL"},
                                 !.detect_collisions = FALSE]
      BY <1>2, <2>2 DEF Transition, Fields
    <3> QED BY <1>2, <3>1 DEF Fields
  <2>3. CASE e.Effect # "Banner" /\ e.Effect # "Scroll"
    BY <1>2, <2>3 DEF Transition
  <2> QED BY <2>1, <2>2, <2>3
<1> HIDE DEF moving, explicit
<1>4. Record(placed)
  BY <1>3 DEF Fields
<1> HIDE DEF placed
<1> DEFINE style == StyleFor(placed, Styles[e.Style])
<1>5. style["FontSize"] \in Int /\ style["Alignment"] \in Int
  BY StylesAssumption DEF StyleFor
<1>6. Record(ready) /\ ready.style = style /\ ready.look = LookOf(style)
  <2> DEFINE look == LookOf(style)
             scale == ~placed.explicit \/ ~ScaleOnly
  <2>1. ready = [placed EXCEPT !.style = style, !.look = look, !.apply_font_scale = scale]
    BY DEF Reset
  <2> HIDE DEF style, look, scale, ready
  <2>2. Record(ready) /\ ready.style = style /\ ready.look = look
    BY <1>4, <2>1 DEF Fields
  <2> QED BY <2>2 DEF look
<1>7. LookOf(style)["font_size"] = style["FontSize"]
  BY DEF LookOf, LookFields, StyleField
<1> HIDE DEF ready, style
<1> DEFINE x == InitContext(c, e)
<1>8. /\ x.style = style /\ x.look = LookOf(style) /\ x.alignment = style.Alignment
  BY <1>1, <1>6 DEF Fields
<1>9. x.event = e
  BY InitAlike
<1> HIDE DEF x
<1>10. Sized(x)
  BY <1>5, <1>7, <1>8, <1>9 DEF Sized
<1> QED BY <1>10 DEF x

-----------------------------------------------------------------------------
(* What the steps do to the glyphs                                         *)

SameText(h, g) == h.symbol = g.symbol /\ h.look = g.look

LEMMA TextSame ==
  /\ \A g, x : IsGlyph(g) =>
       /\ SameText([g EXCEPT !.starts_new_run = x], g)
       /\ [g EXCEPT !.starts_new_run = x].linebreak = g.linebreak
  /\ \A g, x, y : IsGlyph(g) =>
       /\ SameText([g EXCEPT !.skip = x, !.starts_new_run = y], g)
       /\ [g EXCEPT !.skip = x, !.starts_new_run = y].linebreak = g.linebreak
       /\ [g EXCEPT !.skip = x, !.starts_new_run = y].skip = x
       /\ [g EXCEPT !.skip = x, !.starts_new_run = y].starts_new_run = y
  /\ \A g, x : IsGlyph(g) =>
       /\ SameText([g EXCEPT !.linebreak = x], g)
       /\ [g EXCEPT !.linebreak = x].linebreak = x
<1>1. ASSUME NEW g, NEW x, IsGlyph(g)
      PROVE  /\ SameText([g EXCEPT !.starts_new_run = x], g)
             /\ [g EXCEPT !.starts_new_run = x].linebreak = g.linebreak
  <2>1. g = [f \in GlyphFields |-> g[f]]
    BY <1>1 DEF IsGlyph
  <2> QED BY <2>1 DEF SameText, GlyphFields
<1>2. ASSUME NEW g, NEW x, NEW y, IsGlyph(g)
      PROVE  /\ SameText([g EXCEPT !.skip = x, !.starts_new_run = y], g)
             /\ [g EXCEPT !.skip = x, !.starts_new_run = y].linebreak = g.linebreak
             /\ [g EXCEPT !.skip = x, !.starts_new_run = y].skip = x
             /\ [g EXCEPT !.skip = x, !.starts_new_run = y].starts_new_run = y
  <2>1. g = [f \in GlyphFields |-> g[f]]
    BY <1>2 DEF IsGlyph
  <2> QED BY <2>1 DEF SameText, GlyphFields
<1>3. ASSUME NEW g, NEW x, IsGlyph(g)
      PROVE  /\ SameText([g EXCEPT !.linebreak = x], g)
             /\ [g EXCEPT !.linebreak = x].linebreak = x
  <2>1. g = [f \in GlyphFields |-> g[f]]
    BY <1>3 DEF IsGlyph
  <2> QED BY <2>1 DEF SameText, GlyphFields
<1> QED BY <1>1, <1>2, <1>3

LEMMA SplitMarks ==
  ASSUME GInv, Split
  PROVE  /\ Length \in Nat /\ Length' = Length
         /\ \A k \in 1 .. Length : /\ SameText(glyphs'[k], glyphs[k])
                                   /\ glyphs'[k].linebreak = glyphs[k].linebreak
<1>1. /\ glyphs' = [k \in 1 .. Length |-> glyphs'[k]]
      /\ \A k \in 1 .. Length : glyphs'[k] = [glyphs[k] EXCEPT !.starts_new_run = StartsRun(k)]
  BY DEF Split
<1>2. Length \in Nat /\ \A k \in 1 .. Length : IsGlyph(glyphs[k])
  BY DEF GInv, IsGlyphs, Sequence, Length
<1>3. Length' = Length
  BY <1>1, <1>2, SequenceOf DEF Length
<1>4. ASSUME NEW k \in 1 .. Length
      PROVE  SameText(glyphs'[k], glyphs[k]) /\ glyphs'[k].linebreak = glyphs[k].linebreak
  <2>1. /\ SameText([glyphs[k] EXCEPT !.starts_new_run = StartsRun(k)], glyphs[k])
        /\ [glyphs[k] EXCEPT !.starts_new_run = StartsRun(k)].linebreak = glyphs[k].linebreak
    BY Zenon, <1>2, <1>4, TextSame
  <2>2. glyphs'[k] = [glyphs[k] EXCEPT !.starts_new_run = StartsRun(k)]
    BY <1>1, <1>4
  <2> QED BY Zenon, <2>1, <2>2
<1> QED BY <1>2, <1>3, <1>4

LEMMA BreakMarks ==
  ASSUME GInv, NEW fails \in BOOLEAN, WrapBreak(fails)
  PROVE  /\ Length \in Nat /\ Length' = Length
         /\ \A k \in 1 .. Length :
              /\ SameText(glyphs'[k], glyphs[k])
              /\ glyphs'[k].linebreak = IF k = BreakAt(i) + 1 THEN IF ForceBreak(i) THEN 2 ELSE 1
                                        ELSE IF fails /\ k = s1 THEN 0 ELSE glyphs[k].linebreak
<1> DEFINE lead == BreakAt(i) + 1
           kind(k) == IF k = lead THEN IF ForceBreak(i) THEN 2 ELSE 1
                      ELSE IF fails /\ k = s1 THEN 0 ELSE glyphs[k].linebreak
<1>1. /\ glyphs' = [k \in 1 .. Length |-> glyphs'[k]]
      /\ \A k \in 1 .. Length : glyphs'[k] = [glyphs[k] EXCEPT !.linebreak = kind(k)]
  BY DEF WrapBreak
<1>2. Length \in Nat /\ \A k \in 1 .. Length : IsGlyph(glyphs[k])
  BY DEF GInv, IsGlyphs, Sequence, Length
<1>3. Length' = Length
  BY <1>1, <1>2, SequenceOf DEF Length
<1> HIDE DEF kind
<1>4. ASSUME NEW k \in 1 .. Length
      PROVE  SameText(glyphs'[k], glyphs[k]) /\ glyphs'[k].linebreak = kind(k)
  <2>1. /\ SameText([glyphs[k] EXCEPT !.linebreak = kind(k)], glyphs[k])
        /\ [glyphs[k] EXCEPT !.linebreak = kind(k)].linebreak = kind(k)
    BY Zenon, <1>2, <1>4, TextSame
  <2>2. glyphs'[k] = [glyphs[k] EXCEPT !.linebreak = kind(k)]
    BY <1>1, <1>4
  <2> QED BY Zenon, <2>1, <2>2
<1> QED BY <1>2, <1>3, <1>4 DEF kind

\* The last word of a line becomes the first of the next, or nothing changes.
Moving == s2 # 0 /\ glyphs[i].linebreak = 1 /\ Better(s2, i, NextBoundary)

LEMMA BalanceMarks ==
  ASSUME GInv, Balance
  PROVE  /\ Length \in Nat /\ Length' = Length /\ i' = NextBoundary
         /\ Moving =>
              /\ s2' = LastWord(s2, i)
              /\ \A k \in 1 .. Length :
                   /\ SameText(glyphs'[k], glyphs[k])
                   /\ glyphs'[k].linebreak = IF k = i THEN 0 ELSE IF k = LastWord(s2, i) THEN 1
                                             ELSE glyphs[k].linebreak
         /\ ~Moving => s2' = i /\ glyphs' = glyphs
<1>1. Length \in Nat /\ (\A k \in 1 .. Length : IsGlyph(glyphs[k])) /\ i' = NextBoundary
  BY DEF GInv, IsGlyphs, Sequence, Length, Balance
<1>2. CASE Moving
  <2> DEFINE word == LastWord(s2, i)
             kind(k) == IF k = i THEN 0 ELSE IF k = word THEN 1 ELSE glyphs[k].linebreak
  <2>1. /\ glyphs' = [k \in 1 .. Length |-> glyphs'[k]]
        /\ \A k \in 1 .. Length : glyphs'[k] = [glyphs[k] EXCEPT !.linebreak = kind(k)]
        /\ s2' = word
    BY <1>2 DEF Balance, Moving
  <2>2. Length' = Length
    BY <1>1, <2>1, SequenceOf DEF Length
  <2> HIDE DEF kind
  <2>3. ASSUME NEW k \in 1 .. Length
        PROVE  SameText(glyphs'[k], glyphs[k]) /\ glyphs'[k].linebreak = kind(k)
    <3>1. /\ SameText([glyphs[k] EXCEPT !.linebreak = kind(k)], glyphs[k])
          /\ [glyphs[k] EXCEPT !.linebreak = kind(k)].linebreak = kind(k)
      BY Zenon, <1>1, <2>3, TextSame
    <3>2. glyphs'[k] = [glyphs[k] EXCEPT !.linebreak = kind(k)]
      BY <2>1, <2>3
    <3> QED BY Zenon, <3>1, <3>2
  <2> QED BY <1>1, <1>2, <2>1, <2>2, <2>3 DEF kind
<1>3. CASE ~Moving
  <2>1. s2' = i /\ glyphs' = glyphs
    BY <1>3 DEF Balance, Moving
  <2> QED BY <1>1, <1>3, <2>1 DEF Length
<1> QED BY <1>2, <1>3

LEMMA TrimMarks ==
  ASSUME GInv, Trim
  PROVE  /\ Length \in Nat /\ Length' = Length
         /\ \A k \in 1 .. Length :
              /\ SameText(glyphs'[k], glyphs[k])
              /\ glyphs'[k].linebreak = glyphs[k].linebreak
              /\ glyphs'[k].skip <=> k \in Trimmed
              /\ k \in LineRuns => glyphs'[k].starts_new_run
<1>1. /\ glyphs' = [k \in 1 .. Length |-> glyphs'[k]]
      /\ \A k \in 1 .. Length : glyphs'[k] = [glyphs[k] EXCEPT !.skip = k \in Trimmed,
           !.starts_new_run = glyphs[k].starts_new_run \/ k \in LineRuns]
  BY DEF Trim
<1>2. Length \in Nat /\ \A k \in 1 .. Length : IsGlyph(glyphs[k])
  BY DEF GInv, IsGlyphs, Sequence, Length
<1>3. Length' = Length
  BY <1>1, <1>2, SequenceOf DEF Length
<1>4. ASSUME NEW k \in 1 .. Length
      PROVE  /\ SameText(glyphs'[k], glyphs[k])
             /\ glyphs'[k].linebreak = glyphs[k].linebreak
             /\ glyphs'[k].skip <=> k \in Trimmed
             /\ k \in LineRuns => glyphs'[k].starts_new_run
  <2> DEFINE g == glyphs[k]
             skips == k \in Trimmed
             begins == glyphs[k].starts_new_run \/ k \in LineRuns
             h == [g EXCEPT !.skip = skips, !.starts_new_run = begins]
  <2>1. glyphs'[k] = h
    BY <1>1, <1>4
  <2>2. IsGlyph(g)
    BY <1>2, <1>4
  <2> HIDE DEF g, skips, begins
  <2>3. SameText(h, g) /\ h.linebreak = g.linebreak /\ h.skip = skips /\ h.starts_new_run = begins
    <3>1. g = [f \in GlyphFields |-> g[f]]
      BY <2>2 DEF IsGlyph
    <3> QED BY <3>1 DEF SameText, GlyphFields
  <2>4. (k \in LineRuns => begins) /\ (skips <=> k \in Trimmed)
    BY DEF skips, begins
  <2> HIDE DEF h
  <2>5. /\ SameText(glyphs'[k], g) /\ glyphs'[k].linebreak = g.linebreak
        /\ glyphs'[k].skip = skips /\ glyphs'[k].starts_new_run = begins
    BY Zenon, <2>1, <2>3
  <2>6. (glyphs'[k].skip <=> skips) /\ (begins => glyphs'[k].starts_new_run)
    BY Zenon, <2>5
  <2> QED BY Zenon, <2>4, <2>5, <2>6 DEF g
<1> QED BY <1>2, <1>3, <1>4

SizedGlyph(g) == "font_size" \in DOMAIN g.look /\ g.look["font_size"] \in Int

LEMMA SungKept ==
  ASSUME NEW g, NEW word, IsGlyph(g), SizedGlyph(g)
  PROVE  /\ Sing(g, word).symbol = g.symbol /\ Sing(g, word).linebreak = g.linebreak
         /\ Sing(g, word).skip = g.skip /\ Sing(g, word).starts_new_run = g.starts_new_run
         /\ SizedGlyph(Sing(g, word))
<1> DEFINE h == Sing(g, word)
           a == IF Reversed(word) THEN g.look.c2 ELSE g.look.c1
           b == IF Reversed(word) THEN g.look.c1 ELSE g.look.c2
           look == [g.look EXCEPT !.c1 = a, !.c2 = b]
<1>1. g = [f \in GlyphFields |-> g[f]]
  BY DEF IsGlyph
<1>2. /\ h.symbol = g.symbol /\ h.linebreak = g.linebreak /\ h.skip = g.skip
      /\ h.starts_new_run = g.starts_new_run
  BY <1>1 DEF Sing, GlyphFields
<1>3. SizedGlyph(h)
  BY <1>1 DEF Sing, GlyphFields, SizedGlyph
<1> QED BY <1>2, <1>3

LEMMA KaraokeMarks ==
  ASSUME GInv, Karaoke, \A k \in 1 .. Length : SizedGlyph(glyphs[k])
  PROVE  /\ Length \in Nat /\ Length' = Length
         /\ \A k \in 1 .. Length :
              /\ glyphs'[k].symbol = glyphs[k].symbol
              /\ glyphs'[k].linebreak = glyphs[k].linebreak
              /\ glyphs'[k].skip = glyphs[k].skip
              /\ glyphs'[k].starts_new_run = glyphs[k].starts_new_run
              /\ SizedGlyph(glyphs'[k])
<1>1. /\ glyphs' = [k \in 1 .. Length |-> glyphs'[k]]
      /\ \A k \in 1 .. Length :
           glyphs'[k] = glyphs[k] \/ \E word : glyphs'[k] = Sing(glyphs[k], word)
  <2> DEFINE singer(k) == CHOOSE w \in DOMAIN Words : k \in Words[w].first .. Words[w].last
  <2>1. glyphs' = [k \in 1 .. Length |->
          IF \E w \in DOMAIN Words : k \in Words[w].first .. Words[w].last
            THEN Sing(glyphs[k], Words[singer(k)]) ELSE glyphs[k]]
    BY DEF Karaoke
  <2> HIDE DEF singer
  <2> QED BY <2>1
<1>2. Length \in Nat /\ \A k \in 1 .. Length : IsGlyph(glyphs[k])
  BY DEF GInv, IsGlyphs, Sequence, Length
<1>3. Length' = Length
  BY <1>1, <1>2, SequenceOf DEF Length
<1>4. ASSUME NEW k \in 1 .. Length
      PROVE  /\ glyphs'[k].symbol = glyphs[k].symbol
             /\ glyphs'[k].linebreak = glyphs[k].linebreak
             /\ glyphs'[k].skip = glyphs[k].skip
             /\ glyphs'[k].starts_new_run = glyphs[k].starts_new_run
             /\ SizedGlyph(glyphs'[k])
  <2>1. CASE glyphs'[k] = glyphs[k]
    BY Zenon, <1>4, <2>1
  <2>2. ASSUME NEW word, glyphs'[k] = Sing(glyphs[k], word)
        PROVE  /\ glyphs'[k].symbol = glyphs[k].symbol
               /\ glyphs'[k].linebreak = glyphs[k].linebreak
               /\ glyphs'[k].skip = glyphs[k].skip
               /\ glyphs'[k].starts_new_run = glyphs[k].starts_new_run
               /\ SizedGlyph(glyphs'[k])
    <3>1. IsGlyph(glyphs[k]) /\ SizedGlyph(glyphs[k])
      BY <1>2, <1>4
    <3> DEFINE g == glyphs[k]
               h == Sing(g, word)
    <3>2. IsGlyph(g) /\ SizedGlyph(g) /\ glyphs'[k] = h
      BY <2>2, <3>1
    <3> HIDE DEF g
    <3>3. /\ h.symbol = g.symbol /\ h.linebreak = g.linebreak /\ h.skip = g.skip
          /\ h.starts_new_run = g.starts_new_run /\ SizedGlyph(h)
      BY <3>2, SungKept
    <3> HIDE DEF h
    <3>4. /\ glyphs'[k].symbol = g.symbol /\ glyphs'[k].linebreak = g.linebreak
          /\ glyphs'[k].skip = g.skip /\ glyphs'[k].starts_new_run = g.starts_new_run
          /\ SizedGlyph(glyphs'[k])
      BY Zenon, <3>2, <3>3
    <3> QED BY Zenon, <3>4 DEF g
  <2> QED BY Zenon, <1>1, <1>4, <2>1, <2>2
<1> QED BY <1>2, <1>3, <1>4

\* The context of an event in progress and its glyphs have a size.
SInv ==
  /\ pc # "idle" => Sized(state)
  /\ \A k \in 1 .. Length : SizedGlyph(glyphs[k])

LEMMA SInvKept ==
  ASSUME SInv, pc' # "idle" => state' = state /\ pc # "idle", Length' = Length,
         \A k \in 1 .. Length : SameText(glyphs'[k], glyphs[k])
  PROVE  SInv'
<1>1. ASSUME NEW k \in 1 .. Length PROVE SizedGlyph(glyphs'[k])
  BY <1>1 DEF SInv, SameText, SizedGlyph
<1>2. pc' # "idle" => Sized(state')
  BY DEF SInv
<1> QED BY <1>1, <1>2 DEF SInv

LEMMA SInvInit == Init => SInv
<1> SUFFICES ASSUME Init PROVE SInv
  OBVIOUS
<1>1. pc = "idle" /\ Length = 0
  BY EmptySequence DEF Init, Length
<1> QED BY <1>1 DEF SInv

LEMMA SInvNext == CInv /\ GInv /\ SInv /\ [Next]_vars => SInv'
<1> SUFFICES ASSUME CInv, GInv, SInv, [Next]_vars PROVE SInv'
  OBVIOUS
<1>1. CASE UNCHANGED vars
  BY <1>1, SInvKept DEF vars, textVars, breakVars, loopVars, lineVars, runVars, Length, SameText
<1>2. ASSUME GiveUp PROVE SInv'
  <2>1. pc' = "idle" /\ Length' = 0
    BY <1>2, EmptySequence DEF GiveUp, Length
  <2> QED BY <2>1 DEF SInv
<1>3. CASE Begin
  <2>1. /\ Length' = 0 /\ state' = InitContext(FreeContext(state), session.events[n + 1])
    BY <1>3, EmptySequence DEF Begin, Length
  <2>2. Context(FreeContext(state)) /\ FreeContext(state).clip_drawing_text = 0
    BY FreeKeeps DEF CInv
  <2>3. session.events[n + 1].Style \in DOMAIN Styles
    <3>1. n + 1 \in 1 .. Len(session.events) /\ session \in Sessions
      BY <1>3, SessionsAssumption DEF Begin, CInv
    <3>2. n + 1 \in DOMAIN session.events
      BY <3>1, SessionsAssumption
    <3> QED BY <3>1, <3>2, SessionsAssumption
  <2>4. Sized(state')
    BY <2>1, <2>2, <2>3, InitSized
  <2> QED BY <2>1, <2>4 DEF SInv
<1>4. CASE Block
  <2>1. pc = "parse" /\ n > 0
    BY <1>4 DEF Block, CInv
  <2>2. Len(Text[at].tags) \in Nat /\ \A j \in 1 .. Len(Text[at].tags) : Text[at].tags[j].args \in Seq(Int)
    <3>1. IsText(Text)
      BY <2>1, TextIsText
    <3>2. at \in 1 .. Len(Text)
      BY <1>4, <2>1, TextOfSession DEF Block, CInv
    <3> QED BY <3>1, <3>2 DEF IsText
  <2>3. Sized(state)
    BY <2>1 DEF SInv
  <2>4. Sized(ParseTags(state, Text[at].tags))
    BY <2>2, <2>3, ParseTagsSized DEF CInv
  <2>5. state' = ParseTags(state, Text[at].tags) /\ glyphs' = glyphs
    BY <1>4 DEF Block
  <2> QED BY <2>4, <2>5 DEF SInv, Length
<1>5. CASE Glyph
  <2>1. PICK symbol : glyphs' = Append(glyphs, GlyphOf(state, symbol))
    BY Zenon, <1>5 DEF Glyph
  <2> DEFINE g == GlyphOf(state, symbol)
  <2>2. g.look = state.look
    BY DEF GlyphOf
  <2>3. Context(state) /\ Sized(state)
    BY <1>5 DEF CInv, SInv, Glyph
  <2> HIDE DEF g
  <2>4. SizedGlyph(g)
    BY <2>2, <2>3 DEF SizedGlyph, Context, Sized, LookFields, StyleField
  <2>5. Sequence(glyphs) /\ Len(glyphs) \in Nat
    BY DEF GInv, IsGlyphs, Sequence
  <2>6. /\ Len(glyphs') = Len(glyphs) + 1
        /\ \A k \in 1 .. Len(glyphs) : glyphs'[k] = glyphs[k]
        /\ glyphs'[Len(glyphs) + 1] = g
    BY <2>1, <2>5, Appended DEF g
  <2>7. ASSUME NEW k \in 1 .. Len(glyphs') PROVE SizedGlyph(glyphs'[k])
    <3>1. CASE k = Len(glyphs) + 1
      BY <2>4, <2>6, <3>1
    <3>2. CASE k # Len(glyphs) + 1
      <4>1. k \in 1 .. Len(glyphs)
        BY <2>5, <2>6, <3>2
      <4>2. glyphs'[k] = glyphs[k] /\ SizedGlyph(glyphs[k])
        BY <2>6, <4>1 DEF SInv, Length
      <4> QED BY <4>2
    <3> QED BY <3>1, <3>2
  <2>8. Sized(state')
    <3>1. state' = WithoutEffect(state)
      BY Zenon, <1>5 DEF Glyph
    <3>2. /\ state'.look = state.look /\ state'.style = state.style
          /\ state'.alignment = state.alignment /\ state'.event = state.event
      BY <2>3, <3>1 DEF WithoutEffect, Context, Fields
    <3> QED BY <2>3, <3>2 DEF Sized
  <2> QED BY <2>7, <2>8 DEF SInv, Length
<1>6. CASE GlyphFails
  BY <1>2, <1>6 DEF GlyphFails
<1>7. CASE TextEnd
  <2>1. CASE glyphs = <<>>
    BY <1>2, <1>7, <2>1 DEF TextEnd
  <2>2. CASE glyphs # <<>>
    <3>1. pc = "parse" /\ pc' = "split" /\ state' = state /\ glyphs' = glyphs
      BY <1>7, <2>2 DEF TextEnd, textVars
    <3> QED BY <3>1 DEF SInv, Length
  <2> QED BY <2>1, <2>2
<1>8. CASE Split
  <2>1. pc = "split" /\ pc' = "wrap" /\ state' = state
    BY <1>8 DEF Split
  <2> QED BY <1>8, <2>1, SplitMarks, SInvKept
<1>9. CASE ShapingFails
  BY <1>2, <1>9 DEF ShapingFails
<1>10. ASSUME pc # "idle", state' = state, glyphs' = glyphs PROVE SInv'
  BY <1>10 DEF SInv, Length
<1>11. CASE WrapGlyph
  BY <1>10, <1>11 DEF WrapGlyph, textVars
<1>12. CASE \E fails \in BOOLEAN : WrapBreak(fails)
  <2>1. PICK fails \in BOOLEAN : WrapBreak(fails)
    BY <1>12
  <2>2. pc = "wrap" /\ pc' = pc /\ state' = state
    BY Zenon, <2>1 DEF WrapBreak
  <2> QED BY <2>1, <2>2, BreakMarks, SInvKept
<1>13. CASE WrapEnd
  BY <1>10, <1>13 DEF WrapEnd, textVars
<1>14. CASE Balance
  <2>1. pc = "balance" /\ pc' = pc /\ state' = state
    BY <1>14 DEF Balance
  <2>2. CASE Moving
    BY <1>14, <2>1, <2>2, BalanceMarks, SInvKept
  <2>3. CASE ~Moving
    BY <1>10, <1>14, <2>1, <2>3, BalanceMarks
  <2> QED BY <2>2, <2>3
<1>15. CASE BalanceEnd
  BY <1>10, <1>15 DEF BalanceEnd, textVars
<1>16. CASE Trim
  <2>1. pc = "trim" /\ pc' = "measure" /\ state' = state
    BY <1>16 DEF Trim
  <2> QED BY <1>16, <2>1, TrimMarks, SInvKept
<1>17. CASE Measure
  BY <1>10, <1>17 DEF Measure, textVars
<1>18. CASE Karaoke
  <2>1. pc = "karaoke" /\ state' = state
    BY <1>18 DEF Karaoke
  <2>2. Length' = Length /\ \A k \in 1 .. Length : SizedGlyph(glyphs'[k])
    BY <1>18, KaraokeMarks DEF SInv
  <2> QED BY <2>1, <2>2 DEF SInv
<1>19. CASE Reorder
  BY <1>10, <1>19 DEF Reorder, textVars
<1>20. CASE AlignLines
  BY <1>10, <1>20 DEF AlignLines, textVars
<1>21. CASE End
  <2>1. pc' = "idle" /\ glyphs' = glyphs
    BY <1>21 DEF End
  <2> QED BY <2>1 DEF SInv, Length
<1> QED
  BY <1>1, <1>3, <1>4, <1>5, <1>6, <1>7, <1>8, <1>9, <1>11, <1>12, <1>13, <1>14, <1>15,
     <1>16, <1>17, <1>18, <1>19, <1>20, <1>21 DEF Next

\* Steps that leave the glyphs as they are
LEMMA Unmoved ==
  ASSUME glyphs' = glyphs, state' = state, session' = session
  PROVE  /\ Length' = Length /\ Starts' = Starts
         /\ \A k : (Feed(k)' <=> Feed(k)) /\ (Blank(k)' <=> Blank(k))
         /\ \A k : (AllowBreak(k)' <=> AllowBreak(k)) /\ Advance(k)' = Advance(k)
         /\ \A a, k : (InLine(a, k)' <=> InLine(a, k)) /\ (IsLine(a, k)' <=> IsLine(a, k))
         /\ \A m : (MarkedUpTo(m)' <=> MarkedUpTo(m)) /\ (FitsUpTo(m)' <=> FitsUpTo(m))
         /\ AllMarked' <=> AllMarked
         /\ AllFit' <=> AllFit
         /\ TextTrimmed' <=> TextTrimmed
         /\ Unmarked' <=> Unmarked
<1>1. Length' = Length
  BY DEF Length
<1>2. Starts' = Starts
  BY <1>1 DEF Starts, Breakings
<1>3. ASSUME NEW k PROVE Symbol(k)' = Symbol(k)
  BY DEF Symbol
<1>4. ASSUME NEW k PROVE /\ (Feed(k)' <=> Feed(k)) /\ (Blank(k)' <=> Blank(k))
                         /\ Advance(k)' = Advance(k) /\ Ink(k)' = Ink(k)
  <2>1. Symbol(k)' = Symbol(k)
    BY <1>3
  <2>2. (Feed(k)' <=> Feed(k)) /\ (Blank(k)' <=> Blank(k))
    BY Zenon, <2>1 DEF Feed, Blank
  <2>3. Advance(k)' = Advance(k)
    BY Zenon, <2>1 DEF Advance
  <2>4. Ink(k)' = Ink(k)
    BY Zenon, <2>1, <2>3 DEF Ink
  <2> QED BY <2>2, <2>3, <2>4
<1>5. ASSUME NEW k PROVE AllowBreak(k)' <=> AllowBreak(k)
  <2>1. Symbol(k)' = Symbol(k) /\ Symbol(k + 1)' = Symbol(k + 1)
    BY <1>3
  <2> QED BY Zenon, <1>1, <2>1 DEF AllowBreak
<1>6. ASSUME NEW k PROVE Left(k)' = Left(k) /\ Right(k)' = Right(k)
  <2>1. [j \in 1 .. Length |-> Advance(j)]' = [j \in 1 .. Length |-> Advance(j)]
    BY <1>1, <1>4
  <2>2. Left(k)' = Left(k)
    BY Zenon, <2>1 DEF Left
  <2> QED BY Zenon, <1>4, <2>2 DEF Right
<1>7. SingleSpaced' <=> SingleSpaced
  <2>1. \A k : Symbol(k)' = Symbol(k)
    BY <1>3
  <2> QED BY Zenon, <1>1, <2>1 DEF SingleSpaced
<1>8. ASSUME NEW a, NEW k
      PROVE  /\ (InLine(a, k)' <=> InLine(a, k)) /\ (IsLine(a, k)' <=> IsLine(a, k))
             /\ (LineTrimmed(a, k)' <=> LineTrimmed(a, k)) /\ (Fits(a, k)' <=> Fits(a, k))
  <2>1. InLine(a, k)' <=> InLine(a, k)
    BY Zenon, <1>2 DEF InLine
  <2>2. IsLine(a, k)' <=> IsLine(a, k)
    BY Zenon, <1>1, <2>1 DEF IsLine
  <2>3. \A j : Blank(j)' <=> Blank(j)
    BY <1>4
  <2>4. LineTrimmed(a, k)' <=> LineTrimmed(a, k)
    BY Zenon, <2>3 DEF LineTrimmed
  <2>5. \A j : AllowBreak(j)' <=> AllowBreak(j)
    BY <1>5
  <2>6. Right(k)' = Right(k) /\ Left(a)' = Left(a)
    BY <1>6
  <2>7. Fits(a, k)' <=> Fits(a, k)
    BY Zenon, <2>5, <2>6 DEF Fits
  <2> QED BY <2>1, <2>2, <2>4, <2>7
<1>9. ASSUME NEW m PROVE /\ (MarkedUpTo(m)' <=> MarkedUpTo(m)) /\ (FitsUpTo(m)' <=> FitsUpTo(m))
  <2>1. \A j : (AllowBreak(j)' <=> AllowBreak(j)) /\ (Feed(j)' <=> Feed(j))
    BY <1>4, <1>5
  <2>2. MarkedUpTo(m)' <=> MarkedUpTo(m)
    BY Zenon, <1>1, <2>1 DEF MarkedUpTo
  <2>3. \A a, k : (InLine(a, k)' <=> InLine(a, k)) /\ (Fits(a, k)' <=> Fits(a, k))
    BY <1>8
  <2>4. \A k : Blank(k)' <=> Blank(k)
    BY <1>4
  <2>5. FitsUpTo(m)' <=> FitsUpTo(m)
    BY Zenon, <1>1, <1>7, <2>3, <2>4 DEF FitsUpTo
  <2> QED BY <2>2, <2>5
<1>10. (AllMarked' <=> AllMarked) /\ (AllFit' <=> AllFit)
  <2>1. \A j : (AllowBreak(j)' <=> AllowBreak(j)) /\ (Feed(j)' <=> Feed(j))
    BY <1>4, <1>5
  <2>2. AllMarked' <=> AllMarked
    BY Zenon, <1>1, <2>1 DEF AllMarked, MarkedUpTo
  <2>3. \A a, k : (InLine(a, k)' <=> InLine(a, k)) /\ (Fits(a, k)' <=> Fits(a, k))
    BY <1>8
  <2>4. \A k : Blank(k)' <=> Blank(k)
    BY <1>4
  <2>5. AllFit' <=> AllFit
    BY Zenon, <1>1, <1>7, <2>3, <2>4 DEF AllFit, FitsUpTo
  <2> QED BY <2>2, <2>5
<1>11. TextTrimmed' <=> TextTrimmed
  <2>1. \A a, k : (IsLine(a, k)' <=> IsLine(a, k)) /\ (LineTrimmed(a, k)' <=> LineTrimmed(a, k))
    BY <1>8
  <2> QED BY Zenon, <1>1, <2>1 DEF TextTrimmed
<1>12. Unmarked' <=> Unmarked
  BY Zenon, <1>1 DEF Unmarked
<1> QED BY <1>1, <1>2, <1>4, <1>5, <1>8, <1>9, <1>10, <1>11, <1>12

-----------------------------------------------------------------------------
(* The steps up to the end of the wrapping                                 *)

LEMMA LInvGlyph == CInv /\ GInv /\ LInv /\ Glyph => LInv'
<1> SUFFICES ASSUME CInv, GInv, LInv, Glyph PROVE LInv'
  OBVIOUS
<1>1. PICK symbol : glyphs' = Append(glyphs, GlyphOf(state, symbol))
  BY Zenon DEF Glyph
<1> DEFINE g == GlyphOf(state, symbol)
<1>2. g.linebreak = 0
  BY DEF GlyphOf
<1> HIDE DEF g
<1>3. Sequence(glyphs) /\ Len(glyphs) \in Nat
  BY DEF GInv, IsGlyphs, Sequence
<1>4. /\ Len(glyphs') = Len(glyphs) + 1
      /\ \A k \in 1 .. Len(glyphs) : glyphs'[k] = glyphs[k]
      /\ glyphs'[Len(glyphs) + 1] = g
  BY <1>1, <1>3, Appended DEF g
<1>5. pc = "parse" /\ pc' = "parse"
  BY DEF Glyph
<1>6. \A k \in 1 .. Len(glyphs) : glyphs[k].linebreak = 0
  BY <1>5 DEF LInv, Unmarked, Length
<1>7. ASSUME NEW k \in 1 .. Len(glyphs') PROVE glyphs'[k].linebreak = 0
  <2>1. CASE k = Len(glyphs) + 1
    BY <1>2, <1>4, <2>1
  <2>2. CASE k # Len(glyphs) + 1
    <3>1. k \in 1 .. Len(glyphs)
      BY <1>3, <1>4, <2>2
    <3> QED BY <1>4, <1>6, <3>1
  <2> QED BY <2>1, <2>2
<1> QED BY <1>5, <1>7 DEF LInv, Unmarked, Length

LEMMA LInvSplit == CInv /\ GInv /\ LInv /\ Split => LInv'
<1> SUFFICES ASSUME CInv, GInv, LInv, Split PROVE LInv'
  OBVIOUS
<1>1. /\ pc = "split" /\ pc' = "wrap" /\ i' = 1 /\ s1' = 1 /\ last_breakable' = 0 /\ n_lines' = 1
  BY DEF Split
<1>2. Length \in Nat /\ Length' = Length /\ Length > 0
  BY <1>1, SplitMarks DEF GInv
<1>3. \A k \in 1 .. Length' : glyphs'[k].linebreak = 0
  BY <1>1, <1>2, SplitMarks DEF LInv, Unmarked
<1>4. Starts' = {1}
  BY <1>3 DEF Starts, Breakings
<1>5. Cardinality({1}) = 1
  BY FS_Singleton
<1>6. Counts'
  BY <1>1, <1>2, <1>3, <1>4, <1>5 DEF Counts
<1>7. MarkedUpTo(1 - 1)' /\ FitsUpTo(1 - 1)'
  BY <1>2, <1>3 DEF MarkedUpTo, FitsUpTo
<1>8. MarkedUpTo(i - 1)' /\ FitsUpTo(i - 1)'
  BY <1>1, <1>7
<1>9. Wrapping'
  BY <1>1, <1>2, <1>3, <1>4, <1>8 DEF Wrapping
<1> QED BY <1>1, <1>6, <1>9 DEF LInv

\* A line that goes up to i begins with s1.
LEMMA LastLine ==
  ASSUME Length \in Nat, i \in Nat \ {0}, i <= Length, s1 \in Nat, Wrapping,
         NEW a \in 1 .. Length, InLine(a, i)
  PROVE  a = s1
<1>1. /\ s1 \in Starts /\ s1 <= i /\ \A k \in s1 + 1 .. Length : glyphs[k].linebreak = 0
  BY DEF Wrapping
<1>2. a \in Starts /\ a <= i /\ \A j \in a + 1 .. i : glyphs[j].linebreak = 0
  BY DEF InLine
<1>3. \A k : k \in Starts <=> k = 1 \/ (k \in 1 .. Length /\ glyphs[k].linebreak # 0)
  BY StartsIn
<1>4. ~ (a < s1)
  <2> SUFFICES ASSUME a < s1 PROVE FALSE
    OBVIOUS
  <2>1. s1 \in a + 1 .. i /\ s1 # 1
    BY <1>1
  <2> QED BY <1>1, <1>2, <1>3, <2>1
<1>5. ~ (a > s1)
  <2> SUFFICES ASSUME a > s1 PROVE FALSE
    OBVIOUS
  <2>1. a \in s1 + 1 .. Length
    OBVIOUS
  <2>2. a # 1
    BY <1>1, <1>3
  <2> QED BY <1>1, <1>2, <1>3, <2>1, <2>2
<1> QED BY <1>4, <1>5

LEMMA WidthTyped == CInv => session.width \in Int
BY SessionsAssumption DEF CInv

LEMMA LInvWrapGlyph == CInv /\ GInv /\ LInv /\ WrapGlyph => LInv'
<1> SUFFICES ASSUME CInv, GInv, LInv, WrapGlyph, Promised PROVE Counts' /\ Wrapping'
  BY DEF LInv, WrapGlyph, Promised, breakVars, runVars
<1>1. /\ pc = "wrap" /\ i <= Length /\ i' = i + 1 /\ s1' = s1 /\ ~Breaks(i)
      /\ last_breakable' = (IF AllowBreak(i) THEN i ELSE last_breakable)
      /\ UNCHANGED <<glyphs, state, session, n_lines>>
  BY DEF WrapGlyph, textVars, breakVars, runVars
<1>2. Counts /\ Wrapping
  BY <1>1 DEF LInv
<1>3. Length \in Nat /\ i \in Nat \ {0} /\ s1 \in Nat /\ last_breakable \in 0 .. Length
  BY <1>1 DEF GInv, IsGlyphs, Sequence, Length
<1>4. /\ Length' = Length /\ Starts' = Starts
      /\ \A k : AllowBreak(k)' <=> AllowBreak(k)
      /\ \A m : (MarkedUpTo(m)' <=> MarkedUpTo(m)) /\ (FitsUpTo(m)' <=> FitsUpTo(m))
  BY <1>1, Unmoved
<1>5. Counts'
  BY <1>1, <1>2, <1>4 DEF Counts
<1>6. /\ s1 \in Starts /\ s1 <= i /\ i <= Length + 1
      /\ \A k \in s1 + 1 .. Length : glyphs[k].linebreak = 0
      /\ last_breakable # 0 => last_breakable \in s1 .. i - 1 /\ AllowBreak(last_breakable)
      /\ \A k \in s1 .. i - 1 : AllowBreak(k) => k <= last_breakable
      /\ MarkedUpTo(i - 1) /\ FitsUpTo(i - 1)
  BY <1>2 DEF Wrapping
<1>7. s1 >= 1
  BY <1>3, <1>6, StartsIn
<1>8. ~session.unicode
  BY DEF Promised
<1>9. i < Length => ~Feed(i)
  <2> SUFFICES ASSUME i < Length, Feed(i) PROVE FALSE
    OBVIOUS
  <2>1. BreakAt(i) = i
    BY Blanks DEF BreakAt
  <2> QED BY <1>1, <1>3, <2>1 DEF Breaks
<1>10. MarkedUpTo(i)
  <2>1. ASSUME NEW k \in 2 .. Length
        PROVE  /\ glyphs[k].linebreak = 2 <=> Feed(k - 1) /\ k - 1 <= i
               /\ glyphs[k].linebreak = 1 => AllowBreak(k - 1)
    <3>1. /\ glyphs[k].linebreak = 2 <=> Feed(k - 1) /\ k - 1 <= i - 1
          /\ glyphs[k].linebreak = 1 => AllowBreak(k - 1)
      BY <1>6 DEF MarkedUpTo
    <3>2. CASE k = i + 1
      <4>1. k - 1 = i /\ i < Length
        BY <1>3, <3>2
      <4>2. ~ (i <= i - 1) /\ ~Feed(k - 1)
        BY <1>3, <1>9, <4>1
      <4> QED BY <3>1, <4>1, <4>2
    <3>3. CASE k # i + 1
      <4>1. k - 1 <= i - 1 <=> k - 1 <= i
        BY <1>3, <3>3
      <4> QED BY <3>1, <4>1
    <3> QED BY <3>2, <3>3
  <2> QED BY <2>1 DEF MarkedUpTo
<1>11. FitsUpTo(i)
  <2> SUFFICES ASSUME SingleSpaced, state.wrap_style # 2,
                      NEW a \in 1 .. Length, NEW k \in 1 .. i, InLine(a, k), ~Blank(k)
               PROVE  Fits(a, k)
    BY DEF FitsUpTo
  <2>1. CASE k # i
    <3>1. k \in 1 .. i - 1
      BY <1>3, <2>1
    <3> QED BY <1>6, <3>1 DEF FitsUpTo
  <2>2. CASE k = i
    <3>1. a = s1
      BY <1>1, <1>2, <1>3, <2>2, LastLine
    <3>2. ~Feed(i) /\ ~Space(i)
      BY <2>2, Blanks
    <3>3. SUFFICES ASSUME ~ (Right(i) - Left(s1) < session.width)
                   PROVE  \A j \in s1 .. i - 1 : ~AllowBreak(j)
      BY <2>2, <3>1 DEF Fits
    <3>4. Right(i) - Left(s1) >= session.width
      <4>1. i \in 1 .. Length /\ s1 \in 1 .. Length + 1
        BY <1>1, <1>3, <1>6, <1>7
      <4>2. Right(i) \in Int /\ Left(s1) \in Int
        BY <1>3, <4>1, RightGrows, Lefts
      <4> QED BY <3>3, <4>2, WidthTyped
    <3>5. Overflows(i)
      BY Zenon, <3>2, <3>4 DEF Overflows, Space
    <3>6. BreakAt(i) = last_breakable
      BY <3>2, <3>5, Blanks DEF BreakAt
    <3>7. last_breakable = 0
      BY <1>1, <1>3, <1>6, <1>7, <3>6 DEF Breaks
    <3> QED BY <1>3, <1>6, <1>7, <3>7
  <2> QED BY <2>1, <2>2
<1>12. (i + 1) - 1 = i
  BY <1>3
<1>13. MarkedUpTo(i - 1)' /\ FitsUpTo(i - 1)'
  <2>1. i' - 1 = i
    BY <1>1, <1>12
  <2> QED BY <1>4, <1>10, <1>11, <2>1
<1>14. Wrapping'
  <2>1. /\ s1 \in Starts /\ s1 <= i + 1 /\ i + 1 <= Length + 1
    BY <1>1, <1>3, <1>6
  <2>2. /\ last_breakable' # 0 => last_breakable' \in s1 .. i /\ AllowBreak(last_breakable')
        /\ \A k \in s1 .. i : AllowBreak(k) => k <= last_breakable'
    <3>1. CASE AllowBreak(i)
      BY <1>1, <1>3, <1>6, <3>1
    <3>2. CASE ~AllowBreak(i)
      <4>1. last_breakable' = last_breakable
        BY <1>1, <3>2
      <4>2. \A k \in s1 .. i : k = i \/ k \in s1 .. i - 1
        BY <1>3
      <4> QED BY <1>3, <1>6, <3>2, <4>1, <4>2
    <3> QED BY <3>1, <3>2
  <2> QED BY <1>1, <1>4, <1>6, <1>12, <1>13, <2>1, <2>2 DEF Wrapping
<1> QED BY <1>5, <1>14

LEMMA LInvWrapBreak == CInv /\ GInv /\ LInv /\ (\E fails \in BOOLEAN : WrapBreak(fails)) => LInv'
<1> SUFFICES ASSUME CInv, GInv, LInv, NEW fails \in BOOLEAN, WrapBreak(fails) PROVE LInv'
  OBVIOUS
<1>1. /\ pc = "wrap" /\ pc' = "wrap" /\ i <= Length /\ i' = i + 1 /\ last_breakable' = 0
      /\ Breaks(i) /\ n_lines' = (IF fails THEN n_lines ELSE n_lines + 1)
      /\ discarded' = (discarded \/ fails) /\ s1' = BreakAt(i) + 1
      /\ state' = state /\ session' = session
  BY Zenon DEF WrapBreak, runVars
<1>2. SUFFICES ASSUME Promised, fails = FALSE PROVE Counts' /\ Wrapping'
  BY <1>1 DEF LInv, Promised
<1>3. Counts /\ Wrapping
  BY <1>1, <1>2 DEF LInv
<1> DEFINE lead == BreakAt(i) + 1
<1>4. Length \in Nat /\ i \in Nat \ {0} /\ s1 \in Nat /\ last_breakable \in 0 .. Length
      /\ n_lines \in Nat /\ IsGlyphs(glyphs)
  BY <1>1 DEF GInv, IsGlyphs, Sequence, Length
<1>5. /\ Length' = Length
      /\ \A k \in 1 .. Length :
           /\ glyphs'[k].symbol = glyphs[k].symbol
           /\ glyphs'[k].linebreak = IF k = lead THEN IF ForceBreak(i) THEN 2 ELSE 1
                                     ELSE glyphs[k].linebreak
  BY <1>2, BreakMarks DEF SameText
<1>6. /\ s1 \in Starts /\ s1 <= i /\ i <= Length + 1
      /\ \A k \in s1 + 1 .. Length : glyphs[k].linebreak = 0
      /\ last_breakable # 0 => last_breakable \in s1 .. i - 1 /\ AllowBreak(last_breakable)
      /\ \A k \in s1 .. i - 1 : AllowBreak(k) => k <= last_breakable
      /\ MarkedUpTo(i - 1) /\ FitsUpTo(i - 1)
  BY <1>3 DEF Wrapping
<1>7. s1 \in 1 .. Length
  BY <1>1, <1>4, <1>6, StartsIn
<1>8. ~session.unicode
  BY <1>2 DEF Promised
<1>9. lead \in 2 .. Length /\ lead - 1 = BreakAt(i) /\ BreakAt(i) \in 1 .. Length - 1
  BY <1>1, <1>4 DEF Breaks
\* Where the line is broken
<1>10. \/ lead = i + 1 /\ Feed(i)
       \/ lead = last_breakable + 1 /\ last_breakable \in s1 .. i - 1 /\ ~Feed(i)
          /\ Space(last_breakable) /\ ~Space(i)
  <2>1. CASE Feed(i)
    BY <2>1, Blanks DEF BreakAt
  <2>2. CASE ~Feed(i)
    <3>1. BreakAt(i) = IF Overflows(i) THEN last_breakable ELSE 0
      BY <2>2, Blanks DEF BreakAt
    <3>2. Overflows(i) /\ last_breakable # 0 /\ BreakAt(i) = last_breakable
      BY <1>9, <3>1
    <3>3. ~Space(i)
      BY Zenon, <3>2 DEF Overflows, Space
    <3> QED BY <1>4, <1>6, <1>8, <2>2, <3>2, <3>3, Blanks
  <2> QED BY <2>1, <2>2
<1>11. ForceBreak(i) <=> Feed(i)
  BY Blanks
<1> HIDE DEF lead
<1>12. lead \in s1 + 1 .. Length /\ lead # 1 /\ lead <= i + 1 /\ glyphs[lead].linebreak = 0
  <2>1. lead \in s1 + 1 .. Length /\ lead # 1 /\ lead <= i + 1
    BY <1>4, <1>6, <1>7, <1>9, <1>10
  <2> QED BY <1>6, <2>1
<1>13. Starts' = Starts \cup {lead} /\ lead \notin Starts
  <2>1. lead \notin Starts
    BY <1>4, <1>12, StartsIn
  <2>2. ASSUME NEW k PROVE k \in Starts' <=> k \in Starts \cup {lead}
    <3>1. k \in Starts' <=> k = 1 \/ (k \in 1 .. Length /\ glyphs'[k].linebreak # 0)
      BY <1>5 DEF Starts, Breakings
    <3>2. k \in Starts <=> k = 1 \/ (k \in 1 .. Length /\ glyphs[k].linebreak # 0)
      BY <1>4, StartsIn
    <3>3. lead \in 1 .. Length /\ glyphs'[lead].linebreak # 0
      BY <1>5, <1>7, <1>12
    <3> QED BY <1>5, <3>1, <3>2, <3>3
  <2> QED BY <2>1, <2>2
<1>14. Counts'
  <2>1. IsFiniteSet(Starts)
    BY <1>4, <1>7, StartsFew
  <2>2. Cardinality(Starts') = Cardinality(Starts) + 1
    BY <1>13, <2>1, FS_AddElement
  <2>3. glyphs'[1].linebreak = 0
    BY <1>3, <1>4, <1>5, <1>7, <1>12 DEF Counts
  <2> QED BY <1>1, <1>2, <1>3, <2>2, <2>3 DEF Counts
<1>15. /\ \A k \in 1 .. Length : /\ (Feed(k)' <=> Feed(k)) /\ (Blank(k)' <=> Blank(k))
                                 /\ (AllowBreak(k)' <=> AllowBreak(k)) /\ Right(k)' = Right(k)
                                 /\ Left(k)' = Left(k)
       /\ SingleSpaced' <=> SingleSpaced
  <2>1. \A k \in 1 .. Length : k \in 1 .. Length + 1
    BY <1>4
  <2> QED BY <1>1, <1>4, <1>5, <2>1, TextKept
<1>16. ASSUME NEW m, m = i PROVE MarkedUpTo(m)'
  <2>1. ASSUME NEW k \in 2 .. Length
        PROVE  /\ glyphs'[k].linebreak = 2 <=> Feed(k - 1)' /\ k - 1 <= i
               /\ glyphs'[k].linebreak = 1 => AllowBreak(k - 1)'
    <3>0. k \in 1 .. Length /\ k - 1 \in 1 .. Length
      BY <1>4
    <3>1. (Feed(k - 1)' <=> Feed(k - 1)) /\ (AllowBreak(k - 1)' <=> AllowBreak(k - 1))
      BY <1>15, <3>0
    <3>2. CASE k = lead
      <4>1. CASE Feed(i) /\ lead = i + 1
        <5>1. k - 1 = i /\ glyphs'[k].linebreak = 2
          BY <1>4, <1>5, <1>11, <3>0, <3>2, <4>1
        <5> QED BY <1>4, <3>1, <4>1, <5>1
      <4>2. CASE ~Feed(i) /\ lead = last_breakable + 1 /\ Space(last_breakable)
        <5>1. k - 1 = last_breakable /\ glyphs'[k].linebreak = 1
          BY <1>4, <1>5, <1>11, <3>0, <3>2, <4>2
        <5>2. ~Feed(k - 1) /\ AllowBreak(k - 1)
          BY <1>8, <4>2, <5>1, Blanks
        <5> QED BY <3>1, <5>1, <5>2
      <4> QED BY <1>10, <4>1, <4>2
    <3>3. CASE k # lead
      <4>1. glyphs'[k].linebreak = glyphs[k].linebreak
        BY <1>5, <3>0, <3>3
      <4>2. /\ glyphs[k].linebreak = 2 <=> Feed(k - 1) /\ k - 1 <= i - 1
            /\ glyphs[k].linebreak = 1 => AllowBreak(k - 1)
        BY <1>6 DEF MarkedUpTo
      <4>3. CASE k - 1 = i
        <5>1. k = i + 1
          BY <1>4, <4>3
        <5>2. ~Feed(i)
          BY <1>10, <3>3, <5>1
        <5> QED BY <3>1, <4>1, <4>2, <4>3, <5>2
      <4>4. CASE k - 1 # i
        <5>1. k - 1 <= i - 1 <=> k - 1 <= i
          BY <1>4, <4>4
        <5> QED BY <3>1, <4>1, <4>2, <5>1
      <4> QED BY <4>3, <4>4
    <3> QED BY <3>2, <3>3
  <2> QED BY <1>5, <1>16, <2>1 DEF MarkedUpTo
<1>17. ASSUME NEW m, m = i PROVE FitsUpTo(m)'
  <2> SUFFICES ASSUME SingleSpaced', state'.wrap_style # 2,
                      NEW a \in 1 .. Length, NEW k \in 1 .. m, InLine(a, k)', ~Blank(k)'
               PROVE  Fits(a, k)'
    BY <1>5 DEF FitsUpTo
  <2>0. k \in 1 .. Length /\ k \in 1 .. i
    BY <1>1, <1>4, <1>17
  <2>1. SingleSpaced /\ state.wrap_style # 2 /\ ~Blank(k)
    BY <1>1, <1>15, <2>0
  <2>2. a \in Starts' /\ a <= k /\ \A j \in a + 1 .. k : glyphs'[j].linebreak = 0
    BY DEF InLine
  <2>3. CASE a # lead
    <3>1. lead \notin a + 1 .. k
      BY <1>5, <1>7, <1>12, <2>2
    <3>2. \A j \in a + 1 .. k : glyphs[j].linebreak = 0
      <4>1. \A j \in a + 1 .. k : j \in 1 .. Length /\ j # lead
        BY <1>4, <2>0, <3>1
      <4> QED BY <1>5, <2>2, <4>1
    <3>3. InLine(a, k)
      BY <1>13, <2>2, <2>3, <3>2 DEF InLine
    <3>4. CASE k # i
      <4>1. k \in 1 .. i - 1
        BY <1>4, <2>0, <3>4
      <4>2. Fits(a, k)
        BY <1>6, <2>1, <3>3, <4>1 DEF FitsUpTo
      <4>3. \A j \in a .. k - 1 : AllowBreak(j)' <=> AllowBreak(j)
        <5>1. \A j \in a .. k - 1 : j \in 1 .. Length
          BY <1>4, <2>0
        <5> QED BY <1>15, <5>1
      <4>4. Right(k)' = Right(k) /\ Left(a)' = Left(a)
        BY <1>15, <2>0
      <4> QED BY <1>1, <4>2, <4>3, <4>4 DEF Fits
    <3>5. CASE k = i
      <4>1. a = s1
        BY <1>1, <1>3, <1>4, <3>3, <3>5, LastLine
      <4>2. ~Feed(i)
        BY <2>1, <3>5, Blanks
      <4>3. lead \in a + 1 .. k
        BY <1>4, <1>10, <1>12, <3>5, <4>1, <4>2
      <4> QED BY <3>1, <4>3
    <3> QED BY <3>4, <3>5
  <2>4. CASE a = lead
    <3>1. ~ (lead = i + 1)
      BY <1>4, <2>0, <2>2, <2>4
    <3>2. lead = last_breakable + 1 /\ last_breakable \in s1 .. i - 1 /\ ~Space(i)
      BY <1>10, <3>1
    <3>3. ASSUME NEW j \in a .. k - 1 PROVE ~AllowBreak(j)'
      <4>1. j \in s1 .. i - 1 /\ j \in 1 .. Length /\ ~ (j <= last_breakable)
        BY <1>4, <1>7, <2>0, <2>4, <3>2
      <4>2. ~AllowBreak(j)
        BY <1>6, <4>1
      <4> QED BY <1>15, <4>1, <4>2
    <3> QED BY <3>3 DEF Fits
  <2> QED BY <2>3, <2>4
<1>18. Wrapping'
  <2>1. s1' \in Starts' /\ s1' <= i' /\ i' <= Length' + 1
    BY <1>1, <1>4, <1>5, <1>12, <1>13 DEF lead
  <2>2. \A k \in s1' + 1 .. Length' : glyphs'[k].linebreak = 0
    <3>1. s1' = lead
      BY <1>1 DEF lead
    <3>2. ASSUME NEW k \in lead + 1 .. Length PROVE glyphs'[k].linebreak = 0
      <4>1. k \in s1 + 1 .. Length /\ k # lead /\ k \in 1 .. Length
        BY <1>4, <1>7, <1>12
      <4> QED BY <1>5, <1>6, <4>1
    <3> QED BY <1>5, <3>1, <3>2
  <2>3. ASSUME NEW k \in lead .. i PROVE ~AllowBreak(k)'
    <3>1. ~ (lead = i + 1)
      BY <1>4, <1>12
    <3>2. lead = last_breakable + 1 /\ last_breakable \in s1 .. i - 1 /\ ~Space(i)
      BY <1>10, <3>1
    <3>3. k \in 1 .. Length
      BY <1>1, <1>4, <1>7, <1>12
    <3>4. ~AllowBreak(k)
      <4>1. CASE k = i
        BY <1>8, <3>2, <4>1, Blanks
      <4>2. CASE k # i
        <5>1. k \in s1 .. i - 1 /\ ~ (k <= last_breakable)
          BY <1>4, <1>7, <3>2, <4>2
        <5> QED BY <1>6, <5>1
      <4> QED BY <4>1, <4>2
    <3> QED BY <1>15, <3>3, <3>4
  <2>4. \A k \in s1' .. i' - 1 : AllowBreak(k)' => k <= last_breakable'
    <3>1. s1' = lead /\ i' - 1 = i
      BY <1>1, <1>4 DEF lead
    <3> QED BY <2>3, <3>1
  <2>5. MarkedUpTo(i - 1)' /\ FitsUpTo(i - 1)'
    <3>1. PICK m : m = i
      OBVIOUS
    <3>2. i' - 1 = m /\ MarkedUpTo(m)' /\ FitsUpTo(m)'
      BY <1>1, <1>4, <1>16, <1>17, <3>1
    <3> QED BY <3>2
  <2> QED BY <1>1, <2>1, <2>2, <2>4, <2>5 DEF Wrapping
<1> QED BY <1>14, <1>18

LEMMA LInvWrapEnd == GInv /\ LInv /\ WrapEnd => LInv'
<1> SUFFICES ASSUME GInv, LInv, WrapEnd PROVE LInv'
  OBVIOUS
<1>1. /\ pc = "wrap" /\ i > Length /\ i' = 1 /\ s2' = 0
      /\ UNCHANGED <<glyphs, state, session, n_lines, discarded>>
      /\ pc' = "trim" \/ pc' = "balance"
  BY DEF WrapEnd, textVars, breakVars, runVars
<1>2. SUFFICES ASSUME Promised PROVE Counts' /\ AllMarked' /\ AllFit' /\ Balancing'
  BY <1>1 DEF LInv, Promised
<1>3. Counts /\ Wrapping
  BY <1>1, <1>2 DEF LInv
<1>4. Length \in Nat /\ i \in Nat
  BY DEF GInv, IsGlyphs, Sequence, Length
<1>5. i - 1 = Length
  BY <1>1, <1>3, <1>4 DEF Wrapping
<1>6. AllMarked /\ AllFit
  BY <1>3, <1>5 DEF Wrapping, AllMarked, AllFit
<1>7. /\ Starts' = Starts /\ (AllMarked' <=> AllMarked) /\ (AllFit' <=> AllFit)
  BY <1>1, Unmoved
<1> QED BY <1>1, <1>3, <1>6, <1>7 DEF Counts, Balancing

-----------------------------------------------------------------------------
(* Balancing                                                               *)

LEMMA LineAhead ==
  ASSUME Length \in Nat, i \in 1 .. Length
  PROVE  /\ NextBoundary \in i + 1 .. Length + 1
         /\ NextBoundary <= Length => glyphs[NextBoundary].linebreak # 0
         /\ \A k \in i + 1 .. NextBoundary - 1 : glyphs[k].linebreak = 0
<1> DEFINE S == {Length + 1} \cup {k \in i + 1 .. Length : glyphs[k].linebreak # 0}
<1>1. S \in SUBSET (i + 1 .. Length + 1) /\ S # {}
  OBVIOUS
<1>2. NextBoundary = Min(S)
  BY DEF NextBoundary
<1>3. /\ \A k \in S : k <= Length => glyphs[k].linebreak # 0
      /\ \A k \in i + 1 .. Length : glyphs[k].linebreak # 0 => k \in S
  OBVIOUS
<1> HIDE DEF S
<1>4. i + 1 \in Int /\ Length + 1 \in Int
  OBVIOUS
<1>5. NextBoundary \in S /\ \A k \in S : NextBoundary <= k
  BY <1>1, <1>2, <1>4, MinMaxIn
<1>6. NextBoundary \in i + 1 .. Length + 1
  BY <1>1, <1>5
<1>7. ASSUME NEW k \in i + 1 .. NextBoundary - 1 PROVE glyphs[k].linebreak = 0
  <2>1. k \in i + 1 .. Length /\ ~ (NextBoundary <= k)
    BY <1>6
  <2> QED BY <1>3, <1>5, <2>1
<1> QED BY <1>3, <1>5, <1>6, <1>7

LEMMA LInvBalanceMoves ==
  ASSUME CInv, GInv, LInv, Balance, Promised, Moving
  PROVE  Counts' /\ AllMarked' /\ AllFit' /\ Balancing'
<1>1. /\ pc = "balance" /\ i <= Length
      /\ UNCHANGED <<state, session, n_lines, discarded>>
  BY DEF Balance, breakVars, runVars
<1>2. Counts /\ AllMarked /\ AllFit /\ Balancing
  BY <1>1 DEF LInv
<1>3. /\ Length \in Nat /\ i \in 1 .. Length /\ s2 \in 0 .. Length /\ s2 < i
      /\ Length' = Length /\ ~session.unicode
  BY <1>1, BalanceMarks DEF GInv, IsGlyphs, Sequence, Length, Promised
<1>4. /\ s2 # 0 /\ glyphs[i].linebreak = 1 /\ Better(s2, i, NextBoundary)
  BY DEF Moving
<1> DEFINE w == LastWord(s2, i)
           c == NextBoundary
<1>5. /\ s2 \in Starts /\ i \in Starts
      /\ \A k \in s2 + 1 .. i - 1 : glyphs[k].linebreak = 0
  BY <1>2, <1>3, <1>4 DEF Balancing
<1>6. i \in 2 .. Length /\ i - 1 \in 1 .. Length
  BY <1>3, <1>4
<1>7. AllowBreak(i - 1) /\ ~Feed(i - 1) /\ Space(i - 1)
  <2>1. /\ glyphs[i].linebreak = 2 <=> Feed(i - 1) /\ i - 1 <= Length
        /\ glyphs[i].linebreak = 1 => AllowBreak(i - 1)
    BY <1>2, <1>6 DEF AllMarked, MarkedUpTo
  <2> QED BY <1>3, <1>4, <2>1, Blanks
<1>8. /\ c \in i + 1 .. Length + 1
      /\ c <= Length => glyphs[c].linebreak # 0
      /\ \A k \in i + 1 .. c - 1 : glyphs[k].linebreak = 0
  BY <1>3, LineAhead
<1>9. s2 \in 1 .. Length
  BY <1>3, <1>4
<1>10. w \in s2 + 1 .. i - 1 /\ Space(w - 1)
  BY <1>3, <1>4, <1>7, <1>8, <1>9, WordBegins
<1>11. /\ s2' = w /\ i' = c
       /\ \A k \in 1 .. Length :
            /\ glyphs'[k].symbol = glyphs[k].symbol
            /\ glyphs'[k].linebreak = IF k = i THEN 0 ELSE IF k = w THEN 1 ELSE glyphs[k].linebreak
  BY BalanceMarks DEF SameText
<1> HIDE DEF w, c
<1>12. w \in 2 .. Length /\ w # i /\ w # 1 /\ glyphs[w].linebreak = 0 /\ w - 1 \in 1 .. Length
  BY <1>3, <1>5, <1>6, <1>9, <1>10
<1>13. /\ \A k : k \in Starts <=> k = 1 \/ (k \in 1 .. Length /\ glyphs[k].linebreak # 0)
       /\ \A k : k \in Starts' <=> k = 1 \/ (k \in 1 .. Length /\ glyphs'[k].linebreak # 0)
  BY <1>3 DEF Starts, Breakings
<1>14. Starts' = (Starts \ {i}) \cup {w} /\ w \notin Starts
  <2>1. ASSUME NEW k PROVE k \in Starts' <=> k \in (Starts \ {i}) \cup {w}
    <3>1. CASE k \in 1 .. Length
      BY <1>6, <1>11, <1>12, <1>13, <3>1
    <3>2. CASE k \notin 1 .. Length
      BY <1>3, <1>6, <1>12, <1>13, <3>2
    <3> QED BY <3>1, <3>2
  <2> QED BY <1>12, <1>13, <2>1
<1>15. Counts'
  <2>1. IsFiniteSet(Starts)
    BY <1>3, <1>9, StartsFew
  <2>2. Cardinality(Starts \ {i}) = Cardinality(Starts) - 1 /\ IsFiniteSet(Starts \ {i})
    BY <1>5, <2>1, FS_RemoveElement
  <2>3. Cardinality(Starts') = Cardinality(Starts \ {i}) + 1
    BY <1>14, <2>2, FS_AddElement
  <2>4. Cardinality(Starts) \in Nat
    BY <2>1, FS_CardinalityType
  <2>5. glyphs'[1].linebreak = 0
    BY <1>2, <1>3, <1>6, <1>11, <1>12 DEF Counts
  <2> QED BY <1>1, <1>2, <2>2, <2>3, <2>4, <2>5 DEF Counts
<1>16. /\ \A k \in 1 .. Length : /\ (Feed(k)' <=> Feed(k)) /\ (Blank(k)' <=> Blank(k))
                                 /\ (AllowBreak(k)' <=> AllowBreak(k)) /\ Right(k)' = Right(k)
                                 /\ Left(k)' = Left(k)
       /\ SingleSpaced' <=> SingleSpaced
  <2>1. \A k \in 1 .. Length : k \in 1 .. Length + 1
    BY <1>3
  <2> QED BY <1>1, <1>3, <1>11, <2>1, TextKept
<1>17. AllMarked'
  <2>1. ASSUME NEW k \in 2 .. Length
        PROVE  /\ glyphs'[k].linebreak = 2 <=> Feed(k - 1)' /\ k - 1 <= Length
               /\ glyphs'[k].linebreak = 1 => AllowBreak(k - 1)'
    <3>1. k \in 1 .. Length /\ k - 1 \in 1 .. Length
      BY <1>3
    <3>2. (Feed(k - 1)' <=> Feed(k - 1)) /\ (AllowBreak(k - 1)' <=> AllowBreak(k - 1))
      BY <1>16, <3>1
    <3>3. /\ glyphs[k].linebreak = 2 <=> Feed(k - 1) /\ k - 1 <= Length
          /\ glyphs[k].linebreak = 1 => AllowBreak(k - 1)
      BY <1>2 DEF AllMarked, MarkedUpTo
    <3>4. CASE k = i
      <4>1. glyphs'[k].linebreak = 0 /\ ~Feed(k - 1)
        BY <1>7, <1>11, <3>1, <3>4
      <4> QED BY <3>2, <4>1
    <3>5. CASE k = w
      <4>1. glyphs'[k].linebreak = 1 /\ ~Feed(k - 1) /\ AllowBreak(k - 1)
        BY <1>3, <1>10, <1>11, <1>12, <3>1, <3>5, Blanks
      <4> QED BY <3>2, <4>1
    <3>6. CASE k # i /\ k # w
      <4>1. glyphs'[k].linebreak = glyphs[k].linebreak
        BY <1>11, <3>1, <3>6
      <4> QED BY <3>2, <3>3, <4>1
    <3> QED BY <3>4, <3>5, <3>6
  <2> QED BY <1>3, <2>1 DEF AllMarked, MarkedUpTo
<1>18. AllFit'
  <2> SUFFICES ASSUME SingleSpaced', state'.wrap_style # 2,
                      NEW a \in 1 .. Length, NEW k \in 1 .. Length, InLine(a, k)', ~Blank(k)'
               PROVE  Fits(a, k)'
    BY <1>3 DEF AllFit, FitsUpTo
  <2>1. SingleSpaced /\ state.wrap_style # 2 /\ ~Blank(k)
    BY <1>1, <1>16
  <2>2. a \in Starts' /\ a <= k /\ \A j \in a + 1 .. k : glyphs'[j].linebreak = 0
    BY DEF InLine
  <2>3. /\ \A x, y \in 1 .. Length : InLine(x, y) /\ ~Blank(y) => Fits(x, y)
    BY <1>2, <2>1 DEF AllFit, FitsUpTo
  <2>4. Right(k)' = Right(k) /\ Left(a)' = Left(a)
    BY <1>16
  <2>5. CASE a = w
    <3>1. k \in w .. c - 1
      <4>1. SUFFICES ASSUME k >= c PROVE FALSE
        BY <1>8, <1>12, <2>2, <2>5
      <4>2. c \in a + 1 .. k /\ c \in 1 .. Length /\ c # i /\ c # w
        BY <1>3, <1>8, <1>10, <2>5, <4>1
      <4> QED BY <1>8, <1>11, <2>2, <4>2
    <3>2. \A j \in s2 .. i - 1 : ~Feed(j)
      <4>1. ASSUME NEW j \in s2 .. i - 1 PROVE ~Feed(j)
        <5>1. CASE j = i - 1
          BY <1>7, <5>1
        <5>2. CASE j # i - 1
          <6>1. j + 1 \in s2 + 1 .. i - 1 /\ j + 1 \in 2 .. Length /\ (j + 1) - 1 = j /\ j <= Length
            BY <1>3, <1>9, <5>2
          <6>2. glyphs[j + 1].linebreak = 0
            BY <1>5, <6>1
          <6>3. glyphs[j + 1].linebreak = 2 <=> Feed((j + 1) - 1) /\ (j + 1) - 1 <= Length
            BY <1>2, <6>1 DEF AllMarked, MarkedUpTo
          <6> QED BY <6>1, <6>2, <6>3
        <5> QED BY <5>1, <5>2
      <4> QED BY <4>1
    <3>3. \A j \in s2 .. i - 1 : ~Blank(j) => Fits(s2, j)
      <4>1. ASSUME NEW j \in s2 .. i - 1 PROVE InLine(s2, j) /\ j \in 1 .. Length
        <5>1. s2 <= j /\ j \in 1 .. Length /\ \A x \in s2 + 1 .. j : x \in s2 + 1 .. i - 1
          BY <1>3, <1>9
        <5> QED BY <1>5, <5>1 DEF InLine
      <4> QED BY <1>9, <2>3, <4>1
    <3>4. \A j \in w .. c - 1 : ~Blank(j) => Right(j) - Left(w) < session.width
      <4>1. session.width \in Int /\ s2 < i
        BY <1>3, WidthTyped
      <4>2. c \in i + 1 .. Length + 1 /\ Better(s2, i, c)
        BY <1>4, <1>8 DEF c
      <4>3. \A j \in LastWord(s2, i) .. c - 1 :
              ~Blank(j) => Right(j) - Left(LastWord(s2, i)) < session.width
        BY <1>3, <1>7, <1>9, <2>1, <3>2, <3>3, <4>1, <4>2, WordFits
      <4> QED BY <4>3 DEF w
    <3> QED BY <1>1, <2>1, <2>4, <2>5, <3>1, <3>4 DEF Fits
  <2>6. CASE a # w
    <3>1. a \in Starts /\ a # i
      BY <1>14, <2>2, <2>6
    <3>2. i \notin a + 1 .. k
      <4>1. SUFFICES ASSUME i \in a + 1 .. k PROVE FALSE
        OBVIOUS
      <4>2. a <= s2
        <5>1. SUFFICES ASSUME a > s2 PROVE FALSE
          BY <1>3
        <5>2. a \in s2 + 1 .. i - 1 /\ a # 1
          BY <1>3, <1>9, <4>1, <5>1
        <5> QED BY <1>5, <1>13, <3>1, <5>2
      <4>3. w \in a + 1 .. k /\ w \in 1 .. Length
        BY <1>3, <1>9, <1>10, <1>12, <4>1, <4>2
      <4> QED BY <1>11, <1>12, <2>2, <4>3
    <3>3. \A j \in a + 1 .. k : glyphs[j].linebreak = 0
      <4>1. ASSUME NEW j \in a + 1 .. k PROVE glyphs[j].linebreak = 0
        <5>1. j \in 1 .. Length /\ j # i /\ glyphs'[j].linebreak = 0
          BY <1>3, <2>2, <3>2
        <5>2. j # w
          BY <1>11, <1>12, <5>1
        <5> QED BY <1>11, <5>1, <5>2
      <4> QED BY <4>1
    <3>4. InLine(a, k)
      BY <2>2, <3>1, <3>3 DEF InLine
    <3>5. Fits(a, k)
      BY <2>1, <2>3, <3>4
    <3>6. \A j \in a .. k - 1 : AllowBreak(j)' <=> AllowBreak(j)
      <4>1. \A j \in a .. k - 1 : j \in 1 .. Length
        BY <1>3
      <4> QED BY <1>16, <4>1
    <3> QED BY <1>1, <2>4, <3>5, <3>6 DEF Fits
  <2> QED BY <2>5, <2>6
<1>19. Balancing'
  <2>1. s2' \in Starts' /\ i' \in Starts' \cup {Length' + 1}
    <3>1. s2' \in Starts'
      BY <1>11, <1>14
    <3>2. CASE c = Length + 1
      BY <1>3, <1>11, <3>1, <3>2
    <3>3. CASE c # Length + 1
      <4>1. c \in 1 .. Length /\ c # i /\ c # w
        BY <1>3, <1>8, <1>10, <3>3
      <4>2. glyphs'[c].linebreak # 0
        BY <1>8, <1>11, <4>1
      <4> QED BY <1>11, <1>13, <3>1, <4>1, <4>2
    <3> QED BY <3>2, <3>3, <3>1
  <2>2. ASSUME NEW k \in w + 1 .. c - 1 PROVE glyphs'[k].linebreak = 0
    <3>1. k \in 1 .. Length /\ k # w
      BY <1>3, <1>8, <1>12
    <3>2. k = i \/ k \in s2 + 1 .. i - 1 \/ k \in i + 1 .. c - 1
      BY <1>3, <1>8, <1>9, <1>10, <1>12
    <3> QED BY <1>5, <1>8, <1>11, <3>1, <3>2
  <2> QED BY <1>11, <2>1, <2>2 DEF Balancing
<1> QED BY <1>15, <1>17, <1>18, <1>19

LEMMA LInvBalance == CInv /\ GInv /\ LInv /\ Balance => LInv'
<1> SUFFICES ASSUME CInv, GInv, LInv, Balance PROVE LInv'
  OBVIOUS
<1>1. /\ pc = "balance" /\ pc' = "balance" /\ i <= Length
      /\ UNCHANGED <<state, session, n_lines, discarded>>
  BY DEF Balance, breakVars, runVars
<1>2. SUFFICES ASSUME Promised PROVE Counts' /\ AllMarked' /\ AllFit' /\ Balancing'
  BY <1>1 DEF LInv, Promised
<1>3. CASE Moving
  BY <1>2, <1>3, LInvBalanceMoves
<1>4. CASE ~Moving
  <2>1. Counts /\ AllMarked /\ AllFit /\ Balancing
    BY <1>1, <1>2 DEF LInv
  <2>2. /\ Length \in Nat /\ i \in 1 .. Length
        /\ glyphs' = glyphs /\ s2' = i /\ i' = NextBoundary
    BY <1>1, <1>4, BalanceMarks DEF GInv, IsGlyphs, Sequence, Length
  <2>3. /\ Length' = Length /\ Starts' = Starts
        /\ (AllMarked' <=> AllMarked) /\ (AllFit' <=> AllFit)
    BY <1>1, <2>2, Unmoved
  <2>4. /\ NextBoundary \in i + 1 .. Length + 1
        /\ NextBoundary <= Length => glyphs[NextBoundary].linebreak # 0
        /\ \A k \in i + 1 .. NextBoundary - 1 : glyphs[k].linebreak = 0
    BY <2>2, LineAhead
  <2>5. i \in Starts
    BY <2>1, <2>2, StartsIn DEF Balancing
  <2>6. NextBoundary \in Starts \cup {Length + 1}
    BY <2>2, <2>4, StartsIn
  <2>7. Balancing'
    BY <2>2, <2>3, <2>4, <2>5, <2>6 DEF Balancing
  <2>8. Counts'
    BY <1>1, <2>1, <2>2, <2>3 DEF Counts
  <2> QED BY <2>1, <2>3, <2>7, <2>8
<1> QED BY <1>3, <1>4

LEMMA LInvBalanceEnd == GInv /\ LInv /\ BalanceEnd => LInv'
<1> SUFFICES ASSUME GInv, LInv, BalanceEnd PROVE LInv'
  OBVIOUS
<1>1. /\ pc = "balance" /\ i' = 1 /\ s2' = 0
      /\ UNCHANGED <<glyphs, state, session, n_lines, discarded>>
      /\ pc' = "trim" \/ pc' = "balance"
  BY DEF BalanceEnd, textVars, breakVars, runVars
<1>2. SUFFICES ASSUME Promised PROVE Counts' /\ AllMarked' /\ AllFit' /\ Balancing'
  BY <1>1 DEF LInv, Promised
<1>3. Counts /\ AllMarked /\ AllFit
  BY <1>1, <1>2 DEF LInv
<1>4. /\ Starts' = Starts /\ (AllMarked' <=> AllMarked) /\ (AllFit' <=> AllFit)
  BY <1>1, Unmoved
<1> QED BY <1>1, <1>3, <1>4 DEF Counts, Balancing

-----------------------------------------------------------------------------
(* Trimming                                                                *)

\* What is trimmed of a line are the blanks at its edges,
LEMMA EdgesFound ==
  ASSUME Length \in Nat, NEW a \in 1 .. Length, NEW z \in 1 .. Length, IsLine(a, z),
         NEW k \in a .. z
  PROVE  k \in Trimmed <=> (\A j \in a .. k : Blank(j)) \/ (\A j \in k .. z : Blank(j))
<1>1. /\ a = 1 \/ glyphs[a].linebreak # 0
      /\ a <= z /\ \A j \in a + 1 .. z : glyphs[j].linebreak = 0
      /\ z = Length \/ glyphs[z + 1].linebreak # 0
  BY StartsIn DEF IsLine, InLine
<1>2. \A j : White(j) <=> Blank(j) /\ glyphs[j].linebreak = 0
  BY DEF White
<1>3. \A b : b \in Breakings <=> b \in 1 .. Length /\ glyphs[b].linebreak # 0
  BY DEF Breakings
<1>4. k \in 1 .. Length /\ a <= k /\ k <= z
  OBVIOUS
<1>5. ASSUME k \in Trimmed
      PROVE  (\A j \in a .. k : Blank(j)) \/ (\A j \in k .. z : Blank(j))
  <2>1. CASE k \in Trailing
    <3>1. \A j \in k .. Length : White(j)
      BY <2>1 DEF Trailing
    <3>2. \A j \in k .. z : j \in k .. Length
      BY <1>4
    <3> QED BY <1>2, <3>1, <3>2
  <2>2. CASE k \in Leading
    <3>1. \A j \in 1 .. k : White(j)
      BY <2>2 DEF Leading
    <3>2. \A j \in a .. k : j \in 1 .. k
      BY <1>4
    <3> QED BY <1>2, <3>1, <3>2
  <2>3. ASSUME NEW b \in Breakings, k \in BeforeBreak(b)
        PROVE  \A j \in k .. z : Blank(j)
    <3>1. k \in 2 .. b - 1 /\ \A j \in k .. b - 1 : White(j)
      BY <2>3 DEF BeforeBreak
    <3>2. b \notin a + 1 .. z /\ b \in Int
      BY <1>1, <1>3, <2>3
    <3>3. \A j \in k .. z : j \in k .. b - 1
      BY <1>4, <3>1, <3>2
    <3> QED BY <1>2, <3>1, <3>3
  <2>4. ASSUME NEW b \in Breakings, k \in AfterBreak(b)
        PROVE  \A j \in a .. k : Blank(j)
    <3>1. Blank(b) /\ k \in b .. Length /\ \A j \in b + 1 .. k : White(j)
      BY <2>4 DEF AfterBreak
    <3>2. b \notin a + 1 .. z /\ b \in Int
      BY <1>1, <1>3, <2>4
    <3>3. \A j \in a .. k : j = b \/ j \in b + 1 .. k
      BY <1>4, <3>1, <3>2
    <3> QED BY <1>2, <3>1, <3>3
  <2>5. \/ k \in Trailing \/ k \in Leading
        \/ \E b \in Breakings : k \in BeforeBreak(b) \/ k \in AfterBreak(b)
    BY <1>5 DEF Trimmed
  <2> QED BY <2>1, <2>2, <2>3, <2>4, <2>5
<1>6. ASSUME \A j \in a .. k : Blank(j) PROVE k \in Trimmed
  <2>1. \A j \in a + 1 .. k : j \in a + 1 .. z /\ j \in a .. k
    BY <1>4
  <2>2. \A j \in a + 1 .. k : White(j)
    BY <1>1, <1>2, <1>6, <2>1
  <2>3. Blank(a)
    BY <1>4, <1>6
  <2>4. CASE glyphs[a].linebreak # 0
    <3>1. a \in Breakings /\ k \in AfterBreak(a)
      BY <1>3, <1>4, <2>2, <2>3, <2>4 DEF AfterBreak
    <3> QED BY <3>1 DEF Trimmed
  <2>5. CASE glyphs[a].linebreak = 0
    <3>1. a = 1 /\ White(1)
      BY <1>1, <1>2, <2>3, <2>5
    <3>2. \A j \in 1 .. k : j = 1 \/ j \in a + 1 .. k
      BY <3>1
    <3>3. k \in Leading
      BY <1>4, <2>2, <3>1, <3>2 DEF Leading
    <3> QED BY <3>3 DEF Trimmed
  <2> QED BY <2>4, <2>5
<1>7. ASSUME \A j \in k .. z : Blank(j) PROVE k \in Trimmed
  <2>1. CASE k = a
    <3>1. \A j \in a .. k : j \in k .. z
      BY <1>4, <2>1
    <3> QED BY <1>6, <1>7, <3>1
  <2>2. CASE k # a
    <3>1. k \in 2 .. z /\ \A j \in k .. z : j \in a + 1 .. z
      BY <1>4, <2>2
    <3>2. \A j \in k .. z : White(j)
      BY <1>1, <1>2, <1>7, <3>1
    <3>3. CASE z = Length
      <4>1. k \in Trailing
        BY <3>1, <3>2, <3>3 DEF Trailing
      <4> QED BY <4>1 DEF Trimmed
    <3>4. CASE z # Length
      <4>1. z + 1 \in Breakings /\ (z + 1) - 1 = z
        BY <1>1, <1>3, <3>4
      <4>2. k \in BeforeBreak(z + 1)
        BY <3>1, <3>2, <4>1 DEF BeforeBreak
      <4> QED BY <4>1, <4>2 DEF Trimmed
    <3> QED BY <3>3, <3>4
  <2> QED BY <2>1, <2>2
<1> QED BY <1>5, <1>6, <1>7

\* and a run begins after those at its beginning.
LEMMA RunsFound ==
  ASSUME Length \in Nat, NEW a \in 1 .. Length, NEW z \in 1 .. Length, IsLine(a, z),
         NEW k \in a .. z, k \notin Trimmed, \A j \in a .. k - 1 : j \in Trimmed
  PROVE  k \in LineRuns
<1>1. /\ a = 1 \/ glyphs[a].linebreak # 0
      /\ a <= z /\ \A j \in a + 1 .. z : glyphs[j].linebreak = 0
  BY StartsIn DEF IsLine, InLine
<1>2. \A j : White(j) <=> Blank(j) /\ glyphs[j].linebreak = 0
  BY DEF White
<1>3. k \in 1 .. Length /\ a <= k /\ k <= z
  OBVIOUS
<1>4. ~ (\A j \in a .. k : Blank(j)) /\ ~ (\A j \in k .. z : Blank(j))
  BY EdgesFound
<1>5. \A j \in a .. k - 1 : Blank(j)
  <2>1. CASE k = a
    BY <2>1
  <2>2. CASE k # a
    <3> DEFINE m == k - 1
    <3>1. m \in a .. z /\ m \in a .. k - 1 /\ \A j \in k .. z : j \in m .. z
      BY <1>3, <2>2
    <3>2. m \in Trimmed
      BY <3>1
    <3> HIDE DEF m
    <3>3. (\A j \in a .. m : Blank(j)) \/ (\A j \in m .. z : Blank(j))
      BY <3>1, <3>2, EdgesFound
    <3>4. \A j \in a .. m : Blank(j)
      BY <1>4, <3>1, <3>3
    <3> QED BY <3>4 DEF m
  <2> QED BY <2>1, <2>2
<1>6. ~Blank(k)
  <2>1. \A j \in a .. k : j = k \/ j \in a .. k - 1
    BY <1>3
  <2> QED BY <1>4, <1>5, <2>1
<1>7. \A j \in a + 1 .. k - 1 : White(j)
  <2>1. \A j \in a + 1 .. k - 1 : j \in a .. k - 1 /\ j \in a + 1 .. z
    BY <1>3
  <2> QED BY <1>1, <1>2, <1>5, <2>1
<1>8. CASE glyphs[a].linebreak # 0
  <2>1. a \in Breakings
    BY <1>8 DEF Breakings
  <2>2. a + Cardinality(AfterBreak(a)) = k
    <3>1. CASE k = a
      <4>1. AfterBreak(a) = {}
        BY <1>6, <3>1 DEF AfterBreak
      <4> QED BY <3>1, <4>1, FS_EmptySet
    <3>2. CASE k # a
      <4>1. Blank(a)
        BY <1>3, <1>5, <3>2
      <4>2. AfterBreak(a) = a .. k - 1
        <5>1. ASSUME NEW m \in a .. Length
              PROVE  (\A j \in a + 1 .. m : White(j)) <=> m \in a .. k - 1
          <6>1. CASE m < k
            <7>1. \A j \in a + 1 .. m : j \in a + 1 .. k - 1
              BY <1>3, <6>1
            <7> QED BY <1>3, <1>7, <6>1, <7>1
          <6>2. CASE m >= k
            <7>1. k \in a + 1 .. m
              BY <1>3, <3>2, <6>2
            <7> QED BY <1>2, <1>3, <1>6, <6>2, <7>1
          <6> QED BY <1>3, <6>1, <6>2
        <5>2. AfterBreak(a) = {m \in a .. Length : \A j \in a + 1 .. m : White(j)}
          BY <4>1 DEF AfterBreak
        <5>3. \A m \in a .. k - 1 : m \in a .. Length
          BY <1>3
        <5> HIDE DEF AfterBreak
        <5> QED BY <5>1, <5>2, <5>3
      <4>3. Cardinality(a .. k - 1) = (k - 1) - a + 1
        BY <1>3, <3>2, FS_Interval
      <4> QED BY <1>3, <4>2, <4>3
    <3> QED BY <3>1, <3>2
  <2> QED BY <1>3, <2>1, <2>2 DEF LineRuns
<1>9. CASE glyphs[a].linebreak = 0
  <2>1. a = 1
    BY <1>1, <1>9
  <2>2. Leading = 1 .. k - 1
    <3>1. ASSUME NEW m \in 1 .. Length
          PROVE  (\A j \in 1 .. m : White(j)) <=> m \in 1 .. k - 1
      <4>1. CASE m < k
        <5>1. \A j \in 1 .. m : j \in a + 1 .. k - 1 \/ (j = 1 /\ j \in a .. k - 1)
          BY <1>3, <2>1, <4>1
        <5>2. \A j \in 1 .. m : White(j)
          BY <1>2, <1>5, <1>7, <1>9, <2>1, <5>1
        <5> QED BY <1>3, <4>1, <5>2
      <4>2. CASE m >= k
        <5>1. k \in 1 .. m
          BY <1>3, <4>2
        <5> QED BY <1>2, <1>3, <1>6, <4>2, <5>1
      <4> QED BY <1>3, <4>1, <4>2
    <3>2. \A m \in 1 .. k - 1 : m \in 1 .. Length
      BY <1>3
    <3> QED BY <3>1, <3>2 DEF Leading
  <2>3. Cardinality(1 .. k - 1) = k - 1
    BY <1>3, FS_Interval
  <2>4. Cardinality(Leading) + 1 = k
    BY <1>3, <2>2, <2>3
  <2> QED BY <1>3, <2>4 DEF LineRuns
<1> QED BY <1>8, <1>9

LEMMA LInvTrim == GInv /\ LInv /\ Trim => LInv'
<1> SUFFICES ASSUME GInv, LInv, Trim PROVE LInv'
  OBVIOUS
<1>1. /\ pc = "trim" /\ pc' = "measure"
      /\ UNCHANGED <<state, session, n_lines, discarded>>
  BY DEF Trim, breakVars, runVars
<1>2. SUFFICES ASSUME Promised PROVE Counts' /\ AllMarked' /\ AllFit' /\ TextTrimmed'
  BY <1>1 DEF LInv, Promised
<1>3. Counts /\ AllMarked /\ AllFit
  BY <1>1, <1>2 DEF LInv
<1>4. /\ Length \in Nat /\ Length > 0 /\ Length' = Length
      /\ \A k \in 1 .. Length :
           /\ glyphs'[k].symbol = glyphs[k].symbol
           /\ glyphs'[k].linebreak = glyphs[k].linebreak
           /\ glyphs'[k].skip <=> k \in Trimmed
           /\ k \in LineRuns => glyphs'[k].starts_new_run
  BY <1>1, TrimMarks DEF GInv, SameText
<1>5. /\ \A a, z \in 1 .. Length : IsLine(a, z)' <=> IsLine(a, z)
      /\ AllMarked' /\ AllFit' /\ Counts'
  BY <1>1, <1>3, <1>4, MarksKept
<1>6. \A k \in 1 .. Length : Blank(k)' <=> Blank(k)
  BY <1>1, <1>4, TextKept
<1>7. ASSUME NEW a \in 1 .. Length, NEW z \in 1 .. Length, IsLine(a, z)
      PROVE  LineTrimmed(a, z)'
  <2>0. \A j \in a .. z : j \in 1 .. Length
    BY <1>4
  <2>1. ASSUME NEW k \in a .. z
        PROVE  /\ glyphs'[k].skip <=> \/ \A j \in a .. k : Blank(j)'
                                      \/ \A j \in k .. z : Blank(j)'
               /\ ~glyphs'[k].skip /\ (\A j \in a .. k - 1 : glyphs'[j].skip)
                    => glyphs'[k].starts_new_run
    <3>1. /\ k \in 1 .. Length
          /\ \A j \in a .. k : j \in 1 .. Length
          /\ \A j \in k .. z : j \in 1 .. Length
          /\ \A j \in a .. k - 1 : j \in 1 .. Length
      BY <1>4
    <3>2. k \in Trimmed <=> (\A j \in a .. k : Blank(j)) \/ (\A j \in k .. z : Blank(j))
      BY <1>4, <1>7, EdgesFound
    <3>3. /\ (\A j \in a .. k : Blank(j)) <=> (\A j \in a .. k : Blank(j)')
          /\ (\A j \in k .. z : Blank(j)) <=> (\A j \in k .. z : Blank(j)')
      BY Zenon, <1>6, <3>1
    <3>4. glyphs'[k].skip <=> k \in Trimmed
      BY <1>4, <3>1
    <3>5. ASSUME ~glyphs'[k].skip, \A j \in a .. k - 1 : glyphs'[j].skip
          PROVE  glyphs'[k].starts_new_run
      <4>1. k \notin Trimmed /\ \A j \in a .. k - 1 : j \in Trimmed
        BY Zenon, <1>4, <3>1, <3>5
      <4>2. k \in LineRuns
        BY <1>4, <1>7, <4>1, RunsFound
      <4> QED BY <1>4, <3>1, <4>2
    <3> QED BY Zenon, <3>2, <3>3, <3>4, <3>5
  <2> QED BY Zenon, <2>1 DEF LineTrimmed
<1>8. TextTrimmed'
  BY Zenon, <1>4, <1>5, <1>7 DEF TextTrimmed
<1> QED BY <1>5, <1>8

-----------------------------------------------------------------------------
(* Measuring                                                               *)

\* Among the first starts there are as many as any number up to theirs.
LEMMA RankFound ==
  ASSUME NEW len \in Nat, NEW S \in SUBSET (1 .. len), NEW l \in 1 .. Cardinality(S)
  PROVE  \E m \in S : Cardinality({j \in S : j <= m}) = l
<1> DEFINE UpTo(m) == {j \in S : j <= m}
<1>1. \A m, j : j \in UpTo(m) <=> j \in S /\ j <= m
  OBVIOUS
<1>2. \A m : UpTo(m) \in SUBSET S
  OBVIOUS
<1> SUFFICES \E m \in S : Cardinality(UpTo(m)) = l
  OBVIOUS
<1> HIDE DEF UpTo
<1>3. IsFiniteSet(S) /\ \A j \in S : j \in Nat /\ 1 <= j /\ j <= len
  <2>1. IsFiniteSet(1 .. len)
    BY FS_Interval
  <2>2. IsFiniteSet(S)
    BY <2>1, FS_Subset
  <2>3. \A j \in S : j \in 1 .. len
    OBVIOUS
  <2> QED BY <2>2, <2>3
<1>4. \A m : IsFiniteSet(UpTo(m)) /\ Cardinality(UpTo(m)) \in Nat
  BY <1>2, <1>3, FS_Subset, FS_CardinalityType
<1>5. l \in Nat /\ l # 0 /\ l <= Cardinality(S)
  <2>1. Cardinality(S) \in Nat
    BY <1>3, FS_CardinalityType
  <2> QED BY <2>1
<1> DEFINE Enough == {m \in Nat : l <= Cardinality(UpTo(m))}
<1>6. Enough # {}
  <2>1. UpTo(len) = S
    BY <1>1, <1>3
  <2>2. l <= Cardinality(UpTo(len))
    BY Zenon, <1>5, <2>1
  <2>3. len \in Enough
    BY <2>2
  <2> QED BY <2>3
<1>7. \E m \in Nat : /\ l <= Cardinality(UpTo(m))
                     /\ \A k \in Nat : l <= Cardinality(UpTo(k)) => m <= k
  <2>1. \E m \in Enough : \A k \in Enough : m <= k
    BY <1>6, Smallest
  <2> QED BY <2>1
<1> HIDE DEF Enough
<1>8. PICK m \in Nat : /\ l <= Cardinality(UpTo(m))
                       /\ \A k \in Nat : l <= Cardinality(UpTo(k)) => m <= k
  BY <1>7
<1>9. m # 0
  <2>0. \A j \in S : ~ (j <= 0)
    BY <1>3
  <2>1. \A j : j \notin UpTo(0)
    BY Zenon, <1>1, <2>0
  <2>2. UpTo(0) = {}
    BY Zenon, <2>1
  <2>3. Cardinality(UpTo(0)) = 0
    BY Zenon, <2>2, FS_EmptySet
  <2> QED BY <1>5, <1>8, <2>3
<1>10. m - 1 \in Nat /\ ~ (m <= m - 1)
  BY <1>9
<1>11. ~ (l <= Cardinality(UpTo(m - 1)))
  BY <1>8, <1>10
<1>12. m \in S
  <2>1. SUFFICES ASSUME m \notin S PROVE FALSE
    OBVIOUS
  <2>2. \A j \in S : j <= m <=> j <= m - 1
    BY <1>3, <2>1
  <2>3. \A j : j \in UpTo(m) <=> j \in UpTo(m - 1)
    BY Zenon, <1>1, <2>2
  <2>4. UpTo(m) = UpTo(m - 1)
    BY <2>3
  <2> QED BY <1>8, <1>11, <2>4
<1>13. UpTo(m) = UpTo(m - 1) \cup {m} /\ m \notin UpTo(m - 1)
  <2>1. \A j \in S : j <= m <=> j <= m - 1 \/ j = m
    BY <1>3
  <2> QED BY <1>1, <1>10, <1>12, <2>1
<1>14. Cardinality(UpTo(m)) = Cardinality(UpTo(m - 1)) + 1
  BY <1>4, <1>13, FS_AddElement
<1>15. Cardinality(UpTo(m)) = l
  BY <1>4, <1>5, <1>8, <1>11, <1>14
<1> QED BY <1>12, <1>15

LEMMA LineStarts ==
  ASSUME Length \in Nat \ {0}, NEW l \in 1 .. Cardinality(Starts)
  PROVE  StartOf(l) \in Starts /\ StartOf(l) \in 1 .. Length
<1>1. Starts \in SUBSET (1 .. Length)
  BY StartsIn
<1>2. \E m \in Starts : Cardinality({j \in Starts : j <= m}) = l
  BY <1>1, RankFound
<1>3. StartOf(l) \in Starts
  BY <1>2 DEF StartOf
<1> QED BY <1>1, <1>3

\* The greatest of some integers is one of them.
LEMMA Greatest ==
  ASSUME NEW len \in Nat, NEW T \in SUBSET (1 .. len), T # {}, NEW f, \A k \in T : f[k] \in Int
  PROVE  \E k \in T : Max({f[j] : j \in T}) = f[k] /\ \A j \in T : f[j] <= f[k]
<1> DEFINE Has(m) == (\E k \in T : k <= m) =>
                       \E k \in T : k <= m /\ \A j \in T : j <= m => f[j] <= f[k]
           Bad == {m \in Nat : ~Has(m)}
<1>1. Bad = {}
  <2>1. SUFFICES ASSUME Bad # {} PROVE FALSE
    OBVIOUS
  <2>2. PICK m \in Bad : \A j \in Bad : m <= j
    BY <2>1, Smallest
  <2>3. m \in Nat /\ ~Has(m)
    OBVIOUS
  <2>4. m # 0
    <3>1. ~ (\E k \in T : k <= 0)
      OBVIOUS
    <3> QED BY <2>3, <3>1
  <2>5. m - 1 \in Nat /\ ~ (m <= m - 1)
    BY <2>3, <2>4
  <2>6. Has(m - 1)
    BY <2>2, <2>5
  <2>7. \A j \in T : j <= m <=> j = m \/ j <= m - 1
    BY <2>3
  <2>8. m \in T
    <3>1. SUFFICES ASSUME m \notin T PROVE FALSE
      OBVIOUS
    <3>2. \A j \in T : j <= m <=> j <= m - 1
      BY <2>7, <3>1
    <3> QED BY <2>3, <2>6, <3>2
  <2>9. CASE \E k \in T : k <= m - 1
    <3>1. PICK k \in T : k <= m - 1 /\ \A j \in T : j <= m - 1 => f[j] <= f[k]
      BY <2>6, <2>9
    <3>2. f[k] \in Int /\ f[m] \in Int
      BY <2>8
    <3>3. CASE f[k] <= f[m]
      <4>1. \A j \in T : j <= m => f[j] <= f[m]
        BY <2>7, <3>1, <3>2, <3>3
      <4>2. m <= m
        BY <2>3
      <4> QED BY <2>3, <2>8, <4>1, <4>2
    <3>4. CASE f[m] <= f[k]
      <4>1. \A j \in T : j <= m => f[j] <= f[k]
        BY <2>7, <3>1, <3>4
      <4>2. k <= m
        BY <2>7, <3>1
      <4> QED BY <2>3, <4>1, <4>2
    <3> QED BY <3>2, <3>3, <3>4
  <2>10. CASE ~ \E k \in T : k <= m - 1
    <3>1. \A j \in T : j <= m => j = m
      BY <2>7, <2>10
    <3>2. f[m] <= f[m] /\ m <= m
      BY <2>3, <2>8
    <3>3. \A j \in T : j <= m => f[j] <= f[m]
      BY <3>1, <3>2
    <3> QED BY <2>3, <2>8, <3>2, <3>3
  <2> QED BY <2>9, <2>10
<1>2. Has(len)
  BY <1>1
<1>3. \A j \in T : j <= len
  OBVIOUS
<1>4. PICK k \in T : \A j \in T : f[j] <= f[k]
  BY <1>2, <1>3
<1> DEFINE F == {f[j] : j \in T}
<1>5. f[k] \in F /\ \A x \in F : x <= f[k] /\ x \in Int
  BY <1>4
<1> HIDE DEF F
<1>6. Max(F) \in F /\ \A x \in F : Max(F) >= x
  <2>1. \E x \in F : \A y \in F : x >= y
    BY <1>5
  <2> QED BY <2>1 DEF Max
<1>7. Max(F) = f[k]
  BY <1>5, <1>6
<1> QED BY <1>4, <1>7 DEF F

\* A line goes from its beginning to the next, and has a height.
LEMMA LineFound ==
  ASSUME Length \in Nat \ {0}, \A k \in 1 .. Length : SizedGlyph(glyphs[k]),
         NEW first \in Starts, first \in 1 .. Length
  PROVE  /\ LineFrom(first) = [f \in LineFields |-> LineFrom(first)[f]]
         /\ IsLine(LineFrom(first).first, LineFrom(first).last)
         /\ LineFrom(first).asc \in Int /\ LineFrom(first).desc = LineFrom(first).asc
<1> DEFINE E == {Length} \cup {b - 1 : b \in {b \in Breakings : b > first}}
           last == Min(E)
           counted == Counted(first .. last)
           asc == HeightOf(counted)
<1>1. LineFrom(first) = [first |-> first, last |-> last, asc |-> asc, desc |-> asc,
                         x |-> 0, y |-> 0]
  BY Zenon DEF LineFrom
<1>2. \A b : b \in Breakings <=> b \in 1 .. Length /\ glyphs[b].linebreak # 0
  BY DEF Breakings
<1>3. last \in first .. Length /\ (last = Length \/ glyphs[last + 1].linebreak # 0)
      /\ \A j \in first + 1 .. last : glyphs[j].linebreak = 0
  <2>1. /\ Length \in E
        /\ \A x \in E : x \in first .. Length /\ (x = Length \/ x + 1 \in Breakings)
        /\ \A b \in Breakings : b > first => b - 1 \in E
    <3>1. \A b \in Breakings : b > first => b - 1 \in first .. Length /\ (b - 1) + 1 = b
      BY <1>2
    <3>2. Length \in first .. Length
      OBVIOUS
    <3> QED BY <3>1, <3>2
  <2> HIDE DEF E
  <2>2. first \in Int /\ Length \in Int /\ E \in SUBSET (first .. Length) /\ E # {}
    BY <2>1
  <2>3. last \in E /\ \A x \in E : last <= x
    BY <2>2, MinMaxIn
  <2>0. last \in first .. Length
    BY <2>1, <2>3
  <2> HIDE DEF last
  <2>4. ASSUME NEW j \in first + 1 .. last PROVE glyphs[j].linebreak = 0
    <3>1. j \in 1 .. Length /\ j > first /\ ~ (last <= j - 1)
      BY <2>0
    <3> QED BY <1>2, <2>1, <2>3, <3>1
  <2> QED BY <1>2, <2>0, <2>1, <2>3, <2>4
<1> HIDE DEF last
<1>4. counted # {} /\ counted \in SUBSET (1 .. Length)
  <2>1. first .. last # {} /\ first .. last \in SUBSET (1 .. Length)
    BY <1>3
  <2> QED BY <2>1 DEF Counted
<1> HIDE DEF counted
<1>5. asc \in Int
  <2> DEFINE f == [k \in 1 .. Length |-> Asc(k)]
             A == {Asc(k) : k \in counted}
             highest == Max(A)
  <2>1. \A k \in 1 .. Length : f[k] \in Int /\ f[k] = Asc(k)
    BY DEF Asc, SizedGlyph
  <2>2. A = {f[k] : k \in counted}
    BY <1>4, <2>1
  <2> HIDE DEF f, A
  <2>3. \A k \in counted : f[k] \in Int
    BY <1>4, <2>1
  <2>4. \E k \in counted : Max({f[j] : j \in counted}) = f[k]
    BY <1>4, <2>3, Greatest
  <2>5. highest \in Int
    BY <2>2, <2>3, <2>4
  <2>6. asc = highest \/ asc = highest \div 2
    BY Zenon DEF HeightOf, A
  <2> HIDE DEF highest, asc
  <2> QED BY <2>5, <2>6
<1> HIDE DEF asc
<1>6. InLine(first, last)
  BY <1>3 DEF InLine
<1>7. IsLine(first, last)
  BY <1>3, <1>6 DEF IsLine
<1> DEFINE line == LineFrom(first)
<1> HIDE DEF line
<1>8. /\ line = [f \in LineFields |-> line[f]] /\ line.first = first /\ line.last = last
      /\ line.asc = asc /\ line.desc = asc
  BY <1>1 DEF line, LineFields
<1> QED BY <1>5, <1>7, <1>8 DEF line

LEMMA LInvMeasure == GInv /\ SInv /\ LInv /\ Measure => LInv'
<1> SUFFICES ASSUME GInv, SInv, LInv, Measure PROVE LInv'
  OBVIOUS
<1>1. /\ pc = "measure" /\ pc' = "karaoke"
      /\ UNCHANGED <<glyphs, state, session, n_lines, discarded>>
  BY DEF Measure, textVars, breakVars, runVars
<1>2. SUFFICES ASSUME Promised
               PROVE  /\ Counts' /\ AllMarked' /\ AllFit' /\ TextTrimmed' /\ Measured'
                      /\ (height = HeightUpTo(Len(lines)))'
  BY <1>1 DEF LInv, Promised
<1>3. Counts /\ AllMarked /\ AllFit /\ TextTrimmed
  BY <1>1, <1>2 DEF LInv
<1>4. /\ Length' = Length /\ Starts' = Starts /\ (AllMarked' <=> AllMarked) /\ (AllFit' <=> AllFit)
      /\ (TextTrimmed' <=> TextTrimmed)
      /\ \A a, k : IsLine(a, k)' <=> IsLine(a, k)
  BY <1>1, Unmoved
<1>5. Length \in Nat \ {0}
  BY <1>1 DEF GInv, IsGlyphs, Sequence, Length
<1> DEFINE len == Cardinality(Starts)
<1>6. len \in Nat
  BY <1>5, StartsFew
<1>7. /\ lines' = [l \in 1 .. len |-> lines'[l]]
      /\ \A l \in 1 .. len : lines'[l] = LineFrom(StartOf(l))
      /\ height' = SumTo([l \in DOMAIN lines' |-> lines'[l].asc + lines'[l].desc], Len(lines'))
                    + (Len(lines') - 1) * line_spacing
  <2>1. lines' = [l \in 1 .. len |-> LineFrom(StartOf(l))]
    BY DEF Measure
  <2> QED BY <2>1 DEF Measure
<1>8. Len(lines') = len /\ DOMAIN lines' = 1 .. len
  <2>1. Len(lines') = len
    BY <1>6, <1>7, SequenceOf
  <2> QED BY <1>7, <2>1
<1>9. ASSUME NEW l \in 1 .. len
      PROVE  /\ lines'[l] = [f \in LineFields |-> lines'[l][f]]
             /\ IsLine(lines'[l].first, lines'[l].last)
             /\ lines'[l].asc \in Int /\ lines'[l].desc = lines'[l].asc
  <2> DEFINE first == StartOf(l)
  <2>1. first \in Starts /\ first \in 1 .. Length
    BY <1>5, LineStarts
  <2>2. lines'[l] = LineFrom(first)
    BY <1>7
  <2> HIDE DEF first
  <2>3. /\ LineFrom(first) = [f \in LineFields |-> LineFrom(first)[f]]
        /\ IsLine(LineFrom(first).first, LineFrom(first).last)
        /\ LineFrom(first).asc \in Int /\ LineFrom(first).desc = LineFrom(first).asc
    BY <1>5, <2>1, LineFound DEF SInv
  <2> QED BY Zenon, <2>2, <2>3
<1>10. Measured'
  <2>1. \A l \in 1 .. len : IsLine(lines[l].first, lines[l].last)'
    BY <1>4, <1>9
  <2> QED BY <1>4, <1>8, <1>9, <2>1 DEF Measured
<1>11. (height = HeightUpTo(Len(lines)))'
  BY Zenon, <1>7, <1>8 DEF HeightUpTo, Heights
<1>12. Counts'
  BY <1>1, <1>3, <1>4 DEF Counts
<1> QED BY <1>3, <1>4, <1>10, <1>11, <1>12

-----------------------------------------------------------------------------
(* Karaoke, and the places of the lines                                    *)

\* The glyphs of a line
LEMMA LineWithin ==
  ASSUME Length \in Nat \ {0}, NEW a, NEW z, IsLine(a, z)
  PROVE  a \in 1 .. Length /\ z \in 1 .. Length
BY StartsIn DEF IsLine, InLine

LEMMA LInvKaraoke == GInv /\ SInv /\ LInv /\ Karaoke => LInv'
<1> SUFFICES ASSUME GInv, SInv, LInv, Karaoke PROVE LInv'
  OBVIOUS
<1>1. /\ pc = "karaoke" /\ pc' = "reorder"
      /\ UNCHANGED <<state, session, n_lines, discarded, lines, height>>
  BY DEF Karaoke, breakVars, lineVars, runVars
<1>2. SUFFICES ASSUME Promised
               PROVE  /\ Counts' /\ AllMarked' /\ AllFit' /\ TextTrimmed' /\ Measured'
                      /\ (height = HeightUpTo(Len(lines)))'
  BY <1>1 DEF LInv, Promised
<1>3. /\ Counts /\ AllMarked /\ AllFit /\ TextTrimmed /\ Measured
      /\ height = HeightUpTo(Len(lines))
  BY <1>1, <1>2 DEF LInv
<1>4. /\ Length \in Nat \ {0} /\ Length > 0 /\ Length' = Length
      /\ \A k \in 1 .. Length :
           /\ glyphs'[k].symbol = glyphs[k].symbol
           /\ glyphs'[k].linebreak = glyphs[k].linebreak
           /\ glyphs'[k].skip = glyphs[k].skip
           /\ glyphs'[k].starts_new_run = glyphs[k].starts_new_run
  BY <1>1, KaraokeMarks DEF GInv, SInv
<1>5. /\ Starts' = Starts /\ \A a, z \in 1 .. Length : IsLine(a, z)' <=> IsLine(a, z)
      /\ AllMarked' /\ AllFit' /\ Counts'
  BY <1>1, <1>3, <1>4, MarksKept
<1>6. \A k \in 1 .. Length : Blank(k)' <=> Blank(k)
  BY <1>1, <1>4, TextKept
<1>7. ASSUME NEW a \in 1 .. Length, NEW z \in 1 .. Length, IsLine(a, z)
      PROVE  LineTrimmed(a, z)'
  <2>1. LineTrimmed(a, z)
    BY <1>3, <1>7 DEF TextTrimmed
  <2>2. ASSUME NEW k \in a .. z
        PROVE  /\ glyphs'[k].skip <=> \/ \A j \in a .. k : Blank(j)'
                                      \/ \A j \in k .. z : Blank(j)'
               /\ ~glyphs'[k].skip /\ (\A j \in a .. k - 1 : glyphs'[j].skip)
                    => glyphs'[k].starts_new_run
    <3>1. /\ k \in 1 .. Length
          /\ \A j \in a .. k : j \in 1 .. Length
          /\ \A j \in k .. z : j \in 1 .. Length
          /\ \A j \in a .. k - 1 : j \in 1 .. Length
      BY <1>4
    <3>2. /\ (\A j \in a .. k : Blank(j)) <=> (\A j \in a .. k : Blank(j)')
          /\ (\A j \in k .. z : Blank(j)) <=> (\A j \in k .. z : Blank(j)')
      BY Zenon, <1>6, <3>1
    <3>3. /\ glyphs[k].skip <=> (\A j \in a .. k : Blank(j)) \/ (\A j \in k .. z : Blank(j))
          /\ ~glyphs[k].skip /\ (\A j \in a .. k - 1 : glyphs[j].skip)
               => glyphs[k].starts_new_run
      BY Zenon, <2>1, <2>2 DEF LineTrimmed
    <3>4. /\ glyphs'[k].skip = glyphs[k].skip
          /\ glyphs'[k].starts_new_run = glyphs[k].starts_new_run
          /\ \A j \in a .. k - 1 : glyphs'[j].skip = glyphs[j].skip
      BY Zenon, <1>4, <3>1
    <3> QED BY Zenon, <3>2, <3>3, <3>4
  <2> QED BY Zenon, <2>2 DEF LineTrimmed
<1>8. TextTrimmed'
  BY Zenon, <1>4, <1>5, <1>7 DEF TextTrimmed
<1>9. Measured'
  <2>1. ASSUME NEW l \in 1 .. Len(lines) PROVE IsLine(lines[l].first, lines[l].last)'
    <3>1. IsLine(lines[l].first, lines[l].last)
      BY <1>3 DEF Measured
    <3> DEFINE a == lines[l].first
               z == lines[l].last
    <3>2. a \in 1 .. Length /\ z \in 1 .. Length
      BY <1>4, <3>1, LineWithin
    <3>3. a' = a /\ z' = z
      BY <1>1
    <3> QED BY <1>5, <3>1, <3>2, <3>3
  <2> QED BY <1>1, <1>3, <1>5, <2>1 DEF Measured
<1>10. (height = HeightUpTo(Len(lines)))'
  BY <1>1, <1>3 DEF HeightUpTo, Heights
<1> QED BY <1>5, <1>8, <1>9, <1>10

LEMMA LineKept ==
  ASSUME NEW line, line = [f \in LineFields |-> line[f]], NEW v
  PROVE  /\ LET moved_line == [line EXCEPT !.y = v]
            IN  /\ moved_line = [f \in LineFields |-> moved_line[f]]
                /\ moved_line.first = line.first /\ moved_line.last = line.last
                /\ moved_line.asc = line.asc /\ moved_line.desc = line.desc
                /\ moved_line.y = v
         /\ LET moved_line == [line EXCEPT !.x = v]
            IN  /\ moved_line = [f \in LineFields |-> moved_line[f]]
                /\ moved_line.first = line.first /\ moved_line.last = line.last
                /\ moved_line.asc = line.asc /\ moved_line.desc = line.desc
                /\ moved_line.y = line.y /\ moved_line.x = v
BY DEF LineFields

\* Lines that are moved are the same lines.
LEMMA MeasuredKept ==
  ASSUME Length \in Nat \ {0}, Measured, glyphs' = glyphs, state' = state, session' = session,
         Len(lines') = Len(lines),
         \A l \in 1 .. Len(lines) :
           /\ lines'[l] = [f \in LineFields |-> lines'[l][f]]
           /\ lines'[l].first = lines[l].first /\ lines'[l].last = lines[l].last
           /\ lines'[l].asc = lines[l].asc /\ lines'[l].desc = lines[l].desc
  PROVE  Measured'
<1>1. Starts' = Starts /\ \A a, z : IsLine(a, z)' <=> IsLine(a, z)
  BY Unmoved
<1>2. ASSUME NEW l \in 1 .. Len(lines) PROVE IsLine(lines[l].first, lines[l].last)'
  <2>1. IsLine(lines[l].first, lines[l].last)
    BY DEF Measured
  <2>2. lines[l].first' = lines[l].first /\ lines[l].last' = lines[l].last
    OBVIOUS
  <2> QED BY <1>1, <2>1, <2>2
<1> QED BY <1>1, <1>2 DEF Measured

\* The last baseline is where the heights and the space between lines add up to.
LEMMA Baselines ==
  ASSUME Measured, Len(lines) \in Nat \ {0}, NEW g,
         \A m \in 1 .. Len(lines) :
           g[m] = IF m = 1 THEN 0 ELSE lines[m - 1].desc + lines[m].asc + line_spacing
  PROVE  \A l \in 1 .. Len(lines) :
           lines[1].asc + SumTo(g, l) + lines[l].desc = HeightUpTo(l)
<1> DEFINE len == Len(lines)
           h == Heights
           asc(m) == lines[m].asc
<1>1. \A m \in 1 .. len : asc(m) \in Int /\ lines[m].asc = asc(m) /\ lines[m].desc = asc(m)
  BY DEF Measured
<1>2. \A m \in 1 .. len : h[m] = asc(m) + asc(m)
  BY <1>1 DEF Heights
<1>3. \A l : HeightUpTo(l) = SumTo(h, l) + (l - 1) * line_spacing
  BY Zenon DEF HeightUpTo
<1>4. line_spacing \in Int /\ len \in Nat \ {0}
  BY LinesAssumption
<1> HIDE DEF h, asc, len
<1>5. \A m \in 1 .. len : g[m] = IF m = 1 THEN 0 ELSE asc(m - 1) + asc(m) + line_spacing
  <2>1. ASSUME NEW m \in 1 .. len, m # 1 PROVE m - 1 \in 1 .. len
    BY <1>4, <2>1
  <2> QED BY <1>1, <2>1 DEF len
<1>6. \A m \in 0 .. len : SumTo(h, m) \in Int
  <2>1. \A m \in 1 .. len : h[m] \in Int
    BY <1>1, <1>2
  <2> QED BY <1>4, <2>1, SumTyped
<1>7. \A m \in 0 .. len : SumTo(g, m) \in Int
  <2>1. ASSUME NEW m \in 1 .. len PROVE g[m] \in Int
    <3>1. CASE m = 1
      BY <1>5, <3>1
    <3>2. CASE m # 1
      <4>1. m - 1 \in 1 .. len
        BY <1>4, <3>2
      <4> QED BY <1>1, <1>4, <1>5, <3>2, <4>1
    <3> QED BY <3>1, <3>2
  <2> QED BY <1>4, <2>1, SumTyped
<1> DEFINE Off == {l \in 1 .. len : asc(1) + SumTo(g, l) + asc(l) # HeightUpTo(l)}
<1>8. Off = {}
  <2>1. SUFFICES ASSUME Off # {} PROVE FALSE
    OBVIOUS
  <2>2. PICK l \in Off : \A j \in Off : l <= j
    <3>1. Off \in SUBSET Nat
      BY <1>4
    <3> QED BY <2>1, <3>1, Smallest
  <2>3. l \in 1 .. len /\ asc(1) + SumTo(g, l) + asc(l) # HeightUpTo(l)
    OBVIOUS
  <2>4. /\ l \in Nat \ {0} /\ l - 1 \in 0 .. len
        /\ SumTo(g, l) = SumTo(g, l - 1) + g[l] /\ SumTo(h, l) = SumTo(h, l - 1) + h[l]
    <3>1. l \in Nat \ {0} /\ l - 1 \in 0 .. len
      BY <1>4, <2>3
    <3> QED BY <3>1, SumNext
  <2>5. CASE l = 1
    <3>1. SumTo(g, 1) = 0 /\ SumTo(h, 1) = asc(1) + asc(1)
      BY <1>1, <1>2, <1>5, <2>3, <2>4, <2>5, SumNext
    <3>2. HeightUpTo(1) = SumTo(h, 1)
      BY <1>1, <1>3, <1>4, <3>1, <2>3, <2>5
    <3> QED BY <1>1, <2>3, <2>5, <3>1, <3>2
  <2>6. CASE l # 1
    <3>1. l - 1 \in 1 .. len /\ ~ (l <= l - 1)
      BY <1>4, <2>3, <2>6
    <3>2. asc(1) + SumTo(g, l - 1) + asc(l - 1) = HeightUpTo(l - 1)
      BY <2>2, <3>1
    <3> DEFINE p == ((l - 1) - 1) * line_spacing
               q == (l - 1) * line_spacing
    <3>3. p \in Int /\ q = p + line_spacing
      BY <1>4, <2>3
    <3>4. HeightUpTo(l) = SumTo(h, l) + q /\ HeightUpTo(l - 1) = SumTo(h, l - 1) + p
      BY <1>3
    <3> HIDE DEF p, q
    <3>5. /\ g[l] = asc(l - 1) + asc(l) + line_spacing /\ h[l] = asc(l) + asc(l)
          /\ asc(l) \in Int /\ asc(l - 1) \in Int /\ asc(1) \in Int
          /\ SumTo(g, l - 1) \in Int /\ SumTo(h, l - 1) \in Int
      <4>1. 1 \in 1 .. len
        BY <1>4
      <4> QED BY <1>1, <1>2, <1>5, <1>6, <1>7, <2>3, <2>4, <2>6, <3>1, <4>1
    <3> DEFINE A == asc(1)
               B == asc(l - 1)
               C == asc(l)
               G == SumTo(g, l - 1)
               H == SumTo(h, l - 1)
    <3>6. A + (G + (B + C + line_spacing)) + C = (H + (C + C)) + (p + line_spacing)
      <4>1. A \in Int /\ B \in Int /\ C \in Int /\ G \in Int /\ H \in Int
        BY <3>5
      <4>2. A + G + B = H + p
        BY Zenon, <3>2, <3>4
      <4> HIDE DEF A, B, C, G, H
      <4> QED BY <1>4, <3>3, <4>1, <4>2
    <3>7. A + SumTo(g, l) + C = HeightUpTo(l)
      BY Zenon, <2>4, <3>3, <3>4, <3>5, <3>6
    <3> QED BY Zenon, <2>3, <3>7
  <2> QED BY <2>5, <2>6
<1>9. \A l \in 1 .. len : lines[1].asc + SumTo(g, l) + lines[l].desc = HeightUpTo(l)
  <2>1. 1 \in 1 .. len
    BY <1>4
  <2> QED BY <1>1, <1>8, <2>1
<1> QED BY <1>9 DEF len

LEMMA LInvReorder == GInv /\ LInv /\ Reorder => LInv'
<1> SUFFICES ASSUME GInv, LInv, Reorder PROVE LInv'
  OBVIOUS
<1>1. /\ pc = "reorder" /\ pc' = "align"
      /\ UNCHANGED <<glyphs, state, session, n_lines, discarded, height>>
  BY DEF Reorder, textVars, breakVars, runVars
<1>2. SUFFICES ASSUME Promised
               PROVE  Counts' /\ AllMarked' /\ AllFit' /\ TextTrimmed' /\ Measured' /\ Stacked'
  BY <1>1 DEF LInv, Promised
<1>3. /\ Counts /\ AllMarked /\ AllFit /\ TextTrimmed /\ Measured
      /\ height = HeightUpTo(Len(lines))
  BY <1>1, <1>2 DEF LInv
<1>4. /\ Starts' = Starts /\ (AllMarked' <=> AllMarked) /\ (AllFit' <=> AllFit)
      /\ (TextTrimmed' <=> TextTrimmed)
  BY <1>1, Unmoved
<1>5. /\ Length \in Nat \ {0} /\ Len(lines) \in Nat /\ lines = [l \in 1 .. Len(lines) |-> lines[l]]
  BY <1>1 DEF GInv, IsGlyphs, Sequence, Length
<1>6. Len(lines) \in Nat \ {0}
  BY <1>3, <1>5, StartsFew DEF Measured
<1> DEFINE len == Len(lines)
           g == [m \in 1 .. len |-> IF m = 1 THEN 0
                  ELSE lines[m - 1].desc + lines[m].asc + line_spacing]
<1>7. /\ lines' = [l \in 1 .. len |-> lines'[l]]
      /\ \A l \in 1 .. len : lines'[l] = [lines[l] EXCEPT !.y = SumTo(g, l)]
  <2>1. DOMAIN lines = 1 .. len
    BY <1>5
  <2>2. lines' = [l \in 1 .. len |-> [lines[l] EXCEPT !.y = SumTo(g, l)]]
    BY <2>1 DEF Reorder
  <2> HIDE DEF g
  <2> QED BY <2>2
<1>8. Len(lines') = len
  BY <1>5, <1>7, SequenceOf
<1>9. \A m \in 1 .. len :
        g[m] = IF m = 1 THEN 0 ELSE lines[m - 1].desc + lines[m].asc + line_spacing
  OBVIOUS
<1> HIDE DEF g
<1>10. ASSUME NEW l \in 1 .. len
       PROVE  /\ lines'[l] = [f \in LineFields |-> lines'[l][f]]
              /\ lines'[l].first = lines[l].first /\ lines'[l].last = lines[l].last
              /\ lines'[l].asc = lines[l].asc /\ lines'[l].desc = lines[l].desc
              /\ lines'[l].y = SumTo(g, l)
  <2> DEFINE line == lines[l]
             v == SumTo(g, l)
             new == [line EXCEPT !.y = v]
  <2>1. line = [f \in LineFields |-> line[f]]
    BY <1>3 DEF Measured
  <2>2. lines'[l] = new
    BY <1>7
  <2> HIDE DEF line, v
  <2>3. /\ new = [f \in LineFields |-> new[f]]
        /\ new.first = line.first /\ new.last = line.last
        /\ new.asc = line.asc /\ new.desc = line.desc /\ new.y = v
    BY <2>1, LineKept
  <2> HIDE DEF new
  <2> QED BY Zenon, <2>2, <2>3 DEF line, v
<1>11. Measured'
  BY <1>1, <1>3, <1>5, <1>8, <1>10, MeasuredKept
<1>12. Stacked'
  <2>1. 1 \in 1 .. len /\ len \in 1 .. len
    BY <1>6
  <2>2. lines[1].asc + SumTo(g, len) + lines[len].desc = HeightUpTo(len)
    BY <1>3, <1>6, <1>9, <2>1, Baselines
  <2>3. lines'[1].asc + lines'[len].y + lines'[len].desc = height
    BY Zenon, <1>3, <1>10, <2>1, <2>2
  <2> QED BY Zenon, <1>1, <1>8, <2>3 DEF Stacked
<1>13. Counts'
  BY <1>1, <1>3, <1>4 DEF Counts
<1> QED BY <1>3, <1>4, <1>11, <1>12, <1>13

\* A line is as wide as what is shown of it, and at most as the widest.
LEMMA WidthsTyped ==
  ASSUME Length \in Nat, Len(lines) \in Nat \ {0}, DOMAIN lines = 1 .. Len(lines)
  PROVE  /\ MaxWidth \in Int
         /\ \A l \in 1 .. Len(lines) : Width(l) \in Nat /\ Width(l) <= MaxWidth
<1>1. ASSUME NEW l PROVE Width(l) \in Nat
  <2> DEFINE f == [k \in 1 .. Length |->
                     IF k \in Glyphs(l) /\ ~glyphs[k].skip THEN Advance(k) ELSE 0]
  <2>1. \A k \in 1 .. Length : f[k] = Advance(k) \/ f[k] = 0
    OBVIOUS
  <2>2. Width(l) = 2 * SumTo(f, Length)
    BY Zenon DEF Width
  <2> HIDE DEF f
  <2>3. \A k \in 1 .. Length : f[k] \in Nat
    <3>1. \A k : Advance(k) \in {0, 1, 2}
      BY Advances
    <3> QED BY <2>1, <3>1
  <2>4. SumTo(f, 0) <= SumTo(f, Length)
    <3>1. \A a, b \in 0 .. Length : a <= b => SumTo(f, a) <= SumTo(f, b)
      BY <2>3, SumGrows
    <3>2. 0 \in 0 .. Length /\ Length \in 0 .. Length /\ 0 <= Length
      OBVIOUS
    <3> QED BY <3>1, <3>2
  <2>5. SumTo(f, Length) \in Int
    <3>1. \A k \in 1 .. Length : f[k] \in Int
      BY <2>3
    <3>2. Length \in 0 .. Length
      OBVIOUS
    <3> QED BY <3>1, <3>2, SumTyped
  <2>6. SumTo(f, Length) \in Nat
    BY <2>4, <2>5, SumNext
  <2> QED BY <2>2, <2>6
<1> DEFINE len == Len(lines)
           T == 1 .. len
           w == [l \in T |-> Width(l)]
<1>2. \A l \in T : w[l] \in Int /\ w[l] = Width(l)
  BY <1>1
<1>3. MaxWidth = Max({w[l] : l \in T})
  <2>1. {Width(l) : l \in DOMAIN lines} = {w[l] : l \in T}
    OBVIOUS
  <2> QED BY <2>1 DEF MaxWidth
<1> HIDE DEF w
<1>4. \E k \in T : Max({w[l] : l \in T}) = w[k] /\ \A j \in T : w[j] <= w[k]
  <2>1. T # {}
    OBVIOUS
  <2> QED BY <1>2, <2>1, Greatest
<1> QED BY <1>1, <1>2, <1>3, <1>4

LEMMA ShiftWithin ==
  ASSUME NEW l, NEW h \in 0 .. 3, NEW j, MaxWidth \in Int, Width(l) \in Nat, Width(l) <= MaxWidth,
         session.width \in Int, MaxWidth <= 2 * session.width
  PROVE  Shift(l, h, j) \in 0 .. 2 * session.width - Width(l)
<1> DEFINE frame == 2 * session.width
           most == MaxWidth
           width == Width(l)
           side == IF h # 0 /\ j \in 1 .. 3 THEN j ELSE h
           place(s, free) == CASE s \in {0, 1} -> 0 [] s = 2 -> free \div 2 [] s = 3 -> free
<1>1. frame \in Int /\ most \in Int /\ width \in Nat /\ width <= most /\ most <= frame
  OBVIOUS
<1>2. Shift(l, h, j) = place(h, frame - most) + place(side, most - width)
  BY DEF Shift
<1>3. side \in 0 .. 3
  <2>1. CASE h # 0 /\ j \in 1 .. 3
    BY <2>1
  <2>2. CASE ~ (h # 0 /\ j \in 1 .. 3)
    BY <2>2
  <2> QED BY <2>1, <2>2
<1>4. \A s \in 0 .. 3, free \in Nat : place(s, free) \in 0 .. free
  <2> SUFFICES ASSUME NEW s \in 0 .. 3, NEW free \in Nat PROVE place(s, free) \in 0 .. free
    OBVIOUS
  <2>1. CASE s \in {0, 1}
    BY <2>1
  <2>2. CASE s = 2
    BY <2>2
  <2>3. CASE s = 3
    BY <2>3
  <2> QED BY <2>1, <2>2, <2>3
<1> HIDE DEF place, side
<1>5. place(h, frame - most) \in 0 .. frame - most /\ place(side, most - width) \in 0 .. most - width
  <2>1. frame - most \in Nat /\ most - width \in Nat
    BY <1>1
  <2> QED BY <1>3, <1>4, <2>1
<1> HIDE DEF frame, most, width
<1>6. Shift(l, h, j) \in 0 .. frame - width
  BY <1>1, <1>2, <1>5
<1> QED BY <1>6 DEF frame, width

LEMMA LInvAlign == CInv /\ GInv /\ SInv /\ LInv /\ AlignLines => LInv'
<1> SUFFICES ASSUME CInv, GInv, SInv, LInv, AlignLines PROVE LInv'
  OBVIOUS
<1>1. /\ pc = "align" /\ pc' = "done"
      /\ UNCHANGED <<glyphs, state, session, n_lines, discarded, height>>
  BY DEF AlignLines, textVars, breakVars, runVars
<1>2. SUFFICES ASSUME Promised
               PROVE  /\ Counts' /\ AllMarked' /\ AllFit' /\ TextTrimmed' /\ Measured' /\ Stacked'
                      /\ InFrame'
  BY <1>1 DEF LInv, Promised
<1>3. Counts /\ AllMarked /\ AllFit /\ TextTrimmed /\ Measured /\ Stacked
  BY <1>1, <1>2 DEF LInv
<1>4. /\ Length' = Length /\ Starts' = Starts
      /\ (AllMarked' <=> AllMarked) /\ (AllFit' <=> AllFit) /\ (TextTrimmed' <=> TextTrimmed)
      /\ \A k : Advance(k)' = Advance(k)
  BY <1>1, Unmoved
<1>5. /\ Length \in Nat \ {0} /\ Len(lines) \in Nat /\ lines = [l \in 1 .. Len(lines) |-> lines[l]]
  BY <1>1 DEF GInv, IsGlyphs, Sequence, Length
<1>6. Len(lines) \in Nat \ {0} /\ DOMAIN lines = 1 .. Len(lines)
  BY <1>3, <1>5, StartsFew DEF Measured
<1>7. PICK h \in {state.alignment % 4}, scrolls \in BOOLEAN :
        lines' = [l \in DOMAIN lines |-> [lines[l] EXCEPT !.x =
                    IF scrolls THEN Shift(l, 1, h) ELSE Shift(l, h, state.justify)]]
  BY DEF AlignLines
<1>8. h \in 0 .. 3
  <2>1. state.alignment \in Int
    BY <1>1 DEF SInv, Sized
  <2> QED BY <2>1
<1> DEFINE len == Len(lines)
           place(l) == IF scrolls THEN Shift(l, 1, h) ELSE Shift(l, h, state.justify)
<1>9. /\ lines' = [l \in 1 .. len |-> lines'[l]]
      /\ \A l \in 1 .. len : lines'[l] = [lines[l] EXCEPT !.x = place(l)]
  BY <1>6, <1>7
<1>10. ASSUME MaxWidth <= 2 * session.width, NEW l \in 1 .. len
       PROVE  place(l) \in 0 .. 2 * session.width - Width(l)
  <2>1. /\ MaxWidth \in Int /\ Width(l) \in Nat /\ Width(l) <= MaxWidth /\ session.width \in Int
    BY <1>5, <1>6, WidthsTyped, WidthTyped
  <2>2. /\ Shift(l, 1, h) \in 0 .. 2 * session.width - Width(l)
        /\ Shift(l, h, state.justify) \in 0 .. 2 * session.width - Width(l)
    <3>1. 1 \in 0 .. 3
      OBVIOUS
    <3> QED BY <1>8, <1>10, <2>1, <3>1, ShiftWithin
  <2> QED BY Zenon, <2>2
<1> HIDE DEF place
<1>11. Len(lines') = len
  BY <1>5, <1>9, SequenceOf
<1>12. ASSUME NEW l \in 1 .. len
       PROVE  /\ lines'[l] = [f \in LineFields |-> lines'[l][f]]
              /\ lines'[l].first = lines[l].first /\ lines'[l].last = lines[l].last
              /\ lines'[l].asc = lines[l].asc /\ lines'[l].desc = lines[l].desc
              /\ lines'[l].y = lines[l].y /\ lines'[l].x = place(l)
  <2> DEFINE line == lines[l]
             v == place(l)
             new == [line EXCEPT !.x = v]
  <2>1. line = [f \in LineFields |-> line[f]]
    BY <1>3 DEF Measured
  <2>2. lines'[l] = new
    BY <1>9
  <2> HIDE DEF line, v
  <2>3. /\ new = [f \in LineFields |-> new[f]]
        /\ new.first = line.first /\ new.last = line.last
        /\ new.asc = line.asc /\ new.desc = line.desc /\ new.y = line.y /\ new.x = v
    BY <2>1, LineKept
  <2> HIDE DEF new
  <2> QED BY Zenon, <2>2, <2>3 DEF line, v
<1>13. Measured'
  BY <1>1, <1>3, <1>5, <1>11, <1>12, MeasuredKept
<1>14. Stacked'
  <2>1. 1 \in 1 .. len /\ len \in 1 .. len
    BY <1>6
  <2>2. lines'[1].asc = lines[1].asc /\ lines'[len].y = lines[len].y /\ lines'[len].desc = lines[len].desc
    BY <1>12, <2>1
  <2> QED BY Zenon, <1>1, <1>3, <1>11, <2>2 DEF Stacked
<1>15. ASSUME NEW l \in 1 .. len PROVE Width(l)' = Width(l)
  <2>1. lines'[l].first = lines[l].first /\ lines'[l].last = lines[l].last
    BY <1>12
  <2>2. Glyphs(l)' = Glyphs(l)
    BY Zenon, <2>1 DEF Glyphs
  <2>3. [k \in 1 .. Length |-> IF k \in Glyphs(l) /\ ~glyphs[k].skip THEN Advance(k) ELSE 0]'
        = [k \in 1 .. Length |-> IF k \in Glyphs(l) /\ ~glyphs[k].skip THEN Advance(k) ELSE 0]
    BY <1>1, <1>4, <2>2
  <2> QED BY Zenon, <1>4, <2>3 DEF Width
<1>16. MaxWidth' = MaxWidth
  <2>1. DOMAIN lines' = 1 .. len /\ DOMAIN lines = 1 .. len
    BY <1>6, <1>9
  <2>2. {Width(l) : l \in DOMAIN lines}' = {Width(l) : l \in DOMAIN lines}
    BY <1>15, <2>1
  <2> QED BY Zenon, <2>2 DEF MaxWidth
<1>17. InFrame'
  <2>1. ASSUME MaxWidth' <= 2 * session'.width, NEW l \in 1 .. len
        PROVE  lines'[l].x \in 0 .. 2 * session'.width - Width(l)'
    <3>1. place(l) \in 0 .. 2 * session.width - Width(l)
      BY <1>1, <1>10, <1>16, <2>1
    <3> QED BY <1>1, <1>12, <1>15, <3>1
  <2> QED BY <1>11, <2>1 DEF InFrame
<1>18. Counts'
  BY <1>1, <1>3, <1>4 DEF Counts
<1> QED BY <1>3, <1>4, <1>13, <1>14, <1>17, <1>18

-----------------------------------------------------------------------------
(* All steps                                                               *)

LEMMA LInvSame == LInv /\ UNCHANGED vars => LInv'
<1> SUFFICES ASSUME LInv, UNCHANGED vars PROVE LInv'
  OBVIOUS
<1>1. UNCHANGED <<glyphs, state, session, n_lines, discarded, lines, height, pc, i, s1, s2,
                  last_breakable>>
  BY DEF vars, textVars, breakVars, loopVars, lineVars, runVars
<1>2. /\ Length' = Length /\ Starts' = Starts
      /\ \A k : (AllowBreak(k)' <=> AllowBreak(k)) /\ Advance(k)' = Advance(k)
      /\ \A a, k : IsLine(a, k)' <=> IsLine(a, k)
      /\ \A m : (MarkedUpTo(m)' <=> MarkedUpTo(m)) /\ (FitsUpTo(m)' <=> FitsUpTo(m))
      /\ (AllMarked' <=> AllMarked) /\ (AllFit' <=> AllFit)
      /\ (TextTrimmed' <=> TextTrimmed) /\ (Unmarked' <=> Unmarked)
  BY <1>1, Unmoved
<1>3. (Promised' <=> Promised) /\ (Counts' <=> Counts) /\ (Balancing' <=> Balancing)
  BY <1>1, <1>2 DEF Promised, Counts, Balancing
<1>4. Wrapping => Wrapping'
  <2>1. i' - 1 = i - 1
    BY <1>1
  <2>2. MarkedUpTo(i - 1) /\ FitsUpTo(i - 1) => MarkedUpTo(i - 1)' /\ FitsUpTo(i - 1)'
    BY <1>2, <2>1
  <2> QED BY <1>1, <1>2, <2>2 DEF Wrapping
<1>5. Measured => Measured'
  <2>1. \A l : IsLine(lines[l].first, lines[l].last)' <=> IsLine(lines[l].first, lines[l].last)
    BY <1>1, <1>2
  <2> QED BY <1>1, <1>2, <2>1 DEF Measured
<1>6. /\ (height = HeightUpTo(Len(lines)))' <=> height = HeightUpTo(Len(lines))
      /\ Stacked' <=> Stacked
  BY <1>1 DEF HeightUpTo, Heights, Stacked
<1>7. InFrame' <=> InFrame
  <2>1. ASSUME NEW l PROVE Width(l)' = Width(l)
    <3>1. [k \in 1 .. Length |-> IF k \in Glyphs(l) /\ ~glyphs[k].skip THEN Advance(k) ELSE 0]'
          = [k \in 1 .. Length |-> IF k \in Glyphs(l) /\ ~glyphs[k].skip THEN Advance(k) ELSE 0]
      BY <1>1, <1>2 DEF Glyphs
    <3> QED BY Zenon, <1>2, <3>1 DEF Width
  <2>2. {Width(l) : l \in DOMAIN lines}' = {Width(l) : l \in DOMAIN lines}
    BY <1>1, <2>1
  <2>3. MaxWidth' = MaxWidth
    BY Zenon, <2>2 DEF MaxWidth
  <2> QED BY <1>1, <2>1, <2>3 DEF InFrame
<1> QED BY <1>1, <1>2, <1>3, <1>4, <1>5, <1>6, <1>7 DEF LInv

LEMMA LInvInit == Init => LInv
<1> SUFFICES ASSUME Init PROVE LInv
  OBVIOUS
<1>1. pc = "idle"
  BY DEF Init
<1> QED BY <1>1 DEF LInv

LEMMA LInvNext == CInv /\ GInv /\ SInv /\ LInv /\ [Next]_vars => LInv'
<1> SUFFICES ASSUME CInv, GInv, SInv, LInv, [Next]_vars PROVE LInv'
  OBVIOUS
<1>1. CASE UNCHANGED vars
  BY <1>1, LInvSame
<1>2. ASSUME pc' = "idle" PROVE LInv'
  BY <1>2 DEF LInv
<1>3. CASE Begin
  <2>1. pc' = "parse" /\ Length' = 0
    BY <1>3, EmptySequence DEF Begin, Length
  <2>2. Unmarked'
    BY <2>1 DEF Unmarked
  <2> QED BY <2>1, <2>2 DEF LInv
<1>4. CASE Block
  <2>1. pc = "parse" /\ pc' = "parse" /\ glyphs' = glyphs
    BY <1>4 DEF Block
  <2>2. Unmarked'
    BY <2>1 DEF LInv, Unmarked, Length
  <2> QED BY <2>1, <2>2 DEF LInv
<1>5. CASE Glyph
  BY <1>5, LInvGlyph
<1>6. CASE GlyphFails
  BY <1>2, <1>6 DEF GlyphFails, GiveUp
<1>7. CASE TextEnd
  <2>1. CASE glyphs = <<>>
    BY <1>2, <1>7, <2>1 DEF TextEnd, GiveUp
  <2>2. CASE glyphs # <<>>
    <3>1. pc = "parse" /\ pc' = "split" /\ glyphs' = glyphs
      BY <1>7, <2>2 DEF TextEnd, textVars
    <3>2. Unmarked'
      BY <3>1 DEF LInv, Unmarked, Length
    <3> QED BY <3>1, <3>2 DEF LInv
  <2> QED BY <2>1, <2>2
<1>8. CASE Split
  BY <1>8, LInvSplit
<1>9. CASE ShapingFails
  BY <1>2, <1>9 DEF ShapingFails, GiveUp
<1>10. CASE WrapGlyph
  BY <1>10, LInvWrapGlyph
<1>11. CASE \E fails \in BOOLEAN : WrapBreak(fails)
  BY <1>11, LInvWrapBreak
<1>12. CASE WrapEnd
  BY <1>12, LInvWrapEnd
<1>13. CASE Balance
  BY <1>13, LInvBalance
<1>14. CASE BalanceEnd
  BY <1>14, LInvBalanceEnd
<1>15. CASE Trim
  BY <1>15, LInvTrim
<1>16. CASE Measure
  BY <1>16, LInvMeasure
<1>17. CASE Karaoke
  BY <1>17, LInvKaraoke
<1>18. CASE Reorder
  BY <1>18, LInvReorder
<1>19. CASE AlignLines
  BY <1>19, LInvAlign
<1>20. CASE End
  BY <1>2, <1>20 DEF End
<1> QED
  BY <1>1, <1>3, <1>4, <1>5, <1>6, <1>7, <1>8, <1>9, <1>10, <1>11, <1>12, <1>13, <1>14,
     <1>15, <1>16, <1>17, <1>18, <1>19, <1>20 DEF Next

\* What LInv says of the lines in the end
LEMMA LinesRightThen ==
  ASSUME CInv, GInv, LInv, pc = "done", Promised
  PROVE  n_lines = Len(lines) /\ BrokenWhereAllowed /\ EdgesTrimmed /\ NoNeedlessOverflow
         /\ LinesPlaced
<1>1. /\ Counts /\ AllMarked /\ AllFit /\ TextTrimmed /\ Measured /\ Stacked /\ InFrame
  BY DEF LInv
<1>2. /\ Length \in Nat \ {0} /\ Len(lines) \in Nat /\ DOMAIN lines = 1 .. Len(lines)
  BY DEF GInv, IsGlyphs, Sequence, Length
<1>3. n_lines = Len(lines)
  BY <1>1 DEF Counts, Measured
<1>4. BrokenWhereAllowed
  <2>1. ASSUME NEW k \in 2 .. Length
        PROVE  /\ glyphs[k].linebreak = 2 <=> Feed(k - 1)
               /\ glyphs[k].linebreak = 1 => AllowBreak(k - 1)
    <3>1. k - 1 <= Length
      BY <1>2
    <3> QED BY <1>1, <3>1 DEF AllMarked, MarkedUpTo
  <2> QED BY Zenon, <2>1 DEF BrokenWhereAllowed, Feed
<1>5. ASSUME NEW l \in 1 .. Len(lines)
      PROVE  /\ lines[l].first \in 1 .. Length /\ lines[l].last \in 1 .. Length
             /\ InLine(lines[l].first, lines[l].last) /\ lines[l].first <= lines[l].last
             /\ LineTrimmed(lines[l].first, lines[l].last)
  <2>1. IsLine(lines[l].first, lines[l].last)
    BY <1>1 DEF Measured
  <2>2. lines[l].first \in 1 .. Length /\ lines[l].last \in 1 .. Length
    BY <1>2, <2>1, LineWithin
  <2>3. LineTrimmed(lines[l].first, lines[l].last)
    BY <1>1, <2>1, <2>2 DEF TextTrimmed
  <2> QED BY <2>1, <2>2, <2>3 DEF IsLine, InLine
<1>6. EdgesTrimmed
  BY Zenon, <1>2, <1>5 DEF EdgesTrimmed, Glyphs, LineTrimmed
\* What is shown of a line
<1>7. ASSUME NEW l \in 1 .. Len(lines), Shown(l) # {}
      PROVE  /\ Max(Shown(l)) \in Shown(l) /\ \A k \in Shown(l) : k <= Max(Shown(l))
             /\ Min(Shown(l)) \in Shown(l) /\ \A k \in Shown(l) : Min(Shown(l)) <= k
             /\ \A k \in Shown(l) : k \in lines[l].first .. lines[l].last /\ ~glyphs[k].skip
             /\ \A k \in lines[l].first .. lines[l].last : ~glyphs[k].skip => k \in Shown(l)
  <2> DEFINE S == Shown(l)
             a == lines[l].first
             z == lines[l].last
  <2>1. /\ \A k \in S : k \in a .. z /\ ~glyphs[k].skip
        /\ \A k \in a .. z : ~glyphs[k].skip => k \in S
    BY DEF Shown, Glyphs
  <2>2. a \in Int /\ z \in Int /\ S # {}
    BY <1>5, <1>7
  <2> HIDE DEF S, a, z
  <2>3. S \in SUBSET (a .. z)
    BY <2>1
  <2>4. /\ Max(S) \in S /\ \A k \in S : k <= Max(S)
        /\ Min(S) \in S /\ \A k \in S : Min(S) <= k
    BY <2>2, <2>3, MinMaxIn
  <2> QED BY <2>1, <2>4 DEF S, a, z
<1>8. NoNeedlessOverflow
  <2> SUFFICES ASSUME SingleSpaced, state.wrap_style # 2,
                      NEW l \in 1 .. Len(lines), Shown(l) # {}
               PROVE  \/ Right(Max(Shown(l))) - Left(Min(Shown(l))) < session.width
                      \/ \A k \in Shown(l) : ~AllowBreak(k) \/ k = Max(Shown(l))
    BY <1>2 DEF NoNeedlessOverflow
  <2> DEFINE S == Shown(l)
             a == lines[l].first
             z == lines[l].last
             x == Max(S)
             y == Min(S)
  <2>1. /\ a \in 1 .. Length /\ z \in 1 .. Length /\ a <= z
        /\ InLine(a, z) /\ LineTrimmed(a, z)
    BY <1>5
  <2>2. /\ x \in S /\ (\A k \in S : k <= x) /\ y \in S /\ (\A k \in S : y <= k)
        /\ \A k \in S : k \in a .. z /\ ~glyphs[k].skip
        /\ \A k \in a .. z : ~glyphs[k].skip => k \in S
    BY <1>7
  <2> HIDE DEF S, a, z, x, y
  <2>3. x \in a .. z /\ y \in a .. z /\ y <= x /\ ~glyphs[x].skip
    BY <2>2
  <2>4. \A k \in a .. z :
          glyphs[k].skip <=> (\A j \in a .. k : Blank(j)) \/ (\A j \in k .. z : Blank(j))
    BY Zenon, <2>1 DEF LineTrimmed
  <2>5. ~Blank(x)
    <3>1. SUFFICES ASSUME Blank(x) PROVE FALSE
      OBVIOUS
    <3>2. ~ (\A j \in a .. x : Blank(j)) /\ ~ (\A j \in x .. z : Blank(j))
      BY <2>3, <2>4
    <3>3. CASE x = z
      <4>1. \A j \in x .. z : j = x
        BY <2>1, <2>3, <3>3
      <4> QED BY <3>1, <3>2, <4>1
    <3>4. CASE x # z
      <4>1. x + 1 \in a .. z /\ ~ (x + 1 <= x)
        BY <2>1, <2>3, <3>4
      <4>2. glyphs[x + 1].skip
        BY <2>2, <4>1
      <4>3. (\A j \in a .. x + 1 : Blank(j)) \/ (\A j \in x + 1 .. z : Blank(j))
        BY <2>4, <4>1, <4>2
      <4>4. /\ \A j \in a .. x : j \in a .. x + 1
            /\ \A j \in x .. z : j = x \/ j \in x + 1 .. z
        BY <2>1, <2>3
      <4> QED BY <3>1, <3>2, <4>3, <4>4
    <3> QED BY <3>3, <3>4
  <2>6. InLine(a, x) /\ x \in 1 .. Length
    <3>1. a <= x /\ x \in 1 .. Length /\ \A j \in a + 1 .. x : j \in a + 1 .. z
      BY <1>2, <2>1, <2>3
    <3> QED BY <2>1, <3>1 DEF InLine
  <2>7. Fits(a, x)
    BY <1>1, <2>1, <2>5, <2>6 DEF AllFit, FitsUpTo
  <2>8. CASE Right(x) - Left(a) < session.width
    <3>1. Right(x) \in Int /\ Left(a) \in Int /\ Left(y) \in Int /\ Left(a) <= Left(y)
      <4>1. a \in 1 .. Length + 1 /\ y \in 1 .. Length + 1 /\ a <= y
        BY <1>2, <2>1, <2>3
      <4> QED BY <1>2, <2>6, <4>1, Lefts, RightGrows
    <3>2. Right(x) - Left(y) < session.width
      BY <2>8, <3>1, WidthTyped
    <3> QED BY <3>2 DEF x, y, S
  <2>9. CASE \A j \in a .. x - 1 : ~AllowBreak(j)
    <3>1. ASSUME NEW k \in S PROVE ~AllowBreak(k) \/ k = x
      <4>1. k = x \/ k \in a .. x - 1
        BY <2>1, <2>2, <2>3
      <4> QED BY <2>9, <4>1
    <3> QED BY <3>1 DEF x, S
  <2> QED BY <2>7, <2>8, <2>9 DEF Fits
<1>9. ASSUME NEW l \in 1 .. Len(lines), Shown(l) # {}
      PROVE  glyphs[Min(Shown(l))].starts_new_run
  <2> DEFINE S == Shown(l)
             a == lines[l].first
             z == lines[l].last
             y == Min(S)
  <2>1. a \in 1 .. Length /\ z \in 1 .. Length /\ LineTrimmed(a, z)
    BY <1>5
  <2>2. /\ y \in S /\ (\A k \in S : y <= k)
        /\ \A k \in S : k \in a .. z /\ ~glyphs[k].skip
        /\ \A k \in a .. z : ~glyphs[k].skip => k \in S
    BY <1>7, <1>9
  <2> HIDE DEF S, a, z, y
  <2>3. y \in a .. z /\ ~glyphs[y].skip
    BY <2>2
  <2>4. \A j \in a .. y - 1 : glyphs[j].skip
    <3>1. \A j \in a .. y - 1 : j \in a .. z /\ ~ (y <= j)
      BY <2>1, <2>3
    <3> QED BY <2>2, <3>1
  <2>5. glyphs[y].starts_new_run
    BY Zenon, <2>1, <2>3, <2>4 DEF LineTrimmed
  <2> QED BY <2>5 DEF y, S
<1>10. LinesPlaced
  <2>1. \A l \in DOMAIN lines : Shown(l) # {} => glyphs[Min(Shown(l))].starts_new_run
    BY Zenon, <1>2, <1>9
  <2>2. lines[1].asc + lines[Len(lines)].y + lines[Len(lines)].desc = height
    BY Zenon, <1>1 DEF Stacked
  <2>3. MaxWidth <= 2 * session.width =>
          \A l \in DOMAIN lines : lines[l].x \in 0 .. 2 * session.width - Width(l)
    BY Zenon, <1>1, <1>2 DEF InFrame
  <2> QED BY Zenon, <2>1, <2>2, <2>3 DEF LinesPlaced
<1> QED BY <1>3, <1>4, <1>6, <1>8, <1>10

\* Wrapping, balancing, trimming, measuring and aligning, which follow each
\* other's marks on the glyphs, make lines of a text that are broken after each
\* line feed and else only where a break is allowed, trimmed at their edges and
\* nowhere else, longer than the frame only where a word is, each the beginning
\* of a run, and placed below each other and within the frame (wrap_lines_smart,
\* trim_whitespace, measure_text, reorder_text, align_lines).
THEOREM LinesRight == Spec => []LinesBroken
<1> DEFINE Inv == CInv /\ GInv /\ SInv /\ LInv
<1>1. Init => Inv
  BY CInvInit, GInvInit, SInvInit, LInvInit
<1>2. Inv /\ [Next]_vars => Inv'
  <2>1. CInv /\ [Next]_vars => CInv'
    BY CInvNext
  <2>2. CInv /\ GInv /\ [Next]_vars => GInv'
    BY GInvNext
  <2>3. CInv /\ GInv /\ SInv /\ [Next]_vars => SInv'
    BY SInvNext
  <2>4. CInv /\ GInv /\ SInv /\ LInv /\ [Next]_vars => LInv'
    BY LInvNext
  <2> QED BY <2>1, <2>2, <2>3, <2>4
<1>3. Inv => LinesBroken
  BY LinesRightThen DEF LinesBroken, Promised
<1> HIDE DEF Inv
<1> QED BY <1>1, <1>2, <1>3, PTL DEF Spec
=============================================================================
