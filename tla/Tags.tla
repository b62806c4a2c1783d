---------------------------------- MODULE Tags ----------------------------------
(***************************************************************************)
(* libass/ass_parse.c: what override tags do to the state in which the     *)
(* text of an event is read (RenderContext), and the parts of              *)
(* libass/ass_render.c that set this state up for an event.                *)
(*                                                                         *)
(* Values are integers: colours and fonts too, of which only equality      *)
(* matters.  A block is the sequence of its tags, each                     *)
(*   [name, args, paren, opens, space]                                     *)
(* with its arguments as values; paren says that a ")" comes with it       *)
(* (its own, or a bare one: name ")"), opens that it is a \t whose         *)
(* argument is the tags that follow, up to the first ")" or to the end of  *)
(* the block; space that a blank stands after the backslash.  A \t has three  *)
(* arguments at most before its tags.  The state's "look" has the values   *)
(* that \r resets.                                                         *)
(***************************************************************************)
EXTENDS Integers, Sequences

CONSTANTS
  Styles,             \* the track's styles, records of values
  UserStyle,          \* set by ass_set_selective_style_override, rescaled to the
                      \* resolution of the script
  Overridden,         \* the fields of it that the override bits ask for
  ScaleOnly,          \* ... is the font scale for dialogue only asked for?
  TrackWrapStyle,
  PlayRes             \* <<PlayResX, PlayResY>>

\* The values of a style that are calculated with, here and in Event
ASSUME StylesAssumption ==
  /\ \A s \in DOMAIN Styles : \A f \in {"FontSize", "Alignment"} :
       f \in DOMAIN Styles[s] /\ Styles[s][f] \in Int
  /\ UserStyle.FontSize \in Int /\ UserStyle.Alignment \in Int

MaxBlur == 100
MaxBE == 127

\* Where ass_reset_render_context takes the look from; the rest is zero.
StyleField ==
  [c1 |-> "PrimaryColour", c2 |-> "SecondaryColour", c3 |-> "OutlineColour",
   c4 |-> "BackColour", a1 |-> "PrimaryAlpha", a2 |-> "SecondaryAlpha",
   a3 |-> "OutlineAlpha", a4 |-> "BackAlpha", underline |-> "Underline",
   strikeout |-> "StrikeOut", font_size |-> "FontSize", family |-> "FontName",
   bold |-> "Bold", italic |-> "Italic", border_style |-> "BorderStyle",
   border_x |-> "Outline", border_y |-> "Outline", scale_x |-> "ScaleX",
   scale_y |-> "ScaleY", hspacing |-> "Spacing", blur |-> "Blur",
   shadow_x |-> "Shadow", shadow_y |-> "Shadow", frz |-> "Angle",
   font_encoding |-> "Encoding"]
LookFields == DOMAIN StyleField \cup {"be", "frx", "fry", "fax", "fay"}

LookOf(style) ==
  [f \in LookFields |-> IF f \in DOMAIN StyleField THEN style[StyleField[f]] ELSE 0]

\* handle_selective_style_overrides: an event that is placed keeps its look.
StyleFor(c, style) ==
  [f \in DOMAIN style |-> IF ~c.explicit /\ f \in Overridden THEN UserStyle[f] ELSE style[f]]

\* ass_reset_render_context, with init_font_scale
Reset(c, style) ==
  [c EXCEPT !.style = StyleFor(c, style),
            !.look = LookOf(StyleFor(c, style)),
            !.apply_font_scale = ~c.explicit \/ ~ScaleOnly]

-----------------------------------------------------------------------------
(* Tags with values that \t animates                                       *)

\* pwr goes from 0 to Whole; halfway stands for everything in between.
Whole == 2
Mix(old, new, pwr) == ((Whole - pwr) * old + pwr * new) \div Whole

Animates ==
  [xbord |-> {"border_x"}, ybord |-> {"border_y"}, bord |-> {"border_x", "border_y"},
   xshad |-> {"shadow_x"}, yshad |-> {"shadow_y"}, shad |-> {"shadow_x", "shadow_y"},
   fax |-> {"fax"}, fay |-> {"fay"}, frx |-> {"frx"}, fry |-> {"fry"}, frz |-> {"frz"},
   fscx |-> {"scale_x"}, fscy |-> {"scale_y"}, fsc |-> {"scale_x", "scale_y"},
   fsp |-> {"hspacing"}, fs |-> {"font_size"}, fsrel |-> {"font_size"}, blur |-> {"blur"}, be |-> {"be"},
   c |-> {"c1"}, c2 |-> {"c2"}, c3 |-> {"c3"}, c4 |-> {"c4"},
   alpha |-> {"a1", "a2", "a3", "a4"},
   a1 |-> {"a1"}, a2 |-> {"a2"}, a3 |-> {"a3"}, a4 |-> {"a4"}]

Clamped(name, v) ==
  CASE name \in {"xbord", "ybord", "bord", "shad", "fscx", "fscy"} -> IF v < 0 THEN 0 ELSE v
    [] name = "blur" -> IF v < 0 THEN 0 ELSE IF v > MaxBlur THEN MaxBlur ELSE v
    [] name = "be"   -> IF v < 0 THEN 0 ELSE IF v > MaxBE THEN MaxBE ELSE v
    [] OTHER -> v

\* "fsrel" is \fs with a sign: by so many tenths of the size there is.
Moved(name, old, new, pwr) ==
  IF name = "fsrel" THEN (old * (10 * Whole + pwr * new)) \div (10 * Whole)
                    ELSE Mix(old, new, pwr)

\* What a tag without argument, or a font size that is not positive, sets.
Fallback(c, field) ==
  IF field \in DOMAIN StyleField /\ field # "blur" THEN c.style[StyleField[field]] ELSE 0

Animate(c, t, pwr) ==
  LET value(f) ==
        IF t.args = <<>> \/ t.name = "fsc" THEN Fallback(c, f)
        ELSE LET v == Clamped(t.name, Moved(t.name, c.look[f], t.args[1], pwr))
             IN  IF t.name \in {"fs", "fsrel"} /\ v <= 0 THEN Fallback(c, f) ELSE v
  IN  [c EXCEPT !.look = [f \in LookFields |->
         IF f \in Animates[t.name] THEN value(f) ELSE c.look[f]]]

-----------------------------------------------------------------------------
(* Tags that take effect at once                                           *)

Switches == [b |-> "bold", i |-> "italic", u |-> "underline", s |-> "strikeout",
             fn |-> "family", fe |-> "font_encoding"]

Allowed(name, v) ==
  CASE name = "b" -> v \in {0, 1} \/ v >= 100
    [] name \in {"i", "u", "s"} -> v \in {0, 1}
    [] name = "fn" -> v # 0
    [] OTHER -> TRUE

Switch(c, t) ==
  LET field == Switches[t.name]
  IN  [c EXCEPT !.look[field] =
         IF t.args # <<>> /\ Allowed(t.name, t.args[1]) THEN t.args[1]
                                                        ELSE Fallback(c, field)]

ValueOf(t) == IF t.args = <<>> THEN 0 ELSE t.args[1]

DrawingScale(c, t) == [c EXCEPT !.drawing_scale = IF ValueOf(t) < 0 THEN 0 ELSE ValueOf(t)]
BaselineOffset(c, t) == [c EXCEPT !.pbo = ValueOf(t)]
Wrap(c, t) ==
  [c EXCEPT !.wrap_style = IF t.args # <<>> /\ t.args[1] \in 0..3 THEN t.args[1]
                                                                 ELSE TrackWrapStyle]

\* \r: to the event's style or, if there is one of that number, another.
ResetTag(c, t) ==
  Reset(c, IF t.args # <<>> /\ t.args[1] \in DOMAIN Styles THEN Styles[t.args[1]]
                                                           ELSE Styles[c.event.Style])

-----------------------------------------------------------------------------
(* Tags that count once in an event                                        *)

\* Where \pos and \move put an event
PlaceOf(e, t) ==
  LET p == t.args
      t1 == IF Len(p) < 6 THEN 0 ELSE IF p[5] > p[6] THEN p[6] ELSE p[5]
      t2 == IF Len(p) < 6 THEN 0 ELSE IF p[5] > p[6] THEN p[5] ELSE p[6]
      from == IF t1 <= 0 /\ t2 <= 0 THEN 0 ELSE t1
      till == IF t1 <= 0 /\ t2 <= 0 THEN e.Duration ELSE t2
      between(a, b) == IF e.now <= from THEN a
                       ELSE IF e.now >= till THEN b
                       ELSE a + ((b - a) * (e.now - from)) \div (till - from)
  IN  IF t.name = "pos" THEN <<p[1], p[2]>>
                        ELSE <<between(p[1], p[3]), between(p[2], p[4])>>

\* The first of them
Position(c, t) ==
  LET wellFormed == IF t.name = "pos" THEN Len(t.args) = 2 ELSE Len(t.args) \in {4, 6}
  IN  IF ~wellFormed \/ "POSITIONED" \in c.evt_type THEN c
      ELSE [c EXCEPT !.pos = PlaceOf(c.event, t), !.detect_collisions = FALSE,
                     !.evt_type = @ \cup {"POSITIONED"}]

\* \org: the first of them
Origin(c, t) ==
  IF Len(t.args) # 2 \/ c.have_origin THEN c
  ELSE [c EXCEPT !.org = t.args, !.have_origin = TRUE, !.detect_collisions = FALSE]

\* numpad2align: rows sub, center, top are 0, 8, 4
Numpad(v) == ((v - 1) % 3) + 1 + (IF v <= 3 THEN 0 ELSE IF v <= 6 THEN 8 ELSE 4)

\* \an and \a: the first of them
Align(c, t) ==
  LET v == ValueOf(t)
      valid == IF t.name = "an" THEN v \in 1..9 ELSE v \in 1..11
      align == IF t.name = "an" THEN Numpad(v) ELSE IF v % 4 = 0 THEN 5 ELSE v
  IN  IF "A" \in c.parsed_tags THEN c
      ELSE [c EXCEPT !.parsed_tags = @ \cup {"A"},
                     !.alignment = IF valid THEN align ELSE c.style.Alignment]

\* interpolate_alpha
AlphaAt(now, times, a1, a2, a3) ==
  LET between(a, b, from, till) == a + ((b - a) * (now - from)) \div (till - from)
  IN  IF now < times[1] THEN a1
      ELSE IF now < times[2] THEN between(a1, a2, times[1], times[2])
      ELSE IF now < times[3] THEN a2
      ELSE IF now < times[4] THEN between(a2, a3, times[3], times[4])
      ELSE a3

\* How far \fad and \fade have faded an event
FadeOf(e, p) ==
  LET full == e.Duration
      open == Len(p) = 2 \/ (p[4] = -1 /\ p[7] = -1)
      in   == IF Len(p) = 2 THEN p[1] ELSE p[5]
      out  == IF Len(p) = 2 THEN p[2] ELSE p[6]
      times == IF open THEN <<0, in, full - out, full>> ELSE <<p[4], in, out, p[7]>>
      alphas == IF Len(p) = 2 THEN <<255, 0, 255>> ELSE SubSeq(p, 1, 3)
  IN  AlphaAt(e.now, times, alphas[1], alphas[2], alphas[3])

\* The first of them that has two or seven arguments
Fade(c, t) ==
  IF Len(t.args) \notin {2, 7} \/ "FADE" \in c.parsed_tags THEN c
  ELSE [c EXCEPT !.parsed_tags = @ \cup {"FADE"}, !.fade = FadeOf(c.event, t.args)]

\* How far a rectangle has moved towards the one of a tag
Clipped(clip, p, pwr) == [k \in 1..4 |-> Mix(clip[k], p[k], pwr)]

\* \clip and \iclip: a rectangle each time, animated; the first drawing.
Clip(c, t, pwr) ==
  LET inverse == t.name = "iclip"
  IN  CASE Len(t.args) = 4 ->
             [c EXCEPT !.clip = Clipped(c.clip, t.args, pwr), !.clip_mode = inverse]
        [] Len(t.args) \in {1, 2} /\ c.clip_drawing_text = 0 ->
             [c EXCEPT !.clip_drawing_text = t.args[Len(t.args)],
                       !.clip_drawing_mode = inverse]
        [] OTHER -> c

-----------------------------------------------------------------------------
(* Karaoke                                                                 *)

Effects == [k |-> "KARAOKE", kf |-> "KARAOKE_KF", ko |-> "KARAOKE_KO"]

\* The tags before a glyph add up: all but the last of them are passed over.
Syllable(c, t) ==
  [c EXCEPT !.effect_type = Effects[t.name],
            !.effect_skip_timing = @ + c.effect_timing,
            !.effect_timing = IF t.args = <<>> THEN 100 ELSE t.args[1]]

\* \kt: the next syllable starts at a time of its own
SetClock(c, t) ==
  [c EXCEPT !.effect_skip_timing = ValueOf(t), !.effect_timing = 0,
            !.reset_effect = TRUE]

-----------------------------------------------------------------------------
(* Blocks                                                                  *)

\* How far a \t has got: its times are there with two arguments or more.
Progress(c, t) ==
  LET cnt == Len(t.args) - (IF t.opens THEN 0 ELSE 1)
      t1 == IF cnt >= 2 THEN t.args[1] ELSE 0
      t2 == IF cnt >= 2 /\ t.args[2] # 0 THEN t.args[2] ELSE c.event.Duration
  IN  IF c.event.now < t1 THEN 0 ELSE IF c.event.now >= t2 THEN Whole ELSE Whole \div 2

Apply(c, t, pwr) ==
  CASE t.name \in DOMAIN Animates  -> Animate(c, t, pwr)
    [] t.name \in DOMAIN Switches  -> Switch(c, t)
    [] t.name \in {"pos", "move"}  -> Position(c, t)
    [] t.name = "org"              -> Origin(c, t)
    [] t.name \in {"an", "a"}      -> Align(c, t)
    [] t.name = "fad"              -> Fade(c, t)
    [] t.name \in {"clip", "iclip"} -> Clip(c, t, pwr)
    [] t.name \in DOMAIN Effects   -> Syllable(c, t)
    [] t.name = "kt"               -> SetClock(c, t)
    [] t.name = "r"                -> ResetTag(c, t)
    [] t.name = "p"                -> DrawingScale(c, t)
    [] t.name = "pbo"              -> BaselineOffset(c, t)
    [] t.name = "q"                -> Wrap(c, t)
    [] t.name = "t"                -> [c EXCEPT !.detect_collisions = FALSE]
    [] OTHER                       -> c

\* ass_parse_tags.  The tags in a \t end at the first ")", whichever tag it
\* was meant for; a \t in there takes over for the rest of them.
NextTag(s, t) ==
  LET takesOver == t.name = "t" /\ (s.nested \/ t.opens)
      after == [ctx |-> Apply(s.ctx, t, s.pwr),
                pwr |-> IF takesOver THEN Progress(s.ctx, t) ELSE s.pwr,
                nested |-> s.nested \/ takesOver]
  IN  IF s.nested /\ t.paren THEN [after EXCEPT !.pwr = Whole, !.nested = FALSE] ELSE after

ParseTags(c, tags) ==
  LET parsed[k \in 0 .. Len(tags)] ==
        IF k = 0 THEN [ctx |-> c, pwr |-> Whole, nested |-> FALSE]
        ELSE NextTag(parsed[k - 1], tags[k])
  IN  parsed[Len(tags)].ctx

-----------------------------------------------------------------------------
(* The state for an event                                                  *)

\* ass_event_has_hard_overrides: a blank after the backslash hides a tag, and
\* what begins with "p" counts.
HardOverrides(text) ==
  \E k \in DOMAIN text : \E j \in DOMAIN text[k].tags :
    LET t == text[k].tags[j]
    IN  ~t.space /\ t.name \in {"pos", "move", "clip", "iclip", "org", "pbo", "p"}

\* ass_apply_transition_effects
Transition(c, effect) ==
  CASE effect = "Banner" -> [c EXCEPT !.evt_type = @ \cup {"HSCROLL"},
                              !.detect_collisions = FALSE, !.wrap_style = 2]
    [] effect = "Scroll" -> [c EXCEPT !.evt_type = @ \cup {"VSCROLL"},
                              !.detect_collisions = FALSE]
    [] OTHER -> c

\* init_render_context: the look and the style at the end, because whether the
\* user's style applies depends on the rest.
InitContext(c, e) ==
  LET blank == [c EXCEPT
        !.event = e, !.parsed_tags = {}, !.evt_type = {}, !.wrap_style = TrackWrapStyle,
        !.pos = <<0, 0>>, !.org = <<0, 0>>, !.have_origin = FALSE,
        !.clip = <<0, 0, PlayRes[1], PlayRes[2]>>, !.clip_mode = FALSE,
        !.detect_collisions = TRUE, !.fade = 0, !.drawing_scale = 0, !.pbo = 0,
        !.effect_type = "NONE", !.effect_timing = 0, !.effect_skip_timing = 0,
        !.reset_effect = FALSE]
      moving == Transition(blank, e.Effect)
      ready == Reset([moving EXCEPT !.explicit = moving.evt_type # {} \/ HardOverrides(e.Text)],
                     Styles[e.Style])
  IN  [ready EXCEPT !.alignment = ready.style.Alignment, !.justify = ready.style.Justify]

\* (Mutant: a clip stays for the next event.)
FreeContext_clip(c) == [c EXCEPT !.look.family = 0]

\* free_render_context
FreeContext(c) == [c EXCEPT !.look.family = 0, !.clip_drawing_text = 0]
=============================================================================
