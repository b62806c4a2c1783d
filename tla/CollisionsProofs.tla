--------------------------- MODULE CollisionsProofs --------------------------
(***************************************************************************)
(* What fix_collisions achieves, for any number of events, any layouts and *)
(* any history of frames.                                                  *)
(***************************************************************************)
EXTENDS Collisions, TLAPS

\* Event e has its place in the present frame.
Settled(e) == /\ Collides(imgs[e])
              /\ priv[e].render_id = render_id /\ priv[e].height > 0
              /\ pc = "keep" => e < i

\* The places of settled events are in used[], are where the events are shown,
\* and do not overlap.
Separate ==
  pc # "idle" => \A e \in Events : Settled(e) =>
    /\ Box(priv[e]) \in used
    /\ imgs[e].top = priv[e].top /\ imgs[e].height = priv[e].height
    /\ \A f \in Events : f # e /\ Settled(f) => ~Overlap(Box(priv[e]), Box(priv[f]))

\* The second loop leaves no event behind that has a render_priv.
Complete ==
  /\ \A e \in Events : e \notin allocated => priv[e].height = 0
  /\ pc = "place" => \A e \in Events : e < i /\ Placed(e) => Settled(e)
  /\ pc = "fit"   => /\ \A e \in Events : e < i /\ Placed(e) => Settled(e)
                     /\ Placed(i) /\ priv[i].height = 0
  /\ pc = "done"  => \A e \in Events : Placed(e) => Settled(e)

\* fit_rect's loop: the places looked at come before the others; the event
\* clears them as it is shifted now, and could not have been shifted less.
Fitting ==
  /\ pc # "fit" => todo = {}
  /\ pc = "fit" =>
       LET s   == Box(imgs[i])
           dir == imgs[i].shift_direction
       IN /\ dir * shift >= 0
          /\ \A q \in used \ todo :
               /\ \A r \in todo : dir * q.y0 <= dir * r.y0
               /\ ~Overlap(Moved(s, shift), q)
          /\ \A d \in Shorter(dir, shift) :
               \E r \in used : Overlap(Moved(s, d), r)

\* Events that should not move still can stay, or have stayed.
Waiting(e, t) ==
  /\ Current(e).top = t
  /\ Current(e).height > 0 /\ Current(e).height = imgs[e].height
  /\ \A r \in used : ~Overlap(Box(Current(e)), r)
  /\ \A f \in i .. e - 1 : Collides(imgs[f]) /\ Current(f).height > 0 =>
                             ~Overlap(Box(Current(f)), Box(Current(e)))
Expecting ==
  pc # "idle" => \A p \in expected :
    /\ Collides(imgs[p[1]])
    /\ IF pc = "keep" /\ i <= p[1]
         THEN Waiting(p[1], p[2])
         ELSE Settled(p[1]) /\ imgs[p[1]].top = p[2]

\* An event is moved once a frame: as long as it has no place, it is as it was
\* rendered.
Unplaced(e) == (pc = "keep" /\ i <= e) \/ Current(e).height = 0
Carried == /\ ImagesFollow
           /\ pc # "idle" => \A e \in Events : Unplaced(e) => imgs[e] = drawn[e]

IInv == /\ TypeOK /\ Carried
        /\ Separate /\ Complete /\ Fitting /\ Expecting

-----------------------------------------------------------------------------
(* Lemmas                                                                  *)

\* The fields of a rendered event and of a render_priv.
LEMMA ImageFields ==
  ASSUME NEW im \in Image
  PROVE  /\ im.detect_collisions \in BOOLEAN /\ im.shift_direction \in {1, -1}
         /\ im.top \in Int /\ im.height \in Nat
         /\ im.left \in Int /\ im.width \in Nat
         /\ im.dst_y \in Int /\ im.h \in Nat /\ im.skip \in Nat /\ im.outline \in BOOLEAN
BY DEF Image

LEMMA PrivFields ==
  ASSUME NEW p \in Priv
  PROVE  /\ p.render_id \in Nat /\ p.top \in Int /\ p.height \in Nat
         /\ p.left \in Int /\ p.width \in Nat
BY DEF Priv

\* A place is a rectangle, as is one moved.
LEMMA BoxIsRect ==
  ASSUME NEW b \in Image \cup Priv
  PROVE  Box(b) \in Rect
<1>1. b.top \in Int /\ b.height \in Nat /\ b.left \in Int /\ b.width \in Nat
  BY ImageFields, PrivFields
<1> QED BY <1>1 DEF Box, Rect

LEMMA MovedIsRect ==
  ASSUME NEW r \in Rect, NEW d \in Int
  PROVE  Moved(r, d) \in Rect
BY DEF Moved, Rect

LEMMA OverlapSymmetric ==
  ASSUME NEW r, NEW s
  PROVE  Overlap(r, s) <=> Overlap(s, r)
BY DEF Overlap

\* shift_event keeps all of an event but its top, and moves its image with it.
LEMMA ShiftedKeeps ==
  ASSUME NEW im \in Image, NEW d \in Int
  PROVE  /\ Shifted(im, d) \in Image
         /\ Follows(Shifted(im, d), im)
         /\ Shifted(im, d).top = im.top + d
         /\ Shifted(im, d).height = im.height
         /\ Shifted(im, d).left = im.left /\ Shifted(im, d).width = im.width
         /\ Collides(Shifted(im, d)) <=> Collides(im)
<1> DEFINE y     == im.dst_y + d
           above == Excess(-y)
           below == Excess(y + im.h - FrameHeight)
           h     == im.h - above - below
           S     == Shifted(im, d)
<1>1. /\ im.dst_y \in Int /\ im.h \in Nat /\ im.skip \in Nat /\ im.top \in Int
      /\ FrameHeight \in Nat /\ y \in Int
  BY ImageFields, CollisionsAssumption
<1>2. /\ above = IF y < 0 THEN -y ELSE 0
      /\ below = IF y + im.h < FrameHeight THEN 0 ELSE y + im.h - FrameHeight
      /\ Excess(h) = IF h < 0 THEN 0 ELSE h
  BY <1>1 DEF Excess
<1>3. above \in Nat /\ below \in Nat /\ h \in Int /\ Excess(h) \in Nat
  BY <1>1, <1>2
<1>4. S = [im EXCEPT !.top = @ + d, !.dst_y = IF h <= 0 THEN 0 ELSE y + above,
                     !.h = Excess(h), !.skip = IF im.outline THEN @ ELSE @ + above]
  BY DEF Shifted
<1> HIDE DEF S, h, below, above
<1>5. /\ S \in Image
      /\ S.top = im.top + d /\ S.h = Excess(h)
      /\ S.dst_y = IF h <= 0 THEN 0 ELSE y + above
      /\ ~im.outline => S.skip = im.skip + above
      /\ S.outline = im.outline /\ S.detect_collisions = im.detect_collisions
      /\ S.height = im.height /\ S.left = im.left /\ S.width = im.width
  <2> DEFINE t == IF h <= 0 THEN 0 ELSE y + above
             k == IF im.outline THEN im.skip ELSE im.skip + above
  <2>1. t \in Int /\ k \in Nat /\ im.top + d \in Int
    BY <1>1, <1>3
  <2>2. S = [im EXCEPT !.top = im.top + d, !.dst_y = t, !.h = Excess(h), !.skip = k]
    BY <1>4 DEF Image
  <2> HIDE DEF t, k, y
  <2>3. /\ S \in Image
        /\ S.top = im.top + d /\ S.h = Excess(h) /\ S.dst_y = t /\ S.skip = k
        /\ S.outline = im.outline /\ S.detect_collisions = im.detect_collisions
        /\ S.height = im.height /\ S.left = im.left /\ S.width = im.width
    BY <1>3, <2>1, <2>2 DEF Image
  <2> QED BY <2>3 DEF t, k
<1>6. S.top - im.top = d
  BY <1>1, <1>5
<1>7. Lines(S) = {l + d : l \in Lines(im)} \cap Screen
  <2>1. ASSUME NEW l \in Int
        PROVE  l \in Lines(S) <=> l - d \in Lines(im) /\ l \in Screen
    <3>1. l - d \in Lines(im) <=> y <= l /\ l < y + im.h
      BY <1>1 DEF Lines
    <3>2. l \in Screen <=> 0 <= l /\ l < FrameHeight
      BY <1>1 DEF Screen
    <3>3. CASE h <= 0
      <4>1. S.h = 0
        BY <1>2, <1>3, <1>5, <3>3
      <4>2. l \notin Lines(S)
        BY <4>1, <1>5, <3>3 DEF Lines
      <4>3. ~(y <= l /\ l < y + im.h /\ 0 <= l /\ l < FrameHeight)
        BY <1>1, <1>2, <3>3 DEF h
      <4> QED BY <3>1, <3>2, <4>2, <4>3
    <3>4. CASE h > 0
      <4>1. S.dst_y = y + above /\ S.h = h
        BY <1>2, <1>3, <1>5, <3>4
      <4>2. l \in Lines(S) <=> y + above <= l /\ l < y + above + h
        BY <1>1, <1>3, <4>1 DEF Lines
      <4>3. y + above + h = y + im.h - below
        BY <1>1, <1>3 DEF h
      <4> QED BY <1>1, <1>2, <1>3, <3>1, <3>2, <4>2, <4>3
    <3> QED BY <1>3, <3>3, <3>4
  <2>2. Lines(S) \subseteq Int /\ Lines(im) \subseteq Int /\ Screen \subseteq Int
    BY DEF Lines, Screen
  <2>3. ASSUME NEW l \in Int
        PROVE  l \in {k + d : k \in Lines(im)} <=> l - d \in Lines(im)
    BY <2>2
  <2> QED BY <2>1, <2>2, <2>3
<1>8. S.h > 0 /\ ~S.outline => S.dst_y - S.skip = im.dst_y - im.skip + d
  BY <1>1, <1>2, <1>3, <1>5
<1>9. Follows(S, im)
  BY <1>6, <1>7, <1>8 DEF Follows
<1>10. Collides(S) <=> Collides(im)
  BY <1>5 DEF Collides
<1> QED BY <1>5, <1>9, <1>10 DEF S

\* What is noted of an event is typed, and nothing is unless it is under the
\* present settings.
LEMMA CurrentFacts ==
  ASSUME TypeOK, NEW e \in Events
  PROVE  /\ Current(e) \in Priv
         /\ Current(e).render_id = render_id
         /\ Current(e).height > 0 => priv[e] = Current(e)
         /\ Current(e).height = 0 \/ Current(e).height > 0
<1>1. priv[e] \in Priv /\ Cleared(render_id) \in Priv
  BY DEF TypeOK, Cleared, Priv
<1>2. Current(e) \in Priv
  BY <1>1 DEF Current
<1>3. Current(e).render_id = render_id
  BY DEF Current, Cleared
<1>4. Current(e).height > 0 => priv[e] = Current(e)
  BY DEF Current, Cleared
<1> QED BY <1>2, <1>3, <1>4, PrivFields

\* A step that moves no event and takes no place away.
LEMMA CarriedStays ==
  ASSUME Carried, UNCHANGED <<imgs, drawn>>,
         pc # "idle", \A e \in Events : Unplaced(e)' => Unplaced(e)
  PROVE  Carried'
BY DEF Carried, ImagesFollow

\* A step that gives event i its place, for which it may move it.
LEMMA CarriedOn ==
  ASSUME TypeOK, Carried, pc # "idle", UNCHANGED drawn,
         Unplaced(i), \A e \in Events : e = i => ~Unplaced(e)',
         NEW d \in Int, imgs'[i] \in {imgs[i], Shifted(imgs[i], d)},
         \A e \in Events : e # i => imgs'[e] = imgs[e] /\ (Unplaced(e)' => Unplaced(e))
  PROVE  Carried'
<1>1. i \in Events /\ drawn[i] \in Image /\ imgs[i] = drawn[i]
  BY DEF TypeOK, Carried
<1>2. imgs'[i] = drawn[i] \/ Follows(imgs'[i], drawn[i])
  BY <1>1, ShiftedKeeps
<1>3. ImagesFollow'
  BY <1>1, <1>2 DEF Carried, ImagesFollow
<1>4. \A e \in Events : Unplaced(e)' => imgs'[e] = drawn'[e]
  <2>1. ASSUME NEW e \in Events, Unplaced(e)'
        PROVE  imgs'[e] = imgs[e] /\ Unplaced(e)
    BY <2>1
  <2> QED BY <2>1 DEF Carried
<1> QED BY <1>3, <1>4 DEF Carried

-----------------------------------------------------------------------------
(* The invariant                                                           *)

LEMMA InitIInv == Init => IInv
<1> SUFFICES ASSUME Init PROVE IInv
  OBVIOUS
<1>1. NotShown \in Image /\ Cleared(0) \in Priv
  BY DEF NotShown, Image, Cleared, Priv
<1>2. TypeOK
  BY <1>1, CollisionsAssumption DEF Init, TypeOK, Events
<1>3. Carried
  BY DEF Init, Carried, ImagesFollow
<1>4. Complete
  BY DEF Init, Complete, Cleared
<1> QED BY <1>2, <1>3, <1>4 DEF Init, IInv, Separate, Fitting, Expecting

LEMMA RenderKeeps == ASSUME IInv, Render PROVE IInv'
<1>1. \A e \in Events : imgs'[e] \in Image
  BY CollisionsAssumption DEF Render, Frames
<1>2. imgs' \in [Events -> Image]
  BY <1>1 DEF Render, Frames
<1>3. Undisturbed \subseteq Events \X Int
  BY CurrentFacts, PrivFields DEF Undisturbed, IInv
<1>4. TypeOK'
  <2>1. todo' = {} /\ shift' \in Int
    BY DEF Render, IInv, Fitting, TypeOK, fit
  <2>2. i' \in Events /\ pc' = "keep"
    BY CollisionsAssumption DEF Render, Events
  <2>3. /\ render_id' \in Nat /\ allocated' \in SUBSET Events
        /\ priv' \in [Events -> Priv] /\ used' = {}
    BY DEF Render, IInv, TypeOK
  <2>4. expected' \in SUBSET (Events \X Int) /\ drawn' \in [Events -> Image]
    BY <1>2, <1>3 DEF Render
  <2> QED BY <1>2, <2>1, <2>2, <2>3, <2>4 DEF TypeOK
<1>5. Carried'
  BY DEF Render, Carried, ImagesFollow
<1>6. Separate'
  BY DEF Render, Separate, Settled, Events
<1>7. Complete'
  BY DEF Render, IInv, Complete
<1>8. Fitting'
  BY DEF Render, IInv, Fitting, fit
<1>9. Expecting'
  <2> SUFFICES ASSUME NEW p \in expected'
               PROVE  /\ Collides(imgs'[p[1]])
                      /\ i' <= p[1]
                      /\ Waiting(p[1], p[2])'
    BY DEF Expecting, Render
  <2>1. PICK x \in Events :
          /\ p = <<x, Current(x).top>>
          /\ Collides(imgs'[x]) /\ Current(x).height > 0
          /\ imgs'[x].height = Current(x).height
          /\ \A f \in 1 .. x - 1 :
               Collides(imgs'[f]) /\ Current(f).height > 0 => ~Overlap(Box(Current(f)), Box(Current(x)))
    BY DEF Render, Undisturbed
  <2>2. p[1] = x /\ p[2] = Current(x).top
    BY <2>1
  <2>3. \A f : Current(f)' = Current(f)
    BY DEF Render, Current
  <2>4. i' = 1 /\ used' = {}
    BY DEF Render
  <2>5. Waiting(x, Current(x).top)'
    BY <2>1, <2>3, <2>4 DEF Waiting
  <2> QED BY <2>1, <2>2, <2>3, <2>4, <2>5 DEF Events
<1> QED BY <1>4, <1>5, <1>6, <1>7, <1>8, <1>9 DEF IInv

\* The loops' index stays within the events, and the end of a loop comes after
\* all of them.
LEMMA Advanced ==
  ASSUME TypeOK, NEW next \in {"place", "done"}, Advance(next)
  PROVE  /\ i' \in Events
         /\ \/ i < NEvents /\ i' = i + 1 /\ pc' = pc
            \/ i = NEvents /\ i' = 1 /\ pc' = next
         /\ \A e \in Events : e # i => (e < i \/ (e > i /\ i < NEvents))
         /\ \A e \in Events : pc' = pc /\ i < NEvents => (e < i' <=> e <= i)
<1>1. i \in 1 .. NEvents /\ NEvents \in Nat \ {0}
  BY CollisionsAssumption DEF TypeOK, Events
<1> QED BY <1>1 DEF Advance, Events

\* In the first loop an event is skipped that is not settled and was not
\* expected to stay.
LEMMA SkippedKeeps ==
  ASSUME IInv, Keep, Skips, UNCHANGED <<allocated, priv, imgs, used>>
  PROVE  IInv'
<1>1. /\ TypeOK /\ Separate /\ Complete /\ Fitting /\ Expecting
      /\ pc = "keep" /\ Advance("place") /\ i \in Events
      /\ UNCHANGED <<render_id, allocated, priv, imgs, used, expected, drawn, todo, shift>>
  BY DEF IInv, Keep, fit, TypeOK
<1>2. /\ i' \in Events
      /\ \/ i < NEvents /\ i' = i + 1 /\ pc' = "keep"
         \/ i = NEvents /\ i' = 1 /\ pc' = "place"
      /\ \A e \in Events : e # i => (e < i \/ (e > i /\ i < NEvents))
      /\ \A e \in Events : pc' = pc /\ i < NEvents => (e < i' <=> e <= i)
  BY <1>1, Advanced
<1>3. Collides(imgs[i]) => priv[i].height = 0 /\ Current(i).height = 0
  BY <1>1, CollisionsAssumption DEF Skips, Complete, Current, Cleared
<1>4. \A e \in Events : Settled(e)' <=> Settled(e)
  <2> TAKE e \in Events
  <2>1. CASE e = i
    BY <1>1, <1>2, <1>3, <2>1 DEF Settled
  <2>2. CASE e # i
    BY <1>1, <1>2, <2>2 DEF Settled, Events
  <2> QED BY <2>1, <2>2
<1>5. TypeOK'
  BY <1>1, <1>2 DEF TypeOK
<1>6. Separate'
  BY <1>1, <1>2, <1>4 DEF Separate
<1>7. Complete'
  BY <1>1, <1>2 DEF Complete, Events
<1>8. Fitting'
  BY <1>1, <1>2 DEF Fitting
<1>9. Expecting'
  <2> SUFFICES ASSUME NEW p \in expected
               PROVE  /\ Collides(imgs[p[1]])
                      /\ IF pc' = "keep" /\ i' <= p[1]
                           THEN Waiting(p[1], p[2])'
                           ELSE Settled(p[1])' /\ imgs[p[1]].top = p[2]
    BY <1>1 DEF Expecting
  <2>1. p[1] \in Events /\ Collides(imgs[p[1]])
    BY <1>1 DEF TypeOK, Expecting
  <2>2. CASE i <= p[1]
    <3>1. Waiting(p[1], p[2])
      BY <1>1, <2>2 DEF Expecting
    <3>2. p[1] # i
      BY <1>3, <2>1, <3>1 DEF Waiting
    <3>3. i < NEvents /\ i' = i + 1 /\ pc' = "keep" /\ i' <= p[1]
      BY <1>2, <2>1, <2>2, <3>2, <1>1 DEF Events
    <3>4. Waiting(p[1], p[2])'
      BY <1>1, <2>1, <3>1, <3>3 DEF Waiting, Current, Events
    <3> QED BY <2>1, <3>3, <3>4
  <2>3. CASE ~(i <= p[1])
    <3>1. Settled(p[1]) /\ imgs[p[1]].top = p[2]
      BY <1>1, <2>3 DEF Expecting
    <3>2. ~(pc' = "keep" /\ i' <= p[1])
      BY <1>1, <1>2, <2>1, <2>3 DEF Events
    <3> QED BY <1>4, <2>1, <3>1, <3>2
  <2> QED BY <2>2, <2>3
<1>10. Carried'
  <2>1. \A e \in Events : Unplaced(e)' => Unplaced(e)
    BY <1>1, <1>2, <1>3 DEF Unplaced, Current, Events
  <2> QED BY <1>1, <2>1, CarriedStays DEF IInv
<1> QED BY <1>5, <1>6, <1>7, <1>8, <1>9, <1>10 DEF IInv

\* In the first loop an event whose place is lost is not settled, and was not
\* expected to stay.
LEMMA LostKeeps ==
  ASSUME IInv, Keep, Collides(imgs[i]), allocated' = allocated \cup {i},
         ~Stays(Current(i), imgs[i]),
         priv' = [priv EXCEPT ![i] = Cleared(render_id)],
         UNCHANGED <<used, imgs>>
  PROVE  IInv'
<1>1. /\ TypeOK /\ Separate /\ Complete /\ Fitting /\ Expecting
      /\ pc = "keep" /\ Advance("place") /\ i \in Events
      /\ UNCHANGED <<render_id, imgs, used, expected, drawn, todo, shift>>
  BY DEF IInv, Keep, fit, TypeOK
<1>2. /\ i' \in Events
      /\ \/ i < NEvents /\ i' = i + 1 /\ pc' = "keep"
         \/ i = NEvents /\ i' = 1 /\ pc' = "place"
      /\ \A e \in Events : e # i => (e < i \/ (e > i /\ i < NEvents))
      /\ \A e \in Events : pc' = pc /\ i < NEvents => (e < i' <=> e <= i)
      /\ NEvents \in Nat /\ i \in Int /\ Events \subseteq Int
  BY <1>1, Advanced, CollisionsAssumption DEF Events
<1>3. /\ priv' \in [Events -> Priv]
      /\ priv'[i].height = 0
      /\ \A e \in Events : e # i => priv'[e] = priv[e]
  BY <1>1 DEF TypeOK, Cleared, Priv
<1>4. \A e \in Events : Settled(e)' <=> Settled(e)
  <2> TAKE e \in Events
  <2>1. CASE e = i
    BY <1>1, <1>2, <1>3, <2>1 DEF Settled
  <2>2. CASE e # i
    BY <1>1, <1>2, <1>3, <2>2 DEF Settled, Events
  <2> QED BY <2>1, <2>2
<1>5. TypeOK'
  BY <1>1, <1>2, <1>3 DEF TypeOK
<1>6. Separate'
  <2>1. \A e \in Events : Settled(e) => priv'[e] = priv[e]
    BY <1>1, <1>3 DEF Settled, Events
  <2> QED BY <1>1, <1>4, <2>1 DEF Separate
<1>7. Complete'
  BY <1>1, <1>2, <1>3 DEF Complete, Events
<1>8. Fitting'
  BY <1>1, <1>2 DEF Fitting
<1>9. Expecting'
  <2> SUFFICES ASSUME NEW p \in expected
               PROVE  /\ Collides(imgs[p[1]])
                      /\ IF pc' = "keep" /\ i' <= p[1]
                           THEN Waiting(p[1], p[2])'
                           ELSE Settled(p[1])' /\ imgs[p[1]].top = p[2]
    BY <1>1 DEF Expecting
  <2>1. p[1] \in Events /\ Collides(imgs[p[1]])
    BY <1>1 DEF TypeOK, Expecting
  <2>2. CASE i <= p[1]
    <3>1. Waiting(p[1], p[2])
      BY <1>1, <2>2 DEF Expecting
    <3>2. p[1] # i
      BY <3>1 DEF Waiting, Stays
    <3>3. i < NEvents /\ i' = i + 1 /\ pc' = "keep" /\ i' <= p[1]
      BY <1>2, <2>1, <2>2, <3>2, <1>1 DEF Events
    <3>4. \A f \in Events : f # i => Current(f)' = Current(f)
      BY <1>1, <1>3 DEF Current
    <3>5. \A f \in i' .. p[1] - 1 : f \in Events /\ f # i /\ f \in i .. p[1] - 1
      BY <1>1, <1>2, <2>1, <3>3 DEF Events
    <3>6. Waiting(p[1], p[2])'
      BY <1>1, <2>1, <3>1, <3>2, <3>4, <3>5 DEF Waiting
    <3> QED BY <2>1, <3>3, <3>6
  <2>3. CASE ~(i <= p[1])
    <3>1. Settled(p[1]) /\ imgs[p[1]].top = p[2]
      BY <1>1, <2>3 DEF Expecting
    <3>2. ~(pc' = "keep" /\ i' <= p[1])
      BY <1>1, <1>2, <2>1, <2>3 DEF Events
    <3> QED BY <1>4, <2>1, <3>1, <3>2
  <2> QED BY <2>2, <2>3
<1>10. Carried'
  <2>1. \A e \in Events : e # i => (Unplaced(e)' => Unplaced(e))
    BY <1>1, <1>2, <1>3 DEF Unplaced, Current, Events
  <2>2. Unplaced(i)
    BY <1>1, <1>2 DEF Unplaced
  <2> QED BY <1>1, <2>1, <2>2, CarriedStays DEF IInv
<1> QED BY <1>5, <1>6, <1>7, <1>8, <1>9, <1>10 DEF IInv

\* In the first loop an event that stays is settled where it was, clear of the
\* places taken before.
LEMMA StayingKeeps ==
  ASSUME IInv, Keep, Collides(imgs[i]), allocated' = allocated \cup {i},
         Stays(Current(i), imgs[i]),
         priv' = [priv EXCEPT ![i] = Current(i)],
         used' = used \cup {Box(Current(i))},
         imgs' = [imgs EXCEPT ![i] = KeptAt(Current(i), imgs[i])]
  PROVE  IInv'
<1>1. /\ TypeOK /\ Separate /\ Complete /\ Fitting /\ Expecting
      /\ pc = "keep" /\ Advance("place") /\ i \in Events
      /\ UNCHANGED <<render_id, expected, drawn, todo, shift>>
  BY DEF IInv, Keep, fit, TypeOK
<1>2. /\ i' \in Events
      /\ \/ i < NEvents /\ i' = i + 1 /\ pc' = "keep"
         \/ i = NEvents /\ i' = 1 /\ pc' = "place"
      /\ \A e \in Events : e # i => (e < i \/ (e > i /\ i < NEvents))
      /\ \A e \in Events : pc' = pc /\ i < NEvents => (e < i' <=> e <= i)
      /\ NEvents \in Nat /\ i \in Int /\ Events \subseteq Int
  BY <1>1, Advanced, CollisionsAssumption DEF Events
<1>3. /\ Current(i) \in Priv /\ Current(i).render_id = render_id
      /\ Current(i).height > 0 /\ Current(i).height = imgs[i].height
      /\ Current(i).top \in Int
      /\ \A r \in used : ~Overlap(Box(Current(i)), r)
  BY <1>1, CurrentFacts, PrivFields DEF Stays
<1>4. /\ imgs' \in [Events -> Image]
      /\ imgs'[i] = KeptAt(Current(i), imgs[i])
      /\ imgs'[i].top = Current(i).top /\ imgs'[i].height = Current(i).height
      /\ Collides(imgs'[i])
      /\ \A e \in Events : e # i => imgs'[e] = imgs[e]
  <2>1. /\ imgs[i] \in Image
        /\ imgs[i].top \in Int /\ Current(i).top - imgs[i].top \in Int
    BY <1>1, <1>3, ImageFields DEF IInv, TypeOK
  <2>2. /\ KeptAt(Current(i), imgs[i]) \in Image
        /\ KeptAt(Current(i), imgs[i]).top = imgs[i].top + (Current(i).top - imgs[i].top)
        /\ KeptAt(Current(i), imgs[i]).height = imgs[i].height
        /\ Collides(KeptAt(Current(i), imgs[i]))
    BY <2>1, ShiftedKeeps DEF KeptAt
  <2>3. imgs'[i] = KeptAt(Current(i), imgs[i])
    BY <1>1 DEF TypeOK
  <2>4. \A e \in Events : e # i => imgs'[e] = imgs[e]
    BY <1>1 DEF TypeOK
  <2>5. imgs' \in [Events -> Image]
    BY <1>1, <2>2 DEF TypeOK
  <2> QED BY <1>3, <2>1, <2>2, <2>3, <2>4, <2>5
<1>5. /\ priv' \in [Events -> Priv]
      /\ priv'[i] = Current(i)
      /\ \A e \in Events : e # i => priv'[e] = priv[e]
  BY <1>1, <1>3 DEF TypeOK
<1>6. \A e \in Events : e = i => Settled(e)'
  BY <1>1, <1>2, <1>3, <1>4, <1>5 DEF Settled, Events
<1>7. \A e \in Events : e # i => (Settled(e)' <=> Settled(e))
  BY <1>1, <1>2, <1>4, <1>5 DEF Settled, Events
<1>8. TypeOK'
  <2>1. used' \in SUBSET Rect
    BY <1>1, <1>3, BoxIsRect DEF TypeOK
  <2>2. todo' \in SUBSET used'
    BY <1>1 DEF TypeOK
  <2> QED BY <1>1, <1>2, <1>4, <1>5, <2>1, <2>2 DEF TypeOK
<1>9. Separate'
  <2>1. \A e \in Events : e # i /\ Settled(e)' =>
          /\ Box(priv'[e]) \in used
          /\ imgs'[e].top = priv'[e].top /\ imgs'[e].height = priv'[e].height
          /\ ~Overlap(Box(priv'[e]), Box(priv'[i]))
          /\ ~Overlap(Box(priv'[i]), Box(priv'[e]))
    <3> TAKE e \in Events
    <3> HAVE e # i /\ Settled(e)'
    <3>1. Settled(e) /\ priv'[e] = priv[e] /\ imgs'[e] = imgs[e]
      BY <1>4, <1>5, <1>7
    <3>2. /\ Box(priv[e]) \in used
          /\ imgs[e].top = priv[e].top /\ imgs[e].height = priv[e].height
      BY <1>1, <3>1 DEF Separate
    <3> QED BY <1>3, <1>5, <3>1, <3>2, OverlapSymmetric
  <2>2. \A e, f \in Events : e # i /\ f # i /\ e # f /\ Settled(e)' /\ Settled(f)' =>
          ~Overlap(Box(priv'[e]), Box(priv'[f]))
    BY <1>1, <1>5, <1>7 DEF Separate
  <2>3. /\ Box(priv'[i]) \in used'
        /\ imgs'[i].top = priv'[i].top /\ imgs'[i].height = priv'[i].height
    BY <1>4, <1>5
  <2>4. \A e \in Events : Settled(e)' =>
          /\ Box(priv'[e]) \in used'
          /\ imgs'[e].top = priv'[e].top /\ imgs'[e].height = priv'[e].height
    BY <2>1, <2>3
  <2>5. \A e, f \in Events : e # f /\ Settled(e)' /\ Settled(f)' =>
          ~Overlap(Box(priv'[e]), Box(priv'[f]))
    BY <2>1, <2>2
  <2> QED BY <2>4, <2>5 DEF Separate
<1>10. Complete'
  BY <1>1, <1>2, <1>5 DEF Complete, Events
<1>11. Fitting'
  BY <1>1, <1>2 DEF Fitting
<1>12. Expecting'
  <2> SUFFICES ASSUME NEW p \in expected
               PROVE  /\ Collides(imgs'[p[1]])
                      /\ IF pc' = "keep" /\ i' <= p[1]
                           THEN Waiting(p[1], p[2])'
                           ELSE Settled(p[1])' /\ imgs'[p[1]].top = p[2]
    BY <1>1 DEF Expecting
  <2>1. p[1] \in Events /\ Collides(imgs[p[1]])
    BY <1>1 DEF TypeOK, Expecting
  <2>2. Collides(imgs'[p[1]])
    BY <1>4, <2>1
  <2>3. CASE p[1] = i
    <3>1. Waiting(p[1], p[2])
      BY <1>1, <2>3 DEF Expecting, Events
    <3>2. imgs'[i].top = p[2]
      BY <1>4, <2>3, <3>1 DEF Waiting
    <3>3. ~(pc' = "keep" /\ i' <= p[1])
      BY <1>1, <1>2, <2>3 DEF Events
    <3>4. Settled(p[1])'
      BY <1>6, <2>1, <2>3
    <3> QED BY <2>2, <2>3, <3>2, <3>3, <3>4
  <2>4. CASE i <= p[1] /\ p[1] # i
    <3>1. Waiting(p[1], p[2])
      BY <1>1, <2>4 DEF Expecting
    <3>2. i < NEvents /\ i' = i + 1 /\ pc' = "keep" /\ i' <= p[1]
      BY <1>2, <2>1, <2>4, <1>1 DEF Events
    <3>3. \A f \in Events : f # i => Current(f)' = Current(f)
      BY <1>1, <1>5 DEF Current
    <3>4. \A f \in i' .. p[1] - 1 : f \in Events /\ f # i /\ f \in i .. p[1] - 1
      BY <1>1, <1>2, <2>1, <3>2 DEF Events
    <3>5. i \in i .. p[1] - 1
      BY <1>1, <1>2, <2>1, <2>4 DEF Events
    <3>6. ~Overlap(Box(Current(p[1])), Box(Current(i)))
      BY <1>3, <3>1, <3>5, OverlapSymmetric DEF Waiting
    <3>7. \A r \in used' : ~Overlap(Box(Current(p[1])), r)
      BY <3>1, <3>6 DEF Waiting
    <3>8. Waiting(p[1], p[2])'
      BY <1>4, <2>1, <2>4, <3>1, <3>3, <3>4, <3>7 DEF Waiting
    <3> QED BY <2>2, <3>2, <3>8
  <2>5. CASE ~(i <= p[1])
    <3>1. Settled(p[1]) /\ imgs[p[1]].top = p[2]
      BY <1>1, <2>5 DEF Expecting
    <3>2. ~(pc' = "keep" /\ i' <= p[1]) /\ p[1] # i
      BY <1>1, <1>2, <2>1, <2>5 DEF Events
    <3> QED BY <1>4, <1>7, <2>1, <2>2, <3>1, <3>2
  <2> QED BY <2>3, <2>4, <2>5
<1>13. Carried'
  <2>1. imgs[i].top \in Int /\ Current(i).top - imgs[i].top \in Int
    BY <1>1, <1>3, ImageFields DEF TypeOK
  <2>2. imgs'[i] = Shifted(imgs[i], Current(i).top - imgs[i].top)
    BY <1>4 DEF KeptAt
  <2>3. Unplaced(i)
    BY <1>1, <1>2 DEF Unplaced
  <2>4. \A e \in Events : e = i => ~Unplaced(e)'
    BY <1>1, <1>2, <1>3, <1>5 DEF Unplaced, Current
  <2>5. \A e \in Events : e # i => (Unplaced(e)' => Unplaced(e))
    BY <1>1, <1>2, <1>5 DEF Unplaced, Current, Events
  <2> QED BY <1>1, <1>4, <2>1, <2>2, <2>3, <2>4, <2>5, CarriedOn DEF IInv
<1> QED BY <1>8, <1>9, <1>10, <1>11, <1>12, <1>13 DEF IInv

LEMMA KeepKeeps == ASSUME IInv, Keep PROVE IInv'
<1>1. \/ Skips /\ UNCHANGED <<allocated, priv, imgs, used>>
      \/ /\ Collides(imgs[i]) /\ allocated' = allocated \cup {i}
         /\ \/ /\ Stays(Current(i), imgs[i])
               /\ priv' = [priv EXCEPT ![i] = Current(i)]
               /\ used' = used \cup {Box(Current(i))}
               /\ imgs' = [imgs EXCEPT ![i] = KeptAt(Current(i), imgs[i])]
            \/ /\ ~Stays(Current(i), imgs[i])
               /\ priv' = [priv EXCEPT ![i] = Cleared(render_id)]
               /\ UNCHANGED <<used, imgs>>
  BY Zenon DEF Keep
<1> QED BY <1>1, SkippedKeeps, StayingKeeps, LostKeeps

\* In the second loop every event with a render_priv is settled, or is to be
\* fitted.
LEMMA PlaceKeeps == ASSUME IInv, Place PROVE IInv'
<1>1. /\ TypeOK /\ Separate /\ Complete /\ Fitting /\ Expecting
      /\ pc = "place" /\ i \in Events /\ pc' # "keep" /\ pc' # "idle"
      /\ UNCHANGED <<render_id, imgs, used, expected, drawn>>
  BY DEF IInv, Place, Advance, TypeOK
<1>2. NEvents \in Nat /\ i \in Int /\ Events \subseteq Int
  BY <1>1, CollisionsAssumption DEF Events
<1>3. /\ Current(i) \in Priv /\ Current(i).render_id = render_id
      /\ Current(i).height > 0 => priv[i] = Current(i)
      /\ Current(i).height = 0 \/ Current(i).height > 0
  BY <1>1, CurrentFacts
<1>4. /\ priv' \in [Events -> Priv]
      /\ \A e \in Events : e # i \/ Current(i).height > 0 => priv'[e] = priv[e]
      /\ Current(i).height = 0 => ~Settled(i) /\ (priv'[i].height = 0 \/ priv' = priv)
  <2>1. priv' = priv \/ priv' = [priv EXCEPT ![i] = Current(i)]
    BY DEF Place
  <2>2. Current(i).height = 0 => ~Settled(i)
    BY <1>1 DEF Settled, Current
  <2> QED BY <1>1, <1>3, <2>1, <2>2 DEF TypeOK
<1>5. \A e \in Events : Settled(e)' <=> Settled(e)
  <2> TAKE e \in Events
  <2>1. CASE e # i \/ Current(i).height > 0
    BY <1>1, <1>4, <2>1 DEF Settled
  <2>2. CASE e = i /\ Current(i).height = 0
    BY <1>1, <1>4, <2>2 DEF Settled
  <2> QED BY <1>3, <2>1, <2>2
<1>6. \A e \in Events : Settled(e) => priv'[e] = priv[e]
  BY <1>3, <1>4
<1>7. Separate'
  BY <1>1, <1>5, <1>6 DEF Separate
<1>8. Expecting'
  <2>1. \A p \in expected : /\ p[1] \in Events /\ Collides(imgs[p[1]])
                            /\ Settled(p[1]) /\ imgs[p[1]].top = p[2]
    BY <1>1 DEF Expecting, TypeOK
  <2> QED BY <1>1, <1>5, <2>1 DEF Expecting
<1>9. Carried'
  <2>1. priv' = priv \/ priv' = [priv EXCEPT ![i] = Current(i)]
    BY DEF Place
  <2>2. \A e \in Events : Current(e)' = Current(e)
    BY <1>1, <1>3, <2>1 DEF Current, TypeOK
  <2>3. \A e \in Events : Unplaced(e)' => Unplaced(e)
    BY <1>1, <2>2 DEF Unplaced
  <2> QED BY <1>1, <2>3, CarriedStays DEF IInv
<1>10. allocated' \in SUBSET Events
  BY <1>1 DEF Place, TypeOK
<1>11. \A e \in Events : e \notin allocated' => priv'[e].height = 0
  <2>1. \/ allocated' = allocated /\ priv' = priv
        \/ allocated' = allocated \cup {i}
    BY DEF Place
  <2> QED BY <1>1, <1>4, <2>1 DEF Complete
<1>12. CASE Skips /\ UNCHANGED <<allocated, priv, fit>> /\ Advance("done")
  <2>1. ~Placed(i)
    BY <1>12, CollisionsAssumption DEF Skips, Placed
  <2>2. /\ i' \in Events
        /\ \/ i < NEvents /\ i' = i + 1 /\ pc' = "place"
           \/ i = NEvents /\ i' = 1 /\ pc' = "done"
    BY <1>1, <1>12, Advanced
  <2>3. Complete'
    <3>1. \A e \in Events : (e < i' /\ pc' = "place") \/ pc' = "done" => e <= i
      BY <1>2, <2>2 DEF Events
    <3>2. \A e \in Events : e <= i /\ Placed(e)' => Settled(e)
      BY <1>1, <1>2, <1>12, <2>1 DEF Complete, Placed
    <3> QED BY <1>5, <1>11, <2>2, <3>1, <3>2 DEF Complete
  <2>4. Fitting' /\ todo' = todo /\ shift' = shift
    BY <1>1, <1>12, <2>2 DEF Fitting, fit
  <2>5. TypeOK'
    BY <1>1, <1>4, <1>10, <2>2, <2>4 DEF TypeOK
  <2> QED BY <1>7, <1>8, <1>9, <2>3, <2>4, <2>5 DEF IInv
<1>13. CASE /\ Collides(imgs[i]) /\ allocated' = allocated \cup {i}
            /\ priv' = [priv EXCEPT ![i] = Current(i)]
            /\ Current(i).height = 0
            /\ todo' = used /\ shift' = 0 /\ pc' = "fit" /\ UNCHANGED i
  <2>1. Complete'
    <3>1. priv'[i].height = 0
      BY <1>1, <1>13 DEF TypeOK
    <3>2. \A e \in Events : e < i /\ Placed(e)' => Settled(e)
      BY <1>1, <1>2, <1>13 DEF Complete, Placed
    <3>3. Placed(i)'
      BY <1>1, <1>13 DEF Placed
    <3> QED BY <1>1, <1>5, <1>11, <1>13, <3>1, <3>2, <3>3 DEF Complete
  <2>2. Fitting'
    <3>1. \A dir : Shorter(dir, 0) = {}
      BY DEF Shorter
    <3>2. imgs[i].shift_direction \in Int
      BY <1>1, ImageFields DEF TypeOK
    <3>3. imgs[i].shift_direction * 0 >= 0
      BY <3>2
    <3> QED BY <1>1, <1>13, <3>1, <3>3 DEF Fitting
  <2>3. TypeOK'
    BY <1>1, <1>4, <1>10, <1>13 DEF TypeOK
  <2> QED BY <1>7, <1>8, <1>9, <2>1, <2>2, <2>3 DEF IInv
<1>14. CASE /\ Collides(imgs[i]) /\ allocated' = allocated \cup {i}
            /\ priv' = [priv EXCEPT ![i] = Current(i)]
            /\ Current(i).height # 0
            /\ UNCHANGED fit /\ Advance("done")
  <2>1. Settled(i)
    BY <1>1, <1>3, <1>14 DEF Settled
  <2>2. /\ i' \in Events
        /\ \/ i < NEvents /\ i' = i + 1 /\ pc' = "place"
           \/ i = NEvents /\ i' = 1 /\ pc' = "done"
    BY <1>1, <1>14, Advanced
  <2>3. Complete'
    <3>1. \A e \in Events : (e < i' /\ pc' = "place") \/ pc' = "done" => e <= i
      BY <1>2, <2>2 DEF Events
    <3>2. \A e \in Events : e <= i /\ Placed(e)' => Settled(e)
      BY <1>1, <1>2, <1>14, <2>1 DEF Complete, Placed
    <3> QED BY <1>5, <1>11, <2>2, <3>1, <3>2 DEF Complete
  <2>4. Fitting' /\ todo' = todo /\ shift' = shift
    BY <1>1, <1>14, <2>2 DEF Fitting, fit
  <2>5. TypeOK'
    BY <1>1, <1>4, <1>10, <2>2, <2>4 DEF TypeOK
  <2> QED BY <1>7, <1>8, <1>9, <2>3, <2>4, <2>5 DEF IInv
<1> QED BY <1>12, <1>13, <1>14, Zenon DEF Place

\* Moving down past r, which is in the way, leaves the places above r cleared;
\* moving less far does not clear r.
LEMMA MovingDown ==
  ASSUME NEW s \in Rect, NEW r \in Rect, NEW d \in Int,
         Overlap(Moved(s, d), r)
  PROVE  /\ r.y1 - s.y0 > d
         /\ \A k \in d .. r.y1 - s.y0 - 1 : Overlap(Moved(s, k), r)
         /\ \A q \in Rect : q.y0 <= r.y0 /\ ~Overlap(Moved(s, d), q) =>
              ~Overlap(Moved(s, r.y1 - s.y0), q)
BY DEF Overlap, Moved, Rect

\* The same of moving up.
LEMMA MovingUp ==
  ASSUME NEW s \in Rect, NEW r \in Rect, NEW d \in Int,
         Overlap(Moved(s, d), r)
  PROVE  /\ r.y0 - s.y1 < d
         /\ ~Overlap(Moved(s, r.y0 - s.y1), r)
         /\ \A k \in r.y0 - s.y1 + 1 .. d : Overlap(Moved(s, k), r)
         /\ \A q \in Rect : r.y0 <= q.y0 => ~Overlap(Moved(s, r.y0 - s.y1), q)
BY DEF Overlap, Moved, Rect

\* One iteration of fit_rect.
LEMMA FitKeeps == ASSUME IInv, Fit PROVE IInv'
<1> DEFINE s   == Box(imgs[i])
           dir == imgs[i].shift_direction
<1>1. /\ TypeOK /\ Separate /\ Complete /\ Fitting /\ Expecting
      /\ pc = "fit" /\ i \in Events
      /\ UNCHANGED <<render_id, allocated, priv, imgs, used, i, pc, expected, drawn>>
  BY DEF IInv, Fit, TypeOK
<1>2. PICK r \in NextRect(dir) :
        /\ shift' = IF ~Overlap(Moved(s, shift), r) THEN shift
                    ELSE IF dir = 1 THEN r.y1 - s.y0 ELSE r.y0 - s.y1
        /\ todo' = todo \ {r}
  BY DEF Fit
<1>3. /\ r \in todo /\ r \in used /\ r \in Rect /\ used \subseteq Rect
      /\ \A q \in todo : dir * r.y0 <= dir * q.y0
  BY <1>1, <1>2 DEF NextRect, TypeOK
<1>4. s \in Rect /\ dir \in {1, -1} /\ shift \in Int
  BY <1>1, BoxIsRect, ImageFields DEF TypeOK
<1>5. /\ dir * shift >= 0
      /\ \A q \in used \ todo : /\ \A t \in todo : dir * q.y0 <= dir * t.y0
                                /\ ~Overlap(Moved(s, shift), q)
      /\ \A d \in Shorter(dir, shift) : \E q \in used : Overlap(Moved(s, d), q)
  BY <1>1 DEF Fitting
<1> HIDE DEF s, dir
<1>6. /\ dir * shift' >= 0 /\ shift' \in Int
      /\ \A q \in used \ todo : ~Overlap(Moved(s, shift'), q)
      /\ ~Overlap(Moved(s, shift'), r)
      /\ \A d \in Shorter(dir, shift') : \E q \in used : Overlap(Moved(s, d), q)
  <2>1. CASE ~Overlap(Moved(s, shift), r)
    BY <1>2, <1>4, <1>5, <2>1
  <2>2. CASE Overlap(Moved(s, shift), r) /\ dir = 1
    <3>1. shift' = r.y1 - s.y0 /\ shift' \in Int /\ shift >= 0
      BY <1>2, <1>3, <1>4, <1>5, <2>2 DEF Rect
    <3>2. /\ shift' > shift
          /\ \A k \in shift .. shift' - 1 : Overlap(Moved(s, k), r)
      BY <1>3, <1>4, <2>2, <3>1, MovingDown
    <3>3. \A q \in used \ todo : q.y0 <= r.y0
      BY <1>3, <1>5, <2>2 DEF Rect
    <3>4. \A q \in used \ todo : ~Overlap(Moved(s, shift'), q)
      BY <1>3, <1>4, <1>5, <2>2, <3>1, <3>3, MovingDown
    <3>5. ~Overlap(Moved(s, shift'), r)
      BY <1>3, <1>4, <3>1 DEF Overlap, Moved, Rect
    <3>6. \A d \in Shorter(dir, shift') : d \in Shorter(dir, shift) \/ d \in shift .. shift' - 1
      BY <1>4, <2>2, <3>1 DEF Shorter
    <3>7. \A d \in Shorter(dir, shift') : \E q \in used : Overlap(Moved(s, d), q)
      BY <1>3, <1>5, <3>2, <3>6
    <3> QED BY <2>2, <3>1, <3>2, <3>4, <3>5, <3>7, <1>4
  <2>3. CASE Overlap(Moved(s, shift), r) /\ dir = -1
    <3>1. shift' = r.y0 - s.y1 /\ shift' \in Int /\ shift <= 0
      BY <1>2, <1>3, <1>4, <1>5, <2>3 DEF Rect
    <3>2. /\ shift' < shift
          /\ ~Overlap(Moved(s, shift'), r)
          /\ \A k \in shift' + 1 .. shift : Overlap(Moved(s, k), r)
      BY <1>3, <1>4, <2>3, <3>1, MovingUp
    <3>3. \A q \in used \ todo : r.y0 <= q.y0
      BY <1>3, <1>5, <2>3 DEF Rect
    <3>4. \A q \in used \ todo : ~Overlap(Moved(s, shift'), q)
      BY <1>3, <1>4, <2>3, <3>1, <3>3, MovingUp
    <3>6. \A d \in Shorter(dir, shift') : d \in Shorter(dir, shift) \/ d \in shift' + 1 .. shift
      BY <1>4, <2>3, <3>1 DEF Shorter
    <3>7. \A d \in Shorter(dir, shift') : \E q \in used : Overlap(Moved(s, d), q)
      BY <1>3, <1>5, <3>2, <3>6
    <3> QED BY <2>3, <3>1, <3>2, <3>4, <3>7, <1>4
  <2> QED BY <1>4, <2>1, <2>2, <2>3
<1>7. Fitting'
  <2>1. s' = s /\ dir' = dir /\ pc' = "fit" /\ used' = used
    BY <1>1 DEF s, dir
  <2>2. \A q \in used \ todo' :
          /\ \A t \in todo' : dir * q.y0 <= dir * t.y0
          /\ ~Overlap(Moved(s, shift'), q)
    BY <1>2, <1>3, <1>5, <1>6
  <2> QED BY <1>6, <2>1, <2>2 DEF Fitting, s, dir
<1>8. TypeOK'
  BY <1>1, <1>2, <1>6 DEF TypeOK
<1>9. Separate' /\ Complete' /\ Expecting' /\ Carried'
  <2>1. \A e \in Events : Settled(e)' <=> Settled(e)
    BY <1>1 DEF Settled
  <2>2. Separate'
    BY <1>1, <2>1 DEF Separate
  <2>3. Complete'
    BY <1>1, <2>1 DEF Complete, Placed
  <2>4. Expecting'
    <3>1. \A p \in expected : p[1] \in Events
      BY <1>1 DEF TypeOK
    <3> QED BY <1>1, <2>1, <3>1 DEF Expecting
  <2>5. Carried'
    <3>1. \A e \in Events : Unplaced(e)' => Unplaced(e)
      BY <1>1 DEF Unplaced, Current
    <3> QED BY <1>1, <3>1, CarriedStays DEF IInv
  <2> QED BY <2>2, <2>3, <2>4, <2>5
<1> QED BY <1>7, <1>8, <1>9 DEF IInv

\* fit_rect's caller notes the place, which is clear of all others.
LEMMA FitEndKeeps == ASSUME IInv, FitEnd PROVE IInv'
<1>1. /\ TypeOK /\ Separate /\ Complete /\ Fitting /\ Expecting
      /\ pc = "fit" /\ i \in Events /\ todo = {} /\ todo' = {} /\ shift' = 0
      /\ UNCHANGED <<render_id, allocated, expected, drawn>>
      /\ used' = used \cup {Moved(Box(imgs[i]), shift)}
      /\ \/ i < NEvents /\ i' = i + 1 /\ pc' = "place"
         \/ i = NEvents /\ i' = 1 /\ pc' = "done"
      /\ i' \in Events
  <2>1. i \in 1 .. NEvents /\ NEvents \in Nat \ {0}
    BY CollisionsAssumption DEF IInv, TypeOK, Events
  <2>2. \/ i < NEvents /\ i' = i + 1 /\ pc' = "place"
        \/ i = NEvents /\ i' = 1 /\ pc' = "done"
    BY <2>1 DEF FitEnd
  <2> QED BY <2>1, <2>2 DEF IInv, FitEnd, TypeOK, Events
<1>2. NEvents \in Nat /\ i \in Int /\ Events \subseteq Int
  BY <1>1, CollisionsAssumption DEF Events
<1>3. /\ imgs[i] \in Image /\ shift \in Int
      /\ imgs[i].top \in Int /\ imgs[i].height \in Nat /\ imgs[i].height > 0
      /\ imgs[i].left \in Int /\ imgs[i].width \in Nat
      /\ Collides(imgs[i]) /\ i \in allocated /\ priv[i].height = 0
  <2>1. Placed(i) /\ priv[i].height = 0
    BY <1>1 DEF Complete
  <2>2. imgs[i] \in Image /\ shift \in Int
    BY <1>1 DEF IInv, TypeOK
  <2> QED BY <2>1, <2>2, ImageFields DEF Placed, Collides
<1>4. /\ imgs' \in [Events -> Image]
      /\ imgs'[i] \in {imgs[i], Shifted(imgs[i], shift)}
      /\ imgs'[i].top = imgs[i].top + shift /\ imgs'[i].height = imgs[i].height
      /\ Collides(imgs'[i])
      /\ \A e \in Events : e # i => imgs'[e] = imgs[e]
  <2>1. CASE shift = 0
    BY <1>1, <1>3, <2>1 DEF FitEnd, TypeOK
  <2>2. CASE shift # 0
    <3>1. imgs' = [imgs EXCEPT ![i] = Shifted(imgs[i], shift)]
      BY <2>2 DEF FitEnd
    <3>2. /\ Shifted(imgs[i], shift) \in Image
          /\ Shifted(imgs[i], shift).top = imgs[i].top + shift
          /\ Shifted(imgs[i], shift).height = imgs[i].height
          /\ Collides(Shifted(imgs[i], shift))
      BY <1>3, ShiftedKeeps
    <3>3. imgs'[i] = Shifted(imgs[i], shift)
      BY <1>1, <3>1 DEF TypeOK
    <3>4. \A e \in Events : e # i => imgs'[e] = imgs[e]
      BY <1>1, <3>1 DEF TypeOK
    <3>5. imgs' \in [Events -> Image]
      BY <1>1, <3>1, <3>2 DEF TypeOK
    <3> QED BY <3>2, <3>3, <3>4, <3>5
  <2> QED BY <2>1, <2>2
<1> DEFINE p == [render_id |-> render_id, top |-> imgs[i].top + shift,
                 height |-> imgs[i].height, left |-> imgs[i].left,
                 width |-> imgs[i].width]
<1>5. /\ p \in Priv /\ p.render_id = render_id /\ p.height > 0
      /\ Box(p) = Moved(Box(imgs[i]), shift)
      /\ imgs'[i].top = p.top /\ imgs'[i].height = p.height
  BY <1>1, <1>3, <1>4 DEF TypeOK, Priv, Box, Moved
<1>6. priv' = [priv EXCEPT ![i] = p]
  BY DEF FitEnd
<1> HIDE DEF p
<1>7. /\ priv' \in [Events -> Priv] /\ priv'[i] = p
      /\ \A e \in Events : e # i => priv'[e] = priv[e]
  BY <1>1, <1>5, <1>6 DEF TypeOK
<1>8. \A e \in Events : e = i => Settled(e)' /\ ~Settled(e)
  BY <1>1, <1>3, <1>4, <1>5, <1>7 DEF Settled
<1>9. \A e \in Events : e # i => (Settled(e)' <=> Settled(e))
  BY <1>1, <1>4, <1>7 DEF Settled
<1>10. TypeOK'
  <2>1. used' \in SUBSET Rect
    BY <1>1, <1>3, BoxIsRect, MovedIsRect DEF TypeOK
  <2>2. pc' \in {"place", "done"}
    BY <1>1
  <2> QED BY <1>1, <1>4, <1>7, <2>1, <2>2 DEF TypeOK
<1>11. Separate'
  <2>1. \A q \in used : ~Overlap(Box(p), q) /\ ~Overlap(q, Box(p))
    <3>1. \A q \in used : ~Overlap(Box(p), q)
      BY <1>1, <1>5 DEF Fitting
    <3> QED BY <3>1, OverlapSymmetric
  <2>2. \A e \in Events : e # i /\ Settled(e)' =>
          /\ Box(priv'[e]) \in used
          /\ imgs'[e].top = priv'[e].top /\ imgs'[e].height = priv'[e].height
          /\ ~Overlap(Box(priv'[e]), Box(priv'[i]))
          /\ ~Overlap(Box(priv'[i]), Box(priv'[e]))
    <3> TAKE e \in Events
    <3> HAVE e # i /\ Settled(e)'
    <3>1. Settled(e) /\ priv'[e] = priv[e] /\ imgs'[e] = imgs[e]
      BY <1>4, <1>7, <1>9
    <3>2. /\ Box(priv[e]) \in used
          /\ imgs[e].top = priv[e].top /\ imgs[e].height = priv[e].height
      BY <1>1, <3>1 DEF Separate
    <3> QED BY <1>7, <2>1, <3>1, <3>2
  <2>3. \A e, f \in Events : e # i /\ f # i /\ e # f /\ Settled(e)' /\ Settled(f)' =>
          ~Overlap(Box(priv'[e]), Box(priv'[f]))
    BY <1>1, <1>7, <1>9 DEF Separate
  <2>4. /\ Box(priv'[i]) \in used'
        /\ imgs'[i].top = priv'[i].top /\ imgs'[i].height = priv'[i].height
    BY <1>1, <1>5, <1>7
  <2>5. \A e \in Events : Settled(e)' =>
          /\ Box(priv'[e]) \in used'
          /\ imgs'[e].top = priv'[e].top /\ imgs'[e].height = priv'[e].height
    BY <1>1, <2>2, <2>4
  <2>6. \A e, f \in Events : e # f /\ Settled(e)' /\ Settled(f)' =>
          ~Overlap(Box(priv'[e]), Box(priv'[f]))
    BY <2>2, <2>3
  <2> QED BY <2>5, <2>6 DEF Separate
<1>12. Complete'
  <2>1. \A e \in Events : (e < i' /\ pc' = "place") \/ pc' = "done" => e <= i
    BY <1>1, <1>2 DEF Events
  <2>2. \A e \in Events : e <= i /\ Placed(e)' => Settled(e)'
    <3> TAKE e \in Events
    <3>1. CASE e = i
      BY <1>8, <3>1
    <3>2. CASE e # i
      BY <1>1, <1>2, <1>4, <1>9, <3>2 DEF Complete, Placed
    <3> QED BY <3>1, <3>2
  <2>3. \A e \in Events : e \notin allocated' => priv'[e].height = 0
    BY <1>1, <1>3, <1>7 DEF Complete
  <2> QED BY <1>1, <2>1, <2>2, <2>3 DEF Complete
<1>13. Fitting'
  BY <1>1 DEF Fitting
<1>14. Expecting'
  <2>1. \A x \in expected : /\ x[1] \in Events /\ Collides(imgs[x[1]])
                            /\ Settled(x[1]) /\ imgs[x[1]].top = x[2]
    BY <1>1 DEF Expecting, TypeOK
  <2>2. \A x \in expected : x[1] # i /\ Settled(x[1])' /\ imgs'[x[1]] = imgs[x[1]]
    BY <1>4, <1>8, <1>9, <2>1
  <2> QED BY <1>1, <2>1, <2>2 DEF Expecting
<1>15. Carried'
  <2>1. Unplaced(i)
    BY <1>3 DEF Unplaced, Current, Cleared
  <2>2. \A e \in Events : e = i => ~Unplaced(e)'
    BY <1>1, <1>5, <1>7 DEF Unplaced, Current
  <2>3. \A e \in Events : e # i => (Unplaced(e)' => Unplaced(e))
    BY <1>1, <1>7 DEF Unplaced, Current
  <2> QED BY <1>1, <1>3, <1>4, <2>1, <2>2, <2>3, CarriedOn DEF IInv
<1> QED BY <1>10, <1>11, <1>12, <1>13, <1>14, <1>15 DEF IInv

\* Between frames places are only forgotten.
LEMMA BetweenKeeps == ASSUME IInv, Reconfigure \/ Replace PROVE IInv'
<1>1. /\ TypeOK /\ Complete /\ Fitting
      /\ pc # "fit" /\ pc' = "idle"
      /\ UNCHANGED <<imgs, used, i, todo, shift, expected, drawn>>
  BY DEF IInv, Reconfigure, Replace, fit
<1>2. /\ render_id' \in Nat /\ priv' \in [Events -> Priv]
      /\ allocated' \in SUBSET Events
      /\ \A e \in Events : e \notin allocated' => priv'[e].height = 0
  <2>1. CASE Reconfigure
    BY <1>1, <2>1 DEF Reconfigure, TypeOK, Complete
  <2>2. CASE Replace
    <3>1. PICK e \in allocated : /\ allocated' = allocated \ {e}
                                 /\ priv' = [priv EXCEPT ![e] = Cleared(0)]
                                 /\ render_id' = render_id
      BY <2>2 DEF Replace
    <3>2. Cleared(0) \in Priv /\ Cleared(0).height = 0
      BY DEF Cleared, Priv
    <3> QED BY <1>1, <3>1, <3>2 DEF TypeOK, Complete
  <2> QED BY <2>1, <2>2
<1>3. TypeOK'
  BY <1>1, <1>2 DEF TypeOK
<1>4. Separate' /\ Expecting' /\ Fitting'
  BY <1>1 DEF Separate, Expecting, Fitting
<1>5. Complete'
  BY <1>1, <1>2 DEF Complete
<1>6. Carried'
  BY <1>1 DEF IInv, Carried, ImagesFollow
<1> QED BY <1>3, <1>4, <1>5, <1>6 DEF IInv

-----------------------------------------------------------------------------
(* The theorems                                                            *)

\* The places taken and the places noted agree with what is shown, in every
\* step of every frame.
THEOREM Invariance == Spec => []IInv
<1>1. Init => IInv
  BY InitIInv
<1>2. IInv /\ [Next]_vars => IInv'
  <2> SUFFICES ASSUME IInv, [Next]_vars PROVE IInv'
    OBVIOUS
  <2>1. CASE Next
    BY <2>1, RenderKeeps, KeepKeeps, PlaceKeeps, FitKeeps, FitEndKeeps,
       BetweenKeeps DEF Next
  <2>2. CASE UNCHANGED vars
    <3>1. UNCHANGED <<render_id, allocated, priv, imgs, used, i, pc, todo, shift, expected, drawn>>
      BY <2>2 DEF vars
    <3> QED BY <3>1 DEF IInv, TypeOK, Carried, ImagesFollow, Unplaced, Separate,
               Complete, Fitting, Expecting, Settled, Placed, Waiting, Current
  <2> QED BY <2>1, <2>2
<1> QED BY <1>1, <1>2, PTL DEF Spec

\* Every variable has its type, whatever the layouts (get_render_priv,
\* shift_event and fit_rect keep what they work on well formed).
THEOREM TypeCorrect == Spec => []TypeOK
<1>1. IInv => TypeOK
  BY DEF IInv
<1> QED BY <1>1, Invariance, PTL

\* fix_collisions separates the events of a layer that are as wide as when
\* they were placed.
THEOREM CollisionsResolved == Spec => []Apart
<1>1. IInv => Apart
  <2> SUFFICES ASSUME IInv, pc = "done", NEW e \in Events, NEW f \in Events, e # f,
                      Placed(e), Placed(f), AsNoted(e), AsNoted(f)
               PROVE  ~Overlap(Box(imgs[e]), Box(imgs[f]))
    BY DEF Apart
  <2>1. Settled(e) /\ Settled(f)
    BY DEF IInv, Complete
  <2>2. /\ ~Overlap(Box(priv[e]), Box(priv[f]))
        /\ imgs[e].top = priv[e].top /\ imgs[e].height = priv[e].height
        /\ imgs[f].top = priv[f].top /\ imgs[f].height = priv[f].height
    BY <2>1 DEF IInv, Separate
  <2>3. Box(imgs[e]) = Box(priv[e]) /\ Box(imgs[f]) = Box(priv[f])
    BY <2>2 DEF AsNoted, Box
  <2> QED BY <2>2, <2>3
<1> QED BY <1>1, Invariance, PTL

\* fit_rect's single scan finds the nearest free place.
THEOREM NearestPlace == Spec => []FitsNearest
<1>1. IInv => FitsNearest
  BY DEF IInv, Fitting, FitsNearest
<1> QED BY <1>1, Invariance, PTL

\* An event that was placed and could stay has stayed at the end of the layer.
THEOREM NoJumps == Spec => []Steady
<1>1. IInv => Steady
  BY DEF IInv, Expecting, Steady
<1> QED BY <1>1, Invariance, PTL

\* An image that shift_event moves covers the lines of the frame that it covered,
\* as far on as its event, with the same rows, wherever it was rendered.
THEOREM ImagesGoAlong == Spec => []ImagesFollow
<1>1. IInv => ImagesFollow
  BY DEF IInv, Carried
<1> QED BY <1>1, Invariance, PTL
=============================================================================
