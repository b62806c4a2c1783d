------------------------------ MODULE Collisions -----------------------------
(***************************************************************************)
(* libass/ass_render.c: fix_collisions, which moves the events of one      *)
(* layer apart, frame after frame.  An event that has found a place keeps  *)
(* it in later frames (event->render_priv), as long as it has the same     *)
(* height and the place is free; the others are fitted around those, each  *)
(* moving up or down as its alignment says.                                *)
(*                                                                         *)
(* Events are numbered in the order of cmp_event_layer.  The array used[], *)
(* sorted by y0, is the set of its rectangles: the order of equal y0 is    *)
(* qsort's choice.  One iteration of a loop is one step.                   *)
(***************************************************************************)
EXTENDS Integers, Functions

CONSTANTS
  NEvents,      \* events of the layer
  Layouts,      \* per event, what rendering it can give
  FrameHeight,  \* render_priv->height
  MaxRenderId,  \* bound on the calls that change settings
  MayFail       \* may memory run out?

Events == 1 .. NEvents

\* An event as rendered: its extent (top, height, left, width), the way it may
\* move, and one of its images, whose rows are those of a bitmap from skip on, or
\* which is an outline, with coordinates relative to dst_y (the deferred modes).
\* An image may lie beyond the frame: render_glyph clips, my_draw_glyph does not.
\* An event that is not shown, or that has a place of its own (\pos, \move),
\* does not detect collisions.
Image == [detect_collisions : BOOLEAN,
          top : Int, height : Nat, left : Int, width : Nat,
          shift_direction : {1, -1},
          dst_y : Int, h : Nat, skip : Nat, outline : BOOLEAN]

ASSUME CollisionsAssumption ==
  /\ NEvents \in Nat \ {0} /\ FrameHeight \in Nat /\ MaxRenderId \in Nat
  /\ MayFail \in BOOLEAN
  /\ Layouts \in [Events -> SUBSET Image]

VARIABLES
  render_id,   \* of the renderer
  allocated,   \* the events that have a render_priv
  priv,        \* their render_privs: where each was placed, if height > 0
  imgs,        \* the events as rendered for this frame
  used,        \* the places taken
  i,           \* the event a loop is at
  pc,          \* "idle"; "keep" and "place", the two loops; "fit"; "done"
  todo, shift, \* fit_rect: the places still to be looked at, the shift so far
  expected,    \* history: <<event, top>> of those that should not move
  drawn        \* history: the events before fix_collisions moved them

vars == <<render_id, allocated, priv, imgs, used, i, pc, todo, shift, expected, drawn>>
fit  == <<todo, shift>>

Rect == [x0 : Int, x1 : Int, y0 : Int, y1 : Int]
Priv == [render_id : Nat, top : Int, height : Nat, left : Int, width : Nat]

TypeOK ==
  /\ render_id \in Nat
  /\ allocated \in SUBSET Events
  /\ priv \in [Events -> Priv]
  /\ imgs \in [Events -> Image]
  /\ used \in SUBSET Rect
  /\ i \in Events
  /\ pc \in {"idle", "keep", "place", "fit", "done"}
  /\ todo \in SUBSET used
  /\ shift \in Int
  /\ expected \in SUBSET (Events \X Int)
  /\ drawn \in [Events -> Image]

NotShown == [detect_collisions |-> FALSE, top |-> 0, height |-> 0, left |-> 0,
             width |-> 0, shift_direction |-> 1,
             dst_y |-> 0, h |-> 0, skip |-> 0, outline |-> FALSE]

\* What calloc and memset leave.
Cleared(id) == [render_id |-> id, top |-> 0, height |-> 0, left |-> 0, width |-> 0]

Init ==
  /\ render_id = 1
  /\ allocated = {}
  /\ priv = [e \in Events |-> Cleared(0)]
  /\ imgs = [e \in Events |-> NotShown]
  /\ used = {} /\ i = 1
  /\ pc = "idle"
  /\ todo = {} /\ shift = 0
  /\ expected = {} /\ drawn = imgs

-----------------------------------------------------------------------------
(* Rectangles                                                              *)

\* The extent of a rendered event, or the place a render_priv has noted.
Box(b) == [x0 |-> b.left, x1 |-> b.left + b.width,
           y0 |-> b.top,  y1 |-> b.top + b.height]

Moved(r, d) == [x0 |-> r.x0, x1 |-> r.x1, y0 |-> r.y0 + d, y1 |-> r.y1 + d]

Overlap(r, s) == /\ r.y0 < s.y1 /\ s.y0 < r.y1
                 /\ r.x0 < s.x1 /\ s.x0 < r.x1

\* VSFilter considers events colliding if their intersection is not empty.
Collides(im) == im.detect_collisions /\ im.height # 0 /\ im.width # 0

\* By how much something is too large.
Excess(n) == IF n < 0 THEN 0 ELSE n

\* (Mutant: rows above the frame are taken off the end of the bitmap.)
Shifted_end(im, d) ==
  LET y     == im.dst_y + d
      above == Excess(-y)
      below == Excess(y + im.h - FrameHeight)
      h     == im.h - above - below
  IN [im EXCEPT !.top = @ + d, !.dst_y = IF h <= 0 THEN 0 ELSE y + above, !.h = Excess(h)]

\* shift_event, for the event and its image: clipped to the frame.  An outline has
\* no rows that could be skipped: its stride is 0.
Shifted(im, d) ==
  LET y     == im.dst_y + d
      above == Excess(-y)
      below == Excess(y + im.h - FrameHeight)
      h     == im.h - above - below
  IN [im EXCEPT !.top = @ + d, !.dst_y = IF h <= 0 THEN 0 ELSE y + above, !.h = Excess(h),
                !.skip = IF im.outline THEN @ ELSE @ + above]

-----------------------------------------------------------------------------
(* The two loops                                                           *)

Advance(next) ==
  IF i = NEvents THEN i' = 1 /\ pc' = next ELSE i' = i + 1 /\ UNCHANGED pc

\* get_render_priv: what was noted under other settings is forgotten.
Current(e) == IF priv[e].render_id = render_id THEN priv[e]
                                               ELSE Cleared(render_id)

\* Nothing to do for event i: it does not collide, or has no render_priv.
Skips == \/ ~Collides(imgs[i])
         \/ MayFail /\ i \notin allocated

\* What a frame can show.
Frames == {f \in [Events -> UNION Range(Layouts)] :
             \A e \in Events : f[e] \in Layouts[e]}

\* The events that had a place, as high as they are now, which no event before
\* them had too.
Undisturbed ==
  {<<e, Current(e).top>> : e \in {x \in Events :
     /\ Collides(imgs'[x]) /\ Current(x).height > 0
     /\ imgs'[x].height = Current(x).height
     /\ \A f \in 1 .. x - 1 :
          Collides(imgs'[f]) /\ Current(f).height > 0 => ~Overlap(Box(Current(f)), Box(Current(x)))}}

\* ass_render_frame has rendered the events of a frame.  (Were there no memory
\* for used[], they would be shown where they are and nothing would be noted.)
Render ==
  /\ pc \in {"idle", "done"}
  /\ imgs' \in Frames
  /\ used' = {} /\ i' = 1
  /\ expected' = Undisturbed /\ drawn' = imgs'
  /\ pc' = "keep"
  /\ UNCHANGED <<render_id, allocated, priv, fit>>

\* (Mutant: a place that is taken is kept.)
Stays_anyway(p, im) == p.height > 0 /\ p.height = im.height

\* May an event keep the place p that it had?
Stays(p, im) == /\ p.height > 0 /\ p.height = im.height
                /\ \A r \in used : ~Overlap(Box(p), r)

\* (Mutant: the event is moved by, not to, its old place.)
KeptAt_twice(p, im) == Shifted(im, p.top)

\* The event moved to the place it had.
KeptAt(p, im) == Shifted(im, p.top - im.top)

\* "fill used[] with fixed events"
Keep ==
  /\ pc = "keep"
  /\ \/ Skips /\ UNCHANGED <<allocated, priv, imgs, used>>
     \/ /\ Collides(imgs[i])
        /\ allocated' = allocated \cup {i}
        /\ IF Stays(Current(i), imgs[i])
             THEN /\ priv' = [priv EXCEPT ![i] = Current(i)]
                  /\ used' = used \cup {Box(Current(i))}
                  /\ imgs' = [imgs EXCEPT ![i] = KeptAt(Current(i), imgs[i])]
             ELSE /\ priv' = [priv EXCEPT ![i] = Cleared(render_id)]
                  /\ UNCHANGED <<used, imgs>>
  /\ Advance("place")
  /\ UNCHANGED <<render_id, expected, drawn, fit>>

\* "try to fit other events in free spaces"
Place ==
  /\ pc = "place"
  /\ \/ Skips /\ UNCHANGED <<allocated, priv, fit>> /\ Advance("done")
     \/ /\ Collides(imgs[i])
        /\ allocated' = allocated \cup {i}
        /\ priv' = [priv EXCEPT ![i] = Current(i)]
        /\ IF Current(i).height = 0
             THEN todo' = used /\ shift' = 0 /\ pc' = "fit" /\ UNCHANGED i
             ELSE UNCHANGED fit /\ Advance("done")
  /\ UNCHANGED <<render_id, imgs, used, expected, drawn>>

\* (Mutant: in any order.)
NextRect_any(dir) == todo

\* fit_rect looks at the places from the top on, or from the bottom on.
NextRect(dir) == {r \in todo : \A q \in todo : dir * r.y0 <= dir * q.y0}

\* One iteration of fit_rect.
Fit ==
  /\ pc = "fit"
  /\ \E r \in NextRect(imgs[i].shift_direction) :
       LET s == Box(imgs[i]) IN
       /\ shift' = IF ~Overlap(Moved(s, shift), r) THEN shift
                   ELSE IF imgs[i].shift_direction = 1 THEN r.y1 - s.y0
                                                       ELSE r.y0 - s.y1
       /\ todo' = todo \ {r}
  /\ UNCHANGED <<render_id, allocated, priv, imgs, used, i, pc, expected, drawn>>

\* The end of fit_rect: take the place and make it fixed.
FitEnd ==
  /\ pc = "fit"
  /\ todo = {}
  /\ used' = used \cup {Moved(Box(imgs[i]), shift)}
  /\ imgs' = IF shift = 0 THEN imgs
             ELSE [imgs EXCEPT ![i] = Shifted(imgs[i], shift)]
  /\ priv' = [priv EXCEPT ![i] =
       [render_id |-> render_id, top |-> imgs[i].top + shift,
        height |-> imgs[i].height, left |-> imgs[i].left,
        width |-> imgs[i].width]]
  /\ IF i = NEvents THEN i' = 1 /\ pc' = "done" ELSE i' = i + 1 /\ pc' = "place"
  /\ shift' = 0
  /\ UNCHANGED <<render_id, allocated, todo, expected, drawn>>

-----------------------------------------------------------------------------
(* Between frames                                                          *)

\* ass_reconfigure: settings have changed.
Reconfigure ==
  /\ pc \in {"idle", "done"} /\ render_id < MaxRenderId
  /\ render_id' = render_id + 1
  /\ pc' = "idle"
  /\ UNCHANGED <<allocated, priv, imgs, used, i, fit, expected, drawn>>

\* ass_free_event and a new event in its place.
Replace ==
  /\ pc \in {"idle", "done"}
  /\ \E e \in allocated :
       /\ allocated' = allocated \ {e}
       /\ priv' = [priv EXCEPT ![e] = Cleared(0)]
  /\ pc' = "idle"
  /\ UNCHANGED <<render_id, imgs, used, i, fit, expected, drawn>>

Next == Render \/ Keep \/ Place \/ Fit \/ FitEnd \/ Reconfigure \/ Replace

Spec == Init /\ [][Next]_vars

-----------------------------------------------------------------------------
(* Properties                                                              *)

Placed(e) == Collides(imgs[e]) /\ e \in allocated

\* Is e as wide and as far left as when it was placed?
AsNoted(e) == priv[e].left = imgs[e].left /\ priv[e].width = imgs[e].width

\* Once a layer is done, no two of its events overlap on the screen, however
\* they came and went in earlier frames.  This is not claimed of events whose
\* width or horizontal position changes while they are shown: fix_collisions
\* looks at the height only.
Apart ==
  pc = "done" => \A e, f \in Events :
    e # f /\ Placed(e) /\ Placed(f) /\ AsNoted(e) /\ AsNoted(f) =>
      ~Overlap(Box(imgs[e]), Box(imgs[f]))

\* The shifts in an event's direction that are shorter than d.
Shorter(dir, d) == IF dir = 1 THEN 0 .. d - 1 ELSE d + 1 .. 0

\* fit_rect, which looks at every place once, finds the free place nearest to
\* where the event was to be, in the direction it may move.
FitsNearest ==
  pc = "fit" /\ todo = {} =>
    LET s   == Box(imgs[i])
        dir == imgs[i].shift_direction
    IN /\ dir * shift >= 0
       /\ \A r \in used : ~Overlap(Moved(s, shift), r)
       /\ \A d \in Shorter(dir, shift) : \E r \in used : Overlap(Moved(s, d), r)

\* Events do not jump: one that keeps its height stays where it was, whatever
\* appears beside it, unless settings changed or an event before it in the
\* layer had the same place while this one was not shown.
Steady == pc = "done" => \A p \in expected : imgs[p[1]].top = p[2]

Screen == 0 .. FrameHeight - 1
Lines(im) == im.dst_y .. im.dst_y + im.h - 1

\* An image that was moved with its event covers the lines that it should, where
\* they are on the screen, and each row of its bitmap is on its line.
Follows(im, was) ==
  LET d == im.top - was.top IN
    /\ Lines(im) = {y + d : y \in Lines(was)} \cap Screen
    /\ im.h > 0 /\ ~im.outline => im.dst_y - im.skip = was.dst_y - was.skip + d

\* Wherever fix_collisions puts an event, its image goes with it, and what is cut
\* off is what is beyond the frame.  An event that is not moved is left as it was
\* rendered, which may be beyond the frame in the deferred modes.
ImagesFollow == \A e \in Events : imgs[e] = drawn[e] \/ Follows(imgs[e], drawn[e])

\* An outline is where its event is: "every coordinate below is relative to its
\* origin (dst_x, dst_y)" (ass.h, lines 115-116).  shift_event cuts it as if it
\* had rows, so that one which is moved beyond the top is drawn too low.
OutlinesFollow ==
  \A e \in Events : imgs[e].outline /\ imgs[e].h > 0 =>
    imgs[e].dst_y - imgs[e].top = drawn[e].dst_y - drawn[e].top
=============================================================================
