---------------------------- MODULE MCCollisions -----------------------------
(* A layer of few events, in a frame of eight rows and four columns.        *)
EXTENDS CollisionsProofs

\* An image that shows more than the event's extent, as with a border, and is
\* cut at the frame if it is combined.
Event(top, height, left, width, dir, more, mode) ==
  LET cut == IF mode = "combined" THEN Excess(more - top) ELSE 0
      end == top + height + more
  IN [detect_collisions |-> TRUE, top |-> top, height |-> height,
      left |-> left, width |-> width, shift_direction |-> dir,
      dst_y |-> top - more + cut, skip |-> cut, outline |-> mode = "outline",
      h |-> (IF mode = "combined" /\ end > 8 THEN 8 ELSE end) - (top - more + cut)]

\* A line that spans the frame, at the bottom, its glyphs beyond it; one that is
\* now narrower, now wider, or higher, and then moves down; a third on the right
\* that is tall, and already cut above.
LinesOf ==
  <<{NotShown, Event(7, 1, 0, 4, -1, 1, "glyph")},
    {Event(6, 2, 0, 2, -1, 0, "combined"), Event(6, 2, 0, 3, -1, 2, "glyph"),
     Event(5, 3, 1, 2, 1, 1, "outline")},
    {NotShown, Event(3, 4, 2, 2, -1, 4, "combined")}>>

\* Two lines of outlines that move up.
OutlinesOf ==
  <<{NotShown, Event(2, 2, 0, 4, -1, 0, "outline")},
    {Event(2, 3, 0, 2, -1, 0, "outline"), Event(2, 1, 0, 2, -1, 0, "outline")}>>
==============================================================================
