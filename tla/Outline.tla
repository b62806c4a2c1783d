-------------------------------- MODULE Outline --------------------------------
(***************************************************************************)
(* libass/ass_outline.c without its stroker, libass/ass_drawing.c and the  *)
(* conversion of a font's glyphs (ass_get_glyph_outline).                  *)
(*                                                                         *)
(* An outline is [points, segments, room, ok, asserts]: each of segments   *)
(* is [order, last], how many points it takes and whether it ends a        *)
(* contour.  There is memory for room points; ok turns FALSE when a call   *)
(* fails, and calls after it do nothing, as in the && chains of the code.  *)
(* asserts turns FALSE where an assertion of the code would fail.          *)
(*                                                                         *)
(* Of a point of a drawing there is the x coordinate: y is treated like    *)
(* it everywhere.                                                          *)
(***************************************************************************)
EXTENDS Integers, Sequences, SequencesExt, FiniteSetsExt

CONSTANT OutlineMax   \* OUTLINE_MAX

Empty(room) == [points |-> <<>>, segments |-> <<>>, room |-> room, ok |-> TRUE, asserts |-> TRUE]

\* ass_outline_add_segment
AddSegment(o, order) ==
  IF ~o.ok THEN o ELSE [o EXCEPT !.segments = Append(@, [order |-> order, last |-> FALSE])]

\* ass_outline_add_point, of a point that is in range or not; order is 0 where
\* no segment begins or ends with the point
AddPoint(o, pt, inRange, order) ==
  IF ~o.ok THEN o
  ELSE IF ~inRange \/ Len(o.points) >= o.room THEN [o EXCEPT !.ok = FALSE]
  ELSE LET added == [o EXCEPT !.points = Append(@, pt)]
       IN  IF order = 0 THEN added ELSE AddSegment(added, order)

\* ass_outline_close_contour
CloseOutline(o) ==
  IF ~o.ok THEN o
  ELSE IF o.segments = <<>> \/ Last(o.segments).last THEN [o EXCEPT !.asserts = FALSE]
  ELSE [o EXCEPT !.segments[Len(o.segments)].last = TRUE]

\* ass_outline_add_rect
AddRect(o, corners) ==
  [o EXCEPT !.points = @ \o corners,
            !.segments = @ \o [k \in 1..4 |-> [order |-> 1, last |-> k = 4]],
            !.asserts = @ /\ Len(o.points) + 4 <= o.room
                          /\ (o.segments # <<>> => Last(o.segments).last)]

\* ass_outline_rotate_90: the points of a glyph of vertical text are all turned
\* and moved, or one is out of range, and the outline is lost.  A point of a glyph
\* is named by its place in the font, which stays.
Turned(o, fits) == IF fits THEN o ELSE [Empty(o.room) EXCEPT !.ok = FALSE]

\* How many points the segments before the k-th take: it begins with the next.
Before(o, k) == FoldLeft(LAMBDA n, s : n + s.order, 0, SubSeq(o.segments, 1, k - 1))

\* What ass_outline.h says of outlines: the points are those of the segments,
\* and the last segment ends a contour.
Sound(o) ==
  /\ o.asserts
  /\ Before(o, Len(o.segments) + 1) = Len(o.points)
  /\ o.segments # <<>> => Last(o.segments).last

-----------------------------------------------------------------------------
(* drawing_tokenize.  A text is a sequence of [cmd, points], the commands   *)
(* with the points that can be read after them; what cannot is skipped.     *)

Token(type, pt) == [type |-> type, point |-> pt]
TokensOf(type, pts) == [k \in DOMAIN pts |-> Token(type, pts[k])]

\* add_many_points: batches that are complete
Batches(type, pts, size) == TokensOf(type, SubSeq(pts, 1, Len(pts) - (Len(pts) % size)))

AddTokens(t, new) ==
  [t EXCEPT !.tokens = @ \o new, !.points = @ + Len(new)]

\* 'm' and 'n': the first point that is found becomes the root.
Move(t, type, c) ==
  IF t.tokens = <<>> /\ c.points = <<>> THEN t
  ELSE IF t.tokens = <<>> /\ ~t.m_seen THEN [t EXCEPT !.rejected = TRUE]
  ELSE AddTokens(t, TokensOf(type, c.points))

\* 's' and 'p': three points begin a spline, others extend what there is.
Extend(t, pts) ==
  IF t.points < 3 THEN t ELSE AddTokens(t, TokensOf("extend", pts))

Spline(t, pts) ==
  IF Len(pts) < 3 THEN [t EXCEPT !.spline_start = 0]
  ELSE Extend([AddTokens(t, TokensOf("spline", SubSeq(pts, 1, 3)))
                 EXCEPT !.spline_start = Len(t.tokens)],
              SubSeq(pts, 4, Len(pts)))

\* 'c': the point before the spline and its first two come again.
CloseSpline(t) ==
  IF t.spline_start = 0 THEN t
  ELSE [t EXCEPT !.spline_start = 0,
         !.tokens = @ \o [k \in 1..3 |-> Token("extend", t.tokens[t.spline_start + k - 1].point)]]

Command(t, c) ==
  IF t.rejected THEN t
  ELSE CASE c.cmd = "m" -> Move([t EXCEPT !.m_seen = TRUE], "move", c)
         [] c.cmd = "n" -> Move(t, "move_nc", c)
         [] c.cmd = "l" /\ t.tokens # <<>> -> AddTokens(t, TokensOf("line", c.points))
         [] c.cmd = "b" /\ t.tokens # <<>> -> AddTokens(t, Batches("bezier", c.points, 3))
         [] c.cmd = "s" /\ t.tokens # <<>> -> Spline(t, c.points)
         [] c.cmd = "p" -> Extend(t, c.points)
         [] c.cmd = "c" -> CloseSpline(t)
         [] OTHER -> t

Tokenize(text) ==
  LET t == FoldLeft(Command, [tokens |-> <<>>, points |-> 0, m_seen |-> FALSE,
                              spline_start |-> 0, rejected |-> FALSE], text)
  IN  IF t.rejected THEN <<>> ELSE t.tokens

-----------------------------------------------------------------------------
(* ass_drawing_parse                                                       *)

\* Division as C has it
Third(x) == IF x < 0 THEN -((-x) \div 3) ELSE x \div 3

\* drawing_add_curve: the Bezier points of a spline's four
BezierOf(p) ==
  LET d01 == Third(p[2] - p[1])
      d12 == Third(p[3] - p[2])
      d23 == Third(p[4] - p[3])
  IN  <<p[2] + (d12 - d01) \div 2, p[2] + d12, p[3] - d12, p[3] + (d23 - d12) \div 2>>

InRange(x) == -OutlineMax <= x /\ x <= OutlineMax

AddCurve(d, p, spline) ==
  LET b == IF spline THEN BezierOf(p) ELSE p
      begun == IF d.started THEN d.outline ELSE AddPoint(d.outline, b[1], InRange(b[1]), 0)
      first == AddPoint(begun, b[2], InRange(b[2]), 0)
      second == AddPoint(first, b[3], InRange(b[3]), 0)
  IN  [d EXCEPT !.outline = AddPoint(second, b[4], InRange(b[4]), 3), !.started = TRUE,
                !.cbox = @ \cup Range(p)]

\* The line back to the beginning of the contour
EndContour(d) ==
  IF d.started THEN [d EXCEPT !.outline = CloseOutline(AddSegment(@, 1)), !.started = FALSE]
  ELSE d

AddLineTo(d, to) ==
  LET begun == IF d.started THEN d.outline ELSE AddPoint(d.outline, d.pen, InRange(d.pen), 0)
  IN  [d EXCEPT !.outline = AddPoint(begun, to, InRange(to), 1), !.started = TRUE,
                !.cbox = @ \cup {to}]

\* The k-th token, unless the one before it took it too.  cbox collects the
\* points; fits is what assert_3_forward and assert_4_back assert.
Draw(tokens, d, k) ==
  LET type == tokens[k].type
      Four(from) == [j \in 1..4 |-> tokens[from + j - 1].point]
      fits == CASE type \in {"bezier", "spline"} -> k > 1 /\ k + 2 <= Len(tokens)
                [] type = "extend" -> k > 3
                [] OTHER -> TRUE
      pen == [d EXCEPT !.pen = tokens[k].point, !.cbox = @ \cup {tokens[k].point}]
  IN  IF k < d.next \/ ~d.outline.ok THEN d
      ELSE IF ~fits THEN [d EXCEPT !.outline.asserts = FALSE]
      ELSE CASE type = "move_nc" -> pen
             [] type = "move" -> EndContour(pen)
             [] type = "line" -> AddLineTo(d, tokens[k].point)
             [] type = "bezier" -> [AddCurve(d, Four(k - 1), FALSE) EXCEPT !.next = k + 3]
             [] type = "spline" -> [AddCurve(d, Four(k - 1), TRUE) EXCEPT !.next = k + 3]
             [] type = "extend" -> AddCurve(d, Four(k - 3), TRUE)

\* A text that cannot be tokenised is an empty drawing, and so is one for the
\* tokens of which there is no memory.
ParseDrawing(text, room, noTokens) ==
  LET tokens == IF noTokens THEN <<>> ELSE Tokenize(text)
      drawn == FoldLeft(LAMBDA d, k : Draw(tokens, d, k),
                        [outline |-> Empty(room), pen |-> 0, started |-> FALSE, next |-> 1,
                         cbox |-> {}],
                        [k \in DOMAIN tokens |-> k])
  IN  EndContour(drawn)

-----------------------------------------------------------------------------
(* ass_outline_convert.  A contour is a sequence of tags, "far" standing    *)
(* for a point that is not a valid_point; the k-th point of the font is     *)
(* 2 * k here, the one in the middle between it and the next 2 * k + 1.     *)

\* What a contour looks like so far, which begins with point `from`
Status(o, st) == [o |-> o, st |-> st]
Fails(o) == [o EXCEPT !.ok = FALSE]
SegmentOf(st) == CASE st = "on" -> 1 [] st = "conic" -> 2 [] st = "cubic2" -> 3

\* Outlines are preallocated: room is a matter of assertions.
PutPoint(o, pt) ==
  [o EXCEPT !.points = Append(@, pt), !.asserts = @ /\ Len(o.points) < o.room]

TagStep(c, pt, tag) ==
  CASE ~c.o.ok -> c
    [] tag = "on" /\ c.st # "cubic1" -> Status(PutPoint(AddSegment(c.o, SegmentOf(c.st)), pt), "on")
    [] tag = "conic" /\ c.st = "on" -> Status(PutPoint(c.o, pt), "conic")
    [] tag = "conic" /\ c.st = "conic" ->
         Status(PutPoint(PutPoint(AddSegment(c.o, 2), pt - 1), pt), "conic")
    [] tag = "cubic" /\ c.st = "on" -> Status(PutPoint(c.o, pt), "cubic1")
    [] tag = "cubic" /\ c.st = "cubic1" -> Status(PutPoint(c.o, pt), "cubic2")
    [] OTHER -> Status(Fails(c.o), c.st)

\* A contour may begin with a point off the curve: if the last is on it, it
\* begins there, and otherwise half way between them.
ConvertContour(o, base, tags) ==
  LET n == Len(tags)
      rotated == tags[1] = "conic" /\ tags[n] = "on"
      begin == CASE tags[1] = "on" -> Status(PutPoint(o, 2 * base), "on")
                 [] rotated -> Status(PutPoint(PutPoint(o, 2 * (base + n - 1)), 2 * base), "conic")
                 [] tags[1] = "conic" /\ tags[n] = "conic" ->
                      Status(PutPoint(PutPoint(o, 2 * base - 1), 2 * base), "conic")
                 [] OTHER -> Status(Fails(o), "on")
      steps == [k \in 1 .. n - 1 - (IF rotated THEN 1 ELSE 0) |-> k]
      c == FoldLeft(LAMBDA s, k : TagStep(s, 2 * (base + k), tags[k + 1]), begin, steps)
  IN  IF ~c.o.ok \/ c.st = "cubic1" THEN Fails(c.o)
      ELSE CloseOutline(AddSegment(c.o, SegmentOf(c.st)))

\* Contours of fewer than three points are left out.
Convert(o, contours) ==
  FoldLeft(LAMBDA s, c :
             IF ~s.o.ok THEN s
             ELSE [o |-> IF Len(c) < 3 THEN s.o ELSE ConvertContour(s.o, s.base, c),
                   base |-> s.base + Len(c)],
           [o |-> o, base |-> 1], contours).o

\* ass_get_glyph_outline: a font's outline, turned where it is vertical, with
\* lines under and through it.  An outline that cannot be had is all empty.
GlyphOutline(contours, lines, turned, fits) ==
  LET n == FoldLeft(LAMBDA m, c : m + Len(c), 0, contours)
      converted == Convert(Empty(2 * n + 4 * lines), contours)
      placed == IF turned THEN Turned(converted, fits) ELSE converted
  IN  IF ~placed.ok THEN [Empty(0) EXCEPT !.ok = FALSE, !.asserts = placed.asserts]
      ELSE FoldLeft(LAMBDA o, l : AddRect(o, <<-l, -l, -l, -l>>), placed,
                    [l \in 1..lines |-> l])
=============================================================================
