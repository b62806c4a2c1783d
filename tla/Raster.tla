--------------------------------- MODULE Raster ---------------------------------
(***************************************************************************)
(* libass/ass_rasterizer.c, as ass_outline_to_bitmap and the export of     *)
(* tiles use it: the lines of an outline and of a second one are sorted    *)
(* into the tiles of a window, by halving it until a part of it is of one  *)
(* kind; what is known of a part are the lines that are in it and the      *)
(* winding number of its corner.  Lines are kept in two buffers, the first *)
(* half's where they were, the second half's at the end of the other one.  *)
(*                                                                         *)
(* Points are <<x, y>>; axis 1 is x, and splitting at an axis is the same  *)
(* for both, with left and right, or top and bottom, as near and far.      *)
(* Coordinates are integers as in the code, and so is all that decides how *)
(* a line is split; what a tile shows is looked at in points that are on   *)
(* no line, and antialiasing is left out.                                  *)
(***************************************************************************)
EXTENDS Outline

CONSTANTS
  Pixel,          \* coordinates of a pixel: 64
  Tile,           \* pixels of a tile
  OutlineError    \* RASTERIZER_PRECISION

VARIABLE raster   \* [event, step, buf, first, path, window, levels, tiles, asserts]: the
                  \* event, whose fields do not change, linebuf, n_first, the lines that
                  \* were made of the outlines, the bitmap's place in pixels, the parts
                  \* still to be filled, the tiles that are

Job == raster.event
TileSize == Pixel * Tile

-----------------------------------------------------------------------------
(* The lines of an outline                                                 *)

Abs(n) == IF n < 0 THEN -n ELSE n
Dot(p, q) == p[1] * q[1] + p[2] * q[2]
Vector(from, to) == <<to[1] - from[1], to[2] - from[2]>>

\* segment_subdivide: whether a control point is far from the line
IsFar(begin, end, pt) ==
  LET r == Vector(begin, end)
      v == Vector(begin, pt)
      er == OutlineError * Max({Abs(r[1]), Abs(r[2])})
  IN  \/ Dot(r, v) < -er \/ Dot(r, v) > Dot(r, r) + er
      \/ Abs(r[1] * v[2] - r[2] * v[1]) > er

\* The weighted sum of points, rounded as the code does
Mean(weights, pts, round, by) ==
  [i \in 1..2 |-> (FoldLeft(LAMBDA n, k : n + weights[k] * pts[k][i], round,
                            [k \in DOMAIN pts |-> k])) \div by]

\* add_quadratic, add_cubic: the ends of their lines
RECURSIVE Quadratic(_), Cubic(_)
Quadratic(p) ==
  IF ~IsFar(p[1], p[3], p[2]) THEN <<p[3]>>
  ELSE LET middle == Mean(<<1, 2, 1>>, p, 2, 4)
       IN  Quadratic(<<p[1], Mean(<<1, 1>>, <<p[1], p[2]>>, 0, 2), middle>>)
           \o Quadratic(<<middle, Mean(<<1, 1>>, <<p[2], p[3]>>, 0, 2), p[3]>>)
Cubic(p) ==
  IF ~IsFar(p[1], p[4], p[2]) /\ ~IsFar(p[1], p[4], p[3]) THEN <<p[4]>>
  ELSE LET middle == Mean(<<1, 3, 3, 1>>, p, 3, 8)
       IN  Cubic(<<p[1], Mean(<<1, 1>>, <<p[1], p[2]>>, 0, 2),
                   Mean(<<1, 2, 1>>, <<p[1], p[2], p[3]>>, 2, 4), middle>>)
           \o Cubic(<<middle, Mean(<<1, 2, 1>>, <<p[2], p[3], p[4]>>, 2, 4),
                      Mean(<<1, 1>>, <<p[3], p[4]>>, 0, 2), p[4]>>)

\* The points of the k-th segment of an outline: the last of a contour ends where
\* that begins.
PointsOf(o, k) ==
  LET first == Before(o, k) + 1
      contour == Max({1} \cup {Before(o, j + 1) + 1 : j \in {j \in 1 .. k - 1 : o.segments[j].last}})
      beyond == first + o.segments[k].order
  IN  SubSeq(o.points, first, beyond - 1)
      \o <<o.points[IF o.segments[k].last THEN contour ELSE beyond]>>

\* ass_rasterizer_set_outline: the lines [from, to], of which none is a point
LinesOf(o) ==
  LET Ends(p) == CASE Len(p) = 2 -> p [] Len(p) = 3 -> <<p[1]>> \o Quadratic(p)
                   [] Len(p) = 4 -> <<p[1]>> \o Cubic(p)
      Chain(pts) == [k \in 1 .. Len(pts) - 1 |-> [from |-> pts[k], to |-> pts[k + 1]]]
      lines == FlattenSeq([k \in DOMAIN o.segments |-> Chain(Ends(PointsOf(o, k)))])
  IN  SelectSeq(lines, LAMBDA l : l.from # l.to)

-----------------------------------------------------------------------------
(* Segments: points p with Dot(n, p) = c between lo and hi.  dn and ul_dr   *)
(* say where the line goes to and which way it leans; near and far, whether *)
(* lo and hi are its ends, or bounds of an end that was cut off.            *)

\* add_line
SegmentFor(l) ==
  LET v == Vector(l.from, l.to)
      n == <<v[2], -v[1]>>
      dn == v[2] >= 0
  IN  [n |-> n, c |-> Dot(n, l.from), dn |-> dn, ul_dr |-> (v[1] < 0) # dn,
       lo |-> [i \in 1..2 |-> Min({l.from[i], l.to[i]})],
       hi |-> [i \in 1..2 |-> Max({l.from[i], l.to[i]})],
       near |-> <<TRUE, TRUE>>, far |-> <<TRUE, TRUE>>]

Other(i) == 3 - i

\* segment_check_left and _top, segment_check_right and _bottom: an end that was
\* cut off is judged by where the line is at the edge of what is left.
AtEdge(s, i, x, edge) == s.c - s.n[i] * x - s.n[Other(i)] * edge[Other(i)]
IsAfter(s, i, x) ==
  LET cc == AtEdge(s, i, x, IF s.ul_dr THEN s.lo ELSE s.hi)
  IN  IF s.near[i] THEN s.lo[i] >= x ELSE IF s.n[i] < 0 THEN cc <= 0 ELSE cc >= 0
\* (Mutant: a line that ends where the parts meet is in both.)
IsBefore_strict(s, i, x) ==
  LET cc == AtEdge(s, i, x, IF s.ul_dr THEN s.hi ELSE s.lo)
  IN  IF s.far[i] THEN s.hi[i] < x ELSE IF s.n[i] > 0 THEN cc <= 0 ELSE cc >= 0
IsBefore(s, i, x) ==
  LET cc == AtEdge(s, i, x, IF s.ul_dr THEN s.hi ELSE s.lo)
  IN  IF s.far[i] THEN s.hi[i] <= x ELSE IF s.n[i] > 0 THEN cc <= 0 ELSE cc >= 0

\* segment_move_x, segment_move_y
Beyond(s, i, x) ==
  LET lo == Max({s.lo[i] - x, 0})
      cut == lo = 0 /\ s.near[i] /\ s.ul_dr
  IN  [s EXCEPT !.lo[i] = lo, !.hi[i] = @ - x, !.c = @ - s.n[i] * x,
                !.near[Other(i)] = @ /\ ~cut]

\* segment_split_horz, segment_split_vert: the flags of a line that leans the
\* other way are exchanged.
FirstPart(s, i, x) ==
  [s EXCEPT !.hi[i] = x, !.far[i] = TRUE,
            !.near[Other(i)] = @ /\ s.ul_dr, !.far[Other(i)] = @ /\ ~s.ul_dr]
SecondPart(s, i, x) ==
  [s EXCEPT !.lo[i] = 0, !.hi[i] = @ - x, !.c = @ - s.n[i] * x, !.near[i] = TRUE,
            !.near[Other(i)] = @ /\ ~s.ul_dr, !.far[Other(i)] = @ /\ s.ul_dr]

\* The body of polyline_split_horz and _vert: what of a segment is on either side
\* of x, by how much the winding number of the second corner differs for it, and
\* whether the assertion of segment_split holds
SplitSegment(s, i, x) ==
  LET delta == IF s.lo[Other(i)] = 0 /\ s.near[Other(i)] THEN IF s.n[i] < 0 THEN 1 ELSE -1 ELSE 0
  IN  CASE IsBefore(s, i, x) ->
             [one |-> IF s.lo[i] >= x THEN <<>> ELSE <<[s EXCEPT !.hi[i] = Min({@, x})]>>,
              two |-> <<>>, delta |-> delta, asserts |-> TRUE]
        [] ~IsBefore(s, i, x) /\ IsAfter(s, i, x) ->
             [one |-> <<>>, two |-> <<Beyond(s, i, x)>>, delta |-> 0, asserts |-> TRUE]
        [] OTHER ->
             [one |-> <<FirstPart(s, i, x)>>, two |-> <<SecondPart(s, i, x)>>,
              delta |-> IF s.ul_dr THEN delta ELSE 0, asserts |-> s.lo[i] < x /\ x < s.hi[i]]

-----------------------------------------------------------------------------
(* What a part of the window shows                                         *)

\* A level is [place, size, index, n, winding]: where it is and how large, in
\* tiles, which buffer its lines are in, how many of each outline, and the winding
\* numbers of its first corner.
LinesIn(level, g) ==
  LET buffer == raster.buf[level.index]
      begin == Len(buffer) - level.n[1] - level.n[2] + (IF g = 2 THEN level.n[1] ELSE 0)
  IN  SubSeq(buffer, begin + 1, begin + level.n[g])

\* get_fill_flags
FillFlags(lines, winding) ==
  LET s == lines[1]
      second == IF ~(s.ul_dr /\ s.near[1]) = ~s.dn THEN winding + 1 ELSE winding
  IN  CASE lines = <<>> -> IF winding # 0 THEN {"solid"} ELSE {}
        [] Len(lines) > 1 -> {"complex", "generic"}
        [] OTHER -> CASE second = 0 -> {"complex", "reverse"}
                      [] second = 1 -> {"complex"}
                      [] OTHER -> {"solid"}

FlagsOf(level) == [g \in 1..2 |-> FillFlags(LinesIn(level, g), level.winding[g])]
IsSolid(f) == "solid" \in f[1] \cup f[2] \/ "complex" \notin f[1] \cup f[2]
IsHalfplane(f) ==
  ~IsSolid(f) /\ "generic" \notin f[1] \cup f[2] /\ ("complex" \in f[1]) # ("complex" \in f[2])

SolidTile(set) == [what |-> "solid", set |-> set]
HalfTile(s, reverse) == [what |-> "half", n |-> s.n, c |-> s.c, reverse |-> reverse]
GenericTile(lines, winding) == [what |-> "generic", lines |-> lines, winding |-> winding]

\* rasterizer_fill_halfplane: a tile of a larger part is solid where the line does
\* not come near its middle.
HalfplaneAt(s, reverse, x, y) ==
  LET c == s.c - (s.n[1] * x + s.n[2] * y) * TileSize
      offs == 2 * c - (s.n[1] + s.n[2]) * TileSize
      near == Abs(offs) < (Abs(s.n[1]) + Abs(s.n[2])) * TileSize
  IN  IF near THEN HalfTile([s EXCEPT !.c = c], reverse) ELSE SolidTile((offs > 0) # reverse)

\* Row by row; shows[x][y] is a tile's.
TilesOf(level, shows) ==
  LET X(k) == (k - 1) % level.size[1]
      Y(k) == (k - 1) \div level.size[1]
  IN  [k \in 1 .. level.size[1] * level.size[2] |->
         [place |-> <<level.place[1] + X(k), level.place[2] + Y(k)>>,
          groups |-> <<shows[X(k)][Y(k)]>>]]
Everywhere(level, tile) == [x \in 0 .. level.size[1] - 1 |-> [y \in 0 .. level.size[2] - 1 |-> tile]]

-----------------------------------------------------------------------------
(* Steps                                                                   *)

CanHold(n) == n <= Job.room        \* check_capacity

\* ass_rasterizer_set_outline for both; ass_outline_to_bitmap and
\* ass_outline_to_tiles: the window begins before the outlines and ends after them,
\* and has whole tiles; a bitmap's rows may be longer.
SetOutlines ==
  /\ raster.step = "outlines"
  /\ \E path \in {[g \in 1..2 |-> LinesOf(Job.outlines[g])]} :
       LET segments == [k \in 1 .. Len(path[1]) + Len(path[2]) |->
                          SegmentFor((path[1] \o path[2])[k])]
           lo == [i \in 1..2 |-> Min({segments[k].lo[i] : k \in DOMAIN segments})]
           hi == [i \in 1..2 |-> Max({segments[k].hi[i] : k \in DOMAIN segments})]
           from == [i \in 1..2 |-> (lo[i] - 1) \div Pixel]
           size == [i \in 1..2 |-> (hi[i] + 2 * Pixel - 1) \div Pixel - from[i]]
           tiles == [i \in 1..2 |-> (size[i] + Tile - 1) \div Tile]
           wide == IF Job.tiled THEN tiles
                   ELSE <<((tiles[1] + Job.align - 1) \div Job.align) * Job.align, tiles[2]>>
       IN  raster' = IF segments = <<>> \/ ~CanHold(Len(segments)) \/ Job.lacks = "bitmap"
                     THEN [raster EXCEPT !.step = "nothing"]
                     ELSE [raster EXCEPT !.step = "fill", !.buf[1] = segments,
                             !.first = Len(path[1]), !.path = path,
                             !.window = [from |-> from, size |-> wide]]

\* ass_rasterizer_fill.  Lines that are not within the window would be cut off
\* first.
StartFill ==
  /\ raster.step = "fill"
  /\ LET begin == [i \in 1..2 |-> raster.window.from[i] * Pixel]
         lines == raster.buf[1]
         shifted == [k \in DOMAIN lines |->
                       [lines[k] EXCEPT !.lo = Vector(begin, @), !.hi = Vector(begin, @),
                                        !.c = @ - Dot(lines[k].n, begin)]]
     IN  raster' = IF CanHold(Len(raster.buf[2]) + Len(lines))
                   THEN [raster EXCEPT !.step = "level", !.buf = <<shifted, <<>>>>,
                           !.levels = <<[place |-> <<0, 0>>, size |-> raster.window.size, index |-> 1,
                                         n |-> <<raster.first, Len(lines) - raster.first>>,
                                         winding |-> <<0, 0>>]>>]
                   ELSE [raster EXCEPT !.step = "failed"]

\* What is filled next, and what is left when it is: its lines are taken off their
\* buffer.
Level == raster.levels[1]
AfterLevel(tiles) ==
  [raster EXCEPT !.levels = Tail(@), !.tiles = @ \o tiles,
                 !.buf[Level.index] = SubSeq(@, 1, Len(@) - Level.n[1] - Level.n[2])]

InLevel == raster.step = "level" /\ raster.levels # <<>>

FillSolid ==
  /\ InLevel /\ IsSolid(FlagsOf(Level))
  /\ \E f \in {FlagsOf(Level)} :
       raster' = AfterLevel(TilesOf(Level, Everywhere(Level, SolidTile("solid" \in f[1] \cup f[2]))))

FillHalfplane ==
  /\ InLevel /\ IsHalfplane(FlagsOf(Level))
  /\ \E f \in {FlagsOf(Level)} :
       LET s == LinesIn(Level, IF "complex" \in f[2] THEN 2 ELSE 1)[1]
           reverse == "reverse" \in f[1] \cup f[2]
       IN  raster' = AfterLevel(TilesOf(Level,
             IF Level.size = <<1, 1>> THEN Everywhere(Level, HalfTile(s, reverse))
             ELSE [x \in 0 .. Level.size[1] - 1 |-> [y \in 0 .. Level.size[2] - 1 |->
                     HalfplaneAt(s, reverse, x, y)]]))

\* A tile of several lines; where both outlines are in it, the brighter counts.
FillTile ==
  /\ InLevel /\ Level.size = <<1, 1>>
  /\ \E f \in {FlagsOf(Level)} :
       LET Group(g) == IF "generic" \in f[g] THEN GenericTile(LinesIn(Level, g), Level.winding[g])
                       ELSE HalfTile(LinesIn(Level, g)[1], "reverse" \in f[g])
           shown == SelectSeq(<<1, 2>>, LAMBDA g : "complex" \in f[g])
       IN  /\ ~IsSolid(f) /\ ~IsHalfplane(f)
           /\ raster' = AfterLevel(<<[place |-> Level.place,
                                   groups |-> [k \in DOMAIN shown |-> Group(shown[k])]]>>)

\* The longer side is cut at the largest power of two there is.
HalfOf(n) == Max({2^k : k \in {k \in 0 .. n : 2^k < n}})

SplitLevel ==
  /\ InLevel /\ Level.size # <<1, 1>>
  /\ CanHold(Len(raster.buf[Other(Level.index)]) + Level.n[1] + Level.n[2])
  /\ \E f \in {FlagsOf(Level)} : ~IsSolid(f) /\ ~IsHalfplane(f)
  /\ LET i == IF Level.size[1] > Level.size[2] THEN 1 ELSE 2
         half == HalfOf(Level.size[i])
         parts == [g \in 1..2 |-> LET lines == LinesIn(Level, g)
                                  IN  [k \in DOMAIN lines |-> SplitSegment(lines[k], i, half * TileSize)]]
         Ones(g) == FlattenSeq([k \in DOMAIN parts[g] |-> parts[g][k].one])
         Twos(g) == FlattenSeq([k \in DOMAIN parts[g] |-> parts[g][k].two])
         Winding(g) == FoldLeft(LAMBDA w, p : w + p.delta, Level.winding[g], parts[g])
         offs == Len(raster.buf[Level.index]) - Level.n[1] - Level.n[2]
         one == [Level EXCEPT !.size[i] = half, !.n = <<Len(Ones(1)), Len(Ones(2))>>]
         two == [Level EXCEPT !.size[i] = @ - half, !.place[i] = @ + half, !.index = Other(@),
                              !.n = <<Len(Twos(1)), Len(Twos(2))>>, !.winding = <<Winding(1), Winding(2)>>]
     IN  raster' = [raster EXCEPT
           !.levels = <<one, two>> \o Tail(@),
           !.buf = [b \in 1..2 |-> IF b = Level.index THEN SubSeq(@[b], 1, offs) \o Ones(1) \o Ones(2)
                                   ELSE @[b] \o Twos(1) \o Twos(2)],
           !.asserts = @ /\ \A g \in 1..2 : \A k \in DOMAIN parts[g] : parts[g][k].asserts]

\* Without memory for the lines, a bitmap is given up; the export keeps the tiles
\* it has.
LevelFails ==
  /\ InLevel /\ Level.size # <<1, 1>>
  /\ ~CanHold(Len(raster.buf[Other(Level.index)]) + Level.n[1] + Level.n[2])
  /\ \E f \in {FlagsOf(Level)} : ~IsSolid(f) /\ ~IsHalfplane(f)
  /\ raster' = [raster EXCEPT !.step = "failed", !.levels = <<>>,
                              !.tiles = IF Job.tiled THEN @ ELSE <<>>]

\* The export is given up if its tiles or their lines could not be kept.
FillDone ==
  /\ raster.step = "level" /\ raster.levels = <<>>
  /\ raster' = IF Job.tiled /\ Job.lacks = "pool" THEN [raster EXCEPT !.step = "nothing", !.tiles = <<>>]
                ELSE [raster EXCEPT !.step = "filled"]

Rasterize == SetOutlines \/ StartFill \/ FillSolid \/ FillHalfplane \/ FillTile
             \/ SplitLevel \/ LevelFails \/ FillDone

-----------------------------------------------------------------------------
(* What is right                                                           *)

\* Of an outline, how often it winds around a point
WindingOf(lines, p) ==
  LET Crossing(l) ==
        LET v == Vector(l.from, l.to)
            w == Vector(l.from, p)
            beside == v[1] * w[2] - w[1] * v[2]
        IN  CASE l.to[2] < p[2] /\ p[2] < l.from[2] /\ beside > 0 -> 1
              [] l.from[2] < p[2] /\ p[2] < l.to[2] /\ beside < 0 -> -1
              [] OTHER -> 0
  IN  FoldLeft(LAMBDA n, l : n + Crossing(l), 0, lines)

\* A point that is on no line, nor at the height of an end of one
IsClear(lines, p) ==
  \A k \in DOMAIN lines :
    LET l == lines[k]
        v == Vector(l.from, l.to)
        w == Vector(l.from, p)
    IN  /\ p[2] # l.from[2]
        /\ Min({l.from[2], l.to[2]}) < p[2] /\ p[2] < Max({l.from[2], l.to[2]})
             => v[1] * w[2] # w[1] * v[2]

\* fill_generic_tile: what a line adds, at the left and to the right of itself
Contribution(s, p) ==
  LET up == IF s.dn THEN 1 ELSE 0
      dn == IF s.lo[1] = 0 /\ s.near[1] THEN 1 - up ELSE up
      above == IF s.ul_dr THEN dn ELSE up
      below == IF s.ul_dr THEN up ELSE dn
  IN  (IF p[2] > s.lo[2] THEN -above ELSE 0) + (IF p[2] > s.hi[2] THEN below ELSE 0)
      + (IF s.lo[2] < p[2] /\ p[2] < s.hi[2] /\ Dot(s.n, p) < s.c THEN 1 ELSE 0)

IsLit(group, p) ==
  CASE group.what = "solid" -> group.set
    [] group.what = "half" -> (Dot(group.n, p) < group.c) # group.reverse
    [] group.what = "generic" ->
         FoldLeft(LAMBDA n, s : n + Contribution(s, p), group.winding, group.lines) # 0

\* Every contour ends where it begins, however its splines are divided.
ContoursClosed ==
  raster.step # "off" =>
    \A g \in 1..2 : LET lines == raster.path[g]
                    IN  \A l \in Range(lines) :
                          Cardinality({k \in DOMAIN lines : lines[k].from = l.from})
                          = Cardinality({k \in DOMAIN lines : lines[k].to = l.from})

\* A tile shows what is inside one of the outlines.
Samples == {2 * k - 1 : k \in 1 .. TileSize \div 2}
TileRight(t) ==
  \A x, y \in Samples :
    LET p == <<raster.window.from[1] * Pixel + t.place[1] * TileSize + x,
               raster.window.from[2] * Pixel + t.place[2] * TileSize + y>>
    IN  IsClear(raster.path[1] \o raster.path[2], p) =>
          ((\E k \in DOMAIN t.groups : IsLit(t.groups[k], <<x, y>>))
           <=> (\E g \in 1..2 : WindingOf(raster.path[g], p) # 0))

\* No tile is filled twice, and in the end all are, and the buffers are as empty as
\* the assertions of rasterizer_fill_level say.
TilesRight ==
  raster.step \in {"filled", "failed"} =>
    LET tiles == raster.tiles
    IN  /\ \A k \in DOMAIN tiles : TileRight(tiles[k])
        /\ \A j, k \in DOMAIN tiles : j # k => tiles[j].place # tiles[k].place
        /\ raster.step = "filled" =>
             /\ Len(tiles) = raster.window.size[1] * raster.window.size[2]
             /\ raster.buf = << <<>>, <<>> >>

\* A line that is split reaches to both sides (segment_split_horz and _vert), lines
\* of a tile are within it (fill_generic_tile), and those of an outline within the
\* window, so that the slow path of ass_rasterizer_fill is not taken.
WithinBounds ==
  /\ raster.step # "off" => raster.asserts
  /\ raster.step = "level" /\ Len(raster.levels) = 1 /\ Level.place = <<0, 0>> =>
       \A s \in Range(raster.buf[1]), i \in 1..2 :
         0 < s.lo[i] /\ s.hi[i] < raster.window.size[i] * TileSize
  /\ raster.step = "level" =>
       \A t \in Range(raster.tiles) : \A g \in Range(t.groups) :
         g.what = "generic" =>
           \A s \in Range(g.lines) :
             /\ 0 <= s.lo[2] /\ s.lo[2] < TileSize /\ 0 < s.hi[2] /\ s.hi[2] <= TileSize
             /\ s.lo[2] <= s.hi[2]

RasterRight == ContoursClosed /\ TilesRight /\ WithinBounds
=============================================================================
