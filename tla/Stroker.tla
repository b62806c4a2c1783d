-------------------------------- MODULE Stroker --------------------------------
(***************************************************************************)
(* The stroker of libass/ass_outline.c (ass_outline_stroke).               *)
(*                                                                         *)
(* It goes along a path, and makes two outlines at a distance to its left  *)
(* and its right.  Of the geometry there is what the code concludes from   *)
(* it, and that is any of its conclusions: that two points are one, which  *)
(* way a path turns, that the offset of a piece cannot, may or does        *)
(* intersect itself, that a curve is near enough to it.  What is left is   *)
(* what is hard: a piece puts out only its beginning, and its end is put   *)
(* out by whatever comes after it, unless flags (first_skip, last_skip)    *)
(* say that there is nothing to end.                                       *)
(*                                                                         *)
(* A place on the path is a number: segment i goes from Parts * i to       *)
(* Parts * (i + 1) or to where its contour began, and its middle is half   *)
(* of Parts after its beginning.  A point of an outline is the place it    *)
(* is beside, what it is, and where the piece that begins with it has to   *)
(* end (Free: wherever the next one begins):                               *)
(*   "out" is at the distance of the border, "in" is nearer, where the     *)
(*   offset would intersect itself, and "control" is not on the outline.   *)
(*                                                                         *)
(* One thing is assumed of the geometry: a piece of which only one         *)
(* direction is left turns the way the whole of it does.  The code relies  *)
(* on it, because start_segment sets the flags of both directions.         *)
(***************************************************************************)
EXTENDS Outline

CONSTANT Parts   \* places in a segment: more than twice as many as the half of any
ASSUME PartsAssumption == Parts \in Nat \ {0}

VARIABLES str,   \* the StrokerState, with the number of the segment it is at
          todo   \* what is being done: pieces of curves, and what comes after them

strokerVars == <<str, todo>>

Free == -1
Both == {1, 2}
PlaceOf(i) == Parts * i

NewStroker(room) ==
  [result |-> <<Empty(room), Empty(room)>>, contour_first |-> <<0, 0>>, contour_start |-> TRUE,
   first_skip |-> {}, last_skip |-> {}, first_point |-> 0, last_point |-> 0,
   segment |-> 1, merged |-> {}]

\* emit_point
Emit(s, point, order, dir) ==
  [s EXCEPT !.result = [d \in Both |-> IF d \in dir THEN AddPoint(@[d], point, TRUE, order)
                                                    ELSE @[d]]]

Out(place, till) == [at |-> place, kind |-> "out", till |-> till]
In(place) == [at |-> place, kind |-> "in", till |-> Free]
Control(place) == [at |-> place, kind |-> "control", till |-> Free]

\* fix_first_point
FixFirst(s, place, dir) ==
  [s EXCEPT !.result = [d \in Both |->
     IF d \in dir /\ @[d].ok
       THEN [@[d] EXCEPT !.points[s.contour_first[d] + 1].at = place,
                         !.points[s.contour_first[d] + 1].kind = "out"]
       ELSE @[d]]]

\* process_arc, draw_arc: all of an arc is beside one place
DrawArc(s, place, dir) == Emit(Emit(s, Out(place, place), 2, dir), Control(place), 0, dir)
DrawCircle(s, place, dir) == FoldLeft(LAMBDA c, k : DrawArc(c, place, dir), s, <<1, 2, 3, 4>>)

\* start_segment, where the path goes straight on (turn is 0) or the inside of
\* its turn is on the side of direction 1 or 2
StartSegment(s, place, turn, dir) ==
  IF s.contour_start
    THEN [s EXCEPT !.contour_start = FALSE, !.first_skip = {}, !.last_skip = {},
                   !.first_point = place]
  ELSE IF turn = 0 THEN s
  ELSE LET inside == dir \cap {turn}
           ended == Emit(s, Out(place, Free), 1, inside \ s.last_skip)
           cornered == [Emit(ended, In(place), 1, inside) EXCEPT !.last_skip = {turn}]
       IN  DrawArc(cornered, place, dir \ {turn})

\* emit_first_point
EmitFirst(s, place, order, till, dir) ==
  Emit([s EXCEPT !.last_skip = @ \ dir], Out(place, till), order, dir)

\* prepare_skip.  (Mutant: nothing ends the piece before it.)
PrepareSkip_unended(s, place, dir, first) ==
  [s EXCEPT !.first_skip = IF first THEN @ \cup dir ELSE @, !.last_skip = @ \cup dir]

PrepareSkip(s, place, dir, first) ==
  LET ended == IF first THEN [s EXCEPT !.first_skip = @ \cup dir]
                        ELSE Emit(s, Out(place, Free), 1, dir \ s.last_skip)
  IN  [ended EXCEPT !.last_skip = @ \cup dir]

\* add_line, to a point that is not the one it is at, or is taken for it
AddLine(s, to, merges, turn, dir) ==
  IF merges THEN [s EXCEPT !.merged = @ \cup {<<s.last_point, to>>}]
  ELSE [EmitFirst(StartSegment(s, s.last_point, turn, dir), s.last_point, 1, to, dir)
          EXCEPT !.last_point = to]

-----------------------------------------------------------------------------
(* ass_outline_stroke: the segments of a path                              *)

Piece(order, from, to, half, dir, first, turn) ==
  [op |-> "piece", order |-> order, from |-> from, to |-> to, half |-> half,
   dir |-> dir, first |-> first, turn |-> turn]

Turns == {0, 1, 2}
Fine == \A d \in Both : str.result[d].ok

\* Where segment i ends
EndOf(path, i) ==
  LET begins == {j \in 1..i : j = 1 \/ path[j - 1].last}
  IN  IF path[i].last THEN PlaceOf(Max(begins)) ELSE PlaceOf(i + 1)

Begun(path, s) ==
  IF s.segment = 1 \/ path[s.segment - 1].last
    THEN [s EXCEPT !.last_point = PlaceOf(s.segment)] ELSE s

After(path, s) == IF path[s.segment].last THEN <<[op |-> "close"]>> ELSE <<>>

Straight(path) ==
  \E s \in {Begun(path, str)}, turn \in Turns, merges \in BOOLEAN :
    LET to == EndOf(path, s.segment) IN
    /\ todo = <<>> /\ Fine /\ s.segment <= Len(path)
    /\ to = s.last_point => merges
    /\ str' = [AddLine(s, to, merges, turn, Both) EXCEPT !.segment = @ + 1]
    /\ todo' = After(path, s)

\* add_quadratic and add_cubic, of a curve that is not a line
Curved(path) ==
  \E s \in {Begun(path, str)}, turn \in Turns :
    LET to == EndOf(path, s.segment) IN
    /\ todo = <<>> /\ Fine /\ s.segment <= Len(path) /\ path[s.segment].order > 1
    /\ str' = [StartSegment(s, s.last_point, turn, Both)
                 EXCEPT !.last_point = to, !.segment = @ + 1]
    /\ todo' = <<Piece(path[s.segment].order, s.last_point, to, path[s.segment].half,
                       Both, s.contour_start, 0)>> \o After(path, s)

-----------------------------------------------------------------------------
(* process_quadratic and process_cubic                                     *)

Curve == Head(todo)
Working(op) == todo # <<>> /\ Curve.op = op /\ Fine

TurnsOf(p) == IF p.dir = Both THEN {1, 2} ELSE {p.turn}

\* An offset that intersects itself is replaced by its corner, or by the path.
Skipped(s, p, turn, along) ==
  LET skipped == PrepareSkip(s, p.from, {turn}, p.first)
      corner == Emit(skipped, In(p.from), 1, {turn})
  IN  IF along THEN Emit(corner, In(p.to), 1, {turn}) ELSE corner

\* One curve beside another
Fitted(s, p, dir) ==
  LET begun == EmitFirst(s, p.from, p.order, p.to, dir)
  IN  FoldLeft(LAMBDA c, k : Emit(c, Control(p.from), 0, dir), begun, [k \in 1 .. p.order - 1 |-> k])

\* What is left of a piece in some directions: its halves, or where it all but
\* stops in the middle, the parts before and after that
Half(p, k, dir, turn) ==
  Piece(p.order, IF k = 1 THEN p.from ELSE p.from + p.half,
        IF k = 1 THEN p.from + p.half ELSE p.to, p.half \div 2, dir, k = 1 /\ p.first, turn)

Halves(p, dir, turn) == <<Half(p, 1, dir, turn), Half(p, 2, dir, turn)>>

Side(p, k, dir, turn, short) ==
  LET half == Half(p, k, dir, turn)
  IN  IF short THEN [op |-> "emit", from |-> half.from, to |-> half.to, dir |-> dir] ELSE half

\* A quadratic spline has nothing but lines there; the flags are reset for the
\* second of them.
Stopping(p, dir, turn) ==
  LET start == [op |-> "start", at |-> p.from + p.half, dir |-> dir, turn |-> turn]
  IN  IF p.order = 2
        THEN {<<Side(p, 1, dir, turn, TRUE), start, Side(p, 2, dir, turn, TRUE)>>}
        ELSE {<<Side(p, 1, dir, turn, a), start, Side(p, 2, dir, turn, b)>> : a, b \in BOOLEAN}

\* skip: the offset on the inside of the turn does intersect itself; fit: the
\* directions in which a curve is near enough.  On the inside that is only
\* tried where the offset cannot intersect itself.
Process ==
  /\ Working("piece")
  /\ \E p \in {Curve}, turn \in TurnsOf(Curve), skip, along \in BOOLEAN :
       /\ skip => turn \in p.dir
       /\ along => skip
       /\ \E left \in {IF skip THEN p.dir \ {turn} ELSE p.dir} :
          \E fit \in {{}, left, left \ {turn}} :
            LET s == IF skip THEN Skipped(str, p, turn, along) ELSE str
                rest == left \ fit
            IN  /\ str' = IF fit = {} THEN s ELSE Fitted(s, p, fit)
                /\ IF rest = {} THEN todo' = Tail(todo)
                   ELSE /\ p.half > 0
                        /\ \E next \in {Halves(p, rest, turn)} \cup Stopping(p, rest, turn) :
                             todo' = next \o Tail(todo)

EmitPiece ==
  /\ Working("emit")
  /\ str' = EmitFirst(str, Curve.from, 1, Curve.to, Curve.dir)
  /\ todo' = Tail(todo)

StartPiece ==
  /\ Working("start")
  /\ \E turn \in {0} \cup TurnsOf(Curve) : str' = StartSegment(str, Curve.at, turn, Curve.dir)
  /\ todo' = Tail(todo)

-----------------------------------------------------------------------------
(* close_contour                                                           *)

ClosedIn(s, dir) ==
  LET closed == [s EXCEPT !.result = [d \in Both |-> IF d \in dir THEN CloseOutline(@[d]) ELSE @[d]]]
  IN  [closed EXCEPT !.contour_first = [d \in Both |-> Len(closed.result[d].points)]]

\* A contour of which all points are taken for one: a circle, in one outline
CloseDot ==
  /\ Working("close") /\ str.contour_start
  /\ str' = ClosedIn(DrawCircle(str, str.last_point, {1}), {1})
  /\ todo' = Tail(todo)

CloseContour ==
  /\ Working("close") /\ ~str.contour_start
  /\ \E turn1, turn2 \in Turns, merges \in BOOLEAN :
       LET lined == AddLine(str, str.first_point, merges, turn1, Both)
           started == StartSegment(lined, str.first_point, turn2, Both)
           open == Both \ started.last_skip
           ended == Emit(started, Out(str.first_point, Free), 1, open \cap started.first_skip)
           fixed == FixFirst(ended, str.first_point, open \ started.first_skip)
       IN  /\ str.last_point = str.first_point => merges
           /\ str' = ClosedIn([fixed EXCEPT !.contour_start = TRUE], Both)
  /\ todo' = Tail(todo)

\* No memory, or a point that is too far out: the caller frees both outlines.
StrokeFails ==
  /\ ~Fine
  /\ str' = [NewStroker(0) EXCEPT !.segment = str.segment]
  /\ todo' = <<>>

Stroke(path) ==
  \/ Straight(path) \/ Curved(path)
  \/ Process \/ EmitPiece \/ StartPiece
  \/ CloseDot \/ CloseContour

Stroked(path) == todo = <<>> /\ str.segment > Len(path) /\ Fine

-----------------------------------------------------------------------------
(* Every piece of a border ends where it has to.  *)

\* The segment after the k-th in its contour
Following(o, k) ==
  IF o.segments[k].last THEN Max({j \in 1..k : j = 1 \/ o.segments[j - 1].last}) ELSE k + 1

Joined(o) ==
  \A k \in DOMAIN o.segments :
    LET point == o.points[Before(o, k) + 1]
        next == o.points[Before(o, Following(o, k)) + 1]
    IN  point.till # Free =>
          next.kind = "out" /\ (next.at = point.till \/ <<point.till, next.at>> \in str.merged)
=============================================================================
