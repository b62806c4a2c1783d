---------------------------------- MODULE Runs ----------------------------------
(***************************************************************************)
(* libass/ass_render.c: the bitmaps of an event's glyphs and the runs they *)
(* are collected in (render_and_combine_glyphs, get_bitmap_glyph,          *)
(* raster_task), up to who frees what is left of them.                     *)
(*                                                                         *)
(* A run has one origin, of a fraction of a pixel, to which all its glyphs *)
(* are rounded: that of the first glyph with a bitmap.  The glyphs after   *)
(* that do not depend on each other.  Their bitmaps are left to the        *)
(* workers, and are collected afterwards, in the order of the text.        *)
(*                                                                         *)
(* Beside what Shaper says of it, a character has kf (it is of a syllable  *)
(* that is filled from the left) and shows: "none" where there is no       *)
(* outline, "far" where it is out of reach, "empty" where its bitmap is,   *)
(* "yes".  x stands for both coordinates; there are Subpixels in a pixel.  *)
(***************************************************************************)
EXTENDS Shaper

CONSTANTS
  Subpixels,
  InitialRuns,    \* MAX_BITMAPS_INITIAL
  InitialRefs,    \* MAX_SUB_BITMAPS_INITIAL
  InitialItems    \* 256 in the code

VARIABLES
  runs,        \* combined_bitmaps: [kf, refs, x, leftmost_x] of each, refs are its
               \* bitmaps with their places
  items,       \* the glyphs that are left to the workers
  new_run, offset,
  arrays       \* history: the runs of which the array of bitmaps is the event's

runVars == <<runs, items, new_run, offset, arrays>>

Far == 1000   \* OUTLINE_MAX and INT_MAX: no place is beyond it

\* An array that grows to twice its size, where that is full
Full(count, initial) == \E e \in 0..count : count = initial * 2^e

PartAt(k, j) ==
  [char |-> k, part |-> j,
   x |-> glyphs[k].pos + FoldLeft(LAMBDA w, p : w + p.width, 0, SubSeq(glyphs[k].parts, 1, j - 1))]

-----------------------------------------------------------------------------
(* get_bitmap_glyph, quantize_transform                                    *)

Rounded(x) == (x + Subpixels \div 2) \div Subpixels
Fraction(x) == x - Subpixels * Rounded(x)

HasOutline(p) == Chars[p.char].shows # "none"
Reached(p) == Chars[p.char].shows \in {"empty", "yes"}
HasBitmap(p) == Chars[p.char].shows = "yes"

\* The place of a bitmap, and the origin after it
PosOf(p, first, origin) == IF first THEN Rounded(p.x) ELSE Rounded(p.x - origin)
OriginAfter(p, first, origin) == IF first /\ Reached(p) THEN Fraction(p.x) ELSE origin
Leftmost(p, leftmost) == IF Chars[p.char].kf /\ HasOutline(p) THEN Min({p.x, leftmost}) ELSE leftmost

\* A bitmap goes to its run, if there is room.
Collected(run, p, pos, fails) ==
  IF ~HasBitmap(p) \/ (Full(Len(run.refs), InitialRefs) /\ "refs" \in fails) THEN run
  ELSE [run EXCEPT !.refs = Append(@, [char |-> p.char, part |-> p.part, pos |-> pos]),
                   !.x = Min({@, pos})]

-----------------------------------------------------------------------------
(* The walk along the text                                                 *)

NewRun(p) == [kf |-> Chars[p.char].kf, refs |-> <<>>, x |-> Far, leftmost_x |-> Far]

\* The first glyph after a style begins makes a run.  One for which there is no
\* memory is left out; the next then makes the run.
RunFor(w, p, fails) ==
  IF ~w.new_run THEN w
  ELSE IF (Full(Len(w.runs), InitialRuns) /\ "runs" \in fails) \/ "arrays" \in fails THEN w
  ELSE [w EXCEPT !.runs = Append(@, NewRun(p)), !.new_run = FALSE,
                 !.arrays = @ \cup {Len(w.runs) + 1}]

Item(w, p) == [glyph |-> p, run |-> Len(w.runs), offset |-> w.offset, pos |-> 0, done |-> FALSE]

\* Karaoke is not left to the workers, for its glyphs share leftmost_x.
Later(w, p, fails) ==
  IF (w.items = <<>> \/ Full(Len(w.items), InitialItems)) /\ "items" \in fails THEN w
  ELSE [w EXCEPT !.items = Append(@, Item(w, p))]

Now(w, p, fails) ==
  LET r == Len(w.runs)
      first == w.runs[r].refs = <<>>
      pos == PosOf(p, first, w.offset)
      run == [w.runs[r] EXCEPT !.leftmost_x = Leftmost(p, @)]
  IN  [w EXCEPT !.offset = OriginAfter(p, first, @),
                !.runs[r] = Collected(run, p, pos, fails)]

WalkPart(w, p, fails) ==
  LET v == RunFor(w, p, fails)
  IN  IF v.new_run THEN v
      ELSE IF Last(v.runs).refs # <<>> /\ ~Last(v.runs).kf THEN Later(v, p, fails)
      ELSE Now(v, p, fails)

Walk ==
  /\ pc = "walk" /\ at <= Len(glyphs)
  /\ \E fails \in SUBSET (session.lacks \cap {"runs", "arrays", "items", "refs"}) :
     \E w \in {FoldLeft(LAMBDA v, j : WalkPart(v, PartAt(at, j), fails),
                        [runs |-> runs, items |-> items, offset |-> offset, arrays |-> arrays,
                         new_run |-> new_run \/ Chars[at].starts],
                        [j \in 1 .. (IF glyphs[at].skip THEN 0 ELSE Len(glyphs[at].parts)) |-> j])} :
       /\ runs' = w.runs /\ items' = w.items /\ offset' = w.offset
       /\ arrays' = w.arrays /\ new_run' = w.new_run
  /\ at' = at + 1
  /\ UNCHANGED <<session, glyphs, emblevels, pbase_dir, cmap, chained, ran, read_as, pc>>

-----------------------------------------------------------------------------
(* The workers, and what is done with their bitmaps                        *)

Walked == pc = "walk" /\ at > Len(glyphs)

\* raster_task.  (Mutant: the origin is that of the last run.)
RasterItem_shared ==
  /\ Walked
  /\ \E i \in DOMAIN items :
       /\ ~items[i].done
       /\ items' = [items EXCEPT ![i].done = TRUE,
                                 ![i].pos = PosOf(items[i].glyph, FALSE, offset)]
  /\ UNCHANGED <<session, shapeVars, runs, new_run, offset, arrays, pc>>

RasterItem ==
  /\ Walked
  /\ \E i \in DOMAIN items :
       /\ ~items[i].done
       /\ items' = [items EXCEPT ![i].done = TRUE,
                                 ![i].pos = PosOf(items[i].glyph, FALSE, items[i].offset)]
  /\ UNCHANGED <<session, shapeVars, runs, new_run, offset, arrays, pc>>

Collect ==
  /\ Walked /\ \A i \in DOMAIN items : items[i].done
  /\ \E fails \in SUBSET (session.lacks \cap {"refs"}) :
       runs' = FoldLeft(LAMBDA rs, it : [rs EXCEPT ![it.run] = Collected(@, it.glyph, it.pos, fails)],
                        runs, items)
  /\ items' = <<>> /\ pc' = "combine"
  /\ UNCHANGED <<session, shapeVars, new_run, offset, arrays>>

\* A run is deferred as the renderer is set, and as it is itself: its array of
\* bitmaps stays with the event.  That of another becomes the key of a cached
\* image, or is freed by the cache.
IsDeferred(r) ==
  runs[r].refs # <<>> /\ (session.deferred = "outline" \/ (session.deferred = "composite" /\ ~runs[r].kf))

Combine ==
  /\ pc = "combine" /\ pc' = "emit"
  /\ arrays' = {r \in arrays : IsDeferred(r)}
  /\ UNCHANGED <<session, shapeVars, runs, items, new_run, offset>>

\* What of it concerns the arrays: render_text; ass_shaper_cleanup
RenderText ==
  /\ pc = "emit" /\ pc' = "idle"
  /\ arrays' = {r \in arrays : ~IsDeferred(r)}
  /\ chained' = {}
  /\ UNCHANGED <<session, glyphs, emblevels, pbase_dir, at, cmap, ran, read_as,
                 runs, items, new_run, offset>>

Render == Walk \/ RasterItem \/ Collect \/ Combine \/ RenderText

-----------------------------------------------------------------------------
(* What the runs promise                                                   *)

\* The runs as they would be if one glyph was drawn after the other
StartsAt(k) == Max({1} \cup {j \in 1..k : Chars[j].starts})
PartsOf(start) ==
  FoldLeft(LAMBDA s, k : s \o [j \in 1 .. Len(glyphs[k].parts) |-> PartAt(k, j)], <<>>,
           SelectSeq([k \in DOMAIN glyphs |-> k],
                     LAMBDA k : ~glyphs[k].skip /\ StartsAt(k) = start))
SerialRun(start) ==
  LET parts == PartsOf(start)
      seen == SelectSeq(parts, HasBitmap)
      Pos(i) == IF i = 1 THEN Rounded(seen[1].x) ELSE Rounded(seen[i].x - Fraction(seen[1].x))
      kf == Chars[parts[1].char].kf
  IN  [kf |-> kf,
       refs |-> [i \in DOMAIN seen |-> [char |-> seen[i].char, part |-> seen[i].part, pos |-> Pos(i)]],
       x |-> Min({Far} \cup {Pos(i) : i \in DOMAIN seen}),
       leftmost_x |-> Min({Far} \cup {p.x : p \in {q \in Range(parts) : kf /\ HasOutline(q)}})]
SerialRuns ==
  LET starts == SelectSeq([k \in DOMAIN glyphs |-> k], LAMBDA k : k = StartsAt(k) /\ PartsOf(k) # <<>>)
  IN  [r \in DOMAIN starts |-> SerialRun(starts[r])]

\* What the workers do cannot be told from drawing one glyph after the other.
AsSerial == pc = "emit" /\ session.lacks = {} => runs = SerialRuns

\* Nothing is left allocated after an event, unless shaping failed: then the
\* chained parts are lost (free_render_context).
NothingLost == pc = "idle" => arrays = {} /\ (chained = {} \/ Lacks("fonts"))

\* The bitmaps of an event are collected as if there were no workers, and what
\* was allocated for them is freed (render_and_combine_glyphs, raster_task,
\* render_text).
RunsRight == AsSerial /\ NothingLost
=============================================================================
