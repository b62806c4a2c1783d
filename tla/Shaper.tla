--------------------------------- MODULE Shaper ---------------------------------
(***************************************************************************)
(* libass/ass_shaper.c: from the characters of an event to its glyphs, in  *)
(* the order in which they are seen, and their places on its lines         *)
(* (ass_shaper_find_runs, ass_shaper_shape, ass_shaper_reorder; the calls  *)
(* of libass/ass_render.c in between and reorder_text).                    *)
(*                                                                         *)
(* A character is [type, script, font, face, flags, starts, spaced,        *)
(* breaks, drawing, ignorable, control, makes, width]: its bidirectional   *)
(* type ("L", "R", "N" for neutral, "BS" for a paragraph separator), what  *)
(* the font selection finds for it, what the tags and the line breaking    *)
(* have set, whether HarfBuzz ignores it and whether it is a joiner, and   *)
(* how many glyphs HarfBuzz makes of it; 0 where it becomes one with the   *)
(* character before it.                                                    *)
(*                                                                         *)
(* A glyph is the sequence of its parts, which the code chains by `next`;  *)
(* a part is [id, width], and id is the character HarfBuzz made it from.   *)
(* The parts after the first are allocated.                                *)
(***************************************************************************)
EXTENDS Integers, Sequences, SequencesExt, FiniteSetsExt

VARIABLES
  session,     \* what a behaviour is about (does not change): here [chars, base,
               \* explicit, simple, lacks], the text, its base direction ("ON" is
               \* to be found out), whether the track asks for the text to be laid
               \* out as a whole, the shaping level, and what there is no memory for
  pc,
  glyphs,      \* [script, face, run, skip, parts, pos] of each character
  emblevels,
  pbase_dir,   \* the directions of the paragraphs
  at,          \* where shaping is
  cmap,        \* the order in which glyphs are seen
  chained,     \* history: the parts that are allocated, and not freed yet
  ran,         \* history: the stretches that HarfBuzz was given
  read_as      \* history: the lines, with the direction each was reordered by

shapeVars == <<glyphs, emblevels, pbase_dir, at, cmap, chained, ran, read_as>>

Chars == session.chars
N == Len(Chars)
Indices == [k \in 1..N |-> k]
Lacks(what) == what \in session.lacks

\* ass_shaper_set_base_direction and ass_shaper_set_whole_text_layout
Whole == session.explicit \/ session.base = "ON"

Unshaped == [script |-> "unknown", face |-> 0, run |-> 0, skip |-> FALSE, parts |-> <<>>, pos |-> 0]

-----------------------------------------------------------------------------
(* ass_shaper_find_runs                                                    *)

\* ass_shaper_determine_script: the nearest script before, or else after
InContext(k) == Chars[k].script \in {"common", "inherited"}
Speaks(k) == ~InContext(k) /\ Chars[k].script # "unknown"
ScriptOf(k) ==
  LET before == {j \in 1 .. k - 1 : ~InContext(j)}
      after == {j \in k + 1 .. N : ~InContext(j)}
  IN  CASE ~InContext(k) -> Chars[k].script
        [] before # {} /\ Speaks(Max(before)) -> Chars[Max(before)].script
        [] after # {} /\ Speaks(Min(after)) -> Chars[Min(after)].script
        [] OTHER -> Chars[k].script

\* Characters that are skipped keep face 0, unless they are in the run of the
\* one before them.
FindRun(gs, k) ==
  LET c == Chars[k]
      found == IF c.drawing \/ c.ignorable THEN 0 ELSE c.face
      here == [Unshaped EXCEPT !.script = ScriptOf(k), !.face = found, !.skip = c.ignorable]
      last == gs[k - 1]
      new == \/ Chars[k - 1].font # c.font
             \/ ~c.ignorable /\ last.face # found
             \/ last.script # here.script
             \/ c.starts
             \/ ~Whole /\ c.spaced
             \/ Chars[k - 1].flags # c.flags
  IN  IF k = 1 THEN <<here>>
      ELSE Append(gs, [here EXCEPT !.run = IF new THEN last.run + 1 ELSE last.run,
                                   !.face = IF ~new /\ c.ignorable THEN last.face ELSE @])

FindRuns ==
  /\ pc = "runs" /\ pc' = "levels"
  /\ glyphs' = FoldLeft(FindRun, <<>>, Indices)
  /\ UNCHANGED <<session, emblevels, pbase_dir, at, cmap, chained, ran, read_as>>

-----------------------------------------------------------------------------
(* ass_shaper_shape                                                        *)

\* FriBidi, of which the text is enough that has no embedding: a paragraph is
\* read in the direction of its first strong character, and those of the other
\* direction are one level up.
Resolve(dir, from, to) ==
  LET strong == {k \in from..to : Chars[k].type \in {"L", "R"}}
  IN  IF dir # "ON" THEN dir
      ELSE IF strong # {} /\ Chars[Min(strong)].type = "R" THEN "RTL" ELSE "LTR"

LevelIn(dir, k) ==
  CASE Chars[k].type = "R" -> 1
    [] Chars[k].type = "L" -> IF dir = "RTL" THEN 2 ELSE 0
    [] OTHER -> IF dir = "RTL" THEN 1 ELSE 0

\* Where a stretch of text ends that is read in one direction
Splits(k) == ~Whole /\ (Chars[k + 1].starts \/ Chars[k].spaced)
EndsStretch(k) == k = N \/ Chars[k].type = "BS" \/ Splits(k)
StretchOf(k) ==
  <<Max({1} \cup {j + 1 : j \in {i \in 1 .. k - 1 : EndsStretch(i)}}),
    Min({j \in k..N : EndsStretch(j)})>>
DirOf(k) == Resolve(session.base, StretchOf(k)[1], StretchOf(k)[2])

FindLevels ==
  /\ pc = "levels" /\ ~Lacks("levels")
  /\ emblevels' = [k \in 1..N |-> LevelIn(DirOf(k), k)]
  /\ LET ends == SelectSeq(Indices, LAMBDA k : EndsStretch(k))
     IN  pbase_dir' = IF Whole THEN [p \in DOMAIN ends |-> DirOf(ends[p])] ELSE pbase_dir
  /\ glyphs' = IF session.simple THEN glyphs
               ELSE [k \in 1..N |-> [glyphs[k] EXCEPT !.skip = TRUE]]
  /\ pc' = "shape" /\ at' = 1
  /\ UNCHANGED <<session, cmap, chained, ran, read_as>>

\* No memory, before any text is shaped: the event is not shown.
LevelsFail ==
  /\ pc = "levels" /\ Lacks("levels")
  /\ pc' = "idle" /\ glyphs' = <<>>
  /\ UNCHANGED <<session, emblevels, pbase_dir, at, cmap, chained, ran, read_as>>

\* shape_fribidi: one glyph for each character
ShapeSimple ==
  /\ pc = "shape" /\ session.simple
  /\ glyphs' = [k \in 1..N |-> [glyphs[k] EXCEPT !.parts = <<[id |-> k, width |-> Chars[k].width]>>]]
  /\ pc' = "reorder"
  /\ UNCHANGED <<session, emblevels, pbase_dir, at, cmap, chained, ran, read_as>>

\* A drawing is a glyph of its own, which is not shaped.
PassDrawing ==
  /\ pc = "shape" /\ ~session.simple /\ at <= N /\ Chars[at].drawing
  /\ glyphs' = [glyphs EXCEPT ![at].skip = FALSE,
                              ![at].parts = <<[id |-> at, width |-> Chars[at].width]>>]
  /\ at' = at + 1
  /\ UNCHANGED <<session, emblevels, pbase_dir, cmap, chained, ran, read_as, pc>>

\* The last of the characters that are given to HarfBuzz together
RunEnd(from) ==
  LET others == {j \in from + 1 .. N : \/ glyphs[j].run # glyphs[from].run
                                       \/ emblevels[j] # emblevels[from]}
  IN  IF others = {} THEN N ELSE Min(others) - 1

\* The joiners beside a run are given along with it, where the text is not laid
\* out as a whole.
LeadContext(from) == ~Whole /\ from > 1 /\ ~Chars[from].starts /\ Chars[from - 1].control

\* HarfBuzz: of each cluster as many parts as it makes, from the right where it
\* is so read.  A cluster is a position in the text that HarfBuzz was given,
\* whose first character is the begin-th.
HarfBuzz(from, to, begin) ==
  LET Made(k) == [j \in 1 .. (IF k = from THEN Max({1, Chars[k].makes}) ELSE Chars[k].makes) |->
                    [cluster |-> k - begin, id |-> k, width |-> Chars[k].width]]
      parts == FoldLeft(LAMBDA s, k : s \o Made(k), <<>>, [j \in 1 .. to - from + 1 |-> from + j - 1])
  IN  IF emblevels[from] % 2 = 1 THEN Reverse(parts) ELSE parts

\* shape_harfbuzz_process_run: the first part of a cluster is for its character,
\* the others are chained to it; where there is no memory, the last is replaced.
AddPart(gs, part, offset) ==
  LET k == part.cluster + offset
      new == [id |-> part.id, width |-> part.width]
  IN  IF gs[k].skip THEN [gs EXCEPT ![k].skip = FALSE, ![k].parts = <<new>>]
      ELSE IF Lacks("chains") THEN [gs EXCEPT ![k].parts[Len(gs[k].parts)] = new]
      ELSE [gs EXCEPT ![k].parts = Append(@, new)]

ChainsOf(gs) == {<<k, j>> \in (1 .. Len(gs)) \X (2..9) : j <= Len(gs[k].parts)}

ShapeRun ==
  /\ pc = "shape" /\ ~session.simple /\ at <= N /\ ~Chars[at].drawing
  /\ LET to == RunEnd(at)
         begin == IF Whole THEN 1 ELSE IF LeadContext(at) THEN at - 1 ELSE at
     IN  /\ glyphs' = FoldLeft(LAMBDA gs, p : AddPart(gs, p, begin), glyphs,
                               HarfBuzz(at, to, begin))
         /\ ran' = ran \cup {<<at, to>>}
         /\ at' = to + 1
  /\ chained' = ChainsOf(glyphs')
  /\ UNCHANGED <<session, emblevels, pbase_dir, cmap, read_as, pc>>

\* get_hb_font fails: the event is not shown.  free_render_context forgets the
\* glyphs without freeing what was chained to them.
ShapeFails ==
  /\ pc = "shape" /\ ~session.simple /\ at <= N /\ ~Chars[at].drawing /\ Lacks("fonts")
  /\ pc' = "idle" /\ glyphs' = <<>>
  /\ UNCHANGED <<session, emblevels, pbase_dir, at, cmap, chained, ran, read_as>>

Shaped ==
  /\ pc = "shape" /\ ~session.simple /\ at > N
  /\ pc' = "reorder"
  /\ UNCHANGED <<session, shapeVars>>

-----------------------------------------------------------------------------
(* ass_shaper_reorder, reorder_text                                        *)

EndsLine(k) == k = N \/ Chars[k + 1].breaks \/ Chars[k].type = "BS" \/ Splits(k)

\* FriBidi: the neutral characters at the end of a line are read in the
\* direction of its paragraph; from the highest level down, what is on it or
\* above is reversed.
LineLevels(from, to, dir) ==
  LET fixed == {k \in from..to : Chars[k].type \notin {"N", "BS"}}
  IN  [k \in from..to |-> IF \A j \in fixed : j < k THEN (IF dir = "RTL" THEN 1 ELSE 0)
                          ELSE emblevels[k]]

\* The k-th place of a line with these levels, after reversing what is on level
\* l or above
Reversed(map, levels, l) ==
  [k \in DOMAIN map |->
     IF levels[k] < l THEN map[k]
     ELSE LET first == Max({j \in DOMAIN map : j <= k /\ \A i \in j..k : levels[i] >= l /\
                              (j - 1 \notin DOMAIN map \/ levels[j - 1] < l)} )
              last == Min({j \in DOMAIN map : j >= k /\ \A i \in k..j : levels[i] >= l /\
                              (j + 1 \notin DOMAIN map \/ levels[j + 1] < l)})
          IN  map[first + last - k]]

\* The places of a line: levels go along with the glyphs they are of.
ReorderLine(from, to, dir) ==
  LET levels == LineLevels(from, to, dir)
      Step(map, l) == Reversed(map, [k \in from..to |-> levels[map[k]]], l)
  IN  FoldLeft(Step, [k \in from..to |-> k], <<2, 1>>)

\* The lines in order; a paragraph's direction is used up to its separator.
\* (Mutant: up to the next line.)
NextLine_eachLine(r, k) ==
  IF ~EndsLine(k) THEN r
  ELSE LET dir == IF Whole THEN pbase_dir[Min({r.par, Len(pbase_dir)})] ELSE session.base
       IN  [map |-> r.map \o [j \in 1 .. k - r.last |-> ReorderLine(r.last + 1, k, dir)[r.last + j]],
            last |-> k, par |-> r.par + 1,
            lines |-> r.lines \cup {<<r.last + 1, k, dir>>}]

NextLine(r, k) ==
  IF ~EndsLine(k) THEN r
  ELSE LET dir == IF Whole THEN pbase_dir[r.par] ELSE session.base
       IN  [map |-> r.map \o [j \in 1 .. k - r.last |-> ReorderLine(r.last + 1, k, dir)[r.last + j]],
            last |-> k, par |-> IF Chars[k].type = "BS" THEN r.par + 1 ELSE r.par,
            lines |-> r.lines \cup {<<r.last + 1, k, dir>>}]

Reorder ==
  /\ pc = "reorder" /\ ~Lacks("reorder")
  /\ \E r \in {FoldLeft(NextLine, [map |-> <<>>, last |-> 0, par |-> 1, lines |-> {}], Indices)} :
       cmap' = r.map /\ read_as' = r.lines
  /\ pc' = "place"
  /\ UNCHANGED <<session, glyphs, emblevels, pbase_dir, at, chained, ran>>

\* The rest of ass_render_event goes on, without glyphs.
ReorderFails ==
  /\ pc = "reorder" /\ Lacks("reorder")
  /\ glyphs' = <<>> /\ chained' = {} /\ pc' = "walk" /\ at' = 1
  /\ UNCHANGED <<session, emblevels, pbase_dir, cmap, ran, read_as>>

Width(g) == FoldLeft(LAMBDA w, p : w + p.width, 0, g.parts)

\* One glyph is placed after the other, in the order they are seen in; lines
\* end where they do in the text.
PlaceNext(p, k) ==
  LET pen == IF Chars[k].breaks THEN 0 ELSE p.pen
      g == p.glyphs[cmap[k]]
  IN  IF g.skip THEN [p EXCEPT !.pen = pen]
      ELSE [glyphs |-> [p.glyphs EXCEPT ![cmap[k]].pos = pen], pen |-> pen + Width(g)]

Place ==
  /\ pc = "place" /\ pc' = "walk" /\ at' = 1
  /\ glyphs' = FoldLeft(PlaceNext, [glyphs |-> glyphs, pen |-> 0], Indices).glyphs
  /\ UNCHANGED <<session, emblevels, pbase_dir, cmap, chained, ran, read_as>>

Shape ==
  \/ FindRuns \/ FindLevels \/ LevelsFail
  \/ ShapeSimple \/ PassDrawing \/ ShapeRun \/ ShapeFails \/ Shaped
  \/ Reorder \/ ReorderFails \/ Place

-----------------------------------------------------------------------------
(* What shaping promises                                                   *)

\* What is given to HarfBuzz is of one font, face, script and direction, and no
\* style begins in its middle.
RunsUniform ==
  glyphs # <<>> => \A r \in ran : \A k \in r[1] .. r[2] :
    /\ Chars[k].font = Chars[r[1]].font /\ Chars[k].flags = Chars[r[1]].flags
    /\ glyphs[k].script = glyphs[r[1]].script /\ glyphs[k].face = glyphs[r[1]].face
    /\ emblevels[k] % 2 = emblevels[r[1]] % 2
    /\ k > r[1] => ~Chars[k].starts

\* A glyph belongs to the character it was made from.
PartsAtHome ==
  \A k \in DOMAIN glyphs : \A p \in Range(glyphs[k].parts) : p.id = k

\* The characters of a line stay on it.
LineOf(k) == Cardinality({j \in 2..k : Chars[j].breaks})
LinesKept ==
  pc = "place" =>
    /\ Range(cmap) = 1..N /\ Len(cmap) = N
    /\ \A k \in 1..N : LineOf(cmap[k]) = LineOf(k)

\* A line is read in the direction of the paragraph it is in.
Paragraph(k) ==
  <<Max({1} \cup {j + 1 : j \in {i \in 1 .. k - 1 : Chars[i].type = "BS"}}),
    Min({N} \cup {j \in k..N : Chars[j].type = "BS"})>>
LinesInDirection ==
  \A l \in read_as :
    l[3] = IF session.base = "ON" THEN Resolve("ON", Paragraph(l[1])[1], Paragraph(l[1])[2])
           ELSE session.base

\* No two glyphs of a line are at the same place.
GlyphsApart ==
  pc = "walk" => \A j, k \in DOMAIN glyphs :
    (j # k /\ LineOf(j) = LineOf(k) /\ ~glyphs[j].skip /\ ~glyphs[k].skip) =>
       \/ glyphs[j].pos + Width(glyphs[j]) <= glyphs[k].pos
       \/ glyphs[k].pos + Width(glyphs[k]) <= glyphs[j].pos
=============================================================================
