--------------------------------- MODULE Event ---------------------------------
(***************************************************************************)
(* libass/ass_render.c: the text of an event, from its override tags to    *)
(* its lines (ass_render_event up to the placing of the event), and the    *)
(* karaoke of libass/ass_parse.c.  One rendering context renders one event *)
(* after the other, as a worker's does.                                    *)
(*                                                                         *)
(* A text is a sequence of characters and blocks of tags, each             *)
(* [symbol, tags]; a block's symbol is "".  A glyph is as wide as its      *)
(* advance; shaping, which may join glyphs, and the reordering of          *)
(* right-to-left text are left out.                                        *)
(***************************************************************************)
EXTENDS Tags, FiniteSets, FiniteSetsExt

CONSTANTS
  Sessions,           \* what a behaviour is about: [events, width, unicode], its
                      \* events in order, the width of the frame and whether
                      \* lines are broken by the Unicode algorithm
  line_spacing,
  InitialLines,       \* MAX_LINES_INITIAL
  MayFail             \* what memory may run out for: "glyphs", "shaping", "lines"

IsTags(c) == c.symbol = ""

\* Only a block has tags, and their arguments are integers.
ASSUME SessionsAssumption ==
  \A s \in Sessions :
    /\ Len(s.events) \in Nat /\ s.width \in Int
    /\ \A e \in DOMAIN s.events :
         /\ s.events[e].Style \in DOMAIN Styles
         /\ Len(s.events[e].Text) \in Nat
         /\ \A k \in 1 .. Len(s.events[e].Text) :
              LET c == s.events[e].Text[k]
              IN  /\ Len(c.tags) \in Nat /\ DOMAIN c.tags = 1 .. Len(c.tags)
                  /\ ~IsTags(c) => Len(c.tags) = 0
                  /\ \A j \in 1 .. Len(c.tags) : c.tags[j].args \in Seq(Int)
ASSUME LinesAssumption == InitialLines \in Nat \ {0} /\ line_spacing \in Int

VARIABLES
  session,            \* (does not change)
  n,                  \* the number of the event in progress
  pc,                 \* the step of ass_render_event
  state,              \* the RenderContext
  at,                 \* where in the text
  glyphs,
  n_lines, max_lines, \* lines, and room for them as the code has it
  allocated,          \* ... and as it is
  i, s1, last_breakable,  \* wrap_lines_naive
  s2, moved,          \* wrap_lines_rebalance; i is its s3
  lines, height,      \* [first, last, asc, desc, x, y] of each, of all together
  discarded,          \* history: was a line break discarded for want of memory?
  rendered            \* history: the events that were rendered

textVars  == <<state, at, glyphs>>
breakVars == <<n_lines, max_lines, allocated, discarded>>
loopVars  == <<i, s1, last_breakable, s2, moved>>
lineVars  == <<lines, height>>
runVars   == <<session, n, rendered>>
vars == <<textVars, breakVars, loopVars, lineVars, runVars, pc>>

EffectTypes == {"NONE", "KARAOKE", "KARAOKE_KF", "KARAOKE_KO"}
Steps == {"idle", "parse", "split", "wrap", "balance", "trim", "measure", "karaoke",
          "reorder", "align", "done"}

\* A calloc'd context
NoEvent == [Text |-> <<>>, Style |-> 1, Effect |-> "", now |-> 0, Duration |-> 0]
EmptyContext ==
  [event |-> NoEvent, parsed_tags |-> {}, evt_type |-> {}, wrap_style |-> 0,
   pos |-> <<0, 0>>, org |-> <<0, 0>>, have_origin |-> FALSE,
   clip |-> <<0, 0, 0, 0>>, clip_mode |-> FALSE, clip_drawing_text |-> 0,
   clip_drawing_mode |-> FALSE, detect_collisions |-> FALSE, fade |-> 0,
   drawing_scale |-> 0, pbo |-> 0, effect_type |-> "NONE", effect_timing |-> 0,
   effect_skip_timing |-> 0, reset_effect |-> FALSE, explicit |-> FALSE,
   apply_font_scale |-> FALSE, style |-> Styles[1],
   look |-> [f \in LookFields |-> 0], alignment |-> 0, justify |-> 0]

Init ==
  /\ session \in Sessions
  /\ n = 0 /\ pc = "idle" /\ state = EmptyContext /\ at = 1 /\ glyphs = <<>>
  /\ n_lines = 0 /\ max_lines = InitialLines /\ allocated = InitialLines
  /\ i = 1 /\ s1 = 1 /\ last_breakable = 0
  /\ s2 = 0 /\ moved = FALSE
  /\ lines = <<>> /\ height = 0 /\ discarded = FALSE /\ rendered = <<>>

Begin ==
  /\ pc = "idle" /\ n < Len(session.events)
  /\ n' = n + 1 /\ pc' = "parse" /\ at' = 1
  /\ state' = InitContext(FreeContext(state), session.events[n + 1])
  /\ glyphs' = <<>> /\ lines' = <<>> /\ height' = 0 /\ discarded' = FALSE
  /\ UNCHANGED <<n_lines, max_lines, allocated, loopVars, session, rendered>>

\* An event of which nothing is shown
GiveUp ==
  /\ pc' = "idle" /\ state' = FreeContext(state) /\ glyphs' = <<>>
  /\ UNCHANGED <<at, breakVars, loopVars, lineVars, runVars>>

-----------------------------------------------------------------------------
(* parse_events                                                            *)

Text == state.event.Text
IsBlock(k) == IsTags(Text[k])

Block ==
  /\ pc = "parse" /\ at <= Len(Text) /\ IsBlock(at)
  /\ state' = ParseTags(state, Text[at].tags) /\ at' = at + 1
  /\ UNCHANGED <<glyphs, breakVars, loopVars, lineVars, runVars, pc>>

\* ass_get_next_char
NextChar(c, symbol) ==
  CASE symbol = "\\N" -> "\n"
    [] symbol = "\\n" -> IF c.wrap_style = 2 THEN "\n" ELSE " "
    [] symbol = "\\h" -> "NBSP"
    [] OTHER -> symbol

\* A glyph with what the tags before it have set; linebreak to effect are for
\* the later steps, source is where it came from.
GlyphOf(c, symbol) ==
  [symbol |-> symbol, look |-> c.look, fade |-> c.fade,
   drawing |-> IF symbol = "drawing" THEN <<c.drawing_scale, c.pbo>> ELSE <<>>,
   effect_type |-> c.effect_type, effect_timing |-> c.effect_timing,
   effect_skip_timing |-> c.effect_skip_timing, reset_effect |-> c.reset_effect,
   linebreak |-> 0, skip |-> FALSE, starts_new_run |-> FALSE,
   sung |-> <<0, 0>>, source |-> at]

\* A karaoke tag is for the glyph that follows it and no other.
WithoutEffect(c) ==
  [c EXCEPT !.effect_type = "NONE", !.effect_timing = 0,
            !.effect_skip_timing = 0, !.reset_effect = FALSE]

\* A drawing goes up to the next block.
NextBlock ==
  LET blocks == {k \in at .. Len(Text) : IsBlock(k)}
  IN  IF blocks = {} THEN Len(Text) + 1 ELSE Min(blocks)

Glyph ==
  /\ pc = "parse" /\ at <= Len(Text) /\ ~IsBlock(at)
  /\ IF state.drawing_scale # 0
       THEN glyphs' = Append(glyphs, GlyphOf(state, "drawing")) /\ at' = NextBlock
       ELSE /\ glyphs' = Append(glyphs, GlyphOf(state, NextChar(state, Text[at].symbol)))
            /\ at' = at + 1
  /\ state' = WithoutEffect(state)
  /\ UNCHANGED <<breakVars, loopVars, lineVars, runVars, pc>>

\* There is no font, or no memory for more glyphs.
GlyphFails ==
  /\ pc = "parse" /\ at <= Len(Text) /\ ~IsBlock(at) /\ "glyphs" \in MayFail
  /\ GiveUp

\* The end of the text; an event without glyphs is not shown.
TextEnd ==
  /\ pc = "parse" /\ at > Len(Text)
  /\ IF glyphs = <<>> THEN GiveUp
     ELSE pc' = "split" /\ UNCHANGED <<textVars, breakVars, loopVars, lineVars, runVars>>

-----------------------------------------------------------------------------
(* split_style_runs                                                        *)

Length == Len(glyphs)

LastEffect(k) ==
  LET before == {j \in 1 .. k - 1 : glyphs[j].effect_type # "NONE"}
  IN  IF before = {} THEN "NONE" ELSE glyphs[Max(before)].effect_type

\* Skipped time and fades do not start a run.
StartsRun(k) ==
  k = 1 \/ LET info == glyphs[k] last == glyphs[k - 1]
           IN  \/ info.effect_timing # 0
               \/ info.effect_type # "NONE" /\ info.effect_type # LastEffect(k)
               \/ info.drawing # <<>> \/ last.drawing # <<>>
               \/ \E f \in LookFields \ {"font_encoding"} : info.look[f] # last.look[f]

Split ==
  /\ pc = "split" /\ pc' = "wrap"
  /\ glyphs' = [k \in 1..Length |-> [glyphs[k] EXCEPT !.starts_new_run = StartsRun(k)]]
  /\ i' = 1 /\ s1' = 1 /\ last_breakable' = 0 /\ n_lines' = 1
  /\ UNCHANGED <<state, at, max_lines, allocated, discarded, s2, moved, lineVars,
                 runVars>>

\* There is no memory for shaping the runs.
ShapingFails ==
  /\ pc = "split" /\ "shaping" \in MayFail
  /\ GiveUp

-----------------------------------------------------------------------------
(* wrap_lines_naive                                                        *)

\* f[1] + ... + f[k]
SumTo(f, k) ==
  LET sum[j \in 0..k] == IF j = 0 THEN 0 ELSE sum[j - 1] + f[j] IN sum[k]

Symbol(k) == glyphs[k].symbol
Advance(k) ==
  CASE Symbol(k) = "\n" -> 0 [] Symbol(k) = "drawing" -> 2 [] OTHER -> 1
Ink(k) == IF Symbol(k) \in {" ", "NBSP"} THEN 0 ELSE Advance(k)
\* preliminary_layout, and the edges of a glyph's bounding box
Left(k)  == SumTo([j \in 1..Length |-> Advance(j)], k - 1)
Right(k) == Left(k) + Ink(k)

\* The Unicode algorithm allows breaks after hyphens too, and after the last of
\* several blanks.
AllowBreak(k) ==
  IF session.unicode THEN Symbol(k) \in {" ", "-"} /\ (k < Length => Symbol(k + 1) # " ")
                     ELSE Symbol(k) = " "
ForceBreak(k) == Symbol(k) = "\n"

Overflows(k) ==
  Right(k) - Left(s1) >= session.width /\ Symbol(k) # " " /\ state.wrap_style # 2

BreakAt(k) == IF ForceBreak(k) THEN k ELSE IF Overflows(k) THEN last_breakable ELSE 0
Breaks(k) == BreakAt(k) \in 1 .. Length - 1

WrapGlyph ==
  /\ pc = "wrap" /\ i <= Length /\ ~Breaks(i)
  /\ i' = i + 1
  /\ last_breakable' = IF AllowBreak(i) THEN i ELSE last_breakable
  /\ UNCHANGED <<textVars, breakVars, s1, s2, moved, lineVars, runVars, pc>>

\* (Mutant: one line too many.)
NoRoom_late == n_lines > max_lines
NoRoom == n_lines >= max_lines

\* A new line; when there is no room for it the line before begins no line any
\* more, and the room is taken for twice as large all the same.
WrapBreak(fails) ==
  /\ pc = "wrap" /\ i <= Length /\ Breaks(i)
  /\ \E lead \in {BreakAt(i) + 1} : \E grow \in {NoRoom} :
       /\ fails => grow /\ "lines" \in MayFail
       /\ max_lines' = IF grow THEN 2 * max_lines ELSE max_lines
       /\ allocated' = IF grow /\ ~fails THEN max_lines' ELSE allocated
       /\ n_lines' = IF fails THEN n_lines ELSE n_lines + 1
       /\ discarded' = (discarded \/ fails)
       /\ glyphs' = [k \in 1..Length |-> [glyphs[k] EXCEPT !.linebreak =
            IF k = lead THEN IF ForceBreak(i) THEN 2 ELSE 1
            ELSE IF fails /\ k = s1 THEN 0 ELSE @]]
       /\ s1' = lead
  /\ last_breakable' = 0 /\ i' = i + 1
  /\ UNCHANGED <<state, at, s2, moved, lineVars, runVars, pc>>

WrapEnd ==
  /\ pc = "wrap" /\ i > Length
  /\ pc' = IF state.wrap_style = 1 THEN "trim" ELSE "balance"
  /\ i' = 1 /\ s2' = 0 /\ moved' = FALSE
  /\ UNCHANGED <<textVars, breakVars, s1, last_breakable, lineVars, runVars>>

-----------------------------------------------------------------------------
(* wrap_lines_rebalance                                                    *)

\* Back from k to the last that is no blank, but not beyond start
Rewind(start, k) == Max({start} \cup {j \in start .. k : Symbol(j) # " "})

\* The last word of the line from a to b - 1, where it begins and where the
\* rest of the line ends
WordAfter(a, b) == Max({a} \cup {j \in a .. Rewind(a, b - 1) : AllowBreak(j)})
LastWord(a, b) ==
  IF Symbol(WordAfter(a, b)) = " " THEN WordAfter(a, b) + 1 ELSE WordAfter(a, b)

Apart(x, y) == IF x < y THEN y - x ELSE x - y

\* Are the lines from a to b - 1 and from b to c - 1 closer in length with the
\* word moved to the second?
Better(a, b, c) ==
  LET l1 == Right(Rewind(a, b - 1)) - Left(a)
      l2 == Right(Rewind(b, c - 1)) - Left(b)
      l1_new == Right(Rewind(a, WordAfter(a, b))) - Left(a)
      l2_new == Right(Rewind(b, c - 1)) - Left(LastWord(a, b))
  IN  LastWord(a, b) # a /\ Apart(l1_new, l2_new) < Apart(l1, l2)

NextBoundary == Min({Length + 1} \cup {k \in i + 1 .. Length : glyphs[k].linebreak # 0})

\* (Mutant: the old break stays.)
Balance_both ==
  /\ pc = "balance" /\ i <= Length
  /\ i' = NextBoundary
  /\ IF s2 # 0 /\ glyphs[i].linebreak = 1 /\ Better(s2, i, NextBoundary)
       THEN /\ glyphs' = [glyphs EXCEPT ![LastWord(s2, i)].linebreak = 1]
            /\ s2' = LastWord(s2, i) /\ moved' = TRUE
       ELSE s2' = i /\ UNCHANGED <<glyphs, moved>>
  /\ UNCHANGED <<state, at, breakVars, s1, last_breakable, lineVars, runVars, pc>>

\* The end of a line: i is where it began, s2 where the line before it did.
Balance ==
  /\ pc = "balance" /\ i <= Length
  /\ i' = NextBoundary
  /\ IF s2 # 0 /\ glyphs[i].linebreak = 1 /\ Better(s2, i, NextBoundary)
       THEN /\ glyphs' = [k \in 1..Length |-> [glyphs[k] EXCEPT !.linebreak =
                 IF k = i THEN 0 ELSE IF k = LastWord(s2, i) THEN 1 ELSE @]]
            /\ s2' = LastWord(s2, i) /\ moved' = TRUE
       ELSE s2' = i /\ UNCHANGED <<glyphs, moved>>
  /\ UNCHANGED <<state, at, breakVars, s1, last_breakable, lineVars, runVars, pc>>

\* (Mutant: one word moved, and it goes on for ever.)
BalanceEnd_again ==
  /\ pc = "balance" /\ i > Length
  /\ pc' = IF moved THEN "balance" ELSE "trim"
  /\ i' = 1 /\ s2' = 0 /\ moved' = moved
  /\ UNCHANGED <<textVars, breakVars, s1, last_breakable, lineVars, runVars>>

\* Again, until no word moves
BalanceEnd ==
  /\ pc = "balance" /\ i > Length
  /\ pc' = IF moved THEN "balance" ELSE "trim"
  /\ i' = 1 /\ s2' = 0 /\ moved' = FALSE
  /\ UNCHANGED <<textVars, breakVars, s1, last_breakable, lineVars, runVars>>
-----------------------------------------------------------------------------
(* trim_whitespace and measure_text                                        *)

Breakings == {k \in 1..Length : glyphs[k].linebreak # 0}
Blank(k) == Symbol(k) \in {" ", "\n"}
White(k) == Blank(k) /\ glyphs[k].linebreak = 0

\* The ends of the text, and what is before and after each break.  The first
\* glyph of the text counts among the leading ones.
Trailing == {k \in 2..Length : \A j \in k..Length : White(j)}
Leading == {k \in 1..Length : \A j \in 1..k : White(j)}
BeforeBreak(b) == {k \in 2 .. b - 1 : \A j \in k .. b - 1 : White(j)}
AfterBreak(b) ==
  IF Blank(b) THEN {k \in b..Length : \A j \in b + 1 .. k : White(j)} ELSE {}
Trimmed ==
  Trailing \cup Leading \cup UNION {BeforeBreak(b) \cup AfterBreak(b) : b \in Breakings}

\* What comes after the blanks at the beginning of a line starts a run.
LineRuns ==
  ({Cardinality(Leading) + 1} \cup {b + Cardinality(AfterBreak(b)) : b \in Breakings})
  \cap 1..Length

Trim ==
  /\ pc = "trim" /\ pc' = "measure"
  /\ glyphs' = [k \in 1..Length |-> [glyphs[k] EXCEPT
       !.skip = k \in Trimmed, !.starts_new_run = @ \/ k \in LineRuns]]
  /\ UNCHANGED <<state, at, breakVars, loopVars, lineVars, runVars>>

\* The ascender of a glyph stands for its metrics, in half units: a line of
\* nothing but line feeds is half as high.  Blanks that were trimmed do not
\* count, but where nothing else is.
Asc(k) == 2 * glyphs[k].look.font_size
Counted(range) ==
  LET seen == {k \in range : ~glyphs[k].skip} IN IF seen = {} THEN range ELSE seen
HeightOf(counted) ==
  LET highest == Max({Asc(k) : k \in counted})
  IN  IF \A k \in counted : Symbol(k) = "\n" THEN highest \div 2 ELSE highest

\* A line, of which the descender is as deep as the ascender is high
LineFrom(first) ==
  LET last == Min({Length} \cup {b - 1 : b \in {b \in Breakings : b > first}})
      asc == HeightOf(Counted(first .. last))
  IN  [first |-> first, last |-> last, asc |-> asc, desc |-> asc, x |-> 0, y |-> 0]

\* Where the l-th line begins
Starts == {1} \cup Breakings
StartOf(l) == CHOOSE k \in Starts : Cardinality({j \in Starts : j <= k}) = l

Measure ==
  /\ pc = "measure" /\ pc' = "karaoke"
  /\ lines' = [l \in 1 .. Cardinality(Starts) |-> LineFrom(StartOf(l))]
  /\ height' = SumTo([l \in DOMAIN lines' |-> lines'[l].asc + lines'[l].desc], Len(lines'))
                + (Len(lines') - 1) * line_spacing
  /\ UNCHANGED <<textVars, breakVars, loopVars, runVars>>

Glyphs(l) == lines[l].first .. lines[l].last

-----------------------------------------------------------------------------
(* ass_process_karaoke_effects                                             *)

\* One glyph, or the end of the text: a run ends before each one that starts a
\* run.  w is the run that is open and the clock; skip_timing and has_reset are
\* what the other glyphs of the run bring for the next one.
EndsWord(w, k) == k > Length \/ glyphs[k].starts_new_run

InWord(w, k) ==
  [w EXCEPT !.has_reset = @ \/ glyphs[k].reset_effect,
            !.skip_timing = glyphs[k].effect_skip_timing
                            + (IF glyphs[k].reset_effect THEN 0 ELSE @)]

\* (Mutant: a reset within a run does not stop the clock of the run.)
EndWord_unreset(w, k) ==
  LET start == glyphs[w.start]
      type  == IF start.effect_type # "NONE" THEN start.effect_type ELSE w.type
      from  == (IF start.reset_effect THEN 0 ELSE w.timing) + start.effect_skip_timing
      till  == from + start.effect_timing
  IN  IF w.start = 0 \/ type = "NONE" THEN [w EXCEPT !.start = k]
      ELSE [start |-> k, type |-> type,
            timing |-> till + w.skip_timing,
            skip_timing |-> 0, has_reset |-> FALSE,
            words |-> Append(w.words, [first |-> w.start, last |-> k - 1, type |-> type,
              sung |-> <<from, IF type = "KARAOKE_KF" THEN till ELSE from>>])]

EndWord(w, k) ==
  LET start == glyphs[w.start]
      type  == IF start.effect_type # "NONE" THEN start.effect_type ELSE w.type
      from  == (IF start.reset_effect THEN 0 ELSE w.timing) + start.effect_skip_timing
      till  == from + start.effect_timing
  IN  IF w.start = 0 \/ type = "NONE" THEN [w EXCEPT !.start = k]
      ELSE [start |-> k, type |-> type,
            timing |-> (IF w.has_reset THEN 0 ELSE till) + w.skip_timing,
            skip_timing |-> 0, has_reset |-> FALSE,
            words |-> Append(w.words, [first |-> w.start, last |-> k - 1, type |-> type,
              sung |-> <<from, IF type = "KARAOKE_KF" THEN till ELSE from>>])]

Words ==
  LET after[k \in 0 .. Length + 1] ==
        IF k = 0 THEN [start |-> 0, type |-> "NONE", timing |-> 0, skip_timing |-> 0,
                       has_reset |-> FALSE, words |-> <<>>]
        ELSE IF EndsWord(after[k - 1], k) THEN EndWord(after[k - 1], k)
        ELSE InWord(after[k - 1], k)
  IN  after[Length + 1].words

\* A word that stands on its head and is being sung is filled from its other
\* end, in exchanged colours.
Reversed(word) ==
  /\ word.sung[1] <= state.event.now /\ state.event.now < word.sung[2]
  /\ glyphs[word.first].look.frz > 0 /\ glyphs[word.first].look.frz % 360 \in 91..269

Sing(info, word) ==
  [info EXCEPT !.effect_type = word.type, !.sung = word.sung,
    !.look.c1 = IF Reversed(word) THEN info.look.c2 ELSE @,
    !.look.c2 = IF Reversed(word) THEN info.look.c1 ELSE @]

\* How far the word is filled follows from when it is sung, and from now.
Karaoke ==
  /\ pc = "karaoke" /\ pc' = "reorder"
  /\ \E words \in {Words} :
       glyphs' = [k \in 1..Length |->
         IF \E w \in DOMAIN words : k \in words[w].first .. words[w].last
           THEN Sing(glyphs[k], words[CHOOSE w \in DOMAIN words :
                                        k \in words[w].first .. words[w].last])
           ELSE glyphs[k]]
  /\ UNCHANGED <<state, at, breakVars, loopVars, lineVars, runVars>>

-----------------------------------------------------------------------------
(* reorder_text, align_lines                                               *)

\* The baselines
Reorder ==
  /\ pc = "reorder" /\ pc' = "align"
  /\ lines' = [l \in DOMAIN lines |-> [lines[l] EXCEPT !.y =
       SumTo([m \in DOMAIN lines |-> IF m = 1 THEN 0
                ELSE lines[m - 1].desc + lines[m].asc + line_spacing], l)]]
  /\ UNCHANGED <<textVars, breakVars, loopVars, height, runVars>>

\* In half units
Width(l) ==
  2 * SumTo([k \in 1..Length |-> IF k \in Glyphs(l) /\ ~glyphs[k].skip THEN Advance(k) ELSE 0],
            Length)
MaxWidth == Max({Width(l) : l \in DOMAIN lines})

\* 1 left, 2 center, 3 right; no justification is like the alignment.  A style
\* with Alignment 0 has none.
Shift(l, halign, justify) ==
  LET frame == 2 * session.width
      block == CASE halign \in {0, 1} -> 0
                 [] halign = 2 -> (frame - MaxWidth) \div 2
                 [] halign = 3 -> frame - MaxWidth
      side  == IF halign # 0 /\ justify \in 1..3 THEN justify ELSE halign
  IN  block + CASE side \in {0, 1} -> 0
                [] side = 2 -> (MaxWidth - Width(l)) \div 2
                [] side = 3 -> MaxWidth - Width(l)

AlignLines ==
  /\ pc = "align" /\ pc' = "done"
  /\ \E halign \in {state.alignment % 4} : \E scrolls \in {"HSCROLL" \in state.evt_type} :
       lines' = [l \in DOMAIN lines |-> [lines[l] EXCEPT !.x =
         IF scrolls THEN Shift(l, 1, halign) ELSE Shift(l, halign, state.justify)]]
  /\ UNCHANGED <<textVars, breakVars, loopVars, height, runVars>>

\* What the context knows of the event in the end.  A drawing for a clip says
\* by itself which mode it is in.
Outcome ==
  IF state.clip_drawing_text = 0 THEN [state EXCEPT !.clip_drawing_mode = FALSE] ELSE state

End ==
  /\ pc = "done" /\ pc' = "idle"
  /\ rendered' = IF discarded THEN rendered
                 ELSE Append(rendered, [ctx |-> Outcome, glyphs |-> glyphs, lines |-> lines])
  /\ state' = FreeContext(state)
  /\ UNCHANGED <<at, glyphs, breakVars, loopVars, lineVars, session, n>>

Next ==
  \/ Begin \/ Block \/ Glyph \/ GlyphFails \/ TextEnd \/ Split \/ ShapingFails
  \/ WrapGlyph \/ (\E fails \in BOOLEAN : WrapBreak(fails)) \/ WrapEnd
  \/ Balance \/ BalanceEnd \/ Trim \/ Measure \/ Karaoke \/ Reorder \/ AlignLines \/ End

Spec == Init /\ [][Next]_vars /\ WF_vars(Balance \/ BalanceEnd)

-----------------------------------------------------------------------------
(* Properties                                                              *)

TypeOK ==
  /\ n \in 0 .. Len(session.events) /\ pc \in Steps
  /\ DOMAIN state = DOMAIN EmptyContext /\ DOMAIN state.look = LookFields
  /\ n > 0 => at \in 1 .. Len(Text) + 1
  /\ \A k \in DOMAIN glyphs :
       glyphs[k].linebreak \in 0..2 /\ glyphs[k].effect_type \in EffectTypes
  /\ n_lines \in 0 .. max_lines
  /\ i \in Nat /\ s1 \in Nat
  /\ pc \notin {"idle", "parse", "split"} => last_breakable \in 0..Length
  /\ s2 \in 0 .. Length /\ moved \in BOOLEAN /\ discarded \in BOOLEAN
  /\ lines # <<>> => Len(lines) <= Length
  \* events that are placed or moving are not kept apart from others
  /\ state.detect_collisions => state.evt_type = {} /\ ~state.have_origin

\* A text as the times of its syllables: the clock when the text has been read
\* up to k, independent of what glyphs and runs it is made into.
Timed(t) == t.name \in DOMAIN Effects \cup {"kt"}
Tick(clock, t) ==
  IF ~Timed(t) THEN clock
  ELSE IF t.name = "kt" THEN [clock EXCEPT !.from = ValueOf(t), !.till = ValueOf(t)]
  ELSE [from |-> clock.till, type |-> Effects[t.name],
        till |-> clock.till + (IF t.args = <<>> THEN 100 ELSE t.args[1])]
ClockAfter(clock, tags) ==
  LET after[k \in 0 .. Len(tags)] == IF k = 0 THEN clock ELSE Tick(after[k - 1], tags[k])
  IN  after[Len(tags)]
ClockAt(k) ==
  LET clock[j \in 0 .. k] == IF j = 0 THEN [from |-> 0, till |-> 0, type |-> "NONE"]
                             ELSE ClockAfter(clock[j - 1], Text[j].tags)
  IN  clock[k]
TimedBetween(from, till) ==
  \E k \in from .. till : \E j \in DOMAIN Text[k].tags : Timed(Text[k].tags[j])

SourceBefore(k) == IF k = 1 THEN 0 ELSE glyphs[k - 1].source
SungAt(k) ==
  LET clock == ClockAt(glyphs[k].source)
  IN  IF clock.type = "NONE" THEN <<0, 0>>
      ELSE IF ~TimedBetween(SourceBefore(k) + 1, glyphs[k].source)
        THEN <<clock.till, clock.till>>
      ELSE <<clock.from, IF clock.type = "KARAOKE_KF" THEN clock.till ELSE clock.from>>

RunStart(k) == Max({1} \cup {j \in 1..k : glyphs[j].starts_new_run})

\* Is the clock set before there is any syllable?  Then the code does as if it
\* were not, does it later, or stops the clock of the first syllable.
SetEarly ==
  \E k \in 1..Length :
    /\ ClockAt(glyphs[k].source).type = "NONE"
    /\ \E b \in 1 .. glyphs[k].source : \E j \in DOMAIN Text[b].tags : Text[b].tags[j].name = "kt"

\* Every run is sung when the karaoke tags of the text say so, however tags
\* pile up before a glyph, fall into the middle of a run, or set the clock;
\* what a syllable still has after a change of style or of line comes when
\* it is over (parse_events, split_style_runs, ass_process_karaoke_effects).
KaraokeOnTime ==
  pc = "done" /\ ~SetEarly =>
    \A k \in 1..Length :
      /\ glyphs[k].sung = SungAt(RunStart(k))
      /\ glyphs[k].effect_type = ClockAt(glyphs[RunStart(k)].source).type

\* A line is broken after each line feed, and else only where it may be.
BrokenWhereAllowed ==
  \A k \in 2..Length :
    /\ glyphs[k].linebreak = 2 <=> Symbol(k - 1) = "\n"
    /\ glyphs[k].linebreak = 1 => AllowBreak(k - 1)

Shown(l) == {k \in Glyphs(l) : ~glyphs[k].skip}
SingleSpaced == \A k \in 2..Length : ~(Symbol(k - 1) = " " /\ Symbol(k) = " ")

\* The blanks at the edges of each line are trimmed, and no others.
EdgesTrimmed ==
  \A l \in DOMAIN lines : \A k \in Glyphs(l) :
    glyphs[k].skip <=> \/ \A j \in lines[l].first .. k : Blank(j)
                       \/ \A j \in k .. lines[l].last : Blank(j)

\* A line that is too long for the frame is a single word.
NoNeedlessOverflow ==
  SingleSpaced /\ state.wrap_style # 2 =>
    \A l \in DOMAIN lines : Shown(l) # {} =>
      \/ Right(Max(Shown(l))) - Left(Min(Shown(l))) < session.width
      \/ \A k \in Shown(l) : ~AllowBreak(k) \/ k = Max(Shown(l))

\* No run goes on into another line; lines stand below each other as high as
\* the text was measured, and within the frame if they fit.
LinesPlaced ==
  /\ \A l \in DOMAIN lines : Shown(l) # {} => glyphs[Min(Shown(l))].starts_new_run
  /\ lines[1].asc + lines[Len(lines)].y + lines[Len(lines)].desc = height
  /\ MaxWidth <= 2 * session.width =>
       \A l \in DOMAIN lines : lines[l].x \in 0 .. 2 * session.width - Width(l)

\* The lines of a text (wrap_lines_smart, align_lines): what wrapping,
\* balancing, trimming and measuring, which follow each other's marks on the
\* glyphs, come to together.  With the Unicode algorithm, see BrokenByUnicode.
LinesBroken ==
  pc = "done" /\ ~discarded /\ ~session.unicode =>
    /\ n_lines = Len(lines)
    /\ BrokenWhereAllowed /\ EdgesTrimmed /\ NoNeedlessOverflow /\ LinesPlaced

\* What an event looks like does not depend on what the context rendered
\* before (init_render_context, free_render_context).
FreshEvent ==
  \A j, k \in DOMAIN rendered :
    rendered[j].ctx.event = rendered[k].ctx.event => rendered[j] = rendered[k]

\* Moving words from line to line comes to an end (wrap_lines_rebalance).
Settles == pc = "balance" ~> pc = "trim"

\* "Break lines according to the Unicode Line Breaking Algorithm" (ass.h)
BrokenByUnicode ==
  pc = "done" /\ ~discarded /\ session.unicode => BrokenWhereAllowed

\* "the best we can do is to avoid UB by discarding the previous break"
\* (wrap_lines_naive): there is room for the lines there are.
LinesFit == n_lines <= allocated
=============================================================================
