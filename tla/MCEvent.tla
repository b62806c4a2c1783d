------------------------------- MODULE MCEvent -------------------------------
(* Styles, and texts for TLC.                                                *)
EXTENDS Event

Plain(v) ==
  [f \in {StyleField[g] : g \in DOMAIN StyleField} \cup {"Alignment", "Justify"} |->
     CASE f = "Alignment" -> 2 [] f = "Justify" -> 0 [] OTHER -> v]
TheStyles == <<Plain(2), [Plain(4) EXCEPT !.Alignment = 1],
                [Plain(2) EXCEPT !.Alignment = 0, !.Justify = 3]>>
TheUser == [Plain(6) EXCEPT !.Justify = 1]
Asked == {"FontSize", "Outline", "Shadow"}
Frame == <<10, 8>>

Tag(name, args) == [name |-> name, args |-> args, paren |-> FALSE, opens |-> FALSE, space |-> FALSE]
Paren(name, args) == [Tag(name, args) EXCEPT !.paren = TRUE]
Open(args) == [Tag("t", args) EXCEPT !.opens = TRUE]

Char(c) == [symbol |-> c, tags |-> <<>>]
Tags(ts) == [symbol |-> "", tags |-> ts]
One(name, v) == Tags(<<Tag(name, <<v>>)>>)
SeqsUpTo(S, k) == UNION {[1..m -> S] : m \in 1..k}
Event(text) == [Text |-> text, Style |-> 1, Effect |-> "", now |-> 4, Duration |-> 10]
Session(events, width) == [events |-> events, width |-> width, unicode |-> FALSE]

\* Syllables, clocks that are set and changes of style before each of three or
\* four characters, on a narrow frame
Timing == {Tags(<<>>), One("k", 3), One("kf", 3), One("k", 0), One("kt", 5), One("frz", 180),
           Tags(<<Tag("k", <<3>>), Tag("kf", <<2>>)>>),
           Tags(<<Tag("kt", <<5>>), Tag("ko", <<3>>)>>),
           Tags(<<Tag("k", <<3>>), Tag("frz", <<180>>)>>)}
Clocks == {Tags(<<>>), One("k", 3), One("kf", 3), One("kt", 0), One("kt", 5), One("frz", 180)}
Songs ==
  {Session(<<Event(<<x, Char("a"), y, Char(c), z, Char("a")>>)>>, 2) :
     x, y, z \in Timing, c \in {"a", " "}}
  \cup {Session(<<Event(<<w, Char("a"), x, Char("a"), y, Char(c), z, Char("a")>>)>>, 3) :
     w, x, y, z \in Clocks, c \in {"a", " "}}

\* Words of which three lines can be balanced; forced breaks, and the ways of
\* wrapping
Words3 == SeqsUpTo({Char("a"), Char(" ")}, 10)
Paragraphs ==
  {Session(<<Event(text)>>, 5) : text \in Words3}
  \cup {Session(<<Event(<<One("q", q)>> \o text)>>, 3) :
         q \in 0..2, text \in SeqsUpTo({Char("a"), Char(" "), Char("\\n"), Char("\\N")}, 5)}

\* Every kind of tag, before and after other events
Look == {One("bord", 5), One("xshad", -3), One("blur", 200), One("fs", 0), One("fsrel", -5),
         Tags(<<Tag("alpha", <<>>)>>), One("b", 1), One("fn", 3), One("fe", 1),
         Tags(<<Open(<<2, 6>>), Tag("bord", <<6>>), Paren("t", <<0, 3>>), Tag("be", <<9>>)>>),
         Tags(<<Open(<<>>), Paren("clip", <<2, 2, 4, 4>>), Tag("i", <<1>>)>>)}
Placing == {Tags(<<Paren("pos", <<1, 2>>), Paren("move", <<0, 0, 8, 8>>)>>),
            Tags(<<Paren("move", <<0, 0, 8, 8, 6, 2>>)>>),
            Tags(<<[Paren("pos", <<3, 3>>) EXCEPT !.space = TRUE]>>),
            Tags(<<Paren("org", <<1, 1>>), One("an", 7).tags[1]>>),
            One("a", 8), Tags(<<Paren("fad", <<8, 2>>)>>),
            Tags(<<Paren("fad", <<255, 0, 9, -1, 2, 4, -1>>)>>),
            Tags(<<Paren("clip", <<2, 7>>)>>), Tags(<<Paren("iclip", <<8>>)>>)}
Modes == {One("r", 2), Tags(<<Tag("r", <<>>)>>), One("q", 2), One("p", 1), One("pbo", 3),
          One("k", 3), One("kt", 5)}
Blocks == Look \cup Placing \cup Modes

Victims == {Event(<<Char("a")>>), Event(<<Tags(<<Paren("iclip", <<9>>)>>), Char("a")>>),
            [Event(<<One("shad", 1), Char("a")>>) EXCEPT !.Style = 2],
            [Event(<<Char("a"), Char("\\N"), Char("a"), Char("a")>>) EXCEPT !.Style = 3]}
Intruders ==
  {Event(<<Char("a"), b>>) : b \in Blocks} \cup {Event(<<b, Char("a"), c>>) : b \in Modes, c \in Blocks}
  \cup {[Event(<<b, Char("a")>>) EXCEPT !.Effect = e] : b \in Blocks, e \in {"Banner", "Scroll"}}
Programmes == {Session(<<v, w, v>>, 4) : v \in Victims, w \in Intruders}

TheSessions == Songs \cup Paragraphs \cup Programmes

\* For BrokenByUnicode
Hyphens ==
  {[Session(<<Event(text)>>, 4) EXCEPT !.unicode = TRUE] :
     text \in SeqsUpTo({Char("a"), Char(" "), Char("-")}, 6)}
=============================================================================
