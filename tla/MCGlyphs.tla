-------------------------------- MODULE MCGlyphs --------------------------------
(* Texts, drawings, glyphs, clips and bitmaps for TLC.                       *)
EXTENDS Glyphs

SeqsUpTo(S, k) == UNION {[1..m -> S] : m \in 1..k}

-----------------------------------------------------------------------------
Ch(type, script) ==
  [type |-> type, script |-> script, font |-> 1, face |-> 0, flags |-> 0, starts |-> FALSE,
   spaced |-> FALSE, breaks |-> FALSE, drawing |-> FALSE, ignorable |-> FALSE, control |-> FALSE,
   makes |-> 1, width |-> 2, kf |-> FALSE, shows |-> "yes"]
Latin == Ch("L", "latin")
Space == [Ch("N", "common") EXCEPT !.shows = "empty"]
Newline == [Ch("BS", "common") EXCEPT !.shows = "none"]
Arabic == [Ch("R", "arabic") EXCEPT !.makes = 2]
Joined2 == [Ch("R", "arabic") EXCEPT !.makes = 0]
Joiner == [Ch("N", "inherited") EXCEPT !.control = TRUE, !.ignorable = TRUE, !.shows = "none"]
Styled == [Latin EXCEPT !.face = 1, !.starts = TRUE]
Breaking == [Space EXCEPT !.spaced = TRUE, !.breaks = TRUE]

\* The first character of a text is the first of its line.
AtStart(cs) == [cs EXCEPT ![1].breaks = FALSE]
Text0(cs, base, explicit) ==
  [kind |-> "text", chars |-> AtStart(cs), base |-> base, explicit |-> explicit,
   simple |-> FALSE, lacks |-> {}, deferred |-> "no"]

Alphabet == {Latin, Space, Newline, Arabic, Joined2, Joiner, Styled, Breaking}
Texts ==
  {Text0(cs, base, FALSE) : cs \in SeqsUpTo(Alphabet, 4), base \in {"ON"}}
  \cup {Text0(cs, "LTR", FALSE) : cs \in SeqsUpTo(Alphabet, 3)}
  \cup {Text0(cs, "LTR", TRUE) : cs \in SeqsUpTo(Alphabet, 3)}

\* What may be missing, what is not shaped, and glyphs of every look
Kf == [Latin EXCEPT !.kf = TRUE, !.starts = TRUE]
Filled == [Latin EXCEPT !.kf = TRUE]
Looks == {Latin, Styled, Space, [Latin EXCEPT !.shows = "far"], [Arabic EXCEPT !.shows = "yes"],
          [Latin EXCEPT !.drawing = TRUE, !.width = 3]}
Odd(cs, lacks, simple, deferred) ==
  [Text0(cs, "LTR", FALSE) EXCEPT !.lacks = lacks, !.simple = simple, !.deferred = deferred]
Oddities ==
  {Odd(cs, {}, FALSE, "no") : cs \in SeqsUpTo(Looks, 4)}
  \cup {Odd(cs, {what}, FALSE, "composite") : cs \in SeqsUpTo({Styled, Arabic, Latin}, 3),
         what \in {"levels", "fonts", "chains", "reorder", "runs", "arrays", "items", "refs"}}
  \cup {Odd(<<Kf>> \o cs, {}, FALSE, d) : cs \in SeqsUpTo({Filled, [Filled EXCEPT !.shows = "empty"], Styled}, 3),
         d \in {"composite", "outline"}}
  \cup {Odd(cs, {}, TRUE, "no") : cs \in SeqsUpTo({Latin, Arabic, Space}, 2)}

-----------------------------------------------------------------------------
Outline0 ==
  [kind |-> "outline", type |-> "box", text |-> <<>>, room |-> 20, noTokens |-> FALSE, loop |-> FALSE,
   contours |-> <<>>, lines |-> 0, turned |-> FALSE, fits |-> TRUE,
   border |-> 0, stroked |-> 40, half |-> 0]

Cmd(c, pts) == [cmd |-> c, points |-> pts]
Commands == {Cmd("m", <<0>>), Cmd("m", <<>>), Cmd("n", <<6>>), Cmd("l", <<6>>), Cmd("l", <<6, 9>>),
             Cmd("b", <<3, 6, 9>>), Cmd("b", <<3, 6>>), Cmd("s", <<3, 9, 6>>), Cmd("s", <<0, 3, 9, 0>>),
             Cmd("p", <<3>>), Cmd("c", <<>>)}
Drawing(text) == [Outline0 EXCEPT !.type = "drawing", !.text = text]
Coords == {-7, 0, 3, 8}
Drawings ==
  {Drawing(text) : text \in SeqsUpTo(Commands, 3)}
  \cup {Drawing(<<Cmd("m", <<0>>)>> \o text) : text \in [1..3 -> Commands]}
  \cup {[Drawing(text) EXCEPT !.room = r] : text \in [1..3 -> Commands], r \in {0, 3, 5}}
  \cup {[Drawing(<<Cmd("m", <<0>>), Cmd("l", <<99>>)>>) EXCEPT !.noTokens = n] : n \in BOOLEAN}
  \cup {[Drawing(<<Cmd("m", <<p>>), Cmd("s", <<q, r, s>>), Cmd("c", <<>>)>>) EXCEPT !.loop = TRUE] :
         p, q, r, s \in Coords}

Tags == {"on", "conic", "cubic"}
Contours == [1..2 -> Tags] \cup [1..3 -> Tags \cup {"far"}] \cup [1..4 -> Tags] \cup [1..5 -> {"on", "conic"}]
Glyph0(contours) == [Outline0 EXCEPT !.type = "glyph", !.contours = contours]
FontGlyphs ==
  {Glyph0(<<c>>) : c \in Contours} \cup {Glyph0(<<c, d>>) : c, d \in [1..3 -> Tags]}
  \cup {[Glyph0(<<c>>) EXCEPT !.lines = l, !.turned = TRUE, !.fits = f] :
         c \in [1..3 -> Tags], l \in 0..2, f \in BOOLEAN}

Bordered(s, half) == [s EXCEPT !.border = 1, !.half = half]
Line == Cmd("l", <<6>>)
Bezier == Cmd("b", <<3, 6, 9>>)
Start == Cmd("m", <<0>>)
Borders ==
  {Bordered(Outline0, 0), Bordered([Outline0 EXCEPT !.room = 0], 0),
   Bordered(Drawing(<<>>), 0), Bordered(Drawing(<<Start, Line>>), 0),
   Bordered(Drawing(<<Start, Bezier>>), 1), Bordered(Glyph0(<< <<"on", "conic", "on">> >>), 2),
   Bordered(Drawing(<<Start, Line, Start, Line>>), 0)}
  \cup {[Bordered(Drawing(<<Start, Bezier>>), 1) EXCEPT !.stroked = r] : r \in {0, 3, 7}}

-----------------------------------------------------------------------------
Seg(order, last) == [order |-> order, last |-> last]
Contour(pts) == [points |-> pts, segments |-> [k \in DOMAIN pts |-> Seg(1, k = Len(pts))]]
With(o, q) == [points |-> o.points \o q.points, segments |-> o.segments \o q.segments]
Square(a, b) == Contour(<< <<a, a>>, <<b, a>>, <<b, b>>, <<a, b>> >>)
Hole(a, b) == Contour(<< <<a, a>>, <<a, b>>, <<b, b>>, <<b, a>> >>)
Conic(p, q, r) == [points |-> <<p, q, r>>, segments |-> <<Seg(2, FALSE), Seg(1, TRUE)>>]
Bow(p, q, r, t) == [points |-> <<p, q, r, t>>, segments |-> <<Seg(3, FALSE), Seg(1, TRUE)>>]
Loop(p, q, r) == [points |-> <<p, q, r>>, segments |-> <<Seg(3, TRUE)>>]

Of(outlines) ==
  [kind |-> "raster", outlines |-> outlines, room |-> 99, tiled |-> FALSE, align |-> 1,
   lacks |-> "no", left |-> <<>>]
Alone(o) == Of(<<o, Contour(<<>>)>>)
Grid == {0, 4, 10} \X {0, 4, 14}
Few == {<<0, 0>>, <<4, 6>>, <<12, 4>>, <<6, 14>>, <<0, 10>>, <<14, 0>>}
Ramp(p, q) == Contour(<<p, <<16, 8>>, q>>)
Rasters ==
  {Alone(Contour(<<p, q, r>>)) : p, q, r \in Grid}
  \cup {Alone(Contour(<<p, q, r, t>>)) : p, q, r, t \in Few}
  \cup {Of(<<Contour(<<p, q, <<8, 2>> >>), o>>) : p, q \in Few, o \in {Square(0, 6), Square(2, 12), Hole(4, 20)}}
  \cup {Alone(With(Square(a, b), o)) :
         a \in {0, 2}, b \in {12, 16}, o \in {Hole(4, 8), Hole(6, 10), Square(6, 8), Square(4, 20)}}
  \cup {Alone(Conic(p, q, r)) : p, q, r \in Few}
  \cup {Alone(Bow(p, q, <<6, 6>>, t)) : p, q, t \in Few}
  \cup {Alone(Loop(p, q, t)) : p, q, t \in Few}
  \cup {[Alone(Ramp(p, q)) EXCEPT !.room = r, !.tiled = t, !.left = l, !.align = a, !.lacks = n] :
         p, q \in {<<0, 0>>, <<4, 14>>}, r \in {2, 3, 4, 5, 99}, t \in BOOLEAN, n \in {"no", "bitmap", "pool"},
         l \in {<<>>, <<SegmentFor([from |-> <<0, 0>>, to |-> <<9, 9>>])>>}, a \in 1..2}

-----------------------------------------------------------------------------
Big == <<0, 0, 4, 4>>
Image0 ==
  [kind |-> "images", bm |-> <<1, 1, 4, 4>>, clip |-> Big, explicit |-> TRUE, use_margins |-> FALSE,
   inverse |-> FALSE, scroll |-> <<>>, brk |-> 99, PlayRes |-> <<4, 4>>, content |-> <<1, 0, 5, 4>>,
   frame |-> <<6, 5>>, vclip |-> [valid |-> FALSE, inverse |-> FALSE, area |-> Big],
   room |-> 99, blends |-> 99, box |-> [shown |-> FALSE, shadow |-> 0, area |-> Big]]
Bms == {<<x, y, x + w, y + 3>> : x \in {-1, 1, 3}, y \in {-1, 2}, w \in {1, 3}}
Clips == {Big, <<0, 0, 2, 2>>, <<1, 1, 3, 3>>, <<2, 0, 2, 4>>, <<-2, 1, 9, 2>>, <<3, 1, 1, 3>>, <<1, 3, 3, 1>>,
          <<-5, -5, -1, 9>>}
Paintings ==
  {[Image0 EXCEPT !.bm = b, !.clip = c, !.inverse = i, !.brk = k] :
     b \in Bms, c \in Clips, i \in BOOLEAN, k \in {-9, 2, 99}}
  \cup {[Image0 EXCEPT !.bm = b, !.explicit = e, !.use_margins = m, !.scroll = s] :
     b \in Bms, e, m \in BOOLEAN, s \in {<<>>, <<1, 3>>, <<3, 1>>, <<-1, 9>>}}
  \cup {[Image0 EXCEPT !.bm = b, !.inverse = i, !.clip = <<1, 1, 2, 2>>, !.brk = 2, !.blends = n,
                       !.vclip = [valid |-> TRUE, inverse |-> v, area |-> a]] :
     b \in Bms, i, v \in BOOLEAN, n \in {0, 1, 99},
     a \in {<<1, 1, 3, 3>>, <<-5, 2, 9, 9>>, <<3, 3, 3, 3>>, <<4, -1, 5, 5>>}}
  \cup {[Image0 EXCEPT !.inverse = i, !.clip = <<1, 1, 2, 2>>, !.brk = 3, !.room = n] : i \in BOOLEAN, n \in 0..3}
  \cup {[Image0 EXCEPT !.bm = b, !.box = [shown |-> TRUE, shadow |-> s, area |-> a]] :
     b \in Bms, s \in {0, 1}, a \in {<<1, 1, 3, 3>>, <<-4, 2, 9, 3>>, <<7, 7, 8, 8>>}}

Bitmaps0 ==
  [kind |-> "bitmaps", bitmaps |-> <<>>, be |-> 0, pool |-> TRUE, threads |-> 3, memory |-> TRUE]
Missing == <<0, 0, 0, 0>>
Pieces == {Missing, <<0, 0, 1, 3>>, <<0, 2, 2, 7>>, <<-1, -1, 1, 0>>}
Composites ==
  {[Bitmaps0 EXCEPT !.bitmaps = bs, !.be = e, !.threads = t] :
     bs \in SeqsUpTo(Pieces, 2), e \in {0, 1, 5}, t \in {2, 3, 5}}
  \cup {[Bitmaps0 EXCEPT !.bitmaps = bs, !.pool = p, !.memory = m] :
     bs \in [1..3 -> Pieces], p, m \in BOOLEAN}

-----------------------------------------------------------------------------
Method(level, radius) == [level |-> level, radius |-> radius]
Methods == {Method(l, r) : l \in 0..3, r \in 4..8}
Blur0 ==
  [kind |-> "blur", bm |-> [pos |-> <<3, -2>>, size |-> <<4, 3>>], buffer |-> TRUE, gaussian |-> TRUE,
   method |-> <<Method(1, 4), Method(0, 5)>>, deferred |-> FALSE, pool |-> TRUE, threads |-> 3, lacks |-> "no"]
Blurs ==
  {[Blur0 EXCEPT !.bm.size = <<w, w>>, !.method = <<m, m>>, !.deferred = d, !.pool = FALSE] :
     w \in 1..17, m \in Methods, d \in BOOLEAN}
  \cup {[Blur0 EXCEPT !.bm.size = <<w, h>>, !.method = <<m, Method(l, 6)>>, !.threads = t] :
     w \in {1, 9, 14, 30}, h \in {2, 7}, m \in {Method(0, 4), Method(2, 7)}, l \in 0..2, t \in 2..4}
  \cup {[Blur0 EXCEPT !.bm.size = <<w, 3>>, !.lacks = what, !.deferred = d, !.buffer = b, !.gaussian = s] :
     w \in {4, 40, 300, 900}, what \in {"no", "buffers", "bitmap"}, d, b, s \in BOOLEAN}

-----------------------------------------------------------------------------
Effects == {<<"none", FALSE>>, <<"k", FALSE>>, <<"k", TRUE>>, <<"ko", FALSE>>, <<"ko", TRUE>>, <<"kf", FALSE>>}
Style(b, bordered, shadow, c, fade, e, how, glyphs_) ==
  [border_style |-> b, bordered |-> bordered, shadow |-> shadow, c |-> c, fade |-> fade,
   effect |-> e[1], sung |-> e[2], blur |-> how, glyphs |-> glyphs_]
RunStyles ==
  {Style(b, o, w, c, f, e, l, g) :
     b \in {1, 3, 4}, o, f \in BOOLEAN, w \in {"no", "tiny", "yes"}, e \in Effects,
     c \in {<<"opaque", "opaque">>, <<"half", "opaque">>, <<"nothing", "opaque">>, <<"opaque", "half">>},
     l \in {{}, {"box"}, {"box", "gaussian"}}, g \in {{1, 2}}}
PlainRun == Style(1, TRUE, "yes", <<"opaque", "opaque">>, FALSE, <<"none", FALSE>>, {"gaussian"}, {1, 2})
FewStyles == {PlainRun, [PlainRun EXCEPT !.shadow = "no"], [PlainRun EXCEPT !.c = <<"nothing", "opaque">>],
              [PlainRun EXCEPT !.border_style = 3, !.bordered = FALSE], [PlainRun EXCEPT !.glyphs = {}]}
Layers0 == [kind |-> "layers", runs |-> <<>>, border_style |-> 1, modes |-> {}, clip |-> "no"]
TheLayers ==
  {[Layers0 EXCEPT !.runs = <<s>>, !.border_style = b, !.modes = m] :
     s \in RunStyles, b \in {1, 4}, m \in {{}, {"blur"}, {"blur", "composite"}, {"blur", "composite", "outline"}}}
  \cup {[Layers0 EXCEPT !.runs = rs, !.modes = m, !.clip = c, !.border_style = b] :
         rs \in SeqsUpTo(FewStyles, 2), m \in SUBSET {"blur", "composite", "outline"},
         b \in {1, 4}, c \in {"no", "clip", "iclip", "vector"}}

TheTexts == Texts \cup Oddities
TheOutlines == Drawings \cup FontGlyphs \cup Borders
=============================================================================
