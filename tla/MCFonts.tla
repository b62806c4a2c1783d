------------------------------- MODULE MCFonts -------------------------------
(* Small sets of fonts.                                                      *)
EXTENDS Fonts, SequencesExt

CONSTANTS regular, bold, wide, pict, tail, bare, attached,      \* fonts
          text, textbold, sans, broad, dingbats, any, plain     \* names

a == 65
b == 66
TwoSymbols == {a, b}

OneCharmap(kind, ga, gb) == <<[kind |-> kind, glyph |-> (a :> ga @@ b :> gb)]>>

Info(families, fullnames, extended, weight, coverage, charmaps) ==
  [families |-> families, extended_family |-> extended, fullnames |-> fullnames,
   postscript_name |-> None, is_postscript |-> FALSE, bold |-> weight >= 700,
   italic |-> FALSE, weight |-> weight, coverage |-> coverage,
   charmaps |-> charmaps, charmap |-> 0]

\* A family of two, whose bold variant has more symbols and a full name; a font
\* that a provider also knows by an extended name; a font whose second symbol
\* is in a charmap that is not the preferred one; one with few symbols, and one with none.
TheFonts ==
     regular  :> Info({text}, {}, None, 400, {a}, OneCharmap("bmp", 1, 0))
  @@ bold     :> Info({text}, {textbold}, None, 700, {a, b}, OneCharmap("ucs4", 2, 3))
  @@ wide     :> Info({sans}, {}, broad, 400, {b}, OneCharmap("other", 0, 4))
  @@ pict     :> Info({dingbats}, {}, None, 400, {a, b},
                      OneCharmap("ms", 5, 0) \o OneCharmap("other", 0, 6))
  @@ attached :> Info({text}, {}, None, 400, {a, b}, OneCharmap("bmp", 7, 8))
  @@ tail     :> Info({any}, {}, None, 400, {b}, OneCharmap("bmp", 0, 9))
  @@ bare     :> Info({plain}, {}, None, 400, {}, OneCharmap("bmp", 0, 0))

TheFiles == {regular, bold, wide, pict, tail, bare, attached}
TheNames == {text, textbold, sans, broad, dingbats, any, plain}

NoSubstitutes == [n \in TheNames |-> <<>>]
Aliases       == [NoSubstitutes EXCEPT ![any] = <<dingbats>>]

\* DirectWrite or CoreText; fontconfig.
OnDemand == [n \in TheNames |-> CASE n = text -> <<regular, bold>>
                                  [] n = textbold -> <<bold>>
                                  [] n \in {sans, broad} -> <<wide>>
                                  [] n = dingbats -> <<pict>>
                                  [] n = plain -> <<bare>>
                                  [] OTHER -> <<>>]
Never    == [n \in TheNames |-> <<>>]

Wanted(family, weight) == [family |-> family, bold |-> weight, italic |-> 0]
For(d, s) == [desc |-> d, symbol |-> s]
Text(d, symbols) == <<For(d, AnySymbol)>> \o [k \in DOMAIN symbols |-> For(d, symbols[k])]

SafetyDescs == {Wanted(text, 400), Wanted(dingbats, 400), Wanted(broad, 400),
                Wanted(plain, 400)}
SafetyTexts ==
  1 :> {Text(Wanted(text, 400), <<a, b>>), Text(Wanted(dingbats, 400), <<b, a>>)}
  @@ 2 :> {Text(Wanted(broad, 400), <<b>>), Text(Wanted(plain, 400), <<a, b>>)}
SafetyFallback == [n \in TheNames |-> AnySymbol :> text @@ a :> any @@ b :> broad]

\* The font asked for has neither symbol; the fallback for the first has both.
OrderDescs    == {Wanted(plain, 400)}
OrderTexts    == 1 :> {Text(Wanted(plain, 400), <<a>>)}
                 @@ 2 :> {Text(Wanted(plain, 400), <<b>>)}
OrderScanned  == <<bare, bold, tail>>
OrderFallback == [n \in TheNames |-> AnySymbol :> text @@ a :> textbold @@ b :> any]

DefaultTexts == 1 :> {Text(Wanted(broad, 400), <<a, b>>)}
DefaultDescs == {Wanted(broad, 400)}
NoFallback   == [n \in TheNames |-> [s \in {AnySymbol, a, b} |-> None]]

None_ == <<>>
OneAttachment == <<attached>>

\* What the requests of the events lead to, asked for one after the other.
Ask(st, r) ==
  LET new == IF r.symbol # AnySymbol
               THEN GetIndex(st.sel, st.fonts[r.desc], r.desc, r.symbol, 0, FALSE)
             ELSE IF st.fonts[r.desc] # <<>> THEN Added(st.sel, st.fonts[r.desc], 1)
             ELSE AddFace(st.sel, <<>>, r.desc, AnySymbol, 0, FALSE)
  IN [sel |-> new.sel, fonts |-> [st.fonts EXCEPT ![r.desc] = new.faces],
      drawn |-> IF r.symbol = AnySymbol THEN st.drawn
                ELSE st.drawn \cup {<<r, new.faces[new.face].file>>}]

OnlyText(e) == CHOOSE t \in Texts[e] : TRUE

SingleThreaded ==
  FoldLeft(Ask, [sel |-> Selected(0), fonts |-> [d \in Descs |-> <<>>], drawn |-> {}],
           FlattenSeq([e \in Events |-> OnlyText(e)])).drawn

\* "Output is identical to single-threaded rendering regardless of the thread
\* count" (ass.h): when the first frame is done, its symbols come from the
\* fonts they would come from if one thread had rendered its events in order.
AsSingleThreaded ==
  frames = 1 /\ BetweenFrames /\ drawn # {} =>
    {<<For(g.desc, g.symbol), g.file>> : g \in drawn} = SingleThreaded
=============================================================================
