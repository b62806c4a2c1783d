------------------------------ MODULE MCScript -------------------------------
(* Lines for the texts that TLC reads, and formats of a few fields.           *)
EXTENDS Parser

AssStyle == <<"Name", "FontName", "Encoding">>
SsaStyle == <<"Name", "FontName", "AlphaLevel">>
AssEvent == <<"Layer", "Style", "Text">>
SsaEvent == <<"Marked", "Style", "Text">>

Sec(s, t)  == [kind |-> "Section", state |-> s, type |-> t]
Info(f, v) == [kind |-> "Info", field |-> f, value |-> v]
Format(f)  == [kind |-> "Format", fields |-> f]
Style(vs)  == [kind |-> "Style", values |-> vs]
Event(vs)  == [kind |-> "Dialogue", values |-> vs]
Font(n)    == [kind |-> "Fontname", name |-> n]
Data(n)    == [kind |-> "Data", len |-> n]

\* A header, one style at most, and format lines.
Headers ==
  {Sec("INFO", ""), Sec("STYLES", "ASS"), Sec("STYLES", "SSA"), Sec("EVENTS", ""),
   Info("ScriptType", "ASS"), Info("ScriptType", "other"),
   Info("PlayResX", "384"), Info("PlayResY", "288"),
   Info("GENBY_FFMPEG", ""), Info("Other", ""), Info("ScaledBorderAndShadow", "yes"),
   Info("ScaledBorderAndShadow", "no"), Format(AssStyle), Format(AssEvent),
   Format(<<"Style", "Text">>), Style(<<"Default2">>)}

\* Styles that are redefined, dropped or without a name; events that are not
\* complete or ask for a style that is not there (yet).
Bodies ==
  {Sec("STYLES", "ASS"), Sec("EVENTS", ""),
   Format(<<"FontName", "Name">>), Format(<<"Style", "Layer">>), Format(SsaEvent),
   Style(<<"A", "Default">>), Style(<<"Default">>), Style(<<"", "">>),
   Event(<<"0", "A", "">>), Event(<<"0", "">>), Event(<<"default", "0">>), Event(<<"0">>)}

EmbeddedFonts ==
  {Sec("FONTS", ""), Sec("EVENTS", ""), Font("a"), Font("b"), Data(4), Data(2), Data(3)}

TheSessions ==
  {[lines |-> Headers, calls |-> {"memory", "data"}, styles |-> 2],
   [lines |-> Bodies, calls |-> {"private", "styles"}, styles |-> 3],
   [lines |-> EmbeddedFonts, calls |-> {"memory", "data", "private", "styles"}, styles |-> 1],
   [lines |-> {}, calls |-> {}, styles |-> 1]}

DefaultNames == {"Default", "Default2"}

Forced == <<[style |-> AnyStyle, field |-> "FontName", value |-> "Mono"],
            [style |-> "A", field |-> "FontName", value |-> "Serif"],
            [style |-> AnyStyle, field |-> "ScaledBorderAndShadow", value |-> "no"]>>

-----------------------------------------------------------------------------
(* Values                                                                    *)

Zeros(n) == [k \in 1..n |-> "0"]

\* A number, and its text.
Number(blanks, minus, whole, pointed, frac, expMinus, exp) ==
  [kind |-> "number", minus |-> minus, whole |-> whole, frac |-> frac,
   expMinus |-> expMinus, exp |-> exp,
   text |-> blanks \o (IF minus THEN <<"-">> ELSE <<>>) \o whole
            \o (IF pointed THEN <<".">> ELSE <<>>) \o frac
            \o (IF exp = <<>> THEN <<>> ELSE <<"e">>)
            \o (IF exp # <<>> /\ expMinus THEN <<"-">> ELSE <<>>) \o exp]

Exps == {<<>>, Zeros(3) \o <<"7">>, <<"1", "5", "0">>, <<"9", "9", "9", "9">>}
        \cup {<<a>> : a \in Digits} \cup {<<a, b>> : a \in {"0", "1", "2", "3"}, b \in Digits}

\* Zeros before and behind the point, more digits than are kept
Short ==
  {Number(blanks, minus, whole, pointed, <<>>, expMinus, exp) :
     blanks \in {<<>>, <<" ", "tab">>}, minus \in BOOLEAN, pointed \in BOOLEAN,
     whole \in {<<>>, <<"0">>, <<"7">>, <<"0", "0">>, <<"1", "0">>, <<"9", "8", "7", "6", "5">>},
     expMinus \in {TRUE}, exp \in {<<>>}}
  \cup {Number(<<>>, FALSE, whole, TRUE, frac, expMinus, exp) :
          whole \in {<<>>, <<"0">>, <<"7">>, <<"0", "3">>, <<"1", "0", "0", "2", "4">>},
          frac \in {<<"0">>, <<"5">>, <<"0", "5">>, <<"0", "0", "1", "0">>, <<"1", "2", "3", "4", "5">>},
          expMinus \in BOOLEAN, exp \in Exps}

\* So long that exponents are near the end of size_t
Long ==
  {Number(<<>>, FALSE, <<"1">> \o Zeros(n), FALSE, <<>>, expMinus, exp) :
     n \in {1, 3, 4, 5, 10, 14, 15, 16, 19, 20}, expMinus \in BOOLEAN, exp \in Exps}
  \cup {Number(<<>>, FALSE, <<>>, TRUE, Zeros(n) \o <<"2">>, expMinus, exp) :
          n \in {1, 3, 4, 5, 10, 14, 15, 16, 19, 20}, expMinus \in BOOLEAN, exp \in Exps}

Integer(minus, base, prefix, digits) ==
  [kind |-> "integer", minus |-> minus, base |-> base, digits |-> digits,
   text |-> prefix \o (IF minus THEN <<"-">> ELSE <<>>) \o digits]
Integers0 ==
  {Integer(minus, 10, <<" ">>, ds) : minus \in BOOLEAN, ds \in
     {<<"0">>, <<"7">>, <<"6", "5", "5", "3", "5">>, <<"6", "5", "5", "3", "6">>,
      <<"3", "2", "7", "6", "8">>, <<"9", "9", "9", "9", "9", "9", "9">>}}
  \cup {Integer(minus, 16, <<p, x>>, ds) : minus \in BOOLEAN,
          p \in {"&"}, x \in {"h", "H"}, ds \in UNION {[1..k -> {"0", "1", "a", "F"}] : k \in {1, 4, 5}}}

Colors == {[kind |-> "color", digits |-> <<b, g, r>>] :
             b \in Range(Upper), g \in {"0", "8", "F"}, r \in {"0", "7", "c"}}

\* Code points at the ends of the lengths they are written in
Points == {1, 127, 128, 2047, 2048, 55295, 65535, 65536, 1114111}
UnicodeTexts == {[kind |-> "text", text |-> t] : t \in UNION {[1..k -> Points] : k \in 1..3}}

\* Letters, three of the length of each, and halves of surrogates, out of
\* order, alone, and cut off
Units == {<<0, 65>>, <<4, 16>>, <<216, 0>>, <<219, 255>>, <<220, 1>>}
Names ==
  {[kind |-> "name", bytes |-> FlattenSeq(us) \o tail, room |-> room] :
     us \in UNION {[1..k -> Units] : k \in 0..3}, tail \in {<<>>, <<216>>}, room \in {1, 5, 8}}

TheReadings == Short \cup Long \cup Integers0 \cup Colors \cup UnicodeTexts \cup Names
=============================================================================
