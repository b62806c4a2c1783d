----------------------------- MODULE ScriptProofs -----------------------------
(***************************************************************************)
(* What a track keeps of its script, for any texts, any sequence of calls, *)
(* any style overrides, and wherever memory runs out.                      *)
(***************************************************************************)
EXTENDS Script, WellFoundedInduction, SequenceTheorems, TLAPS

\* The strings (the provers are not aware that these few are among them).
Text == STRING \cup {"", "0", "no", "yes", "Default", "Arial", Missing}
StyleRecord == [Name : Text, FontName : Text]
FontRecord  == [name : Text, data : Seq(session.lines)]

\* The types that TypeOK says nothing of.
Typed ==
  /\ TypeOK
  /\ styles \in Seq(StyleRecord) /\ header \in [HeaderFields -> Text]
  /\ given \in Text
  /\ fontname \in Text /\ fontdata \in Seq(session.lines)
  /\ fonts \in Seq(FontRecord) /\ written \in Seq(FontRecord)
  /\ events \in Seq([Style : Nat])

\* The default style is the last that is called Default.
LastDefault ==
  /\ styles[default_style].Name = "Default"
  /\ \A i \in DOMAIN styles : styles[i].Name = "Default" => i <= default_style

\* The font that is being read is the last in the text, with all of its data,
\* and is not in the library yet.
Reading ==
  /\ open => Len(fonts) < Len(written)
  /\ fontname # None =>
       open /\ written[Len(written)] = [name |-> fontname, data |-> fontdata]

\* The library's fonts are fonts of the texts, in their order; none of them is
\* the font that data lines are still added to.
Places(place) ==
  /\ place \in [DOMAIN fonts -> DOMAIN written]
  /\ \A i \in DOMAIN fonts : fonts[i] = written[place[i]]
  /\ \A i, j \in DOMAIN fonts : i < j => place[i] < place[j]
  /\ open => \A i \in DOMAIN fonts : place[i] < Len(written)
InOrder == \E place : Places(place)

IInv == Typed /\ ExplicitWins /\ LastDefault /\ Reading /\ InOrder

-----------------------------------------------------------------------------
(* Lemmas                                                                  *)

\* A set of indices that is not empty has a greatest one.
LEMMA GreatestIndex ==
  ASSUME NEW n \in Nat, NEW S, S \subseteq 1 .. n, S # {}
  PROVE  LET g == CHOOSE i \in S : \A j \in S : j <= i
         IN  g \in S /\ \A j \in S : j <= g
<1> DEFINE R == {ss \in Nat \X Nat : ss[1] < ss[2]}
           T == {n - i : i \in S}
<1>1. IsWellFoundedOn(R, Nat)
  BY NatLessThanWellFounded, Zenon DEF OpToRel
<1>2. \A x, y \in Nat : <<y, x>> \notin R => x <= y
  OBVIOUS
<1>3. T \subseteq Nat /\ T # {}
  <2> HIDE DEF R
  <2>1. T \subseteq Nat
    OBVIOUS
  <2>2. PICK i \in S : TRUE
    OBVIOUS
  <2>3. n - i \in T
    OBVIOUS
  <2> QED BY <2>1, <2>3
<1> HIDE DEF R
<1>4. PICK t \in T : \A u \in T : ~ (<<u, t>> \in R)
  <2> HIDE DEF T
  <2> QED BY <1>1, <1>3, WFMin
<1>5. \A u \in T : t <= u
  <2> HIDE DEF T
  <2> QED BY <1>2, <1>3, <1>4
<1>6. PICK i \in S : t = n - i
  BY <1>4 DEF T
<1>7. \A j \in S : j <= i
  <2> SUFFICES ASSUME NEW j \in S PROVE j <= i
    OBVIOUS
  <2>1. n - i <= n - j
    BY <1>5, <1>6
  <2>2. i \in Nat /\ j \in Nat
    OBVIOUS
  <2> HIDE DEF T
  <2> QED BY <2>1, <2>2
<1> QED BY <1>7

\* The value of a field is one of the values, or what it was.
LEMMA ValueType ==
  ASSUME NEW field, NEW format, NEW values \in Seq(STRING), NEW before \in Text
  PROVE  Value(field, format, values, before) \in Text
<1> DEFINE places == {i \in DOMAIN format \cap DOMAIN values : format[i] = field}
           last   == CHOOSE i \in places : \A j \in places : j <= i
<1>1. Len(values) \in Nat /\ DOMAIN values = 1 .. Len(values)
  BY LenProperties
<1>2. places \subseteq 1 .. Len(values)
  BY <1>1
<1>3. Value(field, format, values, before) =
        IF places = {} THEN before ELSE values[last]
  BY DEF Value
<1>4. places # {} => last \in 1 .. Len(values)
  <2> HIDE DEF places
  <2> QED BY <1>1, <1>2, GreatestIndex
<1> HIDE DEF places, last
<1>5. places # {} => values[last] \in Text
  BY <1>1, <1>4, ElementOfSeq DEF Text
<1> QED BY <1>3, <1>5

\* An override gives a string, too.
LEMMA OverrideType ==
  ASSUME NEW named, NEW field, NEW before \in Text
  PROVE  Override(named, field, before) \in Text
<1> DEFINE applying == {i \in DOMAIN Overrides : Overrides[i].field = field
                                                 /\ Overrides[i].style \in named}
           last     == CHOOSE i \in applying : \A j \in applying : j <= i
<1>1. /\ Len(Overrides) \in Nat /\ DOMAIN Overrides = 1 .. Len(Overrides)
      /\ \A i \in DOMAIN Overrides : Overrides[i].value \in Text
  <2> DEFINE OverrideRecord == [style : STRING, field : STRING, value : STRING]
  <2>1. Overrides \in Seq(OverrideRecord)
    BY ScriptAssumption
  <2>2. \A r \in OverrideRecord : r.value \in Text
    BY DEF Text
  <2> HIDE DEF OverrideRecord
  <2> QED BY <2>1, <2>2, LenProperties, ElementOfSeq
<1>2. applying \subseteq 1 .. Len(Overrides)
  BY <1>1
<1>3. Override(named, field, before) =
        IF applying = {} THEN before ELSE Overrides[last].value
  BY DEF Override
<1>4. applying # {} => last \in 1 .. Len(Overrides)
  <2> HIDE DEF applying
  <2> QED BY <1>1, <1>2, GreatestIndex
<1> HIDE DEF applying, last
<1> QED BY <1>1, <1>3, <1>4

\* ass_lookup_style finds a style of the track, for "Default" the default one.
LEMMA LookupStyle ==
  ASSUME styles \in Seq(StyleRecord), default_style \in DOMAIN styles
  PROVE  /\ \A name : Lookup(name) \in DOMAIN styles
         /\ LastDefault => Lookup("Default") = default_style
<1>1. Len(styles) \in Nat /\ DOMAIN styles = 1 .. Len(styles)
  BY LenProperties
<1>2. ASSUME NEW name
      PROVE  /\ Lookup(name) \in DOMAIN styles
             /\ LastDefault /\ name = "Default" => Lookup(name) = default_style
  <2> DEFINE wanted == IF name = "default" THEN "Default" ELSE name
             found  == {i \in DOMAIN styles : styles[i].Name = wanted}
             last   == CHOOSE i \in found : \A j \in found : j <= i
  <2>1. Lookup(name) = IF found = {} THEN default_style ELSE last
    BY DEF Lookup
  <2>2. found \subseteq 1 .. Len(styles)
    BY <1>1
  <2>3. found # {} => last \in found /\ \A j \in found : j <= last
    <3> HIDE DEF found
    <3> QED BY <1>1, <2>2, GreatestIndex
  <2>4. ASSUME LastDefault, name = "Default"
        PROVE  default_style \in found /\ \A j \in found : j <= default_style
    BY <2>4 DEF LastDefault
  <2> HIDE DEF found, last
  <2>5. ASSUME LastDefault, name = "Default" PROVE Lookup(name) = default_style
    <3>1. last \in found /\ last <= default_style /\ default_style <= last
      BY <2>3, <2>4, <2>5
    <3>2. last \in Int /\ default_style \in Int
      BY <1>1, <2>2, <3>1
    <3> QED BY <2>1, <2>4, <2>5, <3>1, <3>2
  <2> QED BY <1>1, <2>1, <2>2, <2>3, <2>5
<1> QED BY <1>2

\* The lines of a session are what ScriptAssumption says.
LEMMA LineFields ==
  ASSUME Typed, NEW l \in session.lines
  PROVE  /\ session.calls \subseteq Calls /\ session.styles \in Nat \ {0}
         /\ l.kind = "Section" =>
              l.state \in States /\ (l.state = "STYLES" => l.type \in Types)
         /\ l.kind = "Info" => l.field \in InfoFields /\ l.value \in STRING
         /\ l.kind = "Style" => l.values \in Seq(STRING)
         /\ l.kind = "Fontname" => l.name \in STRING
<1>1. session \in Sessions
  BY DEF Typed, TypeOK
<1> QED BY <1>1, ScriptAssumption

-----------------------------------------------------------------------------
(* What an action leaves alone                                             *)

LEMMA FontsAlone ==
  ASSUME IInv, UNCHANGED <<fontVars, session>>
  PROVE  Reading' /\ InOrder'
<1>1. Reading'
  BY DEF IInv, Reading, fontVars
<1>2. PICK place : Places(place)
  BY DEF IInv, InOrder
<1>3. Places(place)'
  BY <1>2 DEF Places, fontVars
<1> QED BY <1>1, <1>3 DEF InOrder

LEMMA StylesAlone ==
  ASSUME IInv, UNCHANGED <<styles, default_style>>
  PROVE  LastDefault'
BY DEF IInv, LastDefault

LEMMA HeaderAlone ==
  ASSUME IInv, UNCHANGED <<header_flags, header, given>>
  PROVE  ExplicitWins'
BY DEF IInv, ExplicitWins

-----------------------------------------------------------------------------
(* The invariant                                                           *)

LEMMA InitIInv == Init => IInv
<1> SUFFICES ASSUME Init PROVE IInv
  OBVIOUS
<1>1. /\ session \in Sessions
      /\ session.calls \subseteq Calls /\ session.styles \in Nat \ {0}
  BY ScriptAssumption DEF Init
<1>2. /\ styles \in Seq(StyleRecord) /\ Len(styles) = 1 /\ DOMAIN styles = {1}
      /\ styles[1] = [Name |-> "Default", FontName |-> "Arial"]
  <2> DEFINE style == [Name |-> "Default", FontName |-> "Arial"]
  <2>1. styles = <<style>> /\ style \in StyleRecord
    BY DEF Init, StyleRecord, Text
  <2> HIDE DEF style
  <2>2. styles \in Seq(StyleRecord) /\ Len(styles) = 1 /\ styles[1] = style
    BY <2>1
  <2> QED BY <2>2, LenProperties DEF style
<1>3. DOMAIN styles[1] = {"Name", "FontName"} /\ styles[1].Name = "Default"
  BY <1>2
<1>4. /\ fonts \in Seq(FontRecord) /\ written \in Seq(FontRecord)
      /\ fontdata \in Seq(session.lines) /\ events \in Seq([Style : Nat])
      /\ Len(events) = 0 /\ DOMAIN events = {} /\ DOMAIN fonts = {}
      /\ DOMAIN written = {} /\ Len(fonts) = 0 /\ Len(written) = 0
  BY EmptySeq DEF Init
<1>5. header \in [HeaderFields -> Text] /\ DOMAIN header = HeaderFields
  BY DEF Init, Text
<1>6. TypeOK
  <2>1. call \in Calls \cup {"none", "freed"} /\ 0 <= MaxEvents
    BY ScriptAssumption DEF Init, Calls
  <2>2. styles # <<>> /\ 1 <= session.styles
    <3>1. Len(styles) = 1 /\ Len(<<>>) = 0
      BY <1>2
    <3>2. \A n \in Nat \ {0} : 1 <= n
      OBVIOUS
    <3>3. 1 <= session.styles
      BY <1>1, <3>2
    <3>4. styles # <<>>
      BY <3>1
    <3> QED BY <3>3, <3>4
  <2>3. \A i \in DOMAIN styles : DOMAIN styles[i] = {"Name", "FontName"}
    BY <1>2, <1>3
  <2>4. open \in BOOLEAN /\ fontname = None
    BY DEF Init
  <2> QED BY <1>1, <1>2, <2>3, <1>4, <1>5, <2>1, <2>2, <2>4
        DEF Init, TypeOK, States, Types
<1>7. Typed
  BY <1>2, <1>4, <1>5, <1>6 DEF Typed, Init, None, Text
<1>8. LastDefault
  BY <1>2, <1>3 DEF Init, LastDefault
<1>9. ExplicitWins /\ Reading
  BY DEF Init, ExplicitWins, Reading
<1>10. InOrder
  <2>1. Places([i \in {} |-> 1])
    BY <1>4 DEF Places
  <2> QED BY <2>1 DEF InOrder
<1> QED BY <1>7, <1>8, <1>9, <1>10 DEF IInv

-----------------------------------------------------------------------------
(* The actions that read a line                                            *)

LEMMA SectionIInv ==
  ASSUME IInv, NEW l \in session.lines, Section(l)
  PROVE  IInv'
<1> USE DEF Section
<1>1. Typed'
  <2>1. state' \in States /\ track_type' \in Types
    BY LineFields DEF IInv, Typed, TypeOK
  <2> QED BY <2>1 DEF IInv, Typed, TypeOK, FontRecord, styleVars, eventVars, fontVars,
                  callVars
<1>2. Reading' /\ InOrder'
  BY FontsAlone DEF callVars
<1>3. LastDefault' /\ ExplicitWins'
  BY StylesAlone, HeaderAlone DEF styleVars
<1> QED BY <1>1, <1>2, <1>3 DEF IInv

LEMMA InfoLineIInv ==
  ASSUME IInv, NEW l \in session.lines, InfoLine(l)
  PROVE  IInv'
<1> USE DEF InfoLine
<1>1. l.field \in InfoFields /\ l.value \in STRING
  BY LineFields DEF Reads, IInv
<1>2. header \in [HeaderFields -> Text]
  BY DEF IInv, Typed
<1>3. header' \in [HeaderFields -> Text]
  BY <1>1, <1>2 DEF Text
<1>4. Typed'
  <2>1. track_type' \in Types /\ header_flags' \subseteq InfoFields
    BY <1>1 DEF IInv, Typed, TypeOK, Types
  <2>2. given' \in Text
    BY <1>1 DEF IInv, Typed, Text
  <2>3. DOMAIN header' = HeaderFields
    BY <1>3
  <2> QED BY <1>3, <2>1, <2>2, <2>3
        DEF IInv, Typed, TypeOK, FontRecord, styleVars, eventVars, fontVars, callVars
<1>5. Reading' /\ InOrder'
  BY FontsAlone DEF callVars
<1>6. LastDefault'
  BY StylesAlone DEF styleVars
<1>7. ExplicitWins'
  BY <1>2 DEF IInv, ExplicitWins, HeaderFields
<1> QED BY <1>4, <1>5, <1>6, <1>7 DEF IInv

\* A guess is not made when the header says so itself.
LEMMA CompatibleKeeps ==
  ASSUME header \in [HeaderFields -> Text], NEW format, NEW standard
  PROVE  /\ Compatible(header, header_flags, format, standard)
              \in [HeaderFields -> Text]
         /\ "ScaledBorderAndShadow" \in header_flags =>
              Compatible(header, header_flags, format, standard) = header
BY DEF Compatible, Text

\* What a Format line does, of styles or events.
LEMMA FormatIInv ==
  ASSUME IInv, header' \in [HeaderFields -> Text],
         "ScaledBorderAndShadow" \in header_flags => header' = header,
         UNCHANGED <<track_type, header_flags, given, styles, default_style, events,
                     fontVars, callVars, state>>
  PROVE  IInv'
<1>1. Typed'
  <2>1. DOMAIN header' = HeaderFields
    OBVIOUS
  <2> QED BY <2>1 DEF IInv, Typed, TypeOK, FontRecord, fontVars, callVars
<1>2. Reading' /\ InOrder'
  BY FontsAlone DEF callVars
<1>3. LastDefault'
  BY StylesAlone
<1>4. ExplicitWins'
  BY DEF IInv, ExplicitWins
<1> QED BY <1>1, <1>2, <1>3, <1>4 DEF IInv

LEMMA StyleFormatIInv ==
  ASSUME IInv, NEW l \in session.lines, NEW fails \in Fails, StyleFormat(l, fails)
  PROVE  IInv'
<1>1. header \in [HeaderFields -> Text]
  BY DEF IInv, Typed
<1>2. /\ header' \in [HeaderFields -> Text]
      /\ "ScaledBorderAndShadow" \in header_flags => header' = header
  BY <1>1, CompatibleKeeps DEF StyleFormat
<1> QED BY <1>2, FormatIInv DEF StyleFormat, eventVars

LEMMA EventFormatIInv ==
  ASSUME IInv, NEW l \in session.lines, NEW fails \in Fails, EventFormat(l, fails)
  PROVE  IInv'
<1>1. header \in [HeaderFields -> Text]
  BY DEF IInv, Typed
<1>2. [header EXCEPT !.ScaledBorderAndShadow = "yes"] \in [HeaderFields -> Text]
  BY <1>1 DEF Text
<1>3. Legacy => "ScaledBorderAndShadow" \notin header_flags
  BY DEF Legacy
<1>4. /\ header' \in [HeaderFields -> Text]
      /\ "ScaledBorderAndShadow" \in header_flags => header' = header
  BY <1>1, <1>2, <1>3, CompatibleKeeps DEF EventFormat
<1> QED BY <1>4, FormatIInv DEF EventFormat, styleVars

LEMMA StyleLineIInv ==
  ASSUME IInv, NEW l \in session.lines, NEW lost \in Fails, StyleLine(l, lost)
  PROVE  IInv'
<1> DEFINE style == StyleOf(style_format', l.values, lost)
<1>1. /\ Len(styles) < session.styles
      /\ styles' = Append(styles, style)
      /\ default_style' = IF style.Name = "Default" THEN Len(styles) + 1
                                                    ELSE default_style
      /\ UNCHANGED <<headerVars, eventVars, fontVars, callVars, state>>
  BY DEF StyleLine
<1>2. style \in StyleRecord /\ DOMAIN style = {"Name", "FontName"}
  <2>1. l.values \in Seq(STRING)
    BY LineFields DEF IInv, StyleLine, Reads
  <2>2. "" \in Text /\ Missing \in Text
    BY DEF Text
  <2>3. /\ Value("Name", style_format', l.values, "") \in Text
        /\ Value("FontName", style_format', l.values, Missing) \in Text
    BY <2>1, <2>2, ValueType
  <2> QED BY <2>3 DEF StyleOf, StyleRecord, Text
<1> HIDE DEF style
<1>3. /\ styles \in Seq(StyleRecord) /\ Len(styles) \in Nat
      /\ DOMAIN styles = 1 .. Len(styles) /\ default_style \in DOMAIN styles
  BY LenProperties DEF IInv, Typed, TypeOK
<1>4. /\ styles' \in Seq(StyleRecord) /\ Len(styles') = Len(styles) + 1
      /\ DOMAIN styles' = 1 .. Len(styles) + 1
      /\ styles'[Len(styles) + 1] = style
      /\ \A i \in 1 .. Len(styles) : styles'[i] = styles[i]
  BY <1>1, <1>2, <1>3, AppendProperties, LenProperties
<1>5. default_style' \in DOMAIN styles'
  BY <1>1, <1>3, <1>4
<1>6. Typed'
  <2>1. session.styles \in Nat \ {0}
    BY ScriptAssumption DEF IInv, Typed, TypeOK
  <2>2. styles' # <<>> /\ Len(styles') <= session.styles
    BY <1>1, <1>3, <1>4, <2>1
  <2>3. \A i \in DOMAIN styles' : DOMAIN styles'[i] = {"Name", "FontName"}
    <3>1. \A i \in DOMAIN styles : DOMAIN styles[i] = {"Name", "FontName"}
      BY DEF IInv, Typed, TypeOK
    <3> QED BY <1>2, <1>3, <1>4, <3>1
  <2>4. \A i \in DOMAIN events : events[i].Style \in DOMAIN styles'
    BY <1>3, <1>4 DEF IInv, Typed, TypeOK
  <2> QED BY <1>1, <1>4, <1>5, <2>2, <2>3, <2>4
        DEF IInv, Typed, TypeOK, FontRecord, headerVars, eventVars, fontVars, callVars
<1>7. LastDefault'
  <2>1. /\ styles[default_style].Name = "Default"
        /\ \A i \in DOMAIN styles : styles[i].Name = "Default" => i <= default_style
    BY DEF IInv, LastDefault
  <2>2. styles'[default_style'].Name = "Default"
    BY <1>1, <1>3, <1>4, <2>1
  <2>3. ASSUME NEW i \in DOMAIN styles', styles'[i].Name = "Default"
        PROVE  i <= default_style'
    <3>1. CASE i = Len(styles) + 1
      BY <1>1, <1>3, <1>4, <2>3, <3>1
    <3>2. CASE i \in 1 .. Len(styles)
      BY <1>1, <1>3, <1>4, <2>1, <2>3, <3>2
    <3> QED BY <1>3, <1>4, <3>1, <3>2
  <2> QED BY <2>2, <2>3 DEF LastDefault
<1>8. Reading' /\ InOrder'
  BY <1>1, FontsAlone DEF callVars
<1>9. ExplicitWins'
  BY <1>1, HeaderAlone DEF headerVars
<1> QED BY <1>6, <1>7, <1>8, <1>9 DEF IInv

LEMMA StyleLineFailsIInv ==
  ASSUME IInv, NEW l \in session.lines, StyleLineFails(l)
  PROVE  IInv'
<1>1. UNCHANGED <<headerVars, styles, default_style, eventVars, fontVars, callVars,
                  state>>
  BY DEF StyleLineFails
<1>2. header' \in [HeaderFields -> Text]
  BY <1>1 DEF IInv, Typed, headerVars
<1> QED BY <1>1, <1>2, FormatIInv DEF headerVars, eventVars

LEMMA DialogueIInv ==
  ASSUME IInv, NEW l \in session.lines, NEW fails \in Fails, Dialogue(l, fails)
  PROVE  IInv'
<1> DEFINE event == EventOf(event_format', l.values)
<1>1. /\ Len(events) < MaxEvents
      /\ events' = events \/ events' = Append(events, event)
      /\ UNCHANGED <<headerVars, styleVars, fontVars, callVars, state>>
  BY DEF Dialogue
<1>2. /\ styles \in Seq(StyleRecord) /\ Len(styles) \in Nat
      /\ DOMAIN styles = 1 .. Len(styles) /\ default_style \in DOMAIN styles
      /\ events \in Seq([Style : Nat]) /\ Len(events) \in Nat
      /\ DOMAIN events = 1 .. Len(events) /\ MaxEvents \in Nat
  BY ScriptAssumption, LenProperties DEF IInv, Typed, TypeOK
<1>3. event \in [Style : Nat] /\ event.Style \in DOMAIN styles
  <2>1. \A name : Lookup(name) \in 1 .. Len(styles)
    BY <1>2, LookupStyle
  <2>2. 1 \in 1 .. Len(styles)
    BY <1>2
  <2>3. \E place \in 1 .. Len(styles) : event = [Style |-> place]
    <3> DEFINE head == SubSeq(event_format', 1, BeforeText(event_format'))
               name == Value("Style", head, l.values, Missing)
               place == IF name = Missing THEN 1 ELSE Lookup(name)
    <3>1. event = [Style |-> place]
      BY DEF EventOf
    <3>2. place \in 1 .. Len(styles)
      BY <2>1, <2>2
    <3> HIDE DEF event, place
    <3> QED BY <3>1, <3>2
  <2> HIDE DEF event
  <2>4. \A place \in 1 .. Len(styles) : [Style |-> place] \in [Style : Nat]
    BY <1>2
  <2> QED BY <1>2, <2>3, <2>4
<1> HIDE DEF event
<1>4. /\ events' \in Seq([Style : Nat]) /\ Len(events') <= MaxEvents
      /\ \A i \in DOMAIN events' : events'[i].Style \in DOMAIN styles
  <2>1. \A i \in DOMAIN events : events[i].Style \in DOMAIN styles
    BY DEF IInv, Typed, TypeOK
  <2>2. CASE events' = events
    BY <1>1, <1>2, <2>1, <2>2
  <2>3. CASE events' = Append(events, event)
    <3>1. /\ events' \in Seq([Style : Nat]) /\ Len(events') = Len(events) + 1
          /\ DOMAIN events' = 1 .. Len(events) + 1
          /\ events'[Len(events) + 1] = event
          /\ \A i \in 1 .. Len(events) : events'[i] = events[i]
      BY <1>2, <1>3, <2>3, AppendProperties, LenProperties
    <3>2. Len(events') <= MaxEvents
      BY <1>1, <1>2, <3>1
    <3>3. ASSUME NEW i \in DOMAIN events' PROVE events'[i].Style \in DOMAIN styles
      <4>1. CASE i = Len(events) + 1
        BY <1>3, <3>1, <4>1
      <4>2. CASE i \in 1 .. Len(events)
        BY <1>2, <2>1, <3>1, <4>2
      <4> QED BY <1>2, <3>1, <4>1, <4>2
    <3> QED BY <3>1, <3>2, <3>3
  <2> QED BY <1>1, <2>2, <2>3
<1>5. Typed'
  BY <1>1, <1>4
    DEF IInv, Typed, TypeOK, FontRecord, headerVars, styleVars, fontVars, callVars
<1>6. Reading' /\ InOrder'
  BY <1>1, FontsAlone DEF callVars
<1>7. LastDefault' /\ ExplicitWins'
  BY <1>1, StylesAlone, HeaderAlone DEF headerVars, styleVars
<1> QED BY <1>5, <1>6, <1>7 DEF IInv

-----------------------------------------------------------------------------
(* Embedded fonts                                                          *)

\* What is left to show of an action on the fonts.
LEMMA FontsOnlyIInv ==
  ASSUME IInv, UNCHANGED <<headerVars, styles, default_style, events, session, saved>>,
         state' \in States, call' \in Calls \cup {"none", "freed"},
         call' \in {"none", "freed"} => fontname' = None,
         fontname' \in Text, fontdata' \in Seq(session.lines),
         fonts' \in Seq(FontRecord), written' \in Seq(FontRecord),
         fontname' = None => fontdata' = <<>>, open' \in BOOLEAN,
         Len(fonts') <= Len(written'),
         Reading', InOrder'
  PROVE  IInv'
<1>1. Typed'
  BY DEF IInv, Typed, TypeOK, FontRecord, headerVars
<1>2. LastDefault' /\ ExplicitWins'
  BY StylesAlone, HeaderAlone DEF headerVars
<1> QED BY <1>1, <1>2 DEF IInv

\* The types of what the fonts are kept in.
LEMMA FontTypes ==
  ASSUME IInv
  PROVE  /\ fontname \in Text /\ fontdata \in Seq(session.lines)
         /\ fonts \in Seq(FontRecord) /\ written \in Seq(FontRecord)
         /\ Len(fonts) \in Nat /\ Len(written) \in Nat
         /\ DOMAIN fonts = 1 .. Len(fonts) /\ DOMAIN written = 1 .. Len(written)
         /\ Len(fonts) <= Len(written) /\ open \in BOOLEAN
         /\ open => Len(fonts) < Len(written)
         /\ fontname # None =>
              open /\ written[Len(written)] = [name |-> fontname, data |-> fontdata]
BY LenProperties DEF IInv, Typed, TypeOK, Reading

\* The end of a font, which adds it to the library or does not: the fonts stay
\* in the order of the texts, and none is in the library twice.
LEMMA DecodedInOrder ==
  ASSUME IInv, NEW fails
  PROVE  /\ Decoded(fails) \in Seq(FontRecord)
         /\ Len(Decoded(fails)) \in Nat /\ Len(Decoded(fails)) <= Len(written)
         /\ \E place \in [DOMAIN Decoded(fails) -> DOMAIN written] :
              /\ \A i \in DOMAIN Decoded(fails) : Decoded(fails)[i] = written[place[i]]
              /\ \A i, j \in DOMAIN Decoded(fails) : i < j => place[i] < place[j]
<1> DEFINE font == [name |-> fontname, data |-> fontdata]
           n == Len(fonts)
           last == Len(written)
           now == Append(fonts, font)
<1>1. PICK place : Places(place)
  BY DEF IInv, InOrder
<1>2. /\ n \in Nat /\ last \in Nat
      /\ DOMAIN fonts = 1 .. n /\ DOMAIN written = 1 .. last
      /\ n <= last /\ fonts \in Seq(FontRecord)
  BY FontTypes
<1>3. CASE Decoded(fails) = fonts
  BY <1>1, <1>2, <1>3 DEF Places
<1>4. CASE Decoded(fails) # fonts
  <2>1. fontname # None /\ Decoded(fails) = now
    BY <1>4 DEF Decoded
  <2>2. open /\ written[last] = font /\ n < last
    BY <2>1, FontTypes
  <2>3. font \in FontRecord
    BY FontTypes DEF FontRecord
  <2> HIDE DEF font
  <2>4. /\ now \in Seq(FontRecord) /\ Len(now) = n + 1 /\ DOMAIN now = 1 .. n + 1
        /\ now[n + 1] = font /\ \A i \in 1 .. n : now[i] = fonts[i]
    BY <1>2, <2>3, AppendProperties, LenProperties
  <2> HIDE DEF now, n, last
  <2> DEFINE places == [i \in 1 .. n + 1 |-> IF i = n + 1 THEN last ELSE place[i]]
  <2>5. /\ \A i \in 1 .. n : place[i] \in 1 .. last /\ place[i] < last
                             /\ fonts[i] = written[place[i]]
        /\ \A i, j \in 1 .. n : i < j => place[i] < place[j]
    BY <1>1, <1>2, <2>2 DEF Places, last
  <2>6. places \in [1 .. n + 1 -> 1 .. last]
    BY <1>2, <2>2, <2>5
  <2>7. /\ places[n + 1] = last /\ \A i \in 1 .. n : places[i] = place[i]
        /\ \A i \in 1 .. n + 1 : i = n + 1 \/ i \in 1 .. n
    BY <1>2
  <2> HIDE DEF places
  <2>8. \A i \in 1 .. n + 1 : now[i] = written[places[i]]
    BY <2>2, <2>4, <2>5, <2>7
  <2>9. ASSUME NEW i \in 1 .. n + 1, NEW j \in 1 .. n + 1, i < j
        PROVE  places[i] < places[j]
    <3>1. i \in 1 .. n
      BY <1>2, <2>9
    <3>2. CASE j = n + 1
      BY <2>5, <2>7, <3>1, <3>2
    <3>3. CASE j \in 1 .. n
      BY <2>5, <2>7, <2>9, <3>1, <3>3
    <3> QED BY <2>7, <3>2, <3>3
  <2>10. Len(now) \in Nat /\ Len(now) <= last
    BY <1>2, <2>2, <2>4
  <2> QED BY <1>2, <2>1, <2>4, <2>6, <2>8, <2>9, <2>10 DEF last
<1> QED BY <1>3, <1>4

LEMMA FontnameIInv ==
  ASSUME IInv, NEW l \in session.lines, NEW fails \in Fails, NEW lost \in Fails,
         Fontname(l, fails, lost)
  PROVE  IInv'
<1> DEFINE font == [name |-> l.name, data |-> <<>>]
           n == Len(written)
           F == Decoded(lost)
<1>1. /\ fonts' = F /\ fontname' = (IF fails THEN None ELSE l.name)
      /\ fontdata' = <<>> /\ written' = Append(written, font) /\ open' = TRUE
      /\ UNCHANGED <<headerVars, styleVars, eventVars, callVars, state>>
      /\ call \in Calls
  BY DEF Fontname, Reads, InText
<1>2. /\ written \in Seq(FontRecord) /\ n \in Nat /\ DOMAIN written = 1 .. n
  BY FontTypes
<1>3. l.name \in STRING
  BY LineFields DEF IInv, Fontname, Reads
<1>4. font \in FontRecord /\ font.name = l.name /\ font.data = <<>>
  <2>1. <<>> \in Seq(session.lines)
    BY EmptySeq
  <2> QED BY <1>3, <2>1 DEF FontRecord, Text
<1>5. font = [name |-> l.name, data |-> <<>>]
  OBVIOUS
<1> HIDE DEF font
<1>6. /\ written' \in Seq(FontRecord) /\ Len(written') = n + 1
      /\ DOMAIN written' = 1 .. n + 1 /\ written'[n + 1] = font
      /\ \A i \in 1 .. n : written'[i] = written[i]
  BY <1>1, <1>2, <1>4, AppendProperties, LenProperties
<1> HIDE DEF F, n
<1>7. /\ F \in Seq(FontRecord) /\ Len(F) \in Nat /\ Len(F) <= n
      /\ DOMAIN F = 1 .. Len(F)
  BY DecodedInOrder, LenProperties DEF F, n
<1>8. PICK place \in [DOMAIN F -> DOMAIN written] :
        /\ \A i \in DOMAIN F : F[i] = written[place[i]]
        /\ \A i, j \in DOMAIN F : i < j => place[i] < place[j]
  BY DecodedInOrder DEF F
<1>9. Len(fonts') < Len(written')
  BY <1>1, <1>2, <1>6, <1>7
<1>10. Reading'
  BY <1>1, <1>2, <1>5, <1>6, <1>9 DEF Reading
<1>11. InOrder'
  <2>1. \A i \in DOMAIN F : place[i] \in 1 .. n /\ written'[place[i]] = F[i]
    BY <1>2, <1>6, <1>8
  <2>2. place \in [DOMAIN F -> 1 .. n + 1]
    BY <1>2, <1>8
  <2>3. \A i \in DOMAIN F : place[i] < n + 1
    BY <1>2, <2>1
  <2>4. Places(place)'
    BY <1>1, <1>6, <1>8, <2>1, <2>2, <2>3 DEF Places
  <2> QED BY <2>4 DEF InOrder
<1>12. fontname' \in Text /\ fontdata' \in Seq(session.lines)
  BY <1>1, <1>3, EmptySeq DEF Text, None
<1>13. Len(fonts') <= Len(written') /\ open' \in BOOLEAN
  BY <1>1, <1>2, <1>6, <1>7
<1>14. call' \in Calls /\ "none" \notin Calls /\ "freed" \notin Calls
  BY <1>1 DEF callVars, Calls
<1>15. state' \in States
  BY <1>1 DEF IInv, Typed, TypeOK
<1> QED BY <1>1, <1>6, <1>7, <1>10, <1>11, <1>12, <1>13, <1>14, <1>15, FontsOnlyIInv
      DEF headerVars, styleVars, eventVars, callVars

LEMMA FontDataIInv ==
  ASSUME IInv, NEW l \in session.lines, NEW fails \in Fails, FontData(l, fails)
  PROVE  IInv'
<1> DEFINE n == Len(written)
           new == [name |-> written[n].name, data |-> Append(written[n].data, l)]
<1>1. /\ fontname' = (IF fails THEN None ELSE fontname)
      /\ fontdata' = (IF fails \/ fontname = None THEN <<>> ELSE Append(fontdata, l))
      /\ UNCHANGED <<headerVars, styleVars, eventVars, callVars, state, fonts, open>>
      /\ call \in Calls
  BY DEF FontData, InText
<1>2. /\ written \in Seq(FontRecord) /\ n \in Nat /\ DOMAIN written = 1 .. n
      /\ Len(fonts) \in Nat /\ DOMAIN fonts = 1 .. Len(fonts) /\ Len(fonts) <= n
      /\ open => Len(fonts) < n
  BY FontTypes
<1>3. /\ written' \in Seq(FontRecord) /\ Len(written') = n /\ DOMAIN written' = 1 .. n
      /\ \A i \in 1 .. n : (i = n /\ open) \/ written'[i] = written[i]
      /\ open => written'[n] = new
  <2>1. CASE ~open
    BY <1>2, <2>1 DEF FontData
  <2>2. CASE open
    <3>1. n \in 1 .. n /\ written[n] \in FontRecord
      BY <1>2, <2>2, ElementOfSeq
    <3>2. new \in FontRecord
      <4>1. written[n].name \in Text /\ written[n].data \in Seq(session.lines)
        BY <3>1 DEF FontRecord
      <4>2. Append(written[n].data, l) \in Seq(session.lines)
        BY <4>1, AppendProperties
      <4> QED BY <4>1, <4>2 DEF FontRecord
    <3>3. [written[n] EXCEPT !.data = Append(@, l)] = new
      BY <3>1 DEF FontRecord
    <3>4. written' = [written EXCEPT ![n] = new]
      BY <2>2, <3>3 DEF FontData
    <3> HIDE DEF new
    <3>5. /\ written' \in Seq(FontRecord) /\ Len(written') = n
          /\ \A i \in 1 .. n : written'[i] = IF i = n THEN new ELSE written[i]
      BY <1>2, <3>1, <3>2, <3>4, ExceptSeq
    <3> QED BY <1>2, <2>2, <3>1, <3>5, LenProperties
  <2> QED BY <2>1, <2>2
<1>4. Reading'
  <2>1. Len(fonts') = Len(fonts) /\ open' = open
    BY <1>1
  <2>2. ASSUME fontname' # None
        PROVE  open' /\ written'[n] = [name |-> fontname', data |-> fontdata']
    <3>1. /\ fontname' = fontname /\ fontname # None
          /\ fontdata' = Append(fontdata, l)
      BY <1>1, <2>2
    <3>2. open /\ written[n] = [name |-> fontname, data |-> fontdata]
      BY <3>1, FontTypes
    <3>3. new = [name |-> fontname, data |-> fontdata']
      BY <3>1, <3>2
    <3> HIDE DEF n, new
    <3> QED BY <1>3, <2>1, <3>1, <3>2, <3>3
  <2> HIDE DEF n
  <2> QED BY <1>2, <1>3, <2>1, <2>2 DEF Reading
<1>5. InOrder'
  <2>1. PICK place : Places(place)
    BY DEF IInv, InOrder
  <2>2. ASSUME NEW i \in DOMAIN fonts PROVE fonts[i] = written'[place[i]]
    <3>1. place[i] \in 1 .. n /\ fonts[i] = written[place[i]] /\ (open => place[i] < n)
      BY <1>2, <2>1 DEF Places
    <3> HIDE DEF n, new
    <3> QED BY <1>2, <1>3, <3>1
  <2>3. Places(place)'
    BY <1>1, <1>2, <1>3, <2>1, <2>2 DEF Places
  <2> QED BY <2>3 DEF InOrder
<1> HIDE DEF n, new
<1>6. fontname' \in Text /\ fontdata' \in Seq(session.lines)
  <2>1. Append(fontdata, l) \in Seq(session.lines)
    BY FontTypes, AppendProperties
  <2> QED BY <1>1, <2>1, FontTypes, EmptySeq DEF Text, None
<1>7. fonts' \in Seq(FontRecord) /\ Len(fonts') <= Len(written') /\ open' \in BOOLEAN
  BY <1>1, <1>2, <1>3, FontTypes
<1>8. fontname' = None => fontdata' = <<>>
  BY <1>1
<1>9. call' \in Calls /\ "none" \notin Calls /\ "freed" \notin Calls
  BY <1>1 DEF callVars, Calls
<1>10. state' \in States
  BY <1>1 DEF IInv, Typed, TypeOK
<1> QED BY <1>1, <1>3, <1>4, <1>5, <1>6, <1>7, <1>8, <1>9, <1>10, FontsOnlyIInv
      DEF headerVars, styleVars, eventVars, callVars

-----------------------------------------------------------------------------
(* Calls                                                                   *)

LEMMA BeginIInv ==
  ASSUME IInv, NEW c \in session.calls, Begin(c)
  PROVE  IInv'
<1>1. /\ call' \in Calls /\ saved' \in States /\ state' \in States
      /\ UNCHANGED <<session, headerVars, styleVars, eventVars, fontVars>>
  BY LineFields, ScriptAssumption DEF Begin, IInv, Typed, TypeOK, States
<1>2. call = "none" /\ "none" \notin Calls /\ "freed" \notin Calls
  BY DEF Begin, Calls
<1>3. Typed'
  BY <1>1, <1>2 DEF IInv, Typed, TypeOK, FontRecord, headerVars, styleVars, eventVars,
                    fontVars
<1>4. Reading' /\ InOrder'
  BY <1>1, FontsAlone
<1>5. LastDefault' /\ ExplicitWins'
  BY <1>1, StylesAlone, HeaderAlone DEF headerVars, styleVars
<1> QED BY <1>3, <1>4, <1>5 DEF IInv

\* What the end of a call may do to styles and header.
Kept ==
  /\ header' \in [HeaderFields -> Text] /\ given' \in Text
  /\ styles' \in Seq(StyleRecord) /\ Len(styles') = Len(styles)
  /\ \A i \in DOMAIN styles' : DOMAIN styles'[i] = {"Name", "FontName"}
  /\ LastDefault' /\ ExplicitWins'

LEMMA NothingForced ==
  ASSUME IInv, UNCHANGED <<header_flags, header, given, styles, default_style>>
  PROVE  Kept
<1>1. LastDefault' /\ ExplicitWins'
  BY StylesAlone, HeaderAlone
<1> QED BY <1>1 DEF Kept, IInv, Typed, TypeOK

\* ass_process_force_style: an override changes the header and what the header
\* was given alike, and of a style no more than its font here.
LEMMA ForceKeeps ==
  ASSUME IInv, ForceStyle, UNCHANGED <<header_flags, default_style>>
  PROVE  Kept
<1> DEFINE n == Len(styles)
           font(i) == Override({AnyStyle, styles[i].Name}, "FontName",
                               styles[i].FontName)
           new(i) == [Name |-> styles[i].Name, FontName |-> font(i)]
<1>1. /\ styles \in Seq(StyleRecord) /\ n \in Nat /\ DOMAIN styles = 1 .. n
      /\ header \in [HeaderFields -> Text] /\ given \in Text
      /\ default_style \in DOMAIN styles
  BY LenProperties DEF IInv, Typed, TypeOK
<1>2. header' \in [HeaderFields -> Text] /\ given' \in Text
  <2>1. \A f \in HeaderFields : Override({AnyStyle}, f, header[f]) \in Text
    BY <1>1, OverrideType
  <2>2. Override({AnyStyle}, "ScaledBorderAndShadow", given) \in Text
    BY <1>1, OverrideType
  <2> QED BY <2>1, <2>2 DEF ForceStyle
<1>3. ASSUME NEW i \in 1 .. n
      PROVE  /\ new(i) \in StyleRecord
             /\ styles'[i] = new(i)
  <2>1. /\ styles[i] \in StyleRecord
        /\ styles[i].Name \in Text /\ styles[i].FontName \in Text
    <3>1. styles[i] \in StyleRecord
      BY <1>1, ElementOfSeq
    <3> QED BY <3>1 DEF StyleRecord
  <2>2. font(i) \in Text
    BY <2>1, OverrideType
  <2>3. [styles[i] EXCEPT !.FontName = font(i)] = new(i)
    <3> HIDE DEF font
    <3> QED BY <2>1 DEF StyleRecord
  <2>4. styles'[i] = [styles[i] EXCEPT !.FontName = font(i)]
    BY <1>1 DEF ForceStyle
  <2>5. new(i) \in StyleRecord
    <3> HIDE DEF font
    <3> QED BY <2>1, <2>2 DEF StyleRecord
  <2> QED BY <2>3, <2>4, <2>5
<1>4. styles' = [i \in 1 .. n |-> styles'[i]]
  BY <1>1 DEF ForceStyle
<1>5. styles' \in Seq(StyleRecord) /\ Len(styles') = n /\ DOMAIN styles' = 1 .. n
  <2>1. styles' \in [1 .. n -> StyleRecord]
    <3> HIDE DEF new
    <3> QED BY <1>3, <1>4
  <2>2. styles' \in Seq(StyleRecord)
    BY <1>1, <2>1, SeqDef
  <2> QED BY <1>1, <2>1, <2>2, LenProperties
<1>6. \A i \in 1 .. n : styles'[i].Name = styles[i].Name
                        /\ DOMAIN styles'[i] = {"Name", "FontName"}
  <2> SUFFICES ASSUME NEW i \in 1 .. n
               PROVE  /\ styles'[i].Name = styles[i].Name
                      /\ DOMAIN styles'[i] = {"Name", "FontName"}
    OBVIOUS
  <2>1. styles'[i] = new(i)
    BY <1>3
  <2> HIDE DEF font
  <2> QED BY <2>1
<1>7. LastDefault'
  BY <1>1, <1>5, <1>6 DEF IInv, LastDefault
<1>8. ExplicitWins'
  <2>1. header'.ScaledBorderAndShadow =
          Override({AnyStyle}, "ScaledBorderAndShadow", header.ScaledBorderAndShadow)
    BY DEF ForceStyle, HeaderFields
  <2> QED BY <2>1 DEF ForceStyle, IInv, ExplicitWins
<1> QED BY <1>2, <1>5, <1>6, <1>7, <1>8 DEF Kept

LEMMA EndIInv ==
  ASSUME IInv, NEW fails, EndText(fails), Kept,
         UNCHANGED <<track_type, header_flags, default_style, events>>,
         state' \in States, saved' \in States, call' \in {"none", "freed"}
  PROVE  IInv'
<1> DEFINE F == Decoded(fails)
<1>1. /\ fonts' = F /\ fontname' = None /\ fontdata' = <<>> /\ open' = FALSE
      /\ written' = written /\ session' = session
  BY DEF EndText
<1>2. F \in Seq(FontRecord) /\ Len(F) <= Len(written)
  BY DecodedInOrder
<1>3. InOrder'
  <2>1. PICK place \in [DOMAIN F -> DOMAIN written] :
          /\ \A i \in DOMAIN F : F[i] = written[place[i]]
          /\ \A i, j \in DOMAIN F : i < j => place[i] < place[j]
    BY DecodedInOrder
  <2> HIDE DEF F
  <2>2. Places(place)'
    BY <1>1, <2>1 DEF Places
  <2> QED BY <2>2 DEF InOrder
<1> HIDE DEF F
<1>4. Reading'
  BY <1>1 DEF Reading
<1>5. fontname' \in Text /\ fontdata' \in Seq(session.lines)
  BY <1>1, EmptySeq DEF Text, None
<1>6. /\ styles' # <<>> /\ Len(styles') <= session.styles
      /\ DOMAIN styles' = DOMAIN styles
  <2>1. /\ styles \in Seq(StyleRecord) /\ styles # <<>> /\ Len(styles) <= session.styles
    BY DEF IInv, Typed, TypeOK
  <2>2. styles' \in Seq(StyleRecord) /\ Len(styles') = Len(styles)
    BY DEF Kept
  <2> QED BY <2>1, <2>2, LenProperties, EmptySeq
<1>7. DOMAIN header' = HeaderFields
  BY DEF Kept
<1>8. Typed'
  BY <1>1, <1>2, <1>5, <1>6, <1>7 DEF IInv, Typed, TypeOK, FontRecord, Kept
<1> QED BY <1>3, <1>4, <1>8 DEF IInv, Kept

LEMMA EndDataIInv ==
  ASSUME IInv, NEW fails, EndData(fails)
  PROVE  IInv'
<1>1. Kept
  BY NothingForced DEF EndData, headerVars, styleVars
<1>2. state' \in States /\ saved' \in States
  BY DEF EndData, IInv, Typed, TypeOK
<1> QED BY <1>1, <1>2, EndIInv DEF EndData, headerVars, styleVars, eventVars

LEMMA EndPrivateIInv ==
  ASSUME IInv, NEW fails, NEW lost, EndPrivate(fails, lost)
  PROVE  IInv'
<1>1. Kept
  BY ForceKeeps DEF EndPrivate
<1>2. state' \in States /\ saved' \in States
  BY DEF EndPrivate, IInv, Typed, TypeOK, States
<1> QED BY <1>1, <1>2, EndIInv DEF EndPrivate

LEMMA EndMemoryIInv ==
  ASSUME IInv, NEW fails, EndMemory(fails)
  PROVE  IInv'
<1>1. Kept
  BY ForceKeeps, NothingForced DEF EndMemory
<1>2. state' \in States /\ saved' \in States
  BY DEF EndMemory, IInv, Typed, TypeOK
<1> QED BY <1>1, <1>2, EndIInv DEF EndMemory, eventVars

LEMMA EndStylesIInv ==
  ASSUME IInv, NEW fails, EndStyles(fails)
  PROVE  IInv'
<1>1. Kept
  BY NothingForced DEF EndStyles, headerVars, styleVars
<1>2. state' \in States /\ saved' \in States
  BY DEF EndStyles, IInv, Typed, TypeOK, States
<1> QED BY <1>1, <1>2, EndIInv DEF EndStyles, headerVars, styleVars, eventVars

LEMMA ForceNowIInv ==
  ASSUME IInv, ForceNow
  PROVE  IInv'
<1>1. Kept
  BY ForceKeeps DEF ForceNow
<1>2. styles' # <<>> /\ DOMAIN styles' = DOMAIN styles
  <2>1. styles \in Seq(StyleRecord) /\ styles # <<>>
    BY DEF IInv, Typed, TypeOK
  <2>2. styles' \in Seq(StyleRecord) /\ Len(styles') = Len(styles)
    BY <1>1 DEF Kept
  <2> QED BY <2>1, <2>2, LenProperties, EmptySeq
<1>3. DOMAIN header' = HeaderFields
  BY <1>1 DEF Kept
<1>4. Typed'
  BY <1>1, <1>2, <1>3
    DEF ForceNow, IInv, Typed, TypeOK, FontRecord, Kept, eventVars, fontVars, callVars
<1>5. Reading' /\ InOrder'
  BY FontsAlone DEF ForceNow, callVars
<1> QED BY <1>1, <1>4, <1>5 DEF IInv, Kept

-----------------------------------------------------------------------------
(* The theorems                                                            *)

LEMMA NextIInv == IInv /\ [Next]_vars => IInv'
<1> SUFFICES ASSUME IInv, [Next]_vars PROVE IInv'
  OBVIOUS
<1>1. ASSUME NEW l \in session.lines, Line(l) PROVE IInv'
  <2>1. CASE Section(l)
    BY <2>1, SectionIInv
  <2>2. CASE InfoLine(l)
    BY <2>2, InfoLineIInv
  <2>3. CASE StyleLineFails(l)
    BY <2>3, StyleLineFailsIInv
  <2>4. ASSUME NEW fails \in Fails,
               \/ StyleFormat(l, fails) \/ EventFormat(l, fails)
               \/ StyleLine(l, fails) \/ Dialogue(l, fails) \/ FontData(l, fails)
        PROVE  IInv'
    BY <2>4, StyleFormatIInv, EventFormatIInv, StyleLineIInv, DialogueIInv, FontDataIInv
  <2>5. ASSUME NEW fails \in Fails, NEW lost \in Fails, Fontname(l, fails, lost)
        PROVE  IInv'
    BY <2>5, FontnameIInv
  <2> QED BY <1>1, <2>1, <2>2, <2>3, <2>4, <2>5, Zenon DEF Line
<1>2. ASSUME NEW c \in session.calls, Begin(c) PROVE IInv'
  BY <1>2, BeginIInv
<1>3. ASSUME NEW fails \in Fails,
             EndData(fails) \/ EndMemory(fails) \/ EndStyles(fails)
      PROVE  IInv'
  BY <1>3, EndDataIInv, EndMemoryIInv, EndStylesIInv
<1>4. ASSUME NEW fails \in Fails, NEW lost \in Fails, EndPrivate(fails, lost)
      PROVE  IInv'
  BY <1>4, EndPrivateIInv
<1>5. CASE ForceNow
  BY <1>5, ForceNowIInv
<1>6. CASE UNCHANGED vars
  <2>1. UNCHANGED <<headerVars, styleVars, eventVars, fontVars, callVars, state>>
    BY <1>6 DEF vars
  <2>2. header' \in [HeaderFields -> Text]
    BY <2>1 DEF IInv, Typed, headerVars
  <2> QED BY <2>1, <2>2, FormatIInv DEF headerVars, styleVars, eventVars
<1> QED BY <1>1, <1>2, <1>3, <1>4, <1>5, <1>6, Zenon DEF Next

\* In every state of every sequence of calls, for any scripts and overrides, the
\* invariant holds.
THEOREM Invariance == Spec => []IInv
<1> QED BY InitIInv, NextIInv, PTL DEF Spec

\* What a script says of ScaledBorderAndShadow is never overridden by a guess
\* from its format lines or its header (custom_format_line_compatibility,
\* detect_legacy_conv_subs).
THEOREM SaidStands == Spec => []ExplicitWins
<1>1. IInv => ExplicitWins
  BY DEF IInv
<1> QED BY <1>1, Invariance, PTL

\* The default style is always the one that an event asking for Default gets,
\* every event has a style that is there, and no font is open between texts,
\* wherever memory ran out (process_style, ass_lookup_style, process_text).
THEOREM DefaultIsFound == Spec => []DefaultIsLast
<1>1. IInv => DefaultIsLast
  BY LookupStyle DEF IInv, Typed, TypeOK, DefaultIsLast
<1> QED BY <1>1, Invariance, PTL

\* The library's fonts are fonts of the script in its order, each whole and none
\* of them twice, however many texts there are (process_fonts_line, decode_font).
THEOREM FontsAreWhole == Spec => []FontsIntact
<1>1. IInv => FontsIntact
  BY DEF IInv, InOrder, Places, FontsIntact
<1> QED BY <1>1, Invariance, PTL
===============================================================================
