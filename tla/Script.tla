------------------------------- MODULE Script --------------------------------
(***************************************************************************)
(* libass/ass.c: the script parser.  A text is read line by line; what a   *)
(* line means depends on the section it stands in, on the format lines and *)
(* on the header read before it, and a track may be given several texts    *)
(* (ass_process_data, ass_process_codec_private, ass_read_styles).         *)
(*                                                                         *)
(* A line is a record whose kind says what its beginning is.  A format is  *)
(* the sequence of its field names, aliases resolved; a Style or Dialogue  *)
(* line is the sequence of its values.  Of a style its name and font are   *)
(* kept, of an event its style; ReadOrders and times are in Track.  Every  *)
(* other value is copied by the code as these are.                         *)
(***************************************************************************)
EXTENDS Integers, Sequences, SequencesExt

CONSTANTS
  Sessions,           \* what a behaviour is about: [lines, calls, styles], the
                      \* lines of its texts, its calls, a bound on the styles
  ass_style_format, ssa_style_format, ass_event_format, ssa_event_format,
  Overrides,          \* ass_library->style_overrides, each [style, field, value]
  DefaultLike,        \* the names that begin with Default
  MaxEvents,
  MaxFonts, MaxData,  \* bounds on fontname lines, and on data lines of one
  MayFail             \* may memory run out?

HeaderFields == {"PlayResX", "PlayResY", "ScaledBorderAndShadow"}
NULL == <<>>                   \* no format
None == ""                     \* no font name
AnyStyle == "(any)"            \* an override without a style name
Missing == "(missing)"         \* a value that a line does not have

VARIABLES
  session,            \* (does not change)
  call,               \* the call in progress, "none", or "freed"
  saved,              \* old_state of ass_read_styles
  state,              \* parser_priv->state
  track_type,
  header_flags,       \* the info lines seen
  header,             \* PlayResX, ...
  style_format, styles, default_style,
  event_format, events,
  fontname, fontdata, \* the embedded font being read
  fonts,              \* the library's fonts
  given,              \* history: ScaledBorderAndShadow as last stated, or "no"
  written, open       \* history: the fonts as the texts have them; is the last
                      \* of them in the present text?

headerVars == <<track_type, header_flags, header, given>>
styleVars  == <<style_format, styles, default_style>>
eventVars  == <<event_format, events>>
fontVars   == <<fontname, fontdata, fonts, written, open>>
callVars   == <<session, call, saved>>
vars == <<headerVars, styleVars, eventVars, fontVars, callVars, state>>

Calls  == {"memory", "data", "private", "styles"}
States == {"UNKNOWN", "INFO", "STYLES", "EVENTS", "FONTS"}
Types  == {"UNKNOWN", "SSA", "ASS"}
InfoFields == HeaderFields \cup {"ScriptType", "GENBY_FFMPEG", "Other"}

\* What lines there are of each kind.
ASSUME ScriptAssumption ==
  /\ \A s \in Sessions :
       /\ s.calls \subseteq Calls /\ s.styles \in Nat \ {0}
       /\ \A l \in s.lines :
            /\ l.kind = "Section" =>
                 l.state \in States /\ (l.state = "STYLES" => l.type \in Types)
            /\ l.kind = "Info" => l.field \in InfoFields /\ l.value \in STRING
            /\ l.kind = "Style" => l.values \in Seq(STRING)
            /\ l.kind = "Fontname" => l.name \in STRING
  /\ Overrides \in Seq([style : STRING, field : STRING, value : STRING])
  /\ "Default" \in DefaultLike
  /\ MaxEvents \in Nat

TypeOK ==
  /\ session \in Sessions
  /\ call \in Calls \cup {"none", "freed"}
  /\ saved \in States /\ state \in States
  /\ track_type \in Types
  /\ header_flags \subseteq InfoFields
  /\ DOMAIN header = HeaderFields
  /\ styles # <<>> /\ Len(styles) <= session.styles
  /\ \A i \in DOMAIN styles : DOMAIN styles[i] = {"Name", "FontName"}
  /\ default_style \in DOMAIN styles
  /\ Len(events) <= MaxEvents
  /\ \A i \in DOMAIN events : events[i].Style \in DOMAIN styles
  /\ fontname = None => fontdata = <<>>
  /\ call \in {"none", "freed"} => fontname = None
  /\ open \in BOOLEAN
  /\ Len(fonts) <= Len(written)

Fails == IF MayFail THEN BOOLEAN ELSE {FALSE}

\* ass_new_track, by the caller or by parse_memory
Init ==
  /\ session \in Sessions
  /\ call \in {"none"} \cup ({"memory"} \cap session.calls)
  /\ saved = "UNKNOWN" /\ state = "UNKNOWN"
  /\ track_type = "UNKNOWN" /\ header_flags = {}
  /\ header = [f \in HeaderFields |-> IF f = "ScaledBorderAndShadow" THEN "no" ELSE "0"]
  /\ style_format = NULL /\ event_format = NULL
  /\ styles = <<[Name |-> "Default", FontName |-> "Arial"]>> /\ default_style = 1
  /\ events = <<>>
  /\ fontname = None /\ fontdata = <<>> /\ fonts = <<>>
  /\ given = "no" /\ written = <<>> /\ open = FALSE

InText == call \in Calls
Reads(l, kind, section) == InText /\ l.kind = kind /\ state = section

-----------------------------------------------------------------------------
(* Sections and header lines                                               *)

\* process_line: a section header is one in whatever section it stands.
Section(l) ==
  /\ InText /\ l.kind = "Section"
  /\ state' = l.state
  /\ track_type' = IF l.state = "STYLES" THEN l.type ELSE track_type
  /\ UNCHANGED <<header_flags, header, given, styleVars, eventVars, fontVars,
                 callVars>>

\* process_info_line, with check_duplicate_info_line and parse_script_type: a
\* repeated line overwrites; a script type that is not known is passed over.
InfoLine(l) ==
  /\ Reads(l, "Info", "INFO")
  /\ header_flags' = header_flags \cup {l.field}
  /\ header' = IF l.field \in HeaderFields THEN [header EXCEPT ![l.field] = l.value]
                                           ELSE header
  /\ track_type' = IF l.field = "ScriptType" /\ l.value \in {"SSA", "ASS"}
                     THEN l.value ELSE track_type
  /\ given' = IF l.field = "ScaledBorderAndShadow" THEN l.value ELSE given
  /\ UNCHANGED <<styleVars, eventVars, fontVars, callVars, state>>

-----------------------------------------------------------------------------
(* Format lines                                                            *)

Standard(section, type) ==
  IF section = "STYLES"
    THEN IF type = "ASS" THEN ass_style_format ELSE ssa_style_format
    ELSE IF type = "ASS" THEN ass_event_format ELSE ssa_event_format

\* (Mutant: the header line does not count.)
Compatible_always(h, flags, format, standard) ==
  IF format # standard THEN [h EXCEPT !.ScaledBorderAndShadow = "yes"] ELSE h

\* custom_format_line_compatibility, with format_line_compare
Compatible(h, flags, format, standard) ==
  IF "ScaledBorderAndShadow" \notin flags /\ format # standard
    THEN [h EXCEPT !.ScaledBorderAndShadow = "yes"] ELSE h

\* detect_legacy_conv_subs
Legacy ==
  /\ header_flags = {"ScriptType", "PlayResX", "PlayResY", "GENBY_FFMPEG"}
  /\ Len(styles) = 2 /\ styles[2].Name \in DefaultLike

\* process_styles_line.  When the copy of the format fails there is none.
StyleFormat(l, fails) ==
  /\ Reads(l, "Format", "STYLES")
  /\ style_format' = IF fails THEN NULL ELSE l.fields
  /\ header' = IF fails THEN header
               ELSE Compatible(header, header_flags, l.fields, Standard("STYLES", track_type))
  /\ UNCHANGED <<track_type, header_flags, given, styles, default_style,
                 eventVars, fontVars, callVars, state>>

\* process_events_line: as for styles; a track that an old ffmpeg made is told
\* by its header and its styles.
EventFormat(l, fails) ==
  /\ Reads(l, "Format", "EVENTS")
  /\ event_format' = IF fails THEN NULL ELSE l.fields
  /\ header' = IF fails THEN header
               ELSE IF Legacy THEN [header EXCEPT !.ScaledBorderAndShadow = "yes"]
               ELSE Compatible(header, header_flags, l.fields, Standard("EVENTS", track_type))
  /\ UNCHANGED <<track_type, header_flags, given, events, styleVars, fontVars,
                 callVars, state>>

-----------------------------------------------------------------------------
(* Style and Dialogue lines                                                *)

\* The NEXTNAME, NEXTVAL loops: the value of a field is the one that stands in
\* its place, or what it was before when the values or the fields run out.
Value(field, format, values, before) ==
  LET places == {i \in DOMAIN format \cap DOMAIN values : format[i] = field}
  IN  IF places = {} THEN before
      ELSE values[CHOOSE i \in places : \A j \in places : j <= i]

\* ass_lookup_style: the last style of that name, or the default style.
Lookup(name) ==
  LET wanted == IF name = "default" THEN "Default" ELSE name
      found  == {i \in DOMAIN styles : styles[i].Name = wanted}
  IN  IF found = {} THEN default_style ELSE CHOOSE i \in found : \A j \in found : j <= i

\* The style that process_style makes of a line, defaults filled in.
StyleOf(format, values, lost) ==
  LET name == Value("Name", format, values, "")
      font == Value("FontName", format, values, Missing)
  IN  [Name |-> IF name = "" THEN "Default" ELSE name,
       FontName |-> IF font = Missing \/ lost THEN "Arial" ELSE font]

\* The format that a Style line is read by: the standard one of the track's
\* type if there was no Format line, from then on.
StyleFormatUsed == IF style_format = NULL THEN Standard("STYLES", track_type)
                                          ELSE style_format

\* process_style.  The font's name alone may be lost.
StyleLine(l, lost) ==
  /\ Reads(l, "Style", "STYLES") /\ Len(styles) < session.styles
  /\ style_format' = StyleFormatUsed
  /\ \E style \in {StyleOf(style_format', l.values, lost)} :
       /\ styles' = Append(styles, style)
       /\ default_style' = IF style.Name = "Default" THEN Len(styles) + 1 ELSE default_style
  /\ UNCHANGED <<headerVars, eventVars, fontVars, callVars, state>>

\* (Mutant: a style that is dropped again has become the default.)
StyleLineFails_default(l) ==
  /\ MayFail /\ Reads(l, "Style", "STYLES") /\ Len(styles) < session.styles
  /\ style_format' \in {style_format, StyleFormatUsed}
  /\ default_style' = IF StyleOf(StyleFormatUsed, l.values, FALSE).Name = "Default"
                        THEN Len(styles) + 1 ELSE default_style
  /\ UNCHANGED <<headerVars, styles, eventVars, fontVars, callVars, state>>

\* process_style, when memory runs out: before the standard format is copied,
\* or later, when the new style is taken away again.
StyleLineFails(l) ==
  /\ MayFail /\ Reads(l, "Style", "STYLES") /\ Len(styles) < session.styles
  /\ style_format' \in {style_format, StyleFormatUsed}
  /\ UNCHANGED <<headerVars, styles, default_style, eventVars, fontVars,
                 callVars, state>>

\* A Dialogue line is an event when its format names Text and its values reach
\* that far.  The fields before Text count.
Complete(format, values) ==
  \E t \in DOMAIN format : format[t] = "Text" /\ Len(values) >= t - 1
BeforeText(format) ==
  SelectInSeq(format, LAMBDA f : f = "Text") - 1

\* process_event_tail.  An event whose line does not reach its style has the
\* track's first; an empty name is looked up.
EventOf(format, values) ==
  LET head == SubSeq(format, 1, BeforeText(format))
      name == Value("Style", head, values, Missing)
  IN  [Style |-> IF name = Missing THEN 1 ELSE Lookup(name)]

EventFormatUsed == IF event_format = NULL THEN Standard("EVENTS", track_type)
                                          ELSE event_format

\* process_events_line: a line that is not complete, or that memory runs out
\* for, leaves no event behind.
Dialogue(l, fails) ==
  /\ Reads(l, "Dialogue", "EVENTS") /\ Len(events) < MaxEvents
  /\ event_format' \in {EventFormatUsed} \cup IF fails THEN {event_format} ELSE {}
  /\ events' = IF fails \/ ~Complete(event_format', l.values) THEN events
               ELSE Append(events, EventOf(event_format', l.values))
  /\ UNCHANGED <<headerVars, styleVars, fontVars, callVars, state>>

-----------------------------------------------------------------------------
(* Embedded fonts                                                          *)

Encoded(data) == FoldSeq(LAMBDA l, n : n + l.len, 0, data)

\* decode_font and ass_add_font: the font, if it can be one.  It fails also
\* when the library does not want fonts (extract_fonts, which may be set anew
\* between any two calls).
Decoded(fails) ==
  IF fontname = None \/ fails \/ fontdata = <<>>
     \/ Encoded(fontdata) % 4 = 1
    THEN fonts
    ELSE Append(fonts, [name |-> fontname, data |-> fontdata])

\* process_fonts_line: a new font ends the one before it.
Fontname(l, fails, lost) ==
  /\ Reads(l, "Fontname", "FONTS") /\ Len(written) < MaxFonts
  /\ fonts' = Decoded(lost)
  /\ fontname' = IF fails THEN None ELSE l.name
  /\ fontdata' = <<>>
  /\ written' = Append(written, [name |-> l.name, data |-> <<>>]) /\ open' = TRUE
  /\ UNCHANGED <<headerVars, styleVars, eventVars, callVars, state>>

\* (Mutant: the font goes on after a line that there was no memory for.)
FontData_goes_on(l, fails) ==
  /\ InText /\ state = "FONTS" /\ l.kind \notin {"Section", "Fontname"}
  /\ open => Len(written[Len(written)].data) < MaxData
  /\ fontname' = fontname
  /\ fontdata' = IF fails \/ fontname = None THEN fontdata ELSE Append(fontdata, l)
  /\ written' = IF open THEN [written EXCEPT ![Len(written)].data = Append(@, l)]
                        ELSE written
  /\ UNCHANGED <<headerVars, styleVars, eventVars, callVars, state, fonts, open>>

\* process_fonts_line: any other line is data of the font that is open.  When
\* it cannot be stored the whole font is given up.
FontData(l, fails) ==
  /\ InText /\ state = "FONTS" /\ l.kind \notin {"Section", "Fontname"}
  /\ open => Len(written[Len(written)].data) < MaxData
  /\ fontname' = IF fails THEN None ELSE fontname
  /\ fontdata' = IF fails \/ fontname = None THEN <<>> ELSE Append(fontdata, l)
  /\ written' = IF open THEN [written EXCEPT ![Len(written)].data = Append(@, l)]
                        ELSE written
  /\ UNCHANGED <<headerVars, styleVars, eventVars, callVars, state, fonts, open>>

-----------------------------------------------------------------------------
(* Calls                                                                   *)

\* The last override of a field that applies.
Override(styles_named, field, before) ==
  LET applying == {i \in DOMAIN Overrides : Overrides[i].field = field
                                            /\ Overrides[i].style \in styles_named}
  IN  IF applying = {} THEN before
      ELSE Overrides[CHOOSE i \in applying : \A j \in applying : j <= i].value

\* ass_process_force_style
ForceStyle ==
  /\ header' = [f \in HeaderFields |-> Override({AnyStyle}, f, header[f])]
  /\ given' = Override({AnyStyle}, "ScaledBorderAndShadow", given)
  /\ styles' = [i \in DOMAIN styles |-> [styles[i] EXCEPT
       !.FontName = Override({AnyStyle, styles[i].Name}, "FontName", @)]]

\* A call begins; ass_read_styles starts among the styles.
Begin(c) ==
  /\ call = "none" /\ c # "memory"
  /\ call' = c
  /\ IF c = "styles" THEN saved' = state /\ state' = "STYLES"
                     ELSE UNCHANGED <<saved, state>>
  /\ UNCHANGED <<session, headerVars, styleVars, eventVars,
                 fontVars>>

\* The end of process_text: there is no end-of-font marker.
EndText(fails) ==
  /\ fonts' = Decoded(fails) /\ fontname' = None /\ fontdata' = <<>>
  /\ open' = FALSE
  /\ UNCHANGED <<written, session>>

\* ass_process_data
EndData(fails) ==
  /\ call = "data" /\ EndText(fails)
  /\ call' = "none"
  /\ UNCHANGED <<headerVars, styleVars, eventVars, state, saved>>

\* ass_process_codec_private: a header without event format gets the standard
\* one (event_format_fallback), and the parser is among the events then.
EndPrivate(fails, lost) ==
  /\ call = "private" /\ EndText(fails)
  /\ call' = "none"
  /\ state' = IF event_format = NULL THEN "EVENTS" ELSE state
  /\ event_format' = IF lost THEN event_format ELSE EventFormatUsed
  /\ ForceStyle
  /\ UNCHANGED <<track_type, header_flags, style_format, default_style, events, saved>>

\* parse_memory: a script whose type did not show is given up.
EndMemory(fails) ==
  /\ call = "memory" /\ EndText(fails)
  /\ IF track_type = "UNKNOWN" THEN call' = "freed" /\ UNCHANGED <<header, given, styles>>
                               ELSE call' = "none" /\ ForceStyle
  /\ UNCHANGED <<track_type, header_flags, style_format, default_style,
                 eventVars, state, saved>>

\* ass_read_styles
EndStyles(fails) ==
  /\ call = "styles" /\ EndText(fails)
  /\ call' = "none"
  /\ state' = saved /\ saved' = "UNKNOWN"
  /\ UNCHANGED <<headerVars, styleVars, eventVars>>

\* ass_process_force_style, called by the player
ForceNow ==
  /\ call = "none" /\ ForceStyle
  /\ UNCHANGED <<track_type, header_flags, style_format, default_style,
                 eventVars, fontVars, callVars, state>>

Line(l) ==
  \/ Section(l)
  \/ InfoLine(l)
  \/ \E fails \in Fails :
       \/ StyleFormat(l, fails) \/ EventFormat(l, fails)
       \/ StyleLine(l, fails) \/ Dialogue(l, fails) \/ FontData(l, fails)
       \/ \E lost \in Fails : Fontname(l, fails, lost)
  \/ StyleLineFails(l)

Next ==
  \/ \E l \in session.lines : Line(l)
  \/ \E c \in session.calls : Begin(c)
  \/ \E fails \in Fails :
       \/ EndData(fails) \/ EndMemory(fails) \/ EndStyles(fails)
       \/ \E lost \in Fails : EndPrivate(fails, lost)
  \/ ForceNow

Spec == Init /\ [][Next]_vars

-----------------------------------------------------------------------------
(* Properties                                                              *)

\* What a script says of ScaledBorderAndShadow stands, wherever it says so: no
\* guess from its format lines or from who made it takes precedence
\* (custom_format_line_compatibility, detect_legacy_conv_subs).
ExplicitWins ==
  "ScaledBorderAndShadow" \in header_flags => header.ScaledBorderAndShadow = given

\* The default style is the one an event that asks for Default gets, also
\* after styles that could not be stored; styles and events are those that are
\* there, and no font is left open between texts (process_style,
\* ass_lookup_style, process_text).
DefaultIsLast == TypeOK /\ Lookup("Default") = default_style

\* The fonts of the library are fonts of the script, in its order, each with
\* all of its data lines and no others, whatever could not be stored in
\* between (process_fonts_line, decode_font).
FontsIntact ==
  \E place \in [DOMAIN fonts -> DOMAIN written] :
    /\ \A i \in DOMAIN fonts : fonts[i] = written[place[i]]
    /\ \A i, j \in DOMAIN fonts : i < j => place[i] < place[j]

\* "Set SBAS=1 if not set explicitly in case of custom format line"
\* (custom_format_line_compatibility): a track of which the format lines are
\* the standard ones of its type, and that no other guess applies to, keeps the
\* default.
StandardKeepsDefault ==
  /\ track_type # "UNKNOWN"
  /\ "GENBY_FFMPEG" \notin header_flags
  /\ style_format \in {NULL, Standard("STYLES", track_type)}
  /\ event_format \in {NULL, Standard("EVENTS", track_type)}
  => header.ScaledBorderAndShadow = given
=============================================================================
