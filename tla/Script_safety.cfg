\* Texts of header lines, of styles and events, and of embedded fonts, through
\* every call; memory may run out.
CONSTANTS
  Sessions <- TheSessions
  ass_style_format <- AssStyle
  ssa_style_format <- SsaStyle
  ass_event_format <- AssEvent
  ssa_event_format <- SsaEvent
  Overrides <- Forced
  DefaultLike <- DefaultNames
  MaxEvents = 2
  MaxFonts = 2
  MaxData = 2
  MayFail = TRUE
  SizeMod = 32
  MantissaDigits = 4
  Powers = 4
  Max10 = 9
  Min10 = 8
  Byte = 16
  LongMax = 16777215
  Readings <- TheReadings
SPECIFICATION ParserSpec
CHECK_DEADLOCK FALSE
INVARIANTS
  ExplicitWins
  DefaultIsLast
  FontsIntact
  NumbersRead
  CodecsAgree
