\* Texts with karaoke, with line breaks, and events one after the other.
CONSTANTS
  Sessions <- TheSessions
  Styles <- TheStyles
  UserStyle <- TheUser
  Overridden <- Asked
  ScaleOnly = TRUE
  TrackWrapStyle = 0
  PlayRes <- Frame
  line_spacing = 1
  InitialLines = 2
  MayFail = {"glyphs", "shaping", "lines"}
SPECIFICATION Spec
CHECK_DEADLOCK FALSE
INVARIANTS
  TypeOK
  KaraokeOnTime
  LinesBroken
  FreshEvent
PROPERTIES
  Settles
