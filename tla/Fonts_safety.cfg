\* Two events a frame, over two frames, with a font attached in between, fonts
\* added on demand, one of them again and again, and faces that do not open.
CONSTANTS
  regular = regular
  bold = bold
  wide = wide
  pict = pict
  tail = tail
  bare = bare
  attached = attached
  text = text
  textbold = textbold
  sans = sans
  broad = broad
  dingbats = dingbats
  any = any
  plain = plain
  None = None
  Files <- TheFiles
  Names <- TheNames
  Font <- TheFonts
  Symbols <- TwoSymbols
  Substitutes <- Aliases
  MatchFonts <- OnDemand
  Fallback <- SafetyFallback
  DefaultFamily = None
  DefaultPath = tail
  MaxFaces = 2
  Descs <- SafetyDescs
  NEvents = 2
  Texts <- SafetyTexts
  Scanned <- None_
  Attachments <- OneAttachment
  Junk = {77}
  MaxFrames = 2
  MayFail = TRUE
SPECIFICATION Spec
INVARIANTS
  NoFaceTwice
  SameGlyph
CHECK_DEADLOCK FALSE
