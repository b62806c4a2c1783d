\* What becomes of texts, of outlines, of the images of runs.
CONSTANTS
  TextSessions <- TheTexts
  OutlineSessions <- TheOutlines
  RasterSessions <- Rasters
  ImageSessions <- Paintings
  BitmapSessions <- Composites
  BlurSessions <- Blurs
  LayerSessions <- TheLayers
  OutlineMax = 50
  Parts = 4
  Subpixels = 3
  InitialRuns = 1
  InitialRefs = 1
  InitialItems = 1
  MinRows = 3
  MinWork = 6
  Pixel = 4
  Tile = 2
  OutlineError = 2
  StripeWidth = 4
  MinArea = 300
  MaxInt = 100000
SPECIFICATION Spec
CHECK_DEADLOCK FALSE
INVARIANTS
  TextShaped
  OutlinesSound
  Enclosed
  RunsRight
  Painted
  LayersAgree
