\* Three events, each shown as any of the lines from frame to frame.
CONSTANTS
  NEvents = 3
  Layouts <- LinesOf
  FrameHeight = 8
  MaxRenderId = 2
  MayFail = TRUE
SPECIFICATION Spec
INVARIANTS
  Apart
  FitsNearest
  Steady
  ImagesFollow
CHECK_DEADLOCK FALSE
