\* A stream whose packets repeat, are malformed or carry a ReadOrder beyond the
\* range, and whose memory may run out.
CONSTANTS
  MaxId = 2
  BadIds = {2}
  MaxTime = 2
  MaxEvents = 3
  MayFail = TRUE
  MayToggle = FALSE
SPECIFICATION Spec
INVARIANTS
  BitmapExact
  NextDue
PROPERTIES
  DuplicatesDiscarded
