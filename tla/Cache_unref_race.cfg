\* The consumer may let a frame go at any moment, during a cut or an empty too.
CONSTANTS
  font = font
  glyph = glyph
  border = border
  bitmap = bitmap
  other = other
  Keys <- TwoKeys
  CacheOf <- TwoCacheOf
  Uses <- TwoUses
  Bucket <- Apart
  Drawable <- DrawBitmaps
  Teardown <- BitmapOutline
  Limited <- BitmapOutline
  Flushes <- Settings
  MaxSize = 0
  Workers = {w1}
  Driver = driver
  Consumer = consumer
  Slots = {s1, s2, s3}
  Frames = {f1}
  MaxHeld = 1
  MayFail = FALSE
  Serialised = FALSE
  None = None
SPECIFICATION Spec
SYMMETRY Symmetry
INVARIANTS
  NoDanglingPointer
CHECK_DEADLOCK FALSE
