\* A frame with text outlives the renderer.
CONSTANTS
  font = font
  glyph = glyph
  border = border
  bitmap = bitmap
  other = other
  Keys <- FontKeys
  CacheOf <- FontCacheOf
  Uses <- FontUses
  Bucket <- Apart
  Drawable <- DrawBitmaps
  Teardown <- BitmapOutlineFont
  Limited <- BitmapOutline
  Flushes <- FontSettings
  MaxSize = 0
  Workers = {w1}
  Driver = driver
  Consumer = consumer
  Slots = {s1, s2, s3}
  Frames = {f1}
  MaxHeld = 1
  MayFail = FALSE
  Serialised = TRUE
  None = None
SPECIFICATION Spec
SYMMETRY Symmetry
INVARIANTS
  FontsBeforeLibrary
CHECK_DEADLOCK FALSE
