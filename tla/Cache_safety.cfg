\* Two workers share a bitmap of a border of a glyph, so that evicting one item
\* releases others, in its own cache too; the consumer lets frames go while
\* others are rendered, but not during a cut or an empty.
CONSTANTS
  font = font
  glyph = glyph
  border = border
  bitmap = bitmap
  other = other
  Keys <- ThreeKeys
  CacheOf <- ThreeCacheOf
  Uses <- ThreeUses
  Bucket <- Apart
  Drawable <- DrawBitmaps
  Teardown <- BitmapOutline
  Limited <- BitmapOutline
  Flushes <- Settings
  MaxSize = 1
  Workers = {w1, w2}
  Driver = driver
  Consumer = consumer
  Slots = {s1, s2, s3, s4, s5}
  Frames = {f1, f2}
  MaxHeld = 1
  MayFail = TRUE
  Serialised = TRUE
  None = None
SPECIFICATION Spec
SYMMETRY Symmetry
INVARIANTS
  NoDanglingPointer
  RefsAccounted
  ShardsBalance
PROPERTIES
  PinnedUnchanged
CHECK_DEADLOCK FALSE
