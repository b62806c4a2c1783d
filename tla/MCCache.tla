------------------------------ MODULE MCCache --------------------------------
(* Small instances of Cache: a glyph outline, its border and their bitmap.  *)
EXTENDS Cache

CONSTANTS font, glyph, border, bitmap,     \* keys
          other                            \* another glyph

\* An outline and a bitmap drawn from it: two caches.
TwoKeys     == {glyph, bitmap}
TwoCacheOf  == glyph :> "outline" @@ bitmap :> "bitmap"
TwoUses     == glyph :> {} @@ bitmap :> {glyph}

\* With the border outline in between, in the glyph outline's own cache.
ThreeKeys    == {glyph, border, bitmap}
ThreeCacheOf == glyph :> "outline" @@ border :> "outline" @@ bitmap :> "bitmap"
ThreeUses    == glyph :> {} @@ border :> {glyph} @@ bitmap :> {border}

\* And a second glyph, which nothing else refers to.
FourKeys    == {glyph, border, bitmap, other}
FourCacheOf == other :> "outline" @@ ThreeCacheOf
FourUses    == other :> {} @@ ThreeUses

\* With the font the glyph comes from.
FontKeys    == {font, glyph, bitmap}
FontCacheOf == font :> "font" @@ glyph :> "outline" @@ bitmap :> "bitmap"
FontUses    == font :> {} @@ glyph :> {font} @@ bitmap :> {glyph}

\* Every key in a chain of its own, or the two outlines in one.
Apart   == [k \in Keys |-> k]
Collide == [k \in Keys |-> IF k = border THEN glyph ELSE k]

BitmapOutline     == <<"bitmap", "outline">>
BitmapOutlineFont == <<"bitmap", "outline", "font">>

\* ass_reconfigure; ass_set_outline_deferred.
Settings == {BitmapOutline, <<"bitmap">>}
\* ass_set_fonts, besides.
FontSettings == Settings \cup {BitmapOutlineFont}

DrawBitmaps == {bitmap}

Symmetry == Permutations(Slots) \cup Permutations(Frames)
              \cup Permutations(Workers)
==============================================================================
