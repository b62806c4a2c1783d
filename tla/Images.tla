--------------------------------- MODULE Images ---------------------------------
(***************************************************************************)
(* libass/ass_render.c: from the bitmaps of the glyphs of a run to one     *)
(* bitmap (ass_composite_construct, combine_bitmaps), and from that to the *)
(* images that are shown of it: clipping (ass_render_event, render_glyph,  *)
(* render_glyph_i), the drawing that clips it (blend_vector_clip) and the  *)
(* box behind it (add_background).                                         *)
(*                                                                         *)
(* All of it is arithmetic of rectangles, where every pixel has to be      *)
(* drawn once and not twice.  A rectangle is <<x0, y0, x1, y1>>.  An image *)
(* is [area, from, colour, holes]: from is the pixel of the bitmap it      *)
(* begins with, and holes are pixels that a clip has made transparent.     *)
(***************************************************************************)
EXTENDS Integers, Sequences, SequencesExt, FiniteSetsExt

CONSTANTS
  MinRows, MinWork    \* from where on bitmaps are combined by bands: 16 and 4096

VARIABLE canvas       \* [event, step, clip, images, room]: the event, whose fields do
                      \* not change, and what has become of it

E == canvas.event

WidthOf(r) == r[3] - r[1]
HeightOf(r) == r[4] - r[2]
IsEmpty(r) == WidthOf(r) <= 0 \/ HeightOf(r) <= 0
Pixels(r) == (r[1] .. r[3] - 1) \X (r[2] .. r[4] - 1)
Within(p, r) == r[1] <= p[1] /\ p[1] < r[3] /\ r[2] <= p[2] /\ p[2] < r[4]
Clamp(x, low, high) == Max({low, Min({x, high})})
Common(r, s) == <<Max({r[1], s[1]}), Max({r[2], s[2]}), Min({r[3], s[3]}), Min({r[4], s[4]})>>

\* x2scr_pos_scaled and y2scr_pos: the video is at content in the frame
ScreenX(x) == (x * WidthOf(E.content)) \div E.PlayRes[1] + E.content[1]
ScreenY(y) == (y * HeightOf(E.content)) \div E.PlayRes[2] + E.content[2]
FrameRect == <<0, 0, E.frame[1], E.frame[2]>>

-----------------------------------------------------------------------------
(* The clip of an event                                                    *)

\* ass_render_event: a clip is in the coordinates of the script, and that of an
\* event that asks for a place of its own is kept on the video.  A scrolling
\* event is kept between two lines.
ClipOf ==
  LET own == E.explicit \/ ~E.use_margins
      mapped == IF own THEN <<ScreenX(E.clip[1]), ScreenY(E.clip[2]),
                              ScreenX(E.clip[3]), ScreenY(E.clip[4])>>
                ELSE FrameRect
      kept == IF E.explicit THEN Common(mapped, E.content) ELSE mapped
  IN  IF E.scroll = <<>> THEN kept
      ELSE <<kept[1], Max({kept[2], ScreenY(E.scroll[1])}),
             kept[3], Min({kept[4], ScreenY(E.scroll[2])})>>

FixClip ==
  /\ canvas.step = "clip"
  /\ canvas' = [canvas EXCEPT !.clip = ClipOf, !.step = "draw"]

-----------------------------------------------------------------------------
(* render_glyph, render_glyph_i                                            *)

\* A part r of the bitmap in two colours, which meet at brk; all relative to it
ImageAt(r, colour) ==
  [area |-> <<E.bm[1] + r[1], E.bm[2] + r[2], E.bm[1] + r[3], E.bm[2] + r[4]>>,
   from |-> <<r[1], r[2]>>, colour |-> colour, holes |-> {}]
Split(r) ==
  LET brk == E.brk - E.bm[1]
      left == Min({brk, r[3]})
      right == Max({left, r[1]})
  IN  IF IsEmpty(r) THEN <<>>
      ELSE (IF brk > r[1] THEN <<ImageAt(<<r[1], r[2], left, r[4]>>, "left")>> ELSE <<>>)
           \o (IF left < r[3] THEN <<ImageAt(<<right, r[2], r[3], r[4]>>, "right")>> ELSE <<>>)

\* What is left of the bitmap in the clip
Inside ==
  LET x0 == Clamp(canvas.clip[1], 0, E.frame[1])
      y0 == Clamp(canvas.clip[2], 0, E.frame[2])
      x1 == Clamp(canvas.clip[3], 0, E.frame[1])
      y1 == Clamp(canvas.clip[4], 0, E.frame[2])
  IN  <<Max({0, x0 - E.bm[1]}), Max({0, y0 - E.bm[2]}),
        Min({WidthOf(E.bm), x1 - E.bm[1]}), Min({HeightOf(E.bm), y1 - E.bm[2]})>>

\* An inverse clip leaves what is left of it, above it, below it and right of
\* it; these are kept on the video afterwards.
\* (Mutant: what is above it begins at the left.)
Outside_corner ==
  LET w == WidthOf(E.bm)  h == HeightOf(E.bm)
      cx0 == canvas.clip[1] - E.bm[1]  cy0 == canvas.clip[2] - E.bm[2]
      cx1 == canvas.clip[3] - E.bm[1]  cy1 == canvas.clip[4] - E.bm[2]
      four == << <<0, 0, Min({cx0, w}), h>>,
                 <<0, 0, Min({cx1, w}), Min({cy0, h})>>,
                 <<Max({cx0, 0}), Max({cy1, 0}), Min({cx1, w}), h>>,
                 <<Max({cx1, 0}), 0, w, h>> >>
      video == <<E.content[1] - E.bm[1], E.content[2] - E.bm[2],
                 E.content[3] - E.bm[1], E.content[4] - E.bm[2]>>
      some == SelectSeq(four, LAMBDA r : ~IsEmpty(r))
  IN  [k \in DOMAIN some |-> Common(some[k], video)]

Outside ==
  LET w == WidthOf(E.bm)  h == HeightOf(E.bm)
      cx0 == canvas.clip[1] - E.bm[1]  cy0 == canvas.clip[2] - E.bm[2]
      cx1 == canvas.clip[3] - E.bm[1]  cy1 == canvas.clip[4] - E.bm[2]
      four == << <<0, 0, Min({cx0, w}), h>>,
                 <<Max({cx0, 0}), 0, Min({cx1, w}), Min({cy0, h})>>,
                 <<Max({cx0, 0}), Max({cy1, 0}), Min({cx1, w}), h>>,
                 <<Max({cx1, 0}), 0, w, h>> >>
      video == <<E.content[1] - E.bm[1], E.content[2] - E.bm[2],
                 E.content[3] - E.bm[1], E.content[4] - E.bm[2]>>
      some == SelectSeq(four, LAMBDA r : ~IsEmpty(r))
  IN  [k \in DOMAIN some |-> Common(some[k], video)]

\* Without memory for an image, it and those after it are left out.
Fitting(images) == SubSeq(images, 1, Min({Len(images), E.room}))

RenderGlyph ==
  /\ canvas.step = "draw"
  /\ LET parts == IF E.inverse THEN Outside ELSE <<Inside>>
     IN  canvas' = [canvas EXCEPT !.step = "blend",
                      !.images = Fitting(FoldLeft(LAMBDA s, r : s \o Split(r), <<>>, parts))]

-----------------------------------------------------------------------------
(* blend_vector_clip: the bitmap of the clip's drawing is at vclip.area    *)

Overlap(img) == Common(img.area, E.vclip.area)

Blended(img) ==
  LET area == Overlap(img)
  IN  CASE E.vclip.inverse /\ IsEmpty(area) -> img
        [] E.vclip.inverse -> [img EXCEPT !.holes = Pixels(area)]
        [] IsEmpty(area) -> [img EXCEPT !.area = <<@[1], @[2], @[1], @[2]>>]
        [] OTHER -> [img EXCEPT !.area = area,
                       !.from = <<@[1] + area[1] - img.area[1], @[2] + area[2] - img.area[2]>>]

\* A drawing that is no valid outline does not clip.  Without memory for the
\* bitmap of an image, it and those after it stay as they are.
Blend ==
  /\ canvas.step = "blend"
  /\ LET touched(k) == E.vclip.inverse => ~IsEmpty(Overlap(canvas.images[k]))
         needs(k) == ~IsEmpty(Overlap(canvas.images[k]))
         failed == {k \in DOMAIN canvas.images :
                      needs(k) /\ Cardinality({j \in 1..k : needs(j)}) > E.blends}
     IN  canvas' = [canvas EXCEPT !.step = "box",
           !.images = [k \in DOMAIN @ |->
             IF E.vclip.valid /\ touched(k) /\ \A j \in failed : k < j
               THEN Blended(@[k]) ELSE @[k]]]

\* add_background: the box around the text, wider by the shadow, in the frame
Box ==
  LET b == E.box
  IN  <<Clamp(b.area[1] - b.shadow, 0, E.frame[1]), Clamp(b.area[2] - b.shadow, 0, E.frame[2]),
        Clamp(b.area[3] + b.shadow, 0, E.frame[1]), Clamp(b.area[4] + b.shadow, 0, E.frame[2])>>

AddBackground ==
  /\ canvas.step = "box"
  /\ canvas' = [canvas EXCEPT !.step = "painted",
       !.images = IF E.box.shown /\ ~IsEmpty(Box)
                    THEN <<[area |-> Box, from |-> <<0, 0>>, colour |-> "box", holes |-> {}]>> \o @
                    ELSE @]

Paint == FixClip \/ RenderGlyph \/ Blend \/ AddBackground

-----------------------------------------------------------------------------
(* What the images show                                                    *)

Shown(img) == Pixels(img.area) \ img.holes
Text == SelectSeq(canvas.images, LAMBDA img : img.colour # "box")
Times(p) == Cardinality({k \in DOMAIN Text : p \in Shown(Text[k])})

\* The pixels that a script means to cut out, or to leave
Meant(p) ==
  /\ E.explicit \/ ~E.use_margins => Within(p, <<ScreenX(E.clip[1]), ScreenY(E.clip[2]),
                                                 ScreenX(E.clip[3]), ScreenY(E.clip[4])>>)
  /\ E.explicit => Within(p, E.content)
  /\ E.scroll # <<>> => ScreenY(E.scroll[1]) <= p[2] /\ p[2] < ScreenY(E.scroll[2])
Visible(p) ==
  IF E.inverse THEN Within(p, E.content) /\ ~Meant(p)
  ELSE Within(p, FrameRect) /\ Meant(p)
Unclipped(p) == E.vclip.valid => Within(p, E.vclip.area) # E.vclip.inverse
Backwards == E.clip[1] > E.clip[3] \/ E.clip[2] > E.clip[4]

\* Every image shows pixels of its bitmap where they belong, in the colour of
\* their side.
AtHome(img) ==
  /\ img.from = <<img.area[1] - E.bm[1], img.area[2] - E.bm[2]>>
  /\ Pixels(img.area) \subseteq Pixels(E.bm)
  /\ \A p \in Pixels(img.area) : img.colour = (IF p[1] < E.brk THEN "left" ELSE "right")

\* A pixel of the bitmap is drawn once if it is visible, and otherwise not at
\* all; an inverse clip that is written backwards draws the pixels between its
\* edges twice.  Where there is no memory, nothing is drawn twice, and what is
\* drawn is part of what would be.
ImagesRight ==
  canvas.step \in {"blend", "box", "painted"} =>
    /\ \A k \in DOMAIN Text : AtHome(Text[k])
    /\ \A p \in Pixels(E.bm) :
         LET shown == Visible(p) /\ (canvas.step # "blend" => Unclipped(p))
             whole == E.blends > 9 \/ canvas.step = "blend"
         IN  /\ Times(p) <= (IF E.inverse /\ Backwards THEN 2 ELSE 1)
             /\ Times(p) > 0 => Visible(p) /\ (whole => shown)
             /\ E.room > 9 /\ shown => Times(p) > 0
    /\ \A k \in DOMAIN canvas.images :
         canvas.images[k].colour = "box" => /\ k = 1
                                            /\ Pixels(canvas.images[k].area) \subseteq Pixels(FrameRect)

-----------------------------------------------------------------------------
(* ass_composite_construct: the bitmaps of a run in one                    *)

\* ass_be_padding
Padding(be) == IF be <= 3 THEN be ELSE IF be <= 7 THEN 4 ELSE 5

Bitmaps == {k \in DOMAIN E.bitmaps : ~IsEmpty(E.bitmaps[k])}
Bound(i) == IF i < 3 THEN Min({E.bitmaps[k][i] : k \in Bitmaps})
            ELSE Max({E.bitmaps[k][i] : k \in Bitmaps})
Combined ==
  LET pad == Padding(E.be)
  IN  <<Bound(1) - pad, Bound(2) - pad, Bound(3) + pad, Bound(4) + pad>>

\* combine_bitmaps: by bands, or all at once; a single bitmap that needs no
\* padding is a copy.
Bands ==
  IF /\ E.pool /\ (E.be > 0 \/ Cardinality(Bitmaps) > 1)
     /\ HeightOf(Combined) >= MinRows /\ HeightOf(Combined) * Len(E.bitmaps) >= MinWork
    THEN Min({E.threads, HeightOf(Combined)}) ELSE 1

StartCombine ==
  /\ canvas.step = "combine"
  /\ canvas' = [canvas EXCEPT !.step = IF Bitmaps = {} \/ ~E.memory THEN "nothing" ELSE "bands",
                              !.clip = IF Bitmaps = {} THEN @ ELSE Combined,
                              !.todo = IF Bitmaps = {} THEN {} ELSE 0 .. Bands - 1]

\* combine_band: the rows of every bitmap that are in the band, which are
\* counted from the top of the combined one.
Rows(band) ==
  LET h == HeightOf(canvas.clip)
  IN  (band * h) \div Bands .. ((band + 1) * h) \div Bands - 1

Added(band, k) ==
  LET b == E.bitmaps[k]
      top == canvas.clip[2]
      rows == {r \in Rows(band) : b[2] - top <= r /\ r < b[4] - top}
  IN  {<<k, x, r + top>> : x \in b[1] .. b[3] - 1, r \in rows}

\* Bands are combined in any order, and at the same time.
Band ==
  /\ canvas.step = "bands"
  /\ \E band \in canvas.todo :
       canvas' = [canvas EXCEPT !.todo = @ \ {band},
                    !.added = Append(@, UNION {Added(band, k) : k \in Bitmaps})]

Composed ==
  /\ canvas.step = "bands" /\ canvas.todo = {}
  /\ canvas' = [canvas EXCEPT !.step = "composed"]

Compose == StartCombine \/ Band \/ Composed

\* Every pixel of every bitmap is added once, within the combined bitmap, and
\* two bands never work on the same pixel.
BitmapsCombined ==
  canvas.step \in {"bands", "composed"} =>
    /\ \A i, j \in DOMAIN canvas.added :
         i # j => {<<p[2], p[3]>> : p \in canvas.added[i]} \cap {<<p[2], p[3]>> : p \in canvas.added[j]} = {}
    /\ \A p \in UNION Range(canvas.added) : Within(<<p[2], p[3]>>, canvas.clip)
    /\ canvas.step = "composed" =>
         UNION Range(canvas.added) = UNION {{<<k, p[1], p[2]>> : p \in Pixels(E.bitmaps[k])} : k \in Bitmaps}
=============================================================================
