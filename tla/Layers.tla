--------------------------------- MODULE Layers ---------------------------------
(***************************************************************************)
(* libass/ass_render.c: the layers of an event's runs, its shadows below   *)
(* its borders below its fills, and who makes them: the renderer itself    *)
(* (ass_composite_construct, render_text), or one that it leaves blurring, *)
(* combining or rasterising to (render_run_deferred,                       *)
(* render_shadow_deferred).  The two decide independently of each other    *)
(* what is drawn, from what, and in which colour.                          *)
(*                                                                         *)
(* A coverage is [shape, glyphs, moved, blur, less, late]: the glyphs whose*)
(* fill or border it is, whether it is moved by the shadow's offset, how   *)
(* it is blurred, the glyphs of which the fill is cut out of it, and the   *)
(* blurs that come after that.  The style of a run has border_style, its   *)
(* width (bordered), shadow ("no", "tiny": of an offset that is rounded to *)
(* nothing, or "yes"), c (how the first two colours cover: "opaque",       *)
(* "half", "nothing"), fade, effect, sung, blur and the glyphs that have   *)
(* pixels.                                                                 *)
(***************************************************************************)
EXTENDS Integers, Sequences, SequencesExt, FiniteSetsExt

VARIABLE layers   \* [event, step, deferred, images]: the event, whose fields do not
                  \* change, its runs that are left to others, and the list so far

Styles == layers.event.runs
Modes == layers.event.modes   \* of "blur", "composite" and "outline", those set

-----------------------------------------------------------------------------
(* render_and_combine_glyphs                                               *)

FillInShadow(s) ==
  s.shadow # "no" /\ (s.effect \in {"kf", "ko"} \/ s.c[1] # "nothing" \/ s.border_style = 3)

Flags(s) ==
  (IF s.border_style = 3 THEN {"BORDER_STYLE_3"} ELSE {})
  \cup (IF s.bordered THEN {"NONZERO_BORDER"} ELSE {})
  \cup (IF s.shadow # "no" /\ (s.bordered \/ FillInShadow(s)) THEN {"NONZERO_SHADOW"} ELSE {})
  \cup (IF FillInShadow(s) THEN {"FILL_IN_SHADOW"} ELSE {})
  \cup (IF (s.bordered /\ s.c = <<"opaque", "opaque">> /\ ~s.fade) \/ s.border_style = 3
          THEN {"FILL_IN_BORDER"} ELSE {})

\* composite_deferrable
Deferrable ==
  "composite" \in Modes /\ layers.event.clip = "no" /\ layers.event.border_style # 4

Deferred(s) ==
  s.glyphs # {} /\ ("outline" \in Modes
                    \/ (Deferrable /\ s.effect = "none" /\ "NONZERO_SHADOW" \notin Flags(s)))

Sort ==
  /\ layers.step = "sort"
  /\ layers' = [layers EXCEPT !.step = "shadows",
                  !.deferred = {r \in DOMAIN Styles : Deferred(Styles[r])}]

-----------------------------------------------------------------------------
(* The coverages of a run                                                  *)

Coverage(shape, glyphs) ==
  [shape |-> shape, glyphs |-> glyphs, moved |-> FALSE, blur |-> {}, less |-> {}, late |-> {}]
NoCoverage == Coverage("fill", {})

\* The bitmaps of the glyphs, as get_bitmap_glyph makes them
FillOf(s) == Coverage("fill", s.glyphs)
BorderOf(s) ==
  Coverage("border", IF {"NONZERO_BORDER"} \subseteq Flags(s)
                        \/ {"BORDER_STYLE_3", "NONZERO_SHADOW"} \subseteq Flags(s)
                     THEN s.glyphs ELSE {})

Blurred(c, how) ==
  IF c.glyphs = {} THEN c
  ELSE [c EXCEPT !.blur = @ \cup how, !.late = IF c.less = {} THEN {} ELSE @ \cup how]

\* ass_fix_outline
Carved(c, fill) == IF c.glyphs = {} THEN c ELSE [c EXCEPT !.less = fill.glyphs]

MovedBy(c, s) == [c EXCEPT !.moved = c.glyphs # {} /\ s.shadow = "yes"]

BlursFill(s) == "NONZERO_BORDER" \notin Flags(s) \/ "BORDER_STYLE_3" \in Flags(s)

\* ass_composite_construct: bm, bm_o and bm_s.  \be is always applied here.
Composite(s, modes) ==
  LET has(flag) == flag \in Flags(s)
      here == IF "blur" \in modes THEN s.blur \ {"gaussian"} ELSE s.blur
      bm == IF BlursFill(s) THEN Blurred(FillOf(s), here) ELSE FillOf(s)
      blurred == Blurred(BorderOf(s), here)
      fixed == IF ~has("FILL_IN_BORDER") /\ ~has("FILL_IN_SHADOW") THEN Carved(blurred, bm) ELSE blurred
      box == has("NONZERO_SHADOW") /\ ~has("NONZERO_BORDER") /\ has("BORDER_STYLE_3")
      shadow == IF ~has("NONZERO_SHADOW") THEN NoCoverage
                ELSE IF has("NONZERO_BORDER")
                  THEN IF has("FILL_IN_BORDER") /\ ~has("FILL_IN_SHADOW") THEN Carved(fixed, bm) ELSE fixed
                ELSE IF box THEN fixed ELSE bm
      rest == IF box THEN NoCoverage ELSE fixed
  IN  [bm |-> bm, bm_s |-> MovedBy(shadow, s),
       bm_o |-> IF has("FILL_IN_SHADOW") /\ ~has("FILL_IN_BORDER") THEN Carved(rest, bm) ELSE rest]

-----------------------------------------------------------------------------
(* render_text                                                             *)

\* colour is left of where the syllable is sung to, and colour2 right of it;
\* pending is how the image is still to be blurred, and fix that the fill is
\* still to be cut out of it.
Image(r, layer, c, colour, colour2, pending, fix) ==
  IF c.glyphs = {} THEN <<>>
  ELSE << [run |-> r, layer |-> layer, of |-> c, colour |-> colour, colour2 |-> colour2,
           pending |-> pending, fix |-> fix] >>

OneColour(r, layer, c, colour, pending, fix) == Image(r, layer, c, colour, colour, pending, fix)

Pending(s, modes, blurred) == IF "blur" \in modes /\ blurred THEN s.blur \cap {"gaussian"} ELSE {}
Silent(s) == s.effect = "ko" /\ ~s.sung
FillColour(s) == IF s.effect \in {"k", "ko"} /\ ~s.sung THEN 2 ELSE 1
FillColour2(s) == IF s.effect = "kf" THEN 2 ELSE FillColour(s)

\* (Mutant: a shadow whose offset is rounded to nothing is left out.)
ShadowLayer_offset(r, s, deferred, modes) ==
  LET flags == Flags(s)
      of == IF flags \cap {"NONZERO_BORDER", "BORDER_STYLE_3"} # {} THEN BorderOf(s) ELSE FillOf(s)
  IN  IF layers.event.border_style = 4 THEN <<>>
      ELSE IF deferred
        THEN IF s.shadow # "yes" \/ "NONZERO_SHADOW" \notin flags THEN <<>>
             ELSE OneColour(r, "shadow", MovedBy(of, s), 4, s.blur, FALSE)
      ELSE OneColour(r, "shadow", Composite(s, modes).bm_s, 4, Pending(s, modes, TRUE), FALSE)

\* render_shadow_deferred, of which one image stands for those of all glyphs
ShadowLayer(r, s, deferred, modes) ==
  LET flags == Flags(s)
      of == IF flags \cap {"NONZERO_BORDER", "BORDER_STYLE_3"} # {} THEN BorderOf(s) ELSE FillOf(s)
  IN  IF layers.event.border_style = 4 THEN <<>>
      ELSE IF deferred
        THEN IF "NONZERO_SHADOW" \notin flags THEN <<>>
             ELSE OneColour(r, "shadow", MovedBy(of, s), 4, s.blur, FALSE)
      ELSE OneColour(r, "shadow", Composite(s, modes).bm_s, 4, Pending(s, modes, TRUE), FALSE)

\* render_run_deferred: the border of a box without one has been its shadow.
BorderLayer(r, s, deferred, modes) ==
  LET flags == Flags(s)
      box == /\ {"BORDER_STYLE_3", "NONZERO_SHADOW"} \subseteq flags
             /\ "NONZERO_BORDER" \notin flags /\ layers.event.border_style # 4
  IN  IF Silent(s) \/ (deferred /\ box) THEN <<>>
      ELSE IF deferred
        THEN OneColour(r, "border", BorderOf(s), 3, s.blur, "FILL_IN_BORDER" \notin flags)
      ELSE OneColour(r, "border", Composite(s, modes).bm_o, 3, Pending(s, modes, TRUE), FALSE)

FillLayer(r, s, deferred, modes) ==
  IF deferred
    THEN Image(r, "fill", FillOf(s), FillColour(s), FillColour2(s),
               IF BlursFill(s) THEN s.blur ELSE {}, FALSE)
    ELSE Image(r, "fill", Composite(s, modes).bm, FillColour(s), FillColour2(s),
               Pending(s, modes, BlursFill(s)), FALSE)

EachRun(Layer(_, _)) == FoldLeft(LAMBDA l, r : l \o Layer(r, Styles[r]), <<>>, [r \in DOMAIN Styles |-> r])

Stack(from, to, Layer(_, _)) ==
  /\ layers.step = from
  /\ layers' = [layers EXCEPT !.step = to, !.images = @ \o EachRun(Layer)]

ShadowPass == Stack("shadows", "borders", LAMBDA r, s : ShadowLayer(r, s, r \in layers.deferred, Modes))
BorderPass == Stack("borders", "fills", LAMBDA r, s : BorderLayer(r, s, r \in layers.deferred, Modes))
FillPass == Stack("fills", "stacked", LAMBDA r, s : FillLayer(r, s, r \in layers.deferred, Modes))

StackLayers == Sort \/ ShadowPass \/ BorderPass \/ FillPass

-----------------------------------------------------------------------------
(* What is seen of them                                                    *)

\* What an image is to its consumer, once that has done what is left to do
FillsOf(images, r) ==
  UNION {images[k].of.glyphs : k \in {j \in DOMAIN images : images[j].run = r /\ images[j].layer = "fill"}}
Finished(images, img) ==
  LET blurred == Blurred(img.of, img.pending)
  IN  [run |-> img.run, layer |-> img.layer, colour |-> img.colour, colour2 |-> img.colour2,
       of |-> IF img.fix THEN Carved(blurred, Coverage("fill", FillsOf(images, img.run))) ELSE blurred]
Seen(images) == [k \in DOMAIN images |-> Finished(images, images[k])]

\* What is seen where nothing is left to others
Plain == EachRun(LAMBDA r, s : ShadowLayer(r, s, FALSE, {}))
         \o EachRun(LAMBDA r, s : BorderLayer(r, s, FALSE, {}))
         \o EachRun(LAMBDA r, s : FillLayer(r, s, FALSE, {}))

\* The code leaves three runs looking otherwise.  The fill of a bordered run that
\* is invisible is not cut out of a shadow that is left to others.
Hollow(r) ==
  /\ r \in layers.deferred /\ layers.event.border_style # 4
  /\ {"NONZERO_BORDER", "NONZERO_SHADOW"} \subseteq Flags(Styles[r])
  /\ Flags(Styles[r]) \cap {"FILL_IN_BORDER", "FILL_IN_SHADOW"} = {}

\* A box that is a shadow is a border where the event has ended in a style whose
\* boxes are of the whole text.
LateBox(r) ==
  /\ r \in layers.deferred /\ layers.event.border_style = 4 /\ ~Silent(Styles[r])
  /\ {"BORDER_STYLE_3", "NONZERO_SHADOW"} \subseteq Flags(Styles[r])
  /\ "NONZERO_BORDER" \notin Flags(Styles[r])

\* A fill is cut out of the border, and of the shadow that is made from that,
\* before these are blurred, where the blur is left to others.
CutEarly(r) ==
  LET s == Styles[r]
  IN  /\ r \notin layers.deferred /\ "blur" \in Modes /\ "gaussian" \in s.blur
      /\ "NONZERO_BORDER" \in Flags(s) /\ "FILL_IN_BORDER" \notin Flags(s) /\ s.glyphs # {}
      /\ ~Silent(s)

\* Otherwise, and only then, the same is seen, in the same order, whoever draws
\* it (ass_composite_construct and render_text, against render_run_deferred and
\* render_shadow_deferred).
LayersAgree ==
  layers.step = "stacked" =>
    (Seen(layers.images) = Seen(Plain)
       <=> \A r \in DOMAIN Styles : ~Hollow(r) /\ ~LateBox(r) /\ ~CutEarly(r))
=============================================================================
