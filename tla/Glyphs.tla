--------------------------------- MODULE Glyphs ---------------------------------
(***************************************************************************)
(* What becomes of the text of an event once its characters are known: it  *)
(* is shaped (Shaper), its glyphs are drawn and collected in runs (Runs),  *)
(* the bitmaps of a run are combined, clipped and shown (Images), blurred  *)
(* (Blur), and drawn as its shadow, border and fill (Layers).  What a      *)
(* glyph is drawn from is an entry of the outline cache (Outline, Stroker; *)
(* ass_outline_construct), of which its bitmap is made (Raster).           *)
(*                                                                         *)
(* A behaviour is about one of these: the text of an event, an entry of    *)
(* the cache, the bitmap of one, the images of a run, the combining or the *)
(* blurring of its bitmaps, or the layers of an event.  They do not depend *)
(* on each other beyond what the sessions have: what of a glyph is seen,   *)
(* where a bitmap is, how many there are.                                  *)
(***************************************************************************)
EXTENDS Runs, Stroker, Raster, Images, Blur, Layers

CONSTANTS
  TextSessions, OutlineSessions, RasterSessions, ImageSessions, BitmapSessions,
  BlurSessions, LayerSessions   \* what behaviours are about

VARIABLES entry   \* the OutlineHashValue: [step, outline, valid]

vars == <<session, pc, shapeVars, runVars, strokerVars, raster, canvas, blur, layers, entry>>

NoCanvas == [step |-> "off"]
NewCanvas(s, step) ==
  [event |-> s, step |-> step, clip |-> <<0, 0, 0, 0>>, images |-> <<>>, todo |-> {}, added |-> <<>>]
NoRaster == [step |-> "off"]
\* A call that failed may have left lines in the second buffer.
NewRaster(s) ==
  [event |-> s, step |-> "outlines", buf |-> << <<>>, s.left >>, first |-> 0, path |-> << <<>>, <<>> >>,
   window |-> [from |-> <<0, 0>>, size |-> <<0, 0>>], levels |-> <<>>, tiles |-> <<>>, asserts |-> TRUE]
NoBlur == [step |-> "off"]
NewBlur(s) ==
  [event |-> s, step |-> "start", bm |-> s.bm, at |-> 0, axes |-> <<>>, todo |-> {}, written |-> <<>>]
NoLayers == [step |-> "off"]
NewLayers(s) == [event |-> s, step |-> "sort", deferred |-> {}, images |-> <<>>]
NoOutline == Empty(0)

Init ==
  /\ \/ session \in TextSessions
     \/ session \in OutlineSessions
     \/ session \in RasterSessions
     \/ session \in ImageSessions
     \/ session \in BitmapSessions
     \/ session \in BlurSessions
     \/ session \in LayerSessions
  /\ pc = (IF session.kind = "text" THEN "runs" ELSE "off")
  /\ glyphs = <<>> /\ emblevels = <<>> /\ pbase_dir = <<>> /\ at = 1 /\ cmap = <<>>
  /\ chained = {} /\ ran = {} /\ read_as = {}
  /\ runs = <<>> /\ items = <<>> /\ new_run = TRUE /\ offset = 0 /\ arrays = {}
  /\ str = NewStroker(0) /\ todo = <<>>
  /\ canvas = (CASE session.kind = "images" -> NewCanvas(session, "clip")
                 [] session.kind = "bitmaps" -> NewCanvas(session, "combine")
                 [] OTHER -> NoCanvas)
  /\ raster = (IF session.kind = "raster" THEN NewRaster(session) ELSE NoRaster)
  /\ blur = (IF session.kind = "blur" THEN NewBlur(session) ELSE NoBlur)
  /\ layers = (IF session.kind = "layers" THEN NewLayers(session) ELSE NoLayers)
  /\ entry = [step |-> IF session.kind = "outline" THEN "fill" ELSE "off",
              outline |-> <<NoOutline, NoOutline>>, valid |-> FALSE]

-----------------------------------------------------------------------------
(* ass_outline_construct                                                   *)

\* OUTLINE_GLYPH, OUTLINE_DRAWING and OUTLINE_BOX
Fill ==
  CASE session.type = "drawing" -> ParseDrawing(session.text, session.room, session.noTokens).outline
    [] session.type = "glyph" -> GlyphOutline(session.contours, session.lines, session.turned, session.fits)
    [] session.type = "box" -> IF session.room < 4 THEN Fails(Empty(0))
                               ELSE AddRect(Empty(session.room), <<0, 64, 64, 0>>)

\* Where it fails, the entry stays without an outline, and is not valid.
MakeFill ==
  /\ entry.step = "fill"
  /\ \E fill \in {Fill} :
       entry' = IF fill.ok THEN [entry EXCEPT !.step = "border", !.outline[1] = fill, !.valid = TRUE]
                ELSE [entry EXCEPT !.step = "done", !.outline[1].asserts = fill.asserts]
  /\ UNCHANGED <<session, pc, shapeVars, runVars, strokerVars, raster, canvas, blur, layers>>

\* OUTLINE_BORDER, an entry of its own: that of an empty outline is empty, and
\* so is one without a width.
PathOf(o) ==
  [k \in DOMAIN o.segments |->
     [order |-> o.segments[k].order, last |-> o.segments[k].last, half |-> session.half]]
Path == PathOf(entry.outline[1])

NoBorder ==
  /\ entry.step = "border" /\ (session.border = 0 \/ entry.outline[1].points = <<>>)
  /\ entry' = [entry EXCEPT !.step = "done", !.outline = <<NoOutline, NoOutline>>]
  /\ UNCHANGED <<session, pc, shapeVars, runVars, strokerVars, raster, canvas, blur, layers>>

StartBorder ==
  /\ entry.step = "border" /\ session.border > 0 /\ entry.outline[1].points # <<>>
  /\ session.stroked > 0
  /\ str' = NewStroker(session.stroked) /\ todo' = <<>>
  /\ entry' = [entry EXCEPT !.step = "stroke"]
  /\ UNCHANGED <<session, pc, shapeVars, runVars, raster, canvas, blur, layers>>

NoBorderEntry == [step |-> "done", outline |-> <<NoOutline, NoOutline>>, valid |-> FALSE]

\* ass_outline_scale_pow2 has no memory for a copy, or its points are too far out.
NoCopy ==
  /\ entry.step = "border" /\ session.border > 0 /\ entry.outline[1].points # <<>>
  /\ session.stroked = 0
  /\ entry' = NoBorderEntry
  /\ UNCHANGED <<session, pc, shapeVars, runVars, strokerVars, raster, canvas, blur, layers>>

StrokeBorder ==
  /\ entry.step = "stroke" /\ Stroke(Path)
  /\ UNCHANGED <<session, pc, shapeVars, runVars, raster, canvas, blur, layers, entry>>

BorderFails ==
  /\ entry.step = "stroke" /\ StrokeFails
  /\ entry' = NoBorderEntry
  /\ UNCHANGED <<session, pc, shapeVars, runVars, raster, canvas, blur, layers>>

BorderDone ==
  /\ entry.step = "stroke" /\ Stroked(Path)
  /\ entry' = [entry EXCEPT !.step = "stroked", !.outline = str.result]
  /\ UNCHANGED <<session, pc, shapeVars, runVars, strokerVars, raster, canvas, blur, layers>>

Outlines == MakeFill \/ NoBorder \/ StartBorder \/ NoCopy \/ StrokeBorder
            \/ BorderFails \/ BorderDone

-----------------------------------------------------------------------------
ShapeText == pc # "off" /\ Shape /\
             UNCHANGED <<runVars, strokerVars, raster, canvas, blur, layers, entry>>
DrawText == pc # "off" /\ Render /\
            UNCHANGED <<strokerVars, raster, canvas, blur, layers, entry>>
MakeBitmap == raster.step # "off" /\ Rasterize /\
              UNCHANGED <<session, pc, shapeVars, runVars, strokerVars, canvas, blur, layers, entry>>
PaintRun == canvas.step # "off" /\ (Paint \/ Compose) /\
            UNCHANGED <<session, pc, shapeVars, runVars, strokerVars, raster, blur, layers, entry>>
BlurBitmap == blur.step # "off" /\ BlurRun /\
              UNCHANGED <<session, pc, shapeVars, runVars, strokerVars, raster, canvas, layers, entry>>
DrawLayers == layers.step # "off" /\ StackLayers /\
              UNCHANGED <<session, pc, shapeVars, runVars, strokerVars, raster, canvas, blur, entry>>

Next == ShapeText \/ DrawText \/ Outlines \/ MakeBitmap \/ PaintRun \/ BlurBitmap \/ DrawLayers

Spec == Init /\ [][Next]_vars

-----------------------------------------------------------------------------
TypeOK ==
  /\ session.kind \in {"text", "outline", "raster", "images", "bitmaps", "blur", "layers"}
  /\ pc \in {"off", "runs", "levels", "shape", "reorder", "place", "walk", "combine", "emit", "idle"}
  /\ at \in 1 .. 9 /\ offset \in -Subpixels .. Subpixels /\ new_run \in BOOLEAN
  /\ arrays \subseteq DOMAIN runs
  /\ pc = "walk" => \A k \in DOMAIN glyphs : glyphs[k].skip \/ glyphs[k].parts # <<>>
  /\ \A i \in DOMAIN items : items[i].run \in DOMAIN runs
  /\ entry.step \in {"off", "fill", "border", "stroke", "stroked", "done"}
  /\ canvas.step \in {"off", "clip", "draw", "blend", "box", "painted",
                      "combine", "bands", "composed", "nothing"}
  /\ blur.step \in {"off", "start", "stage", "pack", "box", "expand", "blurred"}
  /\ raster.step \in {"off", "outlines", "nothing", "fill", "level", "filled", "failed"}
  /\ layers.step \in {"off", "sort", "shadows", "borders", "fills", "stacked"}

\* The text of an event is cut into runs that one font, script and direction can
\* draw; its glyphs stay with their characters, its characters on their lines,
\* which are read in the direction of their paragraphs, and no two glyphs are at
\* the same place.
TextShaped == TypeOK /\ RunsUniform /\ PartsAtHome /\ LinesKept /\ LinesInDirection /\ GlyphsApart

\* A drawing of one spline that is closed ends where it begins.
SplineCloses ==
  session.kind = "outline" /\ session.type = "drawing" /\ session.loop
    /\ entry.outline[1].points # <<>> /\ entry.step = "border"
      => entry.outline[1].points[1] = Last(entry.outline[1].points)

\* What an entry of the cache holds is a sound outline, of which every piece ends
\* where the next begins, and no assertion of the code fails.  An entry that is
\* not valid holds nothing.
OutlinesSound ==
  /\ \A d \in Both : /\ Sound(entry.outline[d])
                     /\ entry.step = "stroked" => Joined(entry.outline[d])
                     /\ ~entry.valid => entry.outline[d].points = <<>>
  /\ SplineCloses

\* A bitmap shows what is inside its outlines, tile by tile, whether it is filled or
\* exported (ass_rasterizer_fill, ass_outline_to_tiles), and the assertions of the
\* rasteriser hold.
Enclosed == RasterRight

\* Every pixel of a run is shown once and where it belongs, if no clip hides it,
\* and is of the bitmaps of its glyphs (render_glyph_i, blend_vector_clip,
\* combine_bitmaps); blurred, it stays where it was
\* (ass_gaussian_blur, ass_blur_expand_only).
Painted == ImagesRight /\ BitmapsCombined /\ BlurRight
=============================================================================
