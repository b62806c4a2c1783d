---------------------------------- MODULE Blur ----------------------------------
(***************************************************************************)
(* libass/ass_blur.c, ass_bitmap.c: how the bitmap of a run is blurred.    *)
(* The Gaussian halves the bitmap a number of times (its level), convolves *)
(* it, and doubles it again, one axis after the other; the bitmap grows by *)
(* each of these, and the result has to be where the original was.  Its    *)
(* vertical stages are done by bands of stripes, in any order and at the   *)
(* same time.  Where the Gaussian is left to a consumer, the bitmap is     *)
(* made as large as it would become, without the stages.                   *)
(*                                                                         *)
(* Axis 1 is x and axis 2 is y.  What values a pixel has is left out.      *)
(***************************************************************************)
EXTENDS Integers, Sequences, SequencesExt, FiniteSetsExt

CONSTANTS
  StripeWidth,    \* pixels of a stripe; what the engine aligns to is twice that
  MinArea,        \* PARALLEL_BLUR_MIN_AREA
  MaxInt          \* INT_MAX

VARIABLE blur     \* [event, step, bm, at, axes, todo, written]: the event, whose fields
                  \* do not change, the bitmap [pos, size], the stage that is worked
                  \* on, what the buffer holds on each axis, the bands that are not
                  \* done yet, and the stripes of each that is

B == blur.event
Axes == {1, 2}

-----------------------------------------------------------------------------
(* The stages                                                              *)

\* The loops of ass_gaussian_blur: what is done, on which axis
Stages ==
  LET times(what, axis) == [k \in 1 .. B.method[axis].level |-> <<what, axis>>]
  IN  times("shrink", 2) \o times("shrink", 1) \o << <<"blur", 1>>, <<"blur", 2>> >>
      \o times("expand", 1) \o times("expand", 2)

\* A picture on an axis is [size, last, origin]: its pixels, the last of them
\* that the bitmap shows in, and where the bitmap's first pixel is now, in
\* sixteenths.  Output i of the shrinking kernel is of inputs 2 * i - 4 to
\* 2 * i + 1, that of the blurring one of i - 2 * radius to i, and outputs 2 * i
\* and 2 * i + 1 of the expanding one are of i - 2 to i.
Picture(size) == [size |-> size, last |-> size - 1, origin |-> 0]
Shrunk(p) ==
  [size |-> (p.size + 5) \div 2, last |-> (p.last + 4) \div 2, origin |-> (p.origin + 24) \div 2]
Convolved(p, radius) ==
  [size |-> p.size + 2 * radius, last |-> p.last + 2 * radius, origin |-> p.origin + 16 * radius]
Doubled(p) ==
  [size |-> 2 * p.size + 4, last |-> 2 * p.last + 5, origin |-> 2 * p.origin + 40]
Through(what, radius, p) ==
  CASE what = "shrink" -> Shrunk(p)
    [] what = "blur" -> Convolved(p, radius)
    [] what = "expand" -> Doubled(p)

\* end_w and end_h, and how far the bitmap moves
EndSize(axis, size) ==
  LET m == B.method[axis]
      offset == (2 * m.radius + 9) * 2^m.level - 5
  IN  ((size + offset) \div 2^m.level) * 2^m.level - 4
Shift(axis) == (B.method[axis].radius + 4) * 2^B.method[axis].level - 4

Stripes(width) == (width + StripeWidth - 1) \div StripeWidth

\* Of the two buffers
BufferSize == Stripes(EndSize(1, B.bm.size[1])) * StripeWidth * EndSize(2, B.bm.size[2])

-----------------------------------------------------------------------------
(* Bands                                                                   *)

\* blur_bands, and the bounds do_vert and the unpacking put to it.  What works on
\* rows is not split.
InBands == B.pool /\ EndSize(1, B.bm.size[1]) * EndSize(2, B.bm.size[2]) >= MinArea
BandsOf(width, vertical) ==
  IF InBands /\ vertical THEN Max({1, Min({B.threads, Stripes(EndSize(1, B.bm.size[1])), Stripes(width)})})
  ELSE 1
VerticalAt(k) == k = 0 \/ Stages[k][2] = 2
BandsAt(k, width) == 0 .. BandsOf(width, VerticalAt(k)) - 1

\* band_cols: by groups of two stripes, for the alignment
BandStripes(band) ==
  LET n == Stripes(blur.axes[1].size)
      groups == (n + 1) \div 2
      bands == BandsOf(blur.axes[1].size, VerticalAt(blur.at))
      each == (groups + bands - 1) \div bands
  IN  {s \in 0 .. n - 1 : 2 * Min({band * each, groups}) <= s /\ s < 2 * Min({(band + 1) * each, groups})}

-----------------------------------------------------------------------------
(* ass_synth_blur, ass_gaussian_blur                                       *)

TooLarge(size) ==     \* ass_alloc_bitmap
  LET align == 2 * StripeWidth
      stride == ((size[1] + align - 1) \div align) * align
  IN  stride > (MaxInt - align) \div Max({size[2], 1})

\* If there is no memory for the buffers, or they were too large, there is no
\* Gaussian.
StartBlur ==
  /\ blur.step = "start"
  /\ blur' = [blur EXCEPT
       !.step = CASE ~B.buffer -> "blurred"
                  [] B.deferred \/ ~B.gaussian -> "box"
                  [] BufferSize > MaxInt \div 4 \/ B.lacks = "buffers" -> "box"
                  [] OTHER -> "stage",
       !.axes = [i \in Axes |-> Picture(B.bm.size[i])],
       !.todo = BandsAt(0, B.bm.size[1])]

BlurBand ==
  /\ blur.step = "stage"
  /\ \E band \in blur.todo :
       blur' = [blur EXCEPT !.todo = @ \ {band}, !.written = Append(@, BandStripes(band))]

\* A stage begins when all bands of the one before are done; the first is the
\* unpacking, which changes nothing.
StageDone ==
  /\ blur.step = "stage" /\ blur.todo = {} /\ blur.at < Len(Stages)
  /\ LET after(a) == IF blur.at = 0 THEN a
                     ELSE LET s == Stages[blur.at]
                          IN  [a EXCEPT ![s[2]] = Through(s[1], B.method[s[2]].radius, @)]
     IN  blur' = [blur EXCEPT !.at = @ + 1, !.axes = after(@), !.written = <<>>,
                              !.todo = BandsAt(blur.at + 1, after(blur.axes)[1].size)]

LastStage ==
  /\ blur.step = "stage" /\ blur.todo = {} /\ blur.at = Len(Stages)
  /\ LET s == Stages[blur.at]
     IN  blur' = [blur EXCEPT !.step = "pack", !.written = <<>>,
                              !.axes[s[2]] = Through(s[1], B.method[s[2]].radius, @)]

Expanded(size) ==
  [pos |-> [i \in Axes |-> B.bm.pos[i] - Shift(i)], size |-> size]

Pack ==
  /\ blur.step = "pack"
  /\ LET size == [i \in Axes |-> blur.axes[i].size]
     IN  blur' = [blur EXCEPT !.step = "box",
                    !.bm = IF B.lacks = "bitmap" \/ TooLarge(size) THEN @ ELSE Expanded(size)]

\* The box blur works in place, on the pixels around the bitmap that
\* ass_be_padding has left for it; it is not deferred.
BoxBlur ==
  /\ blur.step = "box"
  /\ blur' = [blur EXCEPT !.step = IF B.deferred /\ B.gaussian THEN "expand" ELSE "blurred"]

\* ass_blur_expand_only
ExpandOnly ==
  /\ blur.step = "expand"
  /\ LET size == [i \in Axes |-> EndSize(i, B.bm.size[i])]
     IN  blur' = [blur EXCEPT !.step = "blurred",
                    !.bm = IF B.lacks = "bitmap" \/ TooLarge(size) THEN @ ELSE Expanded(size)]

BlurRun == StartBlur \/ BlurBand \/ StageDone \/ LastStage \/ Pack \/ BoxBlur \/ ExpandOnly

-----------------------------------------------------------------------------
(* What is right                                                           *)

\* The bands of a stage write every stripe once, and each begins where the engine
\* can.
BandsShare ==
  blur.step = "stage" =>
    LET w == blur.written
    IN  /\ \A i, j \in DOMAIN w : i # j => w[i] \cap w[j] = {}
        /\ \A i \in DOMAIN w : w[i] # {} => Min(w[i]) % 2 = 0
        /\ blur.todo = {} => UNION Range(w) = 0 .. Stripes(blur.axes[1].size) - 1

\* No stage loses a part of the picture or writes beyond the buffer, and the
\* last one ends at the size that was foreseen.
PictureWhole ==
  blur.step \in {"stage", "pack"} =>
    /\ \A i \in Axes : blur.axes[i].last < blur.axes[i].size
    /\ Stripes(blur.axes[1].size) * StripeWidth * blur.axes[2].size <= BufferSize
    /\ blur.step = "pack" => \A i \in Axes : blur.axes[i].size = EndSize(i, B.bm.size[i])

\* The blurred bitmap is where the original was, whoever blurs it, and holds all
\* of it; only without memory, or when it is near the largest there can be, the
\* bitmap stays as it is.
Reference(i) ==
  FoldLeft(LAMBDA p, s : IF s[2] = i THEN Through(s[1], B.method[i].radius, p) ELSE p,
           Picture(B.bm.size[i]), Stages)
BlurInPlace ==
  blur.step = "blurred" =>
    LET wanted == B.buffer /\ B.gaussian
        possible == B.lacks = "no" /\ BufferSize <= MaxInt \div 8
    IN  /\ blur.bm = B.bm \/ (wanted /\ \A i \in Axes :
             /\ 16 * (B.bm.pos[i] - blur.bm.pos[i]) = Reference(i).origin
             /\ blur.bm.size[i] = Reference(i).size
             /\ B.bm.pos[i] + B.bm.size[i] <= blur.bm.pos[i] + blur.bm.size[i])
        /\ wanted /\ possible => blur.bm # B.bm
        /\ B.lacks = "bitmap" => blur.bm = B.bm

BlurRight == BandsShare /\ PictureWhole /\ BlurInPlace
=============================================================================
