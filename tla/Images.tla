------------------------------- MODULE Images -------------------------------
(***************************************************************************)
(* Where the samples of an image are in memory: the component tables of    *)
(* video_format.c, the layout and the cropping of mvt_image.c, and the     *)
(* component addresses of mvt_image_priv.h.                                *)
(*                                                                         *)
(* An image is a record; pixels and pitches are functions of the plane,    *)
(* and an address is a number.                                             *)
(***************************************************************************)
EXTENDS ImageFile, Integers

DataAlign == 32

RoundUp(v, a) == ((v + a - 1) \div a) * a

-----------------------------------------------------------------------------
(* video_format.c                                                          *)

Component(plane, offset, stride) ==
  [plane |-> plane, offset |-> offset, stride |-> stride]

Planar(stride) ==
  <<Component(0, 0, stride), Component(1, 0, stride), Component(2, 0, stride)>>

(* C_NV12, C_I420, ...; the RGB formats only as far as xRGB and ARGB.      *)
ComponentTable ==
  [NV12 |-> <<Component(0, 0, 1), Component(1, 0, 2), Component(1, 1, 2)>>,
   YV12 |-> <<Component(0, 0, 1), Component(2, 0, 1), Component(1, 0, 1)>>,
   YUY2 |-> <<Component(0, 0, 2), Component(0, 1, 4), Component(0, 3, 4)>>,
   UYVY |-> <<Component(0, 1, 2), Component(0, 0, 4), Component(0, 2, 4)>>,
   AYUV |-> <<Component(0, 1, 4), Component(0, 2, 4), Component(0, 3, 4),
              Component(0, 0, 4)>>,
   ARGB |-> <<Component(0, 1, 4), Component(0, 2, 4), Component(0, 3, 4),
              Component(0, 0, 4)>>,
   xRGB |-> <<Component(0, 1, 4), Component(0, 2, 4), Component(0, 3, 4)>>,
   Y800 |-> <<Component(0, 0, 1)>>]

Components(format) ==
  IF format \in DOMAIN ComponentTable THEN ComponentTable[format]
  ELSE Planar(BytesPerSample(format))

ComponentsOf(format) == DOMAIN Components(format)

Planes(format) == {Components(format)[i].plane : i \in ComponentsOf(format)}

(* chroma_w_shift and chroma_h_shift, for every component but the first.   *)
WidthShift(format) ==
  IF VideoFormatInfo[format].chroma \in {"420", "422"} THEN 2 ELSE 1

HeightShift(format) == IF VideoFormatInfo[format].chroma = "420" THEN 2 ELSE 1

(* video_format_normalize(): planar, with the chroma and the depth kept.   *)
Normalize(format) ==
  LET info == VideoFormatInfo[format]
  IN  IF info.chroma = "400" THEN "Y800"
      ELSE IF info.chroma = "rgb32" THEN "ARGB"
      ELSE CHOOSE f \in VideoFormats :
             /\ VideoFormatInfo[f] = Info(info.chroma, 3, info.depth)
             /\ f \notin DOMAIN ComponentTable

-----------------------------------------------------------------------------
(* mvt_image_init() and mvt_image_new(): rows and planes aligned to 32.    *)

ComponentPitch(format, i, width) ==
  RoundUp((Components(format)[i].stride * RoundUp(width, DataAlign))
            \div (IF i > 1 THEN WidthShift(format) ELSE 1), DataAlign)

ComponentRows(format, i, height) ==
  RoundUp(height, DataAlign) \div (IF i > 1 THEN HeightShift(format) ELSE 1)

(* The first component in a plane; the others have to agree with it.       *)
FirstIn(format, plane) ==
  CHOOSE i \in ComponentsOf(format) :
    /\ Components(format)[i].plane = plane
    /\ \A j \in ComponentsOf(format) : Components(format)[j].plane = plane => i <= j

Pitch(format, plane, width) == ComponentPitch(format, FirstIn(format, plane), width)

Rows(format, plane, height) == ComponentRows(format, FirstIn(format, plane), height)

LayoutAgrees(format, width, height) ==
  \A i \in ComponentsOf(format) :
    LET plane == Components(format)[i].plane
    IN  /\ ComponentPitch(format, i, width) = Pitch(format, plane, width)
        /\ ComponentRows(format, i, height) = Rows(format, plane, height)

PlaneSize(format, plane, width, height) ==
  Rows(format, plane, height) * Pitch(format, plane, width)

Offset(format, plane, width, height) ==
  IF plane = 0 THEN 0
  ELSE PlaneSize(format, 0, width, height)
       + (IF plane = 2 THEN PlaneSize(format, 1, width, height) ELSE 0)

NewImage(format, width, height, base) ==
  [format  |-> format, width |-> width, height |-> height,
   pitches |-> [p \in Planes(format) |-> Pitch(format, p, width)],
   pixels  |-> [p \in Planes(format) |-> base + Offset(format, p, width, height)]]

-----------------------------------------------------------------------------
(* Views of an image that share its memory                                 *)

Rectangle(x, y, width, height) ==
  [x |-> x, y |-> y, width |-> width, height |-> height]

(* mvt_image_init_from_subimage() refuses a corner between chroma samples. *)
CropAccepted(image, rect) ==
  IsYuv(image.format) /\ VideoFormatInfo[image.format].components > 1
  => /\ rect.x % WidthShift(image.format) = 0
     /\ rect.y % HeightShift(image.format) = 0

(* video_format_get_pixel_pitches(): the stride of the first component.    *)
PixelPitch(format, plane) == Components(format)[FirstIn(format, plane)].stride

(* The chroma moved by as many rows as the luma.                           *)
SubImageUnshifted(image, rect) ==
  [image EXCEPT !.width = rect.width, !.height = rect.height,
                !.pixels = [p \in DOMAIN image.pixels |->
                              image.pixels[p] + rect.y * image.pitches[p]
                              + rect.x * PixelPitch(image.format, p)]]

SubImage(image, rect) ==
  LET shift(plane, n) == IF plane = 0 THEN 1 ELSE n
      move(plane) ==
        (rect.y * image.pitches[plane]) \div shift(plane, HeightShift(image.format))
        + (rect.x * PixelPitch(image.format, plane))
            \div shift(plane, WidthShift(image.format))
  IN  [image EXCEPT !.width = rect.width, !.height = rect.height,
                    !.pixels = [p \in DOMAIN image.pixels |->
                                  image.pixels[p] + move(p)]]

-----------------------------------------------------------------------------
(* get_component_ptr(), and the samples that an image shows                *)

ComponentAddress(image, i, x, y) ==
  LET c == Components(image.format)[i]
  IN  image.pixels[c.plane] + y * image.pitches[c.plane] + x * c.stride + c.offset

SamplesAcross(image, i) ==
  IF i = 1 THEN image.width
  ELSE (image.width + WidthShift(image.format) - 1) \div WidthShift(image.format)

SamplesDown(image, i) ==
  IF i = 1 THEN image.height
  ELSE (image.height + HeightShift(image.format) - 1) \div HeightShift(image.format)
=============================================================================
