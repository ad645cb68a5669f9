----------------------------- MODULE ImageFile -----------------------------
(***************************************************************************)
(* The Y4M files of mvt_image_file.c, and the video formats of             *)
(* video_format.c as far as a file tells them apart.                       *)
(*                                                                         *)
(* A file is a sequence of cells: the header line, the FRAME line in front *)
(* of a picture, and one cell per sample.  What is read as samples may be  *)
(* any cells: fread() does not look at them.                               *)
(***************************************************************************)
EXTENDS Naturals, Sequences

(* g_video_formats.  The eight RGB formats differ in ways no file sees.    *)
Info(chroma, components, depth) ==
  [chroma |-> chroma, components |-> components, depth |-> depth]

VideoFormatInfo ==
  [NV12 |-> Info("420", 3, 8),     YV12 |-> Info("420", 3, 8),
   I420 |-> Info("420", 3, 8),     I420P10 |-> Info("420", 3, 10),
   I420P12 |-> Info("420", 3, 12), I420P16 |-> Info("420", 3, 16),
   YUY2 |-> Info("422", 3, 8),     UYVY |-> Info("422", 3, 8),
   I422 |-> Info("422", 3, 8),     I422P10 |-> Info("422", 3, 10),
   I422P12 |-> Info("422", 3, 12), I422P16 |-> Info("422", 3, 16),
   I444 |-> Info("444", 3, 8),     I444P10 |-> Info("444", 3, 10),
   I444P12 |-> Info("444", 3, 12), I444P16 |-> Info("444", 3, 16),
   AYUV |-> Info("444", 4, 8),     Y800 |-> Info("400", 1, 8),
   xRGB |-> Info("rgb32", 3, 8),   ARGB |-> Info("rgb32", 4, 8)]

VideoFormats == DOMAIN VideoFormatInfo

IsYuv(format) == VideoFormatInfo[format].chroma # "rgb32"

(* Samples of one chroma component: half of an odd size is rounded up.     *)
ChromaWidth(format, width) ==
  IF VideoFormatInfo[format].chroma \in {"420", "422"}
    THEN (width + 1) \div 2 ELSE width

ChromaHeight(format, height) ==
  IF VideoFormatInfo[format].chroma = "420" THEN (height + 1) \div 2 ELSE height

BytesPerSample(format) == IF VideoFormatInfo[format].depth > 8 THEN 2 ELSE 1

(* The first n components; the fourth one, alpha, is measured like the     *)
(* chroma, which only 4:4:4 formats can afford.                            *)
BytesOf(format, width, height, n) ==
  (width * height
     + (n - 1) * ChromaWidth(format, width) * ChromaHeight(format, height))
  * BytesPerSample(format)

NumBytes(format, width, height) ==
  BytesOf(format, width, height, VideoFormatInfo[format].components)

-----------------------------------------------------------------------------
(* The colorspace written for a format, and the format read for it.        *)

Colorspace(format) ==
  LET info == VideoFormatInfo[format]
  IN  CASE info.chroma = "400" -> "mono"
        [] info.chroma \in {"420", "422"} -> info.chroma
        [] OTHER -> IF info.components = 4 THEN "444alpha" ELSE "444"

(* y4m_get_video_format(); 8-bit 4:4:4 is not in the list.                 *)
Y4mFormats ==
  {<<"mono", 8, "Y800">>, <<"444alpha", 8, "AYUV">>,
   <<"420", 8, "I420">>,  <<"420", 10, "I420P10">>, <<"420", 12, "I420P12">>,
   <<"420", 16, "I420P16">>,
   <<"422", 8, "YUY2">>,  <<"422", 10, "I422P10">>, <<"422", 12, "I422P12">>,
   <<"422", 16, "I422P16">>,
   <<"444", 10, "I444P10">>, <<"444", 12, "I444P12">>, <<"444", 16, "I444P16">>}

(* The depth that follows the chroma is not read: a mistake.               *)
ReadChroma(colorspace, depth) ==
  IF \E f \in VideoFormats : <<colorspace, 8, f>> \in Y4mFormats
    THEN CHOOSE f \in VideoFormats : <<colorspace, 8, f>> \in Y4mFormats
    ELSE "unknown"

ReadFormat(colorspace, depth) ==
  IF \E f \in VideoFormats : <<colorspace, depth, f>> \in Y4mFormats
    THEN CHOOSE f \in VideoFormats : <<colorspace, depth, f>> \in Y4mFormats
    ELSE "unknown"

-----------------------------------------------------------------------------
(* Headers                                                                 *)

(* mvt_image_info_init_defaults()                                          *)
DefaultInfo == [format |-> "unknown", width |-> 0, height |-> 0, fps |-> 60]

(* A frame rate or aspect ratio of zero is replaced by the default.        *)
DefaultRates(info) == IF info.fps = 0 THEN [info EXCEPT !.fps = 60] ELSE info

Header(info) ==
  [kind |-> "header", width |-> info.width, height |-> info.height,
   fps |-> info.fps, colorspace |-> Colorspace(info.format),
   depth |-> VideoFormatInfo[info.format].depth]

HeaderInfo(cell) ==
  [format |-> ReadFormat(cell.colorspace, cell.depth), width |-> cell.width,
   height |-> cell.height, fps |-> cell.fps]

(* Its header can be read, and an image of its format be allocated.        *)
HasHeader(file) ==
  /\ file # <<>> /\ file[1].kind = "header"
  /\ HeaderInfo(file[1]).format # "unknown"

-----------------------------------------------------------------------------
(* Cells and images                                                        *)

FrameTag == [kind |-> "frame"]

Byte(picture, at) == [kind |-> "byte", picture |-> picture, at |-> at]

Image(format, width, height, samples) ==
  [format |-> format, width |-> width, height |-> height, samples |-> samples]

(* The picture with this number, as a decoder outputs it.                  *)
Picture(number, format, width, height) ==
  Image(format, width, height,
        [i \in 1..NumBytes(format, width, height) |-> Byte(number, i)])

(* y4m_write_image(): the samples are those of the image, whatever size    *)
(* the header has.                                                         *)
FrameCells(image) == <<FrameTag>> \o image.samples

(* mvt_image_hash(): the samples of the first three components, whatever   *)
(* their layout in memory.  Grayscale adds constant chroma.                *)
Hash(image) ==
  LET n == VideoFormatInfo[image.format].components
  IN  SubSeq(image.samples, 1,
             BytesOf(image.format, image.width, image.height,
                     IF n > 3 THEN 3 ELSE n))

-----------------------------------------------------------------------------
(* Reading                                                                 *)

(* An image at a FRAME line, when the file has all of its samples.         *)
HasImage(file, pos, info) ==
  /\ pos <= Len(file) /\ file[pos] = FrameTag
  /\ pos + NumBytes(info.format, info.width, info.height) <= Len(file)

AfterImage(pos, info) ==
  pos + NumBytes(info.format, info.width, info.height) + 1

ImageAt(file, pos, info) ==
  Image(info.format, info.width, info.height,
        SubSeq(file, pos + 1,
               pos + NumBytes(info.format, info.width, info.height)))
=============================================================================
