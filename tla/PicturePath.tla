---------------------------- MODULE PicturePath ----------------------------
(***************************************************************************)
(* From a decoded picture to its hash: decoder_vaapi_handle_frame() of     *)
(* dec_ffmpeg.c, app_handle_sw_surface() and app_handle_hw_surface_vaapi() *)
(* of dec_gstreamer.c, mvt_decoder_ffmpeg_handle_frame(), the copy out of  *)
(* a surface in mvt_image_convert.c, and mvt_image_hash.c over Adler32.    *)
(*                                                                         *)
(* Memory is bytes at addresses: that of the picture is a function of the  *)
(* address that tells its bytes apart, that of the application's own image *)
(* holds what was written to it.                                           *)
(***************************************************************************)
EXTENDS Images, Adler32, SequencesExt

CONSTANTS
  Streams,   \* sequences of pictures
  Paths,     \* the decoders, and whether they decode in software
  CacheMin,  \* least size of the copy cache: 4096
  Leftover,  \* bytes that memory may hold before it is written
  Faults     \* memory may be exhausted, and a mapping may fail

ASSUME PathAssumption ==
  /\ Paths \subseteq {"ffmpeg_sw", "ffmpeg_vaapi", "gst_sw", "gst_vaapi"}
  /\ CacheMin \in Nat \ {0} /\ CacheMin % 16 = 0
  /\ Leftover \subseteq UInt8 /\ Leftover # {}
  /\ Faults \in BOOLEAN

VARIABLES
  path,      \* the decoder
  stream,    \* its pictures
  taken,     \* pictures of the stream taken so far
  stage,     \* what is being done with the picture
  image,     \* the cropped image of the picture
  own,       \* decoder->image, app->image
  memory,    \* the bytes of own
  cacheSize, \* copy_cache_size of own, 0 when there is no cache
  cache,     \* the bytes of copy_cache
  copies,    \* planes still to be copied
  line,      \* rows done of the first of them
  grayRow,   \* hash_data of own has been filled
  updates,   \* calls of mvt_hash_update() still to be made
  reports,   \* pictures reported
  refused,   \* pictures not reported
  denied     \* history: pictures that found no mapping, or no memory

pathVars == <<path, stream>>
copyVars == <<cacheSize, cache, copies, line, grayRow>>
outVars  == <<reports, refused>>
vars == <<hashVars, pathVars, taken, stage, image, own, memory, copyVars,
          updates, outVars, denied>>

-----------------------------------------------------------------------------
(* Pictures                                                                *)

(* A picture with its visible part, which starts at (x, y), and the layout *)
(* of its memory.                                                          *)
Decoded(format, rect, codedWidth, codedHeight, pitch, base, white) ==
  [format |-> format, rect |-> rect, codedWidth |-> codedWidth,
   codedHeight |-> codedHeight, pitch |-> pitch, base |-> base,
   white |-> white]

(* The visible part of a picture has samples and lies inside of it, and a  *)
(* row is not longer than the pitch.                                       *)
Rectangles == [x : Nat, y : Nat, width : Nat \ {0}, height : Nat \ {0}]

Pictures ==
  {picture \in [format : VideoFormats, rect : Rectangles, codedWidth : Nat,
                codedHeight : Nat, pitch : Nat, base : Nat, white : BOOLEAN] :
     /\ picture.rect.x + picture.rect.width <= picture.codedWidth
     /\ picture.rect.y + picture.rect.height <= picture.codedHeight
     /\ picture.codedWidth * PixelPitch(picture.format, 0) <= picture.pitch}

ASSUME StreamAssumption == Streams \subseteq Seq(Pictures)

SourceByte(picture, address) ==
  IF picture.white THEN 255
  ELSE (7 * address + 5 * (address \div 16) + 3 * picture.codedWidth) % 256

(* The whole picture as its owner lays it out, plane after plane.          *)
SourcePitch(picture, plane) ==
  IF plane = 0 THEN picture.pitch
  ELSE (picture.pitch * PixelPitch(picture.format, plane))
         \div (PixelPitch(picture.format, 0) * WidthShift(picture.format))

SourceImage(picture) ==
  LET rows(p) == picture.codedHeight
                   \div (IF p = 0 THEN 1 ELSE HeightShift(picture.format))
      size(p) == rows(p) * SourcePitch(picture, p)
      above(p) == (IF p > 0 THEN size(0) ELSE 0) + (IF p > 1 THEN size(1) ELSE 0)
  IN  [format |-> picture.format,
       width |-> picture.codedWidth, height |-> picture.codedHeight,
       pitches |-> [p \in Planes(picture.format) |-> SourcePitch(picture, p)],
       pixels |-> [p \in Planes(picture.format) |-> picture.base + above(p)]]

Picture0 == stream[taken]

InHardware == path \in {"ffmpeg_vaapi", "gst_vaapi"}

(* decoder_vaapi_handle_frame() knows the corner only by the offset that   *)
(* libavcodec adds to data[0], with the line size of get_buffer().         *)
CropRect(picture) ==
  LET rect   == picture.rect
      line0  == picture.codedWidth
      offset == rect.y * line0 + rect.x
  IN  IF path = "ffmpeg_vaapi"
        THEN Rectangle(offset % line0, offset \div line0, rect.width, rect.height)
        ELSE rect

-----------------------------------------------------------------------------
(* No driver derives an image of more than 8 bits from a surface; the      *)
(* codecs state the corner in chroma samples, and the software decoders of *)
(* libavcodec have planes.                                                 *)
Possible(picture) ==
  /\ InHardware => VideoFormatInfo[picture.format].depth = 8
  /\ path \in {"ffmpeg_sw", "ffmpeg_vaapi"} =>
       CropAccepted(SourceImage(picture), picture.rect)
  /\ path = "ffmpeg_sw" =>
       picture.format \notin DOMAIN ComponentTable \ {"Y800"}

NoImage == [format |-> "none"]

Init ==
  /\ HashReady
  /\ path \in Paths /\ stream \in Streams
  /\ \A i \in 1..Len(stream) : Possible(stream[i])
  /\ taken = 0 /\ stage = "next"
  /\ image = NoImage /\ own = NoImage /\ memory = <<>>
  /\ cacheSize = 0 /\ cache = <<>> /\ copies = <<>> /\ line = 0
  /\ grayRow = FALSE /\ updates = <<>>
  /\ reports = <<>> /\ refused = {}
  /\ denied = {}

(* FFmpeg's run ends with the first picture that is refused.               *)
Refuse(n) ==
  /\ refused' = refused \cup {n}
  /\ stage' = IF path \in {"ffmpeg_sw", "ffmpeg_vaapi"} THEN "end" ELSE "next"
  /\ UNCHANGED reports

(* mvt_fatal_error() exits.                                                *)
Exit(n) ==
  /\ refused' = refused \cup {n} /\ stage' = "end"
  /\ UNCHANGED reports

(* g_video_format_map: what app_handle_sw_surface() knows.  Every format   *)
(* that libavcodec can decode into is known to FFmpeg's handler.           *)
GstFormats == {"I420", "I422", "I444", "YV12", "NV12", "YUY2", "UYVY", "AYUV",
               "I420P10", "I422P10", "I444P10"}

Known(picture) == path = "gst_sw" => picture.format \in GstFormats

Denied(n, what) == denied' = denied \cup {<<n, what>>}

(* The picture is mapped and cropped: by libavcodec, in memory, when it    *)
(* decodes in software.  vaDeriveImage(), va_map_image(), gst_buffer_map() *)
(* and gst_video_frame_map() may fail.                                     *)
TakePicture ==
  /\ stage = "next" /\ taken < Len(stream)
  /\ taken' = taken + 1
  /\ LET picture == stream[taken + 1]
         source  == SourceImage(picture)
         rect    == CropRect(picture)
     IN  \/ /\ Known(picture) /\ CropAccepted(source, rect)
            /\ image' = SubImage(source, rect)
            /\ stage' = IF InHardware THEN "image" ELSE "hash"
            /\ UNCHANGED <<outVars, denied>>
         \/ /\ ~(Known(picture) /\ CropAccepted(source, rect))
            /\ Refuse(taken + 1)
            /\ UNCHANGED <<image, denied>>
         \/ /\ Faults /\ path # "ffmpeg_sw" /\ Known(picture)
            /\ Refuse(taken + 1) /\ Denied(taken + 1, "mapping")
            /\ UNCHANGED image
  /\ UNCHANGED <<hashVars, pathVars, own, memory, copyVars, updates>>

(* The own image is kept as long as its size is right, whatever its format *)
(* is; the mutated form forgets the height.                                *)
SizeKeptByWidth == own # NoImage /\ own.width = image.width

SizeKept ==
  /\ own # NoImage
  /\ own.width = image.width /\ own.height = image.height

OwnFormat == IF path = "ffmpeg_vaapi" THEN "I420" ELSE Normalize(image.format)

KeepImage ==
  /\ stage = "image" /\ SizeKept
  /\ stage' = "convert"
  /\ UNCHANGED <<hashVars, pathVars, taken, image, own, memory, copyVars,
                 updates, outVars, denied>>

(* mvt_image_priv_free(): the cache goes with the image, or is kept.       *)
KeepCopyCache == UNCHANGED <<cacheSize, cache, grayRow>>

FreeCopyCache == cacheSize' = 0 /\ cache' = <<>> /\ grayRow' = FALSE

(* mvt_image_freep() and mvt_image_new()                                   *)
NewOwnImage ==
  /\ stage = "image" /\ ~SizeKept
  /\ memory' = <<>> /\ FreeCopyCache
  /\ \/ /\ LayoutAgrees(OwnFormat, image.width, image.height)
        /\ own' = NewImage(OwnFormat, image.width, image.height, 0)
        /\ stage' = "convert"
        /\ UNCHANGED <<outVars, denied>>
     \/ /\ Faults
        /\ own' = NoImage
        /\ Refuse(taken) /\ Denied(taken, "memory")
  /\ UNCHANGED <<hashVars, pathVars, taken, image, copies, line, updates>>

-----------------------------------------------------------------------------
(* mvt_image_convert_full(), from uncached memory                          *)

Chroma(format) == VideoFormatInfo[format].chroma

Convertible ==
  /\ own.width = image.width /\ own.height = image.height
  /\ Chroma(own.format) = Chroma(image.format)

ConvertExits ==
  /\ stage = "convert" /\ ~Convertible
  /\ Exit(taken)
  /\ UNCHANGED <<hashVars, pathVars, taken, image, own, memory, copyVars,
                 updates, denied>>

(* image_convert_uswc(), when its cache can be had.                        *)
UswcCopy == own.format = "I420" /\ image.format \in {"NV12", "I420"}

(* Bytes of the own image are written, and the others stay.                *)
Write(bytes) ==
  memory' = [a \in DOMAIN bytes \cup DOMAIN memory |->
               IF a \in DOMAIN bytes THEN bytes[a] ELSE memory[a]]

(* The plane with this number, from one plane to one or two others; width  *)
(* and rows are those of the destination.                                  *)
PlaneCopy(plane, targets, width, rows) ==
  [from |-> plane, to |-> targets, width |-> width, rows |-> rows]

HalfUp(n) == (n + 1) \div 2

Copies ==
  <<PlaneCopy(0, <<0>>, own.width, own.height)>> \o
  IF image.format = "NV12"
    THEN <<PlaneCopy(1, <<1, 2>>, HalfUp(own.width), HalfUp(own.height))>>
    ELSE [p \in 1..2 |-> PlaneCopy(p, <<p>>, HalfUp(own.width), HalfUp(own.height))]

EnsureCopyCache ==
  /\ cacheSize' = IF cacheSize > 0 THEN cacheSize
                  ELSE IF RoundUp(own.width, 16) > CacheMin
                         THEN RoundUp(own.width, 16) ELSE CacheMin
  /\ UNCHANGED cache

StartCopies ==
  /\ stage = "convert" /\ Convertible /\ UswcCopy
  /\ EnsureCopyCache
  /\ copies' = Copies /\ line' = 0
  /\ stage' = "copy"
  /\ UNCHANGED <<hashVars, pathVars, taken, image, own, memory, grayRow,
                 updates, outVars, denied>>

(* Bytes in a row of the plane, the bytes of both targets interleaved, the *)
(* rows of the cache, and how many of them fit.                            *)
RowBytes(copy) == copy.width * Len(copy.to)

CacheRow(copy) == RoundUp(RowBytes(copy), 16)

Band(copy) ==
  LET step == cacheSize \div CacheRow(copy)
      left == copy.rows - line
  IN  IF step < left THEN step ELSE left

(* CopyFromUswc(): the bytes in front of an aligned address come first,    *)
(* even when the row ends before.                                          *)
RowAddress(copy, row) ==
  image.pixels[copy.from] + (line + row) * image.pitches[copy.from]

Fetched(copy, row) ==
  LET unaligned == (16 - (RowAddress(copy, row) % 16)) % 16
  IN  IF unaligned > RowBytes(copy) THEN unaligned ELSE RowBytes(copy)

CacheFilled == cache # <<>>

FillCache ==
  /\ stage = "copy" /\ copies # <<>> /\ ~CacheFilled
  /\ LET copy == copies[1]
         cells == UNION {{<<row, x>> : x \in 0..Fetched(copy, row) - 1} :
                         row \in 0..Band(copy) - 1}
         at(cell) == cell[1] * CacheRow(copy) + cell[2]
     IN  cache' = [a \in {at(cell) : cell \in cells} |->
                     SourceByte(Picture0,
                                RowAddress(copy, a \div CacheRow(copy))
                                  + (a % CacheRow(copy)))]
  /\ UNCHANGED <<hashVars, pathVars, taken, stage, image, own, memory,
                 cacheSize, copies, line, grayRow, updates, outVars, denied>>

(* Copy2d() and SSE_SplitUV(): target t takes byte t of each group.        *)
Drained(copy) ==
  LET step == Len(copy.to)
      address(t, row, x) ==
        own.pixels[copy.to[t]] + (line + row) * own.pitches[copy.to[t]] + x
      cells == (1..step) \X (0..Band(copy) - 1) \X (0..copy.width - 1)
      byte(cell) == cache[cell[2] * CacheRow(copy) + step * cell[3] + cell[1] - 1]
      written == {<<address(cell[1], cell[2], cell[3]), byte(cell)>> : cell \in cells}
  IN  [a \in {w[1] : w \in written} |-> (CHOOSE w \in written : w[1] = a)[2]]

DrainCache ==
  /\ stage = "copy" /\ copies # <<>> /\ CacheFilled
  /\ LET copy == copies[1]
     IN  /\ Write(Drained(copy))
         /\ IF line + Band(copy) < copy.rows
              THEN line' = line + Band(copy) /\ UNCHANGED copies
              ELSE line' = 0 /\ copies' = Tail(copies)
  /\ cache' = <<>>
  /\ UNCHANGED <<hashVars, pathVars, taken, stage, image, own, cacheSize,
                 grayRow, updates, outVars, denied>>

CopiesDone ==
  /\ stage = "copy" /\ copies = <<>>
  /\ stage' = "hash"
  /\ UNCHANGED <<hashVars, pathVars, taken, image, own, memory, copyVars,
                 updates, outVars, denied>>

(* Without a cache libyuv does it, sample by sample.                       *)
Converted ==
  LET cells == UNION {{<<i, x, y>> : x \in 0..SamplesAcross(own, i) - 1,
                                     y \in 0..SamplesDown(own, i) - 1} :
                      i \in ComponentsOf("I420")}
      target(c) == ComponentAddress(own, c[1], c[2], c[3])
      source(c) == ComponentAddress(image, c[1], c[2], c[3])
      written == {<<target(c), SourceByte(Picture0, source(c))>> : c \in cells}
  IN  [a \in {w[1] : w \in written} |-> (CHOOSE w \in written : w[1] = a)[2]]

ConvertByLibyuv ==
  /\ stage = "convert" /\ Convertible /\ UswcCopy
  /\ Faults /\ cacheSize = 0
  /\ Write(Converted)
  /\ stage' = "hash"
  /\ UNCHANGED <<hashVars, pathVars, taken, image, own, copyVars, updates,
                 outVars, denied>>

(* image_copy_internal(): every plane goes to the first one.               *)
CopiedPlanes ==
  LET stride(p) == IF own.pitches[p] < image.pitches[p]
                     THEN own.pitches[p] ELSE image.pitches[p]
      row(a, p) == (a - own.pixels[0]) \div own.pitches[p]
      column(a, p) == (a - own.pixels[0]) % own.pitches[p]
      inPlane(p) == {own.pixels[0] + y * own.pitches[p] + x :
                       y \in 0..own.height - 1, x \in 0..stride(p) - 1}
      last(a) == CHOOSE p \in Planes(own.format) :
                   /\ a \in inPlane(p)
                   /\ \A q \in Planes(own.format) : a \in inPlane(q) => q <= p
      source(a, p) == image.pixels[p] + row(a, p) * image.pitches[p] + column(a, p)
  IN  [a \in UNION {inPlane(p) : p \in Planes(own.format)} |->
         SourceByte(Picture0, source(a, last(a)))]

CopyInternal ==
  /\ stage = "convert" /\ Convertible /\ ~UswcCopy
  /\ own.format = image.format
  /\ Write(CopiedPlanes)
  /\ stage' = "hash"
  /\ UNCHANGED <<hashVars, pathVars, taken, image, own, copyVars, updates,
                 outVars, denied>>

Unsupported ==
  /\ stage = "convert" /\ Convertible /\ ~UswcCopy
  /\ own.format # image.format
  /\ Refuse(taken)
  /\ UNCHANGED <<hashVars, pathVars, taken, image, own, memory, copyVars,
                 updates, denied>>

-----------------------------------------------------------------------------
(* mvt_image_hash()                                                        *)

Hashed == IF InHardware THEN own ELSE image

Update(from, at, n) == [from |-> from, at |-> at, n |-> n]

(* A row at once, or sample by sample when others are in between.          *)
ComponentUpdates(from, i) ==
  LET n == BytesPerSample(Hashed.format)
      across == SamplesAcross(Hashed, i)
      down == SamplesDown(Hashed, i)
  IN  IF Components(Hashed.format)[i].stride = n
        THEN [y \in 1..down |->
                Update(from, ComponentAddress(Hashed, i, 0, y - 1), across * n)]
        ELSE [k \in 1..across * down |->
                Update(from, ComponentAddress(Hashed, i, (k - 1) % across,
                                              (k - 1) \div across), n)]

(* Constant chroma, from hash_data, which malloc() aligns.                 *)
GrayUpdates ==
  [k \in 1..2 * HalfUp(Hashed.height) |-> Update("gray", 0, HalfUp(Hashed.width))]

Grayscale == VideoFormatInfo[Hashed.format].components = 1

Updates ==
  LET from == IF InHardware THEN "own" ELSE "surface"
  IN  IF Grayscale
        THEN ComponentUpdates(from, 1) \o GrayUpdates
        ELSE ComponentUpdates(from, 1) \o ComponentUpdates(from, 2)
               \o ComponentUpdates(from, 3)

(* The row of gray chroma stays with the own image; that of a decoder in   *)
(* software is new for every picture.                                      *)
HashStarts ==
  /\ stage = "hash" /\ IsYuv(Hashed.format)
  /\ HashInit
  /\ updates' = Updates
  /\ grayRow' = (grayRow \/ (Grayscale /\ InHardware))
  /\ stage' = "update"
  /\ UNCHANGED <<pathVars, taken, image, own, memory, cacheSize, cache, copies,
                 line, outVars, denied>>

(* Not for RGB, and there may be no memory for the row.                    *)
HashRefused ==
  /\ stage = "hash" /\ Refuse(taken)
  /\ \/ ~IsYuv(Hashed.format) /\ UNCHANGED denied
     \/ Faults /\ Grayscale /\ ~grayRow /\ Denied(taken, "memory")
  /\ UNCHANGED <<hashVars, pathVars, taken, image, own, memory, copyVars,
                 updates>>

(* posix_memalign() clears nothing: leftover is what is read where nothing *)
(* has been written.                                                       *)
Load(from, address, leftover) ==
  CASE from = "surface" -> SourceByte(Picture0, address)
    [] from = "own"     -> IF address \in DOMAIN memory THEN memory[address]
                                                       ELSE leftover
    [] from = "gray"    -> 128

HashUpdate ==
  /\ stage = "update" /\ updates # <<>>
  /\ \E leftover \in Leftover :
       LET u == updates[1]
           data == [i \in 0..u.n - 1 |-> Load(u.from, u.at + i, leftover)]
       IN  IF u.n = 1 /\ kernel # "c" THEN UpdateByte(data)
                                      ELSE Start(data, u.n, u.at % 16)
  /\ updates' = Tail(updates)
  /\ UNCHANGED <<pathVars, taken, stage, image, own, memory, copyVars, outVars,
                 denied>>

HashGoesOn ==
  /\ stage = "update"
  /\ HashStep
  /\ UNCHANGED <<pathVars, taken, stage, image, own, memory, copyVars, updates,
                 outVars, denied>>

Report ==
  /\ stage = "update" /\ updates = <<>> /\ hpc = "idle"
  /\ reports' = Append(reports, [picture |-> taken, hash |-> Unpack(value)])
  /\ stage' = "next"
  /\ UNCHANGED <<hashVars, pathVars, taken, image, own, memory, copyVars,
                 updates, refused, denied>>

(* The end of the stream, an exit, or a read past the data.                *)
Terminated ==
  /\ stage = "end" \/ hpc = "overrun" \/ (stage = "next" /\ taken = Len(stream))
  /\ UNCHANGED vars

Next ==
  \/ TakePicture \/ KeepImage \/ NewOwnImage
  \/ ConvertExits \/ StartCopies \/ FillCache \/ DrainCache \/ CopiesDone
  \/ ConvertByLibyuv \/ CopyInternal \/ Unsupported
  \/ HashStarts \/ HashRefused \/ HashUpdate \/ HashGoesOn \/ Report
  \/ Terminated

Spec == Init /\ [][Next]_vars

-----------------------------------------------------------------------------
(* Properties                                                              *)

(* The bytes of the visible part in the order of mvt_image_hash(), taken   *)
(* from the uncropped picture, with gray chroma where there is none.       *)
ShownBytes(picture, i) ==
  LET source == SourceImage(picture)
      format == picture.format
      corner == IF i = 1 THEN picture.rect
                ELSE [x |-> picture.rect.x \div WidthShift(format),
                      y |-> picture.rect.y \div HeightShift(format)]
      n == BytesPerSample(format)
      shown == [format |-> format, width |-> picture.rect.width,
                height |-> picture.rect.height]
      across == n * SamplesAcross(shown, i)
      down == SamplesDown(shown, i)
      at(k) == ComponentAddress(source, i, corner.x + ((k % across) \div n),
                                corner.y + (k \div across)) + (k % n)
  IN  [k \in 1..across * down |-> SourceByte(picture, at(k - 1))]

ShownPicture(picture) ==
  IF VideoFormatInfo[picture.format].components = 1
    THEN ShownBytes(picture, 1)
           \o [k \in 1..2 * HalfUp(picture.rect.width) * HalfUp(picture.rect.height)
                |-> 128]
    ELSE ShownBytes(picture, 1) \o ShownBytes(picture, 2) \o ShownBytes(picture, 3)

(* Adler-32 as a sum over all of the data.                                 *)
Adler(bytes) ==
  Reduced(Sums(FoldFunctionOnSet(+, 0, bytes, DOMAIN bytes),
               FoldFunctionOnSet(+, 0,
                 [k \in DOMAIN bytes |-> (Len(bytes) + 1 - k) * bytes[k]],
                 DOMAIN bytes)))

Croppable(picture) == CropAccepted(SourceImage(picture), picture.rect)

Supported(picture) ==
  /\ IsYuv(picture.format) /\ Known(picture)
  /\ Croppable(picture)
  /\ InHardware => \/ picture.format \in {"NV12", "I420"}
                   \/ path = "gst_vaapi" /\ picture.format = "Y800"

(* What is reported for a picture of a supported format is the Adler-32 of *)
(* its visible samples, whatever was cropped, copied through the cache,    *)
(* split, converted or kept from the picture before, and by whichever      *)
(* implementation.  What image_copy_internal() makes of a surface with     *)
(* planes of another chroma than 4:2:0 is not the picture.                 *)
PictureHash ==
  stage = "next" /\ reports # <<>> /\ ~narrow =>
    LET last == reports[Len(reports)]
    IN  Supported(stream[last.picture]) =>
          last.hash = Adler(ShownPicture(stream[last.picture]))

(* "assert(hstep > 0)": a row fits into the cache whatever the size of the *)
(* pictures before, no copy leaves the cache or the planes of the image    *)
(* that owns them, and the two never belong to pictures of another size.   *)
CopyFits ==
  stage = "copy" =>
    /\ own.width = image.width /\ own.height = image.height
    /\ DOMAIN cache \subseteq 0..cacheSize - 1
    /\ copies # <<>> => Band(copies[1]) > 0
    /\ \A a \in DOMAIN memory : \E p \in DOMAIN own.pixels :
         LET offset == a - own.pixels[p]
         IN  0 <= offset /\ offset < PlaneSize(own.format, p, own.width, own.height)

(* The own image was looked at: the picture could be mapped and cropped.   *)
Unmapped(n) == <<n, "mapping">> \in denied

LookedAt(n) == Croppable(stream[n]) /\ ~Unmapped(n)

(* A picture is missing from the report only when its format or its crop   *)
(* is not supported, it could not be mapped, no memory was left for its    *)
(* copy or its gray chroma, or the own image was made for an earlier       *)
(* picture of another format and kept, because all that came since had the *)
(* same size.                                                              *)
RefusedForAReason ==
  \A n \in refused :
    \/ ~Supported(stream[n])
    \/ \E what \in {"mapping", "memory"} : <<n, what>> \in denied
    \/ /\ InHardware
       /\ \E m \in 1..n - 1 :
            /\ LookedAt(m)
            /\ Chroma(stream[m].format) # Chroma(stream[n].format)
            /\ \A k \in m..n : LookedAt(k) =>
                 /\ stream[k].rect.width = stream[n].rect.width
                 /\ stream[k].rect.height = stream[n].rect.height

=============================================================================
