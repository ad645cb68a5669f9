------------------------- MODULE PicturePath_proofs -------------------------
(***************************************************************************)
(* Proofs about PicturePath, for all streams of pictures that have their   *)
(* visible part inside, all decoders and all sizes of the copy cache.      *)
(*                                                                         *)
(* The argument about the hashes: the cache holds the bytes of the picture *)
(* (HoldInv); so the samples of the own image become those of the picture  *)
(* (MovedInv, ArrivedInv); so the calls of mvt_hash_update() spell the     *)
(* picture (Spells), and the hash follows them (FeedInv, on Follows of     *)
(* Adler32_proofs) to the report (ReportInv).  All of it stands on the     *)
(* shape of the images and of the copies (FitInv) and on where the own     *)
(* image comes from (HistoryInv).                                          *)
(***************************************************************************)
EXTENDS PicturePath, Adler32_proofs, FiniteSetTheorems, SequenceTheorems, TLAPS

-----------------------------------------------------------------------------
(* Formats                                                                 *)

LEMMA InfoFields ==
  ASSUME NEW f \in VideoFormats
  PROVE  /\ Chroma(f) \in {"400", "420", "422", "444", "rgb32"}
         /\ VideoFormatInfo[f].components \in 1..4
         /\ VideoFormatInfo[f].depth \in {8, 10, 12, 16}
         /\ IsYuv(f) <=> Chroma(f) # "rgb32"
         /\ f # "none"
<1>1. Chroma(f) \in {"400", "420", "422", "444", "rgb32"}
  BY DEF VideoFormats, VideoFormatInfo, Info, Chroma
<1>2. VideoFormatInfo[f].components \in 1..4
  BY DEF VideoFormats, VideoFormatInfo, Info
<1>3. VideoFormatInfo[f].depth \in {8, 10, 12, 16}
  BY DEF VideoFormats, VideoFormatInfo, Info
<1>4. f # "none"
  BY DEF VideoFormats, VideoFormatInfo
<1> QED BY <1>1, <1>2, <1>3, <1>4 DEF IsYuv, Chroma

(* A format of the same chroma; the one of 8 bits and 4:2:0 is I420.       *)
LEMMA NormalizeKeeps ==
  ASSUME NEW f \in VideoFormats
  PROVE  /\ Normalize(f) \in VideoFormats
         /\ Chroma(Normalize(f)) = Chroma(f)
         /\ Chroma(f) = "420" /\ VideoFormatInfo[f].depth = 8 => Normalize(f) = "I420"
         /\ Chroma(f) = "400" => f = "Y800" /\ Normalize(f) = "Y800"
<1>. DEFINE planar(g) == /\ VideoFormatInfo[g] = Info(Chroma(f), 3, VideoFormatInfo[f].depth)
                         /\ g \notin DOMAIN ComponentTable
<1>1. CASE Chroma(f) = "400"
  <2>1. f = "Y800"
    BY <1>1 DEF VideoFormats, VideoFormatInfo, Info, Chroma
  <2>2. Normalize(f) = "Y800"
    BY <1>1 DEF Normalize, Chroma
  <2>3. "Y800" \in VideoFormats
    BY DEF VideoFormats, VideoFormatInfo
  <2> QED BY <1>1, <2>1, <2>2, <2>3
<1>2. CASE Chroma(f) = "rgb32"
  <2>1. Normalize(f) = "ARGB"
    BY <1>2 DEF Normalize, Chroma
  <2>2. "ARGB" \in VideoFormats /\ Chroma("ARGB") = "rgb32"
    BY DEF VideoFormats, VideoFormatInfo, Info, Chroma
  <2> QED BY <1>2, <2>1, <2>2
<1>3. CASE Chroma(f) \in {"420", "422", "444"}
  <2>1. \E g \in VideoFormats : planar(g)
    BY <1>3 DEF VideoFormats, VideoFormatInfo, Info, Chroma, ComponentTable
  <2>2. Normalize(f) = CHOOSE g \in VideoFormats : planar(g)
    BY <1>3 DEF Normalize, Chroma
  <2>3. Normalize(f) \in VideoFormats /\ planar(Normalize(f))
    BY <2>1, <2>2
  <2>4. Chroma(Normalize(f)) = Chroma(f)
    BY <2>3 DEF Chroma, Info
  <2>5. Chroma(f) = "420" /\ VideoFormatInfo[f].depth = 8 => Normalize(f) = "I420"
    <3>1. SUFFICES ASSUME NEW g \in VideoFormats, g \notin DOMAIN ComponentTable,
                          VideoFormatInfo[g] = Info("420", 3, 8)
                   PROVE  g = "I420"
      BY <2>3
    <3>2. VideoFormatInfo[g].chroma = "420" /\ VideoFormatInfo[g].depth = 8
      BY <3>1 DEF Info
    <3>3. g \in {"NV12", "YV12", "I420"}
      BY <3>2 DEF VideoFormats, VideoFormatInfo, Info
    <3> QED BY <3>1, <3>3 DEF ComponentTable
  <2> QED BY <1>3, <2>3, <2>4, <2>5
<1> QED BY <1>1, <1>2, <1>3, InfoFields

LEMMA TableOfI420 ==
  /\ "I420" \in VideoFormats /\ Chroma("I420") = "420"
  /\ Components("I420") = Planar(1) /\ ComponentsOf("I420") = 1..3
  /\ Planes("I420") = 0..2
  /\ FirstIn("I420", 0) = 1 /\ FirstIn("I420", 1) = 2 /\ FirstIn("I420", 2) = 3
  /\ WidthShift("I420") = 2 /\ HeightShift("I420") = 2
<1>1. "I420" \in VideoFormats /\ Chroma("I420") = "420"
  BY DEF VideoFormats, VideoFormatInfo, Info, Chroma
<1>2. Components("I420") = Planar(1) /\ ComponentsOf("I420") = 1..3
  BY DEF Components, ComponentsOf, ComponentTable, Planar, BytesPerSample,
         VideoFormatInfo, Info
<1>3. Planes("I420") = 0..2
  BY <1>2 DEF Planes, Planar, Component
<1>4. FirstIn("I420", 0) = 1 /\ FirstIn("I420", 1) = 2 /\ FirstIn("I420", 2) = 3
  BY <1>2 DEF FirstIn, Planar, Component
<1>5. WidthShift("I420") = 2 /\ HeightShift("I420") = 2
  BY DEF WidthShift, HeightShift, VideoFormatInfo, Info
<1> QED BY <1>1, <1>2, <1>3, <1>4, <1>5

LEMMA TableOfNV12 ==
  /\ Components("NV12") = <<Component(0, 0, 1), Component(1, 0, 2), Component(1, 1, 2)>>
  /\ ComponentsOf("NV12") = 1..3 /\ Planes("NV12") = 0..1
  /\ FirstIn("NV12", 0) = 1 /\ FirstIn("NV12", 1) = 2
  /\ WidthShift("NV12") = 2 /\ HeightShift("NV12") = 2
<1>1. /\ Components("NV12") = <<Component(0, 0, 1), Component(1, 0, 2), Component(1, 1, 2)>>
      /\ ComponentsOf("NV12") = 1..3
  BY DEF Components, ComponentsOf, ComponentTable
<1>2. Planes("NV12") = 0..1
  BY <1>1 DEF Planes, Component
<1>3. FirstIn("NV12", 0) = 1 /\ FirstIn("NV12", 1) = 2
  BY <1>1 DEF FirstIn, Component
<1>4. WidthShift("NV12") = 2 /\ HeightShift("NV12") = 2
  BY DEF WidthShift, HeightShift, VideoFormatInfo, Info
<1> QED BY <1>1, <1>2, <1>3, <1>4

-----------------------------------------------------------------------------
(* Sizes of planes                                                         *)

LEMMA RoundUpFact ==
  ASSUME NEW v \in Nat
  PROVE  /\ RoundUp(v, 32) \in Nat /\ v <= RoundUp(v, 32)
         /\ RoundUp(v, 32) \div 2 \in Nat /\ HalfUp(v) <= RoundUp(v, 32) \div 2
         /\ RoundUp(v, 16) \in Nat /\ v <= RoundUp(v, 16) /\ RoundUp(v, 16) < v + 16
         /\ HalfUp(v) \in Nat /\ 2 * HalfUp(v) <= RoundUp(v, 16) 
         /\ HalfUp(v) <= v
         /\ v > 0 => HalfUp(v) > 0
BY DEF RoundUp, HalfUp

LEMMA RoundUpMonotone ==
  ASSUME NEW v \in Nat, NEW w \in Nat, v <= RoundUp(w, 16)
  PROVE  RoundUp(v, 16) <= RoundUp(w, 16)
BY DEF RoundUp

(* Samples across and down the planes of I420, which have room for them.   *)
Across(p, width) == IF p = 0 THEN width ELSE HalfUp(width)

LEMMA PlaneRoom ==
  ASSUME NEW w \in Nat, NEW h \in Nat, NEW p \in 0..2
  PROVE  /\ Pitch("I420", p, w) \in Nat /\ Across(p, w) <= Pitch("I420", p, w)
         /\ Rows("I420", p, h) \in Nat /\ Across(p, h) <= Rows("I420", p, h)
<1>. DEFINE i == FirstIn("I420", p)
            wide == RoundUp(w, 32)
            high == RoundUp(h, 32)
<1>1. i = p + 1 /\ i \in 1..3
  BY TableOfI420
<1>2. Components("I420")[i].stride = 1
  BY <1>1, TableOfI420 DEF Planar, Component
<1>3. /\ ComponentPitch("I420", i, w)
           = RoundUp((1 * wide) \div (IF i > 1 THEN 2 ELSE 1), 32)
      /\ ComponentRows("I420", i, h) = high \div (IF i > 1 THEN 2 ELSE 1)
  BY <1>2, TableOfI420 DEF ComponentPitch, ComponentRows, DataAlign
<1>4. /\ wide \in Nat /\ w <= wide /\ wide \div 2 \in Nat /\ HalfUp(w) <= wide \div 2
      /\ high \in Nat /\ h <= high /\ high \div 2 \in Nat /\ HalfUp(h) <= high \div 2
      /\ HalfUp(w) \in Nat /\ HalfUp(h) \in Nat
  BY RoundUpFact
<1>5. Pitch("I420", p, w) = ComponentPitch("I420", i, w)
      /\ Rows("I420", p, h) = ComponentRows("I420", i, h)
  BY DEF Pitch, Rows
<1>. HIDE DEF i, wide, high
<1>6. CASE p = 0
  <2>1. ComponentPitch("I420", i, w) = RoundUp(wide, 32) /\ ComponentRows("I420", i, h) = high
    BY <1>1, <1>3, <1>4, <1>6
  <2>2. RoundUp(wide, 32) \in Nat /\ wide <= RoundUp(wide, 32)
    BY <1>4, RoundUpFact
  <2> QED BY <1>4, <1>5, <1>6, <2>1, <2>2 DEF Across
<1>7. CASE p # 0
  <2>1. /\ ComponentPitch("I420", i, w) = RoundUp(wide \div 2, 32)
        /\ ComponentRows("I420", i, h) = high \div 2
    BY <1>1, <1>3, <1>4, <1>7
  <2>2. RoundUp(wide \div 2, 32) \in Nat /\ wide \div 2 <= RoundUp(wide \div 2, 32)
    BY <1>4, RoundUpFact
  <2> QED BY <1>4, <1>5, <1>7, <2>1, <2>2 DEF Across
<1> QED BY <1>6, <1>7

(* A sample x of row y is inside of a plane with so many bytes in a row.   *)
LEMMA InsidePlane ==
  ASSUME NEW rows \in Nat, NEW pitch \in Nat, NEW x \in Nat, NEW y \in Nat,
         x < pitch, y < rows
  PROVE  y * pitch + x \in Nat /\ y * pitch + x < rows * pitch
<1>1. (y + 1) * pitch <= rows * pitch /\ (y + 1) * pitch = y * pitch + pitch
      /\ y * pitch \in Nat /\ rows * pitch \in Nat
  OBVIOUS
<1> QED BY <1>1

-----------------------------------------------------------------------------
(* The picture and the view of its visible part                            *)

LEMMA PictureFields ==
  ASSUME NEW picture \in Pictures
  PROVE  /\ picture.format \in VideoFormats
         /\ picture.rect.x \in Nat /\ picture.rect.y \in Nat
         /\ picture.rect.width \in Nat \ {0} /\ picture.rect.height \in Nat \ {0}
         /\ picture.codedWidth \in Nat /\ picture.codedHeight \in Nat
         /\ picture.pitch \in Nat /\ picture.base \in Nat
         /\ picture.rect.x + picture.rect.width <= picture.codedWidth
         /\ picture.rect.y + picture.rect.height <= picture.codedHeight
BY DEF Pictures, Rectangles

(* dec_ffmpeg's way to the corner, from the distance between two pointers, *)
(* leads back to it: the corner is left of the end of its row.             *)
LEMMA CornerFound ==
  ASSUME NEW picture \in Pictures
  PROVE  /\ CropRect(picture).x = picture.rect.x
         /\ CropRect(picture).y = picture.rect.y
         /\ CropRect(picture).width = picture.rect.width
         /\ CropRect(picture).height = picture.rect.height
<1>. DEFINE x == picture.rect.x
            y == picture.rect.y
            line0 == picture.codedWidth
<1>1. x \in Nat /\ y \in Nat /\ line0 \in Nat \ {0} /\ x < line0
  BY PictureFields
<1>. HIDE DEF x, y, line0
<1>2. (y * line0 + x) % line0 = x /\ (y * line0 + x) \div line0 = y
  BY <1>1
<1> QED BY <1>2 DEF CropRect, Rectangle, x, y, line0

View(picture) == SubImage(SourceImage(picture), CropRect(picture))

LEMMA ViewFields ==
  ASSUME NEW picture \in Pictures
  PROVE  /\ View(picture).format = picture.format
         /\ View(picture).width = picture.rect.width
         /\ View(picture).height = picture.rect.height
         /\ CropAccepted(SourceImage(picture), CropRect(picture)) <=> Croppable(picture)
         /\ DOMAIN View(picture).pixels = Planes(picture.format)
         /\ View(picture).pitches = SourceImage(picture).pitches
<1>1. /\ SourceImage(picture).format = picture.format
      /\ DOMAIN SourceImage(picture).pixels = Planes(picture.format)
  BY DEF SourceImage
<1>2. CropAccepted(SourceImage(picture), CropRect(picture)) <=> Croppable(picture)
  BY CornerFound DEF CropAccepted, Croppable
<1> QED BY <1>1, <1>2, CornerFound DEF View, SubImage, SourceImage

(* Rows of the planes that are copied start at addresses.                  *)
LEMMA ViewAddresses ==
  ASSUME NEW picture \in Pictures, picture.format \in {"NV12", "I420"},
         NEW p \in Planes(picture.format)
  PROVE  View(picture).pixels[p] \in Nat /\ View(picture).pitches[p] \in Nat
<1>. DEFINE f == picture.format
            source == SourceImage(picture)
            pitch(q) == SourcePitch(picture, q)
            rows(q) == picture.codedHeight \div (IF q = 0 THEN 1 ELSE HeightShift(f))
            size(q) == rows(q) * pitch(q)
            above(q) == (IF q > 0 THEN size(0) ELSE 0) + (IF q > 1 THEN size(1) ELSE 0)
            rect == CropRect(picture)
            shift(q, n) == IF q = 0 THEN 1 ELSE n
            down(q) == (rect.y * source.pitches[q]) \div shift(q, HeightShift(f))
            right(q) == (rect.x * PixelPitch(f, q)) \div shift(q, WidthShift(f))
<1>1. /\ f \in {"NV12", "I420"} /\ p \in 0..2 /\ Planes(f) \subseteq 0..2
      /\ WidthShift(f) = 2 /\ HeightShift(f) = 2
  BY TableOfI420, TableOfNV12
<1>2. \A q \in Planes(f) : PixelPitch(f, q) \in {1, 2}
  BY TableOfI420, TableOfNV12 DEF PixelPitch, Planar, Component
<1>3. 0 \in Planes(f) /\ 1 \in Planes(f) /\ PixelPitch(f, 0) = 1
  BY TableOfI420, TableOfNV12 DEF PixelPitch, Planar, Component
<1>4. \A q \in Planes(f) : pitch(q) \in Nat
  <2>1. SUFFICES ASSUME NEW q \in Planes(f) PROVE pitch(q) \in Nat
    OBVIOUS
  <2>2. CASE q = 0
    BY <2>2, PictureFields DEF SourcePitch
  <2>3. CASE q # 0
    <3>1. pitch(q) = (picture.pitch * PixelPitch(f, q)) \div (1 * 2)
      BY <1>1, <1>3, <2>3 DEF SourcePitch
    <3> QED BY <1>2, <2>1, <3>1, PictureFields
  <2> QED BY <2>2, <2>3
<1>5. /\ source.format = f
      /\ source.pitches = [q \in Planes(f) |-> pitch(q)]
      /\ source.pixels = [q \in Planes(f) |-> picture.base + above(q)]
  BY DEF SourceImage
<1>6. /\ View(picture).pitches = source.pitches
      /\ View(picture).pixels[p] = source.pixels[p] + (down(p) + right(p))
  BY <1>5 DEF View, SubImage
<1>7. picture.codedHeight \in Nat /\ picture.base \in Nat /\ rect.x \in Nat /\ rect.y \in Nat
  BY PictureFields, CornerFound
<1>8. pitch(0) \in Nat /\ pitch(1) \in Nat /\ source.pitches[p] \in Nat
      /\ PixelPitch(f, p) \in Nat /\ source.pixels[p] = picture.base + above(p)
  BY <1>2, <1>3, <1>4, <1>5
<1>9. \A q \in {0, 1} : rows(q) \in Nat
  BY <1>1, <1>7
<1>. HIDE DEF f, source, rect, pitch, rows
<1>10. size(0) \in Nat /\ size(1) \in Nat
  BY <1>8, <1>9
<1>. HIDE DEF size
<1>11. above(p) \in Nat
  BY <1>1, <1>10
<1>12. down(p) \in Nat /\ right(p) \in Nat
  BY <1>1, <1>7, <1>8
<1>. HIDE DEF above, down, right
<1> QED BY <1>6, <1>7, <1>8, <1>11, <1>12

-----------------------------------------------------------------------------
(* The invariants                                                          *)

(* A picture is being handled.                                             *)
Handling == stage \in {"image", "convert", "copy", "hash", "update"}

PlaceInv ==
  /\ path \in Paths /\ stream \in Streams /\ taken \in 0..Len(stream)
  /\ \A i \in 1..Len(stream) : Possible(stream[i])
  /\ stage \in {"next", "image", "convert", "copy", "hash", "update", "end"}
  /\ stage \in {"image", "convert", "copy"} => InHardware
  /\ Handling => taken > 0 /\ image = View(Picture0) /\ Croppable(Picture0)

(* The own image, once it is kept or made anew, has the size of the        *)
(* picture; when it is to be hashed, also its chroma.                      *)
OwnInv ==
  /\ own # NoImage =>
       /\ own = NewImage(own.format, own.width, own.height, 0)
       /\ own.format \in VideoFormats
       /\ own.width \in Nat \ {0} /\ own.height \in Nat \ {0}
       /\ path = "ffmpeg_vaapi" => own.format = "I420"
  /\ stage \in {"convert", "copy", "hash", "update"} /\ InHardware => SizeKept
  /\ stage \in {"copy", "hash", "update"} /\ InHardware =>
       Chroma(own.format) = Chroma(image.format)
  /\ stage = "copy" => UswcCopy

(* The cache has room for the longest row of the image that it belongs to. *)
CacheInv ==
  /\ cacheSize \in Nat
  /\ cacheSize > 0 => own # NoImage /\ RoundUp(own.width, 16) <= cacheSize
  /\ stage = "copy" => cacheSize > 0
  /\ DOMAIN cache \subseteq 0..cacheSize - 1

(* What is still to be copied is an end of what was to be copied.          *)
Copied == Len(Copies) - Len(copies)

CopiesInv ==
  stage = "copy" =>
    /\ Len(copies) \in Nat /\ copies \in Seq(ToSet(Copies))
    /\ Len(copies) <= Len(Copies)
    /\ \A i \in 1..Len(copies) : copies[i] = Copies[Copied + i]
    /\ line \in Nat
    /\ copies # <<>> => line < copies[1].rows

InPlane(a, p) ==
  LET offset == a - own.pixels[p]
  IN  0 <= offset /\ offset < PlaneSize(own.format, p, own.width, own.height)

MemoryInv ==
  own # NoImage /\ own.format = "I420" =>
    \A a \in DOMAIN memory : \E p \in DOMAIN own.pixels : InPlane(a, p)

FitInv == PlaceInv /\ OwnInv /\ CacheInv /\ CopiesInv /\ MemoryInv

-----------------------------------------------------------------------------
(* One copy                                                                *)

(* What a copy reads and writes are planes of the two images, and its      *)
(* width and rows are those of its targets.                                *)
GoodCopy(copy) ==
  /\ copy.from \in Planes(image.format)
  /\ copy.to \in {<<0>>, <<1>>, <<2>>, <<1, 2>>}
  /\ copy.width \in Nat \ {0} /\ copy.rows \in Nat \ {0}
  /\ \A t \in 1..Len(copy.to) : /\ copy.to[t] \in 0..2
                                /\ copy.width = Across(copy.to[t], own.width)
                                /\ copy.rows = Across(copy.to[t], own.height)

(* A sequence has its elements.                                            *)
LEMMA OwnElements ==
  ASSUME NEW S, NEW seq \in Seq(S)
  PROVE  seq \in Seq(ToSet(seq))
<1>1. Len(seq) \in Nat /\ seq = [i \in 1..Len(seq) |-> seq[i]] /\ DOMAIN seq = 1..Len(seq)
  BY LenProperties
<1>2. seq \in [1..Len(seq) -> ToSet(seq)]
  BY <1>1 DEF ToSet
<1> QED BY <1>1, <1>2

LEMMA FirstAndRest ==
  ASSUME NEW S, NEW first \in S, NEW rest \in Seq(S)
  PROVE  /\ Len(<<first>> \o rest) = Len(rest) + 1
         /\ (<<first>> \o rest)[1] = first
         /\ \A i \in 1..Len(rest) : (<<first>> \o rest)[i + 1] = rest[i]
<1>1. <<first>> \in Seq(S) /\ Len(<<first>>) = 1 /\ <<first>>[1] = first
  OBVIOUS
<1>2. Len(rest) \in Nat
  BY LenProperties
<1> QED BY <1>1, <1>2, ConcatProperties

LEMMA FirstAndRestElements ==
  ASSUME NEW S, NEW first \in S, NEW rest \in Seq(S)
  PROVE  <<first>> \o rest \in Seq(ToSet(<<first>> \o rest))
<1>. DEFINE all == <<first>> \o rest
<1>1. all \in Seq(S)
  BY ConcatProperties
<1>. HIDE DEF all
<1>2. all \in Seq(ToSet(all))
  BY <1>1, OwnElements
<1> QED BY <1>2 DEF all

LEMMA CopyList ==
  ASSUME UswcCopy
  PROVE  /\ image.format = "NV12" =>
              /\ Len(Copies) = 2
              /\ Copies[1] = PlaneCopy(0, <<0>>, own.width, own.height)
              /\ Copies[2] = PlaneCopy(1, <<1, 2>>, HalfUp(own.width), HalfUp(own.height))
         /\ image.format = "I420" =>
              /\ Len(Copies) = 3
              /\ Copies[1] = PlaneCopy(0, <<0>>, own.width, own.height)
              /\ Copies[2] = PlaneCopy(1, <<1>>, HalfUp(own.width), HalfUp(own.height))
              /\ Copies[3] = PlaneCopy(2, <<2>>, HalfUp(own.width), HalfUp(own.height))
         /\ Copies \in Seq(ToSet(Copies))
<1>. DEFINE half == HalfUp(own.width)
            low == HalfUp(own.height)
            first == PlaneCopy(0, <<0>>, own.width, own.height)
<1>1. CASE image.format = "NV12"
  <2>. DEFINE rest == <<PlaneCopy(1, <<1, 2>>, half, low)>>
              S == {first, rest[1]}
  <2>1. Copies = <<first>> \o rest
    BY <1>1 DEF Copies
  <2>2. /\ first \in S /\ rest \in Seq(S) /\ Len(rest) = 1
        /\ rest[1] = PlaneCopy(1, <<1, 2>>, half, low)
    OBVIOUS
  <2>. HIDE DEF first, rest, S
  <2>3. /\ Len(Copies) = Len(rest) + 1 /\ Copies[1] = first
        /\ \A i \in 1..Len(rest) : Copies[i + 1] = rest[i]
    BY <2>1, <2>2, FirstAndRest
  <2>4. Copies \in Seq(ToSet(Copies))
    BY <2>1, <2>2, FirstAndRestElements
  <2>. QED  BY <1>1, <2>2, <2>3, <2>4 DEF first
<1>2. CASE image.format = "I420"
  <2>. DEFINE rest == [p \in 1..2 |-> PlaneCopy(p, <<p>>, half, low)]
              S == {first, rest[1], rest[2]}
  <2>1. Copies = <<first>> \o rest
    BY <1>2 DEF Copies
  <2>2. first \in S /\ rest \in Seq(S)
    OBVIOUS
  <2>3. /\ Len(rest) = 2
        /\ rest[1] = PlaneCopy(1, <<1>>, half, low)
        /\ rest[2] = PlaneCopy(2, <<2>>, half, low)
    OBVIOUS
  <2>. HIDE DEF first, rest, S
  <2>4. /\ Len(Copies) = Len(rest) + 1 /\ Copies[1] = first
        /\ \A i \in 1..Len(rest) : Copies[i + 1] = rest[i]
    BY <2>1, <2>2, FirstAndRest
  <2>5. Copies \in Seq(ToSet(Copies))
    BY <2>1, <2>2, FirstAndRestElements
  <2>. QED  BY <1>2, <2>3, <2>4, <2>5 DEF first
<1>. QED  BY <1>1, <1>2 DEF UswcCopy

LEMMA CopyShape ==
  ASSUME UswcCopy, own.width \in Nat \ {0}, own.height \in Nat \ {0}
  PROVE  /\ Len(Copies) \in {2, 3}
         /\ Copies \in Seq(ToSet(Copies))
         /\ \A i \in 1..Len(Copies) : GoodCopy(Copies[i])
<1>. DEFINE half == HalfUp(own.width)
            low == HalfUp(own.height)
<1>1. half \in Nat \ {0} /\ low \in Nat \ {0}
  BY DEF HalfUp
<1>. HIDE DEF half, low
<1>2. CASE image.format = "NV12"
  <2>1. /\ Len(Copies) = 2 /\ Copies \in Seq(ToSet(Copies))
        /\ Copies[1] = PlaneCopy(0, <<0>>, own.width, own.height)
        /\ Copies[2] = PlaneCopy(1, <<1, 2>>, half, low)
    BY <1>2, CopyList DEF half, low
  <2>2. GoodCopy(Copies[1])
    BY <1>2, <2>1, TableOfNV12 DEF PlaneCopy, GoodCopy, Across
  <2>3. GoodCopy(Copies[2])
    <3>1. \A p \in 1..2 : Across(p, own.width) = half /\ Across(p, own.height) = low
      BY DEF Across, half, low
    <3>. QED  BY <1>1, <1>2, <2>1, <3>1, TableOfNV12 DEF PlaneCopy, GoodCopy
  <2>. QED  BY <2>1, <2>2, <2>3
<1>3. CASE image.format # "NV12"
  <2>1. image.format = "I420"
    BY <1>3 DEF UswcCopy
  <2>2. /\ Len(Copies) = 3 /\ Copies \in Seq(ToSet(Copies))
        /\ Copies[1] = PlaneCopy(0, <<0>>, own.width, own.height)
        /\ Copies[2] = PlaneCopy(1, <<1>>, half, low)
        /\ Copies[3] = PlaneCopy(2, <<2>>, half, low)
    BY <2>1, CopyList DEF half, low
  <2>3. GoodCopy(Copies[1])
    BY <2>1, <2>2, TableOfI420 DEF PlaneCopy, GoodCopy, Across
  <2>4. GoodCopy(Copies[2])
    BY <1>1, <2>1, <2>2, TableOfI420 DEF PlaneCopy, GoodCopy, Across, half, low
  <2>5. GoodCopy(Copies[3])
    BY <1>1, <2>1, <2>2, TableOfI420 DEF PlaneCopy, GoodCopy, Across, half, low
  <2>. QED  BY <2>2, <2>3, <2>4, <2>5
<1>. QED  BY <1>2, <1>3

(* The bytes of a row, of one plane or of two, need no more than a row of  *)
(* luma rounded up: what the cache was made for.                           *)
LEMMA RowFits ==
  ASSUME NEW copy, GoodCopy(copy), own.width \in Nat \ {0}
  PROVE  /\ RowBytes(copy) \in Nat \ {0} /\ CacheRow(copy) \in Nat \ {0}
         /\ RowBytes(copy) <= CacheRow(copy)
         /\ CacheRow(copy) <= RoundUp(own.width, 16)
         /\ 16 <= CacheRow(copy)
<1>1. /\ Len(copy.to) \in {1, 2}
      /\ Len(copy.to) = 2 => copy.to = <<1, 2>>
  <2>1. copy.to \in {<<0>>, <<1>>, <<2>>, <<1, 2>>}
    BY DEF GoodCopy
  <2>2. CASE copy.to = <<1, 2>>
    BY <2>2
  <2>3. CASE copy.to \in {<<0>>, <<1>>, <<2>>}
    <3>1. Len(copy.to) = 1
      BY <2>3
    <3> QED BY <3>1
  <2> QED BY <2>1, <2>2, <2>3
<1>2. copy.width \in Nat \ {0} /\ copy.width = Across(copy.to[1], own.width)
  BY <1>1 DEF GoodCopy
<1>3. /\ RowBytes(copy) \in Nat \ {0}
      /\ RowBytes(copy) <= own.width \/ RowBytes(copy) = 2 * HalfUp(own.width)
  <2>1. CASE Len(copy.to) = 1
    <3>1. RowBytes(copy) = copy.width
      BY <1>2, <2>1 DEF RowBytes
    <3>2. HalfUp(own.width) <= own.width
      BY RoundUpFact
    <3> QED BY <1>2, <3>1, <3>2 DEF Across
  <2>2. CASE Len(copy.to) = 2
    <3>1. copy.to[1] = 1
      BY <1>1, <2>2
    <3>2. copy.width = HalfUp(own.width)
      BY <1>2, <3>1 DEF Across
    <3>3. RowBytes(copy) = 2 * copy.width
      BY <1>2, <2>2 DEF RowBytes
    <3> QED BY <1>2, <3>2, <3>3
  <2> QED BY <1>1, <2>1, <2>2
<1>4. /\ 2 * HalfUp(own.width) <= RoundUp(own.width, 16)
      /\ own.width <= RoundUp(own.width, 16) /\ RoundUp(own.width, 16) \in Nat
      /\ HalfUp(own.width) \in Nat
  BY RoundUpFact
<1>5. RowBytes(copy) <= RoundUp(own.width, 16)
  BY <1>3, <1>4
<1>6. CacheRow(copy) <= RoundUp(own.width, 16)
  BY <1>3, <1>5, RoundUpMonotone DEF CacheRow
<1>7. CacheRow(copy) \in Nat /\ RowBytes(copy) <= CacheRow(copy) /\ 16 <= CacheRow(copy)
  BY <1>3 DEF CacheRow, RoundUp
<1> QED BY <1>3, <1>6, <1>7

(* "assert(hstep > 0)", and the rows that are fetched at once fit.         *)
LEMMA BandFits ==
  ASSUME PlaceInv, OwnInv, CacheInv, CopiesInv, stage = "copy", copies # <<>>
  PROVE  /\ GoodCopy(copies[1])
         /\ Band(copies[1]) \in Nat \ {0}
         /\ Band(copies[1]) * CacheRow(copies[1]) <= cacheSize
         /\ line + Band(copies[1]) <= copies[1].rows
<1>. DEFINE copy == copies[1]
            row == CacheRow(copy)
            step == cacheSize \div row
<1>1. own.width \in Nat \ {0} /\ own.height \in Nat \ {0} /\ InHardware /\ UswcCopy
  <2>1. own.format = "I420" /\ UswcCopy
    BY DEF OwnInv, UswcCopy
  <2>2. own # NoImage
    BY <2>1 DEF NoImage
  <2>3. InHardware
    BY DEF PlaceInv
  <2>4. own.width \in Nat \ {0} /\ own.height \in Nat \ {0}
    BY <2>2 DEF OwnInv
  <2> QED BY <2>1, <2>3, <2>4
<1>2. /\ Len(copies) \in Nat \ {0} /\ Len(copies) <= Len(Copies)
      /\ copy = Copies[Copied + 1] /\ Copied + 1 \in 1..Len(Copies)
  <2>1. Len(copies) \in Nat \ {0} /\ Len(Copies) \in Nat /\ Len(copies) <= Len(Copies)
    BY <1>1, CopyShape, EmptySeq DEF CopiesInv
  <2> QED BY <2>1 DEF CopiesInv, Copied
<1>3. GoodCopy(copy)
  BY <1>1, <1>2, CopyShape
<1>4. /\ row \in Nat \ {0} /\ row <= RoundUp(own.width, 16) /\ row <= cacheSize
      /\ cacheSize \in Nat
  <2>1. row \in Nat \ {0} /\ row <= RoundUp(own.width, 16)
    BY <1>1, <1>3, RowFits
  <2>2. RoundUp(own.width, 16) \in Nat
    BY <1>1, RoundUpFact
  <2> QED BY <2>1, <2>2 DEF CacheInv
<1>5. line \in Nat /\ line < copy.rows /\ copy.rows \in Nat \ {0}
  BY <1>3 DEF CopiesInv, GoodCopy
<1>6. Band(copy) = IF step < copy.rows - line THEN step ELSE copy.rows - line
  BY DEF Band
<1>. HIDE DEF copy, row
<1>7. step \in Nat \ {0} /\ step * row <= cacheSize
  BY <1>4
<1>. HIDE DEF step
<1>8. /\ Band(copy) \in Nat \ {0} /\ Band(copy) <= step
      /\ line + Band(copy) <= copy.rows
  BY <1>5, <1>6, <1>7
<1>9. Band(copy) * row <= step * row
  BY <1>4, <1>7, <1>8
<1>10. Band(copy) * row <= cacheSize
  BY <1>4, <1>7, <1>8, <1>9
<1> QED BY <1>3, <1>8, <1>10 DEF copy, row

LEMMA FitImpliesCopyFits == FitInv => CopyFits
<1>. SUFFICES ASSUME FitInv, stage = "copy" PROVE CopyFits
  BY DEF CopyFits
<1>1. PlaceInv /\ OwnInv /\ CacheInv /\ CopiesInv /\ MemoryInv
  BY DEF FitInv
<1>2. own.width = image.width /\ own.height = image.height /\ own # NoImage
  BY <1>1 DEF OwnInv, PlaceInv, SizeKept
<1>3. own.format = "I420"
  BY <1>1 DEF OwnInv, UswcCopy
<1>4. \A a \in DOMAIN memory : \E p \in DOMAIN own.pixels : InPlane(a, p)
  BY <1>1, <1>2, <1>3 DEF MemoryInv
<1>5. copies # <<>> => Band(copies[1]) > 0
  BY <1>1, BandFits
<1>6. DOMAIN cache \subseteq 0..cacheSize - 1
  BY <1>1 DEF CacheInv
<1> QED BY <1>2, <1>4, <1>5, <1>6 DEF CopyFits, InPlane

-----------------------------------------------------------------------------
(* What does not change                                                    *)

LEMMA SamePicture ==
  ASSUME path' = path, stream' = stream
  PROVE  /\ Picture0' = stream[taken']
         /\ View(Picture0)' = View(stream[taken'])
         /\ InHardware' <=> InHardware
         /\ \A picture : Possible(picture)' <=> Possible(picture)
         /\ \A picture : Supported(picture)' <=> Supported(picture)
<1>1. InHardware' <=> InHardware
  BY DEF InHardware
<1>2. Picture0' = stream[taken']
  BY DEF Picture0
<1>3. View(Picture0)' = View(stream[taken'])
  BY <1>2 DEF View, CropRect
<1>4. \A picture : Possible(picture)' <=> Possible(picture)
  BY <1>1 DEF Possible
<1>5. \A picture : Supported(picture)' <=> Supported(picture)
  BY <1>1 DEF Supported, Known
<1> QED BY <1>1, <1>2, <1>3, <1>4, <1>5

LEMMA SameImages ==
  ASSUME own' = own, image' = image
  PROVE  /\ SizeKept' <=> SizeKept
         /\ UswcCopy' <=> UswcCopy
         /\ Copies' = Copies
         /\ \A a, p : InPlane(a, p)' <=> InPlane(a, p)
BY DEF SizeKept, UswcCopy, Copies, InPlane

LEMMA StreamPictures ==
  ASSUME PlaceInv
  PROVE  /\ Len(stream) \in Nat /\ taken \in Nat /\ taken <= Len(stream)
         /\ \A i \in 1..Len(stream) : stream[i] \in Pictures /\ Possible(stream[i])
         /\ Handling => Picture0 \in Pictures /\ Possible(Picture0)
<1>1. stream \in Seq(Pictures)
  BY StreamAssumption DEF PlaceInv
<1>2. Len(stream) \in Nat /\ \A i \in 1..Len(stream) : stream[i] \in Pictures
  BY <1>1, LenProperties, ElementOfSeq
<1> QED BY <1>2 DEF PlaceInv, Picture0

(* The size and the format of the picture that is being handled.           *)
LEMMA ImageFields ==
  ASSUME PlaceInv, Handling
  PROVE  /\ image.format = Picture0.format /\ image.format \in VideoFormats
         /\ image.width = Picture0.rect.width /\ image.width \in Nat \ {0}
         /\ image.height = Picture0.rect.height /\ image.height \in Nat \ {0}
<1>1. Picture0 \in Pictures
  BY StreamPictures
<1>2. image = View(Picture0)
  BY DEF PlaceInv
<1> QED BY <1>1, <1>2, ViewFields, PictureFields

(* What the steps that move bytes leave alone.                             *)
LEMMA ConvertFrame ==
  ASSUME ConvertByLibyuv \/ CopyInternal
  PROVE  /\ stage = "convert" /\ stage' = "hash" /\ Convertible
         /\ UNCHANGED <<hashVars, pathVars, taken, image, own, copyVars, updates,
                        outVars, denied>>
<1>1. CASE ConvertByLibyuv
  BY <1>1, Zenon DEF ConvertByLibyuv
<1>2. CASE CopyInternal
  BY <1>2, Zenon DEF CopyInternal
<1> QED BY <1>1, <1>2

LEMMA CacheFrame ==
  ASSUME FillCache \/ DrainCache
  PROVE  /\ stage = "copy" /\ copies # <<>> /\ stage' = stage
         /\ UNCHANGED <<hashVars, pathVars, taken, image, own, cacheSize, updates,
                        outVars, denied>>
<1>1. CASE FillCache
  BY <1>1, Zenon DEF FillCache
<1>2. CASE DrainCache
  BY <1>2, Zenon DEF DrainCache
<1> QED BY <1>1, <1>2

LEMMA StreamFrame ==
  ASSUME [Next]_vars
  PROVE  /\ UNCHANGED pathVars
         /\ ~TakePicture => UNCHANGED <<taken, image>>
<1>1. CASE TakePicture \/ KeepImage \/ NewOwnImage \/ ConvertExits \/ Unsupported
  BY <1>1 DEF TakePicture, KeepImage, NewOwnImage, ConvertExits, Unsupported
<1>2. CASE StartCopies \/ CopiesDone \/ HashStarts \/ HashRefused
  BY <1>2 DEF StartCopies, CopiesDone, HashStarts, HashRefused
<1>3. CASE FillCache \/ DrainCache
  BY <1>3, CacheFrame
<1>4. CASE ConvertByLibyuv \/ CopyInternal
  BY <1>4, ConvertFrame
<1>5. CASE HashUpdate \/ HashGoesOn \/ Report \/ Terminated \/ UNCHANGED vars
  BY <1>5 DEF HashUpdate, HashGoesOn, Report, Terminated, vars, pathVars
<1> QED BY <1>1, <1>2, <1>3, <1>4, <1>5 DEF Next

-----------------------------------------------------------------------------
(* Initially                                                               *)

LEMMA InitFit == Init => FitInv
<1>. SUFFICES ASSUME Init PROVE FitInv
  OBVIOUS
<1>. USE DEF Init
<1>1. PlaceInv
  <2>1. stream \in Seq(Pictures)
    BY StreamAssumption
  <2> QED BY <2>1, LenProperties DEF PlaceInv, Handling
<1>2. OwnInv
  BY DEF OwnInv
<1>3. CacheInv
  BY DEF CacheInv
<1>4. CopiesInv /\ MemoryInv
  BY DEF CopiesInv, MemoryInv
<1> QED BY <1>1, <1>2, <1>3, <1>4 DEF FitInv

-----------------------------------------------------------------------------
(* The place in the stream                                                 *)

LEMMA NextPlace ==
  ASSUME PlaceInv, [Next]_vars
  PROVE  PlaceInv'
<1>1. path' = path /\ stream' = stream
  BY StreamFrame DEF pathVars
<1>2. /\ path' \in Paths /\ stream' \in Streams
      /\ \A i \in 1..Len(stream) : Possible(stream[i])'
      /\ InHardware' <=> InHardware
  BY <1>1, SamePicture DEF PlaceInv
<1>3. CASE TakePicture
  <2>1. taken' = taken + 1 /\ taken < Len(stream) /\ taken' \in 1..Len(stream)
    BY <1>3, StreamPictures DEF TakePicture, PlaceInv
  <2>. DEFINE picture == stream[taken + 1]
  <2>2. picture \in Pictures
    BY <2>1, StreamPictures
  <2>3. View(Picture0)' = View(picture) /\ Picture0' = picture
    BY <1>1, <2>1, SamePicture
  <2>4. CASE Refuse(taken + 1)
    <3>1. stage' \in {"next", "end"}
      BY <2>4 DEF Refuse
    <3> QED BY <1>1, <1>2, <2>1, <3>1 DEF PlaceInv, Handling
  <2>5. CASE ~Refuse(taken + 1)
    <3>1. /\ CropAccepted(SourceImage(picture), CropRect(picture))
          /\ image' = View(picture) /\ stage' = IF InHardware THEN "image" ELSE "hash"
      BY <1>3, <2>5 DEF TakePicture, View
    <3>2. Croppable(picture)
      BY <2>2, <3>1, ViewFields
    <3>3. Croppable(Picture0)'
      BY <2>3, <3>2 DEF Croppable
    <3>. HIDE DEF picture
    <3> QED BY <1>1, <1>2, <2>1, <2>3, <3>1, <3>3 DEF PlaceInv, Handling
  <2> QED BY <2>4, <2>5
<1>4. CASE ~TakePicture
  <2>1. taken' = taken
    BY <1>4, StreamFrame
  <2>2. image' = image
    BY <1>4, StreamFrame
  <2>3. View(Picture0)' = View(Picture0) /\ Picture0' = Picture0
    BY <1>1, <2>1, SamePicture DEF Picture0
  <2>4. /\ stage' \in {"next", "image", "convert", "copy", "hash", "update", "end"}
        /\ stage' \in {"image", "convert", "copy"} =>
             stage \in {"image", "convert", "copy"}
        /\ Handling' => Handling
    <3>1. CASE KeepImage \/ NewOwnImage
      BY <3>1 DEF KeepImage, NewOwnImage, Refuse, Handling
    <3>2. CASE ConvertExits \/ Unsupported \/ HashRefused
      BY <3>2 DEF ConvertExits, Unsupported, HashRefused, Refuse, Exit, Handling
    <3>3. CASE StartCopies \/ CopiesDone
      BY <3>3 DEF StartCopies, CopiesDone, Handling
    <3>4. CASE ConvertByLibyuv \/ CopyInternal \/ FillCache \/ DrainCache
      BY <3>4, ConvertFrame, CacheFrame DEF Handling
    <3>5. CASE \/ HashStarts \/ HashUpdate \/ HashGoesOn \/ Report
               \/ Terminated \/ UNCHANGED vars
      BY <3>5 DEF HashStarts, HashUpdate, HashGoesOn, Report, Terminated, vars,
         Handling, PlaceInv
    <3> QED BY <1>4, <3>1, <3>2, <3>3, <3>4, <3>5 DEF Next
  <2>5. Croppable(Picture0)' <=> Croppable(Picture0)
    BY <2>3 DEF Croppable
  <2> QED BY <1>1, <1>2, <2>1, <2>2, <2>3, <2>4, <2>5 DEF PlaceInv
<1> QED BY <1>3, <1>4

-----------------------------------------------------------------------------
(* The own image                                                           *)

LEMMA NewFields ==
  ASSUME NEW f \in VideoFormats, NEW w, NEW h
  PROVE  /\ NewImage(f, w, h, 0) # NoImage
         /\ NewImage(f, w, h, 0).format = f
         /\ NewImage(f, w, h, 0).width = w
         /\ NewImage(f, w, h, 0).height = h
<1>1. /\ NewImage(f, w, h, 0).format = f /\ NewImage(f, w, h, 0).width = w
      /\ NewImage(f, w, h, 0).height = h
  BY DEF NewImage
<1>2. f # "none" /\ NoImage.format = "none"
  BY InfoFields DEF NoImage
<1> QED BY <1>1, <1>2

LEMMA OwnFormatKnown ==
  ASSUME PlaceInv, stage = "image"
  PROVE  /\ OwnFormat \in VideoFormats
         /\ path = "ffmpeg_vaapi" => OwnFormat = "I420"
BY ImageFields, NormalizeKeeps, TableOfI420 DEF OwnFormat, Handling

LEMMA NextOwn ==
  ASSUME PlaceInv, OwnInv, [Next]_vars
  PROVE  OwnInv'
<1>1. path' = path /\ stream' = stream /\ (InHardware' <=> InHardware)
  BY StreamFrame, SamePicture DEF pathVars
<1>2. CASE TakePicture
  <2>1. own' = own
    BY <1>2 DEF TakePicture
  <2>2. stage' \in {"next", "image", "end"} \/ (stage' = "hash" /\ ~InHardware)
    BY <1>2 DEF TakePicture, Refuse
  <2> QED BY <1>1, <2>1, <2>2 DEF OwnInv
<1>3. CASE NewOwnImage
  <2>1. stage = "image"
    BY <1>3 DEF NewOwnImage
  <2>2. /\ image.width \in Nat \ {0} /\ image.height \in Nat \ {0}
        /\ OwnFormat \in VideoFormats
    BY <2>1, ImageFields, OwnFormatKnown DEF Handling
  <2>3. image' = image
    BY <1>3 DEF NewOwnImage
  <2>. DEFINE f == OwnFormat
  <2>4. CASE own' = NewImage(f, image.width, image.height, 0) /\ stage' = "convert"
    <3>1. /\ own' # NoImage /\ own'.format = f
          /\ own'.width = image.width /\ own'.height = image.height
      BY <2>2, <2>4, NewFields
    <3>2. SizeKept'
      BY <2>3, <3>1 DEF SizeKept, NoImage
    <3>3. f \in VideoFormats
      BY <2>2
    <3>4. path = "ffmpeg_vaapi" => f = "I420"
      BY <2>1, OwnFormatKnown
    <3>. HIDE DEF f
    <3> QED BY <1>1, <2>2, <2>4, <3>1, <3>2, <3>3, <3>4 DEF OwnInv, NoImage
  <2>5. CASE own' = NoImage /\ stage' \in {"next", "end"}
    BY <1>1, <2>5 DEF OwnInv, NoImage
  <2> QED BY <1>3, <2>4, <2>5 DEF NewOwnImage, Refuse
<1>4. CASE ~TakePicture /\ ~NewOwnImage
  <2>1. image' = image
    BY <1>4, StreamFrame
  <2>2. own' = own
    <3>1. CASE KeepImage \/ ConvertExits \/ Unsupported \/ StartCopies \/ CopiesDone
      BY <3>1 DEF KeepImage, ConvertExits, Unsupported, StartCopies, CopiesDone
    <3>2. CASE ConvertByLibyuv \/ CopyInternal \/ FillCache \/ DrainCache
      BY <3>2, ConvertFrame, CacheFrame
    <3>3. CASE \/ HashStarts \/ HashRefused \/ HashUpdate \/ HashGoesOn \/ Report
               \/ Terminated \/ UNCHANGED vars
      BY <3>3 DEF HashStarts, HashRefused, HashUpdate, HashGoesOn, Report,
         Terminated, vars
    <3> QED BY <1>4, <3>1, <3>2, <3>3 DEF Next
  <2>3. /\ SizeKept' <=> SizeKept
        /\ UswcCopy' <=> UswcCopy
    BY <2>1, <2>2, SameImages
  <2>4. /\ stage' \in {"convert", "copy", "hash", "update"} =>
             SizeKept \/ stage \in {"convert", "copy", "hash", "update"}
        /\ stage' \in {"copy", "hash", "update"} =>
             Convertible \/ stage \in {"copy", "hash", "update"}
        /\ stage' = "copy" => UswcCopy \/ stage = "copy"
    <3>1. CASE KeepImage \/ ConvertExits \/ Unsupported \/ StartCopies \/ CopiesDone
      BY <3>1 DEF KeepImage, ConvertExits, Unsupported, StartCopies, CopiesDone,
         Exit, Refuse
    <3>2. CASE ConvertByLibyuv \/ CopyInternal \/ FillCache \/ DrainCache
      BY <3>2, ConvertFrame, CacheFrame
    <3>3. CASE \/ HashStarts \/ HashRefused \/ HashUpdate \/ HashGoesOn \/ Report
               \/ Terminated \/ UNCHANGED vars
      BY <3>3 DEF HashStarts, HashRefused, HashUpdate, HashGoesOn, Report,
         Terminated, vars, Refuse
    <3> QED BY <1>4, <3>1, <3>2, <3>3 DEF Next
  <2>5. Convertible => Chroma(own.format) = Chroma(image.format)
    BY DEF Convertible
  <2> QED BY <1>1, <2>1, <2>2, <2>3, <2>4, <2>5 DEF OwnInv
<1> QED BY <1>2, <1>3, <1>4

-----------------------------------------------------------------------------
(* The cache                                                               *)

LEMMA RoundUpType == \A v \in Nat : RoundUp(v, 16) \in Nat
BY RoundUpFact

(* What is fetched of a row stays in its part of the cache, also when the  *)
(* bytes up to an aligned address are more than the row has.               *)
LEMMA FetchFits ==
  ASSUME FitInv, stage = "copy", copies # <<>>,
         NEW row \in 0..Band(copies[1]) - 1
  PROVE  /\ Fetched(copies[1], row) \in Nat
         /\ Fetched(copies[1], row) <= CacheRow(copies[1])
<1>. DEFINE copy == copies[1]
<1>1. GoodCopy(copy) /\ Band(copy) \in Nat \ {0} /\ own.width \in Nat \ {0}
  <2>1. own # NoImage
    BY DEF FitInv, OwnInv, PlaceInv, SizeKept
  <2> QED BY <2>1, BandFits DEF FitInv, OwnInv
<1>2. /\ RowBytes(copy) \in Nat /\ CacheRow(copy) \in Nat
      /\ RowBytes(copy) <= CacheRow(copy) /\ 16 <= CacheRow(copy)
  BY <1>1, RowFits
<1>3. RowAddress(copy, row) \in Nat
  <2>1. Picture0 \in Pictures /\ image = View(Picture0) /\ image.format = Picture0.format
    BY StreamPictures, ImageFields DEF FitInv, PlaceInv, Handling
  <2>2. image.format \in {"NV12", "I420"}
    BY DEF FitInv, OwnInv, UswcCopy
  <2>3. copy.from \in Planes(image.format)
    BY <1>1 DEF GoodCopy
  <2>4. image.pixels[copy.from] \in Nat /\ image.pitches[copy.from] \in Nat
    BY <2>1, <2>2, <2>3, ViewAddresses
  <2>5. line \in Nat /\ row \in Nat
    BY <1>1 DEF FitInv, CopiesInv
  <2>6. \A a, b, c \in Nat : a + b * c \in Nat
    OBVIOUS
  <2>7. line + row \in Nat
    BY <2>5
  <2> QED BY <2>4, <2>6, <2>7 DEF RowAddress
<1>. HIDE DEF copy
<1> QED BY <1>2, <1>3 DEF Fetched, copy

LEMMA FillFits ==
  ASSUME FitInv, FillCache
  PROVE  DOMAIN cache' \subseteq 0..cacheSize - 1
<1>. DEFINE copy == copies[1]
            cells == UNION {{<<row, x>> : x \in 0..Fetched(copy, row) - 1} :
                            row \in 0..Band(copy) - 1}
            at(cell) == cell[1] * CacheRow(copy) + cell[2]
<1>1. stage = "copy" /\ copies # <<>>
  BY DEF FillCache
<1>2. DOMAIN cache' = {at(cell) : cell \in cells}
  BY DEF FillCache
<1>3. GoodCopy(copy) /\ own.width \in Nat \ {0} /\ cacheSize \in Nat
      /\ Band(copy) \in Nat \ {0} /\ Band(copy) * CacheRow(copy) <= cacheSize
  <2>1. own # NoImage
    BY <1>1 DEF FitInv, OwnInv, PlaceInv, SizeKept
  <2> QED BY <1>1, <2>1, BandFits DEF FitInv, OwnInv, CacheInv
<1>4. CacheRow(copy) \in Nat \ {0}
  BY <1>3, RowFits
<1>5. ASSUME NEW cell \in cells
      PROVE  at(cell) \in 0..cacheSize - 1
  <2>1. PICK row \in 0..Band(copy) - 1 : \E x \in 0..Fetched(copy, row) - 1 : cell = <<row, x>>
    BY <1>5
  <2>2. PICK x \in 0..Fetched(copy, row) - 1 : cell = <<row, x>>
    BY <2>1
  <2>3. Fetched(copy, row) \in Nat /\ Fetched(copy, row) <= CacheRow(copy)
    BY <1>1, FetchFits
  <2>4. row \in Nat /\ row < Band(copy) /\ x \in Nat /\ x < CacheRow(copy)
    BY <1>3, <1>4, <2>3
  <2>5. at(cell) = row * CacheRow(copy) + x
    BY <2>2
  <2>. HIDE DEF copy, cells, at
  <2>6. /\ row * CacheRow(copy) + x \in Nat
        /\ row * CacheRow(copy) + x < Band(copy) * CacheRow(copy)
    BY <1>3, <1>4, <2>4, InsidePlane
  <2>7. Band(copy) * CacheRow(copy) \in Nat
    BY <1>3, <1>4
  <2> QED BY <1>3, <2>5, <2>6, <2>7
<1>. HIDE DEF cells, at
<1> QED BY <1>2, <1>5

LEMMA NextCache ==
  ASSUME FitInv, [Next]_vars
  PROVE  CacheInv'
<1>. USE DEF FitInv
<1>1. CASE NewOwnImage
  <2>1. cacheSize' = 0 /\ cache' = <<>> /\ stage' # "copy"
    BY <1>1 DEF NewOwnImage, FreeCopyCache, Refuse
  <2> QED BY <2>1 DEF CacheInv
<1>2. CASE StartCopies
  <2>1. own' = own /\ cache' = cache /\ SizeKept
    BY <1>2 DEF StartCopies, EnsureCopyCache, OwnInv, PlaceInv
  <2>2. own # NoImage /\ own.width \in Nat
    BY <2>1 DEF OwnInv, SizeKept
  <2>3. /\ cacheSize' \in Nat \ {0} /\ RoundUp(own.width, 16) <= cacheSize'
        /\ cacheSize <= cacheSize'
    <3>1. RoundUp(own.width, 16) \in Nat /\ CacheMin \in Nat \ {0} /\ cacheSize \in Nat
      BY <2>2, RoundUpType, PathAssumption DEF CacheInv
    <3> QED BY <1>2, <3>1 DEF StartCopies, EnsureCopyCache, CacheInv
  <2> QED BY <2>1, <2>2, <2>3 DEF CacheInv
<1>3. CASE FillCache
  <2>1. stage' = stage /\ own' = own /\ cacheSize' = cacheSize
    BY <1>3, CacheFrame
  <2> QED BY <1>3, <2>1, FillFits DEF CacheInv
<1>4. CASE DrainCache
  <2>1. stage' = stage /\ own' = own /\ cacheSize' = cacheSize /\ cache' = <<>>
    BY <1>4, CacheFrame DEF DrainCache
  <2> QED BY <2>1 DEF CacheInv
<1>5. CASE \/ TakePicture \/ KeepImage \/ ConvertExits \/ Unsupported \/ CopiesDone
           \/ ConvertByLibyuv \/ CopyInternal
  <2>1. UNCHANGED <<own, cacheSize, cache>>
    <3>1. CASE TakePicture \/ KeepImage \/ ConvertExits \/ Unsupported \/ CopiesDone
      BY <3>1 DEF TakePicture, KeepImage, ConvertExits, Unsupported, CopiesDone, copyVars
    <3>2. CASE ConvertByLibyuv \/ CopyInternal
      BY <3>2, ConvertFrame DEF copyVars
    <3> QED BY <1>5, <3>1, <3>2
  <2>2. stage' # "copy"
    BY <1>5, ConvertFrame DEF TakePicture, KeepImage, ConvertExits, Unsupported,
       CopiesDone, Exit, Refuse
  <2> QED BY <2>1, <2>2 DEF CacheInv
<1>6. CASE \/ HashStarts \/ HashRefused \/ HashUpdate \/ HashGoesOn \/ Report
           \/ Terminated \/ UNCHANGED vars
  <2>1. UNCHANGED <<own, cacheSize, cache>> /\ (stage' = "copy" => stage = "copy")
    BY <1>6 DEF HashStarts, HashRefused, HashUpdate, HashGoesOn, Report,
       Terminated, vars, copyVars, Refuse
  <2> QED BY <2>1 DEF CacheInv
<1> QED BY <1>1, <1>2, <1>3, <1>4, <1>5, <1>6 DEF Next

-----------------------------------------------------------------------------
(* The copies that are left                                                *)

LEMMA NextCopies ==
  ASSUME FitInv, [Next]_vars
  PROVE  CopiesInv'
<1>. USE DEF FitInv
<1>1. CASE StartCopies
  <2>1. own' = own /\ image' = image /\ copies' = Copies /\ line' = 0 /\ UswcCopy
        /\ SizeKept
    BY <1>1 DEF StartCopies, OwnInv, PlaceInv
  <2>2. own.width \in Nat \ {0} /\ own.height \in Nat \ {0}
    BY <2>1 DEF OwnInv, SizeKept
  <2>3. Copies' = Copies
    BY <2>1, SameImages
  <2>4. Len(Copies) \in {2, 3} /\ \A i \in 1..Len(Copies) : GoodCopy(Copies[i])
    BY <2>1, <2>2, CopyShape
  <2>5. Copies \in Seq(ToSet(Copies))
    BY <2>1, <2>2, CopyShape
  <2>6. Copied' = 0
    BY <2>1, <2>3, <2>4 DEF Copied
  <2>7. Copies[1].rows \in Nat \ {0}
    BY <2>4 DEF GoodCopy
  <2> QED BY <2>1, <2>3, <2>4, <2>5, <2>6, <2>7 DEF CopiesInv
<1>2. CASE DrainCache
  <2>1. /\ stage' = "copy" /\ stage = "copy" /\ own' = own /\ image' = image
        /\ copies # <<>> /\ cacheSize' = cacheSize
    BY <1>2, CacheFrame
  <2>2. Copies' = Copies
    BY <2>1, SameImages
  <2>3. /\ GoodCopy(copies[1]) /\ Band(copies[1]) \in Nat \ {0}
        /\ line \in Nat /\ copies[1].rows \in Nat
    BY <2>1, BandFits DEF CopiesInv, GoodCopy
  <2>4. CASE line + Band(copies[1]) < copies[1].rows
    <3>1. line' = line + Band(copies[1]) /\ copies' = copies
      BY <1>2, <2>4 DEF DrainCache
    <3> QED BY <2>1, <2>2, <2>3, <2>4, <3>1 DEF CopiesInv, Copied
  <2>5. CASE ~(line + Band(copies[1]) < copies[1].rows)
    <3>1. line' = 0 /\ copies' = Tail(copies)
      BY <1>2, <2>5 DEF DrainCache
    <3>. DEFINE S == ToSet(Copies)
    <3>2. copies \in Seq(S) /\ Len(copies) \in Nat /\ Len(Copies) \in Nat
          /\ Len(copies) <= Len(Copies)
          /\ \A i \in 1..Len(copies) : copies[i] = Copies[Copied + i]
      <4>1. own.width \in Nat \ {0} /\ own.height \in Nat \ {0} /\ UswcCopy
        BY <2>1 DEF OwnInv, PlaceInv, SizeKept
      <4> QED BY <2>1, <4>1, CopyShape DEF CopiesInv
    <3>3. S' = S
      BY <2>2
    <3>4. \A i \in 1..Len(Copies) : GoodCopy(Copies[i])
      BY <2>1, CopyShape DEF OwnInv, PlaceInv, SizeKept
    <3>. HIDE DEF S
    <3>5. /\ Tail(copies) \in Seq(S) /\ Len(Tail(copies)) = Len(copies) - 1
          /\ \A i \in 1..Len(Tail(copies)) : Tail(copies)[i] = copies[i + 1]
      BY <2>1, <3>2, HeadTailProperties
    <3>6. Len(copies) > 0
      BY <2>1, <3>2, EmptySeq
    <3>7. Copied' = Copied + 1 /\ Copied \in Nat
      BY <2>2, <3>1, <3>2, <3>5 DEF Copied
    <3>8. \A i \in 1..Len(copies') : copies'[i] = Copies[Copied' + i]
      BY <3>1, <3>2, <3>5, <3>6, <3>7
    <3>9. copies' # <<>> => 0 < copies'[1].rows
      <4>1. SUFFICES ASSUME copies' # <<>> PROVE 0 < copies'[1].rows
        OBVIOUS
      <4>2. Len(copies') > 0
        BY <3>1, <3>2, <3>5, <3>6, <4>1, EmptySeq
      <4>3. copies'[1] = Copies[Copied + 2] /\ Copied + 2 \in 1..Len(Copies)
        BY <3>1, <3>2, <3>5, <3>7, <3>8, <4>2 DEF Copied
      <4> QED BY <3>4, <4>3 DEF GoodCopy
    <3>10. copies' \in Seq(S')
      BY <3>1, <3>3, <3>5
    <3> QED BY <2>1, <2>2, <3>1, <3>2, <3>5, <3>6, <3>8, <3>9, <3>10 DEF CopiesInv, S
  <2> QED BY <2>4, <2>5
<1>3. CASE FillCache
  <2>1. /\ stage = "copy" /\ own' = own /\ image' = image /\ copies' = copies
        /\ line' = line
    BY <1>3, CacheFrame DEF FillCache
  <2> QED BY <2>1, SameImages DEF CopiesInv, Copied
<1>4. CASE \/ UNCHANGED vars \/ Terminated \/ HashUpdate \/ HashGoesOn
  <2>1. UNCHANGED <<stage, own, image, copies, line>>
    BY <1>4 DEF Terminated, HashUpdate, HashGoesOn, vars, copyVars
  <2> QED BY <2>1, SameImages DEF CopiesInv, Copied
<1>5. CASE \/ TakePicture \/ KeepImage \/ NewOwnImage \/ ConvertExits \/ Unsupported
           \/ CopiesDone \/ ConvertByLibyuv \/ CopyInternal \/ HashStarts
           \/ HashRefused \/ Report
  <2>1. stage' # "copy"
    BY <1>5, ConvertFrame DEF TakePicture, KeepImage, NewOwnImage, ConvertExits,
       Unsupported, CopiesDone, HashStarts, HashRefused, Report, Exit, Refuse
  <2> QED BY <2>1 DEF CopiesInv
<1> QED BY <1>1, <1>2, <1>3, <1>4, <1>5 DEF Next

-----------------------------------------------------------------------------
(* The bytes of the own image                                              *)

LEMMA OwnPlanes ==
  ASSUME own.format = "I420", own = NewImage(own.format, own.width, own.height, 0),
         own.width \in Nat, own.height \in Nat
  PROVE  /\ DOMAIN own.pixels = 0..2
         /\ \A p \in 0..2 : /\ own.pitches[p] = Pitch("I420", p, own.width)
                            /\ own.pixels[p] \in Nat
<1>1. /\ own.pixels = [p \in 0..2 |-> 0 + Offset("I420", p, own.width, own.height)]
      /\ own.pitches = [p \in 0..2 |-> Pitch("I420", p, own.width)]
  BY TableOfI420 DEF NewImage
<1>2. \A p \in 0..2 : PlaneSize("I420", p, own.width, own.height) \in Nat
  <2>1. SUFFICES ASSUME NEW p \in 0..2
                 PROVE  PlaneSize("I420", p, own.width, own.height) \in Nat
    OBVIOUS
  <2>2. /\ Pitch("I420", p, own.width) \in Nat
        /\ Rows("I420", p, own.height) \in Nat
    BY PlaneRoom
  <2>3. \A a, b \in Nat : a * b \in Nat
    OBVIOUS
  <2> QED BY <2>2, <2>3 DEF PlaneSize
<1>3. \A p \in 0..2 : Offset("I420", p, own.width, own.height) \in Nat
  BY <1>2 DEF Offset
<1> QED BY <1>1, <1>3

(* A sample of a plane, by its row and its column, is in the plane.        *)
LEMMA SampleInPlane ==
  ASSUME own.format = "I420", own = NewImage(own.format, own.width, own.height, 0),
         own.width \in Nat, own.height \in Nat, NEW p \in 0..2,
         NEW x \in Nat, NEW y \in Nat, x < Across(p, own.width), y < Across(p, own.height)
  PROVE  /\ InPlane(own.pixels[p] + y * own.pitches[p] + x, p)
         /\ p \in DOMAIN own.pixels
<1>. DEFINE pitch == Pitch("I420", p, own.width)
            rows == Rows("I420", p, own.height)
            start == own.pixels[p]
<1>1. /\ pitch \in Nat /\ Across(p, own.width) <= pitch
      /\ rows \in Nat /\ Across(p, own.height) <= rows
  BY PlaneRoom
<1>2. DOMAIN own.pixels = 0..2 /\ own.pitches[p] = pitch /\ start \in Nat
  BY OwnPlanes
<1>3. Across(p, own.width) \in Nat /\ Across(p, own.height) \in Nat
  BY RoundUpFact DEF Across
<1>4. PlaneSize(own.format, p, own.width, own.height) = rows * pitch
  BY DEF PlaneSize
<1>. HIDE DEF pitch, rows, start
<1>5. y * pitch + x \in Nat /\ y * pitch + x < rows * pitch
  BY <1>1, <1>3, InsidePlane
<1>6. y * pitch \in Nat
  BY <1>1
<1>7. (start + y * pitch + x) - start = y * pitch + x
  BY <1>2, <1>6
<1> QED BY <1>2, <1>4, <1>5, <1>7 DEF InPlane, start

LEMMA DrainInside ==
  ASSUME FitInv, DrainCache
  PROVE  \A a \in DOMAIN Drained(copies[1]) : \E p \in DOMAIN own.pixels : InPlane(a, p)
<1>. DEFINE copy == copies[1]
            step == Len(copy.to)
            address(t, row, x) ==
              own.pixels[copy.to[t]] + (line + row) * own.pitches[copy.to[t]] + x
            cells == (1..step) \X (0..Band(copy) - 1) \X (0..copy.width - 1)
<1>1. stage = "copy" /\ copies # <<>>
  BY CacheFrame
<1>2. /\ GoodCopy(copy) /\ Band(copy) \in Nat \ {0}
      /\ line + Band(copy) <= copy.rows /\ line \in Nat
  BY <1>1, BandFits DEF FitInv, CopiesInv
<1>3. /\ own.format = "I420" /\ own = NewImage(own.format, own.width, own.height, 0)
      /\ own.width \in Nat /\ own.height \in Nat
  BY <1>1 DEF FitInv, OwnInv, PlaceInv, SizeKept, UswcCopy
<1>4. SUFFICES ASSUME NEW a \in DOMAIN Drained(copy)
               PROVE  \E p \in DOMAIN own.pixels : InPlane(a, p)
  OBVIOUS
<1>5. PICK cell \in cells : a = address(cell[1], cell[2], cell[3])
  BY <1>4 DEF Drained
<1>. DEFINE t == cell[1]
            row == cell[2]
            x == cell[3]
            p == copy.to[t]
<1>6. t \in 1..step /\ row \in 0..Band(copy) - 1 /\ x \in 0..copy.width - 1
  BY <1>5
<1>7. /\ p \in 0..2 /\ copy.width = Across(p, own.width)
      /\ copy.rows = Across(p, own.height)
      /\ copy.width \in Nat /\ copy.rows \in Nat
  BY <1>2, <1>6 DEF GoodCopy
<1>8. a = own.pixels[p] + (line + row) * own.pitches[p] + x
  BY <1>5
<1>. HIDE DEF t, row, x, p, copy, step, cells, address
<1>9. x \in Nat /\ line + row \in Nat /\ x < copy.width /\ line + row < copy.rows
  BY <1>2, <1>6, <1>7
<1>10. p \in DOMAIN own.pixels /\ InPlane(own.pixels[p] + (line + row) * own.pitches[p] + x, p)
  BY <1>3, <1>7, <1>9, SampleInPlane
<1> QED BY <1>8, <1>10

LEMMA ConvertInside ==
  ASSUME FitInv, ConvertByLibyuv
  PROVE  \A a \in DOMAIN Converted : \E p \in DOMAIN own.pixels : InPlane(a, p)
<1>. DEFINE cells == UNION {{<<i, x, y>> : x \in 0..SamplesAcross(own, i) - 1,
                                           y \in 0..SamplesDown(own, i) - 1} :
                            i \in ComponentsOf("I420")}
            target(c) == ComponentAddress(own, c[1], c[2], c[3])
<1>1. /\ own.format = "I420" /\ own = NewImage(own.format, own.width, own.height, 0)
      /\ own.width \in Nat /\ own.height \in Nat
  <2>1. stage = "convert" /\ UswcCopy
    BY DEF ConvertByLibyuv
  <2> QED BY <2>1 DEF FitInv, OwnInv, PlaceInv, SizeKept, UswcCopy
<1>2. SUFFICES ASSUME NEW a \in DOMAIN Converted
               PROVE  \E p \in DOMAIN own.pixels : InPlane(a, p)
  OBVIOUS
<1>3. PICK c \in cells : a = target(c)
  BY <1>2 DEF Converted
<1>4. PICK i \in ComponentsOf("I420") :
        \E x \in 0..SamplesAcross(own, i) - 1, y \in 0..SamplesDown(own, i) - 1 :
          c = <<i, x, y>>
  BY <1>3
<1>5. PICK x \in 0..SamplesAcross(own, i) - 1, y \in 0..SamplesDown(own, i) - 1 :
        c = <<i, x, y>>
  BY <1>4
<1>6. i \in 1..3 /\ Components("I420")[i] = Component(i - 1, 0, 1)
  BY <1>4, TableOfI420 DEF Planar
<1>7. a = ComponentAddress(own, i, x, y)
  BY <1>3, <1>5
<1>8. ComponentAddress(own, i, x, y)
        = own.pixels[i - 1] + y * own.pitches[i - 1] + x * 1 + 0
  BY <1>1, <1>6 DEF ComponentAddress, Component
<1>9. /\ SamplesAcross(own, i) = Across(i - 1, own.width)
      /\ SamplesDown(own, i) = Across(i - 1, own.height)
  BY <1>1, <1>6, TableOfI420 DEF SamplesAcross, SamplesDown, Across, HalfUp
<1>. HIDE DEF cells, target
<1>10. Across(i - 1, own.width) \in Nat /\ Across(i - 1, own.height) \in Nat
  BY <1>1, RoundUpFact DEF Across
<1>11. /\ x \in Nat /\ y \in Nat
       /\ x < Across(i - 1, own.width) /\ y < Across(i - 1, own.height)
  BY <1>5, <1>9, <1>10
<1>. DEFINE p == i - 1
<1>12. p \in 0..2
  BY <1>6
<1>13. a = own.pixels[p] + y * own.pitches[p] + x
  <2>1. own.pixels[p] \in Nat /\ own.pitches[p] \in Nat
    BY <1>1, <1>12, OwnPlanes, PlaneRoom
  <2>2. y * own.pitches[p] \in Nat
    BY <1>11, <2>1
  <2> QED BY <1>7, <1>8, <1>11, <2>1, <2>2
<1>14. x < Across(p, own.width) /\ y < Across(p, own.height)
  BY <1>11
<1>. HIDE DEF p
<1>15. p \in DOMAIN own.pixels /\ InPlane(own.pixels[p] + y * own.pitches[p] + x, p)
  BY <1>1, <1>11, <1>12, <1>14, SampleInPlane
<1> QED BY <1>13, <1>15

LEMMA NextMemory ==
  ASSUME FitInv, [Next]_vars
  PROVE  MemoryInv'
<1>. USE DEF FitInv
<1>1. CASE NewOwnImage
  <2>1. memory' = <<>>
    BY <1>1 DEF NewOwnImage
  <2> QED BY <2>1 DEF MemoryInv
<1>2. CASE DrainCache
  <2>1. own' = own /\ image' = image
    BY <1>2, CacheFrame
  <2>2. DOMAIN memory' = DOMAIN Drained(copies[1]) \cup DOMAIN memory
    BY <1>2 DEF DrainCache, Write
  <2>3. \A a, p : InPlane(a, p)' <=> InPlane(a, p)
    BY <2>1, SameImages
  <2> QED BY <1>2, <2>1, <2>2, <2>3, DrainInside DEF MemoryInv
<1>3. CASE ConvertByLibyuv
  <2>1. own' = own /\ image' = image
    BY <1>3, ConvertFrame
  <2>2. DOMAIN memory' = DOMAIN Converted \cup DOMAIN memory
    BY <1>3 DEF ConvertByLibyuv, Write
  <2>3. \A a, p : InPlane(a, p)' <=> InPlane(a, p)
    BY <2>1, SameImages
  <2> QED BY <1>3, <2>1, <2>2, <2>3, ConvertInside DEF MemoryInv
<1>4. CASE CopyInternal
  <2>1. own' = own /\ image' = image
    BY <1>4, ConvertFrame
  <2>2. own.format # "I420"
    BY <1>4 DEF CopyInternal, UswcCopy
  <2> QED BY <2>1, <2>2 DEF MemoryInv
<1>5. CASE \/ TakePicture \/ KeepImage \/ ConvertExits \/ Unsupported \/ StartCopies
           \/ CopiesDone \/ FillCache \/ HashStarts \/ HashRefused \/ HashUpdate
           \/ HashGoesOn \/ Report \/ Terminated \/ UNCHANGED vars
  <2>1. own' = own /\ memory' = memory
    BY <1>5, CacheFrame DEF TakePicture, KeepImage, ConvertExits, Unsupported,
       StartCopies, CopiesDone, FillCache, HashStarts, HashRefused, HashUpdate,
       HashGoesOn, Report, Terminated, vars
  <2> QED BY <2>1 DEF MemoryInv, InPlane
<1> QED BY <1>1, <1>2, <1>3, <1>4, <1>5 DEF Next

LEMMA AlwaysFits == Spec => []FitInv
<1>1. ASSUME FitInv, [Next]_vars PROVE FitInv'
  BY <1>1, NextPlace, NextOwn, NextCache, NextCopies, NextMemory DEF FitInv
<1> QED BY <1>1, InitFit, PTL DEF Spec

(* "assert(hstep > 0)" always holds; no copy leaves the cache or a plane   *)
(* of the image that owns both, for pictures of every size and address and *)
(* whatever pictures, sizes and formats came before.                       *)
THEOREM CopiesAlwaysFit == Spec => []CopyFits
  BY AlwaysFits, FitImpliesCopyFits, PTL

-----------------------------------------------------------------------------
(* Where the own image comes from, and why pictures are refused            *)

(* Pictures for which the own image has been made or kept.                 *)
Handled == IF stage = "image" THEN taken - 1 ELSE taken

(* The own image was made for picture m, and every picture since that it   *)
(* was looked at for had its size.                                         *)
MadeFor(m, last) ==
  /\ own.format = Normalize(stream[m].format)
  /\ LookedAt(m)
  /\ \A k \in m..last : LookedAt(k) =>
       /\ stream[k].rect.width = own.width
       /\ stream[k].rect.height = own.height

(* There is such a picture.                                                *)
MadeForSome == \E m \in 1..Handled : MadeFor(m, Handled)

(* Only pictures that were taken failed to be mapped, and none of these is *)
(* being handled.                                                          *)
MappedInv ==
  /\ \A k : Unmapped(k) => k \in 1..taken
  /\ Handling => ~Unmapped(taken)

HistoryInv ==
  /\ refused \subseteq 1..taken
  /\ MappedInv
  /\ path = "gst_vaapi" /\ own # NoImage => MadeForSome

(* An earlier picture of another chroma, with only pictures of the size of *)
(* this one since.                                                         *)
KeptTooLong(n) ==
  \E m \in 1..n - 1 :
    /\ LookedAt(m)
    /\ Chroma(stream[m].format) # Chroma(stream[n].format)
    /\ \A k \in m..n : LookedAt(k) =>
         /\ stream[k].rect.width = stream[n].rect.width
         /\ stream[k].rect.height = stream[n].rect.height

(* It found no mapping, or no memory.                                      *)
NothingFound(n) == \E what \in {"mapping", "memory"} : <<n, what>> \in denied

(* A reason for which picture n may be refused.                            *)
Justified(n) ==
  ~Supported(stream[n]) \/ NothingFound(n) \/ (InHardware /\ KeptTooLong(n))

(* The image that is kept was made for a picture that was decoded by the   *)
(* same decoder, of at most 8 bits; what mvt_image_convert() cannot do with *)
(* it is not in a supported format.                                        *)
LEMMA HistoryFormat ==
  ASSUME FitInv, NEW m \in 1..Handled, MadeFor(m, Handled), InHardware
  PROVE  /\ stream[m].format \in VideoFormats
         /\ Chroma(own.format) = Chroma(stream[m].format)
         /\ Chroma(own.format) = "420" => own.format = "I420"
         /\ Chroma(own.format) = "400" => own.format = "Y800"
<1>1. m \in 1..Len(stream)
  BY StreamPictures DEF FitInv, Handled
<1>2. stream[m] \in Pictures /\ Possible(stream[m])
  BY <1>1, StreamPictures DEF FitInv
<1>3. stream[m].format \in VideoFormats
  BY <1>2, PictureFields
<1>4. VideoFormatInfo[stream[m].format].depth = 8
  BY <1>2 DEF Possible
<1> QED BY <1>3, <1>4, NormalizeKeeps DEF MadeFor

(* What failed to be mapped is found out when it is taken.                 *)
LEMMA NextDenied ==
  ASSUME [Next]_vars
  PROVE  /\ denied \subseteq denied'
         /\ \A k : Unmapped(k)' =>
              Unmapped(k) \/ (TakePicture /\ Refuse(taken + 1) /\ k = taken + 1)
<1>1. CASE TakePicture
  <2>1. denied' = denied \/ (Refuse(taken + 1) /\ Denied(taken + 1, "mapping"))
    BY <1>1 DEF TakePicture
  <2> QED BY <1>1, <2>1 DEF Unmapped, Denied
<1>2. CASE NewOwnImage \/ HashRefused
  <2>1. denied' = denied \/ Denied(taken, "memory")
    BY <1>2 DEF NewOwnImage, HashRefused
  <2> QED BY <2>1 DEF Unmapped, Denied
<1>3. CASE ~TakePicture /\ ~NewOwnImage /\ ~HashRefused
  <2>1. denied' = denied
    <3>1. CASE ConvertByLibyuv \/ CopyInternal \/ FillCache \/ DrainCache
      BY <3>1, ConvertFrame, CacheFrame
    <3>2. CASE KeepImage \/ ConvertExits \/ Unsupported
      BY <3>2 DEF KeepImage, ConvertExits, Unsupported
    <3>3. CASE \/ StartCopies \/ CopiesDone \/ HashStarts \/ HashUpdate
               \/ HashGoesOn \/ Report \/ Terminated \/ UNCHANGED vars
      BY <3>3 DEF StartCopies, CopiesDone, HashStarts, HashUpdate, HashGoesOn, Report,
         Terminated, vars
    <3> QED BY <1>3, <3>1, <3>2, <3>3 DEF Next
  <2> QED BY <2>1 DEF Unmapped
<1> QED BY <1>1, <1>2, <1>3

LEMMA SameLook ==
  ASSUME [Next]_vars, taken \in Nat
  PROVE  \A k \in 1..taken : LookedAt(k)' <=> LookedAt(k)
<1>1. stream' = stream
  BY StreamFrame DEF pathVars
<1>2. \A k \in 1..taken : k # taken + 1
  OBVIOUS
<1>3. \A k \in 1..taken : Unmapped(k)' <=> Unmapped(k)
  BY <1>2, NextDenied DEF Unmapped
<1> QED BY <1>1, <1>3 DEF LookedAt, Croppable

LEMMA NextMapped ==
  ASSUME PlaceInv, MappedInv, [Next]_vars
  PROVE  MappedInv'
<1>1. taken \in Nat
  BY StreamPictures
<1>2. CASE TakePicture
  <2>0. PICK n : n = taken + 1
    OBVIOUS
  <2>1. taken' = taken + 1 /\ taken' = n
    BY <1>2, <2>0 DEF TakePicture
  <2>2. \A k : Unmapped(k)' => k \in 1..taken'
    <3>1. SUFFICES ASSUME NEW k, Unmapped(k)' PROVE k \in 1..taken + 1
      BY <2>1
    <3>2. k \in 1..taken \/ k = taken + 1
      BY <3>1, NextDenied DEF MappedInv
    <3> QED BY <1>1, <3>2
  <2>3. Handling' => ~Refuse(taken + 1)
    BY DEF Handling, Refuse
  <2>4. ~Unmapped(n)
    BY <1>1, <2>0 DEF MappedInv
  <2>5. Handling' => ~Unmapped(n)'
    BY <2>3, <2>4, NextDenied
  <2>6. Unmapped(n)' <=> Unmapped(taken)'
    BY <2>1 DEF Unmapped
  <2> QED BY <2>2, <2>5, <2>6 DEF MappedInv
<1>3. CASE ~TakePicture
  <2>1. taken' = taken
    BY <1>3, StreamFrame
  <2>2. \A k : Unmapped(k)' => Unmapped(k)
    BY <1>3, NextDenied
  <2>3. Handling' => Handling
    <3>1. CASE KeepImage \/ NewOwnImage
      BY <3>1 DEF KeepImage, NewOwnImage, Refuse, Handling
    <3>2. CASE ConvertExits \/ Unsupported \/ HashRefused
      BY <3>2 DEF ConvertExits, Unsupported, HashRefused, Refuse, Exit, Handling
    <3>3. CASE StartCopies \/ CopiesDone
      BY <3>3 DEF StartCopies, CopiesDone, Handling
    <3>4. CASE ConvertByLibyuv \/ CopyInternal \/ FillCache \/ DrainCache
      BY <3>4, ConvertFrame, CacheFrame DEF Handling
    <3>5. CASE \/ HashStarts \/ HashUpdate \/ HashGoesOn \/ Report
               \/ Terminated \/ UNCHANGED vars
      BY <3>5 DEF HashStarts, HashUpdate, HashGoesOn, Report, Terminated, vars, Handling
    <3> QED BY <1>3, <3>1, <3>2, <3>3, <3>4, <3>5 DEF Next
  <2>4. Unmapped(taken)' => Unmapped(taken)
    BY <2>1, <2>2 DEF Unmapped
  <2> QED BY <2>1, <2>2, <2>3, <2>4 DEF MappedInv
<1> QED BY <1>2, <1>3

LEMMA StillMadeFor ==
  ASSUME own' = own, stream' = stream, NEW last \in Nat, Handled' = last,
         \A k \in 1..last : LookedAt(k)' <=> LookedAt(k),
         NEW m \in 1..last, MadeFor(m, last)
  PROVE  MadeForSome'
<1>1. \A k \in m..last : k \in 1..last
  OBVIOUS
<1> QED BY <1>1 DEF MadeForSome, MadeFor

LEMMA OneMore ==
  ASSUME NEW n \in Nat, NEW S, S \subseteq 1..n
  PROVE  S \cup {n + 1} \subseteq 1..n + 1
OBVIOUS

LEMMA NoMore ==
  ASSUME NEW n \in Nat, n > 0, NEW S, S \subseteq 1..n
  PROVE  S \cup {n} \subseteq 1..n
OBVIOUS

LEMMA NextHistory ==
  ASSUME FitInv, HistoryInv, [Next]_vars
  PROVE  HistoryInv'
<1>1. path' = path /\ stream' = stream
  BY StreamFrame DEF pathVars
<1>2. taken \in Nat /\ refused \subseteq 1..taken
  BY StreamPictures DEF FitInv, HistoryInv
<1>3. MappedInv' /\ \A k \in 1..taken : LookedAt(k)' <=> LookedAt(k)
  BY <1>2, NextMapped, SameLook DEF FitInv, HistoryInv
<1>4. CASE TakePicture
  <2>1. taken' = taken + 1 /\ own' = own /\ stage = "next"
    BY <1>4 DEF TakePicture
  <2>2. refused' \subseteq 1..taken'
    <3>1. refused' \subseteq refused \cup {taken + 1}
      BY <1>4 DEF TakePicture, Refuse, outVars
    <3>2. refused \cup {taken + 1} \subseteq 1..taken + 1
      BY <1>2, OneMore
    <3> QED BY <2>1, <3>1, <3>2
  <2>3. ASSUME path = "gst_vaapi", own # NoImage
        PROVE  MadeForSome'
    <3>1. PICK m \in 1..taken : MadeFor(m, taken)
      BY <2>1, <2>3 DEF HistoryInv, Handled, MadeForSome
    <3>2. CASE stage' = "image"
      <4>1. Handled' = taken
        BY <1>2, <2>1, <3>2 DEF Handled
      <4> QED BY <1>1, <1>2, <1>3, <2>1, <3>1, <4>1, StillMadeFor
    <3>3. CASE stage' # "image"
      <4>1. Handled' = taken + 1
        BY <1>2, <2>1, <3>3 DEF Handled
      <4>2. \A n : n = taken + 1 => ~LookedAt(n)'
        <5>. SUFFICES ASSUME NEW n, n = taken + 1 PROVE ~LookedAt(n)'
          OBVIOUS
        <5>1. InHardware /\ Known(stream[n])
          BY <2>3 DEF InHardware, Known
        <5>2. CASE Denied(n, "mapping")
          BY <5>2 DEF LookedAt, Unmapped, Denied
        <5>3. CASE ~Denied(n, "mapping")
          <6>1. ~CropAccepted(SourceImage(stream[n]), CropRect(stream[n]))
            BY <1>4, <3>3, <5>1, <5>3 DEF TakePicture
          <6>2. stream[n] \in Pictures
            BY <1>2, <1>4, StreamPictures DEF FitInv, TakePicture
          <6>3. ~Croppable(stream[n])
            BY <6>1, <6>2, ViewFields
          <6> QED BY <1>1, <6>3 DEF LookedAt, Croppable
        <5> QED BY <5>2, <5>3
      <4>3. /\ own'.format = Normalize(stream'[m].format) /\ LookedAt(m)'
            /\ \A k \in m..taken + 1 : LookedAt(k)' =>
                 /\ stream'[k].rect.width = own'.width
                 /\ stream'[k].rect.height = own'.height
        <5>1. \A k \in m..taken + 1 : k \in m..taken \/ k = taken + 1
          BY <1>2
        <5>2. \A k \in m..taken : k \in 1..taken
          BY <1>2
        <5> QED BY <1>1, <1>3, <2>1, <3>1, <4>2, <5>1, <5>2 DEF MadeFor
      <4>4. m \in 1..taken + 1
        BY <1>2
      <4> QED BY <2>1, <4>1, <4>3, <4>4 DEF MadeForSome, MadeFor
    <3> QED BY <3>2, <3>3
  <2> QED BY <1>1, <1>3, <2>1, <2>2, <2>3 DEF HistoryInv, NoImage
<1>5. CASE ~TakePicture
  <2>1. taken' = taken /\ image' = image
    BY <1>5, StreamFrame
  <2>2. CASE KeepImage
    <3>1. own' = own /\ refused' = refused /\ stage = "image" /\ stage' = "convert" /\ SizeKept
      BY <2>2 DEF KeepImage, outVars
    <3>2. Handled = taken - 1 /\ Handled' = taken
      BY <2>1, <3>1 DEF Handled
    <3>3. /\ stream[taken].rect.width = own.width
          /\ stream[taken].rect.height = own.height
      BY <3>1, ImageFields DEF FitInv, Handling, Picture0, SizeKept
    <3>4. \A m : m \in 1..taken - 1 /\ MadeFor(m, taken - 1) => MadeFor(m, taken)
      BY <1>2, <3>3 DEF MadeFor
    <3>5. \A m \in 1..taken - 1 : m \in 1..taken
      BY <1>2
    <3>6. ASSUME path = "gst_vaapi", own # NoImage
          PROVE  MadeForSome'
      <4>1. PICK m \in 1..taken - 1 : MadeFor(m, taken - 1)
        BY <3>2, <3>6 DEF HistoryInv, MadeForSome
      <4>2. m \in 1..taken /\ MadeFor(m, taken)
        BY <3>4, <3>5, <4>1
      <4> QED BY <1>1, <1>2, <1>3, <3>1, <3>2, <4>2, StillMadeFor
    <3> QED BY <1>1, <1>2, <1>3, <2>1, <3>1, <3>6 DEF HistoryInv, NoImage
  <2>3. CASE NewOwnImage
    <3>1. stage = "image" /\ taken \in 1..Len(stream) /\ LookedAt(taken)
      BY <1>2, <2>3, StreamPictures DEF NewOwnImage, FitInv, PlaceInv, HistoryInv,
         MappedInv, Handling, LookedAt, Picture0
    <3>2. refused' \subseteq 1..taken
      <4>1. refused' = refused \/ refused' = refused \cup {taken}
        BY <2>3 DEF NewOwnImage, Refuse, outVars
      <4>2. refused \cup {taken} \subseteq 1..taken
        BY <1>2, <3>1, NoMore
      <4> QED BY <1>2, <4>1, <4>2
    <3>3. ASSUME path = "gst_vaapi", own' # NoImage
          PROVE  MadeForSome'
      <4>1. /\ own' = NewImage(OwnFormat, image.width, image.height, 0)
            /\ stage' = "convert" /\ Handled' = taken
        BY <2>1, <2>3, <3>3 DEF NewOwnImage, Handled
      <4>2. /\ OwnFormat = Normalize(stream[taken].format) /\ OwnFormat \in VideoFormats
            /\ image.width = stream[taken].rect.width
            /\ image.height = stream[taken].rect.height
        BY <3>1, <3>3, ImageFields, OwnFormatKnown
           DEF FitInv, Handling, OwnFormat, Picture0
      <4>3. /\ own'.format = OwnFormat /\ own'.width = image.width
            /\ own'.height = image.height
        BY <4>1, <4>2, NewFields
      <4>4. LookedAt(taken)'
        <5>1. PICK n : n = taken
          OBVIOUS
        <5>2. n \in 1..taken /\ LookedAt(n)
          BY <1>2, <3>1, <5>1
        <5>3. LookedAt(n)'
          BY <1>3, <5>2
        <5> QED BY <2>1, <5>1, <5>3 DEF LookedAt, Unmapped
      <4>5. \A k \in taken..taken : k = taken
        BY <1>2
      <4>6. MadeFor(taken, taken)'
        BY <1>1, <2>1, <4>2, <4>3, <4>4, <4>5 DEF MadeFor
      <4>7. taken \in 1..taken
        BY <1>2, <3>1
      <4> QED BY <2>1, <4>1, <4>6, <4>7 DEF MadeForSome, MadeFor
    <3> QED BY <1>1, <1>3, <2>1, <3>2, <3>3 DEF HistoryInv, NoImage
  <2>4. CASE ~KeepImage /\ ~NewOwnImage
    <3>1. own' = own
      <4>1. CASE ConvertExits \/ Unsupported \/ StartCopies \/ CopiesDone
        BY <4>1 DEF ConvertExits, Unsupported, StartCopies, CopiesDone
      <4>2. CASE ConvertByLibyuv \/ CopyInternal \/ FillCache \/ DrainCache
        BY <4>2, ConvertFrame, CacheFrame
      <4>3. CASE \/ HashStarts \/ HashRefused \/ HashUpdate \/ HashGoesOn \/ Report
                 \/ Terminated \/ UNCHANGED vars
        BY <4>3 DEF HashStarts, HashRefused, HashUpdate, HashGoesOn, Report,
           Terminated, vars
      <4> QED BY <1>5, <2>4, <4>1, <4>2, <4>3 DEF Next
    <3>2. /\ stage' = stage \/ (stage # "image" /\ stage' # "image")
          /\ refused' = refused \/ (Handling /\ refused' = refused \cup {taken})
      <4>1. CASE ConvertExits \/ Unsupported \/ HashRefused
        BY <4>1 DEF ConvertExits, Unsupported, HashRefused, Exit, Refuse, Handling
      <4>2. CASE StartCopies \/ CopiesDone
        BY <4>2 DEF StartCopies, CopiesDone, outVars
      <4>3. CASE ConvertByLibyuv \/ CopyInternal \/ FillCache \/ DrainCache
        BY <4>3, ConvertFrame, CacheFrame DEF outVars
      <4>4. CASE \/ HashStarts \/ HashUpdate \/ HashGoesOn \/ Report
                 \/ Terminated \/ UNCHANGED vars
        BY <4>4 DEF HashStarts, HashUpdate, HashGoesOn, Report,
           Terminated, vars, outVars
      <4> QED BY <1>5, <2>4, <4>1, <4>2, <4>3, <4>4 DEF Next
    <3>3. Handled' = Handled
      BY <2>1, <3>2 DEF Handled
    <3>4. Handling => taken > 0
      BY DEF FitInv, PlaceInv
    <3>5. refused' \subseteq 1..taken
      <4>1. Handling => refused \cup {taken} \subseteq 1..taken
        BY <1>2, <3>4, NoMore
      <4> QED BY <1>2, <3>2, <4>1
    <3>6. ASSUME own # NoImage, path = "gst_vaapi"
          PROVE  MadeForSome'
      <4>1. PICK m \in 1..Handled : MadeFor(m, Handled)
        BY <3>6 DEF HistoryInv, MadeForSome
      <4>2. Handled \in Nat /\ \A k \in 1..Handled : k \in 1..taken
        <5>1. stage = "image" => taken > 0
          BY <3>4 DEF Handling
        <5> QED BY <1>2, <5>1 DEF Handled
      <4> QED BY <1>1, <1>3, <3>1, <3>3, <4>1, <4>2, StillMadeFor
    <3> QED BY <1>1, <1>3, <2>1, <3>1, <3>5, <3>6 DEF HistoryInv, NoImage
  <2> QED BY <2>2, <2>3, <2>4
<1> QED BY <1>4, <1>5

LEMMA StaysJustified ==
  ASSUME PlaceInv, [Next]_vars, NEW n \in 1..taken, Justified(n)
  PROVE  Justified(n)'
<1>1. path' = path /\ stream' = stream /\ taken \in Nat
  BY StreamFrame, StreamPictures DEF pathVars
<1>2. (InHardware' <=> InHardware) /\ (Supported(stream[n])' <=> Supported(stream[n]))
  BY <1>1 DEF InHardware, Supported, Known, Croppable
<1>3. KeptTooLong(n)' <=> KeptTooLong(n)
  <2>1. \A m \in 1..n - 1 : m \in 1..taken
    BY <1>1
  <2>2. \A m \in 1..n - 1 : \A k \in m..n : k \in 1..taken
    BY <1>1
  <2>3. \A k \in 1..taken : LookedAt(k)' <=> LookedAt(k)
    BY <1>1, SameLook
  <2> QED BY <1>1, <2>1, <2>2, <2>3 DEF KeptTooLong
<1>4. NothingFound(n) => NothingFound(n)'
  BY NextDenied DEF NothingFound
<1> QED BY <1>2, <1>3, <1>4 DEF Justified

(* mvt_fatal_error() of mvt_image_convert_full(): the chroma of the own    *)
(* image is that of an earlier picture.                                    *)
LEMMA ExitJustified ==
  ASSUME FitInv, HistoryInv, ConvertExits
  PROVE  Justified(taken)
<1>1. stage = "convert" /\ ~Convertible
  BY DEF ConvertExits
<1>2. /\ InHardware /\ SizeKept /\ taken \in 1..Len(stream)
      /\ taken \in Nat /\ Handled = taken
  BY <1>1, StreamPictures DEF FitInv, PlaceInv, OwnInv, Handling, Handled, Picture0
<1>3. /\ image.format = stream[taken].format /\ image.format \in VideoFormats
      /\ image.width = stream[taken].rect.width
      /\ image.height = stream[taken].rect.height
  BY <1>1, ImageFields DEF FitInv, Handling, Picture0
<1>4. Chroma(own.format) # Chroma(image.format)
  BY <1>1, <1>2 DEF Convertible, SizeKept
<1>5. CASE path = "ffmpeg_vaapi"
  <2>1. own.format = "I420"
    BY <1>2, <1>5 DEF FitInv, OwnInv, SizeKept
  <2>2. Chroma("NV12") = "420" /\ Chroma("I420") = "420"
    BY DEF Chroma, VideoFormatInfo, Info
  <2>3. image.format \notin {"NV12", "I420"}
    BY <1>4, <2>1, <2>2
  <2> QED BY <1>2, <1>3, <1>5, <2>3 DEF Justified, Supported
<1>6. CASE path # "ffmpeg_vaapi"
  <2>1. path = "gst_vaapi" /\ own # NoImage
    BY <1>2, <1>6 DEF InHardware, SizeKept
  <2>2. PICK m \in 1..taken : MadeFor(m, taken)
    BY <1>2, <2>1 DEF HistoryInv, MadeForSome
  <2>3. Chroma(own.format) = Chroma(stream[m].format)
    BY <1>2, <2>2, HistoryFormat
  <2>4. m \in 1..taken - 1
    BY <1>2, <1>3, <1>4, <2>2, <2>3
  <2>5. own.width = stream[taken].rect.width /\ own.height = stream[taken].rect.height
    BY <1>2, <1>3 DEF SizeKept
  <2>6. KeptTooLong(taken)
    BY <1>3, <1>4, <2>2, <2>3, <2>4, <2>5 DEF KeptTooLong, MadeFor
  <2> QED BY <1>2, <2>6 DEF Justified
<1> QED BY <1>5, <1>6

(* mvt_image_convert() knows every pair that a supported format leads to.  *)
LEMMA UnsupportedJustified ==
  ASSUME FitInv, HistoryInv, Unsupported
  PROVE  Justified(taken)
<1>1. stage = "convert" /\ Convertible /\ ~UswcCopy /\ own.format # image.format
  BY DEF Unsupported
<1>2. /\ InHardware /\ own # NoImage /\ Handled = taken
      /\ Chroma(own.format) = Chroma(image.format)
  BY <1>1 DEF FitInv, PlaceInv, OwnInv, Handled, SizeKept, Convertible
<1>3. image.format = stream[taken].format
  BY <1>1, ImageFields DEF FitInv, Handling, Picture0
<1>4. SUFFICES ASSUME Supported(stream[taken]) PROVE FALSE
  BY DEF Justified
<1>5. \/ image.format \in {"NV12", "I420"}
      \/ path = "gst_vaapi" /\ image.format = "Y800"
  BY <1>2, <1>3, <1>4 DEF Supported
<1>6. /\ Chroma("NV12") = "420" /\ Chroma("I420") = "420" /\ Chroma("Y800") = "400"
  BY DEF Chroma, VideoFormatInfo, Info
<1>7. CASE path = "ffmpeg_vaapi"
  <2>1. own.format = "I420"
    BY <1>2, <1>7 DEF FitInv, OwnInv
  <2> QED BY <1>1, <1>5, <1>7, <2>1 DEF UswcCopy
<1>8. CASE path # "ffmpeg_vaapi"
  <2>1. path = "gst_vaapi"
    BY <1>2, <1>8 DEF InHardware
  <2>2. PICK m \in 1..taken : MadeFor(m, taken)
    BY <1>2, <2>1 DEF HistoryInv, MadeForSome
  <2>3. /\ Chroma(own.format) = "420" => own.format = "I420"
        /\ Chroma(own.format) = "400" => own.format = "Y800"
    BY <1>2, <2>2, HistoryFormat
  <2>4. CASE image.format \in {"NV12", "I420"}
    BY <1>1, <1>2, <1>6, <2>3, <2>4 DEF UswcCopy
  <2>5. CASE image.format = "Y800"
    BY <1>1, <1>2, <1>6, <2>3, <2>5
  <2> QED BY <1>5, <2>4, <2>5
<1> QED BY <1>7, <1>8

LEMMA HashRefusedJustified ==
  ASSUME FitInv, HashRefused, denied' = denied
  PROVE  Justified(taken)
<1>1. stage = "hash" /\ (Denied(taken, "memory") => NothingFound(taken))
  BY DEF HashRefused, Denied, NothingFound
<1>0. SUFFICES ASSUME ~IsYuv(Hashed.format) PROVE Justified(taken)
  BY <1>1 DEF HashRefused, Justified
<1>2. image.format = stream[taken].format /\ image.format \in VideoFormats
  BY <1>1, ImageFields DEF FitInv, Handling, Picture0
<1>3. ~IsYuv(image.format)
  <2>1. CASE InHardware
    <3>1. Chroma(own.format) = Chroma(image.format) /\ own.format \in VideoFormats
      BY <1>1, <2>1 DEF FitInv, OwnInv, SizeKept
    <3>2. ~IsYuv(own.format)
      BY <1>0, <2>1 DEF Hashed
    <3> QED BY <1>2, <3>1, <3>2, InfoFields
  <2>2. CASE ~InHardware
    BY <1>0, <2>2 DEF Hashed
  <2> QED BY <2>1, <2>2
<1> QED BY <1>2, <1>3 DEF Justified, Supported

LEMMA NextJustified ==
  ASSUME FitInv, HistoryInv, \A n \in refused : Justified(n), [Next]_vars
  PROVE  \A n \in refused' : Justified(n)'
<1>. USE DEF FitInv
<1>1. taken \in Nat /\ refused \subseteq 1..taken /\ (Handling => taken \in 1..taken)
  BY StreamPictures DEF HistoryInv, PlaceInv
<1>2. \A n \in refused : Justified(n)'
  BY <1>1, StaysJustified
<1>3. path' = path /\ stream' = stream
  BY StreamFrame DEF pathVars
<1>4. CASE TakePicture
  <2>. DEFINE picture == stream[taken + 1]
  <2>1. picture \in Pictures
    BY <1>4, StreamPictures DEF TakePicture
  <2>2. \/ UNCHANGED outVars
        \/ ~Supported(picture) /\ Refuse(taken + 1)
        \/ Denied(taken + 1, "mapping") /\ Refuse(taken + 1)
    <3>1. \/ UNCHANGED outVars
          \/ /\ ~Known(picture) \/ ~CropAccepted(SourceImage(picture), CropRect(picture))
             /\ Refuse(taken + 1)
          \/ Denied(taken + 1, "mapping") /\ Refuse(taken + 1)
      BY <1>4 DEF TakePicture
    <3>2. CropAccepted(SourceImage(picture), CropRect(picture)) <=> Croppable(picture)
      BY <2>1, ViewFields
    <3> QED BY <3>1, <3>2 DEF Supported
  <2>3. Refuse(taken + 1) => refused' = refused \cup {taken + 1}
    BY DEF Refuse
  <2>4. CASE UNCHANGED outVars
    BY <1>2, <2>4 DEF outVars
  <2>5. CASE ~Supported(picture) /\ Refuse(taken + 1)
    <3>1. \A n : n = taken + 1 => ~Supported(stream[n])'
      BY <1>3, <2>5 DEF Supported, Known, Croppable, InHardware
    <3> QED BY <1>2, <2>3, <2>5, <3>1 DEF Justified
  <2>6. CASE Denied(taken + 1, "mapping") /\ Refuse(taken + 1)
    <3>1. \A n : n = taken + 1 => NothingFound(n)'
      BY <2>6 DEF NothingFound, Denied
    <3> QED BY <1>2, <2>3, <2>6, <3>1 DEF Justified
  <2> QED BY <2>2, <2>4, <2>5, <2>6
<1>5. CASE ConvertExits \/ Unsupported \/ (HashRefused /\ denied' = denied)
  <2>1. refused' = refused \cup {taken} /\ Handling
    BY <1>5 DEF ConvertExits, Unsupported, HashRefused, Exit, Refuse, Handling
  <2>2. Justified(taken)
    BY <1>5, ExitJustified, UnsupportedJustified, HashRefusedJustified
  <2>3. \A n \in 1..taken : Justified(n) => Justified(n)'
    BY StaysJustified
  <2> QED BY <1>1, <1>2, <2>1, <2>2, <2>3
<1>6. CASE NewOwnImage \/ (HashRefused /\ denied' # denied)
  <2>1. refused' = refused \/ (refused' = refused \cup {taken} /\ Denied(taken, "memory"))
    BY <1>6 DEF NewOwnImage, HashRefused, Refuse, outVars
  <2>2. Denied(taken, "memory") => \A n : n = taken => NothingFound(n)'
    BY DEF NothingFound, Denied
  <2> QED BY <1>2, <2>1, <2>2 DEF Justified
<1>7. CASE ~TakePicture /\ ~ConvertExits /\ ~Unsupported /\ ~HashRefused /\ ~NewOwnImage
  <2>1. refused' = refused
    <3>1. CASE ConvertByLibyuv \/ CopyInternal \/ FillCache \/ DrainCache
      BY <3>1, ConvertFrame, CacheFrame DEF outVars
    <3>2. CASE \/ KeepImage \/ StartCopies \/ CopiesDone \/ HashStarts \/ HashUpdate
               \/ HashGoesOn \/ Report \/ Terminated \/ UNCHANGED vars
      BY <3>2 DEF KeepImage, StartCopies, CopiesDone, HashStarts, HashUpdate,
         HashGoesOn, Report, Terminated, vars, outVars
    <3> QED BY <1>7, <3>1, <3>2 DEF Next
  <2> QED BY <1>2, <2>1
<1> QED BY <1>4, <1>5, <1>6, <1>7

LEMMA RefusalInvariant ==
  Spec => [](FitInv /\ HistoryInv /\ \A n \in refused : Justified(n))
<1>. DEFINE I == HistoryInv /\ \A n \in refused : Justified(n)
<1>1. Init => I
  BY DEF Init, HistoryInv, MappedInv, Unmapped, Handling
<1>2. ASSUME FitInv, I, [Next]_vars PROVE I'
  <2>1. HistoryInv'
    BY <1>2, NextHistory
  <2>2. \A n \in refused' : Justified(n)'
    BY <1>2, NextJustified
  <2> QED BY <2>1, <2>2
<1>. HIDE DEF I
<1>3. Spec => [](FitInv /\ I)
  BY <1>1, <1>2, AlwaysFits, PTL DEF Spec
<1> QED BY <1>3 DEF I

(* No picture is left out of the report but for its format or its crop, a  *)
(* mapping that fails, a lack of memory, or an image that was kept for a   *)
(* picture of another format because only pictures of its size came since. *)
THEOREM RefusalsAreJustified == Spec => []RefusedForAReason
<1>1. (\A n \in refused : Justified(n)) => RefusedForAReason
  BY DEF RefusedForAReason, Justified, NothingFound, KeptTooLong
<1> QED BY <1>1, RefusalInvariant, PTL

-----------------------------------------------------------------------------
(* Where the samples of a picture are                                      *)

(* The tables of the formats                                               *)

(* A component, with the chroma shifts of its format: the first one is in  *)
(* plane 0, and the others are at the pixel pitch of a plane of their own, *)
(* or share plane 0 with as many rows as the luma.                         *)
GoodComponent(f, i) ==
  LET c == Components(f)[i]
  IN  /\ c.plane \in Planes(f) /\ c.offset \in Nat /\ c.stride \in Nat \ {0}
      /\ i = 1 => c.plane = 0
      /\ i > 1 => \/ /\ c.plane = 0 /\ HeightShift(f) = 1
                     /\ c.stride = WidthShift(f) * PixelPitch(f, 0)
                  \/ c.plane # 0
      /\ i = 1 \/ c.plane # 0 => c.stride = PixelPitch(f, c.plane)
      /\ c.stride = BytesPerSample(f) => c.offset = 0
      /\ c.stride # BytesPerSample(f) => BytesPerSample(f) = 1

LEMMA FormatTable ==
  ASSUME NEW f \in VideoFormats
  PROVE  /\ WidthShift(f) \in {1, 2} /\ HeightShift(f) \in {1, 2}
         /\ BytesPerSample(f) \in {1, 2}
         /\ 0 \in Planes(f) /\ Planes(f) \subseteq 0..2
         /\ 2 \in Planes(f) => 1 \in Planes(f)
         /\ \A p \in Planes(f) : FirstIn(f, p) \in Nat /\ PixelPitch(f, p) \in {1, 2, 4}
         /\ FirstIn(f, 0) = 1
         /\ VideoFormatInfo[f].components = 1 =>
              f = "Y800" /\ ComponentsOf(f) = 1..1 /\ Planes(f) = {0}
         /\ VideoFormatInfo[f].components # 1 => 1..3 \subseteq ComponentsOf(f)
         /\ 1 \in ComponentsOf(f) /\ ComponentsOf(f) \subseteq 1..4
         /\ \A i \in ComponentsOf(f) : i <= 3 => GoodComponent(f, i)
<1>1. /\ WidthShift(f) \in {1, 2} /\ HeightShift(f) \in {1, 2}
      /\ BytesPerSample(f) \in {1, 2}
  BY DEF WidthShift, HeightShift, BytesPerSample
<1>2. CASE f \notin DOMAIN ComponentTable
  <2>1. PICK n \in {1, 2} : n = BytesPerSample(f) /\ Components(f) = Planar(n)
    BY <1>1, <1>2 DEF Components
  <2>2. /\ DOMAIN Planar(n) = 1..3
        /\ \A i \in 1..3 : Planar(n)[i] = Component(i - 1, 0, n)
    BY DEF Planar
  <2>3. ComponentsOf(f) = 1..3
    BY <2>1, <2>2 DEF ComponentsOf
  <2>4. \A i \in 1..3 : /\ Components(f)[i].plane = i - 1
                        /\ Components(f)[i].offset = 0
                        /\ Components(f)[i].stride = n
    BY <2>1, <2>2 DEF Component
  <2>5. Planes(f) = 0..2
    <3>1. Planes(f) = {Components(f)[i].plane : i \in 1..3}
      BY <2>3 DEF Planes
    <3>2. \A p \in 0..2 : p + 1 \in 1..3 /\ Components(f)[p + 1].plane = p
      BY <2>4
    <3>. QED  BY <2>4, <3>1, <3>2
  <2>6. \A p \in 0..2 : FirstIn(f, p) = p + 1
    BY <2>3, <2>4 DEF FirstIn
  <2>7. \A p \in 0..2 : PixelPitch(f, p) = n
    BY <2>4, <2>6 DEF PixelPitch
  <2>8. VideoFormatInfo[f].components # 1
    BY <1>2 DEF ComponentTable, VideoFormats, VideoFormatInfo, Info
  <2>9. \A i \in 1..3 : GoodComponent(f, i)
    BY <2>1, <2>4, <2>5, <2>7 DEF GoodComponent
  <2>. QED  BY <1>1, <2>3, <2>5, <2>6, <2>7, <2>8, <2>9
<1>3. CASE f \in {"NV12", "YV12"}
  <2>1. /\ WidthShift(f) = 2 /\ HeightShift(f) = 2 /\ BytesPerSample(f) = 1
        /\ VideoFormatInfo[f].components = 3
    BY <1>3 DEF WidthShift, HeightShift, BytesPerSample, VideoFormatInfo, Info
  <2>2. /\ f = "NV12" => Components(f) = <<Component(0, 0, 1), Component(1, 0, 2), Component(1, 1, 2)>>
        /\ f = "YV12" => Components(f) = <<Component(0, 0, 1), Component(2, 0, 1), Component(1, 0, 1)>>
    BY <1>3 DEF Components, ComponentTable
  <2>3. ComponentsOf(f) = 1..3
    BY <1>3, <2>2 DEF ComponentsOf
  <2>4. Planes(f) = IF f = "NV12" THEN 0..1 ELSE 0..2
    BY <1>3, <2>2, <2>3 DEF Planes, Component
  <2>5. /\ FirstIn(f, 0) = 1
        /\ FirstIn(f, 1) = IF f = "NV12" THEN 2 ELSE 3
        /\ f = "YV12" => FirstIn(f, 2) = 2
    BY <1>3, <2>2, <2>3 DEF FirstIn, Component
  <2>6. /\ PixelPitch(f, 0) = 1
        /\ PixelPitch(f, 1) = IF f = "NV12" THEN 2 ELSE 1
        /\ f = "YV12" => PixelPitch(f, 2) = 1
    BY <1>3, <2>2, <2>5 DEF PixelPitch, Component
  <2>7. \A i \in 1..3 : GoodComponent(f, i)
    BY <1>3, <2>1, <2>2, <2>4, <2>6 DEF GoodComponent, Component
  <2>. QED  BY <1>1, <1>3, <2>1, <2>3, <2>4, <2>5, <2>6, <2>7
<1>4. CASE f \in {"YUY2", "UYVY", "AYUV", "ARGB", "xRGB"}
  <2>1. /\ WidthShift(f) = IF f \in {"YUY2", "UYVY"} THEN 2 ELSE 1
        /\ HeightShift(f) = 1 /\ BytesPerSample(f) = 1
        /\ VideoFormatInfo[f].components \in {3, 4}
    BY <1>4 DEF WidthShift, HeightShift, BytesPerSample, VideoFormatInfo, Info
  <2>2. /\ f = "YUY2" => Components(f) = <<Component(0, 0, 2), Component(0, 1, 4), Component(0, 3, 4)>>
        /\ f = "UYVY" => Components(f) = <<Component(0, 1, 2), Component(0, 0, 4), Component(0, 2, 4)>>
        /\ f \in {"AYUV", "ARGB"} =>
             Components(f) = <<Component(0, 1, 4), Component(0, 2, 4), Component(0, 3, 4),
                               Component(0, 0, 4)>>
        /\ f = "xRGB" => Components(f) = <<Component(0, 1, 4), Component(0, 2, 4), Component(0, 3, 4)>>
    BY <1>4 DEF Components, ComponentTable
  <2>3. ComponentsOf(f) = IF f \in {"AYUV", "ARGB"} THEN 1..4 ELSE 1..3
    BY <1>4, <2>2 DEF ComponentsOf
  <2>4. Planes(f) = {0}
    BY <1>4, <2>2, <2>3 DEF Planes, Component
  <2>5. FirstIn(f, 0) = 1
    BY <1>4, <2>2, <2>3 DEF FirstIn, Component
  <2>6. PixelPitch(f, 0) = IF f \in {"YUY2", "UYVY"} THEN 2 ELSE 4
    BY <1>4, <2>2, <2>5 DEF PixelPitch, Component
  <2>7. \A i \in 1..3 : GoodComponent(f, i)
    BY <1>4, <2>1, <2>2, <2>4, <2>6 DEF GoodComponent, Component
  <2>. QED  BY <1>1, <1>4, <2>1, <2>3, <2>4, <2>5, <2>6, <2>7
<1>5. CASE f = "Y800"
  <2>1. /\ BytesPerSample(f) = 1 /\ VideoFormatInfo[f].components = 1
        /\ HeightShift(f) = 1 /\ WidthShift(f) = 1
    BY <1>5 DEF BytesPerSample, VideoFormatInfo, Info, WidthShift, HeightShift
  <2>2. Components(f) = <<Component(0, 0, 1)>>
    BY <1>5 DEF Components, ComponentTable
  <2>3. ComponentsOf(f) = 1..1
    BY <2>2 DEF ComponentsOf
  <2>4. Planes(f) = {0}
    BY <2>2, <2>3 DEF Planes, Component
  <2>5. FirstIn(f, 0) = 1
    BY <2>2, <2>3 DEF FirstIn, Component
  <2>6. PixelPitch(f, 0) = 1
    BY <2>2, <2>5 DEF PixelPitch, Component
  <2>7. GoodComponent(f, 1)
    BY <2>1, <2>2, <2>4, <2>6 DEF GoodComponent, Component
  <2>. QED  BY <1>1, <1>5, <2>1, <2>3, <2>4, <2>5, <2>6, <2>7
<1>. QED  BY <1>2, <1>3, <1>4, <1>5 DEF ComponentTable

(* Addresses in the picture and in the own image                           *)

LEMMA Products == \A a, b \in Nat : a * b \in Nat
OBVIOUS

Moved(picture, p) ==
  LET rect == picture.rect
      f == picture.format
  IN  (rect.y * SourcePitch(picture, p)) \div (IF p = 0 THEN 1 ELSE HeightShift(f))
      + (rect.x * PixelPitch(f, p)) \div (IF p = 0 THEN 1 ELSE WidthShift(f))

LEMMA PicturePlanes ==
  ASSUME NEW picture \in Pictures, NEW p \in Planes(picture.format)
  PROVE  /\ SourceImage(picture).pitches[p] = SourcePitch(picture, p)
         /\ View(picture).pitches[p] = SourcePitch(picture, p)
         /\ SourcePitch(picture, p) \in Nat
         /\ SourceImage(picture).pixels[p] \in Nat
         /\ View(picture).pixels[p] = SourceImage(picture).pixels[p] + Moved(picture, p)
         /\ View(picture).pixels[p] \in Nat
<1>. DEFINE f == picture.format
            source == SourceImage(picture)
            pitch(q) == SourcePitch(picture, q)
            rows(q) == picture.codedHeight \div (IF q = 0 THEN 1 ELSE HeightShift(f))
            size(q) == rows(q) * pitch(q)
            above(q) == (IF q > 0 THEN size(0) ELSE 0) + (IF q > 1 THEN size(1) ELSE 0)
            rect == picture.rect
            shift(q, n) == IF q = 0 THEN 1 ELSE n
            down(q) == (rect.y * pitch(q)) \div shift(q, HeightShift(f))
            right(q) == (rect.x * PixelPitch(f, q)) \div shift(q, WidthShift(f))
<1>0. f \in VideoFormats
  BY PictureFields
<1>1. /\ p \in 0..2 /\ WidthShift(f) \in {1, 2} /\ HeightShift(f) \in {1, 2}
      /\ 0 \in Planes(f) /\ (p = 2 => 1 \in Planes(f))
      /\ \A q \in Planes(f) : PixelPitch(f, q) \in {1, 2, 4}
  BY <1>0, FormatTable
<1>2. \A q \in Planes(f) : pitch(q) \in Nat
  <2>1. SUFFICES ASSUME NEW q \in Planes(f) PROVE pitch(q) \in Nat
    OBVIOUS
  <2>2. CASE q = 0
    BY <2>2, PictureFields DEF SourcePitch
  <2>3. CASE q # 0
    <3>1. PixelPitch(f, 0) \in {1, 2, 4} /\ PixelPitch(f, q) \in {1, 2, 4} /\ picture.pitch \in Nat
      BY <1>1, PictureFields
    <3>2. picture.pitch * PixelPitch(f, q) \in Nat
      BY <3>1
    <3>3. PixelPitch(f, 0) * WidthShift(f) \in {1, 2, 4, 8}
      BY <1>1, <3>1
    <3>4. \A a \in Nat, b \in {1, 2, 4, 8} : a \div b \in Nat
      OBVIOUS
    <3>. HIDE DEF f
    <3>. QED  BY <2>3, <3>2, <3>3, <3>4 DEF SourcePitch, f
  <2>. QED  BY <2>2, <2>3
<1>3. /\ source.format = f
      /\ source.pitches = [q \in Planes(f) |-> pitch(q)]
      /\ source.pixels = [q \in Planes(f) |-> picture.base + above(q)]
  BY DEF SourceImage
<1>4. /\ CropRect(picture).x = rect.x /\ CropRect(picture).y = rect.y
      /\ View(picture).pitches = source.pitches
      /\ View(picture).pixels[p] = source.pixels[p] + Moved(picture, p)
  BY <1>3, CornerFound DEF View, SubImage, Moved
<1>5. picture.codedHeight \in Nat /\ picture.base \in Nat /\ rect.x \in Nat /\ rect.y \in Nat
  BY PictureFields
<1>6. pitch(0) \in Nat /\ (p = 2 => pitch(1) \in Nat) /\ pitch(p) \in Nat
      /\ PixelPitch(f, p) \in Nat /\ source.pixels[p] = picture.base + above(p)
      /\ source.pitches[p] = pitch(p)
  BY <1>1, <1>2, <1>3
<1>7. \A q \in {0, 1} : rows(q) \in Nat
  BY <1>1, <1>5
<1>8. Moved(picture, p) = down(p) + right(p)
  BY DEF Moved
<1>. HIDE DEF f, source, rect, pitch, rows
<1>9. size(0) \in Nat /\ (p = 2 => size(1) \in Nat)
  BY <1>6, <1>7, Products
<1>. HIDE DEF size
<1>10. above(p) \in Nat
  BY <1>1, <1>9
<1>11. down(p) \in Nat /\ right(p) \in Nat
  <2>1. rect.y * pitch(p) \in Nat /\ rect.x * PixelPitch(f, p) \in Nat
    BY <1>5, <1>6, Products
  <2>2. \A a \in Nat, b \in {1, 2} : a \div b \in Nat
    OBVIOUS
  <2>3. shift(p, HeightShift(f)) \in {1, 2} /\ shift(p, WidthShift(f)) \in {1, 2}
    BY <1>1
  <2>. HIDE DEF shift
  <2>. QED  BY <2>1, <2>2, <2>3
<1>. HIDE DEF above, down, right
<1>12. source.pixels[p] \in Nat /\ source.pixels[p] + (down(p) + right(p)) \in Nat
  BY <1>5, <1>6, <1>10, <1>11
<1>13. View(picture).pitches[p] = pitch(p)
  BY <1>4, <1>6
<1>. QED  BY <1>4, <1>6, <1>8, <1>12, <1>13 DEF source, pitch

(* The corner of the visible part, in samples of a component.              *)
Corner(picture, i) ==
  IF i = 1 THEN picture.rect
  ELSE [x |-> picture.rect.x \div WidthShift(picture.format),
        y |-> picture.rect.y \div HeightShift(picture.format)]

LEMMA Halves ==
  ASSUME NEW n \in Nat, NEW k \in {1, 2}, n % k = 0, NEW a \in Nat
  PROVE  /\ n \div k \in Nat
         /\ (n * a) \div k = (n \div k) * a
         /\ n * a = (n \div k) * (k * a)
<1>1. PICK q \in Nat : n = k * q /\ n \div k = q
  BY SMT
<1>2. (k * q) * a = k * (q * a) /\ q * a \in Nat /\ (k * q) * a = q * (k * a)
  BY <1>1
<1>3. \A z \in Nat : (k * z) \div k = z
  OBVIOUS
<1>. QED  BY <1>1, <1>2, <1>3

(* Cropping keeps every sample of the visible part where it is.            *)
LEMMA ViewComponent ==
  ASSUME NEW picture \in Pictures, IsYuv(picture.format), Croppable(picture),
         NEW i \in ComponentsOf(picture.format), i <= 3, NEW x \in Nat, NEW y \in Nat
  PROVE  /\ Corner(picture, i).x \in Nat /\ Corner(picture, i).y \in Nat
         /\ ComponentAddress(View(picture), i, x, y)
              = ComponentAddress(SourceImage(picture), i, Corner(picture, i).x + x,
                                 Corner(picture, i).y + y)
         /\ ComponentAddress(View(picture), i, x, y) \in Nat
<1>. DEFINE f == picture.format
            c == Components(f)[i]
            p == c.plane
            pitch == SourcePitch(picture, p)
            start == SourceImage(picture).pixels[p]
            cx == Corner(picture, i).x
            cy == Corner(picture, i).y
            rx == picture.rect.x
            ry == picture.rect.y
<1>1. f \in VideoFormats /\ GoodComponent(f, i) /\ WidthShift(f) \in {1, 2} /\ HeightShift(f) \in {1, 2}
      /\ i \in 1..3 /\ rx \in Nat /\ ry \in Nat
  BY FormatTable, PictureFields
<1>2. /\ p \in Planes(f) /\ c.offset \in Nat /\ c.stride \in Nat
      /\ pitch \in Nat /\ start \in Nat /\ View(picture).pixels[p] \in Nat
      /\ View(picture).pixels[p] = start + Moved(picture, p)
      /\ View(picture).pitches[p] = pitch /\ SourceImage(picture).pitches[p] = pitch
  BY <1>1, PicturePlanes DEF GoodComponent
<1>3. View(picture).format = f /\ SourceImage(picture).format = f
  BY ViewFields DEF SourceImage
<1>4. i # 1 => rx % WidthShift(f) = 0 /\ ry % HeightShift(f) = 0
  <2>1. i # 1 => VideoFormatInfo[f].components > 1
    <3>1. VideoFormatInfo[f].components \in 1..4
      BY <1>1, InfoFields
    <3>2. VideoFormatInfo[f].components = 1 => ComponentsOf(f) = 1..1
      BY <1>1, FormatTable
    <3>. QED  BY <3>1, <3>2
  <2>. QED  BY <1>3, <2>1 DEF Croppable, CropAccepted
<1>. HIDE DEF f
<1>5. /\ cx \in Nat /\ cy \in Nat
      /\ Moved(picture, p) = cy * pitch + cx * c.stride
  <2>0. Moved(picture, p)
          = (ry * pitch) \div (IF p = 0 THEN 1 ELSE HeightShift(f))
            + (rx * PixelPitch(f, p)) \div (IF p = 0 THEN 1 ELSE WidthShift(f))
    BY DEF Moved, f
  <2>01. \A z \in Nat : z \div 1 = z
    OBVIOUS
  <2>02. p \in {0, 1, 2} /\ PixelPitch(f, p) \in Nat /\ PixelPitch(f, 0) \in Nat
    <3>1. PixelPitch(f, p) \in {1, 2, 4} /\ PixelPitch(f, 0) \in {1, 2, 4} /\ p \in 0..2
      BY <1>1, <1>2, FormatTable
    <3>. QED  BY <3>1
  <2>1. CASE i = 1
    <3>1. p = 0 /\ c.stride = PixelPitch(f, p) /\ cx = rx /\ cy = ry
      BY <1>1, <2>1 DEF GoodComponent, Corner
    <3>2. ry * pitch \in Nat /\ rx * PixelPitch(f, p) \in Nat
      BY <1>1, <1>2, <2>02, Products
    <3>. QED  BY <1>1, <2>0, <2>01, <3>1, <3>2
  <2>2. CASE i # 1
    <3>1. cx = rx \div WidthShift(f) /\ cy = ry \div HeightShift(f)
      BY <2>2 DEF Corner, f
    <3>2. /\ cx \in Nat /\ cy \in Nat
          /\ (ry * pitch) \div HeightShift(f) = cy * pitch
      BY <1>1, <1>2, <1>4, <2>2, <3>1, Halves
    <3>3. CASE p # 0
      <4>1. c.stride = PixelPitch(f, p)
        BY <1>1, <3>3 DEF GoodComponent
      <4>2. (rx * c.stride) \div WidthShift(f) = cx * c.stride
        BY <1>1, <1>2, <1>4, <2>2, <3>1, Halves
      <4>. QED  BY <2>0, <3>2, <3>3, <4>1, <4>2
    <3>4. CASE p = 0
      <4>1. HeightShift(f) = 1 /\ c.stride = WidthShift(f) * PixelPitch(f, 0)
        BY <1>1, <2>2, <3>4 DEF GoodComponent
      <4>2. rx * PixelPitch(f, 0) = cx * (WidthShift(f) * PixelPitch(f, 0))
        BY <1>1, <1>4, <2>02, <2>2, <3>1, Halves
      <4>3. cy = ry
        BY <1>1, <3>1, <4>1
      <4>4. ry * pitch \in Nat /\ rx * PixelPitch(f, 0) \in Nat
        BY <1>1, <1>2, <2>02, Products
      <4>. QED  BY <2>0, <2>01, <3>2, <3>4, <4>1, <4>2, <4>3, <4>4
    <3>. QED  BY <3>3, <3>4
  <2>. QED  BY <2>1, <2>2
<1>6. /\ ComponentAddress(View(picture), i, x, y)
           = (start + (cy * pitch + cx * c.stride)) + y * pitch + x * c.stride + c.offset
      /\ ComponentAddress(SourceImage(picture), i, cx + x, cy + y)
           = start + (cy + y) * pitch + (cx + x) * c.stride + c.offset
  BY <1>2, <1>3, <1>5 DEF ComponentAddress, f
<1>. DEFINE st == c.stride
            o == c.offset
<1>. HIDE DEF start, pitch, cx, cy, st, o
<1>7. /\ cy * pitch \in Nat /\ cx * st \in Nat /\ y * pitch \in Nat /\ x * st \in Nat
      /\ (cy + y) * pitch = cy * pitch + y * pitch
      /\ (cx + x) * st = cx * st + x * st
  <2>1. \A a, b, z \in Nat : (a + b) * z = a * z + b * z
    OBVIOUS
  <2>. QED  BY <1>2, <1>5, <2>1, Products DEF st
<1>8. (start + (cy * pitch + cx * st)) + y * pitch + x * st + o
        = start + (cy + y) * pitch + (cx + x) * st + o
  BY <1>2, <1>7 DEF st, o
<1>9. start + (cy + y) * pitch + (cx + x) * st + o \in Nat
  BY <1>2, <1>7 DEF st, o
<1>. QED  BY <1>5, <1>6, <1>8, <1>9 DEF st, o, cx, cy

(* The planes of an image that mvt_image_new() lays out.                   *)
LEMMA NewPlanes ==
  ASSUME NEW f \in VideoFormats, NEW w \in Nat \ {0}, NEW h \in Nat \ {0},
         NEW p \in Planes(f)
  PROVE  /\ NewImage(f, w, h, 0).pitches[p] \in Nat \ {0}
         /\ NewImage(f, w, h, 0).pixels[p] \in Nat
<1>1. \A q \in Planes(f) : Pitch(f, q, w) \in Nat \ {0} /\ Rows(f, q, h) \in Nat
  <2>1. SUFFICES ASSUME NEW q \in Planes(f)
                 PROVE  Pitch(f, q, w) \in Nat \ {0} /\ Rows(f, q, h) \in Nat
    OBVIOUS
  <2>2. /\ FirstIn(f, q) \in Nat /\ PixelPitch(f, q) \in {1, 2, 4}
        /\ WidthShift(f) \in {1, 2} /\ HeightShift(f) \in {1, 2}
    BY FormatTable
  <2>3. RoundUp(w, 32) \in Nat /\ w <= RoundUp(w, 32) /\ RoundUp(h, 32) \in Nat
    BY RoundUpFact
  <2>4. RoundUp(w, 32) >= 32
    BY DEF RoundUp
  <2>. DEFINE k == IF FirstIn(f, q) > 1 THEN WidthShift(f) ELSE 1
              n == (PixelPitch(f, q) * RoundUp(w, 32)) \div k
  <2>5. Pitch(f, q, w) = RoundUp(n, 32)
    BY DEF Pitch, ComponentPitch, PixelPitch, DataAlign
  <2>6. n \in Nat /\ n > 0
    <3>1. k \in {1, 2}
      BY <2>2
    <3>2. \A a \in {1, 2, 4}, b \in {1, 2}, z \in Nat :
            z >= 32 => (a * z) \div b \in Nat /\ (a * z) \div b > 0
      OBVIOUS
    <3>. HIDE DEF k
    <3>. QED  BY <2>2, <2>3, <2>4, <3>1, <3>2
  <2>. HIDE DEF n
  <2>7. RoundUp(n, 32) \in Nat /\ n <= RoundUp(n, 32)
    BY <2>6, RoundUpFact
  <2>8. Rows(f, q, h) \in Nat
    BY <2>2, <2>3 DEF Rows, ComponentRows, DataAlign
  <2>. QED  BY <2>5, <2>6, <2>7, <2>8
<1>2. \A q \in Planes(f) : PlaneSize(f, q, w, h) \in Nat
  BY <1>1, Products DEF PlaneSize
<1>3. 0 \in Planes(f) /\ Planes(f) \subseteq 0..2 /\ (2 \in Planes(f) => 1 \in Planes(f))
  BY FormatTable
<1>4. Offset(f, p, w, h) \in Nat
  BY <1>2, <1>3 DEF Offset
<1>5. /\ NewImage(f, w, h, 0).pitches[p] = Pitch(f, p, w)
      /\ NewImage(f, w, h, 0).pixels[p] = 0 + Offset(f, p, w, h)
  BY DEF NewImage
<1>. QED  BY <1>1, <1>4, <1>5

-----------------------------------------------------------------------------
(* What has been copied: the cache holds the bytes of the picture, and     *)
(* what is drained or converted comes to the places of its samples         *)

(* What the cache holds                                                    *)

LEMMA SourceByteType ==
  ASSUME NEW picture \in Pictures, NEW address \in Int
  PROVE  SourceByte(picture, address) \in UInt8
<1>1. picture.codedWidth \in Nat
  BY PictureFields
<1>2. 7 * address + 5 * (address \div 16) + 3 * picture.codedWidth \in Int
  BY <1>1
<1>3. \A z \in Int : z % 256 \in 0..255
  OBVIOUS
<1>. QED  BY <1>2, <1>3 DEF SourceByte, UInt8

(* The cache holds the rows of the band, each from its own start.          *)
HoldInv ==
  /\ stage # "copy" \/ copies = <<>> => cache = <<>>
  /\ stage = "copy" /\ cache # <<>> =>
       \A row \in 0..Band(copies[1]) - 1, k \in 0..RowBytes(copies[1]) - 1 :
         LET a == row * CacheRow(copies[1]) + k
         IN  /\ a \in DOMAIN cache
             /\ cache[a] = SourceByte(Picture0, RowAddress(copies[1], row) + k)

(* What a copy takes place between.                                        *)
LEMMA CopyPlace ==
  ASSUME FitInv, stage = "copy"
  PROVE  /\ own.format = "I420" /\ own = NewImage(own.format, own.width, own.height, 0)
         /\ own.width \in Nat \ {0} /\ own.height \in Nat \ {0} /\ UswcCopy
         /\ line \in Nat
         /\ \A p \in Planes(image.format) : /\ image.pixels[p] \in Nat
                                            /\ image.pitches[p] \in Nat
         /\ copies # <<>> =>
              /\ GoodCopy(copies[1])
              /\ RowBytes(copies[1]) \in Nat \ {0} /\ CacheRow(copies[1]) \in Nat \ {0}
              /\ RowBytes(copies[1]) <= CacheRow(copies[1])
              /\ Band(copies[1]) \in Nat \ {0}
              /\ Len(copies[1].to) \in {1, 2}
              /\ copies[1].from \in Planes(image.format)
              /\ copies[1].width \in Nat \ {0}
<1>1. /\ own.format = "I420" /\ own = NewImage(own.format, own.width, own.height, 0)
      /\ own.width \in Nat \ {0} /\ own.height \in Nat \ {0} /\ UswcCopy /\ line \in Nat
  BY DEF FitInv, OwnInv, PlaceInv, SizeKept, UswcCopy, CopiesInv
<1>2. Picture0 \in Pictures /\ image = View(Picture0)
  BY StreamPictures DEF FitInv, PlaceInv, Handling
<1>3. \A p \in Planes(image.format) : image.pixels[p] \in Nat /\ image.pitches[p] \in Nat
  BY <1>2, PicturePlanes, ViewFields
<1>4. ASSUME copies # <<>>
      PROVE  /\ GoodCopy(copies[1])
             /\ RowBytes(copies[1]) \in Nat \ {0} /\ CacheRow(copies[1]) \in Nat \ {0}
             /\ RowBytes(copies[1]) <= CacheRow(copies[1])
             /\ Band(copies[1]) \in Nat \ {0}
             /\ Len(copies[1].to) \in {1, 2}
             /\ copies[1].from \in Planes(image.format)
             /\ copies[1].width \in Nat \ {0}
  <2>1. GoodCopy(copies[1]) /\ Band(copies[1]) \in Nat \ {0}
    BY <1>4, BandFits DEF FitInv
  <2>2. /\ copies[1].to \in {<<0>>, <<1>>, <<2>>, <<1, 2>>}
        /\ copies[1].from \in Planes(image.format) /\ copies[1].width \in Nat \ {0}
    BY <2>1 DEF GoodCopy
  <2>3. Len(copies[1].to) \in {1, 2}
    BY <2>2
  <2>. QED  BY <1>1, <2>1, <2>2, <2>3, RowFits
<1>. QED  BY <1>1, <1>3, <1>4

LEMMA RowAddressType ==
  ASSUME FitInv, stage = "copy", copies # <<>>, NEW row \in Nat
  PROVE  /\ RowAddress(copies[1], row) \in Nat
         /\ RowAddress(copies[1], row)
              = image.pixels[copies[1].from] + (line + row) * image.pitches[copies[1].from]
<1>1. /\ image.pixels[copies[1].from] \in Nat /\ image.pitches[copies[1].from] \in Nat
      /\ line + row \in Nat
  BY CopyPlace
<1>2. (line + row) * image.pitches[copies[1].from] \in Nat
  BY <1>1, Products
<1>. QED  BY <1>1, <1>2 DEF RowAddress

(* A place in the cache is a row of the band and a byte of that row.       *)
LEMMA CachePlace ==
  ASSUME NEW w \in Nat \ {0}, NEW row \in Nat, NEW k \in Nat, k < w
  PROVE  (row * w + k) \div w = row /\ (row * w + k) % w = k
<1>1. row * w \in Nat
  BY Products
<1>2. PICK z \in Nat : z = row * w + k
  BY <1>1
<1>3. /\ z \div w \in Nat /\ z % w \in Nat /\ z % w < w
      /\ z = (z \div w) * w + (z % w)
  <2>1. \A n \in Nat, d \in Nat \ {0} : /\ n \div d \in Nat /\ n % d \in Nat /\ n % d < d
                                        /\ n = d * (n \div d) + (n % d)
    OBVIOUS
  <2>2. \A a, b \in Nat : a * b = b * a
    OBVIOUS
  <2>. QED  BY <2>1, <2>2
<1>. DEFINE q == z \div w
            r == z % w
<1>4. q \in Nat /\ r \in Nat /\ r < w /\ q * w + r = row * w + k
  BY <1>2, <1>3
<1>. HIDE DEF q, r
<1>5. q = row /\ r = k
  <2>1. /\ q < row => (q + 1) * w <= row * w
        /\ row < q => (row + 1) * w <= q * w
        /\ (q + 1) * w = q * w + w /\ (row + 1) * w = row * w + w
        /\ q * w \in Nat
    <3>1. \A a, b \in Nat : a < b => \E c \in Nat : b = (a + 1) + c
      <4>1. \A a, b \in Nat : a < b => b - (a + 1) \in Nat /\ b = (a + 1) + (b - (a + 1))
        OBVIOUS
      <4>. QED  BY <4>1
    <3>2. \A a, c \in Nat : /\ ((a + 1) + c) * w = (a + 1) * w + c * w
                            /\ (a + 1) * w = a * w + w
                            /\ c * w \in Nat /\ a * w \in Nat
      OBVIOUS
    <3>. QED  BY <1>4, <3>1, <3>2
  <2>2. ~(q < row) /\ ~(row < q)
    BY <1>1, <1>4, <2>1
  <2>. QED  BY <1>1, <1>4, <2>2
<1>. QED  BY <1>2, <1>5 DEF q, r

LEMMA FillHolds ==
  ASSUME FitInv, FillCache
  PROVE  HoldInv'
<1>. DEFINE copy == copies[1]
            cells == UNION {{<<row, x>> : x \in 0..Fetched(copy, row) - 1} :
                            row \in 0..Band(copy) - 1}
            at(cell) == cell[1] * CacheRow(copy) + cell[2]
<1>1. /\ stage = "copy" /\ stage' = "copy" /\ copies # <<>>
      /\ UNCHANGED <<pathVars, taken, image, own, copies, line, cacheSize>>
  BY CacheFrame DEF FillCache
<1>2. cache' = [a \in {at(cell) : cell \in cells} |->
                  SourceByte(Picture0, RowAddress(copy, a \div CacheRow(copy))
                                         + (a % CacheRow(copy)))]
  BY DEF FillCache
<1>3. /\ RowBytes(copy) \in Nat \ {0} /\ CacheRow(copy) \in Nat \ {0}
      /\ RowBytes(copy) <= CacheRow(copy) /\ Band(copy) \in Nat \ {0}
  BY <1>1, CopyPlace
<1>4. ASSUME NEW row \in 0..Band(copy) - 1, NEW k \in 0..RowBytes(copy) - 1
      PROVE  LET a == row * CacheRow(copy) + k
             IN  /\ a \in DOMAIN cache'
                 /\ cache'[a] = SourceByte(Picture0, RowAddress(copy, row) + k)
  <2>. DEFINE a == row * CacheRow(copy) + k
  <2>1. a \div CacheRow(copy) = row /\ a % CacheRow(copy) = k
    <3>1. row \in Nat /\ k \in Nat /\ k < CacheRow(copy)
      BY <1>3
    <3>. HIDE DEF copy
    <3>. QED  BY <1>3, <3>1, CachePlace
  <2>2. <<row, k>> \in cells
    <3>1. Fetched(copy, row) \in Nat /\ RowBytes(copy) <= Fetched(copy, row)
      <4>1. Fetched(copy, row) \in Nat
        BY <1>1, FetchFits
      <4>. QED  BY <1>3, <4>1 DEF Fetched
    <3>2. k \in 0..Fetched(copy, row) - 1
      BY <1>3, <3>1
    <3>. HIDE DEF copy
    <3>. QED  BY <3>2
  <2>3. a = at(<<row, k>>)
    OBVIOUS
  <2>4. a \in {at(cell) : cell \in cells}
    <3>. HIDE DEF cells, at
    <3>. QED  BY <2>2, <2>3
  <2>. HIDE DEF cells, at, copy
  <2>. QED  BY <1>2, <2>1, <2>4
<1>5. /\ Picture0' = Picture0 /\ Band(copy)' = Band(copy)
      /\ RowBytes(copy)' = RowBytes(copy) /\ CacheRow(copy)' = CacheRow(copy)
      /\ \A row : RowAddress(copies[1], row)' = RowAddress(copies[1], row)
  BY <1>1 DEF Picture0, Band, RowBytes, CacheRow, RowAddress, pathVars
<1>. HIDE DEF cells, at
<1>. QED  BY <1>1, <1>4, <1>5 DEF HoldInv

LEMMA NextHold ==
  ASSUME FitInv, HoldInv, [Next]_vars
  PROVE  HoldInv'
<1>1. CASE FillCache
  BY <1>1, FillHolds
<1>2. CASE DrainCache
  BY <1>2 DEF DrainCache, HoldInv
<1>3. CASE NewOwnImage
  <2>1. cache' = <<>>
    BY <1>3 DEF NewOwnImage, FreeCopyCache
  <2>. QED  BY <2>1 DEF HoldInv
<1>4. CASE \/ TakePicture \/ KeepImage \/ ConvertExits \/ StartCopies \/ CopiesDone
           \/ ConvertByLibyuv \/ CopyInternal \/ Unsupported
  <2>1. cache = <<>> /\ cache' = cache
    <3>1. CASE TakePicture \/ KeepImage \/ ConvertExits \/ Unsupported
      BY <3>1 DEF TakePicture, KeepImage, ConvertExits, Unsupported, copyVars, HoldInv
    <3>2. CASE CopiesDone \/ StartCopies
      BY <3>2 DEF CopiesDone, StartCopies, EnsureCopyCache, copyVars, HoldInv
    <3>3. CASE ConvertByLibyuv \/ CopyInternal
      BY <3>3, ConvertFrame DEF copyVars, HoldInv
    <3>. QED  BY <1>4, <3>1, <3>2, <3>3
  <2>. QED  BY <2>1 DEF HoldInv
<1>5. CASE HashStarts \/ HashRefused \/ HashUpdate \/ HashGoesOn \/ Report
  <2>1. stage # "copy" /\ cache' = cache /\ stage' # "copy"
    BY <1>5 DEF HashStarts, HashRefused, HashUpdate, HashGoesOn, Report, copyVars, Refuse
  <2>. QED  BY <2>1 DEF HoldInv
<1>6. CASE Terminated \/ UNCHANGED vars
  <2>1. UNCHANGED <<stage, path, stream, taken, image, copies, line, cacheSize, cache>>
    BY <1>6 DEF Terminated, vars, pathVars, copyVars
  <2>. QED  BY <2>1 DEF HoldInv, Picture0, Band, RowBytes, CacheRow, RowAddress
<1>. QED  BY <1>1, <1>2, <1>3, <1>4, <1>5, <1>6 DEF Next

(* Where the samples of the own image come from                            *)

(* Sample x of row y of component i has been copied.                       *)
Arrived(i, x, y) ==
  LET a == ComponentAddress(own, i, x, y)
  IN  /\ a \in DOMAIN memory
      /\ memory[a] = SourceByte(Picture0, ComponentAddress(image, i, x, y))

(* Row y of all the components that the copy fills.                        *)
RowArrived(copy, y) ==
  \A t \in 1..Len(copy.to), x \in 0..copy.width - 1 : Arrived(copy.to[t] + 1, x, y)

(* All the samples of the own image.                                       *)
AllArrived ==
  \A i \in ComponentsOf(own.format) :
    \A x \in 0..SamplesAcross(own, i) - 1, y \in 0..SamplesDown(own, i) - 1 :
      Arrived(i, x, y)

(* The copies done, and the rows done of the one at work, have arrived.    *)
MovedInv ==
  stage = "copy" =>
    /\ \A i \in 1..Copied : \A y \in 0..Copies[i].rows - 1 : RowArrived(Copies[i], y)
    /\ copies # <<>> => \A y \in 0..line - 1 : RowArrived(copies[1], y)

(* What is hashed from the own image is the picture.                       *)
ArrivedInv ==
  stage \in {"hash", "update"} /\ InHardware /\ own.format \in {"I420", "Y800"} =>
    AllArrived

(* Bytes to be written are, wherever they belong to a sample, that sample. *)
Right(bytes) ==
  \A i \in 1..3 :
    \A x \in 0..SamplesAcross(own, i) - 1, y \in 0..SamplesDown(own, i) - 1 :
      LET a == ComponentAddress(own, i, x, y)
      IN  a \in DOMAIN bytes =>
            bytes[a] = SourceByte(Picture0, ComponentAddress(image, i, x, y))

LEMMA SampleCounts ==
  ASSUME own.format = "I420", own.width \in Nat, own.height \in Nat, NEW i \in 1..3
  PROVE  /\ i - 1 \in 0..2
         /\ SamplesAcross(own, i) = Across(i - 1, own.width)
         /\ SamplesDown(own, i) = Across(i - 1, own.height)
         /\ SamplesAcross(own, i) \in Nat /\ SamplesDown(own, i) \in Nat
<1>1. i - 1 \in 0..2
  OBVIOUS
<1>2. /\ SamplesAcross(own, i) = Across(i - 1, own.width)
      /\ SamplesDown(own, i) = Across(i - 1, own.height)
  BY TableOfI420 DEF SamplesAcross, SamplesDown, Across, HalfUp
<1>3. Across(i - 1, own.width) \in Nat /\ Across(i - 1, own.height) \in Nat
  BY RoundUpFact DEF Across
<1> QED BY <1>1, <1>2, <1>3

LEMMA OwnAddress ==
  ASSUME own.format = "I420", own = NewImage(own.format, own.width, own.height, 0),
         own.width \in Nat, own.height \in Nat,
         NEW i \in 1..3, NEW x \in Nat, NEW y \in Nat
  PROVE  ComponentAddress(own, i, x, y) = own.pixels[i - 1] + y * own.pitches[i - 1] + x
<1>1. Components("I420")[i] = Component(i - 1, 0, 1)
  BY TableOfI420 DEF Planar
<1>2. ComponentAddress(own, i, x, y)
        = own.pixels[i - 1] + y * own.pitches[i - 1] + x * 1 + 0
  BY <1>1 DEF ComponentAddress, Component
<1>. DEFINE p == i - 1
<1>3. p \in 0..2
  OBVIOUS
<1>4. own.pixels[p] \in Nat /\ own.pitches[p] \in Nat
  BY <1>3, OwnPlanes, PlaneRoom
<1>5. \A a, b, c \in Nat : a + b * c \in Nat
  OBVIOUS
<1>6. own.pixels[p] + y * own.pitches[p] \in Nat
  BY <1>4, <1>5
<1>. HIDE DEF p
<1>7. own.pixels[p] + y * own.pitches[p] + x * 1 + 0 = own.pixels[p] + y * own.pitches[p] + x
  BY <1>6
<1> QED BY <1>2, <1>7 DEF p

(* A byte of a plane is one sample of one row.                             *)
LEMMA OnePlaceInPlane ==
  ASSUME NEW pitch \in Nat, NEW x1 \in Nat, NEW y1 \in Nat, NEW x2 \in Nat, NEW y2 \in Nat,
         x1 < pitch, x2 < pitch, y1 * pitch + x1 = y2 * pitch + x2
  PROVE  x1 = x2 /\ y1 = y2
<1>1. ASSUME NEW u \in Nat, NEW v \in Nat, NEW a \in Nat, NEW b \in Nat, u < v,
             a < pitch, b < pitch
      PROVE  u * pitch + a < v * pitch + b
  <2>1. (u + 1) * pitch <= v * pitch /\ (u + 1) * pitch = u * pitch + pitch
        /\ u * pitch \in Nat /\ v * pitch \in Nat
    BY <1>1
  <2> QED BY <1>1, <2>1
<1>2. ~(y1 < y2)
  <2>1. SUFFICES ASSUME y1 < y2 PROVE FALSE
    OBVIOUS
  <2>2. y1 * pitch + x1 < y2 * pitch + x2
    BY <1>1, <2>1
  <2>3. y1 * pitch + x1 \in Nat
    OBVIOUS
  <2> QED BY <2>2, <2>3
<1>3. ~(y2 < y1)
  <2>1. SUFFICES ASSUME y2 < y1 PROVE FALSE
    OBVIOUS
  <2>2. y2 * pitch + x2 < y1 * pitch + x1
    BY <1>1, <2>1
  <2>3. y2 * pitch + x2 \in Nat
    OBVIOUS
  <2> QED BY <2>2, <2>3
<1>4. y1 = y2
  BY <1>2, <1>3
<1>5. y1 * pitch \in Nat
  OBVIOUS
<1> QED BY <1>4, <1>5

(* No byte is in two planes.                                               *)
LEMMA PlanesApart ==
  ASSUME own.format = "I420", own = NewImage(own.format, own.width, own.height, 0),
         own.width \in Nat, own.height \in Nat,
         NEW p \in 0..2, NEW q \in 0..2, NEW a \in Nat, InPlane(a, p), InPlane(a, q)
  PROVE  p = q
<1>. DEFINE size(r) == PlaneSize("I420", r, own.width, own.height)
<1>1. \A r \in 0..2 : size(r) \in Nat
  <2>1. SUFFICES ASSUME NEW r \in 0..2 PROVE size(r) \in Nat
    OBVIOUS
  <2>2. Pitch("I420", r, own.width) \in Nat /\ Rows("I420", r, own.height) \in Nat
    BY PlaneRoom
  <2>3. \A b, c \in Nat : b * c \in Nat
    OBVIOUS
  <2> QED BY <2>2, <2>3 DEF PlaneSize
<1>2. own.pixels = [r \in 0..2 |-> 0 + Offset("I420", r, own.width, own.height)]
  BY TableOfI420 DEF NewImage
<1>3. /\ own.pixels[0] = 0
      /\ own.pixels[1] = size(0)
      /\ own.pixels[2] = size(0) + size(1)
  BY <1>1, <1>2 DEF Offset
<1>4. \A r \in 0..2 : InPlane(a, r) <=> own.pixels[r] <= a /\ a < own.pixels[r] + size(r)
  <2>1. SUFFICES ASSUME NEW r \in 0..2
                 PROVE  InPlane(a, r) <=> own.pixels[r] <= a /\ a < own.pixels[r] + size(r)
    OBVIOUS
  <2>2. own.pixels[r] \in Nat /\ size(r) \in Nat
    BY <1>1, OwnPlanes
  <2>3. InPlane(a, r) <=> 0 <= a - own.pixels[r] /\ a - own.pixels[r] < size(r)
    BY DEF InPlane
  <2>. HIDE DEF size
  <2> QED BY <2>2, <2>3
<1>5. size(0) \in Nat /\ size(1) \in Nat /\ size(2) \in Nat
  BY <1>1
<1>. HIDE DEF size
<1>6. p = 0 \/ p = 1 \/ p = 2
  OBVIOUS
<1>7. q = 0 \/ q = 1 \/ q = 2
  OBVIOUS
<1> QED BY <1>3, <1>4, <1>5, <1>6, <1>7

(* Two samples of the own image are never in the same place.               *)
LEMMA SamplesApart ==
  ASSUME own.format = "I420", own = NewImage(own.format, own.width, own.height, 0),
         own.width \in Nat, own.height \in Nat,
         NEW p \in 0..2, NEW x1 \in Nat, NEW y1 \in Nat,
         x1 < Across(p, own.width), y1 < Across(p, own.height),
         NEW q \in 0..2, NEW x2 \in Nat, NEW y2 \in Nat,
         x2 < Across(q, own.width), y2 < Across(q, own.height),
         own.pixels[p] + y1 * own.pitches[p] + x1 = own.pixels[q] + y2 * own.pitches[q] + x2
  PROVE  p = q /\ x1 = x2 /\ y1 = y2
<1>. DEFINE a == own.pixels[p] + y1 * own.pitches[p] + x1
<1>1. InPlane(a, p) /\ InPlane(a, q)
  BY SampleInPlane
<1>2. /\ own.pixels[p] \in Nat
      /\ own.pitches[p] \in Nat /\ Across(p, own.width) <= own.pitches[p]
      /\ Across(p, own.width) \in Nat
  <2>1. own.pixels[p] \in Nat /\ own.pitches[p] = Pitch("I420", p, own.width)
    BY OwnPlanes
  <2>2. Pitch("I420", p, own.width) \in Nat /\ Across(p, own.width) <= Pitch("I420", p, own.width)
    BY PlaneRoom
  <2>3. Across(p, own.width) \in Nat
    BY RoundUpFact DEF Across
  <2> QED BY <2>1, <2>2, <2>3
<1>3. \A b, c \in Nat : b * c \in Nat
  OBVIOUS
<1>4. y1 * own.pitches[p] \in Nat /\ y2 * own.pitches[p] \in Nat
  BY <1>2, <1>3
<1>5. a \in Nat
  BY <1>2, <1>4
<1>. HIDE DEF a
<1>6. p = q
  BY <1>1, <1>5, PlanesApart
<1>7. y1 * own.pitches[p] + x1 = y2 * own.pitches[p] + x2
  BY <1>2, <1>4, <1>6
<1>8. x1 < own.pitches[p] /\ x2 < own.pitches[p]
  BY <1>2, <1>6
<1> QED BY <1>2, <1>6, <1>7, <1>8, OnePlaceInPlane

(* The copies know which bytes of the picture are a component's.           *)
LEMMA CopySources ==
  ASSUME UswcCopy, own.width \in Nat \ {0}, own.height \in Nat \ {0},
         NEW n \in 1..Len(Copies), NEW t \in 1..Len(Copies[n].to),
         NEW x \in Nat, NEW y \in Nat
  PROVE  /\ Copies[n].to[t] + 1 \in 1..3
         /\ ComponentAddress(image, Copies[n].to[t] + 1, x, y)
              = image.pixels[Copies[n].from] + y * image.pitches[Copies[n].from]
                + x * Len(Copies[n].to) + (t - 1)
<1>. DEFINE copy == Copies[n]
            i == copy.to[t] + 1
<1>1. CASE image.format = "NV12"
  <2>1. \/ n = 1 /\ copy.from = 0 /\ copy.to = <<0>>
        \/ n = 2 /\ copy.from = 1 /\ copy.to = <<1, 2>>
    <3>0. Len(Copies) = 2
      BY <1>1, CopyList
    <3>1. n = 1 \/ n = 2
      BY <3>0
    <3>. QED  BY <1>1, <3>1, CopyList DEF PlaneCopy
  <2>2. CASE copy.from = 0 /\ copy.to = <<0>>
    <3>1. Len(copy.to) = 1 /\ t = 1 /\ i = 1
      BY <2>2
    <3>2. Components("NV12")[i] = Component(0, 0, 1)
      BY <3>1, TableOfNV12
    <3>. HIDE DEF i, copy
    <3> QED BY <1>1, <2>2, <3>1, <3>2 DEF ComponentAddress, Component, copy, i
  <2>3. CASE copy.from = 1 /\ copy.to = <<1, 2>>
    <3>1. Len(copy.to) = 2 /\ t \in {1, 2} /\ i = t + 1 /\ i \in {2, 3}
      BY <2>3
    <3>2. Components("NV12")[i] = Component(1, t - 1, 2)
      BY <3>1, TableOfNV12
    <3>. HIDE DEF i, copy
    <3> QED BY <1>1, <2>3, <3>1, <3>2 DEF ComponentAddress, Component, copy, i
  <2> QED BY <2>1, <2>2, <2>3
<1>2. CASE image.format = "I420"
  <2>1. copy.from \in 0..2 /\ copy.to = <<copy.from>>
    <3>0. Len(Copies) = 3
      BY <1>2, CopyList
    <3>1. n = 1 \/ n = 2 \/ n = 3
      BY <3>0
    <3>2. copy = PlaneCopy(n - 1, <<n - 1>>, copy.width, copy.rows)
      BY <1>2, <3>1, CopyList DEF PlaneCopy
    <3>. QED  BY <3>1, <3>2 DEF PlaneCopy
  <2>2. Len(copy.to) = 1 /\ t = 1 /\ i = copy.from + 1 /\ i \in 1..3
    BY <2>1
  <2>3. Components("I420")[i] = Component(copy.from, 0, 1)
    <3>1. \A j \in 1..3 : Planar(1)[j] = Component(j - 1, 0, 1)
      BY DEF Planar
    <3>2. copy.from = i - 1
      BY <2>1, <2>2
    <3>. QED  BY <2>2, <3>1, <3>2, TableOfI420
  <2>. HIDE DEF i, copy
  <2> QED BY <1>2, <2>2, <2>3 DEF ComponentAddress, Component, copy, i
<1> QED BY <1>1, <1>2 DEF UswcCopy

(* Every component is the target of one of the copies.                     *)
LEMMA CopiesCover ==
  ASSUME UswcCopy, own.width \in Nat \ {0}, own.height \in Nat \ {0}, NEW i \in 1..3
  PROVE  \E n \in 1..Len(Copies) : \E t \in 1..Len(Copies[n].to) : Copies[n].to[t] + 1 = i
<1>1. CASE image.format = "NV12"
  <2>1. /\ Len(Copies) = 2
        /\ Copies[1].to = <<0>> /\ Copies[2].to = <<1, 2>>
    BY <1>1, CopyList DEF PlaneCopy
  <2>2. Len(<<0>>) = 1 /\ Len(<<1, 2>>) = 2
    OBVIOUS
  <2>3. CASE i = 1
    <3>1. 1 \in 1..Len(Copies) /\ 1 \in 1..Len(Copies[1].to) /\ Copies[1].to[1] + 1 = i
      BY <2>1, <2>2, <2>3
    <3> QED BY <3>1
  <2>4. CASE i # 1
    <3>1. /\ 2 \in 1..Len(Copies) /\ i - 1 \in 1..Len(Copies[2].to)
          /\ Copies[2].to[i - 1] + 1 = i
      BY <2>1, <2>2, <2>4
    <3> QED BY <3>1
  <2> QED BY <2>3, <2>4
<1>2. CASE image.format = "I420"
  <2>1. Len(Copies) = 3 /\ \A n \in 1..3 : Copies[n].to = <<n - 1>>
    BY <1>2, CopyList DEF PlaneCopy
  <2>2. i \in 1..Len(Copies) /\ 1 \in 1..Len(Copies[i].to) /\ Copies[i].to[1] + 1 = i
    BY <2>1
  <2> QED BY <2>2
<1> QED BY <1>1, <1>2 DEF UswcCopy

(* What is drained from the cache: a byte of the picture for each address. *)
LEMMA DrainedCells ==
  ASSUME FitInv, HoldInv, DrainCache
  PROVE  LET copy == copies[1]
             step == Len(copy.to)
             address(t, row, x) ==
               own.pixels[copy.to[t]] + (line + row) * own.pitches[copy.to[t]] + x
         IN  /\ \A t \in 1..step, row \in 0..Band(copy) - 1, x \in 0..copy.width - 1 :
                  address(t, row, x) \in DOMAIN Drained(copy)
             /\ \A a \in DOMAIN Drained(copy) :
                  \E t \in 1..step, row \in 0..Band(copy) - 1, x \in 0..copy.width - 1 :
                    /\ a = address(t, row, x)
                    /\ Drained(copy)[a]
                         = SourceByte(Picture0, RowAddress(copy, row) + (step * x + t - 1))
<1>. DEFINE copy == copies[1]
            step == Len(copy.to)
            address(t, row, x) ==
              own.pixels[copy.to[t]] + (line + row) * own.pitches[copy.to[t]] + x
            cells == (1..step) \X (0..Band(copy) - 1) \X (0..copy.width - 1)
            byte(cell) == cache[cell[2] * CacheRow(copy) + step * cell[3] + cell[1] - 1]
            written == {<<address(cell[1], cell[2], cell[3]), byte(cell)>> : cell \in cells}
<1>1. stage = "copy" /\ copies # <<>> /\ cache # <<>>
  BY CacheFrame DEF DrainCache, CacheFilled
<1>2. /\ step \in {1, 2} /\ copy.width \in Nat \ {0} /\ Band(copy) \in Nat \ {0}
      /\ CacheRow(copy) \in Nat
  BY <1>1, CopyPlace
<1>3. Drained(copy) = [a \in {w[1] : w \in written} |-> (CHOOSE w \in written : w[1] = a)[2]]
  BY DEF Drained
<1>4. ASSUME NEW t \in 1..step, NEW row \in 0..Band(copy) - 1, NEW x \in 0..copy.width - 1
      PROVE  /\ address(t, row, x) \in DOMAIN Drained(copy)
             /\ byte(<<t, row, x>>)
                  = SourceByte(Picture0, RowAddress(copy, row) + (step * x + t - 1))
  <2>1. <<t, row, x>> \in cells
    OBVIOUS
  <2>2. <<address(t, row, x), byte(<<t, row, x>>)>> \in written
    <3>. HIDE DEF cells
    <3>. QED  BY <2>1
  <2>3. address(t, row, x) \in DOMAIN Drained(copy)
    <3>. HIDE DEF written, address, byte
    <3>. QED  BY <1>3, <2>2
  <2>. DEFINE k == step * x + t - 1
  <2>4. k \in 0..RowBytes(copy) - 1
    <3>1. RowBytes(copy) = copy.width * step
      BY DEF RowBytes
    <3>. HIDE DEF copy, step
    <3>. QED  BY <1>2, <3>1
  <2>5. row * CacheRow(copy) + step * x + t - 1 = row * CacheRow(copy) + k
    <3>1. row \in Nat /\ x \in Nat /\ t \in Nat
      BY <1>2
    <3>2. row * CacheRow(copy) \in Nat /\ step * x \in Nat
      BY <1>2, <3>1, Products
    <3>. HIDE DEF copy, step
    <3>. QED  BY <3>1, <3>2
  <2>6. cache[row * CacheRow(copy) + k] = SourceByte(Picture0, RowAddress(copy, row) + k)
    <3>. HIDE DEF k, step
    <3>. QED  BY <1>1, <2>4 DEF HoldInv
  <2>. QED  BY <2>3, <2>5, <2>6
<1>5. ASSUME NEW a \in DOMAIN Drained(copy)
      PROVE  \E t \in 1..step, row \in 0..Band(copy) - 1, x \in 0..copy.width - 1 :
               /\ a = address(t, row, x)
               /\ Drained(copy)[a]
                    = SourceByte(Picture0, RowAddress(copy, row) + (step * x + t - 1))
  <2>. DEFINE w == CHOOSE w \in written : w[1] = a
  <2>1. w \in written /\ w[1] = a /\ Drained(copy)[a] = w[2]
    <3>. HIDE DEF written
    <3>1. \E z \in written : z[1] = a
      BY <1>3
    <3>. QED  BY <1>3, <3>1
  <2>. HIDE DEF w
  <2>2. PICK cell \in cells : w = <<address(cell[1], cell[2], cell[3]), byte(cell)>>
    <3>. HIDE DEF cells
    <3>. QED  BY <2>1
  <2>3. PICK t \in 1..step, row \in 0..Band(copy) - 1, x \in 0..copy.width - 1 :
          cell = <<t, row, x>>
    OBVIOUS
  <2>4. a = address(t, row, x) /\ Drained(copy)[a] = byte(<<t, row, x>>)
    BY <2>1, <2>2, <2>3
  <2>5. /\ a = address(t, row, x)
        /\ Drained(copy)[a]
             = SourceByte(Picture0, RowAddress(copy, row) + (step * x + t - 1))
    BY <1>4, <2>4
  <2>. HIDE DEF address, byte, cells, written, copy, step
  <2>. QED  BY <2>5
<1>6. /\ \A t \in 1..step, row \in 0..Band(copy) - 1, x \in 0..copy.width - 1 :
           address(t, row, x) \in DOMAIN Drained(copy)
      /\ \A a \in DOMAIN Drained(copy) :
           \E t \in 1..step, row \in 0..Band(copy) - 1, x \in 0..copy.width - 1 :
             /\ a = address(t, row, x)
             /\ Drained(copy)[a]
                  = SourceByte(Picture0, RowAddress(copy, row) + (step * x + t - 1))
  <2>. HIDE DEF byte, cells, written
  <2>. QED  BY <1>4, <1>5
<1>. QED  BY <1>6

(* The rows drained from the cache are the samples of the picture.         *)
LEMMA DrainRight ==
  ASSUME FitInv, HoldInv, DrainCache
  PROVE  /\ Right(Drained(copies[1]))
         /\ \A t \in 1..Len(copies[1].to), row \in 0..Band(copies[1]) - 1,
               x \in 0..copies[1].width - 1 :
              ComponentAddress(own, copies[1].to[t] + 1, x, line + row)
                \in DOMAIN Drained(copies[1])
<1>. DEFINE copy == copies[1]
            step == Len(copy.to)
            address(t, row, x) ==
              own.pixels[copy.to[t]] + (line + row) * own.pitches[copy.to[t]] + x
            n == Copied + 1
<1>1. stage = "copy" /\ copies # <<>>
  BY CacheFrame
<1>2. /\ own.format = "I420" /\ own = NewImage(own.format, own.width, own.height, 0)
      /\ own.width \in Nat \ {0} /\ own.height \in Nat \ {0} /\ UswcCopy /\ line \in Nat
      /\ GoodCopy(copy) /\ Band(copy) \in Nat \ {0} /\ step \in {1, 2}
      /\ copy.from \in Planes(image.format)
      /\ line + Band(copy) <= copy.rows
  BY <1>1, CopyPlace, BandFits DEF FitInv
<1>3. n \in 1..Len(Copies) /\ copy = Copies[n]
  <2>1. Len(Copies) \in Nat /\ Len(copies) \in Nat /\ Len(copies) <= Len(Copies)
        /\ \A i \in 1..Len(copies) : copies[i] = Copies[Copied + i]
    <3>1. Len(Copies) \in Nat
      BY <1>2, CopyShape
    <3>. QED  BY <1>1, <3>1 DEF FitInv, CopiesInv
  <2>2. Len(copies) > 0
    <3>1. copies \in Seq(ToSet(Copies))
      BY <1>1 DEF FitInv, CopiesInv
    <3>. QED  BY <1>1, <3>1, EmptySeq
  <2>3. Copied \in Nat /\ n <= Len(Copies)
    BY <2>1, <2>2 DEF Copied
  <2>. QED  BY <2>1, <2>2, <2>3
<1>4. ASSUME NEW t \in 1..step, NEW row \in 0..Band(copy) - 1, NEW x \in 0..copy.width - 1
      PROVE  /\ copy.to[t] \in 0..2 /\ x \in Nat /\ line + row \in Nat
             /\ x < Across(copy.to[t], own.width)
             /\ line + row < Across(copy.to[t], own.height)
             /\ address(t, row, x) = ComponentAddress(own, copy.to[t] + 1, x, line + row)
             /\ RowAddress(copy, row) + (step * x + t - 1)
                  = ComponentAddress(image, copy.to[t] + 1, x, line + row)
  <2>1. /\ copy.to[t] \in 0..2 /\ copy.width = Across(copy.to[t], own.width)
        /\ copy.rows = Across(copy.to[t], own.height)
        /\ copy.width \in Nat /\ copy.rows \in Nat
    BY <1>2 DEF GoodCopy
  <2>. HIDE DEF copy
  <2>2. /\ x \in Nat /\ line + row \in Nat /\ row \in Nat
        /\ x < copy.width /\ line + row < copy.rows
    BY <1>2, <2>1
  <2>. DEFINE i == copy.to[t] + 1
  <2>3. i \in 1..3 /\ i - 1 = copy.to[t]
    BY <2>1
  <2>4. address(t, row, x) = ComponentAddress(own, i, x, line + row)
    <3>. HIDE DEF i
    <3>1. ComponentAddress(own, i, x, line + row)
            = own.pixels[i - 1] + (line + row) * own.pitches[i - 1] + x
      BY <1>2, <2>2, <2>3, OwnAddress
    <3>. QED  BY <2>3, <3>1
  <2>5. ComponentAddress(image, i, x, line + row)
          = image.pixels[copy.from] + (line + row) * image.pitches[copy.from]
            + x * step + (t - 1)
    <3>. HIDE DEF n
    <3>1. copy = Copies[n] /\ t \in 1..Len(Copies[n].to) /\ step = Len(Copies[n].to)
      BY <1>3
    <3>2. PICK y : y = line + row
      OBVIOUS
    <3>3. ComponentAddress(image, Copies[n].to[t] + 1, x, y)
            = image.pixels[Copies[n].from] + y * image.pitches[Copies[n].from]
              + x * Len(Copies[n].to) + (t - 1)
      BY <1>2, <1>3, <2>2, <3>1, <3>2, CopySources
    <3>. QED  BY <3>1, <3>2, <3>3
  <2>6. /\ RowAddress(copy, row)
             = image.pixels[copy.from] + (line + row) * image.pitches[copy.from]
        /\ RowAddress(copy, row) \in Nat
    BY <1>1, <2>2, RowAddressType DEF copy
  <2>7. RowAddress(copy, row) + (step * x + t - 1) = RowAddress(copy, row) + x * step + (t - 1)
    <3>1. x * step \in Nat /\ step * x = x * step
      BY <1>2, <2>2
    <3>2. t \in Nat
      OBVIOUS
    <3>. HIDE DEF step
    <3>. QED  BY <2>6, <3>1, <3>2
  <2>. QED  BY <2>1, <2>2, <2>4, <2>5, <2>6, <2>7
<1>5. /\ \A t \in 1..step, row \in 0..Band(copy) - 1, x \in 0..copy.width - 1 :
           address(t, row, x) \in DOMAIN Drained(copy)
      /\ \A a \in DOMAIN Drained(copy) :
           \E t \in 1..step, row \in 0..Band(copy) - 1, x \in 0..copy.width - 1 :
             /\ a = address(t, row, x)
             /\ Drained(copy)[a]
                  = SourceByte(Picture0, RowAddress(copy, row) + (step * x + t - 1))
  BY DrainedCells
<1>6. Right(Drained(copy))
  <2>1. SUFFICES ASSUME NEW i \in 1..3, NEW x \in 0..SamplesAcross(own, i) - 1,
                        NEW y \in 0..SamplesDown(own, i) - 1,
                        ComponentAddress(own, i, x, y) \in DOMAIN Drained(copy)
                 PROVE  Drained(copy)[ComponentAddress(own, i, x, y)]
                          = SourceByte(Picture0, ComponentAddress(image, i, x, y))
    <3>. HIDE DEF copy
    <3>. QED  BY DEF Right
  <2>2. /\ i - 1 \in 0..2
        /\ SamplesAcross(own, i) = Across(i - 1, own.width)
        /\ SamplesDown(own, i) = Across(i - 1, own.height)
        /\ SamplesAcross(own, i) \in Nat /\ SamplesDown(own, i) \in Nat
    BY <1>2, SampleCounts
  <2>3. /\ x \in Nat /\ y \in Nat
        /\ x < Across(i - 1, own.width) /\ y < Across(i - 1, own.height)
    BY <2>2
  <2>. DEFINE a == ComponentAddress(own, i, x, y)
  <2>4. a = own.pixels[i - 1] + y * own.pitches[i - 1] + x
    BY <1>2, <2>3, OwnAddress
  <2>. HIDE DEF a, copy, step
  <2>5. PICK t \in 1..step, row \in 0..Band(copy) - 1, xx \in 0..copy.width - 1 :
          /\ a = address(t, row, xx)
          /\ Drained(copy)[a]
               = SourceByte(Picture0, RowAddress(copy, row) + (step * xx + t - 1))
    <3>1. a \in DOMAIN Drained(copy)
      BY <2>1 DEF a
    <3>. HIDE DEF address
    <3>. QED  BY <1>5, <3>1
  <2>6. copy.to[t] = i - 1 /\ xx = x /\ line + row = y
    <3>1. /\ copy.to[t] \in 0..2 /\ xx \in Nat /\ line + row \in Nat
          /\ xx < Across(copy.to[t], own.width)
          /\ line + row < Across(copy.to[t], own.height)
      BY <1>4
    <3>2. own.pixels[copy.to[t]] + (line + row) * own.pitches[copy.to[t]] + xx
            = own.pixels[i - 1] + y * own.pitches[i - 1] + x
      BY <2>4, <2>5
    <3>. DEFINE p == i - 1
                q == copy.to[t]
                z == line + row
    <3>3. own.width \in Nat /\ own.height \in Nat
      BY <1>2
    <3>4. /\ q \in 0..2 /\ xx < Across(q, own.width) /\ z < Across(q, own.height)
          /\ p \in 0..2 /\ x < Across(p, own.width) /\ y < Across(p, own.height)
          /\ xx \in Nat /\ z \in Nat /\ x \in Nat /\ y \in Nat
          /\ own.pixels[q] + z * own.pitches[q] + xx = own.pixels[p] + y * own.pitches[p] + x
      BY <2>2, <2>3, <3>1, <3>2
    <3>5. q = p /\ xx = x /\ z = y
      <4>. HIDE DEF p, q, z
      <4>. QED  BY <1>2, <3>3, <3>4, SamplesApart, SMTT(30)
    <3>. QED  BY <3>5
  <2>7. copy.to[t] + 1 = i
    BY <2>6
  <2>. HIDE DEF address
  <2>. QED  BY <1>4, <2>5, <2>6, <2>7 DEF a
<1>. QED  BY <1>4, <1>5, <1>6, ZenonT(30)

(* Without the cache, all samples are written at once.                     *)
LEMMA ConvertRight ==
  ASSUME FitInv, ConvertByLibyuv
  PROVE  /\ own.format = "I420" /\ own = NewImage(own.format, own.width, own.height, 0)
         /\ own.width \in Nat \ {0} /\ own.height \in Nat \ {0}
         /\ Right(Converted)
         /\ \A i \in 1..3 :
              \A x \in 0..SamplesAcross(own, i) - 1, y \in 0..SamplesDown(own, i) - 1 :
                ComponentAddress(own, i, x, y) \in DOMAIN Converted
         /\ \A a \in DOMAIN Converted :
              \E i \in 1..3, x, y \in Nat :
                Converted[a] = SourceByte(Picture0, ComponentAddress(image, i, x, y))
<1>. DEFINE cells == UNION {{<<i, x, y>> : x \in 0..SamplesAcross(own, i) - 1,
                                           y \in 0..SamplesDown(own, i) - 1} :
                            i \in ComponentsOf("I420")}
            target(c) == ComponentAddress(own, c[1], c[2], c[3])
            source(c) == ComponentAddress(image, c[1], c[2], c[3])
            written == {<<target(c), SourceByte(Picture0, source(c))>> : c \in cells}
<1>1. /\ own.format = "I420" /\ own = NewImage(own.format, own.width, own.height, 0)
      /\ own.width \in Nat \ {0} /\ own.height \in Nat \ {0}
  <2>1. stage = "convert" /\ UswcCopy
    BY DEF ConvertByLibyuv
  <2>. QED  BY <2>1 DEF FitInv, OwnInv, PlaceInv, SizeKept, UswcCopy
<1>2. Converted = [a \in {w[1] : w \in written} |-> (CHOOSE w \in written : w[1] = a)[2]]
  BY DEF Converted
<1>3. \A i \in 1..3 : /\ i - 1 \in 0..2
                      /\ SamplesAcross(own, i) = Across(i - 1, own.width)
                      /\ SamplesDown(own, i) = Across(i - 1, own.height)
                      /\ SamplesAcross(own, i) \in Nat /\ SamplesDown(own, i) \in Nat
  BY <1>1, SampleCounts
<1>4. \A i \in 1..3 :
        \A x \in 0..SamplesAcross(own, i) - 1, y \in 0..SamplesDown(own, i) - 1 :
          ComponentAddress(own, i, x, y) \in DOMAIN Converted
  <2>1. SUFFICES ASSUME NEW i \in 1..3, NEW x \in 0..SamplesAcross(own, i) - 1,
                        NEW y \in 0..SamplesDown(own, i) - 1
                 PROVE  ComponentAddress(own, i, x, y) \in DOMAIN Converted
    OBVIOUS
  <2>2. i \in ComponentsOf("I420")
    BY TableOfI420
  <2>3. <<i, x, y>> \in cells
    BY <2>2
  <2>4. <<target(<<i, x, y>>), SourceByte(Picture0, source(<<i, x, y>>))>> \in written
    <3>. HIDE DEF cells
    <3>. QED  BY <2>3
  <2>5. target(<<i, x, y>>) \in DOMAIN Converted
    <3>. HIDE DEF written, target
    <3>. QED  BY <1>2, <2>4
  <2>. QED  BY <2>5
<1>5. ASSUME NEW a \in DOMAIN Converted
      PROVE  \E i \in 1..3 :
               \E x \in 0..SamplesAcross(own, i) - 1, y \in 0..SamplesDown(own, i) - 1 :
                 /\ a = ComponentAddress(own, i, x, y)
                 /\ Converted[a] = SourceByte(Picture0, ComponentAddress(image, i, x, y))
  <2>. DEFINE w == CHOOSE w \in written : w[1] = a
  <2>1. w \in written /\ w[1] = a /\ Converted[a] = w[2]
    <3>. HIDE DEF written
    <3>1. \E z \in written : z[1] = a
      BY <1>2
    <3>. QED  BY <1>2, <3>1
  <2>. HIDE DEF w
  <2>2. PICK c \in cells : w = <<target(c), SourceByte(Picture0, source(c))>>
    <3>. HIDE DEF cells
    <3>. QED  BY <2>1
  <2>3. PICK i \in ComponentsOf("I420") :
          \E x \in 0..SamplesAcross(own, i) - 1, y \in 0..SamplesDown(own, i) - 1 :
            c = <<i, x, y>>
    OBVIOUS
  <2>4. PICK x \in 0..SamplesAcross(own, i) - 1, y \in 0..SamplesDown(own, i) - 1 :
          c = <<i, x, y>>
    BY <2>3
  <2>5. i \in 1..3
    BY TableOfI420
  <2>6. /\ a = ComponentAddress(own, i, x, y)
        /\ Converted[a] = SourceByte(Picture0, ComponentAddress(image, i, x, y))
    BY <2>1, <2>2, <2>4
  <2>. QED  BY <2>5, <2>6
<1>. HIDE DEF cells, target, source, written
<1>6. Right(Converted)
  <2>1. SUFFICES ASSUME NEW i \in 1..3, NEW x \in 0..SamplesAcross(own, i) - 1,
                        NEW y \in 0..SamplesDown(own, i) - 1,
                        ComponentAddress(own, i, x, y) \in DOMAIN Converted
                 PROVE  Converted[ComponentAddress(own, i, x, y)]
                          = SourceByte(Picture0, ComponentAddress(image, i, x, y))
    BY DEF Right
  <2>2. PICK j \in 1..3 :
          \E xx \in 0..SamplesAcross(own, j) - 1, yy \in 0..SamplesDown(own, j) - 1 :
            /\ ComponentAddress(own, i, x, y) = ComponentAddress(own, j, xx, yy)
            /\ Converted[ComponentAddress(own, i, x, y)]
                 = SourceByte(Picture0, ComponentAddress(image, j, xx, yy))
    BY <1>5, <2>1
  <2>3. PICK xx \in 0..SamplesAcross(own, j) - 1, yy \in 0..SamplesDown(own, j) - 1 :
            /\ ComponentAddress(own, i, x, y) = ComponentAddress(own, j, xx, yy)
            /\ Converted[ComponentAddress(own, i, x, y)]
                 = SourceByte(Picture0, ComponentAddress(image, j, xx, yy))
    BY <2>2
  <2>. DEFINE p == i - 1
              q == j - 1
  <2>4. /\ p \in 0..2 /\ x \in Nat /\ y \in Nat
        /\ x < Across(p, own.width) /\ y < Across(p, own.height)
        /\ ComponentAddress(own, i, x, y) = own.pixels[p] + y * own.pitches[p] + x
    <3>1. x \in Nat /\ y \in Nat /\ x < SamplesAcross(own, i) /\ y < SamplesDown(own, i)
      BY <1>3
    <3>. QED  BY <1>1, <1>3, <3>1, OwnAddress
  <2>5. /\ q \in 0..2 /\ xx \in Nat /\ yy \in Nat
        /\ xx < Across(q, own.width) /\ yy < Across(q, own.height)
        /\ ComponentAddress(own, j, xx, yy) = own.pixels[q] + yy * own.pitches[q] + xx
    <3>1. xx \in Nat /\ yy \in Nat /\ xx < SamplesAcross(own, j) /\ yy < SamplesDown(own, j)
      BY <1>3
    <3>. QED  BY <1>1, <1>3, <3>1, OwnAddress
  <2>6. p = q /\ x = xx /\ y = yy
    <3>1. own.pixels[p] + y * own.pitches[p] + x = own.pixels[q] + yy * own.pitches[q] + xx
      BY <2>3, <2>4, <2>5
    <3>2. own.width \in Nat /\ own.height \in Nat
      BY <1>1
    <3>. HIDE DEF p, q
    <3>. QED  BY <1>1, <2>4, <2>5, <3>1, <3>2, SamplesApart
  <2>7. i = j
    BY <2>6
  <2>. QED  BY <2>3, <2>6, <2>7
<1>7. \A a \in DOMAIN Converted :
        \E i \in 1..3, x, y \in Nat :
          Converted[a] = SourceByte(Picture0, ComponentAddress(image, i, x, y))
  BY <1>3, <1>5
<1>. QED  BY <1>1, <1>4, <1>6, <1>7

LEMMA WriteArrives ==
  ASSUME NEW bytes, Write(bytes), Right(bytes),
         UNCHANGED <<stream, taken, image, own>>,
         NEW i \in 1..3, NEW x \in 0..SamplesAcross(own, i) - 1,
         NEW y \in 0..SamplesDown(own, i) - 1,
         ComponentAddress(own, i, x, y) \in DOMAIN bytes \/ Arrived(i, x, y)
  PROVE  Arrived(i, x, y)'
<1>. DEFINE a == ComponentAddress(own, i, x, y)
            z == ComponentAddress(image, i, x, y)
<1>1. Picture0' = Picture0 /\ a' = a /\ z' = z
  BY DEF Picture0, ComponentAddress
<1>2. memory' = [b \in DOMAIN bytes \cup DOMAIN memory |->
                   IF b \in DOMAIN bytes THEN bytes[b] ELSE memory[b]]
  BY DEF Write
<1>3. a \in DOMAIN bytes => bytes[a] = SourceByte(Picture0, z)
  BY DEF Right
<1>4. a \notin DOMAIN bytes => a \in DOMAIN memory /\ memory[a] = SourceByte(Picture0, z)
  BY DEF Arrived
<1>. HIDE DEF a, z
<1>5. a \in DOMAIN memory' /\ memory'[a] = SourceByte(Picture0, z)
  BY <1>2, <1>3, <1>4
<1>6. Arrived(i, x, y)' <=> a' \in DOMAIN memory' /\ memory'[a'] = SourceByte(Picture0', z')
  BY DEF Arrived, a, z
<1>. QED  BY <1>1, <1>5, <1>6

LEMMA SameArrived ==
  ASSUME UNCHANGED <<stream, taken, image, own, memory>>
  PROVE  /\ \A i, x, y : Arrived(i, x, y)' <=> Arrived(i, x, y)
         /\ AllArrived' <=> AllArrived
         /\ \A copy, y : RowArrived(copy, y)' <=> RowArrived(copy, y)
<1>1. \A i, x, y : Arrived(i, x, y)' <=> Arrived(i, x, y)
  BY DEF Arrived, Picture0, ComponentAddress
<1>2. own' = own
  OBVIOUS
<1>. QED  BY <1>1, <1>2 DEF AllArrived, RowArrived

(* The rows of a copy are rows of samples.                                 *)
LEMMA CopyRows ==
  ASSUME own.format = "I420", own.width \in Nat, own.height \in Nat,
         NEW copy, GoodCopy(copy), NEW t \in 1..Len(copy.to)
  PROVE  /\ copy.to[t] + 1 \in 1..3
         /\ copy.width = SamplesAcross(own, copy.to[t] + 1)
         /\ copy.rows = SamplesDown(own, copy.to[t] + 1)
<1>1. /\ copy.to[t] \in 0..2
      /\ copy.width = Across(copy.to[t], own.width)
      /\ copy.rows = Across(copy.to[t], own.height)
  BY DEF GoodCopy
<1>. DEFINE i == copy.to[t] + 1
<1>2. i \in 1..3 /\ i - 1 = copy.to[t]
  BY <1>1
<1>3. /\ SamplesAcross(own, i) = Across(i - 1, own.width)
      /\ SamplesDown(own, i) = Across(i - 1, own.height)
  <2>. HIDE DEF i
  <2>. QED  BY <1>2, SampleCounts
<1>. QED  BY <1>1, <1>2, <1>3

LEMMA DrainMoves ==
  ASSUME FitInv, HoldInv, MovedInv, DrainCache
  PROVE  MovedInv'
<1>. DEFINE copy == copies[1]
            now(n, x, y) ==
              /\ ComponentAddress(own', n, x, y) \in DOMAIN memory'
              /\ memory'[ComponentAddress(own', n, x, y)]
                   = SourceByte(Picture0', ComponentAddress(image', n, x, y))
            rowNow(c, y) == \A t \in 1..Len(c.to), x \in 0..c.width - 1 : now(c.to[t] + 1, x, y)
<1>1. /\ stage = "copy" /\ copies # <<>>
      /\ UNCHANGED <<stream, taken, image, own>>
  BY CacheFrame DEF pathVars
<1>2. Write(Drained(copy)) /\ Right(Drained(copy))
  BY DrainRight DEF DrainCache
<1>3. /\ own.format = "I420" /\ own.width \in Nat \ {0} /\ own.height \in Nat \ {0} /\ UswcCopy
      /\ line \in Nat /\ Band(copy) \in Nat \ {0} /\ GoodCopy(copy)
      /\ line + Band(copy) <= copy.rows /\ copy.rows \in Nat
  BY <1>1, CopyPlace, BandFits DEF FitInv, GoodCopy
<1>4. /\ Len(Copies) \in Nat /\ Len(copies) \in Nat /\ Len(copies) > 0
      /\ Len(copies) <= Len(Copies) /\ copy = Copies[Copied + 1]
      /\ \A i \in 1..Len(Copies) : GoodCopy(Copies[i])
      /\ copies \in Seq(ToSet(Copies))
  <2>1. Len(Copies) \in {2, 3} /\ \A i \in 1..Len(Copies) : GoodCopy(Copies[i])
    BY <1>3, CopyShape
  <2>2. /\ Len(copies) \in Nat /\ Len(copies) <= Len(Copies) /\ copies \in Seq(ToSet(Copies))
        /\ \A i \in 1..Len(copies) : copies[i] = Copies[Copied + i]
    BY <1>1 DEF FitInv, CopiesInv
  <2>3. Len(copies) > 0
    BY <1>1, <2>2, EmptySeq
  <2>. QED  BY <2>1, <2>2, <2>3
<1>5. Copied \in Nat /\ Copied < Len(Copies)
  BY <1>4 DEF Copied
<1>6. Copies' = Copies
  BY <1>1, SameImages
(* A row that has arrived stays, and those of the band arrive.             *)
<1>7. ASSUME NEW c, GoodCopy(c), NEW y \in 0..c.rows - 1,
             \/ RowArrived(c, y)
             \/ \A t \in 1..Len(c.to), x \in 0..c.width - 1 :
                  ComponentAddress(own, c.to[t] + 1, x, y) \in DOMAIN Drained(copy)
      PROVE  rowNow(c, y)
  <2>1. SUFFICES ASSUME NEW t \in 1..Len(c.to), NEW x \in 0..c.width - 1
                 PROVE  now(c.to[t] + 1, x, y)
    OBVIOUS
  <2>2. /\ c.to[t] + 1 \in 1..3 /\ x \in 0..SamplesAcross(own, c.to[t] + 1) - 1
        /\ y \in 0..SamplesDown(own, c.to[t] + 1) - 1
    BY <1>3, <1>7, CopyRows
  <2>3. \/ ComponentAddress(own, c.to[t] + 1, x, y) \in DOMAIN Drained(copy)
        \/ Arrived(c.to[t] + 1, x, y)
    BY <1>7 DEF RowArrived
  <2>4. Arrived(c.to[t] + 1, x, y)'
    <3>. HIDE DEF copy
    <3>. QED  BY <1>1, <1>2, <2>2, <2>3, WriteArrives
  <2>. QED  BY <2>4 DEF Arrived
<1>. HIDE DEF now
<1>8. ASSUME NEW i \in 1..Copied, NEW y \in 0..Copies[i].rows - 1
      PROVE  rowNow(Copies[i], y)
  <2>1. GoodCopy(Copies[i]) /\ RowArrived(Copies[i], y)
    BY <1>1, <1>4, <1>5 DEF MovedInv
  <2>. QED  BY <1>7, <2>1
<1>9. ASSUME NEW y \in 0..line + Band(copy) - 1
      PROVE  rowNow(copy, y)
  <2>1. y \in 0..copy.rows - 1
    BY <1>3
  <2>2. CASE y < line
    <3>1. RowArrived(copy, y)
      BY <1>1, <1>3, <2>2 DEF MovedInv
    <3>. QED  BY <1>3, <1>7, <2>1, <3>1
  <2>3. CASE ~(y < line)
    <3>. DEFINE row == y - line
    <3>1. row \in 0..Band(copy) - 1 /\ line + row = y
      BY <1>3, <2>3
    <3>2. \A t \in 1..Len(copy.to), x \in 0..copy.width - 1 :
            ComponentAddress(own, copy.to[t] + 1, x, y) \in DOMAIN Drained(copy)
      <4>. HIDE DEF row
      <4>1. \A t \in 1..Len(copy.to), x \in 0..copy.width - 1 :
              ComponentAddress(own, copy.to[t] + 1, x, line + row) \in DOMAIN Drained(copy)
        BY <3>1, DrainRight
      <4>. QED  BY <3>1, <4>1
    <3>. QED  BY <1>3, <1>7, <2>1, <3>2
  <2>. QED  BY <2>2, <2>3
<1>. HIDE DEF rowNow
<1>10. MovedInv' <=>
         (stage' = "copy" =>
            /\ \A i \in 1..Copied' : \A y \in 0..Copies'[i].rows - 1 : rowNow(Copies'[i], y)
            /\ copies' # <<>> => \A y \in 0..line' - 1 : rowNow(copies'[1], y))
  BY DEF MovedInv, RowArrived, Arrived, now, rowNow
<1>11. CASE line + Band(copy) < copy.rows
  <2>1. line' = line + Band(copy) /\ copies' = copies
    BY <1>11 DEF DrainCache
  <2>2. Copied' = Copied
    BY <1>6, <2>1 DEF Copied
  <2>. HIDE DEF copy
  <2>3. copies'[1] = copy
    BY <2>1 DEF copy
  <2>4. \A i \in 1..Copied' : \A y \in 0..Copies'[i].rows - 1 : rowNow(Copies'[i], y)
    BY <1>6, <1>8, <2>2
  <2>5. \A y \in 0..line' - 1 : rowNow(copies'[1], y)
    BY <1>3, <1>9, <2>1, <2>3
  <2>. QED  BY <1>10, <2>4, <2>5
<1>12. CASE ~(line + Band(copy) < copy.rows)
  <2>1. line' = 0 /\ copies' = Tail(copies) /\ line + Band(copy) = copy.rows
    BY <1>3, <1>12 DEF DrainCache
  <2>2. Copied' = Copied + 1
    <3>1. Len(Tail(copies)) = Len(copies) - 1
      BY <1>1, <1>4, HeadTailProperties
    <3>2. Copied' = Len(Copies) - Len(Tail(copies))
      BY <1>6, <2>1 DEF Copied
    <3>. QED  BY <1>4, <3>1, <3>2 DEF Copied
  <2>. HIDE DEF copy
  <2>3. ASSUME NEW i \in 1..Copied + 1, NEW y \in 0..Copies[i].rows - 1
        PROVE  rowNow(Copies[i], y)
    <3>1. CASE i = Copied + 1
      <4>1. Copies[i] = copy
        BY <1>4, <3>1
      <4>2. y \in 0..copy.rows - 1
        BY <4>1
      <4>3. y \in 0..line + Band(copy) - 1
        BY <1>3, <2>1, <4>2
      <4>. QED  BY <1>9, <4>1, <4>3
    <3>2. CASE i # Copied + 1
      <4>1. i \in 1..Copied
        BY <1>5, <3>2
      <4>. QED  BY <1>8, <2>3, <4>1
    <3>. QED  BY <3>1, <3>2
  <2>. QED  BY <1>6, <1>10, <2>1, <2>2, <2>3
<1>. QED  BY <1>11, <1>12

LEMMA NextMoved ==
  ASSUME FitInv, HoldInv, MovedInv, [Next]_vars
  PROVE  MovedInv'
<1>1. CASE DrainCache
  BY <1>1, DrainMoves
<1>2. CASE StartCopies
  <2>1. own' = own /\ image' = image /\ copies' = Copies /\ line' = 0
    BY <1>2 DEF StartCopies
  <2>2. Copies' = Copies
    BY <2>1, SameImages
  <2>3. Len(Copies) \in Nat
    <3>1. own.width \in Nat \ {0} /\ own.height \in Nat \ {0} /\ UswcCopy
      BY <1>2 DEF FitInv, OwnInv, PlaceInv, SizeKept, StartCopies
    <3>. QED  BY <3>1, CopyShape
  <2>4. Copied' = 0
    BY <2>1, <2>2, <2>3 DEF Copied
  <2>. QED  BY <2>1, <2>4 DEF MovedInv
<1>3. CASE FillCache
  <2>1. UNCHANGED <<stage, stream, taken, image, own, memory, copies, line>>
    BY <1>3, CacheFrame DEF FillCache, pathVars
  <2>2. Copied' = Copied /\ Copies' = Copies
    BY <2>1, SameImages DEF Copied
  <2>. QED  BY <2>1, <2>2, SameArrived DEF MovedInv
<1>4. CASE Terminated \/ HashUpdate \/ HashGoesOn \/ UNCHANGED vars
  <2>1. UNCHANGED <<stage, stream, taken, image, own, memory, copies, line>>
    BY <1>4 DEF Terminated, HashUpdate, HashGoesOn, vars, pathVars, copyVars
  <2>2. Copied' = Copied /\ Copies' = Copies
    BY <2>1, SameImages DEF Copied
  <2>. QED  BY <2>1, <2>2, SameArrived DEF MovedInv
<1>5. CASE \/ TakePicture \/ KeepImage \/ NewOwnImage \/ ConvertExits \/ Unsupported
           \/ CopiesDone \/ ConvertByLibyuv \/ CopyInternal \/ HashStarts
           \/ HashRefused \/ Report
  <2>1. stage' # "copy"
    BY <1>5, ConvertFrame DEF TakePicture, KeepImage, NewOwnImage, ConvertExits,
       Unsupported, CopiesDone, HashStarts, HashRefused, Report, Exit, Refuse
  <2>. QED  BY <2>1 DEF MovedInv
<1>. QED  BY <1>1, <1>2, <1>3, <1>4, <1>5 DEF Next

(* The copy of planes takes every byte from somewhere in the picture, and  *)
(* of a gray one each from its place.                                      *)
LEMMA PlanesCopied ==
  ASSUME FitInv, CopyInternal
  PROVE  /\ \A a \in DOMAIN CopiedPlanes :
              \E z \in Nat : CopiedPlanes[a] = SourceByte(Picture0, z)
         /\ own.format = "Y800" =>
              \A x \in 0..own.width - 1, y \in 0..own.height - 1 :
                LET a == ComponentAddress(own, 1, x, y)
                IN  /\ a \in DOMAIN CopiedPlanes
                    /\ CopiedPlanes[a]
                         = SourceByte(Picture0, ComponentAddress(image, 1, x, y))
<1>. DEFINE stride(p) == IF own.pitches[p] < image.pitches[p]
                           THEN own.pitches[p] ELSE image.pitches[p]
            row(a, p) == (a - own.pixels[0]) \div own.pitches[p]
            column(a, p) == (a - own.pixels[0]) % own.pitches[p]
            inPlane(p) == {own.pixels[0] + y * own.pitches[p] + x :
                             y \in 0..own.height - 1, x \in 0..stride(p) - 1}
            last(a) == CHOOSE p \in Planes(own.format) :
                         /\ a \in inPlane(p)
                         /\ \A q \in Planes(own.format) : a \in inPlane(q) => q <= p
            source(a, p) == image.pixels[p] + row(a, p) * image.pitches[p] + column(a, p)
            planes == Planes(own.format)
<1>1. /\ stage = "convert" /\ own.format = image.format /\ Picture0 \in Pictures
      /\ image = View(Picture0) /\ own # NoImage /\ own.format \in VideoFormats
      /\ own = NewImage(own.format, own.width, own.height, 0)
      /\ own.width \in Nat \ {0} /\ own.height \in Nat \ {0}
      /\ own.width = image.width
  <2>1. stage = "convert" /\ own.format = image.format
    BY DEF CopyInternal
  <2>2. SizeKept
    BY <2>1 DEF FitInv, OwnInv, PlaceInv
  <2>. QED  BY <2>1, <2>2, StreamPictures DEF FitInv, PlaceInv, OwnInv, Handling, SizeKept
<1>2. planes \subseteq 0..2 /\ 0 \in planes
  BY <1>1, FormatTable
<1>3. \A p \in planes : /\ own.pitches[p] \in Nat \ {0} /\ own.pixels[p] \in Nat
                        /\ image.pitches[p] \in Nat /\ image.pixels[p] \in Nat
  <2>1. \A p \in planes : own.pitches[p] \in Nat \ {0} /\ own.pixels[p] \in Nat
    BY <1>1, NewPlanes
  <2>2. planes = Planes(Picture0.format)
    BY <1>1, ViewFields
  <2>3. \A p \in planes : image.pitches[p] \in Nat /\ image.pixels[p] \in Nat
    BY <1>1, <2>2, PicturePlanes
  <2>. QED  BY <2>1, <2>3
<1>4. CopiedPlanes = [a \in UNION {inPlane(p) : p \in planes} |->
                        SourceByte(Picture0, source(a, last(a)))]
  BY DEF CopiedPlanes
<1>5. own.pixels[0] \in Nat
  BY <1>2, <1>3
<1>6. ASSUME NEW p \in planes, NEW y \in 0..own.height - 1, NEW x \in 0..stride(p) - 1
      PROVE  /\ own.pixels[0] + y * own.pitches[p] + x \in Nat
             /\ row(own.pixels[0] + y * own.pitches[p] + x, p) = y
             /\ column(own.pixels[0] + y * own.pitches[p] + x, p) = x
  <2>1. /\ own.pitches[p] \in Nat \ {0} /\ x \in Nat /\ x < own.pitches[p] /\ y \in Nat
    BY <1>1, <1>3
  <2>2. y * own.pitches[p] \in Nat
    BY <2>1, Products
  <2>3. (own.pixels[0] + y * own.pitches[p] + x) - own.pixels[0] = y * own.pitches[p] + x
    BY <1>5, <2>1, <2>2
  <2>4. /\ (y * own.pitches[p] + x) \div own.pitches[p] = y
        /\ (y * own.pitches[p] + x) % own.pitches[p] = x
    BY <2>1, CachePlace
  <2>5. own.pixels[0] + y * own.pitches[p] + x \in Nat
    BY <1>5, <2>1, <2>2
  <2>6. row(own.pixels[0] + y * own.pitches[p] + x, p)
          = (y * own.pitches[p] + x) \div own.pitches[p]
    BY <2>3
  <2>7. column(own.pixels[0] + y * own.pitches[p] + x, p)
          = (y * own.pitches[p] + x) % own.pitches[p]
    BY <2>3
  <2>. QED  BY <2>4, <2>5, <2>6, <2>7
<1>7. ASSUME NEW a \in DOMAIN CopiedPlanes
      PROVE  \E z \in Nat : CopiedPlanes[a] = SourceByte(Picture0, z)
  <2>1. \E p \in planes : a \in inPlane(p)
    <3>. HIDE DEF inPlane, planes, source, last
    <3>. QED  BY <1>4
  <2>2. last(a) \in planes /\ a \in inPlane(last(a))
    <3>. HIDE DEF inPlane
    <3>1. \E p \in planes : a \in inPlane(p) /\ \A q \in planes : a \in inPlane(q) => q <= p
      <4>1. CASE 2 \in planes /\ a \in inPlane(2)
        BY <1>2, <4>1
      <4>2. CASE ~(2 \in planes /\ a \in inPlane(2)) /\ 1 \in planes /\ a \in inPlane(1)
        BY <1>2, <4>2
      <4>3. CASE ~(2 \in planes /\ a \in inPlane(2)) /\ ~(1 \in planes /\ a \in inPlane(1))
        BY <1>2, <2>1, <4>3
      <4>. QED  BY <4>1, <4>2, <4>3
    <3>. QED  BY <3>1
  <2>. DEFINE p == last(a)
  <2>3. PICK y \in 0..own.height - 1, x \in 0..stride(p) - 1 :
          a = own.pixels[0] + y * own.pitches[p] + x
    <3>. HIDE DEF last, stride
    <3>. QED  BY <2>2
  <2>. HIDE DEF last
  <2>4. p \in planes
    BY <2>2
  <2>. HIDE DEF p
  <2>5. row(a, p) = y /\ column(a, p) = x /\ y \in Nat /\ x \in Nat
    <3>1. x \in Nat /\ y \in Nat
      BY <1>1
    <3>. HIDE DEF stride
    <3>. QED  BY <1>6, <2>3, <2>4, <3>1
  <2>6. source(a, p) = image.pixels[p] + y * image.pitches[p] + x
    BY <2>5
  <2>7. source(a, p) \in Nat
    <3>1. image.pixels[p] \in Nat /\ y * image.pitches[p] \in Nat
      BY <1>3, <2>4, <2>5, Products
    <3>. QED  BY <2>5, <2>6, <3>1
  <2>8. CopiedPlanes[a] = SourceByte(Picture0, source(a, p))
    <3>. HIDE DEF source, inPlane, planes
    <3>. QED  BY <1>4 DEF p
  <2>. HIDE DEF source
  <2>. QED  BY <2>7, <2>8
<1>8. ASSUME own.format = "Y800", NEW x \in 0..own.width - 1, NEW y \in 0..own.height - 1
      PROVE  LET a == ComponentAddress(own, 1, x, y)
             IN  /\ a \in DOMAIN CopiedPlanes
                 /\ CopiedPlanes[a] = SourceByte(Picture0, ComponentAddress(image, 1, x, y))
  <2>1. /\ planes = {0} /\ Components("Y800") = <<Component(0, 0, 1)>>
        /\ PixelPitch("Y800", 0) = 1 /\ FirstIn("Y800", 0) = 1
    <3>1. Components("Y800") = <<Component(0, 0, 1)>>
      BY DEF Components, ComponentTable
    <3>2. VideoFormatInfo["Y800"].components = 1
      BY DEF VideoFormatInfo, Info
    <3>3. planes = {0} /\ FirstIn("Y800", 0) = 1
      BY <1>1, <1>8, <3>2, FormatTable
    <3>4. PixelPitch("Y800", 0) = 1
      BY <3>1, <3>3 DEF PixelPitch, Component
    <3>. QED  BY <3>1, <3>3, <3>4
  <2>2. own.width <= own.pitches[0]
    <3>1. own.pitches[0] = Pitch("Y800", 0, own.width)
      BY <1>1, <1>8, <2>1 DEF NewImage
    <3>2. Pitch("Y800", 0, own.width) = RoundUp((1 * RoundUp(own.width, 32)) \div 1, 32)
      BY <2>1 DEF Pitch, ComponentPitch, DataAlign, PixelPitch
    <3>3. RoundUp(own.width, 32) \in Nat /\ own.width <= RoundUp(own.width, 32)
      BY <1>1, RoundUpFact
    <3>4. (1 * RoundUp(own.width, 32)) \div 1 = RoundUp(own.width, 32)
      BY <3>3
    <3>5. RoundUp(own.width, 32) <= RoundUp(RoundUp(own.width, 32), 32)
          /\ RoundUp(RoundUp(own.width, 32), 32) \in Nat
      BY <3>3, RoundUpFact
    <3>. QED  BY <1>1, <3>1, <3>2, <3>3, <3>4, <3>5
  <2>3. own.width <= image.pitches[0]
    <3>1. /\ image.width = Picture0.rect.width /\ Picture0.format = "Y800"
      BY <1>1, <1>8, ViewFields
    <3>2. image.pitches[0] = Picture0.pitch
      <4>1. 0 \in Planes(Picture0.format)
        BY <1>1, <1>2, <1>8, <3>1
      <4>. QED  BY <1>1, <4>1, PicturePlanes DEF SourcePitch
    <3>3. Picture0.codedWidth * 1 <= Picture0.pitch
      BY <1>1, <2>1, <3>1 DEF Pictures
    <3>4. /\ Picture0.rect.x \in Nat /\ Picture0.rect.width \in Nat
          /\ Picture0.codedWidth \in Nat /\ Picture0.pitch \in Nat
          /\ Picture0.rect.x + Picture0.rect.width <= Picture0.codedWidth
      BY <1>1, PictureFields
    <3>. QED  BY <1>1, <3>1, <3>2, <3>3, <3>4
  <2>4. x \in 0..stride(0) - 1 /\ x \in Nat /\ y \in Nat
    BY <1>1, <1>3, <1>2, <2>2, <2>3
  <2>. DEFINE b == own.pixels[0] + y * own.pitches[0] + x
  <2>5. b \in inPlane(0)
    <3>. HIDE DEF stride
    <3>. QED  BY <2>4
  <2>6. row(b, 0) = y /\ column(b, 0) = x
    BY <1>2, <1>6, <2>4
  <2>7. last(b) = 0
    <3>. HIDE DEF inPlane, b
    <3>. QED  BY <2>1, <2>5
  <2>8. /\ b \in UNION {inPlane(p) : p \in planes}
        /\ CopiedPlanes[b] = SourceByte(Picture0, source(b, 0))
    <3>1. b \in UNION {inPlane(p) : p \in planes}
      <4>. HIDE DEF inPlane, b, planes
      <4>. QED  BY <1>2, <2>5
    <3>. HIDE DEF b, inPlane, source, last, planes
    <3>. QED  BY <1>4, <2>7, <3>1
  <2>9. b \in DOMAIN CopiedPlanes
    <3>. HIDE DEF b, inPlane, source, last, planes
    <3>. QED  BY <1>4, <2>8
  <2>10. source(b, 0) = image.pixels[0] + y * image.pitches[0] + x
    <3>. HIDE DEF b
    <3>. QED  BY <2>6
  <2>11. /\ ComponentAddress(own, 1, x, y) = b
         /\ ComponentAddress(image, 1, x, y) = image.pixels[0] + y * image.pitches[0] + x
    <3>1. /\ ComponentAddress(own, 1, x, y) = own.pixels[0] + y * own.pitches[0] + x * 1 + 0
          /\ ComponentAddress(image, 1, x, y)
               = image.pixels[0] + y * image.pitches[0] + x * 1 + 0
      BY <1>1, <1>8, <2>1 DEF ComponentAddress, Component
    <3>2. /\ own.pixels[0] \in Nat /\ own.pitches[0] \in Nat
          /\ image.pixels[0] \in Nat /\ image.pitches[0] \in Nat
      BY <1>2, <1>3
    <3>3. y * own.pitches[0] \in Nat /\ y * image.pitches[0] \in Nat
      BY <2>4, <3>2, Products
    <3>. QED  BY <2>4, <3>1, <3>2, <3>3
  <2>. HIDE DEF b, source
  <2>. QED  BY <2>8, <2>9, <2>10, <2>11
<1>. QED  BY <1>7, <1>8

LEMMA DoneArrived ==
  ASSUME FitInv, MovedInv, stage = "copy", copies = <<>>
  PROVE  AllArrived
<1>1. /\ own.format = "I420" /\ own.width \in Nat \ {0} /\ own.height \in Nat \ {0} /\ UswcCopy
  BY CopyPlace
<1>2. Len(Copies) \in Nat /\ \A i \in 1..Len(Copies) : GoodCopy(Copies[i])
  BY <1>1, CopyShape
<1>3. Copied = Len(Copies)
  BY <1>2 DEF Copied
<1>4. ASSUME NEW i \in 1..3, NEW x \in 0..SamplesAcross(own, i) - 1,
             NEW y \in 0..SamplesDown(own, i) - 1
      PROVE  Arrived(i, x, y)
  <2>1. PICK n \in 1..Len(Copies) : \E t \in 1..Len(Copies[n].to) : Copies[n].to[t] + 1 = i
    BY <1>1, CopiesCover
  <2>2. PICK t \in 1..Len(Copies[n].to) : Copies[n].to[t] + 1 = i
    BY <2>1
  <2>3. Copies[n].width = SamplesAcross(own, i) /\ Copies[n].rows = SamplesDown(own, i)
    BY <1>1, <1>2, <2>2, CopyRows
  <2>4. RowArrived(Copies[n], y)
    BY <1>3, <2>3 DEF MovedInv
  <2>. QED  BY <2>2, <2>3, <2>4 DEF RowArrived
<1>. QED  BY <1>1, <1>4, TableOfI420 DEF AllArrived

LEMMA NextArrived ==
  ASSUME FitInv, HoldInv, MovedInv, ArrivedInv, [Next]_vars
  PROVE  ArrivedInv'
<1>1. CASE CopiesDone
  <2>1. UNCHANGED <<stream, taken, image, own, memory>> /\ stage = "copy" /\ copies = <<>>
    BY <1>1 DEF CopiesDone, pathVars
  <2>. QED  BY <2>1, DoneArrived, SameArrived DEF ArrivedInv
<1>2. CASE ConvertByLibyuv
  <2>1. UNCHANGED <<stream, taken, image, own>> /\ Write(Converted)
    BY <1>2, ConvertFrame DEF ConvertByLibyuv, pathVars
  <2>2. /\ own.format = "I420" /\ Right(Converted)
        /\ \A i \in 1..3 :
              \A x \in 0..SamplesAcross(own, i) - 1, y \in 0..SamplesDown(own, i) - 1 :
                ComponentAddress(own, i, x, y) \in DOMAIN Converted
    BY <1>2, ConvertRight
  <2>3. ASSUME NEW i \in 1..3, NEW x \in 0..SamplesAcross(own, i) - 1,
               NEW y \in 0..SamplesDown(own, i) - 1
        PROVE  Arrived(i, x, y)'
    BY <2>1, <2>2, WriteArrives
  <2>4. ComponentsOf("I420") = 1..3
    BY TableOfI420
  <2>5. AllArrived' <=> \A i \in ComponentsOf(own.format) :
           \A x \in 0..SamplesAcross(own, i) - 1, y \in 0..SamplesDown(own, i) - 1 :
             Arrived(i, x, y)'
    BY <2>1 DEF AllArrived
  <2>. QED  BY <2>2, <2>3, <2>4, <2>5 DEF ArrivedInv
<1>3. CASE CopyInternal
  <2>1. UNCHANGED <<stream, taken, image, own>> /\ Write(CopiedPlanes)
        /\ own.format = image.format /\ ~UswcCopy
    BY <1>3, ConvertFrame DEF CopyInternal, pathVars
  <2>2. SUFFICES ASSUME own.format = "Y800" PROVE AllArrived'
    BY <2>1 DEF ArrivedInv, UswcCopy
  <2>3. ComponentsOf("Y800") = 1..1
    <3>1. VideoFormatInfo["Y800"].components = 1 /\ "Y800" \in VideoFormats
      BY DEF VideoFormatInfo, Info, VideoFormats
    <3>. QED  BY <3>1, FormatTable
  <2>4. ASSUME NEW x \in 0..SamplesAcross(own, 1) - 1, NEW y \in 0..SamplesDown(own, 1) - 1
        PROVE  Arrived(1, x, y)'
    <3>. DEFINE a == ComponentAddress(own, 1, x, y)
                z == ComponentAddress(image, 1, x, y)
    <3>1. a \in DOMAIN CopiedPlanes /\ CopiedPlanes[a] = SourceByte(Picture0, z)
      <4>1. x \in 0..own.width - 1 /\ y \in 0..own.height - 1
        BY DEF SamplesAcross, SamplesDown
      <4>. QED  BY <1>3, <2>2, <4>1, PlanesCopied
    <3>2. Picture0' = Picture0 /\ a' = a /\ z' = z
      BY <2>1 DEF Picture0, ComponentAddress
    <3>. HIDE DEF a, z
    <3>3. a \in DOMAIN memory' /\ memory'[a] = SourceByte(Picture0, z)
      BY <2>1, <3>1 DEF Write
    <3>. QED  BY <3>2, <3>3 DEF Arrived, a, z
  <2>5. AllArrived' <=> \A i \in ComponentsOf(own.format) :
           \A x \in 0..SamplesAcross(own, i) - 1, y \in 0..SamplesDown(own, i) - 1 :
             Arrived(i, x, y)'
    BY <2>1 DEF AllArrived
  <2>. QED  BY <2>2, <2>3, <2>4, <2>5
<1>4. CASE HashStarts \/ HashUpdate \/ HashGoesOn \/ Terminated \/ UNCHANGED vars
  <2>1. UNCHANGED <<path, stream, taken, image, own, memory>>
        /\ (stage' \in {"hash", "update"} => stage \in {"hash", "update"})
    BY <1>4 DEF HashStarts, HashUpdate, HashGoesOn, Terminated, vars, pathVars
  <2>. QED  BY <2>1, SameArrived DEF ArrivedInv, InHardware
<1>5. CASE TakePicture
  <2>1. path' = path /\ stage' \in {"hash", "update"} => ~InHardware
    BY <1>5 DEF TakePicture, Refuse
  <2>2. path' = path
    BY <1>5 DEF TakePicture, pathVars
  <2>. QED  BY <2>1, <2>2 DEF ArrivedInv, InHardware
<1>6. CASE \/ KeepImage \/ NewOwnImage \/ ConvertExits \/ Unsupported \/ StartCopies
           \/ FillCache \/ DrainCache \/ HashRefused \/ Report
  <2>1. stage' \notin {"hash", "update"}
    BY <1>6, CacheFrame DEF KeepImage, NewOwnImage, ConvertExits, Unsupported, StartCopies,
       HashRefused, Report, Exit, Refuse
  <2>. QED  BY <2>1 DEF ArrivedInv
<1>. QED  BY <1>1, <1>2, <1>3, <1>4, <1>5, <1>6 DEF Next

-----------------------------------------------------------------------------
(* What is hashed: the bytes shown, in the order of the calls              *)

(* The samples of a component that a picture shows.                        *)
ShownAcross(picture, i) ==
  SamplesAcross([format |-> picture.format, width |-> picture.rect.width,
                 height |-> picture.rect.height], i)

(* The rows of a component that a picture shows.                           *)
ShownDown(picture, i) ==
  SamplesDown([format |-> picture.format, width |-> picture.rect.width,
               height |-> picture.rect.height], i)

(* The bytes of such a row.                                                *)
ShownRow(picture, i) == BytesPerSample(picture.format) * ShownAcross(picture, i)

LEMMA ShownCounts ==
  ASSUME NEW picture \in Pictures, NEW i
  PROVE  /\ ShownAcross(picture, i) \in Nat \ {0} /\ ShownDown(picture, i) \in Nat \ {0}
         /\ ShownRow(picture, i) \in Nat \ {0}
         /\ BytesPerSample(picture.format) \in {1, 2}
         /\ BytesPerSample(picture.format) = 1 => ShownRow(picture, i) = ShownAcross(picture, i)
         /\ SamplesAcross(View(picture), i) = ShownAcross(picture, i)
         /\ SamplesDown(View(picture), i) = ShownDown(picture, i)
<1>. DEFINE f == picture.format
            w == picture.rect.width
            h == picture.rect.height
<1>1. f \in VideoFormats /\ w \in Nat \ {0} /\ h \in Nat \ {0}
  BY PictureFields
<1>2. WidthShift(f) \in {1, 2} /\ HeightShift(f) \in {1, 2} /\ BytesPerSample(f) \in {1, 2}
  BY <1>1, FormatTable
<1>3. /\ ShownAcross(picture, i)
           = IF i = 1 THEN w ELSE (w + WidthShift(f) - 1) \div WidthShift(f)
      /\ ShownDown(picture, i)
           = IF i = 1 THEN h ELSE (h + HeightShift(f) - 1) \div HeightShift(f)
  BY DEF ShownAcross, ShownDown, SamplesAcross, SamplesDown
<1>4. /\ SamplesAcross(View(picture), i) = ShownAcross(picture, i)
      /\ SamplesDown(View(picture), i) = ShownDown(picture, i)
  BY <1>3, ViewFields DEF SamplesAcross, SamplesDown
<1>. HIDE DEF f, w, h
<1>5. ShownAcross(picture, i) \in Nat \ {0} /\ ShownDown(picture, i) \in Nat \ {0}
  BY <1>1, <1>2, <1>3
<1>6. /\ ShownRow(picture, i) \in Nat \ {0}
      /\ BytesPerSample(f) = 1 => ShownRow(picture, i) = ShownAcross(picture, i)
  BY <1>2, <1>5 DEF ShownRow, f
<1>. QED  BY <1>2, <1>4, <1>5, <1>6 DEF f

(* Row by row, every byte shown is that of the cropped image.              *)
LEMMA ShownSamples ==
  ASSUME NEW picture \in Pictures, IsYuv(picture.format), Croppable(picture),
         NEW i \in ComponentsOf(picture.format), i <= 3
  PROVE  /\ ShownBytes(picture, i)
              \in [1..ShownRow(picture, i) * ShownDown(picture, i) -> UInt8]
         /\ \A row \in 0..ShownDown(picture, i) - 1, k \in 0..ShownRow(picture, i) - 1 :
              /\ row * ShownRow(picture, i) + k + 1
                   \in 1..ShownRow(picture, i) * ShownDown(picture, i)
              /\ ShownBytes(picture, i)[row * ShownRow(picture, i) + k + 1]
                   = SourceByte(picture,
                       ComponentAddress(View(picture), i,
                                        k \div BytesPerSample(picture.format), row)
                         + (k % BytesPerSample(picture.format)))
<1>. DEFINE n == BytesPerSample(picture.format)
            line0 == ShownRow(picture, i)
            down == ShownDown(picture, i)
            at(k) == ComponentAddress(SourceImage(picture), i,
                                      Corner(picture, i).x + ((k % line0) \div n),
                                      Corner(picture, i).y + (k \div line0)) + (k % n)
            place(row, x) == ComponentAddress(View(picture), i, x, row)
<1>1. line0 \in Nat \ {0} /\ down \in Nat \ {0} /\ n \in {1, 2} /\ n * ShownAcross(picture, i) = line0
  BY ShownCounts DEF ShownRow
<1>2. ShownBytes(picture, i) = [k \in 1..line0 * down |-> SourceByte(picture, at(k - 1))]
  BY DEF ShownBytes, ShownRow, ShownDown, ShownAcross, Corner
<1>3. \A row, x \in Nat :
        /\ place(row, x) \in Nat
        /\ place(row, x) = ComponentAddress(SourceImage(picture), i,
                                            Corner(picture, i).x + x, Corner(picture, i).y + row)
  BY ViewComponent
<1>. HIDE DEF n, line0, down, place
<1>4. \A k \in Nat : /\ (k % line0) \div n \in Nat /\ k \div line0 \in Nat /\ k % n \in Nat
                     /\ at(k) = place(k \div line0, (k % line0) \div n) + (k % n)
  <2>1. SUFFICES ASSUME NEW k \in Nat
                 PROVE  /\ (k % line0) \div n \in Nat /\ k \div line0 \in Nat /\ k % n \in Nat
                        /\ at(k) = place(k \div line0, (k % line0) \div n) + (k % n)
    OBVIOUS
  <2>2. k % line0 \in Nat /\ k \div line0 \in Nat /\ k % n \in Nat
    BY <1>1
  <2>3. (k % line0) \div n \in Nat
    BY <1>1, <2>2
  <2>. QED  BY <1>3, <2>2, <2>3
<1>5. ShownBytes(picture, i) \in [1..line0 * down -> UInt8]
  <2>1. SUFFICES ASSUME NEW k \in 1..line0 * down
                 PROVE  SourceByte(picture, at(k - 1)) \in UInt8
    BY <1>2
  <2>2. k - 1 \in Nat
    BY <1>1, Products
  <2>3. at(k - 1) \in Int
    <3>. HIDE DEF at
    <3>. QED  BY <1>3, <1>4, <2>2, SMTT(30)
  <2>. HIDE DEF at
  <2>. QED  BY <2>3, SourceByteType
<1>6. ASSUME NEW row \in 0..down - 1, NEW k \in 0..line0 - 1
      PROVE  /\ row * line0 + k + 1 \in 1..line0 * down
             /\ ShownBytes(picture, i)[row * line0 + k + 1]
                  = SourceByte(picture, place(row, k \div n) + (k % n))
  <2>1. row \in Nat /\ k \in Nat /\ k < line0 /\ row < down
    BY <1>1
  <2>2. row * line0 + k \in Nat /\ row * line0 + k < down * line0 /\ down * line0 = line0 * down
    BY <1>1, <2>1, InsidePlane
  <2>3. (row * line0 + k) \div line0 = row /\ (row * line0 + k) % line0 = k
    BY <1>1, <2>1, CachePlace
  <2>4. (row * line0 + k) % n = k % n
    <3>1. CASE n = 1
      BY <2>1, <2>2, <3>1
    <3>2. CASE n = 2
      <4>. DEFINE a == ShownAcross(picture, i)
      <4>1. a \in Nat /\ 2 * a = line0
        BY <1>1, <3>2, ShownCounts
      <4>. HIDE DEF a
      <4>2. row * a \in Nat /\ row * line0 = 2 * (row * a)
        BY <2>1, <4>1, Products
      <4>. DEFINE z == row * a
      <4>3. z \in Nat /\ row * line0 = 2 * z
        BY <4>2
      <4>. HIDE DEF z
      <4>. QED  BY <2>1, <3>2, <4>3
    <3>. QED  BY <1>1, <3>1, <3>2
  <2>. DEFINE q == row * line0 + k
  <2>5. q \in Nat /\ q + 1 \in 1..line0 * down /\ (q + 1) - 1 = q
    <3>1. line0 * down \in Nat
      BY <1>1, Products
    <3>. QED  BY <2>2, <3>1
  <2>6. q \div line0 = row /\ q % line0 = k /\ q % n = k % n
    BY <2>3, <2>4
  <2>. HIDE DEF q
  <2>7. at(q) = place(row, k \div n) + (k % n)
    BY <1>4, <2>5, <2>6
  <2>. HIDE DEF at
  <2>8. ShownBytes(picture, i)[q + 1] = SourceByte(picture, at(q))
    BY <1>2, <2>5
  <2>. QED  BY <2>5, <2>7, <2>8 DEF q
<1>. QED  BY <1>5, <1>6 DEF n, line0, down, place

(* The calls of mvt_hash_update() and what they are given.                 *)
Calls == [from : {"surface", "own", "gray"}, at : Nat, n : Nat \ {0}]

(* What the call u is given; leftover is what memory holds that has not    *)
(* been written.                                                           *)
Given(u, leftover) == [i \in 0..u.n - 1 |-> Load(u.from, u.at + i, leftover)]

(* Memory holds bytes.                                                     *)
ByteInv == \A a \in DOMAIN memory : memory[a] \in UInt8

LEMMA GivenType ==
  ASSUME FitInv, ByteInv, stage = "update", NEW u \in Calls, NEW leftover \in Leftover
  PROVE  Given(u, leftover) \in Data(u.n)
<1>1. SUFFICES ASSUME NEW i \in 0..u.n - 1
               PROVE  Load(u.from, u.at + i, leftover) \in UInt8
  BY DEF Given, Data
<1>2. u.from \in {"surface", "own", "gray"} /\ u.at + i \in Int
  BY DEF Calls
<1>3. Picture0 \in Pictures
  BY StreamPictures DEF FitInv, Handling
<1>4. leftover \in UInt8
  BY PathAssumption
<1>5. CASE u.from = "surface"
  BY <1>2, <1>3, <1>5, SourceByteType DEF Load
<1>6. CASE u.from = "own"
  BY <1>4, <1>6 DEF Load, ByteInv
<1>7. CASE u.from = "gray"
  BY <1>7 DEF Load, UInt8
<1>. QED  BY <1>2, <1>5, <1>6, <1>7

(* The image that is hashed, and its samples.                              *)
LEMMA HashedPlace ==
  ASSUME FitInv, stage \in {"hash", "update"}, IsYuv(Hashed.format)
  PROVE  /\ Hashed.format \in VideoFormats
         /\ Hashed.width = Picture0.rect.width /\ Hashed.height = Picture0.rect.height
         /\ Hashed.width \in Nat \ {0} /\ Hashed.height \in Nat \ {0}
         /\ Picture0 \in Pictures
         /\ \A p \in Planes(Hashed.format) : /\ Hashed.pixels[p] \in Nat
                                             /\ Hashed.pitches[p] \in Nat
         /\ \A i \in ComponentsOf(Hashed.format) :
              i <= 3 =>
                /\ SamplesAcross(Hashed, i) \in Nat \ {0}
                /\ SamplesDown(Hashed, i) \in Nat \ {0}
                /\ \A x, y \in Nat : ComponentAddress(Hashed, i, x, y) \in Nat
<1>1. /\ Handling /\ Picture0 \in Pictures /\ image = View(Picture0) /\ Croppable(Picture0)
      /\ image.format = Picture0.format /\ image.format \in VideoFormats
      /\ image.width = Picture0.rect.width /\ image.width \in Nat \ {0}
      /\ image.height = Picture0.rect.height /\ image.height \in Nat \ {0}
  BY StreamPictures, ImageFields DEF FitInv, Handling, PlaceInv
<1>2. /\ Hashed.format \in VideoFormats
      /\ Hashed.width = image.width /\ Hashed.height = image.height
  <2>1. CASE InHardware
    BY <1>1, <2>1 DEF Hashed, FitInv, OwnInv, SizeKept
  <2>2. CASE ~InHardware
    BY <1>1, <2>2 DEF Hashed
  <2>. QED  BY <2>1, <2>2
<1>3. ASSUME NEW i \in ComponentsOf(Hashed.format), i <= 3
      PROVE  SamplesAcross(Hashed, i) \in Nat \ {0} /\ SamplesDown(Hashed, i) \in Nat \ {0}
  <2>. DEFINE f == Hashed.format
  <2>1. WidthShift(f) \in {1, 2} /\ HeightShift(f) \in {1, 2}
    BY <1>2, FormatTable
  <2>. DEFINE w == Hashed.width
              h == Hashed.height
  <2>2. w \in Nat \ {0} /\ h \in Nat \ {0}
    BY <1>1, <1>2
  <2>3. /\ SamplesAcross(Hashed, i)
             = IF i = 1 THEN w ELSE (w + WidthShift(f) - 1) \div WidthShift(f)
        /\ SamplesDown(Hashed, i)
             = IF i = 1 THEN h ELSE (h + HeightShift(f) - 1) \div HeightShift(f)
    BY DEF SamplesAcross, SamplesDown
  <2>. HIDE DEF f, w, h
  <2>. QED  BY <2>1, <2>2, <2>3
<1>4. ASSUME NEW i \in ComponentsOf(Hashed.format), i <= 3, NEW x \in Nat, NEW y \in Nat
      PROVE  ComponentAddress(Hashed, i, x, y) \in Nat
  <2>1. CASE ~InHardware
    BY <1>1, <1>4, <2>1, ViewComponent DEF Hashed
  <2>2. CASE InHardware
    <3>1. Hashed = own /\ own # NoImage
      BY <2>2 DEF Hashed, FitInv, OwnInv, SizeKept
    <3>2. /\ own = NewImage(own.format, own.width, own.height, 0) /\ own.format \in VideoFormats
          /\ own.width \in Nat \ {0} /\ own.height \in Nat \ {0}
      BY <3>1 DEF FitInv, OwnInv
    <3>. DEFINE c == Components(own.format)[i]
    <3>3. c.plane \in Planes(own.format) /\ c.offset \in Nat /\ c.stride \in Nat
      BY <1>4, <3>1, <3>2, FormatTable DEF GoodComponent
    <3>. DEFINE start == own.pixels[c.plane]
                pitch == own.pitches[c.plane]
                st == c.stride
                o == c.offset
    <3>4. start \in Nat /\ pitch \in Nat
      BY <3>2, <3>3, NewPlanes
    <3>5. ComponentAddress(Hashed, i, x, y) = start + y * pitch + x * st + o
      BY <3>1 DEF ComponentAddress
    <3>6. st \in Nat /\ o \in Nat
      BY <3>3
    <3>. HIDE DEF c, start, pitch, st, o
    <3>7. y * pitch \in Nat /\ x * st \in Nat
      BY <3>4, <3>6, Products
    <3>. QED  BY <3>4, <3>5, <3>6, <3>7
  <2>. QED  BY <2>1, <2>2
<1>5. ASSUME NEW p \in Planes(Hashed.format)
      PROVE  Hashed.pixels[p] \in Nat /\ Hashed.pitches[p] \in Nat
  <2>1. CASE ~InHardware
    BY <1>1, <1>5, <2>1, PicturePlanes DEF Hashed
  <2>2. CASE InHardware
    <3>1. Hashed = own /\ own # NoImage
      BY <2>2 DEF Hashed, FitInv, OwnInv, SizeKept
    <3>2. /\ own = NewImage(own.format, own.width, own.height, 0) /\ own.format \in VideoFormats
          /\ own.width \in Nat \ {0} /\ own.height \in Nat \ {0}
      BY <3>1 DEF FitInv, OwnInv
    <3>. QED  BY <1>5, <3>1, <3>2, NewPlanes
  <2>. QED  BY <2>1, <2>2
<1>. QED  BY <1>1, <1>2, <1>3, <1>4, <1>5

LEMMA ListOf ==
  ASSUME NEW S, NEW n \in Nat, NEW f \in [1..n -> S]
  PROVE  f \in Seq(S) /\ Len(f) = n
OBVIOUS

LEMMA ComponentCalls ==
  ASSUME FitInv, stage \in {"hash", "update"}, IsYuv(Hashed.format),
         NEW from \in {"surface", "own"}, NEW i \in ComponentsOf(Hashed.format), i <= 3
  PROVE  ComponentUpdates(from, i) \in Seq(Calls)
<1>. DEFINE n == BytesPerSample(Hashed.format)
            across == SamplesAcross(Hashed, i)
            down == SamplesDown(Hashed, i)
            at(x, y) == ComponentAddress(Hashed, i, x, y)
            rows == [y \in 1..down |-> Update(from, at(0, y - 1), across * n)]
            samples == [k \in 1..across * down |->
                          Update(from, at((k - 1) % across, (k - 1) \div across), n)]
<1>1. across \in Nat \ {0} /\ down \in Nat \ {0} /\ n \in {1, 2}
  BY HashedPlace, FormatTable
<1>2. \A x, y \in Nat : at(x, y) \in Nat
  BY HashedPlace
<1>3. ComponentUpdates(from, i) = rows \/ ComponentUpdates(from, i) = samples
  BY DEF ComponentUpdates
<1>. HIDE DEF n, across, down, at
<1>4. rows \in [1..down -> Calls]
  <2>1. SUFFICES ASSUME NEW y \in 1..down
                 PROVE  Update(from, at(0, y - 1), across * n) \in Calls
    OBVIOUS
  <2>2. at(0, y - 1) \in Nat
    <3>1. y - 1 \in Nat /\ 0 \in Nat
      BY <1>1
    <3>. HIDE DEF rows, samples
    <3>. QED  BY <1>2, <3>1
  <2>3. across * n \in Nat \ {0}
    BY <1>1
  <2>. QED  BY <2>2, <2>3 DEF Calls, Update
<1>5. samples \in [1..across * down -> Calls]
  <2>1. SUFFICES ASSUME NEW k \in 1..across * down
                 PROVE  Update(from, at((k - 1) % across, (k - 1) \div across), n) \in Calls
    OBVIOUS
  <2>2. k - 1 \in Nat
    BY <1>1, Products
  <2>3. (k - 1) % across \in Nat /\ (k - 1) \div across \in Nat
    BY <1>1, <2>2
  <2>4. at((k - 1) % across, (k - 1) \div across) \in Nat
    BY <1>2, <2>3
  <2>5. n \in Nat \ {0}
    BY <1>1
  <2>. QED  BY <2>4, <2>5 DEF Calls, Update
<1>6. down \in Nat /\ across * down \in Nat
  BY <1>1, Products
<1>. HIDE DEF rows, samples
<1>. QED  BY <1>3, <1>4, <1>5, <1>6, ListOf

LEMMA UpdatesType ==
  ASSUME FitInv, stage \in {"hash", "update"}, IsYuv(Hashed.format)
  PROVE  Updates \in Seq(Calls)
<1>. DEFINE from == IF InHardware THEN "own" ELSE "surface"
            info == VideoFormatInfo[Hashed.format]
<1>1. from \in {"surface", "own"} /\ Hashed.format \in VideoFormats
  BY HashedPlace
<1>2. 1 \in ComponentsOf(Hashed.format) /\ ComponentUpdates(from, 1) \in Seq(Calls)
  BY <1>1, FormatTable, ComponentCalls
<1>3. CASE info.components = 1
  <2>. DEFINE w == Hashed.width
              h == Hashed.height
  <2>1. w \in Nat \ {0} /\ h \in Nat \ {0}
    BY HashedPlace
  <2>. HIDE DEF w, h
  <2>2. HalfUp(w) \in Nat \ {0} /\ HalfUp(h) \in Nat /\ 2 * HalfUp(h) \in Nat
    BY <2>1 DEF HalfUp
  <2>3. Update("gray", 0, HalfUp(w)) \in Calls
    BY <2>2 DEF Update, Calls
  <2>4. [k \in 1..2 * HalfUp(h) |-> Update("gray", 0, HalfUp(w))] \in [1..2 * HalfUp(h) -> Calls]
    BY <2>3
  <2>5. GrayUpdates \in Seq(Calls)
    BY <2>2, <2>4, ListOf DEF GrayUpdates, w, h
  <2>6. Updates = ComponentUpdates(from, 1) \o GrayUpdates
    BY <1>3 DEF Updates, Grayscale
  <2>. QED  BY <1>2, <2>5, <2>6
<1>4. CASE info.components # 1
  <2>1. 2 \in ComponentsOf(Hashed.format) /\ 3 \in ComponentsOf(Hashed.format)
    BY <1>1, <1>4, FormatTable
  <2>2. ComponentUpdates(from, 2) \in Seq(Calls) /\ ComponentUpdates(from, 3) \in Seq(Calls)
    BY <1>1, <2>1, ComponentCalls
  <2>3. Updates = ComponentUpdates(from, 1) \o ComponentUpdates(from, 2)
                    \o ComponentUpdates(from, 3)
    BY <1>4 DEF Updates, Grayscale
  <2>. QED  BY <1>2, <2>2, <2>3
<1>. QED  BY <1>3, <1>4

(* What is left to be hashed are calls.                                    *)
CallsInv == stage = "update" => updates \in Seq(Calls) /\ IsYuv(Hashed.format)

(* The hash is well formed, and so is all that it is given.                *)
TypedInv == HInv /\ ByteInv /\ CallsInv

LEMMA OneCall ==
  ASSUME FitInv, TypedInv, HashUpdate
  PROVE  /\ stage = "update" /\ updates # <<>> /\ updates' = Tail(updates)
         /\ updates[1] \in Calls
         /\ \E leftover \in Leftover :
              /\ Given(updates[1], leftover) \in Data(updates[1].n)
              /\ \/ /\ updates[1].n = 1
                    /\ UpdateByte(Given(updates[1], leftover))
                 \/ /\ updates[1].at % 16 \in 0..15
                    /\ Start(Given(updates[1], leftover), updates[1].n, updates[1].at % 16)
<1>. DEFINE u == updates[1]
<1>1. stage = "update" /\ updates # <<>> /\ updates' = Tail(updates)
  BY DEF HashUpdate
<1>2. u \in Calls
  BY <1>1 DEF TypedInv, CallsInv
<1>3. PICK leftover \in Leftover :
        IF u.n = 1 /\ kernel # "c"
          THEN UpdateByte([i \in 0..u.n - 1 |-> Load(u.from, u.at + i, leftover)])
          ELSE Start([i \in 0..u.n - 1 |-> Load(u.from, u.at + i, leftover)], u.n, u.at % 16)
  BY DEF HashUpdate
<1>. HIDE DEF u
<1>4. u.at % 16 \in 0..15
  <2>1. u.at \in Nat
    BY <1>2 DEF Calls
  <2>. QED  BY <2>1
<1>5. Given(u, leftover) \in Data(u.n)
  BY <1>1, <1>2, GivenType DEF TypedInv
<1>6. \/ u.n = 1 /\ UpdateByte(Given(u, leftover))
      \/ u.at % 16 \in 0..15 /\ Start(Given(u, leftover), u.n, u.at % 16)
  <2>1. Given(u, leftover) = [i \in 0..u.n - 1 |-> Load(u.from, u.at + i, leftover)]
    BY DEF Given
  <2>. QED  BY <1>3, <1>4, <2>1
<1>. QED  BY <1>1, <1>2, <1>5, <1>6 DEF u

LEMMA NextHash ==
  ASSUME FitInv, TypedInv, [Next]_vars
  PROVE  HInv'
<1>0. HInv
  BY DEF TypedInv
<1>1. CASE HashStarts
  BY <1>0, <1>1, HashInitInv DEF HashStarts
<1>2. CASE HashUpdate
  <2>. DEFINE u == updates[1]
  <2>1. u \in Calls
    BY <1>2, OneCall
  <2>2. PICK leftover \in Leftover :
          /\ Given(u, leftover) \in Data(u.n)
          /\ \/ u.n = 1 /\ UpdateByte(Given(u, leftover))
             \/ u.at % 16 \in 0..15 /\ Start(Given(u, leftover), u.n, u.at % 16)
    BY <1>2, OneCall
  <2>. HIDE DEF u
  <2>3. u.n \in Nat \ {0}
    BY <2>1 DEF Calls
  <2>4. CASE u.n = 1 /\ UpdateByte(Given(u, leftover))
    BY <1>0, <2>2, <2>4, UpdateByteInv
  <2>5. CASE u.at % 16 \in 0..15 /\ Start(Given(u, leftover), u.n, u.at % 16)
    BY <1>0, <2>2, <2>3, <2>5, StartInv
  <2>. QED  BY <2>2, <2>4, <2>5
<1>3. CASE HashGoesOn
  <2>1. HashStep
    BY <1>3 DEF HashGoesOn
  <2>. QED  BY <1>0, <2>1, PeelBytesInv, StartBlockInv, EndBlocksInv, AccumulateInv,
               ReduceInv, TailByteInv, ReturnInv DEF HashStep
<1>4. CASE ~(HashStarts \/ HashUpdate \/ HashGoesOn)
  <2>1. UNCHANGED hashVars
    BY <1>4 DEF Next, vars, TakePicture, KeepImage, NewOwnImage, ConvertExits, StartCopies,
                FillCache, DrainCache, CopiesDone, ConvertByLibyuv, CopyInternal, Unsupported,
                HashRefused, Report, Terminated
  <2>. QED  BY <1>0, <2>1, HashStutterInv
<1>. QED  BY <1>1, <1>2, <1>3, <1>4

LEMMA WriteBytes ==
  ASSUME ByteInv, NEW bytes, Write(bytes), \A a \in DOMAIN bytes : bytes[a] \in UInt8
  PROVE  ByteInv'
BY DEF ByteInv, Write

LEMMA NextBytes ==
  ASSUME FitInv, HoldInv, ByteInv, [Next]_vars
  PROVE  ByteInv'
<1>1. CASE DrainCache
  <2>. DEFINE copy == copies[1]
  <2>0. stage = "copy" /\ copies # <<>> /\ Write(Drained(copy))
    BY <1>1 DEF DrainCache
  <2>1. Picture0 \in Pictures
    BY <2>0, StreamPictures DEF FitInv, Handling
  <2>2. ASSUME NEW a \in DOMAIN Drained(copy)
        PROVE  Drained(copy)[a] \in UInt8
    <3>1. PICK t \in 1..Len(copy.to), row \in 0..Band(copy) - 1, x \in 0..copy.width - 1 :
            Drained(copy)[a]
              = SourceByte(Picture0, RowAddress(copy, row) + (Len(copy.to) * x + t - 1))
      BY <1>1, DrainedCells
    <3>2. /\ Band(copy) \in Nat \ {0} /\ Len(copy.to) \in Nat /\ copy.width \in Nat
      BY <2>0, CopyPlace
    <3>3. t \in Nat /\ row \in Nat /\ x \in Nat
      BY <3>2
    <3>4. RowAddress(copy, row) \in Nat
      BY <2>0, <3>3, RowAddressType
    <3>5. Len(copy.to) * x \in Nat
      BY <3>2, <3>3, Products
    <3>. DEFINE r == RowAddress(copy, row)
                z == Len(copy.to) * x
    <3>6. r \in Nat /\ z \in Nat
      BY <3>4, <3>5
    <3>. HIDE DEF r, z
    <3>7. r + (z + t - 1) \in Int
      BY <3>3, <3>6
    <3>8. SourceByte(Picture0, r + (z + t - 1)) \in UInt8
      BY <2>1, <3>7, SourceByteType
    <3>. QED  BY <3>1, <3>8 DEF r, z
  <2>. QED  BY <2>0, <2>2, WriteBytes
<1>2. CASE ConvertByLibyuv
  <2>1. stage = "convert" /\ Write(Converted)
    BY <1>2 DEF ConvertByLibyuv
  <2>2. /\ Picture0 \in Pictures /\ image = View(Picture0) /\ Croppable(Picture0)
        /\ image.format = Picture0.format
    BY <2>1, StreamPictures, ImageFields DEF FitInv, Handling, PlaceInv
  <2>3. image.format \in {"NV12", "I420"}
    BY <1>2 DEF ConvertByLibyuv, UswcCopy
  <2>4. IsYuv(Picture0.format) /\ ComponentsOf(Picture0.format) = 1..3
    BY <2>2, <2>3, TableOfI420, TableOfNV12 DEF IsYuv, VideoFormatInfo, Info
  <2>5. ASSUME NEW a \in DOMAIN Converted
        PROVE  Converted[a] \in UInt8
    <3>1. PICK i \in 1..3, x \in Nat, y \in Nat :
            Converted[a] = SourceByte(Picture0, ComponentAddress(image, i, x, y))
      BY <1>2, ConvertRight
    <3>2. ComponentAddress(image, i, x, y) \in Nat
      <4>1. i \in ComponentsOf(Picture0.format) /\ i <= 3
        BY <2>4
      <4>2. ComponentAddress(View(Picture0), i, x, y) \in Nat
        BY <2>2, <2>4, <4>1, ViewComponent
      <4>. QED  BY <2>2, <4>2
    <3>. QED  BY <2>2, <3>1, <3>2, SourceByteType
  <2>. QED  BY <2>1, <2>5, WriteBytes
<1>3. CASE CopyInternal
  <2>1. stage = "convert" /\ Write(CopiedPlanes)
    BY <1>3 DEF CopyInternal
  <2>2. Picture0 \in Pictures
    BY <2>1, StreamPictures DEF FitInv, Handling
  <2>3. ASSUME NEW a \in DOMAIN CopiedPlanes
        PROVE  CopiedPlanes[a] \in UInt8
    <3>1. PICK z \in Nat : CopiedPlanes[a] = SourceByte(Picture0, z)
      BY <1>3, PlanesCopied
    <3>. QED  BY <2>2, <3>1, SourceByteType
  <2>. QED  BY <2>1, <2>3, WriteBytes
<1>4. CASE NewOwnImage
  BY <1>4 DEF NewOwnImage, ByteInv
<1>5. CASE ~(DrainCache \/ ConvertByLibyuv \/ CopyInternal \/ NewOwnImage)
  <2>1. memory' = memory
    BY <1>5 DEF Next, vars, TakePicture, KeepImage, ConvertExits, StartCopies,
                FillCache, CopiesDone, Unsupported, HashStarts, HashUpdate, HashGoesOn,
                HashRefused, Report, Terminated
  <2>. QED  BY <2>1 DEF ByteInv
<1>. QED  BY <1>1, <1>2, <1>3, <1>4, <1>5

LEMMA NextCalls ==
  ASSUME FitInv, TypedInv, [Next]_vars
  PROVE  CallsInv'
<1>1. SUFFICES ASSUME stage' = "update"
               PROVE  updates' \in Seq(Calls) /\ IsYuv(Hashed'.format)
  BY DEF CallsInv
<1>2. UNCHANGED <<path, image, own>> \/ stage' # "update"
  BY DEF Next, vars, pathVars, TakePicture, Refuse, Exit, KeepImage, NewOwnImage, ConvertExits,
         StartCopies, FillCache, DrainCache, CopiesDone, ConvertByLibyuv, CopyInternal,
         Unsupported, HashStarts, HashUpdate, HashGoesOn, HashRefused, Report, Terminated
<1>3. Hashed' = Hashed
  BY <1>1, <1>2 DEF Hashed, InHardware
<1>4. CASE HashStarts
  <2>1. stage = "hash" /\ IsYuv(Hashed.format) /\ updates' = Updates
    BY <1>4 DEF HashStarts
  <2>. QED  BY <1>3, <2>1, UpdatesType
<1>5. CASE ~HashStarts
  <2>1. stage = "update" /\ (updates' = updates \/ (updates' = Tail(updates) /\ updates # <<>>))
    BY <1>1, <1>5 DEF Next, vars, pathVars, TakePicture, Refuse, Exit, KeepImage, NewOwnImage,
         ConvertExits, StartCopies, FillCache, DrainCache, CopiesDone, ConvertByLibyuv,
         CopyInternal, Unsupported, HashUpdate, HashGoesOn, HashRefused, Report, Terminated
  <2>2. updates \in Seq(Calls) /\ IsYuv(Hashed.format)
    BY <2>1 DEF TypedInv, CallsInv
  <2>. QED  BY <1>3, <2>1, <2>2
<1>. QED  BY <1>4, <1>5

LEMMA NextTyped ==
  ASSUME FitInv, HoldInv, TypedInv, [Next]_vars
  PROVE  TypedInv'
BY NextHash, NextBytes, NextCalls DEF TypedInv

LEMMA InitTyped == Init => TypedInv
<1>. SUFFICES ASSUME Init PROVE TypedInv
  OBVIOUS
<1>1. HashReady /\ memory = <<>> /\ stage = "next"
  BY DEF Init
<1>. QED  BY <1>1, ReadyInv DEF TypedInv, ByteInv, CallsInv

(* The calls of us, one after the other, are given the bytes b; starts has *)
(* how many of them come before.                                           *)
Reading(us, b, starts) ==
  /\ starts \in [0..Len(us) -> 0..Len(b)]
  /\ starts[0] = 0 /\ starts[Len(us)] = Len(b)
  /\ \A j \in 1..Len(us) :
       /\ starts[j] = starts[j - 1] + us[j].n
       /\ \A leftover \in Leftover :
            Reads(Given(us[j], leftover), 0, b, starts[j - 1], us[j].n)

(* The calls of us are given just the bytes b.                             *)
Spells(us, b) == \E starts : Reading(us, b, starts)

(* Calls that spell b and calls that spell c spell b and c together.       *)
LEMMA SpellsBoth ==
  ASSUME NEW us \in Seq(Calls), NEW b \in Seq(UInt8), Spells(us, b),
         NEW vs \in Seq(Calls), NEW c \in Seq(UInt8), Spells(vs, c)
  PROVE  Spells(us \o vs, b \o c)
<1>1. PICK s1 : Reading(us, b, s1)
  BY DEF Spells
<1>2. PICK t1 : Reading(vs, c, t1)
  BY DEF Spells
<1>. DEFINE l == Len(us)
            k == Len(vs)
            p == Len(b)
            q == Len(c)
            r == [j \in 0..l + k |-> IF j <= l THEN s1[j] ELSE p + t1[j - l]]
<1>3. /\ l \in Nat /\ k \in Nat /\ p \in Nat /\ q \in Nat
      /\ Len(us \o vs) = l + k /\ Len(b \o c) = p + q
      /\ \A j \in 1..l : (us \o vs)[j] = us[j] /\ us[j] \in Calls
      /\ \A j \in 1..k : (us \o vs)[l + j] = vs[j] /\ vs[j] \in Calls
      /\ \A i \in 1..p : (b \o c)[i] = b[i]
      /\ \A i \in 1..q : (b \o c)[p + i] = c[i]
  OBVIOUS
<1>4. /\ \A j \in 0..l : s1[j] \in 0..p
      /\ s1[0] = 0 /\ s1[l] = p
      /\ \A j \in 1..l : s1[j] = s1[j - 1] + us[j].n
      /\ \A j \in 1..l, leftover \in Leftover :
           Reads(Given(us[j], leftover), 0, b, s1[j - 1], us[j].n)
  BY <1>1 DEF Reading
<1>5. /\ \A j \in 0..k : t1[j] \in 0..q
      /\ t1[0] = 0 /\ t1[k] = q
      /\ \A j \in 1..k : t1[j] = t1[j - 1] + vs[j].n
      /\ \A j \in 1..k, leftover \in Leftover :
           Reads(Given(vs[j], leftover), 0, c, t1[j - 1], vs[j].n)
  BY <1>2 DEF Reading
<1>. DEFINE w == us \o vs
            d == b \o c
<1>. HIDE DEF l, k, p, q, w, d
<1>33. l \in Nat /\ k \in Nat /\ p \in Nat /\ q \in Nat
  BY <1>3
<1>6. \A j \in 0..l : r[j] = s1[j]
  BY <1>3
<1>7. \A j \in 0..k : r[l + j] = p + t1[j]
  <2>1. SUFFICES ASSUME NEW j \in 0..k PROVE r[l + j] = p + t1[j]
    OBVIOUS
  <2>2. CASE j = 0
    BY <1>3, <1>4, <1>5, <2>2
  <2>3. CASE j # 0
    BY <1>3, <2>3, SMTT(30)
  <2>. QED  BY <2>2, <2>3
<1>8. r \in [0..l + k -> 0..p + q]
  <2>1. SUFFICES ASSUME NEW j \in 0..l + k
                 PROVE  (IF j <= l THEN s1[j] ELSE p + t1[j - l]) \in 0..p + q
    OBVIOUS
  <2>2. CASE j <= l
    BY <1>3, <1>4, <2>2
  <2>3. CASE ~(j <= l)
    <3>1. j - l \in 0..k
      BY <1>3, <2>3
    <3>2. t1[j - l] \in 0..q
      BY <1>5, <3>1
    <3>3. p + t1[j - l] \in 0..p + q
      BY <1>33, <3>2
    <3>. QED  BY <2>3, <3>3
  <2>. QED  BY <2>2, <2>3
<1>9. r[0] = 0 /\ r[l + k] = p + q
  <2>1. 0 \in 0..l /\ k \in 0..k
    BY <1>33
  <2>. HIDE DEF r
  <2>2. r[0] = s1[0] /\ r[l + k] = p + t1[k]
    BY <1>6, <1>7, <2>1
  <2>. QED  BY <1>4, <1>5, <2>2
<1>. HIDE DEF r
<1>10. ASSUME NEW j \in 1..l + k
       PROVE  /\ r[j] = r[j - 1] + w[j].n
              /\ \A leftover \in Leftover : Reads(Given(w[j], leftover), 0, d, r[j - 1], w[j].n)
  <2>1. CASE j <= l
    <3>1. j \in 1..l /\ j \in 0..l /\ j - 1 \in 0..l
      BY <1>3, <2>1
    <3>2. w[j] = us[j] /\ r[j] = s1[j] /\ r[j - 1] = s1[j - 1] /\ us[j].n \in Nat
      BY <1>3, <1>6, <3>1 DEF w, Calls
    <3>3. r[j] = r[j - 1] + w[j].n
      BY <1>4, <3>1, <3>2
    <3>4. ASSUME NEW leftover \in Leftover, NEW i \in 0..us[j].n - 1
          PROVE  Given(us[j], leftover)[0 + i] = d[s1[j - 1] + i + 1]
      <4>1. Given(us[j], leftover)[0 + i] = b[s1[j - 1] + i + 1]
        BY <1>4, <3>1 DEF Reads
      <4>2. s1[j - 1] \in Nat /\ s1[j] = s1[j - 1] + us[j].n /\ s1[j] <= p
        BY <1>3, <1>4, <3>1, SMTT(30)
      <4>3. s1[j - 1] + i + 1 \in 1..p
        <5>. DEFINE z == s1[j - 1]
                    n == us[j].n
        <5>1. z \in Nat /\ z + n <= p /\ n \in Nat /\ i \in 0..n - 1
          BY <3>2, <4>2
        <5>. HIDE DEF z, n
        <5>2. z + i + 1 \in 1..p
          BY <1>33, <5>1
        <5>. QED  BY <5>2 DEF z
      <4>. QED  BY <1>3, <4>1, <4>3 DEF d
    <3>. QED  BY <3>2, <3>3, <3>4 DEF Reads
  <2>2. CASE ~(j <= l)
    <3>. DEFINE m == j - l
    <3>1. m \in 1..k /\ m \in 0..k /\ m - 1 \in 0..k /\ j = l + m /\ j - 1 = l + (m - 1)
      BY <1>33, <2>2
    <3>. HIDE DEF m
    <3>2. w[j] = vs[m] /\ r[j] = p + t1[m] /\ r[j - 1] = p + t1[m - 1] /\ vs[m].n \in Nat
      BY <1>3, <1>7, <3>1 DEF w, Calls
    <3>3. t1[m - 1] \in Nat /\ t1[m] = t1[m - 1] + vs[m].n /\ t1[m] <= q
      BY <1>3, <1>5, <3>1, SMTT(30)
    <3>4. r[j] = r[j - 1] + w[j].n
      BY <1>3, <3>2, <3>3, SMTT(30)
    <3>5. ASSUME NEW leftover \in Leftover, NEW i \in 0..vs[m].n - 1
          PROVE  Given(vs[m], leftover)[0 + i] = d[(p + t1[m - 1]) + i + 1]
      <4>1. Given(vs[m], leftover)[0 + i] = c[t1[m - 1] + i + 1]
        BY <1>5, <3>1 DEF Reads
      <4>. DEFINE z == t1[m - 1]
                  n == vs[m].n
      <4>0. z \in Nat /\ z + n <= q /\ n \in Nat /\ i \in 0..n - 1
        BY <3>2, <3>3
      <4>2. t1[m - 1] + i + 1 \in 1..q
        <5>. HIDE DEF z, n
        <5>1. z + i + 1 \in 1..q
          BY <1>33, <4>0
        <5>. QED  BY <5>1 DEF z
      <4>3. d[p + (t1[m - 1] + i + 1)] = c[t1[m - 1] + i + 1]
        BY <1>3, <4>2 DEF d
      <4>4. p + (t1[m - 1] + i + 1) = (p + t1[m - 1]) + i + 1
        <5>. HIDE DEF z, n
        <5>1. p + (z + i + 1) = (p + z) + i + 1
          BY <1>33, <4>0
        <5>. QED  BY <5>1 DEF z
      <4>. QED  BY <4>1, <4>3, <4>4
    <3>. QED  BY <3>2, <3>4, <3>5 DEF Reads
  <2>. QED  BY <2>1, <2>2
<1>11. Len(w) = l + k /\ Len(d) = p + q
  BY <1>3 DEF w, d
<1>12. Reading(w, d, r)
  BY <1>8, <1>9, <1>10, <1>11 DEF Reading
<1>. QED  BY <1>12 DEF Spells, w, d

(* Calls that are all given as many bytes.                                 *)
LEMMA SpellsAlike ==
  ASSUME NEW k \in Nat, NEW size \in Nat, NEW us \in [1..k -> Calls],
         NEW b \in [1..k * size -> UInt8],
         \A j \in 1..k : us[j].n = size,
         \A j \in 1..k, i \in 0..size - 1, leftover \in Leftover :
           Load(us[j].from, us[j].at + i, leftover) = b[(j - 1) * size + i + 1]
  PROVE  Spells(us, b)
<1>. DEFINE r == [j \in 0..k |-> j * size]
<1>0. k * size \in Nat
  BY Products
<1>1. Len(us) = k /\ Len(b) = k * size
  BY <1>0
<1>2. \A j \in 0..k : j * size \in 0..k * size
  <2>1. SUFFICES ASSUME NEW j \in 0..k PROVE j * size \in 0..k * size
    OBVIOUS
  <2>2. PICK i \in Nat : k = j + i
    <3>1. k - j \in Nat /\ k = j + (k - j)
      OBVIOUS
    <3>. QED  BY <3>1
  <2>3. j \in Nat /\ j * size \in Nat /\ i * size \in Nat
    BY Products
  <2>4. k * size = j * size + i * size
    BY <2>2, <2>3
  <2>. QED  BY <2>3, <2>4
<1>3. r \in [0..k -> 0..k * size]
  BY <1>2
<1>4. r[0] = 0 /\ r[k] = k * size
  OBVIOUS
<1>5. ASSUME NEW j \in 1..k
      PROVE  /\ r[j] = r[j - 1] + us[j].n
             /\ \A leftover \in Leftover : Reads(Given(us[j], leftover), 0, b, r[j - 1], us[j].n)
  <2>1. r[j - 1] = (j - 1) * size /\ r[j] = j * size /\ us[j].n = size
    OBVIOUS
  <2>2. j * size = (j - 1) * size + size
    OBVIOUS
  <2>. HIDE DEF r
  <2>3. ASSUME NEW leftover \in Leftover, NEW i \in 0..size - 1
        PROVE  Given(us[j], leftover)[0 + i] = b[(j - 1) * size + i + 1]
    <3>1. 0 + i = i /\ i \in 0..us[j].n - 1
      BY <2>1
    <3>2. Given(us[j], leftover)[i] = Load(us[j].from, us[j].at + i, leftover)
      BY <3>1 DEF Given
    <3>. QED  BY <3>1, <3>2
  <2>. QED  BY <2>1, <2>2, <2>3 DEF Reads
<1>6. Reading(us, b, r)
  <2>. HIDE DEF r
  <2>. QED  BY <1>1, <1>3, <1>4, <1>5 DEF Reading
<1>. QED  BY <1>6 DEF Spells

(* The image that is hashed.                                               *)
Source == IF InHardware THEN "own" ELSE "surface"

LEMMA OwnKnown ==
  ASSUME FitInv, HistoryInv, stage \in {"hash", "update"}, InHardware, Supported(Picture0)
  PROVE  /\ own.format \in {"I420", "Y800"}
         /\ own.format = "Y800" <=> Picture0.format = "Y800"
         /\ Picture0.format \in {"I420", "NV12", "Y800"}
<1>1. /\ own # NoImage /\ Chroma(own.format) = Chroma(Picture0.format)
      /\ path = "ffmpeg_vaapi" => own.format = "I420"
  BY ImageFields DEF FitInv, OwnInv, SizeKept, Handling
<1>2. /\ Chroma("I420") = "420" /\ Chroma("NV12") = "420" /\ Chroma("Y800") = "400"
  BY DEF Chroma, VideoFormatInfo, Info
<1>3. \/ Picture0.format \in {"NV12", "I420"}
      \/ path = "gst_vaapi" /\ Picture0.format = "Y800"
  BY DEF Supported
<1>4. CASE path = "ffmpeg_vaapi"
  BY <1>1, <1>2, <1>3, <1>4
<1>5. CASE path # "ffmpeg_vaapi"
  <2>1. path = "gst_vaapi"
    BY <1>5 DEF InHardware
  <2>2. PICK m \in 1..Handled : MadeFor(m, Handled)
    BY <1>1, <2>1 DEF HistoryInv, MadeForSome
  <2>3. /\ Chroma(own.format) = "420" => own.format = "I420"
        /\ Chroma(own.format) = "400" => own.format = "Y800"
    BY <2>2, HistoryFormat
  <2>. QED  BY <1>1, <1>2, <1>3, <2>3
<1>. QED  BY <1>4, <1>5

LEMMA SampleSizes ==
  /\ BytesPerSample("I420") = 1 /\ BytesPerSample("NV12") = 1 /\ BytesPerSample("Y800") = 1
  /\ IsYuv("I420") /\ IsYuv("Y800") /\ "Y800" \in VideoFormats
  /\ ComponentsOf("Y800") = 1..1 /\ Components("Y800")[1] = Component(0, 0, 1)
  /\ Components("I420")[1] = Component(0, 0, 1)
  /\ Components("I420")[2] = Component(1, 0, 1) /\ Components("I420")[3] = Component(2, 0, 1)
BY DEF BytesPerSample, IsYuv, VideoFormatInfo, Info, VideoFormats, ComponentsOf, Components,
       ComponentTable, Component, Planar

(* A picture that is supported is hashed sample by sample as it was        *)
(* decoded.                                                                *)
LEMMA HashedSamples ==
  ASSUME FitInv, HistoryInv, ArrivedInv, stage \in {"hash", "update"}, Supported(Picture0)
  PROVE  /\ Picture0 \in Pictures /\ IsYuv(Hashed.format)
         /\ BytesPerSample(Hashed.format) = BytesPerSample(Picture0.format)
         /\ VideoFormatInfo[Hashed.format].components = 1 <=> Picture0.format = "Y800"
         /\ VideoFormatInfo[Picture0.format].components = 1 <=> Picture0.format = "Y800"
         /\ Hashed.format \in VideoFormats
         /\ \A i \in ComponentsOf(Picture0.format) : i <= 3 =>
              /\ i \in ComponentsOf(Hashed.format)
              /\ SamplesAcross(Hashed, i) = ShownAcross(Picture0, i)
              /\ SamplesDown(Hashed, i) = ShownDown(Picture0, i)
              /\ \A x \in 0..ShownAcross(Picture0, i) - 1, y \in 0..ShownDown(Picture0, i) - 1,
                    r \in 0..BytesPerSample(Picture0.format) - 1, leftover \in Leftover :
                   Load(Source, ComponentAddress(Hashed, i, x, y) + r, leftover)
                     = SourceByte(Picture0, ComponentAddress(View(Picture0), i, x, y) + r)
<1>1. /\ Handling /\ Picture0 \in Pictures /\ image = View(Picture0) /\ Croppable(Picture0)
      /\ Picture0.format \in VideoFormats /\ IsYuv(Picture0.format)
      /\ image.format = Picture0.format
  BY StreamPictures, ImageFields DEF FitInv, Handling, PlaceInv, Supported
<1>2. CASE ~InHardware
  <2>1. Hashed = image /\ Source = "surface"
    BY <1>2 DEF Hashed, Source
  <2>2. VideoFormatInfo[Picture0.format].components = 1 <=> Picture0.format = "Y800"
    <3>1. VideoFormatInfo["Y800"].components = 1
      BY DEF VideoFormatInfo, Info
    <3>. QED  BY <1>1, <3>1, FormatTable
  <2>3. ASSUME NEW i, NEW x, NEW y, NEW r, NEW leftover
        PROVE  Load(Source, ComponentAddress(Hashed, i, x, y) + r, leftover)
                 = SourceByte(Picture0, ComponentAddress(View(Picture0), i, x, y) + r)
    BY <1>1, <2>1 DEF Load
  <2>. QED  BY <1>1, <2>1, <2>2, <2>3, ShownCounts
<1>3. CASE InHardware
  <2>1. Hashed = own /\ Source = "own"
    BY <1>3 DEF Hashed, Source
  <2>2. /\ own.format \in {"I420", "Y800"}
        /\ own.format = "Y800" <=> Picture0.format = "Y800"
        /\ Picture0.format \in {"I420", "NV12", "Y800"}
    BY <1>3, OwnKnown
  <2>3. /\ VideoFormatInfo["I420"].components = 3 /\ VideoFormatInfo["NV12"].components = 3
        /\ VideoFormatInfo["Y800"].components = 1
    BY DEF VideoFormatInfo, Info
  <2>4. /\ own.width = Picture0.rect.width /\ own.height = Picture0.rect.height
    BY <1>1, <1>3, ImageFields DEF FitInv, OwnInv, SizeKept
  <2>5. ASSUME NEW i \in ComponentsOf(Picture0.format), i <= 3
        PROVE  /\ i \in ComponentsOf(own.format)
               /\ SamplesAcross(own, i) = ShownAcross(Picture0, i)
               /\ SamplesDown(own, i) = ShownDown(Picture0, i)
    <3>1. i \in ComponentsOf(own.format) /\ (own.format = "Y800" => i = 1)
      BY <2>2, <2>5, SampleSizes, TableOfI420, TableOfNV12
    <3>2. i # 1 => /\ WidthShift(own.format) = WidthShift(Picture0.format)
                   /\ HeightShift(own.format) = HeightShift(Picture0.format)
      BY <2>2, <3>1, TableOfI420, TableOfNV12
    <3>. QED  BY <2>4, <3>1, <3>2 DEF SamplesAcross, SamplesDown, ShownAcross, ShownDown
  <2>6. BytesPerSample(own.format) = 1 /\ BytesPerSample(Picture0.format) = 1 /\ IsYuv(own.format)
    BY <2>2, SampleSizes
  <2>7. ASSUME NEW i \in ComponentsOf(Picture0.format), i <= 3,
               NEW x \in 0..ShownAcross(Picture0, i) - 1, NEW y \in 0..ShownDown(Picture0, i) - 1,
               NEW r \in 0..BytesPerSample(Picture0.format) - 1, NEW leftover
        PROVE  Load(Source, ComponentAddress(Hashed, i, x, y) + r, leftover)
                 = SourceByte(Picture0, ComponentAddress(View(Picture0), i, x, y) + r)
    <3>. DEFINE a == ComponentAddress(own, i, x, y)
                z == ComponentAddress(image, i, x, y)
    <3>1. AllArrived
      BY <1>3, <2>2 DEF ArrivedInv
    <3>2. Arrived(i, x, y)
      BY <2>5, <2>7, <3>1 DEF AllArrived
    <3>3. a \in DOMAIN memory /\ memory[a] = SourceByte(Picture0, z)
      BY <3>2 DEF Arrived
    <3>4. r = 0
      BY <2>6
    <3>5. a \in Nat /\ z \in Nat
      <4>1. ShownAcross(Picture0, i) \in Nat /\ ShownDown(Picture0, i) \in Nat
        BY <1>1, ShownCounts
      <4>2. x \in Nat /\ y \in Nat
        BY <4>1
      <4>3. z \in Nat
        BY <1>1, <2>7, <4>2, ViewComponent
      <4>4. a \in Nat
        BY <2>1, <2>5, <2>6, <2>7, <4>2, HashedPlace
      <4>. QED  BY <4>3, <4>4
    <3>. HIDE DEF a, z
    <3>6. a + r = a /\ z + r = z
      BY <3>4, <3>5
    <3>7. Load("own", a + r, leftover) = SourceByte(Picture0, z + r)
      BY <3>3, <3>6 DEF Load
    <3>. QED  BY <1>1, <2>1, <3>7 DEF a, z
  <2>8. /\ VideoFormatInfo[own.format].components = 1 <=> Picture0.format = "Y800"
        /\ VideoFormatInfo[Picture0.format].components = 1 <=> Picture0.format = "Y800"
        /\ own.format \in VideoFormats
    BY <2>2, <2>3, SampleSizes, TableOfI420
  <2>. QED  BY <1>1, <2>1, <2>5, <2>6, <2>7, <2>8
<1>. QED  BY <1>2, <1>3

LEMMA DivideBack ==
  ASSUME NEW w \in Nat \ {0}, NEW q \in Nat
  PROVE  /\ q = (q \div w) * w + (q % w)
         /\ q \div w \in Nat /\ q % w \in 0..w - 1
OBVIOUS

LEMMA QuotientBelow ==
  ASSUME NEW w \in Nat \ {0}, NEW d \in Nat, NEW q \in Nat, q < w * d
  PROVE  q \div w < d
<1>1. q = (q \div w) * w + (q % w) /\ q \div w \in Nat /\ q % w \in Nat
  BY DivideBack
<1>. SUFFICES ASSUME ~(q \div w < d) PROVE FALSE
  OBVIOUS
<1>. DEFINE z == q \div w
<1>2. z \in Nat /\ z >= d
  BY <1>1
<1>3. PICK e \in Nat : z = d + e
  <2>1. z - d \in Nat /\ z = d + (z - d)
    BY <1>2
  <2>. QED  BY <2>1
<1>4. q = z * w + (q % w)
  BY <1>1
<1>. HIDE DEF z
<1>5. z * w = w * d + e * w
  BY <1>3
<1>6. e * w \in Nat /\ w * d \in Nat
  BY <1>3, Products
<1>. QED  BY <1>1, <1>4, <1>5, <1>6

(* The calls for a component spell its visible samples.                    *)
LEMMA ComponentSpelled ==
  ASSUME FitInv, HistoryInv, ArrivedInv, stage \in {"hash", "update"}, Supported(Picture0),
         NEW i \in ComponentsOf(Picture0.format), i <= 3
  PROVE  /\ ComponentUpdates(Source, i) \in Seq(Calls)
         /\ ShownBytes(Picture0, i) \in Seq(UInt8)
         /\ Spells(ComponentUpdates(Source, i), ShownBytes(Picture0, i))
<1>. DEFINE n == BytesPerSample(Picture0.format)
            across == ShownAcross(Picture0, i)
            down == ShownDown(Picture0, i)
            line0 == ShownRow(Picture0, i)
            at(x, y) == ComponentAddress(Hashed, i, x, y)
            place(x, y) == ComponentAddress(View(Picture0), i, x, y)
            b == ShownBytes(Picture0, i)
            st == Components(Hashed.format)[i].stride
            rows == [y \in 1..down |-> Update(Source, at(0, y - 1), across * n)]
            samples == [k \in 1..across * down |->
                          Update(Source, at((k - 1) % across, (k - 1) \div across), n)]
<1>1. /\ Picture0 \in Pictures /\ IsYuv(Hashed.format) /\ Hashed.format \in VideoFormats
      /\ BytesPerSample(Hashed.format) = n
      /\ i \in ComponentsOf(Hashed.format)
      /\ SamplesAcross(Hashed, i) = across /\ SamplesDown(Hashed, i) = down
  BY HashedSamples
<1>2. \A x \in 0..across - 1, y \in 0..down - 1, r \in 0..n - 1, leftover \in Leftover :
        Load(Source, at(x, y) + r, leftover) = SourceByte(Picture0, place(x, y) + r)
  BY HashedSamples
<1>3. /\ across \in Nat \ {0} /\ down \in Nat \ {0} /\ line0 \in Nat \ {0} /\ n \in {1, 2}
      /\ line0 = n * across /\ (n = 1 => line0 = across)
  BY <1>1, ShownCounts DEF ShownRow
<1>4. /\ b \in [1..line0 * down -> UInt8]
      /\ \A row \in 0..down - 1, k \in 0..line0 - 1 :
           b[row * line0 + k + 1] = SourceByte(Picture0, place(k \div n, row) + (k % n))
  BY <1>1, ShownSamples DEF Supported
<1>5. ComponentUpdates(Source, i) = IF st = n THEN rows ELSE samples
  BY <1>1 DEF ComponentUpdates
<1>6. ComponentUpdates(Source, i) \in Seq(Calls)
  BY <1>1, ComponentCalls DEF Source
<1>7. line0 * down \in Nat /\ down * line0 = line0 * down /\ across * down \in Nat
      /\ across * n = line0
  <2>1. \A p, q \in Nat : p * q = q * p
    OBVIOUS
  <2>. HIDE DEF n, across, down, line0
  <2>. QED  BY <1>3, <2>1, Products
<1>8. b \in Seq(UInt8)
  <2>. HIDE DEF b, line0, down
  <2>. QED  BY <1>4, <1>7, ListOf
<1>9. \A x, y \in Nat : at(x, y) \in Nat
  BY <1>1, HashedPlace
<1>10. CASE st = n
  <2>1. \A x, y \in Nat : at(x, y) = at(0, y) + x * n
    <3>. DEFINE c == Components(Hashed.format)[i]
                start == Hashed.pixels[c.plane]
                pitch == Hashed.pitches[c.plane]
    <3>1. \A x, y : at(x, y) = start + y * pitch + x * n + c.offset
      BY <1>10 DEF ComponentAddress
    <3>2. c.offset = 0 /\ c.plane \in Planes(Hashed.format)
      BY <1>1, <1>10, FormatTable DEF GoodComponent
    <3>3. start \in Nat /\ pitch \in Nat
      BY <1>1, <3>2, HashedPlace
    <3>4. SUFFICES ASSUME NEW x \in Nat, NEW y \in Nat PROVE at(x, y) = at(0, y) + x * n
      OBVIOUS
    <3>5. y * pitch \in Nat /\ x * n \in Nat
      BY <1>3, <3>3, Products
    <3>. DEFINE z == start + y * pitch
                v == x * n
    <3>6. z \in Nat /\ v \in Nat
      BY <3>3, <3>5
    <3>7. at(x, y) = z + v + 0 /\ at(0, y) = z + 0 * n + 0
      BY <3>1, <3>2
    <3>. HIDE DEF at, z, v, n
    <3>8. at(x, y) = at(0, y) + v
      BY <1>3, <3>6, <3>7
    <3>. QED  BY <3>8 DEF v
  <2>2. ASSUME NEW j \in 1..down, NEW k \in 0..line0 - 1, NEW leftover \in Leftover
        PROVE  Load(Source, at(0, j - 1) + k, leftover) = b[(j - 1) * line0 + k + 1]
    <3>. DEFINE x == k \div n
                r == k % n
                row == j - 1
    <3>1. row \in 0..down - 1 /\ row \in Nat /\ k \in Nat
      BY <1>3
    <3>2. k = x * n + r /\ x \in Nat /\ r \in 0..n - 1 /\ r \in Nat
      BY <1>3, <3>1
    <3>3. x \in 0..across - 1
      <4>1. x < across
        BY <1>3, <3>1
      <4>. QED  BY <1>3, <3>2, <4>1
    <3>. HIDE DEF x, r, row
    <3>4. at(x, row) + r = at(0, row) + k
      <4>1. at(x, row) = at(0, row) + x * n /\ at(0, row) \in Nat /\ x * n \in Nat
        <5>. HIDE DEF at, n
        <5>0. n \in Nat /\ 0 \in Nat
          BY <1>3
        <5>. QED  BY <1>9, <2>1, <3>1, <3>2, <5>0, Products
      <4>. DEFINE v == x * n
                  z == at(0, row)
      <4>2. at(x, row) = z + v /\ z \in Nat /\ v \in Nat /\ k = v + r
        BY <3>2, <4>1
      <4>. HIDE DEF at, v, z
      <4>3. at(x, row) + r = z + k
        BY <3>2, <4>2
      <4>. QED  BY <4>3 DEF z
    <3>5. Load(Source, at(x, row) + r, leftover) = SourceByte(Picture0, place(x, row) + r)
      <4>. HIDE DEF at, place, n, across, down
      <4>. QED  BY <1>2, <3>1, <3>2, <3>3
    <3>6. b[row * line0 + k + 1] = SourceByte(Picture0, place(x, row) + r)
      BY <1>4, <3>1 DEF x, r
    <3>. QED  BY <3>4, <3>5, <3>6 DEF row
  <2>3. rows \in [1..down -> Calls]
    <3>1. rows = ComponentUpdates(Source, i)
      BY <1>5, <1>10
    <3>2. rows \in Seq(Calls) /\ Len(rows) = down
      <4>1. Len(rows) = down
        BY <1>3
      <4>. QED  BY <1>6, <3>1, <4>1
    <3>3. DOMAIN rows = 1..down
      OBVIOUS
    <3>. HIDE DEF rows
    <3>. QED  BY <3>2, <3>3
  <2>4. \A j \in 1..down : /\ rows[j].n = line0 /\ rows[j].from = Source
                            /\ rows[j].at = at(0, j - 1)
    BY <1>7 DEF Update
  <2>5. Spells(rows, b)
    <3>1. \A j \in 1..down, k \in 0..line0 - 1, leftover \in Leftover :
            Load(rows[j].from, rows[j].at + k, leftover) = b[(j - 1) * line0 + k + 1]
      <4>. HIDE DEF rows, at, b, line0, down
      <4>. QED  BY <2>2, <2>4
    <3>2. b \in [1..down * line0 -> UInt8]
      BY <1>4, <1>7
    <3>3. down \in Nat /\ line0 \in Nat /\ \A j \in 1..down : rows[j].n = line0
      BY <1>3, <2>4
    <3>. HIDE DEF rows, b, line0, down
    <3>. QED  BY <2>3, <3>1, <3>2, <3>3, SpellsAlike
  <2>. HIDE DEF rows, b
  <2>. QED  BY <1>5, <1>6, <1>8, <1>10, <2>5 DEF b
<1>11. CASE st # n
  <2>1. n = 1 /\ line0 = across
    <3>1. n = 1
      BY <1>1, <1>11, FormatTable DEF GoodComponent
    <3>. QED  BY <1>3, <3>1
  <2>. DEFINE cells == across * down
  <2>2. ASSUME NEW j \in 1..cells, NEW k \in 0..0, NEW leftover \in Leftover
        PROVE  Load(Source, at((j - 1) % across, (j - 1) \div across) + k, leftover)
                 = b[(j - 1) * 1 + k + 1]
    <3>. DEFINE q == j - 1
                x == q % across
                row == q \div across
    <3>1. q \in Nat /\ q < across * down /\ k = 0 /\ (j - 1) * 1 + k + 1 = q + 1
      <4>. HIDE DEF across, down
      <4>1. cells \in Nat
        BY <1>7
      <4>. HIDE DEF cells
      <4>2. j - 1 \in Nat /\ j - 1 < cells /\ k = 0 /\ (j - 1) * 1 + k + 1 = (j - 1) + 1
        BY <4>1
      <4>. QED  BY <4>2 DEF cells
    <3>. HIDE DEF q
    <3>2. q = row * across + x /\ x \in 0..across - 1 /\ row \in Nat /\ row < down
      <4>. HIDE DEF across, down
      <4>. QED  BY <1>3, <3>1, DivideBack, QuotientBelow
    <3>3. row \in 0..down - 1
      BY <1>3, <3>2
    <3>. HIDE DEF x, row
    <3>4. k \in 0..n - 1
      BY <2>1, <3>1
    <3>5. Load(Source, at(x, row) + k, leftover) = SourceByte(Picture0, place(x, row) + k)
      <4>. HIDE DEF at, place, n, across, down
      <4>. QED  BY <1>2, <3>2, <3>3, <3>4
    <3>6. b[row * line0 + x + 1] = SourceByte(Picture0, place(x \div n, row) + (x % n))
      <4>1. x \in 0..line0 - 1
        BY <2>1, <3>2
      <4>. HIDE DEF b, place, n, line0, down
      <4>. QED  BY <1>4, <3>3, <4>1
    <3>7. x \in Nat /\ x \div n = x /\ x % n = 0
      <4>1. x \in Nat
        BY <1>3, <3>2
      <4>. QED  BY <2>1, <4>1
    <3>8. row * line0 + x + 1 = q + 1
      BY <2>1, <3>2
    <3>. QED  BY <3>1, <3>5, <3>6, <3>7, <3>8 DEF x, row, q
  <2>3. samples \in [1..cells -> Calls]
    <3>1. samples = ComponentUpdates(Source, i)
      BY <1>5, <1>11
    <3>2. samples \in Seq(Calls) /\ Len(samples) = cells
      <4>1. Len(samples) = cells
        BY <1>7
      <4>. QED  BY <1>6, <3>1, <4>1
    <3>3. DOMAIN samples = 1..cells
      OBVIOUS
    <3>. HIDE DEF samples, cells
    <3>. QED  BY <3>2, <3>3
  <2>4. \A j \in 1..cells : /\ samples[j].n = 1 /\ samples[j].from = Source
                             /\ samples[j].at = at((j - 1) % across, (j - 1) \div across)
    BY <2>1 DEF Update
  <2>5. Spells(samples, b)
    <3>1. \A j \in 1..cells, k \in 0..1 - 1, leftover \in Leftover :
            Load(samples[j].from, samples[j].at + k, leftover) = b[(j - 1) * 1 + k + 1]
      <4>. HIDE DEF samples, at, b, cells, across
      <4>. QED  BY <2>2, <2>4
    <3>2. cells \in Nat /\ 1 \in Nat /\ cells * 1 = cells
      BY <1>7
    <3>3. b \in [1..cells * 1 -> UInt8]
      BY <1>4, <2>1, <3>2
    <3>. HIDE DEF samples, b, cells
    <3>. QED  BY <2>3, <2>4, <3>1, <3>2, <3>3, SpellsAlike
  <2>. HIDE DEF samples, b
  <2>. QED  BY <1>5, <1>6, <1>8, <1>11, <2>5 DEF b
<1>. QED  BY <1>6, <1>8, <1>10, <1>11

(* The calls for the gray chroma of a Y800 picture spell it.               *)
LEMMA GraySpelled ==
  ASSUME FitInv, stage \in {"hash", "update"}, IsYuv(Hashed.format)
  PROVE  LET gray == [k \in 1..2 * HalfUp(Picture0.rect.width) * HalfUp(Picture0.rect.height)
                        |-> 128]
         IN  /\ GrayUpdates \in Seq(Calls) /\ gray \in Seq(UInt8)
             /\ Spells(GrayUpdates, gray)
<1>. DEFINE w == HalfUp(Hashed.width)
            h == HalfUp(Hashed.height)
            count == 2 * h
            u == Update("gray", 0, w)
            gray == [k \in 1..2 * w * h |-> 128]
<1>1. /\ Hashed.width = Picture0.rect.width /\ Hashed.height = Picture0.rect.height
      /\ Hashed.width \in Nat \ {0} /\ Hashed.height \in Nat \ {0}
  BY HashedPlace
<1>2. w \in Nat \ {0} /\ h \in Nat \ {0}
  BY <1>1 DEF HalfUp
<1>3. GrayUpdates = [k \in 1..count |-> u]
  BY DEF GrayUpdates
<1>. HIDE DEF w, h
<1>4. count \in Nat /\ count * w = 2 * w * h /\ count * w \in Nat
  <2>1. w * h \in Nat /\ h * w = w * h
    <3>1. \A p, q \in Nat : p * q = q * p
      OBVIOUS
    <3>. QED  BY <1>2, <3>1, Products
  <2>2. (2 * h) * w = 2 * (h * w) /\ (2 * w) * h = 2 * (w * h)
    BY <1>2
  <2>. QED  BY <1>2, <2>1, <2>2
<1>5. u \in Calls /\ u.n = w /\ u.from = "gray" /\ u.at = 0
  BY <1>2 DEF Update, Calls
<1>. HIDE DEF u, count
<1>6. gray \in [1..count * w -> UInt8]
  BY <1>4 DEF UInt8
<1>7. GrayUpdates \in [1..count -> Calls]
  BY <1>3, <1>5
<1>8. GrayUpdates \in Seq(Calls) /\ gray \in Seq(UInt8)
  <2>. HIDE DEF gray
  <2>. QED  BY <1>4, <1>6, <1>7, ListOf
<1>9. \A j \in 1..count, i \in 0..w - 1, leftover \in Leftover :
        Load(GrayUpdates[j].from, GrayUpdates[j].at + i, leftover) = gray[(j - 1) * w + i + 1]
  <2>1. SUFFICES ASSUME NEW j \in 1..count, NEW i \in 0..w - 1, NEW leftover \in Leftover
                 PROVE  Load(GrayUpdates[j].from, GrayUpdates[j].at + i, leftover)
                          = gray[(j - 1) * w + i + 1]
    OBVIOUS
  <2>2. Load(GrayUpdates[j].from, GrayUpdates[j].at + i, leftover) = 128
    BY <1>3, <1>5 DEF Load
  <2>3. (j - 1) * w + i + 1 \in 1..count * w
    <3>1. j - 1 \in Nat /\ i \in Nat /\ i < w /\ j - 1 < count
      BY <1>2, <1>4
    <3>2. (j - 1) * w + i \in Nat /\ (j - 1) * w + i < count * w
      BY <1>2, <1>4, <3>1, InsidePlane
    <3>. QED  BY <1>4, <3>2
  <2>4. gray[(j - 1) * w + i + 1] = 128
    BY <1>4, <2>3
  <2>. QED  BY <2>2, <2>4
<1>10. Spells(GrayUpdates, gray)
  <2>1. \A j \in 1..count : GrayUpdates[j].n = w
    BY <1>3, <1>5
  <2>2. count \in Nat /\ w \in Nat
    BY <1>2, <1>4
  <2>. HIDE DEF gray
  <2>. QED  BY <1>6, <1>7, <1>9, <2>1, <2>2, SpellsAlike
<1>11. gray = [k \in 1..2 * HalfUp(Picture0.rect.width) * HalfUp(Picture0.rect.height) |-> 128]
  BY <1>1 DEF w, h
<1>. HIDE DEF gray
<1>. QED  BY <1>8, <1>10, <1>11

(* All calls together are given the picture as it is shown.                *)
LEMMA UpdatesSpell ==
  ASSUME FitInv, HistoryInv, ArrivedInv, stage \in {"hash", "update"}, Supported(Picture0)
  PROVE  /\ Updates \in Seq(Calls) /\ ShownPicture(Picture0) \in Seq(UInt8)
         /\ Spells(Updates, ShownPicture(Picture0))
<1>. DEFINE f == Picture0.format
            c(i) == ComponentUpdates(Source, i)
            b(i) == ShownBytes(Picture0, i)
            gray == [k \in 1..2 * HalfUp(Picture0.rect.width) * HalfUp(Picture0.rect.height)
                       |-> 128]
<1>1. /\ Picture0 \in Pictures /\ IsYuv(Hashed.format)
      /\ VideoFormatInfo[Hashed.format].components = 1 <=> f = "Y800"
      /\ VideoFormatInfo[f].components = 1 <=> f = "Y800"
  BY HashedSamples
<1>2. f \in VideoFormats
  BY <1>1, PictureFields
<1>3. \A i \in ComponentsOf(f) :
        i <= 3 => c(i) \in Seq(Calls) /\ b(i) \in Seq(UInt8) /\ Spells(c(i), b(i))
  BY ComponentSpelled
<1>4. 1 \in ComponentsOf(f) /\ 1 <= 3 /\ 2 <= 3 /\ 3 <= 3
  BY <1>2, FormatTable
<1>5. CASE f = "Y800"
  <2>1. Updates = c(1) \o GrayUpdates
    BY <1>1, <1>5 DEF Updates, Grayscale, Source
  <2>2. ShownPicture(Picture0) = b(1) \o gray
    BY <1>1, <1>5 DEF ShownPicture
  <2>3. GrayUpdates \in Seq(Calls) /\ gray \in Seq(UInt8) /\ Spells(GrayUpdates, gray)
    BY <1>1, GraySpelled
  <2>4. c(1) \in Seq(Calls) /\ b(1) \in Seq(UInt8) /\ Spells(c(1), b(1))
    BY <1>3, <1>4
  <2>. HIDE DEF c, b, gray
  <2>5. Spells(c(1) \o GrayUpdates, b(1) \o gray)
    BY <2>3, <2>4, SpellsBoth
  <2>. QED  BY <2>1, <2>2, <2>3, <2>4, <2>5
<1>6. CASE f # "Y800"
  <2>1. Updates = (c(1) \o c(2)) \o c(3)
    BY <1>1, <1>6 DEF Updates, Grayscale, Source
  <2>2. ShownPicture(Picture0) = (b(1) \o b(2)) \o b(3)
    BY <1>1, <1>6 DEF ShownPicture
  <2>3. 2 \in ComponentsOf(f) /\ 3 \in ComponentsOf(f)
    BY <1>1, <1>2, <1>6, FormatTable
  <2>. HIDE DEF c, b
  <2>4. /\ c(1) \in Seq(Calls) /\ b(1) \in Seq(UInt8) /\ Spells(c(1), b(1))
        /\ c(2) \in Seq(Calls) /\ b(2) \in Seq(UInt8) /\ Spells(c(2), b(2))
        /\ c(3) \in Seq(Calls) /\ b(3) \in Seq(UInt8) /\ Spells(c(3), b(3))
    BY <1>3, <1>4, <2>3
  <2>5. /\ c(1) \o c(2) \in Seq(Calls) /\ b(1) \o b(2) \in Seq(UInt8)
        /\ Spells(c(1) \o c(2), b(1) \o b(2))
    BY <2>4, SpellsBoth
  <2>6. Spells((c(1) \o c(2)) \o c(3), (b(1) \o b(2)) \o b(3))
    BY <2>4, <2>5, SpellsBoth
  <2>. QED  BY <2>1, <2>2, <2>4, <2>5, <2>6
<1>. QED  BY <1>5, <1>6

-----------------------------------------------------------------------------
(* What is reported                                                        *)

(* Of the calls that spell b, those that are left come last, and the hash  *)
(* follows b as far as the others go.                                      *)
Fed(b) ==
  \E us, starts, m :
    /\ us \in Seq(Calls)
    /\ Reading(us, b, starts)
    /\ Len(updates) <= Len(us)
    /\ \A i \in 1..Len(updates) : updates[i] = us[Len(us) - Len(updates) + i]
    /\ m = starts[Len(us) - Len(updates)]
    /\ Follows(b, m)

(* What is hashed is the picture, so far.                                  *)
FeedInv ==
  stage = "update" /\ Supported(Picture0) =>
    \E b \in Seq(UInt8) : b = ShownPicture(Picture0) /\ Fed(b)

LEMMA SameReading ==
  ASSUME UNCHANGED <<stream, taken, memory>>, NEW us, NEW b, NEW starts, Reading(us, b, starts)
  PROVE  Reading(us, b, starts)'
<1>1. Picture0' = Picture0 /\ memory' = memory
  BY DEF Picture0
<1>2. \A u, leftover : Given(u, leftover)' = Given(u, leftover)
  BY <1>1 DEF Given, Load
<1>. QED  BY <1>2 DEF Reading, Reads

(* The calls of a picture spell it, and the hash starts anew.              *)
LEMMA FeedStarts ==
  ASSUME FitInv, HistoryInv, ArrivedInv, HInv, HashStarts, Supported(Picture0)
  PROVE  \E b \in Seq(UInt8) : b = ShownPicture(Picture0) /\ Fed(b)'
<1>1. /\ stage = "hash" /\ HashInit /\ updates' = Updates
      /\ UNCHANGED <<stream, taken, memory>>
  BY DEF HashStarts, pathVars
<1>2. /\ Updates \in Seq(Calls) /\ ShownPicture(Picture0) \in Seq(UInt8)
      /\ Spells(Updates, ShownPicture(Picture0))
  BY <1>1, UpdatesSpell
<1>3. PICK us, b : us = Updates /\ b = ShownPicture(Picture0)
  OBVIOUS
<1>4. us \in Seq(Calls) /\ b \in Seq(UInt8) /\ updates' = us
  BY <1>1, <1>2, <1>3
<1>5. PICK starts : Reading(us, b, starts)
  BY <1>2, <1>3 DEF Spells
<1>6. Reading(us, b, starts)'
  BY <1>1, <1>5, SameReading
<1>7. starts[0] = 0
  BY <1>5 DEF Reading
<1>8. Follows(b, 0)'
  <2>1. Len(b) \in Nat /\ b \in Bytes(Len(b))
    BY <1>4 DEF Bytes
  <2>. QED  BY <1>1, <2>1, InitFollows
<1>9. /\ Len(us) <= Len(us) /\ Len(us) - Len(us) = 0
      /\ \A i \in 1..Len(us) : us[i] = us[Len(us) - Len(us) + i]
  <2>1. Len(us) \in Nat
    BY <1>4
  <2>. QED  BY <2>1
<1>10. Fed(b)'
  BY <1>4, <1>6, <1>7, <1>8, <1>9 DEF Fed
<1>. QED  BY <1>3, <1>4, <1>10

(* A call takes the hash from one start to the next.                       *)
LEMMA FeedUpdate ==
  ASSUME FitInv, TypedInv, HashUpdate, NEW b \in Seq(UInt8), Fed(b)
  PROVE  Fed(b)'
<1>1. PICK us, starts, m :
        /\ us \in Seq(Calls)
        /\ Reading(us, b, starts)
        /\ Len(updates) <= Len(us)
        /\ \A i \in 1..Len(updates) : updates[i] = us[Len(us) - Len(updates) + i]
        /\ m = starts[Len(us) - Len(updates)]
        /\ Follows(b, m)
  BY DEF Fed
<1>2. PICK u, left, k, d : /\ u = updates[1] /\ left = Len(updates) /\ k = Len(us)
                           /\ d = k - left
  OBVIOUS
<1>3. /\ stage = "update" /\ updates # <<>> /\ updates' = Tail(updates) /\ u \in Calls
      /\ UNCHANGED <<stream, taken, memory>>
  <2>1. UNCHANGED <<stream, taken, memory>>
    BY DEF HashUpdate, pathVars
  <2>. QED  BY <1>2, <2>1, OneCall
<1>4. updates \in Seq(Calls)
  BY <1>3 DEF TypedInv, CallsInv
<1>5. /\ left \in Nat /\ left > 0 /\ Len(updates') = left - 1
      /\ \A i \in 1..left - 1 : updates'[i] = updates[i + 1]
  <2>1. left \in Nat /\ left > 0
    BY <1>2, <1>3, <1>4, EmptySeq
  <2>. QED  BY <1>2, <1>3, <1>4, <2>1
<1>6. Len(us) = k /\ k \in Nat /\ left <= k /\ Len(b) \in Nat /\ b \in Bytes(Len(b))
  BY <1>1, <1>2 DEF Bytes
<1>7. /\ d \in 0..k /\ d + 1 \in 1..k /\ d + 1 \in 0..k /\ (d + 1) - 1 = d
      /\ k - (left - 1) = d + 1
  BY <1>2, <1>5, <1>6
<1>8. u = us[d + 1]
  <2>1. 1 \in 1..left
    BY <1>5
  <2>. QED  BY <1>1, <1>2, <2>1
<1>9. PICK n : n = u.n
  OBVIOUS
<1>10. /\ m = starts[d] /\ m \in 0..Len(b) /\ starts[d + 1] \in 0..Len(b)
       /\ starts[d + 1] = m + n
       /\ \A leftover \in Leftover : Reads(Given(u, leftover), 0, b, m, n)
  <2>1. m = starts[d]
    BY <1>1, <1>2
  <2>. QED  BY <1>1, <1>6, <1>7, <1>8, <1>9, <2>1 DEF Reading
<1>11. Follows(b, m + n)'
  <2>1. n \in Nat \ {0} /\ m \in Nat /\ m + n <= Len(b)
    BY <1>3, <1>6, <1>9, <1>10 DEF Calls
  <2>2. PICK leftover \in Leftover :
          /\ Given(u, leftover) \in Data(n)
          /\ \/ n = 1 /\ UpdateByte(Given(u, leftover))
             \/ u.at % 16 \in 0..15 /\ Start(Given(u, leftover), n, u.at % 16)
    BY <1>2, <1>9, OneCall
  <2>3. PICK data, misalignment : data = Given(u, leftover) /\ misalignment = u.at % 16
    OBVIOUS
  <2>4. Reads(data, 0, b, m, n) /\ data \in Data(n)
    BY <1>10, <2>2, <2>3
  <2>5. HInv /\ Follows(b, m)
    BY <1>1 DEF TypedInv
  <2>6. CASE n = 1 /\ UpdateByte(Given(u, leftover))
    <3>1. UpdateByte(data)
      BY <2>3, <2>6 DEF UpdateByte
    <3>. QED  BY <1>6, <2>1, <2>4, <2>5, <2>6, <3>1, ByteFollows
  <2>7. CASE u.at % 16 \in 0..15 /\ Start(Given(u, leftover), n, u.at % 16)
    <3>1. Start(data, n, misalignment) /\ misalignment \in 0..15
      BY <2>3, <2>7 DEF Start
    <3>. QED  BY <1>6, <2>1, <2>4, <2>5, <3>1, StartFollows
  <2>. QED  BY <2>2, <2>6, <2>7
<1>12. Reading(us, b, starts)'
  BY <1>1, <1>3, SameReading
<1>13. /\ left - 1 <= k
       /\ \A i \in 1..left - 1 : updates'[i] = us[k - (left - 1) + i]
  <2>1. SUFFICES ASSUME NEW i \in 1..left - 1
                 PROVE  updates'[i] = us[k - (left - 1) + i]
    BY <1>5, <1>6
  <2>2. i + 1 \in 1..left /\ k - left + (i + 1) = k - (left - 1) + i
    BY <1>5, <1>6
  <2>3. updates[i + 1] = us[k - left + (i + 1)]
    BY <1>1, <1>2, <2>2
  <2>. QED  BY <1>5, <2>2, <2>3
<1>14. PICK next : next = m + n
  OBVIOUS
<1>15. next = starts[k - (left - 1)] /\ Follows(b, next)'
  BY <1>7, <1>10, <1>11, <1>14
<1>16. /\ Len(updates') <= Len(us)
       /\ \A i \in 1..Len(updates') : updates'[i] = us[Len(us) - Len(updates') + i]
       /\ next = starts[Len(us) - Len(updates')]
  BY <1>5, <1>6, <1>13, <1>15
<1>17. \E r, t, l :
         /\ r \in Seq(Calls)
         /\ Reading(r, b, t)'
         /\ Len(updates') <= Len(r)
         /\ \A i \in 1..Len(updates') : updates'[i] = r[Len(r) - Len(updates') + i]
         /\ l = t[Len(r) - Len(updates')]
         /\ Follows(b, l)'
  BY <1>1, <1>12, <1>15, <1>16
<1>. QED  BY <1>17 DEF Fed

LEMMA NextFeed ==
  ASSUME FitInv, HistoryInv, ArrivedInv, TypedInv, FeedInv, [Next]_vars
  PROVE  FeedInv'
<1>. SUFFICES ASSUME stage' = "update" /\ Supported(Picture0)'
              PROVE  \E b \in Seq(UInt8) : b = ShownPicture(Picture0)' /\ Fed(b)'
  BY DEF FeedInv
<1>1. /\ UNCHANGED <<path, stream, taken, image, own, memory>>
      /\ stage = "update" \/ HashStarts
  BY DEF Next, vars, pathVars, TakePicture, Refuse, Exit, KeepImage, NewOwnImage, ConvertExits,
         StartCopies, FillCache, DrainCache, CopiesDone, ConvertByLibyuv, CopyInternal,
         Unsupported, HashStarts, HashUpdate, HashGoesOn, HashRefused, Report, Terminated
<1>2. Picture0' = Picture0 /\ Supported(Picture0)
  BY <1>1 DEF Picture0, Supported, Known, InHardware
<1>3. ShownPicture(Picture0)' = ShownPicture(Picture0)
  BY <1>2
<1>4. CASE HashStarts
  <2>1. HInv
    BY DEF TypedInv
  <2>. QED  BY <1>2, <1>3, <1>4, <2>1, FeedStarts
<1>5. CASE stage = "update" /\ ~HashStarts
  <2>1. PICK b \in Seq(UInt8) : b = ShownPicture(Picture0) /\ Fed(b)
    BY <1>2, <1>5 DEF FeedInv
  <2>2. CASE HashUpdate
    BY <1>3, <2>1, <2>2, FeedUpdate
  <2>3. CASE ~HashUpdate
    <3>1. PICK us, starts, m :
            /\ us \in Seq(Calls)
            /\ Reading(us, b, starts)
            /\ Len(updates) <= Len(us)
            /\ \A i \in 1..Len(updates) : updates[i] = us[Len(us) - Len(updates) + i]
            /\ m = starts[Len(us) - Len(updates)]
            /\ Follows(b, m)
      BY <2>1 DEF Fed
    <3>2. updates' = updates /\ (HashStep \/ UNCHANGED hashVars)
      BY <1>1, <1>5, <2>3 DEF Next, vars, TakePicture, Refuse, Exit, KeepImage, NewOwnImage,
         ConvertExits, StartCopies, FillCache, DrainCache, CopiesDone, ConvertByLibyuv,
         CopyInternal, Unsupported, HashGoesOn, HashRefused, Report, Terminated
    <3>3. Reading(us, b, starts)'
      BY <1>1, <3>1, SameReading
    <3>4. Follows(b, m)'
      <4>1. CASE HashStep
        <5>1. Len(b) \in Nat /\ b \in Bytes(Len(b)) /\ HInv
          BY DEF Bytes, TypedInv
        <5>2. m \in 0..Len(b)
          <6>1. updates \in Seq(Calls)
            BY <1>5 DEF TypedInv, CallsInv
          <6>2. Len(us) - Len(updates) \in 0..Len(us)
            BY <3>1, <6>1
          <6>. QED  BY <3>1, <6>2 DEF Reading
        <5>. QED  BY <3>1, <4>1, <5>1, <5>2, StepFollows
      <4>2. CASE UNCHANGED hashVars
        BY <3>1, <4>2 DEF hashVars, Follows, BytesLeft, WordSize, Reads
      <4>. QED  BY <3>2, <4>1, <4>2
    <3>5. Fed(b)'
      BY <3>1, <3>2, <3>3, <3>4 DEF Fed
    <3>. QED  BY <1>3, <2>1, <3>5
  <2>. QED  BY <2>2, <2>3
<1>. QED  BY <1>1, <1>4, <1>5

(* The Adler-32 of the property is made of the sums over all the bytes.    *)
LEMMA AdlerIsPrefix ==
  ASSUME NEW b \in Seq(Nat)
  PROVE  Adler(b) = Reduced(Prefix(b, Len(b)))
<1>1. DOMAIN b = 1..Len(b) /\ Len(b) \in Nat
  OBVIOUS
<1>. QED  BY <1>1 DEF Adler, Prefix, SumOver

(* A hash that follows all of the bytes is their Adler-32.                 *)
LEMMA FollowedIsAdler ==
  ASSUME HInv, hpc = "idle", ~narrow, NEW b \in Seq(UInt8), Follows(b, Len(b))
  PROVE  Unpack(value) = Adler(b)
<1>1. Len(b) \in Nat /\ b \in Bytes(Len(b)) /\ b \in Seq(Nat) /\ b \in [1..Len(b) -> Nat]
  <2>1. Len(b) \in Nat /\ b \in [1..Len(b) -> UInt8]
    OBVIOUS
  <2>2. \A i \in 1..Len(b) : b[i] \in Nat
    <3>1. \A x \in UInt8 : x \in Nat
      BY DEF UInt8
    <3>. QED  BY <2>1, <3>1
  <2>3. b \in [1..Len(b) -> Nat]
    BY <2>1, <2>2
  <2>. QED  BY <2>1, <2>3, ListOf DEF Bytes
<1>2. Agree(Prefix(b, Len(b)), Unpack(value))
  BY DEF Follows
<1>3. /\ Unpack(value) \in SumsType
      /\ Unpack(value).s1 = value.lo /\ Unpack(value).s2 = value.hi
  BY UnpackType DEF HInv
<1>4. IsReduced(Unpack(value))
  BY <1>3 DEF HInv, ReducedInv, IsReduced
<1>5. Prefix(b, Len(b)) \in SumsType
  BY <1>1, PrefixType
<1>6. Reduced(Prefix(b, Len(b))) = Sums(Unpack(value).s1, Unpack(value).s2)
  BY <1>2, <1>3, <1>4, <1>5, AgreeReduced
<1>7. Sums(Unpack(value).s1, Unpack(value).s2) = Unpack(value)
  BY DEF Sums, Unpack
<1>. QED  BY <1>1, <1>6, <1>7, AdlerIsPrefix

LEMMA ReportedHash ==
  ASSUME TypedInv, FeedInv, Report, ~narrow, Supported(Picture0)
  PROVE  Unpack(value) = Adler(ShownPicture(Picture0))
<1>1. stage = "update" /\ updates = <<>> /\ hpc = "idle"
  BY DEF Report
<1>2. PICK b \in Seq(UInt8) : b = ShownPicture(Picture0) /\ Fed(b)
  BY <1>1 DEF FeedInv
<1>3. PICK us, starts, m :
        /\ us \in Seq(Calls)
        /\ Reading(us, b, starts)
        /\ m = starts[Len(us) - Len(updates)]
        /\ Follows(b, m)
  BY <1>2 DEF Fed
<1>4. m = Len(b)
  <2>1. Len(updates) = 0 /\ Len(us) \in Nat
    BY <1>1
  <2>2. Len(us) - Len(updates) = Len(us)
    BY <2>1
  <2>. QED  BY <1>3, <2>2 DEF Reading
<1>. QED  BY <1>1, <1>2, <1>3, <1>4, FollowedIsAdler DEF TypedInv

(* A report has the Adler-32 of its picture.                               *)
ReportRight(report) ==
  Supported(stream[report.picture]) => report.hash = Adler(ShownPicture(stream[report.picture]))

(* The last report is right, when the hash is wide enough.                 *)
ReportInv ==
  /\ reports \in Seq([picture : Nat, hash : SumsType])
  /\ stage # "update" /\ reports # <<>> /\ ~narrow => ReportRight(reports[Len(reports)])

LEMMA NextReport ==
  ASSUME FitInv, TypedInv, FeedInv, ReportInv, [Next]_vars
  PROVE  ReportInv'
<1>1. UNCHANGED <<path, stream>>
  BY StreamFrame DEF pathVars
<1>2. \A report : ReportRight(report)' <=> ReportRight(report)
  BY <1>1 DEF ReportRight, Supported, Known, InHardware
<1>3. CASE Report
  <2>. DEFINE report == [picture |-> taken, hash |-> Unpack(value)]
  <2>1. stage = "update" /\ reports' = Append(reports, report) /\ narrow' = narrow
    BY <1>3 DEF Report, hashVars
  <2>2. report \in [picture : Nat, hash : SumsType]
    <3>1. taken \in Nat
      BY StreamPictures DEF FitInv
    <3>2. Unpack(value) \in SumsType
      BY UnpackType DEF TypedInv, HInv
    <3>. QED  BY <3>1, <3>2
  <2>3. ~narrow => ReportRight(report)
    BY <1>3, ReportedHash DEF ReportRight, Picture0
  <2>. HIDE DEF report
  <2>4. /\ reports' \in Seq([picture : Nat, hash : SumsType])
        /\ reports'[Len(reports')] = report
    BY <2>1, <2>2 DEF ReportInv
  <2>5. PICK r : r = report
    OBVIOUS
  <2>6. ~narrow => ReportRight(r)'
    BY <1>2, <2>3, <2>5 DEF ReportRight
  <2>7. ~narrow => ReportRight(reports[Len(reports)])'
    BY <2>4, <2>5, <2>6 DEF ReportRight
  <2>. QED  BY <2>1, <2>4, <2>7 DEF ReportInv
<1>4. CASE ~Report
  <2>1. reports' = reports
    BY <1>4 DEF Next, vars, outVars, TakePicture, Refuse, Exit, KeepImage, NewOwnImage, ConvertExits,
         StartCopies, FillCache, DrainCache, CopiesDone, ConvertByLibyuv, CopyInternal,
         Unsupported, HashStarts, HashUpdate, HashGoesOn, HashRefused, Terminated
  <2>2. stage' # "update" => stage # "update" /\ narrow' = narrow
    BY <1>4 DEF Next, vars, hashVars, TakePicture, Refuse, Exit, KeepImage, NewOwnImage,
         ConvertExits, StartCopies, FillCache, DrainCache, CopiesDone, ConvertByLibyuv,
         CopyInternal, Unsupported, HashStarts, HashUpdate, HashGoesOn, HashRefused, Terminated
  <2>3. PICK r : r = reports[Len(reports)]
    OBVIOUS
  <2>4. r = reports'[Len(reports')]
    BY <2>1, <2>3
  <2>5. ASSUME stage' # "update", reports' # <<>>, ~narrow'
        PROVE  ReportRight(reports[Len(reports)])'
    <3>1. ReportRight(r)
      BY <2>1, <2>2, <2>3, <2>5 DEF ReportInv, ReportRight
    <3>2. ReportRight(r)'
      BY <1>2, <3>1
    <3>. QED  BY <2>4, <3>2 DEF ReportRight
  <2>. QED  BY <2>1, <2>5 DEF ReportInv
<1>. QED  BY <1>3, <1>4

LEMMA InitHash == Init => HoldInv /\ MovedInv /\ ArrivedInv /\ TypedInv /\ FeedInv /\ ReportInv
<1>. SUFFICES ASSUME Init
              PROVE  HoldInv /\ MovedInv /\ ArrivedInv /\ TypedInv /\ FeedInv /\ ReportInv
  OBVIOUS
<1>1. stage = "next" /\ cache = <<>> /\ reports = <<>>
  BY DEF Init
<1>2. reports \in Seq([picture : Nat, hash : SumsType])
  BY <1>1
<1>. QED  BY <1>1, <1>2, InitTyped DEF HoldInv, MovedInv, ArrivedInv, FeedInv, ReportInv

(* The inductive invariant, under FitInv and HistoryInv.                   *)
PathInv ==
  HoldInv /\ MovedInv /\ ArrivedInv /\ TypedInv /\ FeedInv /\ ReportInv

LEMMA PathInvariant == Spec => []PathInv
<1>1. Init => PathInv
  BY InitHash DEF PathInv
<1>2. FitInv /\ HistoryInv /\ PathInv /\ [Next]_vars => PathInv'
  BY NextHold, NextMoved, NextArrived, NextTyped, NextFeed, NextReport DEF PathInv
<1>3. Spec => [](FitInv /\ HistoryInv)
  BY RefusalInvariant, PTL
<1>. QED  BY <1>1, <1>2, <1>3, PTL DEF Spec

(* Every hash that is reported is that of the picture.                     *)
THEOREM HashesArePictures == Spec => []PictureHash
<1>1. PathInv => PictureHash
  BY DEF PathInv, ReportInv, ReportRight, PictureHash
<1>. QED  BY <1>1, PathInvariant, PTL

(* Whatever pictures are hashed, the hash is the Adler-32 of its data.     *)
THEOREM PathHashIsAdler32 == Spec => []HashIsAdler32
<1>1. PathInv => HashIsAdler32
  BY DEF PathInv, TypedInv, HInv, AgreeInv, HashIsAdler32
<1>. QED  BY <1>1, PathInvariant, PTL

(* Whatever pictures are hashed, no lane of a kernel overflows.            *)
THEOREM PathLanesFit == Spec => []LanesFit
<1>1. PathInv => LanesFit
  BY LanesInvFits DEF PathInv, TypedInv, HInv
<1>. QED  BY <1>1, PathInvariant, PTL
=============================================================================
