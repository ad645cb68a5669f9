-------------------------- MODULE Toolchain_proofs --------------------------
(***************************************************************************)
(* Proofs about DecoderCore and Toolchain: the shape of the report and of  *)
(* the output file for any stream, format and failures, and what cmp_video *)
(* makes of the files.                                                     *)
(***************************************************************************)
EXTENDS Toolchain, SequenceTheorems, FiniteSetTheorems, TLAPS

(* What a file is made of.                                                 *)
Plain == {FrameTag} \cup [kind : {"byte"}, picture : Nat, at : Nat]

Headers == [kind : {"header"}, width : Nat, height : Nat, fps : Nat,
            colorspace : {"mono", "420", "422", "444", "444alpha"},
            depth : Nat]

Cells == Plain \cup Headers

(* What handle_image() is given.                                           *)
Images == [format : VideoFormats, width : Nat, height : Nat,
           samples : Seq(Plain)]

HeaderFirst(cells) ==
  \A i \in 1..Len(cells) : cells[i].kind = "header" => i = 1

-----------------------------------------------------------------------------
(* The table of formats                                                    *)

LEMMA InfoType ==
  ASSUME NEW f \in VideoFormats
  PROVE  /\ VideoFormatInfo[f].chroma \in {"400", "420", "422", "444", "rgb32"}
         /\ VideoFormatInfo[f].components \in 1..4
         /\ VideoFormatInfo[f].depth \in Nat
<1>1. VideoFormatInfo[f].chroma \in {"400", "420", "422", "444", "rgb32"}
  BY DEF VideoFormats, VideoFormatInfo, Info
<1>2. VideoFormatInfo[f].components \in 1..4
  BY DEF VideoFormats, VideoFormatInfo, Info
<1>3. VideoFormatInfo[f].depth \in Nat
  BY DEF VideoFormats, VideoFormatInfo, Info
<1> QED BY <1>1, <1>2, <1>3

LEMMA BytesOfNat ==
  ASSUME NEW f \in VideoFormats, NEW w \in Nat, NEW h \in Nat, NEW n \in 1..4
  PROVE  BytesOf(f, w, h, n) \in Nat
<1>1. ChromaWidth(f, w) \in Nat
  BY DEF ChromaWidth
<1>2. ChromaHeight(f, h) \in Nat
  BY DEF ChromaHeight
<1>3. \A a, b, c, d \in Nat : (a * b + (n - 1) * c * d) \in Nat
  <2>1. \A x, y \in Nat : x * y \in Nat
    OBVIOUS
  <2>2. n - 1 \in Nat
    OBVIOUS
  <2> QED BY <2>1, <2>2
<1>4. BytesPerSample(f) \in {1, 2}
  BY DEF BytesPerSample
<1>5. \A x \in Nat, y \in {1, 2} : x * y \in Nat
  OBVIOUS
<1> QED BY <1>1, <1>2, <1>3, <1>4, <1>5 DEF BytesOf

LEMMA NumBytesNat ==
  ASSUME NEW f \in VideoFormats, NEW w \in Nat, NEW h \in Nat
  PROVE  NumBytes(f, w, h) \in Nat
BY InfoType, BytesOfNat DEF NumBytes

LEMMA FunctionIsSeq ==
  ASSUME NEW S, NEW n \in Nat, NEW s \in [1..n -> S]
  PROVE  s \in Seq(S)
OBVIOUS

LEMMA PictureIsImage ==
  ASSUME NEW f \in VideoFormats, NEW w \in Nat, NEW h \in Nat, NEW p \in Nat
  PROVE  Picture(p, f, w, h) \in Images
<1>1. \A i \in 1..NumBytes(f, w, h) : Byte(p, i) \in Plain
  BY DEF Byte, Plain
<1>2. [i \in 1..NumBytes(f, w, h) |-> Byte(p, i)] \in [1..NumBytes(f, w, h) -> Plain]
  BY <1>1
<1>3. [i \in 1..NumBytes(f, w, h) |-> Byte(p, i)] \in Seq(Plain)
  BY ONLY <1>2, NumBytesNat, FunctionIsSeq
<1> QED BY <1>3 DEF Picture, Image, Images
-----------------------------------------------------------------------------
(* The file grows                                                          *)

LEMMA HeaderCell ==
  ASSUME NEW info \in Infos, info.format \in VideoFormats
  PROVE  Header(info) \in Headers
<1>1. Colorspace(info.format) \in {"mono", "420", "422", "444", "444alpha"}
  BY InfoType DEF Colorspace
<1>2. VideoFormatInfo[info.format].depth \in Nat
  BY InfoType
<1> QED BY <1>1, <1>2 DEF Header, Headers, Infos

LEMMA KindsOfCells ==
  /\ \A c \in Plain : c.kind # "header"
  /\ \A c \in Headers : c.kind = "header"
BY DEF Plain, Headers, FrameTag

LEMMA WrittenCells ==
  ASSUME outputInfo \in Infos, NEW image \in Images
  PROVE  /\ Written(image) \in Seq(Cells)
         /\ Len(Written(image)) >= 1
         /\ HeaderNeeded => Written(image)[1].kind = "header"
         /\ \A i \in 1..Len(Written(image)) :
              Written(image)[i].kind = "header" => i = 1 /\ HeaderNeeded
<1>. DEFINE info == DefaultRates(NewInfo(image))
            frame == FrameCells(image)
<1>1. Header(info) \in Headers
  <2>1. image.format \in VideoFormats /\ image.width \in Nat /\ image.height \in Nat
    BY DEF Images
  <2>2. NewInfo(image) \in Infos /\ NewInfo(image).format = image.format
    BY <2>1 DEF NewInfo, Infos
  <2>3. info \in Infos /\ info.format = image.format
    BY <2>2 DEF DefaultRates, Infos
  <2> QED BY <2>1, <2>3, HeaderCell
<1>2. frame \in Seq(Plain) /\ Len(frame) >= 1
  <2>1. image.samples \in Seq(Plain)
    BY DEF Images
  <2>2. <<FrameTag>> \in Seq(Plain) /\ Len(<<FrameTag>>) = 1
    BY DEF Plain
  <2>3. Len(image.samples) \in Nat
    BY <2>1, LenProperties
  <2> QED BY <2>1, <2>2, <2>3, ConcatProperties DEF FrameCells
<1>3. Len(frame) \in Nat /\ \A i \in 1..Len(frame) : frame[i] \in Plain
  BY <1>2, LenProperties, ElementOfSeq
<1>. HIDE DEF frame, info
<1>4. frame \in Seq(Cells)
  BY <1>2 DEF Cells
<1>5. CASE HeaderNeeded
  <2>. DEFINE header == <<Header(info)>>
  <2>1. HeaderCells(image) = header
    BY <1>5 DEF HeaderCells, info
  <2>0. Header(info) \in Cells
    BY <1>1 DEF Cells
  <2>2. header \in Seq(Cells) /\ Len(header) = 1 /\ header[1] = Header(info)
    BY ONLY <2>0
  <2>3. Written(image) = header \o frame
    BY <2>1 DEF Written, frame
  <2>. HIDE DEF header
  <2>4. /\ header \o frame \in Seq(Cells)
        /\ Len(header \o frame) = 1 + Len(frame)
        /\ \A i \in 1..1 + Len(frame) :
             (header \o frame)[i] = IF i <= 1 THEN header[i] ELSE frame[i - 1]
    <3>1. /\ header \o frame \in Seq(Cells)
          /\ Len(header \o frame) = Len(header) + Len(frame)
          /\ \A i \in 1..Len(header) + Len(frame) :
               (header \o frame)[i] = IF i <= Len(header)
                                        THEN header[i] ELSE frame[i - Len(header)]
      BY ONLY <1>4, <2>2, ConcatProperties
    <3> QED BY ONLY <2>2, <3>1
  <2>5. (header \o frame)[1] \in Headers
    BY <1>1, <1>3, <2>2, <2>4
  <2>6. \A i \in 1..1 + Len(frame) : i # 1 => (header \o frame)[i] \in Plain
    <3>. SUFFICES ASSUME NEW i \in 1..1 + Len(frame), i # 1
                  PROVE  (header \o frame)[i] \in Plain
      OBVIOUS
    <3>1. i - 1 \in 1..Len(frame)
      BY <1>3
    <3>2. (header \o frame)[i] = frame[i - 1]
      BY <2>4, <1>3
    <3> QED BY <1>3, <3>1, <3>2
  <2>7. 1 \in 1..1 + Len(frame) /\ 1 + Len(frame) >= 1
    BY <1>3
  <2>8. /\ (header \o frame)[1].kind = "header"
        /\ \A i \in 1..1 + Len(frame) : (header \o frame)[i].kind = "header" => i = 1
    BY <2>5, <2>6, KindsOfCells
  <2> QED BY ONLY <1>5, <2>3, <2>4, <2>7, <2>8
<1>6. CASE ~HeaderNeeded
  <2>1. Written(image) = frame
    <3>1. HeaderCells(image) = <<>>
      BY <1>6 DEF HeaderCells
    <3> QED BY <3>1, <1>4, ConcatEmptySeq DEF Written, frame
  <2> QED BY <1>2, <1>3, <1>4, <1>6, <2>1, KindsOfCells
<1> QED BY <1>5, <1>6

(* The first n cells of what is written, behind what is there.             *)
LEMMA AppendWritten ==
  ASSUME NEW f \in Seq(Cells), HeaderFirst(f), NEW w \in Seq(Cells),
         NEW needed \in BOOLEAN, needed => f = <<>>,
         \A i \in 1..Len(w) : w[i].kind = "header" => i = 1 /\ needed,
         NEW n \in 0..Len(w)
  PROVE  /\ f \o SubSeq(w, 1, n) \in Seq(Cells)
         /\ HeaderFirst(f \o SubSeq(w, 1, n))
         /\ Len(f \o SubSeq(w, 1, n)) = Len(f) + n
         /\ f # <<>> => (f \o SubSeq(w, 1, n))[1] = f[1]
         /\ f = <<>> /\ n >= 1 => (f \o SubSeq(w, 1, n))[1] = w[1]
<1>. DEFINE v == SubSeq(w, 1, n)
            g == f \o v
<1>1. Len(w) \in Nat /\ Len(f) \in Nat /\ n \in Nat
  BY LenProperties
<1>2. \A i \in 1..n : w[i] \in Cells
  BY <1>1, ElementOfSeq
<1>3. v \in Seq(Cells) /\ Len(v) = n /\ \A i \in 1..n : v[i] = w[i]
  <2>1. /\ v \in Seq(Cells)
        /\ Len(v) = IF 1 <= n THEN n - 1 + 1 ELSE 0
        /\ \A i \in 1..n - 1 + 1 : v[i] = w[1 + i - 1]
    BY ONLY <1>1, <1>2, SubSeqProperties
  <2>2. n - 1 + 1 = n /\ \A i \in 1..n : 1 + i - 1 = i
    BY <1>1
  <2> QED BY <1>1, <2>1, <2>2
<1>. HIDE DEF v
<1>4. /\ g \in Seq(Cells)
      /\ Len(g) = Len(f) + n
      /\ \A i \in 1..Len(f) + n : g[i] = IF i <= Len(f) THEN f[i] ELSE v[i - Len(f)]
  BY <1>3, ConcatProperties
<1>5. HeaderFirst(g)
  <2>. SUFFICES ASSUME NEW i \in 1..Len(f) + n, g[i].kind = "header"
                PROVE  i = 1
    BY <1>4 DEF HeaderFirst
  <2>1. CASE i <= Len(f)
    BY <1>1, <1>4, <2>1 DEF HeaderFirst
  <2>2. CASE ~(i <= Len(f))
    <3>1. i - Len(f) \in 1..n
      BY <1>1, <2>2
    <3>2. g[i] = w[i - Len(f)]
      BY <1>3, <1>4, <2>2, <3>1
    <3>3. i - Len(f) = 1 /\ needed
      BY <1>1, <3>1, <3>2
    <3>4. Len(f) = 0
      BY <3>3, EmptySeq
    <3> QED BY <3>3, <3>4
  <2> QED BY <2>1, <2>2
<1>6. f # <<>> => g[1] = f[1]
  BY <1>1, <1>4, EmptySeq
<1>7. f = <<>> /\ n >= 1 => g[1] = w[1]
  <2>. SUFFICES ASSUME f = <<>>, n >= 1 PROVE g[1] = w[1]
    OBVIOUS
  <2>1. Len(f) = 0
    BY EmptySeq
  <2> QED BY <1>1, <1>3, <1>4, <2>1
<1> QED BY <1>4, <1>5, <1>6, <1>7 DEF v
-----------------------------------------------------------------------------
(* The invariant                                                           *)

(* The report has a line for every image counted by it.                    *)
ReportInv ==
  /\ \E S : report \in Seq(S)
  /\ IF imageIndex = 0 THEN report = <<>> ELSE Len(report) = imageIndex + 1
  /\ ReportInOrder

(* A decoder that stops at the first refused image runs on only with the   *)
(* header in the file, once it has tried to write it.                      *)
FileInv ==
  /\ file \in Seq(Cells) /\ HeaderFirst(file)
  /\ ~ready => file = <<>>
  /\ numFrames > 0 /\ Writes => ready
  /\ klass # "gstreamer" /\ file # <<>> => file[1].kind = "header"
  /\ klass # "gstreamer" /\ ready /\ pc = "run" => file # <<>>

(* What is read as samples is never the header.                            *)
InputInv ==
  /\ input \in Seq(Cells) /\ HeaderFirst(input)
  /\ klass = "rawvideo" /\ pc = "run" =>
       pos >= 2 /\ inputInfo.format \in VideoFormats

StartInv == pc = "init" => ~ready

IInv == TypeOK /\ ReportInv /\ FileInv /\ InputInv /\ StartInv

LEMMA InitIInv ==
  ASSUME Init
  PROVE  IInv
<1>. USE DecoderCoreAssumption DEF Init, Fresh
<1>1. TypeOK
  <2>1. outputInfo \in Infos /\ inputInfo \in Infos
    BY DEF DefaultInfo, Infos
  <2>2. maxSize \in Nat \X Nat
    OBVIOUS
  <2>3. format \in VideoFormats /\ options \in Options /\ sizes \in Streams
    OBVIOUS
  <2>4. sizes \in Seq((Nat \ {0}) \X (Nat \ {0}))
    BY <2>3
  <2>5. taken \in 0..Len(sizes)
    BY <2>4, LenProperties
  <2>6. pos \in 1..Len(input) + 1
    OBVIOUS
  <2>7. exit \in Statuses
    BY DEF Statuses
  <2>8. stage \in 1..2 /\ numFrames \in Nat /\ imageIndex \in Nat
    OBVIOUS
  <2>9. /\ klass \in {"ffmpeg", "gstreamer", "rawvideo"}
        /\ pc \in {"init", "run", "dump", "free", "end"}
    OBVIOUS
  <2>10. ready \in BOOLEAN /\ lost \in BOOLEAN
    OBVIOUS
  <2> QED
    BY ONLY <2>1, <2>2, <2>3, <2>5, <2>6, <2>7, <2>8, <2>9, <2>10 DEF TypeOK
<1>2. ReportInv
  BY DEF ReportInv, ReportInOrder
<1>3. FileInv
  <2>1. <<>> \in Seq(Cells) /\ Len(<<>>) = 0
    OBVIOUS
  <2> QED BY <2>1 DEF FileInv, HeaderFirst
<1>4. InputInv
  <2>1. <<>> \in Seq(Cells) /\ Len(<<>>) = 0
    OBVIOUS
  <2> QED BY <2>1 DEF InputInv, HeaderFirst
<1>5. StartInv
  BY DEF StartInv
<1> QED BY <1>1, <1>2, <1>3, <1>4, <1>5 DEF IInv

-----------------------------------------------------------------------------
(* handle_image()                                                          *)

LEMMA WriteReportStep ==
  ASSUME ReportInv, imageIndex \in Nat, NEW image, WriteReport(image)
  PROVE  ReportInv' /\ imageIndex' \in Nat
<1>1. PICK S : report \in Seq(S)
  BY DEF ReportInv
<1>. DEFINE T == S \cup {Heading, Line(image)}
            one == <<Line(image)>>
<1>2. report \in Seq(T)
  BY <1>1, SeqMonotonic
<1>3. one \in Seq(T) /\ Len(one) = 1 /\ one[1] = Line(image)
  OBVIOUS
<1>4. Len(report) \in Nat
  BY <1>1, LenProperties
<1>5. Line(image).kind = "line" /\ Line(image).index = imageIndex
  BY DEF Line, ImageNumber
<1>6. imageIndex' = imageIndex + 1
  BY DEF WriteReport
<1>. HIDE DEF T, one
<1>7. CASE imageIndex = 0
  <2>. DEFINE head == <<Heading>>
  <2>1. head \in Seq(T) /\ Len(head) = 1 /\ head[1] = Heading
    BY DEF T
  <2>2. report' = head \o one
    <3>1. report = <<>>
      BY <1>7 DEF ReportInv
    <3>2. report' = (<<>> \o head) \o one
      BY <1>7, <3>1 DEF WriteReport, one
    <3> QED BY ONLY <2>1, <3>2, ConcatEmptySeq
  <2>. HIDE DEF head
  <2>3. /\ report' \in Seq(T) /\ Len(report') = 2
        /\ report'[1] = Heading /\ report'[2] = Line(image)
    <3>1. /\ head \o one \in Seq(T)
          /\ Len(head \o one) = Len(head) + Len(one)
          /\ \A i \in 1..Len(head) + Len(one) :
               (head \o one)[i] = IF i <= Len(head) THEN head[i]
                                                   ELSE one[i - Len(head)]
      BY ONLY <1>3, <2>1, ConcatProperties
    <3>2. /\ (head \o one)[1] = head[1]
          /\ (head \o one)[2] = one[1]
      BY ONLY <1>3, <2>1, <3>1
    <3> QED BY ONLY <1>3, <2>1, <2>2, <3>1, <3>2
  <2>4. ReportInOrder'
    BY <1>5, <1>7, <2>2, <2>3 DEF ReportInOrder
  <2> QED BY <1>6, <1>7, <2>2, <2>3, <2>4 DEF ReportInv
<1>8. CASE imageIndex # 0
  <2>1. report' = report \o one
    <3>1. report' = report \o <<>> \o one
      BY <1>8 DEF WriteReport, one
    <3> QED BY ONLY <3>1, <1>2, ConcatEmptySeq
  <2>2. /\ report' \in Seq(T)
        /\ Len(report') = Len(report) + 1
        /\ \A i \in 1..Len(report) + 1 :
             report'[i] = IF i <= Len(report) THEN report[i] ELSE one[i - Len(report)]
    <3>1. /\ report \o one \in Seq(T)
          /\ Len(report \o one) = Len(report) + Len(one)
          /\ \A i \in 1..Len(report) + Len(one) :
               (report \o one)[i] = IF i <= Len(report) THEN report[i]
                                                         ELSE one[i - Len(report)]
      BY ONLY <1>2, <1>3, ConcatProperties
    <3> QED BY ONLY <1>3, <2>1, <3>1
  <2>3. Len(report) = imageIndex + 1
    BY <1>8 DEF ReportInv
  <2>4. ReportInOrder'
    <3>. SUFFICES ASSUME NEW i \in 1..Len(report) + 1
                  PROVE  IF i = 1 THEN report'[i] = Heading
                         ELSE report'[i].kind = "line" /\ report'[i].index = i - 2
      BY <2>2 DEF ReportInOrder
    <3>1. CASE i <= Len(report)
      <4>1. i \in 1..Len(report) /\ report'[i] = report[i]
        BY <1>4, <2>2, <3>1
      <4> QED BY <4>1 DEF ReportInv, ReportInOrder
    <3>2. CASE i = Len(report) + 1
      <4>1. i - Len(report) = 1 /\ ~(i <= Len(report))
        BY <1>4, <3>2
      <4>2. report'[i] = Line(image)
        BY <1>3, <2>2, <4>1
      <4>3. i # 1 /\ imageIndex = i - 2
        BY <1>8, <2>3, <3>2
      <4> QED BY <1>5, <4>2, <4>3
    <3> QED BY <1>4, <3>1, <3>2
  <2> QED BY <1>6, <2>2, <2>3, <2>4 DEF ReportInv
<1> QED BY <1>6, <1>7, <1>8

LEMMA ReportSame ==
  ASSUME ReportInv, UNCHANGED reportVars
  PROVE  ReportInv'
BY DEF ReportInv, ReportInOrder, reportVars
LEMMA NewInfoType ==
  ASSUME outputInfo \in Infos, NEW image \in Images
  PROVE  NewInfo(image) \in Infos
<1>1. image.format \in VideoFormats /\ image.width \in Nat /\ image.height \in Nat
  BY DEF Images
<1> QED BY <1>1 DEF NewInfo, Infos

(* All of it is written, or nothing is written behind it.                  *)
LEMMA GrowFile ==
  ASSUME TypeOK, FileInv, Writes, pc = "run",
         NEW image \in Images, NEW n \in 0..Len(Written(image)),
         file' = file \o SubSeq(Written(image), 1, n), ready' = TRUE,
         UNCHANGED klass,
         n = Len(Written(image)) \/ klass = "gstreamer" \/ pc' # "run"
  PROVE  FileInv'
<1>1. outputInfo \in Infos
  BY DEF TypeOK
<1>2. /\ Written(image) \in Seq(Cells)
      /\ Len(Written(image)) >= 1
      /\ HeaderNeeded => Written(image)[1].kind = "header"
      /\ \A i \in 1..Len(Written(image)) :
           Written(image)[i].kind = "header" => i = 1 /\ HeaderNeeded
  BY ONLY <1>1, WrittenCells
<1>3. HeaderNeeded \in BOOLEAN /\ (HeaderNeeded => file = <<>>)
  BY DEF HeaderNeeded, FileInv
<1>4. file \in Seq(Cells) /\ HeaderFirst(file)
  BY DEF FileInv
<1>5. /\ file' \in Seq(Cells)
      /\ HeaderFirst(file')
      /\ Len(file') = Len(file) + n
      /\ file # <<>> => file'[1] = file[1]
      /\ file = <<>> /\ n >= 1 => file'[1] = Written(image)[1]
  BY ONLY <1>2, <1>3, <1>4, AppendWritten,
          file' = file \o SubSeq(Written(image), 1, n),
          n \in 0..Len(Written(image))
<1>6. klass # "gstreamer" /\ ~HeaderNeeded => file # <<>>
  BY DEF HeaderNeeded, FileInv, TypeOK
<1>7. Len(file) \in Nat /\ n \in Nat
  BY <1>2, <1>4, LenProperties
<1>8. ASSUME klass # "gstreamer", file' # <<>>
      PROVE  file'[1].kind = "header"
  <2>1. CASE file # <<>>
    BY <1>5, <1>8, <2>1 DEF FileInv
  <2>2. CASE file = <<>>
    <3>1. Len(file) = 0 /\ Len(file') \in Nat \ {0}
      BY ONLY <1>5, <1>8, <2>2, EmptySeq
    <3>2. n >= 1
      BY ONLY <1>5, <1>7, <3>1
    <3>3. HeaderNeeded
      BY <1>6, <1>8, <2>2
    <3> QED BY ONLY <1>2, <1>5, <2>2, <3>2, <3>3
  <2> QED BY <2>1, <2>2
<1>9. ASSUME klass # "gstreamer", pc' = "run"
      PROVE  file' # <<>>
  <2>1. n >= 1
    BY <1>2, <1>9
  <2>2. Len(file') # 0
    BY ONLY <1>5, <1>7, <2>1
  <2> QED BY ONLY <2>2, EmptySeq
<1> QED BY <1>5, <1>8, <1>9 DEF FileInv

(* Nothing is written.                                                     *)
LEMMA SameFileInv ==
  ASSUME FileInv, UNCHANGED <<fileVars, klass, options>>,
         pc' = "run" => pc = "run",
         numFrames' = numFrames \/ ~Writes
  PROVE  FileInv'
BY DEF FileInv, fileVars, HeaderFirst, Writes

LEMMA HandleImageStep ==
  ASSUME TypeOK, ReportInv, FileInv, pc = "run",
         NEW image \in Images, HandleImage(image), UNCHANGED commandVars
  PROVE  /\ ReportInv' /\ FileInv'
         /\ numFrames' \in Nat /\ maxSize' \in Nat \X Nat
         /\ outputInfo' \in Infos /\ imageIndex' \in Nat
         /\ ready' \in BOOLEAN
         /\ pc' \in {"run", "free"} /\ exit' \in Statuses
<1>1. maxSize' \in Nat \X Nat
  <2>1. image.width \in Nat /\ image.height \in Nat
    BY DEF Images
  <2>2. maxSize[1] \in Nat /\ maxSize[2] \in Nat
    BY DEF TypeOK
  <2> QED BY <2>1, <2>2 DEF HandleImage, NewSize, Max
<1>2. /\ NewInfo(image) \in Infos /\ outputInfo \in Infos
      /\ imageIndex \in Nat /\ numFrames \in Nat
      /\ ready \in BOOLEAN /\ exit \in Statuses
  BY NewInfoType DEF TypeOK
<1>3. UNCHANGED <<klass, options>>
  BY DEF commandVars
<1>4. ASSUME IF Reports THEN WriteReport(image) ELSE UNCHANGED reportVars
      PROVE  ReportInv' /\ imageIndex' \in Nat
  BY <1>2, <1>4, WriteReportStep, ReportSame DEF reportVars
<1>5. PrepareHeader(image) => outputInfo' \in Infos
  BY <1>2 DEF PrepareHeader
<1>6. Refused => /\ numFrames' = numFrames
                 /\ pc' \in {"run", "free"} /\ exit' \in Statuses
                 /\ klass = "gstreamer" \/ pc' # "run"
  BY <1>2 DEF Refused, mainVars, Statuses
<1>7. CASE Accept(image)
  <2>1. ReportInv' /\ imageIndex' \in Nat
    BY <1>4, <1>7 DEF Accept
  <2>2. numFrames' = numFrames + 1 /\ pc' = pc /\ exit' = exit
    BY <1>7 DEF Accept, mainVars
  <2>3. outputInfo' \in Infos /\ ready' \in BOOLEAN
    BY <1>2, <1>5, <1>7 DEF Accept, fileVars
  <2>4. FileInv'
    <3>1. CASE Writes
      <4>1. ready' = TRUE /\ file' = file \o Written(image)
        BY <1>7, <3>1 DEF Accept
      <4>2. Written(image) \in Seq(Cells)
        BY <1>2, WrittenCells
      <4>3. /\ SubSeq(Written(image), 1, Len(Written(image))) = Written(image)
            /\ Len(Written(image)) \in 0..Len(Written(image))
        BY <4>2, SubSeqFull, LenProperties
      <4> QED BY <1>3, <3>1, <4>1, <4>3, GrowFile
    <3>2. CASE ~Writes
      <4>1. UNCHANGED fileVars
        BY <1>7, <3>2 DEF Accept
      <4> QED BY <1>3, <2>2, <3>2, <4>1, SameFileInv
    <3> QED BY <3>1, <3>2
  <2> QED BY <1>1, <1>2, <2>1, <2>2, <2>3, <2>4
<1>8. CASE Reject(image)
  <2>1. UNCHANGED <<reportVars, fileVars>> /\ Refused
    BY <1>8 DEF Reject
  <2>2. outputInfo' \in Infos
    BY <1>2, <1>5, <1>8 DEF Reject
  <2>3. ReportInv' /\ imageIndex' \in Nat
    BY <1>2, <2>1, ReportSame DEF reportVars
  <2>4. FileInv'
    BY <1>3, <1>6, <2>1, SameFileInv
  <2>5. ready' \in BOOLEAN
    BY <1>2, <2>1 DEF fileVars
  <2> QED BY <1>1, <1>2, <1>6, <2>1, <2>2, <2>3, <2>4, <2>5
<1>9. CASE WriteFails(image)
  <2>1. Refused /\ Writes /\ ready' = TRUE
    BY <1>9 DEF WriteFails
  <2>2. outputInfo' \in Infos
    BY <1>5, <1>9 DEF WriteFails
  <2>3. ReportInv' /\ imageIndex' \in Nat
    BY <1>4, <1>9 DEF WriteFails
  <2>4. Len(Written(image)) \in Nat
    BY <1>2, WrittenCells, LenProperties
  <2>5. PICK n \in 0..Len(Written(image)) - 1 :
               file' = file \o SubSeq(Written(image), 1, n)
    BY <1>9 DEF WriteFails
  <2>6. n \in 0..Len(Written(image))
    BY <2>4
  <2>7. FileInv'
    BY <1>3, <1>6, <2>1, <2>5, <2>6, GrowFile
  <2> QED BY <1>1, <1>2, <1>6, <2>1, <2>2, <2>3, <2>7
<1> QED BY <1>7, <1>8, <1>9 DEF HandleImage
-----------------------------------------------------------------------------
(* The other steps                                                         *)

(* A step of main() or of a decoder class that reports and writes nothing. *)
LEMMA QuietStep ==
  ASSUME IInv,
         UNCHANGED <<commandVars, numFrames, maxSize, reportVars, fileVars, input>>,
         pc' \in {"run", "dump", "free", "end"}, exit' \in Statuses,
         taken' \in 0..Len(sizes), lost' \in BOOLEAN,
         outputInfo' \in Infos, inputInfo' \in Infos,
         pos' \in 1..Len(input) + 1,
         pc' = "run" => /\ pc \in {"init", "run"}
                        /\ klass = "rawvideo" =>
                             pos' >= 2 /\ inputInfo'.format \in VideoFormats
  PROVE  IInv'
<1>1. TypeOK'
  BY DEF IInv, TypeOK, commandVars, reportVars, fileVars
<1>2. ReportInv'
  BY ReportSame DEF IInv
<1>3. UNCHANGED <<klass, options, numFrames, ready, file>>
  BY DEF commandVars, fileVars
<1>4. FileInv'
  <2>1. pc' = "run" => pc = "run" \/ ~ready
    BY DEF IInv, StartInv
  <2>2. Writes' = Writes
    BY <1>3 DEF Writes
  <2> QED BY <1>3, <2>1, <2>2 DEF IInv, FileInv, HeaderFirst
<1>5. InputInv'
  BY <1>3 DEF IInv, InputInv, HeaderFirst
<1>6. StartInv'
  BY DEF StartInv
<1> QED BY <1>1, <1>2, <1>4, <1>5, <1>6 DEF IInv

(* A step of main() that ends the run and may cut the output file.         *)
LEMMA EndStep ==
  ASSUME IInv,
         UNCHANGED <<commandVars, taken, decoderVars, reportVars, ready, inputVars>>,
         LoseTail \/ UNCHANGED <<file, lost>>,
         pc' = "end", exit' \in Statuses
  PROVE  IInv'
<1>1. TypeOK'
  <2>1. lost' \in BOOLEAN
    BY DEF IInv, TypeOK, LoseTail
  <2> QED BY <2>1 DEF IInv, TypeOK, commandVars, decoderVars, reportVars, inputVars
<1>2. ReportInv'
  BY ReportSame DEF IInv
<1>3. UNCHANGED <<klass, options, numFrames, ready, input, pos, inputInfo>>
  BY DEF commandVars, decoderVars, inputVars
<1>4. FileInv'
  <2>1. CASE LoseTail
    <3>1. PICK n \in 0..Len(file) - 1 : file' = SubSeq(file, 1, n)
      BY <2>1 DEF LoseTail
    <3>2. file \in Seq(Cells) /\ HeaderFirst(file)
      BY DEF IInv, FileInv
    <3>3. Len(file) \in Nat /\ n \in Nat /\ n < Len(file)
      BY <3>2, LenProperties
    <3>4. /\ file' \in Seq(Cells) /\ Len(file') = n
          /\ \A i \in 1..n : file'[i] = file[i]
      <4>1. \A i \in 1..n : file[i] \in Cells
        BY <3>2, <3>3, ElementOfSeq
      <4>2. /\ SubSeq(file, 1, n) \in Seq(Cells)
            /\ Len(SubSeq(file, 1, n)) = IF 1 <= n THEN n - 1 + 1 ELSE 0
            /\ \A i \in 1..n - 1 + 1 : SubSeq(file, 1, n)[i] = file[1 + i - 1]
        BY ONLY <3>3, <4>1, SubSeqProperties
      <4>3. n - 1 + 1 = n /\ \A i \in 1..n : 1 + i - 1 = i
        BY <3>3
      <4> QED BY ONLY <3>1, <3>3, <4>2, <4>3
    <3>5. HeaderFirst(file')
      BY <3>2, <3>3, <3>4 DEF HeaderFirst
    <3>6. ready /\ file # <<>>
      <4>1. file # <<>>
        BY ONLY <3>3, EmptySeq
      <4> QED BY <4>1 DEF IInv, FileInv, TypeOK
    <3>7. klass # "gstreamer" /\ file' # <<>> => file'[1].kind = "header"
      <4>. SUFFICES ASSUME klass # "gstreamer", file' # <<>>
                    PROVE  file'[1].kind = "header"
        OBVIOUS
      <4>1. n \in Nat \ {0}
        BY ONLY <3>4, EmptySeq, file' # <<>>
      <4>2. file'[1] = file[1]
        BY ONLY <3>4, <4>1
      <4> QED BY <3>6, <4>2 DEF IInv, FileInv
    <3> QED BY <1>3, <3>4, <3>5, <3>6, <3>7 DEF FileInv
  <2>2. CASE UNCHANGED <<file, lost>>
    <3>1. UNCHANGED fileVars
      BY <2>2 DEF fileVars
    <3> QED BY <1>3, <3>1, SameFileInv DEF IInv
  <2> QED BY <2>1, <2>2
<1>5. InputInv'
  BY <1>3 DEF IInv, InputInv, HeaderFirst
<1>6. StartInv'
  BY DEF StartInv
<1> QED BY <1>1, <1>2, <1>4, <1>5, <1>6 DEF IInv
(* A step of a decoder class with an image.                                *)
LEMMA ImageStep ==
  ASSUME IInv, pc = "run", NEW image \in Images, HandleImage(image),
         UNCHANGED <<commandVars, lost, input, inputInfo>>,
         taken' \in 0..Len(sizes), pos' \in 1..Len(input) + 1, pos' >= pos
  PROVE  IInv'
<1>1. /\ ReportInv' /\ FileInv'
      /\ numFrames' \in Nat /\ maxSize' \in Nat \X Nat
      /\ outputInfo' \in Infos /\ imageIndex' \in Nat
      /\ ready' \in BOOLEAN
      /\ pc' \in {"run", "free"} /\ exit' \in Statuses
  BY HandleImageStep DEF IInv
<1>2. TypeOK'
  BY <1>1 DEF IInv, TypeOK, commandVars
<1>3. InputInv'
  <2>1. pos \in Nat /\ pos' \in Nat
    <3>1. Len(input) \in Nat
      BY LenProperties DEF IInv, InputInv
    <3> QED BY <3>1 DEF IInv, TypeOK
  <2>2. pos >= 2 => pos' >= 2
    BY <2>1
  <2> QED BY <1>1, <2>2 DEF IInv, InputInv, TypeOK, HeaderFirst, commandVars
<1>4. StartInv'
  BY <1>1 DEF StartInv
<1> QED BY <1>1, <1>2, <1>3, <1>4 DEF IInv

LEMMA DecodePictureStep ==
  ASSUME IInv, DecodePicture
  PROVE  IInv'
<1>. DEFINE size == sizes[taken + 1]
            image == Picture(taken + 1, format, size[1], size[2])
<1>1. /\ pc = "run" /\ taken < Len(sizes) /\ taken' = taken + 1
      /\ HandleImage(image)
      /\ UNCHANGED <<commandVars, lost, config, inputVars>>
  BY DEF DecodePicture, Decoding
<1>2. /\ sizes \in Seq((Nat \ {0}) \X (Nat \ {0}))
      /\ format \in VideoFormats /\ taken \in 0..Len(sizes)
      /\ pos \in 1..Len(input) + 1 /\ input \in Seq(Cells)
  BY DecoderCoreAssumption DEF IInv, TypeOK, InputInv
<1>3. Len(sizes) \in Nat
  BY <1>2, LenProperties
<1>4. taken + 1 \in 1..Len(sizes)
  BY <1>1, <1>2, <1>3
<1>5. size[1] \in Nat /\ size[2] \in Nat
  <2>1. size \in (Nat \ {0}) \X (Nat \ {0})
    BY ONLY <1>2, <1>4, ElementOfSeq
  <2> QED BY <2>1
<1>6. image \in Images
  BY <1>2, <1>4, <1>5, PictureIsImage
<1>7. UNCHANGED <<input, pos, inputInfo>>
  BY <1>1 DEF inputVars
<1>8. taken' \in 0..Len(sizes)
  BY <1>1, <1>3, <1>4
<1>. HIDE DEF image
<1>9. pos' \in 1..Len(input) + 1 /\ pos' >= pos
  <2>1. Len(input) \in Nat
    BY <1>2, LenProperties
  <2> QED BY <1>2, <1>7, <2>1
<1> QED BY <1>1, <1>6, <1>7, <1>8, <1>9, ImageStep

LEMMA ReadImageStep ==
  ASSUME IInv, ReadImage
  PROVE  IInv'
<1>. DEFINE n == NumBytes(inputInfo.format, inputInfo.width, inputInfo.height)
            samples == SubSeq(input, pos + 1, pos + n)
            image == ImageAt(input, pos, inputInfo)
<1>1. /\ pc = "run" /\ klass = "rawvideo"
      /\ HasImage(input, pos, inputInfo)
      /\ pos' = AfterImage(pos, inputInfo) /\ HandleImage(image)
      /\ UNCHANGED <<commandVars, taken, lost, config, input, inputInfo>>
  BY DEF ReadImage, Reading
<1>2. /\ input \in Seq(Cells) /\ HeaderFirst(input)
      /\ pos >= 2 /\ inputInfo.format \in VideoFormats
      /\ inputInfo \in Infos /\ pos \in 1..Len(input) + 1
      /\ taken \in 0..Len(sizes)
  BY <1>1 DEF IInv, InputInv, TypeOK
<1>3. Len(input) \in Nat /\ pos \in Nat
  BY <1>2, LenProperties
<1>4. inputInfo.width \in Nat /\ inputInfo.height \in Nat
  BY <1>2 DEF Infos
<1>5. n \in Nat
  BY <1>2, <1>4, NumBytesNat
<1>6. pos + n <= Len(input) /\ pos' = pos + n + 1
  BY <1>1 DEF HasImage, AfterImage
<1>7. image = Image(inputInfo.format, inputInfo.width, inputInfo.height, samples)
  BY DEF ImageAt
<1>. HIDE DEF n, image
<1>8. samples \in Seq(Plain)
  <2>1. \A i \in pos + 1..pos + n : input[i] \in Plain
    <3>. SUFFICES ASSUME NEW i \in pos + 1..pos + n PROVE input[i] \in Plain
      OBVIOUS
    <3>1. i \in 1..Len(input) /\ i # 1
      BY <1>2, <1>3, <1>5, <1>6
    <3>2. input[i] \in Cells /\ input[i].kind # "header"
      BY <1>2, <3>1, ElementOfSeq DEF HeaderFirst
    <3> QED BY <3>2, KindsOfCells DEF Cells
  <2> QED BY ONLY <1>3, <1>5, <2>1, SubSeqProperties
<1>9. image \in Images
  BY <1>2, <1>4, <1>7, <1>8 DEF Image, Images
<1>10. taken' \in 0..Len(sizes) /\ pos' \in 1..Len(input) + 1 /\ pos' >= pos
  BY <1>1, <1>2, <1>3, <1>5, <1>6
<1> QED BY <1>1, <1>9, <1>10, ImageStep

LEMMA OpenInputStep ==
  ASSUME IInv, OpenInput
  PROVE  IInv'
<1>1. /\ pc' = "run" /\ pc = "init" /\ pos' = 2
      /\ Readable /\ outputInfo' = inputInfo'
      /\ inputInfo' = DefaultRates(HeaderInfo(input[1]))
      /\ UNCHANGED <<commandVars, exit, taken, numFrames, maxSize, reportVars,
                     fileVars, lost, input>>
  BY DEF OpenInput, InputDescription
<1>2. input \in Seq(Cells) /\ input # <<>> /\ input[1].kind = "header"
  BY <1>1 DEF IInv, InputInv, Readable, HasHeader
<1>3. Len(input) \in Nat \ {0}
  BY ONLY <1>2, EmptySeq
<1>4. input[1] \in Headers
  <2>1. 1 \in 1..Len(input)
    BY <1>3
  <2>2. input[1] \in Cells
    BY ONLY <1>2, <2>1, ElementOfSeq
  <2> QED BY <1>2, <2>2, KindsOfCells DEF Cells
<1>5. HeaderInfo(input[1]).format \in VideoFormats
  BY <1>1 DEF Readable, HasHeader, HeaderInfo, ReadFormat
<1>6. HeaderInfo(input[1]) \in Infos
  BY <1>4, <1>5 DEF HeaderInfo, Headers, Infos
<1>7. inputInfo' \in Infos /\ inputInfo'.format \in VideoFormats
  BY <1>1, <1>5, <1>6 DEF DefaultRates, Infos
<1>8. pos' \in 1..Len(input) + 1 /\ pos' >= 2
  BY <1>1, <1>3
<1>9. exit' \in Statuses /\ taken' \in 0..Len(sizes) /\ lost' \in BOOLEAN
  BY <1>1 DEF IInv, TypeOK
<1> QED BY <1>1, <1>7, <1>8, <1>9, QuietStep
LEMMA SkipSamplesStep ==
  ASSUME IInv, SkipSamples
  PROVE  IInv'
<1>1. PICK p \in pos + 1..Len(input) : pos' = p
  BY DEF SkipSamples
<1>2. /\ pc = "run"
      /\ UNCHANGED <<commandVars, pc, exit, taken, numFrames, maxSize, outputInfo,
                     reportVars, fileVars, lost, input, inputInfo>>
  BY DEF SkipSamples, Misplaced, Reading, mainVars, decoderVars
<1>3. pos \in 1..Len(input) + 1 /\ Len(input) \in Nat
  BY LenProperties DEF IInv, TypeOK, InputInv
<1>4. pos' \in 1..Len(input) + 1 /\ (pos >= 2 => pos' >= 2)
  BY <1>1, <1>3
<1>5. klass = "rawvideo" => pos' >= 2 /\ inputInfo'.format \in VideoFormats
  BY <1>2, <1>4 DEF IInv, InputInv
<1>6. /\ pc' \in {"run", "dump", "free", "end"} /\ exit' \in Statuses
      /\ taken' \in 0..Len(sizes) /\ lost' \in BOOLEAN
      /\ outputInfo' \in Infos /\ inputInfo' \in Infos
  BY <1>2 DEF IInv, TypeOK
<1> QED BY <1>2, <1>4, <1>5, <1>6, QuietStep

(* The second run starts from the beginning.                               *)
LEMMA RerunStep ==
  ASSUME IInv, Rerun
  PROVE  IInv'
<1>1. /\ stage' = 2 /\ klass' = "rawvideo" /\ options' \in Options
      /\ pc' = "init" /\ exit' = "none" /\ taken' = 0
      /\ numFrames' = 0 /\ maxSize' = <<0, 0>>
  BY DEF Rerun
<1>2. /\ input' = file /\ pos' = 1
      /\ outputInfo' = DefaultInfo /\ inputInfo' = DefaultInfo
      /\ report' = <<>> /\ imageIndex' = 0
      /\ ready' = FALSE /\ file' = <<>> /\ lost' = FALSE
      /\ UNCHANGED <<sizes, format>>
  BY DEF Rerun
<1>3. sizes \in Streams /\ format \in VideoFormats
  BY DEF IInv, TypeOK
<1>4. file \in Seq(Cells) /\ HeaderFirst(file)
  BY DEF IInv, FileInv
<1>5. TypeOK'
  <2>1. DefaultInfo \in Infos
    BY DEF DefaultInfo, Infos
  <2>2. 0 \in 0..Len(sizes)
    <3>1. sizes \in Seq((Nat \ {0}) \X (Nat \ {0}))
      BY <1>3, DecoderCoreAssumption
    <3> QED BY <3>1, LenProperties
  <2>3. 1 \in 1..Len(file) + 1
    BY <1>4, LenProperties
  <2>4. maxSize' \in Nat \X Nat /\ exit' \in Statuses
    BY <1>1 DEF Statuses
  <2>5. /\ stage' \in 1..2 /\ numFrames' \in Nat /\ imageIndex' \in Nat
        /\ klass' \in {"ffmpeg", "gstreamer", "rawvideo"}
        /\ pc' \in {"init", "run", "dump", "free", "end"}
    BY ONLY <1>1, <1>2
  <2>6. /\ ready' \in BOOLEAN /\ lost' \in BOOLEAN
        /\ outputInfo' \in Infos /\ inputInfo' \in Infos
    BY ONLY <1>2, <2>1
  <2>7. /\ options' \in Options /\ sizes' \in Streams /\ format' \in VideoFormats
        /\ taken' \in 0..Len(sizes')
    BY ONLY <1>1, <1>2, <1>3, <2>2
  <2>8. pos' \in 1..Len(input') + 1
    BY ONLY <1>2, <2>3
  <2> QED BY ONLY <2>4, <2>5, <2>6, <2>7, <2>8 DEF TypeOK
<1>6. ReportInv'
  BY <1>2 DEF ReportInv, ReportInOrder
<1>7. FileInv'
  <2>1. <<>> \in Seq(Cells) /\ Len(<<>>) = 0
    OBVIOUS
  <2> QED BY <1>1, <1>2, <2>1 DEF FileInv, HeaderFirst
<1>8. InputInv'
  BY <1>1, <1>2, <1>4 DEF InputInv, HeaderFirst
<1>9. StartInv'
  BY <1>2 DEF StartInv
<1> QED BY <1>5, <1>6, <1>7, <1>8, <1>9 DEF IInv

LEMMA NextIInv ==
  ASSUME IInv, [Next]_vars
  PROVE  IInv'
<1>1. /\ exit \in Statuses /\ taken \in 0..Len(sizes) /\ lost \in BOOLEAN
      /\ outputInfo \in Infos /\ inputInfo \in Infos
      /\ pos \in 1..Len(input) + 1
  BY DEF IInv, TypeOK
<1>2. {"success", "failure", "crashed"} \subseteq Statuses
  BY DEF Statuses
<1>. USE DEF mainVars, decoderVars, inputVars
<1>3. CASE InitSucceeds
  <2>1. outputInfo' \in Infos
    BY <1>1, <1>3, DecoderCoreAssumption DEF InitSucceeds, Infos
  <2> QED BY <1>1, <1>3, <2>1, QuietStep DEF InitSucceeds
<1>4. CASE OpenInput
  BY <1>4, OpenInputStep
<1>5. CASE InitFails
  BY <1>1, <1>2, <1>5, QuietStep DEF InitFails
<1>6. CASE InitCrashes
  BY <1>1, <1>2, <1>6, QuietStep DEF InitCrashes
<1>7. CASE DecodePicture
  BY <1>7, DecodePictureStep
<1>8. CASE SkipPicture
  <2>1. taken' \in 0..Len(sizes)
    <3>1. sizes \in Seq((Nat \ {0}) \X (Nat \ {0}))
      BY DecoderCoreAssumption DEF IInv, TypeOK
    <3>2. Len(sizes) \in Nat
      BY <3>1, LenProperties
    <3> QED BY <1>1, <1>8, <3>2 DEF SkipPicture, Decoding
  <2> QED BY <1>1, <1>8, <2>1, QuietStep DEF SkipPicture, Decoding
<1>9. CASE DecodeEnds
  BY <1>1, <1>9, QuietStep DEF DecodeEnds
<1>10. CASE DecodeFails
  BY <1>1, <1>2, <1>10, QuietStep DEF DecodeFails
<1>11. CASE ReadImage
  BY <1>11, ReadImageStep
<1>12. CASE ReadEnds
  BY <1>1, <1>12, QuietStep DEF ReadEnds
<1>13. CASE SkipSamples
  BY <1>13, SkipSamplesStep
<1>14. CASE ReadCrashes
  BY <1>2, <1>14, EndStep DEF ReadCrashes
<1>15. CASE DumpConfig
  BY <1>1, <1>2, <1>15, QuietStep DEF DumpConfig
<1>16. CASE DumpCrashes
  BY <1>2, <1>16, EndStep DEF DumpCrashes
<1>17. CASE Free
  BY <1>1, <1>17, EndStep DEF Free
<1>18. CASE Rerun
  BY <1>18, RerunStep
<1>19. CASE UNCHANGED vars
  <2>1. TypeOK'
    BY <1>19 DEF IInv, TypeOK, vars, commandVars, reportVars, fileVars
  <2>2. ReportInv'
    BY <1>19, ReportSame DEF IInv, vars
  <2>3. FileInv'
    BY <1>19 DEF IInv, FileInv, HeaderFirst, Writes, vars, commandVars, fileVars
  <2>4. InputInv' /\ StartInv'
    BY <1>19 DEF IInv, InputInv, StartInv, HeaderFirst, vars, commandVars, fileVars
  <2> QED BY <2>1, <2>2, <2>3, <2>4 DEF IInv
<1> QED
  BY <1>3, <1>4, <1>5, <1>6, <1>7, <1>8, <1>9, <1>10, <1>11, <1>12, <1>13,
     <1>14, <1>15, <1>16, <1>17, <1>18, <1>19 DEF Next, Terminated

-----------------------------------------------------------------------------
(* The theorems                                                            *)

LEMMA Invariance == Spec => []IInv
<1>1. Init => IInv
  BY InitIInv
<1>2. IInv /\ [Next]_vars => IInv'
  BY NextIInv
<1> QED BY <1>1, <1>2, PTL DEF Spec

(* Every variable of the tool keeps its type, for any streams: the reader  *)
(* in particular never stands behind the end of its file.                  *)
THEOREM TypeCorrect == Spec => []TypeOK
<1>1. IInv => TypeOK
  BY DEF IInv
<1> QED BY <1>1, Invariance, PTL

(* The report of mvt_report.c is one heading and then lines numbered from  *)
(* zero, whatever fails and however long the stream is.                    *)
THEOREM ReportsAreInOrder == Spec => []ReportInOrder
<1>1. IInv => ReportInOrder
  BY DEF IInv, ReportInv
<1> QED BY <1>1, Invariance, PTL

(* The output file has one header and has it first, although handle_image  *)
(* tries to write it until a frame is counted, and although what is        *)
(* written in the second run comes out of the file of the first.           *)
THEOREM OneHeader == Spec => []HeaderOnce
<1>1. IInv => HeaderOnce
  BY DEF IInv, FileInv, HeaderFirst, HeaderOnce
<1> QED BY <1>1, Invariance, PTL
-----------------------------------------------------------------------------
(* The size in the config file                                             *)

Bounds(size, n) ==
  /\ \A i \in 1..n : sizes[i][1] <= size[1] /\ sizes[i][2] <= size[2]
  /\ \E i \in 1..n : sizes[i][1] = size[1]
  /\ \E i \in 1..n : sizes[i][2] = size[2]

(* The maximum of the pictures decoded so far is there before any of them  *)
(* is refused, and the config file is written after the last.              *)
SizeInv ==
  /\ klass # "rawvideo" =>
       IF options.benchmark \/ taken = 0 THEN maxSize = <<0, 0>>
                                         ELSE Bounds(maxSize, taken)
  /\ config.state = "complete" =>
       /\ config.size = maxSize /\ klass # "rawvideo"
       /\ pc \in {"free", "end"}

LEMMA DecodePictureSize ==
  ASSUME IInv, SizeInv, DecodePicture
  PROVE  SizeInv'
<1>. DEFINE size == sizes[taken + 1]
<1>1. /\ pc = "run" /\ klass # "rawvideo" /\ taken < Len(sizes)
      /\ ~options.benchmark /\ taken' = taken + 1
      /\ UNCHANGED <<klass, options, sizes, config>>
  BY DEF DecodePicture, Decoding, commandVars
<1>2. /\ sizes \in Seq((Nat \ {0}) \X (Nat \ {0}))
      /\ taken \in 0..Len(sizes) /\ maxSize \in Nat \X Nat
  BY DecoderCoreAssumption DEF IInv, TypeOK
<1>3. taken \in Nat /\ Len(sizes) \in Nat
  BY <1>2, LenProperties
<1>4. \A i \in 1..taken + 1 : sizes[i][1] \in Nat \ {0} /\ sizes[i][2] \in Nat \ {0}
  <2>. SUFFICES ASSUME NEW i \in 1..taken + 1
                PROVE  sizes[i][1] \in Nat \ {0} /\ sizes[i][2] \in Nat \ {0}
    OBVIOUS
  <2>1. i \in 1..Len(sizes)
    BY <1>1, <1>3
  <2>2. sizes[i] \in (Nat \ {0}) \X (Nat \ {0})
    BY ONLY <1>2, <2>1, ElementOfSeq
  <2> QED BY ONLY <2>2
<1>5. taken + 1 \in 1..taken + 1
  BY <1>3
<1>6. size[1] \in Nat \ {0} /\ size[2] \in Nat \ {0}
  BY ONLY <1>4, <1>5
<1>7. maxSize' = <<Max(maxSize[1], size[1]), Max(maxSize[2], size[2])>>
  BY DEF DecodePicture, HandleImage, NewSize, Picture, Image
<1>. HIDE DEF size
<1>8. maxSize'[1] = Max(maxSize[1], size[1]) /\ maxSize'[2] = Max(maxSize[2], size[2])
  BY <1>7
<1>9. maxSize[1] \in Nat /\ maxSize[2] \in Nat
  BY <1>2
<1>10. /\ maxSize'[1] \in Nat /\ maxSize[1] <= maxSize'[1] /\ size[1] <= maxSize'[1]
       /\ maxSize'[1] = maxSize[1] \/ maxSize'[1] = size[1]
  BY ONLY <1>6, <1>8, <1>9 DEF Max
<1>11. /\ maxSize'[2] \in Nat /\ maxSize[2] <= maxSize'[2] /\ size[2] <= maxSize'[2]
       /\ maxSize'[2] = maxSize[2] \/ maxSize'[2] = size[2]
  BY ONLY <1>6, <1>8, <1>9 DEF Max
<1>12. \A i \in 1..taken + 1 : i \in 1..taken \/ i = taken + 1
  BY <1>3
<1>13. \A i \in 1..taken : i \in 1..taken + 1
  BY <1>3
<1>14. taken # 0 => Bounds(maxSize, taken)
  BY <1>1 DEF SizeInv
<1>15. \A i \in 1..taken + 1 :
         sizes[i][1] <= maxSize'[1] /\ sizes[i][2] <= maxSize'[2]
  <2>. SUFFICES ASSUME NEW i \in 1..taken + 1
                PROVE  sizes[i][1] <= maxSize'[1] /\ sizes[i][2] <= maxSize'[2]
    OBVIOUS
  <2>1. CASE i = taken + 1
    BY <1>10, <1>11, <2>1 DEF size
  <2>2. CASE i \in 1..taken
    <3>1. sizes[i][1] <= maxSize[1] /\ sizes[i][2] <= maxSize[2]
      BY <1>3, <1>14, <2>2 DEF Bounds
    <3>2. sizes[i][1] \in Nat /\ sizes[i][2] \in Nat
      BY <1>4
    <3> QED BY ONLY <1>9, <1>10, <1>11, <3>1, <3>2
  <2> QED BY <1>12, <2>1, <2>2
<1>16. \E i \in 1..taken + 1 : sizes[i][1] = maxSize'[1]
  <2>1. CASE maxSize'[1] = size[1]
    BY <1>5, <2>1 DEF size
  <2>2. CASE maxSize'[1] # size[1]
    <3>1. maxSize[1] # 0 /\ maxSize'[1] = maxSize[1]
      BY ONLY <1>6, <1>9, <1>10, <2>2
    <3>2. taken # 0
      BY <3>1, <1>1 DEF SizeInv
    <3> QED BY <1>13, <1>14, <3>1, <3>2 DEF Bounds
  <2> QED BY <2>1, <2>2
<1>17. \E i \in 1..taken + 1 : sizes[i][2] = maxSize'[2]
  <2>1. CASE maxSize'[2] = size[2]
    BY <1>5, <2>1 DEF size
  <2>2. CASE maxSize'[2] # size[2]
    <3>1. maxSize[2] # 0 /\ maxSize'[2] = maxSize[2]
      BY ONLY <1>6, <1>9, <1>11, <2>2
    <3>2. taken # 0
      BY <3>1, <1>1 DEF SizeInv
    <3> QED BY <1>13, <1>14, <3>1, <3>2 DEF Bounds
  <2> QED BY <2>1, <2>2
<1>18. taken' # 0 /\ Bounds(maxSize, taken)'
  BY <1>1, <1>3, <1>15, <1>16, <1>17 DEF Bounds
<1>19. config.state # "complete"
  BY <1>1 DEF SizeInv
<1> QED BY <1>1, <1>18, <1>19 DEF SizeInv
LEMMA NextSize ==
  ASSUME IInv, SizeInv, [Next]_vars
  PROVE  SizeInv'
<1>1. ASSUME UNCHANGED <<klass, options, sizes, taken, maxSize, config>>,
             pc' = pc \/ pc' \in {"free", "end"} \/ config.state # "complete"
      PROVE  SizeInv'
  BY <1>1 DEF SizeInv, Bounds
<1>. USE DEF commandVars, mainVars, decoderVars
<1>2. pc \in {"init", "run", "dump"} => config.state # "complete"
  BY DEF SizeInv
<1>3. CASE InitSucceeds
  BY <1>1, <1>2, <1>3 DEF InitSucceeds
<1>4. CASE OpenInput
  BY <1>1, <1>2, <1>4 DEF OpenInput
<1>5. CASE InitFails
  BY <1>1, <1>5 DEF InitFails
<1>6. CASE InitCrashes
  BY <1>1, <1>6 DEF InitCrashes
<1>7. CASE DecodePicture
  BY <1>7, DecodePictureSize
<1>8. CASE SkipPicture
  <2>1. /\ pc = "run" /\ options.benchmark
        /\ UNCHANGED <<klass, options, maxSize, config>>
    BY <1>8 DEF SkipPicture, Decoding
  <2> QED BY <1>2, <2>1 DEF SizeInv
<1>9. CASE DecodeEnds
  BY <1>1, <1>2, <1>9 DEF DecodeEnds
<1>10. CASE DecodeFails
  BY <1>1, <1>10 DEF DecodeFails
<1>11. CASE ReadImage
  <2>1. pc = "run" /\ klass = "rawvideo" /\ UNCHANGED <<klass, config>>
    BY <1>11 DEF ReadImage, Reading
  <2> QED BY <1>2, <2>1 DEF SizeInv
<1>12. CASE ReadEnds
  BY <1>1, <1>2, <1>12 DEF ReadEnds, Reading
<1>13. CASE SkipSamples
  BY <1>1, <1>13 DEF SkipSamples
<1>14. CASE ReadCrashes
  BY <1>1, <1>14 DEF ReadCrashes
<1>15. CASE DumpConfig
  <2>1. /\ pc = "dump" /\ pc' = "free"
        /\ UNCHANGED <<klass, options, sizes, taken, maxSize>>
    BY <1>15 DEF DumpConfig
  <2>2. config'.state = "complete" => config'.size = maxSize /\ klass # "rawvideo"
    BY <1>2, <1>15, <2>1 DEF DumpConfig, NoConfig
  <2> QED BY <2>1, <2>2 DEF SizeInv, Bounds
<1>16. CASE DumpCrashes
  BY <1>1, <1>16 DEF DumpCrashes
<1>17. CASE Free
  BY <1>1, <1>17 DEF Free
<1>18. CASE Rerun
  BY <1>18 DEF Rerun, SizeInv, NoConfig
<1>19. CASE UNCHANGED vars
  BY <1>1, <1>19 DEF vars
<1> QED
  BY <1>3, <1>4, <1>5, <1>6, <1>7, <1>8, <1>9, <1>10, <1>11, <1>12, <1>13,
     <1>14, <1>15, <1>16, <1>17, <1>18, <1>19 DEF Next, Terminated

LEMMA SizeIsMaximum ==
  ASSUME IInv, SizeInv
  PROVE  ConfigCoversStream
<1>. SUFFICES ASSUME config.state = "complete", ~(options.benchmark \/ taken = 0)
              PROVE  config.size =
                       <<CHOOSE w \in {sizes[i][1] : i \in 1..taken} :
                           \A i \in 1..taken : sizes[i][1] <= w,
                         CHOOSE h \in {sizes[i][2] : i \in 1..taken} :
                           \A i \in 1..taken : sizes[i][2] <= h>>
  BY DEF SizeInv, ConfigCoversStream
<1>1. config.size = maxSize /\ Bounds(maxSize, taken)
  BY DEF SizeInv
<1>2. maxSize \in Nat \X Nat
  BY DEF IInv, TypeOK
<1>3. \A i \in 1..taken : sizes[i][1] \in Nat /\ sizes[i][2] \in Nat
  <2>. SUFFICES ASSUME NEW i \in 1..taken
                PROVE  sizes[i][1] \in Nat /\ sizes[i][2] \in Nat
    OBVIOUS
  <2>1. sizes \in Seq((Nat \ {0}) \X (Nat \ {0})) /\ taken \in 0..Len(sizes)
    BY DecoderCoreAssumption DEF IInv, TypeOK
  <2>2. i \in 1..Len(sizes)
    BY <2>1, LenProperties
  <2>3. sizes[i] \in (Nat \ {0}) \X (Nat \ {0})
    BY ONLY <2>1, <2>2, ElementOfSeq
  <2> QED BY ONLY <2>3
<1>4. (CHOOSE w \in {sizes[i][1] : i \in 1..taken} :
         \A i \in 1..taken : sizes[i][1] <= w) = maxSize[1]
  <2>. DEFINE W == {sizes[i][1] : i \in 1..taken}
              B(w) == \A i \in 1..taken : sizes[i][1] <= w
  <2>1. maxSize[1] \in W /\ B(maxSize[1])
    BY <1>1 DEF Bounds
  <2>2. \A w \in W : B(w) => w = maxSize[1]
    <3>. SUFFICES ASSUME NEW w \in W, B(w) PROVE w = maxSize[1]
      OBVIOUS
    <3>1. w \in Nat /\ w <= maxSize[1]
      BY <1>1, <1>3 DEF Bounds
    <3>2. maxSize[1] <= w
      BY <1>1 DEF Bounds
    <3> QED BY <1>2, <3>1, <3>2
  <2>. HIDE DEF W, B
  <2>3. (CHOOSE w \in W : B(w)) = maxSize[1]
    BY ONLY <2>1, <2>2
  <2> QED BY <2>3 DEF W, B
<1>5. (CHOOSE h \in {sizes[i][2] : i \in 1..taken} :
         \A i \in 1..taken : sizes[i][2] <= h) = maxSize[2]
  <2>. DEFINE H == {sizes[i][2] : i \in 1..taken}
              B(h) == \A i \in 1..taken : sizes[i][2] <= h
  <2>1. maxSize[2] \in H /\ B(maxSize[2])
    BY <1>1 DEF Bounds
  <2>2. \A h \in H : B(h) => h = maxSize[2]
    <3>. SUFFICES ASSUME NEW h \in H, B(h) PROVE h = maxSize[2]
      OBVIOUS
    <3>1. h \in Nat /\ h <= maxSize[2]
      BY <1>1, <1>3 DEF Bounds
    <3>2. maxSize[2] <= h
      BY <1>1 DEF Bounds
    <3> QED BY <1>2, <3>1, <3>2
  <2>. HIDE DEF H, B
  <2>3. (CHOOSE h \in H : B(h)) = maxSize[2]
    BY ONLY <2>1, <2>2
  <2> QED BY <2>3 DEF H, B
<1>6. maxSize = <<maxSize[1], maxSize[2]>>
  BY <1>2
<1> QED BY ONLY <1>1, <1>4, <1>5, <1>6

(* The size written to the config file is the maximum of all the pictures  *)
(* decoded, in any order of sizes, those refused included.                 *)
THEOREM ConfigIsCovering == Spec => []ConfigCoversStream
<1>1. Init => SizeInv
  BY DEF Init, Fresh, SizeInv, NoConfig
<1>2. IInv /\ SizeInv /\ [Next]_vars => SizeInv'
  BY NextSize
<1>3. IInv /\ SizeInv => ConfigCoversStream
  BY SizeIsMaximum
<1> QED BY <1>1, <1>2, <1>3, Invariance, PTL DEF Spec

-----------------------------------------------------------------------------
(* Every picture is in the outputs                                         *)

LEMMA AppendFrame ==
  ASSUME NEW f \in Seq(Cells), NEW w \in Seq(Cells), NEW k \in 1..Len(w),
         w[k] = FrameTag, \A i \in 1..Len(w) : w[i] = FrameTag => i = k
  PROVE  FrameCount(f \o w) = FrameCount(f) + 1
<1>. DEFINE g == f \o w
            Tags(cells) == {i \in 1..Len(cells) : cells[i] = FrameTag}
<1>1. /\ g \in Seq(Cells)
      /\ Len(g) = Len(f) + Len(w)
      /\ \A i \in 1..Len(f) + Len(w) : g[i] = IF i <= Len(f) THEN f[i] ELSE w[i - Len(f)]
  BY ONLY f \in Seq(Cells), w \in Seq(Cells), ConcatProperties
<1>2. Len(f) \in Nat /\ Len(w) \in Nat
  BY LenProperties
<1>3. Tags(g) = Tags(f) \cup {Len(f) + k}
  <2>1. \A i \in 1..Len(f) : i \in 1..Len(g) /\ g[i] = f[i]
    BY ONLY <1>1, <1>2
  <2>2. Len(f) + k \in 1..Len(g) /\ g[Len(f) + k] = w[k]
    <3>1. /\ Len(f) + k \in 1..Len(f) + Len(w) /\ ~(Len(f) + k <= Len(f))
          /\ Len(f) + k - Len(f) = k
      BY ONLY <1>2, k \in 1..Len(w)
    <3> QED BY ONLY <1>1, <3>1
  <2>3. ASSUME NEW i \in 1..Len(g), g[i] = FrameTag, i \notin 1..Len(f)
        PROVE  i = Len(f) + k
    <3>1. /\ i \in 1..Len(f) + Len(w) /\ ~(i <= Len(f))
          /\ i - Len(f) \in 1..Len(w)
      BY ONLY <1>1, <1>2, <2>3
    <3>2. w[i - Len(f)] = FrameTag
      BY ONLY <1>1, <2>3, <3>1
    <3>3. i - Len(f) = k
      BY <3>1, <3>2
    <3> QED BY ONLY <1>2, <3>1, <3>3
  <2>4. Tags(g) \subseteq Tags(f) \cup {Len(f) + k}
    BY <2>1, <2>3
  <2>5. Tags(f) \cup {Len(f) + k} \subseteq Tags(g)
    BY <2>1, <2>2
  <2> QED BY ONLY <2>4, <2>5
<1>4. Len(f) + k \notin Tags(f)
  BY <1>2
<1>5. IsFiniteSet(Tags(f))
  <2>1. IsFiniteSet(1..Len(f))
    BY <1>2, FS_Interval
  <2>2. Tags(f) \in SUBSET (1..Len(f))
    OBVIOUS
  <2> QED BY ONLY <2>1, <2>2, FS_Subset
<1>. HIDE DEF Tags, g
<1>6. Cardinality(Tags(f) \cup {Len(f) + k}) = Cardinality(Tags(f)) + 1
  BY ONLY <1>4, <1>5, FS_AddElement
<1> QED BY ONLY <1>3, <1>6 DEF FrameCount, Tags, g

(* No sample of a decoded picture is taken for a FRAME line.               *)
Samples(image) == \A i \in 1..Len(image.samples) : image.samples[i] # FrameTag

LEMMA PictureSamples ==
  ASSUME NEW f \in VideoFormats, NEW w \in Nat, NEW h \in Nat, NEW p \in Nat
  PROVE  Samples(Picture(p, f, w, h))
<1>. DEFINE samples == Picture(p, f, w, h).samples
<1>1. samples = [i \in 1..NumBytes(f, w, h) |-> Byte(p, i)]
  BY DEF Picture, Image
<1>2. NumBytes(f, w, h) \in Nat
  BY NumBytesNat
<1>3. Len(samples) = NumBytes(f, w, h)
  BY <1>1, <1>2
<1>4. \A i \in Nat : Byte(p, i).kind # FrameTag.kind
  BY DEF Byte, FrameTag
<1>5. \A i \in 1..Len(samples) : samples[i] = Byte(p, i) /\ i \in Nat
  BY <1>1, <1>2, <1>3
<1> QED BY <1>4, <1>5 DEF Samples

(* What is written for a picture has one FRAME line.                       *)
LEMMA OneFrame ==
  ASSUME outputInfo \in Infos, NEW image \in Images, Samples(image)
  PROVE  \E k \in 1..Len(Written(image)) :
           /\ Written(image)[k] = FrameTag
           /\ \A i \in 1..Len(Written(image)) : Written(image)[i] = FrameTag => i = k
<1>. DEFINE samples == image.samples
            tag == <<FrameTag>>
            frame == tag \o samples
            head == HeaderCells(image)
<1>3. samples \in Seq(Cells) /\ Len(samples) \in Nat
  <2>1. samples \in Seq(Plain)
    BY DEF Images
  <2>2. samples \in Seq(Cells)
    BY <2>1 DEF Cells
  <2> QED BY <2>2, LenProperties
<1>4. \A i \in 1..Len(samples) : samples[i] # FrameTag
  BY DEF Samples
<1>5. tag \in Seq(Cells) /\ Len(tag) = 1 /\ tag[1] = FrameTag
  BY DEF Cells, Plain
<1>6. head \in Seq(Cells) /\ Len(head) \in {0, 1} /\ (Len(head) = 1 => head[1] # FrameTag)
  <2>1. CASE HeaderNeeded
    <3>. DEFINE info == DefaultRates(NewInfo(image))
    <3>1. NewInfo(image) \in Infos /\ NewInfo(image).format \in VideoFormats
      <4>1. image.format \in VideoFormats
        BY DEF Images
      <4>2. NewInfo(image) \in Infos
        BY NewInfoType
      <4> QED BY <4>1, <4>2 DEF NewInfo, Infos
    <3>2. info \in Infos /\ info.format \in VideoFormats
      BY <3>1 DEF DefaultRates, Infos
    <3>3. Header(info) \in Headers
      BY <3>2, HeaderCell
    <3>4. Header(info).kind = "header" /\ FrameTag.kind = "frame"
      BY DEF Header, FrameTag
    <3>5. head = <<Header(info)>>
      BY <2>1 DEF HeaderCells
    <3>6. Header(info) \in Cells /\ Header(info) # FrameTag
      BY <3>3, <3>4 DEF Cells
    <3>. HIDE DEF info, head
    <3> QED BY ONLY <3>5, <3>6
  <2>2. CASE ~HeaderNeeded
    <3>1. head = <<>>
      BY <2>2 DEF HeaderCells
    <3> QED BY ONLY <3>1
  <2> QED BY <2>1, <2>2
<1>7. Written(image) = head \o frame
  BY DEF Written, FrameCells
<1>. HIDE DEF head, samples, tag
<1>8. /\ frame \in Seq(Cells) /\ Len(frame) = 1 + Len(samples)
      /\ \A i \in 1..1 + Len(samples) : frame[i] = IF i <= 1 THEN tag[i] ELSE samples[i - 1]
  <2>1. /\ frame \in Seq(Cells) /\ Len(frame) = Len(tag) + Len(samples)
        /\ \A i \in 1..Len(tag) + Len(samples) :
             frame[i] = IF i <= Len(tag) THEN tag[i] ELSE samples[i - Len(tag)]
    BY ONLY <1>3, <1>5, ConcatProperties
  <2> QED BY ONLY <1>5, <2>1
<1>9. frame[1] = FrameTag /\ \A i \in 1..Len(frame) : frame[i] = FrameTag => i = 1
  BY ONLY <1>3, <1>4, <1>5, <1>8
<1>. HIDE DEF frame
<1>10. /\ Len(head \o frame) = Len(head) + Len(frame)
       /\ \A i \in 1..Len(head) + Len(frame) :
            (head \o frame)[i] = IF i <= Len(head) THEN head[i] ELSE frame[i - Len(head)]
  BY ONLY <1>6, <1>8, ConcatProperties
<1>11. Len(head) + 1 \in 1..Len(head \o frame) /\ (head \o frame)[Len(head) + 1] = FrameTag
  BY ONLY <1>3, <1>6, <1>8, <1>9, <1>10
<1>12. \A i \in 1..Len(head \o frame) : (head \o frame)[i] = FrameTag => i = Len(head) + 1
  <2>. SUFFICES ASSUME NEW i \in 1..Len(head) + Len(frame), (head \o frame)[i] = FrameTag
                PROVE  i = Len(head) + 1
    BY <1>10
  <2>1. ~(i <= Len(head))
    BY <1>6, <1>10
  <2>2. i - Len(head) \in 1..Len(frame) /\ frame[i - Len(head)] = FrameTag
    BY <2>1, <1>3, <1>6, <1>8, <1>10
  <2>3. i - Len(head) = 1
    BY <1>9, <2>2
  <2> QED BY <2>3, <1>6
<1> QED BY <1>7, <1>11, <1>12

(* A decoder that stops at the first picture that is refused has put all   *)
(* the pictures decoded so far into its outputs.                           *)
CompleteInv ==
  stage = 1 /\ klass = "ffmpeg" /\ ~options.benchmark /\ exit \in {"none", "success"} =>
    /\ options.report => imageIndex = taken
    /\ (options.report \/ options.output) /\ taken # 0 => IsYuv(format)
    /\ options.output /\ ~lost => FrameCount(file) = taken
    /\ pc \in {"dump", "free", "end"} => taken = Len(sizes)

(* The exit status is decided at the end.                                  *)
RunningInv == pc \in {"init", "run", "dump"} => exit = "none"

LEMMA NextRunning ==
  ASSUME RunningInv, [Next]_vars
  PROVE  RunningInv'
<1>. USE DEF RunningInv, mainVars
<1>1. CASE DecodePicture
  BY <1>1 DEF DecodePicture, Decoding, HandleImage, Accept, Reject, WriteFails, Refused
<1>2. CASE ReadImage
  BY <1>2 DEF ReadImage, Reading, HandleImage, Accept, Reject, WriteFails, Refused
<1>3. CASE InitSucceeds \/ OpenInput \/ InitFails \/ InitCrashes
  BY <1>3 DEF InitSucceeds, OpenInput, InitFails, InitCrashes
<1>4. CASE SkipPicture \/ DecodeEnds \/ DecodeFails
  BY <1>4 DEF SkipPicture, Decoding, DecodeEnds, DecodeFails
<1>5. CASE ReadEnds \/ SkipSamples \/ ReadCrashes
  BY <1>5 DEF ReadEnds, SkipSamples, ReadCrashes, Misplaced, Reading
<1>6. CASE DumpConfig \/ DumpCrashes \/ Free \/ Rerun
  BY <1>6 DEF DumpConfig, DumpCrashes, Free, Rerun
<1>7. CASE UNCHANGED vars
  BY <1>7 DEF vars
<1> QED BY <1>1, <1>2, <1>3, <1>4, <1>5, <1>6, <1>7 DEF Next, Terminated

LEMMA DecodePictureComplete ==
  ASSUME IInv, CompleteInv, DecodePicture
  PROVE  CompleteInv'
<1>. DEFINE size == sizes[taken + 1]
            image == Picture(taken + 1, format, size[1], size[2])
<1>1. /\ pc = "run" /\ taken < Len(sizes) /\ taken' = taken + 1
      /\ ~options.benchmark /\ HandleImage(image)
      /\ UNCHANGED <<stage, klass, options, sizes, format, lost>>
  BY DEF DecodePicture, Decoding, commandVars
<1>2. /\ sizes \in Seq((Nat \ {0}) \X (Nat \ {0}))
      /\ format \in VideoFormats /\ taken \in 0..Len(sizes)
      /\ outputInfo \in Infos /\ file \in Seq(Cells)
  BY DecoderCoreAssumption DEF IInv, TypeOK, FileInv
<1>3. Len(sizes) \in Nat /\ taken \in Nat /\ taken + 1 \in 1..Len(sizes)
  BY <1>1, <1>2, LenProperties
<1>4. size[1] \in Nat /\ size[2] \in Nat
  <2>1. size \in (Nat \ {0}) \X (Nat \ {0})
    BY ONLY <1>2, <1>3, ElementOfSeq
  <2> QED BY <2>1
<1>. HIDE DEF size
<1>5. image.format = format /\ image \in Images /\ Samples(image)
  <2>1. taken + 1 \in Nat
    BY <1>3
  <2> QED BY <1>2, <1>4, <2>1, PictureIsImage, PictureSamples DEF Picture, Image
<1>. HIDE DEF image
<1>6. /\ Written(image) \in Seq(Cells)
      /\ \E k \in 1..Len(Written(image)) :
           /\ Written(image)[k] = FrameTag
           /\ \A i \in 1..Len(Written(image)) : Written(image)[i] = FrameTag => i = k
  BY ONLY <1>2, <1>5, OneFrame, WrittenCells
<1>7. FrameCount(file \o Written(image)) = FrameCount(file) + 1
  BY ONLY <1>2, <1>6, AppendFrame
<1>8. SUFFICES ASSUME stage = 1, klass = "ffmpeg", exit' \in {"none", "success"}
               PROVE  /\ options.report => imageIndex' = taken'
                      /\ options.report \/ options.output => IsYuv(format)
                      /\ options.output /\ ~lost => FrameCount(file') = taken'
                      /\ pc' \notin {"dump", "free", "end"}
  BY <1>1 DEF CompleteInv
<1>9. ~Refused
  BY <1>8 DEF Refused
<1>10. Accept(image)
  BY <1>1, <1>9 DEF HandleImage, Reject, WriteFails
<1>11. pc' = pc /\ exit' = exit
  BY <1>10 DEF Accept, mainVars
<1>12. /\ options.report => imageIndex = taken
       /\ options.output /\ ~lost => FrameCount(file) = taken
  BY <1>1, <1>8, <1>11 DEF CompleteInv
<1>13. options.report => imageIndex' = imageIndex + 1
  BY <1>1, <1>10 DEF Accept, Reports, WriteReport
<1>14. options.output => file' = file \o Written(image)
  BY <1>1, <1>10 DEF Accept, Writes
<1>15. options.report \/ options.output => IsYuv(format)
  BY <1>1, <1>5, <1>10 DEF Accept, Reports, Writes
<1>16. options.report => imageIndex' = taken'
  BY <1>1, <1>12, <1>13
<1>17. options.output /\ ~lost => FrameCount(file') = taken'
  BY <1>1, <1>7, <1>12, <1>14
<1> QED BY <1>1, <1>11, <1>15, <1>16, <1>17

LEMMA NextComplete ==
  ASSUME IInv, RunningInv, CompleteInv, [Next]_vars
  PROVE  CompleteInv'
<1>1. ASSUME UNCHANGED <<stage, klass, options, sizes, format, taken, imageIndex>>,
             exit' \in {"none", "success"} => exit \in {"none", "success"},
             UNCHANGED <<file, lost>> \/ lost',
             \/ pc' \in {"init", "run"}
             \/ exit' \notin {"none", "success"}
             \/ klass # "ffmpeg" \/ taken = Len(sizes)
             \/ pc \in {"dump", "free", "end"}
      PROVE  CompleteInv'
  <2>. SUFFICES ASSUME stage = 1, klass = "ffmpeg", ~options.benchmark,
                       exit \in {"none", "success"}, exit' \in {"none", "success"}
                PROVE  /\ options.report => imageIndex = taken
                       /\ (options.report \/ options.output) /\ taken # 0 => IsYuv(format)
                       /\ options.output /\ ~lost' => FrameCount(file)' = taken
                       /\ pc' \in {"dump", "free", "end"} => taken = Len(sizes)
    BY <1>1 DEF CompleteInv
  <2>1. options.output /\ ~lost' => FrameCount(file') = taken
    BY <1>1 DEF CompleteInv
  <2> QED BY <1>1, <2>1 DEF CompleteInv
<1>2. pc = "dump" => exit = "none"
  BY DEF RunningInv
<1>. USE DEF commandVars, mainVars, decoderVars, reportVars, fileVars
<1>3. CASE InitSucceeds
  BY <1>1, <1>3 DEF InitSucceeds
<1>4. CASE OpenInput
  BY <1>1, <1>4 DEF OpenInput
<1>5. CASE InitFails
  BY <1>1, <1>5 DEF InitFails
<1>6. CASE InitCrashes
  BY <1>1, <1>6 DEF InitCrashes
<1>7. CASE DecodePicture
  BY <1>7, DecodePictureComplete
<1>8. CASE SkipPicture
  BY <1>8 DEF SkipPicture, CompleteInv
<1>9. CASE DecodeEnds
  BY <1>1, <1>9 DEF DecodeEnds
<1>10. CASE DecodeFails
  BY <1>1, <1>10 DEF DecodeFails
<1>11. CASE ReadImage
  BY <1>11 DEF ReadImage, Reading, CompleteInv
<1>12. CASE ReadEnds
  BY <1>1, <1>12 DEF ReadEnds, Reading
<1>13. CASE SkipSamples
  BY <1>1, <1>13 DEF SkipSamples, Misplaced, Reading
<1>14. CASE ReadCrashes
  BY <1>1, <1>14 DEF ReadCrashes, LoseTail
<1>15. CASE DumpConfig
  BY <1>1, <1>2, <1>15 DEF DumpConfig
<1>16. CASE DumpCrashes
  BY <1>1, <1>16 DEF DumpCrashes, LoseTail
<1>17. CASE Free
  BY <1>1, <1>17 DEF Free, LoseTail
<1>18. CASE Rerun
  BY <1>18 DEF Rerun, CompleteInv
<1>19. CASE UNCHANGED vars
  BY <1>1, <1>19 DEF IInv, TypeOK, vars
<1> QED
  BY <1>3, <1>4, <1>5, <1>6, <1>7, <1>8, <1>9, <1>10, <1>11, <1>12, <1>13,
     <1>14, <1>15, <1>16, <1>17, <1>18, <1>19 DEF Next, Terminated

(* A decoder tool that stops at the first picture which handle_image()     *)
(* refuses, and exits with success, has reported and written all of them:  *)
(* no failure of a hash, a report or a write passes for a success.         *)
THEOREM NothingIsMissing == Spec => []OutputsComplete
<1>1. Init => CompleteInv /\ RunningInv
  <2>. SUFFICES ASSUME Init PROVE CompleteInv /\ RunningInv
    OBVIOUS
  <2>1. Len(<<>>) = 0
    OBVIOUS
  <2>2. {i \in 1..Len(file) : file[i] = FrameTag} = {}
    BY <2>1 DEF Init, Fresh
  <2>3. FrameCount(file) = 0
    BY ONLY <2>2, FS_EmptySet DEF FrameCount
  <2> QED BY <2>3 DEF Init, Fresh, CompleteInv, RunningInv
<1>2. IInv /\ RunningInv /\ CompleteInv /\ [Next]_vars => RunningInv' /\ CompleteInv'
  BY NextComplete, NextRunning
<1>3. IInv /\ RunningInv /\ CompleteInv => OutputsComplete
  <2>. SUFFICES ASSUME IInv, RunningInv, CompleteInv, stage = 1, klass = "ffmpeg",
                       exit = "success", ~options.benchmark
                PROVE  /\ options.report => imageIndex = Len(sizes)
                       /\ options.report \/ options.output => IsYuv(format) \/ sizes = <<>>
                       /\ options.output /\ ~lost => FrameCount(file) = Len(sizes)
    BY DEF OutputsComplete
  <2>1. pc \in {"dump", "free", "end"}
    BY DEF IInv, TypeOK, RunningInv
  <2>2. taken = Len(sizes)
    BY <2>1 DEF CompleteInv
  <2>3. taken = 0 => sizes = <<>>
    <3>1. sizes \in Seq((Nat \ {0}) \X (Nat \ {0}))
      BY DecoderCoreAssumption DEF IInv, TypeOK
    <3> QED BY <2>2, <3>1, EmptySeq
  <2> QED BY <2>2, <2>3 DEF CompleteInv
<1> QED BY <1>1, <1>2, <1>3, Invariance, PTL DEF Spec

-----------------------------------------------------------------------------
(* What is read back                                                       *)

(* The decoder is one that stops at the first picture that is refused, or  *)
(* gen_ref_rawvideo behind such a decoder.                                 *)
Stopping == IF stage = 1 THEN klass = "ffmpeg" ELSE first.klass = "ffmpeg"

Width  == sizes[1][1]
Height == sizes[1][2]

(* The cells that one picture takes in the file.                           *)
Stride == NumBytes(format, Width, Height) + 1

Rate == IF Fps = 0 THEN 60 ELSE Fps

(* The file and the report of a stream of one size, cell by cell and line  *)
(* by line.                                                                *)
Cell(i) ==
  IF i = 1
    THEN Header([format |-> format, width |-> Width, height |-> Height, fps |-> Rate])
    ELSE IF (i - 2) % Stride = 0
           THEN FrameTag
           ELSE Byte((i - 2) \div Stride + 1, (i - 2) % Stride)

Entry(i) ==
  IF i = 1
    THEN Heading
    ELSE [kind |-> "line", index |-> i - 2, width |-> Width, height |-> Height,
          hash |-> Hash(Picture(i - 1, format, Width, Height))]

Shaped(cells) == \A i \in 1..Len(cells) : cells[i] = Cell(i)

Reported(lines) == \A i \in 1..Len(lines) : lines[i] = Entry(i)

Good == exit \in {"none", "success"}

(* Cells of a file that holds n whole pictures.                            *)
Whole(n) == IF n = 0 THEN 0 ELSE 1 + n * Stride

(* What handle_image() has made of the pictures so far: a part of that     *)
(* file and of that report, all of it as long as nothing has failed, and   *)
(* never more in the file than in the report.                              *)
OutInv ==
  /\ Shaped(file) /\ Reported(report)
  /\ file # <<>> \/ report # <<>> => sizes # <<>> /\ IsYuv(format)
  /\ Reports => file = <<>> \/ (imageIndex > 0 /\ Len(file) <= 1 + imageIndex * Stride)
  /\ ~Writes => file = <<>>
  /\ Good /\ Writes /\ ~lost => Len(file) = Whole(numFrames)
  /\ Good /\ Reports => imageIndex = numFrames
  /\ pc \in {"init", "run"} /\ numFrames = 0 => ~ready
  /\ pc = "run" => DefaultRates(outputInfo).fps = Rate
  /\ pc # "end" => ~lost

(* The pictures of the first run are counted as they are decoded.          *)
CountInv == stage = 1 /\ Good /\ ~options.benchmark => numFrames = taken

(* What the first run has left behind.                                     *)
SourceInv ==
  stage = 2 =>
    /\ Shaped(input)
    /\ input # <<>> => sizes # <<>> /\ IsYuv(format)
    /\ input # <<>> /\ first.reports =>
         /\ Reported(first.report) /\ Len(first.report) \in Nat \ {0}
         /\ Len(input) <= 1 + (Len(first.report) - 1) * Stride
    /\ input # <<>> /\ first.exit = "success" /\ ~first.lost =>
         \E n \in Nat \ {0} :
           /\ Len(input) = 1 + n * Stride
           /\ first.reports => Len(first.report) = n + 1

(* The header as it has been read.                                         *)
HeaderRead ==
  /\ inputInfo.width = Width /\ inputInfo.height = Height /\ inputInfo.fps = Rate
  /\ inputInfo.format \in VideoFormats
  /\ VideoFormatInfo[inputInfo.format] = VideoFormatInfo[format]

(* The reader stands in front of a FRAME line, or at the end of the file,  *)
(* and nothing is in the outputs that has not been read.                   *)
ReadInv ==
  stage = 2 =>
    /\ pc = "init" => numFrames = 0 /\ imageIndex = 0 /\ file = <<>>
    /\ pc # "init" /\ Good =>
         /\ input # <<>> /\ HeaderRead /\ pos = 2 + numFrames * Stride
         /\ pc # "run" => ~HasImage(input, pos, inputInfo)
    /\ Len(file) < pos
    /\ imageIndex > 0 => 1 + imageIndex * Stride < pos

ClassInv ==
  IF stage = 1 THEN klass \in {"ffmpeg", "gstreamer"}
               ELSE klass = "rawvideo" /\ first.klass \in {"ffmpeg", "gstreamer"}


-----------------------------------------------------------------------------
(* Formats that a file does not tell apart                                 *)

LEMMA InfoRecord ==
  ASSUME NEW f \in VideoFormats
  PROVE  /\ VideoFormatInfo[f] =
              Info(VideoFormatInfo[f].chroma, VideoFormatInfo[f].components,
                   VideoFormatInfo[f].depth)
         /\ VideoFormatInfo[f].chroma = "400" => VideoFormatInfo[f].components = 1
         /\ VideoFormatInfo[f].chroma \in {"420", "422"} =>
              VideoFormatInfo[f].components = 3
         /\ VideoFormatInfo[f].components \in {1, 3, 4}
         /\ VideoFormatInfo[f].chroma = "444" => VideoFormatInfo[f].components \in {3, 4}
<1>1. VideoFormatInfo[f] =
        Info(VideoFormatInfo[f].chroma, VideoFormatInfo[f].components,
             VideoFormatInfo[f].depth)
  BY DEF VideoFormats, VideoFormatInfo, Info
<1>2. /\ VideoFormatInfo[f].chroma = "400" => VideoFormatInfo[f].components = 1
      /\ VideoFormatInfo[f].chroma \in {"420", "422"} =>
           VideoFormatInfo[f].components = 3
  BY DEF VideoFormats, VideoFormatInfo, Info
<1>3. /\ VideoFormatInfo[f].components \in {1, 3, 4}
      /\ VideoFormatInfo[f].chroma = "444" => VideoFormatInfo[f].components \in {3, 4}
  BY DEF VideoFormats, VideoFormatInfo, Info
<1> QED BY <1>1, <1>2, <1>3

(* The header and the size of a picture depend on the table entry only.    *)
LEMMA SameEntry ==
  ASSUME NEW f \in VideoFormats, NEW g \in VideoFormats,
         VideoFormatInfo[f] = VideoFormatInfo[g], NEW w \in Nat, NEW h \in Nat
  PROVE  /\ IsYuv(f) <=> IsYuv(g)
         /\ Colorspace(f) = Colorspace(g)
         /\ \A n \in 1..4 : BytesOf(f, w, h, n) = BytesOf(g, w, h, n)
         /\ NumBytes(f, w, h) = NumBytes(g, w, h)
<1>1. IsYuv(f) <=> IsYuv(g)
  BY DEF IsYuv
<1>2. Colorspace(f) = Colorspace(g)
  BY DEF Colorspace
<1>3. /\ ChromaWidth(f, w) = ChromaWidth(g, w)
      /\ ChromaHeight(f, h) = ChromaHeight(g, h)
      /\ BytesPerSample(f) = BytesPerSample(g)
  BY DEF ChromaWidth, ChromaHeight, BytesPerSample
<1>4. \A n \in 1..4 : BytesOf(f, w, h, n) = BytesOf(g, w, h, n)
  BY <1>3 DEF BytesOf
<1> QED BY <1>1, <1>2, <1>4, InfoType DEF NumBytes

LEMMA Colorspaces ==
  ASSUME NEW f \in VideoFormats, IsYuv(f)
  PROVE  /\ VideoFormatInfo[f].chroma = "400" <=> Colorspace(f) = "mono"
         /\ VideoFormatInfo[f].chroma = "420" <=> Colorspace(f) = "420"
         /\ VideoFormatInfo[f].chroma = "422" <=> Colorspace(f) = "422"
<1>1. VideoFormatInfo[f].chroma \in {"400", "420", "422", "444"}
  BY InfoType DEF IsYuv
<1>2. CASE VideoFormatInfo[f].chroma = "400"
  BY <1>2 DEF Colorspace
<1>3. CASE VideoFormatInfo[f].chroma = "420"
  BY <1>3 DEF Colorspace
<1>4. CASE VideoFormatInfo[f].chroma = "422"
  BY <1>4 DEF Colorspace
<1>5. CASE VideoFormatInfo[f].chroma = "444"
  BY <1>5 DEF Colorspace
<1> QED BY <1>1, <1>2, <1>3, <1>4, <1>5

(* What stands for a YUV format in a header, and is read at all, is read   *)
(* as a format of the same layout.                                         *)
LEMMA ReadBack ==
  ASSUME NEW f \in VideoFormats, IsYuv(f),
         ReadFormat(Colorspace(f), VideoFormatInfo[f].depth) # "unknown"
  PROVE  LET g == ReadFormat(Colorspace(f), VideoFormatInfo[f].depth)
         IN  g \in VideoFormats /\ VideoFormatInfo[g] = VideoFormatInfo[f]
<1>. DEFINE depth == VideoFormatInfo[f].depth
            g == ReadFormat(Colorspace(f), depth)
<1>1. g \in VideoFormats /\ <<Colorspace(f), depth, g>> \in Y4mFormats
  BY DEF ReadFormat
<1>2. \A t \in Y4mFormats :
        /\ t[1] = Colorspace(t[3]) /\ t[2] = VideoFormatInfo[t[3]].depth
        /\ IsYuv(t[3])
  BY DEF Y4mFormats, Colorspace, IsYuv, VideoFormatInfo, Info
<1>. HIDE DEF g, depth
<1>3. Colorspace(g) = Colorspace(f) /\ VideoFormatInfo[g].depth = depth /\ IsYuv(g)
  BY ONLY <1>1, <1>2
<1>4. /\ VideoFormatInfo[g].chroma = VideoFormatInfo[f].chroma
      /\ VideoFormatInfo[g].components = VideoFormatInfo[f].components
  <2>1. /\ VideoFormatInfo[f].chroma \in {"400", "420", "422", "444"}
        /\ VideoFormatInfo[g].chroma \in {"400", "420", "422", "444"}
    BY <1>1, <1>3, InfoType DEF IsYuv
  <2>2. VideoFormatInfo[g].chroma = VideoFormatInfo[f].chroma
    BY <1>1, <1>3, <2>1, Colorspaces
  <2>3. VideoFormatInfo[f].chroma = "444" =>
          (VideoFormatInfo[g].components = 4 <=> VideoFormatInfo[f].components = 4)
    BY ONLY <1>3, <2>2 DEF Colorspace
  <2> QED BY <1>1, <2>1, <2>2, <2>3, InfoRecord
<1> QED BY <1>1, <1>3, <1>4, InfoRecord DEF g, depth

-----------------------------------------------------------------------------
(* The cells of a file, and where they are                                 *)

LEMMA DivMod ==
  ASSUME NEW m \in Nat \ {0}, NEW k \in Nat, NEW j \in 0..m - 1
  PROVE  (k * m + j) \div m = k /\ (k * m + j) % m = j
OBVIOUS

LEMMA Product ==
  ASSUME NEW m \in Nat \ {0}, NEW k \in Nat, NEW n \in Nat
  PROVE  /\ (k + 1) * m = k * m + m /\ k * m \in Nat
         /\ k < n => k * m + m <= n * m
         /\ k * m <= n * m => k <= n
         /\ k <= n => k * m <= n * m
OBVIOUS

LEMMA SizeOfPictures ==
  ASSUME IInv, sizes # <<>>
  PROVE  /\ Width \in Nat /\ Height \in Nat
         /\ Stride \in Nat \ {0} /\ Stride - 1 = NumBytes(format, Width, Height)
         /\ OneSize => \A i \in 1..Len(sizes) : sizes[i] = sizes[1]
<1>1. sizes \in Seq((Nat \ {0}) \X (Nat \ {0})) /\ format \in VideoFormats
  BY DecoderCoreAssumption DEF IInv, TypeOK
<1>2. 1 \in 1..Len(sizes)
  BY <1>1, LenProperties, EmptySeq
<1>3. sizes[1] \in (Nat \ {0}) \X (Nat \ {0})
  BY ONLY <1>1, <1>2, ElementOfSeq
<1>4. Width \in Nat /\ Height \in Nat
  BY <1>3 DEF Width, Height
<1>5. NumBytes(format, Width, Height) \in Nat
  BY <1>1, <1>4, NumBytesNat
<1>6. Stride \in Nat \ {0} /\ Stride - 1 = NumBytes(format, Width, Height)
  BY <1>5 DEF Stride
<1> QED BY <1>2, <1>4, <1>6 DEF OneSize

(* The cells of the picture with number k + 1.                             *)
LEMMA PictureCells ==
  ASSUME Stride \in Nat \ {0}, NEW k \in Nat, NEW j \in 0..Stride - 1
  PROVE  Cell(2 + k * Stride + j) = IF j = 0 THEN FrameTag ELSE Byte(k + 1, j)
<1>1. k * Stride \in Nat
  OBVIOUS
<1>2. 2 + k * Stride + j # 1 /\ 2 + k * Stride + j - 2 = k * Stride + j
  BY <1>1
<1>3. (k * Stride + j) \div Stride = k /\ (k * Stride + j) % Stride = j
  BY DivMod
<1> QED BY <1>2, <1>3 DEF Cell

(* The samples of the picture with number k + 1, when the file has them.   *)
LEMMA SamplesBehindFrame ==
  ASSUME Stride \in Nat \ {0}, NEW k \in Nat, NEW cells \in Seq(Cells),
         Shaped(cells), 2 + k * Stride + Stride - 1 <= Len(cells)
  PROVE  SubSeq(cells, 2 + k * Stride + 1, 2 + k * Stride + Stride - 1)
           = [i \in 1..Stride - 1 |-> Byte(k + 1, i)]
<1>. DEFINE from == 2 + k * Stride + 1
            to == 2 + k * Stride + Stride - 1
            samples == SubSeq(cells, from, to)
            bytes == [i \in 1..Stride - 1 |-> Byte(k + 1, i)]
<1>1. /\ Stride \in Nat \ {0} /\ Stride - 1 \in Nat /\ k * Stride \in Nat
      /\ k + 1 \in Nat /\ Len(cells) \in Nat
  BY Product, LenProperties
<1>2. from \in Int /\ to \in Int /\ to - from + 1 = Stride - 1
      /\ from = 3 + k * Stride /\ to = 1 + k * Stride + Stride
  BY <1>1
<1>3. /\ bytes \in Seq(Cells) /\ Len(bytes) = Stride - 1
      /\ \A i \in 1..Stride - 1 : bytes[i] = Byte(k + 1, i)
  <2>1. \A i \in 1..Stride - 1 : Byte(k + 1, i) \in Cells
    BY <1>1 DEF Byte, Cells, Plain
  <2>2. bytes \in [1..Stride - 1 -> Cells]
    BY <2>1
  <2>3. bytes \in Seq(Cells)
    BY ONLY <1>1, <2>2, FunctionIsSeq
  <2> QED BY <1>1, <2>3
<1>. HIDE DEF from, to, bytes
<1>4. \A i \in from..to : i \in 1..Len(cells)
  BY <1>1, <1>2
<1>5. \A i \in from..to : cells[i] \in Cells
  BY <1>4, ElementOfSeq
<1>6. /\ samples \in Seq(Cells)
      /\ Len(samples) = IF from <= to THEN to - from + 1 ELSE 0
      /\ \A i \in 1..to - from + 1 : samples[i] = cells[from + i - 1]
  BY ONLY <1>2, <1>5, SubSeqProperties
<1>. HIDE DEF samples
<1>7. Len(samples) = Stride - 1
  <2>1. CASE from <= to
    BY ONLY <1>2, <1>6, <2>1
  <2>2. CASE ~(from <= to)
    BY ONLY <1>1, <1>2, <1>6, <2>2
  <2> QED BY <2>1, <2>2
<1>8. ASSUME NEW i \in 1..Stride - 1
      PROVE  samples[i] = bytes[i]
  <2>1. from + i - 1 = 2 + k * Stride + i /\ from + i - 1 \in from..to
        /\ i \in 0..Stride - 1 /\ i # 0
    BY <1>1, <1>2
  <2>2. samples[i] = cells[2 + k * Stride + i] /\ 2 + k * Stride + i \in 1..Len(cells)
    BY <1>2, <1>4, <1>6, <2>1
  <2>3. Cell(2 + k * Stride + i) = Byte(k + 1, i)
    BY <2>1, PictureCells
  <2> QED BY <1>3, <2>2, <2>3 DEF Shaped
<1>9. samples = bytes
  BY ONLY <1>3, <1>6, <1>7, <1>8, SeqEqual
<1> QED BY <1>9 DEF samples, bytes, from, to

-----------------------------------------------------------------------------
(* What handle_image() makes of a picture of such a stream                 *)

(* The picture with number n, from the decoder or from the file.           *)
IsPicture(image, n) ==
  /\ image \in Images
  /\ image.width = Width /\ image.height = Height
  /\ VideoFormatInfo[image.format] = VideoFormatInfo[format]
  /\ image.samples = [i \in 1..Stride - 1 |-> Byte(n, i)]

LEMMA FrameLayout ==
  ASSUME Stride \in Nat \ {0}, NEW k \in Nat, NEW image, IsPicture(image, k + 1)
  PROVE  /\ FrameCells(image) \in Seq(Cells)
         /\ Len(FrameCells(image)) = Stride
         /\ \A j \in 1..Stride : FrameCells(image)[j] = Cell(1 + k * Stride + j)
<1>. DEFINE samples == image.samples
            tag == <<FrameTag>>
<1>1. samples \in Seq(Cells)
  <2>1. samples \in Seq(Plain)
    BY DEF IsPicture, Images
  <2> QED BY <2>1 DEF Cells
<1>2. Len(samples) = Stride - 1 /\ \A i \in 1..Stride - 1 : samples[i] = Byte(k + 1, i)
  <2>1. samples = [i \in 1..Stride - 1 |-> Byte(k + 1, i)] /\ Stride - 1 \in Nat
    BY DEF IsPicture
  <2> QED BY ONLY <2>1
<1>3. tag \in Seq(Cells) /\ Len(tag) = 1 /\ tag[1] = FrameTag
  BY DEF Cells, Plain
<1>. HIDE DEF samples, tag
<1>4. /\ tag \o samples \in Seq(Cells)
      /\ Len(tag \o samples) = Len(tag) + Len(samples)
      /\ \A i \in 1..Len(tag) + Len(samples) :
           (tag \o samples)[i] = IF i <= Len(tag) THEN tag[i] ELSE samples[i - Len(tag)]
  BY ONLY <1>1, <1>3, ConcatProperties
<1>5. Len(tag \o samples) = Stride
  BY <1>2, <1>3, <1>4
<1>6. \A j \in 1..Stride : (tag \o samples)[j] = Cell(1 + k * Stride + j)
  <2>. SUFFICES ASSUME NEW j \in 1..Stride
                PROVE  (tag \o samples)[j] = Cell(1 + k * Stride + j)
    OBVIOUS
  <2>1. j - 1 \in 0..Stride - 1 /\ k * Stride \in Nat
    OBVIOUS
  <2>2. 1 + k * Stride + j = 2 + k * Stride + (j - 1)
    BY <2>1
  <2>3. Cell(1 + k * Stride + j) = IF j - 1 = 0 THEN FrameTag ELSE Byte(k + 1, j - 1)
    BY <2>1, <2>2, PictureCells
  <2>4. (tag \o samples)[j] = IF j <= 1 THEN tag[j] ELSE samples[j - 1]
    BY <1>2, <1>3, <1>4
  <2>5. CASE j = 1
    BY <1>3, <2>3, <2>4, <2>5
  <2>6. CASE j # 1
    <3>1. j - 1 \in 1..Stride - 1 /\ ~(j <= 1) /\ j - 1 # 0
      BY <2>1, <2>6
    <3> QED BY <1>2, <2>3, <2>4, <3>1
  <2> QED BY <2>5, <2>6
<1>7. FrameCells(image) = tag \o samples
  BY DEF FrameCells, tag, samples
<1> QED BY <1>4, <1>5, <1>6, <1>7

(* The header that is written is that of the stream.                       *)
LEMMA HeaderLayout ==
  ASSUME outputInfo \in Infos, DefaultRates(outputInfo).fps = Rate,
         NEW k, NEW image, IsPicture(image, k), format \in VideoFormats,
         Width \in Nat, Height \in Nat
  PROVE  Header(DefaultRates(NewInfo(image))) = Cell(1)
<1>. DEFINE info == NewInfo(image)
<1>1. /\ info.format = image.format /\ info.width = Width /\ info.height = Height
      /\ info.fps = outputInfo.fps /\ info \in Infos
  <2>1. info \in Infos
    BY NewInfoType DEF IsPicture
  <2> QED BY <2>1 DEF NewInfo, IsPicture, Infos
<1>2. /\ DefaultRates(info).format = image.format
      /\ DefaultRates(info).width = Width /\ DefaultRates(info).height = Height
      /\ DefaultRates(info).fps = Rate
  <2>1. DefaultRates(info).fps = DefaultRates(outputInfo).fps
    BY <1>1 DEF DefaultRates, Infos
  <2> QED BY <1>1, <2>1 DEF DefaultRates, Infos
<1>3. /\ Colorspace(image.format) = Colorspace(format)
      /\ VideoFormatInfo[image.format].depth = VideoFormatInfo[format].depth
  <2>1. image.format \in VideoFormats
    BY DEF IsPicture, Images
  <2> QED BY <2>1, SameEntry DEF IsPicture
<1>. HIDE DEF info
<1>4. Cell(1) = Header([format |-> format, width |-> Width, height |-> Height,
                        fps |-> Rate])
  BY DEF Cell
<1> QED BY ONLY <1>2, <1>3, <1>4 DEF Header, info

LEMMA WrittenLayout ==
  ASSUME IInv, OneSize, sizes # <<>>, NEW image, IsPicture(image, numFrames + 1),
         DefaultRates(outputInfo).fps = Rate, numFrames = 0 => ~ready
  PROVE  /\ Written(image) \in Seq(Cells)
         /\ Whole(numFrames) + Len(Written(image)) = 1 + (numFrames + 1) * Stride
         /\ \A j \in 1..Len(Written(image)) :
              Written(image)[j] = Cell(Whole(numFrames) + j)
<1>. DEFINE frame == FrameCells(image)
<1>1. /\ Width \in Nat /\ Height \in Nat /\ Stride \in Nat \ {0}
      /\ numFrames \in Nat /\ outputInfo \in Infos /\ format \in VideoFormats
  BY SizeOfPictures DEF IInv, TypeOK
<1>2. /\ frame \in Seq(Cells) /\ Len(frame) = Stride
      /\ \A j \in 1..Stride : frame[j] = Cell(1 + numFrames * Stride + j)
  BY <1>1, FrameLayout
<1>3. Written(image) \in Seq(Cells)
  BY <1>1, WrittenCells DEF IsPicture
<1>4. /\ numFrames * Stride \in Nat
      /\ (numFrames + 1) * Stride = numFrames * Stride + Stride
  BY ONLY <1>1, Product
<1>. HIDE DEF frame
<1>5. CASE numFrames = 0
  <2>. DEFINE head == <<Cell(1)>>
  <2>1. HeaderNeeded
    BY <1>5 DEF HeaderNeeded
  <2>2. HeaderCells(image) = head
    BY <1>1, <2>1, HeaderLayout DEF HeaderCells
  <2>3. Cell(1) \in Cells
    <3>. DEFINE info == [format |-> format, width |-> Width, height |-> Height,
                         fps |-> Rate]
    <3>1. Rate \in Nat
      BY DecoderCoreAssumption DEF Rate
    <3>2. info \in Infos /\ info.format \in VideoFormats
      BY <1>1, <3>1 DEF Infos
    <3>. HIDE DEF info
    <3>3. Header(info) \in Headers
      BY <3>2, HeaderCell
    <3> QED BY <3>3 DEF Cell, Cells, info
  <2>4. head \in Seq(Cells) /\ Len(head) = 1 /\ head[1] = Cell(1)
    BY <2>3
  <2>5. Written(image) = head \o frame
    BY <2>2 DEF Written, frame
  <2>. HIDE DEF head
  <2>6. /\ Len(head \o frame) = Len(head) + Len(frame)
        /\ \A i \in 1..Len(head) + Len(frame) :
             (head \o frame)[i] = IF i <= Len(head) THEN head[i] ELSE frame[i - Len(head)]
    BY ONLY <1>2, <2>4, ConcatProperties
  <2>7. Len(Written(image)) = 1 + Stride
    BY <1>1, <1>2, <2>4, <2>5, <2>6
  <2>8. Whole(numFrames) = 0 /\ numFrames * Stride = 0 /\ (numFrames + 1) * Stride = Stride
    BY <1>1, <1>4, <1>5 DEF Whole
  <2>9. \A j \in 1..1 + Stride : (head \o frame)[j] = Cell(j)
    <3>. SUFFICES ASSUME NEW j \in 1..1 + Stride
                  PROVE  (head \o frame)[j] = Cell(j)
      OBVIOUS
    <3>1. CASE j = 1
      BY <1>1, <1>2, <2>4, <2>6, <3>1
    <3>2. CASE j # 1
      <4>1. j - 1 \in 1..Stride /\ ~(j <= 1) /\ 1 + 0 + (j - 1) = j
        BY <1>1, <3>2
      <4>2. (head \o frame)[j] = frame[j - 1]
        BY <1>1, <1>2, <2>4, <2>6, <4>1
      <4> QED BY <1>2, <2>8, <4>1, <4>2
    <3> QED BY <3>1, <3>2
  <2>10. Whole(numFrames) + Len(Written(image)) = 1 + (numFrames + 1) * Stride
    BY <1>1, <2>7, <2>8
  <2>11. ASSUME NEW j \in 1..Len(Written(image))
         PROVE  Written(image)[j] = Cell(Whole(numFrames) + j)
    <3>1. j \in 1..1 + Stride /\ Whole(numFrames) + j = j
      BY <1>1, <2>7, <2>8
    <3> QED BY <2>5, <2>9, <3>1
  <2> QED BY <1>3, <2>10, <2>11
<1>6. CASE numFrames # 0
  <2>1. HeaderCells(image) = <<>>
    BY <1>6 DEF HeaderCells, HeaderNeeded
  <2>2. Written(image) = frame
    BY <1>2, <2>1, ConcatEmptySeq DEF Written, frame
  <2>3. Whole(numFrames) = 1 + numFrames * Stride
    BY <1>6 DEF Whole
  <2> QED BY <1>1, <1>2, <1>3, <1>4, <2>2, <2>3
<1> QED BY <1>5, <1>6

LEMMA GrowShape ==
  ASSUME NEW f \in Seq(Cells), Shaped(f), NEW w \in Seq(Cells),
         \A j \in 1..Len(w) : w[j] = Cell(Len(f) + j), NEW n \in 0..Len(w)
  PROVE  /\ Shaped(f \o SubSeq(w, 1, n))
         /\ Len(f \o SubSeq(w, 1, n)) = Len(f) + n
<1>. DEFINE v == SubSeq(w, 1, n)
<1>1. Len(w) \in Nat /\ Len(f) \in Nat /\ n \in Nat
  BY LenProperties
<1>2. \A i \in 1..n : w[i] \in Cells
  BY <1>1, ElementOfSeq
<1>3. v \in Seq(Cells) /\ Len(v) = n /\ \A i \in 1..n : v[i] = w[i]
  <2>1. /\ v \in Seq(Cells)
        /\ Len(v) = IF 1 <= n THEN n - 1 + 1 ELSE 0
        /\ \A i \in 1..n - 1 + 1 : v[i] = w[1 + i - 1]
    BY ONLY <1>1, <1>2, SubSeqProperties
  <2>2. n - 1 + 1 = n /\ \A i \in 1..n : 1 + i - 1 = i
    BY <1>1
  <2> QED BY <1>1, <2>1, <2>2
<1>. HIDE DEF v
<1>4. /\ Len(f \o v) = Len(f) + n
      /\ \A i \in 1..Len(f) + n :
           (f \o v)[i] = IF i <= Len(f) THEN f[i] ELSE v[i - Len(f)]
  BY <1>3, ConcatProperties
<1>5. \A i \in 1..Len(f) + n : (f \o v)[i] = Cell(i)
  <2>. SUFFICES ASSUME NEW i \in 1..Len(f) + n PROVE (f \o v)[i] = Cell(i)
    OBVIOUS
  <2>1. CASE i <= Len(f)
    BY <1>1, <1>4, <2>1 DEF Shaped
  <2>2. CASE ~(i <= Len(f))
    <3>1. i - Len(f) \in 1..n /\ i - Len(f) \in 1..Len(w) /\ Len(f) + (i - Len(f)) = i
      BY <1>1, <2>2
    <3> QED BY <1>3, <1>4, <2>2, <3>1
  <2> QED BY <2>1, <2>2
<1> QED BY <1>4, <1>5 DEF Shaped, v

LEMMA WriteReportLines ==
  ASSUME ReportInv, imageIndex \in Nat, NEW image, WriteReport(image)
  PROVE  /\ Len(report') = imageIndex + 2 /\ imageIndex' = imageIndex + 1
         /\ \A i \in 1..imageIndex + 2 :
              report'[i] = IF i = imageIndex + 2 THEN Line(image)
                           ELSE IF i = 1 THEN Heading ELSE report[i]
<1>1. PICK S : report \in Seq(S)
  BY DEF ReportInv
<1>. DEFINE T == S \cup {Heading, Line(image)}
            one == <<Line(image)>>
<1>2. report \in Seq(T)
  BY <1>1, SeqMonotonic
<1>3. one \in Seq(T) /\ Len(one) = 1 /\ one[1] = Line(image)
  OBVIOUS
<1>4. Len(report) \in Nat
  BY <1>1, LenProperties
<1>5. imageIndex' = imageIndex + 1
  BY DEF WriteReport
<1>. DEFINE head == <<Heading>>
<1>6. head \in Seq(T) /\ Len(head) = 1 /\ head[1] = Heading
  OBVIOUS
<1>7. report' = report \o (IF imageIndex = 0 THEN head ELSE <<>>) \o one
  BY DEF WriteReport
<1>. HIDE DEF T, one, head
<1>8. CASE imageIndex = 0
  <2>1. report' = head \o one
    <3>1. report' = (<<>> \o head) \o one
      BY <1>7, <1>8 DEF ReportInv
    <3> QED BY ONLY <1>6, <3>1, ConcatEmptySeq
  <2>2. /\ Len(head \o one) = Len(head) + Len(one)
        /\ \A i \in 1..Len(head) + Len(one) :
             (head \o one)[i] = IF i <= Len(head) THEN head[i] ELSE one[i - Len(head)]
    BY ONLY <1>3, <1>6, ConcatProperties
  <2>3. Len(report') = 2 /\ report'[1] = Heading /\ report'[2] = Line(image)
    BY ONLY <1>3, <1>6, <2>1, <2>2
  <2> QED BY <1>5, <1>8, <2>3
<1>9. CASE imageIndex # 0
  <2>1. report' = report \o one
    <3>1. report' = report \o <<>> \o one
      BY <1>7, <1>9
    <3> QED BY ONLY <3>1, <1>2, ConcatEmptySeq
  <2>2. /\ Len(report \o one) = Len(report) + Len(one)
        /\ \A i \in 1..Len(report) + Len(one) :
             (report \o one)[i] = IF i <= Len(report) THEN report[i]
                                                       ELSE one[i - Len(report)]
    BY ONLY <1>2, <1>3, ConcatProperties
  <2>3. Len(report) = imageIndex + 1
    BY <1>9 DEF ReportInv
  <2>4. report[1] = Heading
    BY <1>4, <1>9, <2>3 DEF ReportInv, ReportInOrder
  <2>5. Len(report') = imageIndex + 2
    BY <1>3, <2>1, <2>2, <2>3
  <2>6. \A i \in 1..imageIndex + 2 :
          report'[i] = IF i = imageIndex + 2 THEN Line(image) ELSE report[i]
    BY <1>3, <2>1, <2>2, <2>3
  <2> QED BY <1>5, <2>4, <2>5, <2>6
<1> QED BY <1>8, <1>9

(* The line of a picture, from the decoder or from the file.               *)
LEMMA LineIsEntry ==
  ASSUME IInv, OneSize, sizes # <<>>, NEW image, IsPicture(image, imageIndex + 1)
  PROVE  Line(image) = Entry(imageIndex + 2)
<1>1. /\ Width \in Nat /\ Height \in Nat /\ Stride \in Nat \ {0}
      /\ Stride - 1 = NumBytes(format, Width, Height)
      /\ imageIndex \in Nat /\ format \in VideoFormats
  BY SizeOfPictures DEF IInv, TypeOK
<1>. DEFINE n == IF VideoFormatInfo[format].components > 3
                   THEN 3 ELSE VideoFormatInfo[format].components
            picture == Picture(imageIndex + 1, format, Width, Height)
<1>2. /\ image.format \in VideoFormats /\ image.width = Width /\ image.height = Height
      /\ VideoFormatInfo[image.format] = VideoFormatInfo[format]
      /\ image.samples = picture.samples
  BY <1>1 DEF IsPicture, Images, Picture, Image
<1>3. n \in 1..4
  BY <1>1, InfoType
<1>4. BytesOf(image.format, Width, Height, n) = BytesOf(format, Width, Height, n)
  BY <1>1, <1>2, <1>3, SameEntry
<1>5. /\ picture.format = format /\ picture.width = Width /\ picture.height = Height
  BY DEF Picture, Image
<1>. HIDE DEF picture
<1>6. Hash(image) = SubSeq(picture.samples, 1, BytesOf(format, Width, Height, n))
  BY <1>2, <1>4 DEF Hash
<1>7. Hash(picture) = SubSeq(picture.samples, 1, BytesOf(format, Width, Height, n))
  BY <1>5 DEF Hash
<1>9. Entry(imageIndex + 2) =
        [kind |-> "line", index |-> imageIndex, width |-> Width, height |-> Height,
         hash |-> Hash(picture)]
  <2>. DEFINE i == imageIndex + 2
  <2>1. i # 1 /\ i - 2 = imageIndex /\ i - 1 = imageIndex + 1
    BY <1>1
  <2>. HIDE DEF i
  <2>2. Entry(i) =
          [kind |-> "line", index |-> imageIndex, width |-> Width, height |-> Height,
           hash |-> Hash(picture)]
    BY <2>1 DEF Entry, picture
  <2> QED BY <2>2 DEF i
<1>10. Line(image) =
        [kind |-> "line", index |-> imageIndex, width |-> Width, height |-> Height,
         hash |-> Hash(image)]
  BY <1>2 DEF Line, ImageNumber
<1> QED BY ONLY <1>6, <1>7, <1>9, <1>10

LEMMA SameStream ==
  ASSUME UNCHANGED <<sizes, format>>
  PROVE  /\ Stride' = Stride /\ Width' = Width /\ Height' = Height
         /\ \A i : Cell(i)' = Cell(i) /\ Entry(i)' = Entry(i)
         /\ \A n : Whole(n)' = Whole(n)
<1>1. Stride' = Stride /\ Width' = Width /\ Height' = Height
  BY DEF Stride, Width, Height
<1> QED BY <1>1 DEF Cell, Entry, Whole, Rate

(* A picture of the stream, handled while nothing has failed: written and  *)
(* counted, or the end of the run.                                         *)
LEMMA HandleImageLayout ==
  ASSUME IInv, OutInv, RunningInv, OneSize, sizes # <<>>,
         klass # "gstreamer", pc = "run",
         NEW image, IsPicture(image, numFrames + 1), HandleImage(image),
         UNCHANGED commandVars, UNCHANGED lost
  PROVE  /\ OutInv'
         /\ \/ numFrames' = numFrames + 1 /\ pc' = "run"
            \/ numFrames' = numFrames /\ pc' = "free" /\ exit' = "failure"
         /\ UNCHANGED file \/ Len(file') <= 1 + (numFrames + 1) * Stride
         /\ UNCHANGED imageIndex \/ imageIndex' = numFrames + 1
<1>1. /\ Width \in Nat /\ Height \in Nat /\ Stride \in Nat \ {0}
      /\ numFrames \in Nat /\ imageIndex \in Nat /\ format \in VideoFormats
      /\ file \in Seq(Cells) /\ Len(file) \in Nat /\ outputInfo \in Infos
  BY SizeOfPictures, LenProperties DEF IInv, TypeOK, FileInv
<1>2. exit = "none" /\ Good /\ lost = FALSE /\ lost' = FALSE
  BY DEF RunningInv, Good, OutInv, IInv, TypeOK
<1>3. UNCHANGED <<sizes, format, klass, options>>
  BY DEF commandVars
<1>4. /\ Stride' = Stride /\ \A i : Cell(i)' = Cell(i) /\ Entry(i)' = Entry(i)
      /\ \A i : Whole(i)' = Whole(i)
      /\ Reports' = Reports /\ Writes' = Writes
  BY <1>3, SameStream DEF Reports, Writes
<1>5. IsYuv(image.format) <=> IsYuv(format)
  <2>1. image.format \in VideoFormats /\ VideoFormatInfo[image.format] = VideoFormatInfo[format]
    BY DEF IsPicture, Images
  <2> QED BY <1>1, <2>1, SameEntry
<1>6. /\ Reports => imageIndex = numFrames
      /\ Writes => Len(file) = Whole(numFrames)
      /\ DefaultRates(outputInfo).fps = Rate
      /\ numFrames = 0 => ~ready
  BY <1>2 DEF OutInv
<1>7. /\ Written(image) \in Seq(Cells)
      /\ Whole(numFrames) + Len(Written(image)) = 1 + (numFrames + 1) * Stride
      /\ \A j \in 1..Len(Written(image)) :
           Written(image)[j] = Cell(Whole(numFrames) + j)
  BY <1>6, WrittenLayout
<1>8. Len(Written(image)) \in Nat
  BY <1>7, LenProperties
<1>9. /\ (numFrames + 1) * Stride \in Nat
      /\ \A k \in Nat : k <= numFrames => k * Stride <= (numFrames + 1) * Stride
  BY <1>1, Product
<1>10. Whole(numFrames + 1) = 1 + (numFrames + 1) * Stride
  BY <1>1 DEF Whole
<1>11. ASSUME IF Reports THEN WriteReport(image) ELSE UNCHANGED reportVars
       PROVE  /\ Reported(report)'
              /\ Reports => imageIndex' = numFrames + 1
              /\ ~Reports => UNCHANGED <<report, imageIndex>>
  <2>1. CASE Reports
    <3>1. /\ Len(report') = imageIndex + 2 /\ imageIndex' = imageIndex + 1
          /\ \A i \in 1..imageIndex + 2 :
               report'[i] = IF i = imageIndex + 2 THEN Line(image)
                            ELSE IF i = 1 THEN Heading ELSE report[i]
      BY <1>1, <1>11, <2>1, WriteReportLines DEF IInv
    <3>2. Line(image) = Entry(imageIndex + 2)
      BY <1>6, <2>1, LineIsEntry
    <3>3. \A i \in 1..imageIndex + 2 : report'[i] = Entry(i)
      <4>. SUFFICES ASSUME NEW i \in 1..imageIndex + 2 PROVE report'[i] = Entry(i)
        OBVIOUS
      <4>1. CASE i = imageIndex + 2
        BY <3>1, <3>2, <4>1
      <4>2. CASE i = 1
        BY <1>1, <3>1, <4>2 DEF Entry
      <4>3. CASE i # 1 /\ i # imageIndex + 2
        <5>1. imageIndex # 0 /\ i \in 1..imageIndex + 1
          BY <1>1, <4>3
        <5>2. i \in 1..Len(report)
          BY <5>1 DEF IInv, ReportInv
        <5>3. report[i] = Entry(i)
          BY <5>2 DEF OutInv, Reported
        <5> QED BY <3>1, <4>3, <5>3
      <4> QED BY <4>1, <4>2, <4>3
    <3>4. Reported(report)'
      BY <1>4, <3>1, <3>3 DEF Reported
    <3> QED BY <1>6, <2>1, <3>1, <3>4
  <2>2. CASE ~Reports
    <3>1. UNCHANGED <<report, imageIndex>>
      BY <1>11, <2>2 DEF reportVars
    <3> QED BY <1>4, <2>2, <3>1 DEF OutInv, Reported
  <2> QED BY <2>1, <2>2
<1>12. ASSUME Writes, NEW n \in 0..Len(Written(image)),
              file' = file \o SubSeq(Written(image), 1, n)
       PROVE  Shaped(file)' /\ Len(file') = Whole(numFrames) + n
  <2>1. /\ Shaped(file \o SubSeq(Written(image), 1, n))
        /\ Len(file \o SubSeq(Written(image), 1, n)) = Len(file) + n
    <3>1. Shaped(file)
      BY DEF OutInv
    <3>2. \A j \in 1..Len(Written(image)) : Written(image)[j] = Cell(Len(file) + j)
      BY <1>6, <1>7, <1>12
    <3> QED BY <1>1, <1>7, <3>1, <3>2, GrowShape
  <2> QED BY <1>4, <1>6, <1>12, <2>1 DEF Shaped
<1>13. Shaped(file) /\ (UNCHANGED file => Shaped(file)')
  BY <1>4 DEF OutInv, Shaped
<1>14. PrepareHeader(image) \/ UNCHANGED outputInfo =>
         DefaultRates(outputInfo').fps = Rate
  BY <1>1, <1>6 DEF PrepareHeader, NewInfo, DefaultRates, Infos
<1>15. CASE Accept(image)
  <2>1. numFrames' = numFrames + 1 /\ pc' = pc /\ exit' = exit
    BY <1>15 DEF Accept, mainVars
  <2>2. /\ Reported(report)'
        /\ Reports => imageIndex' = numFrames + 1
        /\ ~Reports => UNCHANGED <<report, imageIndex>>
    BY <1>11, <1>15 DEF Accept
  <2>3. Reports \/ Writes => IsYuv(format)
    BY <1>5, <1>15 DEF Accept
  <2>4. DefaultRates(outputInfo').fps = Rate
    BY <1>14, <1>15 DEF Accept
  <2>5. /\ Shaped(file)'
        /\ Writes => Len(file') = 1 + (numFrames + 1) * Stride
        /\ ~Writes => UNCHANGED file
    <3>1. CASE Writes
      <4>1. file' = file \o Written(image)
        BY <1>15, <3>1 DEF Accept
      <4>2. SubSeq(Written(image), 1, Len(Written(image))) = Written(image)
        BY <1>7, SubSeqFull
      <4>3. Len(Written(image)) \in 0..Len(Written(image))
        BY <1>8
      <4> QED BY <1>7, <1>12, <3>1, <4>1, <4>2, <4>3
    <3>2. CASE ~Writes
      <4>1. UNCHANGED file
        BY <1>15, <3>2 DEF Accept, fileVars
      <4> QED BY <1>13, <3>2, <4>1
    <3> QED BY <3>1, <3>2
  <2>6. file' # <<>> \/ report' # <<>> => sizes' # <<>> /\ IsYuv(format')
    BY <1>3, <2>2, <2>3, <2>5 DEF OutInv
  <2>7. Reports => file' = <<>> \/ (imageIndex' > 0 /\ Len(file') <= 1 + imageIndex' * Stride)
    <3>. SUFFICES ASSUME Reports, file' # <<>>
                  PROVE  imageIndex' > 0 /\ Len(file') <= 1 + imageIndex' * Stride
      OBVIOUS
    <3>1. imageIndex' = numFrames + 1 /\ imageIndex' > 0
      BY <1>1, <2>2
    <3>2. CASE Writes
      BY <1>9, <2>5, <3>1, <3>2
    <3>3. CASE ~Writes
      <4>1. Len(file) <= 1 + numFrames * Stride
        BY <1>6, <2>5, <3>3 DEF OutInv
      <4>2. numFrames * Stride <= (numFrames + 1) * Stride /\ numFrames * Stride \in Nat
        BY <1>1, <1>9
      <4> QED BY <1>1, <1>9, <2>5, <3>1, <3>3, <4>1, <4>2
    <3> QED BY <3>2, <3>3
  <2>8. OutInv'
    <3>1. Writes => Len(file') = Whole(numFrames)'
      BY <1>4, <1>10, <2>1, <2>5 DEF Whole
    <3>2. Reports => imageIndex' = numFrames'
      BY <2>1, <2>2
    <3>3. numFrames' # 0
      BY <1>1, <2>1
    <3>4. DefaultRates(outputInfo)'.fps = Rate'
      BY <2>4 DEF Rate, DefaultRates
    <3> QED BY <1>2, <1>4, <2>2, <2>5, <2>6, <2>7, <3>1, <3>2, <3>3, <3>4 DEF OutInv
  <2>9. UNCHANGED file \/ Len(file') <= 1 + (numFrames + 1) * Stride
    BY <1>9, <2>5
  <2> QED BY <1>1, <2>1, <2>2, <2>8, <2>9
<1>16. CASE Reject(image)
  <2>1. UNCHANGED <<report, imageIndex, file, ready>>
    BY <1>16 DEF Reject, reportVars, fileVars
  <2>2. numFrames' = numFrames /\ pc' = "free" /\ exit' = "failure"
    BY <1>16 DEF Reject, Refused
  <2>3. Reported(report)'
    BY <1>4, <2>1 DEF OutInv, Reported
  <2>4. OutInv'
    BY <1>2, <1>3, <1>4, <1>13, <2>1, <2>2, <2>3 DEF OutInv, Good
  <2> QED BY <2>1, <2>2, <2>4
<1>17. CASE WriteFails(image)
  <2>1. Writes /\ IsYuv(format)
    BY <1>5, <1>17 DEF WriteFails
  <2>2. numFrames' = numFrames /\ pc' = "free" /\ exit' = "failure"
    BY <1>17 DEF WriteFails, Refused
  <2>3. /\ Reported(report)'
        /\ Reports => imageIndex' = numFrames + 1
        /\ ~Reports => UNCHANGED <<report, imageIndex>>
    BY <1>11, <1>17 DEF WriteFails
  <2>4. PICK n \in 0..Len(Written(image)) - 1 :
          file' = file \o SubSeq(Written(image), 1, n)
    BY <1>17 DEF WriteFails
  <2>5. n \in 0..Len(Written(image)) /\ n < Len(Written(image))
    BY <1>8
  <2>6. Shaped(file)' /\ Len(file') = Whole(numFrames) + n
    BY <1>12, <2>1, <2>4, <2>5
  <2>7. Len(file') <= 1 + (numFrames + 1) * Stride
    <3>1. Whole(numFrames) \in Nat
      BY <1>1, <1>6, <2>1
    <3> QED BY <1>7, <1>8, <1>9, <2>5, <2>6, <3>1
  <2>8. OutInv'
    <3>1. Reports => imageIndex' > 0 /\ Len(file') <= 1 + imageIndex' * Stride
      BY <1>1, <2>3, <2>7
    <3> QED BY <1>2, <1>3, <1>4, <2>1, <2>2, <2>3, <2>6, <3>1 DEF OutInv, Good
  <2> QED BY <2>2, <2>3, <2>7, <2>8
<1> QED BY <1>15, <1>16, <1>17 DEF HandleImage

-----------------------------------------------------------------------------
(* The steps of a tool that stops                                          *)

Layout == OutInv /\ CountInv /\ SourceInv /\ ReadInv

LayoutInv == OneSize /\ Stopping => Layout

(* Steps that leave the outputs as they are.                               *)
LEMMA QuietLayout ==
  ASSUME Layout,
         UNCHANGED <<commandVars, numFrames, reportVars, fileVars, lost, input,
                     inputInfo, pos>>,
         Good' => Good,
         stage = 1 /\ Good' /\ ~options.benchmark => taken' = taken,
         pc' = "run" => DefaultRates(outputInfo').fps = Rate,
         pc' \in {"init", "run"} => pc \in {"init", "run"},
         pc' = "init" => pc = "init",
         pc' # "end" => pc # "end",
         stage = 2 /\ Good' /\ pc' # "init" =>
           pc # "init" /\ (pc' # "run" => ~HasImage(input, pos, inputInfo))
  PROVE  Layout'
<1>1. UNCHANGED <<stage, klass, options, sizes, format, first>>
  BY DEF commandVars
<1>2. UNCHANGED <<numFrames, report, imageIndex, ready, file, lost, input, inputInfo, pos>>
  BY DEF reportVars, fileVars
<1>3. /\ Stride' = Stride /\ Width' = Width /\ Height' = Height
      /\ \A i : Cell(i)' = Cell(i) /\ Entry(i)' = Entry(i)
      /\ \A n : Whole(n)' = Whole(n)
      /\ Reports' = Reports /\ Writes' = Writes
  BY <1>1, SameStream DEF Reports, Writes
<1>4. /\ Shaped(file)' = Shaped(file) /\ Reported(report)' = Reported(report)
      /\ Shaped(input)' = Shaped(input)
      /\ Reported(first.report)' = Reported(first.report)
  BY <1>1, <1>2, <1>3 DEF Shaped, Reported
<1>5. OutInv'
  <2>1. Whole(numFrames)' = Whole(numFrames)
    BY <1>2, <1>3 DEF Whole
  <2>2. pc' = "run" => DefaultRates(outputInfo)'.fps = Rate'
    BY DEF DefaultRates, Rate
  <2> QED BY <1>1, <1>2, <1>3, <1>4, <2>1, <2>2 DEF Layout, OutInv
<1>6. CountInv'
  BY <1>1, <1>2 DEF Layout, CountInv
<1>7. SourceInv'
  BY <1>1, <1>2, <1>3, <1>4 DEF Layout, SourceInv
<1>8. ReadInv'
  <2>1. HeaderRead' = HeaderRead
    BY <1>1, <1>2, <1>3 DEF HeaderRead, Rate
  <2>2. HasImage(input, pos, inputInfo)' = HasImage(input, pos, inputInfo)
    BY <1>2 DEF HasImage
  <2> QED BY <1>1, <1>2, <1>3, <2>1, <2>2 DEF Layout, ReadInv
<1> QED BY <1>5, <1>6, <1>7, <1>8 DEF Layout

(* Steps that end the tool, and may lose the tail of the file.             *)
LEMMA EndLayout ==
  ASSUME Layout, IInv,
         UNCHANGED <<commandVars, numFrames, reportVars, ready, input,
                     inputInfo, pos, taken>>,
         UNCHANGED <<file, lost>> \/ LoseTail,
         Good' => Good /\ pc \notin {"init", "run"},
         pc' = "end"
  PROVE  Layout'
<1>1. UNCHANGED <<stage, klass, options, sizes, format, first>>
  BY DEF commandVars
<1>2. UNCHANGED <<numFrames, report, imageIndex, ready, input, inputInfo, pos, taken>>
  BY DEF reportVars
<1>3. /\ Stride' = Stride /\ Width' = Width /\ Height' = Height
      /\ \A i : Cell(i)' = Cell(i) /\ Entry(i)' = Entry(i)
      /\ \A n : Whole(n)' = Whole(n)
      /\ Reports' = Reports /\ Writes' = Writes
  BY <1>1, SameStream DEF Reports, Writes
<1>4. /\ Reported(report)' = Reported(report)
      /\ Shaped(input)' = Shaped(input)
      /\ Reported(first.report)' = Reported(first.report)
  BY <1>1, <1>2, <1>3 DEF Shaped, Reported
<1>5. file \in Seq(Cells) /\ Len(file) \in Nat
  BY LenProperties DEF IInv, FileInv
<1>6. /\ Len(file') \in Nat /\ Len(file') <= Len(file)
      /\ file = <<>> => file' = <<>>
      /\ \A i \in 1..Len(file') : i \in 1..Len(file) /\ file'[i] = file[i]
      /\ lost' \/ UNCHANGED <<file, lost>>
  <2>1. CASE UNCHANGED <<file, lost>>
    BY <1>5, <2>1
  <2>2. CASE LoseTail
    <3>1. lost' = TRUE
      BY <2>2 DEF LoseTail
    <3>2. PICK n \in 0..Len(file) - 1 : file' = SubSeq(file, 1, n)
      BY <2>2 DEF LoseTail
    <3>3. n \in Nat /\ n < Len(file)
      BY <1>5
    <3>4. \A i \in 1..n : file[i] \in Cells
      BY <1>5, <3>3, ElementOfSeq
    <3>5. Len(file') = n /\ \A i \in 1..n : file'[i] = file[i]
      <4>1. /\ Len(file') = IF 1 <= n THEN n - 1 + 1 ELSE 0
            /\ \A i \in 1..n - 1 + 1 : file'[i] = file[1 + i - 1]
        BY ONLY <3>2, <3>3, <3>4, SubSeqProperties
      <4>2. n - 1 + 1 = n /\ \A i \in 1..n : 1 + i - 1 = i
        BY <3>3
      <4> QED BY <3>3, <4>1, <4>2
    <3>6. file # <<>>
      BY <1>5, <3>3
    <3> QED BY <1>5, <3>1, <3>3, <3>5, <3>6
  <2> QED BY <2>1, <2>2
<1>7. Shaped(file)'
  BY <1>3, <1>6 DEF Layout, OutInv, Shaped
<1>8. OutInv'
  <2>1. Whole(numFrames)' = Whole(numFrames)
    BY <1>2, <1>3 DEF Whole
  <2>2. file' # <<>> \/ report' # <<>> => sizes' # <<>> /\ IsYuv(format')
    BY <1>1, <1>2, <1>6 DEF Layout, OutInv
  <2>3. Reports => file' = <<>> \/ (imageIndex > 0 /\ Len(file') <= 1 + imageIndex * Stride)
    <3>. SUFFICES ASSUME Reports, file' # <<>>
                  PROVE  imageIndex > 0 /\ Len(file') <= 1 + imageIndex * Stride
      OBVIOUS
    <3>1. file # <<>> /\ imageIndex > 0 /\ Len(file) <= 1 + imageIndex * Stride
      BY <1>6 DEF Layout, OutInv
    <3>2. Stride \in Nat /\ imageIndex \in Nat
      <4>1. sizes # <<>>
        BY <3>1 DEF Layout, OutInv
      <4> QED BY <4>1, SizeOfPictures DEF IInv, TypeOK
    <3>3. imageIndex * Stride \in Nat
      BY <3>2
    <3> QED BY <1>5, <1>6, <3>1, <3>3
  <2> QED BY <1>1, <1>2, <1>3, <1>4, <1>6, <1>7, <2>1, <2>2, <2>3 DEF Layout, OutInv
<1>9. CountInv'
  BY <1>1, <1>2 DEF Layout, CountInv
<1>10. SourceInv'
  BY <1>1, <1>2, <1>3, <1>4 DEF Layout, SourceInv
<1>11. ReadInv'
  <2>1. HeaderRead' = HeaderRead
    BY <1>1, <1>2, <1>3 DEF HeaderRead, Rate
  <2>2. HasImage(input, pos, inputInfo)' = HasImage(input, pos, inputInfo)
    BY <1>2 DEF HasImage
  <2>3. stage = 2 => Len(file') < pos
    <3>1. pos \in Nat
      BY LenProperties DEF IInv, TypeOK, InputInv
    <3> QED BY <1>5, <1>6, <3>1 DEF Layout, ReadInv
  <2> QED BY <1>1, <1>2, <1>3, <2>1, <2>2, <2>3 DEF Layout, ReadInv
<1> QED BY <1>8, <1>9, <1>10, <1>11 DEF Layout

LEMMA DecodePictureLayout ==
  ASSUME IInv, RunningInv, ClassInv, OneSize, Stopping, Layout, DecodePicture
  PROVE  Layout'
<1>. DEFINE size == sizes[taken + 1]
            image == Picture(taken + 1, format, size[1], size[2])
<1>1. /\ pc = "run" /\ klass # "rawvideo" /\ taken < Len(sizes) /\ taken' = taken + 1
      /\ ~options.benchmark /\ HandleImage(image)
      /\ UNCHANGED <<commandVars, lost, input, pos, inputInfo>>
  BY DEF DecodePicture, Decoding, inputVars
<1>2. stage = 1 /\ klass # "gstreamer" /\ exit = "none"
  BY <1>1 DEF ClassInv, Stopping, RunningInv, IInv, TypeOK
<1>3. /\ sizes \in Seq((Nat \ {0}) \X (Nat \ {0}))
      /\ format \in VideoFormats /\ taken \in 0..Len(sizes)
  BY DecoderCoreAssumption DEF IInv, TypeOK
<1>4. taken + 1 \in 1..Len(sizes) /\ taken + 1 \in Nat
  BY <1>1, <1>3, LenProperties
<1>5. sizes # <<>>
  BY <1>4
<1>6. size[1] = Width /\ size[2] = Height
  <2>1. sizes[taken + 1] = sizes[1]
    BY <1>4, <1>5, SizeOfPictures
  <2> QED BY <2>1 DEF Width, Height
<1>7. numFrames = taken
  BY <1>1, <1>2 DEF Layout, CountInv, Good
<1>. HIDE DEF size
<1>8. IsPicture(image, numFrames + 1)
  <2>1. Width \in Nat /\ Height \in Nat /\ Stride - 1 = NumBytes(format, Width, Height)
    BY <1>5, SizeOfPictures
  <2>2. image \in Images
    BY <1>3, <1>4, <1>6, <2>1, PictureIsImage
  <2>3. /\ image.format = format /\ image.width = Width /\ image.height = Height
        /\ image.samples = [i \in 1..NumBytes(format, Width, Height) |-> Byte(taken + 1, i)]
    BY <1>6 DEF Picture, Image
  <2>. HIDE DEF image
  <2> QED BY <1>7, <2>1, <2>2, <2>3 DEF IsPicture
<1>. HIDE DEF image
<1>9. /\ OutInv'
      /\ \/ numFrames' = numFrames + 1 /\ pc' = "run"
         \/ numFrames' = numFrames /\ pc' = "free" /\ exit' = "failure"
  <2>1. OutInv
    BY DEF Layout
  <2> QED BY <1>1, <1>2, <1>5, <1>8, <2>1, HandleImageLayout
<1>10. CountInv'
  BY <1>1, <1>7, <1>9 DEF CountInv, Good
<1>11. SourceInv' /\ ReadInv'
  BY <1>1, <1>2 DEF SourceInv, ReadInv, commandVars
<1> QED BY <1>9, <1>10, <1>11 DEF Layout

(* The header of the stream is read back.                                  *)
LEMMA OpenInputLayout ==
  ASSUME IInv, ClassInv, Layout, OpenInput
  PROVE  Layout'
<1>1. /\ pc = "init" /\ pc' = "run" /\ klass = "rawvideo" /\ HasHeader(input)
      /\ inputInfo' = DefaultRates(HeaderInfo(input[1]))
      /\ outputInfo' = inputInfo' /\ pos' = 2
      /\ UNCHANGED <<stage, klass, options, sizes, format, first, exit, taken,
                     numFrames, report, imageIndex, ready, file, lost, input>>
  BY DEF OpenInput, Readable, InputDescription, commandVars, reportVars, fileVars
<1>2. stage = 2
  BY <1>1 DEF ClassInv, IInv, TypeOK
<1>3. input # <<>> /\ HeaderInfo(input[1]).format # "unknown"
  BY <1>1 DEF HasHeader
<1>4. Shaped(input) /\ sizes # <<>> /\ IsYuv(format) /\ format \in VideoFormats
  BY <1>2, <1>3 DEF Layout, SourceInv, IInv, TypeOK
<1>5. /\ Width \in Nat /\ Height \in Nat /\ Stride \in Nat \ {0}
  BY <1>4, SizeOfPictures
<1>6. Rate \in Nat \ {0}
  BY DecoderCoreAssumption DEF Rate
<1>7. input[1] = Cell(1)
  <2>1. 1 \in 1..Len(input)
    BY <1>3, LenProperties, EmptySeq DEF IInv, InputInv
  <2> QED BY <1>4, <2>1 DEF Shaped
<1>. DEFINE g == ReadFormat(Colorspace(format), VideoFormatInfo[format].depth)
            info == HeaderInfo(Cell(1))
<1>8. info.format = g /\ info.width = Width /\ info.height = Height /\ info.fps = Rate
  BY DEF Cell, Header, HeaderInfo
<1>9. g # "unknown"
  BY <1>3, <1>7, <1>8
<1>10. g \in VideoFormats /\ VideoFormatInfo[g] = VideoFormatInfo[format]
  BY <1>4, <1>9, ReadBack
<1>. HIDE DEF g, info
<1>11. inputInfo' = info
  BY <1>1, <1>6, <1>7, <1>8 DEF DefaultRates, info
<1>12. /\ Stride' = Stride /\ Width' = Width /\ Height' = Height
       /\ \A i : Cell(i)' = Cell(i) /\ Entry(i)' = Entry(i)
       /\ Reports' = Reports /\ Writes' = Writes
       /\ Whole(numFrames)' = Whole(numFrames)
  <2>1. /\ Stride' = Stride /\ Width' = Width /\ Height' = Height
        /\ \A i : Cell(i)' = Cell(i) /\ Entry(i)' = Entry(i)
    BY <1>1, SameStream
  <2> QED BY <1>1, <2>1 DEF Reports, Writes, Whole
<1>13. OutInv'
  <2>1. DefaultRates(outputInfo').fps = Rate
    BY <1>1, <1>6, <1>8, <1>11 DEF DefaultRates
  <2>2. DefaultRates(outputInfo)'.fps = Rate'
    BY <2>1 DEF DefaultRates, Rate
  <2>3. Shaped(file)' /\ Reported(report)'
    BY <1>1, <1>12 DEF Layout, OutInv, Shaped, Reported
  <2> QED BY <1>1, <1>12, <2>2, <2>3 DEF Layout, OutInv, Good
<1>14. CountInv' /\ SourceInv'
  <2>1. Shaped(input)' /\ (Reported(first.report) => Reported(first.report)')
    BY <1>1, <1>4, <1>12 DEF Shaped, Reported
  <2> QED BY <1>1, <1>2, <1>12, <2>1 DEF Layout, CountInv, SourceInv
<1>15. ReadInv'
  <2>1. numFrames = 0 /\ imageIndex = 0 /\ file = <<>>
    BY <1>1, <1>2 DEF Layout, ReadInv
  <2>2. HeaderRead'
    BY <1>1, <1>8, <1>10, <1>11, <1>12 DEF HeaderRead, Rate
  <2>3. pos' = 2 + numFrames * Stride /\ Len(file) < pos' /\ ~(imageIndex > 0)
    BY <1>1, <1>5, <2>1
  <2> QED BY <1>1, <1>3, <1>12, <2>1, <2>2, <2>3 DEF ReadInv
<1> QED BY <1>13, <1>14, <1>15 DEF Layout

(* What stands behind a FRAME line is the picture it was written for.      *)
LEMMA ReadImageLayout ==
  ASSUME IInv, IInv', RunningInv, ClassInv, OneSize, Layout, ReadImage
  PROVE  Layout'
<1>. DEFINE n == NumBytes(inputInfo.format, inputInfo.width, inputInfo.height)
            from == pos + 1
            to == pos + n
            samples == SubSeq(input, from, to)
            image == ImageAt(input, pos, inputInfo)
<1>1. /\ pc = "run" /\ klass = "rawvideo"
      /\ HasImage(input, pos, inputInfo)
      /\ pos' = AfterImage(pos, inputInfo) /\ HandleImage(image)
      /\ UNCHANGED <<commandVars, taken, lost, config, input, inputInfo>>
      /\ UNCHANGED <<stage, klass, options, sizes, format, first>>
  BY DEF ReadImage, Reading, commandVars
<1>2. stage = 2 /\ Good
  BY <1>1 DEF ClassInv, RunningInv, Good, IInv, TypeOK
<1>3. /\ input # <<>> /\ HeaderRead /\ pos = 2 + numFrames * Stride
      /\ Shaped(input) /\ sizes # <<>> /\ OutInv
  BY <1>1, <1>2 DEF Layout, SourceInv, ReadInv
<1>4. /\ Width \in Nat /\ Height \in Nat /\ Stride \in Nat \ {0}
      /\ Stride - 1 = NumBytes(format, Width, Height)
      /\ numFrames \in Nat /\ format \in VideoFormats
      /\ input \in Seq(Cells) /\ Len(input) \in Nat
  BY <1>3, SizeOfPictures, LenProperties DEF IInv, TypeOK, InputInv
<1>5. n = Stride - 1
  <2>1. /\ inputInfo.format \in VideoFormats
        /\ VideoFormatInfo[inputInfo.format] = VideoFormatInfo[format]
        /\ inputInfo.width = Width /\ inputInfo.height = Height
    BY <1>3 DEF HeaderRead
  <2>2. NumBytes(inputInfo.format, Width, Height) = NumBytes(format, Width, Height)
    BY ONLY <1>4, <2>1, SameEntry
  <2> QED BY <1>4, <2>1, <2>2
<1>6. numFrames * Stride \in Nat /\ pos \in Nat
  BY <1>3, <1>4, Product
<1>7. pos + n <= Len(input) /\ pos' = pos + n + 1
  BY <1>1 DEF HasImage, AfterImage
<1>8. samples = [i \in 1..Stride - 1 |-> Byte(numFrames + 1, i)]
  <2>1. from = 2 + numFrames * Stride + 1 /\ to = 2 + numFrames * Stride + Stride - 1
    BY <1>3, <1>4, <1>5, <1>6
  <2>2. 2 + numFrames * Stride + Stride - 1 <= Len(input)
    BY <1>3, <1>4, <1>5, <1>6, <1>7
  <2>. HIDE DEF from, to, n
  <2>3. SubSeq(input, 2 + numFrames * Stride + 1, 2 + numFrames * Stride + Stride - 1)
          = [i \in 1..Stride - 1 |-> Byte(numFrames + 1, i)]
    BY ONLY <1>3, <1>4, <2>2, SamplesBehindFrame
  <2> QED BY <2>1, <2>3
<1>9. IsPicture(image, numFrames + 1)
  <2>1. \A i \in 1..Stride - 1 : Byte(numFrames + 1, i) \in Plain
    BY <1>4 DEF Byte, Plain
  <2>2. Stride - 1 \in Nat
    BY <1>4
  <2>3. [i \in 1..Stride - 1 |-> Byte(numFrames + 1, i)] \in Seq(Plain)
    <3>1. [i \in 1..Stride - 1 |-> Byte(numFrames + 1, i)] \in [1..Stride - 1 -> Plain]
      BY <2>1
    <3> QED BY ONLY <2>2, <3>1, FunctionIsSeq
  <2>4. /\ image.format = inputInfo.format /\ image.width = inputInfo.width
        /\ image.height = inputInfo.height /\ image.samples = samples
        /\ image = [format |-> inputInfo.format, width |-> inputInfo.width,
                    height |-> inputInfo.height, samples |-> samples]
    BY DEF ImageAt, Image
  <2>. HIDE DEF image, samples
  <2>5. image \in Images
    BY <1>3, <1>4, <1>8, <2>3, <2>4 DEF Images, HeaderRead
  <2> QED BY <1>3, <1>8, <2>4, <2>5 DEF IsPicture, HeaderRead
<1>. HIDE DEF image, samples, n
<1>10. /\ OutInv'
       /\ \/ numFrames' = numFrames + 1 /\ pc' = "run"
          \/ numFrames' = numFrames /\ pc' = "free" /\ exit' = "failure"
       /\ UNCHANGED file \/ Len(file') <= 1 + (numFrames + 1) * Stride
       /\ UNCHANGED imageIndex \/ imageIndex' = numFrames + 1
  <2>1. klass # "gstreamer"
    BY <1>1
  <2> QED BY <1>1, <1>3, <1>9, <2>1, HandleImageLayout
<1>11. /\ Stride' = Stride /\ Width' = Width /\ Height' = Height
       /\ \A i : Cell(i)' = Cell(i) /\ Entry(i)' = Entry(i)
  BY <1>1, SameStream
<1>12. CountInv' /\ SourceInv'
  <2>1. Shaped(input)' /\ (Reported(first.report) => Reported(first.report)')
    BY <1>1, <1>3, <1>11 DEF Shaped, Reported
  <2> QED BY <1>1, <1>2, <1>11, <2>1 DEF Layout, CountInv, SourceInv
<1>13. pos' = 2 + (numFrames + 1) * Stride /\ pos < pos'
  <2>1. (numFrames + 1) * Stride = numFrames * Stride + Stride
    BY ONLY <1>4, Product
  <2> QED BY <1>3, <1>4, <1>5, <1>6, <1>7, <2>1
<1>14. ReadInv'
  <2>1. (numFrames + 1) * Stride \in Nat
    BY ONLY <1>4, Product
  <2>2. Len(file) \in Nat /\ Len(file') \in Nat /\ Len(file) < pos
    BY <1>2, LenProperties DEF IInv, FileInv, Layout, ReadInv
  <2>3. Len(file') < pos'
    BY <1>6, <1>10, <1>13, <2>1, <2>2
  <2>4. imageIndex' > 0 => 1 + imageIndex' * Stride < pos'
    <3>1. CASE imageIndex' = numFrames + 1
      BY <1>13, <2>1, <3>1
    <3>2. CASE imageIndex' = imageIndex /\ imageIndex > 0
      <4>1. 1 + imageIndex * Stride < pos /\ imageIndex * Stride \in Nat
        BY <1>2, <1>4, <3>2, Product DEF Layout, ReadInv, IInv, TypeOK
      <4> QED BY <1>6, <1>13, <2>1, <3>2, <4>1
    <3> QED BY <1>10, <3>1, <3>2
  <2>5. HeaderRead'
    BY <1>1, <1>3, <1>11 DEF HeaderRead, Rate
  <2>6. Good' => numFrames' = numFrames + 1 /\ pc' = "run"
    BY <1>10 DEF Good
  <2> QED BY <1>1, <1>3, <1>10, <1>11, <1>13, <2>3, <2>4, <2>5, <2>6 DEF ReadInv
<1> QED BY <1>10, <1>12, <1>14 DEF Layout

(* The reader never takes samples for a FRAME line.                        *)
LEMMA NeverMisplaced ==
  ASSUME IInv, RunningInv, ClassInv, Layout
  PROVE  ~Misplaced
<1>. SUFFICES ASSUME Misplaced PROVE FALSE
  OBVIOUS
<1>1. pc = "run" /\ klass = "rawvideo" /\ pos <= Len(input) /\ input[pos] # FrameTag
  BY DEF Misplaced, Reading
<1>2. stage = 2 /\ Good
  BY <1>1 DEF ClassInv, RunningInv, Good, IInv, TypeOK
<1>3. /\ pos = 2 + numFrames * Stride /\ Shaped(input) /\ sizes # <<>>
  BY <1>1, <1>2 DEF Layout, SourceInv, ReadInv
<1>4. /\ Stride \in Nat \ {0} /\ numFrames \in Nat /\ Len(input) \in Nat
  BY <1>3, SizeOfPictures, LenProperties DEF IInv, TypeOK, InputInv
<1>5. numFrames * Stride \in Nat /\ 0 \in 0..Stride - 1
  BY <1>4, Product
<1>6. pos \in 1..Len(input) /\ pos = 2 + numFrames * Stride + 0
  BY <1>1, <1>3, <1>4, <1>5
<1>7. Cell(pos) = FrameTag
  BY <1>4, <1>5, <1>6, PictureCells
<1> QED BY <1>1, <1>3, <1>6, <1>7 DEF Shaped

(* The file and the report of the first run are what the second one reads, *)
(* and is compared with.                                                   *)
LEMMA RerunLayout ==
  ASSUME IInv, Layout, Rerun
  PROVE  Layout'
<1>1. /\ stage = 1 /\ options.output /\ stage' = 2 /\ pc' = "init"
      /\ exit' = "none" /\ numFrames' = 0 /\ report' = <<>> /\ imageIndex' = 0
      /\ ready' = FALSE /\ file' = <<>> /\ lost' = FALSE /\ pos' = 1
      /\ input' = file
  BY DEF Rerun
<1>2. first' = [klass |-> klass, reports |-> Reports, exit |-> exit,
                lost |-> lost, report |-> report]
  BY DEF Rerun
<1>3. UNCHANGED <<sizes, format>>
  BY DEF Rerun
<1>4. /\ Stride' = Stride /\ \A i : Cell(i)' = Cell(i) /\ Entry(i)' = Entry(i)
  BY <1>3, SameStream
<1>5. Len(<<>>) = 0
  OBVIOUS
<1>6. OutInv'
  <2>1. Whole(numFrames)' = 0
    BY <1>1 DEF Whole
  <2>2. Shaped(file)' /\ Reported(report)'
    BY <1>1, <1>5 DEF Shaped, Reported
  <2> QED BY <1>1, <1>5, <2>1, <2>2 DEF OutInv
<1>7. CountInv' /\ ReadInv'
  BY <1>1, <1>5 DEF CountInv, ReadInv
<1>8. SourceInv'
  <2>1. Shaped(input)'
    BY <1>1, <1>4 DEF Layout, OutInv, Shaped
  <2>2. file # <<>> => sizes # <<>> /\ IsYuv(format)
    BY DEF Layout, OutInv
  <2>3. imageIndex \in Nat /\ (imageIndex # 0 => Len(report) = imageIndex + 1)
    BY DEF IInv, TypeOK, ReportInv
  <2>4. ASSUME file # <<>>, Reports
        PROVE  /\ Reported(first.report)' /\ Len(first'.report) \in Nat \ {0}
               /\ Len(file) <= 1 + (Len(first'.report) - 1) * Stride
    <3>1. imageIndex # 0 /\ Len(file) <= 1 + imageIndex * Stride
      BY <2>3, <2>4 DEF Layout, OutInv
    <3>2. first'.report = report
      BY <1>2
    <3>3. Len(first'.report) \in Nat \ {0} /\ Len(first'.report) - 1 = imageIndex
      BY <2>3, <3>1, <3>2
    <3>4. Reported(first.report)'
      <4>1. \A i \in 1..Len(report) : report[i] = Entry(i)
        BY DEF Layout, OutInv, Reported
      <4>2. \A i : Entry(i)' = Entry(i)
        BY <1>4
      <4>3. \A i \in 1..Len(first'.report) : first'.report[i] = Entry(i)'
        BY <3>2, <4>1, <4>2
      <4> QED BY <4>3 DEF Reported
    <3> QED BY <3>1, <3>3, <3>4
  <2>5. ASSUME file # <<>>, first'.exit = "success", ~first'.lost
        PROVE  \E n \in Nat \ {0} :
                 /\ Len(file) = 1 + n * Stride
                 /\ first'.reports => Len(first'.report) = n + 1
    <3>1. exit = "success" /\ ~lost /\ first'.reports = Reports /\ first'.report = report
      BY <1>2, <2>5
    <3>2. Writes
      BY <2>5 DEF Layout, OutInv
    <3>3. Len(file) = Whole(numFrames) /\ (Reports => imageIndex = numFrames)
      BY <3>1, <3>2 DEF Layout, OutInv, Good
    <3>4. numFrames \in Nat /\ numFrames # 0
      <4>1. Len(file) # 0
        BY <2>5, EmptySeq DEF IInv, FileInv
      <4> QED BY <3>3, <4>1 DEF Whole, IInv, TypeOK
    <3>5. Len(file) = 1 + numFrames * Stride
      BY <3>3, <3>4 DEF Whole
    <3>6. Reports => Len(report) = numFrames + 1
      BY <2>3, <3>3, <3>4
    <3> QED BY <3>1, <3>4, <3>5, <3>6
  <2>6. first'.reports = Reports
    BY <1>2
  <2>7. input' = file /\ sizes' = sizes /\ format' = format /\ Stride' = Stride
    BY <1>1, <1>3, <1>4
  <2>. SUFFICES /\ file # <<>> => sizes # <<>> /\ IsYuv(format)
                /\ file # <<>> /\ first'.reports =>
                     /\ Reported(first.report)' /\ Len(first'.report) \in Nat \ {0}
                     /\ Len(file) <= 1 + (Len(first'.report) - 1) * Stride
                /\ file # <<>> /\ first'.exit = "success" /\ ~first'.lost =>
                     \E n \in Nat \ {0} :
                       /\ Len(file) = 1 + n * Stride
                       /\ first'.reports => Len(first'.report) = n + 1
    BY <2>1, <2>7 DEF SourceInv
  <2> QED BY <2>2, <2>4, <2>5, <2>6
<1> QED BY <1>6, <1>7, <1>8 DEF Layout

LEMMA NextLayout ==
  ASSUME IInv, IInv', RunningInv, ClassInv, LayoutInv, [Next]_vars
  PROVE  LayoutInv'
<1>. USE DEF mainVars, decoderVars, inputVars
<1>1. UNCHANGED sizes /\ Stopping' = Stopping
  <2>1. CASE Rerun
    BY <2>1 DEF Rerun, Stopping
  <2>2. CASE UNCHANGED commandVars
    BY <2>2 DEF commandVars, Stopping
  <2> QED BY <2>1, <2>2 DEF Next, InitSucceeds, OpenInput, InitFails, InitCrashes,
        DecodePicture, SkipPicture, DecodeEnds, DecodeFails, ReadImage, ReadEnds,
        SkipSamples, ReadCrashes, DumpConfig, DumpCrashes, Free, Terminated, vars
<1>2. OneSize' = OneSize
  BY <1>1 DEF OneSize
<1>3. SUFFICES ASSUME OneSize, Stopping
               PROVE  Layout'
  BY <1>1, <1>2 DEF LayoutInv
<1>4. Layout
  BY <1>3 DEF LayoutInv
<1>5. /\ pc = "run" => DefaultRates(outputInfo).fps = Rate
      /\ pc \in {"init", "run", "dump", "free", "end"}
  BY <1>4 DEF Layout, OutInv, IInv, TypeOK
<1>6. CASE InitSucceeds
  <2>1. stage = 1 /\ outputInfo'.fps = Fps
    BY <1>6 DEF InitSucceeds, ClassInv, IInv, TypeOK, Infos
  <2>2. DefaultRates(outputInfo').fps = Rate
    <3>1. outputInfo' \in Infos
      BY DEF IInv, TypeOK
    <3> QED BY <2>1, <3>1 DEF DefaultRates, Rate, Infos
  <2> QED BY <1>4, <1>6, <2>1, <2>2, QuietLayout DEF InitSucceeds, Good
<1>7. CASE OpenInput
  BY <1>4, <1>7, OpenInputLayout
<1>8. CASE InitFails
  BY <1>4, <1>5, <1>8, QuietLayout DEF InitFails, Good
<1>9. CASE InitCrashes
  BY <1>4, <1>5, <1>9, QuietLayout DEF InitCrashes, Good
<1>10. CASE DecodePicture
  BY <1>3, <1>4, <1>10, DecodePictureLayout
<1>11. CASE SkipPicture
  <2>1. stage = 1
    BY <1>11 DEF SkipPicture, Decoding, ClassInv, IInv, TypeOK
  <2> QED BY <1>4, <1>5, <1>11, <2>1, QuietLayout DEF SkipPicture, Decoding, Good
<1>12. CASE DecodeEnds
  <2>1. stage = 1
    BY <1>12 DEF DecodeEnds, ClassInv, IInv, TypeOK
  <2> QED BY <1>4, <1>5, <1>12, <2>1, QuietLayout DEF DecodeEnds, Good
<1>13. CASE DecodeFails
  BY <1>4, <1>5, <1>13, QuietLayout DEF DecodeFails, Good
<1>14. CASE ReadImage
  BY <1>3, <1>4, <1>14, ReadImageLayout
<1>15. CASE ReadEnds
  BY <1>4, <1>5, <1>15, QuietLayout DEF ReadEnds, Reading, Good
<1>16. CASE SkipSamples \/ ReadCrashes
  BY <1>4, <1>16, NeverMisplaced DEF SkipSamples, ReadCrashes
<1>17. CASE DumpConfig
  <2>1. /\ pc = "dump" /\ pc' = "free" /\ Good
    BY <1>17 DEF DumpConfig, RunningInv, Good
  <2>2. stage = 2 => ~HasImage(input, pos, inputInfo)
    BY <1>4, <2>1 DEF Layout, ReadInv
  <2> QED BY <1>4, <1>17, <2>1, <2>2, QuietLayout DEF DumpConfig
<1>18. CASE DumpCrashes
  BY <1>4, <1>18, EndLayout DEF DumpCrashes, Good
<1>19. CASE Free
  BY <1>4, <1>19, EndLayout DEF Free, Good
<1>20. CASE Rerun
  BY <1>4, <1>20, RerunLayout
<1>21. CASE UNCHANGED vars
  <2>1. stage = 2 /\ Good /\ pc # "init" =>
          (pc # "run" => ~HasImage(input, pos, inputInfo))
    BY <1>4 DEF Layout, ReadInv
  <2> QED BY <1>4, <1>5, <1>21, <2>1, QuietLayout DEF vars, Good
<1> QED
  BY <1>6, <1>7, <1>8, <1>9, <1>10, <1>11, <1>12, <1>13, <1>14, <1>15, <1>16,
     <1>17, <1>18, <1>19, <1>20, <1>21 DEF Next, Terminated

LEMMA NextClass ==
  ASSUME IInv, ClassInv, [Next]_vars
  PROVE  ClassInv'
<1>1. CASE UNCHANGED <<stage, klass, first>>
  BY <1>1 DEF ClassInv
<1>2. CASE Rerun
  BY <1>2 DEF Rerun, ClassInv
<1> QED
  BY <1>1, <1>2 DEF Next, InitSucceeds, OpenInput, InitFails, InitCrashes,
     DecodePicture, SkipPicture, DecodeEnds, DecodeFails, ReadImage, ReadEnds,
     SkipSamples, ReadCrashes, DumpConfig, DumpCrashes, Free, Terminated, vars,
     commandVars

(* The report of the first run is a sequence.                              *)
FirstInv == \E S : first.report \in Seq(S)

LEMMA NextFirst ==
  ASSUME IInv, FirstInv, [Next]_vars
  PROVE  FirstInv'
<1>1. CASE UNCHANGED first
  BY <1>1 DEF FirstInv
<1>2. CASE Rerun
  <2>1. first'.report = report
    BY <1>2 DEF Rerun
  <2> QED BY <2>1 DEF FirstInv, IInv, ReportInv
<1> QED
  BY <1>1, <1>2 DEF Next, InitSucceeds, OpenInput, InitFails, InitCrashes,
     DecodePicture, SkipPicture, DecodeEnds, DecodeFails, ReadImage, ReadEnds,
     SkipSamples, ReadCrashes, DumpConfig, DumpCrashes, Free, Terminated, vars,
     commandVars

RereadInv == RunningInv /\ ClassInv /\ FirstInv /\ LayoutInv

LEMMA Rereading == Spec => []RereadInv
<1>1. Init => RereadInv
  <2>. SUFFICES ASSUME Init PROVE RereadInv
    OBVIOUS
  <2>. USE DEF Init, Fresh
  <2>1. RunningInv /\ ClassInv
    BY DEF RunningInv, ClassInv
  <2>2. FirstInv
    <3>1. first.report \in Seq({})
      OBVIOUS
    <3> QED BY <3>1 DEF FirstInv
  <2>3. LayoutInv
    <3>1. Len(<<>>) = 0
      OBVIOUS
    <3>2. OutInv
      BY <3>1 DEF OutInv, Shaped, Reported, Whole
    <3>3. CountInv /\ SourceInv /\ ReadInv
      BY DEF CountInv, SourceInv, ReadInv
    <3> QED BY <3>2, <3>3 DEF LayoutInv, Layout
  <2> QED BY <2>1, <2>2, <2>3 DEF RereadInv
<1>2. IInv /\ IInv' /\ RereadInv /\ [Next]_vars => RereadInv'
  BY NextRunning, NextClass, NextFirst, NextLayout DEF RereadInv
<1> QED BY <1>1, <1>2, Invariance, PTL DEF Spec

-----------------------------------------------------------------------------
(* What the second run has made of the output of the first                 *)

(* The pictures that have been read are in the file, and in the report of  *)
(* the first run.                                                          *)
LEMMA NothingElse ==
  ASSUME IInv, Layout, stage = 2
  PROVE  /\ \A i \in 1..Len(file) : i \in 1..Len(input) /\ file[i] = input[i]
         /\ first.reports =>
              \A i \in 1..Len(report) :
                i \in 1..Len(first.report) /\ report[i] = first.report[i]
<1>1. /\ Len(file) \in Nat /\ Len(input) \in Nat /\ pos \in Nat
      /\ pos <= Len(input) + 1 /\ imageIndex \in Nat
  BY LenProperties DEF IInv, TypeOK, FileInv, InputInv
<1>2. \A i \in 1..Len(file) : i \in 1..Len(input) /\ file[i] = input[i]
  <2>1. Len(file) < pos /\ Shaped(file) /\ Shaped(input)
    BY DEF Layout, OutInv, SourceInv, ReadInv
  <2> QED BY <1>1, <2>1 DEF Shaped
<1>3. ASSUME first.reports, NEW i \in 1..Len(report)
      PROVE  i \in 1..Len(first.report) /\ report[i] = first.report[i]
  <2>1. imageIndex # 0 /\ Len(report) = imageIndex + 1
    <3>1. report # <<>>
      OBVIOUS
    <3> QED BY <3>1 DEF IInv, ReportInv
  <2>2. 1 + imageIndex * Stride < pos /\ sizes # <<>>
    <3>1. report # <<>>
      OBVIOUS
    <3> QED BY <1>1, <2>1, <3>1 DEF Layout, OutInv, ReadInv
  <2>3. Stride \in Nat \ {0} /\ imageIndex * Stride \in Nat
    BY <1>1, <2>2, SizeOfPictures, Product
  <2>4. input # <<>>
    <3>1. Len(input) # 0
      BY <1>1, <2>2, <2>3
    <3> QED BY <3>1, EmptySeq DEF IInv, InputInv
  <2>. DEFINE last == Len(first.report) - 1
  <2>5. /\ Reported(first.report) /\ Len(first.report) \in Nat \ {0}
        /\ Len(input) <= 1 + last * Stride
    BY <1>3, <2>4 DEF Layout, SourceInv
  <2>6. last \in Nat /\ Len(first.report) = last + 1
    BY <2>5
  <2>. HIDE DEF last
  <2>7. last * Stride \in Nat
    BY <2>3, <2>6, Product
  <2>8. imageIndex * Stride <= last * Stride
    BY <1>1, <2>2, <2>3, <2>5, <2>7
  <2>9. imageIndex <= last
    BY <1>1, <2>3, <2>6, <2>8, Product
  <2>10. i \in 1..Len(first.report)
    BY <1>1, <2>1, <2>6, <2>9
  <2>11. report[i] = Entry(i)
    BY DEF Layout, OutInv, Reported
  <2> QED BY <2>5, <2>10, <2>11 DEF Reported
<1> QED BY <1>2, <1>3

(* When nothing has failed the reader has come to the end of the file.     *)
LEMMA AllRead ==
  ASSUME IInv, RunningInv, Layout, stage = 2,
         first.exit = "success", ~first.lost, exit = "success"
  PROVE  /\ numFrames \in Nat \ {0}
         /\ Len(input) = 1 + numFrames * Stride
         /\ first.reports => Len(first.report) = numFrames + 1
<1>1. pc \notin {"init", "run"} /\ Good
  BY DEF RunningInv, Good
<1>2. /\ input # <<>> /\ HeaderRead /\ pos = 2 + numFrames * Stride
      /\ ~HasImage(input, pos, inputInfo)
  BY <1>1 DEF Layout, ReadInv
<1>3. Shaped(input) /\ sizes # <<>>
  BY <1>2 DEF Layout, SourceInv
<1>4. PICK n \in Nat \ {0} :
        /\ Len(input) = 1 + n * Stride
        /\ first.reports => Len(first.report) = n + 1
  BY <1>2 DEF Layout, SourceInv
<1>5. /\ Width \in Nat /\ Height \in Nat /\ Stride \in Nat \ {0}
      /\ Stride - 1 = NumBytes(format, Width, Height)
      /\ format \in VideoFormats /\ numFrames \in Nat
      /\ pos \in Nat /\ pos <= Len(input) + 1 /\ Len(input) \in Nat
  BY <1>3, SizeOfPictures, LenProperties DEF IInv, TypeOK, InputInv
<1>6. /\ numFrames * Stride \in Nat /\ n * Stride \in Nat
      /\ numFrames * Stride <= n * Stride => numFrames <= n
      /\ numFrames < n => numFrames * Stride + Stride <= n * Stride
  BY <1>5, Product
<1>7. numFrames <= n
  BY <1>2, <1>4, <1>5, <1>6
<1>8. ~(numFrames < n)
  <2>. SUFFICES ASSUME numFrames < n PROVE FALSE
    OBVIOUS
  <2>1. pos + (Stride - 1) <= Len(input) /\ pos \in 1..Len(input)
    BY <1>2, <1>4, <1>5, <1>6
  <2>2. NumBytes(inputInfo.format, inputInfo.width, inputInfo.height) = Stride - 1
    <3>1. /\ inputInfo.format \in VideoFormats
          /\ VideoFormatInfo[inputInfo.format] = VideoFormatInfo[format]
          /\ inputInfo.width = Width /\ inputInfo.height = Height
      BY <1>2 DEF HeaderRead
    <3>2. NumBytes(inputInfo.format, Width, Height) = NumBytes(format, Width, Height)
      BY ONLY <1>5, <3>1, SameEntry
    <3> QED BY <1>5, <3>1, <3>2
  <2>3. input[pos] = FrameTag
    <3>1. 0 \in 0..Stride - 1 /\ pos = 2 + numFrames * Stride + 0
      BY <1>2, <1>5, <1>6
    <3>2. Cell(pos) = FrameTag
      BY <1>5, <3>1, PictureCells
    <3> QED BY <1>3, <2>1, <3>2 DEF Shaped
  <2> QED BY <1>2, <1>5, <2>1, <2>2, <2>3 DEF HasImage
<1>9. numFrames = n
  BY <1>5, <1>7, <1>8
<1> QED BY <1>4, <1>9

(* gen_ref_rawvideo over the output of a decoder that stops at the first   *)
(* refused picture reports nothing but what the decoder has reported, and  *)
(* all of it when nothing has failed; for every stream of pictures of one  *)
(* size in every format.                                                   *)
THEOREM ReportIsReproduced == Spec => []SameReport
<1>1. IInv /\ RereadInv => SameReport
  <2>. SUFFICES ASSUME IInv, RereadInv, OneSize, stage = 2, first.klass # "gstreamer",
                       first.reports
                PROVE  /\ \A i \in 1..Len(report) :
                            i <= Len(first.report) /\ report[i] = first.report[i]
                       /\ /\ first.exit = "success" /\ ~first.lost
                          /\ exit = "success" /\ Reports
                          => report = first.report
    BY DEF SameReport, Regenerated
  <2>1. Layout
    BY DEF RereadInv, ClassInv, LayoutInv, Stopping
  <2>2. \A i \in 1..Len(report) :
          i \in 1..Len(first.report) /\ report[i] = first.report[i]
    BY <2>1, NothingElse
  <2>3. PICK S : report \in Seq(S)
    BY DEF IInv, ReportInv
  <2>4. PICK T : first.report \in Seq(T)
    BY DEF RereadInv, FirstInv
  <2>5. report \in Seq(S \cup T) /\ first.report \in Seq(S \cup T)
    BY <2>3, <2>4, SeqMonotonic
  <2>6. \A i \in 1..Len(report) : i <= Len(first.report)
    BY <2>2, <2>5, LenProperties
  <2>7. ASSUME first.exit = "success", ~first.lost, exit = "success", Reports
        PROVE  report = first.report
    <3>1. numFrames \in Nat \ {0} /\ Len(first.report) = numFrames + 1
      BY <2>1, <2>7, AllRead DEF RereadInv
    <3>2. imageIndex = numFrames
      BY <2>1, <2>7 DEF Layout, OutInv, Good
    <3>3. Len(report) = numFrames + 1
      BY <3>1, <3>2 DEF IInv, ReportInv
    <3> QED BY <2>2, <2>5, <3>1, <3>3, SeqEqual
  <2> QED BY <2>2, <2>6, <2>7
<1> QED BY <1>1, Invariance, Rereading, PTL

(* The output of gen_ref_rawvideo is a beginning of its input, and all of  *)
(* it when nothing has failed, header included; under the same conditions. *)
THEOREM FileIsReproduced == Spec => []SameFile
<1>1. IInv /\ RereadInv => SameFile
  <2>. SUFFICES ASSUME IInv, RereadInv, OneSize, stage = 2, first.klass # "gstreamer"
                PROVE  /\ \A i \in 1..Len(file) : i <= Len(input) /\ file[i] = input[i]
                       /\ /\ first.exit = "success" /\ ~first.lost
                          /\ exit = "success" /\ Writes /\ ~lost
                          => file = input
    BY DEF SameFile
  <2>1. Layout
    BY DEF RereadInv, ClassInv, LayoutInv, Stopping
  <2>2. file \in Seq(Cells) /\ input \in Seq(Cells)
    BY DEF IInv, FileInv, InputInv
  <2>3. \A i \in 1..Len(file) : i \in 1..Len(input) /\ file[i] = input[i]
    BY <2>1, NothingElse
  <2>4. \A i \in 1..Len(file) : i <= Len(input)
    BY <2>2, <2>3, LenProperties
  <2>5. ASSUME first.exit = "success", ~first.lost, exit = "success", Writes, ~lost
        PROVE  file = input
    <3>1. numFrames \in Nat \ {0} /\ Len(input) = 1 + numFrames * Stride
      BY <2>1, <2>5, AllRead DEF RereadInv
    <3>2. Len(file) = 1 + numFrames * Stride
      BY <2>1, <2>5, <3>1 DEF Layout, OutInv, Good, Whole
    <3> QED BY <2>2, <2>3, <3>1, <3>2, SeqEqual
  <2> QED BY <2>3, <2>4, <2>5
<1> QED BY <1>1, Invariance, Rereading, PTL

-----------------------------------------------------------------------------
(* cmp_video over the two files                                            *)

(* A file of the stream, or what is left of one.                           *)
Regular(cells) ==
  /\ cells \in Seq(Cells) /\ Shaped(cells)
  /\ cells # <<>> => sizes # <<>> /\ IsYuv(format)

(* What its header says, when it can be read.                              *)
Described(info) ==
  /\ info.width = Width /\ info.height = Height
  /\ info.format \in VideoFormats
  /\ VideoFormatInfo[info.format] = VideoFormatInfo[format]

(* n pictures of a video have been read.                                   *)
Stands(video, n) ==
  /\ Regular(video.file) /\ HasHeader(video.file)
  /\ video.info = DefaultRates(HeaderInfo(video.file[1]))
  /\ video.pos = 2 + n * Stride
  /\ n > 0 => 1 + n * Stride <= Len(video.file)

CompleteVerdict ==
  verdict = "success" <=>
    /\ HasHeader(source.file) /\ HasHeader(reference.file)
    /\ Cardinality(Pictures(source.file)) <= Cardinality(Pictures(reference.file))

Comparing ==
  /\ values \in Seq({"infinite"})
  /\ comparing \in {"frames", "done"}
  /\ comparing = "frames" =>
       \E n \in Nat : Stands(source, n) /\ Stands(reference, n)
  /\ comparing = "done" => CompleteVerdict

CompareInv ==
  /\ comparing = "no" => values = <<>>
  /\ comparing # "no" /\ stage = 2 /\ first.klass # "gstreamer" /\ OneSize => Comparing

-----------------------------------------------------------------------------
(* The pictures of a file                                                  *)

(* A header that is read describes the pictures behind it.                 *)
LEMMA HeaderDescribes ==
  ASSUME IInv, NEW cells, Regular(cells), HasHeader(cells)
  PROVE  /\ sizes # <<>> /\ Len(cells) \in Nat \ {0} /\ cells[1] = Cell(1)
         /\ Described(HeaderInfo(cells[1]))
         /\ Described(DefaultRates(HeaderInfo(cells[1])))
<1>1. cells # <<>> /\ HeaderInfo(cells[1]).format # "unknown"
  BY DEF HasHeader
<1>2. sizes # <<>> /\ IsYuv(format) /\ Shaped(cells) /\ cells \in Seq(Cells)
  BY <1>1 DEF Regular
<1>3. Len(cells) \in Nat \ {0} /\ cells[1] = Cell(1)
  <2>1. Len(cells) \in Nat \ {0}
    BY <1>1, <1>2, LenProperties, EmptySeq
  <2> QED BY <1>2, <2>1 DEF Shaped
<1>4. format \in VideoFormats /\ Rate \in Nat \ {0}
  BY DecoderCoreAssumption DEF IInv, TypeOK, Rate
<1>. DEFINE g == ReadFormat(Colorspace(format), VideoFormatInfo[format].depth)
            info == HeaderInfo(Cell(1))
<1>5. /\ info.format = g /\ info.width = Width /\ info.height = Height
      /\ info.fps = Rate
  BY DEF Cell, Header, HeaderInfo
<1>6. g # "unknown"
  BY <1>1, <1>3, <1>5
<1>7. g \in VideoFormats /\ VideoFormatInfo[g] = VideoFormatInfo[format]
  BY <1>2, <1>4, <1>6, ReadBack
<1>. HIDE DEF g, info
<1>8. DefaultRates(info) = info
  BY <1>4, <1>5 DEF DefaultRates
<1>9. Described(info)
  BY <1>5, <1>7 DEF Described
<1> QED BY <1>2, <1>3, <1>8, <1>9 DEF info

(* Where pictures are whole.                                               *)
LEMMA WholePicture ==
  ASSUME IInv, NEW cells, Regular(cells), HasHeader(cells),
         NEW info, Described(info), NEW n \in Nat
  PROVE  /\ HasImage(cells, 2 + n * Stride, info) <=> 1 + (n + 1) * Stride <= Len(cells)
         /\ 2 + n * Stride <= Len(cells) => cells[2 + n * Stride] = FrameTag
         /\ AfterImage(2 + n * Stride, info) = 2 + (n + 1) * Stride
         /\ NumBytes(info.format, info.width, info.height) = Stride - 1
<1>1. /\ sizes # <<>> /\ Len(cells) \in Nat /\ Shaped(cells)
  BY HeaderDescribes DEF Regular
<1>2. /\ Width \in Nat /\ Height \in Nat /\ Stride \in Nat \ {0}
      /\ Stride - 1 = NumBytes(format, Width, Height) /\ format \in VideoFormats
  BY <1>1, SizeOfPictures DEF IInv, TypeOK
<1>3. NumBytes(info.format, info.width, info.height) = Stride - 1
  <2>1. /\ info.format \in VideoFormats
        /\ VideoFormatInfo[info.format] = VideoFormatInfo[format]
        /\ info.width = Width /\ info.height = Height
    BY DEF Described
  <2>2. NumBytes(info.format, Width, Height) = NumBytes(format, Width, Height)
    BY ONLY <1>2, <2>1, SameEntry
  <2> QED BY <1>2, <2>1, <2>2
<1>4. n * Stride \in Nat /\ (n + 1) * Stride = n * Stride + Stride
  BY <1>2, Product
<1>5. 2 + n * Stride <= Len(cells) => cells[2 + n * Stride] = FrameTag
  <2>. SUFFICES ASSUME 2 + n * Stride <= Len(cells)
                PROVE  cells[2 + n * Stride] = FrameTag
    OBVIOUS
  <2>1. 2 + n * Stride \in 1..Len(cells) /\ 0 \in 0..Stride - 1
        /\ 2 + n * Stride + 0 = 2 + n * Stride
    BY <1>1, <1>2, <1>4
  <2>2. Cell(2 + n * Stride + 0) = FrameTag
    BY <1>2, <2>1, PictureCells
  <2> QED BY <1>1, <2>1, <2>2 DEF Shaped
<1>6. HasImage(cells, 2 + n * Stride, info) <=> 1 + (n + 1) * Stride <= Len(cells)
  BY <1>1, <1>2, <1>3, <1>4, <1>5 DEF HasImage
<1>7. AfterImage(2 + n * Stride, info) = 2 + (n + 1) * Stride
  BY <1>2, <1>3, <1>4 DEF AfterImage
<1> QED BY <1>3, <1>5, <1>6, <1>7

(* A FRAME line is where a picture of the stream begins.                   *)
LEMMA FrameLineAt ==
  ASSUME Stride \in Nat \ {0}, NEW p \in Nat \ {0, 1}, Cell(p) = FrameTag
  PROVE  \E n \in Nat : p = 2 + n * Stride
<1>1. (p - 2) % Stride = 0
  <2>. SUFFICES ASSUME (p - 2) % Stride # 0 PROVE FALSE
    OBVIOUS
  <2>1. Cell(p).kind = "byte"
    BY DEF Cell, Byte
  <2> QED BY <2>1 DEF FrameTag
<1>2. (p - 2) \div Stride \in Nat /\ p - 2 = ((p - 2) \div Stride) * Stride
  <2>1. p - 2 \in Nat
    OBVIOUS
  <2>. DEFINE m == p - 2
  <2>. HIDE DEF m
  <2>2. m \in Nat => m = (m \div Stride) * Stride + (m % Stride) /\ m \div Stride \in Nat
    OBVIOUS
  <2>3. m % Stride = 0 => m % Stride \in Nat
    OBVIOUS
  <2> QED BY <1>1, <2>1, <2>2, <2>3 DEF m
<1>. DEFINE n == (p - 2) \div Stride
<1>3. n \in Nat /\ p - 2 = n * Stride
  BY <1>2
<1>. HIDE DEF n
<1>4. p = 2 + n * Stride
  BY <1>3
<1> QED BY <1>3, <1>4

LEMMA PicturesOfFile ==
  ASSUME IInv, NEW cells, Regular(cells), HasHeader(cells)
  PROVE  /\ Pictures(cells) = {p \in 2..Len(cells) :
              \E n \in Nat : p = 2 + n * Stride /\ 1 + (n + 1) * Stride <= Len(cells)}
         /\ IsFiniteSet(Pictures(cells))
<1>. DEFINE info == HeaderInfo(cells[1])
<1>1. /\ sizes # <<>> /\ Len(cells) \in Nat /\ Shaped(cells) /\ Described(info)
  BY HeaderDescribes DEF Regular
<1>2. Stride \in Nat \ {0}
  BY <1>1, SizeOfPictures
<1>3. Pictures(cells) = {p \in 2..Len(cells) : HasImage(cells, p, info)}
  BY DEF Pictures
<1>. HIDE DEF info
<1>4. ASSUME NEW p \in 2..Len(cells)
      PROVE  HasImage(cells, p, info) <=>
               \E n \in Nat : p = 2 + n * Stride /\ 1 + (n + 1) * Stride <= Len(cells)
  <2>1. ASSUME HasImage(cells, p, info)
        PROVE  \E n \in Nat : p = 2 + n * Stride
    <3>1. cells[p] = FrameTag /\ p \in 1..Len(cells) /\ p \in Nat \ {0, 1}
      BY <1>1, <2>1 DEF HasImage
    <3>2. Cell(p) = FrameTag
      BY <1>1, <3>1 DEF Shaped
    <3> QED BY <1>2, <3>1, <3>2, FrameLineAt
  <2> QED BY <1>1, <2>1, WholePicture
<1>5. IsFiniteSet(2..Len(cells))
  BY <1>1, FS_Interval
<1>6. IsFiniteSet(Pictures(cells))
  BY <1>3, <1>5, FS_Subset
<1> QED BY <1>3, <1>4, <1>6

(* A file that ends after n pictures has no more pictures than one that    *)
(* has n, and fewer than one that has more.                                *)
LEMMA EndsAfter ==
  ASSUME IInv, NEW cells, Regular(cells), HasHeader(cells),
         NEW others, Regular(others), HasHeader(others), NEW n \in Nat,
         ~(1 + (n + 1) * Stride <= Len(cells))
  PROVE  /\ (n > 0 => 1 + n * Stride <= Len(others)) =>
              Cardinality(Pictures(cells)) <= Cardinality(Pictures(others))
         /\ 1 + (n + 1) * Stride <= Len(others) =>
              ~(Cardinality(Pictures(others)) <= Cardinality(Pictures(cells)))
<1>1. /\ sizes # <<>> /\ Len(cells) \in Nat /\ Len(others) \in Nat
  BY HeaderDescribes
<1>2. Stride \in Nat \ {0}
  BY <1>1, SizeOfPictures
<1>3. \A k \in Nat : /\ k * Stride \in Nat /\ (k + 1) * Stride = k * Stride + Stride
  BY <1>2, Product
<1>4. \A k, l \in Nat : k <= l => k * Stride <= l * Stride
  BY <1>2, Product
<1>5. ASSUME NEW p \in Pictures(cells)
      PROVE  \E k \in 0..n - 1 : p = 2 + k * Stride
  <2>1. PICK k \in Nat : p = 2 + k * Stride /\ 1 + (k + 1) * Stride <= Len(cells)
    BY PicturesOfFile
  <2>2. ~(n <= k)
    <3>. SUFFICES ASSUME n <= k PROVE FALSE
      OBVIOUS
    <3>1. (n + 1) * Stride <= (k + 1) * Stride
      BY <1>4
    <3>2. n + 1 \in Nat /\ k + 1 \in Nat
      OBVIOUS
    <3>3. (n + 1) * Stride \in Nat /\ (k + 1) * Stride \in Nat
      BY <1>3, <3>2
    <3> QED BY <1>1, <2>1, <3>1, <3>3
  <2>3. k \in 0..n - 1
    BY <2>2
  <2> QED BY <2>1, <2>3
<1>6. ASSUME n > 0 => 1 + n * Stride <= Len(others)
      PROVE  Pictures(cells) \subseteq Pictures(others)
  <2>. SUFFICES ASSUME NEW p \in Pictures(cells) PROVE p \in Pictures(others)
    OBVIOUS
  <2>1. PICK k \in 0..n - 1 : p = 2 + k * Stride
    BY <1>5
  <2>2. n > 0 /\ k \in Nat /\ k + 1 \in Nat /\ k + 1 <= n
    BY <2>1
  <2>3. (k + 1) * Stride <= n * Stride /\ (k + 1) * Stride \in Nat /\ n * Stride \in Nat
    BY <1>3, <1>4, <2>2
  <2>4. 1 + (k + 1) * Stride <= Len(others)
    BY <1>1, <1>6, <2>2, <2>3
  <2>5. p \in 2..Len(others)
    <3>1. k * Stride \in Nat /\ (k + 1) * Stride = k * Stride + Stride
      BY <1>3, <2>2
    <3> QED BY <1>1, <1>2, <2>1, <2>4, <3>1
  <2> QED BY <2>1, <2>2, <2>4, <2>5, PicturesOfFile
<1>7. IsFiniteSet(Pictures(cells)) /\ IsFiniteSet(Pictures(others))
  BY PicturesOfFile
<1>8. ASSUME 1 + (n + 1) * Stride <= Len(others)
      PROVE  ~(Cardinality(Pictures(others)) <= Cardinality(Pictures(cells)))
  <2>1. n * Stride \in Nat /\ (n + 1) * Stride = n * Stride + Stride
    BY <1>3
  <2>2. 1 + n * Stride <= Len(others) /\ 2 + n * Stride \in 2..Len(others)
    BY <1>1, <1>2, <1>8, <2>1
  <2>3. 2 + n * Stride \in Pictures(others)
    BY <1>8, <2>2, PicturesOfFile
  <2>4. 2 + n * Stride \notin Pictures(cells)
    <3>. SUFFICES ASSUME 2 + n * Stride \in Pictures(cells) PROVE FALSE
      OBVIOUS
    <3>1. PICK k \in 0..n - 1 : 2 + n * Stride = 2 + k * Stride
      BY <1>5
    <3>2. (k + 1) * Stride = k * Stride + Stride /\ (k + 1) * Stride <= n * Stride
          /\ k * Stride \in Nat
      BY <1>3, <1>4, <3>1
    <3> QED BY <1>2, <2>1, <3>1, <3>2
  <2>5. Pictures(cells) \subseteq Pictures(others)
    BY <1>6, <2>2
  <2>6. /\ Cardinality(Pictures(cells)) <= Cardinality(Pictures(others))
        /\ Cardinality(Pictures(cells)) = Cardinality(Pictures(others))
             => Pictures(cells) = Pictures(others)
    BY <1>7, <2>5, FS_Subset
  <2>7. Cardinality(Pictures(cells)) \in Nat /\ Cardinality(Pictures(others)) \in Nat
    BY <1>7, FS_CardinalityType
  <2> QED BY <2>3, <2>4, <2>6, <2>7
<1> QED BY <1>6, <1>7, <1>8, FS_Subset

-----------------------------------------------------------------------------
(* The loop of app_run()                                                   *)

(* Two videos with the same pictures before them.                          *)
LEMMA NextPictures ==
  ASSUME IInv, NEW n \in Nat, Stands(source, n), Stands(reference, n)
  PROVE  /\ ~Misread(source) /\ ~Misread(reference)
         /\ HasImage(source.file, source.pos, source.info) <=>
              1 + (n + 1) * Stride <= Len(source.file)
         /\ HasImage(reference.file, reference.pos, reference.info) <=>
              1 + (n + 1) * Stride <= Len(reference.file)
         /\ \A p \in FrameLines(source) : p = source.pos
         /\ \A p \in FrameLines(reference) : p = reference.pos
<1>1. ASSUME NEW video, Stands(video, n)
      PROVE  /\ ~Misread(video)
             /\ HasImage(video.file, video.pos, video.info) <=>
                  1 + (n + 1) * Stride <= Len(video.file)
             /\ \A p \in FrameLines(video) : p = video.pos
  <2>1. Regular(video.file) /\ HasHeader(video.file)
        /\ Described(video.info) /\ sizes # <<>> /\ Len(video.file) \in Nat
        /\ video.pos = 2 + n * Stride
    BY <1>1, HeaderDescribes DEF Stands
  <2>2. /\ HasImage(video.file, 2 + n * Stride, video.info)
             <=> 1 + (n + 1) * Stride <= Len(video.file)
        /\ 2 + n * Stride <= Len(video.file) => video.file[2 + n * Stride] = FrameTag
    BY <2>1, WholePicture
  <2>3. ~Misread(video)
    BY <2>1, <2>2 DEF Misread
  <2>4. n * Stride \in Nat
    BY <2>1, SizeOfPictures, Product
  <2>5. ASSUME NEW p \in FrameLines(video)
        PROVE  p = video.pos
    <3>1. p \in video.pos..Len(video.file) /\ video.pos \in Nat
          /\ \A q \in video.pos..p - 1 : video.file[q] # FrameTag
      BY <2>1, <2>4, <2>5 DEF FrameLines
    <3>2. video.file[video.pos] = FrameTag
      BY <2>1, <2>2, <3>1
    <3>3. video.pos \notin video.pos..p - 1
      BY <3>1, <3>2
    <3> QED BY <3>1, <3>3
  <2> QED BY <2>1, <2>2, <2>3, <2>5
<1> QED BY <1>1

(* The samples that are compared are those of one picture.                 *)
LEMMA SamePicture ==
  ASSUME IInv, NEW n \in Nat, Stands(source, n), Stands(reference, n),
         1 + (n + 1) * Stride <= Len(source.file),
         1 + (n + 1) * Stride <= Len(reference.file)
  PROVE  LET image == ImageAt(source.file, source.pos, source.info)
             ref   == ImageAt(reference.file, reference.pos, reference.info)
         IN  Comparable(image, ref) /\ Quality(image, ref) = "infinite"
<1>. DEFINE image == ImageAt(source.file, source.pos, source.info)
            ref   == ImageAt(reference.file, reference.pos, reference.info)
            bytes == [i \in 1..Stride - 1 |-> Byte(n + 1, i)]
<1>1. ASSUME NEW video, Stands(video, n), 1 + (n + 1) * Stride <= Len(video.file)
      PROVE  LET shown == ImageAt(video.file, video.pos, video.info)
             IN  /\ shown.samples = bytes
                 /\ Described(shown)
  <2>1. Regular(video.file) /\ HasHeader(video.file)
        /\ Described(video.info) /\ sizes # <<>> /\ Len(video.file) \in Nat
        /\ video.pos = 2 + n * Stride
    BY <1>1, HeaderDescribes DEF Stands
  <2>2. NumBytes(video.info.format, video.info.width, video.info.height) = Stride - 1
    BY <2>1, WholePicture
  <2>3. Stride \in Nat \ {0} /\ n * Stride \in Nat
        /\ (n + 1) * Stride = n * Stride + Stride
    BY <2>1, SizeOfPictures, Product
  <2>4. 2 + n * Stride + Stride - 1 <= Len(video.file)
    BY <1>1, <2>1, <2>3
  <2>5. SubSeq(video.file, 2 + n * Stride + 1, 2 + n * Stride + Stride - 1) = bytes
    BY <2>1, <2>3, <2>4, SamplesBehindFrame DEF Regular
  <2>6. 2 + n * Stride + (Stride - 1) = 2 + n * Stride + Stride - 1
    BY <2>3
  <2>. HIDE DEF bytes
  <2>7. ImageAt(video.file, video.pos, video.info).samples = bytes
    BY <2>1, <2>2, <2>5, <2>6 DEF ImageAt, Image
  <2>8. Described(ImageAt(video.file, video.pos, video.info))
    BY <2>1 DEF ImageAt, Image, Described
  <2> QED BY <2>7, <2>8
<1>. HIDE DEF bytes
<1>2. image.samples = ref.samples /\ Described(image) /\ Described(ref)
  BY <1>1
<1>3. IsYuv(image.format)
  <2>1. HasHeader(source.file) /\ Regular(source.file)
    BY DEF Stands
  <2>2. IsYuv(format)
    BY <2>1 DEF Regular, HasHeader
  <2> QED BY <1>2, <2>2 DEF Described, IsYuv
<1>. HIDE DEF image, ref
<1>4. Comparable(image, ref)
  BY <1>2, <1>3 DEF Comparable, Described
<1>5. Quality(image, ref) = "infinite"
  BY <1>2 DEF Quality, SquaredError
<1> QED BY <1>4, <1>5 DEF image, ref

LEMMA RegularKept ==
  ASSUME UNCHANGED <<sizes, format>>, NEW cells
  PROVE  Regular(cells)' <=> Regular(cells)
<1>1. \A i : Cell(i)' = Cell(i)
  BY SameStream
<1> QED BY <1>1 DEF Regular, Shaped

LEMMA CompareFramesStep ==
  ASSUME IInv, CompareInv, comparing = "frames", Comparing,
         CompareFrames, UNCHANGED vars
  PROVE  Comparing'
<1>1. PICK n \in Nat : Stands(source, n) /\ Stands(reference, n)
  BY DEF Comparing
<1>2. PICK p \in FrameLines(source), q \in FrameLines(reference) :
        LET image == ImageAt(source.file, p, source.info)
            ref   == ImageAt(reference.file, q, reference.info)
        IN  /\ MayRead(source, p) /\ MayRead(reference, q)
            /\ source' = Advanced(source, p)
            /\ reference' = Advanced(reference, q)
            /\ IF Comparable(image, ref)
                 THEN /\ values' = Append(values, Quality(image, ref))
                      /\ UNCHANGED <<comparing, verdict>>
                 ELSE UNCHANGED values /\ Stop("failure")
  BY DEF CompareFrames
<1>3. p = source.pos /\ q = reference.pos
  BY <1>1, NextPictures
<1>4. /\ 1 + (n + 1) * Stride <= Len(source.file)
      /\ 1 + (n + 1) * Stride <= Len(reference.file)
  BY <1>1, <1>2, <1>3, NextPictures DEF MayRead
<1>5. /\ values' = Append(values, "infinite") /\ comparing' = "frames"
      /\ UNCHANGED verdict
  BY <1>1, <1>2, <1>3, <1>4, SamePicture
<1>6. UNCHANGED <<sizes, format, stage, first>>
  BY DEF vars, commandVars
<1>7. Stride' = Stride
  BY <1>6, SameStream
<1>8. ASSUME NEW video, Stands(video, n), 1 + (n + 1) * Stride <= Len(video.file)
      PROVE  Stands(Advanced(video, video.pos), n + 1)
  <2>1. Regular(video.file) /\ HasHeader(video.file)
        /\ Described(video.info) /\ video.pos = 2 + n * Stride
    BY <1>8, HeaderDescribes DEF Stands
  <2>2. AfterImage(video.pos, video.info) = 2 + (n + 1) * Stride
    BY <2>1, WholePicture
  <2> QED BY <1>8, <2>1, <2>2 DEF Stands, Advanced
<1>9. Stands(source', n + 1) /\ Stands(reference', n + 1)
  BY <1>1, <1>2, <1>3, <1>4, <1>8
<1>10. Stands(source, n + 1)' /\ Stands(reference, n + 1)'
  BY <1>6, <1>7, <1>9, RegularKept DEF Stands
<1>11. values' \in Seq({"infinite"})
  BY <1>5, AppendProperties DEF Comparing
<1> QED BY <1>5, <1>10, <1>11 DEF Comparing

LEMMA CompareEndsStep ==
  ASSUME IInv, comparing = "frames", Comparing,
         SourceEnds \/ ReferenceEnds \/ CompareCrashes, UNCHANGED vars
  PROVE  Comparing'
<1>1. PICK n \in Nat : Stands(source, n) /\ Stands(reference, n)
  BY DEF Comparing
<1>2. /\ ~Misread(source) /\ ~Misread(reference)
      /\ HasImage(source.file, source.pos, source.info) <=>
           1 + (n + 1) * Stride <= Len(source.file)
      /\ HasImage(reference.file, reference.pos, reference.info) <=>
           1 + (n + 1) * Stride <= Len(reference.file)
      /\ \A p \in FrameLines(source) : p = source.pos
  BY <1>1, NextPictures
<1>3. /\ Regular(source.file) /\ HasHeader(source.file)
      /\ Regular(reference.file) /\ HasHeader(reference.file)
      /\ n > 0 => 1 + n * Stride <= Len(reference.file)
  BY <1>1 DEF Stands
<1>4. ~CompareCrashes
  BY <1>2 DEF CompareCrashes, MayCrash
<1>5. CASE SourceEnds
  <2>1. ~HasImage(source.file, source.pos, source.info)
    BY <1>2, <1>5 DEF SourceEnds, MayEnd
  <2>2. Cardinality(Pictures(source.file)) <= Cardinality(Pictures(reference.file))
    BY <1>2, <1>3, <2>1, EndsAfter
  <2>3. comparing' = "done" /\ verdict' = "success"
        /\ UNCHANGED <<source, reference, values>>
    BY <1>5 DEF SourceEnds, Stop, videoVars
  <2>4. CompleteVerdict'
    BY <1>3, <2>2, <2>3 DEF CompleteVerdict
  <2> QED BY <2>3, <2>4 DEF Comparing
<1>6. CASE ReferenceEnds
  <2>1. ~HasImage(reference.file, reference.pos, reference.info)
    BY <1>2, <1>6 DEF ReferenceEnds, MayEnd
  <2>2. HasImage(source.file, source.pos, source.info)
    BY <1>2, <1>6 DEF ReferenceEnds, MayRead
  <2>3. ~(Cardinality(Pictures(source.file)) <= Cardinality(Pictures(reference.file)))
    BY <1>2, <1>3, <2>1, <2>2, EndsAfter
  <2>4. comparing' = "done" /\ verdict' = "failure"
        /\ UNCHANGED <<source, reference, values>>
    BY <1>6 DEF ReferenceEnds, Stop, videoVars, ReferenceTooShort
  <2>5. CompleteVerdict'
    BY <2>3, <2>4 DEF CompleteVerdict
  <2> QED BY <2>4, <2>5 DEF Comparing
<1> QED BY <1>4, <1>5, <1>6

(* The files that are compared are those of one stream.                    *)
LEMMA CompareOutputsStep ==
  ASSUME IInv, RereadInv, CompareInv, OneSize, first.klass # "gstreamer",
         CompareOutputs
  PROVE  Comparing'
<1>1. /\ stage = 2 /\ comparing = "no" /\ UNCHANGED vars
  BY DEF CompareOutputs, StartComparing
<1>2. Layout
  BY <1>1 DEF RereadInv, ClassInv, LayoutInv, Stopping
<1>3. Regular(input) /\ Regular(file)
  BY <1>1, <1>2 DEF Layout, OutInv, SourceInv, Regular, IInv, FileInv, InputInv
<1>4. PICK src \in {input, file}, ref \in {input, file} : StartComparing(src, ref)
  BY DEF CompareOutputs
<1>5. Regular(src) /\ Regular(ref)
  BY <1>3, <1>4
<1>6. values' = <<>>
  BY <1>1, <1>4 DEF StartComparing, CompareInv
<1>7. UNCHANGED <<sizes, format>>
  BY <1>1 DEF vars, commandVars
<1>. DEFINE worse == IF HasHeader(src) THEN ref ELSE src
<1>8. CASE /\ HasHeader(src) /\ HasHeader(ref)
           /\ source' = Opened(src) /\ reference' = Opened(ref)
           /\ comparing' = "frames" /\ verdict' = "none"
  <2>1. Stride \in Nat \ {0} /\ 2 + 0 * Stride = 2
    <3>1. sizes # <<>>
      BY <1>5, <1>8, HeaderDescribes
    <3> QED BY <3>1, SizeOfPictures
  <2>2. Stands(Opened(src), 0) /\ Stands(Opened(ref), 0)
    BY <1>5, <1>8, <2>1 DEF Stands, Opened
  <2>3. Stands(source', 0) /\ Stands(reference', 0)
    BY <1>8, <2>2
  <2>4. Stride' = Stride
    BY <1>7, SameStream
  <2>5. Stands(source, 0)' /\ Stands(reference, 0)'
    BY <1>7, <2>3, <2>4, RegularKept DEF Stands
  <2> QED BY <1>6, <1>8, <2>5 DEF Comparing
<1>9. CASE /\ ~HasHeader(worse)
           /\ source'    = [NoVideo EXCEPT !.file = src]
           /\ reference' = [NoVideo EXCEPT !.file = ref]
           /\ comparing' = "done"
           /\ verdict' = IF worse = <<>> THEN "crashed" ELSE "failure"
  <2>1. source'.file = src /\ reference'.file = ref
    BY <1>9 DEF NoVideo
  <2>2. ~(HasHeader(src) /\ HasHeader(ref)) /\ verdict' # "success"
    BY <1>9
  <2>3. CompleteVerdict'
    BY <2>1, <2>2 DEF CompleteVerdict
  <2> QED BY <1>6, <1>9, <2>3 DEF Comparing
<1> QED BY <1>4, <1>8, <1>9 DEF StartComparing

(* A tool runs, and then its files are compared.                           *)
LEMMA ToolStep ==
  ASSUME [ToolNext]_toolVars
  PROVE  [Next]_vars
BY DEF ToolNext, RunTool, CompareOutputs, CompareOther, toolVars

LEMMA NextCompare ==
  ASSUME IInv, RereadInv, CompareInv, [ToolNext]_toolVars
  PROVE  CompareInv'
<1>1. CASE RunTool \/ UNCHANGED toolVars
  <2>1. UNCHANGED <<comparing, values>>
    BY <1>1 DEF RunTool, toolVars, compareVars
  <2>2. CASE comparing = "no"
    BY <2>1, <2>2 DEF CompareInv
  <2>3. CASE comparing # "no"
    <3>1. UNCHANGED toolVars
      BY <1>1, <2>3 DEF RunTool
    <3>2. /\ UNCHANGED <<stage, first, sizes, format>>
          /\ UNCHANGED <<comparing, source, reference, values, verdict>>
      BY <3>1 DEF toolVars, vars, commandVars, compareVars, videoVars
    <3>3. CompareInv' <=> CompareInv
      <4>1. Comparing' <=> Comparing
        <5>1. \A n \in Nat : Stands(source, n)' <=> Stands(source, n)
          <6>1. Stride' = Stride
            BY <3>2, SameStream
          <6> QED BY <3>2, <6>1, RegularKept DEF Stands
        <5>2. \A n \in Nat : Stands(reference, n)' <=> Stands(reference, n)
          <6>1. Stride' = Stride
            BY <3>2, SameStream
          <6> QED BY <3>2, <6>1, RegularKept DEF Stands
        <5>3. CompleteVerdict' <=> CompleteVerdict
          BY <3>2 DEF CompleteVerdict
        <5> QED BY <3>2, <5>1, <5>2, <5>3 DEF Comparing
      <4> QED BY <3>2, <4>1 DEF CompareInv, OneSize
    <3> QED BY <3>3
  <2> QED BY <2>2, <2>3
<1>2. CASE CompareOutputs
  <2>1. comparing' # "no" /\ UNCHANGED vars
    BY <1>2 DEF CompareOutputs, StartComparing
  <2>2. UNCHANGED <<stage, first, sizes>>
    BY <2>1 DEF vars, commandVars
  <2> QED BY <1>2, <2>1, <2>2, CompareOutputsStep DEF CompareInv, OneSize
<1>3. CASE CompareOther
  <2>1. comparing' # "no" /\ stage = 1 /\ UNCHANGED vars
    BY <1>3 DEF CompareOther, StartComparing
  <2>2. UNCHANGED stage
    BY <2>1 DEF vars, commandVars
  <2> QED BY <2>1, <2>2 DEF CompareInv
<1>4. CASE CompareNext /\ UNCHANGED vars
  <2>1. UNCHANGED <<stage, first, sizes, format>>
    BY <1>4 DEF vars, commandVars
  <2>2. comparing # "no" /\ comparing' # "no"
    BY <1>4 DEF CompareNext, CompareFrames, SourceEnds, ReferenceEnds,
                CompareCrashes, Compared, Stop, compareVars
  <2>. SUFFICES ASSUME stage = 2, first.klass # "gstreamer", OneSize
                PROVE  Comparing'
    BY <2>1, <2>2 DEF CompareInv, OneSize
  <2>3. Comparing
    BY <2>2 DEF CompareInv
  <2>4. CASE Compared
    <3>1. UNCHANGED toolVars
      BY <1>4, <2>4 DEF Compared, toolVars
    <3>2. comparing = "done" /\ UNCHANGED <<comparing, source, reference, values, verdict>>
      BY <2>4 DEF Compared, compareVars, videoVars
    <3>3. CompleteVerdict' <=> CompleteVerdict
      BY <3>2 DEF CompleteVerdict
    <3> QED BY <2>3, <3>2, <3>3 DEF Comparing
  <2>5. CASE CompareFrames
    BY <1>4, <2>3, <2>5, CompareFramesStep DEF CompareFrames
  <2>6. CASE SourceEnds \/ ReferenceEnds \/ CompareCrashes
    BY <1>4, <2>3, <2>6, CompareEndsStep DEF SourceEnds, ReferenceEnds, CompareCrashes
  <2> QED BY <1>4, <2>4, <2>5, <2>6 DEF CompareNext
<1> QED BY <1>1, <1>2, <1>3, <1>4 DEF ToolNext

(* The comparison never touches what the tools have left behind: every     *)
(* behavior of the tools one after the other is one of the decoder and     *)
(* gen_ref_rawvideo, so that all that is proved of these holds.            *)
THEOREM ToolsImplementDecoder == ToolSpec => Spec
<1>1. ToolInit => Init
  BY DEF ToolInit
<1>2. [ToolNext]_toolVars => [Next]_vars
  BY ToolStep
<1> QED BY <1>1, <1>2, PTL DEF ToolSpec, Spec

(* cmp_video finds the output of a decoder that stops at the first refused *)
(* picture, and what gen_ref_rawvideo has made of it, the same, and says   *)
(* of the two which one was cut short: for every stream of pictures of one *)
(* size, in every format, whatever failed, and in either order.            *)
THEOREM VideosAreTheSame == ToolSpec => []SameVideo
<1>1. ToolInit => CompareInv
  BY DEF ToolInit, CompareInit, CompareInv
<1>2. IInv /\ RereadInv /\ CompareInv /\ [ToolNext]_toolVars => CompareInv'
  BY NextCompare
<1>3. CompareInv => SameVideo
  <2>. SUFFICES ASSUME CompareInv, comparing = "done", stage = 2,
                       first.klass # "gstreamer", OneSize
                PROVE  /\ \A i \in DOMAIN values : values[i] = "infinite"
                       /\ verdict = "success" <=>
                            /\ HasHeader(source.file) /\ HasHeader(reference.file)
                            /\ Cardinality(Pictures(source.file))
                                 <= Cardinality(Pictures(reference.file))
    BY DEF SameVideo
  <2>1. Comparing
    BY DEF CompareInv
  <2>2. \A i \in DOMAIN values : values[i] = "infinite"
    <3>1. values \in Seq({"infinite"})
      BY <2>1 DEF Comparing
    <3>2. DOMAIN values = 1..Len(values)
      BY <3>1
    <3>3. \A i \in 1..Len(values) : values[i] \in {"infinite"}
      BY <3>1, ElementOfSeq
    <3> QED BY <3>2, <3>3
  <2> QED BY <2>1, <2>2 DEF Comparing, CompleteVerdict
<1> QED BY <1>1, <1>2, <1>3, Invariance, Rereading, ToolsImplementDecoder, PTL DEF ToolSpec

(* Reports, files and config files are right also when the tools are run   *)
(* one after the other.                                                    *)
THEOREM ToolsKeepTheirPromises ==
  ToolSpec => [](/\ ReportInOrder /\ HeaderOnce /\ OutputsComplete
                 /\ ConfigCoversStream /\ SameReport /\ SameFile)
BY ToolsImplementDecoder, ReportsAreInOrder, OneHeader, NothingIsMissing,
   ConfigIsCovering, ReportIsReproduced, FileIsReproduced, PTL
=============================================================================
