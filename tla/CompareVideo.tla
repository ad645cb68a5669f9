----------------------------- MODULE CompareVideo -----------------------------
(***************************************************************************)
(* cmp_video: two Y4M files are read side by side, and the pictures        *)
(* compared with the peak signal-to-noise ratio of mvt_image_compare.c.    *)
(*                                                                         *)
(* A PSNR is infinite when no sample differs; how far samples are apart is *)
(* left out.  The average printed with --average is that of the same       *)
(* values.                                                                 *)
(***************************************************************************)
EXTENDS Naturals, Sequences, ImageFile

VARIABLES
  comparing,  \* where main() stands: "no", "frames", "done"
  metric,     \* psnr, or y_psnr for the luma only
  source,     \* src_video
  reference,  \* ref_video
  values,     \* the qvalue of every pair of pictures
  verdict     \* the exit status

videoVars   == <<source, reference>>
compareVars == <<comparing, metric, videoVars, values, verdict>>

NoVideo == [file |-> <<>>, pos |-> 1, info |-> DefaultInfo]

CompareInit ==
  /\ comparing = "no" /\ metric = "psnr"
  /\ source = NoVideo /\ reference = NoVideo
  /\ values = <<>> /\ verdict = "none"

-----------------------------------------------------------------------------
(* mvt_image_compare()                                                     *)

Least(a, b) == IF a < b THEN a ELSE b

Components(image, ref) ==
  IF metric = "y_psnr" THEN 1
  ELSE Least(VideoFormatInfo[image.format].components,
             VideoFormatInfo[ref.format].components)

(* Formats of one chroma type have one subsampling, and all components of  *)
(* a format one depth.                                                     *)
Comparable(image, ref) ==
  LET vip == VideoFormatInfo[image.format] ref_vip == VideoFormatInfo[ref.format]
  IN  /\ <<image.width, image.height>> = <<ref.width, ref.height>>
      /\ vip.chroma = ref_vip.chroma
      /\ metric = "y_psnr" => IsYuv(image.format)
      /\ vip.depth = ref_vip.depth

(* Only a source may have an alpha component which the other lacks, and no *)
(* two formats that are read from files have one chroma type and depth and *)
(* not the same components: that is left out.                              *)
SquaredError(image, ref) ==
  {i \in 1..BytesOf(image.format, image.width, image.height,
                    Components(image, ref)) :
     image.samples[i] # ref.samples[i]}

Quality(image, ref) ==
  IF SquaredError(image, ref) = {} THEN "infinite" ELSE "finite"

-----------------------------------------------------------------------------
(* main()                                                                  *)

Opened(file) ==
  [file |-> file, pos |-> 2, info |-> DefaultRates(HeaderInfo(file[1]))]

(* app_init(): an empty file has no first word to compare.                 *)
StartComparing(src, ref) ==
  /\ comparing = "no"
  /\ metric' \in {"psnr", "y_psnr"}
  /\ UNCHANGED values
  /\ LET worse == IF HasHeader(src) THEN ref ELSE src
     IN  \/ /\ HasHeader(src) /\ HasHeader(ref)
            /\ source' = Opened(src) /\ reference' = Opened(ref)
            /\ comparing' = "frames" /\ verdict' = "none"
         \/ /\ ~HasHeader(worse)
            /\ source'    = [NoVideo EXCEPT !.file = src]
            /\ reference' = [NoVideo EXCEPT !.file = ref]
            /\ comparing' = "done"
            /\ verdict' = IF worse = <<>> THEN "crashed" ELSE "failure"

(* The FRAME line of the next picture.  Other samples in front of it are   *)
(* read as words, up to the end of a line.                                 *)
FrameLines(video) ==
  {p \in video.pos..Len(video.file) :
     video.file[p] = FrameTag /\ \A q \in video.pos..p - 1 : video.file[q] # FrameTag}

Misread(video) ==
  video.pos <= Len(video.file) /\ video.file[video.pos] # FrameTag

(* mvt_image_file_read_image(): there may be no picture, ...               *)
MayRead(video, p) == p \in FrameLines(video) /\ HasImage(video.file, p, video.info)

MayEnd(video) == Misread(video) \/ ~HasImage(video.file, video.pos, video.info)

(* ... or, once more, no word to compare.                                  *)
MayCrash(video) == Misread(video)

Advanced(video, p) == [video EXCEPT !.pos = AfterImage(p, video.info)]

Stop(result) == comparing' = "done" /\ verdict' = result

(* One turn of the loop of app_run().                                      *)
CompareFrames ==
  /\ comparing = "frames"
  /\ \E p \in FrameLines(source), q \in FrameLines(reference) :
       LET image == ImageAt(source.file, p, source.info)
           ref   == ImageAt(reference.file, q, reference.info)
       IN  /\ MayRead(source, p) /\ MayRead(reference, q)
           /\ source' = Advanced(source, p)
           /\ reference' = Advanced(reference, q)
           /\ IF Comparable(image, ref)
                THEN /\ values' = Append(values, Quality(image, ref))
                     /\ UNCHANGED <<comparing, verdict>>
                ELSE UNCHANGED values /\ Stop("failure")
  /\ UNCHANGED metric

(* Whatever ends the source ends the comparison, and with success.         *)
SourceEnds ==
  /\ comparing = "frames" /\ MayEnd(source)
  /\ Stop("success")
  /\ UNCHANGED <<metric, videoVars, values>>

(* A reference that ends early is accepted: a mistake.                     *)
Accepted == "success"

ReferenceTooShort == "failure"

ReferenceEnds ==
  /\ comparing = "frames"
  /\ \E p \in FrameLines(source) : MayRead(source, p)
  /\ MayEnd(reference)
  /\ Stop(ReferenceTooShort)
  /\ UNCHANGED <<metric, videoVars, values>>

CompareCrashes ==
  /\ comparing = "frames"
  /\ \/ MayCrash(source)
     \/ MayCrash(reference) /\ \E p \in FrameLines(source) : MayRead(source, p)
  /\ Stop("crashed")
  /\ UNCHANGED <<metric, videoVars, values>>

Compared == comparing = "done" /\ UNCHANGED compareVars

CompareNext ==
  CompareFrames \/ SourceEnds \/ ReferenceEnds \/ CompareCrashes \/ Compared

-----------------------------------------------------------------------------
(* Pictures that a file has, each of them behind its FRAME line.           *)
Pictures(file) ==
  IF ~HasHeader(file) THEN {}
  ELSE {p \in 2..Len(file) : HasImage(file, p, HeaderInfo(file[1]))}
=============================================================================
