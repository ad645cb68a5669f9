---------------------------- MODULE DecoderCore ----------------------------
(***************************************************************************)
(* A decoder tool from main() to its exit status: mvt_decoder.c with the   *)
(* report of mvt_report.c and the output file of mvt_image_file.c, for the *)
(* three kinds of decoder classes.  FFmpeg's stops at the first picture    *)
(* that handle_image() refuses, GStreamer's goes on, and the one of        *)
(* gen_ref_rawvideo.c reads its pictures from a file.                      *)
(*                                                                         *)
(* The tool runs twice: first over a stream, then, as gen_ref_rawvideo,    *)
(* over the file which the first run has written.                          *)
(***************************************************************************)
EXTENDS Naturals, Sequences, FiniteSets, ImageFile

CONSTANTS
  Streams,  \* streams: <<width, height>> of every picture
  Formats,  \* the video formats the stream may have
  Fps,      \* frame rate of the stream, 0 when unknown
  Faults    \* a call of the system or of a codec may fail

ASSUME DecoderCoreAssumption ==
  /\ Streams \subseteq Seq((Nat \ {0}) \X (Nat \ {0}))
  /\ Formats \subseteq VideoFormats
  /\ Fps \in Nat
  /\ Faults \in BOOLEAN

VARIABLES
  \* the command
  stage,       \* 1: a decoder; 2: gen_ref_rawvideo over its output
  klass,       \* the decoder class
  options,     \* MvtDecoderOptions
  sizes,       \* the stream
  format,      \* format of its pictures
  \* MvtDecoder
  pc,          \* where main() stands
  exit,        \* the exit status
  taken,       \* pictures of the stream decoded
  numFrames,   \* num_frames
  maxSize,     \* <<max_width, max_height>>
  outputInfo,  \* output_info
  \* MvtReport
  report,      \* the report file
  imageIndex,  \* image_index
  \* MvtImageFile for output
  ready,       \* info_ready
  file,        \* the output file
  lost,        \* some of it was lost when it was closed
  \* the config file
  config,
  \* MvtImageFile for input, in gen_ref_rawvideo
  input,       \* the file
  pos,         \* where it will be read next
  inputInfo,   \* input_info
  \* what is left of the first run
  first

commandVars == <<stage, klass, options, sizes, format, first>>
mainVars    == <<pc, exit>>
reportVars  == <<report, imageIndex>>
fileVars    == <<ready, file>>
decoderVars == <<numFrames, maxSize, outputInfo>>
inputVars   == <<input, pos, inputInfo>>
vars == <<commandVars, mainVars, taken, decoderVars, reportVars, fileVars, lost,
          config, inputVars>>

Options == [report : BOOLEAN, output : BOOLEAN, config : BOOLEAN,
            benchmark : BOOLEAN]

Infos == [format : VideoFormats \cup {"unknown"}, width : Nat, height : Nat,
          fps : Nat]

Statuses == {"none", "success", "failure", "crashed"}

TypeOK ==
  /\ stage \in 1..2
  /\ klass \in {"ffmpeg", "gstreamer", "rawvideo"}
  /\ options \in Options
  /\ sizes \in Streams /\ format \in VideoFormats
  /\ pc \in {"init", "run", "dump", "free", "end"}
  /\ exit \in Statuses
  /\ taken \in 0..Len(sizes)
  /\ numFrames \in Nat
  /\ maxSize \in Nat \X Nat
  /\ outputInfo \in Infos /\ inputInfo \in Infos
  /\ imageIndex \in Nat
  /\ ready \in BOOLEAN /\ lost \in BOOLEAN
  /\ pos \in 1..Len(input) + 1

NoConfig == [state |-> "none", size |-> <<0, 0>>]

(* mvt_decoder_new()                                                       *)
Fresh ==
  /\ pc = "init" /\ exit = "none" /\ taken = 0
  /\ numFrames = 0 /\ maxSize = <<0, 0>> /\ outputInfo = DefaultInfo
  /\ report = <<>> /\ imageIndex = 0
  /\ ready = FALSE /\ file = <<>> /\ lost = FALSE
  /\ config = NoConfig
  /\ pos = 1 /\ inputInfo = DefaultInfo

Init ==
  /\ stage = 1 /\ klass \in {"ffmpeg", "gstreamer"}
  /\ options \in Options
  /\ sizes \in Streams /\ format \in Formats
  /\ input = <<>>
  /\ first = [klass |-> "none", reports |-> FALSE, exit |-> "none",
              lost |-> FALSE, report |-> <<>>]
  /\ Fresh

Max(a, b) == IF a < b THEN b ELSE a

(* What stdio still holds of the output file is lost, and nobody notices.  *)
LoseTail ==
  /\ lost' = TRUE
  /\ \E n \in 0..Len(file) - 1 : file' = SubSeq(file, 1, n)

-----------------------------------------------------------------------------
(* mvt_decoder_init()                                                      *)

(* Nothing of the input file's description is passed on: a mistake.        *)
NoDescription(info) == DefaultInfo

InputDescription(info) == info

(* The options are read, the report, the hash and the output file opened,  *)
(* the decoder class initialized with the frame rate of the stream.        *)
InitSucceeds ==
  /\ pc = "init" /\ klass # "rawvideo"
  /\ pc' = "run"
  /\ outputInfo' = [outputInfo EXCEPT !.fps = Fps]
  /\ UNCHANGED <<commandVars, exit, taken, numFrames, maxSize, reportVars,
                 fileVars, lost, config, inputVars>>

(* decoder_init() of gen_ref_rawvideo.c reads the header and allocates an  *)
(* image; there is none of an unknown format.                              *)
Readable == HasHeader(input)

OpenInput ==
  /\ pc = "init" /\ klass = "rawvideo" /\ Readable
  /\ pc' = "run"
  /\ inputInfo' = DefaultRates(HeaderInfo(input[1]))
  /\ outputInfo' = InputDescription(inputInfo')
  /\ pos' = 2
  /\ UNCHANGED <<commandVars, exit, taken, numFrames, maxSize, reportVars,
                 fileVars, lost, config, input>>

InitFails ==
  /\ pc = "init"
  /\ Faults \/ (klass = "rawvideo" /\ input # <<>> /\ ~Readable)
  /\ pc' = "free" /\ exit' = "failure"
  /\ UNCHANGED <<commandVars, taken, decoderVars, reportVars, fileVars, lost,
                 config, inputVars>>

(* An empty file has no first token, which y4m_read_header() compares all  *)
(* the same.                                                               *)
InitCrashes ==
  /\ pc = "init" /\ klass = "rawvideo" /\ input = <<>>
  /\ pc' = "end" /\ exit' = "crashed"
  /\ UNCHANGED <<commandVars, taken, decoderVars, reportVars, fileVars, lost,
                 config, inputVars>>

-----------------------------------------------------------------------------
(* mvt_decoder_handle_image()                                              *)

Reports == options.report /\ ~options.benchmark
Writes  == options.output /\ ~options.benchmark

(* Frames are numbered by the decoder: a mistake, since a frame that       *)
(* cannot be written is reported but not counted.                          *)
FrameNumber == numFrames

ImageNumber == imageIndex

Heading == [kind |-> "heading"]

Line(image) ==
  [kind |-> "line", index |-> ImageNumber, width |-> image.width,
   height |-> image.height, hash |-> Hash(image)]

WriteReport(image) ==
  /\ report' = report \o (IF imageIndex = 0 THEN <<Heading>> ELSE <<>>)
                      \o <<Line(image)>>
  /\ imageIndex' = imageIndex + 1

(* Before the first frame, output_info follows the image.                  *)
NewInfo(image) ==
  [outputInfo EXCEPT !.format = image.format, !.width = image.width,
                     !.height = image.height]

(* The headers are written before every frame that is the first to be      *)
(* counted: a mistake.                                                     *)
HeaderForFirst == numFrames = 0

(* mvt_image_file_write_headers()                                          *)
HeaderNeeded == numFrames = 0 /\ ~ready

HeaderCells(image) ==
  IF HeaderNeeded THEN <<Header(DefaultRates(NewInfo(image)))>> ELSE <<>>

Written(image) == HeaderCells(image) \o FrameCells(image)

PrepareHeader(image) ==
  outputInfo' = IF numFrames = 0 THEN NewInfo(image) ELSE outputInfo

Accept(image) ==
  /\ IsYuv(image.format) \/ ~(Reports \/ Writes)
  /\ IF Reports THEN WriteReport(image) ELSE UNCHANGED reportVars
  /\ IF Writes
       THEN /\ PrepareHeader(image) /\ ready' = TRUE
            /\ file' = file \o Written(image)
       ELSE UNCHANGED <<outputInfo, fileVars>>
  /\ numFrames' = numFrames + 1
  /\ UNCHANGED mainVars

(* The result of handle_image() is ignored: a mistake.                     *)
Ignored == UNCHANGED <<mainVars, numFrames>>

(* A refused image ends the run, or is forgotten by GStreamer's "handoff". *)
Refused ==
  /\ IF klass = "gstreamer" THEN UNCHANGED mainVars
                            ELSE pc' = "free" /\ exit' = "failure"
  /\ UNCHANGED numFrames

(* RGB can neither be hashed nor written.                                  *)
Reject(image) ==
  /\ ~IsYuv(image.format) /\ (Reports \/ Writes)
  /\ IF Reports THEN UNCHANGED outputInfo ELSE PrepareHeader(image)
  /\ Refused
  /\ UNCHANGED <<reportVars, fileVars>>

(* The image is reported before it is written; a write that fails may have *)
(* written something.                                                      *)
WriteFails(image) ==
  /\ Faults /\ Writes /\ IsYuv(image.format)
  /\ IF Reports THEN WriteReport(image) ELSE UNCHANGED reportVars
  /\ PrepareHeader(image) /\ ready' = TRUE
  /\ \E n \in 0..Len(Written(image)) - 1 :
       file' = file \o SubSeq(Written(image), 1, n)
  /\ Refused

(* The size of the last picture only: a mistake.                           *)
LastSize(image) == <<image.width, image.height>>

NewSize(image) ==
  <<Max(maxSize[1], image.width), Max(maxSize[2], image.height)>>

HandleImage(image) ==
  /\ maxSize' = NewSize(image)
  /\ Accept(image) \/ Reject(image) \/ WriteFails(image)

-----------------------------------------------------------------------------
(* The decoder classes                                                     *)

Decoding == pc = "run" /\ klass # "rawvideo" /\ taken < Len(sizes)

DecodePicture ==
  /\ Decoding /\ ~options.benchmark
  /\ taken' = taken + 1
  /\ LET size == sizes[taken + 1]
     IN  HandleImage(Picture(taken + 1, format, size[1], size[2]))
  /\ UNCHANGED <<commandVars, lost, config, inputVars>>

(* Neither class calls handle_image() in benchmark mode.                   *)
SkipPicture ==
  /\ Decoding /\ options.benchmark
  /\ taken' = taken + 1
  /\ UNCHANGED <<commandVars, mainVars, decoderVars, reportVars, fileVars, lost,
                 config, inputVars>>

DecodeEnds ==
  /\ pc = "run" /\ klass # "rawvideo" /\ taken = Len(sizes)
  /\ pc' = "dump"
  /\ UNCHANGED <<commandVars, exit, taken, decoderVars, reportVars, fileVars,
                 lost, config, inputVars>>

DecodeFails ==
  /\ Faults /\ pc = "run" /\ klass # "rawvideo"
  /\ pc' = "free" /\ exit' = "failure"
  /\ UNCHANGED <<commandVars, taken, decoderVars, reportVars, fileVars, lost,
                 config, inputVars>>

Reading == pc = "run" /\ klass = "rawvideo"

(* mvt_image_file_read_image()                                             *)
ReadImage ==
  /\ Reading /\ HasImage(input, pos, inputInfo)
  /\ pos' = AfterImage(pos, inputInfo)
  /\ HandleImage(ImageAt(input, pos, inputInfo))
  /\ UNCHANGED <<commandVars, taken, lost, config, input, inputInfo>>

(* Anything but a whole image ends the run, and with success.              *)
ReadEnds ==
  /\ Reading /\ ~HasImage(input, pos, inputInfo)
  /\ pc' = "dump"
  /\ UNCHANGED <<commandVars, exit, taken, decoderVars, reportVars, fileVars,
                 lost, config, inputVars>>

(* Samples where a FRAME line is expected are read as words up to the end  *)
(* of a line.  A blank among them may be in front of the next FRAME ...    *)
Misplaced == Reading /\ pos <= Len(input) /\ input[pos] # FrameTag

SkipSamples ==
  /\ Misplaced
  /\ \E p \in pos + 1..Len(input) :
       /\ input[p] = FrameTag /\ \A q \in pos..p - 1 : input[q] # FrameTag
       /\ pos' = p
  /\ UNCHANGED <<commandVars, mainVars, taken, decoderVars, reportVars, fileVars,
                 lost, config, input, inputInfo>>

(* ... or the first word is empty, and there is no string to compare.      *)
ReadCrashes ==
  /\ Misplaced
  /\ pc' = "end" /\ exit' = "crashed"
  /\ LoseTail \/ UNCHANGED <<file, lost>>
  /\ UNCHANGED <<commandVars, taken, decoderVars, reportVars, ready, config,
                 inputVars>>

-----------------------------------------------------------------------------
(* The end of main()                                                       *)

Dumps == options.config /\ ~options.benchmark

(* The codec of a raw video is not known, and the dump then stops in the   *)
(* middle, as it does when the input cannot be hashed; its result is       *)
(* ignored.                                                                *)
DumpConfig ==
  /\ pc = "dump" /\ pc' = "free" /\ exit' = "success"
  /\ \/ ~Dumps /\ UNCHANGED config
     \/ /\ Dumps /\ klass # "rawvideo"
        /\ config' = [state |-> "complete", size |-> maxSize]
     \/ /\ Dumps /\ (Faults \/ klass = "rawvideo")
        /\ config' = [NoConfig EXCEPT !.state = "partial"]
  /\ UNCHANGED <<commandVars, taken, decoderVars, reportVars, fileVars, lost,
                 inputVars>>

(* A config file that cannot be created is closed all the same.            *)
DumpCrashes ==
  /\ Faults /\ pc = "dump" /\ Dumps
  /\ pc' = "end" /\ exit' = "crashed"
  /\ LoseTail \/ UNCHANGED <<file, lost>>
  /\ UNCHANGED <<commandVars, taken, decoderVars, reportVars, ready, config,
                 inputVars>>

(* mvt_decoder_free() closes the files.                                    *)
Free ==
  /\ pc = "free" /\ pc' = "end"
  /\ \/ UNCHANGED <<file, lost>>
     \/ Faults /\ LoseTail
  /\ UNCHANGED <<commandVars, exit, taken, decoderVars, reportVars, ready,
                 config, inputVars>>

(* The user runs gen_ref_rawvideo over the output.                         *)
Rerun ==
  /\ stage = 1 /\ pc = "end" /\ options.output
  /\ stage' = 2 /\ klass' = "rawvideo" /\ options' \in Options
  /\ first' = [klass |-> klass, reports |-> Reports, exit |-> exit,
               lost |-> lost, report |-> report]
  /\ input' = file
  /\ pc' = "init" /\ exit' = "none" /\ taken' = 0
  /\ numFrames' = 0 /\ maxSize' = <<0, 0>> /\ outputInfo' = DefaultInfo
  /\ report' = <<>> /\ imageIndex' = 0
  /\ ready' = FALSE /\ file' = <<>> /\ lost' = FALSE
  /\ config' = NoConfig /\ pos' = 1 /\ inputInfo' = DefaultInfo
  /\ UNCHANGED <<sizes, format>>

Terminated == pc = "end" /\ UNCHANGED vars

Next ==
  \/ InitSucceeds \/ OpenInput \/ InitFails \/ InitCrashes
  \/ DecodePicture \/ SkipPicture \/ DecodeEnds \/ DecodeFails
  \/ ReadImage \/ ReadEnds \/ SkipSamples \/ ReadCrashes
  \/ DumpConfig \/ DumpCrashes \/ Free \/ Rerun \/ Terminated

Spec == Init /\ [][Next]_vars

-----------------------------------------------------------------------------
(* Properties                                                              *)

(* The report is its heading and then one line after the other, numbered   *)
(* from zero, even when some image was reported but could not be written.  *)
ReportInOrder ==
  \A i \in 1..Len(report) :
    IF i = 1 THEN report[i] = Heading
             ELSE report[i].kind = "line" /\ report[i].index = i - 2

(* The header is written once, and before everything else, even when the   *)
(* first frames could not be written and handle_image() tries again.       *)
HeaderOnce ==
  /\ \A i \in 1..Len(file) : file[i].kind = "header" => i = 1
  /\ file # <<>> /\ klass # "gstreamer" => file[1].kind = "header"

FrameCount(cells) == Cardinality({i \in 1..Len(cells) : cells[i] = FrameTag})

(* A decoder that succeeds has reported and written every picture, as long *)
(* as it stops at the first one that is refused.                           *)
OutputsComplete ==
  stage = 1 /\ klass = "ffmpeg" /\ exit = "success" /\ ~options.benchmark =>
    /\ options.report => imageIndex = Len(sizes)
    /\ options.report \/ options.output => IsYuv(format) \/ sizes = <<>>
    /\ options.output /\ ~lost => FrameCount(file) = Len(sizes)

(* The maximum size in the config file is that of the decoded pictures,    *)
(* reported and written or not.                                            *)
ConfigCoversStream ==
  config.state = "complete" =>
    config.size = IF options.benchmark \/ taken = 0 THEN <<0, 0>>
                  ELSE <<CHOOSE w \in {sizes[i][1] : i \in 1..taken} :
                           \A i \in 1..taken : sizes[i][1] <= w,
                         CHOOSE h \in {sizes[i][2] : i \in 1..taken} :
                           \A i \in 1..taken : sizes[i][2] <= h>>

OneSize == \A i, j \in 1..Len(sizes) : sizes[i] = sizes[j]

(* gen_ref_rawvideo over the output of a decoder reports what the decoder  *)
(* has reported: all of it when both succeeded and the file is complete,   *)
(* and never anything else.                                                *)
Regenerated ==
  stage = 2 /\ first.klass # "gstreamer" /\ first.reports =>
    /\ \A i \in 1..Len(report) :
         i <= Len(first.report) /\ report[i] = first.report[i]
    /\ /\ first.exit = "success" /\ ~first.lost
       /\ exit = "success" /\ Reports
       => report = first.report

(* The same for a stream whose pictures all have one size, whatever fails. *)
SameReport == OneSize => Regenerated

(* Under the same conditions the output of gen_ref_rawvideo is its input,  *)
(* header included.                                                        *)
SameFile ==
  stage = 2 /\ first.klass # "gstreamer" /\ OneSize =>
    /\ \A i \in 1..Len(file) : i <= Len(input) /\ file[i] = input[i]
    /\ /\ first.exit = "success" /\ ~first.lost
       /\ exit = "success" /\ Writes /\ ~lost
       => file = input
=============================================================================
