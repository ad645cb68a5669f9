----------------------------- MODULE GstSession -----------------------------
(***************************************************************************)
(* A whole run of the GStreamer decoder: GstPipeline's set-up is what      *)
(* decoder_init() does before GstDecoder's caller may start to play, and   *)
(* its decodebin is what GstDecoder's streaming thread does before it      *)
(* calls on_handoff() for the first time.                                  *)
(***************************************************************************)
EXTENDS GstDecoder, GstPipeline

(* A format may be unknown to GStreamer, decodebin is an element that may  *)
(* fail, and app_update_codec_info() may find no decoder.                  *)
ASSUME GstSessionAssumption == InitErrors /\ ElementErrors /\ SilentFailures

sessionVars == <<vars, pipelineVars>>

SessionInit == Init /\ PipelineInit

(* decoder_init_option() and app_init_pipeline()                           *)
SetUpPipeline == mainPc = "init" /\ SetUp /\ UNCHANGED vars

(* app_init(): the main loop is allocated before the pipeline.             *)
LoopFails ==
  /\ setup = "options" /\ parsed = Len(arguments)
  /\ AllocFails

(* decoder_init() returns.                                                 *)
SetUpEnds ==
  /\ \/ setup = "ready" /\ InitSucceeds
     \/ setup = "failed" /\ PipelineFails
     \/ setup = "crashed" /\ InitCrashes
     \/ LoopFails
  /\ UNCHANGED pipelineVars

SessionMain ==
  \/ SetUpPipeline \/ SetUpEnds
  \/ Run /\ UNCHANGED pipelineVars

-----------------------------------------------------------------------------
(* The streaming thread finds elements for the stream ...                  *)
PlugElements ==
  /\ Alive /\ streamPc = "next" /\ picture = 0
  /\ Autoplug
  /\ UNCHANGED vars

(* ... or decodebin posts an error message, unless the source has.         *)
GiveUp ==
  /\ NotDecodable /\ StreamBreaks
  /\ UNCHANGED pipelineVars

(* ... and pictures come when they end in a decoder.                       *)
FromDecoder == stream = "raw"

(* app_update_codec_info() returns early when on_element_added() has found *)
(* no decoder.                                                             *)
CodecKnown == streamPc = "caps" => vdecode # "none"

TakePictures ==
  /\ FromDecoder
  /\ \/ Handoff \/ PostEos \/ HandleSurface \/ DropPicture \/ AppError("stream")
     \/ CodecKnown /\ (UpdateInfo \/ FailPicture)
  /\ UNCHANGED pipelineVars

SessionStream == PlugElements \/ GiveUp \/ TakePictures

SessionNext ==
  \/ SessionMain \/ SessionStream
  \/ (PostError \/ Terminated) /\ UNCHANGED pipelineVars

SessionSpec ==
  /\ SessionInit /\ [][SessionNext]_sessionVars
  /\ WF_sessionVars(SessionMain) /\ WF_sessionVars(SessionStream)
=============================================================================
