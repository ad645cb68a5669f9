------------------------------ MODULE Toolchain ------------------------------
(***************************************************************************)
(* The tools one after the other: a decoder, gen_ref_rawvideo over its     *)
(* output, and cmp_video over two of the files.                            *)
(***************************************************************************)
EXTENDS DecoderCore, CompareVideo, FiniteSets

CONSTANT Videos  \* other files to compare with

toolVars == <<vars, compareVars>>

ToolInit == Init /\ CompareInit

RunTool == comparing = "no" /\ Next /\ UNCHANGED compareVars

(* A run that succeeded and wrote nothing but its output.  Reports and     *)
(* config files make no other outputs: with them nothing is compared.      *)
OutputOnly ==
  /\ pc = "end" /\ exit = "success" /\ options.output
  /\ ~options.report /\ ~options.config

(* The output of a decoder and of gen_ref_rawvideo, in either order.       *)
CompareOutputs ==
  /\ stage = 2 /\ OutputOnly /\ ~first.reports
  /\ StartComparing(input, file) \/ StartComparing(file, input)
  /\ UNCHANGED vars

CompareOther ==
  /\ stage = 1 /\ OutputOnly
  /\ \E video \in Videos :
       StartComparing(file, video) \/ StartComparing(video, file)
  /\ UNCHANGED vars

ToolNext ==
  \/ RunTool
  \/ CompareOutputs \/ CompareOther
  \/ CompareNext /\ UNCHANGED vars

ToolSpec == ToolInit /\ [][ToolNext]_toolVars

-----------------------------------------------------------------------------
(* cmp_video finds no difference between the output of a decoder and what  *)
(* gen_ref_rawvideo has made of it, with either as the reference.  It      *)
(* succeeds exactly when the reference has at least the pictures of the    *)
(* source: a source that was cut short goes unnoticed, a reference never.  *)
SameVideo ==
  comparing = "done" /\ stage = 2 /\ first.klass # "gstreamer" /\ OneSize =>
    /\ \A i \in DOMAIN values : values[i] = "infinite"
    /\ verdict = "success" <=>
         /\ HasHeader(source.file) /\ HasHeader(reference.file)
         /\ Cardinality(Pictures(source.file))
              <= Cardinality(Pictures(reference.file))
=============================================================================
