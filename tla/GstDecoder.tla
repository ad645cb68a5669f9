----------------------------- MODULE GstDecoder -----------------------------
(***************************************************************************)
(* The GStreamer decoder of dec_gstreamer.c.  The caller's thread starts   *)
(* the pipeline, runs a main loop that dispatches the messages of the      *)
(* pipeline's bus, and stops the pipeline once something has quit the      *)
(* loop.  A streaming thread of the pipeline calls on_handoff() for every  *)
(* picture.  Both threads report errors through app_error(), which         *)
(* replaces app->error and quits the main loop, without a lock.            *)
(*                                                                         *)
(* External: GLib's main loop and g_clear_error(), GStreamer's bus, state  *)
(* changes and streaming thread.                                           *)
(***************************************************************************)
EXTENDS Naturals, Sequences

CONSTANTS
  Caps,            \* the caps of every picture of the stream, in order
  InitErrors,      \* a step of decoder_init() may fail
  CallErrors,      \* a call that on_handoff() reports by app_error() may fail
  SilentFailures,  \* a call whose failure on_handoff() only returns may fail
  ElementErrors    \* an element of the pipeline may post an error message

ASSUME GstDecoderAssumption ==
  /\ Caps \in Seq(STRING \ {"none"})
  /\ {InitErrors, CallErrors, SilentFailures, ElementErrors} \subseteq BOOLEAN

VARIABLES
  \* the caller's thread
  mainPc,       \* where decoder_init(), decoder_run() or the end stands
  result,       \* what decoder_init() or decoder_run() returned
  running,      \* the main loop's is_running, which g_main_loop_quit() clears
  bus,          \* messages posted and not dispatched
  \* the streaming thread
  streamPc,     \* where it stands in or around on_handoff()
  picture,      \* number of pictures it has taken
  vsinkCaps,    \* app->vsink_caps
  handled,      \* pictures that mvt_decoder_handle_image() accepted
  failed,       \* an element has posted an error message
  \* app_error()
  errorPc,      \* where each thread stands in app_error()
  seen,         \* the error each has found in app->error
  error,        \* app->error: 0, or the number of a GError
  live,         \* the GErrors allocated and not freed
  created,      \* number of GErrors created
  raced,        \* history: both threads have been in app_error() at once
  doubleFree    \* a GError was freed twice

mainVars   == <<mainPc, result>>
loopVars   == <<running, bus>>
streamVars == <<streamPc, picture, vsinkCaps, handled, failed>>
errorVars  == <<errorPc, seen, error, live, created, raced, doubleFree>>
vars       == <<mainVars, loopVars, streamVars, errorVars>>

NumPictures == Len(Caps)
Threads     == {"main", "stream"}
ErrorPcs    == {"none", "clear", "free", "null", "set", "quit"}

TypeOK ==
  /\ mainPc \in {"init", "play", "enter", "loop", "iterate", "stop", "check",
                 "finalize", "end", "aborted"}
  /\ result \in {"none", "success", "failure"}
  /\ running \in BOOLEAN
  /\ bus \in Seq({"eos", "error"})
  /\ streamPc \in {"idle", "next", "caps", "handle", "done", "stopped"}
  /\ picture \in 0..NumPictures
  /\ vsinkCaps \in {Caps[p] : p \in 1..NumPictures} \cup {"none"}
  /\ handled \in Nat
  /\ failed \in BOOLEAN
  /\ errorPc \in [Threads -> ErrorPcs]
  /\ seen \in [Threads -> Nat]
  /\ error \in Nat
  /\ live \subseteq Nat
  /\ created \in Nat
  /\ raced \in BOOLEAN
  /\ doubleFree \in BOOLEAN

Init ==
  /\ mainPc = "init" /\ result = "none"
  /\ running = FALSE /\ bus = <<>>
  /\ streamPc = "idle" /\ picture = 0 /\ vsinkCaps = "none" /\ handled = 0
  /\ failed = FALSE
  /\ errorPc = [t \in Threads |-> "none"]
  /\ seen = [t \in Threads |-> 0]
  /\ error = 0 /\ live = {} /\ created = 0
  /\ raced = FALSE /\ doubleFree = FALSE

Goto(pc) == mainPc' = pc /\ UNCHANGED result

Alive == mainPc # "aborted"

-----------------------------------------------------------------------------
(* app_error()                                                             *)

Raise(t) ==
  /\ errorPc' = [errorPc EXCEPT ![t] = "clear"]
  /\ raced' = (raced \/ \E u \in Threads \ {t} : errorPc[u] # "none")
  /\ UNCHANGED <<seen, error, live, created, doubleFree>>

(* An error reported before is not freed: a mistake.                       *)
ReplaceError == "set"

FreeError == IF error = 0 THEN "set" ELSE "free"

(* g_clear_error() reads app->error ...                                    *)
ClearLoad(t) ==
  /\ Alive /\ errorPc[t] = "clear"
  /\ seen' = [seen EXCEPT ![t] = error]
  /\ errorPc' = [errorPc EXCEPT ![t] = FreeError]
  /\ UNCHANGED <<mainVars, loopVars, streamVars, error, live, created, raced,
                 doubleFree>>

(* ... frees what it points to ...                                         *)
ClearFree(t) ==
  /\ Alive /\ errorPc[t] = "free" /\ seen[t] \in live
  /\ live' = live \ {seen[t]}
  /\ errorPc' = [errorPc EXCEPT ![t] = "null"]
  /\ UNCHANGED <<mainVars, loopVars, streamVars, seen, error, created, raced,
                 doubleFree>>

(* ... which the other thread may have freed, when the allocator aborts    *)
(* the process or does not notice ...                                      *)
ClearFreeAgain(t) ==
  /\ Alive /\ errorPc[t] = "free" /\ seen[t] \notin live
  /\ doubleFree' = TRUE
  /\ errorPc' = [errorPc EXCEPT ![t] = "null"]
  /\ mainPc' \in {mainPc, "aborted"}
  /\ UNCHANGED <<result, loopVars, streamVars, seen, error, live, created,
                 raced>>

(* ... and resets app->error.                                              *)
ClearNull(t) ==
  /\ Alive /\ errorPc[t] = "null"
  /\ error' = 0
  /\ errorPc' = [errorPc EXCEPT ![t] = "set"]
  /\ UNCHANGED <<mainVars, loopVars, streamVars, seen, live, created, raced,
                 doubleFree>>

NewError ==
  /\ created' = created + 1
  /\ error' = created + 1
  /\ live' = live \cup {created + 1}

SetError(t) ==
  /\ Alive /\ errorPc[t] = "set"
  /\ NewError
  /\ errorPc' = [errorPc EXCEPT ![t] = "quit"]
  /\ UNCHANGED <<mainVars, loopVars, streamVars, seen, raced, doubleFree>>

(* g_main_loop_quit().  The bus handler then returns to the loop, and      *)
(* on_handoff() returns: "handoff" ignores the result.                     *)
QuitLoop(t) ==
  /\ Alive /\ errorPc[t] = "quit"
  /\ running' = FALSE
  /\ errorPc' = [errorPc EXCEPT ![t] = "none"]
  /\ IF t = "main"
       THEN Goto("loop") /\ UNCHANGED streamPc
       ELSE streamPc' = "next" /\ UNCHANGED mainVars
  /\ UNCHANGED <<bus, picture, vsinkCaps, handled, failed, seen, error, live,
                 created, raced, doubleFree>>

AppError(t) ==
  \/ ClearLoad(t) \/ ClearFree(t) \/ ClearFreeAgain(t) \/ ClearNull(t)
  \/ SetError(t) \/ QuitLoop(t)

-----------------------------------------------------------------------------
(* The caller's thread                                                     *)

InitSucceeds ==
  /\ mainPc = "init" /\ Goto("play")
  /\ UNCHANGED <<loopVars, streamVars, errorVars>>

EndInit ==
  /\ InitErrors
  /\ mainPc = "init" /\ mainPc' = "finalize" /\ result' = "failure"
  /\ UNCHANGED <<loopVars, streamVars, errorPc, seen, raced, doubleFree>>

(* The pipeline, the bus or the display cannot be set up, and              *)
(* app_set_error_message() says why; or the main loop cannot be allocated. *)
PipelineFails == EndInit /\ NewError

AllocFails == EndInit /\ UNCHANGED <<created, error, live>>

InitFails == PipelineFails \/ AllocFails

(* The sink cannot be added or linked: app->error is not set, and the      *)
(* message about it dereferences it.                                       *)
InitCrashes ==
  /\ InitErrors
  /\ mainPc = "init" /\ Goto("aborted")
  /\ UNCHANGED <<loopVars, streamVars, errorVars>>

(* The streaming thread starts before the loop runs.                       *)
SetPlaying ==
  /\ mainPc = "play" /\ Goto("enter")
  /\ streamPc' = "next"
  /\ UNCHANGED <<loopVars, picture, vsinkCaps, handled, failed, errorVars>>

(* g_main_loop_run() sets is_running, whoever has quit the loop before.    *)
EnterLoop ==
  /\ mainPc = "enter" /\ Goto("loop")
  /\ running' = TRUE
  /\ UNCHANGED <<bus, streamVars, errorVars>>

Iterate ==
  /\ mainPc = "loop" /\ errorPc["main"] = "none" /\ running
  /\ Goto("iterate")
  /\ UNCHANGED <<loopVars, streamVars, errorVars>>

LeaveLoop ==
  /\ mainPc = "loop" /\ errorPc["main"] = "none" /\ ~running
  /\ Goto("stop")
  /\ UNCHANGED <<loopVars, streamVars, errorVars>>

(* A quit by the streaming thread wakes the loop up.                       *)
WakeUp ==
  /\ mainPc = "iterate" /\ ~running
  /\ Goto("loop")
  /\ UNCHANGED <<loopVars, streamVars, errorVars>>

(* The end of the stream does not quit the loop: a mistake.                *)
KeepRunning == UNCHANGED running

QuitAtEos == running' = FALSE

(* on_bus_message(): an iteration dispatches one message.                  *)
DispatchEos ==
  /\ mainPc = "iterate" /\ bus # <<>> /\ Head(bus) = "eos"
  /\ bus' = Tail(bus) /\ QuitAtEos
  /\ Goto("loop")
  /\ UNCHANGED <<streamVars, errorVars>>

(* An error message quits the loop and is forgotten: a mistake.            *)
QuitOnError == running' = FALSE /\ UNCHANGED errorVars

ReportError == Raise("main") /\ UNCHANGED running

DispatchError ==
  /\ mainPc = "iterate" /\ bus # <<>> /\ Head(bus) = "error"
  /\ bus' = Tail(bus) /\ ReportError
  /\ Goto("loop")
  /\ UNCHANGED streamVars

(* The pipeline is left to play: a mistake.                                *)
LeavePlaying == UNCHANGED streamPc

(* GST_STATE_NULL waits until the streaming thread has left on_handoff().  *)
StopStream ==
  /\ streamPc \in {"next", "done"} /\ errorPc["stream"] = "none"
  /\ streamPc' = "stopped"

(* The bus is flushed along with the pipeline.                             *)
Stop ==
  /\ mainPc = "stop" /\ Goto("check")
  /\ StopStream /\ bus' = <<>>
  /\ UNCHANGED <<running, picture, vsinkCaps, handled, failed, errorVars>>

Check ==
  /\ mainPc = "check" /\ mainPc' = "finalize"
  /\ result' = IF error = 0 THEN "success" ELSE "failure"
  /\ UNCHANGED <<loopVars, streamVars, errorVars>>

(* app_finalize()                                                          *)
Finalize ==
  /\ mainPc = "finalize" /\ Goto("end")
  /\ error' = 0 /\ live' = live \ {error}
  /\ UNCHANGED <<loopVars, streamVars, errorPc, seen, created, raced,
                 doubleFree>>

Initialize == InitSucceeds \/ InitFails \/ InitCrashes

Run ==
  \/ SetPlaying \/ EnterLoop \/ Iterate \/ LeaveLoop \/ WakeUp
  \/ DispatchEos \/ DispatchError \/ Stop \/ Check \/ Finalize
  \/ AppError("main")

Main == Initialize \/ Run

-----------------------------------------------------------------------------
(* The streaming thread                                                    *)

(* on_handoff(): app->vsink_caps is replaced before anything can fail.     *)
Handoff ==
  /\ Alive /\ streamPc = "next" /\ picture < NumPictures
  /\ picture' = picture + 1
  /\ vsinkCaps' = Caps[picture + 1]
  /\ streamPc' = IF Caps[picture + 1] # vsinkCaps THEN "caps" ELSE "handle"
  /\ UNCHANGED <<mainVars, loopVars, handled, failed, errorVars>>

(* app_update_video_info(), app_update_codec_info()                        *)
UpdateInfo ==
  /\ Alive /\ streamPc = "caps" /\ errorPc["stream"] = "none"
  /\ streamPc' = "handle"
  /\ UNCHANGED <<mainVars, loopVars, picture, vsinkCaps, handled, failed,
                 errorVars>>

(* Frames are counted down: a mistake.                                     *)
UncountFrame == handled' = handled - 1

CountFrame == handled' = handled + 1

(* The surface is mapped, cropped, and hashed by                           *)
(* mvt_decoder_handle_image().                                             *)
HandleSurface ==
  /\ Alive /\ streamPc = "handle" /\ errorPc["stream"] = "none"
  /\ CountFrame
  /\ streamPc' = "next"
  /\ UNCHANGED <<mainVars, loopVars, picture, vsinkCaps, failed, errorVars>>

(* Unsupported caps or codec, or an image that cannot be hashed or saved:  *)
(* on_handoff() returns FALSE and that is all.                             *)
DropPicture ==
  /\ SilentFailures
  /\ Alive /\ streamPc \in {"caps", "handle"} /\ errorPc["stream"] = "none"
  /\ streamPc' = "next"
  /\ UNCHANGED <<mainVars, loopVars, picture, vsinkCaps, handled, failed,
                 errorVars>>

FailPicture ==
  /\ CallErrors
  /\ Alive /\ streamPc \in {"caps", "handle"} /\ errorPc["stream"] = "none"
  /\ Raise("stream")
  /\ UNCHANGED <<mainVars, loopVars, streamVars>>

PostEos ==
  /\ Alive /\ streamPc = "next" /\ picture = NumPictures
  /\ bus' = Append(bus, "eos")
  /\ streamPc' = "done"
  /\ UNCHANGED <<mainVars, running, picture, vsinkCaps, handled, failed,
                 errorVars>>

(* An element fails once ...                                               *)
ElementFails ==
  /\ ElementErrors /\ ~failed
  /\ Alive /\ streamPc \notin {"idle", "done", "stopped"}
  /\ failed' = TRUE
  /\ bus' = Append(bus, "error")
  /\ UNCHANGED <<mainVars, running, picture, vsinkCaps, handled, errorVars>>

(* ... and the stream ends there without an end-of-stream message, or,     *)
(* when the element runs in another thread, goes on for as long as         *)
(* pictures are queued.                                                    *)
StreamBreaks == ElementFails /\ streamPc = "next" /\ streamPc' = "done"

StreamGoesOn == ElementFails /\ UNCHANGED streamPc

PostError == StreamBreaks \/ StreamGoesOn

Stream ==
  \/ Handoff \/ UpdateInfo \/ HandleSurface \/ DropPicture \/ FailPicture
  \/ PostEos \/ AppError("stream")

-----------------------------------------------------------------------------
Terminated ==
  /\ mainPc \in {"end", "aborted"}
  /\ UNCHANGED vars

Next == Main \/ Stream \/ PostError \/ Terminated

(* Both threads are scheduled; elements need not fail.                     *)
Fairness == WF_vars(Main) /\ WF_vars(Stream)

Behaviour == Init /\ [][Next]_vars

Spec == Behaviour /\ Fairness

-----------------------------------------------------------------------------
(* Properties                                                              *)

(* A run that succeeds has taken the whole stream and met no error: an     *)
(* app_error() of either thread, at any moment, makes decoder_run() fail,  *)
(* even when its g_main_loop_quit() comes too early to have an effect or   *)
(* the other thread resets app->error at the same time.                    *)
FailureReported ==
  result = "success" => created = 0 /\ picture = NumPictures

(* on_handoff() runs only while decoder_run() does: no picture is handled  *)
(* once app->error was looked at or app_finalize() has freed the decoder.  *)
NoLateHandoff ==
  mainPc \in {"check", "finalize", "end"} =>
    /\ streamPc \notin {"caps", "handle"}
    /\ errorPc["stream"] = "none"

(* As long as the two threads do not report errors at the same time, no    *)
(* GError is freed twice or lost when app_error() replaces app->error.     *)
ErrorOwnership ==
  ~raced =>
    /\ ~doubleFree
    /\ (\A t \in Threads : errorPc[t] = "none") => live = {error} \ {0}

(* decoder_run() returns: the end of the stream or an error ends the main  *)
(* loop, even if an earlier request to quit it was lost.                   *)
Terminates == <>(mainPc \in {"end", "aborted"})

(* The report has one line per frame (mvt_decoder.h): a run that succeeds  *)
(* has handled every picture that was decoded.                             *)
EveryPictureHandled == result = "success" => handled = NumPictures
=============================================================================
