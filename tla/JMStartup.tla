----------------------------- MODULE JMStartup -----------------------------
(***************************************************************************)
(* How the H.264 reference decoder of gen_ref_h264_avc.c starts and stops: *)
(* jm_init() creates a FIFO, a parser thread that opens it for writing and *)
(* a decoder thread whose OpenDecoder() opens it for reading, then waits   *)
(* for both with a time limit; jm_finalize() cancels and joins them.       *)
(*                                                                         *)
(* Each thread sets flags in its state under its lock, jm_init() sets      *)
(* ACTIVE there without it.  Every such update is a load and a store here. *)
(* What the decoder thread does between start and stop is in JMDecoder.    *)
(***************************************************************************)
EXTENDS Naturals, FiniteSets

CONSTANTS
  Overlaps,      \* may an update by the thread overlap the one by jm_init()?
  FifoCapacity,  \* number of writes the FIFO holds before write() blocks
  Faults         \* calls to the system, the allocator and JM may fail

ASSUME JMStartupAssumption ==
  /\ Overlaps \subseteq BOOLEAN
  /\ FifoCapacity \in Nat \ {0}
  /\ Faults \in BOOLEAN

VARIABLES
  \* the caller's thread
  mainPc,     \* where decoder_init(), jm_init() or jm_finalize() stands
  mainT,      \* the thread jm_init() or jm_finalize() is concerned with
  mainReg,    \* the flags jm_init() has loaded
  result,     \* what jm_init() returned: "none", "success" or "failure"
  calls,      \* number of calls of jm_finalize() completed
  tailsSet,   \* the tails of the two picture lists were initialised
  fed,        \* packets were written to the FIFO
  \* the two threads
  threadPc,   \* where each stands
  threadReg,  \* the flags each has computed under its lock
  state,      \* ThreadContext.state
  valid,      \* ThreadContext.valid: lock and condition exist
  cancelled,  \* threads pthread_cancel() was called for
  \* shared
  met,        \* both ends of the FIFO have been opened
  data,       \* writes to the FIFO that JM has not read
  pipe,       \* decoder->pipe; the zero of calloc() is the standard input
  fds,        \* descriptors open in the process; "jm" is JM's end of the FIFO
  jmDecoder,  \* decoder->jm_decoder is set
  opened,     \* OpenDecoder() has returned a decoder
  pushed,     \* a picture was appended to decoder_pic_list
  overlap     \* the choice made from Overlaps

mainData   == <<mainReg, result, calls, tailsSet, fed>>
mainVars   == <<mainPc, mainT, mainData>>
flagVars   == <<threadReg, state, valid, cancelled>>
threadVars == <<threadPc, flagVars>>
fifoVars   == <<met, data, pipe, fds>>
otherVars  == <<jmDecoder, opened, pushed, overlap>>
sharedVars == <<threadVars, fifoVars, otherVars>>
vars       == <<mainVars, sharedVars>>

Threads == {"parser", "decoder"}
Flags   == {"ACTIVE", "INIT", "IDLE", "ERROR"}

MainPcs == {"probe", "create", "load", "store", "test", "wait", "finish",
            "run", "finalize", "join", "close", "end"}

(* The program points at which a thread holds its lock.                    *)
StorePcs == {"setready", "seterror", "setidle", "clearidle"}

ThreadPcs == {"none", "open", "fill", "extradata", "input", "read", "video",
              "ready", "error", "idle", "loop", "decode", "exited"}
             \cup StorePcs

TypeOK ==
  /\ mainPc \in MainPcs
  /\ mainT \in Threads
  /\ mainReg \in SUBSET Flags
  /\ result \in {"none", "success", "failure"}
  /\ calls \in 0..2
  /\ tailsSet \in BOOLEAN
  /\ fed \in BOOLEAN
  /\ threadPc \in [Threads -> ThreadPcs]
  /\ threadReg \in [Threads -> SUBSET Flags]
  /\ state \in [Threads -> SUBSET Flags]
  /\ valid \in [Threads -> BOOLEAN]
  /\ cancelled \in SUBSET Threads
  /\ met \in BOOLEAN
  /\ data \in 0..FifoCapacity
  /\ pipe \in {"stdin", "closed", "fifo"}
  /\ fds \in SUBSET {"stdin", "fifo", "jm"}
  /\ jmDecoder \in BOOLEAN
  /\ opened \in BOOLEAN
  /\ pushed \in BOOLEAN
  /\ overlap \in Overlaps

(* mvt_decoder_new() has allocated the decoder with calloc().              *)
Init ==
  /\ mainPc = "probe" /\ mainT = "parser" /\ mainReg = {}
  /\ result = "none" /\ calls = 0 /\ tailsSet = FALSE /\ fed = FALSE
  /\ threadPc = [t \in Threads |-> "none"]
  /\ threadReg = [t \in Threads |-> {}]
  /\ state = [t \in Threads |-> {}]
  /\ valid = [t \in Threads |-> FALSE]
  /\ cancelled = {}
  /\ met = FALSE /\ data = 0 /\ pipe = "stdin" /\ fds = {"stdin"}
  /\ jmDecoder = FALSE /\ opened = FALSE /\ pushed = FALSE
  /\ overlap \in Overlaps

Alive(t) == threadPc[t] \notin {"none", "exited"}

HoldsLock(t) == threadPc[t] \in StorePcs

-----------------------------------------------------------------------------
(* jm_init()                                                               *)

StartFinalize == mainPc' = "finalize" /\ mainT' = "parser"

InitFails == StartFinalize /\ result' = "failure"

(* The file cannot be opened or identified: jm_init() is never called and  *)
(* the decoder is freed all the same.                                      *)
ProbeFails ==
  /\ Faults
  /\ mainPc = "probe"
  /\ StartFinalize
  /\ UNCHANGED <<mainData, sharedVars>>

(* avcodec_open2() calls jm_init(): contexts, name of the FIFO, mkfifo().  *)
SetUp ==
  /\ mainPc = "probe" /\ mainPc' = "create"
  /\ pipe' = "closed"
  /\ valid' = [t \in Threads |-> TRUE]
  /\ UNCHANGED <<mainT, mainData, threadPc, threadReg, state, cancelled, met,
                 data, fds, otherVars>>

(* One of these calls fails, before or after the contexts are initialised. *)
SetUpFails ==
  /\ Faults
  /\ mainPc = "probe"
  /\ InitFails
  /\ pipe' = "closed"
  /\ \E ts \in {{}, {"parser"}, Threads} :
       valid' = [t \in Threads |-> t \in ts]
  /\ UNCHANGED <<mainReg, calls, tailsSet, fed, threadPc, threadReg, state,
                 cancelled, met, data, fds, otherVars>>

FirstPc(t) == IF t = "parser" THEN "open" ELSE "input"

CreateThread ==
  /\ mainPc = "create"
  /\ threadPc' = [threadPc EXCEPT ![mainT] = FirstPc(mainT)]
  /\ mainPc' = "load"
  /\ UNCHANGED <<mainT, mainData, flagVars, fifoVars, otherVars>>

(* pthread_create() fails; errno, which jm_init() returns, is taken as set *)
(* to an error by the calls pthread_create() makes.                        *)
CreateFails ==
  /\ Faults
  /\ mainPc = "create"
  /\ InitFails
  /\ UNCHANGED <<mainReg, calls, tailsSet, fed, sharedVars>>

(* state |= THREAD_STATE_ACTIVE, without the lock: load, then store.       *)
LoadState ==
  /\ mainPc = "load"
  /\ mainReg' = state[mainT]
  /\ mainPc' = "store"
  /\ UNCHANGED <<mainT, result, calls, tailsSet, fed, sharedVars>>

(* Variant: the flag is not set.                                           *)
ForgetActive == UNCHANGED state
MarkActive == state' = [state EXCEPT ![mainT] = mainReg \cup {"ACTIVE"}]

StoreState ==
  /\ mainPc = "store"
  /\ MarkActive
  /\ IF mainT = "parser" THEN mainPc' = "create" /\ mainT' = "decoder"
                         ELSE mainPc' = "test" /\ mainT' = "parser"
  /\ UNCHANGED <<mainData, threadPc, threadReg, valid, cancelled, fifoVars,
                 otherVars>>

(* Variant: the wait does not tell an error from a success.                *)
ReadyIgnoresError == state[mainT] \cap {"INIT", "ERROR"} # {}

(* thread_context_timedwait() has seen INIT and no ERROR.                  *)
Ready == "INIT" \in state[mainT] /\ "ERROR" \notin state[mainT]

TestState ==
  /\ mainPc = "test"
  /\ ~HoldsLock(mainT)
  /\ \/ /\ Ready
        /\ IF mainT = "parser" THEN mainPc' = "test" /\ mainT' = "decoder"
                               ELSE mainPc' = "finish" /\ UNCHANGED mainT
        /\ UNCHANGED result
     \/ ~Ready /\ "ERROR" \in state[mainT] /\ InitFails
     \/ /\ state[mainT] \cap {"INIT", "ERROR"} = {}
        /\ mainPc' = "wait"
        /\ UNCHANGED <<mainT, result>>
  /\ UNCHANGED <<mainReg, calls, tailsSet, fed, sharedVars>>

(* The wait ends, signalled or spuriously, and the flags are tested again. *)
Wake ==
  /\ mainPc = "wait"
  /\ ~HoldsLock(mainT)
  /\ mainPc' = "test"
  /\ UNCHANGED <<mainT, mainData, sharedVars>>

(* The time is over: an error, even if the flag has been set meanwhile.    *)
TimeOut ==
  /\ mainPc = "wait"
  /\ ~HoldsLock(mainT)
  /\ InitFails
  /\ UNCHANGED <<mainReg, calls, tailsSet, fed, sharedVars>>

(* Variant: the tails of the lists are left NULL.                          *)
LeaveTails == UNCHANGED tailsSet
SetTails == tailsSet' = TRUE

(* The end of jm_init(): the lists are initialised only now, while the     *)
(* decoder thread already runs its loop.                                   *)
Finish ==
  /\ mainPc = "finish" /\ mainPc' = "run"
  /\ SetTails
  /\ result' = "success"
  /\ UNCHANGED <<mainT, mainReg, calls, fed, sharedVars>>

(* decoder_run(), see JMDecoder: packets are written, then it returns.     *)
WritePackets ==
  /\ mainPc = "run"
  /\ ~fed
  /\ fed' = TRUE
  /\ UNCHANGED <<mainPc, mainT, mainReg, result, calls, tailsSet, sharedVars>>

(* The end of the stream closes the FIFO.                                  *)
WriteEos ==
  /\ mainPc = "run"
  /\ fed
  /\ pipe = "fifo"
  /\ fds' = fds \ {"fifo"}
  /\ pipe' = "closed"
  /\ UNCHANGED <<mainVars, threadVars, met, data, otherVars>>

RunReturns ==
  /\ mainPc = "run"
  /\ StartFinalize
  /\ UNCHANGED <<mainData, sharedVars>>

-----------------------------------------------------------------------------
(* Updates of the flags by the threads, each under its lock                *)

OnlyThread == UNCHANGED <<mainVars, fifoVars, otherVars>>

(* Unless the two updates may overlap, a thread gets to its first one only *)
(* after jm_init() has stored ACTIVE.                                      *)
MayUpdate(t) == overlap \/ ~(mainPc \in {"load", "store"} /\ mainT = t)

LoadFlags(t, from, to, newFlags) ==
  /\ threadPc[t] = from
  /\ MayUpdate(t)
  /\ threadPc' = [threadPc EXCEPT ![t] = to]
  /\ threadReg' = [threadReg EXCEPT ![t] = newFlags]
  /\ UNCHANGED <<state, valid, cancelled>>
  /\ OnlyThread

StoreFlags(t, from, to) ==
  /\ threadPc[t] = from
  /\ threadPc' = [threadPc EXCEPT ![t] = to]
  /\ state' = [state EXCEPT ![t] = threadReg[t]]
  /\ UNCHANGED <<threadReg, valid, cancelled>>
  /\ OnlyThread

SetInit(t) ==
  \/ LoadFlags(t, "ready", "setready", state[t] \cup {"INIT"})
  \/ StoreFlags(t, "setready", IF t = "parser" THEN "exited" ELSE "idle")

SetError(t) ==
  \/ LoadFlags(t, "error", "seterror", state[t] \cup {"ERROR"})
  \/ StoreFlags(t, "seterror", "exited")

SetIdle ==
  \/ LoadFlags("decoder", "idle", "setidle", state["decoder"] \cup {"IDLE"})
  \/ StoreFlags("decoder", "setidle", "loop")

(* poll() has returned, whatever it says.                                  *)
ClearIdle ==
  \/ LoadFlags("decoder", "loop", "clearidle", state["decoder"] \ {"IDLE"})
  \/ StoreFlags("decoder", "clearidle", "decode")

Goto(t, pc) ==
  /\ threadPc' = [threadPc EXCEPT ![t] = pc]
  /\ UNCHANGED <<mainVars, flagVars, overlap>>

-----------------------------------------------------------------------------
(* The parser thread                                                       *)

(* open() of one end of a FIFO returns once the other end is opened too.   *)
Opening(t) == threadPc[t] = "open"
BothOpening == met \/ \A t \in Threads : Opening(t)

ParserOpen ==
  /\ Opening("parser")
  /\ BothOpening
  /\ met' = TRUE
  /\ pipe' = "fifo"
  /\ fds' = fds \cup {"fifo"}
  /\ Goto("parser", "fill")
  /\ UNCHANGED <<data, jmDecoder, opened, pushed>>

(* open() returns -1, which the test of the descriptor against zero takes  *)
(* for a success.                                                          *)
ParserOpenFails ==
  /\ Faults
  /\ Opening("parser")
  /\ Goto("parser", "fill")
  /\ UNCHANGED <<fifoVars, jmDecoder, opened, pushed>>

(* Filler data, then the extradata headers, if there are any.              *)
ParserWrite ==
  /\ pipe = "fifo"
  /\ data < FifoCapacity
  /\ data' = data + 1
  /\ \/ threadPc["parser"] = "fill" /\ Goto("parser", "extradata")
     \/ threadPc["parser"] \in {"fill", "extradata"} /\ Goto("parser", "ready")
  /\ UNCHANGED <<met, pipe, fds, jmDecoder, opened, pushed>>

ParserWriteFails ==
  /\ threadPc["parser"] \in {"fill", "extradata"}
  /\ Faults \/ pipe # "fifo"
  /\ Goto("parser", "error")
  /\ UNCHANGED <<fifoVars, jmDecoder, opened, pushed>>

-----------------------------------------------------------------------------
(* The decoder thread                                                      *)

InputParams ==
  /\ threadPc["decoder"] = "input"
  /\ Goto("decoder", "open")
  /\ UNCHANGED <<fifoVars, jmDecoder, opened, pushed>>

(* The call of init_input_params(), OpenDecoder() or init_video_params()   *)
(* that is under way fails.                                                *)
DecoderInitFails ==
  /\ Faults
  /\ threadPc["decoder"] \in {"input", "open", "read", "video"}
  /\ Goto("decoder", "error")
  /\ UNCHANGED <<fifoVars, jmDecoder, opened, pushed>>

(* In OpenDecoder(): open the FIFO, then read the first data.  Only once   *)
(* OpenDecoder() has returned does the thread set jm_decoder: until then   *)
(* JM's descriptor is known to nobody else.                                *)
DecoderOpen ==
  /\ Opening("decoder")
  /\ BothOpening
  /\ met' = TRUE
  /\ fds' = fds \cup {"jm"}
  /\ Goto("decoder", "read")
  /\ UNCHANGED <<data, pipe, jmDecoder, opened, pushed>>

DecoderRead ==
  /\ threadPc["decoder"] = "read"
  /\ data > 0
  /\ data' = data - 1
  /\ jmDecoder' = TRUE
  /\ opened' = TRUE
  /\ Goto("decoder", "video")
  /\ UNCHANGED <<met, pipe, fds, pushed>>

VideoParams ==
  /\ threadPc["decoder"] = "video"
  /\ Goto("decoder", "ready")
  /\ UNCHANGED <<fifoVars, jmDecoder, opened, pushed>>

(* DecodeOneFrame() reads the headers, and returns a picture, which the    *)
(* thread appends to decoder_pic_list, only once it has read packets.      *)
Decode ==
  /\ threadPc["decoder"] = "decode"
  /\ fed
  /\ pushed' \in {pushed, TRUE}
  /\ data' = 0
  /\ Goto("decoder", "idle")
  /\ UNCHANGED <<met, pipe, fds, jmDecoder, opened>>

(* The end of the stream is an error like any other to the thread, once it *)
(* has queued the picture that may come along.                             *)
DecodeEos ==
  /\ threadPc["decoder"] = "decode"
  /\ fed
  /\ pipe = "closed"
  /\ pushed' \in {pushed, TRUE}
  /\ Goto("decoder", "error")
  /\ UNCHANGED <<fifoVars, jmDecoder, opened>>

(* poll() or DecodeOneFrame() fails.                                       *)
DecodeFails ==
  /\ Faults
  /\ threadPc["decoder"] \in {"loop", "decode"}
  /\ Goto("decoder", "error")
  /\ UNCHANGED <<fifoVars, jmDecoder, opened, pushed>>

(* Deferred cancellation: at open(), read(), write() and poll().           *)
CancellationPoint(t) ==
  threadPc[t] \in {"open", "fill", "extradata", "read", "loop", "decode"}

Cancel(t) ==
  /\ t \in cancelled
  /\ CancellationPoint(t)
  /\ Goto(t, "exited")
  /\ UNCHANGED <<fifoVars, jmDecoder, opened, pushed>>

-----------------------------------------------------------------------------
(* jm_finalize(): called by avcodec_close() for an open codec, then when   *)
(* the decoder is freed                                                    *)

(* thread_context_clear(), then the next thread, or JM and the FIFO.       *)
ClearContext ==
  /\ state' = [state EXCEPT ![mainT] = {}]
  /\ valid' = [valid EXCEPT ![mainT] = FALSE]
  /\ IF mainT = "parser" THEN mainPc' = "finalize" /\ mainT' = "decoder"
                         ELSE mainPc' = "close" /\ UNCHANGED mainT

(* Variant: joined without having been cancelled.                          *)
JoinOnly == UNCHANGED cancelled
RequestCancel == cancelled' = cancelled \cup {mainT}

(* A thread marked ACTIVE is cancelled and joined, any other is not.  The  *)
(* flags are read without the lock.                                        *)
FinalizeThread ==
  /\ mainPc = "finalize"
  /\ IF "ACTIVE" \in state[mainT]
       THEN /\ RequestCancel
            /\ mainPc' = "join"
            /\ UNCHANGED <<mainT, state, valid>>
       ELSE ClearContext /\ UNCHANGED cancelled
  /\ UNCHANGED <<mainData, threadPc, threadReg, fifoVars, otherVars>>

Join ==
  /\ mainPc = "join"
  /\ ~Alive(mainT)
  /\ ClearContext
  /\ UNCHANGED <<mainData, threadPc, threadReg, cancelled, fifoVars,
                 otherVars>>

(* CloseDecoder() closes JM's end of the FIFO.                             *)
JmEnd == IF jmDecoder THEN {"jm"} ELSE {}

(* Variant: the FIFO is closed only after a successful jm_init().          *)
CloseOnSuccess ==
  fds' = fds \ (JmEnd \cup (IF result = "success" THEN {pipe} ELSE {}))

(* A descriptor that is not negative is closed.                            *)
CloseEnds == fds' = fds \ (JmEnd \cup {pipe})

CalledAgain == result = "success" /\ calls = 0

(* CloseDecoder(), if jm_decoder is set, then the FIFO.                    *)
CloseAll ==
  /\ mainPc = "close"
  /\ CloseEnds
  /\ jmDecoder' = FALSE
  /\ pipe' = "closed"
  /\ calls' = calls + 1
  /\ IF CalledAgain THEN StartFinalize ELSE mainPc' = "end" /\ UNCHANGED mainT
  /\ UNCHANGED <<mainReg, result, tailsSet, fed, threadVars, met, data, opened,
                 pushed, overlap>>

Terminated == mainPc = "end" /\ UNCHANGED vars

-----------------------------------------------------------------------------
Main ==
  \/ SetUp \/ CreateThread \/ LoadState \/ StoreState \/ TestState \/ Finish
  \/ WritePackets \/ WriteEos \/ RunReturns \/ FinalizeThread \/ Join
  \/ CloseAll

Parser == SetInit("parser") \/ SetError("parser") \/ ParserOpen \/ ParserWrite
          \/ ParserWriteFails

Decoder ==
  \/ SetInit("decoder") \/ SetError("decoder") \/ SetIdle \/ ClearIdle
  \/ InputParams \/ DecoderOpen \/ DecoderRead \/ VideoParams \/ Decode
  \/ DecodeEos

CancelThread == \E t \in Threads : Cancel(t)

Disturbance ==
  \/ ProbeFails \/ SetUpFails \/ CreateFails \/ Wake \/ ParserOpenFails
  \/ DecoderInitFails \/ DecodeFails

Next == Main \/ TimeOut \/ Parser \/ Decoder \/ CancelThread \/ Disturbance
        \/ Terminated

(* The threads are scheduled; the deadline of a timed wait is absolute and *)
(* passes however often the wait is woken; a thread with a cancellation    *)
(* pending that keeps reaching cancellation points ends at one.            *)
Fairness ==
  /\ WF_vars(Main) /\ WF_vars(Parser) /\ WF_vars(Decoder)
  /\ SF_vars(TimeOut) /\ SF_vars(CancelThread)

Spec == Init /\ [][Next]_vars /\ Fairness

-----------------------------------------------------------------------------
(* Properties                                                              *)

(* When jm_init() has returned 0, the FIFO is open for writing, JM is open *)
(* and the parser thread is done: nothing the packets need is missing.     *)
InitSound ==
  mainPc = "run" /\ ~fed =>
    pipe = "fifo" /\ "fifo" \in fds /\ jmDecoder /\ ~Alive("parser")

(* No picture is appended to decoder_pic_list before jm_init() has set its *)
(* tail pointer, although the decoder thread runs its loop by then.        *)
TailsReady == pushed => tailsSet

(* Unless two updates of the flags overlap, a thread never outlives its    *)
(* lock and condition: jm_finalize() joins every thread that was created,  *)
(* wherever jm_init() gave up.                                             *)
NoUseAfterClear ==
  ~overlap => \A t \in Threads : Alive(t) => valid[t]

(* Unless two updates of the flags overlap, the FIFO is closed at the end, *)
(* whichever of the threads opened it after the time was over, and so is   *)
(* JM's end of it once OpenDecoder() has returned: a decoder thread that   *)
(* fails or is cancelled within OpenDecoder() leaves that end open.        *)
NoDescriptorLeft ==
  mainPc = "end" /\ ~overlap =>
    "fifo" \notin fds /\ (opened => "jm" \notin fds)

(* "Flag: thread was created": once jm_init() has gone past the creation   *)
(* of a thread, the thread's state says ACTIVE until it is finalized.      *)
ActiveMeansCreated ==
  mainPc \in {"test", "wait", "finish", "run"} =>
    \A t \in Threads : "ACTIVE" \in state[t]

(* jm_init() and jm_finalize() always return: the time limits, the         *)
(* cancellation and the joins leave nobody waiting for ever.               *)
FinalizeReturns == <>(mainPc = "end")
=============================================================================
