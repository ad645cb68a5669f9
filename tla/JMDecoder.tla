----------------------------- MODULE JMDecoder -----------------------------
(***************************************************************************)
(* The H.264 reference decoder of gen_ref_h264_avc.c once jm_init() has    *)
(* succeeded: FFmpeg's caller (the main thread, mvt_decoder_ffmpeg.c       *)
(* decoder_run()) writes packets to a FIFO and collects pictures under a   *)
(* lock and a condition variable; the decoder thread runs the JM library,  *)
(* which reads the FIFO, and queues copies of its output picture nodes.    *)
(* Released pictures go back to JM's pool through output_pic_list.         *)
(*                                                                         *)
(* Every section executed under the decoder thread's lock is one step.     *)
(* JM itself (OpenDecoder, DecodeOneFrame, FinitDecoder, CloseDecoder) is  *)
(* external: it is modelled from what the calls here expect of it.         *)
(***************************************************************************)
EXTENDS Naturals, Sequences, FiniteSets

CONSTANTS
  Stream,        \* the video packets: "pic" completes a picture or "other"
  Buffers,       \* identities of the picture buffers JM may allocate
  PipeCapacity,  \* number of units the FIFO holds before write() blocks
  HoldsBack,     \* JM keeps at least one picture in its DPB until flushed
  JmErrors,      \* JM may fail to decode
  CallErrors     \* the caller, the file or the allocator may fail

ASSUME JMDecoderAssumption ==
  /\ Stream \in Seq({"pic", "other"})
  /\ PipeCapacity \in Nat \ {0}
  /\ HoldsBack \in BOOLEAN
  /\ JmErrors \in BOOLEAN
  /\ CallErrors \in BOOLEAN

VARIABLES
  \* the caller's thread
  mainPc,      \* where decoder_run() / jm_decode_packet() stand
  result,      \* what decoder_run() returned, "running" until it does
  atEos,       \* the caller has reached the end of the file
  sent,        \* number of packets written
  extradata,   \* decoder->extradata was submitted since jm_init()
  woken,       \* the caller's condition wait was signalled
  frame,       \* the picture node the AVFrame refers to ({} or a singleton)
  delivered,   \* the picture contents handle_frame() has seen, in order
  \* the FIFO
  pipe,        \* units written and not read
  pipeOpen,    \* decoder->pipe >= 0
  \* the decoder thread
  decPc,       \* where decoder_thread_func() stands
  state,       \* decoder_thread.state, INIT and ACTIVE left out
  errorValue,  \* decoder_thread.error_value
  ret,         \* the local ret of decoder_thread_func()
  cancelled,   \* pthread_cancel() was called
  \* the JM library
  jmIn,        \* coded pictures read from the FIFO and not decoded
  dpb,         \* decoded pictures not yet output
  outputs,     \* number of pictures output so far
  jmValid,     \* output nodes with bValid = 1, oldest first
  jmFree,      \* buffers of the nodes with bValid = 0 (pDecOuputPic)
  allocated,   \* buffers JM has allocated
  content,     \* the picture last written in each buffer
  \* shared lists
  queue,       \* decoder_pic_list: pictures waiting for the caller
  outList      \* output_pic_list: buffers to give back to JM

callVars  == <<atEos, sent, extradata, woken, frame, delivered>>
mainVars  == <<mainPc, result, callVars>>
pipeVars  == <<pipe, pipeOpen>>
decVars   == <<decPc, state, errorValue, ret, cancelled>>
jmVars    == <<jmIn, dpb, outputs, jmValid, jmFree, allocated, content>>
listVars  == <<queue, outList>>
otherVars == <<pipeVars, decVars, jmVars, listVars>>
vars      == <<mainVars, otherVars>>

Node == [pic : Nat, buf : Buffers]

NumPics == Cardinality({i \in DOMAIN Stream : Stream[i] = "pic"})

MainPcs == {"call", "write", "loop", "eoswait", "timedwait", "flush",
            "client", "finalize", "join", "end"}
Results == {"running", "success", "failure"}
Errors  == {"EOF", "INVALIDDATA", "ENOMEM", "errno"}
Rets    == {"none", "SUCCEED", "EOS"} \cup Errors
DecPcs  == {"top", "poll", "decode", "output", "submit", "error", "exited"}

MainTypeOK ==
  /\ mainPc \in MainPcs
  /\ result \in Results
  /\ atEos \in BOOLEAN
  /\ sent \in 0..Len(Stream)
  /\ extradata \in BOOLEAN
  /\ woken \in BOOLEAN
  /\ frame \in SUBSET Node
  /\ delivered \in Seq(Nat)

PipeTypeOK ==
  /\ pipe \in Seq({"headers", "pic", "other", "eos"})
  /\ pipeOpen \in BOOLEAN

DecTypeOK ==
  /\ decPc \in DecPcs
  /\ state \in SUBSET {"IDLE", "ERROR"}
  /\ errorValue \in {"none"} \cup Errors
  /\ ret \in Rets
  /\ cancelled \in BOOLEAN

JmTypeOK ==
  /\ jmIn \in Nat
  /\ dpb \in Nat
  /\ outputs \in Nat
  /\ jmValid \in Seq(Node)
  /\ jmFree \in SUBSET Buffers
  /\ allocated \in SUBSET Buffers
  /\ content \in [Buffers -> Nat]

ListTypeOK ==
  /\ queue \in Seq(Node)
  /\ outList \in SUBSET Buffers

TypeOK == MainTypeOK /\ PipeTypeOK /\ DecTypeOK /\ JmTypeOK /\ ListTypeOK

(* jm_init() has returned 0: both threads are initialised, the parser      *)
(* thread's filler data is consumed by OpenDecoder(), the extradata it     *)
(* wrote is in the FIFO and will be written again.                         *)
Init ==
  /\ mainPc = "call" /\ result = "running" /\ atEos = FALSE /\ sent = 0
  /\ extradata = FALSE /\ woken = FALSE /\ frame = {} /\ delivered = <<>>
  /\ pipe = <<"headers">> /\ pipeOpen = TRUE
  /\ decPc = "top" /\ state = {} /\ errorValue = "none" /\ ret = "none"
  /\ cancelled = FALSE
  /\ jmIn = 0 /\ dpb = 0 /\ outputs = 0 /\ jmValid = <<>> /\ jmFree = {}
  /\ allocated = {} /\ content = [b \in Buffers |-> 0]
  /\ queue = <<>> /\ outList = {}

-----------------------------------------------------------------------------
(* The JM library (external)                                               *)

EndOfInput == pipe = <<>> /\ ~pipeOpen

(* Inside DecodeOneFrame(): read what the FIFO holds.                      *)
JmRead ==
  /\ decPc = "decode"
  /\ pipe # <<>>
  /\ jmIn' = IF Head(pipe) = "pic" THEN jmIn + 1 ELSE jmIn
  /\ pipe' = Tail(pipe)
  /\ UNCHANGED <<mainVars, pipeOpen, decVars, dpb, outputs, jmValid, jmFree,
                 allocated, content, listVars>>

(* A picture is complete once the start of the next one, or the end of the *)
(* input, has been seen; the last one may come back along with DEC_EOS.    *)
JmDecode ==
  /\ decPc = "decode"
  /\ jmIn > 0
  /\ jmIn > 1 \/ EndOfInput
  /\ jmIn' = jmIn - 1
  /\ dpb' = dpb + 1
  /\ decPc' = "output"
  /\ ret' \in {"SUCCEED"} \cup (IF jmIn = 1 THEN {"EOS"} ELSE {})
  /\ UNCHANGED <<mainVars, pipeVars, state, errorValue, cancelled, outputs,
                 jmValid, jmFree, allocated, content, listVars>>

JmEndOfStream ==
  /\ decPc = "decode"
  /\ jmIn = 0
  /\ EndOfInput
  /\ decPc' = "output"
  /\ ret' = "EOS"
  /\ UNCHANGED <<mainVars, pipeVars, state, errorValue, cancelled, jmVars,
                 listVars>>

JmFail ==
  /\ JmErrors
  /\ decPc = "decode"
  /\ decPc' = "error"
  /\ ret' = "INVALIDDATA"
  /\ UNCHANGED <<mainVars, pipeVars, state, errorValue, cancelled, jmVars,
                 listVars>>

(* Output the next picture: write it in the buffer of a node that is not   *)
(* valid, or in a new one.  Runs in DecodeOneFrame() or in FinitDecoder(). *)
JmOutput(b) ==
  /\ decPc = "output" \/ mainPc = "flush"
  /\ dpb > 0
  /\ (HoldsBack /\ mainPc # "flush") => dpb > 1
  /\ b \in jmFree \/ b \notin allocated
  /\ outputs' = outputs + 1
  /\ dpb' = dpb - 1
  /\ content' = [content EXCEPT ![b] = outputs + 1]
  /\ jmValid' = Append(jmValid, [pic |-> outputs + 1, buf |-> b])
  /\ jmFree' = jmFree \ {b}
  /\ allocated' = allocated \cup {b}
  /\ UNCHANGED <<mainVars, pipeVars, decVars, jmIn, listVars>>

JmReturn ==
  /\ decPc = "output"
  /\ decPc' = "submit"
  /\ UNCHANGED <<mainVars, pipeVars, state, errorValue, ret, cancelled, jmVars,
                 listVars>>

-----------------------------------------------------------------------------
(* The decoder thread                                                      *)

(* Variant: nobody is signalled.                                           *)
NoBroadcast == UNCHANGED woken

(* pthread_cond_broadcast(): only the caller ever waits.                   *)
Broadcast == woken' = TRUE

SetIdle ==
  /\ decPc = "top"
  /\ decPc' = "poll"
  /\ state' = state \cup {"IDLE"}
  /\ Broadcast
  /\ UNCHANGED <<mainPc, result, atEos, sent, extradata, frame, delivered,
                 pipeVars, errorValue, ret, cancelled, jmVars, listVars>>

(* has_pending_data(decoder, 100) reports data, a hang-up or a timeout     *)
(* alike as a value >= 0: DecodeOneFrame() is called in every case.        *)
Poll ==
  /\ decPc = "poll"
  /\ decPc' = "decode"
  /\ state' = state \ {"IDLE"}
  /\ Broadcast
  /\ UNCHANGED <<mainPc, result, atEos, sent, extradata, frame, delivered,
                 pipeVars, errorValue, ret, cancelled, jmVars, listVars>>

PollFails ==
  /\ CallErrors
  /\ decPc = "poll"
  /\ decPc' = "error"
  /\ ret' = "errno"
  /\ UNCHANGED <<mainVars, pipeVars, state, errorValue, cancelled, jmVars,
                 listVars>>

(* Variant: the tail pointer is never advanced.                            *)
PushCopyAtHead ==
  /\ queue' = <<Head(jmValid)>> \o queue
  /\ jmValid' = Tail(jmValid)

(* dp_queue_push_copy(): the copy takes the buffers, the original node     *)
(* stays in JM's list with bValid = 0 and no buffer.                       *)
PushCopy ==
  /\ queue' = Append(queue, Head(jmValid))
  /\ jmValid' = Tail(jmValid)

(* output_pic_list is prepended to JM's list of nodes.                     *)
Reinject ==
  /\ jmFree' = jmFree \cup outList
  /\ outList' = {}

(* DEC_EOS becomes AVERROR_EOF.                                            *)
EosError == "EOF"

(* The locked section after DecodeOneFrame(): at most one picture is       *)
(* queued and nobody is signalled here.                                    *)
Submit ==
  /\ decPc = "submit"
  /\ IF jmValid # <<>> THEN PushCopy ELSE UNCHANGED <<jmValid, queue>>
  /\ Reinject
  /\ IF ret = "EOS" THEN decPc' = "error" /\ ret' = EosError
                    ELSE decPc' = "top" /\ ret' = "none"
  /\ UNCHANGED <<mainVars, pipeVars, state, errorValue, cancelled, jmIn, dpb,
                 outputs, allocated, content>>

(* The same section when the copy of the node cannot be allocated.         *)
SubmitFails ==
  /\ CallErrors
  /\ decPc = "submit"
  /\ jmValid # <<>>
  /\ Reinject
  /\ decPc' = "error"
  /\ ret' = "ENOMEM"
  /\ UNCHANGED <<mainVars, pipeVars, state, errorValue, cancelled, jmIn, dpb,
                 outputs, jmValid, allocated, content, queue>>

(* Variant: the thread goes on after an error.                             *)
PollAgain == decPc' = "poll"
LeaveThread == decPc' = "exited"

(* thread_context_set_error(), after which the thread returns.             *)
SetError ==
  /\ decPc = "error"
  /\ LeaveThread
  /\ state' = state \cup {"ERROR"}
  /\ errorValue' = ret
  /\ Broadcast
  /\ UNCHANGED <<mainPc, result, atEos, sent, extradata, frame, delivered,
                 pipeVars, ret, cancelled, jmVars, listVars>>

(* Deferred cancellation acts at poll() and at the read() inside JM.       *)
Cancel ==
  /\ cancelled
  /\ decPc \in {"poll", "decode"}
  /\ decPc' = "exited"
  /\ UNCHANGED <<mainVars, pipeVars, state, errorValue, ret, cancelled, jmVars,
                 listVars>>

-----------------------------------------------------------------------------
(* The caller: decoder_run() and jm_decode_packet()                        *)

(* decoder_run() returns and the decoder is freed: jm_finalize() follows.  *)
ReturnTrue  == mainPc' = "finalize" /\ result' = "success"
ReturnFalse == mainPc' = "finalize" /\ result' = "failure"

(* Variant: frame->opaque is not reset.                                    *)
ReleaseFrameOnly ==
  /\ frame' = frame
  /\ outList' = outList \cup {n.buf : n \in frame}

(* jm_release_frame(): the picture shown by the frame goes to              *)
(* output_pic_list, before anything else is done for the call.             *)
ReleaseFrame ==
  /\ frame' = {}
  /\ outList' = outList \cup {n.buf : n \in frame}

(* av_read_frame() returned a packet, or the end of the file, or the loop  *)
(* over the cached frames calls again; then jm_decode_packet() starts.     *)
DecodeCall ==
  /\ mainPc = "call"
  /\ mainPc' = "write"
  /\ atEos' = (sent = Len(Stream))
  /\ ReleaseFrame
  /\ UNCHANGED <<result, sent, extradata, woken, delivered, pipeVars, decVars,
                 jmVars, queue>>

ReadFails ==
  /\ CallErrors
  /\ mainPc = "call"
  /\ ~atEos
  /\ ReturnFalse
  /\ UNCHANGED <<callVars, otherVars>>

(* write() blocks while the FIFO is full.                                  *)
PipeHasSpace == Len(pipe) < PipeCapacity

WriteExtradata ==
  /\ mainPc = "write"
  /\ ~atEos
  /\ ~extradata
  /\ PipeHasSpace
  /\ pipe' = Append(pipe, "headers")
  /\ extradata' = TRUE
  /\ UNCHANGED <<mainPc, result, atEos, sent, woken, frame, delivered,
                 pipeOpen, decVars, jmVars, listVars>>

WritePacket ==
  /\ mainPc = "write"
  /\ ~atEos
  /\ extradata
  /\ PipeHasSpace
  /\ sent < Len(Stream)
  /\ pipe' = Append(pipe, Stream[sent + 1])
  /\ sent' = sent + 1
  /\ mainPc' = "loop"
  /\ UNCHANGED <<result, atEos, extradata, woken, frame, delivered, pipeOpen,
                 decVars, jmVars, listVars>>

(* A NAL unit that does not fit its packet, or a write error; the FIFO is  *)
(* closed all the same when it was the end of stream that failed.          *)
WriteFails ==
  /\ CallErrors
  /\ mainPc = "write"
  /\ pipeOpen
  /\ ReturnFalse
  /\ pipeOpen' = ~atEos
  /\ UNCHANGED <<callVars, pipe, decVars, jmVars, listVars>>

(* Variant: the FIFO stays open.                                           *)
KeepPipe == UNCHANGED pipeOpen
ClosePipe == pipeOpen' = FALSE

(* The first call at the end of the stream writes the end of stream NAL    *)
(* unit and closes the FIFO; the next ones find decoder->pipe < 0.         *)
WriteEos ==
  /\ mainPc = "write"
  /\ atEos
  /\ pipeOpen
  /\ PipeHasSpace
  /\ pipe' = Append(pipe, "eos")
  /\ ClosePipe
  /\ mainPc' = "loop"
  /\ UNCHANGED <<result, callVars, decVars, jmVars, listVars>>

EosAlreadyWritten ==
  /\ mainPc = "write"
  /\ atEos
  /\ ~pipeOpen
  /\ mainPc' = "loop"
  /\ UNCHANGED <<result, callVars, otherVars>>

(* Variants: the node stays at the head of the queue; its buffers go back  *)
(* to JM as soon as the frame refers to them.                              *)
LeaveHead == UNCHANGED <<listVars>>
ReleaseHead ==
  queue' = Tail(queue) /\ outList' = outList \cup {Head(queue).buf}

TakeHead == queue' = Tail(queue) /\ UNCHANGED outList

(* dp_queue_pop() and jm_handle_picture(): the frame refers to the node.   *)
PopPicture ==
  /\ mainPc = "loop"
  /\ queue # <<>>
  /\ frame' = {Head(queue)}
  /\ TakeHead
  /\ mainPc' = "client"
  /\ UNCHANGED <<result, atEos, sent, extradata, woken, delivered, pipeVars,
                 decVars, jmVars>>

(* jm_handle_picture() rejects the popped picture, which is then lost.     *)
PopUnsupported ==
  /\ CallErrors
  /\ mainPc = "loop"
  /\ queue # <<>>
  /\ queue' = Tail(queue)
  /\ ReturnFalse
  /\ UNCHANGED <<callVars, pipeVars, decVars, jmVars, outList>>

(* The queue is empty.  At the end of the stream the caller waits on the   *)
(* condition for as long as the decoder thread has not failed.             *)
WaitEos ==
  /\ mainPc = "loop"
  /\ queue = <<>>
  /\ atEos
  /\ "ERROR" \notin state
  /\ woken' = FALSE
  /\ mainPc' = "eoswait"
  /\ UNCHANGED <<result, atEos, sent, extradata, frame, delivered, otherVars>>

(* Variant: EOF is an error like any other.                                *)
FailOnAnyError == ReturnFalse

(* What follows the test of the ERROR flag at the end of the stream: EOF   *)
(* leads to jm_flush_pictures(), any other error ends the run.             *)
FlushOrFail ==
  IF errorValue = "EOF" THEN mainPc' = "flush" /\ UNCHANGED result
                        ELSE ReturnFalse

ErrorAtEos ==
  /\ mainPc = "loop"
  /\ queue = <<>>
  /\ atEos
  /\ "ERROR" \in state
  /\ FlushOrFail
  /\ UNCHANGED <<callVars, otherVars>>

(* The wait returns, signalled or spuriously.  The queue is not read again *)
(* before the ERROR flag is acted upon.                                    *)
WakeEos(signalled) ==
  /\ mainPc = "eoswait"
  /\ woken = signalled
  /\ IF "ERROR" \in state THEN FlushOrFail
                         ELSE mainPc' = "loop" /\ UNCHANGED result
  /\ UNCHANGED <<callVars, otherVars>>

(* While packets remain, an empty queue and a drained FIFO end the call    *)
(* without a picture.                                                      *)
NoPicture ==
  /\ mainPc = "loop"
  /\ queue = <<>>
  /\ ~atEos
  /\ pipe = <<>>
  /\ mainPc' = "call"
  /\ UNCHANGED <<result, callVars, otherVars>>

(* Data is left in the FIFO.  That poll() with no delay fails, which the    *)
(* code does not tell from data being left, is not modelled.               *)
WaitData ==
  /\ mainPc = "loop"
  /\ queue = <<>>
  /\ ~atEos
  /\ pipe # <<>>
  /\ mainPc' = "timedwait"
  /\ UNCHANGED <<result, callVars, otherVars>>

(* The 100 ms wait returns: signalled, timed out or spuriously.            *)
WakeData ==
  /\ mainPc = "timedwait"
  /\ IF "ERROR" \in state THEN ReturnFalse
                         ELSE mainPc' = "loop" /\ UNCHANGED result
  /\ UNCHANGED <<callVars, otherVars>>

(* Variant: the queued pictures are not counted.                           *)
FlushedNone == FALSE
Flushed == jmValid # <<>>

(* jm_flush_pictures(), once FinitDecoder() has output the whole DPB: all  *)
(* the valid nodes are queued.  No node ends the run: got_frame is 0.      *)
FlushPush ==
  /\ mainPc = "flush"
  /\ dpb = 0
  /\ queue' = queue \o jmValid
  /\ jmValid' = <<>>
  /\ IF Flushed THEN mainPc' = "loop" /\ UNCHANGED result ELSE ReturnTrue
  /\ UNCHANGED <<callVars, pipeVars, decVars, jmIn, dpb, outputs, jmFree,
                 allocated, content, outList>>

FlushFails ==
  /\ CallErrors
  /\ mainPc = "flush"
  /\ ReturnFalse
  /\ UNCHANGED <<callVars, otherVars>>

(* handle_frame() reads the buffers of the frame; decoder_run() goes on.   *)
ClientDone ==
  /\ mainPc = "client"
  /\ \E n \in frame : delivered' = Append(delivered, content[n.buf])
  /\ mainPc' = "call"
  /\ UNCHANGED <<result, atEos, sent, extradata, woken, frame, otherVars>>

ClientFails ==
  /\ CallErrors
  /\ mainPc = "client"
  /\ ReturnFalse
  /\ UNCHANGED <<callVars, otherVars>>

-----------------------------------------------------------------------------
(* jm_finalize()                                                           *)

RequestCancel ==
  /\ mainPc = "finalize"
  /\ cancelled' = TRUE
  /\ mainPc' = "join"
  /\ UNCHANGED <<result, callVars, pipeVars, decPc, state, errorValue, ret,
                 jmVars, listVars>>

Joined == decPc = "exited"

(* pthread_join() has returned: the context is cleared, the pictures of    *)
(* output_pic_list go back to JM, CloseDecoder() frees JM's nodes and the  *)
(* FIFO is closed.                                                         *)
Finalize ==
  /\ mainPc = "join"
  /\ Joined
  /\ state' = {}
  /\ Reinject
  /\ pipeOpen' = FALSE
  /\ mainPc' = "end"
  /\ UNCHANGED <<result, callVars, pipe, decPc, errorValue, ret, cancelled,
                 jmIn, dpb, outputs, jmValid, allocated, content, queue>>

Terminated == mainPc = "end" /\ UNCHANGED vars

-----------------------------------------------------------------------------
Jm == \/ JmRead \/ JmDecode \/ JmEndOfStream \/ JmReturn
      \/ \E b \in Buffers : JmOutput(b)

DecoderThread == SetIdle \/ Poll \/ Submit \/ SetError \/ Cancel

Caller ==
  \/ DecodeCall \/ WriteExtradata \/ WritePacket \/ WriteEos
  \/ EosAlreadyWritten \/ PopPicture \/ WaitEos \/ ErrorAtEos \/ WakeEos(TRUE)
  \/ NoPicture \/ WaitData \/ WakeData \/ FlushPush \/ ClientDone
  \/ RequestCancel \/ Finalize

(* What the environment may add at any time: errors, spurious wake-ups.    *)
Disturbance ==
  \/ JmFail \/ PollFails \/ SubmitFails \/ ReadFails \/ WriteFails
  \/ PopUnsupported \/ FlushFails \/ ClientFails \/ WakeEos(FALSE)

Next == Jm \/ DecoderThread \/ Caller \/ Disturbance \/ Terminated

(* Each thread that can run eventually does; JM is fair when it runs in    *)
(* the decoder thread (WF of Jm) or in the caller's (the flush).           *)
Fairness == WF_vars(Jm) /\ WF_vars(DecoderThread) /\ WF_vars(Caller)

Spec == Init /\ [][Next]_vars /\ Fairness

-----------------------------------------------------------------------------
(* Properties                                                              *)

InUse == [valid |-> {jmValid[i] : i \in DOMAIN jmValid},
          queued |-> {queue[i] : i \in DOMAIN queue},
          shown |-> frame]

Nodes == InUse.valid \cup InUse.queued \cup InUse.shown

(* A picture node that is valid, queued or shown still has the picture it  *)
(* was made for: JM never reuses its buffer before it is given back.       *)
NodesIntact == \A n \in Nodes : content[n.buf] = n.pic

(* A buffer has one owner: what JM may write to and what is on its way     *)
(* back to JM belong to no node that is valid, queued or shown.            *)
SingleOwner ==
  /\ \A n \in Nodes : n.buf \notin jmFree \cup outList
  /\ \A m, n \in Nodes : m.buf = n.buf => m = n

(* The pictures read by handle_frame() are those of the stream, in output  *)
(* order, none skipped and none repeated.                                  *)
DeliveredInOrder == \A i \in DOMAIN delivered : delivered[i] = i

(* The JM library is not reentrant: the caller runs FinitDecoder() and     *)
(* CloseDecoder() only once the decoder thread has left it.                *)
JmExclusive == mainPc \in {"flush", "end"} => decPc = "exited"

(* decoder_run() reports success only when every picture was delivered.    *)
NothingLost == result = "success" => Len(delivered) = NumPics

(* A stream that JM decodes, and a caller that meets no error, never end   *)
(* in a failed run, however the threads interleave.                        *)
CleanRunSucceeds == ~JmErrors /\ ~CallErrors => result # "failure"

(* decoder_run() returns and jm_finalize() completes: no thread waits for  *)
(* ever on the condition, on the FIFO or on the end of the other.          *)
Terminates == <>(mainPc = "end")

(* The decoder implements the stream of pictures it promises.              *)
Promise == INSTANCE PictureStream
             WITH NumPictures <- NumPics, shown <- delivered,
                  verdict <- result
ImplementsPictureStream == Promise!StreamSpec
=============================================================================
