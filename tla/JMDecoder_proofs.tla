-------------------------- MODULE JMDecoder_proofs --------------------------
(***************************************************************************)
(* Proofs about JMDecoder, for any stream, FIFO capacity and set of        *)
(* picture buffers, with or without errors.                                *)
(***************************************************************************)
EXTENDS JMDecoder, FunctionTheorems, FiniteSetTheorems, TLAPS

USE DEF callVars, otherVars, EosError, ClosePipe, TakeHead, Flushed, Joined

-----------------------------------------------------------------------------
(* Type correctness                                                        *)

(* What thread_context_set_error() stores is an error, never DEC_EOS.      *)
TypeInv == TypeOK /\ (decPc = "error" => ret \in Errors)

(* A group of variables that a step leaves alone keeps its types.          *)
LEMMA GroupsUnchanged ==
  /\ MainTypeOK /\ UNCHANGED mainVars => MainTypeOK'
  /\ PipeTypeOK /\ UNCHANGED pipeVars => PipeTypeOK'
  /\ DecTypeOK /\ UNCHANGED decVars => DecTypeOK'
  /\ JmTypeOK /\ UNCHANGED jmVars => JmTypeOK'
  /\ ListTypeOK /\ UNCHANGED listVars => ListTypeOK'
  BY DEF MainTypeOK, PipeTypeOK, DecTypeOK, JmTypeOK, ListTypeOK,
         mainVars, pipeVars, decVars, jmVars, listVars

LEMMA InitTypeInv == Init => TypeInv
<1>. SUFFICES ASSUME Init PROVE TypeInv
  OBVIOUS
<1>1. MainTypeOK
  <2>1. 0 \in 0..Len(Stream)
    BY JMDecoderAssumption
  <2>2. <<>> \in Seq(Nat)
    OBVIOUS
  <2>. QED  BY <2>1, <2>2 DEF Init, MainTypeOK, MainPcs, Results
<1>2. PipeTypeOK
  BY DEF Init, PipeTypeOK
<1>3. DecTypeOK /\ decPc # "error"
  BY DEF Init, DecTypeOK, DecPcs, Errors, Rets
<1>4. JmTypeOK /\ ListTypeOK
  BY DEF Init, JmTypeOK, ListTypeOK
<1>. QED  BY <1>1, <1>2, <1>3, <1>4 DEF TypeInv, TypeOK

LEMMA JmTypeInv ==
  ASSUME TypeInv, Jm
  PROVE  TypeInv'
<1>. USE GroupsUnchanged DEF TypeInv, TypeOK
<1>1. CASE JmRead
  <2>1. PipeTypeOK'
    BY <1>1 DEF JmRead, PipeTypeOK
  <2>2. JmTypeOK'
    BY <1>1 DEF JmRead, JmTypeOK
  <2>. QED  BY <1>1, <2>1, <2>2 DEF JmRead, decVars
<1>2. CASE JmDecode
  <2>1. DecTypeOK' /\ decPc' # "error"
    BY <1>2 DEF JmDecode, DecTypeOK, DecPcs, Rets
  <2>2. JmTypeOK'
    BY <1>2 DEF JmDecode, JmTypeOK
  <2>. QED  BY <1>2, <2>1, <2>2 DEF JmDecode
<1>3. CASE JmEndOfStream
  <2>1. DecTypeOK' /\ decPc' # "error"
    BY <1>3 DEF JmEndOfStream, DecTypeOK, DecPcs, Rets
  <2>. QED  BY <1>3, <2>1 DEF JmEndOfStream
<1>4. CASE JmReturn
  <2>1. DecTypeOK' /\ decPc' # "error"
    BY <1>4 DEF JmReturn, DecTypeOK, DecPcs
  <2>. QED  BY <1>4, <2>1 DEF JmReturn
<1>5. ASSUME NEW b \in Buffers, JmOutput(b) PROVE TypeInv'
  <2>1. [pic |-> outputs + 1, buf |-> b] \in Node
    BY DEF Node, JmTypeOK
  <2>2. JmTypeOK'
    BY <1>5, <2>1 DEF JmOutput, JmTypeOK
  <2>. QED  BY <1>5, <2>2 DEF JmOutput, decVars
<1>. QED  BY <1>1, <1>2, <1>3, <1>4, <1>5 DEF Jm

(* dp_queue_push_copy() moves a node from one list to the other.           *)
LEMMA PushCopyType ==
  ASSUME JmTypeOK, ListTypeOK, jmValid # <<>>, PushCopy
  PROVE  jmValid' \in Seq(Node) /\ queue' \in Seq(Node)
<1>1. Head(jmValid) \in Node /\ Tail(jmValid) \in Seq(Node)
  BY DEF JmTypeOK
<1>. QED  BY <1>1 DEF PushCopy, ListTypeOK

LEMMA DecoderTypeInv ==
  ASSUME TypeInv, DecoderThread \/ JmFail \/ PollFails \/ SubmitFails
  PROVE  TypeInv'
<1>. USE GroupsUnchanged DEF TypeInv, TypeOK
<1>1. CASE SetIdle \/ Poll
  <2>1. MainTypeOK'
    BY <1>1 DEF SetIdle, Poll, Broadcast, MainTypeOK
  <2>2. DecTypeOK' /\ decPc' # "error"
    BY <1>1 DEF SetIdle, Poll, DecTypeOK, DecPcs
  <2>. QED  BY <1>1, <2>1, <2>2 DEF SetIdle, Poll
<1>2. CASE Submit
  <2>1. jmValid' \in Seq(Node) /\ queue' \in Seq(Node)
    BY <1>2, PushCopyType DEF Submit, JmTypeOK, ListTypeOK
  <2>2. JmTypeOK' /\ ListTypeOK'
    BY <1>2, <2>1 DEF Submit, Reinject, JmTypeOK, ListTypeOK
  <2>3. DecTypeOK' /\ (decPc' = "error" => ret' \in Errors)
    BY <1>2 DEF Submit, DecTypeOK, DecPcs, Rets, Errors
  <2>. QED  BY <1>2, <2>2, <2>3 DEF Submit
<1>3. CASE SetError
  <2>1. MainTypeOK'
    BY <1>3 DEF SetError, LeaveThread, Broadcast, MainTypeOK
  <2>2. state' \in SUBSET {"IDLE", "ERROR"}
    BY <1>3 DEF SetError, LeaveThread, DecTypeOK
  <2>3. DecTypeOK' /\ decPc' # "error"
    BY <1>3, <2>2 DEF SetError, LeaveThread, DecTypeOK, DecPcs
  <2>. QED  BY <1>3, <2>1, <2>3 DEF SetError, LeaveThread
<1>4. CASE Cancel
  <2>1. DecTypeOK' /\ decPc' # "error"
    BY <1>4 DEF Cancel, DecTypeOK, DecPcs
  <2>. QED  BY <1>4, <2>1 DEF Cancel
<1>5. CASE JmFail \/ PollFails
  <2>1. DecTypeOK' /\ ret' \in Errors
    BY <1>5 DEF JmFail, PollFails, DecTypeOK, DecPcs, Rets, Errors
  <2>. QED  BY <1>5, <2>1 DEF JmFail, PollFails
<1>6. CASE SubmitFails
  <2>1. JmTypeOK' /\ ListTypeOK'
    BY <1>6 DEF SubmitFails, Reinject, JmTypeOK, ListTypeOK
  <2>2. DecTypeOK' /\ ret' \in Errors
    BY <1>6 DEF SubmitFails, DecTypeOK, DecPcs, Rets, Errors
  <2>. QED  BY <1>6, <2>1, <2>2 DEF SubmitFails
<1>. QED
  BY <1>1, <1>2, <1>3, <1>4, <1>5, <1>6 DEF DecoderThread

LEMMA CallerTypeInv ==
  ASSUME TypeInv,
         \/ Caller \/ ReadFails \/ WriteFails \/ PopUnsupported
         \/ FlushFails \/ ClientFails \/ WakeEos(FALSE)
  PROVE  TypeInv'
<1>. USE GroupsUnchanged DEF TypeInv, TypeOK
<1>1. CASE DecodeCall
  <2>1. \A n \in frame : n.buf \in Buffers
    BY DEF MainTypeOK, Node
  <2>2. MainTypeOK' /\ ListTypeOK'
    BY <1>1, <2>1
       DEF DecodeCall, ReleaseFrame, MainTypeOK, ListTypeOK, MainPcs
  <2>. QED  BY <1>1, <2>2 DEF DecodeCall, decVars
<1>2. CASE WriteExtradata \/ WritePacket \/ WriteEos
  <2>1. Stream[sent + 1] \in {"pic", "other"} \/ ~WritePacket
    BY JMDecoderAssumption DEF WritePacket, MainTypeOK
  <2>2. PipeTypeOK'
    <3>1. pipeOpen' \in BOOLEAN
      BY <1>2 DEF WriteExtradata, WritePacket, WriteEos, PipeTypeOK
    <3>2. PICK u \in {"headers", "pic", "other", "eos"} : pipe' = Append(pipe, u)
      BY <1>2, <2>1 DEF WriteExtradata, WritePacket, WriteEos
    <3>. QED  BY <3>1, <3>2 DEF PipeTypeOK
  <2>3. sent' \in 0..Len(Stream)
    BY <1>2, JMDecoderAssumption
       DEF WriteExtradata, WritePacket, WriteEos, MainTypeOK
  <2>4. MainTypeOK'
    BY <1>2, <2>3
       DEF WriteExtradata, WritePacket, WriteEos, MainTypeOK, MainPcs
  <2>. QED
    BY <1>2, <2>2, <2>4 DEF WriteExtradata, WritePacket, WriteEos, decVars
<1>3. CASE WriteFails
  <2>1. PipeTypeOK' /\ MainTypeOK'
    BY <1>3 DEF WriteFails, ReturnFalse, PipeTypeOK, MainTypeOK, MainPcs, Results
  <2>. QED  BY <1>3, <2>1 DEF WriteFails, decVars
<1>4. CASE PopPicture
  <2>1. Head(queue) \in Node /\ Tail(queue) \in Seq(Node)
    BY <1>4 DEF PopPicture, ListTypeOK
  <2>2. MainTypeOK' /\ ListTypeOK'
    BY <1>4, <2>1 DEF PopPicture, MainTypeOK, ListTypeOK, MainPcs
  <2>. QED  BY <1>4, <2>2 DEF PopPicture, decVars
<1>5. CASE PopUnsupported
  <2>1. Tail(queue) \in Seq(Node)
    BY <1>5 DEF PopUnsupported, ListTypeOK
  <2>2. MainTypeOK' /\ ListTypeOK'
    BY <1>5, <2>1 DEF PopUnsupported, ReturnFalse, MainTypeOK, ListTypeOK,
       MainPcs, Results
  <2>. QED  BY <1>5, <2>2 DEF PopUnsupported, decVars
<1>6. CASE EosAlreadyWritten \/ NoPicture \/ WaitData \/ WaitEos
  <2>1. MainTypeOK'
    BY <1>6 DEF EosAlreadyWritten, NoPicture, WaitData, WaitEos, MainTypeOK,
       MainPcs
  <2>. QED
    BY <1>6, <2>1 DEF EosAlreadyWritten, NoPicture, WaitData, WaitEos, decVars
<1>7. CASE ErrorAtEos \/ WakeEos(TRUE) \/ WakeEos(FALSE) \/ WakeData
  <2>1. mainPc' \in MainPcs /\ result' \in Results
    BY <1>7 DEF ErrorAtEos, WakeEos, WakeData, FlushOrFail, ReturnFalse,
       MainTypeOK, MainPcs, Results
  <2>2. MainTypeOK'
    BY <1>7, <2>1 DEF ErrorAtEos, WakeEos, WakeData, MainTypeOK
  <2>. QED  BY <1>7, <2>2 DEF ErrorAtEos, WakeEos, WakeData, decVars
<1>8. CASE FlushPush
  <2>1. queue' \in Seq(Node) /\ jmValid' \in Seq(Node)
    BY <1>8 DEF FlushPush, JmTypeOK, ListTypeOK
  <2>2. JmTypeOK' /\ ListTypeOK'
    BY <1>8, <2>1 DEF FlushPush, JmTypeOK, ListTypeOK
  <2>3. MainTypeOK'
    BY <1>8 DEF FlushPush, ReturnTrue, MainTypeOK, MainPcs, Results
  <2>. QED  BY <1>8, <2>2, <2>3 DEF FlushPush, decVars
<1>9. CASE ClientDone
  <2>1. \A n \in frame : content[n.buf] \in Nat
    BY DEF MainTypeOK, JmTypeOK, Node
  <2>2. delivered' \in Seq(Nat)
    BY <1>9, <2>1 DEF ClientDone, MainTypeOK
  <2>3. MainTypeOK'
    BY <1>9, <2>2 DEF ClientDone, MainTypeOK, MainPcs
  <2>. QED  BY <1>9, <2>3 DEF ClientDone, decVars
<1>10. CASE ReadFails \/ FlushFails \/ ClientFails
  <2>1. MainTypeOK'
    BY <1>10 DEF ReadFails, FlushFails, ClientFails, ReturnFalse, MainTypeOK,
       MainPcs, Results
  <2>. QED  BY <1>10, <2>1 DEF ReadFails, FlushFails, ClientFails, decVars
<1>11. CASE RequestCancel
  <2>1. MainTypeOK' /\ DecTypeOK'
    BY <1>11 DEF RequestCancel, MainTypeOK, DecTypeOK, MainPcs
  <2>. QED  BY <1>11, <2>1 DEF RequestCancel
<1>12. CASE Finalize
  <2>1. MainTypeOK' /\ PipeTypeOK' /\ DecTypeOK'
    BY <1>12 DEF Finalize, MainTypeOK, PipeTypeOK, DecTypeOK, MainPcs
  <2>2. JmTypeOK' /\ ListTypeOK'
    BY <1>12 DEF Finalize, Reinject, JmTypeOK, ListTypeOK
  <2>. QED  BY <1>12, <2>1, <2>2 DEF Finalize
<1>. QED
  BY <1>1, <1>2, <1>3, <1>4, <1>5, <1>6, <1>7, <1>8, <1>9, <1>10, <1>11, <1>12
     DEF Caller

LEMMA NextTypeInv == TypeInv /\ [Next]_vars => TypeInv'
<1>1. TypeInv /\ UNCHANGED vars => TypeInv'
  BY GroupsUnchanged DEF TypeInv, TypeOK, vars, decVars
<1>. QED
  BY <1>1, JmTypeInv, DecoderTypeInv, CallerTypeInv
     DEF Next, Disturbance, Terminated

(* Every variable of the two threads keeps its type; in particular the     *)
(* error handed to the caller is an error code, never JM's DEC_EOS.        *)
THEOREM TypeCorrect == Spec => []TypeOK
<1>1. TypeInv => TypeOK
  BY DEF TypeInv
<1>. QED  BY <1>1, InitTypeInv, NextTypeInv, PTL DEF Spec

-----------------------------------------------------------------------------
(* Exclusive use of the JM library                                         *)

(* The ERROR flag is the last thing the decoder thread sets.               *)
ErrorIsLast == "ERROR" \in state => decPc = "exited"

ThreadInv == ErrorIsLast /\ JmExclusive

LEMMA NextThreadInv == ThreadInv /\ [Next]_vars => ThreadInv'
<1>. SUFFICES ASSUME ThreadInv, [Next]_vars PROVE ThreadInv'
  OBVIOUS
<1>. USE DEF ThreadInv, ErrorIsLast, JmExclusive
<1>1. CASE Jm
  BY <1>1 DEF Jm, JmRead, JmDecode, JmEndOfStream, JmReturn, JmOutput,
     mainVars, decVars
<1>2. CASE DecoderThread \/ JmFail \/ PollFails \/ SubmitFails
  BY <1>2 DEF DecoderThread, SetIdle, Poll, Submit, SetError, LeaveThread, Cancel, JmFail,
     PollFails, SubmitFails, mainVars
<1>3. CASE ErrorAtEos \/ WakeEos(TRUE) \/ WakeEos(FALSE)
  BY <1>3 DEF ErrorAtEos, WakeEos, FlushOrFail, ReturnFalse, decVars
<1>4. CASE Finalize \/ RequestCancel
  BY <1>4 DEF Finalize, RequestCancel
<1>5. CASE \/ DecodeCall \/ WriteExtradata \/ WritePacket \/ WriteEos
           \/ EosAlreadyWritten \/ PopPicture \/ WaitEos
  BY <1>5 DEF DecodeCall, WriteExtradata, WritePacket, WriteEos,
     EosAlreadyWritten, PopPicture, WaitEos, decVars
<1>6. CASE \/ NoPicture \/ WaitData \/ WakeData \/ FlushPush \/ ClientDone
  BY <1>6 DEF NoPicture, WaitData, WakeData, FlushPush, ClientDone,
     ReturnTrue, ReturnFalse, decVars
<1>7. CASE \/ ReadFails \/ WriteFails \/ PopUnsupported \/ FlushFails
           \/ ClientFails
  BY <1>7 DEF ReadFails, WriteFails, PopUnsupported, FlushFails, ClientFails,
     ReturnFalse, decVars
<1>8. CASE UNCHANGED vars
  BY <1>8 DEF vars, mainVars, decVars
<1>. QED
  BY <1>1, <1>2, <1>3, <1>4, <1>5, <1>6, <1>7, <1>8
     DEF Next, DecoderThread, Caller, Disturbance, Terminated

(* jm_flush_pictures() and jm_finalize() call the JM library only when the *)
(* decoder thread has left it for good: JM is not reentrant.               *)
THEOREM JmNeverShared == Spec => []JmExclusive
<1>1. Init => ThreadInv
  BY DEF Init, ThreadInv, ErrorIsLast, JmExclusive
<1>2. ThreadInv => JmExclusive
  BY DEF ThreadInv
<1>. QED  BY <1>1, <1>2, NextThreadInv, PTL DEF Spec

-----------------------------------------------------------------------------
(* Sequences                                                               *)

LEMMA MoveHead ==
  ASSUME NEW S, NEW s \in Seq(S), NEW t \in Seq(S), t # <<>>
  PROVE  Append(s, Head(t)) \o Tail(t) = s \o t
  OBVIOUS

LEMMA ConcatAppend ==
  ASSUME NEW S, NEW s \in Seq(S), NEW t \in Seq(S), NEW x \in S
  PROVE  s \o Append(t, x) = Append(s \o t, x)
  OBVIOUS

LEMMA ConcatTail ==
  ASSUME NEW S, NEW s \in Seq(S), NEW t \in Seq(S), s # <<>>
  PROVE  /\ Head(s \o t) = Head(s)
         /\ Tail(s \o t) = Tail(s) \o t
  OBVIOUS

LEMMA ConcatEmpty ==
  ASSUME NEW S, NEW s \in Seq(S)
  PROVE  s \o <<>> = s
  OBVIOUS

-----------------------------------------------------------------------------
(* Picture buffers                                                         *)

(* The pictures on their way to the caller, oldest first: pushing a copy   *)
(* of a node moves the boundary between the two lists, not the pictures.   *)
Line == queue \o jmValid

(* A buffer that nobody may write to or give back, with the right picture. *)
Kept(n) ==
  /\ n.buf \in allocated \ (jmFree \cup outList)
  /\ content[n.buf] = n.pic

LineKept ==
  \A i \in 1..Len(Line) :
    /\ Kept(Line[i])
    /\ \A j \in 1..Len(Line) : Line[i].buf = Line[j].buf => i = j

FrameKept ==
  \A n \in frame :
    /\ Kept(n)
    /\ \A m \in frame : m = n
    /\ \A i \in 1..Len(Line) : Line[i].buf # n.buf

PoolKept ==
  /\ jmFree \cap outList = {}
  /\ jmFree \cup outList \subseteq allocated

BufferInv == LineKept /\ FrameKept /\ PoolKept

bufferVars == <<frame, queue, jmValid, jmFree, outList, allocated, content>>

LEMMA LineType ==
  ASSUME TypeOK
  PROVE  /\ Line \in Seq(Node) /\ Len(Line) \in Nat
         /\ \A i \in 1..Len(Line) : Line[i] \in Node /\ Line[i].buf \in Buffers
         /\ \A n \in frame : n \in Node /\ n.buf \in Buffers
<1>1. Line \in Seq(Node)
  BY DEF TypeOK, JmTypeOK, ListTypeOK, Line
<1>2. \A n \in Node : n.buf \in Buffers
  BY DEF Node
<1>. QED  BY <1>1, <1>2 DEF TypeOK, MainTypeOK

(* A picture leaves the queue.                                             *)
LEMMA PopLine ==
  ASSUME queue \in Seq(Node), jmValid \in Seq(Node), queue # <<>>,
         queue' = Tail(queue), jmValid' = jmValid
  PROVE  Line' = Tail(Line) /\ Head(Line) = Head(queue) /\ Line # <<>>
<1>1. Line' = Tail(queue) \o jmValid
  BY DEF Line
<1>2. Tail(queue) \o jmValid = Tail(Line)
  BY ConcatTail DEF Line
<1>3. Head(Line) = Head(queue) /\ Line # <<>>
  BY ConcatTail DEF Line
<1>. QED  BY <1>1, <1>2, <1>3

(* JM writes a picture in a buffer that is free or new.                    *)
LEMMA OutputBuffers ==
  ASSUME TypeOK, BufferInv, NEW b \in Buffers, JmOutput(b)
  PROVE  BufferInv'
<1>1. PICK x \in Node : /\ x.buf = b /\ x.pic = outputs + 1
                        /\ jmValid' = Append(jmValid, x)
  <2>1. [pic |-> outputs + 1, buf |-> b] \in Node
    BY DEF TypeOK, JmTypeOK, Node
  <2>. QED  BY <2>1 DEF JmOutput
<1>2. queue' = queue /\ frame' = frame
  BY DEF JmOutput, mainVars, listVars
<1>3. Line' = Append(Line, x)
  <2>1. queue \in Seq(Node) /\ jmValid \in Seq(Node)
    BY DEF TypeOK, JmTypeOK, ListTypeOK
  <2>2. queue' = queue /\ jmValid' = Append(jmValid, x)
    BY <1>1, <1>2
  <2>. QED  BY <2>1, <2>2, ConcatAppend DEF Line
<1>4. /\ jmFree' = jmFree \ {b} /\ outList' = outList
      /\ allocated' = allocated \cup {b}
      /\ content' = [content EXCEPT ![b] = outputs + 1]
      /\ content \in [Buffers -> Nat]
      /\ b \in jmFree \/ b \notin allocated
  BY DEF JmOutput, listVars, TypeOK, JmTypeOK
<1>5. \A n \in Node : Kept(n) => n.buf # b /\ Kept(n)'
  <2>1. \A n \in Node : n.buf \in Buffers
    BY DEF Node
  <2>. QED  BY <1>4, <2>1 DEF Kept
<1>6. Kept(x)'
  BY <1>1, <1>4 DEF Kept, BufferInv, PoolKept
<1>7. PoolKept'
  BY <1>4 DEF BufferInv, PoolKept
<1>8. /\ Len(Line') = Len(Line) + 1 /\ Len(Line) \in Nat
      /\ \A i \in 1..Len(Line) : Line'[i] = Line[i]
      /\ Line'[Len(Line) + 1] = x
  BY <1>1, <1>3, LineType
<1>9. \A i \in 1..Len(Line') : i \in 1..Len(Line) \/ i = Len(Line) + 1
  BY <1>8
<1>10. LineKept'
  <2>1. \A i \in 1..Len(Line) :
          Line[i] \in Node /\ Line[i].buf # b /\ Kept(Line[i])
    BY <1>5, LineType DEF BufferInv, LineKept
  <2>2. ASSUME NEW i \in 1..Len(Line'), NEW j \in 1..Len(Line'),
               Line'[i].buf = Line'[j].buf
        PROVE  i = j
    <3>1. CASE i \in 1..Len(Line) /\ j \in 1..Len(Line)
      BY <1>8, <2>2, <3>1 DEF BufferInv, LineKept
    <3>2. CASE ~(i \in 1..Len(Line) /\ j \in 1..Len(Line))
      BY <1>1, <1>8, <1>9, <2>1, <2>2, <3>2
    <3>. QED  BY <3>1, <3>2
  <2>3. ASSUME NEW i \in 1..Len(Line') PROVE Kept(Line[i])'
    <3>1. CASE i \in 1..Len(Line)
      BY <1>5, <1>8, <2>1, <3>1 DEF Kept
    <3>2. CASE i = Len(Line) + 1
      BY <1>6, <1>8, <3>2 DEF Kept
    <3>. QED  BY <1>9, <3>1, <3>2
  <2>. QED  BY <2>2, <2>3 DEF LineKept
<1>11. FrameKept'
  BY <1>1, <1>2, <1>5, <1>8, <1>9, LineType DEF BufferInv, FrameKept
<1>. QED  BY <1>7, <1>10, <1>11 DEF BufferInv

(* The buffers of output_pic_list go back to JM, the pictures stay.        *)
LEMMA ReinjectBuffers ==
  ASSUME BufferInv, Reinject, Line' = Line, frame' = frame,
         UNCHANGED <<allocated, content>>
  PROVE  BufferInv'
<1>1. \A n : Kept(n) => Kept(n)'
  BY DEF Reinject, Kept
<1>. QED
  BY <1>1 DEF BufferInv, LineKept, FrameKept, PoolKept, Reinject

(* jm_release_frame() gives the picture shown back, and nobody has it.     *)
LEMMA ReleaseBuffers ==
  ASSUME TypeOK, BufferInv, ReleaseFrame, Line' = Line,
         UNCHANGED <<jmFree, allocated, content>>
  PROVE  BufferInv'
<1>1. \A i \in 1..Len(Line) : Kept(Line[i])'
  BY DEF ReleaseFrame, BufferInv, LineKept, FrameKept, Kept
<1>2. PoolKept'
  BY DEF ReleaseFrame, BufferInv, FrameKept, PoolKept, Kept
<1>. QED
  BY <1>1, <1>2 DEF ReleaseFrame, BufferInv, LineKept, FrameKept

(* The head of the line leaves it, for the frame or for nobody.            *)
LEMMA PopBuffers ==
  ASSUME TypeOK, BufferInv, queue # <<>>, queue' = Tail(queue),
         frame' = frame \/ frame' = {Head(queue)},
         UNCHANGED <<jmValid, jmFree, outList, allocated, content>>
  PROVE  BufferInv'
<1>1. Line' = Tail(Line) /\ Head(Line) = Head(queue) /\ Line # <<>>
  <2>1. queue \in Seq(Node) /\ jmValid \in Seq(Node)
    BY DEF TypeOK, JmTypeOK, ListTypeOK
  <2>. QED  BY <2>1, PopLine
<1>2. /\ Len(Line) \in Nat /\ Len(Line') = Len(Line) - 1
      /\ \A i \in 1..Len(Line') : i + 1 \in 1..Len(Line) /\ Line'[i] = Line[i + 1]
      /\ 1 \in 1..Len(Line) /\ Head(queue) = Line[1]
  BY <1>1, LineType
<1>3. \A n : Kept(n) => Kept(n)'
  BY DEF Kept
<1>4. LineKept'
  <2>1. ASSUME NEW i \in 1..Len(Line'), NEW j \in 1..Len(Line'),
               Line'[i].buf = Line'[j].buf
        PROVE  i = j
    <3>1. i + 1 \in 1..Len(Line) /\ j + 1 \in 1..Len(Line)
      BY <1>2
    <3>2. Line[i + 1].buf = Line[j + 1].buf
      BY <1>2, <2>1
    <3>3. i + 1 = j + 1
      BY <3>1, <3>2 DEF BufferInv, LineKept
    <3>4. i \in Nat /\ j \in Nat
      BY <1>2
    <3>. QED  BY <3>3, <3>4
  <2>. QED
    BY <1>2, <1>3, <2>1 DEF BufferInv, LineKept
<1>5. FrameKept'
  <2>1. CASE frame' = frame
    BY <1>2, <1>3, <2>1 DEF BufferInv, FrameKept
  <2>2. CASE frame' = {Line[1]}
    <3>1. \A i \in 1..Len(Line') : i + 1 # 1
      BY <1>2
    <3>2. \A i \in 1..Len(Line') : Line'[i].buf # Line[1].buf
      BY <1>2, <3>1 DEF BufferInv, LineKept
    <3>. QED
      BY <1>2, <1>3, <2>2, <3>2 DEF BufferInv, LineKept, FrameKept
  <2>. QED  BY <1>2, <2>1, <2>2
<1>. QED
  BY <1>4, <1>5 DEF BufferInv, PoolKept

(* The two pushes leave the line as it is.                                 *)
LEMMA SubmitLine ==
  ASSUME TypeOK, Submit \/ SubmitFails
  PROVE  Line' = Line
<1>. USE DEF TypeOK, JmTypeOK, ListTypeOK, Line
<1>1. CASE Submit /\ jmValid # <<>>
  <2>1. queue' = Append(queue, Head(jmValid)) /\ jmValid' = Tail(jmValid)
    BY <1>1 DEF Submit, PushCopy
  <2>. QED  BY <2>1, <1>1, MoveHead
<1>2. CASE SubmitFails \/ (Submit /\ jmValid = <<>>)
  BY <1>2 DEF Submit, SubmitFails
<1>. QED  BY <1>1, <1>2

LEMMA FlushLine ==
  ASSUME TypeOK, FlushPush
  PROVE  Line' = Line
<1>1. queue \o jmValid \in Seq(Node)
  BY DEF TypeOK, JmTypeOK, ListTypeOK
<1>. QED
  BY <1>1, ConcatEmpty DEF FlushPush, Line

LEMMA NextBufferInv ==
  ASSUME TypeInv, BufferInv, [Next]_vars
  PROVE  BufferInv'
<1>. USE DEF TypeInv
<1>1. ASSUME Line' = Line,
             UNCHANGED <<frame, jmFree, outList, allocated, content>>
      PROVE  BufferInv'
  BY <1>1 DEF BufferInv, LineKept, FrameKept, PoolKept, Kept
<1>2. ASSUME UNCHANGED bufferVars PROVE BufferInv'
  BY <1>1, <1>2 DEF bufferVars, Line
<1>3. ASSUME NEW b \in Buffers, JmOutput(b) PROVE BufferInv'
  BY <1>3, OutputBuffers
<1>4. CASE Submit \/ SubmitFails
  BY <1>4, SubmitLine, ReinjectBuffers DEF Submit, SubmitFails, mainVars
<1>5. CASE Finalize
  <2>1. Line' = Line
    BY <1>5 DEF Finalize, Line
  <2>. QED  BY <1>5, <2>1, ReinjectBuffers DEF Finalize
<1>6. CASE FlushPush
  BY <1>1, <1>6, FlushLine DEF FlushPush
<1>7. CASE DecodeCall
  <2>1. Line' = Line /\ UNCHANGED <<jmFree, allocated, content>>
    BY <1>7 DEF DecodeCall, Line, jmVars
  <2>. QED  BY <1>7, <2>1, ReleaseBuffers DEF DecodeCall
<1>8. CASE PopPicture \/ PopUnsupported
  BY <1>8, PopBuffers DEF PopPicture, PopUnsupported, jmVars
<1>9. CASE JmRead \/ JmDecode \/ JmEndOfStream \/ JmReturn
  BY <1>2, <1>9 DEF JmRead, JmDecode, JmEndOfStream, JmReturn, bufferVars,
     mainVars, jmVars, listVars
<1>10. CASE \/ SetIdle \/ Poll \/ SetError \/ Cancel \/ JmFail \/ PollFails
  BY <1>2, <1>10 DEF SetIdle, Poll, SetError, LeaveThread, Cancel, JmFail, PollFails,
     bufferVars, mainVars, jmVars, listVars
<1>11. CASE \/ WriteExtradata \/ WritePacket \/ WriteEos \/ EosAlreadyWritten
            \/ WaitEos \/ ErrorAtEos \/ WakeEos(TRUE) \/ WakeEos(FALSE)
  BY <1>2, <1>11 DEF WriteExtradata, WritePacket, WriteEos, EosAlreadyWritten,
     WaitEos, ErrorAtEos, WakeEos, bufferVars, jmVars, listVars
<1>12. CASE NoPicture \/ WaitData \/ WakeData \/ ClientDone \/ RequestCancel
  BY <1>2, <1>12 DEF NoPicture, WaitData, WakeData, ClientDone, RequestCancel,
     bufferVars, jmVars, listVars
<1>13. CASE ReadFails \/ WriteFails \/ FlushFails \/ ClientFails
  BY <1>2, <1>13 DEF ReadFails, WriteFails, FlushFails, ClientFails,
     bufferVars, jmVars, listVars
<1>14. CASE UNCHANGED vars
  BY <1>2, <1>14 DEF vars, bufferVars, mainVars, jmVars, listVars
<1>. QED
  BY <1>3, <1>4, <1>5, <1>6, <1>7, <1>8, <1>9, <1>10, <1>11, <1>12, <1>13,
     <1>14
     DEF Next, Jm, DecoderThread, Caller, Disturbance, Terminated

LEMMA InitBufferInv == Init => BufferInv
<1>. SUFFICES ASSUME Init PROVE BufferInv
  OBVIOUS
<1>1. Line = <<>>
  BY DEF Init, Line
<1>2. LineKept
  BY <1>1 DEF LineKept
<1>. QED
  BY <1>1, <1>2 DEF Init, BufferInv, FrameKept, PoolKept

THEOREM BuffersKept == Spec => [](TypeInv /\ BufferInv)
<1>1. Init => TypeInv /\ BufferInv
  BY InitTypeInv, InitBufferInv
<1>2. TypeInv /\ BufferInv /\ [Next]_vars => (TypeInv /\ BufferInv)'
  BY NextTypeInv, NextBufferInv
<1>. QED  BY <1>1, <1>2, PTL DEF Spec

(* Every node is in the line or in the frame.                              *)
LEMMA NodesOfLine ==
  ASSUME TypeOK
  PROVE  \A n \in Nodes : n \in frame \/ \E i \in 1..Len(Line) : n = Line[i]
<1>. USE DEF TypeOK, JmTypeOK, ListTypeOK, Line
<1>1. \A i \in DOMAIN queue : i \in 1..Len(Line) /\ Line[i] = queue[i]
  OBVIOUS
<1>2. \A i \in DOMAIN jmValid :
        Len(queue) + i \in 1..Len(Line) /\ Line[Len(queue) + i] = jmValid[i]
  OBVIOUS
<1>. QED  BY <1>1, <1>2, ZenonT(30) DEF Nodes, InUse

(* JM never overwrites a picture that is waiting for the caller or that    *)
(* the caller still shows: the buffers come back through output_pic_list,  *)
(* once jm_release_frame() is done with them.                              *)
THEOREM PicturesStayIntact == Spec => []NodesIntact
<1>1. TypeInv /\ BufferInv => NodesIntact
  BY NodesOfLine DEF TypeInv, BufferInv, LineKept, FrameKept, Kept, NodesIntact
<1>. QED  BY <1>1, BuffersKept, PTL

(* No buffer has two owners: not two nodes, nor a node and JM's pool.      *)
THEOREM BuffersHaveOneOwner == Spec => []SingleOwner
<1>1. TypeInv /\ BufferInv => SingleOwner
  BY NodesOfLine DEF TypeInv, BufferInv, LineKept, FrameKept, Kept, SingleOwner
<1>. QED  BY <1>1, BuffersKept, PTL

-----------------------------------------------------------------------------
(* Output order                                                            *)

(* decoder_run() has returned.                                             *)
Over == mainPc \in {"finalize", "join", "end"}

(* The line holds the pictures output last; those before it have been      *)
(* delivered, except the one handle_frame() is working on.                 *)
LineOrder == \A i \in 1..Len(Line) : Line[i].pic + Len(Line) = outputs + i

CountInv ==
  ~Over => Len(delivered) + Len(Line) + (IF mainPc = "client" THEN 1 ELSE 0)
             = outputs

ClientInv ==
  mainPc = "client" =>
    \E n \in frame : frame = {n} /\ n.pic = Len(delivered) + 1

OrderInv == DeliveredInOrder /\ LineOrder /\ CountInv /\ ClientInv

LEMMA LongerLine ==
  ASSUME NEW p \in Nat, NEW n \in Nat, NEW o \in Nat, NEW i \in Nat,
         p + n = o + i
  PROVE  p + (n + 1) = (o + 1) + i
  OBVIOUS

LEMMA ShorterLine ==
  ASSUME NEW p \in Nat, NEW n \in Nat, NEW o \in Nat, NEW i \in Nat,
         p + n = o + (i + 1)
  PROVE  p + (n - 1) = o + i
  OBVIOUS

LEMMA CountUp ==
  ASSUME NEW d \in Nat, NEW n \in Nat, NEW s \in Nat, NEW o \in Nat,
         d + n + s = o
  PROVE  d + (n + 1) + s = o + 1
  OBVIOUS

LEMMA OutputOrder ==
  ASSUME TypeOK, OrderInv, NEW b \in Buffers, JmOutput(b)
  PROVE  OrderInv'
<1>1. PICK x \in Node : x.pic = outputs + 1 /\ jmValid' = Append(jmValid, x)
  <2>1. [pic |-> outputs + 1, buf |-> b] \in Node
    BY DEF TypeOK, JmTypeOK, Node
  <2>. QED  BY <2>1 DEF JmOutput
<1>2. /\ UNCHANGED <<queue, frame, delivered, mainPc>>
      /\ outputs' = outputs + 1 /\ outputs \in Nat /\ delivered \in Seq(Nat)
  BY DEF JmOutput, mainVars, listVars, TypeOK, MainTypeOK, JmTypeOK
<1>3. Line' = Append(Line, x)
  <2>1. queue \in Seq(Node) /\ jmValid \in Seq(Node)
    BY DEF TypeOK, JmTypeOK, ListTypeOK
  <2>2. queue' = queue /\ jmValid' = Append(jmValid, x)
    BY <1>1, <1>2
  <2>. QED  BY <2>1, <2>2, ConcatAppend DEF Line
<1>4. /\ Len(Line') = Len(Line) + 1 /\ Len(Line) \in Nat
      /\ \A i \in 1..Len(Line) : Line'[i] = Line[i] /\ Line[i].pic \in Nat
      /\ Line'[Len(Line) + 1] = x
  BY <1>3, LineType DEF Node
<1>5. LineOrder'
  <2>1. ASSUME NEW i \in 1..Len(Line')
        PROVE  Line'[i].pic + Len(Line') = outputs' + i
    <3>1. CASE i = Len(Line) + 1
      BY <1>1, <1>2, <1>4, <3>1
    <3>2. CASE i \in 1..Len(Line)
      <4>1. Line[i].pic + Len(Line) = outputs + i
        BY <3>2 DEF OrderInv, LineOrder
      <4>2. /\ Line[i].pic \in Nat /\ Len(Line) \in Nat
            /\ outputs \in Nat /\ i \in Nat
        BY <1>2, <1>4, <3>2
      <4>3. Line[i].pic + (Len(Line) + 1) = (outputs + 1) + i
        BY <4>1, <4>2, LongerLine
      <4>. QED  BY <1>2, <1>4, <3>2, <4>3
    <3>. QED  BY <1>4, <3>1, <3>2
  <2>. QED  BY <2>1 DEF LineOrder
<1>6. CountInv'
  <2>. DEFINE shown == IF mainPc = "client" THEN 1 ELSE 0
  <2>1. Len(delivered) \in Nat /\ shown \in Nat /\ Len(delivered') = Len(delivered)
    BY <1>2
  <2>2. ~Over' => Len(delivered) + Len(Line) + shown = outputs
    BY <1>2 DEF OrderInv, CountInv, Over
  <2>3. shown' = shown
    BY <1>2
  <2>. HIDE DEF shown
  <2>4. ~Over' => Len(delivered) + (Len(Line) + 1) + shown = outputs + 1
    <3>1. Len(Line) \in Nat /\ outputs \in Nat
      BY <1>2, <1>4
    <3>. QED  BY <2>1, <2>2, <3>1, CountUp
  <2>5. Len(Line') = Len(Line) + 1 /\ outputs' = outputs + 1
    BY <1>2, <1>4
  <2>6. ~Over' => Len(delivered') + Len(Line') + shown' = outputs'
    BY <2>1, <2>3, <2>4, <2>5
  <2>. QED  BY <2>6 DEF CountInv, shown
<1>. QED
  BY <1>2, <1>5, <1>6 DEF OrderInv, DeliveredInOrder, ClientInv

LEMMA PopOrder ==
  ASSUME TypeOK, OrderInv, PopPicture \/ PopUnsupported
  PROVE  OrderInv'
<1>1. /\ queue # <<>> /\ queue' = Tail(queue)
      /\ UNCHANGED <<jmValid, delivered, outputs>>
      /\ outputs \in Nat /\ delivered \in Seq(Nat)
      /\ mainPc = "loop"
  BY DEF PopPicture, PopUnsupported, jmVars, TypeOK, MainTypeOK, JmTypeOK
<1>2. Line' = Tail(Line) /\ Head(Line) = Head(queue) /\ Line # <<>>
  <2>1. queue \in Seq(Node) /\ jmValid \in Seq(Node)
    BY DEF TypeOK, JmTypeOK, ListTypeOK
  <2>2. queue # <<>> /\ queue' = Tail(queue) /\ jmValid' = jmValid
    BY <1>1
  <2>. QED  BY <2>1, <2>2, PopLine
<1>3. /\ Len(Line) \in Nat /\ Len(Line) > 0 /\ Len(Line') = Len(Line) - 1
      /\ \A i \in 1..Len(Line') : i + 1 \in 1..Len(Line) /\ Line'[i] = Line[i + 1]
      /\ Head(queue) = Line[1]
      /\ \A i \in 1..Len(Line) : Line[i].pic \in Nat
  BY <1>2, LineType DEF Node
<1>4. LineOrder'
  <2>1. ASSUME NEW i \in 1..Len(Line')
        PROVE  Line'[i].pic + Len(Line') = outputs' + i
    <3>1. Line[i + 1].pic + Len(Line) = outputs + (i + 1)
      BY <1>3 DEF OrderInv, LineOrder
    <3>2. i + 1 \in 1..Len(Line) /\ Line'[i] = Line[i + 1] /\ i \in Nat
      BY <1>3
    <3>3. /\ Line[i + 1].pic \in Nat /\ Len(Line) \in Nat
          /\ outputs \in Nat
      BY <1>1, <1>3, <3>2
    <3>4. i \in Nat
      BY <3>2
    <3>5. Line[i + 1].pic + (Len(Line) - 1) = outputs + i
      BY <3>1, <3>3, <3>4, ShorterLine
    <3>6. Line'[i].pic = Line[i + 1].pic
      BY <3>2
    <3>7. Len(Line') = Len(Line) - 1 /\ outputs' = outputs
      BY <1>1, <1>3
    <3>. QED  BY <3>5, <3>6, <3>7
  <2>. QED  BY <2>1 DEF LineOrder
<1>5. Len(delivered) + Len(Line) = outputs
  BY <1>1, <1>3 DEF OrderInv, CountInv, Over
<1>6. Line[1].pic = Len(delivered) + 1
  <2>1. 1 \in 1..Len(Line)
    BY <1>3
  <2>2. Line[1].pic + Len(Line) = outputs + 1 /\ Line[1].pic \in Nat
    BY <1>3, <2>1 DEF OrderInv, LineOrder
  <2>3. Len(delivered) \in Nat
    BY <1>1
  <2>. QED  BY <1>1, <1>3, <1>5, <2>2, <2>3
<1>7. CASE PopPicture
  <2>1. mainPc' = "client" /\ frame' = {Line[1]}
    BY <1>3, <1>7 DEF PopPicture
  <2>2. CountInv'
    <3>1. Len(delivered) \in Nat /\ Len(delivered') = Len(delivered)
      BY <1>1
    <3>. QED  BY <1>1, <1>3, <1>5, <2>1, <3>1 DEF CountInv
  <2>3. ClientInv'
    BY <1>1, <1>6, <2>1 DEF ClientInv
  <2>. QED
    BY <1>1, <1>4, <2>2, <2>3 DEF OrderInv, DeliveredInOrder
<1>8. CASE PopUnsupported
  BY <1>1, <1>4, <1>8
     DEF PopUnsupported, ReturnFalse, OrderInv, DeliveredInOrder, CountInv,
         ClientInv, Over
<1>. QED  BY <1>7, <1>8

(* handle_frame() reads the next picture of the stream.                    *)
LEMMA DeliverOrder ==
  ASSUME TypeOK, BufferInv, OrderInv, ClientDone
  PROVE  OrderInv'
<1>1. /\ mainPc = "client" /\ mainPc' = "call"
      /\ UNCHANGED <<queue, jmValid, outputs>>
      /\ delivered \in Seq(Nat) /\ outputs \in Nat
  BY DEF ClientDone, jmVars, listVars, TypeOK, MainTypeOK, JmTypeOK
<1>2. Line' = Line /\ Len(Line) \in Nat
  BY <1>1, LineType DEF Line
<1>3. delivered' = Append(delivered, Len(delivered) + 1)
  BY <1>1 DEF ClientDone, OrderInv, ClientInv, BufferInv, FrameKept, Kept
<1>4. Len(delivered') = Len(delivered) + 1 /\ DeliveredInOrder'
  BY <1>1, <1>3 DEF OrderInv, DeliveredInOrder
<1>5. CountInv'
  <2>1. Len(delivered) \in Nat
    BY <1>1
  <2>2. Len(delivered) + Len(Line) + 1 = outputs
    BY <1>1 DEF OrderInv, CountInv, Over
  <2>. QED  BY <1>1, <1>2, <1>4, <2>1, <2>2 DEF CountInv
<1>. QED
  BY <1>1, <1>2, <1>4, <1>5 DEF OrderInv, LineOrder, ClientInv

(* Any other step leaves the line and what was delivered as they are, and  *)
(* neither enters nor leaves handle_frame() except to end the run.         *)
LEMMA QuietOrder ==
  ASSUME OrderInv, Line' = Line, UNCHANGED <<delivered, outputs>>,
         \/ Over'
         \/ ~Over /\ mainPc # "client" /\ mainPc' # "client"
         \/ UNCHANGED <<mainPc, frame>>
  PROVE  OrderInv'
  BY DEF OrderInv, DeliveredInOrder, LineOrder, CountInv, ClientInv, Over

LEMMA NextOrderInv ==
  ASSUME TypeInv, BufferInv, OrderInv, [Next]_vars
  PROVE  OrderInv'
<1>. USE DEF TypeInv
<1>1. ASSUME NEW b \in Buffers, JmOutput(b) PROVE OrderInv'
  BY <1>1, OutputOrder
<1>2. CASE PopPicture \/ PopUnsupported
  BY <1>2, PopOrder
<1>3. CASE ClientDone
  BY <1>3, DeliverOrder
<1>4. CASE Submit \/ SubmitFails
  BY <1>4, SubmitLine, QuietOrder DEF Submit, SubmitFails, mainVars
<1>5. CASE FlushPush
  <2>1. mainPc = "flush" /\ (Over' \/ mainPc' = "loop")
    BY <1>5 DEF FlushPush, ReturnTrue, Over
  <2>. QED
    BY <1>5, <2>1, FlushLine, QuietOrder DEF FlushPush, Over
<1>6. CASE JmRead \/ JmDecode \/ JmEndOfStream \/ JmReturn
  BY <1>6, QuietOrder DEF JmRead, JmDecode, JmEndOfStream, JmReturn, Line,
     mainVars, jmVars, listVars
<1>7. CASE \/ SetIdle \/ Poll \/ SetError \/ Cancel \/ JmFail \/ PollFails
  BY <1>7, QuietOrder DEF SetIdle, Poll, SetError, LeaveThread, Cancel, JmFail, PollFails,
     Line, mainVars, jmVars, listVars
<1>8. CASE \/ DecodeCall \/ WriteExtradata \/ WritePacket \/ WriteEos
           \/ EosAlreadyWritten
  BY <1>8, QuietOrder DEF DecodeCall, WriteExtradata, WritePacket, WriteEos,
     EosAlreadyWritten, Line, Over, jmVars, listVars
<1>9. CASE NoPicture \/ WaitData \/ WaitEos
  BY <1>9, QuietOrder DEF NoPicture, WaitData, WaitEos, Line, Over, jmVars,
     listVars
<1>10. CASE \/ ErrorAtEos \/ WakeEos(TRUE) \/ WakeEos(FALSE) \/ WakeData
  <2>1. mainPc \in {"loop", "eoswait", "timedwait"} /\ mainPc' # "client"
    BY <1>10 DEF ErrorAtEos, WakeEos, WakeData, FlushOrFail, ReturnFalse
  <2>2. Line' = Line /\ UNCHANGED <<delivered, outputs>>
    BY <1>10 DEF ErrorAtEos, WakeEos, WakeData, Line, jmVars, listVars
  <2>. QED  BY <2>1, <2>2, QuietOrder DEF Over
<1>11. CASE ReadFails \/ WriteFails \/ FlushFails \/ ClientFails
  BY <1>11, QuietOrder DEF ReadFails, WriteFails, FlushFails, ClientFails,
     ReturnFalse, Line, Over, jmVars, listVars
<1>12. CASE RequestCancel \/ Finalize
  BY <1>12, QuietOrder DEF RequestCancel, Finalize, Line, Over, jmVars,
     listVars
<1>13. CASE UNCHANGED vars
  BY <1>13, QuietOrder DEF vars, mainVars, jmVars, listVars, Line
<1>. QED
  BY <1>1, <1>2, <1>3, <1>4, <1>5, <1>6, <1>7, <1>8, <1>9, <1>10, <1>11,
     <1>12, <1>13
     DEF Next, Jm, DecoderThread, Caller, Disturbance, Terminated

(* The pictures that handle_frame() reads are those of the stream, in      *)
(* output order, none skipped and none repeated, even in a run that fails. *)
THEOREM PicturesInOrder == Spec => []DeliveredInOrder
<1>1. Init => OrderInv
  <2>. SUFFICES ASSUME Init PROVE OrderInv
    OBVIOUS
  <2>1. Line = <<>> /\ delivered = <<>> /\ outputs = 0 /\ mainPc = "call"
    BY DEF Init, Line
  <2>. QED
    BY <2>1 DEF OrderInv, DeliveredInOrder, LineOrder, CountInv, ClientInv,
       Over
<1>2. TypeInv /\ BufferInv /\ OrderInv /\ [Next]_vars => OrderInv'
  BY NextOrderInv
<1>3. OrderInv => DeliveredInOrder
  BY DEF OrderInv
<1>. QED  BY <1>1, <1>2, <1>3, BuffersKept, PTL DEF Spec

-----------------------------------------------------------------------------
(* No picture is lost                                                      *)

PicsUpTo(n) == {i \in 1..n : Stream[i] = "pic"}

PipePics == {i \in DOMAIN pipe : pipe[i] = "pic"}

(* A picture that was written is in the FIFO, in JM, or output.            *)
FlowInv == Cardinality(PicsUpTo(sent))
             = Cardinality(PipePics) + (jmIn + dpb + outputs)

(* The caller closes the FIFO after the last packet.                       *)
CloseInv ==
  /\ atEos => sent = Len(Stream)
  /\ ~pipeOpen /\ ~Over => atEos
  /\ mainPc = "timedwait" => ~atEos

(* DEC_EOS means that JM has decoded all there was and all there will be.  *)
Drained == sent = Len(Stream) /\ pipe = <<>> /\ ~pipeOpen /\ jmIn = 0

EofInv ==
  ~Over /\ (ret \in {"EOS", "EOF"} \/ errorValue = "EOF") => Drained

(* The DPB is only flushed after that ...                                  *)
FlushInv == mainPc = "flush" => "ERROR" \in state /\ errorValue = "EOF"

(* ... and once JM has output what it held back, the caller either has a   *)
(* picture to count or has emptied the queue: it never waits again.        *)
HeldInv ==
  HoldsBack /\ ~Over /\ outputs > 0 /\ dpb = 0 =>
    /\ "ERROR" \in state
    /\ mainPc # "eoswait"
    /\ mainPc = "flush" => jmValid # <<>> \/ queue = <<>>

(* The result is known when decoder_run() returns.                         *)
VerdictInv ==
  /\ result = "running" <=> ~Over
  /\ HoldsBack => NothingLost

(* Without an error, the decoder thread ends with DEC_EOS only.            *)
CleanInv ==
  ~JmErrors /\ ~CallErrors =>
    /\ decPc = "error" => ret = "EOF"
    /\ "ERROR" \in state => errorValue = "EOF"
    /\ CleanRunSucceeds

LossInv ==
  FlowInv /\ CloseInv /\ EofInv /\ FlushInv /\ HeldInv /\ VerdictInv /\ CleanInv

LEMMA StreamPics ==
  /\ \A n \in 0..Len(Stream) :
       IsFiniteSet(PicsUpTo(n)) /\ Cardinality(PicsUpTo(n)) <= NumPics
  /\ Cardinality(PicsUpTo(Len(Stream))) = NumPics
  /\ NumPics \in Nat
  /\ Cardinality(PicsUpTo(0)) = 0
<1>1. Len(Stream) \in Nat /\ DOMAIN Stream = 1..Len(Stream)
  BY JMDecoderAssumption
<1>2. IsFiniteSet(1..Len(Stream))
  BY <1>1, FS_Interval
<1>3. IsFiniteSet(PicsUpTo(Len(Stream)))
  BY <1>2, FS_Subset DEF PicsUpTo
<1>4. Cardinality(PicsUpTo(Len(Stream))) = NumPics
  BY <1>1 DEF PicsUpTo, NumPics
<1>5. ASSUME NEW n \in 0..Len(Stream)
      PROVE  IsFiniteSet(PicsUpTo(n)) /\ Cardinality(PicsUpTo(n)) <= NumPics
  <2>1. PicsUpTo(n) \in SUBSET PicsUpTo(Len(Stream))
    BY <1>1 DEF PicsUpTo
  <2>. QED  BY <1>3, <1>4, <2>1, FS_Subset
<1>6. PicsUpTo(0) = {}
  BY DEF PicsUpTo
<1>. QED
  BY <1>3, <1>4, <1>5, <1>6, FS_EmptySet, FS_CardinalityType

LEMMA NextPic ==
  ASSUME NEW n \in Nat, n < Len(Stream)
  PROVE  Cardinality(PicsUpTo(n + 1))
           = Cardinality(PicsUpTo(n)) + (IF Stream[n + 1] = "pic" THEN 1 ELSE 0)
<1>1. IsFiniteSet(PicsUpTo(n)) /\ n + 1 \notin PicsUpTo(n)
  BY StreamPics, JMDecoderAssumption DEF PicsUpTo
<1>2. Cardinality(PicsUpTo(n)) \in Nat
  BY <1>1, FS_CardinalityType
<1>3. CASE Stream[n + 1] = "pic"
  <2>1. PicsUpTo(n + 1) = PicsUpTo(n) \cup {n + 1}
    BY <1>3 DEF PicsUpTo
  <2>2. Cardinality(PicsUpTo(n) \cup {n + 1}) = Cardinality(PicsUpTo(n)) + 1
    BY <1>1, FS_AddElement
  <2>. QED  BY <1>3, <2>1, <2>2
<1>4. CASE Stream[n + 1] # "pic"
  <2>1. PicsUpTo(n + 1) = PicsUpTo(n)
    BY <1>4 DEF PicsUpTo
  <2>. QED  BY <1>2, <1>4, <2>1
<1>. QED  BY <1>3, <1>4

LEMMA PipePicsFinite ==
  ASSUME PipeTypeOK
  PROVE  /\ IsFiniteSet(PipePics) /\ Cardinality(PipePics) \in Nat
         /\ PipePics \subseteq 1..Len(pipe) /\ Len(pipe) \in Nat
<1>1. PipePics \subseteq 1..Len(pipe) /\ Len(pipe) \in Nat
  BY DEF PipeTypeOK, PipePics
<1>2. IsFiniteSet(1..Len(pipe))
  BY <1>1, FS_Interval
<1>3. PipePics \in SUBSET (1..Len(pipe))
  BY <1>1
<1>4. IsFiniteSet(PipePics)
  BY <1>2, <1>3, FS_Subset
<1>. QED  BY <1>1, <1>4, FS_CardinalityType

(* A unit is written to the FIFO ...                                       *)
LEMMA WriteUnit ==
  ASSUME PipeTypeOK, NEW u \in {"headers", "pic", "other", "eos"},
         pipe' = Append(pipe, u)
  PROVE  Cardinality(PipePics')
           = Cardinality(PipePics) + (IF u = "pic" THEN 1 ELSE 0)
<1>1. Len(pipe) + 1 \notin PipePics
  BY PipePicsFinite
<1>2. /\ DOMAIN pipe' = 1..(Len(pipe) + 1) /\ DOMAIN pipe = 1..Len(pipe)
      /\ \A i \in 1..Len(pipe) : pipe'[i] = pipe[i]
      /\ pipe'[Len(pipe) + 1] = u
  BY DEF PipeTypeOK
<1>3. CASE u = "pic"
  <2>1. PipePics' = PipePics \cup {Len(pipe) + 1}
    BY <1>2, <1>3, PipePicsFinite DEF PipePics
  <2>2. Cardinality(PipePics \cup {Len(pipe) + 1}) = Cardinality(PipePics) + 1
    BY <1>1, PipePicsFinite, FS_AddElement
  <2>. QED  BY <1>3, <2>1, <2>2
<1>4. CASE u # "pic"
  <2>1. PipePics' = PipePics
    BY <1>2, <1>4, PipePicsFinite DEF PipePics
  <2>. QED  BY <1>4, <2>1, PipePicsFinite
<1>. QED  BY <1>3, <1>4

(* ... and read.                                                           *)
LEMMA ReadUnit ==
  ASSUME PipeTypeOK, pipe # <<>>, pipe' = Tail(pipe)
  PROVE  /\ Cardinality(PipePics)
              = Cardinality(PipePics') + (IF Head(pipe) = "pic" THEN 1 ELSE 0)
         /\ Cardinality(PipePics') \in Nat
<1>1. /\ DOMAIN pipe = 1..Len(pipe) /\ Len(pipe) \in Nat \ {0}
      /\ DOMAIN pipe' = 1..(Len(pipe) - 1)
      /\ \A i \in 1..(Len(pipe) - 1) : pipe'[i] = pipe[i + 1]
      /\ Head(pipe) = pipe[1]
  BY DEF PipeTypeOK
<1>. DEFINE S == PipePics'
            T == PipePics \ {1}
            f == [i \in S |-> i + 1]
<1>3. S \subseteq 1..(Len(pipe) - 1) /\ IsFiniteSet(S)
  <2>1. S \subseteq 1..(Len(pipe) - 1)
    BY <1>1 DEF PipePics
  <2>2. IsFiniteSet(1..(Len(pipe) - 1))
    BY <1>1, FS_Interval
  <2>3. S \in SUBSET (1..(Len(pipe) - 1))
    BY <2>1
  <2>. HIDE DEF S
  <2>. QED  BY <2>1, <2>2, <2>3, FS_Subset
<1>4. \A i \in S : i + 1 \in T
  BY <1>1, <1>3 DEF PipePics
<1>5. \A j \in T : j - 1 \in S
  BY <1>1 DEF PipePics
<1>6. ExistsBijection(S, T)
  <2>1. f \in [S -> T]
    BY <1>4
  <2>2. \A i, j \in S : f[i] = f[j] => i = j
    BY <1>3
  <2>3. \A j \in T : j \in Nat
    BY <1>1 DEF PipePics
  <2>4. \A j \in T : f[j - 1] = j
    BY <1>5, <2>3
  <2>5. f \in Bijection(S, T)
    BY <1>5, <2>1, <2>2, <2>4, Fun_IsBij
  <2>. QED  BY <2>5 DEF ExistsBijection
<1>7. Cardinality(T) = Cardinality(S) /\ Cardinality(S) \in Nat
  BY <1>3, <1>6, FS_Bijection, FS_CardinalityType
<1>8. Cardinality(T)
        = IF 1 \in PipePics THEN Cardinality(PipePics) - 1
                            ELSE Cardinality(PipePics)
  BY PipePicsFinite, FS_RemoveElement
<1>9. 1 \in PipePics <=> Head(pipe) = "pic"
  BY <1>1 DEF PipePics
<1>. QED  BY <1>7, <1>8, <1>9, PipePicsFinite

(* The steps that move a picture or end the input; the others leave the    *)
(* variables of these invariants alone.                                    *)
Moves ==
  \/ JmRead \/ JmDecode \/ WriteExtradata \/ WritePacket \/ WriteEos
  \/ \E b \in Buffers : JmOutput(b)

LEMMA StandingStill ==
  ASSUME [Next]_vars, ~Moves
  PROVE  UNCHANGED <<sent, pipe, jmIn, dpb, outputs>>
<1>1. CASE JmEndOfStream \/ JmReturn \/ JmFail \/ PollFails \/ SubmitFails
  BY <1>1 DEF JmEndOfStream, JmReturn, JmFail, PollFails, SubmitFails,
     mainVars, pipeVars, jmVars
<1>2. CASE DecoderThread
  BY <1>2 DEF DecoderThread, SetIdle, Poll, Submit, SetError, LeaveThread, Cancel,
     mainVars, pipeVars, jmVars
<1>3. CASE DecodeCall \/ EosAlreadyWritten \/ PopPicture \/ PopUnsupported
  BY <1>3 DEF DecodeCall, EosAlreadyWritten, PopPicture, PopUnsupported,
     pipeVars, jmVars
<1>4. CASE \/ WaitEos \/ ErrorAtEos \/ WakeEos(TRUE) \/ WakeEos(FALSE)
           \/ NoPicture \/ WaitData \/ WakeData
  BY <1>4 DEF WaitEos, ErrorAtEos, WakeEos, NoPicture, WaitData, WakeData,
     pipeVars, jmVars
<1>5. CASE FlushPush \/ ClientDone \/ RequestCancel \/ Finalize
  BY <1>5 DEF FlushPush, ClientDone, RequestCancel, Finalize, pipeVars, jmVars
<1>6. CASE ReadFails \/ WriteFails \/ FlushFails \/ ClientFails
  BY <1>6 DEF ReadFails, WriteFails, FlushFails, ClientFails, pipeVars, jmVars
<1>7. CASE UNCHANGED vars
  BY <1>7 DEF vars, mainVars, pipeVars, jmVars
<1>. QED
  BY <1>1, <1>2, <1>3, <1>4, <1>5, <1>6, <1>7
     DEF Next, Jm, Caller, Disturbance, Terminated, Moves

LEMMA NextFlow ==
  ASSUME TypeInv, FlowInv, [Next]_vars
  PROVE  FlowInv'
<1>. USE DEF TypeInv, TypeOK
<1>1. /\ jmIn \in Nat /\ dpb \in Nat /\ outputs \in Nat
      /\ sent \in 0..Len(Stream) /\ Len(Stream) \in Nat
      /\ Cardinality(PipePics) \in Nat /\ Cardinality(PicsUpTo(sent)) \in Nat
  BY PipePicsFinite, StreamPics, FS_CardinalityType, JMDecoderAssumption
     DEF JmTypeOK, MainTypeOK
<1>2. CASE JmRead
  <2>1. pipe # <<>> /\ pipe' = Tail(pipe)
    BY <1>2 DEF JmRead
  <2>2. UNCHANGED <<sent, dpb, outputs>>
    BY <1>2 DEF JmRead, mainVars
  <2>3. CASE Head(pipe) = "pic"
    <3>1. jmIn' = jmIn + 1
      BY <1>2, <2>3 DEF JmRead
    <3>2. /\ Cardinality(PipePics) = Cardinality(PipePics') + 1
          /\ Cardinality(PipePics') \in Nat
      BY <2>1, <2>3, ReadUnit
    <3>. QED  BY <1>1, <2>2, <3>1, <3>2 DEF FlowInv
  <2>4. CASE Head(pipe) # "pic"
    <3>1. jmIn' = jmIn
      BY <1>2, <2>4 DEF JmRead
    <3>2. /\ Cardinality(PipePics) = Cardinality(PipePics') + 0
          /\ Cardinality(PipePics') \in Nat
      BY <2>1, <2>4, ReadUnit
    <3>. QED  BY <1>1, <2>2, <3>1, <3>2 DEF FlowInv
  <2>. QED  BY <2>3, <2>4
<1>3. CASE JmDecode
  <2>1. /\ jmIn > 0 /\ jmIn' = jmIn - 1 /\ dpb' = dpb + 1
        /\ UNCHANGED <<sent, pipe, outputs>>
    BY <1>3 DEF JmDecode, mainVars, pipeVars
  <2>2. PipePics' = PipePics
    BY <2>1 DEF PipePics
  <2>3. jmIn' + dpb' + outputs' = jmIn + dpb + outputs
    BY <1>1, <2>1
  <2>. QED  BY <2>1, <2>2, <2>3 DEF FlowInv
<1>4. ASSUME NEW b \in Buffers, JmOutput(b) PROVE FlowInv'
  <2>1. /\ dpb > 0 /\ dpb' = dpb - 1 /\ outputs' = outputs + 1
        /\ UNCHANGED <<sent, pipe, jmIn>>
    BY <1>4 DEF JmOutput, mainVars, pipeVars
  <2>2. PipePics' = PipePics
    BY <2>1 DEF PipePics
  <2>3. jmIn' + dpb' + outputs' = jmIn + dpb + outputs
    BY <1>1, <2>1
  <2>. QED  BY <2>1, <2>2, <2>3 DEF FlowInv
<1>5. CASE WriteExtradata \/ WriteEos
  <2>1. /\ pipe' = Append(pipe, "headers") \/ pipe' = Append(pipe, "eos")
        /\ UNCHANGED <<sent, jmIn, dpb, outputs>>
    BY <1>5 DEF WriteExtradata, WriteEos, jmVars
  <2>2. Cardinality(PipePics') = Cardinality(PipePics) + 0
    BY <2>1, WriteUnit
  <2>. QED  BY <1>1, <2>1, <2>2 DEF FlowInv
<1>6. CASE WritePacket
  <2>1. /\ sent < Len(Stream) /\ sent' = sent + 1
        /\ pipe' = Append(pipe, Stream[sent + 1])
        /\ UNCHANGED <<jmIn, dpb, outputs>>
    BY <1>6 DEF WritePacket, jmVars
  <2>. DEFINE one == IF Stream[sent + 1] = "pic" THEN 1 ELSE 0
  <2>2. Stream[sent + 1] \in {"headers", "pic", "other", "eos"}
    BY <1>1, <2>1, JMDecoderAssumption
  <2>3. Cardinality(PipePics') = Cardinality(PipePics) + one
    BY <2>1, <2>2, WriteUnit
  <2>4. Cardinality(PicsUpTo(sent + 1)) = Cardinality(PicsUpTo(sent)) + one
    BY <1>1, <2>1, NextPic
  <2>5. one \in Nat
    OBVIOUS
  <2>. HIDE DEF one
  <2>. QED  BY <1>1, <2>1, <2>3, <2>4, <2>5 DEF FlowInv
<1>7. CASE ~Moves
  <2>1. UNCHANGED <<sent, pipe, jmIn, dpb, outputs>>
    BY <1>7, StandingStill
  <2>. QED  BY <2>1 DEF FlowInv, PipePics
<1>. QED  BY <1>2, <1>3, <1>4, <1>5, <1>6, <1>7 DEF Moves

LEMMA NextClose ==
  ASSUME TypeInv, CloseInv, [Next]_vars
  PROVE  CloseInv'
<1>. USE DEF CloseInv, Over
<1>1. CASE Jm
  <2>1. UNCHANGED <<mainVars, pipeOpen>>
    BY <1>1 DEF Jm, JmRead, JmDecode, JmEndOfStream, JmReturn, JmOutput,
       pipeVars
  <2>. QED  BY <2>1 DEF mainVars
<1>2. CASE DecoderThread \/ JmFail \/ PollFails \/ SubmitFails
  BY <1>2 DEF DecoderThread, SetIdle, Poll, Submit, SetError, LeaveThread, Cancel, JmFail,
     PollFails, SubmitFails, mainVars, pipeVars
<1>3. CASE DecodeCall
  BY <1>3 DEF DecodeCall, pipeVars
<1>4. CASE WriteExtradata \/ WriteEos \/ EosAlreadyWritten
  BY <1>4 DEF WriteExtradata, WriteEos, EosAlreadyWritten, pipeVars
<1>5. CASE WritePacket
  BY <1>5 DEF WritePacket
<1>6. CASE \/ PopPicture \/ PopUnsupported \/ WaitEos \/ NoPicture \/ WaitData
           \/ ClientDone
  BY <1>6 DEF PopPicture, PopUnsupported, WaitEos, NoPicture, WaitData,
     ClientDone, ReturnFalse, pipeVars
<1>7. CASE \/ ErrorAtEos \/ WakeEos(TRUE) \/ WakeEos(FALSE) \/ WakeData
           \/ FlushPush
  BY <1>7 DEF ErrorAtEos, WakeEos, WakeData, FlushPush, FlushOrFail,
     ReturnTrue, ReturnFalse, pipeVars
<1>8. CASE RequestCancel \/ Finalize
  BY <1>8 DEF RequestCancel, Finalize, pipeVars
<1>9. CASE ReadFails \/ WriteFails \/ FlushFails \/ ClientFails
  BY <1>9 DEF ReadFails, WriteFails, FlushFails, ClientFails, ReturnFalse,
     pipeVars
<1>10. CASE UNCHANGED vars
  BY <1>10 DEF vars, mainVars, pipeVars
<1>. QED
  BY <1>1, <1>2, <1>3, <1>4, <1>5, <1>6, <1>7, <1>8, <1>9, <1>10
     DEF Next, Caller, Disturbance, Terminated

(* What the other thread does not touch.                                   *)
LEMMA CallerFrame ==
  ASSUME \/ Caller \/ ReadFails \/ WriteFails \/ PopUnsupported
         \/ FlushFails \/ ClientFails \/ WakeEos(FALSE)
  PROVE  /\ UNCHANGED <<decPc, errorValue, ret, jmIn, dpb, outputs>>
         /\ state' = state \/ mainPc' = "end"
<1>1. CASE \/ DecodeCall \/ WriteExtradata \/ WritePacket \/ WriteEos
           \/ EosAlreadyWritten \/ PopPicture \/ PopUnsupported \/ WaitEos
  BY <1>1 DEF DecodeCall, WriteExtradata, WritePacket, WriteEos,
     EosAlreadyWritten, PopPicture, PopUnsupported, WaitEos, decVars, jmVars
<1>2. CASE \/ ErrorAtEos \/ WakeEos(TRUE) \/ WakeEos(FALSE) \/ NoPicture
           \/ WaitData \/ WakeData \/ FlushPush \/ ClientDone
  BY <1>2 DEF ErrorAtEos, WakeEos, NoPicture, WaitData, WakeData, FlushPush,
     ClientDone, decVars, jmVars
<1>3. CASE \/ RequestCancel \/ Finalize \/ ReadFails \/ WriteFails
           \/ FlushFails \/ ClientFails
  BY <1>3 DEF RequestCancel, Finalize, ReadFails, WriteFails, FlushFails,
     ClientFails, decVars, jmVars
<1>. QED  BY <1>1, <1>2, <1>3 DEF Caller

LEMMA DecoderFrame ==
  ASSUME Jm \/ DecoderThread \/ JmFail \/ PollFails \/ SubmitFails
  PROVE  UNCHANGED <<mainPc, result, atEos, sent, delivered, pipeOpen>>
<1>1. CASE Jm
  BY <1>1 DEF Jm, JmRead, JmDecode, JmEndOfStream, JmReturn, JmOutput,
     mainVars, pipeVars
<1>2. CASE ~Jm
  BY <1>2 DEF DecoderThread, SetIdle, Poll, Submit, SetError, LeaveThread, Cancel, JmFail,
     PollFails, SubmitFails, mainVars, pipeVars
<1>. QED  BY <1>1, <1>2

LEMMA NextEof ==
  ASSUME TypeInv, CloseInv, EofInv, [Next]_vars
  PROVE  EofInv'
<1>1. CASE Jm
  <2>1. UNCHANGED <<mainPc, atEos, sent, pipeOpen, errorValue>>
    BY <1>1, DecoderFrame DEF Jm, JmRead, JmDecode, JmEndOfStream, JmReturn,
       JmOutput, decVars
  <2>2. EndOfInput /\ ~Over => sent = Len(Stream) /\ pipe = <<>> /\ ~pipeOpen
    BY DEF EndOfInput, CloseInv
  <2>3. CASE JmRead
    BY <2>1, <2>3 DEF JmRead, EofInv, Drained, Over, decVars
  <2>4. CASE JmDecode
    <3>1. /\ jmIn > 0 /\ jmIn' = jmIn - 1 /\ pipe' = pipe
          /\ ret' = "EOS" => jmIn = 1 /\ EndOfInput
          /\ ret' \in {"SUCCEED", "EOS"} /\ jmIn \in Nat
      BY <2>4 DEF JmDecode, pipeVars, TypeInv, TypeOK, JmTypeOK
    <3>2. ret' = "EOS" /\ ~Over => Drained'
      BY <2>1, <2>2, <3>1 DEF Drained
    <3>3. errorValue = "EOF" => Over
      BY <3>1 DEF EofInv, Drained
    <3>. QED  BY <2>1, <3>1, <3>2, <3>3 DEF EofInv, Over
  <2>5. CASE JmEndOfStream
    BY <2>1, <2>2, <2>5 DEF JmEndOfStream, EofInv, Drained, Over, pipeVars,
       jmVars
  <2>6. CASE JmReturn \/ \E b \in Buffers : JmOutput(b)
    <3>1. UNCHANGED <<pipe, jmIn, ret>>
      BY <2>6 DEF JmReturn, JmOutput, pipeVars, jmVars, decVars
    <3>. QED  BY <2>1, <3>1 DEF EofInv, Drained, Over
  <2>. QED  BY <1>1, <2>3, <2>4, <2>5, <2>6 DEF Jm
<1>2. CASE DecoderThread \/ JmFail \/ PollFails \/ SubmitFails
  <2>1. UNCHANGED <<mainPc, sent, pipe, pipeOpen, jmIn>>
    BY <1>2, DecoderFrame DEF DecoderThread, SetIdle, Poll, Submit, SetError, LeaveThread,
       Cancel, JmFail, PollFails, SubmitFails, pipeVars, jmVars
  <2>2. ret' \in {"EOS", "EOF"} => ret \in {"EOS", "EOF"}
    BY <1>2 DEF DecoderThread, SetIdle, Poll, Submit, SetError, LeaveThread,
       Cancel, JmFail, PollFails, SubmitFails
  <2>3. errorValue' = "EOF" => errorValue = "EOF" \/ ret = "EOF"
    BY <1>2 DEF DecoderThread, SetIdle, Poll, Submit, SetError, LeaveThread,
       Cancel, JmFail, PollFails, SubmitFails
  <2>. QED  BY <2>1, <2>2, <2>3 DEF EofInv, Drained, Over
<1>3. CASE WriteExtradata \/ WritePacket \/ WriteEos
  <2>1. ~Over /\ ~Drained
    BY <1>3 DEF WriteExtradata, WritePacket, WriteEos, CloseInv, Drained, Over
  <2>2. UNCHANGED <<ret, errorValue>>
    BY <1>3 DEF WriteExtradata, WritePacket, WriteEos, decVars
  <2>. QED  BY <2>1, <2>2 DEF EofInv
<1>4. CASE \/ DecodeCall \/ EosAlreadyWritten \/ PopPicture \/ PopUnsupported
           \/ WaitEos \/ ErrorAtEos \/ WakeEos(TRUE) \/ WakeEos(FALSE)
           \/ NoPicture \/ WaitData \/ WakeData \/ FlushPush \/ ClientDone
  <2>1. UNCHANGED <<sent, pipe, pipeOpen, ret, errorValue, jmIn>> /\ ~Over
    <3>1. CASE DecodeCall \/ EosAlreadyWritten \/ PopPicture \/ PopUnsupported
      BY <3>1 DEF DecodeCall, EosAlreadyWritten, PopPicture, PopUnsupported,
         pipeVars, decVars, jmVars, Over
    <3>2. CASE WaitEos \/ ErrorAtEos \/ WakeEos(TRUE) \/ WakeEos(FALSE)
      BY <3>2 DEF WaitEos, ErrorAtEos, WakeEos, pipeVars, decVars, jmVars, Over
    <3>3. CASE NoPicture \/ WaitData \/ WakeData \/ FlushPush \/ ClientDone
      BY <3>3 DEF NoPicture, WaitData, WakeData, FlushPush, ClientDone,
         pipeVars, decVars, jmVars, Over
    <3>. QED  BY <1>4, <3>1, <3>2, <3>3
  <2>. QED  BY <2>1 DEF EofInv, Drained
<1>5. CASE \/ ReadFails \/ WriteFails \/ FlushFails \/ ClientFails
           \/ RequestCancel \/ Finalize
  BY <1>5 DEF ReadFails, WriteFails, FlushFails, ClientFails, RequestCancel,
     Finalize, ReturnFalse, EofInv, Over
<1>6. CASE UNCHANGED vars
  BY <1>6 DEF vars, mainVars, pipeVars, decVars, jmVars, EofInv, Drained, Over
<1>. QED
  BY <1>1, <1>2, <1>3, <1>4, <1>5, <1>6
     DEF Next, Caller, Disturbance, Terminated

LEMMA NextFlush ==
  ASSUME TypeInv, ThreadInv, FlushInv, [Next]_vars
  PROVE  FlushInv'
<1>1. CASE \/ Caller \/ ReadFails \/ WriteFails \/ PopUnsupported
           \/ FlushFails \/ ClientFails \/ WakeEos(FALSE)
  <2>1. UNCHANGED errorValue /\ (state' = state \/ mainPc' = "end")
    BY <1>1, CallerFrame
  <2>2. mainPc' = "flush" => "ERROR" \in state /\ errorValue = "EOF"
    <3>1. CASE ErrorAtEos \/ WakeEos(TRUE) \/ WakeEos(FALSE)
      BY <3>1 DEF ErrorAtEos, WakeEos, FlushOrFail, ReturnFalse
    <3>2. CASE ~(ErrorAtEos \/ WakeEos(TRUE) \/ WakeEos(FALSE))
      <4>1. mainPc' # "flush"
        BY <1>1, <3>2 DEF Caller, DecodeCall, WriteExtradata, WritePacket,
           WriteEos, EosAlreadyWritten, PopPicture, PopUnsupported, WaitEos,
           NoPicture, WaitData, WakeData, FlushPush, ClientDone,
           RequestCancel, Finalize, ReadFails, WriteFails, FlushFails,
           ClientFails, ReturnTrue, ReturnFalse
      <4>. QED  BY <4>1
    <3>. QED  BY <3>1, <3>2
  <2>. QED  BY <2>1, <2>2 DEF FlushInv
<1>2. CASE Jm \/ DecoderThread \/ JmFail \/ PollFails \/ SubmitFails
  <2>1. mainPc' = mainPc
    BY <1>2, DecoderFrame
  <2>2. mainPc = "flush" => decPc = "exited"
    BY DEF ThreadInv, JmExclusive
  <2>3. decPc = "exited" => UNCHANGED <<state, errorValue>>
    BY <1>2 DEF Jm, JmRead, JmDecode, JmEndOfStream, JmReturn, JmOutput,
       DecoderThread, SetIdle, Poll, Submit, SetError, LeaveThread, Cancel, JmFail,
       PollFails, SubmitFails, decVars
  <2>. QED  BY <2>1, <2>2, <2>3 DEF FlushInv
<1>3. CASE UNCHANGED vars
  BY <1>3 DEF vars, mainVars, decVars, FlushInv
<1>. QED  BY <1>1, <1>2, <1>3 DEF Next, Disturbance, Terminated

LEMMA NextHeld ==
  ASSUME TypeInv, ThreadInv, FlushInv, HeldInv, [Next]_vars
  PROVE  HeldInv'
<1>. SUFFICES ASSUME HoldsBack, ~Over', outputs' > 0, dpb' = 0
              PROVE  /\ "ERROR" \in state'
                     /\ mainPc' # "eoswait"
                     /\ mainPc' = "flush" => jmValid' # <<>> \/ queue' = <<>>
  BY DEF HeldInv
<1>0. /\ jmIn \in Nat /\ dpb \in Nat /\ outputs \in Nat
      /\ jmValid \in Seq(Node) /\ queue \in Seq(Node)
  BY DEF TypeInv, TypeOK, JmTypeOK, ListTypeOK
<1>1. CASE Jm
  <2>1. UNCHANGED <<mainPc, queue, state>>
    BY <1>1, DecoderFrame DEF Jm, JmRead, JmDecode, JmEndOfStream, JmReturn,
       JmOutput, decVars, listVars
  <2>2. CASE \E b \in Buffers : JmOutput(b)
    <3>1. dpb' = dpb - 1 /\ (mainPc # "flush" => dpb > 1) /\ jmValid' # <<>>
      BY <1>0, <2>2 DEF JmOutput
    <3>2. mainPc = "flush"
      BY <1>0, <3>1
    <3>. QED  BY <2>1, <3>1, <3>2 DEF FlushInv
  <2>3. CASE JmRead \/ JmEndOfStream \/ JmReturn
    <3>1. UNCHANGED <<dpb, outputs, jmValid>>
      BY <2>3 DEF JmRead, JmEndOfStream, JmReturn, jmVars
    <3>. QED  BY <2>1, <3>1 DEF HeldInv, Over
  <2>4. CASE JmDecode
    BY <1>0, <2>4 DEF JmDecode
  <2>. QED  BY <1>1, <2>2, <2>3, <2>4 DEF Jm
<1>2. CASE DecoderThread \/ JmFail \/ PollFails \/ SubmitFails
  <2>1. UNCHANGED <<mainPc, dpb, outputs>>
    BY <1>2, DecoderFrame DEF DecoderThread, SetIdle, Poll, Submit, SetError, LeaveThread,
       Cancel, JmFail, PollFails, SubmitFails, jmVars
  <2>2. "ERROR" \in state
    BY <2>1 DEF HeldInv, Over
  <2>3. decPc = "exited"
    BY <2>2 DEF ThreadInv, ErrorIsLast
  <2>. QED
    BY <1>2, <2>3 DEF DecoderThread, SetIdle, Poll, Submit, SetError, LeaveThread, Cancel,
       JmFail, PollFails, SubmitFails
<1>3. CASE \/ Caller \/ ReadFails \/ WriteFails \/ PopUnsupported
           \/ FlushFails \/ ClientFails \/ WakeEos(FALSE)
  <2>1. UNCHANGED <<dpb, outputs, state>>
    BY <1>3, CallerFrame DEF Over
  <2>2. CASE ~Over
    <3>1. /\ "ERROR" \in state /\ mainPc # "eoswait"
          /\ mainPc = "flush" => jmValid # <<>> \/ queue = <<>>
      BY <2>1, <2>2 DEF HeldInv
    <3>2. mainPc' # "eoswait"
      BY <1>3, <3>1 DEF Caller, DecodeCall, WriteExtradata, WritePacket,
         WriteEos, EosAlreadyWritten, PopPicture, PopUnsupported, WaitEos,
         ErrorAtEos, WakeEos, NoPicture, WaitData, WakeData, FlushPush,
         ClientDone, RequestCancel, Finalize, ReadFails, WriteFails,
         FlushFails, ClientFails, FlushOrFail, ReturnTrue, ReturnFalse
    <3>3. CASE ErrorAtEos
      BY <2>1, <3>1, <3>2, <3>3 DEF ErrorAtEos, listVars
    <3>4. CASE ~ErrorAtEos
      <4>1. mainPc' # "flush"
        BY <1>3, <3>1, <3>4 DEF Caller, DecodeCall, WriteExtradata,
           WritePacket, WriteEos, EosAlreadyWritten, PopPicture,
           PopUnsupported, WaitEos, WakeEos, NoPicture, WaitData, WakeData,
           FlushPush, ClientDone, RequestCancel, Finalize, ReadFails,
           WriteFails, FlushFails, ClientFails, FlushOrFail, ReturnTrue,
           ReturnFalse
      <4>. QED  BY <2>1, <3>1, <3>2, <4>1
    <3>. QED  BY <3>3, <3>4
  <2>3. CASE Over
    BY <1>3, <2>3 DEF Over, Caller, DecodeCall, WriteExtradata, WritePacket,
       WriteEos, EosAlreadyWritten, PopPicture, PopUnsupported, WaitEos,
       ErrorAtEos, WakeEos, NoPicture, WaitData, WakeData, FlushPush,
       ClientDone, RequestCancel, Finalize, ReadFails, WriteFails, FlushFails,
       ClientFails
  <2>. QED  BY <2>2, <2>3
<1>4. CASE UNCHANGED vars
  BY <1>4 DEF vars, mainVars, decVars, jmVars, listVars, HeldInv, Over
<1>. QED  BY <1>1, <1>2, <1>3, <1>4 DEF Next, Disturbance, Terminated

(* Everything was output and handed over when the flush finds nothing.     *)
LEMMA AllDelivered ==
  ASSUME TypeInv, OrderInv, FlowInv, EofInv, FlushInv, HeldInv, HoldsBack,
         mainPc = "flush", dpb = 0, jmValid = <<>>
  PROVE  Len(delivered) = NumPics
<1>1. /\ outputs \in Nat /\ delivered \in Seq(Nat) /\ queue \in Seq(Node)
      /\ Len(delivered) \in Nat /\ Len(queue) \in Nat
  BY DEF TypeInv, TypeOK, JmTypeOK, MainTypeOK, ListTypeOK
<1>2. Drained
  BY DEF FlushInv, EofInv, Over
<1>3. outputs = NumPics
  <2>1. PipePics = {}
    BY <1>2 DEF Drained, PipePics
  <2>2. Cardinality(PipePics) = 0
    BY <2>1, FS_EmptySet
  <2>. QED  BY <1>1, <1>2, <2>2, StreamPics DEF FlowInv, Drained
<1>4. Line = queue
  BY <1>1, ConcatEmpty DEF Line
<1>5. Len(delivered) + Len(queue) = outputs
  BY <1>1, <1>4 DEF OrderInv, CountInv, Over
<1>6. outputs > 0 => queue = <<>>
  BY DEF HeldInv, Over
<1>. QED  BY <1>1, <1>3, <1>5, <1>6

LEMMA NextVerdict ==
  ASSUME TypeInv, OrderInv, FlowInv, EofInv, FlushInv, HeldInv, VerdictInv,
         [Next]_vars
  PROVE  VerdictInv'
<1>1. CASE FlushPush
  <2>1. /\ mainPc = "flush" /\ dpb = 0 /\ delivered' = delivered
        /\ result = "running"
    BY <1>1 DEF FlushPush, VerdictInv, Over
  <2>2. CASE jmValid # <<>>
    BY <1>1, <2>1, <2>2 DEF FlushPush, VerdictInv, NothingLost, Over
  <2>3. CASE jmValid = <<>>
    BY <1>1, <2>1, <2>3, AllDelivered
       DEF FlushPush, ReturnTrue, VerdictInv, NothingLost, Over
  <2>. QED  BY <2>2, <2>3
<1>2. CASE \/ DecodeCall \/ WriteExtradata \/ WritePacket \/ WriteEos
           \/ EosAlreadyWritten \/ PopPicture \/ WaitEos \/ NoPicture
           \/ WaitData \/ ClientDone
  <2>1. ~Over /\ ~Over' /\ result' = result
    BY <1>2 DEF DecodeCall, WriteExtradata, WritePacket, WriteEos,
       EosAlreadyWritten, PopPicture, WaitEos, NoPicture, WaitData,
       ClientDone, Over
  <2>. QED  BY <2>1 DEF VerdictInv, NothingLost
<1>3. CASE \/ ErrorAtEos \/ WakeEos(TRUE) \/ WakeEos(FALSE) \/ WakeData
           \/ PopUnsupported \/ ReadFails \/ WriteFails \/ FlushFails
           \/ ClientFails
  <2>1. /\ ~Over
        /\ \/ Over' /\ result' = "failure"
           \/ ~Over' /\ result' = result
    BY <1>3 DEF ErrorAtEos, WakeEos, WakeData, PopUnsupported, ReadFails,
       WriteFails, FlushFails, ClientFails, FlushOrFail, ReturnFalse, Over,
       MainTypeOK, TypeInv, TypeOK
  <2>. QED  BY <2>1 DEF VerdictInv, NothingLost
<1>4. CASE RequestCancel \/ Finalize
  BY <1>4 DEF RequestCancel, Finalize, VerdictInv, NothingLost, Over
<1>5. CASE \/ Jm \/ DecoderThread \/ JmFail \/ PollFails \/ SubmitFails
           \/ UNCHANGED vars
  <2>1. UNCHANGED <<mainPc, result, delivered>>
    BY <1>5, DecoderFrame DEF vars, mainVars
  <2>. QED  BY <2>1 DEF VerdictInv, NothingLost, Over
<1>. QED
  BY <1>1, <1>2, <1>3, <1>4, <1>5 DEF Next, Caller, Disturbance, Terminated

LEMMA NextClean ==
  ASSUME TypeInv, ThreadInv, CloseInv, EofInv, CleanInv, [Next]_vars
  PROVE  CleanInv'
<1>. SUFFICES ASSUME ~JmErrors, ~CallErrors
              PROVE  /\ decPc' = "error" => ret' = "EOF"
                     /\ "ERROR" \in state' => errorValue' = "EOF"
                     /\ result' # "failure"
  BY DEF CleanInv, CleanRunSucceeds
<1>0. /\ decPc = "error" => ret = "EOF"
      /\ "ERROR" \in state => errorValue = "EOF"
      /\ result # "failure"
  BY DEF CleanInv, CleanRunSucceeds
<1>1. CASE Jm \/ DecoderThread
  <2>1. result' = result
    BY <1>1, DecoderFrame
  <2>2. CASE Jm
    BY <1>0, <2>1, <2>2 DEF Jm, JmRead, JmDecode, JmEndOfStream, JmReturn,
       JmOutput, decVars
  <2>3. CASE SetError
    BY <1>0, <2>1, <2>3 DEF SetError, LeaveThread
  <2>4. CASE SetIdle \/ Poll \/ Submit \/ Cancel
    BY <1>0, <2>1, <2>4 DEF SetIdle, Poll, Submit, Cancel
  <2>. QED  BY <1>1, <2>2, <2>3, <2>4 DEF DecoderThread
<1>2. CASE Caller \/ WakeEos(FALSE)
  <2>1. /\ UNCHANGED <<decPc, errorValue, ret>>
        /\ state' = state \/ (mainPc' = "end" /\ Finalize)
    <3>1. mainPc' = "end" => Finalize
      BY <1>2 DEF Caller, DecodeCall, WriteExtradata, WritePacket, WriteEos,
         EosAlreadyWritten, PopPicture, WaitEos, ErrorAtEos, WakeEos,
         NoPicture, WaitData, WakeData, FlushPush, ClientDone, RequestCancel,
         FlushOrFail, ReturnTrue, ReturnFalse
    <3>. QED  BY <1>2, <3>1, CallerFrame
  <2>2. result' # "failure"
    <3>1. CASE ErrorAtEos \/ WakeEos(TRUE) \/ WakeEos(FALSE)
      BY <1>0, <3>1 DEF ErrorAtEos, WakeEos, FlushOrFail
    <3>2. CASE WakeData
      <4>1. mainPc = "timedwait" /\ ~Over /\ ~atEos
        BY <3>2 DEF WakeData, CloseInv, Over
      <4>2. ~Drained
        BY <4>1 DEF CloseInv, Drained
      <4>3. "ERROR" \notin state
        BY <1>0, <4>1, <4>2 DEF EofInv
      <4>. QED  BY <1>0, <3>2, <4>3 DEF WakeData
    <3>3. CASE ~(ErrorAtEos \/ WakeEos(TRUE) \/ WakeEos(FALSE) \/ WakeData)
      BY <1>0, <1>2, <3>3 DEF Caller, DecodeCall, WriteExtradata, WritePacket,
         WriteEos, EosAlreadyWritten, PopPicture, WaitEos, NoPicture, WaitData,
         FlushPush, ClientDone, RequestCancel, Finalize, ReturnTrue
    <3>. QED  BY <3>1, <3>2, <3>3
  <2>. QED  BY <1>0, <2>1, <2>2 DEF Finalize
<1>3. CASE UNCHANGED vars
  BY <1>0, <1>3 DEF vars, mainVars, decVars
<1>. QED
  BY <1>1, <1>2, <1>3 DEF Next, Disturbance, Terminated, JmFail, PollFails,
     SubmitFails, ReadFails, WriteFails, PopUnsupported, FlushFails,
     ClientFails

AllInv == TypeInv /\ ThreadInv /\ BufferInv /\ OrderInv /\ LossInv

LEMMA NextAllInv == AllInv /\ [Next]_vars => AllInv'
<1>. SUFFICES ASSUME AllInv, [Next]_vars PROVE AllInv'
  OBVIOUS
<1>. USE DEF AllInv, LossInv
<1>1. TypeInv' /\ ThreadInv' /\ BufferInv' /\ OrderInv'
  BY NextTypeInv, NextThreadInv, NextBufferInv, NextOrderInv
<1>2. FlowInv' /\ CloseInv' /\ EofInv' /\ FlushInv'
  BY NextFlow, NextClose, NextEof, NextFlush
<1>3. HeldInv' /\ VerdictInv' /\ CleanInv'
  BY NextHeld, NextVerdict, NextClean
<1>. QED  BY <1>1, <1>2, <1>3

LEMMA InitAllInv == Init => AllInv
<1>. SUFFICES ASSUME Init PROVE AllInv
  OBVIOUS
<1>1. TypeInv /\ BufferInv
  BY InitTypeInv, InitBufferInv
<1>2. ThreadInv
  BY DEF Init, ThreadInv, ErrorIsLast, JmExclusive
<1>3. OrderInv
  <2>1. Line = <<>> /\ delivered = <<>> /\ outputs = 0 /\ mainPc = "call"
    BY DEF Init, Line
  <2>. QED
    BY <2>1 DEF OrderInv, DeliveredInOrder, LineOrder, CountInv, ClientInv,
       Over
<1>4. FlowInv
  <2>1. PipePics = {}
    BY DEF Init, PipePics
  <2>2. Cardinality(PipePics) = 0
    BY <2>1, FS_EmptySet
  <2>. QED  BY <2>2, StreamPics DEF Init, FlowInv
<1>5. CloseInv /\ EofInv /\ FlushInv /\ HeldInv
  BY DEF Init, CloseInv, EofInv, FlushInv, HeldInv
<1>6. VerdictInv /\ CleanInv
  BY DEF Init, VerdictInv, CleanInv, NothingLost, CleanRunSucceeds, Over
<1>. QED  BY <1>1, <1>2, <1>3, <1>4, <1>5, <1>6 DEF AllInv, LossInv

LEMMA AlwaysAllInv == Spec => []AllInv
  BY InitAllInv, NextAllInv, PTL DEF Spec

(* With a JM that holds a picture back until it is flushed, decoder_run()  *)
(* succeeds only when every picture of the stream was delivered, for any   *)
(* stream, FIFO and pool of buffers, whatever fails on the way.            *)
THEOREM NothingIsLost ==
  ASSUME HoldsBack
  PROVE  Spec => []NothingLost
<1>1. AllInv => NothingLost
  BY DEF AllInv, LossInv, VerdictInv
<1>. QED  BY <1>1, AlwaysAllInv, PTL

(* However the threads interleave, only an error makes a run fail: the     *)
(* decoder thread's DEC_EOS is never taken for one.                        *)
THEOREM CleanRunsSucceed == Spec => []CleanRunSucceeds
<1>1. AllInv => CleanRunSucceeds
  BY DEF AllInv, LossInv, CleanInv, CleanRunSucceeds
<1>. QED  BY <1>1, AlwaysAllInv, PTL

-----------------------------------------------------------------------------
(* The promise                                                             *)

(* handle_frame() is given a picture the stream has.                       *)
LEMMA NoPictureInvented ==
  ASSUME AllInv
  PROVE  mainPc = "client" => Len(delivered) < NumPics
<1>. USE DEF AllInv, LossInv
<1>1. /\ outputs \in Nat /\ jmIn \in Nat /\ dpb \in Nat
      /\ delivered \in Seq(Nat) /\ Len(delivered) \in Nat
      /\ Len(Line) \in Nat /\ sent \in 0..Len(Stream)
      /\ Cardinality(PipePics) \in Nat
  BY LineType, PipePicsFinite
     DEF TypeInv, TypeOK, JmTypeOK, MainTypeOK
<1>2. /\ Cardinality(PicsUpTo(sent)) <= NumPics /\ NumPics \in Nat
      /\ Cardinality(PicsUpTo(sent)) \in Nat
  BY <1>1, StreamPics, FS_CardinalityType
<1>3. outputs <= NumPics
  BY <1>1, <1>2 DEF FlowInv
<1>4. mainPc = "client" => Len(delivered) + Len(Line) + 1 = outputs
  BY DEF OrderInv, CountInv, Over
<1>. QED  BY <1>1, <1>2, <1>3, <1>4

(* The two threads, the FIFO and the two lists of pictures together keep   *)
(* the promise of the abstract stream, step by step: the next picture, in  *)
(* order, or the verdict, or nothing that the caller can see.              *)
THEOREM DecoderKeepsItsPromise ==
  ASSUME HoldsBack
  PROVE  Spec => ImplementsPictureStream
<1>. USE DEF Promise!StreamInit, Promise!StreamNext, Promise!Show,
             Promise!Succeed, Promise!Fail, Promise!streamVars
<1>1. Init => Promise!StreamInit
  BY DEF Init
<1>2. ASSUME AllInv, AllInv', [Next]_vars
      PROVE  [Promise!StreamNext]_(Promise!streamVars)
  <2>1. CASE ClientDone
    <3>1. mainPc = "client" /\ result = "running" /\ result' = result
      BY <1>2, <2>1 DEF ClientDone, AllInv, LossInv, VerdictInv, Over
    <3>2. Len(delivered) < NumPics
      BY <1>2, <3>1, NoPictureInvented
    <3>3. delivered' = Append(delivered, Len(delivered) + 1)
      BY <1>2, <2>1, <3>1 DEF ClientDone, AllInv, OrderInv, ClientInv,
         BufferInv, FrameKept, Kept
    <3>. QED  BY <3>1, <3>2, <3>3
  <2>2. CASE ~ClientDone
    <3>1. delivered' = delivered
      <4>1. CASE \/ Jm \/ DecoderThread \/ JmFail \/ PollFails \/ SubmitFails
                 \/ UNCHANGED vars
        BY <4>1, DecoderFrame DEF vars, mainVars
      <4>2. CASE \/ Caller \/ ReadFails \/ WriteFails \/ PopUnsupported
                 \/ FlushFails \/ ClientFails \/ WakeEos(FALSE)
        BY <2>2, <4>2 DEF Caller, DecodeCall, WriteExtradata, WritePacket,
           WriteEos, EosAlreadyWritten, PopPicture, PopUnsupported, WaitEos,
           ErrorAtEos, WakeEos, NoPicture, WaitData, WakeData, FlushPush,
           RequestCancel, Finalize, ReadFails, WriteFails, FlushFails,
           ClientFails
      <4>. QED  BY <1>2, <4>1, <4>2 DEF Next, Disturbance, Terminated
    <3>2. result' \in Results
      BY <1>2 DEF AllInv, TypeInv, TypeOK, MainTypeOK
    <3>3. result' # result => result = "running"
      <4>1. CASE \/ Jm \/ DecoderThread \/ JmFail \/ PollFails \/ SubmitFails
                 \/ UNCHANGED vars
        BY <4>1, DecoderFrame DEF vars, mainVars
      <4>2. CASE \/ Caller \/ ReadFails \/ WriteFails \/ PopUnsupported
                 \/ FlushFails \/ ClientFails \/ WakeEos(FALSE)
        <5>1. result' = result \/ ~Over
          BY <4>2 DEF Caller, DecodeCall, WriteExtradata, WritePacket,
             WriteEos, EosAlreadyWritten, PopPicture, PopUnsupported, WaitEos,
             ErrorAtEos, WakeEos, NoPicture, WaitData, WakeData, FlushPush,
             ClientDone, RequestCancel, Finalize, ReadFails, WriteFails,
             FlushFails, ClientFails, Over
        <5>. QED  BY <1>2, <5>1 DEF AllInv, LossInv, VerdictInv
      <4>. QED  BY <1>2, <4>1, <4>2 DEF Next, Disturbance, Terminated
    <3>4. result' = "success" => Len(delivered) = NumPics
      BY <1>2, <3>1 DEF AllInv, LossInv, VerdictInv, NothingLost
    <3>5. result' = "running" => result = "running"
      BY <3>3
    <3>. QED  BY <3>1, <3>2, <3>3, <3>4, <3>5 DEF Results
  <2>. QED  BY <2>1, <2>2
<1>. QED
  BY <1>1, <1>2, AlwaysAllInv, PTL
     DEF Spec, ImplementsPictureStream, Promise!StreamSpec
=============================================================================
