-------------------------- MODULE JMStartup_proofs --------------------------
(* Safety of the start and the end of the H.264 reference decoder, for any *)
(* capacity of the FIFO, with or without failures and overlapping updates. *)
EXTENDS JMStartup, TLAPS

(* Up to the first packet.                                                 *)
Starting ==
  mainPc \in {"probe", "create", "load", "store", "test", "wait", "finish"}
  \/ (mainPc = "run" /\ ~fed)

(* Before a thread is created; what exists meanwhile.                      *)
CreationInv ==
  /\ mainPc = "probe" => pipe = "stdin" /\ mainT = "parser"
  /\ mainPc \in {"probe", "create"} => threadPc[mainT] = "none"
  /\ mainPc \in {"probe", "create", "load", "store"} /\ mainT = "parser" =>
       threadPc["decoder"] = "none"
  /\ mainPc \in {"create", "load", "store", "test", "wait", "finish", "run"} =>
       \A t \in Threads : valid[t]

(* Without overlap a living thread is marked ACTIVE from the moment it can *)
(* be joined, in its state and in what it is about to store there.         *)
ActiveInv ==
  ~overlap =>
    \A t \in Threads :
      /\ Alive(t) =>
           valid[t] /\ ("ACTIVE" \in state[t] \/ ~MayUpdate(t))
      /\ HoldsLock(t) => "ACTIVE" \in threadReg[t] /\ MayUpdate(t)

(* jm_finalize() is past the parser thread.                                *)
ParserGone ==
  \/ mainPc \in {"close", "end"}
  \/ mainPc \in {"finalize", "join"} /\ mainT = "decoder"

(* The FIFO's descriptor is the one in decoder->pipe, and nobody opens it  *)
(* any more once the parser thread is joined.                              *)
DescriptorInv ==
  /\ pipe = "fifo" <=> "fifo" \in fds
  /\ ~overlap /\ ParserGone => ~Alive("parser")
  /\ ~overlap /\ mainPc = "end" => "fifo" \notin fds

(* JM's end is open after OpenDecoder() only as long as jm_decoder is set; *)
(* past the decoder thread nobody sets it any more.                        *)
JmEndInv ==
  /\ "jm" \in fds /\ opened => jmDecoder
  /\ threadPc["decoder"] \in {"none", "input", "open", "read"} => ~opened
  /\ ~overlap /\ mainPc \in {"close", "end"} => ~Alive("decoder")
  /\ ~overlap /\ mainPc = "end" => ~jmDecoder

(* The flags that jm_init() or the thread may find or store as INIT.       *)
SaysInit(t) ==
  \/ "INIT" \in state[t]
  \/ mainPc = "store" /\ mainT = t /\ "INIT" \in mainReg

ParserInv ==
  /\ SaysInit("parser") => threadPc["parser"] = "exited"
  /\ threadPc["parser"] # "setready" /\ threadPc["parser"] # "exited" =>
       "INIT" \notin state["parser"]
  /\ threadPc["parser"] = "seterror" => "INIT" \notin threadReg["parser"]
  /\ Starting /\ ( \/ SaysInit("parser")
                   \/ threadPc["parser"] \in {"extradata", "ready",
                                              "setready"} )
       => pipe = "fifo" /\ "fifo" \in fds
  /\ Starting /\ ( \/ mainPc \in {"test", "wait"} /\ mainT = "decoder"
                   \/ mainPc \in {"finish", "run"} )
       => "INIT" \in state["parser"]

DecoderInv ==
  Starting /\ ( \/ SaysInit("decoder")
                \/ HoldsLock("decoder") /\ "INIT" \in threadReg["decoder"]
                \/ threadPc["decoder"] \in {"video", "ready", "setready"}
                \/ mainPc \in {"finish", "run"} )
    => jmDecoder

(* jm_finalize() is called a second time only before the end.              *)
CallsInv == mainPc # "end" => calls \in {0, 1}

TailsInv ==
  /\ mainPc = "run" => tailsSet
  /\ fed => tailsSet
  /\ pushed => tailsSet

IInv == TypeOK /\ CallsInv /\ CreationInv /\ ActiveInv /\ DescriptorInv
        /\ JmEndInv /\ ParserInv /\ DecoderInv /\ TailsInv

-----------------------------------------------------------------------------
(* A locked update of the flags keeps the types.                           *)
LEMMA LoadTypes ==
  ASSUME NEW t \in Threads, NEW from, NEW to \in ThreadPcs,
         NEW flags \in SUBSET Flags, TypeOK, LoadFlags(t, from, to, flags)
  PROVE  TypeOK'
BY DEF TypeOK, LoadFlags, OnlyThread, mainVars, mainData, fifoVars, otherVars

LEMMA StoreTypes ==
  ASSUME NEW t \in Threads, NEW from, NEW to \in ThreadPcs, TypeOK,
         StoreFlags(t, from, to)
  PROVE  TypeOK'
<1>1. state' \in [Threads -> SUBSET Flags]
  BY DEF TypeOK, StoreFlags
<1>2. QED
  BY <1>1
     DEF TypeOK, StoreFlags, OnlyThread, mainVars, mainData, fifoVars,
         otherVars

(* Every step keeps the types.                                             *)
LEMMA TypeStep ==
  ASSUME TypeOK, CallsInv, [Next]_vars
  PROVE  TypeOK'
<1> USE JMStartupAssumption DEF TypeOK, CallsInv, Flags, MainPcs, StorePcs,
    ThreadPcs, Threads, mainVars, mainData, threadVars, flagVars, fifoVars,
    otherVars, sharedVars
<1>1. CASE SetUp \/ CreateThread \/ LoadState \/ StoreState
  <2>1. CASE SetUp
    BY <2>1 DEF SetUp
  <2>2. CASE CreateThread
    BY <2>2 DEF CreateThread, FirstPc
  <2>3. CASE LoadState
    BY <2>3 DEF LoadState
  <2>4. CASE StoreState
    BY <2>4 DEF StoreState, MarkActive
  <2>5. QED
    BY <1>1, <2>1, <2>2, <2>3, <2>4
<1>2. CASE TestState \/ Finish \/ TimeOut
  <2>1. CASE TestState
    BY <2>1 DEF TestState, InitFails, StartFinalize
  <2>2. CASE Finish
    BY <2>2 DEF Finish, SetTails
  <2>3. CASE TimeOut
    BY <2>3 DEF TimeOut, InitFails, StartFinalize
  <2>4. QED
    BY <1>2, <2>1, <2>2, <2>3
<1>3. CASE WritePackets \/ WriteEos \/ RunReturns
  <2>1. CASE WritePackets
    BY <2>1 DEF WritePackets
  <2>2. CASE WriteEos
    BY <2>2 DEF WriteEos
  <2>3. CASE RunReturns
    BY <2>3 DEF RunReturns, StartFinalize
  <2>4. QED
    BY <1>3, <2>1, <2>2, <2>3
<1>4. CASE FinalizeThread
  <2>1. cancelled' \in SUBSET Threads
    <3>1. cancelled' = cancelled \cup {mainT} \/ cancelled' = cancelled
      BY <1>4 DEF FinalizeThread, RequestCancel
    <3>2. QED
      BY <3>1
  <2>2. /\ state' \in [Threads -> SUBSET Flags]
        /\ valid' \in [Threads -> BOOLEAN]
        /\ mainPc' \in MainPcs /\ mainT' \in Threads
    <3>1. CASE "ACTIVE" \in state[mainT]
      BY <1>4, <3>1 DEF FinalizeThread
    <3>2. CASE "ACTIVE" \notin state[mainT]
      <4>1. ClearContext
        BY <1>4, <3>2 DEF FinalizeThread
      <4>2. state' \in [Threads -> SUBSET Flags]
        BY <4>1 DEF ClearContext
      <4>3. valid' \in [Threads -> BOOLEAN]
        BY <4>1 DEF ClearContext
      <4>4. mainPc' \in MainPcs /\ mainT' \in Threads
        BY <4>1 DEF ClearContext
      <4>5. QED
        BY <4>2, <4>3, <4>4
    <3>3. QED
      BY <3>1, <3>2
  <2>3. UNCHANGED <<mainData, threadPc, threadReg, fifoVars, otherVars>>
    BY <1>4 DEF FinalizeThread
  <2>4. QED
    BY <2>1, <2>2, <2>3
<1>5. CASE Join
  BY <1>5 DEF Join, ClearContext
<1>6. CASE CloseAll
  <2>1. calls \in {0, 1} /\ calls' = calls + 1
    BY <1>6 DEF CloseAll
  <2>2. calls' \in 0..2
    BY <2>1
  <2>3. /\ fds' \in SUBSET {"stdin", "fifo", "jm"}
        /\ mainPc' \in MainPcs /\ mainT' \in Threads
    BY <1>6 DEF CloseAll, StartFinalize, CloseEnds, JmEnd
  <2>4. /\ jmDecoder' = FALSE /\ pipe' = "closed"
        /\ UNCHANGED <<mainReg, result, tailsSet, fed, threadVars, met, data,
                       opened, pushed, overlap>>
    BY <1>6 DEF CloseAll
  <2>5. QED
    BY <2>2, <2>3, <2>4
<1>7. ASSUME NEW t \in Threads, SetInit(t) \/ SetError(t)
      PROVE  TypeOK'
  <2>1. \A f \in Flags : state[t] \cup {f} \in SUBSET Flags
    OBVIOUS
  <2>2. QED
    BY <1>7, <2>1, LoadTypes, StoreTypes DEF SetInit, SetError
<1>8. CASE SetIdle \/ ClearIdle
  <2>1. /\ state["decoder"] \cup {"IDLE"} \in SUBSET Flags
        /\ state["decoder"] \ {"IDLE"} \in SUBSET Flags
    OBVIOUS
  <2>2. QED
    BY <1>8, <2>1, LoadTypes, StoreTypes DEF SetIdle, ClearIdle
<1>9. CASE ParserWrite
  <2>1. data' \in 0..FifoCapacity
    BY <1>9 DEF ParserWrite
  <2>2. threadPc' \in [Threads -> ThreadPcs]
    BY <1>9 DEF ParserWrite, Goto
  <2>3. UNCHANGED <<mainVars, flagVars, met, pipe, fds, otherVars>>
    BY <1>9 DEF ParserWrite, Goto
  <2>4. QED
    BY <2>1, <2>2, <2>3
<1>10. CASE Decode
  <2>1. data' \in 0..FifoCapacity
    BY <1>10 DEF Decode
  <2>2. threadPc' \in [Threads -> ThreadPcs] /\ pushed' \in BOOLEAN
    BY <1>10 DEF Decode, Goto
  <2>3. UNCHANGED <<mainVars, flagVars, met, pipe, fds, jmDecoder, opened, overlap>>
    BY <1>10 DEF Decode, Goto
  <2>4. QED
    BY <2>1, <2>2, <2>3
<1>11. CASE ParserOpen \/ ParserWriteFails
  <2>1. CASE ParserOpen
    BY <2>1 DEF ParserOpen, Goto
  <2>2. CASE ParserWriteFails
    BY <2>2 DEF ParserWriteFails, Goto
  <2>3. QED
    BY <1>11, <2>1, <2>2
<1>12. CASE InputParams \/ DecoderOpen \/ VideoParams \/ DecodeEos
  <2>1. CASE InputParams
    BY <2>1 DEF InputParams, Goto
  <2>2. CASE DecoderOpen
    BY <2>2 DEF DecoderOpen, Goto
  <2>3. CASE VideoParams
    BY <2>3 DEF VideoParams, Goto
  <2>4. CASE DecodeEos
    <3>1. pushed' \in BOOLEAN
      BY <2>4 DEF DecodeEos
    <3>2. threadPc' \in [Threads -> ThreadPcs]
      BY <2>4 DEF DecodeEos, Goto
    <3>3. UNCHANGED <<mainVars, flagVars, overlap, fifoVars, jmDecoder, opened>>
      BY <2>4 DEF DecodeEos, Goto
    <3>. QED  BY <3>1, <3>2, <3>3
  <2>5. QED
    BY <1>12, <2>1, <2>2, <2>3, <2>4
<1>13. CASE DecoderRead
  BY <1>13 DEF DecoderRead, Goto
<1>14. CASE CancelThread
  BY <1>14 DEF CancelThread, Cancel, Goto
<1>15. CASE Disturbance
  <2>1. CASE ProbeFails
    BY <2>1 DEF ProbeFails, StartFinalize
  <2>2. CASE SetUpFails
    BY <2>2 DEF SetUpFails, InitFails, StartFinalize
  <2>3. CASE CreateFails
    BY <2>3 DEF CreateFails, InitFails, StartFinalize
  <2>4. CASE Wake
    BY <2>4 DEF Wake
  <2>5. CASE ParserOpenFails
    BY <2>5 DEF ParserOpenFails, Goto
  <2>6. CASE DecoderInitFails
    BY <2>6 DEF DecoderInitFails, Goto
  <2>7. CASE DecodeFails
    BY <2>7 DEF DecodeFails, Goto
  <2>8. QED
    BY <1>15, <2>1, <2>2, <2>3, <2>4, <2>5, <2>6, <2>7
       DEF Disturbance
<1>16. CASE UNCHANGED vars
  BY <1>16 DEF vars
<1>17. QED
  BY <1>1, <1>2, <1>3, <1>4, <1>5, <1>6, <1>7, <1>8, <1>9, <1>10, <1>11, <1>12,
     <1>13, <1>14, <1>15, <1>16 DEF Next, Main, Parser, Decoder, Terminated

(* jm_finalize() completes at most twice.                                  *)
LEMMA CallsStep ==
  ASSUME TypeOK, CallsInv, [Next]_vars
  PROVE  CallsInv'
<1> USE DEF TypeOK, CallsInv, Threads, mainVars, mainData, threadVars,
    flagVars, fifoVars, otherVars, sharedVars
<1>1. CASE SetUp \/ CreateThread \/ LoadState \/ StoreState
  BY <1>1 DEF SetUp, CreateThread, FirstPc, LoadState, StoreState, MarkActive
<1>2. CASE TestState \/ Finish \/ TimeOut
  BY <1>2 DEF TestState, InitFails, StartFinalize, Ready, Finish, SetTails,
     TimeOut
<1>3. CASE WritePackets \/ WriteEos \/ RunReturns
  BY <1>3 DEF WritePackets, WriteEos, RunReturns, StartFinalize
<1>4. CASE FinalizeThread
  BY <1>4 DEF FinalizeThread, RequestCancel, ClearContext
<1>5. CASE Join
  BY <1>5 DEF Join, ClearContext
<1>6. CASE CloseAll
  BY <1>6 DEF CloseAll, CloseEnds, JmEnd, CalledAgain, StartFinalize
<1>7. CASE Parser
  BY <1>7 DEF Parser, SetInit, SetError, LoadFlags, StoreFlags, OnlyThread,
     ParserOpen, ParserWrite, ParserWriteFails, Goto, Opening, BothOpening
<1>8. CASE Decoder
  BY <1>8 DEF Decoder, SetInit, SetError, SetIdle, ClearIdle, LoadFlags,
     StoreFlags, OnlyThread, InputParams, DecoderOpen, DecoderRead,
     VideoParams, Decode, DecodeEos, Goto, Opening, BothOpening
<1>9. CASE CancelThread
  BY <1>9 DEF CancelThread, Cancel, CancellationPoint, Goto
<1>10. CASE Disturbance
  BY <1>10 DEF Disturbance, ProbeFails, SetUpFails, CreateFails, InitFails,
     StartFinalize, Wake, ParserOpenFails, DecoderInitFails, DecodeFails, Goto,
     Opening
<1>11. CASE UNCHANGED vars
  BY <1>11 DEF vars
<1>12. QED
  BY <1>1, <1>2, <1>3, <1>4, <1>5, <1>6, <1>7, <1>8, <1>9, <1>10, <1>11 DEF
     Next, Main, Terminated

(* The threads are created one after the other, once their contexts exist. *)
LEMMA CreationStep ==
  ASSUME TypeOK, CreationInv, [Next]_vars
  PROVE  CreationInv'
<1> USE DEF TypeOK, CreationInv, Threads, mainVars, mainData, threadVars,
    flagVars, fifoVars, otherVars, sharedVars
<1>1. CASE SetUp \/ CreateThread \/ LoadState \/ StoreState
  BY <1>1 DEF SetUp, CreateThread, FirstPc, LoadState, StoreState, MarkActive
<1>2. CASE TestState \/ Finish \/ TimeOut
  BY <1>2 DEF TestState, InitFails, StartFinalize, Ready, Finish, SetTails,
     TimeOut
<1>3. CASE WritePackets \/ WriteEos \/ RunReturns
  BY <1>3 DEF WritePackets, WriteEos, RunReturns, StartFinalize
<1>4. CASE FinalizeThread
  BY <1>4 DEF FinalizeThread, RequestCancel, ClearContext
<1>5. CASE Join
  BY <1>5 DEF Join, ClearContext
<1>6. CASE CloseAll
  BY <1>6 DEF CloseAll, CloseEnds, JmEnd, CalledAgain, StartFinalize
<1>7. CASE Parser
  BY <1>7 DEF Parser, SetInit, SetError, LoadFlags, StoreFlags, OnlyThread,
     ParserOpen, ParserWrite, ParserWriteFails, Goto, Opening, BothOpening
<1>8. CASE Decoder
  BY <1>8 DEF Decoder, SetInit, SetError, SetIdle, ClearIdle, LoadFlags,
     StoreFlags, OnlyThread, InputParams, DecoderOpen, DecoderRead,
     VideoParams, Decode, DecodeEos, Goto, Opening, BothOpening
<1>9. CASE CancelThread
  BY <1>9 DEF CancelThread, Cancel, CancellationPoint, Goto
<1>10. CASE Disturbance
  BY <1>10 DEF Disturbance, ProbeFails, SetUpFails, CreateFails, InitFails,
     StartFinalize, Wake, ParserOpenFails, DecoderInitFails, DecodeFails, Goto,
     Opening
<1>11. CASE UNCHANGED vars
  BY <1>11 DEF vars
<1>12. QED
  BY <1>1, <1>2, <1>3, <1>4, <1>5, <1>6, <1>7, <1>8, <1>9, <1>10, <1>11 DEF
     Next, Main, Terminated

(* A thread alive stays marked ACTIVE.                                     *)
LEMMA ActiveStep ==
  ASSUME TypeOK, CreationInv, ActiveInv, [Next]_vars
  PROVE  ActiveInv'
<1> USE DEF TypeOK, CreationInv, ActiveInv, Alive, HoldsLock, StorePcs,
    MayUpdate, Threads, mainVars, mainData, threadVars, flagVars, fifoVars,
    otherVars, sharedVars
<1>1. CASE SetUp \/ CreateThread \/ LoadState \/ StoreState
  BY <1>1 DEF SetUp, CreateThread, FirstPc, LoadState, StoreState, MarkActive
<1>2. CASE TestState \/ Finish \/ TimeOut
  BY <1>2 DEF TestState, InitFails, StartFinalize, Ready, Finish, SetTails,
     TimeOut
<1>3. CASE WritePackets \/ WriteEos \/ RunReturns
  BY <1>3 DEF WritePackets, WriteEos, RunReturns, StartFinalize
<1>4. CASE FinalizeThread
  BY <1>4 DEF FinalizeThread, RequestCancel, ClearContext
<1>5. CASE Join
  BY <1>5 DEF Join, ClearContext
<1>6. CASE CloseAll
  BY <1>6 DEF CloseAll, CloseEnds, JmEnd, CalledAgain, StartFinalize
<1>7. CASE Parser
  BY <1>7 DEF Parser, SetInit, SetError, LoadFlags, StoreFlags, OnlyThread,
     ParserOpen, ParserWrite, ParserWriteFails, Goto, Opening, BothOpening
<1>8. CASE Decoder
  <2>1. CASE SetInit("decoder") \/ SetError("decoder") \/ SetIdle \/ ClearIdle
    BY <2>1 DEF SetInit, SetError, SetIdle, ClearIdle, LoadFlags, StoreFlags,
       OnlyThread
  <2>2. CASE InputParams \/ VideoParams
    BY <2>2 DEF InputParams, VideoParams, Goto
  <2>3. CASE DecoderOpen \/ DecoderRead
    BY <2>3 DEF DecoderOpen, DecoderRead, Goto, Opening
  <2>4. CASE Decode \/ DecodeEos
    BY <2>4, ZenonT(30) DEF Decode, DecodeEos, Goto
  <2>5. QED
    BY <1>8, <2>1, <2>2, <2>3, <2>4 DEF Decoder
<1>9. CASE CancelThread
  BY <1>9 DEF CancelThread, Cancel, CancellationPoint, Goto
<1>10. CASE Disturbance
  BY <1>10 DEF Disturbance, ProbeFails, SetUpFails, CreateFails, InitFails,
     StartFinalize, Wake, ParserOpenFails, DecoderInitFails, DecodeFails, Goto,
     Opening
<1>11. CASE UNCHANGED vars
  BY <1>11 DEF vars
<1>12. QED
  BY <1>1, <1>2, <1>3, <1>4, <1>5, <1>6, <1>7, <1>8, <1>9, <1>10, <1>11 DEF
     Next, Main, Terminated

(* The descriptor of the FIFO stays in decoder->pipe.                      *)
LEMMA DescriptorStep ==
  ASSUME TypeOK, CreationInv, ActiveInv, DescriptorInv, [Next]_vars
  PROVE  DescriptorInv'
<1> USE DEF TypeOK, CreationInv, ActiveInv, DescriptorInv, ParserGone, Alive,
    HoldsLock, StorePcs, MayUpdate, Threads, mainVars, mainData, threadVars,
    flagVars, fifoVars, otherVars, sharedVars
<1>1. CASE SetUp \/ CreateThread \/ LoadState \/ StoreState
  BY <1>1 DEF SetUp, CreateThread, FirstPc, LoadState, StoreState, MarkActive
<1>2. CASE TestState \/ Finish \/ TimeOut
  BY <1>2 DEF TestState, InitFails, StartFinalize, Ready, Finish, SetTails,
     TimeOut
<1>3. CASE WritePackets \/ WriteEos \/ RunReturns
  BY <1>3 DEF WritePackets, WriteEos, RunReturns, StartFinalize
<1>4. CASE FinalizeThread
  BY <1>4 DEF FinalizeThread, RequestCancel, ClearContext
<1>5. CASE Join
  BY <1>5 DEF Join, ClearContext
<1>6. CASE CloseAll
  BY <1>6 DEF CloseAll, CloseEnds, JmEnd, CalledAgain, StartFinalize
<1>7. CASE Parser
  BY <1>7 DEF Parser, SetInit, SetError, LoadFlags, StoreFlags, OnlyThread,
     ParserOpen, ParserWrite, ParserWriteFails, Goto, Opening, BothOpening
<1>8. CASE Decoder
  <2>1. CASE SetInit("decoder") \/ SetError("decoder") \/ SetIdle \/ ClearIdle
    BY <2>1 DEF SetInit, SetError, SetIdle, ClearIdle, LoadFlags, StoreFlags,
       OnlyThread
  <2>2. CASE InputParams \/ VideoParams
    BY <2>2 DEF InputParams, VideoParams, Goto
  <2>3. CASE DecoderOpen \/ DecoderRead
    BY <2>3 DEF DecoderOpen, DecoderRead, Goto, Opening
  <2>4. CASE Decode \/ DecodeEos
    BY <2>4 DEF Decode, DecodeEos, Goto
  <2>5. QED
    BY <1>8, <2>1, <2>2, <2>3, <2>4 DEF Decoder
<1>9. CASE CancelThread
  BY <1>9 DEF CancelThread, Cancel, CancellationPoint, Goto
<1>10. CASE Disturbance
  BY <1>10 DEF Disturbance, ProbeFails, SetUpFails, CreateFails, InitFails,
     StartFinalize, Wake, ParserOpenFails, DecoderInitFails, DecodeFails, Goto,
     Opening
<1>11. CASE UNCHANGED vars
  BY <1>11 DEF vars
<1>12. QED
  BY <1>1, <1>2, <1>3, <1>4, <1>5, <1>6, <1>7, <1>8, <1>9, <1>10, <1>11 DEF
     Next, Main, Terminated

(* JM's descriptor is closed with jm_decoder.                              *)
LEMMA JmEndStep ==
  ASSUME TypeOK, CreationInv, ActiveInv, JmEndInv, [Next]_vars
  PROVE  JmEndInv'
<1> USE DEF TypeOK, CreationInv, ActiveInv, JmEndInv, Alive,
    HoldsLock, StorePcs, MayUpdate, Threads, mainVars, mainData, threadVars,
    flagVars, fifoVars, otherVars, sharedVars
<1>1. CASE SetUp \/ CreateThread \/ LoadState \/ StoreState
  BY <1>1 DEF SetUp, CreateThread, FirstPc, LoadState, StoreState, MarkActive
<1>2. CASE TestState \/ Finish \/ TimeOut
  BY <1>2 DEF TestState, InitFails, StartFinalize, Ready, Finish, SetTails,
     TimeOut
<1>3. CASE WritePackets \/ WriteEos \/ RunReturns
  BY <1>3 DEF WritePackets, WriteEos, RunReturns, StartFinalize
<1>4. CASE FinalizeThread
  BY <1>4 DEF FinalizeThread, RequestCancel, ClearContext
<1>5. CASE Join
  BY <1>5 DEF Join, ClearContext
<1>6. CASE CloseAll
  BY <1>6 DEF CloseAll, CloseEnds, JmEnd, CalledAgain, StartFinalize
<1>7. CASE Parser
  BY <1>7 DEF Parser, SetInit, SetError, LoadFlags, StoreFlags, OnlyThread,
     ParserOpen, ParserWrite, ParserWriteFails, Goto, Opening, BothOpening
<1>8. CASE Decoder
  <2>1. CASE SetInit("decoder") \/ SetError("decoder") \/ SetIdle \/ ClearIdle
    BY <2>1 DEF SetInit, SetError, SetIdle, ClearIdle, LoadFlags, StoreFlags,
       OnlyThread
  <2>2. CASE InputParams \/ VideoParams
    BY <2>2 DEF InputParams, VideoParams, Goto
  <2>3. CASE DecoderOpen \/ DecoderRead
    BY <2>3 DEF DecoderOpen, DecoderRead, Goto, Opening
  <2>4. CASE Decode \/ DecodeEos
    <3>1. /\ threadPc' \in {[threadPc EXCEPT !["decoder"] = "idle"],
                            [threadPc EXCEPT !["decoder"] = "error"]}
          /\ threadPc["decoder"] = "decode"
          /\ UNCHANGED <<fds, jmDecoder, opened, mainPc, overlap>>
      BY <2>4 DEF Decode, DecodeEos, Goto
    <3>2. ~overlap => mainPc \notin {"close", "end"}
      BY <3>1
    <3>. QED  BY <3>1, <3>2
  <2>5. QED
    BY <1>8, <2>1, <2>2, <2>3, <2>4 DEF Decoder
<1>9. CASE CancelThread
  BY <1>9 DEF CancelThread, Cancel, CancellationPoint, Goto
<1>10. CASE Disturbance
  BY <1>10 DEF Disturbance, ProbeFails, SetUpFails, CreateFails, InitFails,
     StartFinalize, Wake, ParserOpenFails, DecoderInitFails, DecodeFails, Goto,
     Opening
<1>11. CASE UNCHANGED vars
  BY <1>11 DEF vars
<1>12. QED
  BY <1>1, <1>2, <1>3, <1>4, <1>5, <1>6, <1>7, <1>8, <1>9, <1>10, <1>11 DEF
     Next, Main, Terminated

(* INIT is set for the parser thread only once the FIFO is open.           *)
LEMMA ParserStep ==
  ASSUME TypeOK, CreationInv, DescriptorInv, ParserInv, [Next]_vars
  PROVE  ParserInv'
<1> USE DEF TypeOK, CreationInv, DescriptorInv, ParserInv, Starting, SaysInit,
    Threads, mainVars, mainData, threadVars, flagVars, fifoVars, otherVars,
    sharedVars
<1>1. CASE SetUp \/ CreateThread \/ LoadState \/ StoreState
  BY <1>1 DEF SetUp, CreateThread, FirstPc, LoadState, StoreState, MarkActive
<1>2. CASE TestState \/ Finish \/ TimeOut
  BY <1>2 DEF TestState, InitFails, StartFinalize, Ready, Finish, SetTails,
     TimeOut
<1>3. CASE WritePackets \/ WriteEos \/ RunReturns
  BY <1>3 DEF WritePackets, WriteEos, RunReturns, StartFinalize
<1>4. CASE FinalizeThread
  BY <1>4 DEF FinalizeThread, RequestCancel, ClearContext
<1>5. CASE Join
  BY <1>5 DEF Join, ClearContext
<1>6. CASE CloseAll
  BY <1>6 DEF CloseAll, CloseEnds, JmEnd, CalledAgain, StartFinalize
<1>7. CASE Parser
  BY <1>7 DEF Parser, SetInit, SetError, LoadFlags, StoreFlags, OnlyThread,
     ParserOpen, ParserWrite, ParserWriteFails, Goto, Opening, BothOpening
<1>8. CASE Decoder
  <2>1. CASE SetInit("decoder") \/ SetError("decoder") \/ SetIdle \/ ClearIdle
    BY <2>1 DEF SetInit, SetError, SetIdle, ClearIdle, LoadFlags, StoreFlags,
       OnlyThread
  <2>2. CASE InputParams \/ VideoParams
    BY <2>2 DEF InputParams, VideoParams, Goto
  <2>3. CASE DecoderOpen \/ DecoderRead
    BY <2>3 DEF DecoderOpen, DecoderRead, Goto, Opening
  <2>4. CASE Decode \/ DecodeEos
    BY <2>4, ZenonT(30) DEF Decode, DecodeEos, Goto
  <2>5. QED
    BY <1>8, <2>1, <2>2, <2>3, <2>4 DEF Decoder
<1>9. CASE CancelThread
  BY <1>9 DEF CancelThread, Cancel, CancellationPoint, Goto
<1>10. CASE Disturbance
  BY <1>10 DEF Disturbance, ProbeFails, SetUpFails, CreateFails, InitFails,
     StartFinalize, Wake, ParserOpenFails, DecoderInitFails, DecodeFails, Goto,
     Opening
<1>11. CASE UNCHANGED vars
  BY <1>11 DEF vars
<1>12. QED
  BY <1>1, <1>2, <1>3, <1>4, <1>5, <1>6, <1>7, <1>8, <1>9, <1>10, <1>11 DEF
     Next, Main, Terminated

(* INIT is set for the decoder thread only once JM is open.                *)
LEMMA DecoderStep ==
  ASSUME TypeOK, CreationInv, ParserInv, DecoderInv, [Next]_vars
  PROVE  DecoderInv'
<1> USE DEF TypeOK, CreationInv, ParserInv, DecoderInv, Starting, SaysInit,
    HoldsLock, StorePcs, Threads, mainVars, mainData, threadVars, flagVars,
    fifoVars, otherVars, sharedVars
<1>1. CASE SetUp \/ CreateThread \/ LoadState \/ StoreState
  BY <1>1 DEF SetUp, CreateThread, FirstPc, LoadState, StoreState, MarkActive
<1>2. CASE TestState \/ Finish \/ TimeOut
  BY <1>2 DEF TestState, InitFails, StartFinalize, Ready, Finish, SetTails,
     TimeOut
<1>3. CASE WritePackets \/ WriteEos \/ RunReturns
  BY <1>3 DEF WritePackets, WriteEos, RunReturns, StartFinalize
<1>4. CASE FinalizeThread
  BY <1>4 DEF FinalizeThread, RequestCancel, ClearContext
<1>5. CASE Join
  BY <1>5 DEF Join, ClearContext
<1>6. CASE CloseAll
  BY <1>6 DEF CloseAll, CloseEnds, JmEnd, CalledAgain, StartFinalize
<1>7. CASE Parser
  BY <1>7 DEF Parser, SetInit, SetError, LoadFlags, StoreFlags, OnlyThread,
     ParserOpen, ParserWrite, ParserWriteFails, Goto, Opening, BothOpening
<1>8. CASE Decoder
  <2>1. CASE SetInit("decoder") \/ SetError("decoder") \/ SetIdle \/ ClearIdle
    BY <2>1 DEF SetInit, SetError, SetIdle, ClearIdle, LoadFlags, StoreFlags,
       OnlyThread
  <2>2. CASE InputParams \/ VideoParams
    BY <2>2 DEF InputParams, VideoParams, Goto
  <2>3. CASE DecoderOpen \/ DecoderRead
    BY <2>3 DEF DecoderOpen, DecoderRead, Goto, Opening
  <2>4. CASE Decode \/ DecodeEos
    BY <2>4 DEF Decode, DecodeEos, Goto
  <2>5. QED
    BY <1>8, <2>1, <2>2, <2>3, <2>4 DEF Decoder
<1>9. CASE CancelThread
  BY <1>9 DEF CancelThread, Cancel, CancellationPoint, Goto
<1>10. CASE Disturbance
  BY <1>10 DEF Disturbance, ProbeFails, SetUpFails, CreateFails, InitFails,
     StartFinalize, Wake, ParserOpenFails, DecoderInitFails, DecodeFails, Goto,
     Opening
<1>11. CASE UNCHANGED vars
  BY <1>11 DEF vars
<1>12. QED
  BY <1>1, <1>2, <1>3, <1>4, <1>5, <1>6, <1>7, <1>8, <1>9, <1>10, <1>11 DEF
     Next, Main, Terminated

(* Packets are written only after the tails are set.                       *)
LEMMA TailsStep ==
  ASSUME TypeOK, TailsInv, [Next]_vars
  PROVE  TailsInv'
<1> USE DEF TypeOK, TailsInv, Threads, mainVars, mainData, threadVars,
    flagVars, fifoVars, otherVars, sharedVars
<1>1. CASE SetUp \/ CreateThread \/ LoadState \/ StoreState
  BY <1>1 DEF SetUp, CreateThread, FirstPc, LoadState, StoreState, MarkActive
<1>2. CASE TestState \/ Finish \/ TimeOut
  BY <1>2 DEF TestState, InitFails, StartFinalize, Ready, Finish, SetTails,
     TimeOut
<1>3. CASE WritePackets \/ WriteEos \/ RunReturns
  BY <1>3 DEF WritePackets, WriteEos, RunReturns, StartFinalize
<1>4. CASE FinalizeThread
  BY <1>4 DEF FinalizeThread, RequestCancel, ClearContext
<1>5. CASE Join
  BY <1>5 DEF Join, ClearContext
<1>6. CASE CloseAll
  BY <1>6 DEF CloseAll, CloseEnds, JmEnd, CalledAgain, StartFinalize
<1>7. CASE Parser
  BY <1>7 DEF Parser, SetInit, SetError, LoadFlags, StoreFlags, OnlyThread,
     ParserOpen, ParserWrite, ParserWriteFails, Goto, Opening, BothOpening
<1>8. CASE Decoder
  <2>1. CASE SetInit("decoder") \/ SetError("decoder") \/ SetIdle \/ ClearIdle
    BY <2>1 DEF SetInit, SetError, SetIdle, ClearIdle, LoadFlags, StoreFlags,
       OnlyThread
  <2>2. CASE InputParams \/ VideoParams
    BY <2>2 DEF InputParams, VideoParams, Goto
  <2>3. CASE DecoderOpen \/ DecoderRead
    BY <2>3 DEF DecoderOpen, DecoderRead, Goto, Opening
  <2>4. CASE Decode \/ DecodeEos
    BY <2>4 DEF Decode, DecodeEos, Goto
  <2>5. QED
    BY <1>8, <2>1, <2>2, <2>3, <2>4 DEF Decoder
<1>9. CASE CancelThread
  BY <1>9 DEF CancelThread, Cancel, CancellationPoint, Goto
<1>10. CASE Disturbance
  BY <1>10 DEF Disturbance, ProbeFails, SetUpFails, CreateFails, InitFails,
     StartFinalize, Wake, ParserOpenFails, DecoderInitFails, DecodeFails, Goto,
     Opening
<1>11. CASE UNCHANGED vars
  BY <1>11 DEF vars
<1>12. QED
  BY <1>1, <1>2, <1>3, <1>4, <1>5, <1>6, <1>7, <1>8, <1>9, <1>10, <1>11 DEF
     Next, Main, Terminated

(* Every state the program reaches satisfies the inductive invariant.      *)
THEOREM Invariance == Spec => []IInv
<1>1. Init => IInv
  <2> SUFFICES ASSUME Init PROVE IInv
    OBVIOUS
  <2>1. TypeOK
    <3>1. data \in 0..FifoCapacity
      BY JMStartupAssumption DEF Init
    <3>2. /\ threadReg \in [Threads -> SUBSET Flags]
          /\ state \in [Threads -> SUBSET Flags]
      BY DEF Init
    <3>3. /\ valid \in [Threads -> BOOLEAN]
          /\ threadPc \in [Threads -> ThreadPcs]
      BY DEF Init, ThreadPcs
    <3>4. /\ mainPc \in MainPcs /\ mainT \in Threads
          /\ mainReg \in SUBSET Flags
          /\ cancelled \in SUBSET Threads /\ fds \in SUBSET {"stdin", "fifo", "jm"}
      BY DEF Init, MainPcs, Threads
    <3>5. /\ calls \in 0..2 /\ pipe \in {"stdin", "closed", "fifo"}
          /\ result \in {"none", "success", "failure"} /\ overlap \in Overlaps
      BY DEF Init
    <3>6. /\ tailsSet \in BOOLEAN /\ fed \in BOOLEAN /\ met \in BOOLEAN
          /\ jmDecoder \in BOOLEAN /\ opened \in BOOLEAN /\ pushed \in BOOLEAN
      BY DEF Init
    <3>7. QED
      BY <3>1, <3>2, <3>3, <3>4, <3>5, <3>6 DEF TypeOK
  <2>2. CallsInv /\ CreationInv /\ ActiveInv /\ TailsInv
    BY DEF Init, CallsInv, CreationInv, ActiveInv, TailsInv, Threads, StorePcs,
           Alive, HoldsLock
  <2>3. DescriptorInv /\ JmEndInv /\ ParserInv /\ DecoderInv
    BY DEF Init, DescriptorInv, JmEndInv, ParserInv, DecoderInv, Threads, StorePcs,
           Alive, HoldsLock, ParserGone, SaysInit
  <2>4. QED
    BY <2>1, <2>2, <2>3 DEF IInv
<1>2. IInv /\ [Next]_vars => IInv'
  BY TypeStep, CallsStep, CreationStep, ActiveStep, DescriptorStep, JmEndStep,
     ParserStep, DecoderStep, TailsStep DEF IInv
<1>3. QED
  BY <1>1, <1>2, PTL DEF Spec

(* Every variable of the three threads keeps its type: the FIFO never      *)
(* holds more than its capacity and jm_finalize() completes at most twice. *)
THEOREM TypeCorrect == Spec => []TypeOK
<1>1. IInv => TypeOK
  BY DEF IInv
<1>2. QED
  BY <1>1, Invariance, PTL

(* jm_init() returns 0 only when both threads have done their part.        *)
THEOREM SuccessIsSound == Spec => []InitSound
<1>1. IInv => InitSound
  BY DEF IInv, InitSound, ParserInv, DecoderInv, Starting, SaysInit, Alive
<1>2. QED
  BY <1>1, Invariance, PTL

(* The decoder thread never appends a picture through a NULL tail pointer. *)
THEOREM TailsBeforePictures == Spec => []TailsReady
<1>1. IInv => TailsReady
  BY DEF IInv, TailsInv, TailsReady
<1>2. QED
  BY <1>1, Invariance, PTL

(* Without overlapping updates no thread outlives its lock and condition.  *)
THEOREM ContextsOutliveThreads == Spec => []NoUseAfterClear
<1>1. IInv => NoUseAfterClear
  BY DEF IInv, ActiveInv, NoUseAfterClear
<1>2. QED
  BY <1>1, Invariance, PTL

(* Without overlapping updates the FIFO is closed when the decoder is      *)
(* freed, whichever thread opened it last, and JM's end of it too unless   *)
(* the decoder thread never returned from OpenDecoder().                   *)
THEOREM FifoIsClosed == Spec => []NoDescriptorLeft
<1>1. IInv => NoDescriptorLeft
  BY DEF IInv, DescriptorInv, JmEndInv, NoDescriptorLeft
<1>2. QED
  BY <1>1, Invariance, PTL
=============================================================================
