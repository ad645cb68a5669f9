-------------------------- MODULE GstSession_proofs --------------------------
(* Theorems about GstDecoder, and about a whole run of it, whatever the    *)
(* options and the elements are.                                           *)
EXTENDS GstSession, Integers, FunctionTheorems, FiniteSetTheorems,
        SequenceTheorems, TLAPS

-----------------------------------------------------------------------------
(* The two threads                                                         *)


(* What each step of app_error() changes.                                  *)
LEMMA AppErrorType ==
  ASSUME TypeOK, NEW t \in Threads, AppError(t)
  PROVE  TypeOK'
<1>. USE DEF TypeOK, mainVars, loopVars, streamVars
<1>1. CASE ClearLoad(t)
  <2>1. FreeError \in {"set", "free"}
    BY DEF FreeError
  <2>2. errorPc' \in [Threads -> ErrorPcs]
    BY <1>1, <2>1 DEF ClearLoad, ErrorPcs
  <2>3. seen' \in [Threads -> Nat]
    BY <1>1 DEF ClearLoad
  <2>4. UNCHANGED <<mainVars, loopVars, streamVars, error, live, created, raced,
                    doubleFree>>
    BY <1>1 DEF ClearLoad
  <2>. QED  BY <2>2, <2>3, <2>4
<1>2. CASE ClearFree(t)
  <2>1. errorPc' \in [Threads -> ErrorPcs]
    BY <1>2 DEF ClearFree, ErrorPcs
  <2>2. live' \subseteq Nat
    BY <1>2 DEF ClearFree
  <2>3. UNCHANGED <<mainVars, loopVars, streamVars, seen, error, created, raced,
                    doubleFree>>
    BY <1>2 DEF ClearFree
  <2>. QED  BY <2>1, <2>2, <2>3
<1>3. CASE ClearFreeAgain(t)
  <2>1. errorPc' \in [Threads -> ErrorPcs]
    BY <1>3 DEF ClearFreeAgain, ErrorPcs
  <2>2. doubleFree' \in BOOLEAN /\ mainPc' \in {mainPc, "aborted"}
    BY <1>3 DEF ClearFreeAgain
  <2>3. UNCHANGED <<result, loopVars, streamVars, seen, error, live, created,
                    raced>>
    BY <1>3 DEF ClearFreeAgain
  <2>. QED  BY <2>1, <2>2, <2>3
<1>4. CASE ClearNull(t)
  <2>1. errorPc' \in [Threads -> ErrorPcs]
    BY <1>4 DEF ClearNull, ErrorPcs
  <2>2. error' \in Nat
    BY <1>4 DEF ClearNull
  <2>3. UNCHANGED <<mainVars, loopVars, streamVars, seen, live, created, raced,
                    doubleFree>>
    BY <1>4 DEF ClearNull
  <2>. QED  BY <2>1, <2>2, <2>3
<1>5. CASE SetError(t)
  <2>1. created' \in Nat /\ error' \in Nat /\ live' \subseteq Nat
    BY <1>5 DEF SetError, NewError
  <2>2. errorPc' \in [Threads -> ErrorPcs]
    BY <1>5 DEF SetError, ErrorPcs
  <2>3. UNCHANGED <<mainVars, loopVars, streamVars, seen, raced, doubleFree>>
    BY <1>5 DEF SetError
  <2>. QED  BY <2>1, <2>2, <2>3
<1>6. CASE QuitLoop(t)
  <2>1. /\ running' \in BOOLEAN
        /\ errorPc' \in [Threads -> ErrorPcs]
    BY <1>6 DEF QuitLoop, ErrorPcs
  <2>2. mainPc' \in {mainPc, "loop"} /\ result' = result /\ streamPc' \in
     {streamPc, "next"}
    BY <1>6 DEF QuitLoop, Goto
  <2>3. UNCHANGED <<bus, picture, vsinkCaps, handled, failed, seen, error, live,
                    created, raced, doubleFree>>
    BY <1>6 DEF QuitLoop
  <2>. QED  BY <2>1, <2>2, <2>3
<1>. QED
  BY <1>1, <1>2, <1>3, <1>4, <1>5, <1>6 DEF AppError

LEMMA BusType ==
  ASSUME bus \in Seq({"eos", "error"})
  PROVE  /\ bus # <<>> => Tail(bus) \in Seq({"eos", "error"})
         /\ \A m \in {"eos", "error"} : Append(bus, m) \in Seq({"eos", "error"})
         /\ <<>> \in Seq({"eos", "error"})
  OBVIOUS

LEMMA RaiseType ==
  ASSUME TypeOK, NEW t \in Threads, Raise(t)
  PROVE  /\ errorPc' \in [Threads -> ErrorPcs]
         /\ raced' \in BOOLEAN
         /\ UNCHANGED <<seen, error, live, created, doubleFree>>
  BY DEF Raise, TypeOK, ErrorPcs

LEMMA MainType ==
  ASSUME TypeOK, Main
  PROVE  TypeOK'
<1>. USE DEF TypeOK, mainVars, loopVars, streamVars, errorVars, Goto
<1>1. CASE InitSucceeds \/ InitCrashes \/ SetPlaying \/ EnterLoop
  BY <1>1, ZenonT(30) DEF InitSucceeds, InitCrashes, SetPlaying, EnterLoop
<1>2. CASE InitFails
  <2>1. created' \in Nat /\ error' \in Nat /\ live' \subseteq Nat
    <3>1. CASE NewError
      BY <3>1 DEF NewError
    <3>2. CASE UNCHANGED <<created, error, live>>
      BY <3>2
    <3>. QED  BY <1>2, <3>1, <3>2 DEF InitFails, PipelineFails, AllocFails,
       EndInit
  <2>2. mainPc' = "finalize" /\ result' = "failure"
    BY <1>2 DEF InitFails, PipelineFails, AllocFails, EndInit
  <2>3. UNCHANGED <<loopVars, streamVars, errorPc, seen, raced, doubleFree>>
    BY <1>2 DEF InitFails, PipelineFails, AllocFails, EndInit
  <2>. QED  BY <2>1, <2>2, <2>3
<1>3. CASE Iterate \/ LeaveLoop \/ WakeUp \/ Check
  BY <1>3, ZenonT(30) DEF Iterate, LeaveLoop, WakeUp, Check
<1>4. CASE DispatchEos
  BY <1>4, BusType DEF DispatchEos, QuitAtEos
<1>5. CASE DispatchError
  <2>1. Raise("main")
    BY <1>5 DEF DispatchError, ReportError
  <2>2. bus' \in Seq({"eos", "error"})
    BY <1>5, BusType DEF DispatchError
  <2>3. mainPc' = "loop" /\ UNCHANGED <<result, running, streamVars>>
    BY <1>5 DEF DispatchError, ReportError
  <2>. QED  BY <2>1, <2>2, <2>3, RaiseType DEF Threads
<1>6. CASE Stop
  BY <1>6, BusType DEF Stop, StopStream
<1>7. CASE Finalize
  BY <1>7 DEF Finalize
<1>8. CASE AppError("main")
  BY <1>8, AppErrorType DEF Threads
<1>. QED
  BY <1>1, <1>2, <1>3, <1>4, <1>5, <1>6, <1>7, <1>8 DEF Main, Initialize, Run

LEMMA StreamType ==
  ASSUME TypeOK, Stream \/ PostError
  PROVE  TypeOK'
<1>. USE DEF TypeOK, mainVars, loopVars, streamVars, errorVars
<1>1. CASE Handoff
  <2>1. picture' \in 0..NumPictures /\ picture + 1 \in 1..NumPictures
    BY <1>1, GstDecoderAssumption DEF Handoff, NumPictures
  <2>2. vsinkCaps' \in {Caps[p] : p \in 1..NumPictures} \cup {"none"}
    BY <1>1, <2>1 DEF Handoff
  <2>3. streamPc' \in {"caps", "handle"}
    BY <1>1 DEF Handoff
  <2>4. UNCHANGED <<mainVars, loopVars, handled, failed, errorVars>>
    BY <1>1 DEF Handoff
  <2>. QED  BY <2>1, <2>2, <2>3, <2>4
<1>2. CASE UpdateInfo \/ DropPicture
  BY <1>2 DEF UpdateInfo, DropPicture
<1>3. CASE HandleSurface
  BY <1>3 DEF HandleSurface, CountFrame
<1>4. CASE FailPicture
  <2>1. Raise("stream")
    BY <1>4 DEF FailPicture
  <2>2. UNCHANGED <<mainPc, result, running, bus, streamPc, picture, vsinkCaps,
                    handled, failed>>
    BY <1>4 DEF FailPicture
  <2>3. "stream" \in Threads
    BY DEF Threads
  <2>4. /\ errorPc' \in [Threads -> ErrorPcs]
        /\ raced' \in BOOLEAN
        /\ UNCHANGED <<seen, error, live, created, doubleFree>>
    BY <2>1, <2>3, RaiseType
  <2>. QED  BY <2>2, <2>4
<1>5. CASE PostEos
  BY <1>5, BusType DEF PostEos
<1>6. CASE PostError
  <2>1. /\ bus' = Append(bus, "error") /\ failed' = TRUE
        /\ streamPc' \in {streamPc, "done"}
        /\ UNCHANGED <<mainVars, running, picture, vsinkCaps, handled, errorVars>>
    BY <1>6 DEF PostError, StreamBreaks, StreamGoesOn, ElementFails
  <2>2. bus' \in Seq({"eos", "error"})
    BY <2>1, BusType
  <2>. QED  BY <2>1, <2>2
<1>7. CASE AppError("stream")
  BY <1>7, AppErrorType DEF Threads
<1>. QED
  BY <1>1, <1>2, <1>3, <1>4, <1>5, <1>6, <1>7 DEF Stream

LEMMA BehaviourType == Behaviour => []TypeOK
<1>1. ASSUME Init PROVE TypeOK
  <2>1. NumPictures \in Nat
    BY GstDecoderAssumption DEF NumPictures
  <2>2. [t \in Threads |-> "none"] \in [Threads -> ErrorPcs]
    BY DEF ErrorPcs
  <2>3. errorPc \in [Threads -> ErrorPcs]
    BY <1>1, <2>2 DEF Init
  <2>4. seen \in [Threads -> Nat]
    BY <1>1 DEF Init
  <2>5. bus \in Seq({"eos", "error"})
    BY <1>1 DEF Init
  <2>6. picture \in 0..NumPictures
    BY <1>1, <2>1 DEF Init
  <2>7. vsinkCaps \in {Caps[p] : p \in 1..NumPictures} \cup {"none"}
    BY <1>1 DEF Init
  <2>8. /\ mainPc = "init" /\ result = "none" /\ running = FALSE
        /\ streamPc = "idle" /\ handled = 0 /\ failed = FALSE /\ error = 0
        /\ live = {} /\ created = 0 /\ raced = FALSE /\ doubleFree = FALSE
    BY <1>1 DEF Init
  <2>9. handled \in Nat /\ error \in Nat /\ live \subseteq Nat /\ created \in
     Nat
    BY <2>8
  <2>. QED  BY <2>3, <2>4, <2>5, <2>6, <2>7, <2>8, <2>9, Zenon DEF TypeOK
<1>2. TypeOK /\ [Next]_vars => TypeOK'
  <2>1. CASE UNCHANGED vars
    BY <2>1 DEF vars, mainVars, loopVars, streamVars, errorVars, TypeOK
  <2>. QED
    BY <2>1, MainType, StreamType DEF Next, Terminated
<1>. QED  BY <1>1, <1>2, PTL DEF Behaviour

(* Every variable keeps its type, for any stream and any set of failures.  *)
THEOREM TypeCorrect == Spec => []TypeOK
  BY BehaviourType, PTL DEF Spec

-----------------------------------------------------------------------------
(* Where the threads are                                                   *)

(* app_error() is called from the bus handler and from on_handoff(); the   *)
(* streaming thread exists between SetPlaying and Stop.                    *)
PlaceInv ==
  /\ errorPc["main"] # "none" => mainPc \in {"loop", "aborted"}
  /\ errorPc["stream"] # "none" => streamPc \in {"caps", "handle"}
  /\ mainPc \in {"init", "play"} => streamPc = "idle"
  /\ mainPc \in {"check", "finalize", "end"} => streamPc \in {"idle", "stopped"}
  /\ mainPc = "check" => streamPc = "stopped"

LEMMA ThreadNames == "main" \in Threads /\ "stream" \in Threads /\ "main" # "stream"
  BY DEF Threads

LEMMA AppErrorPlace ==
  ASSUME TypeOK, PlaceInv, NEW t \in Threads, AppError(t)
  PROVE  PlaceInv'
<1>. USE DEF TypeOK, Threads
<1>1. CASE ClearLoad(t) \/ ClearFree(t) \/ ClearNull(t) \/ SetError(t)
  <2>1. /\ errorPc[t] # "none" /\ UNCHANGED <<mainPc, streamPc>>
        /\ \A u \in Threads : u # t => errorPc'[u] = errorPc[u]
    BY <1>1 DEF ClearLoad, ClearFree, ClearNull, SetError, mainVars, streamVars
  <2>. QED  BY <2>1 DEF PlaceInv
<1>2. CASE ClearFreeAgain(t)
  <2>1. /\ errorPc[t] # "none" /\ mainPc' \in {mainPc, "aborted"}
        /\ UNCHANGED streamPc
        /\ \A u \in Threads : u # t => errorPc'[u] = errorPc[u]
    BY <1>2 DEF ClearFreeAgain, streamVars
  <2>. QED  BY <2>1 DEF PlaceInv
<1>3. CASE QuitLoop(t)
  <2>1. /\ errorPc[t] # "none" /\ errorPc'[t] = "none"
        /\ \A u \in Threads : u # t => errorPc'[u] = errorPc[u]
    BY <1>3 DEF QuitLoop
  <2>2. CASE t = "main"
    <3>1. mainPc' = "loop" /\ streamPc' = streamPc /\ Alive
      BY <1>3, <2>2 DEF QuitLoop, Goto
    <3>. QED  BY <2>1, <2>2, <3>1 DEF PlaceInv
  <2>3. CASE t = "stream"
    <3>1. streamPc' = "next" /\ mainPc' = mainPc
      BY <1>3, <2>3 DEF QuitLoop, mainVars
    <3>. QED  BY <2>1, <2>3, <3>1 DEF PlaceInv
  <2>. QED  BY <2>2, <2>3
<1>. QED  BY <1>1, <1>2, <1>3 DEF AppError

LEMMA NextPlace ==
  ASSUME TypeOK, PlaceInv, [Next]_vars
  PROVE  PlaceInv'
<1>1. CASE InitSucceeds \/ InitFails \/ InitCrashes \/ SetPlaying \/ EnterLoop
           \/ Iterate \/ LeaveLoop \/ WakeUp
  BY <1>1 DEF InitSucceeds, InitFails, PipelineFails, AllocFails, EndInit,
     InitCrashes, SetPlaying, EnterLoop, Iterate, LeaveLoop, WakeUp, Goto,
     PlaceInv, streamVars, errorVars
<1>2. CASE DispatchEos \/ Stop \/ Check \/ Finalize
  BY <1>2 DEF DispatchEos, Stop, StopStream, Check, Finalize, Goto, PlaceInv,
     streamVars, errorVars
<1>3. CASE DispatchError
  <2>1. /\ mainPc' = "loop" /\ UNCHANGED streamPc
        /\ errorPc'["stream"] = errorPc["stream"]
    BY <1>3, ThreadNames DEF DispatchError, ReportError, Raise, Goto,
       streamVars, TypeOK
  <2>. QED  BY <1>3, <2>1 DEF DispatchError, PlaceInv
<1>4. CASE Handoff \/ UpdateInfo \/ HandleSurface \/ DropPicture \/ PostEos \/
   PostError
  <2>1. UNCHANGED <<mainPc, errorPc>>
    BY <1>4 DEF Handoff, UpdateInfo, HandleSurface, DropPicture, PostEos,
       PostError, StreamBreaks, StreamGoesOn, ElementFails, mainVars, errorVars
  <2>2. \/ streamPc' = streamPc
        \/ /\ streamPc \notin {"idle", "stopped"}
           /\ errorPc["stream"] = "none" \/ streamPc \notin {"caps", "handle"}
    BY <1>4 DEF Handoff, UpdateInfo, HandleSurface, DropPicture, PostEos,
       PostError, StreamBreaks, StreamGoesOn, ElementFails
  <2>. QED  BY <2>1, <2>2 DEF PlaceInv
<1>5. CASE FailPicture
  <2>1. /\ UNCHANGED <<mainPc, streamPc>> /\ streamPc \in {"caps", "handle"}
        /\ errorPc'["main"] = errorPc["main"]
    BY <1>5, ThreadNames DEF FailPicture, Raise, mainVars, streamVars, TypeOK
  <2>. QED  BY <2>1 DEF PlaceInv
<1>6. CASE AppError("main") \/ AppError("stream")
  BY <1>6, AppErrorPlace, ThreadNames
<1>7. CASE UNCHANGED vars
  BY <1>7 DEF vars, mainVars, streamVars, errorVars, PlaceInv
<1>. QED
  BY <1>1, <1>2, <1>3, <1>4, <1>5, <1>6, <1>7
     DEF Next, Main, Initialize, Run, Stream, Terminated

LEMMA InitPlace == Init => PlaceInv
  BY ThreadNames DEF Init, PlaceInv

LEMMA BehaviourPlace == Behaviour => [](PlaceInv /\ NoLateHandoff)
<1>1. PlaceInv => NoLateHandoff
  BY DEF PlaceInv, NoLateHandoff
<1>2. Behaviour => []PlaceInv
  BY InitPlace, NextPlace, BehaviourType, PTL DEF Behaviour
<1>. QED  BY <1>1, <1>2, PTL

(* No picture is handled after decoder_run() has looked at app->error, nor *)
(* after app_finalize().                                                   *)
THEOREM HandoffsEnd == Spec => []NoLateHandoff
  BY BehaviourPlace, PTL DEF Spec

-----------------------------------------------------------------------------
(* What a successful run has seen                                          *)

(* An error that was reported is still there, whoever replaces it ...      *)
KeptInv ==
  created > 0 /\ mainPc # "end" =>
    error # 0 \/ \E t \in Threads : errorPc[t] = "set"

(* ... and the loop is quit by an error or at the end of the stream.       *)
QuitInv ==
  /\ \A t \in Threads : errorPc[t] = "quit" => created > 0
  /\ mainPc \in {"loop", "iterate"} /\ ~running =>
       created > 0 \/ picture = NumPictures
  /\ mainPc \in {"stop", "check"} => created > 0 \/ picture = NumPictures
  /\ \A i \in 1..Len(bus) : bus[i] = "eos" => picture = NumPictures

VerdictInv ==
  /\ result # "none" => mainPc \in {"finalize", "end"}
  /\ FailureReported

ReportInv == KeptInv /\ QuitInv /\ VerdictInv

LEMMA AppErrorWhere ==
  ASSUME PlaceInv, NEW t \in Threads, AppError(t)
  PROVE  mainPc \notin {"init", "play", "check", "finalize", "end"}
<1>1. Alive /\ errorPc[t] # "none"
  BY DEF AppError, ClearLoad, ClearFree, ClearFreeAgain, ClearNull, SetError,
         QuitLoop
<1>. QED  BY <1>1 DEF PlaceInv, Alive, Threads

LEMMA AppErrorKept ==
  ASSUME TypeOK, PlaceInv, KeptInv, NEW t \in Threads, AppError(t)
  PROVE  KeptInv'
<1>. USE DEF TypeOK
<1>. mainPc # "end"
  BY AppErrorWhere
<1>1. CASE ClearLoad(t)
  <2>1. UNCHANGED <<error, created>>
    BY <1>1 DEF ClearLoad
  <2>2. CASE error # 0
    BY <2>1, <2>2 DEF KeptInv
  <2>3. CASE error = 0
    <3>1. errorPc'[t] = "set"
      BY <1>1, <2>3 DEF ClearLoad, FreeError
    <3>. QED  BY <3>1 DEF KeptInv
  <2>. QED  BY <2>2, <2>3
<1>2. CASE ClearFree(t) \/ ClearFreeAgain(t) \/ QuitLoop(t)
  <2>1. UNCHANGED <<error, created>>
    BY <1>2 DEF ClearFree, ClearFreeAgain, QuitLoop
  <2>2. \A u \in Threads : errorPc[u] = "set" => errorPc'[u] = "set"
    BY <1>2 DEF ClearFree, ClearFreeAgain, QuitLoop
  <2>. QED  BY <2>1, <2>2 DEF KeptInv
<1>3. CASE ClearNull(t)
  <2>1. errorPc'[t] = "set"
    BY <1>3 DEF ClearNull
  <2>. QED  BY <2>1 DEF KeptInv
<1>4. CASE SetError(t)
  <2>1. error' # 0
    BY <1>4 DEF SetError, NewError
  <2>. QED  BY <2>1 DEF KeptInv
<1>. QED  BY <1>1, <1>2, <1>3, <1>4 DEF AppError

LEMMA NextKept ==
  ASSUME TypeOK, PlaceInv, KeptInv, [Next]_vars
  PROVE  KeptInv'
<1>. USE DEF TypeOK
<1>1. CASE InitFails
  <2>1. CASE NewError
    <3>1. error' # 0
      BY <2>1 DEF NewError
    <3>. QED  BY <3>1 DEF KeptInv
  <2>2. CASE UNCHANGED <<created, error, live>>
    BY <1>1, <2>2 DEF InitFails, PipelineFails, AllocFails, EndInit, KeptInv
  <2>. QED  BY <1>1, <2>1, <2>2 DEF InitFails, PipelineFails, AllocFails,
     EndInit
<1>2. CASE Finalize
  BY <1>2 DEF Finalize, Goto, KeptInv
<1>3. CASE DispatchError \/ FailPicture
  <2>1. PICK t \in Threads : Raise(t) /\ errorPc[t] = "none" /\ mainPc # "end"
    BY <1>3, ThreadNames DEF DispatchError, ReportError, FailPicture, PlaceInv
  <2>2. \A u \in Threads : errorPc[u] = "set" => errorPc'[u] = "set"
    BY <2>1 DEF Raise
  <2>. QED  BY <2>1, <2>2 DEF Raise, KeptInv
<1>4. CASE AppError("main") \/ AppError("stream")
  BY <1>4, AppErrorKept, ThreadNames
<1>5. CASE InitSucceeds \/ InitCrashes \/ SetPlaying \/ EnterLoop
           \/ Iterate \/ LeaveLoop \/ WakeUp \/ DispatchEos \/ Stop \/ Check
  BY <1>5 DEF InitSucceeds, InitCrashes, SetPlaying, EnterLoop, Iterate,
     LeaveLoop, WakeUp, DispatchEos, Stop, Check, Goto, errorVars, KeptInv
<1>6. CASE Handoff \/ UpdateInfo \/ HandleSurface \/ DropPicture \/ PostEos \/
   PostError
  BY <1>6 DEF Handoff, UpdateInfo, HandleSurface, DropPicture, PostEos,
     PostError, StreamBreaks, StreamGoesOn, ElementFails, mainVars, errorVars,
     KeptInv
<1>7. CASE UNCHANGED vars
  BY <1>7 DEF vars, mainVars, errorVars, KeptInv
<1>. QED
  BY <1>1, <1>2, <1>3, <1>4, <1>5, <1>6, <1>7
     DEF Next, Main, Initialize, Run, Stream, Terminated

LEMMA AppErrorQuit ==
  ASSUME TypeOK, PlaceInv, QuitInv, NEW t \in Threads, AppError(t)
  PROVE  QuitInv'
<1>. USE DEF TypeOK
<1>1. CASE ClearLoad(t) \/ ClearFree(t) \/ ClearFreeAgain(t) \/ ClearNull(t)
  <2>1. /\ UNCHANGED <<running, bus, picture, created>>
        /\ mainPc' \in {mainPc, "aborted"}
    BY <1>1 DEF ClearLoad, ClearFree, ClearFreeAgain, ClearNull, mainVars,
       loopVars, streamVars
  <2>2. \A u \in Threads : errorPc'[u] = "quit" => errorPc[u] = "quit"
    BY <1>1 DEF ClearLoad, ClearFree, ClearFreeAgain, ClearNull, FreeError
  <2>. QED  BY <2>1, <2>2 DEF QuitInv
<1>2. CASE SetError(t)
  <2>1. created' > 0
    BY <1>2 DEF SetError, NewError
  <2>2. UNCHANGED <<bus, picture>>
    BY <1>2 DEF SetError, loopVars, streamVars
  <2>. QED  BY <2>1, <2>2 DEF QuitInv
<1>3. CASE QuitLoop(t)
  <2>1. created > 0 /\ created' = created
    BY <1>3 DEF QuitLoop, QuitInv
  <2>2. UNCHANGED <<bus, picture>>
    BY <1>3 DEF QuitLoop
  <2>. QED  BY <2>1, <2>2 DEF QuitInv
<1>. QED  BY <1>1, <1>2, <1>3 DEF AppError

LEMMA BusTail ==
  ASSUME NEW S, NEW s \in Seq(S), s # <<>>
  PROVE  /\ 1 \in 1..Len(s) /\ s[1] = Head(s)
         /\ \A i \in 1..Len(Tail(s)) : i + 1 \in 1..Len(s) /\ Tail(s)[i] = s[i + 1]
  OBVIOUS

LEMMA BusAppend ==
  ASSUME NEW S, NEW s \in Seq(S), NEW m \in S
  PROVE  \A i \in 1..Len(Append(s, m)) :
           \/ i \in 1..Len(s) /\ Append(s, m)[i] = s[i]
           \/ Append(s, m)[i] = m
  OBVIOUS

LEMMA NextQuit ==
  ASSUME TypeOK, PlaceInv, QuitInv, [Next]_vars
  PROVE  QuitInv'
<1>. USE DEF TypeOK
<1>0. bus \in Seq({"eos", "error"}) /\ created \in Nat
  OBVIOUS
<1>1. CASE InitSucceeds \/ InitCrashes \/ SetPlaying \/ EnterLoop
           \/ Iterate \/ LeaveLoop \/ WakeUp \/ Check \/ Finalize
  <2>1. UNCHANGED <<bus, picture, created, errorPc>>
    BY <1>1 DEF InitSucceeds, InitCrashes, SetPlaying, EnterLoop, Iterate,
       LeaveLoop, WakeUp, Check, Finalize, loopVars, streamVars, errorVars
  <2>2. /\ mainPc' \in {"loop", "iterate"} /\ ~running' =>
             mainPc \in {"loop", "iterate"} /\ ~running
        /\ mainPc' \in {"stop", "check"} => mainPc = "loop" /\ ~running
    BY <1>1 DEF InitSucceeds, InitCrashes, SetPlaying, EnterLoop, Iterate,
       LeaveLoop, WakeUp, Check, Finalize, Goto, loopVars
  <2>. QED  BY <2>1, <2>2 DEF QuitInv
<1>2. CASE InitFails
  <2>1. UNCHANGED <<bus, picture, errorPc>> /\ mainPc' = "finalize"
    BY <1>2 DEF InitFails, PipelineFails, AllocFails, EndInit, loopVars,
       streamVars
  <2>2. \A t \in Threads : errorPc[t] = "none"
    BY <1>2 DEF InitFails, PipelineFails, AllocFails, EndInit, PlaceInv, Threads
  <2>. QED  BY <2>1, <2>2 DEF QuitInv
<1>3. CASE DispatchEos
  <2>0. bus # <<>> /\ Head(bus) = "eos"
    BY <1>3 DEF DispatchEos
  <2>1. picture = NumPictures
    BY <1>0, <2>0, BusTail DEF QuitInv
  <2>2. UNCHANGED <<picture, errorPc, created>>
    BY <1>3 DEF DispatchEos, streamVars, errorVars
  <2>. QED  BY <2>1, <2>2 DEF QuitInv, NumPictures
<1>4. CASE DispatchError
  <2>1. /\ bus # <<>> /\ bus' = Tail(bus) /\ mainPc = "iterate"
        /\ mainPc' = "loop" /\ UNCHANGED <<running, picture, created>>
    BY <1>4 DEF DispatchError, ReportError, Raise, Goto, streamVars
  <2>2. \A t \in Threads : errorPc'[t] = "quit" => errorPc[t] = "quit"
    BY <1>4 DEF DispatchError, ReportError, Raise
  <2>3. \A i \in 1..Len(bus) : bus[i] = "eos" => picture = NumPictures
    BY DEF QuitInv
  <2>4. \A i \in 1..Len(Tail(bus)) :
           \E j \in 1..Len(bus) : Tail(bus)[i] = bus[j]
    BY <1>0, <2>1, BusTail
  <2>5. \A i \in 1..Len(bus') : bus'[i] = "eos" => picture = NumPictures
    BY <2>1, <2>3, <2>4
  <2>. QED  BY <2>1, <2>2, <2>5 DEF QuitInv, NumPictures
<1>5. CASE Stop
  <2>1. /\ mainPc = "stop" /\ mainPc' = "check" /\ bus' = <<>>
        /\ UNCHANGED <<picture, errorPc, created>>
    BY <1>5 DEF Stop, Goto, errorVars
  <2>. QED  BY <2>1 DEF QuitInv, NumPictures
<1>6. CASE Handoff
  <2>1. /\ picture # NumPictures
        /\ UNCHANGED <<mainPc, running, bus, errorPc, created>>
    BY <1>6 DEF Handoff, mainVars, loopVars, errorVars
  <2>. QED  BY <2>1 DEF QuitInv
<1>7. CASE UpdateInfo \/ HandleSurface \/ DropPicture \/ UNCHANGED vars
  BY <1>7 DEF UpdateInfo, HandleSurface, DropPicture, vars, mainVars, loopVars,
     streamVars, errorVars, QuitInv
<1>8. CASE FailPicture
  <2>1. UNCHANGED <<mainPc, running, bus, picture, created>>
    BY <1>8 DEF FailPicture, Raise, mainVars, loopVars, streamVars
  <2>2. \A t \in Threads : errorPc'[t] = "quit" => errorPc[t] = "quit"
    BY <1>8 DEF FailPicture, Raise
  <2>. QED  BY <2>1, <2>2 DEF QuitInv
<1>9. CASE PostEos \/ PostError
  <2>1. /\ UNCHANGED <<mainPc, running, picture, errorPc, created>>
        /\ \/ bus' = Append(bus, "eos") /\ picture = NumPictures
           \/ bus' = Append(bus, "error")
    BY <1>9 DEF PostEos, PostError, StreamBreaks, StreamGoesOn, ElementFails,
       mainVars, errorVars
  <2>2. \A i \in 1..Len(bus) : bus[i] = "eos" => picture = NumPictures
    BY DEF QuitInv
  <2>3. \A m \in {"eos", "error"} : \A i \in 1..Len(Append(bus, m)) :
           \/ \E j \in 1..Len(bus) : Append(bus, m)[i] = bus[j]
           \/ Append(bus, m)[i] = m
    BY <1>0, BusAppend
  <2>4. \A i \in 1..Len(bus') : bus'[i] = "eos" => picture = NumPictures
    <3>1. CASE bus' = Append(bus, "eos") /\ picture = NumPictures
      BY <3>1
    <3>2. CASE bus' = Append(bus, "error")
      BY <3>2, <2>2, <2>3
    <3>. QED  BY <2>1, <3>1, <3>2
  <2>. QED  BY <2>1, <2>4 DEF QuitInv, NumPictures
<1>10. CASE AppError("main") \/ AppError("stream")
  BY <1>10, AppErrorQuit, ThreadNames
<1>. QED
  BY <1>1, <1>2, <1>3, <1>4, <1>5, <1>6, <1>7, <1>8, <1>9, <1>10
     DEF Next, Main, Initialize, Run, Stream, Terminated

LEMMA NextVerdict ==
  ASSUME TypeOK, PlaceInv, KeptInv, QuitInv, VerdictInv, [Next]_vars
  PROVE  VerdictInv'
<1>1. CASE Check
  <2>1. \A t \in Threads : errorPc[t] = "none"
    BY <1>1 DEF Check, PlaceInv, Threads
  <2>2. error = 0 => created = 0
    BY <1>1, <2>1 DEF Check, KeptInv, TypeOK
  <2>3. error = 0 => picture = NumPictures
    BY <1>1, <2>2 DEF Check, QuitInv
  <2>4. UNCHANGED <<picture, created>>
    BY <1>1 DEF Check, streamVars, errorVars
  <2>. QED
    BY <1>1, <2>2, <2>3, <2>4 DEF Check, VerdictInv, FailureReported,
       NumPictures
<1>2. CASE InitFails
  BY <1>2 DEF InitFails, PipelineFails, AllocFails, EndInit, VerdictInv,
     FailureReported
<1>3. CASE Finalize
  BY <1>3 DEF Finalize, Goto, streamVars, VerdictInv, FailureReported,
     NumPictures
<1>4. CASE InitSucceeds \/ InitCrashes \/ SetPlaying \/ EnterLoop
           \/ Iterate \/ LeaveLoop \/ WakeUp \/ DispatchEos \/ DispatchError
           \/ Stop
  <2>1. mainPc \notin {"finalize", "end"} /\ result' = result
    BY <1>4 DEF InitSucceeds, InitCrashes, SetPlaying, EnterLoop, Iterate,
       LeaveLoop, WakeUp, DispatchEos, DispatchError, Stop, Goto
  <2>. QED  BY <2>1 DEF VerdictInv, FailureReported
<1>5. CASE Stream
  <2>1. CASE AppError("stream")
    <3>1. result = "none"
      BY <2>1, AppErrorWhere, ThreadNames DEF VerdictInv
    <3>2. result' = result
      BY <2>1 DEF AppError, ClearLoad, ClearFree, ClearFreeAgain, ClearNull,
         SetError, QuitLoop, Goto, mainVars
    <3>. QED  BY <3>1, <3>2 DEF VerdictInv, FailureReported
  <2>2. CASE ~AppError("stream")
    <3>1. UNCHANGED <<mainPc, result>> /\ streamPc \notin {"idle", "stopped"}
      BY <1>5, <2>2 DEF Stream, Handoff, UpdateInfo, HandleSurface, DropPicture,
         FailPicture, PostEos, mainVars
    <3>. QED  BY <3>1 DEF PlaceInv, VerdictInv, FailureReported
  <2>. QED  BY <2>1, <2>2
<1>6. CASE AppError("main")
  <2>1. result = "none"
    BY <1>6, AppErrorWhere, ThreadNames DEF VerdictInv
  <2>2. result' = result
    BY <1>6 DEF AppError, ClearLoad, ClearFree, ClearFreeAgain, ClearNull,
       SetError, QuitLoop, Goto, mainVars
  <2>. QED  BY <2>1, <2>2 DEF VerdictInv, FailureReported
<1>7. CASE PostError \/ UNCHANGED vars
  BY <1>7 DEF PostError, StreamBreaks, StreamGoesOn, ElementFails, vars,
     mainVars, streamVars, errorVars, VerdictInv, FailureReported, NumPictures
<1>. QED
  BY <1>1, <1>2, <1>3, <1>4, <1>5, <1>6, <1>7 DEF Next, Main, Initialize, Run,
     Terminated

LEMMA InitReport == Init => ReportInv
<1>1. Init => /\ bus = <<>> /\ created = 0 /\ result = "none" /\ mainPc = "init"
              /\ \A t \in Threads : errorPc[t] = "none"
  BY DEF Init
<1>. QED
  BY <1>1 DEF ReportInv, KeptInv, QuitInv, VerdictInv, FailureReported

LEMMA BehaviourReport == Behaviour => []FailureReported
<1>1. TypeOK /\ PlaceInv /\ ReportInv /\ [Next]_vars => ReportInv'
  BY NextKept, NextQuit, NextVerdict DEF ReportInv
<1>2. Behaviour => [](TypeOK /\ PlaceInv /\ ReportInv)
  BY <1>1, InitPlace, NextPlace, InitReport, BehaviourType, PTL DEF Behaviour
<1>3. ReportInv => FailureReported
  BY DEF ReportInv, VerdictInv
<1>. QED  BY <1>2, <1>3, PTL

(* A run that succeeds met no error in either thread and took the whole    *)
(* stream, in every interleaving of the two threads in app_error().        *)
THEOREM ErrorsAreReported == Spec => []FailureReported
  BY BehaviourReport, PTL DEF Spec

-----------------------------------------------------------------------------
(* Who owns the GErrors                                                    *)

(* The one error allocated is that of app->error ...                       *)
Owned == live = {error} \ {0}

(* ... except while a thread replaces it.                                  *)
Replacing(t) ==
  /\ errorPc[t] = "free" => seen[t] = error /\ error # 0 /\ Owned
  /\ errorPc[t] = "null" => live = {}
  /\ errorPc[t] = "set" => error = 0 /\ live = {}

Settled == \A t \in Threads : errorPc[t] \in {"none", "clear", "quit"}

OneReporter == errorPc["main"] = "none" \/ errorPc["stream"] = "none"

OwnerInv ==
  /\ mainPc = "init" => error = 0 /\ live = {}
  /\ ~raced =>
       /\ ~doubleFree
       /\ OneReporter
       /\ Settled => Owned
       /\ \A t \in Threads : Replacing(t)

(* The other thread is not in app_error() unless the two have raced.       *)
LEMMA Alone ==
  ASSUME TypeOK, OwnerInv, ~raced, NEW t \in Threads, errorPc[t] # "none"
  PROVE  \A u \in Threads \ {t} : errorPc[u] = "none"
  BY DEF OwnerInv, OneReporter, Threads

LEMMA AppErrorOwner ==
  ASSUME TypeOK, PlaceInv, OwnerInv, NEW t \in Threads, AppError(t)
  PROVE  OwnerInv'
<1>. USE DEF TypeOK
<1>0. mainPc # "init" /\ mainPc' # "init"
  <2>1. mainPc # "init"
    BY AppErrorWhere
  <2>2. mainPc' \in {mainPc, "loop", "aborted"}
    BY DEF AppError, ClearLoad, ClearFree, ClearFreeAgain, ClearNull, SetError,
       QuitLoop, Goto, mainVars
  <2>. QED  BY <2>1, <2>2
<1>1. SUFFICES ASSUME ~raced
               PROVE  /\ ~doubleFree'
                      /\ OneReporter'
                      /\ Settled' => Owned'
                      /\ \A u \in Threads : Replacing(u)'
  <2>1. raced' = raced
    BY DEF AppError, ClearLoad, ClearFree, ClearFreeAgain, ClearNull, SetError,
       QuitLoop
  <2>. QED  BY <1>0, <2>1 DEF OwnerInv
<1>2. errorPc[t] # "none"
  BY DEF AppError, ClearLoad, ClearFree, ClearFreeAgain, ClearNull, SetError,
     QuitLoop
<1>3. \A u \in Threads \ {t} : errorPc[u] = "none" /\ errorPc'[u] = "none"
  <2>1. \A u \in Threads \ {t} : errorPc'[u] = errorPc[u]
    BY DEF AppError, ClearLoad, ClearFree, ClearFreeAgain, ClearNull, SetError,
       QuitLoop
  <2>. QED  BY <1>1, <1>2, <2>1, Alone
<1>4. OneReporter'
  BY <1>3, ThreadNames DEF OneReporter
<1>5. \A u \in Threads \ {t} : Replacing(u)'
  BY <1>3 DEF Replacing
<1>6. Settled <=> errorPc[t] \in {"none", "clear", "quit"}
  BY <1>3 DEF Settled
<1>7. ~doubleFree /\ (Settled => Owned) /\ Replacing(t)
  BY <1>1 DEF OwnerInv
<1>8. SUFFICES /\ ~doubleFree'
               /\ Settled' => Owned'
               /\ Replacing(t)'
  BY <1>4, <1>5
<1>9. CASE ClearLoad(t)
  <2>1. /\ seen'[t] = error /\ errorPc'[t] = FreeError
        /\ UNCHANGED <<error, live, doubleFree>> /\ errorPc[t] = "clear"
    BY <1>9 DEF ClearLoad
  <2>2. Owned
    BY <1>6, <1>7, <2>1
  <2>3. CASE error = 0
    BY <1>7, <2>1, <2>2, <2>3 DEF Owned, Replacing, FreeError
  <2>4. CASE error # 0
    BY <1>7, <2>1, <2>2, <2>4 DEF Owned, Replacing, FreeError
  <2>. QED  BY <2>3, <2>4
<1>10. CASE ClearFree(t)
  <2>1. /\ errorPc[t] = "free" /\ live' = live \ {seen[t]}
        /\ errorPc'[t] = "null" /\ UNCHANGED <<error, doubleFree>>
    BY <1>10 DEF ClearFree
  <2>2. seen[t] = error /\ live = {error} \ {0}
    BY <1>7, <2>1 DEF Replacing, Owned
  <2>3. live' = {}
    BY <2>1, <2>2
  <2>4. ~Settled'
    BY <2>1 DEF Settled
  <2>. QED  BY <1>7, <2>1, <2>3, <2>4 DEF Replacing
<1>11. CASE ClearFreeAgain(t)
  BY <1>7, <1>11 DEF ClearFreeAgain, Replacing, Owned
<1>12. CASE ClearNull(t)
  <2>1. /\ errorPc[t] = "null" /\ error' = 0 /\ errorPc'[t] = "set"
        /\ UNCHANGED <<live, doubleFree>>
    BY <1>12 DEF ClearNull
  <2>2. ~Settled'
    BY <2>1 DEF Settled
  <2>. QED  BY <1>7, <2>1, <2>2 DEF Replacing
<1>13. CASE SetError(t)
  <2>1. /\ errorPc[t] = "set" /\ errorPc'[t] = "quit"
        /\ error' = created + 1 /\ live' = live \cup {created + 1}
        /\ UNCHANGED doubleFree
    BY <1>13 DEF SetError, NewError
  <2>2. live = {} /\ created + 1 # 0
    BY <1>7, <2>1 DEF Replacing
  <2>3. Owned'
    BY <2>1, <2>2 DEF Owned
  <2>. QED  BY <1>7, <2>1, <2>3 DEF Replacing
<1>14. CASE QuitLoop(t)
  <2>1. /\ errorPc[t] = "quit" /\ errorPc'[t] = "none"
        /\ UNCHANGED <<error, live, doubleFree>>
    BY <1>14 DEF QuitLoop
  <2>. QED  BY <1>6, <1>7, <2>1 DEF Replacing, Owned
<1>. QED  BY <1>9, <1>10, <1>11, <1>12, <1>13, <1>14 DEF AppError

LEMMA RaiseOwner ==
  ASSUME TypeOK, OwnerInv, NEW t \in Threads, errorPc[t] = "none", Raise(t),
         mainPc' # "init"
  PROVE  OwnerInv'
<1>1. SUFFICES ASSUME ~raced'
               PROVE  OwnerInv'
  BY DEF OwnerInv
<1>2. /\ ~raced /\ \A u \in Threads : errorPc[u] = "none"
      /\ errorPc'[t] = "clear"
      /\ \A u \in Threads \ {t} : errorPc'[u] = "none"
      /\ UNCHANGED <<seen, error, live, doubleFree>>
  BY <1>1 DEF Raise, TypeOK
<1>3. ~doubleFree /\ Owned
  BY <1>2 DEF OwnerInv, Settled
<1>4. ~doubleFree' /\ Owned' /\ OneReporter' /\ \A u \in Threads : Replacing(u)'
  BY <1>2, <1>3, ThreadNames DEF Owned, OneReporter, Replacing
<1>. QED  BY <1>4 DEF OwnerInv

LEMMA NextOwner ==
  ASSUME TypeOK, PlaceInv, OwnerInv, [Next]_vars
  PROVE  OwnerInv'
<1>1. CASE /\ UNCHANGED errorVars
           /\ mainPc' = "init" => mainPc = "init"
  BY <1>1 DEF errorVars, OwnerInv, OneReporter, Settled, Owned, Replacing
<1>2. CASE InitFails
  <2>1. /\ mainPc = "init" /\ mainPc' = "finalize"
        /\ UNCHANGED <<errorPc, seen, raced, doubleFree>>
    BY <1>2 DEF InitFails, PipelineFails, AllocFails, EndInit
  <2>2. \A t \in Threads : errorPc[t] = "none"
    BY <2>1 DEF PlaceInv, Threads
  <2>3. error = 0 /\ live = {}
    BY <2>1 DEF OwnerInv
  <2>4. Owned'
    <3>1. CASE NewError
      <4>1. error' = created + 1 /\ live' = {created + 1} /\ created + 1 # 0
        BY <2>3, <3>1 DEF NewError, TypeOK
      <4>. QED  BY <4>1 DEF Owned
    <3>2. CASE UNCHANGED <<created, error, live>>
      BY <2>3, <3>2 DEF Owned
    <3>. QED  BY <1>2, <3>1, <3>2 DEF InitFails, PipelineFails, AllocFails
  <2>. QED
    BY <2>1, <2>2, <2>4, ThreadNames DEF OwnerInv, OneReporter, Replacing
<1>3. CASE Finalize
  <2>1. /\ mainPc = "finalize" /\ mainPc' = "end"
        /\ error' = 0 /\ live' = live \ {error}
        /\ UNCHANGED <<errorPc, seen, raced, doubleFree>>
    BY <1>3 DEF Finalize, Goto
  <2>2. \A t \in Threads : errorPc[t] = "none"
    BY <2>1 DEF PlaceInv, Threads
  <2>3. SUFFICES ASSUME ~raced
                 PROVE  OwnerInv'
    BY <2>1 DEF OwnerInv
  <2>4. ~doubleFree /\ Owned
    BY <2>2, <2>3 DEF OwnerInv, Settled
  <2>5. Owned'
    BY <2>1, <2>4 DEF Owned
  <2>. QED
    BY <2>1, <2>2, <2>4, <2>5, ThreadNames DEF OwnerInv, OneReporter, Replacing
<1>4. CASE DispatchError
  BY <1>4, RaiseOwner, ThreadNames
     DEF DispatchError, ReportError, Goto, PlaceInv
<1>5. CASE FailPicture
  BY <1>5, RaiseOwner, ThreadNames DEF FailPicture, PlaceInv, mainVars
<1>6. CASE AppError("main") \/ AppError("stream")
  BY <1>6, AppErrorOwner, ThreadNames
<1>7. CASE InitSucceeds \/ InitCrashes \/ SetPlaying \/ EnterLoop
           \/ Iterate \/ LeaveLoop \/ WakeUp \/ DispatchEos \/ Stop \/ Check
  BY <1>1, <1>7 DEF InitSucceeds, InitCrashes, SetPlaying, EnterLoop, Iterate,
     LeaveLoop, WakeUp, DispatchEos, Stop, Check, Goto
<1>8. CASE Handoff \/ UpdateInfo \/ HandleSurface \/ DropPicture \/ PostEos
           \/ PostError \/ UNCHANGED vars
  BY <1>1, <1>8 DEF Handoff, UpdateInfo, HandleSurface, DropPicture, PostEos,
     PostError, StreamBreaks, StreamGoesOn, ElementFails, vars, mainVars,
     errorVars
<1>. QED
  BY <1>2, <1>3, <1>4, <1>5, <1>6, <1>7, <1>8
     DEF Next, Main, Initialize, Run, Stream, Terminated

LEMMA BehaviourOwner == Behaviour => []ErrorOwnership
<1>1. Init => OwnerInv
  <2>1. Init => /\ error = 0 /\ live = {} /\ ~doubleFree
                /\ \A t \in Threads : errorPc[t] = "none"
    BY DEF Init
  <2>. QED
    BY <2>1, ThreadNames DEF OwnerInv, OneReporter, Owned, Replacing
<1>2. TypeOK /\ PlaceInv /\ OwnerInv /\ [Next]_vars => OwnerInv'
  BY NextOwner
<1>3. Behaviour => [](TypeOK /\ PlaceInv /\ OwnerInv)
  BY <1>1, <1>2, InitPlace, NextPlace, BehaviourType, PTL DEF Behaviour
<1>4. OwnerInv => ErrorOwnership
  BY DEF OwnerInv, ErrorOwnership, Settled, Owned
<1>. QED  BY <1>3, <1>4, PTL

(* As long as the two threads have not been in app_error() at once, no     *)
(* GError is freed twice, and the one allocated is that of app->error:     *)
(* for any stream, any errors and any interleaving.                        *)
THEOREM ErrorsAreOwned == Spec => []ErrorOwnership
  BY BehaviourOwner, PTL DEF Spec

-----------------------------------------------------------------------------
(* A whole run                                                             *)


LEMMA SessionMainMaps ==
  ASSUME SessionMain
  PROVE  [Next]_vars
<1>1. CASE SetUpPipeline
  BY <1>1 DEF SetUpPipeline
<1>2. CASE SetUpEnds
  <2>1. Initialize
    BY <1>2 DEF SetUpEnds, LoopFails, InitFails, Initialize
  <2>. QED  BY <2>1 DEF Next, Main
<1>3. CASE Run
  BY <1>3 DEF Next, Main
<1>. QED  BY <1>1, <1>2, <1>3 DEF SessionMain

LEMMA SessionStreamMaps ==
  ASSUME SessionStream
  PROVE  [Next]_vars
<1>1. CASE PlugElements
  BY <1>1 DEF PlugElements
<1>2. CASE GiveUp
  <2>1. PostError
    BY <1>2 DEF GiveUp, PostError
  <2>. QED  BY <2>1 DEF Next
<1>3. CASE TakePictures
  <2>1. Stream
    BY <1>3 DEF TakePictures, Stream
  <2>. QED  BY <2>1 DEF Next
<1>. QED  BY <1>1, <1>2, <1>3 DEF SessionStream

(* A run of the decoder with its options, its pipeline and decodebin does  *)
(* to the two threads nothing that GstDecoder does not: each step is one   *)
(* of theirs or leaves them alone.                                         *)
THEOREM SessionImplementsDecoder == SessionSpec => Behaviour
<1>1. SessionInit => Init
  BY DEF SessionInit
<1>2. [SessionNext]_sessionVars => [Next]_vars
  <2>1. CASE SessionMain
    BY <2>1, SessionMainMaps
  <2>2. CASE SessionStream
    BY <2>2, SessionStreamMaps
  <2>3. CASE PostError \/ Terminated
    BY <2>3 DEF Next
  <2>4. CASE UNCHANGED sessionVars
    BY <2>4 DEF sessionVars
  <2>. QED  BY <2>1, <2>2, <2>3, <2>4 DEF SessionNext
<1>. QED  BY <1>1, <1>2, PTL DEF SessionSpec, Behaviour

(* A run that succeeds met no error in either thread and took every        *)
(* picture of the decoder that decodebin has found.                        *)
THEOREM SessionReportsErrors == SessionSpec => []FailureReported
  BY SessionImplementsDecoder, BehaviourReport, PTL

(* In a whole run, too, the one GError allocated is that of app->error, as *)
(* long as both threads have not been in app_error() at once.              *)
THEOREM SessionOwnsErrors == SessionSpec => []ErrorOwnership
  BY SessionImplementsDecoder, BehaviourOwner, PTL

(* In a whole run, too, no picture is handled once app->error has been     *)
(* looked at.                                                              *)
THEOREM SessionHandoffsEnd == SessionSpec => []NoLateHandoff
  BY SessionImplementsDecoder, BehaviourPlace, PTL

-----------------------------------------------------------------------------
(* What decodebin plugs                                                    *)

VideoParsers == {f \in Range(plugged) : IsVideoParser(f) /\ f.media = "video"}

(* The parser in use is the only one, and decides what the stream is until *)
(* a decoder takes it.                                                     *)
PlugInv ==
  /\ plugged \in Seq(ElementFactories) /\ offers \in Seq(ElementFactories)
  /\ \A f \in VideoParsers :
       /\ f.name = vparse
       /\ vparseName # {} => f.name \in vparseName
       /\ stream # "raw" =>
            stream \in f.makes /\ (vparseFilter # {} => stream \in vparseFilter)
  /\ PluggedAsAsked

(* Nothing is plugged before decoder_init() has returned.                  *)
StartInv == mainPc = "init" => plugged = <<>> /\ stream # "raw"

LEMMA RangeOfAppend ==
  ASSUME NEW S, NEW s \in Seq(S), NEW e \in S
  PROVE  /\ Range(Append(s, e)) = Range(s) \cup {e}
         /\ Append(s, e)[Len(Append(s, e))] = e
         /\ Range(s) \subseteq S
<1>1. \A i \in 1..Len(s) : Append(s, e)[i] = s[i]
  OBVIOUS
<1>2. Len(Append(s, e)) = Len(s) + 1 /\ Append(s, e)[Len(s) + 1] = e
  OBVIOUS
<1>3. DOMAIN s = 1..Len(s) /\ DOMAIN Append(s, e) = 1..(Len(s) + 1)
  BY <1>2
<1>4. 1..(Len(s) + 1) = 1..Len(s) \cup {Len(s) + 1}
  OBVIOUS
<1>5. Range(Append(s, e)) = Range(s) \cup {e}
  BY <1>1, <1>2, <1>3, <1>4 DEF Range
<1>. QED  BY <1>2, <1>3, <1>5 DEF Range

LEMMA FactoryKinds ==
  ASSUME NEW f \in ElementFactories, Wanted(f)
  PROVE  IsVideoParser(f) \/ IsVideoDecoder(f)
  BY GstPipelineAssumption DEF Wanted, IsVideoParser, IsVideoDecoder

(* A parser is wanted, for a stream that none has shaped.                  *)
LEMMA ParserIsFirst ==
  ASSUME PlugInv, stream # "raw", NEW f \in ElementFactories,
         IsVideoParser(f), Takes(f), Wanted(f)
  PROVE  VideoParsers = {}
<1>1. CASE f.media = "video"
  <2>1. vparse = "none"
    BY <1>1 DEF Wanted, ParserWanted, IsVideoParser
  <2>2. \A g \in VideoParsers : g.name # "none" /\ g.name = vparse
    BY GstPipelineAssumption, RangeOfAppend DEF PlugInv, VideoParsers, Range
  <2>. QED  BY <2>1, <2>2
<1>2. CASE f.media = "image"
  <2>1. \A g \in VideoParsers : g \in ElementFactories /\ stream \in g.makes
     \cap f.takes
    BY DEF PlugInv, VideoParsers, Range, Takes
  <2>2. \A g \in VideoParsers : IsVideoParser(g) /\ g.media = "video"
    BY DEF VideoParsers
  <2>. QED  BY <1>2, <2>1, <2>2, GstPipelineAssumption
<1>. QED  BY <1>1, <1>2 DEF IsVideoParser

LEMMA AutoplugKeeps ==
  ASSUME PlugInv, Autoplug
  PROVE  PlugInv'
<1>. stream # "raw" /\ UNCHANGED <<hwaccel, vparseName, vparseFilter>>
  BY DEF Autoplug, SkipFactory, PlugFactory, FactoryFails, optionVars
<1>1. offers' \in Seq(ElementFactories)
  <2>1. offers \in Seq(ElementFactories) /\ Factories \in Seq(ElementFactories)
    BY GstPipelineAssumption DEF PlugInv
  <2>2. offers # <<>> /\ (offers' = Tail(offers) \/ offers' = Factories)
    BY DEF Autoplug, SkipFactory, PlugFactory, FactoryFails
  <2>3. offers # <<>> => Tail(offers) \in Seq(ElementFactories)
    BY <2>1
  <2>. QED  BY <2>1, <2>2, <2>3
<1>2. CASE SkipFactory
  <2>1. UNCHANGED <<plugged, stream, vparse, vdecode>>
    BY <1>2 DEF SkipFactory
  <2>. QED  BY <1>1, <2>1 DEF PlugInv, PluggedAsAsked, VideoParsers
<1>3. ASSUME NEW f \in ElementFactories, Takes(f), Wanted(f), ElementAdded(f),
             UNCHANGED <<plugged, stream>>
      PROVE  PlugInv'
  <2>1. VideoParsers' = VideoParsers
    BY <1>3 DEF VideoParsers
  <2>2. CASE IsVideoParser(f)
    <3>1. VideoParsers' = {}
      BY <1>3, <2>1, <2>2, ParserIsFirst
    <3>. QED  BY <1>1, <1>3, <3>1 DEF PlugInv, PluggedAsAsked
  <2>3. CASE ~IsVideoParser(f)
    <3>1. vparse' = vparse
      BY <1>3, <2>3 DEF ElementAdded
    <3>. QED  BY <1>1, <1>3, <2>1, <3>1 DEF PlugInv, PluggedAsAsked
  <2>. QED  BY <2>2, <2>3
<1>4. ASSUME NEW f \in ElementFactories, Takes(f), Wanted(f), ElementAdded(f),
             stream' \in Makes(f), plugged' = Append(plugged, f)
      PROVE  PlugInv'
  <2>1. /\ plugged' \in Seq(ElementFactories)
        /\ Range(plugged') = Range(plugged) \cup {f}
        /\ plugged'[Len(plugged')] = f
    BY <1>4, RangeOfAppend DEF PlugInv
  <2>2. stream' \in f.makes
    BY <1>4 DEF Makes
  <2>3. CASE IsVideoParser(f)
    <3>1. ~IsVideoDecoder(f) /\ stream' # "raw"
      BY <2>2, <2>3, GstPipelineAssumption DEF IsVideoParser, IsVideoDecoder
    <3>2. VideoParsers' \subseteq {f}
      BY <1>4, <2>1, <2>3, ParserIsFirst DEF VideoParsers
    <3>3. vparse' = f.name
      BY <1>4, <2>3 DEF ElementAdded
    <3>4. vparseFilter # {} => stream' \in vparseFilter
      BY <1>4, <2>3, <3>3 DEF Makes
    <3>5. f.media = "video" /\ vparseName # {} => f.name \in vparseName
      BY <1>4, <2>3 DEF Wanted, ParserWanted, IsVideoParser
    <3>6. \A g \in VideoParsers' : g = f /\ f.media = "video"
      BY <3>2 DEF VideoParsers
    <3>. QED
      BY <1>1, <2>1, <2>2, <3>1, <3>3, <3>4, <3>5, <3>6 DEF PlugInv,
         PluggedAsAsked
  <2>4. CASE IsVideoDecoder(f)
    <3>1. ~IsVideoParser(f) /\ stream' = "raw"
      BY <2>2, <2>4, GstPipelineAssumption DEF IsVideoParser, IsVideoDecoder
    <3>2. VideoParsers' = VideoParsers
      BY <2>1, <3>1 DEF VideoParsers
    <3>3. vparse' = vparse /\ vdecode' = f.decoder
      BY <1>4, <2>4, <3>1 DEF ElementAdded
    <3>4. f.vaapi = (hwaccel = "vaapi")
      BY <1>4, <2>4 DEF Wanted, DecoderWanted
    <3>5. \A g \in VideoParsers' :
            /\ g.name = vparse'
            /\ vparseName # {} => g.name \in vparseName
            /\ vparseFilter # {} => f.takes \cap g.makes \cap vparseFilter # {}
      BY <1>4, <3>2, <3>3 DEF PlugInv, Takes
    <3>6. PluggedAsAsked'
      BY <2>1, <2>4, <3>3, <3>4, <3>5 DEF PluggedAsAsked, VideoParsers
    <3>. QED  BY <1>1, <2>1, <3>1, <3>5, <3>6 DEF PlugInv
  <2>. QED  BY <1>4, <2>3, <2>4, FactoryKinds
<1>5. CASE PlugFactory \/ FactoryFails
  <2>1. Head(offers) \in ElementFactories
    BY <1>5 DEF PlugInv, PlugFactory, FactoryFails
  <2>. QED  BY <1>3, <1>4, <1>5, <2>1 DEF PlugFactory, FactoryFails
<1>. QED  BY <1>2, <1>5 DEF Autoplug

LEMMA NothingPlugged ==
  ASSUME plugged = <<>>, stream # "raw", offers \in Seq(ElementFactories)
  PROVE  PlugInv
<1>1. plugged \in Seq(ElementFactories) /\ VideoParsers = {}
  BY DEF VideoParsers, Range
<1>. QED  BY <1>1 DEF PlugInv, PluggedAsAsked

LEMMA SetUpKeeps ==
  ASSUME StartInv, PlugInv, SetUpPipeline
  PROVE  StartInv' /\ PlugInv'
<1>1. UNCHANGED pluggedVars /\ mainPc = "init"
  <2>1. SetUp /\ mainPc = "init"
    BY DEF SetUpPipeline
  <2>2. CASE ParseOption \/ MakeElements \/ InitConvert
    BY <2>1, <2>2 DEF ParseOption, MakeElements, InitConvert
  <2>3. CASE \E n \in Scalers : InitScale(n)
    BY <2>1, <2>3 DEF InitScale
  <2>4. CASE InitSink \/ Connect \/ InitBus \/ InitWinsys
    BY <2>1, <2>4 DEF InitSink, Connect, InitBus, InitWinsys
  <2>5. CASE SetupFails \/ SinkFails
    BY <2>1, <2>5 DEF SetupFails, SinkFails
  <2>. QED  BY <2>1, <2>2, <2>3, <2>4, <2>5 DEF SetUp
<1>2. plugged' = <<>> /\ stream' # "raw" /\ offers' \in Seq(ElementFactories)
  BY <1>1 DEF pluggedVars, StartInv, PlugInv
<1>3. plugged' \in Seq(ElementFactories) /\ VideoParsers' = {}
  BY <1>2 DEF VideoParsers, Range
<1>4. PlugInv'
  BY <1>2, <1>3 DEF PlugInv, PluggedAsAsked
<1>. QED  BY <1>2, <1>4 DEF StartInv

(* decoder_init() is called once.                                          *)
LEMMA InitOnce ==
  ASSUME [Next]_vars, mainPc' = "init"
  PROVE  mainPc = "init"
  BY DEF Next, Main, Initialize, Run, Stream, AppError, Terminated,
     InitSucceeds, InitFails, PipelineFails, AllocFails, EndInit, InitCrashes,
     SetPlaying, EnterLoop, Iterate, LeaveLoop, WakeUp, DispatchEos,
     DispatchError, Stop, Check, Finalize, ClearLoad, ClearFree,
     ClearFreeAgain, ClearNull, SetError, QuitLoop, Handoff, UpdateInfo,
     HandleSurface, DropPicture, FailPicture, PostEos, PostError,
     StreamBreaks, StreamGoesOn, ElementFails, Goto, vars, mainVars

LEMMA SessionKeeps ==
  ASSUME StartInv, PlugInv, PlaceInv, [SessionNext]_sessionVars
  PROVE  StartInv' /\ PlugInv'
<1>1. [Next]_vars
  <2>1. CASE PostError \/ Terminated
    BY <2>1 DEF Next
  <2>2. CASE UNCHANGED sessionVars
    BY <2>2 DEF sessionVars
  <2>. QED  BY <2>1, <2>2, SessionMainMaps, SessionStreamMaps DEF SessionNext
<1>2. CASE PlugElements
  <2>1. mainPc # "init" /\ mainPc' = mainPc
    BY <1>2 DEF PlugElements, PlaceInv, vars, mainVars
  <2>. QED  BY <1>2, <2>1, AutoplugKeeps DEF PlugElements, StartInv
<1>3. CASE UNCHANGED pipelineVars
  <2>1. UNCHANGED <<hwaccel, vparseName, vparseFilter, stream, offers, plugged,
                    vparse, vdecode>>
    BY <1>3 DEF pipelineVars, optionVars, pluggedVars
  <2>2. PlugInv'
    BY <2>1 DEF PlugInv, PluggedAsAsked, VideoParsers
  <2>. QED  BY <1>1, <2>1, <2>2, InitOnce DEF StartInv
<1>. QED
  BY <1>2, <1>3, SetUpKeeps DEF SessionNext, SessionMain, SessionStream,
     SetUpEnds, GiveUp, TakePictures, sessionVars

(* Whatever elements are installed, in whatever order and whichever of     *)
(* them fail, and whatever is asked for: pictures come from a decoder of   *)
(* the kind asked for, behind a parser that was asked for, and the         *)
(* decoder that is asked for codec and profile is the one they come from.  *)
THEOREM PlugsWhatIsAsked == SessionSpec => []PluggedAsAsked
<1>1. SessionInit => StartInv /\ PlugInv
  <2>1. SessionInit => /\ plugged = <<>> /\ stream # "raw"
                       /\ offers \in Seq(ElementFactories)
    BY GstPipelineAssumption DEF SessionInit, PipelineInit
  <2>. QED  BY <2>1, NothingPlugged DEF StartInv
<1>2. SessionSpec => []PlaceInv
  BY SessionImplementsDecoder, BehaviourPlace, PTL
<1>3. PlugInv => PluggedAsAsked
  BY DEF PlugInv
<1>. QED  BY <1>1, <1>2, <1>3, SessionKeeps, PTL DEF SessionSpec
-----------------------------------------------------------------------------
(* What the options make of the pipeline                                   *)

(* A set of natural numbers that has 0, and the successor of whatever it   *)
(* has, has them all: of a member missing, there would be as many in front *)
(* of it as there are without 0.                                           *)
LEMMA Induction ==
  ASSUME NEW D \in SUBSET Nat, 0 \in D, \A n \in D : n + 1 \in D
  PROVE  D = Nat
<1>1. SUFFICES ASSUME NEW b \in Nat, b \notin D PROVE FALSE
  OBVIOUS
<1>. DEFINE E == D \cap 0..b
            f == [n \in E |-> n + 1]
<1>2. IsFiniteSet(E)
  <2>1. IsFiniteSet(0..b)
    BY FS_Interval
  <2>. QED  BY <2>1, FS_Subset
<1>3. f \in Injection(E, E \ {0})
  <2>1. \A n \in E : n + 1 \in E \ {0}
    BY <1>1
  <2>2. f \in [E -> E \ {0}]
    BY <2>1
  <2>3. \A j, k \in E : f[j] = f[k] => j = k
    OBVIOUS
  <2>. HIDE DEF f
  <2>. QED  BY <2>2, <2>3 DEF Injection, IsInjective
<1>4. IsFiniteSet(E \ {0}) /\ Cardinality(E \ {0}) = Cardinality(E) - 1
  <2>1. 0 \in E
    OBVIOUS
  <2>. HIDE DEF E
  <2>. QED  BY <1>2, <2>1, FS_RemoveElement
<1>5. Cardinality(E) \in Nat
  BY <1>2, FS_CardinalityType
<1>6. Cardinality(E) <= Cardinality(E \ {0})
  BY <1>3, <1>4, FS_Injection
<1>. QED  BY <1>4, <1>5, <1>6

(* The function by whose recursion Present is defined.                     *)
IsUpTo(f, requests, nothing, n) ==
  f = [i \in 0..n |->
         IF i = 0 THEN <<>>
         ELSE IF requests[i] = nothing THEN f[i - 1]
         ELSE Append(f[i - 1], requests[i])]

(* The recursion has a solution for every length ...                       *)
LEMMA UpToExists ==
  ASSUME NEW requests, NEW nothing, NEW m \in Nat
  PROVE  \E f : IsUpTo(f, requests, nothing, m)
<1>. DEFINE D == {n \in Nat : \E f : IsUpTo(f, requests, nothing, n)}
<1>1. 0 \in D
  <2>1. IsUpTo([i \in 0..0 |-> <<>>], requests, nothing, 0)
    BY DEF IsUpTo
  <2>. QED  BY <2>1
<1>2. ASSUME NEW n \in D
      PROVE  n + 1 \in D
  <2>1. n \in Nat /\ n + 1 \in Nat
    OBVIOUS
  <2>2. PICK f : IsUpTo(f, requests, nothing, n)
    OBVIOUS
  <2>. DEFINE g == [i \in 0..n + 1 |->
                      IF i <= n THEN f[i]
                      ELSE IF requests[i] = nothing THEN f[i - 1]
                      ELSE Append(f[i - 1], requests[i])]
  <2>3. IsUpTo(g, requests, nothing, n + 1)
    <3>1. \A i \in 0..n : g[i] = f[i]
      BY <2>1
    <3>2. \A i \in 0..n : i # 0 => i - 1 \in 0..n
      BY <2>1
    <3>3. \A i \in 0..n : g[i] = IF i = 0 THEN <<>>
                                 ELSE IF requests[i] = nothing THEN g[i - 1]
                                 ELSE Append(g[i - 1], requests[i])
      <4>1. \A i \in 0..n : f[i] = IF i = 0 THEN <<>>
                                   ELSE IF requests[i] = nothing THEN f[i - 1]
                                   ELSE Append(f[i - 1], requests[i])
        BY <2>2 DEF IsUpTo
      <4>. HIDE DEF g
      <4>. QED  BY <3>1, <3>2, <4>1
    <3>4. g[n + 1] = IF requests[n + 1] = nothing THEN g[n]
                     ELSE Append(g[n], requests[n + 1])
      BY <2>1
    <3>5. DOMAIN g = 0..n + 1 /\ g = [i \in 0..n + 1 |-> g[i]]
      OBVIOUS
    <3>6. \A i \in 0..n + 1 : i \in 0..n \/ (i = n + 1 /\ i # 0 /\ i - 1 = n)
      BY <2>1
    <3>. HIDE DEF g
    <3>7. \A i \in 0..n + 1 : g[i] = IF i = 0 THEN <<>>
                                 ELSE IF requests[i] = nothing THEN g[i - 1]
                                 ELSE Append(g[i - 1], requests[i])
      BY <3>3, <3>4, <3>6
    <3>. QED  BY <3>5, <3>7 DEF IsUpTo
  <2>. HIDE DEF g
  <2>. QED  BY <2>1, <2>3
<1>3. D = Nat
  <2>. HIDE DEF D
  <2>1. D \in SUBSET Nat
    BY DEF D
  <2>. QED  BY <1>1, <1>2, <2>1, Induction
<1>. QED  BY <1>3

(* ... which the requests determine.                                       *)
LEMMA UpToIsOne ==
  ASSUME NEW v, NEW w, NEW nothing, NEW n \in Nat, NEW m \in Nat, n <= m,
         \A i \in 1..n : v[i] = w[i],
         NEW f, IsUpTo(f, v, nothing, n), NEW g, IsUpTo(g, w, nothing, m)
  PROVE  f[n] = g[n]
<1>. DEFINE D == {k \in Nat : k <= n => f[k] = g[k]}
<1>1. \A i \in 0..n : f[i] = IF i = 0 THEN <<>>
                             ELSE IF v[i] = nothing THEN f[i - 1]
                             ELSE Append(f[i - 1], v[i])
  BY DEF IsUpTo
<1>2. \A i \in 0..m : g[i] = IF i = 0 THEN <<>>
                             ELSE IF w[i] = nothing THEN g[i - 1]
                             ELSE Append(g[i - 1], w[i])
  BY DEF IsUpTo
<1>3. 0 \in D
  <2>1. 0 \in 0..n /\ 0 \in 0..m
    OBVIOUS
  <2>. QED  BY <1>1, <1>2, <2>1
<1>4. ASSUME NEW k \in D
      PROVE  k + 1 \in D
  <2>1. k \in Nat /\ k + 1 \in Nat
    OBVIOUS
  <2>2. CASE ~(k + 1 <= n)
    BY <2>1, <2>2
  <2>3. CASE k + 1 <= n
    <3>1. k + 1 \in 1..n /\ k + 1 \in 0..n /\ k + 1 \in 0..m /\ k <= n /\ k + 1 # 0
          /\ k + 1 - 1 = k
      BY <2>1, <2>3
    <3>2. f[k] = g[k] /\ v[k + 1] = w[k + 1]
      BY <3>1
    <3>3. f[k + 1] = g[k + 1]
      BY <1>1, <1>2, <3>1, <3>2
    <3>. QED  BY <2>1, <3>3
  <2>. QED  BY <2>2, <2>3
<1>5. D = Nat
  <2>. HIDE DEF D
  <2>1. D \in SUBSET Nat
    BY DEF D
  <2>. QED  BY <1>3, <1>4, <2>1, Induction
<1>. QED  BY <1>5

(* Present is what the function says of the last request.                  *)
LEMMA PresentIs ==
  ASSUME NEW S, NEW v \in Seq(S), NEW nothing
  PROVE  \E f : IsUpTo(f, v, nothing, Len(v)) /\ Present(v, nothing) = f[Len(v)]
<1>. DEFINE f == CHOOSE f : IsUpTo(f, v, nothing, Len(v))
<1>1. Len(v) \in Nat
  OBVIOUS
<1>2. IsUpTo(f, v, nothing, Len(v))
  BY <1>1, UpToExists
<1>3. Present(v, nothing) = f[Len(v)]
  BY DEF Present, IsUpTo
<1>. QED  BY <1>2, <1>3

LEMMA PresentEmpty ==
  ASSUME NEW nothing
  PROVE  Present(<<>>, nothing) = <<>>
<1>1. <<>> \in Seq({}) /\ Len(<<>>) = 0
  OBVIOUS
<1>2. PICK f : IsUpTo(f, <<>>, nothing, 0) /\ Present(<<>>, nothing) = f[0]
  BY <1>1, PresentIs
<1>3. 0 \in 0..0
  OBVIOUS
<1>. QED  BY <1>2, <1>3 DEF IsUpTo

LEMMA PresentAppend ==
  ASSUME NEW S, NEW v \in Seq(S), NEW e \in S, NEW nothing
  PROVE  Present(Append(v, e), nothing) =
           IF e = nothing THEN Present(v, nothing)
           ELSE Append(Present(v, nothing), e)
<1>. DEFINE w == Append(v, e)
            n == Len(v)
<1>1. /\ n \in Nat /\ n + 1 \in Nat /\ n <= n + 1 /\ n + 1 \in 0..n + 1
      /\ n + 1 # 0 /\ n + 1 - 1 = n
  OBVIOUS
<1>2. /\ w \in Seq(S) /\ Len(w) = n + 1 /\ w[n + 1] = e
      /\ \A i \in 1..n : v[i] = w[i]
  OBVIOUS
<1>3. PICK f : IsUpTo(f, v, nothing, n) /\ Present(v, nothing) = f[n]
  BY PresentIs
<1>. HIDE DEF w
<1>4. PICK g : IsUpTo(g, w, nothing, n + 1) /\ Present(w, nothing) = g[n + 1]
  BY <1>2, PresentIs
<1>. HIDE DEF n
<1>5. f[n] = g[n]
  BY <1>1, <1>2, <1>3, <1>4, UpToIsOne
<1>6. g[n + 1] = IF w[n + 1] = nothing THEN g[n] ELSE Append(g[n], w[n + 1])
  <2>1. \A i \in 0..n + 1 : g[i] = IF i = 0 THEN <<>>
                                   ELSE IF w[i] = nothing THEN g[i - 1]
                                   ELSE Append(g[i - 1], w[i])
    BY <1>4 DEF IsUpTo
  <2>. QED  BY <1>1, <2>1
<1>7. Present(w, nothing) = IF e = nothing THEN Present(v, nothing)
                            ELSE Append(Present(v, nothing), e)
  BY <1>2, <1>3, <1>4, <1>5, <1>6
<1>. QED  BY <1>7 DEF w

AllSizes ==
  {NoSize} \cup
  {option.value : option \in {o \in UNION {Range(list) : list \in OptionLists} :
                               o.key = "vscale"}}

AllFormats == GstVideoFormats \cup {"none"}

AllFactories ==
  {"filesrc", "decodebin", "fakesink", "videoconvert", "videoscale", "capsfilter",
   "vaapipostproc"}

Made == [factory : AllFactories, format : AllFormats, size : AllSizes]

(* The options seen so far that convert, or scale by the nth scaler.       *)
Converts == {i \in 1..parsed : arguments[i].key = "vconvert"}

Scales(n) ==
  {i \in 1..parsed : arguments[i].key = "vscale" /\ Scaler(arguments[i].number) = n}

IsLast(i, at) == i \in at /\ \A j \in at : j <= i

(* What is stored is what the last of them says.                           *)
OptionsInv ==
  /\ hwaccel \in {"none", "vaapi"} /\ arguments \in OptionLists
  /\ parsed \in 0..Len(arguments) /\ refused \in BOOLEAN
  /\ setup # "options" => parsed = Len(arguments)
  /\ vscale \in [Scalers -> [size : AllSizes, valid : BOOLEAN]]

ConvertInv ==
  ~refused =>
    \/ Converts = {} /\ vconvert = "none"
    \/ \E i \in Converts : /\ IsLast(i, Converts)
                           /\ vconvert = arguments[i].value /\ vconvert # "none"

ScaleInv ==
  ~refused =>
    \A n \in Scalers :
      \/ Scales(n) = {} /\ ~vscale[n].valid
      \/ /\ vscale[n].valid /\ vscale[n].size.width # 0 /\ vscale[n].size.height # 0
         /\ \E i \in Scales(n) :
              IsLast(i, Scales(n)) /\ vscale[n].size = arguments[i].value

(* The chain is in the order in which its elements are made.               *)
Line == {<<i, i + 1>> : i \in 4..Len(elements) - 1}

ToSink == IF Len(elements) = 3 THEN {} ELSE {<<Len(elements), Vsink>>}

Stages == {"convert", "scale0", "scale1", "sink"}

Connected == {"bus", "winsys", "ready"}

LinksInv ==
  /\ setup \in {"options"} \cup Stages \cup {"connect"} \cup Connected
               \cup {"failed", "crashed"}
  /\ setup \in Stages \cup {"connect"} \cup Connected =>
       /\ elements \in Seq(Made) /\ Len(elements) >= 3
       /\ elements[Vsink].size = NoSize /\ elements[Vsink].format = "none"
  /\ setup \in {"options", "convert"} =>
       postproc = 0 /\ postprocHead = 0 /\ links = {}
  /\ setup \in Stages =>
       /\ links = Line
       /\ IF Len(elements) = 3 THEN postproc = 0 /\ postprocHead = 0
          ELSE postproc = Len(elements) /\ postprocHead = 4
  /\ setup \in {"connect"} \cup Connected =>
       postprocHead = IF Len(elements) = 3 THEN Vsink ELSE 4
  /\ setup = "connect" => links = Line \cup ToSink
  /\ setup \in Connected => links = Line \cup ToSink \cup {<<Source, Decodebin>>}

(* The vaapipostproc of a conversion is there to be asked for a size.      *)
NoVaapipostproc == vapostproc = [n \in Scalers |-> 0] /\ vapostprocMask = {}

VaapipostprocInv ==
  /\ setup \in {"options", "convert"} => NoVaapipostproc
  /\ setup = "convert" => Len(elements) = 3
  /\ setup = "scale0" =>
       IF hwaccel = "vaapi" /\ vconvert # "none"
         THEN /\ Len(elements) = 4
              /\ vapostproc = [n \in Scalers |-> IF n = 0 THEN 4 ELSE 0]
              /\ vapostprocMask = {0}
              /\ elements[4].format = vconvert /\ elements[4].size = NoSize
         ELSE NoVaapipostproc /\ (hwaccel = "vaapi" => Len(elements) = 3)
  /\ setup = "scale1" => vapostproc[1] = 0 /\ 1 \notin vapostprocMask

(* What the chain is asked for, before the sink.                           *)
SizesOf(es) == [i \in 1..Len(es) - 3 |-> es[i + 3].size]

FormatsOf(es) == [i \in 1..Len(es) - 3 |-> es[i + 3].format]

ScaleWanted(n) ==
  vscale[n].valid /\ vscale[n].size.width # 0 /\ vscale[n].size.height # 0

SizeWanted(n) == IF ScaleWanted(n) THEN <<vscale[n].size>> ELSE <<>>

ConvertWanted == IF vconvert = "none" THEN <<>> ELSE <<vconvert>>

FormatWanted ==
  IF vconvert = "none" /\ hwaccel = "vaapi" /\ ScaleWanted(0) THEN <<"NV12">>
  ELSE ConvertWanted

RequestsInv ==
  LET sizes == Present(SizesOf(elements), NoSize)
      formats == Present(FormatsOf(elements), "none")
  IN  /\ setup = "scale0" => sizes = <<>> /\ formats = ConvertWanted
      /\ setup = "scale1" => sizes = SizeWanted(0) /\ formats = FormatWanted
      /\ setup \in {"sink", "connect"} \cup Connected =>
           sizes = SizeWanted(0) \o SizeWanted(1) /\ formats = FormatWanted
      /\ setup \in {"scale0", "scale1", "sink", "connect"} \cup Connected =>
           vconvert \in AllFormats

LEMMA ElementIsMade ==
  ASSUME NEW factory \in AllFactories
  PROVE  /\ Element(factory) \in Made
         /\ Element(factory).format = "none" /\ Element(factory).size = NoSize
  BY DEF Element, Made, AllFormats, AllSizes

LEMMA AskedIsMade ==
  ASSUME NEW e \in Made, NEW format \in AllFormats, NEW size \in AllSizes
  PROVE  /\ Asked(e, format, size) \in Made
         /\ Asked(e, format, size).format = IF format = "none" THEN e.format ELSE format
         /\ Asked(e, format, size).size = IF size = NoSize THEN e.size ELSE size
  BY DEF Asked, Made

(* One element more.                                                       *)
LEMMA RequestsAppend ==
  ASSUME NEW es \in Seq(Made), Len(es) >= 3, NEW e \in Made
  PROVE  /\ SizesOf(es) \in Seq(AllSizes) /\ FormatsOf(es) \in Seq(AllFormats)
         /\ SizesOf(Append(es, e)) = Append(SizesOf(es), e.size)
         /\ FormatsOf(Append(es, e)) = Append(FormatsOf(es), e.format)
<1>. DEFINE n == Len(es) - 3
            fs == Append(es, e)
<1>1. n \in Nat /\ Len(es) = n + 3
  OBVIOUS
<1>2. /\ Len(fs) = n + 4 /\ fs[n + 4] = e
      /\ \A i \in 1..n : fs[i + 3] = es[i + 3] /\ es[i + 3] \in Made
  BY <1>1
<1>3. e.size \in AllSizes /\ e.format \in AllFormats
      /\ \A i \in 1..n : es[i + 3].size \in AllSizes /\ es[i + 3].format \in AllFormats
  BY <1>2 DEF Made
<1>4. SizesOf(es) = [i \in 1..n |-> es[i + 3].size]
      /\ FormatsOf(es) = [i \in 1..n |-> es[i + 3].format]
  BY DEF SizesOf, FormatsOf
<1>. HIDE DEF fs
<1>5. SizesOf(fs) = [i \in 1..n + 1 |-> fs[i + 3].size]
      /\ FormatsOf(fs) = [i \in 1..n + 1 |-> fs[i + 3].format]
  BY <1>1, <1>2 DEF SizesOf, FormatsOf
<1>. HIDE DEF n
<1>6. SizesOf(es) \in Seq(AllSizes) /\ FormatsOf(es) \in Seq(AllFormats)
  BY <1>1, <1>3, <1>4
<1>7. Len(SizesOf(es)) = n /\ Len(FormatsOf(es)) = n
  BY <1>1, <1>4
<1>8. SizesOf(fs) = Append(SizesOf(es), e.size)
  <2>1. SizesOf(fs) \in Seq(AllSizes) /\ Len(SizesOf(fs)) = n + 1
    <3>1. \A i \in 1..n + 1 : fs[i + 3].size \in AllSizes
      BY <1>1, <1>2, <1>3
    <3>. QED  BY <1>1, <1>5, <3>1
  <2>2. Append(SizesOf(es), e.size) \in Seq(AllSizes)
        /\ Len(Append(SizesOf(es), e.size)) = n + 1
    BY <1>3, <1>6, <1>7
  <2>3. \A i \in 1..n + 1 : SizesOf(fs)[i] = Append(SizesOf(es), e.size)[i]
    BY <1>1, <1>2, <1>3, <1>4, <1>5, <1>6, <1>7
  <2>. QED  BY <2>1, <2>2, <2>3, SeqEqual
<1>9. FormatsOf(fs) = Append(FormatsOf(es), e.format)
  <2>1. FormatsOf(fs) \in Seq(AllFormats) /\ Len(FormatsOf(fs)) = n + 1
    <3>1. \A i \in 1..n + 1 : fs[i + 3].format \in AllFormats
      BY <1>1, <1>2, <1>3
    <3>. QED  BY <1>1, <1>5, <3>1
  <2>2. Append(FormatsOf(es), e.format) \in Seq(AllFormats)
        /\ Len(Append(FormatsOf(es), e.format)) = n + 1
    BY <1>3, <1>6, <1>7
  <2>3. \A i \in 1..n + 1 : FormatsOf(fs)[i] = Append(FormatsOf(es), e.format)[i]
    BY <1>1, <1>2, <1>3, <1>4, <1>5, <1>6, <1>7
  <2>. QED  BY <2>1, <2>2, <2>3, SeqEqual
<1>. QED  BY <1>6, <1>8, <1>9 DEF fs

LEMMA PresentMade ==
  ASSUME NEW es \in Seq(Made), Len(es) >= 3, NEW e \in Made
  PROVE  /\ Present(SizesOf(Append(es, e)), NoSize) =
              IF e.size = NoSize THEN Present(SizesOf(es), NoSize)
              ELSE Append(Present(SizesOf(es), NoSize), e.size)
         /\ Present(FormatsOf(Append(es, e)), "none") =
              IF e.format = "none" THEN Present(FormatsOf(es), "none")
              ELSE Append(Present(FormatsOf(es), "none"), e.format)
<1>1. e.size \in AllSizes /\ e.format \in AllFormats
  BY DEF Made
<1>2. /\ SizesOf(es) \in Seq(AllSizes) /\ FormatsOf(es) \in Seq(AllFormats)
      /\ SizesOf(Append(es, e)) = Append(SizesOf(es), e.size)
      /\ FormatsOf(Append(es, e)) = Append(FormatsOf(es), e.format)
  BY RequestsAppend
<1>3. Present(Append(SizesOf(es), e.size), NoSize) =
        IF e.size = NoSize THEN Present(SizesOf(es), NoSize)
        ELSE Append(Present(SizesOf(es), NoSize), e.size)
  <2>. DEFINE v == SizesOf(es)
              x == e.size
  <2>1. v \in Seq(AllSizes) /\ x \in AllSizes
    BY <1>1, <1>2
  <2>. HIDE DEF v, x
  <2>2. Present(Append(v, x), NoSize) =
          IF x = NoSize THEN Present(v, NoSize) ELSE Append(Present(v, NoSize), x)
    BY <2>1, PresentAppend
  <2>. QED  BY <2>2 DEF v, x
<1>4. Present(Append(FormatsOf(es), e.format), "none") =
        IF e.format = "none" THEN Present(FormatsOf(es), "none")
        ELSE Append(Present(FormatsOf(es), "none"), e.format)
  <2>. DEFINE v == FormatsOf(es)
              x == e.format
  <2>1. v \in Seq(AllFormats) /\ x \in AllFormats
    BY <1>1, <1>2
  <2>. HIDE DEF v, x
  <2>2. Present(Append(v, x), "none") =
          IF x = "none" THEN Present(v, "none") ELSE Append(Present(v, "none"), x)
    BY <2>1, PresentAppend
  <2>. QED  BY <2>2 DEF v, x
<1>. QED  BY <1>2, <1>3, <1>4

LEMMA NothingAsked ==
  ASSUME NEW es, Len(es) = 3
  PROVE  /\ SizesOf(es) = <<>> /\ FormatsOf(es) = <<>>
         /\ Present(SizesOf(es), NoSize) = <<>> /\ Present(FormatsOf(es), "none") = <<>>
<1>1. SizesOf(es) = <<>> /\ FormatsOf(es) = <<>>
  BY DEF SizesOf, FormatsOf
<1>. QED  BY <1>1, PresentEmpty

(* The line grows with the elements.                                       *)
LEMMA LineGrows ==
  ASSUME NEW n \in Nat, n >= 4
  PROVE  {<<i, i + 1>> : i \in 4..n} = {<<i, i + 1>> : i \in 4..n - 1} \cup {<<n, n + 1>>}
<1>1. 4..n = 4..n - 1 \cup {n}
  OBVIOUS
<1>. QED  BY <1>1

(* An element and its capsfilter.                                          *)
LEMMA FilteredAppended ==
  ASSUME elements \in Seq(Made), Len(elements) >= 3, links = Line,
         IF Len(elements) = 3 THEN postproc = 0 /\ postprocHead = 0
         ELSE postproc = Len(elements) /\ postprocHead = 4,
         NEW factory \in AllFactories, NEW format \in AllFormats, NEW size \in AllSizes,
         AppendFiltered(factory, format, size)
  PROVE  /\ elements' \in Seq(Made) /\ Len(elements') = Len(elements) + 2
         /\ elements'[Vsink] = elements[Vsink]
         /\ links' = Line' /\ postproc' = Len(elements') /\ postprocHead' = 4
         /\ Present(SizesOf(elements'), NoSize) =
              IF size = NoSize THEN Present(SizesOf(elements), NoSize)
              ELSE Append(Present(SizesOf(elements), NoSize), size)
         /\ Present(FormatsOf(elements'), "none") =
              IF format = "none" THEN Present(FormatsOf(elements), "none")
              ELSE Append(Present(FormatsOf(elements), "none"), format)
<1>. DEFINE a == Element(factory)
            b == Asked(Element("capsfilter"), format, size)
            n == Len(elements)
<1>1. /\ a \in Made /\ a.format = "none" /\ a.size = NoSize
      /\ b \in Made /\ b.format = format /\ b.size = size
  <2>1. "capsfilter" \in AllFactories
    BY DEF AllFactories
  <2>2. /\ Element("capsfilter") \in Made
        /\ Element("capsfilter").format = "none" /\ Element("capsfilter").size = NoSize
    BY <2>1, ElementIsMade
  <2>3. b \in Made /\ b.format = format /\ b.size = size
    BY <2>2, AskedIsMade
  <2>. QED  BY <2>3, ElementIsMade
<1>2. elements' = elements \o <<a, b>>
  BY DEF AppendFiltered
<1>. HIDE DEF a, b
<1>3. elements' = Append(Append(elements, a), b)
  BY <1>1, <1>2
<1>4. /\ Append(elements, a) \in Seq(Made) /\ Len(Append(elements, a)) = n + 1
      /\ elements' \in Seq(Made) /\ Len(elements') = n + 2
      /\ elements'[Vsink] = elements[Vsink]
  BY <1>1, <1>3 DEF Vsink
<1>5. n \in Nat /\ n >= 3
  OBVIOUS
<1>. HIDE DEF n
<1>6. /\ links' = links \cup Linked(postproc, n + 1) \cup {<<n + 1, n + 2>>}
      /\ postproc' = n + 2
      /\ postprocHead' = IF postprocHead = 0 THEN n + 1 ELSE postprocHead
  BY DEF AppendFiltered, HeadIs, n
<1>7. Line' = {<<i, i + 1>> : i \in 4..n + 1}
  BY <1>4, <1>5 DEF Line
<1>8. Line = {<<i, i + 1>> : i \in 4..n - 1}
  BY DEF Line, n
<1>9. links' = Line' /\ postprocHead' = 4
  <2>0. {<<i, i + 1>> : i \in 4..n + 1} = {<<i, i + 1>> : i \in 4..n} \cup {<<n + 1, n + 2>>}
    <3>1. 4..n + 1 = 4..n \cup {n + 1} /\ n + 1 + 1 = n + 2
      BY <1>5
    <3>. QED  BY <3>1
  <2>1. CASE n = 3
    <3>1. {<<i, i + 1>> : i \in 4..n} = {} /\ Line = {}
      BY <1>8, <2>1
    <3>. QED  BY <1>6, <1>7, <2>0, <2>1, <3>1 DEF Linked, n
  <2>2. CASE n # 3
    <3>1. {<<i, i + 1>> : i \in 4..n} = Line \cup {<<n, n + 1>>}
      BY <1>5, <1>8, <2>2, LineGrows
    <3>2. postproc = n /\ postprocHead = 4 /\ n # 0
      BY <1>5, <2>2 DEF n
    <3>. QED  BY <1>6, <1>7, <2>0, <3>1, <3>2 DEF Linked
  <2>. QED  BY <2>1, <2>2
<1>10. /\ Present(SizesOf(Append(elements, a)), NoSize) = Present(SizesOf(elements), NoSize)
       /\ Present(FormatsOf(Append(elements, a)), "none") = Present(FormatsOf(elements), "none")
  BY <1>1, PresentMade
<1>11. Len(Append(elements, a)) >= 3
  BY <1>4, <1>5
<1>. HIDE DEF n
<1>12. /\ Present(SizesOf(elements'), NoSize) =
            IF size = NoSize THEN Present(SizesOf(elements), NoSize)
            ELSE Append(Present(SizesOf(elements), NoSize), size)
       /\ Present(FormatsOf(elements'), "none") =
            IF format = "none" THEN Present(FormatsOf(elements), "none")
            ELSE Append(Present(FormatsOf(elements), "none"), format)
  <2>. DEFINE es == Append(elements, a)
  <2>1. es \in Seq(Made) /\ Len(es) >= 3 /\ elements' = Append(es, b)
        /\ Present(SizesOf(es), NoSize) = Present(SizesOf(elements), NoSize)
        /\ Present(FormatsOf(es), "none") = Present(FormatsOf(elements), "none")
    BY <1>3, <1>4, <1>10, <1>11
  <2>. HIDE DEF es
  <2>2. /\ Present(SizesOf(Append(es, b)), NoSize) =
             IF b.size = NoSize THEN Present(SizesOf(es), NoSize)
             ELSE Append(Present(SizesOf(es), NoSize), b.size)
        /\ Present(FormatsOf(Append(es, b)), "none") =
             IF b.format = "none" THEN Present(FormatsOf(es), "none")
             ELSE Append(Present(FormatsOf(es), "none"), b.format)
    <3>1. es \in Seq(Made) /\ Len(es) >= 3 /\ b \in Made
      BY <1>1, <2>1
    <3>. QED  BY ONLY <3>1, PresentMade
  <2>. QED  BY <1>1, <2>1, <2>2
<1>. QED  BY <1>4, <1>6, <1>9, <1>12 DEF n

(* A vaapipostproc of its own.                                             *)
LEMMA VaapipostprocAppended ==
  ASSUME elements \in Seq(Made), Len(elements) >= 3, links = Line,
         IF Len(elements) = 3 THEN postproc = 0 /\ postprocHead = 0
         ELSE postproc = Len(elements) /\ postprocHead = 4,
         NEW n \in Scalers, NEW format \in AllFormats, NEW size \in AllSizes,
         vapostproc[n] = 0, n \notin vapostprocMask,
         AppendVaapipostproc(n, format, size)
  PROVE  /\ elements' \in Seq(Made) /\ Len(elements') = Len(elements) + 1
         /\ elements'[Vsink] = elements[Vsink]
         /\ elements'[Len(elements')].format = format
         /\ elements'[Len(elements')].size = size
         /\ links' = Line' /\ postproc' = Len(elements') /\ postprocHead' = 4
         /\ vapostproc' = [vapostproc EXCEPT ![n] = Len(elements) + 1]
         /\ vapostprocMask' = vapostprocMask \cup {n}
         /\ Present(SizesOf(elements'), NoSize) =
              IF size = NoSize THEN Present(SizesOf(elements), NoSize)
              ELSE Append(Present(SizesOf(elements), NoSize), size)
         /\ Present(FormatsOf(elements'), "none") =
              IF format = "none" THEN Present(FormatsOf(elements), "none")
              ELSE Append(Present(FormatsOf(elements), "none"), format)
<1>. DEFINE a == Asked(Element("vaapipostproc"), format, size)
            k == Len(elements)
<1>1. a \in Made /\ a.format = format /\ a.size = size
  <2>1. "vaapipostproc" \in AllFactories
    BY DEF AllFactories
  <2>2. /\ Element("vaapipostproc") \in Made
        /\ Element("vaapipostproc").format = "none"
        /\ Element("vaapipostproc").size = NoSize
    BY <2>1, ElementIsMade
  <2>. QED  BY <2>2, AskedIsMade
<1>2. /\ elements' = Append(elements, a)
      /\ vapostproc' = [vapostproc EXCEPT ![n] = k + 1]
      /\ links' = links \cup Linked(postproc, k + 1) /\ postproc' = k + 1
      /\ postprocHead' = IF postprocHead = 0 THEN k + 1 ELSE postprocHead
      /\ vapostprocMask' = vapostprocMask \cup {n}
  BY DEF AppendVaapipostproc, IsAdded, HeadIs
<1>. HIDE DEF a
<1>3. /\ elements' \in Seq(Made) /\ Len(elements') = k + 1
      /\ elements'[Vsink] = elements[Vsink] /\ elements'[k + 1] = a
  BY <1>1, <1>2 DEF Vsink
<1>4. k \in Nat /\ k >= 3
  OBVIOUS
<1>. HIDE DEF k
<1>5. Line' = {<<i, i + 1>> : i \in 4..k} /\ Line = {<<i, i + 1>> : i \in 4..k - 1}
  BY <1>3, <1>4 DEF Line, k
<1>6. links' = Line' /\ postprocHead' = 4
  <2>1. CASE k = 3
    <3>1. Line' = {} /\ Line = {}
      BY <1>5, <2>1
    <3>. QED  BY <1>2, <2>1, <3>1 DEF Linked, k
  <2>2. CASE k # 3
    <3>1. Line' = Line \cup {<<k, k + 1>>}
      BY <1>4, <1>5, <2>2, LineGrows
    <3>2. postproc = k /\ postprocHead = 4 /\ k # 0
      BY <1>4, <2>2 DEF k
    <3>. QED  BY <1>2, <3>1, <3>2 DEF Linked
  <2>. QED  BY <2>1, <2>2
<1>7. /\ Present(SizesOf(elements'), NoSize) =
           IF size = NoSize THEN Present(SizesOf(elements), NoSize)
           ELSE Append(Present(SizesOf(elements), NoSize), size)
      /\ Present(FormatsOf(elements'), "none") =
           IF format = "none" THEN Present(FormatsOf(elements), "none")
           ELSE Append(Present(FormatsOf(elements), "none"), format)
  BY <1>1, <1>2, PresentMade
<1>. QED  BY <1>1, <1>2, <1>3, <1>6, <1>7 DEF k

(* The vaapipostproc of the conversion.                                    *)
LEMMA VaapipostprocAmended ==
  ASSUME elements \in Seq(Made), Len(elements) = 4,
         vapostproc = [n \in Scalers |-> IF n = 0 THEN 4 ELSE 0],
         vapostprocMask = {0}, elements[4].size = NoSize,
         NEW size \in AllSizes,
         AppendVaapipostproc(0, "none", size)
  PROVE  /\ elements' \in Seq(Made) /\ Len(elements') = 4
         /\ elements'[Vsink] = elements[Vsink]
         /\ UNCHANGED <<links, postproc, postprocHead, vapostproc, vapostprocMask>>
         /\ Present(SizesOf(elements'), NoSize) = IF size = NoSize THEN <<>> ELSE <<size>>
         /\ Present(FormatsOf(elements'), "none") =
              IF elements[4].format = "none" THEN <<>> ELSE <<elements[4].format>>
<1>. DEFINE a == Asked(elements[4], "none", size)
<1>1. 0 \in Scalers /\ vapostproc[0] = 4 /\ 0 \in vapostprocMask
  BY DEF Scalers, MaxVppChain
<1>2. a \in Made /\ a.format = elements[4].format /\ a.size = size
  <2>1. elements[4] \in Made
    <3>. HIDE DEF a
    <3>1. 4 \in 1..Len(elements)
      OBVIOUS
    <3>. QED  BY <3>1, ElementOfSeq
  <2>2. "none" \in AllFormats
    BY DEF AllFormats
  <2>. QED  BY <2>1, <2>2, AskedIsMade
<1>3. /\ elements' = [elements EXCEPT ![4] = a]
      /\ vapostproc' = [vapostproc EXCEPT ![0] = 4]
      /\ UNCHANGED <<links, postproc, postprocHead, vapostprocMask>>
  BY <1>1 DEF AppendVaapipostproc, IsAdded
<1>4. vapostproc' = vapostproc
  BY <1>1, <1>3
<1>. HIDE DEF a
<1>5. /\ elements' \in Seq(Made) /\ Len(elements') = 4 /\ elements'[4] = a
      /\ elements'[Vsink] = elements[Vsink]
  <2>1. \A es \in Seq(Made) : Len(es) = 4 =>
           /\ [es EXCEPT ![4] = a] \in Seq(Made)
           /\ Len([es EXCEPT ![4] = a]) = 4 /\ [es EXCEPT ![4] = a][4] = a
           /\ \A i \in 1..3 : [es EXCEPT ![4] = a][i] = es[i]
    <3>1. TAKE es \in Seq(Made)
    <3>2. HAVE Len(es) = 4
    <3>3. 4 \in 1..Len(es) /\ 1..3 \subseteq 1..Len(es) /\ 4 \notin 1..3
      BY <3>2
    <3>4. a \in Made
      BY <1>2
    <3>5. /\ [es EXCEPT ![4] = a] \in Seq(Made)
          /\ Len([es EXCEPT ![4] = a]) = Len(es)
          /\ \A j \in 1..Len(es) : [es EXCEPT ![4] = a][j] = IF j = 4 THEN a ELSE es[j]
      <4>. QED  BY ONLY <3>1, <3>3, <3>4, ExceptSeq
    <3>. QED  BY <3>2, <3>3, <3>5
  <2>. QED  BY <1>3, <2>1 DEF Vsink
<1>. DEFINE es == <<elements[1], elements[2], elements[3]>>
<1>6. es \in Seq(Made) /\ Len(es) = 3 /\ elements' = Append(es, a)
  <2>1. es \in Seq(Made) /\ Len(es) = 3
    <3>1. elements[1] \in Made /\ elements[2] \in Made /\ elements[3] \in Made
      BY ElementOfSeq
    <3>. QED  BY <3>1
  <2>2. Append(es, a) \in Seq(Made) /\ Len(Append(es, a)) = 4
    BY <1>2, <2>1
  <2>3. \A i \in 1..4 : elements'[i] = Append(es, a)[i]
    BY <1>2, <1>3
  <2>. HIDE DEF es
  <2>. QED  BY <1>5, <2>1, <2>2, <2>3, SeqEqual
<1>. HIDE DEF es
<1>7. /\ Present(SizesOf(elements'), NoSize) =
           IF size = NoSize THEN <<>> ELSE Append(<<>>, size)
      /\ Present(FormatsOf(elements'), "none") =
           IF a.format = "none" THEN <<>> ELSE Append(<<>>, a.format)
  <2>1. /\ Present(SizesOf(Append(es, a)), NoSize) =
             IF a.size = NoSize THEN Present(SizesOf(es), NoSize)
             ELSE Append(Present(SizesOf(es), NoSize), a.size)
        /\ Present(FormatsOf(Append(es, a)), "none") =
             IF a.format = "none" THEN Present(FormatsOf(es), "none")
             ELSE Append(Present(FormatsOf(es), "none"), a.format)
    <3>1. es \in Seq(Made) /\ Len(es) >= 3 /\ a \in Made
      BY <1>2, <1>6
    <3>. QED  BY ONLY <3>1, PresentMade
  <2>2. Present(SizesOf(es), NoSize) = <<>> /\ Present(FormatsOf(es), "none") = <<>>
    BY <1>6, NothingAsked
  <2>. QED  BY <1>2, <1>6, <2>1, <2>2
<1>8. Append(<<>>, size) = <<size>> /\ Append(<<>>, a.format) = <<a.format>>
  OBVIOUS
<1>. QED  BY <1>2, <1>3, <1>4, <1>5, <1>7, <1>8

LEMMA OptionOf ==
  ASSUME OptionsInv, NEW i \in 1..Len(arguments)
  PROVE  /\ i \in DOMAIN arguments
         /\ arguments[i].key = "vscale" =>
              arguments[i].number \in Nat /\ arguments[i].value \in AllSizes
<1>1. /\ arguments \in OptionLists /\ arguments \in Seq(Range(arguments))
      /\ \A option \in Range(arguments) : option.key = "vscale" => option.number \in Nat
  BY OptionsAssumption DEF OptionsInv
<1>2. i \in DOMAIN arguments /\ arguments[i] \in Range(arguments)
  <2>1. DOMAIN arguments = 1..Len(arguments)
    BY <1>1
  <2>. QED  BY <2>1 DEF Range
<1>3. arguments[i].key = "vscale" => arguments[i].value \in AllSizes
  BY <1>1, <1>2 DEF AllSizes
<1>. QED  BY <1>1, <1>2, <1>3

(* One option more: it is the last of its kind.                            *)
LEMMA NextOption ==
  ASSUME OptionsInv, arguments' = arguments, parsed' = parsed + 1,
         parsed < Len(arguments)
  PROVE  LET i == parsed + 1
         IN  /\ i \in 1..Len(arguments) /\ parsed' \in 0..Len(arguments)
             /\ IF arguments[i].key = "vconvert"
                  THEN Converts' = Converts \cup {i} /\ IsLast(i, Converts')
                  ELSE Converts' = Converts
             /\ \A n \in Scalers :
                  IF arguments[i].key = "vscale" /\ Scaler(arguments[i].number) = n
                    THEN Scales(n)' = Scales(n) \cup {i} /\ IsLast(i, Scales(n)')
                    ELSE Scales(n)' = Scales(n)
<1>. DEFINE i == parsed + 1
<1>1. /\ parsed \in 0..Len(arguments) /\ arguments \in Seq(Range(arguments))
  BY OptionsAssumption DEF OptionsInv
<1>2. Len(arguments) \in Nat
  BY <1>1
<1>3. /\ i \in 1..Len(arguments) /\ parsed' \in 0..Len(arguments)
      /\ 1..parsed' = 1..parsed \cup {i} /\ \A j \in 1..parsed' : j <= i
      /\ i \in 1..parsed'
  BY <1>1, <1>2
<1>4. /\ Converts = {j \in 1..parsed : arguments[j].key = "vconvert"}
      /\ Converts' = {j \in 1..parsed' : arguments[j].key = "vconvert"}
  BY DEF Converts
<1>5. \A n : /\ Scales(n) = {j \in 1..parsed : /\ arguments[j].key = "vscale"
                                              /\ Scaler(arguments[j].number) = n}
             /\ Scales(n)' = {j \in 1..parsed' : /\ arguments[j].key = "vscale"
                                                /\ Scaler(arguments[j].number) = n}
  BY DEF Scales
<1>. HIDE DEF i
<1>6. IF arguments[i].key = "vconvert"
        THEN Converts' = Converts \cup {i} /\ IsLast(i, Converts')
        ELSE Converts' = Converts
  BY <1>3, <1>4 DEF IsLast
<1>7. ASSUME NEW n \in Scalers
      PROVE  IF arguments[i].key = "vscale" /\ Scaler(arguments[i].number) = n
               THEN Scales(n)' = Scales(n) \cup {i} /\ IsLast(i, Scales(n)')
               ELSE Scales(n)' = Scales(n)
  BY <1>3, <1>5 DEF IsLast
<1>. QED  BY <1>3, <1>6, <1>7 DEF i

StoredInv == OptionsInv /\ ConvertInv /\ ScaleInv

LEMMA ParseKeeps ==
  ASSUME StoredInv, ParseOption
  PROVE  StoredInv'
<1>. DEFINE i == parsed + 1
            o == arguments[i]
<1>1. /\ setup = "options" /\ parsed < Len(arguments) /\ parsed' = parsed + 1
      /\ UNCHANGED <<hwaccel, arguments, setup>>
  BY DEF ParseOption
<1>2. \/ o.key = "vconvert" /\ ConvertOption(o.value)
      \/ o.key = "vscale" /\ ScaleOption(o.number, o.value)
      \/ o.key \notin {"vconvert", "vscale"} /\ UNCHANGED <<vconvert, vscale>>
         /\ refused' \in {refused, TRUE}
  BY DEF ParseOption
<1>3. /\ i \in 1..Len(arguments) /\ parsed' \in 0..Len(arguments)
      /\ IF o.key = "vconvert"
           THEN Converts' = Converts \cup {i} /\ IsLast(i, Converts')
           ELSE Converts' = Converts
      /\ \A n \in Scalers :
           IF o.key = "vscale" /\ Scaler(o.number) = n
             THEN Scales(n)' = Scales(n) \cup {i} /\ IsLast(i, Scales(n)')
             ELSE Scales(n)' = Scales(n)
  BY <1>1, NextOption DEF StoredInv
<1>4. o.key = "vscale" => o.number \in Nat /\ o.value \in AllSizes
  BY <1>3, OptionOf DEF StoredInv
<1>5. refused \in BOOLEAN /\ vscale \in [Scalers -> [size : AllSizes, valid : BOOLEAN]]
  BY DEF StoredInv, OptionsInv
<1>6. o = arguments'[i]
  BY <1>1
<1>. HIDE DEF i, o
<1>7. CASE o.key = "vconvert" /\ ConvertOption(o.value)
  <2>1. /\ vconvert' = o.value /\ vscale' = vscale
        /\ refused' = (refused \/ o.value = "none")
    BY <1>7 DEF ConvertOption
  <2>2. IsLast(i, Converts') /\ \A n \in Scalers : Scales(n)' = Scales(n)
    BY <1>3, <1>7
  <2>3. ConvertInv'
    BY <1>6, <2>1, <2>2 DEF ConvertInv, IsLast
  <2>4. ScaleInv'
    BY <1>1, <2>1, <2>2, <1>5 DEF ScaleInv, StoredInv
  <2>5. OptionsInv'
    BY <1>1, <1>3, <1>5, <2>1 DEF OptionsInv, StoredInv
  <2>. QED  BY <2>3, <2>4, <2>5 DEF StoredInv
<1>8. CASE o.key = "vscale" /\ ScaleOption(o.number, o.value)
  <2>. DEFINE m == Scaler(o.number)
              ok == m < MaxVppChain /\ IsSize(o.value) /\ o.value.width # 0
                      /\ o.value.height # 0
  <2>1. /\ vscale' = IF m < MaxVppChain /\ IsSize(o.value)
                       THEN [vscale EXCEPT ![m].size = o.value, ![m].valid = @ \/ ok]
                       ELSE vscale
        /\ refused' = (refused \/ ~ok) /\ vconvert' = vconvert
    BY <1>8 DEF ScaleOption
  <2>2. m \in Nat /\ (m < MaxVppChain => m \in Scalers)
    BY <1>4, <1>8 DEF Scaler, Scalers, MaxVppChain
  <2>3. o.value \in AllSizes /\ ok \in BOOLEAN /\ (ok => m < MaxVppChain /\ IsSize(o.value)
        /\ o.value.width # 0 /\ o.value.height # 0)
    BY <1>4, <1>8
  <2>4. \A n \in Scalers : IF n = m THEN IsLast(i, Scales(n)') ELSE Scales(n)' = Scales(n)
    BY <1>3, <1>8
  <2>5. Converts' = Converts
    BY <1>3, <1>8
  <2>. HIDE DEF m, ok
  <2>6. vscale' \in [Scalers -> [size : AllSizes, valid : BOOLEAN]]
    BY <1>5, <2>1, <2>2, <2>3
  <2>7. ASSUME ~refused'
        PROVE  /\ ~refused /\ m \in Scalers /\ vscale'[m].size = o.value /\ vscale'[m].valid
               /\ o.value.width # 0 /\ o.value.height # 0
               /\ \A n \in Scalers : n # m => vscale'[n] = vscale[n]
    BY <1>5, <2>1, <2>2, <2>3, <2>7
  <2>8. ScaleInv'
    <3>1. SUFFICES ASSUME ~refused', NEW n \in Scalers
                   PROVE  (\/ Scales(n) = {} /\ ~vscale[n].valid
                           \/ /\ vscale[n].valid /\ vscale[n].size.width # 0
                              /\ vscale[n].size.height # 0
                              /\ \E j \in Scales(n) :
                                   IsLast(j, Scales(n)) /\ vscale[n].size = arguments[j].value)'
      BY DEF ScaleInv
    <3>2. CASE n = m
      BY <1>6, <2>4, <2>7, <3>1, <3>2 DEF IsLast
    <3>3. CASE n # m
      <4>1. Scales(n)' = Scales(n) /\ vscale'[n] = vscale[n]
        BY <2>4, <2>7, <3>1, <3>3
      <4>2. ~refused
        BY <2>7, <3>1
      <4>. QED  BY <1>1, <4>1, <4>2 DEF StoredInv, ScaleInv
    <3>. QED  BY <3>2, <3>3
  <2>9. ConvertInv'
    BY <1>1, <2>1, <2>5 DEF StoredInv, ConvertInv
  <2>10. OptionsInv'
    <3>1. refused' \in BOOLEAN
      BY <1>5, <2>1, <2>3
    <3>. QED  BY <1>1, <1>3, <2>6, <3>1 DEF OptionsInv, StoredInv
  <2>. QED  BY <2>8, <2>9, <2>10 DEF StoredInv
<1>9. CASE /\ o.key \notin {"vconvert", "vscale"} /\ UNCHANGED <<vconvert, vscale>>
           /\ refused' \in {refused, TRUE}
  <2>1. Converts' = Converts /\ \A n \in Scalers : Scales(n)' = Scales(n)
    BY <1>3, <1>9
  <2>0. ~refused' => ~refused
    BY <1>5, <1>9
  <2>2. ConvertInv'
    BY <1>1, <1>9, <2>0, <2>1 DEF ConvertInv, StoredInv
  <2>3. ScaleInv'
    BY <1>1, <1>9, <2>0, <2>1 DEF ScaleInv, StoredInv
  <2>4. OptionsInv'
    BY <1>1, <1>3, <1>5, <1>9 DEF OptionsInv, StoredInv
  <2>. QED  BY <2>2, <2>3, <2>4 DEF StoredInv
<1>. QED  BY <1>2, <1>7, <1>8, <1>9

LEMMA StoredStays ==
  ASSUME StoredInv, UNCHANGED <<hwaccel, arguments, parsed, refused, vconvert, vscale>>,
         setup' = "options" => setup = "options",
         setup' # "options" => parsed = Len(arguments)
  PROVE  StoredInv'
<1>1. Converts' = Converts /\ \A n : Scales(n)' = Scales(n)
  BY DEF Converts, Scales
<1>2. OptionsInv'
  BY DEF StoredInv, OptionsInv
<1>3. ConvertInv'
  BY <1>1 DEF StoredInv, ConvertInv
<1>4. ScaleInv'
  BY <1>1 DEF StoredInv, ScaleInv
<1>. QED  BY <1>2, <1>3, <1>4 DEF StoredInv

(* What was asked for last.                                                *)
LEMMA LastIsOne ==
  ASSUME NEW at \in SUBSET Nat, NEW i, IsLast(i, at)
  PROVE  (CHOOSE k \in at : \A j \in at : j <= k) = i
<1>1. i \in at /\ \A j \in at : j <= i
  BY DEF IsLast
<1>2. \A k \in at : (\A j \in at : j <= k) => k = i
  BY <1>1
<1>. QED  BY <1>1, <1>2

LEMMA AskedIsStored ==
  ASSUME StoredInv, ~refused, setup # "options", vconvert \in AllFormats
  PROVE  /\ AskedSizes = SizeWanted(0) \o SizeWanted(1)
         /\ AskedFormats = FormatWanted
<1>1. /\ parsed = Len(arguments) /\ arguments \in Seq(Range(arguments))
      /\ DOMAIN arguments = 1..Len(arguments) /\ Len(arguments) \in Nat
  BY OptionsAssumption DEF StoredInv, OptionsInv
<1>2. \A i \in 1..Len(arguments) :
        arguments[i].key = "vscale" => arguments[i].number \in Nat
  BY OptionOf DEF StoredInv
<1>3. /\ 0 \in Scalers /\ 1 \in Scalers
      /\ \A k \in Nat : (Scaler(k) = 0 <=> k \in {0, 1}) /\ (Scaler(k) = 1 <=> k = 2)
  BY DEF Scalers, MaxVppChain, Scaler
<1>4. /\ {i \in DOMAIN arguments : arguments[i].key = "vscale" /\ arguments[i].number \in {0, 1}}
           = Scales(0)
      /\ {i \in DOMAIN arguments : arguments[i].key = "vscale" /\ arguments[i].number = 2}
           = Scales(1)
      /\ {i \in DOMAIN arguments : arguments[i].key = "vconvert" /\ TRUE} = Converts
  BY <1>1, <1>2, <1>3 DEF Scales, Converts
<1>5. /\ Converts \in SUBSET Nat /\ \A n : Scales(n) \in SUBSET Nat
  BY <1>1 DEF Scales, Converts
<1>. DEFINE LastOf(at) == IF at = {} THEN <<>>
                          ELSE <<arguments[CHOOSE i \in at : \A j \in at : j <= i].value>>
<1>6. /\ LastValue("vscale", LAMBDA o : o.number \in {0, 1}) = LastOf(Scales(0))
      /\ LastValue("vscale", LAMBDA o : o.number = 2) = LastOf(Scales(1))
      /\ LastValue("vconvert", LAMBDA o : TRUE) = LastOf(Converts)
  <2>1. LastValue("vscale", LAMBDA o : o.number \in {0, 1}) =
          LastOf({i \in DOMAIN arguments : arguments[i].key = "vscale"
                                           /\ arguments[i].number \in {0, 1}})
    BY DEF LastValue
  <2>2. LastValue("vscale", LAMBDA o : o.number = 2) =
          LastOf({i \in DOMAIN arguments : arguments[i].key = "vscale"
                                           /\ arguments[i].number = 2})
    BY DEF LastValue
  <2>3. LastValue("vconvert", LAMBDA o : TRUE) =
          LastOf({i \in DOMAIN arguments : arguments[i].key = "vconvert" /\ TRUE})
    BY DEF LastValue
  <2>. HIDE DEF LastOf
  <2>. QED  BY <1>4, <2>1, <2>2, <2>3
<1>7. \A n \in Scalers : LastOf(Scales(n)) = SizeWanted(n)
  <2>1. TAKE n \in Scalers
  <2>2. CASE Scales(n) = {} /\ ~vscale[n].valid
    BY <2>2 DEF SizeWanted, ScaleWanted
  <2>3. CASE /\ vscale[n].valid /\ vscale[n].size.width # 0 /\ vscale[n].size.height # 0
             /\ \E i \in Scales(n) :
                  IsLast(i, Scales(n)) /\ vscale[n].size = arguments[i].value
    <3>1. PICK i \in Scales(n) : IsLast(i, Scales(n)) /\ vscale[n].size = arguments[i].value
      BY <2>3
    <3>2. (CHOOSE k \in Scales(n) : \A j \in Scales(n) : j <= k) = i
      BY <1>5, <3>1, LastIsOne
    <3>3. LastOf(Scales(n)) = <<arguments[i].value>>
      BY <3>1, <3>2
    <3>4. SizeWanted(n) = <<vscale[n].size>>
      BY <2>3 DEF SizeWanted, ScaleWanted
    <3>. QED  BY <3>1, <3>3, <3>4
  <2>. QED  BY <2>2, <2>3 DEF StoredInv, ScaleInv
<1>8. LastOf(Converts) = ConvertWanted
  <2>1. CASE Converts = {} /\ vconvert = "none"
    BY <2>1 DEF ConvertWanted
  <2>2. CASE \E i \in Converts : /\ IsLast(i, Converts)
                                 /\ vconvert = arguments[i].value /\ vconvert # "none"
    <3>1. PICK i \in Converts : /\ IsLast(i, Converts)
                                /\ vconvert = arguments[i].value /\ vconvert # "none"
      BY <2>2
    <3>2. (CHOOSE k \in Converts : \A j \in Converts : j <= k) = i
      BY <1>5, <3>1, LastIsOne
    <3>3. LastOf(Converts) = <<arguments[i].value>>
      BY <3>1, <3>2
    <3>. QED  BY <3>1, <3>3 DEF ConvertWanted
  <2>. QED  BY <2>1, <2>2 DEF StoredInv, ConvertInv
<1>9. vscale[0].valid <=> ScaleWanted(0)
  BY <1>3 DEF StoredInv, ScaleInv, ScaleWanted
<1>. HIDE DEF LastOf
<1>10. AskedSizes = SizeWanted(0) \o SizeWanted(1)
  BY <1>3, <1>6, <1>7 DEF AskedSizes
<1>11. AskedFormats = FormatWanted
  <2>1. (ConvertWanted = <<>>) <=> (vconvert = "none")
    BY DEF ConvertWanted
  <2>2. AskedFormats = IF ConvertWanted = <<>> /\ hwaccel = "vaapi" /\ vscale[0].valid
                         THEN <<"NV12">> ELSE ConvertWanted
    BY <1>6, <1>8 DEF AskedFormats
  <2>. QED  BY <1>9, <2>1, <2>2 DEF FormatWanted
<1>. QED  BY <1>10, <1>11

MadeVars == <<hwaccel, vconvert, vscale, setup, chainVars>>

BuiltInv == LinksInv /\ VaapipostprocInv /\ RequestsInv

LEMMA BuiltStays ==
  ASSUME BuiltInv, UNCHANGED MadeVars
  PROVE  BuiltInv'
<1>1. UNCHANGED <<hwaccel, vconvert, vscale, setup, elements, links, postproc,
                  postprocHead, vapostproc, vapostprocMask>>
  BY DEF MadeVars, chainVars
<1>2. LinksInv'
  BY <1>1 DEF BuiltInv, LinksInv, Line, ToSink
<1>3. VaapipostprocInv'
  BY <1>1 DEF BuiltInv, VaapipostprocInv, NoVaapipostproc
<1>4. RequestsInv'
  BY <1>1 DEF BuiltInv, RequestsInv, SizeWanted, ScaleWanted, FormatWanted, ConvertWanted
<1>. QED  BY <1>2, <1>3, <1>4 DEF BuiltInv

LEMMA FailureKeeps ==
  ASSUME setup' \in {"failed", "crashed"}
  PROVE  BuiltInv'
<1>1. /\ setup' \notin Stages \cup {"connect"} \cup Connected
      /\ setup' \notin {"options", "convert", "scale0", "scale1", "sink", "connect"}
  BY DEF Stages, Connected
<1>2. LinksInv'
  BY <1>1 DEF LinksInv, Stages
<1>3. VaapipostprocInv'
  BY <1>1 DEF VaapipostprocInv
<1>4. RequestsInv'
  BY <1>1 DEF RequestsInv
<1>. QED  BY <1>2, <1>3, <1>4 DEF BuiltInv

LEMMA ParseBuilds ==
  ASSUME BuiltInv, ParseOption
  PROVE  BuiltInv'
<1>1. /\ setup = "options" /\ setup' = "options"
      /\ UNCHANGED <<elements, links, postproc, postprocHead, vapostproc, vapostprocMask>>
  BY DEF ParseOption, chainVars
<1>2. LinksInv'
  BY <1>1 DEF BuiltInv, LinksInv, Stages, Connected
<1>3. VaapipostprocInv'
  BY <1>1 DEF BuiltInv, VaapipostprocInv, NoVaapipostproc
<1>4. RequestsInv'
  BY <1>1 DEF RequestsInv, Connected
<1>. QED  BY <1>2, <1>3, <1>4 DEF BuiltInv

LEMMA MakeBuilds ==
  ASSUME BuiltInv, MakeElements
  PROVE  BuiltInv'
<1>1. /\ setup = "options" /\ setup' = "convert"
      /\ elements' = <<Element("filesrc"), Element("decodebin"), Element("fakesink")>>
      /\ UNCHANGED <<links, postproc, postprocHead, vapostproc, vapostprocMask>>
  BY DEF MakeElements
<1>2. /\ Element("filesrc") \in Made /\ Element("decodebin") \in Made
      /\ Element("fakesink") \in Made /\ Element("fakesink").format = "none"
      /\ Element("fakesink").size = NoSize
  <2>1. {"filesrc", "decodebin", "fakesink"} \subseteq AllFactories
    BY DEF AllFactories
  <2>. QED  BY <2>1, ElementIsMade
<1>3. /\ elements' \in Seq(Made) /\ Len(elements') = 3
      /\ elements'[Vsink] = Element("fakesink")
  BY <1>1, <1>2 DEF Vsink
<1>4. LinksInv'
  <2>1. postproc' = 0 /\ postprocHead' = 0 /\ links' = {} /\ Line' = {}
    BY <1>1, <1>3 DEF BuiltInv, LinksInv, Line
  <2>. QED  BY <1>1, <1>2, <1>3, <2>1 DEF LinksInv, Stages, Connected
<1>5. VaapipostprocInv'
  BY <1>1, <1>3 DEF BuiltInv, VaapipostprocInv, NoVaapipostproc
<1>6. RequestsInv'
  BY <1>1 DEF RequestsInv, Connected
<1>. QED  BY <1>4, <1>5, <1>6 DEF BuiltInv

(* What is common to the stages.                                           *)
LEMMA StageLinks ==
  ASSUME setup' \in {"scale0", "scale1", "sink"},
         elements' \in Seq(Made), Len(elements') >= 3,
         elements'[Vsink].size = NoSize, elements'[Vsink].format = "none",
         links' = Line',
         IF Len(elements') = 3 THEN postproc' = 0 /\ postprocHead' = 0
         ELSE postproc' = Len(elements') /\ postprocHead' = 4
  PROVE  LinksInv'
  BY DEF LinksInv, Stages, Connected

LEMMA ConvertBuilds ==
  ASSUME StoredInv, BuiltInv, InitConvert
  PROVE  BuiltInv'
<1>1. /\ setup = "convert" /\ setup' = "scale0"
      /\ UNCHANGED <<hwaccel, vconvert, vscale>>
  BY DEF InitConvert, optionVars
<1>2. /\ elements \in Seq(Made) /\ Len(elements) = 3 /\ links = Line
      /\ postproc = 0 /\ postprocHead = 0 /\ NoVaapipostproc
      /\ elements[Vsink].size = NoSize /\ elements[Vsink].format = "none"
  BY <1>1 DEF BuiltInv, LinksInv, VaapipostprocInv, Stages
<1>3. /\ Present(SizesOf(elements), NoSize) = <<>>
      /\ Present(FormatsOf(elements), "none") = <<>>
  BY <1>2, NothingAsked
<1>4. hwaccel \in {"none", "vaapi"}
  BY DEF StoredInv, OptionsInv
<1>5. NoSize \in AllSizes /\ 0 \in Scalers
  BY DEF AllSizes, Scalers, MaxVppChain
<1>6. CASE vconvert = "none" /\ UNCHANGED chainVars
  <2>1. /\ UNCHANGED <<elements, links, postproc, postprocHead, vapostproc, vapostprocMask>>
        /\ Line' = Line
    BY <1>6 DEF chainVars, Line
  <2>2. LinksInv'
    <3>1. /\ elements' \in Seq(Made) /\ Len(elements') = 3 /\ links' = Line'
          /\ postproc' = 0 /\ postprocHead' = 0
          /\ elements'[Vsink].size = NoSize /\ elements'[Vsink].format = "none"
      BY <1>2, <2>1
    <3>. QED  BY <1>1, <3>1, StageLinks
  <2>3. VaapipostprocInv'
    BY <1>1, <1>2, <1>6, <2>1 DEF VaapipostprocInv, NoVaapipostproc
  <2>4. ConvertWanted' = <<>> /\ vconvert' \in AllFormats
    BY <1>1, <1>6 DEF ConvertWanted, AllFormats
  <2>5. RequestsInv'
    BY <1>1, <1>3, <2>1, <2>4 DEF RequestsInv, Connected
  <2>. QED  BY <2>2, <2>3, <2>5 DEF BuiltInv
<1>7. CASE vconvert \in GstVideoFormats /\ hwaccel = "none"
           /\ AppendFiltered("videoconvert", vconvert, NoSize)
  <2>1. "videoconvert" \in AllFactories /\ vconvert \in AllFormats /\ vconvert # "none"
    BY <1>7 DEF AllFactories, AllFormats, GstVideoFormats
  <2>2. /\ elements' \in Seq(Made) /\ Len(elements') = Len(elements) + 2
        /\ elements'[Vsink] = elements[Vsink]
        /\ links' = Line' /\ postproc' = Len(elements') /\ postprocHead' = 4
        /\ Present(SizesOf(elements'), NoSize) = Present(SizesOf(elements), NoSize)
        /\ Present(FormatsOf(elements'), "none") =
              Append(Present(FormatsOf(elements), "none"), vconvert)
    <3>1. Len(elements) >= 3
      BY <1>2
    <3>. QED  BY <1>2, <1>5, <1>7, <2>1, <3>1, FilteredAppended
  <2>3. UNCHANGED <<vapostproc, vapostprocMask>>
    BY <1>7 DEF AppendFiltered
  <2>4. LinksInv'
    BY <1>1, <1>2, <2>2, StageLinks
  <2>5. VaapipostprocInv'
    BY <1>1, <1>2, <1>7, <2>3 DEF VaapipostprocInv, NoVaapipostproc
  <2>6. ConvertWanted' = <<vconvert>> /\ vconvert' \in AllFormats
        /\ Append(<<>>, vconvert) = <<vconvert>>
    BY <1>1, <2>1 DEF ConvertWanted
  <2>7. RequestsInv'
    BY <1>1, <1>3, <2>2, <2>6 DEF RequestsInv, Connected
  <2>. QED  BY <2>4, <2>5, <2>7 DEF BuiltInv
<1>8. CASE vconvert \in GstVideoFormats /\ hwaccel = "vaapi"
           /\ AppendVaapipostproc(0, vconvert, NoSize)
  <2>1. vconvert \in AllFormats /\ vconvert # "none"
        /\ vapostproc[0] = 0 /\ 0 \notin vapostprocMask
    BY <1>2, <1>5, <1>8 DEF AllFormats, GstVideoFormats, NoVaapipostproc
  <2>2. /\ elements' \in Seq(Made) /\ Len(elements') = Len(elements) + 1
        /\ elements'[Vsink] = elements[Vsink]
        /\ elements'[Len(elements')].format = vconvert
        /\ elements'[Len(elements')].size = NoSize
        /\ links' = Line' /\ postproc' = Len(elements') /\ postprocHead' = 4
        /\ vapostproc' = [vapostproc EXCEPT ![0] = Len(elements) + 1]
        /\ vapostprocMask' = vapostprocMask \cup {0}
        /\ Present(SizesOf(elements'), NoSize) = Present(SizesOf(elements), NoSize)
        /\ Present(FormatsOf(elements'), "none") =
              Append(Present(FormatsOf(elements), "none"), vconvert)
    <3>1. Len(elements) >= 3
      BY <1>2
    <3>. QED  BY <1>2, <1>5, <1>8, <2>1, <3>1, VaapipostprocAppended
  <2>4. LinksInv'
    BY <1>1, <1>2, <2>2, StageLinks
  <2>5. VaapipostprocInv'
    <3>1. vapostproc' = [n \in Scalers |-> IF n = 0 THEN 4 ELSE 0] /\ vapostprocMask' = {0}
      BY <1>2, <1>5, <2>2 DEF NoVaapipostproc
    <3>2. Len(elements') = 4 /\ elements'[4].format = vconvert /\ elements'[4].size = NoSize
      BY <1>2, <2>2
    <3>. QED  BY <1>1, <1>8, <2>1, <3>1, <3>2 DEF VaapipostprocInv
  <2>6. ConvertWanted' = <<vconvert>> /\ vconvert' \in AllFormats
        /\ Append(<<>>, vconvert) = <<vconvert>>
    BY <1>1, <2>1 DEF ConvertWanted
  <2>7. RequestsInv'
    BY <1>1, <1>3, <2>2, <2>6 DEF RequestsInv, Connected
  <2>. QED  BY <2>4, <2>5, <2>7 DEF BuiltInv
<1>. QED  BY <1>6, <1>7, <1>8 DEF InitConvert

(* A scaling adds its size, and the first one of vaapi the format that is  *)
(* NV12 where none was asked for.                                          *)
ScaleFormat(n) == IF n = 0 /\ vconvert = "none" THEN "NV12" ELSE "none"

LEMMA ScaleBuilds ==
  ASSUME StoredInv, BuiltInv, NEW n \in Scalers, InitScale(n)
  PROVE  BuiltInv'
<1>0. n \in {0, 1} /\ Scalers = {0, 1}
  BY DEF Scalers, MaxVppChain
<1>1. /\ setup = IF n = 0 THEN "scale0" ELSE "scale1"
      /\ setup' = IF n = 0 THEN "scale1" ELSE "sink"
      /\ UNCHANGED <<hwaccel, vconvert, vscale>>
  <2>1. setup = <<"scale0", "scale1">>[n + 1] /\ setup' = <<"scale1", "sink">>[n + 1]
    BY DEF InitScale
  <2>. QED  BY <1>0, <2>1 DEF InitScale, optionVars
<1>2. /\ elements \in Seq(Made) /\ Len(elements) >= 3 /\ links = Line
      /\ IF Len(elements) = 3 THEN postproc = 0 /\ postprocHead = 0
         ELSE postproc = Len(elements) /\ postprocHead = 4
      /\ elements[Vsink].size = NoSize /\ elements[Vsink].format = "none"
  BY <1>0, <1>1 DEF BuiltInv, LinksInv, Stages
<1>. DEFINE size == vscale[n].size
            sizes == Present(SizesOf(elements), NoSize)
            formats == Present(FormatsOf(elements), "none")
<1>3. hwaccel \in {"none", "vaapi"} /\ size \in AllSizes
  BY DEF StoredInv, OptionsInv
<1>4. ScaleWanted(n) => size # NoSize
  BY DEF ScaleWanted, NoSize
<1>5. \/ ~ScaleWanted(n) /\ UNCHANGED chainVars
      \/ ScaleWanted(n) /\ hwaccel = "none" /\ AppendFiltered("videoscale", "none", size)
      \/ ScaleWanted(n) /\ hwaccel = "vaapi" /\ AppendVaapipostproc(n, ScaleFormat(n), size)
  BY DEF InitScale, ScaleWanted, ScaleFormat
<1>. HIDE DEF size, sizes, formats
<1>6. /\ n = 0 => sizes = <<>> /\ formats = ConvertWanted
      /\ n = 1 => sizes = SizeWanted(0) /\ formats = FormatWanted
      /\ vconvert \in AllFormats
  BY <1>0, <1>1 DEF BuiltInv, RequestsInv, sizes, formats
<1>7. /\ SizeWanted(0)' = SizeWanted(0) /\ SizeWanted(1)' = SizeWanted(1)
      /\ FormatWanted' = FormatWanted
  BY <1>1 DEF SizeWanted, ScaleWanted, FormatWanted, ConvertWanted
<1>8. /\ SizeWanted(n) = IF ScaleWanted(n) THEN <<size>> ELSE <<>>
      /\ \A k \in {0, 1} : SizeWanted(k) \in Seq(AllSizes)
      /\ sizes \in Seq(AllSizes)
  <2>1. \A k \in {0, 1} : vscale[k].size \in AllSizes
    BY <1>0 DEF StoredInv, OptionsInv
  <2>2. \A k \in {0, 1} : SizeWanted(k) \in Seq(AllSizes)
    <3>1. \A x \in AllSizes : <<x>> \in Seq(AllSizes)
      OBVIOUS
    <3>2. <<>> \in Seq(AllSizes)
      OBVIOUS
    <3>. QED  BY <2>1, <3>1, <3>2 DEF SizeWanted
  <2>3. <<>> \in Seq(AllSizes)
    OBVIOUS
  <2>4. sizes \in Seq(AllSizes)
    BY <1>0, <1>6, <2>2, <2>3
  <2>5. SizeWanted(n) = IF ScaleWanted(n) THEN <<size>> ELSE <<>>
    BY DEF SizeWanted, size
  <2>. QED  BY <2>2, <2>4, <2>5
<1>9. ASSUME Present(SizesOf(elements'), NoSize) = sizes \o SizeWanted(n),
             Present(FormatsOf(elements'), "none") =
               IF n = 0 THEN FormatWanted ELSE formats
      PROVE  RequestsInv'
  <2>1. n = 0 => sizes \o SizeWanted(n) = SizeWanted(0)
    <3>1. \A q \in Seq(AllSizes) : <<>> \o q = q
      OBVIOUS
    <3>. QED  BY <1>6, <1>8, <3>1
  <2>2. n = 0 => RequestsInv'
    BY <1>1, <1>6, <1>7, <1>9, <2>1 DEF RequestsInv, Connected
  <2>3. n = 1 => RequestsInv'
    BY <1>1, <1>6, <1>7, <1>9 DEF RequestsInv, Connected
  <2>. QED  BY <1>0, <2>2, <2>3
<1>10. CASE ~ScaleWanted(n) /\ UNCHANGED chainVars
  <2>1. /\ UNCHANGED <<elements, links, postproc, postprocHead, vapostproc, vapostprocMask>>
        /\ Line' = Line
    BY <1>10 DEF chainVars, Line
  <2>2. LinksInv'
    BY <1>0, <1>1, <1>2, <2>1, StageLinks
  <2>3. VaapipostprocInv'
    BY <1>0, <1>1, <2>1 DEF BuiltInv, VaapipostprocInv, NoVaapipostproc
  <2>4. sizes \o SizeWanted(n) = sizes
    <3>1. SizeWanted(n) = <<>> /\ sizes \in Seq(AllSizes)
      BY <1>8, <1>10
    <3>. QED  BY <3>1
  <2>5. n = 0 => FormatWanted = ConvertWanted
    BY <1>10 DEF FormatWanted
  <2>6. Present(SizesOf(elements'), NoSize) = sizes
        /\ Present(FormatsOf(elements'), "none") = formats
    BY <2>1 DEF sizes, formats
  <2>7. RequestsInv'
    BY <1>0, <1>6, <1>9, <2>4, <2>5, <2>6
  <2>. QED  BY <2>2, <2>3, <2>7 DEF BuiltInv
<1>11. CASE ScaleWanted(n) /\ hwaccel = "none" /\ AppendFiltered("videoscale", "none", size)
  <2>1. "videoscale" \in AllFactories /\ "none" \in AllFormats
    BY DEF AllFactories, AllFormats
  <2>2. /\ elements' \in Seq(Made) /\ Len(elements') = Len(elements) + 2
        /\ elements'[Vsink] = elements[Vsink]
        /\ links' = Line' /\ postproc' = Len(elements') /\ postprocHead' = 4
        /\ Present(SizesOf(elements'), NoSize) = Append(sizes, size)
        /\ Present(FormatsOf(elements'), "none") = formats
    BY <1>2, <1>3, <1>4, <1>11, <2>1, FilteredAppended DEF sizes, formats
  <2>3. UNCHANGED <<vapostproc, vapostprocMask>>
    BY <1>11 DEF AppendFiltered
  <2>4. LinksInv'
    BY <1>0, <1>1, <1>2, <2>2, StageLinks
  <2>5. VaapipostprocInv'
    <3>1. n = 0 => NoVaapipostproc
      BY <1>1, <1>11 DEF BuiltInv, VaapipostprocInv
    <3>. QED  BY <1>0, <1>1, <1>11, <2>3, <3>1 DEF VaapipostprocInv, NoVaapipostproc
  <2>6. sizes \o SizeWanted(n) = Append(sizes, size)
    <3>1. SizeWanted(n) = <<size>> /\ sizes \in Seq(AllSizes)
      BY <1>8, <1>11
    <3>. QED  BY <1>3, <3>1
  <2>7. n = 0 => FormatWanted = ConvertWanted
    BY <1>11 DEF FormatWanted
  <2>8. RequestsInv'
    BY <1>0, <1>6, <1>9, <2>2, <2>6, <2>7
  <2>. QED  BY <2>4, <2>5, <2>8 DEF BuiltInv
<1>12. CASE ScaleWanted(n) /\ hwaccel = "vaapi" /\ AppendVaapipostproc(n, ScaleFormat(n), size)
           /\ ~(n = 0 /\ vconvert # "none")
  <2>1. ScaleFormat(n) \in AllFormats /\ (ScaleFormat(n) = "none" <=> n = 1)
        /\ (n = 0 => ScaleFormat(n) = "NV12" /\ vconvert = "none")
    BY <1>0, <1>12 DEF ScaleFormat, AllFormats, GstVideoFormats
  <2>2. /\ vapostproc[n] = 0 /\ n \notin vapostprocMask
        /\ n = 0 => NoVaapipostproc
    BY <1>0, <1>1, <1>12 DEF BuiltInv, VaapipostprocInv, NoVaapipostproc
  <2>3. /\ elements' \in Seq(Made) /\ Len(elements') = Len(elements) + 1
        /\ elements'[Vsink] = elements[Vsink]
        /\ links' = Line' /\ postproc' = Len(elements') /\ postprocHead' = 4
        /\ vapostproc' = [vapostproc EXCEPT ![n] = Len(elements) + 1]
        /\ vapostprocMask' = vapostprocMask \cup {n}
        /\ Present(SizesOf(elements'), NoSize) = Append(sizes, size)
        /\ Present(FormatsOf(elements'), "none") =
             IF ScaleFormat(n) = "none" THEN formats ELSE Append(formats, ScaleFormat(n))
    BY <1>2, <1>3, <1>4, <1>12, <2>1, <2>2, VaapipostprocAppended DEF sizes, formats
  <2>4. LinksInv'
    BY <1>0, <1>1, <1>2, <2>3, StageLinks
  <2>5. VaapipostprocInv'
    BY <1>0, <1>1, <2>2, <2>3 DEF VaapipostprocInv, NoVaapipostproc
  <2>6. sizes \o SizeWanted(n) = Append(sizes, size)
    <3>1. SizeWanted(n) = <<size>> /\ sizes \in Seq(AllSizes)
      BY <1>8, <1>12
    <3>. QED  BY <1>3, <3>1
  <2>7. n = 0 => /\ FormatWanted = <<"NV12">> /\ formats = <<>>
                 /\ Append(formats, ScaleFormat(n)) = <<"NV12">>
    <3>1. n = 0 => FormatWanted = <<"NV12">> /\ formats = <<>>
      BY <1>6, <1>12, <2>1 DEF FormatWanted, ConvertWanted
    <3>2. Append(<<>>, "NV12") = <<"NV12">>
      OBVIOUS
    <3>. QED  BY <2>1, <3>1, <3>2
  <2>8. RequestsInv'
    BY <1>0, <1>9, <2>1, <2>3, <2>6, <2>7
  <2>. QED  BY <2>4, <2>5, <2>8 DEF BuiltInv
<1>13. CASE ScaleWanted(n) /\ hwaccel = "vaapi" /\ AppendVaapipostproc(n, ScaleFormat(n), size)
           /\ n = 0 /\ vconvert # "none"
  <2>1. ScaleFormat(n) = "none" /\ AppendVaapipostproc(0, "none", size)
    BY <1>13 DEF ScaleFormat
  <2>2. /\ Len(elements) = 4 /\ vapostproc = [k \in Scalers |-> IF k = 0 THEN 4 ELSE 0]
        /\ vapostprocMask = {0}
        /\ elements[4].format = vconvert /\ elements[4].size = NoSize
    BY <1>1, <1>13 DEF BuiltInv, VaapipostprocInv
  <2>3. /\ elements' \in Seq(Made) /\ Len(elements') = 4
        /\ elements'[Vsink] = elements[Vsink]
        /\ UNCHANGED <<links, postproc, postprocHead, vapostproc, vapostprocMask>>
        /\ Present(SizesOf(elements'), NoSize) = <<size>>
        /\ Present(FormatsOf(elements'), "none") = <<vconvert>>
    BY <1>2, <1>3, <1>4, <1>13, <2>1, <2>2, VaapipostprocAmended
  <2>4. Line' = Line
    BY <2>2, <2>3 DEF Line
  <2>5. LinksInv'
    BY <1>1, <1>2, <1>13, <2>2, <2>3, <2>4, StageLinks
  <2>6. VaapipostprocInv'
    BY <1>0, <1>1, <1>13, <2>2, <2>3 DEF VaapipostprocInv
  <2>7. sizes \o SizeWanted(n) = <<size>> /\ FormatWanted = <<vconvert>>
    BY <1>3, <1>6, <1>8, <1>13 DEF FormatWanted, ConvertWanted
  <2>8. RequestsInv'
    BY <1>9, <1>13, <2>3, <2>7
  <2>. QED  BY <2>5, <2>6, <2>8 DEF BuiltInv
<1>. QED  BY <1>5, <1>10, <1>11, <1>12, <1>13

LEMMA SinkBuilds ==
  ASSUME BuiltInv, InitSink
  PROVE  BuiltInv'
<1>1. /\ setup = "sink" /\ setup' = "connect"
      /\ links' = links \cup Linked(postproc, Vsink)
      /\ postprocHead' = IF postprocHead = 0 THEN Vsink ELSE postprocHead
      /\ UNCHANGED <<elements, hwaccel, vconvert, vscale>>
  BY DEF InitSink, HeadIs, optionVars
<1>2. LinksInv'
  <2>1. /\ elements \in Seq(Made) /\ Len(elements) >= 3 /\ links = Line
        /\ IF Len(elements) = 3 THEN postproc = 0 /\ postprocHead = 0
           ELSE postproc = Len(elements) /\ postprocHead = 4
        /\ elements[Vsink].size = NoSize /\ elements[Vsink].format = "none"
    BY <1>1 DEF BuiltInv, LinksInv, Stages
  <2>2. Line' = Line /\ ToSink' = ToSink
    BY <1>1 DEF Line, ToSink
  <2>3. ToSink = Linked(postproc, Vsink)
    <3>1. CASE Len(elements) = 3
      BY <2>1, <3>1 DEF ToSink, Linked
    <3>2. CASE Len(elements) # 3
      <4>1. postproc = Len(elements) /\ postproc # 0
        BY <2>1, <3>2
      <4>. QED  BY <3>2, <4>1 DEF ToSink, Linked
    <3>. QED  BY <3>1, <3>2
  <2>4. postprocHead' = IF Len(elements) = 3 THEN Vsink ELSE 4
    BY <1>1, <2>1
  <2>. QED  BY <1>1, <2>1, <2>2, <2>3, <2>4 DEF LinksInv, Stages, Connected
<1>3. VaapipostprocInv'
  BY <1>1 DEF VaapipostprocInv
<1>4. RequestsInv'
  BY <1>1 DEF BuiltInv, RequestsInv, SizeWanted, ScaleWanted, FormatWanted,
     ConvertWanted, Connected
<1>. QED  BY <1>2, <1>3, <1>4 DEF BuiltInv

LEMMA ConnectBuilds ==
  ASSUME BuiltInv, Connect \/ InitBus \/ InitWinsys
  PROVE  BuiltInv'
<1>1. /\ setup \in {"connect"} \cup Connected /\ setup' \in Connected
      /\ links' = IF setup = "connect" THEN links \cup {<<Source, Decodebin>>} ELSE links
      /\ UNCHANGED <<elements, postprocHead, hwaccel, vconvert, vscale>>
  BY DEF Connect, InitBus, InitWinsys, Connected, optionVars, chainVars
<1>2. LinksInv'
  <2>1. Line' = Line /\ ToSink' = ToSink
    BY <1>1 DEF Line, ToSink
  <2>. QED  BY <1>1, <2>1 DEF BuiltInv, LinksInv, Stages, Connected
<1>3. VaapipostprocInv'
  BY <1>1 DEF VaapipostprocInv, Connected
<1>4. RequestsInv'
  BY <1>1 DEF BuiltInv, RequestsInv, SizeWanted, ScaleWanted, FormatWanted,
     ConvertWanted, Connected
<1>. QED  BY <1>2, <1>3, <1>4 DEF BuiltInv

(* The elements from the fourth on, then the sink, then nothing.           *)
LineFrom(n) ==
  [i \in 1..n + 1 |-> IF i <= n - 3 THEN {i + 3} ELSE IF i = n - 2 THEN {Vsink} ELSE {}]

LEMMA FollowersInLine ==
  ASSUME LinksInv, setup = "ready", NEW n \in Nat, n = Len(elements)
  PROVE  /\ n >= 3 /\ postprocHead = IF n = 3 THEN Vsink ELSE 4
         /\ \A e \in 4..n - 1 : Follower(e) = {e + 1}
         /\ n # 3 => Follower(n) = {Vsink}
         /\ Follower(Vsink) = {}
<1>1. /\ n >= 3 /\ postprocHead = IF n = 3 THEN Vsink ELSE 4
      /\ links = {<<i, i + 1>> : i \in 4..n - 1} \cup
                 (IF n = 3 THEN {} ELSE {<<n, 3>>}) \cup {<<1, 2>>}
  BY DEF LinksInv, Connected, Stages, Line, ToSink, Vsink, Source, Decodebin
<1>2. \A e, f : <<e, f>> \in links <=> \/ e \in 4..n - 1 /\ f = e + 1
                                       \/ n # 3 /\ e = n /\ f = 3
                                       \/ e = 1 /\ f = 2
  BY <1>1
<1>3. \A l \in links : l = <<l[1], l[2]>>
  BY <1>1
<1>4. \A e : Follower(e) = {f \in {l[2] : l \in links} : <<e, f>> \in links}
  <2>1. TAKE e
  <2>2. \A f \in Follower(e) : <<e, f>> \in links /\ f \in {l[2] : l \in links}
    BY <1>3 DEF Follower
  <2>3. ASSUME NEW f, <<e, f>> \in links
        PROVE  f \in Follower(e)
    <3>1. <<e, f>>[1] = e /\ <<e, f>>[2] = f
      OBVIOUS
    <3>2. <<e, f>> \in {l \in links : l[1] = e}
      BY <2>3, <3>1
    <3>. QED  BY <3>1, <3>2 DEF Follower
  <2>. QED  BY <2>2, <2>3
<1>5. \A e, f : f \in Follower(e) <=> <<e, f>> \in links
  <2>1. \A e, f : <<e, f>> \in links => f \in {l[2] : l \in links}
    <3>1. \A e, f : <<e, f>>[2] = f
      OBVIOUS
    <3>. QED  BY <3>1
  <2>. QED  BY <1>4, <2>1
<1>6. \A e \in 4..n - 1 : Follower(e) = {e + 1}
  <2>1. TAKE e \in 4..n - 1
  <2>2. e # n /\ e # 1
    BY <1>1
  <2>3. \A f : f \in Follower(e) <=> f = e + 1
    BY <1>2, <1>5, <2>2
  <2>. QED  BY <2>3
<1>7. n # 3 => Follower(n) = {Vsink}
  <2>1. n \notin 4..n - 1 /\ n # 1
    BY <1>1
  <2>2. n # 3 => \A f : f \in Follower(n) <=> f = 3
    BY <1>2, <1>5, <2>1
  <2>. QED  BY <2>2 DEF Vsink
<1>8. Follower(Vsink) = {}
  <2>1. 3 \notin 4..n - 1 /\ 3 # 1
    BY <1>1
  <2>2. \A f : <<3, f>> \notin links
    BY <1>2, <2>1
  <2>3. \A f : f \notin Follower(3)
    BY <1>5, <2>2
  <2>4. Follower(3) = {}
    BY <2>3
  <2>. QED  BY <2>4 DEF Vsink
<1>. QED  BY <1>1, <1>6, <1>7, <1>8

(* The recursion by which Walk is defined.                                 *)
IsWalk(f) ==
  f = [i \in 1..Len(elements) + 1 |->
         IF i = 1 THEN {postprocHead} ELSE UNION {Follower(e) : e \in f[i - 1]}]

LEMMA UnionOfOne ==
  ASSUME NEW e
  PROVE  UNION {Follower(d) : d \in {e}} = Follower(e)
  OBVIOUS

LEMMA LineFollows ==
  ASSUME LinksInv, setup = "ready", NEW n \in Nat, n = Len(elements)
  PROVE  \A i \in 1..n + 1 :
           LineFrom(n)[i] = IF i = 1 THEN {postprocHead}
                            ELSE UNION {Follower(e) : e \in LineFrom(n)[i - 1]}
<1>. DEFINE w == LineFrom(n)
<1>1. /\ n >= 3 /\ postprocHead = IF n = 3 THEN Vsink ELSE 4
      /\ \A e \in 4..n - 1 : Follower(e) = {e + 1}
      /\ n # 3 => Follower(n) = {Vsink}
      /\ Follower(Vsink) = {}
  BY FollowersInLine
<1>2. \A i \in 1..n + 1 :
        w[i] = IF i <= n - 3 THEN {i + 3} ELSE IF i = n - 2 THEN {Vsink} ELSE {}
  BY DEF LineFrom
<1>. HIDE DEF w
<1>3. ASSUME NEW i \in 1..n + 1
      PROVE  w[i] = IF i = 1 THEN {postprocHead} ELSE UNION {Follower(e) : e \in w[i - 1]}
  <2>4. CASE i = 1
    <3>1. CASE n = 3
      BY <1>1, <1>2, <2>4, <3>1
    <3>2. CASE n # 3
      <4>1. i <= n - 3 /\ i + 3 = 4 /\ postprocHead = 4
        BY <1>1, <2>4, <3>2
      <4>. QED  BY <1>2, <2>4, <4>1
    <3>. QED  BY <3>1, <3>2
  <2>5. CASE i # 1
    <3>1. i - 1 \in 1..n + 1 /\ i \in Nat
      BY <2>5
    <3>2. CASE i - 1 <= n - 3
      <4>1. w[i - 1] = {i + 2}
        <5>1. i - 1 + 3 = i + 2
          OBVIOUS
        <5>. QED  BY <1>2, <3>1, <3>2, <5>1
      <4>2. UNION {Follower(e) : e \in w[i - 1]} = Follower(i + 2)
        BY <4>1, UnionOfOne
      <4>3. CASE i <= n - 3
        <5>1. i + 2 \in 4..n - 1 /\ i + 2 + 1 = i + 3
          BY <2>5, <3>1, <4>3
        <5>2. Follower(i + 2) = {i + 3}
          BY <1>1, <5>1
        <5>. QED  BY <1>2, <2>5, <4>2, <4>3, <5>2
      <4>4. CASE ~(i <= n - 3)
        <5>1. i + 2 = n /\ i = n - 2 /\ n # 3
          BY <1>1, <2>5, <3>1, <3>2, <4>4
        <5>. QED  BY <1>1, <1>2, <2>5, <4>2, <4>4, <5>1
      <4>. QED  BY <4>3, <4>4
    <3>3. CASE i - 1 = n - 2
      <4>1. ~(i <= n - 3) /\ i # n - 2 /\ ~(i - 1 <= n - 3)
        BY <1>1, <3>1, <3>3
      <4>2. w[i - 1] = {Vsink} /\ w[i] = {}
        BY <1>2, <3>1, <3>3, <4>1
      <4>3. UNION {Follower(e) : e \in w[i - 1]} = {}
        BY <1>1, <4>2, UnionOfOne
      <4>. QED  BY <2>5, <4>2, <4>3
    <3>4. CASE ~(i - 1 <= n - 3) /\ i - 1 # n - 2
      <4>1. ~(i <= n - 3) /\ i # n - 2
        BY <1>1, <3>1, <3>4
      <4>2. w[i - 1] = {} /\ w[i] = {}
        BY <1>2, <3>1, <3>4, <4>1
      <4>. QED  BY <2>5, <4>2
    <3>. QED  BY <3>2, <3>3, <3>4
  <2>. QED  BY <2>4, <2>5
<1>. QED  BY <1>3 DEF w

LEMMA WalkIsLine ==
  ASSUME LinksInv, setup = "ready", NEW n \in Nat, n = Len(elements)
  PROVE  Walk = LineFrom(n)
<1>. DEFINE w == LineFrom(n)
            NextOf(f, i) == IF i = 1 THEN {postprocHead}
                           ELSE UNION {Follower(e) : e \in f[i - 1]}
<1>1. \A i \in 1..n + 1 : w[i] = NextOf(w, i)
  BY LineFollows
<1>2. w = [i \in 1..n + 1 |-> w[i]]
  BY DEF LineFrom
<1>. HIDE DEF w
<1>3. IsWalk(w)
  BY <1>1, <1>2 DEF IsWalk
<1>4. ASSUME NEW f, IsWalk(f)
      PROVE  f = w
  <2>. DEFINE D == {k \in Nat : k \in 1..n + 1 => f[k] = w[k]}
  <2>1. \A i \in 1..n + 1 : f[i] = NextOf(f, i)
    BY <1>4 DEF IsWalk
  <2>2. 0 \in D
    OBVIOUS
  <2>3. ASSUME NEW k \in D
        PROVE  k + 1 \in D
    <3>1. k \in Nat /\ k + 1 \in Nat
      OBVIOUS
    <3>2. CASE k + 1 \in 1..n + 1 /\ k # 0
      <4>1. k \in 1..n + 1 /\ k + 1 - 1 = k /\ k + 1 # 1
        BY <3>1, <3>2
      <4>2. f[k] = w[k]
        BY <4>1
      <4>3. f[k + 1] = UNION {Follower(e) : e \in f[k]}
            /\ w[k + 1] = UNION {Follower(e) : e \in w[k]}
        <5>1. f[k + 1] = NextOf(f, k + 1) /\ w[k + 1] = NextOf(w, k + 1)
          BY <1>1, <2>1, <3>2
        <5>. QED  BY <4>1, <5>1
      <4>. QED  BY <3>1, <4>2, <4>3
    <3>3. CASE k = 0
      <4>1. 1 \in 1..n + 1 /\ k + 1 = 1
        BY <3>3
      <4>2. f[1] = {postprocHead} /\ w[1] = {postprocHead}
        BY <1>1, <2>1, <4>1
      <4>. QED  BY <3>1, <4>1, <4>2
    <3>4. CASE k + 1 \notin 1..n + 1
      BY <3>1, <3>4
    <3>. QED  BY <3>2, <3>3, <3>4
  <2>4. D = Nat
    <3>. HIDE DEF D
    <3>1. D \in SUBSET Nat
      BY DEF D
    <3>. QED  BY <2>2, <2>3, <3>1, Induction
  <2>5. \A i \in 1..n + 1 : f[i] = w[i]
    BY <2>4
  <2>6. f = [i \in 1..n + 1 |-> f[i]]
    BY <1>4 DEF IsWalk
  <2>. QED  BY <1>2, <2>5, <2>6
<1>5. Walk = CHOOSE f : IsWalk(f)
  BY DEF Walk, IsWalk
<1>6. (CHOOSE f : IsWalk(f)) = w
  <2>1. IsWalk(CHOOSE f : IsWalk(f))
    BY <1>3
  <2>. QED  BY <1>4, <2>1
<1>. QED  BY <1>5, <1>6 DEF w

LEMMA ChainIsLine ==
  ASSUME LinksInv, setup = "ready", NEW n \in Nat, n = Len(elements)
  PROVE  /\ n >= 3
         /\ Chain = [i \in 1..n - 2 |-> IF i <= n - 3 THEN i + 3 ELSE Vsink]
         /\ UNION {Walk[i] : i \in DOMAIN Walk} = 3..n
<1>1. n >= 3
  BY FollowersInLine
<1>2. Walk = LineFrom(n)
  BY WalkIsLine
<1>3. /\ DOMAIN Walk = 1..n + 1
      /\ \A i \in 1..n + 1 :
           Walk[i] = IF i <= n - 3 THEN {i + 3} ELSE IF i = n - 2 THEN {3} ELSE {}
  BY <1>2 DEF LineFrom, Vsink
<1>4. {i \in DOMAIN Walk : Walk[i] # {}} = 1..n - 2
  <2>1. \A i \in 1..n + 1 : Walk[i] # {} <=> i <= n - 3 \/ i = n - 2
    BY <1>3
  <2>2. \A i : i \in 1..n - 2 <=> i \in 1..n + 1 /\ (i <= n - 3 \/ i = n - 2)
    BY <1>1
  <2>. QED  BY <1>3, <2>1, <2>2
<1>5. Cardinality(1..n - 2) = n - 2
  <2>1. 1 \in Int /\ n - 2 \in Int /\ n - 2 >= 1
    BY <1>1
  <2>. QED  BY <2>1, FS_Interval
<1>6. Chain = [i \in 1..n - 2 |-> CHOOSE e \in Walk[i] : TRUE]
  BY <1>4, <1>5 DEF Chain
<1>7. \A i \in 1..n - 2 :
        (CHOOSE e \in Walk[i] : TRUE) = IF i <= n - 3 THEN i + 3 ELSE Vsink
  <2>1. TAKE i \in 1..n - 2
  <2>2. Walk[i] = {IF i <= n - 3 THEN i + 3 ELSE Vsink}
    BY <1>1, <1>3 DEF Vsink
  <2>. QED  BY <2>2
<1>8. Chain = [i \in 1..n - 2 |-> IF i <= n - 3 THEN i + 3 ELSE Vsink]
  BY <1>6, <1>7
<1>9. UNION {Walk[i] : i \in DOMAIN Walk} = 3..n
  <2>1. \A e \in 3..n : \E i \in DOMAIN Walk : e \in Walk[i]
    <3>1. TAKE e \in 3..n
    <3>2. CASE e = 3
      <4>1. n - 2 \in 1..n + 1 /\ Walk[n - 2] = {3}
        BY <1>1, <1>3
      <4>. QED  BY <1>3, <3>2, <4>1
    <3>3. CASE e # 3
      <4>1. e - 3 \in 1..n + 1 /\ Walk[e - 3] = {e - 3 + 3} /\ e - 3 + 3 = e
        BY <1>1, <1>3, <3>3
      <4>. QED  BY <1>3, <4>1
    <3>. QED  BY <3>2, <3>3
  <2>2. \A i \in DOMAIN Walk : Walk[i] \subseteq 3..n
    BY <1>1, <1>3
  <2>. QED  BY <2>1, <2>2
<1>. QED  BY <1>1, <1>8, <1>9

PipelineInv == StoredInv /\ BuiltInv

LEMMA InvSuffices ==
  ASSUME PipelineInv
  PROVE  PipelineAsAsked
<1>1. SUFFICES ASSUME setup = "ready", ~refused
               PROVE  /\ Cardinality(UNION {Walk[i] : i \in DOMAIN Walk}) = Len(Chain)
                      /\ {Chain[i] : i \in DOMAIN Chain} =
                           (1..Len(elements)) \ {Source, Decodebin}
                      /\ Chain[Len(Chain)] = Vsink
                      /\ Sizes(Chain) = AskedSizes
                      /\ Formats(Chain) = AskedFormats
  BY DEF PipelineAsAsked
<1>. DEFINE n == Len(elements)
<1>2. /\ elements \in Seq(Made)
      /\ elements[Vsink].size = NoSize /\ elements[Vsink].format = "none"
  BY <1>1 DEF PipelineInv, BuiltInv, LinksInv, Stages, Connected
<1>3. n \in Nat
  BY <1>2
<1>4. /\ n >= 3
      /\ Chain = [i \in 1..n - 2 |-> IF i <= n - 3 THEN i + 3 ELSE Vsink]
      /\ UNION {Walk[i] : i \in DOMAIN Walk} = 3..n
  <2>1. LinksInv /\ n = Len(elements)
    BY DEF PipelineInv, BuiltInv
  <2>. HIDE DEF n
  <2>. QED  BY <1>1, <1>3, <2>1, ChainIsLine
<1>. HIDE DEF n
<1>5. Len(Chain) = n - 2 /\ Chain[n - 2] = Vsink
  BY <1>3, <1>4
<1>6. Cardinality(3..n) = n - 2
  <2>1. 3 \in Int /\ n \in Int /\ 3 <= n /\ n - 3 + 1 = n - 2
    BY <1>3, <1>4
  <2>. QED  BY <2>1, FS_Interval
<1>7. {Chain[i] : i \in DOMAIN Chain} = 1..n \ {Source, Decodebin}
  <2>1. \A i \in 1..n - 2 : Chain[i] \in 3..n
    BY <1>3, <1>4 DEF Vsink
  <2>2. \A e \in 3..n : \E i \in 1..n - 2 : e = Chain[i]
    <3>1. TAKE e \in 3..n
    <3>2. CASE e = 3
      <4>1. n - 2 \in 1..n - 2
        BY <1>3, <1>4
      <4>. QED  BY <1>5, <3>2, <4>1 DEF Vsink
    <3>3. CASE e # 3
      <4>1. e - 3 \in 1..n - 2 /\ e - 3 <= n - 3 /\ e - 3 + 3 = e
        BY <1>3, <1>4, <3>3
      <4>. QED  BY <1>4, <4>1
    <3>. QED  BY <3>2, <3>3
  <2>3. 3..n = 1..n \ {Source, Decodebin}
    BY <1>3 DEF Source, Decodebin
  <2>4. DOMAIN Chain = 1..n - 2
    BY <1>4
  <2>. QED  BY <2>1, <2>2, <2>3, <2>4
<1>. DEFINE sizes == [i \in DOMAIN Chain |-> elements[Chain[i]].size]
            formats == [i \in DOMAIN Chain |-> elements[Chain[i]].format]
<1>8. /\ SizesOf(elements) \in Seq(AllSizes) /\ FormatsOf(elements) \in Seq(AllFormats)
      /\ SizesOf(elements) = [i \in 1..n - 3 |-> elements[i + 3].size]
      /\ FormatsOf(elements) = [i \in 1..n - 3 |-> elements[i + 3].format]
  <2>1. SizesOf(elements) = [i \in 1..n - 3 |-> elements[i + 3].size]
        /\ FormatsOf(elements) = [i \in 1..n - 3 |-> elements[i + 3].format]
    BY DEF SizesOf, FormatsOf, n
  <2>2. \A i \in 1..n - 3 : elements[i + 3].size \in AllSizes
                            /\ elements[i + 3].format \in AllFormats
    <3>1. \A i \in 1..n - 3 : elements[i + 3] \in Made
      BY <1>2, <1>3 DEF n
    <3>. QED  BY <3>1 DEF Made
  <2>3. n - 3 \in Nat
    BY <1>3, <1>4
  <2>. QED  BY <2>1, <2>2, <2>3
<1>9. NoSize \in AllSizes /\ "none" \in AllFormats
  BY DEF AllSizes, AllFormats
<1>10. \A i \in 1..n - 2 :
         /\ sizes[i] = IF i <= n - 3 THEN elements[i + 3].size ELSE NoSize
         /\ formats[i] = IF i <= n - 3 THEN elements[i + 3].format ELSE "none"
  BY <1>2, <1>4
<1>11. /\ DOMAIN sizes = 1..n - 2 /\ sizes = [i \in 1..n - 2 |-> sizes[i]]
       /\ DOMAIN formats = 1..n - 2 /\ formats = [i \in 1..n - 2 |-> formats[i]]
  BY <1>4
<1>. HIDE DEF sizes, formats
<1>12. n - 3 \in Nat /\ n - 2 = n - 3 + 1 /\ n - 2 \in Nat
  BY <1>3, <1>4
<1>13. sizes = Append(SizesOf(elements), NoSize)
  <2>1. sizes \in Seq(AllSizes) /\ Len(sizes) = n - 2
    <3>1. \A i \in 1..n - 3 : elements[i + 3].size \in AllSizes
      <4>1. DOMAIN SizesOf(elements) = 1..n - 3
        BY <1>8
      <4>. QED  BY <1>8, <1>12
    <3>2. \A i \in 1..n - 2 : sizes[i] \in AllSizes
      BY <1>9, <1>10, <1>12, <3>1
    <3>. QED  BY <1>11, <1>12, <3>2
  <2>2. /\ Append(SizesOf(elements), NoSize) \in Seq(AllSizes)
        /\ Len(Append(SizesOf(elements), NoSize)) = n - 2
    BY <1>8, <1>9, <1>12
  <2>3. \A i \in 1..n - 2 : sizes[i] = Append(SizesOf(elements), NoSize)[i]
    BY <1>8, <1>10, <1>12
  <2>. QED  BY <2>1, <2>2, <2>3, SeqEqual
<1>14. formats = Append(FormatsOf(elements), "none")
  <2>1. formats \in Seq(AllFormats) /\ Len(formats) = n - 2
    <3>1. \A i \in 1..n - 3 : elements[i + 3].format \in AllFormats
      <4>1. DOMAIN FormatsOf(elements) = 1..n - 3
        BY <1>8
      <4>. QED  BY <1>8, <1>12
    <3>2. \A i \in 1..n - 2 : formats[i] \in AllFormats
      BY <1>9, <1>10, <1>12, <3>1
    <3>. QED  BY <1>11, <1>12, <3>2
  <2>2. /\ Append(FormatsOf(elements), "none") \in Seq(AllFormats)
        /\ Len(Append(FormatsOf(elements), "none")) = n - 2
    BY <1>8, <1>9, <1>12
  <2>3. \A i \in 1..n - 2 : formats[i] = Append(FormatsOf(elements), "none")[i]
    BY <1>8, <1>10, <1>12
  <2>. QED  BY <2>1, <2>2, <2>3, SeqEqual
<1>15. Present(sizes, NoSize) = Present(SizesOf(elements), NoSize)
       /\ Present(formats, "none") = Present(FormatsOf(elements), "none")
  BY <1>8, <1>9, <1>13, <1>14, PresentAppend
<1>16. Sizes(Chain) = Present(sizes, NoSize) /\ Formats(Chain) = Present(formats, "none")
  BY DEF Sizes, Formats, sizes, formats
<1>17. /\ Present(SizesOf(elements), NoSize) = SizeWanted(0) \o SizeWanted(1)
       /\ Present(FormatsOf(elements), "none") = FormatWanted
       /\ vconvert \in AllFormats
  BY <1>1 DEF PipelineInv, BuiltInv, RequestsInv, Connected
<1>18. AskedSizes = SizeWanted(0) \o SizeWanted(1) /\ AskedFormats = FormatWanted
  BY <1>1, <1>17, AskedIsStored DEF PipelineInv
<1>19. Chain[Len(Chain)] = Vsink
       /\ Cardinality(UNION {Walk[i] : i \in DOMAIN Walk}) = Len(Chain)
  BY <1>4, <1>5, <1>6
<1>. QED  BY <1>7, <1>15, <1>16, <1>17, <1>18, <1>19 DEF n

LEMMA PipelineStarts == PipelineInit => PipelineInv
<1>. SUFFICES ASSUME PipelineInit PROVE PipelineInv
  OBVIOUS
<1>1. StoredInv
  <2>1. parsed = 0 /\ Len(arguments) \in Nat /\ 1..parsed = {}
    <3>1. arguments \in Seq(Range(arguments))
      BY OptionsAssumption DEF PipelineInit
    <3>. QED  BY <3>1 DEF PipelineInit
  <2>2. Converts = {} /\ \A k : Scales(k) = {}
    BY <2>1 DEF Converts, Scales
  <2>3. NoSize \in AllSizes
    BY DEF AllSizes
  <2>4. vscale \in [Scalers -> [size : AllSizes, valid : BOOLEAN]]
        /\ \A k \in Scalers : ~vscale[k].valid
    BY <2>3 DEF PipelineInit
  <2>5. OptionsInv
    <3>1. parsed \in 0..Len(arguments)
      BY <2>1
    <3>. QED  BY <2>4, <3>1 DEF PipelineInit, OptionsInv
  <2>6. ConvertInv
    BY <2>2 DEF PipelineInit, ConvertInv
  <2>7. ScaleInv
    BY <2>2, <2>4 DEF ScaleInv
  <2>. QED  BY <2>5, <2>6, <2>7 DEF StoredInv
<1>2. BuiltInv
  BY DEF PipelineInit, BuiltInv, LinksInv, VaapipostprocInv, RequestsInv,
     NoVaapipostproc, Stages, Connected
<1>. QED  BY <1>1, <1>2 DEF PipelineInv

LEMMA SetUpBuilds ==
  ASSUME PipelineInv, SetUp
  PROVE  PipelineInv'
<1>1. CASE ParseOption
  BY <1>1, ParseKeeps, ParseBuilds DEF PipelineInv
<1>2. CASE MakeElements
  <2>1. StoredInv'
    BY <1>2, StoredStays DEF PipelineInv, MakeElements, optionVars
  <2>. QED  BY <1>2, <2>1, MakeBuilds DEF PipelineInv
<1>3. CASE InitConvert
  <2>1. setup # "options" => parsed = Len(arguments)
    BY DEF PipelineInv, StoredInv, OptionsInv
  <2>2. StoredInv'
    BY <1>3, <2>1, StoredStays DEF PipelineInv, InitConvert, optionVars
  <2>. QED  BY <1>3, <2>2, ConvertBuilds DEF PipelineInv
<1>4. ASSUME NEW n \in Scalers, InitScale(n)
      PROVE  PipelineInv'
  <2>1. setup # "options" => parsed = Len(arguments)
    BY DEF PipelineInv, StoredInv, OptionsInv
  <2>2. setup # "options" /\ setup' # "options"
    <3>1. n \in {0, 1}
      BY DEF Scalers, MaxVppChain
    <3>2. setup = <<"scale0", "scale1">>[n + 1] /\ setup' = <<"scale1", "sink">>[n + 1]
      BY <1>4 DEF InitScale
    <3>. QED  BY <3>1, <3>2
  <2>3. StoredInv'
    BY <1>4, <2>1, <2>2, StoredStays DEF PipelineInv, InitScale, optionVars
  <2>. QED  BY <1>4, <2>3, ScaleBuilds DEF PipelineInv
<1>5. CASE InitSink \/ Connect \/ InitBus \/ InitWinsys
  <2>1. setup # "options" => parsed = Len(arguments)
    BY DEF PipelineInv, StoredInv, OptionsInv
  <2>2. StoredInv'
    BY <1>5, <2>1, StoredStays
       DEF PipelineInv, InitSink, Connect, InitBus, InitWinsys, optionVars
  <2>. QED  BY <1>5, <2>2, SinkBuilds, ConnectBuilds DEF PipelineInv
<1>6. CASE SetupFails \/ SinkFails
  <2>1. setup # "options" => parsed = Len(arguments)
    BY DEF PipelineInv, StoredInv, OptionsInv
  <2>2. StoredInv'
    BY <1>6, <2>1, StoredStays DEF PipelineInv, SetupFails, SinkFails, optionVars
  <2>3. setup' \in {"failed", "crashed"}
    BY <1>6 DEF SetupFails, SinkFails
  <2>. QED  BY <2>2, <2>3, FailureKeeps DEF PipelineInv
<1>. QED  BY <1>1, <1>2, <1>3, <1>4, <1>5, <1>6 DEF SetUp

LEMMA PipelineStays ==
  ASSUME PipelineInv, UNCHANGED <<hwaccel, arguments, optionVars, setup, chainVars>>
  PROVE  PipelineInv'
<1>1. UNCHANGED <<hwaccel, arguments, parsed, refused, vconvert, vscale, setup>>
  BY DEF optionVars
<1>2. setup # "options" => parsed = Len(arguments)
  BY DEF PipelineInv, StoredInv, OptionsInv
<1>3. StoredInv'
  BY <1>1, <1>2, StoredStays DEF PipelineInv
<1>4. UNCHANGED MadeVars
  BY <1>1 DEF MadeVars
<1>. QED  BY <1>3, <1>4, BuiltStays DEF PipelineInv

LEMMA SessionBuilds ==
  ASSUME PipelineInv, [SessionNext]_sessionVars
  PROVE  PipelineInv'
<1>1. CASE SetUpPipeline
  BY <1>1, SetUpBuilds DEF SetUpPipeline
<1>2. CASE UNCHANGED pipelineVars
  BY <1>2, PipelineStays DEF pipelineVars
<1>3. CASE PlugElements
  <2>1. UNCHANGED <<hwaccel, arguments, optionVars, setup, chainVars>>
    BY <1>3 DEF PlugElements, Autoplug, SkipFactory, PlugFactory, FactoryFails
  <2>. QED  BY <2>1, PipelineStays
<1>. QED
  BY <1>1, <1>2, <1>3 DEF SessionNext, SessionMain, SessionStream, SetUpEnds,
     GiveUp, TakePictures, sessionVars

(* Whatever options are given, in whatever order: unless one was refused,  *)
(* the pictures pass through every element that was made, in a line that   *)
(* ends in the sink, and get the format and the sizes that the last        *)
(* options of their kind ask for, in that order.                           *)
THEOREM PipelineIsAsAsked == SessionSpec => []PipelineAsAsked
<1>1. SessionInit => PipelineInv
  BY PipelineStarts DEF SessionInit
<1>. QED  BY <1>1, SessionBuilds, InvSuffices, PTL DEF SessionSpec
=============================================================================
