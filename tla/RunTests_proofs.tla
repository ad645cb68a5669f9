--------------------------- MODULE RunTests_proofs ---------------------------
(***************************************************************************)
(* Proofs about RunTests, for any suites, media, directories and command   *)
(* lines.                                                                  *)
(***************************************************************************)
EXTENDS RunTests, FiniteSetTheorems, SequenceTheorems, TLAPS

-----------------------------------------------------------------------------
(* The inductive invariant                                                 *)

Results == Skipped \cup {"PASS", "FAIL"}

Files == DOMAIN Media \cup {NONE, "old", "wrong", "part"}

Logs == [test : DOMAIN suite, result : Results \cup {NONE}, report : Files]

FilesOK ==
  /\ outdir \in [ref : Files, out : Files]
  /\ logs \in Seq(Logs)
  /\ summary \in Seq(Nat \X {"PASS", "FAIL"})

TypeInv ==
  /\ TypeOK /\ FilesOK
  /\ pc \in {"exclude", "check", "decode", "diff"} => test \in DOMAIN suite

(* run_test() is between its first line and its result.                    *)
InTest == pc \in {"check", "decode", "diff"}

(* The test that runs is the last one in the log, and the only one whose   *)
(* result is not known.                                                    *)
LogInv ==
  /\ nTests = Len(logs)
  /\ \A i \in DOMAIN logs :
       /\ ~Excluded(logs[i].test, "absolute")
       /\ logs[i].result = NONE <=> (InTest /\ i = nTests)
  /\ InTest => nTests > 0 /\ logs[nTests].test = test

Count(b) == IF b THEN 1 ELSE 0

CountInv ==
  /\ nSkipped = Cardinality(Tests(Skipped))
  /\ nPassed = Cardinality(Tests({"PASS"}))
  /\ nSkipped + Len(summary) + Count(InTest) = nTests
  /\ {summary[i] : i \in DOMAIN summary}
       = {<<i, logs[i].result>> : i \in Tests({"PASS", "FAIL"})}

Pending(t) == pc \in {"exclude", "check", "decode", "diff"} /\ test = t

Remains(t) == t \in found /\ ~Excluded(t, "found")

Done(t) == {i \in DOMAIN logs : logs[i].test = t /\ logs[i].result # NONE}

ListedAt(i, t) ==
  \/ Words[i].kind = "file" /\ Words[i].path = t
  \/ /\ Words[i].kind = "dir" /\ t \in Listing(Words[i])
     /\ ~Excluded(t, "found")

ListedSoFar(t) == {i \in 1..arg - 1 : ListedAt(i, t)}

(* What the arguments seen so far list is done, being done, or still to be *)
(* printed by find.                                                        *)
ListInv ==
  /\ pc \in {"args", "end"} => found = {}
  /\ pc = "end" => arg = Len(Words) + 1
  /\ \A t \in DOMAIN suite :
       ~Excluded(t, "absolute") =>
         Cardinality(Done(t)) + Count(Pending(t)) + Count(Remains(t))
           = Cardinality(ListedSoFar(t))

(* The reference in the directory of the test is its own, or one that was  *)
(* left behind when it has none.                                           *)
ReferenceInv ==
  /\ pc = "check" /\ outputdir = "fresh" => outdir = NoFiles
  /\ pc \in {"decode", "diff"} =>
       /\ suite[test].hasReference => outdir.ref = suite[test].media
       /\ ~suite[test].hasReference /\ outputdir = "fresh" => outdir.ref = NONE
  /\ pc = "diff" => logs[nTests].report = outdir.out /\ outdir.out # NONE

(* The decoder runs for a test that mvt_run has accepted.                  *)
AcceptedInv ==
  pc = "decode" => TagsDefined(Config(test)) /\ CodecSupported(Config(test))

-----------------------------------------------------------------------------
(* The arguments                                                           *)

LEMMA WordsProperties ==
  ASSUME suite \in Suites, arguments \in CommandLines
  PROVE  /\ Len(Words) \in Nat
         /\ DOMAIN Words = 1..Len(Words)
         /\ \A i \in 1..Len(Words) : Words[i].kind = "file" => Words[i].path \in DOMAIN suite
<1>1. CASE arguments = <<>>
  <2>1. Words = <<TestDir>>
    BY <1>1 DEF Words
  <2>2. Len(Words) = 1 /\ DOMAIN Words = 1..1 /\ Words[1] = TestDir
    BY <2>1
  <2> QED BY <2>2 DEF TestDir
<1>2. CASE arguments # <<>>
  BY <1>2, RunTestsAssumption DEF Words
<1> QED BY <1>1, <1>2

-----------------------------------------------------------------------------
(* The log                                                                 *)

(* The result of the last test is stored, and nothing else changes.        *)
Stored(result) ==
  /\ DOMAIN logs' = DOMAIN logs /\ Len(logs') = Len(logs)
  /\ \A i \in DOMAIN logs :
       /\ logs'[i].test = logs[i].test /\ logs'[i].report = logs[i].report
       /\ logs'[i].result = IF i = nTests THEN result ELSE logs[i].result

LEMMA LogStores ==
  ASSUME FilesOK, LogInv, InTest, NEW result \in Results, Log(result)
  PROVE  logs' \in Seq(Logs) /\ Stored(result) /\ nTests \in DOMAIN logs
<1>1. /\ logs \in Seq(Logs) /\ nTests = Len(logs) /\ nTests > 0
      /\ logs' = [logs EXCEPT ![nTests].result = result]
  BY DEF FilesOK, LogInv, Log
<1>2. Len(logs) \in Nat /\ DOMAIN logs = 1..Len(logs) /\ logs \in [1..Len(logs) -> Logs]
  BY <1>1, LenProperties
<1>3. nTests \in 1..Len(logs)
  BY <1>1, <1>2
<1>4. logs[nTests] \in Logs
  BY <1>2, <1>3
<1>. DEFINE entry == [logs[nTests] EXCEPT !.result = result]
<1>5. entry \in Logs /\ entry.test = logs[nTests].test
      /\ entry.report = logs[nTests].report /\ entry.result = result
  BY <1>4 DEF Logs
<1>6. logs' = [logs EXCEPT ![nTests] = entry]
  BY <1>1
<1>. HIDE DEF entry
<1>7. logs' \in Seq(Logs) /\ Len(logs') = Len(logs)
      /\ \A j \in 1..Len(logs) : logs'[j] = IF j = nTests THEN entry ELSE logs[j]
  BY ONLY <1>1, <1>3, <1>5, <1>6, ExceptSeq
<1>8. DOMAIN logs' = DOMAIN logs
  BY <1>6
<1> QED BY <1>2, <1>3, <1>5, <1>7, <1>8 DEF Stored

LEMMA TestsStored ==
  ASSUME LogInv, InTest, nTests \in DOMAIN logs,
         NEW result \in Results, Stored(result), NEW R, NONE \notin R
  PROVE  /\ nTests \notin Tests(R)
         /\ Tests(R)' = IF result \in R THEN Tests(R) \cup {nTests} ELSE Tests(R)
<1>1. logs[nTests].result = NONE
  BY DEF LogInv
<1> QED BY <1>1 DEF Stored, Tests

-----------------------------------------------------------------------------
(* Type correctness                                                        *)

LEMMA InitType == Init => TypeInv
<1>. SUFFICES ASSUME Init PROVE TypeInv
  OBVIOUS
<1>1. arg \in 1..Len(Words) + 1
  BY WordsProperties DEF Init
<1>2. FilesOK
  BY DEF Init, FilesOK, NoFiles, Files
<1> QED BY <1>1, <1>2 DEF Init, TypeInv, TypeOK

(* A step that leaves the files alone and stays in the list.               *)
LEMMA FilesSame ==
  ASSUME FilesOK, UNCHANGED <<commandVars, fileVars>>
  PROVE  FilesOK'
BY DEF FilesOK, commandVars, fileVars, Logs, Files, Results, Skipped

LEMMA WordsSame ==
  ASSUME UNCHANGED commandVars
  PROVE  Words' = Words /\ suite' = suite
BY DEF commandVars, Words

LEMMA ListType ==
  ASSUME TypeInv,
         \/ RunDirectory \/ RunFile \/ IgnoreWord \/ ReadFound \/ ListEnds
         \/ ExcludeTest \/ Summarize
  PROVE  TypeInv'
<1>1. UNCHANGED <<commandVars, counterVars, fileVars>> /\ UNCHANGED <<file, cache>>
  BY DEF RunDirectory, RunFile, IgnoreWord, ReadFound, ListEnds, ExcludeTest,
         Summarize
<1>2. FilesOK'
  BY <1>1, FilesSame DEF TypeInv
<1>3. Words' = Words /\ suite' = suite /\ arguments' = arguments
  BY <1>1, WordsSame DEF commandVars
<1>4. /\ Len(Words) \in Nat /\ arg \in 1..Len(Words) + 1
      /\ \A i \in 1..Len(Words) : Words[i].kind = "file" => Words[i].path \in DOMAIN suite
  BY WordsProperties DEF TypeInv, TypeOK
<1>5. /\ pc' \in {"args", "list", "exclude", "check", "end"}
      /\ arg' \in 1..Len(Words) + 1
      /\ found' \subseteq DOMAIN suite /\ test' \in DOMAIN suite \cup {NONE}
      /\ pc' \in {"exclude", "check", "decode", "diff"} => test' \in DOMAIN suite
  <2>1. CASE RunDirectory
    BY <1>4, <2>1 DEF RunDirectory, MoreWords, Listing, TypeInv, TypeOK
  <2>2. CASE RunFile
    BY <1>4, <2>2 DEF RunFile, MoreWords, TypeInv, TypeOK
  <2>3. CASE IgnoreWord
    BY <1>4, <2>3 DEF IgnoreWord, MoreWords, TypeInv, TypeOK
  <2>4. CASE ReadFound
    BY <1>4, <2>4 DEF ReadFound, Remaining, TypeInv, TypeOK
  <2>5. CASE ListEnds \/ ExcludeTest \/ Summarize
    BY <1>4, <2>5 DEF ListEnds, ExcludeTest, Summarize, TypeInv, TypeOK
  <2> QED BY <2>1, <2>2, <2>3, <2>4, <2>5
<1>6. (cache \in DOMAIN InputDirs \cup {NONE})' /\ ({nTests, nPassed, nSkipped} \subseteq Nat)'
      /\ suite' \in Suites /\ arguments' \in CommandLines
  BY <1>1, <1>3 DEF TypeInv, TypeOK, counterVars
<1> QED BY <1>2, <1>3, <1>5, <1>6 DEF TypeInv, TypeOK

(* The numbers and the files that run_test() writes to.                    *)
LEMMA TestType ==
  ASSUME TypeInv, UNCHANGED <<commandVars, arg, found, test>>, FilesOK',
         pc' \in {"list", "check", "decode", "diff"},
         cache' \in DOMAIN InputDirs \cup {NONE},
         {nTests', nPassed', nSkipped'} \subseteq Nat,
         pc' \in {"decode", "diff"} => file' \in InputFiles,
         test \in DOMAIN suite
  PROVE  TypeInv'
<1>1. Words' = Words /\ suite' = suite /\ arguments' = arguments
  BY WordsSame DEF commandVars
<1> QED BY <1>1 DEF TypeInv, TypeOK

LEMMA StartFiles ==
  ASSUME TypeInv, LogInv, StartTest
  PROVE  /\ FilesOK'
         /\ Len(logs') = Len(logs) + 1 /\ DOMAIN logs' = DOMAIN logs \cup {nTests + 1}
         /\ nTests + 1 \notin DOMAIN logs
         /\ logs'[nTests + 1] = NewLog
         /\ \A i \in DOMAIN logs : logs'[i] = logs[i]
<1>1. suite' = suite /\ test \in DOMAIN suite /\ suite \in Suites /\ summary' = summary
  BY DEF StartTest, TypeInv, TypeOK, commandVars
<1>2. NewLog \in Logs
  BY <1>1 DEF NewLog, Logs, Files
<1>3. logs \in Seq(Logs) /\ logs' = Append(logs, NewLog) /\ nTests = Len(logs)
  BY DEF TypeInv, FilesOK, LogInv, StartTest
<1>4. Len(logs) \in Nat /\ DOMAIN logs = 1..Len(logs)
  BY <1>3, LenProperties
<1>5. /\ logs' \in Seq(Logs) /\ Len(logs') = Len(logs) + 1
      /\ \A i \in 1..Len(logs) : logs'[i] = logs[i]
      /\ logs'[Len(logs) + 1] = NewLog
  BY ONLY <1>2, <1>3, AppendProperties
<1>6. DOMAIN logs' = 1..Len(logs')
  BY <1>5, LenProperties
<1>7. outdir' \in [ref : Files, out : Files]
  <2>1. suite[test].media \in DOMAIN Media
    BY <1>1, RunTestsAssumption
  <2>2. outdir' \in LeftBehind
    BY DEF StartTest
  <2> QED BY <2>1, <2>2 DEF LeftBehind, NoFiles, Files
<1>8. FilesOK'
  <2>1. Logs' = Logs
    BY <1>1 DEF Logs
  <2> QED BY <1>1, <1>5, <1>7, <2>1 DEF FilesOK, TypeInv, Files
<1> QED BY <1>3, <1>4, <1>5, <1>6, <1>8

LEMMA SkipStep ==
  ASSUME TypeInv, LogInv, SkipForTags \/ SkipForCodec \/ SkipForSize \/ SkipForFile
  PROVE  \E reason \in Skipped :
           /\ Log(reason) /\ Stored(reason) /\ nTests \in DOMAIN logs
           /\ InTest /\ pc' = "list" /\ ~InTest' /\ nSkipped' = nSkipped + 1
           /\ UNCHANGED <<commandVars, arg, found, test, file, cache, nTests,
                          nPassed, outdir, summary>>
           /\ FilesOK'
<1>1. PICK reason \in Skipped : pc = "check" /\ Skip(reason)
  BY DEF SkipForTags, SkipForCodec, SkipForSize, SkipForFile, Runnable, Skipped
<1>2. InTest /\ Log(reason) /\ pc' = "list" /\ ~InTest'
  BY <1>1 DEF Skip, InTest
<1>3. reason \in Results
  BY <1>1 DEF Results
<1>4. logs' \in Seq(Logs) /\ Stored(reason) /\ nTests \in DOMAIN logs
  BY <1>2, <1>3, LogStores DEF TypeInv
<1>5. UNCHANGED <<commandVars, arg, found, test, file, cache, nTests, nPassed,
                  outdir, summary>> /\ nSkipped' = nSkipped + 1
  BY <1>1 DEF Skip
<1>6. FilesOK'
  BY <1>4, <1>5 DEF TypeInv, FilesOK, Logs, Files, Results, Skipped, commandVars
<1> QED BY <1>1, <1>2, <1>4, <1>5, <1>6

(* Every test that runs ends with a line in the summary.                   *)
LEMMA FinishStep ==
  ASSUME TypeInv, LogInv, DecoderFails \/ ReportsAgree \/ ReportsDiffer
  PROVE  \E result \in {"PASS", "FAIL"} :
           /\ Log(result) /\ Stored(result) /\ nTests \in DOMAIN logs
           /\ InTest /\ pc' = "list" /\ ~InTest'
           /\ summary' = Append(summary, <<nTests, result>>)
           /\ nPassed' = IF result = "PASS" THEN nPassed + 1 ELSE nPassed
           /\ result = "PASS" => pc = "diff" /\ outdir.out = outdir.ref
           /\ UNCHANGED <<commandVars, arg, found, test, file, cache, nTests,
                          nSkipped>>
           /\ FilesOK'
<1>1. PICK result \in {"PASS", "FAIL"} :
        /\ Finish(result) /\ pc \in {"decode", "diff"}
        /\ nPassed' = IF result = "PASS" THEN nPassed + 1 ELSE nPassed
        /\ result = "PASS" => pc = "diff" /\ outdir.out = outdir.ref
        /\ UNCHANGED <<commandVars, arg, found, test, file, cache, nTests, nSkipped>>
        /\ outdir' \in {outdir, [outdir EXCEPT !.out = "part"]}
  <2>1. CASE ReportsAgree
    BY <2>1 DEF ReportsAgree, Differ
  <2>2. CASE ReportsDiffer
    BY <2>2 DEF ReportsDiffer, counterVars
  <2>3. CASE DecoderFails
    BY <2>3 DEF DecoderFails, FailTest, counterVars
  <2> QED BY <2>1, <2>2, <2>3
<1>2. InTest /\ Log(result) /\ pc' = "list" /\ ~InTest'
      /\ summary' = Append(summary, <<nTests, result>>)
  BY <1>1 DEF Finish, InTest
<1>3. result \in Results
  BY <1>1 DEF Results
<1>4. logs' \in Seq(Logs) /\ Stored(result) /\ nTests \in DOMAIN logs
  BY <1>2, <1>3, LogStores DEF TypeInv
<1>5. summary' \in Seq(Nat \X {"PASS", "FAIL"})
  <2>1. summary \in Seq(Nat \X {"PASS", "FAIL"}) /\ nTests \in Nat
    BY DEF TypeInv, TypeOK, FilesOK
  <2>2. <<nTests, result>> \in Nat \X {"PASS", "FAIL"}
    BY <1>1, <2>1
  <2> QED BY ONLY <1>2, <2>1, <2>2, AppendProperties
<1>6. outdir' \in [ref : Files, out : Files]
  BY <1>1 DEF TypeInv, FilesOK, Files
<1>7. FilesOK'
  BY <1>1, <1>4, <1>5, <1>6 DEF FilesOK, Logs, Files, Results, Skipped, commandVars
<1> QED BY <1>1, <1>2, <1>4, <1>7

LEMMA DecodedStep ==
  ASSUME TypeInv, LogInv, DecoderSucceeds
  PROVE  /\ FilesOK' /\ DOMAIN logs' = DOMAIN logs /\ Len(logs') = Len(logs)
         /\ nTests \in DOMAIN logs
         /\ \A i \in DOMAIN logs :
              /\ logs'[i].test = logs[i].test /\ logs'[i].result = logs[i].result
              /\ i # nTests => logs'[i].report = logs[i].report
         /\ logs'[nTests].report = outdir'.out
         /\ outdir'.out \in DOMAIN Media \cup {"wrong"} /\ outdir'.ref = outdir.ref
<1>1. PICK report \in {file.media, "wrong"} :
        /\ outdir' = [outdir EXCEPT !.out = report]
        /\ logs' = [logs EXCEPT ![nTests].report = report]
  BY DEF DecoderSucceeds
<1>2. pc = "decode" /\ UNCHANGED <<commandVars, summary>> /\ file \in InputFiles
  BY DEF DecoderSucceeds, TypeInv, TypeOK
<1>3. report \in DOMAIN Media \cup {"wrong"}
  BY <1>1, <1>2, RunTestsAssumption
<1>4. logs \in Seq(Logs) /\ nTests = Len(logs) /\ nTests > 0
      /\ outdir \in [ref : Files, out : Files]
  BY <1>2 DEF TypeInv, FilesOK, LogInv, InTest
<1>5. Len(logs) \in Nat /\ DOMAIN logs = 1..Len(logs) /\ logs \in [1..Len(logs) -> Logs]
  BY <1>4, LenProperties
<1>6. nTests \in 1..Len(logs) /\ logs[nTests] \in Logs
  BY <1>4, <1>5
<1>. DEFINE entry == [logs[nTests] EXCEPT !.report = report]
<1>7. entry \in Logs /\ entry.test = logs[nTests].test
      /\ entry.result = logs[nTests].result /\ entry.report = report
  BY <1>3, <1>6 DEF Logs, Files
<1>8. logs' = [logs EXCEPT ![nTests] = entry]
  BY <1>1
<1>. HIDE DEF entry
<1>9. logs' \in Seq(Logs) /\ Len(logs') = Len(logs)
      /\ \A j \in 1..Len(logs) : logs'[j] = IF j = nTests THEN entry ELSE logs[j]
  BY ONLY <1>4, <1>6, <1>7, <1>8, ExceptSeq
<1>10. DOMAIN logs' = DOMAIN logs
  BY <1>8
<1>11. outdir' \in [ref : Files, out : Files] /\ outdir'.out = report
       /\ outdir'.ref = outdir.ref
  BY <1>1, <1>3, <1>4 DEF Files
<1>12. FilesOK'
  BY <1>2, <1>9, <1>11 DEF TypeInv, FilesOK, Logs, Files, commandVars, Results, Skipped
<1> QED BY <1>3, <1>5, <1>6, <1>7, <1>9, <1>10, <1>11, <1>12

LEMMA LocateStep ==
  ASSUME TypeInv, LocateFile
  PROVE  /\ FilesOK' /\ outdir'.out = outdir.out
         /\ suite[test].hasReference => outdir'.ref = suite[test].media
         /\ ~suite[test].hasReference => outdir'.ref = outdir.ref
         /\ file' \in InputFiles /\ cache' \in DOMAIN InputDirs
<1>1. test \in DOMAIN suite /\ suite[test].media \in DOMAIN Media
  BY RunTestsAssumption DEF LocateFile, Runnable, TypeInv, TypeOK
<1>2. UNCHANGED <<commandVars, logs, summary>> /\ CopyReference
  BY DEF LocateFile
<1>3. outdir \in [ref : Files, out : Files]
  BY DEF TypeInv, FilesOK
<1>4. /\ outdir' \in [ref : Files, out : Files] /\ outdir'.out = outdir.out
      /\ suite[test].hasReference => outdir'.ref = suite[test].media
      /\ ~suite[test].hasReference => outdir'.ref = outdir.ref
  BY <1>1, <1>2, <1>3 DEF CopyReference, Files
<1>5. file' \in InputFiles /\ cache' \in DOMAIN InputDirs
  <2>1. \E f \in SourceFiles : file' = f /\ cache' = Remember(f)
    BY DEF LocateFile
  <2> QED BY <2>1, RunTestsAssumption DEF SourceFiles, Below, Remember
<1>6. FilesOK'
  BY <1>2, <1>4 DEF TypeInv, FilesOK, Logs, Files, Results, Skipped, commandVars
<1> QED BY <1>4, <1>5, <1>6

LEMMA NextType ==
  ASSUME TypeInv, LogInv, [Next]_vars
  PROVE  TypeInv'
<1>1. CASE \/ RunDirectory \/ RunFile \/ IgnoreWord \/ ReadFound \/ ListEnds
           \/ ExcludeTest \/ Summarize
  BY <1>1, ListType
<1>2. /\ pc \in {"exclude", "check", "decode", "diff"} => test \in DOMAIN suite
      /\ cache \in DOMAIN InputDirs \cup {NONE}
      /\ nTests \in Nat /\ nPassed \in Nat /\ nSkipped \in Nat
      /\ pc \in {"decode", "diff"} => file \in InputFiles
  BY DEF TypeInv, TypeOK
<1>3. CASE StartTest
  <2>1. /\ UNCHANGED <<commandVars, arg, found, test, cache, nPassed, nSkipped>>
        /\ pc = "exclude" /\ pc' = "check" /\ nTests' = nTests + 1
    BY <1>3 DEF StartTest
  <2>2. nTests' \in Nat
    BY <1>2, <2>1
  <2> QED BY <1>2, <1>3, <2>1, <2>2, StartFiles, TestType
<1>4. CASE SkipForTags \/ SkipForCodec \/ SkipForSize \/ SkipForFile
  <2>1. /\ UNCHANGED <<commandVars, arg, found, test, cache, nTests, nPassed>>
        /\ pc = "check" /\ pc' = "list" /\ nSkipped' = nSkipped + 1
    BY <1>4 DEF SkipForTags, SkipForCodec, SkipForSize, SkipForFile, Runnable, Skip
  <2>2. FilesOK'
    BY <1>4, SkipStep
  <2>3. nSkipped' \in Nat
    BY <1>2, <2>1
  <2> QED BY <1>2, <2>1, <2>2, <2>3, TestType
<1>5. CASE LocateFile
  <2>1. /\ UNCHANGED <<commandVars, arg, found, test, counterVars>>
        /\ pc = "check" /\ pc' = "decode"
    BY <1>5 DEF LocateFile, Runnable
  <2> QED BY <1>2, <1>5, <2>1, LocateStep, TestType DEF counterVars
<1>6. CASE DecoderSucceeds
  <2>1. /\ UNCHANGED <<commandVars, arg, found, test, file, cache, counterVars>>
        /\ pc = "decode" /\ pc' = "diff"
    BY <1>6 DEF DecoderSucceeds
  <2> QED BY <1>2, <1>6, <2>1, DecodedStep, TestType DEF counterVars
<1>7. CASE DecoderFails \/ ReportsAgree \/ ReportsDiffer
  <2>1. /\ UNCHANGED <<commandVars, arg, found, test, file, cache, nTests, nSkipped>>
        /\ InTest /\ pc' = "list" /\ FilesOK' /\ nPassed' \in {nPassed, nPassed + 1}
    BY <1>7, FinishStep
  <2>2. nPassed' \in Nat
    BY <1>2, <2>1
  <2> QED BY <1>2, <2>1, <2>2, TestType DEF InTest
<1>8. CASE UNCHANGED vars
  BY <1>8, FilesSame DEF TypeInv, TypeOK, vars, commandVars, counterVars, Words
<1> QED
  BY <1>1, <1>3, <1>4, <1>5, <1>6, <1>7, <1>8 DEF Next, Terminated

-----------------------------------------------------------------------------
(* The log and the counters                                                *)

(* A step outside of run_test() touches neither.                           *)
LEMMA ListSteps ==
  ASSUME \/ RunDirectory \/ RunFile \/ IgnoreWord \/ ReadFound \/ ListEnds
         \/ ExcludeTest \/ Summarize
  PROVE  ~InTest /\ ~InTest' /\ UNCHANGED <<commandVars, counterVars, fileVars>>
BY DEF RunDirectory, RunFile, IgnoreWord, ReadFound, ListEnds, ExcludeTest,
       Summarize, MoreWords, InTest

LEMMA NextLog ==
  ASSUME TypeInv, LogInv, [Next]_vars
  PROVE  LogInv'
<1>1. CASE \/ RunDirectory \/ RunFile \/ IgnoreWord \/ ReadFound \/ ListEnds
           \/ ExcludeTest \/ Summarize
  BY <1>1, ListSteps DEF LogInv, Excluded, commandVars, counterVars, fileVars
<1>2. CASE StartTest
  <2>1. /\ pc = "exclude" /\ ~Excluded(test, "absolute") /\ pc' = "check"
        /\ UNCHANGED <<excludes, test>> /\ nTests' = nTests + 1
    BY <1>2 DEF StartTest, commandVars
  <2>2. InTest' /\ ~InTest
    BY <2>1 DEF InTest
  <2>3. nTests = Len(logs) /\ nTests \in Nat
    BY DEF LogInv, TypeInv, TypeOK
  <2>4. NewLog.test = test /\ NewLog.result = NONE
    BY DEF NewLog
  <2> QED BY <1>2, <2>1, <2>2, <2>3, <2>4, StartFiles DEF LogInv, Excluded
<1>3. CASE SkipForTags \/ SkipForCodec \/ SkipForSize \/ SkipForFile
  <2>1. PICK reason \in Skipped :
          /\ Stored(reason) /\ InTest /\ ~InTest'
          /\ UNCHANGED <<commandVars, nTests>>
    BY <1>3, SkipStep
  <2>2. reason # NONE
    BY DEF Skipped, NONE
  <2> QED BY <2>1, <2>2 DEF LogInv, Stored, Excluded, commandVars
<1>4. CASE LocateFile
  <2>1. InTest /\ InTest' /\ UNCHANGED <<excludes, test, nTests, logs>>
    BY <1>4 DEF LocateFile, Runnable, InTest, commandVars, counterVars
  <2> QED BY <2>1 DEF LogInv, Excluded
<1>5. CASE DecoderSucceeds
  <2>1. InTest /\ InTest' /\ UNCHANGED <<excludes, test, nTests>>
    BY <1>5 DEF DecoderSucceeds, InTest, commandVars, counterVars
  <2> QED BY <1>5, <2>1, DecodedStep DEF LogInv, Excluded
<1>6. CASE DecoderFails \/ ReportsAgree \/ ReportsDiffer
  <2>1. PICK result \in {"PASS", "FAIL"} :
          /\ Stored(result) /\ InTest /\ ~InTest'
          /\ UNCHANGED <<commandVars, nTests>>
    BY <1>6, FinishStep
  <2>2. result # NONE
    BY DEF NONE
  <2> QED BY <2>1, <2>2 DEF LogInv, Stored, Excluded, commandVars
<1>7. CASE UNCHANGED vars
  BY <1>7 DEF LogInv, InTest, Excluded, vars, commandVars, counterVars, fileVars
<1> QED
  BY <1>1, <1>2, <1>3, <1>4, <1>5, <1>6, <1>7 DEF Next, Terminated

LEMMA InitLog == Init => LogInv
<1>. SUFFICES ASSUME Init PROVE LogInv
  OBVIOUS
<1>1. logs = <<>> /\ nTests = 0 /\ ~InTest
  BY DEF Init, InTest
<1>2. Len(<<>>) = 0 /\ DOMAIN <<>> = {}
  OBVIOUS
<1> QED BY <1>1, <1>2 DEF LogInv

LEMMA TestsFinite ==
  ASSUME TypeInv, NEW R
  PROVE  IsFiniteSet(Tests(R)) /\ Cardinality(Tests(R)) \in Nat
<1>1. logs \in Seq(Logs)
  BY DEF TypeInv, FilesOK
<1>2. DOMAIN logs = 1..Len(logs) /\ Len(logs) \in Nat
  BY <1>1, LenProperties
<1>3. IsFiniteSet(1..Len(logs))
  BY <1>2, FS_Interval
<1>4. Tests(R) \subseteq 1..Len(logs)
  BY <1>2 DEF Tests
<1>5. IsFiniteSet(Tests(R))
  BY <1>3, <1>4, FS_Subset
<1> QED BY <1>5, FS_CardinalityType

LEMMA CountStored ==
  ASSUME TypeInv, LogInv, InTest, nTests \in DOMAIN logs,
         NEW result \in Results, Stored(result), NEW R, NONE \notin R
  PROVE  Cardinality(Tests(R)') =
           IF result \in R THEN Cardinality(Tests(R)) + 1 ELSE Cardinality(Tests(R))
BY TestsStored, TestsFinite, FS_AddElement

(* What neither is stored nor added does not count.                        *)
LEMMA TestsSame ==
  ASSUME DOMAIN logs' = DOMAIN logs,
         \A i \in DOMAIN logs : logs'[i].result = logs[i].result, NEW R
  PROVE  Tests(R)' = Tests(R)
BY DEF Tests

LEMMA TestsStarted ==
  ASSUME TypeInv, LogInv, StartTest, NEW R, NONE \notin R
  PROVE  Tests(R)' = Tests(R)
<1>1. NewLog.result = NONE
  BY DEF NewLog
<1> QED BY <1>1, StartFiles DEF Tests

LEMMA SummaryGrows ==
  ASSUME FilesOK, NEW x \in Nat \X {"PASS", "FAIL"}, summary' = Append(summary, x)
  PROVE  /\ {summary'[i] : i \in DOMAIN summary'}
              = {summary[i] : i \in DOMAIN summary} \cup {x}
         /\ Len(summary') = Len(summary) + 1 /\ Len(summary) \in Nat
<1>1. /\ summary \in Seq(Nat \X {"PASS", "FAIL"}) /\ summary' = Append(summary, x)
      /\ x \in Nat \X {"PASS", "FAIL"}
  BY DEF FilesOK
<1>2. /\ summary' \in Seq(Nat \X {"PASS", "FAIL"}) /\ Len(summary') = Len(summary) + 1
      /\ \A i \in 1..Len(summary) : summary'[i] = summary[i]
      /\ summary'[Len(summary) + 1] = x
  BY ONLY <1>1, AppendProperties
<1>3. /\ DOMAIN summary' = 1..Len(summary') /\ DOMAIN summary = 1..Len(summary)
      /\ Len(summary) \in Nat
  BY <1>1, <1>2, LenProperties
<1>4. 1..Len(summary') = 1..Len(summary) \cup {Len(summary) + 1}
  BY <1>2, <1>3
<1> QED BY <1>2, <1>3, <1>4

LEMMA InitCount == Init => CountInv
<1>. SUFFICES ASSUME Init PROVE CountInv
  OBVIOUS
<1>1. /\ logs = <<>> /\ summary = <<>> /\ nTests = 0 /\ nSkipped = 0 /\ nPassed = 0
      /\ ~InTest
  BY DEF Init, InTest
<1>2. Len(<<>>) = 0 /\ DOMAIN <<>> = {}
  OBVIOUS
<1>3. \A R : Tests(R) = {}
  BY <1>1, <1>2 DEF Tests
<1>4. Cardinality({}) = 0
  BY FS_EmptySet
<1>5. /\ {summary[i] : i \in DOMAIN summary} = {}
      /\ {<<i, logs[i].result>> : i \in Tests({"PASS", "FAIL"})} = {}
  BY <1>1, <1>2, <1>3
<1>6. nSkipped + Len(summary) + Count(InTest) = nTests
  BY <1>1, <1>2 DEF Count
<1> QED BY <1>1, <1>3, <1>4, <1>5, <1>6 DEF CountInv

LEMMA NextCount ==
  ASSUME TypeInv, LogInv, CountInv, [Next]_vars
  PROVE  CountInv'
<1>0. /\ nTests \in Nat /\ nSkipped \in Nat /\ nPassed \in Nat /\ Len(summary) \in Nat
      /\ NONE \notin Skipped /\ NONE \notin {"PASS"} /\ NONE \notin {"PASS", "FAIL"}
  BY LenProperties DEF TypeInv, TypeOK, FilesOK, Skipped, NONE
<1>1. CASE \/ RunDirectory \/ RunFile \/ IgnoreWord \/ ReadFound \/ ListEnds
           \/ ExcludeTest \/ Summarize
  BY <1>1, ListSteps DEF CountInv, Tests, Count, counterVars, fileVars
<1>2. CASE StartTest
  <2>1. /\ UNCHANGED <<summary, nPassed, nSkipped>> /\ nTests' = nTests + 1
        /\ InTest' /\ ~InTest
    BY <1>2 DEF StartTest, InTest
  <2>2. Tests(Skipped)' = Tests(Skipped) /\ Tests({"PASS"})' = Tests({"PASS"})
        /\ Tests({"PASS", "FAIL"})' = Tests({"PASS", "FAIL"})
    BY <1>0, <1>2, TestsStarted
  <2>3. \A i \in Tests({"PASS", "FAIL"}) : logs'[i] = logs[i]
    BY <1>2, StartFiles DEF Tests
  <2>4. nSkipped' + Len(summary') + Count(InTest') = nTests'
    BY <1>0, <2>1 DEF CountInv, Count
  <2> QED BY <2>1, <2>2, <2>3, <2>4, ZenonT(30) DEF CountInv
<1>3. CASE SkipForTags \/ SkipForCodec \/ SkipForSize \/ SkipForFile
  <2>1. PICK reason \in Skipped :
          /\ Stored(reason) /\ nTests \in DOMAIN logs /\ InTest /\ ~InTest'
          /\ UNCHANGED <<nTests, nPassed, summary>> /\ nSkipped' = nSkipped + 1
    BY <1>3, SkipStep
  <2>2. reason \in Results /\ reason \notin {"PASS"} /\ reason \notin {"PASS", "FAIL"}
    BY <2>1 DEF Skipped, Results
  <2>3. Cardinality(Tests(Skipped)') = Cardinality(Tests(Skipped)) + 1
    BY <1>0, <2>1, <2>2, CountStored
  <2>4. /\ Tests({"PASS"})' = Tests({"PASS"})
        /\ Tests({"PASS", "FAIL"})' = Tests({"PASS", "FAIL"})
        /\ nTests \notin Tests({"PASS", "FAIL"})
    BY <1>0, <2>1, <2>2, TestsStored
  <2>5. \A i \in Tests({"PASS", "FAIL"}) : logs'[i].result = logs[i].result
    BY <2>1, <2>4 DEF Stored, Tests
  <2>6. nSkipped' + Len(summary') + Count(InTest') = nTests'
    BY <1>0, <2>1 DEF CountInv, Count
  <2>7. nSkipped' = Cardinality(Tests(Skipped)')
    BY <2>1, <2>3 DEF CountInv
  <2> QED BY <2>1, <2>4, <2>5, <2>6, <2>7 DEF CountInv
<1>4. CASE LocateFile
  BY <1>4 DEF LocateFile, Runnable, CountInv, Tests, Count, InTest, counterVars
<1>5. CASE DecoderSucceeds
  <2>1. UNCHANGED <<counterVars, summary>> /\ InTest /\ InTest'
    BY <1>5 DEF DecoderSucceeds, InTest
  <2>2. /\ DOMAIN logs' = DOMAIN logs
        /\ \A i \in DOMAIN logs : logs'[i].result = logs[i].result
    BY <1>5, DecodedStep
  <2>3. \A R : Tests(R)' = Tests(R)
    BY <2>2 DEF Tests
  <2>4. \A i \in Tests({"PASS", "FAIL"}) : logs'[i].result = logs[i].result
    BY <2>2 DEF Tests
  <2> QED BY <2>1, <2>3, <2>4 DEF CountInv, Count, counterVars
<1>6. CASE DecoderFails \/ ReportsAgree \/ ReportsDiffer
  <2>1. PICK result \in {"PASS", "FAIL"} :
          /\ Stored(result) /\ nTests \in DOMAIN logs /\ InTest /\ ~InTest'
          /\ summary' = Append(summary, <<nTests, result>>)
          /\ nPassed' = IF result = "PASS" THEN nPassed + 1 ELSE nPassed
          /\ UNCHANGED <<nTests, nSkipped>>
    BY <1>6, FinishStep
  <2>2. result \in Results /\ result \notin Skipped
    BY DEF Skipped, Results
  <2>3. Tests(Skipped)' = Tests(Skipped)
    BY <1>0, <2>1, <2>2, TestsStored
  <2>4. Cardinality(Tests({"PASS"})') =
          IF result \in {"PASS"} THEN Cardinality(Tests({"PASS"})) + 1
                                 ELSE Cardinality(Tests({"PASS"}))
    BY <1>0, <2>1, <2>2, CountStored
  <2>5. /\ Tests({"PASS", "FAIL"})' = Tests({"PASS", "FAIL"}) \cup {nTests}
        /\ nTests \notin Tests({"PASS", "FAIL"})
    BY <1>0, <2>1, <2>2, TestsStored
  <2>6. /\ {summary'[i] : i \in DOMAIN summary'}
             = {summary[i] : i \in DOMAIN summary} \cup {<<nTests, result>>}
        /\ Len(summary') = Len(summary) + 1
    <3>1. <<nTests, result>> \in Nat \X {"PASS", "FAIL"}
      BY <1>0
    <3> QED BY <2>1, <3>1, SummaryGrows DEF TypeInv
  <2>7. /\ logs'[nTests].result = result
        /\ \A i \in Tests({"PASS", "FAIL"}) : logs'[i].result = logs[i].result
    BY <2>1, <2>5 DEF Stored, Tests
  <2>8. {<<i, logs'[i].result>> : i \in Tests({"PASS", "FAIL"})'}
          = {<<i, logs[i].result>> : i \in Tests({"PASS", "FAIL"})}
              \cup {<<nTests, result>>}
    BY <2>5, <2>7
  <2>9. nSkipped' + Len(summary') + Count(InTest') = nTests'
    BY <1>0, <2>1, <2>6 DEF CountInv, Count
  <2>10. nPassed' = Cardinality(Tests({"PASS"})')
    BY <2>1, <2>4 DEF CountInv
  <2> QED BY <2>1, <2>3, <2>6, <2>8, <2>9, <2>10 DEF CountInv
<1>7. CASE UNCHANGED vars
  BY <1>7 DEF CountInv, Count, Tests, InTest, vars, counterVars, fileVars
<1> QED
  BY <1>1, <1>2, <1>3, <1>4, <1>5, <1>6, <1>7 DEF Next, Terminated

-----------------------------------------------------------------------------
(* Every configuration that is listed is tested                            *)

LEMMA DoneFinite ==
  ASSUME TypeInv, NEW t
  PROVE  IsFiniteSet(Done(t)) /\ Cardinality(Done(t)) \in Nat
<1>1. logs \in Seq(Logs)
  BY DEF TypeInv, FilesOK
<1>2. DOMAIN logs = 1..Len(logs) /\ Len(logs) \in Nat
  BY <1>1, LenProperties
<1>3. IsFiniteSet(1..Len(logs))
  BY <1>2, FS_Interval
<1>4. Done(t) \subseteq 1..Len(logs)
  BY <1>2 DEF Done
<1>5. IsFiniteSet(Done(t))
  BY <1>3, <1>4, FS_Subset
<1> QED BY <1>5, FS_CardinalityType

LEMMA DoneStored ==
  ASSUME TypeInv, LogInv, InTest, nTests \in DOMAIN logs,
         NEW result \in Results, Stored(result), NEW t
  PROVE  Cardinality(Done(t)') = Cardinality(Done(t)) + Count(test = t)
<1>1. logs[nTests].result = NONE /\ logs[nTests].test = test
  BY DEF LogInv
<1>2. result # NONE
  BY DEF Results, Skipped, NONE
<1>3. nTests \notin Done(t)
  BY <1>1 DEF Done
<1>4. CASE test = t
  <2>1. Done(t)' = Done(t) \cup {nTests}
    BY <1>1, <1>2, <1>4 DEF Done, Stored
  <2> QED BY <1>3, <1>4, <2>1, DoneFinite, FS_AddElement DEF Count
<1>5. CASE test # t
  <2>1. Done(t)' = Done(t)
    BY <1>1, <1>5 DEF Done, Stored
  <2> QED BY <1>5, <2>1, DoneFinite DEF Count
<1> QED BY <1>4, <1>5

LEMMA ListedFinite ==
  ASSUME TypeInv, NEW t
  PROVE  IsFiniteSet(ListedSoFar(t)) /\ Cardinality(ListedSoFar(t)) \in Nat
<1>1. Len(Words) \in Nat /\ arg \in 1..Len(Words) + 1
  BY WordsProperties DEF TypeInv, TypeOK
<1>2. IsFiniteSet(1..arg - 1)
  BY <1>1, FS_Interval
<1>3. ListedSoFar(t) \subseteq 1..arg - 1
  BY DEF ListedSoFar
<1>4. IsFiniteSet(ListedSoFar(t))
  BY <1>2, <1>3, FS_Subset
<1> QED BY <1>4, FS_CardinalityType

(* One argument further.                                                   *)
LEMMA NextArgument ==
  ASSUME TypeInv, arg' = arg + 1, UNCHANGED commandVars, NEW t
  PROVE  Cardinality(ListedSoFar(t)') =
           Cardinality(ListedSoFar(t)) + Count(ListedAt(arg, t))
<1>1. arg \in Nat \ {0}
  <2>1. Len(Words) \in Nat /\ arg \in 1..Len(Words) + 1
    BY WordsProperties DEF TypeInv, TypeOK
  <2> QED BY <2>1
<1>2. 1..arg' - 1 = (1..arg - 1) \cup {arg} /\ arg \notin 1..arg - 1
  BY <1>1
<1>3. \A i : ListedAt(i, t)' = ListedAt(i, t)
  BY DEF ListedAt, Listing, Excluded, Words, commandVars
<1>4. ListedSoFar(t)' = {i \in 1..arg' - 1 : ListedAt(i, t)}
  BY <1>3 DEF ListedSoFar
<1>5. arg \notin ListedSoFar(t)
  BY <1>2 DEF ListedSoFar
<1>6. CASE ListedAt(arg, t)
  <2>1. ListedSoFar(t)' = ListedSoFar(t) \cup {arg}
    BY <1>2, <1>4, <1>6 DEF ListedSoFar
  <2> QED BY <1>5, <1>6, <2>1, ListedFinite, FS_AddElement DEF Count
<1>7. CASE ~ListedAt(arg, t)
  <2>1. ListedSoFar(t)' = ListedSoFar(t)
    BY <1>2, <1>4, <1>7 DEF ListedSoFar
  <2> QED BY <1>7, <2>1, ListedFinite DEF Count
<1> QED BY <1>6, <1>7

LEMMA ListedSame ==
  ASSUME UNCHANGED <<commandVars, arg>>, NEW t
  PROVE  ListedSoFar(t)' = ListedSoFar(t)
<1>1. \A i : ListedAt(i, t)' = ListedAt(i, t)
  BY DEF ListedAt, Listing, Excluded, Words, commandVars
<1> QED BY <1>1 DEF ListedSoFar

Balance(t) ==
  Cardinality(Done(t)) + Count(Pending(t)) + Count(Remains(t))
    = Cardinality(ListedSoFar(t))

LEMMA InitList == Init => ListInv
<1>. SUFFICES ASSUME Init PROVE ListInv
  OBVIOUS
<1>1. logs = <<>> /\ arg = 1 /\ found = {} /\ pc = "args"
  BY DEF Init
<1>2. DOMAIN <<>> = {} /\ 1..1 - 1 = {}
  OBVIOUS
<1>3. ASSUME NEW t PROVE Balance(t)
  <2>1. Done(t) = {} /\ ListedSoFar(t) = {}
    BY <1>1, <1>2 DEF Done, ListedSoFar
  <2>2. ~Pending(t) /\ ~Remains(t)
    BY <1>1 DEF Pending, Remains
  <2>3. Cardinality({}) = 0
    BY FS_EmptySet
  <2> QED BY <2>1, <2>2, <2>3 DEF Balance, Count
<1> QED BY <1>1, <1>3 DEF ListInv, Balance

LEMMA NextBalance ==
  ASSUME TypeInv, LogInv, ListInv, [Next]_vars, NEW t \in DOMAIN suite,
         ~Excluded(t, "absolute")
  PROVE  Balance(t)'
<1>0. /\ Balance(t) /\ Cardinality(Done(t)) \in Nat
      /\ Cardinality(ListedSoFar(t)) \in Nat
  BY DoneFinite, ListedFinite DEF ListInv, Balance
<1>. DEFINE InRun == pc \in {"exclude", "check", "decode", "diff"}
<1>1. CASE \/ RunDirectory \/ RunFile \/ IgnoreWord \/ ReadFound \/ ListEnds
           \/ ExcludeTest \/ Summarize
  <2>1. Done(t)' = Done(t) /\ UNCHANGED <<commandVars, suite, excludes>>
    BY <1>1, ListSteps DEF Done, fileVars, commandVars
  <2>2. CASE RunDirectory
    <3>1. /\ pc = "args" /\ found = {} /\ Words[arg].kind = "dir" /\ arg' = arg + 1
          /\ found' = Listing(Words[arg]) /\ pc' = "list"
      BY <2>2 DEF RunDirectory, MoreWords, ListInv
    <3>2. Remains(t)' = ListedAt(arg, t) /\ ~Remains(t)
      BY <2>1, <3>1 DEF Remains, ListedAt, Excluded
    <3>3. ~Pending(t) /\ ~Pending(t)'
      BY <3>1 DEF Pending
    <3>4. Cardinality(ListedSoFar(t)') =
            Cardinality(ListedSoFar(t)) + Count(ListedAt(arg, t))
      BY <2>1, <3>1, NextArgument
    <3> QED BY <1>0, <2>1, <3>2, <3>3, <3>4 DEF Balance, Count
  <2>3. CASE RunFile
    <3>1. /\ pc = "args" /\ found = {} /\ found' = {} /\ Words[arg].kind = "file"
          /\ test' = Words[arg].path /\ pc' = "exclude" /\ arg' = arg + 1
      BY <2>3 DEF RunFile, MoreWords, ListInv
    <3>2. ~Remains(t) /\ ~Remains(t)'
      BY <3>1 DEF Remains
    <3>3. ~Pending(t) /\ Pending(t)' = ListedAt(arg, t)
      BY <3>1 DEF Pending, ListedAt
    <3>4. Cardinality(ListedSoFar(t)') =
            Cardinality(ListedSoFar(t)) + Count(ListedAt(arg, t))
      BY <2>1, <3>1, NextArgument
    <3> QED BY <1>0, <2>1, <3>2, <3>3, <3>4 DEF Balance, Count
  <2>4. CASE IgnoreWord
    <3>1. /\ Words[arg].kind = "missing" /\ arg' = arg + 1
          /\ UNCHANGED <<pc, found, test>>
      BY <2>4 DEF IgnoreWord
    <3>2. ~ListedAt(arg, t)
      BY <3>1 DEF ListedAt
    <3>3. Remains(t)' = Remains(t) /\ Pending(t)' = Pending(t)
      BY <2>1, <3>1 DEF Remains, Pending, Excluded
    <3>4. Cardinality(ListedSoFar(t)') =
            Cardinality(ListedSoFar(t)) + Count(ListedAt(arg, t))
      BY <2>1, <3>1, NextArgument
    <3> QED BY <1>0, <2>1, <3>2, <3>3, <3>4 DEF Balance, Count
  <2>5. CASE ReadFound
    <3>1. arg' = arg /\ pc = "list" /\ ~Pending(t)
      BY <2>5 DEF ReadFound, Pending
    <3>2. ListedSoFar(t)' = ListedSoFar(t)
      BY <2>1, <3>1, ListedSame
    <3>3. PICK u \in found :
            IF Excluded(u, "found")
              THEN found' = found \ {u} /\ UNCHANGED <<pc, test>>
              ELSE found' = found \ {u} /\ test' = u /\ pc' = "exclude"
      BY <2>5 DEF ReadFound, Remaining
    <3>4. CASE Excluded(u, "found")
      <4>1. ~Pending(t)'
        BY <3>1, <3>3, <3>4 DEF Pending
      <4>2. Remains(t)' = Remains(t)
        BY <2>1, <3>3, <3>4 DEF Remains, Excluded
      <4> QED BY <1>0, <2>1, <3>1, <3>2, <4>1, <4>2 DEF Balance, Count
    <3>5. CASE ~Excluded(u, "found")
      <4>1. Pending(t)' = (u = t)
        BY <3>3, <3>5 DEF Pending
      <4>2. Remains(t)' = (Remains(t) /\ u # t)
        BY <2>1, <3>3, <3>5 DEF Remains, Excluded
      <4>3. u = t => Remains(t)
        BY <3>5 DEF Remains
      <4>4. CASE u = t
        <5>1. /\ Count(Pending(t)) = 0 /\ Count(Remains(t)) = 1
              /\ Count(Pending(t)') = 1 /\ Count(Remains(t)') = 0
          BY <3>1, <4>1, <4>2, <4>3, <4>4 DEF Count
        <5> QED BY <1>0, <2>1, <3>2, <5>1 DEF Balance
      <4>5. CASE u # t
        <5>1. Count(Pending(t)') = Count(Pending(t)) /\ Count(Remains(t)') = Count(Remains(t))
          BY <3>1, <4>1, <4>2, <4>5 DEF Count
        <5> QED BY <1>0, <2>1, <3>2, <5>1 DEF Balance
      <4> QED BY <4>4, <4>5
    <3> QED BY <3>4, <3>5
  <2>6. CASE ListEnds \/ ExcludeTest \/ Summarize
    <3>1. /\ UNCHANGED <<arg, found>> /\ ~Pending(t) /\ ~Pending(t)'
      BY <2>6 DEF ListEnds, ExcludeTest, Summarize, Pending
    <3>2. ListedSoFar(t)' = ListedSoFar(t)
      BY <2>1, <3>1, ListedSame
    <3>3. Remains(t)' = Remains(t)
      BY <2>1, <3>1 DEF Remains, Excluded
    <3> QED BY <1>0, <2>1, <3>1, <3>2, <3>3 DEF Balance, Count
  <2> QED BY <1>1, <2>2, <2>3, <2>4, <2>5, <2>6
<1>2. ASSUME UNCHANGED <<commandVars, arg, found, test>>, InRun, InRun',
             Done(t)' = Done(t)
      PROVE  Balance(t)'
  <2>1. ListedSoFar(t)' = ListedSoFar(t)
    BY <1>2, ListedSame
  <2>2. Remains(t)' = Remains(t) /\ Pending(t)' = Pending(t)
    BY <1>2 DEF Remains, Pending, Excluded, commandVars
  <2> QED BY <1>0, <1>2, <2>1, <2>2 DEF Balance
<1>3. CASE StartTest
  <2>1. /\ UNCHANGED <<commandVars, arg, found, test>> /\ InRun /\ InRun'
    BY <1>3 DEF StartTest
  <2>2. NewLog.result = NONE
    BY DEF NewLog
  <2>3. Done(t)' = Done(t)
    BY <1>3, <2>2, StartFiles DEF Done
  <2> QED BY <1>2, <2>1, <2>3
<1>4. CASE LocateFile
  <2>1. /\ UNCHANGED <<commandVars, arg, found, test, logs>> /\ InRun /\ InRun'
    BY <1>4 DEF LocateFile, Runnable
  <2>2. Done(t)' = Done(t)
    BY <2>1 DEF Done
  <2> QED BY <1>2, <2>1, <2>2
<1>5. CASE DecoderSucceeds
  <2>1. /\ UNCHANGED <<commandVars, arg, found, test>> /\ InRun /\ InRun'
    BY <1>5 DEF DecoderSucceeds
  <2>2. Done(t)' = Done(t)
    BY <1>5, DecodedStep DEF Done
  <2> QED BY <1>2, <2>1, <2>2
<1>6. ASSUME NEW result \in Results, Stored(result), nTests \in DOMAIN logs,
             InTest, pc' = "list", UNCHANGED <<commandVars, arg, found, test>>
      PROVE  Balance(t)'
  <2>1. ListedSoFar(t)' = ListedSoFar(t)
    BY <1>6, ListedSame
  <2>2. Remains(t)' = Remains(t) /\ Pending(t) = (test = t) /\ ~Pending(t)'
    BY <1>6 DEF Remains, Pending, Excluded, commandVars, InTest
  <2>3. Cardinality(Done(t)') = Cardinality(Done(t)) + Count(test = t)
    BY <1>6, DoneStored
  <2>4. Count(Pending(t)) = Count(test = t) /\ Count(Pending(t)') = 0
        /\ Count(Remains(t)') = Count(Remains(t)) /\ Count(test = t) \in {0, 1}
        /\ Count(Remains(t)) \in {0, 1}
    BY <2>2 DEF Count
  <2> QED BY <1>0, <2>1, <2>3, <2>4 DEF Balance
<1>7. CASE SkipForTags \/ SkipForCodec \/ SkipForSize \/ SkipForFile
  BY <1>6, <1>7, SkipStep DEF Results
<1>8. CASE DecoderFails \/ ReportsAgree \/ ReportsDiffer
  BY <1>6, <1>8, FinishStep DEF Results
<1>9. CASE UNCHANGED vars
  <2>1. UNCHANGED <<commandVars, arg, found, test, pc, logs>>
    BY <1>9 DEF vars, fileVars
  <2>2. ListedSoFar(t)' = ListedSoFar(t)
    BY <2>1, ListedSame
  <2>3. Done(t)' = Done(t) /\ Remains(t)' = Remains(t) /\ Pending(t)' = Pending(t)
    BY <2>1 DEF Done, Remains, Pending, Excluded, commandVars
  <2> QED BY <1>0, <2>2, <2>3 DEF Balance
<1> QED
  BY <1>1, <1>3, <1>4, <1>5, <1>7, <1>8, <1>9 DEF Next, Terminated

LEMMA NextList ==
  ASSUME TypeInv, LogInv, ListInv, [Next]_vars
  PROVE  ListInv'
<1>1. suite' = suite /\ excludes' = excludes /\ Words' = Words
  <2>1. UNCHANGED commandVars
    <3>1. CASE \/ RunDirectory \/ RunFile \/ IgnoreWord \/ ReadFound \/ ListEnds
               \/ ExcludeTest \/ Summarize
      BY <3>1, ListSteps
    <3>2. CASE SkipForTags \/ SkipForCodec \/ SkipForSize \/ SkipForFile
      BY <3>2, SkipStep
    <3>3. CASE DecoderFails \/ ReportsAgree \/ ReportsDiffer
      BY <3>3, FinishStep
    <3>4. CASE StartTest \/ LocateFile \/ DecoderSucceeds \/ UNCHANGED vars
      BY <3>4 DEF StartTest, LocateFile, DecoderSucceeds, vars
    <3> QED BY <3>1, <3>2, <3>3, <3>4 DEF Next, Terminated
  <2> QED BY <2>1 DEF commandVars, Words
<1>2. \A t \in DOMAIN suite' : ~Excluded(t, "absolute")' => Balance(t)'
  BY <1>1, NextBalance DEF Excluded
<1>3. (pc' \in {"args", "end"} => found' = {}) /\ (pc' = "end" => arg' = Len(Words') + 1)
  <2>1. Len(Words) \in Nat /\ arg \in 1..Len(Words) + 1
    BY WordsProperties DEF TypeInv, TypeOK
  <2>2. CASE RunDirectory \/ RunFile \/ ReadFound \/ ListEnds \/ ExcludeTest \/ StartTest
    BY <2>2 DEF RunDirectory, RunFile, ReadFound, ListEnds, ExcludeTest, StartTest,
                MoreWords, ListInv
  <2>3. CASE IgnoreWord
    BY <2>3 DEF IgnoreWord, MoreWords, ListInv
  <2>4. CASE Summarize
    BY <1>1, <2>1, <2>4 DEF Summarize, ListInv
  <2>5. CASE SkipForTags \/ SkipForCodec \/ SkipForSize \/ SkipForFile
    BY <2>5, SkipStep
  <2>6. CASE DecoderFails \/ ReportsAgree \/ ReportsDiffer
    BY <2>6, FinishStep
  <2>7. CASE LocateFile \/ DecoderSucceeds
    BY <2>7 DEF LocateFile, DecoderSucceeds
  <2>8. CASE UNCHANGED vars
    BY <1>1, <2>8 DEF vars, ListInv
  <2> QED
    BY <2>2, <2>3, <2>4, <2>5, <2>6, <2>7, <2>8 DEF Next, Terminated
<1> QED BY <1>2, <1>3 DEF ListInv, Balance

LEMMA Counted ==
  ASSUME TypeInv, LogInv, CountInv, ListInv
  PROVE  EveryTestCounted
<1>1. ASSUME pc = "end"
      PROVE  nTests - nSkipped = Len(summary)
  <2>1. ~InTest /\ nTests \in Nat /\ nSkipped \in Nat /\ Len(summary) \in Nat
    BY <1>1, LenProperties DEF InTest, TypeInv, TypeOK, FilesOK
  <2> QED BY <2>1 DEF CountInv, Count
<1>2. ASSUME pc = "end", NEW t \in DOMAIN suite
      PROVE  Cardinality(Done(t)) =
               IF Excluded(t, "absolute") THEN 0 ELSE Listed(t)
  <2>1. CASE Excluded(t, "absolute")
    <3>1. Done(t) = {}
      BY <2>1 DEF Done, LogInv
    <3> QED BY <2>1, <3>1, FS_EmptySet
  <2>2. CASE ~Excluded(t, "absolute")
    <3>1. Len(Words) \in Nat /\ DOMAIN Words = 1..Len(Words)
      BY WordsProperties DEF TypeInv, TypeOK
    <3>2. arg = Len(Words) + 1 /\ found = {}
      BY <1>2 DEF ListInv
    <3>3. 1..arg - 1 = DOMAIN Words
      BY <3>1, <3>2
    <3>4. Cardinality(ListedSoFar(t)) = Listed(t)
      BY <3>3 DEF ListedSoFar, ListedAt, Listed
    <3>5. Count(Pending(t)) = 0 /\ Count(Remains(t)) = 0
      BY <1>2, <3>2 DEF Pending, Remains, Count
    <3> QED BY <2>2, <3>4, <3>5, DoneFinite DEF ListInv
  <2> QED BY <2>1, <2>2
<1>3. nTests = Len(logs)
  BY DEF LogInv
<1> QED BY <1>1, <1>2, <1>3 DEF EveryTestCounted, CountInv, Done

LEMMA BasicInvariance == Spec => [](TypeInv /\ LogInv)
<1>1. Init => TypeInv /\ LogInv
  BY InitType, InitLog
<1>2. TypeInv /\ LogInv /\ [Next]_vars => (TypeInv /\ LogInv)'
  BY NextType, NextLog
<1> QED BY <1>1, <1>2, PTL DEF Spec

(* mvt_run keeps its counters, its directories and its place in the list   *)
(* of arguments within their types, for any suite.                         *)
THEOREM TypeCorrect == Spec => []TypeOK
<1>1. TypeInv => TypeOK
  BY DEF TypeInv
<1> QED BY <1>1, BasicInvariance, PTL

(* The summary of mvt_run adds up for any suite, any command line and any  *)
(* excluded paths: every configuration that is listed and not excluded has *)
(* exactly one outcome for every time it is listed.                        *)
THEOREM SummaryAddsUp == Spec => []EveryTestCounted
<1>1. Init => CountInv /\ ListInv
  BY InitCount, InitList
<1>2. TypeInv /\ LogInv /\ CountInv /\ ListInv /\ [Next]_vars => (CountInv /\ ListInv)'
  BY NextCount, NextList
<1>3. TypeInv /\ LogInv /\ CountInv /\ ListInv => EveryTestCounted
  BY Counted
<1> QED BY <1>1, <1>2, <1>3, BasicInvariance, PTL DEF Spec

-----------------------------------------------------------------------------
(* What a test that passes has shown                                       *)

LEMMA NextReference ==
  ASSUME TypeInv, LogInv, ReferenceInv, [Next]_vars
  PROVE  ReferenceInv'
<1>1. CASE \/ RunDirectory \/ RunFile \/ IgnoreWord \/ ReadFound \/ ListEnds
           \/ ExcludeTest \/ Summarize
  BY <1>1, ListSteps DEF ReferenceInv, InTest
<1>2. CASE StartTest
  BY <1>2 DEF StartTest, LeftBehind, ReferenceInv, commandVars
<1>3. CASE SkipForTags \/ SkipForCodec \/ SkipForSize \/ SkipForFile
  BY <1>3, SkipStep DEF ReferenceInv
<1>4. CASE DecoderFails \/ ReportsAgree \/ ReportsDiffer
  BY <1>4, FinishStep DEF ReferenceInv
<1>5. CASE LocateFile
  <2>1. /\ pc = "check" /\ pc' = "decode" /\ test' = test /\ suite' = suite
        /\ outputdir' = outputdir
    BY <1>5 DEF LocateFile, Runnable, commandVars
  <2>2. /\ suite[test].hasReference => outdir'.ref = suite[test].media
        /\ ~suite[test].hasReference => outdir'.ref = outdir.ref
    BY <1>5, LocateStep
  <2>3. outputdir = "fresh" => outdir.ref = NONE
    BY <2>1 DEF ReferenceInv, NoFiles
  <2> QED BY <2>1, <2>2, <2>3 DEF ReferenceInv
<1>6. CASE DecoderSucceeds
  <2>1. /\ pc = "decode" /\ pc' = "diff" /\ test' = test /\ suite' = suite
        /\ outputdir' = outputdir /\ nTests' = nTests
    BY <1>6 DEF DecoderSucceeds, commandVars, counterVars
  <2>2. /\ logs'[nTests].report = outdir'.out /\ outdir'.ref = outdir.ref
        /\ outdir'.out \in DOMAIN Media \cup {"wrong"}
    BY <1>6, DecodedStep
  <2>3. outdir'.out # NONE
    BY <2>2, RunTestsAssumption DEF NONE
  <2> QED BY <2>1, <2>2, <2>3 DEF ReferenceInv
<1>7. CASE UNCHANGED vars
  BY <1>7 DEF ReferenceInv, vars, commandVars, counterVars, fileVars
<1> QED
  BY <1>1, <1>2, <1>3, <1>4, <1>5, <1>6, <1>7 DEF Next, Terminated

LEMMA NextPass ==
  ASSUME TypeInv, LogInv, ReferenceInv, PassEarned, [Next]_vars
  PROVE  PassEarned'
<1>1. ASSUME UNCHANGED commandVars,
             \A i \in Tests({"PASS"})' :
               /\ i \in Tests({"PASS"})
               /\ logs'[i].test = logs[i].test /\ logs'[i].report = logs[i].report
      PROVE  PassEarned'
  BY <1>1 DEF PassEarned, commandVars
<1>2. CASE \/ RunDirectory \/ RunFile \/ IgnoreWord \/ ReadFound \/ ListEnds
           \/ ExcludeTest \/ Summarize
  BY <1>1, <1>2, ListSteps DEF fileVars, Tests
<1>3. CASE StartTest
  <2>1. NONE \notin {"PASS"} /\ UNCHANGED commandVars
    BY <1>3 DEF StartTest, NONE
  <2>2. Tests({"PASS"})' = Tests({"PASS"})
    BY <1>3, <2>1, TestsStarted
  <2>3. \A i \in Tests({"PASS"}) : logs'[i] = logs[i]
    BY <1>3, StartFiles DEF Tests
  <2> QED BY <1>1, <2>1, <2>2, <2>3
<1>4. CASE SkipForTags \/ SkipForCodec \/ SkipForSize \/ SkipForFile
  <2>1. PICK reason \in Skipped : Stored(reason) /\ UNCHANGED commandVars
    BY <1>4, SkipStep
  <2> QED BY <1>1, <2>1 DEF Stored, Tests, Skipped
<1>5. CASE LocateFile
  BY <1>1, <1>5 DEF LocateFile, Tests
<1>6. CASE DecoderSucceeds
  <2>1. /\ UNCHANGED commandVars /\ InTest
    BY <1>6 DEF DecoderSucceeds, InTest
  <2>2. nTests \notin Tests({"PASS"})
    BY <2>1 DEF LogInv, Tests, NONE
  <2> QED BY <1>1, <1>6, <2>1, <2>2, DecodedStep DEF Tests
<1>7. CASE DecoderFails \/ ReportsAgree \/ ReportsDiffer
  <2>1. PICK result \in {"PASS", "FAIL"} :
          /\ Stored(result) /\ UNCHANGED <<commandVars, test>> /\ InTest
          /\ result = "PASS" => pc = "diff" /\ outdir.out = outdir.ref
    BY <1>7, FinishStep
  <2>2. suite' = suite /\ outputdir' = outputdir
    BY <2>1 DEF commandVars
  <2>. SUFFICES ASSUME NEW i \in Tests({"PASS"})',
                       \/ suite[logs'[i].test].hasReference \/ outputdir = "fresh"
                PROVE  logs'[i].report = suite[logs'[i].test].media
    BY <2>2 DEF PassEarned
  <2>3. i \in DOMAIN logs /\ logs'[i].result = "PASS"
        /\ logs'[i].test = logs[i].test /\ logs'[i].report = logs[i].report
    BY <2>1 DEF Stored, Tests
  <2>4. CASE i = nTests
    <3>1. result = "PASS" /\ logs[nTests].test = test
      BY <2>1, <2>3, <2>4 DEF Stored, LogInv
    <3>2. /\ logs[nTests].report = outdir.ref /\ outdir.ref # NONE
          /\ suite[test].hasReference => outdir.ref = suite[test].media
          /\ ~suite[test].hasReference /\ outputdir = "fresh" => outdir.ref = NONE
      BY <2>1, <3>1 DEF ReferenceInv
    <3> QED BY <2>3, <2>4, <3>1, <3>2
  <2>5. CASE i # nTests
    BY <2>1, <2>3, <2>5 DEF Stored, Tests, PassEarned
  <2> QED BY <2>4, <2>5
<1>8. CASE UNCHANGED vars
  BY <1>1, <1>8 DEF vars, fileVars, Tests
<1> QED
  BY <1>2, <1>3, <1>4, <1>5, <1>6, <1>7, <1>8 DEF Next, Terminated

(* A test passes only for the pictures of its reference, whatever earlier  *)
(* runs of mvt_run have left in the directory and whatever file of that    *)
(* name was found.                                                         *)
THEOREM PassesAreEarned == Spec => []PassEarned
<1>1. Init => ReferenceInv /\ PassEarned
  <2>. SUFFICES ASSUME Init PROVE ReferenceInv /\ PassEarned
    OBVIOUS
  <2>1. logs = <<>> /\ pc = "args"
    BY DEF Init
  <2>2. DOMAIN <<>> = {}
    OBVIOUS
  <2> QED BY <2>1, <2>2 DEF ReferenceInv, PassEarned, Tests
<1>2. TypeInv /\ LogInv /\ ReferenceInv /\ PassEarned /\ [Next]_vars
        => (ReferenceInv /\ PassEarned)'
  BY NextReference, NextPass
<1> QED BY <1>1, <1>2, BasicInvariance, PTL DEF Spec

-----------------------------------------------------------------------------
(* The file of a test                                                      *)

LEMMA DumpedFile ==
  ASSUME NEW media, NEW codec, NEW profile
  PROVE  /\ Dumped(media, codec, profile).file = Media[media].name
         /\ HashFailed(media).file = Media[media].name
         /\ "file" \in DOMAIN Dumped(media, codec, profile)
BY DEF Dumped, CodecUnknown, HashFailed

LEMMA ConfigFile ==
  ASSUME NEW t
  PROVE  Config(t).file = Media[suite[t].media].name
<1>. DEFINE media == suite[t].media
            name == Media[media].name
<1>1. GstConfig(media).file = name /\ "file" \in DOMAIN GstConfig(media)
  BY DumpedFile DEF GstConfig
<1>2. [GstConfig(media) EXCEPT !.compat = "high"].file = name
  BY <1>1
<1>3. \/ Config(t) = GstConfig(media)
      \/ Config(t) = [GstConfig(media) EXCEPT !.compat = "high"]
      \/ Config(t) = HashFailed(media)
      \/ Config(t) = Dumped(media, CodecOf(media), ProfileOf(media))
  BY DEF Config
<1>4. /\ HashFailed(media).file = name
      /\ Dumped(media, CodecOf(media), ProfileOf(media)).file = name
  BY DumpedFile
<1>. HIDE DEF media, name
<1>5. Config(t).file = name
  BY <1>1, <1>2, <1>3, <1>4
<1> QED BY <1>5 DEF media, name

(* All of inputdir lies below ".", so that looking there finds any file.   *)
LEMMA NotFound ==
  ASSUME TypeInv, SourceFiles = {}, test \in DOMAIN suite,
         NEW f \in InputFiles
  PROVE  Media[f.media].name # Media[suite[test].media].name
<1>1. Below(".") = {}
  BY DEF SourceFiles
<1>2. f.dir \in InputDirs["."] /\ "." # NONE
  BY RunTestsAssumption DEF NONE
<1> QED BY <1>1, <1>2, ConfigFile DEF Below

LEMMA NextFound ==
  ASSUME TypeInv, LogInv, FoundWhenPresent, [Next]_vars
  PROVE  FoundWhenPresent'
<1>1. ASSUME UNCHANGED commandVars,
             \A i \in Tests({"file"})' :
               i \in Tests({"file"}) /\ logs'[i].test = logs[i].test
      PROVE  FoundWhenPresent'
  BY <1>1 DEF FoundWhenPresent, commandVars
<1>2. CASE \/ RunDirectory \/ RunFile \/ IgnoreWord \/ ReadFound \/ ListEnds
           \/ ExcludeTest \/ Summarize
  BY <1>1, <1>2, ListSteps DEF fileVars, Tests
<1>3. CASE StartTest
  <2>1. NONE \notin {"file"} /\ UNCHANGED commandVars
    BY <1>3 DEF StartTest, NONE
  <2>2. Tests({"file"})' = Tests({"file"})
    BY <1>3, <2>1, TestsStarted
  <2>3. \A i \in Tests({"file"}) : logs'[i] = logs[i]
    BY <1>3, StartFiles DEF Tests
  <2> QED BY <1>1, <2>1, <2>2, <2>3
<1>4. CASE SkipForTags \/ SkipForCodec \/ SkipForSize
  <2>1. PICK reason \in {"tags", "codec", "size"} : pc = "check" /\ Skip(reason)
    BY <1>4 DEF SkipForTags, SkipForCodec, SkipForSize, Runnable
  <2>2. Log(reason) /\ InTest /\ reason \in Results /\ UNCHANGED commandVars
    BY <2>1 DEF Skip, InTest, Results, Skipped
  <2>3. Stored(reason)
    BY <2>2, LogStores DEF TypeInv
  <2> QED BY <1>1, <2>2, <2>3 DEF Stored, Tests
<1>5. CASE SkipForFile
  <2>1. pc = "check" /\ Skip("file") /\ SourceFiles = {}
    BY <1>5 DEF SkipForFile, Runnable
  <2>2. Log("file") /\ InTest /\ "file" \in Results /\ UNCHANGED commandVars
    BY <2>1 DEF Skip, InTest, Results, Skipped
  <2>3. Stored("file")
    BY <2>2, LogStores DEF TypeInv
  <2>4. suite' = suite
    BY <2>2 DEF commandVars
  <2>. SUFFICES ASSUME NEW i \in Tests({"file"})', NEW f \in InputFiles
                PROVE  Media[f.media].name # Media[suite[logs'[i].test].media].name
    BY <2>4 DEF FoundWhenPresent
  <2>5. CASE i = nTests
    <3>1. test \in DOMAIN suite
      BY <2>1 DEF TypeInv
    <3>2. i \in DOMAIN logs /\ logs'[i].test = test
      BY <2>2, <2>3, <2>5 DEF Stored, Tests, LogInv
    <3> QED BY <2>1, <3>1, <3>2, NotFound
  <2>6. CASE i # nTests
    <3>1. i \in Tests({"file"}) /\ logs'[i].test = logs[i].test
      BY <2>3, <2>6 DEF Stored, Tests
    <3> QED BY <3>1 DEF FoundWhenPresent
  <2> QED BY <2>5, <2>6
<1>6. CASE LocateFile
  BY <1>1, <1>6 DEF LocateFile, Tests
<1>7. CASE DecoderSucceeds
  <2>1. UNCHANGED commandVars
    BY <1>7 DEF DecoderSucceeds
  <2> QED BY <1>1, <1>7, <2>1, DecodedStep DEF Tests
<1>8. CASE DecoderFails \/ ReportsAgree \/ ReportsDiffer
  <2>1. PICK result \in {"PASS", "FAIL"} : Stored(result) /\ UNCHANGED commandVars
    BY <1>8, FinishStep
  <2> QED BY <1>1, <2>1 DEF Stored, Tests
<1>9. CASE UNCHANGED vars
  BY <1>1, <1>9 DEF vars, fileVars, Tests
<1> QED
  BY <1>2, <1>3, <1>4, <1>5, <1>6, <1>7, <1>8, <1>9 DEF Next, Terminated

(* No file below inputdir has the name of one that get_test_file() could   *)
(* not find, whatever directory it remembered from the test before.        *)
THEOREM PresentFilesAreFound == Spec => []FoundWhenPresent
<1>1. Init => FoundWhenPresent
  <2>. SUFFICES ASSUME Init PROVE FoundWhenPresent
    OBVIOUS
  <2>1. logs = <<>> /\ DOMAIN <<>> = {}
    BY DEF Init
  <2> QED BY <2>1 DEF FoundWhenPresent, Tests
<1>2. TypeInv /\ LogInv /\ FoundWhenPresent /\ [Next]_vars => FoundWhenPresent'
  BY NextFound
<1> QED BY <1>1, <1>2, BasicInvariance, PTL DEF Spec

-----------------------------------------------------------------------------
(* What mvt_run accepts for hardware, and what dec_ffmpeg finds for it     *)

LEMMA NextAccepted ==
  ASSUME TypeInv, AcceptedInv, [Next]_vars
  PROVE  AcceptedInv'
<1>1. CASE LocateFile
  <2>1. /\ TagsDefined(Config(test)) /\ CodecSupported(Config(test))
        /\ UNCHANGED <<test, suite, hwaccel, device>>
    BY <1>1 DEF LocateFile, Runnable, commandVars
  <2>2. Config(test)' = Config(test)
    BY <2>1 DEF Config
  <2> QED BY <2>1, <2>2 DEF AcceptedInv, CodecSupported, HasCodec
<1>2. ASSUME pc' # "decode"
      PROVE  AcceptedInv'
  BY <1>2 DEF AcceptedInv
<1>3. CASE UNCHANGED vars
  BY <1>3 DEF AcceptedInv, Config, CodecSupported, HasCodec, vars, commandVars
<1> QED
  BY <1>1, <1>2, <1>3 DEF Next, Terminated, RunDirectory, RunFile, IgnoreWord,
     ReadFound, ListEnds, ExcludeTest, StartTest, SkipForTags, SkipForCodec,
     SkipForSize, SkipForFile, Skip, DecoderSucceeds, DecoderFails, FailTest,
     ReportsAgree, ReportsDiffer, Finish, Summarize, MoreWords

(* No other profile of H.264 has the id of stereo-high or multiview-high.  *)
LEMMA MultiviewIds ==
  ASSUME NEW p \in Profiles["h264"]
  PROVE  p[1] \in {"stereo-high", "multiview-high"} <=> p[2] \in {Id(128), Id(118)}
<1>1. p \in Profiles.h264
  OBVIOUS
<1>2. p[2] \in {Id(128), Id(118)} <=> p[2][1] \in {128, 118}
  BY <1>1 DEF Profiles, Id, H264Id
<1>3. p[2][1] \in {128, 118} <=> p[1] \in {"stereo-high", "multiview-high"}
  BY <1>1 DEF Profiles, Id, H264Id
<1> QED BY <1>2, <1>3

LEMMA ProfileOfName ==
  ASSUME NEW codec, NEW profile, ProfileName(codec, profile) # NONE
  PROVE  /\ codec \in DOMAIN Profiles
         /\ \E p \in Profiles[codec] :
              p[2] = profile /\ p[1] = ProfileName(codec, profile)
<1>1. \E p \in ProfilesOf(codec) : p[2] = profile
  BY DEF ProfileName
<1>2. (CHOOSE p \in ProfilesOf(codec) : p[2] = profile) \in ProfilesOf(codec)
      /\ (CHOOSE p \in ProfilesOf(codec) : p[2] = profile)[2] = profile
  BY <1>1
<1> QED BY <1>1, <1>2 DEF ProfileName, ProfilesOf

LEMMA FFmpegHasNoMultiview ==
  ASSUME NEW p, ProfileName("h264", FFmpegProfile("h264", p)) # NONE
  PROVE  ProfileName("h264", FFmpegProfile("h264", p))
           \notin {"stereo-high", "multiview-high"}
<1>. DEFINE profile == FFmpegProfile("h264", p)
<1>1. PICK q \in Profiles["h264"] :
        q[2] = profile /\ q[1] = ProfileName("h264", profile)
  BY ProfileOfName
<1>2. SUFFICES profile \notin {Id(128), Id(118)}
  BY <1>1, MultiviewIds
<1>3. CASE profile = NoProfile
  BY <1>3 DEF NoProfile, Id
<1>4. CASE profile # NoProfile
  <2>1. /\ p \in DOMAIN FFmpegProfiles["h264"]
        /\ profile = ProfileFromName("h264", FFmpegProfiles["h264"][p])
    BY <1>4 DEF FFmpegProfile
  <2>2. FFmpegProfiles["h264"][p] \notin {"stereo-high", "multiview-high"}
    BY <2>1 DEF FFmpegProfiles
  <2>. DEFINE name == FFmpegProfiles["h264"][p]
  <2>3. \E r \in Profiles["h264"] : r[1] = name /\ r[2] = profile
    <3>1. \E r \in ProfilesOf("h264") : r[1] = name
      BY <1>4, <2>1 DEF ProfileFromName
    <3>2. (CHOOSE r \in ProfilesOf("h264") : r[1] = name) \in ProfilesOf("h264")
          /\ (CHOOSE r \in ProfilesOf("h264") : r[1] = name)[1] = name
      BY <3>1
    <3>3. ProfilesOf("h264") = Profiles["h264"]
      BY DEF ProfilesOf, Profiles
    <3> QED BY <2>1, <3>1, <3>2, <3>3 DEF ProfileFromName
  <2> QED BY <2>2, <2>3, MultiviewIds
<1> QED BY <1>3, <1>4

(* The profiles that FFmpeg names and that any device has.                 *)
LEMMA AcceptedProfiles ==
  ASSUME NEW codec, NEW p, NEW name, name = ProfileName(codec, FFmpegProfile(codec, p)),
         name # NONE, HasCodec(codec, name)
  PROVE  \/ codec = "mpeg2" /\ name \in {"simple", "main"}
         \/ codec = "vc1" /\ name \in {"simple", "main", "advanced"}
         \/ codec = "h264" /\ name \in {"constrained-baseline", "main", "high"}
<1>1. codec \in DOMAIN Profiles
  BY ProfileOfName
<1>2. codec \notin {"jpeg", "vp8"}
  BY <1>1 DEF Profiles
<1>3. codec = "h264" => name \notin {"stereo-high", "multiview-high"}
  BY FFmpegHasNoMultiview
<1> QED BY <1>2, <1>3 DEF HasCodec

ProfilePairs(codec, pairs) == pairs \subseteq VaProfilesOf(codec)

(* Each of these has a VA profile ...                                      *)
LEMMA VaProfileOf ==
  ASSUME NEW codec, NEW profile, NEW name, name = ProfileName(codec, profile),
         \/ codec = "mpeg2" /\ name \in {"simple", "main"}
         \/ codec = "vc1" /\ name \in {"simple", "main", "advanced"}
         \/ codec = "h264" /\ name \in {"constrained-baseline", "main", "high"}
  PROVE  VaProfile(codec, profile) \in
              {"MPEG2Simple", "MPEG2Main", "VC1Simple", "VC1Main", "VC1Advanced",
               "H264ConstrainedBaseline", "H264Main", "H264High"}
<1>. DEFINE pairs == VaProfilesOf(codec)
            VA == {"MPEG2Simple", "MPEG2Main", "VC1Simple", "VC1Main", "VC1Advanced",
                   "H264ConstrainedBaseline", "H264Main", "H264High"}
<1>0. /\ ProfilePairs("mpeg2", {<<"simple", "MPEG2Simple">>, <<"main", "MPEG2Main">>})
      /\ ProfilePairs("vc1", {<<"simple", "VC1Simple">>, <<"main", "VC1Main">>,
                              <<"advanced", "VC1Advanced">>})
      /\ ProfilePairs("h264", {<<"constrained-baseline", "H264ConstrainedBaseline">>,
                               <<"main", "H264Main">>, <<"high", "H264High">>})
  BY DEF ProfilePairs, VaProfilesOf, VaProfiles
<1>1. \E p \in pairs : p[1] = name
  <2>1. ASSUME NEW va, <<name, va>> \in pairs
        PROVE  \E p \in pairs : p[1] = name
    <3>1. <<name, va>>[1] = name
      OBVIOUS
    <3> QED BY ONLY <2>1, <3>1
  <2>. HIDE DEF pairs
  <2>2. CASE codec = "mpeg2"
    BY <1>0, <2>1, <2>2 DEF ProfilePairs, pairs
  <2>3. CASE codec = "vc1"
    BY <1>0, <2>1, <2>3 DEF ProfilePairs, pairs
  <2>4. CASE codec = "h264"
    BY <1>0, <2>1, <2>4 DEF ProfilePairs, pairs
  <2> QED BY <2>2, <2>3, <2>4
<1>2. \A p \in pairs : p[1] = name => p[2] \in VA
  BY DEF VaProfilesOf, VaProfiles
<1>. HIDE DEF pairs, VA
<1>3. (CHOOSE p \in pairs : p[1] = name)[2] \in VA
  BY <1>1, <1>2
<1>4. VaProfile(codec, profile) = (CHOOSE p \in pairs : p[1] = name)[2]
  BY <1>1 DEF VaProfile, pairs
<1> QED BY <1>3, <1>4 DEF VA

(* ... and one of its candidates is among those of a full driver.          *)
LEMMA CandidateFound ==
  ASSUME NEW va \in {"MPEG2Simple", "MPEG2Main", "VC1Simple", "VC1Main", "VC1Advanced",
                     "H264ConstrainedBaseline", "H264Main", "H264High"},
         FullDriver
  PROVE  \E n \in 1..3 :
           /\ DOMAIN Candidates(va) = 1..n /\ Candidates(va)[n] \in driver
           /\ \A i \in 1..n : Candidates(va)[i] # NONE
<1>. DEFINE Found(n) == /\ DOMAIN Candidates(va) = 1..n /\ Candidates(va)[n] \in driver
                        /\ \A i \in 1..n : Candidates(va)[i] # NONE
<1>1. /\ "MPEG2Main" \in driver /\ "H264High" \in driver /\ "VC1Advanced" \in driver
      /\ va # NONE
  BY DEF FullDriver, NONE
<1>2. ASSUME NEW a \in driver, a # NONE, Candidates(va) = <<a>>
      PROVE  Found(1)
  BY <1>2
<1>3. ASSUME NEW a \in driver, a # NONE, Candidates(va) = <<va, a>>
      PROVE  Found(2)
  BY <1>1, <1>3
<1>4. ASSUME NEW b, NEW a \in driver, a # NONE, b # NONE, Candidates(va) = <<va, b, a>>
      PROVE  Found(3)
  BY <1>1, <1>4
<1>5. Found(1) \/ Found(2) \/ Found(3)
  <2>. HIDE DEF Found
  <2>1. CASE va = "MPEG2Simple"
    BY <1>1, <1>3, <2>1 DEF Candidates, NONE
  <2>2. CASE va = "H264ConstrainedBaseline"
    <3>1. Candidates(va) = <<va, "H264Main", "H264High">>
      BY <2>2 DEF Candidates
    <3> QED BY <1>1, <1>4, <3>1 DEF NONE
  <2>3. CASE va = "H264Main"
    BY <1>1, <1>3, <2>3 DEF Candidates, NONE
  <2>4. CASE va = "VC1Simple"
    <3>1. Candidates(va) = <<va, "VC1Main", "VC1Advanced">>
      BY <2>4 DEF Candidates
    <3> QED BY <1>1, <1>4, <3>1 DEF NONE
  <2>5. CASE va = "VC1Main"
    BY <1>1, <1>3, <2>5 DEF Candidates, NONE
  <2>6. CASE va \in {"MPEG2Main", "H264High", "VC1Advanced"}
    BY <1>1, <1>2, <2>6 DEF Candidates, NONE
  <2> QED BY <2>1, <2>2, <2>3, <2>4, <2>5, <2>6
<1> QED BY <1>5

LEMMA LeastIndex ==
  ASSUME NEW S \in SUBSET (1..3), S # {}
  PROVE  \E i \in S : \A j \in S : i <= j
<1>1. CASE 1 \in S
  BY <1>1
<1>2. CASE 1 \notin S /\ 2 \in S
  BY <1>2
<1>3. CASE 1 \notin S /\ 2 \notin S
  <2>1. \A i \in S : i = 3
    BY <1>3
  <2>2. 3 \in S
    BY <2>1
  <2> QED BY <2>1, <2>2
<1> QED BY <1>1, <1>2, <1>3

LEMMA FullDriverChooses ==
  ASSUME NEW codec, NEW profile, FullDriver,
         VaProfile(codec, profile) \in
           {"MPEG2Simple", "MPEG2Main", "VC1Simple", "VC1Main", "VC1Advanced",
            "H264ConstrainedBaseline", "H264Main", "H264High"}
  PROVE  ChosenProfile(codec, profile, driver) # NONE
<1>. DEFINE va == VaProfile(codec, profile)
            chain == Candidates(va)
            usable == {i \in DOMAIN chain : chain[i] \in driver}
            first == CHOOSE i \in usable : \A j \in usable : i <= j
<1>1. PICK n \in 1..3 :
        /\ DOMAIN chain = 1..n /\ chain[n] \in driver
        /\ \A i \in 1..n : chain[i] # NONE
  BY CandidateFound
<1>2. usable # {} /\ usable \subseteq 1..3 /\ va # NONE
  BY <1>1 DEF NONE
<1>3. first \in usable
  BY <1>2, LeastIndex
<1>4. chain[first] # NONE
  BY <1>1, <1>3
<1>5. ChosenProfile(codec, profile, driver) = chain[first]
  BY <1>2 DEF ChosenProfile
<1> QED BY <1>4, <1>5

LEMMA AcceptedCanRun ==
  ASSUME TypeInv, AcceptedInv
  PROVE  HardwareTestsCanRun
<1>. SUFFICES ASSUME pc = "decode", hwaccel = "vaapi", decoder = "dec_ffmpeg",
                     FullDriver, suite[test].origin = "dec_ffmpeg",
                     file.media = suite[test].media,
                     Config(test).profile # NONE,
                     CodecOf(file.media) \notin EarlyCodecs
              PROVE  CanDecode
  BY DEF HardwareTestsCanRun
<1>. DEFINE media == file.media
            codec == CodecOf(media)
            profile == ProfileOf(media)
            name == ProfileName(codec, profile)
<1>1. Config(test) = Dumped(media, codec, profile)
  BY DEF Config, FindDecoder
<1>2. Config(test).codec # NONE /\ CodecSupported(Config(test))
  BY DEF AcceptedInv, TagsDefined
<1>3. /\ Config(test).codec = codec /\ Config(test).profile = name
      /\ Config(test).compat = NONE
  BY <1>1, <1>2 DEF Dumped, CodecUnknown, HashFailed
<1>4. HasCodec(codec, name) /\ name # NONE
  BY <1>2, <1>3 DEF CodecSupported
<1>5. profile = FFmpegProfile(codec, Media[media].profile)
  BY DEF ProfileOf
<1>6. VaProfile(codec, profile) \in
        {"MPEG2Simple", "MPEG2Main", "VC1Simple", "VC1Main", "VC1Advanced",
         "H264ConstrainedBaseline", "H264Main", "H264High"}
  <2>. HIDE DEF codec, name, media, profile
  <2>1. name = ProfileName(codec, profile)
    BY DEF name
  <2> QED BY <1>4, <1>5, <2>1, AcceptedProfiles, VaProfileOf
<1>7. VaProfileFor(media) = ChosenProfile(codec, profile, driver)
  BY DEF VaProfileFor
<1> QED BY <1>6, <1>7, FullDriverChooses DEF CanDecode

(* What mvt_run accepts for hardware, dec_ffmpeg can decode with a driver  *)
(* that has the main profiles: the tables of mvt_run, of the configuration *)
(* files and of vaapi_get_format() agree for every video.                  *)
THEOREM AcceptedTestsCanRun == Spec => []HardwareTestsCanRun
<1>1. Init => AcceptedInv
  BY DEF Init, AcceptedInv
<1>2. TypeInv /\ AcceptedInv /\ [Next]_vars => AcceptedInv'
  BY NextAccepted
<1>3. TypeInv /\ AcceptedInv => HardwareTestsCanRun
  BY AcceptedCanRun
<1> QED BY <1>1, <1>2, <1>3, BasicInvariance, PTL DEF Spec
==============================================================================
