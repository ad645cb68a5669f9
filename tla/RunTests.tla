------------------------------- MODULE RunTests -------------------------------
(***************************************************************************)
(* The conformance test driver mvt_run: it looks for test configurations,  *)
(* decides which of them can be run, decodes their files and compares the  *)
(* reports with the reference ones.                                        *)
(*                                                                         *)
(* The configurations are those which mvt_decoder_dump_config() writes for *)
(* a file, so that the tables of the decoders, of VA-API and of mvt_run    *)
(* meet.  The report on a file stands for its pictures, and is named after *)
(* the file: two reports are the same when the pictures are.               *)
(***************************************************************************)
EXTENDS Codecs, FiniteSets

CONSTANTS
  Media,        \* encoded videos, a function from their pictures to
                \* [name, codecId, profile, caps, width, height]
  InputDirs,    \* directories below inputdir, with what lies below them
  InputFiles,   \* files below inputdir: [dir, media]
  Suites,       \* test suites: functions from the name of a configuration
                \* file to [dir, media, origin, hasReference]
  CommandLines, \* sequences of arguments
  Patterns,     \* sets of excluded paths: <<name, form>>
  Devices,      \* graphics devices
  Drivers,      \* sets of VA profiles a driver may have
  EarlyCodecs   \* codecs whose FFmpeg decoder asks for a format when opened

(* The directory "." is inputdir itself, below which everything lies.  An  *)
(* argument of kind "file" is a configuration that exists.                 *)
ASSUME RunTestsAssumption ==
  /\ IsFiniteSet(InputFiles)
  /\ \A f \in InputFiles : f.dir \in DOMAIN InputDirs /\ f.media \in DOMAIN Media
  /\ \A d \in DOMAIN InputDirs : InputDirs[d] \subseteq DOMAIN InputDirs
  /\ "." \in DOMAIN InputDirs /\ InputDirs["."] = DOMAIN InputDirs
  /\ {NONE, "wrong"} \cap DOMAIN Media = {}
  /\ \A s \in Suites : NONE \notin DOMAIN s
  /\ \A s \in Suites : \A t \in DOMAIN s : s[t].media \in DOMAIN Media
  /\ \A c \in CommandLines :
       /\ Len(c) \in Nat /\ DOMAIN c = 1..Len(c)
       /\ \A s \in Suites, i \in DOMAIN c : c[i].kind = "file" => c[i].path \in DOMAIN s
  /\ Devices \subseteq {"SNB", "IVB", "BYT", "HSW", "BDW"}
  /\ EarlyCodecs \subseteq {"mpeg4", "vc1"}

VARIABLES
  \* the command
  decoder,     \* dec_ffmpeg or dec_gstreamer
  hwaccel,     \* opt_hwaccel
  device,      \* gfx_device
  driver,      \* the VA profiles of its driver
  arguments,   \* the arguments left by getopts
  excludes,    \* what exclude_globs match
  outputdir,   \* "fresh", or "reused" with the files of an earlier run
  suite,       \* the test suite
  \* the program
  pc,
  arg,         \* the argument looked at
  found,       \* configurations that find has not printed yet
  test,        \* conffile
  file,        \* the media file found for it
  cache,       \* GET_TEST_FILE_CACHE
  nTests,      \* N_TESTS
  nPassed,     \* N_TESTS_PASSED
  nSkipped,    \* N_TESTS_SKIPPED
  outdir,      \* test.ref and test.out of this test
  logs,        \* test.log of every test
  summary      \* summary.txt

commandVars == <<decoder, hwaccel, device, driver, arguments, excludes,
                 outputdir, suite>>
counterVars == <<nTests, nPassed, nSkipped>>
fileVars    == <<outdir, logs, summary>>
vars == <<commandVars, pc, arg, found, test, file, cache, counterVars, fileVars>>

(* Without arguments, all of testdir is tested.                            *)
TestDir == [kind |-> "dir", path |-> "."]

Words == IF arguments = <<>> THEN <<TestDir>> ELSE arguments

NoFiles == [ref |-> NONE, out |-> NONE]

TypeOK ==
  /\ suite \in Suites /\ arguments \in CommandLines
  /\ pc \in {"args", "list", "exclude", "check", "decode", "diff", "end"}
  /\ arg \in 1..Len(Words) + 1
  /\ found \subseteq DOMAIN suite
  /\ test \in DOMAIN suite \cup {NONE}
  /\ cache \in DOMAIN InputDirs \cup {NONE}
  /\ pc \in {"decode", "diff"} => file \in InputFiles
  /\ {nTests, nPassed, nSkipped} \subseteq Nat

Init ==
  /\ decoder \in {"dec_ffmpeg", "dec_gstreamer"}
  /\ hwaccel \in {"none", "vaapi"}
  /\ device \in Devices /\ driver \in Drivers
  /\ arguments \in CommandLines /\ excludes \in Patterns
  /\ outputdir \in {"fresh", "reused"}
  /\ suite \in Suites
  /\ pc = "args" /\ arg = 1 /\ found = {} /\ test = NONE
  /\ file = [dir |-> NONE, media |-> NONE] /\ cache = NONE
  /\ nTests = 0 /\ nPassed = 0 /\ nSkipped = 0
  /\ outdir = NoFiles /\ logs = <<>> /\ summary = <<>>

-----------------------------------------------------------------------------
(* The configuration files                                                 *)

(* mvt_decoder_dump_config() stops in front of the hash when the file      *)
(* cannot be read again, and in front of the codec when there is none.     *)
HashFailed(media) ==
  [file |-> Media[media].name, fileHash |-> FALSE, codec |-> NONE,
   profile |-> NONE, compat |-> NONE, codecHash |-> FALSE,
   width |-> 0, height |-> 0]

CodecUnknown(media) == [HashFailed(media) EXCEPT !.fileHash = TRUE]

Dumped(media, codec, profile) ==
  IF codec = NONE THEN CodecUnknown(media)
  ELSE [CodecUnknown(media) EXCEPT
          !.codec = codec, !.profile = ProfileName(codec, profile),
          !.codecHash = TRUE,
          !.width = Media[media].width, !.height = Media[media].height]

(* init_codec_info() of mvt_decoder_ffmpeg.c                               *)
CodecOf(media) == FFmpegCodec(Media[media].codecId)

ProfileOf(media) == FFmpegProfile(CodecOf(media), Media[media].profile)

(* app_update_codec_info() of dec_gstreamer.c                              *)
GstConfig(media) ==
  LET info == ParseCodecCaps(Media[media].caps)
  IN  Dumped(media, info.codec, info.profile)

(* A compatible profile can only be added by hand.                         *)
Config(t) ==
  LET media == suite[t].media
  IN  CASE suite[t].origin = "gstreamer" -> GstConfig(media)
        [] suite[t].origin = "hand" -> [GstConfig(media) EXCEPT !.compat = "high"]
        [] suite[t].origin = "partial" -> HashFailed(media)
        [] OTHER -> IF FindDecoder(suite[t].origin, Media[media].codecId)
                      THEN Dumped(media, CodecOf(media), ProfileOf(media))
                      ELSE HashFailed(media)

TagsDefined(tags) ==
  /\ tags.fileHash /\ tags.codec # NONE /\ tags.codecHash
  /\ tags.width # 0 /\ tags.height # 0

-----------------------------------------------------------------------------
(* What the hardware can do                                                *)

(* gfx_has_codec()                                                         *)
HasCodec(codec, profile) ==
  CASE codec = "jpeg" /\ device = "SNB" -> FALSE
    [] codec = "jpeg"  -> profile \in {NONE, "baseline"}
    [] codec = "mpeg2" -> profile \in {NONE, "simple", "main"}
    [] codec = "vc1"   -> profile \in {NONE, "simple", "main", "advanced"}
    [] codec = "h264" /\ profile = "multiview-high" ->
         device \notin {"SNB", "IVB", "BYT"}
    [] codec = "h264"  -> profile \in {NONE, "constrained-baseline", "main",
                                       "high", "stereo-high"}
    [] codec = "vp8"   -> profile = NONE /\ device \notin {"SNB", "IVB", "HSW"}
    [] OTHER           -> FALSE

CodecSupported(tags) ==
  \/ hwaccel = "none"
  \/ HasCodec(tags.codec, tags.profile)
  \/ tags.compat # NONE /\ HasCodec(tags.codec, tags.compat)

(* gfx_has_coded_size(); 65536 is more than a surface may have.            *)
HasCodedSize(codec, width, height) ==
  LET mbWidth  == (width + 15) \div 16
      mbHeight == (height + 15) \div 16
      limit    == IF codec = "vc1" THEN 255 ELSE 256
  IN  /\ width <= 16384 /\ height <= 16384
      /\ codec \in {"mpeg2", "h264", "vc1", "vp8"} =>
           mbWidth <= limit /\ mbHeight <= limit
      /\ ~(codec = "h264" /\ mbWidth = 256 /\ mbHeight = 256)

SizeSupported(tags) ==
  hwaccel = "none" \/ HasCodedSize(tags.codec, tags.width, tags.height)

-----------------------------------------------------------------------------
(* The configurations to test                                              *)

MoreWords == pc = "args" /\ arg <= Len(Words)

(* find: the files of a directory and of those below it, in any order.     *)
Listing(word) ==
  {t \in DOMAIN suite : word.path \in {".", suite[t].dir}}

RunDirectory ==
  /\ MoreWords /\ Words[arg].kind = "dir"
  /\ found' = Listing(Words[arg])
  /\ pc' = "list" /\ arg' = arg + 1
  /\ UNCHANGED <<commandVars, test, file, cache, counterVars, fileVars>>

RunFile ==
  /\ MoreWords /\ Words[arg].kind = "file"
  /\ test' = Words[arg].path
  /\ pc' = "exclude" /\ arg' = arg + 1
  /\ UNCHANGED <<commandVars, found, file, cache, counterVars, fileVars>>

(* What neither is a file nor a directory is passed over.                  *)
IgnoreWord ==
  /\ MoreWords /\ Words[arg].kind = "missing"
  /\ arg' = arg + 1
  /\ UNCHANGED <<commandVars, pc, found, test, file, cache, counterVars, fileVars>>

(* The patterns are matched against the path that find prints, and then    *)
(* against the absolute path.                                              *)
Excluded(t, form) == <<t, form>> \in excludes

(* The list ends with the first excluded configuration: a mistake.         *)
DropList(t) == {}

Remaining(t) == found \ {t}

ReadFound ==
  /\ pc = "list"
  /\ \E t \in found :
       IF Excluded(t, "found")
         THEN found' = Remaining(t) /\ UNCHANGED <<pc, test>>
         ELSE found' = found \ {t} /\ test' = t /\ pc' = "exclude"
  /\ UNCHANGED <<commandVars, arg, file, cache, counterVars, fileVars>>

ListEnds ==
  /\ pc = "list" /\ found = {}
  /\ pc' = "args"
  /\ UNCHANGED <<commandVars, arg, found, test, file, cache, counterVars, fileVars>>

-----------------------------------------------------------------------------
(* run_test()                                                              *)

ExcludeTest ==
  /\ pc = "exclude" /\ Excluded(test, "absolute")
  /\ pc' = "list"
  /\ UNCHANGED <<commandVars, arg, found, test, file, cache, counterVars, fileVars>>

(* An earlier run of the suite has left its files in a directory of the    *)
(* same name, of this reference or of an older one.                        *)
LeftBehind ==
  IF outputdir = "fresh" THEN {NoFiles}
  ELSE {NoFiles} \cup {[ref |-> r, out |-> r] : r \in {suite[test].media, "old"}}

NewLog == [test |-> test, result |-> NONE, report |-> NONE]

StartTest ==
  /\ pc = "exclude" /\ ~Excluded(test, "absolute")
  /\ pc' = "check"
  /\ nTests' = nTests + 1
  /\ outdir' \in LeftBehind
  /\ logs' = Append(logs, NewLog)
  /\ UNCHANGED <<commandVars, arg, found, test, file, cache, nPassed, nSkipped,
                 summary>>

Log(result) == logs' = [logs EXCEPT ![nTests].result = result]

Skip(reason) ==
  /\ nSkipped' = nSkipped + 1
  /\ Log(reason)
  /\ pc' = "list"
  /\ UNCHANGED <<commandVars, arg, found, test, file, cache, nTests, nPassed,
                 outdir, summary>>

SkipForTags ==
  /\ pc = "check" /\ ~TagsDefined(Config(test))
  /\ Skip("tags")

SkipForCodec ==
  /\ pc = "check" /\ TagsDefined(Config(test))
  /\ ~CodecSupported(Config(test))
  /\ Skip("codec")

Runnable ==
  /\ pc = "check" /\ TagsDefined(Config(test)) /\ CodecSupported(Config(test))

SkipForSize ==
  /\ Runnable /\ ~SizeSupported(Config(test))
  /\ Skip("size")

(* get_test_file() looks below the directory of the last file first: any   *)
(* file of the right name will do.                                         *)
Below(dir) ==
  {f \in InputFiles :
     /\ dir # NONE /\ f.dir \in InputDirs[dir]
     /\ Media[f.media].name = Config(test).file}

(* Once there is a last directory, it looks nowhere else: a mistake.       *)
CacheOnly == IF cache # NONE THEN Below(cache) ELSE Below(".")

SourceFiles == IF Below(cache) # {} THEN Below(cache) ELSE Below(".")

SkipForFile ==
  /\ Runnable /\ SizeSupported(Config(test)) /\ SourceFiles = {}
  /\ Skip("file")

(* The file itself is remembered: a mistake.                               *)
RememberFile(f) == f.media

Remember(f) == f.dir

(* A reference that is missing leaves the one of an earlier run in place.  *)
CopyReference ==
  outdir' = IF suite[test].hasReference
              THEN [outdir EXCEPT !.ref = suite[test].media] ELSE outdir

LocateFile ==
  /\ Runnable /\ SizeSupported(Config(test))
  /\ \E f \in SourceFiles : file' = f /\ cache' = Remember(f)
  /\ CopyReference
  /\ pc' = "decode"
  /\ UNCHANGED <<commandVars, arg, found, test, counterVars, logs, summary>>

-----------------------------------------------------------------------------
(* The decoder                                                             *)

(* vaapi_get_format() translates the profile known to the decoder, which   *)
(* is not yet known when the codec is being opened.                        *)
VaProfileFor(media) ==
  IF CodecOf(media) \in EarlyCodecs THEN NONE
  ELSE ChosenProfile(CodecOf(media), ProfileOf(media), driver)

(* Whether gstreamer-vaapi has a decoder is not for mvt_tools to say.      *)
CanDecode ==
  hwaccel = "none" \/ decoder = "dec_gstreamer" \/ VaProfileFor(file.media) # NONE

(* The report is that of the file, or of other pictures.                   *)
DecoderSucceeds ==
  /\ pc = "decode" /\ CanDecode
  /\ \E report \in {file.media, "wrong"} :
       /\ outdir' = [outdir EXCEPT !.out = report]
       /\ logs' = [logs EXCEPT ![nTests].report = report]
  /\ pc' = "diff"
  /\ UNCHANGED <<commandVars, arg, found, test, file, cache, counterVars, summary>>

(* Only the reports are compared, whatever the decoder says: a mistake.    *)
CompareAnyway == pc' = "diff" /\ UNCHANGED <<logs, summary>>

Finish(result) ==
  /\ Log(result)
  /\ summary' = Append(summary, <<nTests, result>>)
  /\ pc' = "list"

FailTest == Finish("FAIL")

(* A decoder that fails may have failed before it opened its report.       *)
DecoderFails ==
  /\ pc = "decode"
  /\ outdir' \in {outdir, [outdir EXCEPT !.out = "part"]}
  /\ FailTest
  /\ UNCHANGED <<commandVars, arg, found, test, file, cache, counterVars>>

Differ == outdir.out # outdir.ref

ReportsAgree ==
  /\ pc = "diff" /\ ~Differ
  /\ nPassed' = nPassed + 1
  /\ Finish("PASS")
  /\ UNCHANGED <<commandVars, arg, found, test, file, cache, nTests, nSkipped,
                 outdir>>

ReportsDiffer ==
  /\ pc = "diff" /\ Differ
  /\ Finish("FAIL")
  /\ UNCHANGED <<commandVars, arg, found, test, file, cache, counterVars, outdir>>

(* The summary is printed, and a temporary outputdir removed.              *)
Summarize ==
  /\ pc = "args" /\ arg > Len(Words)
  /\ pc' = "end"
  /\ UNCHANGED <<commandVars, arg, found, test, file, cache, counterVars, fileVars>>

Terminated == pc = "end" /\ UNCHANGED vars

Next ==
  \/ RunDirectory \/ RunFile \/ IgnoreWord \/ ReadFound \/ ListEnds
  \/ ExcludeTest \/ StartTest
  \/ SkipForTags \/ SkipForCodec \/ SkipForSize \/ SkipForFile \/ LocateFile
  \/ DecoderSucceeds \/ DecoderFails \/ ReportsAgree \/ ReportsDiffer
  \/ Summarize \/ Terminated

Spec == Init /\ [][Next]_vars

-----------------------------------------------------------------------------
(* Properties                                                              *)

Skipped == {"tags", "codec", "size", "file"}

Tests(results) == {i \in DOMAIN logs : logs[i].result \in results}

Listed(t) ==
  Cardinality({i \in DOMAIN Words :
    \/ Words[i].kind = "file" /\ Words[i].path = t
    \/ /\ Words[i].kind = "dir" /\ t \in Listing(Words[i])
       /\ ~Excluded(t, "found")})

(* The summary adds up: tests run and passed are the lines of summary.txt, *)
(* and every configuration that is listed and not excluded has had exactly *)
(* one outcome for every time it is listed, skipped or run.                *)
EveryTestCounted ==
  /\ nTests = Len(logs)
  /\ nSkipped = Cardinality(Tests(Skipped))
  /\ nPassed = Cardinality(Tests({"PASS"}))
  /\ {summary[i] : i \in DOMAIN summary}
       = {<<i, logs[i].result>> : i \in Tests({"PASS", "FAIL"})}
  /\ pc = "end" =>
       /\ nTests - nSkipped = Len(summary)
       /\ \A t \in DOMAIN suite :
            Cardinality({i \in DOMAIN logs : logs[i].test = t /\ logs[i].result # NONE})
              = IF Excluded(t, "absolute") THEN 0 ELSE Listed(t)

(* A test passes only when the decoder, in this run, has reported the      *)
(* pictures of the reference: what an earlier run left in the directory,   *)
(* or a file of the same name, does not make it pass.  The one exception   *)
(* is a reference that has gone missing since that earlier run.            *)
PassEarned ==
  \A i \in Tests({"PASS"}) :
    LET t == logs[i].test
    IN  suite[t].hasReference \/ outputdir = "fresh" => logs[i].report = suite[t].media

(* A test is skipped for want of its file only if no file of that name     *)
(* exists below inputdir, whatever tests came before it.                   *)
FoundWhenPresent ==
  \A i \in Tests({"file"}) :
    \A f \in InputFiles :
      Media[f.media].name # Media[suite[logs[i].test].media].name

(* The drivers of the devices which mvt_run knows have at least these.     *)
FullDriver == {"MPEG2Main", "H264High", "VC1Advanced"} \subseteq driver

(* mvt_run, the configurations and dec_ffmpeg agree on profiles: a test    *)
(* whose profile FFmpeg has named and mvt_run has accepted for hardware    *)
(* finds a VA profile, so that it fails for its pictures only.             *)
HardwareTestsCanRun ==
  /\ pc = "decode" /\ hwaccel = "vaapi" /\ decoder = "dec_ffmpeg" /\ FullDriver
  /\ suite[test].origin = "dec_ffmpeg" /\ file.media = suite[test].media
  /\ Config(test).profile # NONE /\ CodecOf(file.media) \notin EarlyCodecs
  => CanDecode
=============================================================================
