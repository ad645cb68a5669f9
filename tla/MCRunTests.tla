------------------------------ MODULE MCRunTests ------------------------------
(* Instances of RunTests for TLC.                                          *)
EXTENDS RunTests

Video(name, codecId, profile, caps, width, height) ==
  [name |-> name, codecId |-> codecId, profile |-> profile, caps |-> caps,
   width |-> width, height |-> height]

Caps(name, version, format, profile, data) ==
  [name |-> name, version |-> version, format |-> format, profile |-> profile,
   data |-> data]

H264Caps(idc, flags) ==
  Caps("h264", 0, NONE, NONE, <<[idc |-> idc, flags |-> flags]>>)

(* Two videos have one name, one has a codec that no table knows and one  *)
(* is too large for the hardware.                                          *)
MCMedia ==
  [base  |-> Video("a.264", "H264", "CONSTRAINED_BASELINE",
                   H264Caps(66, {0, 1}), 176, 144),
   high  |-> Video("a.264", "H264", "HIGH", H264Caps(100, {4}), 176, 144),
   stereo |-> Video("s.264", "H264", "STEREO", H264Caps(118, {}), 176, 144),
   large |-> Video("l.264", "H264", "MAIN",
                   Caps("h264", 0, NONE, "main", <<>>), 4096, 4096),
   simple |-> Video("s.m2v", "MPEG2VIDEO", "SIMPLE",
                    Caps("mpeg", 2, NONE, "simple", <<>>), 176, 144),
   jpeg  |-> Video("j.mjpg", "MJPEG", NONE, Caps("jpeg", 0, NONE, NONE, <<>>),
                   176, 144),
   vp8   |-> Video("v.ivf", "VP8", NONE, Caps("vp8", 0, NONE, NONE, <<>>),
                   176, 144),
   vc1   |-> Video("w.wmv", "VC1", "ADVANCED",
                   Caps("wmv", 3, "WVC1", NONE, <<[idc |-> 0, flags |-> {}]>>),
                   176, 144),
   theora |-> Video("t.ogv", "THEORA", NONE,
                    Caps("theora", 0, NONE, NONE, <<>>), 176, 144)]

MCInputDirs == ("." :> {".", "x", "y"}) @@ ("x" :> {"x"}) @@ ("y" :> {"y"})

(* jpeg is missing, theora lies beside the directories.                    *)
MCInputFiles ==
  {[dir |-> "x", media |-> m] : m \in {"base", "simple", "vc1"}}
    \cup {[dir |-> "y", media |-> m] : m \in {"high", "stereo", "large", "vp8"}}
    \cup {[dir |-> ".", media |-> "theora"]}

Test(dir, media, origin, hasReference) ==
  [dir |-> dir, media |-> media, origin |-> origin, hasReference |-> hasReference]

MCSuites ==
  {[t1 |-> Test("x", "base", "dec_ffmpeg", TRUE),
    t2 |-> Test("y", "high", "dec_ffmpeg", TRUE),
    t3 |-> Test("y", "simple", "dec_ffmpeg", FALSE)],
   [t1 |-> Test("x", "high", "gstreamer", FALSE),
    t2 |-> Test("x", "jpeg", "dec_ffmpeg", TRUE),
    t3 |-> Test("y", "theora", "gstreamer", TRUE)],
   [t1 |-> Test("x", "high", "hand", TRUE),
    t2 |-> Test("y", "vp8", "gen_ref_vpx", TRUE),
    t3 |-> Test("y", "vc1", "gstreamer", TRUE)],
   [t1 |-> Test("x", "stereo", "gstreamer", TRUE),
    t2 |-> Test("y", "large", "gen_ref_h264_avc", TRUE),
    t3 |-> Test("y", "base", "partial", TRUE)]}

Dir(path) == [kind |-> "dir", path |-> path]

MCCommandLines ==
  {<<>>,
   <<[kind |-> "file", path |-> "t1"], [kind |-> "missing", path |-> "z"],
     Dir("y")>>}

MCPatterns == {{}, {<<"t3", "found">>, <<"t2", "absolute">>}}

MCDevices == {"SNB", "BDW"}

MCDrivers ==
  {{"MPEG2Main", "H264High", "VC1Advanced"},
   {"MPEG2Simple", "MPEG2Main", "H264ConstrainedBaseline"}}
=============================================================================
