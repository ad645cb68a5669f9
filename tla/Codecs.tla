-------------------------------- MODULE Codecs --------------------------------
(***************************************************************************)
(* The codecs and profiles of mvt_codec.c, and the tables which translate  *)
(* them: from FFmpeg (ffmpeg_utils.c), from GStreamer (dec_gstreamer.c),   *)
(* to VA-API (mvt_codec.c, dec_ffmpeg.c).                                  *)
(*                                                                         *)
(* A codec stands for its id and its name.  The id of a profile is a       *)
(* number, and for H.264 the constraint flags that are part of it.         *)
(***************************************************************************)
EXTENDS Integers, Sequences, TLC

NONE == "none"

Id(idc) == <<idc, {}>>

H264Id(idc, flags) == <<idc, flags>>

NoProfile == Id(-1)

(* The name and the id of every profile.  MPEG-1, H.263, JPEG and VP8 have *)
(* none.                                                                   *)
Profiles ==
  [mpeg2 |-> {<<"simple", Id(5)>>, <<"main", Id(4)>>, <<"snr-scalable", Id(3)>>,
              <<"spatially-scalable", Id(2)>>, <<"high", Id(1)>>},
   mpeg4 |-> {<<"simple", Id(0)>>, <<"main", Id(3)>>,
              <<"advanced-simple", Id(15)>>},
   h264  |-> {<<"baseline", Id(66)>>,
              <<"constrained-baseline", H264Id(66, {1})>>,
              <<"main", Id(77)>>, <<"extended", Id(88)>>, <<"high", Id(100)>>,
              <<"progressive-high", H264Id(100, {4})>>,
              <<"constrained-high", H264Id(100, {4, 5})>>,
              <<"high-10", Id(110)>>, <<"high-4:2:2", Id(122)>>,
              <<"high-4:4:4", Id(244)>>,
              <<"high-10-intra", H264Id(110, {3})>>,
              <<"high-4:2:2-intra", H264Id(122, {3})>>,
              <<"high-4:4:4-intra", H264Id(244, {3})>>,
              <<"scalable-baseline", Id(83)>>,
              <<"scalable-constrained-baseline", H264Id(83, {5})>>,
              <<"scalable-high", Id(86)>>,
              <<"scalable-constrained-high", H264Id(86, {5})>>,
              <<"scalable-high-intra", H264Id(86, {3})>>,
              <<"multiview-high", Id(118)>>, <<"stereo-high", Id(128)>>},
   vc1   |-> {<<"simple", Id(0)>>, <<"main", Id(1)>>, <<"advanced", Id(3)>>},
   vp9   |-> {<<"profile0", Id(0)>>, <<"profile1", Id(2)>>},
   hevc  |-> {<<"main", Id(1)>>, <<"main-10", Id(2)>>,
              <<"main-still-picture", Id(3)>>}]

ProfilesOf(codec) == IF codec \in DOMAIN Profiles THEN Profiles[codec] ELSE {}

(* mvt_profile_to_name()                                                   *)
ProfileName(codec, profile) ==
  IF \E p \in ProfilesOf(codec) : p[2] = profile
    THEN (CHOOSE p \in ProfilesOf(codec) : p[2] = profile)[1] ELSE NONE

(* mvt_mpeg2_profile_from_name() and the like                              *)
ProfileFromName(codec, name) ==
  IF \E p \in ProfilesOf(codec) : p[1] = name
    THEN (CHOOSE p \in ProfilesOf(codec) : p[1] = name)[2] ELSE NoProfile

-----------------------------------------------------------------------------
(* FFmpeg                                                                  *)

(* ffmpeg_to_mvt_codec()                                                   *)
FFmpegCodecs ==
  [RAWVIDEO |-> "raw", MPEG1VIDEO |-> "mpeg1", MPEG2VIDEO |-> "mpeg2",
   MPEG4 |-> "mpeg4", MJPEG |-> "jpeg", H263 |-> "h263", H264 |-> "h264",
   WMV3 |-> "vc1", VC1 |-> "vc1", VP8 |-> "vp8", VP9 |-> "vp9",
   HEVC |-> "hevc"]

FFmpegCodec(codecId) ==
  IF codecId \in DOMAIN FFmpegCodecs THEN FFmpegCodecs[codecId] ELSE NONE

(* ffmpeg_to_mvt_profile(), as the name of the profile                     *)
FFmpegProfiles ==
  [mpeg2 |-> [SIMPLE |-> "simple", MAIN |-> "main", HIGH |-> "high",
              SNR_SCALABLE |-> "snr-scalable", SS |-> "spatially-scalable"],
   mpeg4 |-> [SIMPLE |-> "simple", MAIN |-> "main",
              ADVANCED_SIMPLE |-> "advanced-simple"],
   h264  |-> [BASELINE |-> "baseline",
              CONSTRAINED_BASELINE |-> "constrained-baseline",
              MAIN |-> "main", EXTENDED |-> "extended", HIGH |-> "high",
              HIGH_10 |-> "high-10", HIGH_10_INTRA |-> "high-10-intra",
              HIGH_422 |-> "high-4:2:2", HIGH_422_INTRA |-> "high-4:2:2-intra",
              HIGH_444_PREDICTIVE |-> "high-4:4:4",
              HIGH_444_INTRA |-> "high-4:4:4-intra"],
   vc1   |-> [SIMPLE |-> "simple", MAIN |-> "main", ADVANCED |-> "advanced"],
   hevc  |-> [MAIN |-> "main", MAIN_10 |-> "main-10",
              MAIN_STILL_PICTURE |-> "main-still-picture"]]

FFmpegProfile(codec, profile) ==
  IF codec \in DOMAIN FFmpegProfiles
       /\ profile \in DOMAIN FFmpegProfiles[codec]
    THEN ProfileFromName(codec, FFmpegProfiles[codec][profile])
    ELSE NoProfile

(* find_decoder(): gen_ref_vpx and gen_ref_h264_avc know their own codecs. *)
FindDecoder(tool, codec) ==
  CASE tool = "gen_ref_vpx"      -> codec \in {"VP8", "VP9"}
    [] tool = "gen_ref_h264_avc" -> codec = "H264"
    [] tool = "dec_ffmpeg"       -> TRUE

-----------------------------------------------------------------------------
(* GStreamer                                                               *)

(* mvt_h264_profile_from_codec_data(): the flags that make another profile *)
(* of a profile_idc                                                        *)
SignificantFlags(idc) ==
  CASE idc = 66                   -> {1}
    [] idc = 100                  -> {4, 5}
    [] idc \in {110, 122, 244, 86} -> {3}
    [] idc = 83                   -> {5}
    [] OTHER                      -> {}

H264FromCodecData(data) ==
  H264Id(data.idc, data.flags \cap SignificantFlags(data.idc))

(* mvt_wmv3_profile_from_codec_data()                                      *)
Wmv3FromCodecData(data) == Id(data.idc)

(* codec_info[]: the caps of a stream, its codec and the profile it has    *)
(* when nothing else is known, where the profile comes from.               *)
Entry(name, version, format, codec, profile, sources) ==
  [name |-> name, version |-> version, format |-> format, codec |-> codec,
   profile |-> profile, sources |-> sources]

CodecInfo ==
  <<Entry("mpeg", 2, NONE, "mpeg2", Id(5), {"name"}),
    Entry("mpeg", 4, NONE, "mpeg4", Id(0), {"name"}),
    Entry("divx", 5, NONE, "mpeg4", Id(15), {}),
    Entry("xvid", 0, NONE, "mpeg4", Id(15), {}),
    Entry("jpeg", 0, NONE, "jpeg", NoProfile, {}),
    Entry("h264", 0, NONE, "h264", Id(66), {"name", "h264"}),
    Entry("wmv", 3, NONE, "vc1", Id(0), {"name", "wmv3"}),
    Entry("wmv", 3, "WVC1", "vc1", Id(3), {}),
    Entry("vp8", 0, NONE, "vp8", NoProfile, {}),
    Entry("vp9", 0, NONE, "vp9", Id(0), {}),
    Entry("h265", 0, NONE, "hevc", Id(1), {"name"})>>

Compatible(caps, entry) ==
  /\ caps.name = entry.name
  /\ entry.version \in {0, caps.version} /\ entry.format \in {NONE, caps.format}

FromCodecData(caps, entry) ==
  IF "h264" \in entry.sources THEN H264FromCodecData(caps.data[1])
                              ELSE Wmv3FromCodecData(caps.data[1])

(* The codec data decides when it names a known profile, then the name in  *)
(* the caps, known or not.                                                 *)
EntryProfile(caps, entry) ==
  IF /\ caps.data # <<>> /\ entry.sources \cap {"h264", "wmv3"} # {}
     /\ ProfileName(entry.codec, FromCodecData(caps, entry)) # NONE
    THEN FromCodecData(caps, entry)
    ELSE IF caps.profile # NONE /\ "name" \in entry.sources
           THEN ProfileFromName(entry.codec, caps.profile)
           ELSE entry.profile

(* parse_codec_caps(): of several compatible entries, the last one.        *)
ParseCodecCaps(caps) ==
  LET found == {i \in DOMAIN CodecInfo : Compatible(caps, CodecInfo[i])}
      last  == CodecInfo[CHOOSE i \in found : \A j \in found : j <= i]
  IN  IF found = {} THEN [codec |-> NONE, profile |-> NoProfile]
      ELSE [codec |-> last.codec, profile |-> EntryProfile(caps, last)]

-----------------------------------------------------------------------------
(* VA-API                                                                  *)

(* mvt_profile_to_va_profile(): the VA profile for the name of a profile   *)
VaProfiles ==
  [mpeg2 |-> {<<"simple", "MPEG2Simple">>, <<"main", "MPEG2Main">>},
   mpeg4 |-> {<<"simple", "MPEG4Simple">>, <<"main", "MPEG4Main">>,
              <<"advanced-simple", "MPEG4AdvancedSimple">>},
   h264  |-> {<<"baseline", "H264Baseline">>, <<"main", "H264Main">>,
              <<"high", "H264High">>,
              <<"constrained-baseline", "H264ConstrainedBaseline">>},
   vc1   |-> {<<"simple", "VC1Simple">>, <<"main", "VC1Main">>,
              <<"advanced", "VC1Advanced">>}]

VaProfilesOf(codec) == IF codec \in DOMAIN VaProfiles THEN VaProfiles[codec] ELSE {}

VaProfile(codec, profile) ==
  LET name == ProfileName(codec, profile)
  IN  IF \E p \in VaProfilesOf(codec) : p[1] = name
        THEN (CHOOSE p \in VaProfilesOf(codec) : p[1] = name)[2] ELSE NONE

(* The chain stops after its first step: a break too many.                 *)
OneStepCandidates(va) ==
  CASE va = "MPEG2Simple" -> <<va, "MPEG2Main">>
    [] va = "H264ConstrainedBaseline" -> <<va, "H264Main">>
    [] va = "H264Main" -> <<va, "H264High">>
    [] OTHER -> <<va>>

(* vaapi_get_format(): a profile is decoded as a greater one when need be. *)
Candidates(va) ==
  CASE va = "MPEG2Simple" -> <<va, "MPEG2Main">>
    [] va = "MPEG4Simple" -> <<va, "MPEG4AdvancedSimple", "MPEG4Main">>
    [] va = "MPEG4AdvancedSimple" -> <<va, "MPEG4Main">>
    [] va = "H264ConstrainedBaseline" -> <<va, "H264Main", "H264High">>
    [] va = "H264Main" -> <<va, "H264High">>
    [] va = "VC1Simple" -> <<va, "VC1Main", "VC1Advanced">>
    [] va = "VC1Main" -> <<va, "VC1Advanced">>
    [] OTHER -> <<va>>

(* The VA profile the stream is decoded with, of those the driver has.     *)
ChosenProfile(codec, profile, driver) ==
  LET va    == VaProfile(codec, profile)
      chain == Candidates(va)
      found == {i \in DOMAIN chain : chain[i] \in driver}
  IN  IF va = NONE \/ found = {} THEN NONE
      ELSE chain[CHOOSE i \in found : \A j \in found : i <= j]
=============================================================================
