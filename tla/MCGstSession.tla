---------------------------- MODULE MCGstSession ----------------------------
(* An instance of GstSession for TLC.                                      *)
EXTENDS GstSession

(* The caps change, and change back.                                       *)
MCCaps == <<"small", "large", "large", "small">>

Small == [width |-> 320, height |-> 240]
Large == [width |-> 640, height |-> 480]
Flat  == [width |-> 640, height |-> 0]

Convert(format)  == [key |-> "vconvert", value |-> format]
Scale(n, value)  == [key |-> "vscale", number |-> n, value |-> value]
Parse(names)     == [key |-> "vparse", value |-> names]
Filter(formats)  == [key |-> "vparse_capsfilter", value |-> formats]

(* Nothing; each stage alone, and both in either order; a second value; a  *)
(* refused one; a parser and its output.                                   *)
MCOptionLists ==
  {<<>>,
   <<Scale(2, Small), Convert("I420"), Scale(0, Large)>>,
   <<Scale(2, Small), Convert("NV12"), Convert("I444P10")>>,
   <<Scale(1, Large), Scale(0, Small)>>,
   <<Scale(1, Large), Scale(2, Small)>>,
   <<Scale(0, Large), Scale(0, Flat)>>,
   <<Scale(3, Small), Convert("none")>>,
   <<Convert("RGB"), [key |-> "unknown"]>>,
   <<Scale(2, [text |-> "garbage"]), Parse({"h264parse"}), Filter({"avc"})>>}

Factory(name, kind, media, vaapi, takes, makes, decoder) ==
  [name |-> name, kind |-> kind, media |-> media, vaapi |-> vaapi,
   vaapiBin |-> FALSE, takes |-> takes, makes |-> makes, decoder |-> decoder]

(* Three parsers, a decoder of each kind and two in bins, and what         *)
(* on_autoplug_select() leaves out.                                        *)
MCFactories ==
  <<Factory("aacparse", "parser", "audio", FALSE, {"encoded"}, {"aac"}, "none"),
    [Factory("vaapidecodebin", "decoder", "video", TRUE, {"avc"}, {"raw"}, "none")
       EXCEPT !.vaapiBin = TRUE],
    Factory("fastparse", "parser", "video", FALSE, {"encoded"}, {"byte-stream"},
            "none"),
    Factory("h264parse", "parser", "video", FALSE, {"encoded"},
            {"byte-stream", "avc"}, "none"),
    Factory("jpegparse", "parser", "image", FALSE, {"encoded"}, {"jpeg"}, "none"),
    Factory("vaapih264dec", "decoder", "video", TRUE, {"byte-stream", "avc"},
            {"raw"}, "vaapih264dec"),
    Factory("decbin", "decoder", "video", FALSE, {"avc"}, {"raw"}, "innerdec"),
    Factory("emptybin", "decoder", "video", FALSE, {"avc"}, {"raw"}, "none"),
    Factory("avdec_h264", "decoder", "video", FALSE, {"byte-stream", "avc"},
            {"raw"}, "avdec_h264")>>
=============================================================================
