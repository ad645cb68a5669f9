---------------------------- MODULE MCToolchain ----------------------------
(* Instances of Toolchain for TLC.                                         *)
EXTENDS Toolchain

Same == <<<<2, 1>>, <<2, 1>>>>

(* The size changes, and changes back.                                     *)
Bump == <<<<1, 1>>, <<2, 1>>, <<1, 1>>>>

MCStreams == {Same, Bump}

(* A format of every kind that the files or the report tell apart.         *)
MCFormats == {"NV12", "I420P10", "UYVY", "AYUV", "I444", "Y800", "xRGB"}

(* One picture of another size than most.                                  *)
Dot == [format |-> "Y800", width |-> 1, height |-> 1, fps |-> 25]

MCVideos == {<<Header(Dot)>> \o FrameCells(Picture(1, "Y800", 1, 1))}
=============================================================================
