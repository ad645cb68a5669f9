---------------------------- MODULE MCPicturePath ----------------------------
(* Instances of PicturePath for TLC.                                       *)
EXTENDS PicturePath

(* An odd size, cropped, at an address that every prefix of "ssse3" is     *)
(* needed for, with room for a part of its rows in the cache.              *)
Cropped == Decoded("NV12", Rectangle(2, 2, 35, 5), 48, 8, 48, 1, FALSE)

(* The same size with all planes apart, then another and the first again.  *)
Planes3 == Decoded("I420", Rectangle(0, 0, 35, 5), 35, 6, 64, 3, FALSE)

Wider == Decoded("NV12", Rectangle(0, 0, 66, 2), 66, 2, 80, 8, FALSE)

Gray == Decoded("Y800", Rectangle(2, 1, 35, 5), 40, 6, 64, 0, FALSE)

(* Every lane at its limit: 400 bytes of 255.                              *)
White == Decoded("Y800", Rectangle(0, 0, 400, 1), 400, 1, 400, 0, TRUE)

(* One byte more than the alignment takes, as many, and fewer.             *)
Narrow(n) == Decoded("I420", Rectangle(0, 0, 2 * n, 1), 2 * n, 2, 32, 8, FALSE)

(* Formats whose samples are not next to each other, or have two bytes.    *)
Packed(format) == Decoded(format, Rectangle(2, 0, 3, 2), 6, 2, 24, 5, FALSE)

Deep == Decoded("I420P10", Rectangle(0, 0, 17, 2), 18, 2, 64, 0, FALSE)

(* A surface with planes that image_copy_internal() puts into the first.   *)
Planes422 == Decoded("I422", Rectangle(0, 0, 3, 2), 4, 2, 8, 0, FALSE)

Shorter == Decoded("NV12", Rectangle(0, 0, 35, 2), 35, 2, 48, 8, FALSE)

OddCorner == Decoded("NV12", Rectangle(1, 0, 16, 2), 20, 2, 32, 0, FALSE)

MCStreams ==
  {<<Planes3, OddCorner, Gray>>,
   <<Cropped, Planes3, Wider, Cropped>>,
   <<Gray, Gray, Cropped>>, <<White>>,
   <<OddCorner, Planes3>>, <<Cropped, Gray, Planes3>>, <<Shorter, Planes3>>,
   <<Deep>>, <<Planes422>>} \cup {<<Narrow(n)>> : n \in {7, 8, 9, 1}}
  \cup {<<Packed(f), Planes3>> : f \in {"YUY2", "UYVY", "AYUV", "ARGB", "YV12"}}

MCPaths == {"ffmpeg_sw", "ffmpeg_vaapi", "gst_sw", "gst_vaapi"}
=============================================================================
