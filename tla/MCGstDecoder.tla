---------------------------- MODULE MCGstDecoder ----------------------------
(* Instances of GstDecoder for TLC.                                        *)
EXTENDS GstDecoder

(* The caps change, and change back.                                       *)
MCCaps == <<"small", "small", "large", "small">>
=============================================================================
