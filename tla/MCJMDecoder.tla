---------------------------- MODULE MCJMDecoder ----------------------------
(* Instances of JMDecoder for TLC.                                         *)
EXTENDS JMDecoder

MCStream      == <<"pic", "other", "pic", "pic">>
MCShortStream == <<"pic", "pic">>
=============================================================================
