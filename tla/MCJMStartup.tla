---------------------------- MODULE MCJMStartup ----------------------------
(* Instances of JMStartup for TLC.                                         *)
EXTENDS JMStartup
=============================================================================
