---------------------------- MODULE MCConntrack ----------------------------
(* Instances of Conntrack for TLC.                                         *)
EXTENDS MCDaemon, Conntrack
=============================================================================
