----------------------------- MODULE MCHandlers -----------------------------
(* Instances of Handlers for TLC, on the configurations of MCDaemon.       *)
EXTENDS MCDaemon, Handlers

FirstRouted == (w1 :> {"v4", "v6"}) @@ (w2 :> {"v4"})
=============================================================================
