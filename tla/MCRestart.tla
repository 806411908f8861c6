----------------------------- MODULE MCRestart -----------------------------
(***************************************************************************)
(* Instances of ClickCounterRestart for TLC.                               *)
(***************************************************************************)
EXTENDS ClickCounterRestart, TLC

CONSTANTS k1, k2, w1, w2

Symmetric == Permutations({k1, k2}) \cup Permutations({w1, w2})

WebhookFaults == {"dbError", "commitReply", "brokerReply", "crash"}
=============================================================================
