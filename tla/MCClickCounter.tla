--------------------------- MODULE MCClickCounter ---------------------------
(***************************************************************************)
(* Instances of ClickCounter for TLC.                                      *)
(***************************************************************************)
EXTENDS ClickCounterLedger, TLC

CONSTANTS k1, k2, k3, w1, w2

Symmetric == Permutations({k1, k2, k3}) \cup Permutations({w1, w2})

NoFaults      == {}
AllFaults     == FaultKinds
SettleFaults  == {"dbError", "commitReply", "crash"}
RedisDown     == {"incrError"}
=============================================================================
