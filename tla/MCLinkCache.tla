----------------------------- MODULE MCLinkCache -----------------------------
(***************************************************************************)
(* Instances of LinkCache for TLC.                                         *)
(***************************************************************************)
EXTENDS LinkCache, TLC

CONSTANTS r1, r2, r3

Symmetric == Permutations({r1, r2, r3})

AllFaults == {"redis", "database", "restart"}
=============================================================================
