----------------------------- MODULE MCShortCode -----------------------------
(***************************************************************************)
(* Instances of ShortCode for TLC.                                         *)
(***************************************************************************)
EXTENDS ShortCode

OneAlias == {<<1, 1>>}

AllFaults == {"timeout", "redis", "database", "restart"}
=============================================================================
