----------------------------- MODULE MCAccounts -----------------------------
(***************************************************************************)
(* Instances of Accounts for TLC.                                          *)
(***************************************************************************)
EXTENDS Accounts, TLC

CONSTANTS g1, g2, g3, mail, other

(* Two registrations of one address, and one of another.                   *)
Addresses == (g1 :> mail) @@ (g2 :> mail) @@ (g3 :> other)
=============================================================================
