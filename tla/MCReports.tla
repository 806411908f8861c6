------------------------------ MODULE MCReports ------------------------------
(***************************************************************************)
(* Instances of Reports for TLC.                                           *)
(***************************************************************************)
EXTENDS Reports, TLC

CONSTANTS k1, k2, k3, l1, l2

(* Two clicks of one link, an Android tablet's from a known country and a  *)
(* bot's from one without a name, and a click of another link without      *)
(* headers.                                                                *)
SomeFacts ==
    (k1 :> [link |-> l1, agent |-> {"android", "linux", "chrome"}, country |-> "Germany"]) @@
    (k2 :> [link |-> l1, agent |-> {"bot"}, country |-> ""]) @@
    (k3 :> [link |-> l2, agent |-> NoAgent, country |-> Null])

Both == { <<l1, l2>> }

(* Neither from nor to given, one of them, both; 6 and 8 are midnight.     *)
SomeRanges == { <<Null, Null>>, <<7, Null>>, <<Null, 9>>, <<6, 8>> }
=============================================================================
