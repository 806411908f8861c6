------------------------- MODULE ClickCounterLedger -------------------------
(***************************************************************************)
(* ClickCounter implements ClickLedger.  An increment is owed to a short   *)
(* code while it is in the Redis counter of the code or with the worker    *)
(* that took it from there.                                                *)
(***************************************************************************)
EXTENDS ClickCounter

WithWorkers(c) == UNION {held[w] : w \in {v \in Workers : IsNext(c, todo[v])}}

OwedTo == [c \in Codes |-> counter[c] \cup WithWorkers(c)]

(* Replies lost after their effect repeat an increment; what NothingVanishes *)
(* lists loses one.                                                        *)
Repeats == {"incrReply", "commitReply"}
Loses   == {"crash", "connectError", "getdelReply", "restoreError", "expired"}

Ledger == INSTANCE ClickLedger WITH
    Ways    <- {"incr", "resent", "update"},
    live    <- [c \in Codes |-> row[c].live],
    count   <- [c \in Codes |-> row[c].count],
    owed    <- OwedTo,
    known   <- Owed \cup PostedIncrements \cup dropped \cup lost,
    excuses <- {x \in {"repeat", "lose"} :
                   seen \cap (IF x = "repeat" THEN Repeats ELSE Loses) # {}}

(* The pipeline of counters, pending set, overlapping flushes, restores    *)
(* and fallback keeps the books of ClickLedger: every step credits what    *)
(* it takes out of the debt, or moves nothing, or has a listed excuse.     *)
KeepsLedger == Ledger!Spec
=============================================================================
