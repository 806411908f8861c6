---------------------------- MODULE ClickLedger -----------------------------
(***************************************************************************)
(* What counting clicks promises, whatever the implementation does with    *)
(* counters, queues and tasks: an increment is owed to a short code, and   *)
(* is then credited to click_count or given up.  Crediting moves exactly   *)
(* what is owed: click_count grows by the number of increments that leave  *)
(* the debt.  Counting one click twice, and giving up an increment while   *)
(* its link lives, need an excuse: a failure that is known to do so.       *)
(***************************************************************************)
EXTENDS Naturals, FiniteSets

CONSTANTS Codes,  \* short codes
          Clicks, \* the redirects answered
          Ways    \* the ways an increment is sent

VARIABLES
    live,   \* which short codes have a link
    count,  \* click_count of the last link under each short code
    owed,   \* the increments accepted and not yet credited, per short code
    known,  \* the increments accepted so far
    excuses \* failures so far that may repeat or lose an increment

vars == <<live, count, owed, known, excuses>>

Increments == Clicks \X Ways

Excused(kind) == kind \in excuses'

Init ==
    /\ live = [c \in Codes |-> FALSE]
    /\ count = [c \in Codes |-> 0]
    /\ owed = [c \in Codes |-> {}]
    /\ known = {}
    /\ excuses = {}

Create(c) ==
    /\ ~live[c]
    /\ live' = [live EXCEPT ![c] = TRUE]
    /\ count' = [count EXCEPT ![c] = 0]
    /\ UNCHANGED <<owed, known>>

Delete(c) ==
    /\ live' = [live EXCEPT ![c] = FALSE]
    /\ UNCHANGED <<count, owed, known>>

(* An increment is new; a second one of a click needs an excuse.           *)
Accept(incs) ==
    /\ incs \cap known = {}
    /\ \A i \in incs : \A j \in known \cup incs :
           i[1] = j[1] => i = j \/ Excused("repeat")
    /\ known' = known \cup incs

Owe(k, c) ==
    /\ \E ways \in SUBSET Ways :
           /\ ways # {}
           /\ Accept({k} \X ways)
           /\ owed' = [owed EXCEPT ![c] = @ \cup ({k} \X ways)]
    /\ UNCHANGED <<live, count>>

(* An increment that is never owed: credited at once, or its link is gone. *)
Direct(k, c) ==
    /\ \E way \in Ways : Accept({<<k, way>>})
    /\ count' = IF live[c] THEN [count EXCEPT ![c] = @ + 1] ELSE count
    /\ UNCHANGED <<live, owed>>

(* What is credited leaves the debt, unless the answer was lost.           *)
Credit(c) ==
    /\ live[c]
    /\ \E incs \in SUBSET owed[c] :
           /\ count' = [count EXCEPT ![c] = @ + Cardinality(incs)]
           /\ \/ owed' = [owed EXCEPT ![c] = @ \ incs]
              \/ owed' = owed /\ Excused("repeat")
    /\ UNCHANGED <<live, known>>

GiveUp(c) ==
    /\ owed'[c] \subseteq owed[c]
    /\ owed' = [owed EXCEPT ![c] = owed'[c]]
    /\ live[c] => Excused("lose")
    /\ UNCHANGED <<live, count, known>>

Step ==
    \/ \E c \in Codes : Create(c) \/ Delete(c) \/ Credit(c) \/ GiveUp(c)
    \/ \E k \in Clicks, c \in Codes : Owe(k, c) \/ Direct(k, c)
    \/ UNCHANGED <<live, count, owed, known>>

Next == excuses \subseteq excuses' /\ Step

Spec == Init /\ [][Next]_vars
=============================================================================
