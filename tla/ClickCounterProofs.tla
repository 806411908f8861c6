------------------------- MODULE ClickCounterProofs -------------------------
(***************************************************************************)
(* Proofs about ClickCounter, for every value of its constants.            *)
(***************************************************************************)
EXTENDS ClickCounter, FiniteSetTheorems, TLAPS

(* Any set of increments is finite, so its cardinality - the value of a    *)
(* counter, the number a flush adds - is a natural number.                 *)
LEMMA IncrementsFinite ==
    ASSUME NEW S \in SUBSET Increments
    PROVE  IsFiniteSet(S) /\ Cardinality(S) \in Nat
<1>1. IsFiniteSet(Ways)
  <2>1. IsFiniteSet({"incr"} \cup {"resent"})
    BY FS_Singleton, FS_AddElement
  <2>2. IsFiniteSet(({"incr"} \cup {"resent"}) \cup {"update"})
    BY <2>1, FS_AddElement
  <2>3. IsFiniteSet({"incr", "resent", "update"} \cup {"incr again"})
    <3>1. ({"incr"} \cup {"resent"}) \cup {"update"} = {"incr", "resent", "update"}
      OBVIOUS
    <3> QED
      BY <2>2, <3>1, FS_AddElement
  <2>4. IsFiniteSet({"incr", "resent", "update", "incr again"} \cup {"resent again"})
    <3>1. {"incr", "resent", "update"} \cup {"incr again"}
            = {"incr", "resent", "update", "incr again"}
      OBVIOUS
    <3> QED
      BY <2>3, <3>1, FS_AddElement
  <2>5. {"incr", "resent", "update", "incr again"} \cup {"resent again"} = Ways
    BY DEF Ways
  <2> QED
    BY <2>4, <2>5
<1>2. IsFiniteSet(Increments)
  BY <1>1, ClicksAssumption, FS_Product DEF Increments
<1>3. IsFiniteSet(S)
  BY <1>2, FS_Subset
<1> QED
  BY <1>3, FS_CardinalityType

(* The increments a redirect can make.                                     *)
LEMMA SentIncrements ==
    ASSUME NEW k \in Clicks
    PROVE  /\ <<k, "incr">> \in Increments
           /\ <<k, "resent">> \in Increments
           /\ <<k, "update">> \in Increments
           /\ {<<k, "incr">>} \in SUBSET Increments
           /\ {<<k, "incr">>, <<k, "resent">>} \in SUBSET Increments
<1>1. "incr" \in Ways /\ "resent" \in Ways /\ "update" \in Ways
  BY DEF Ways
<1>2. <<k, "incr">> \in Increments /\ <<k, "resent">> \in Increments
        /\ <<k, "update">> \in Increments
  BY <1>1 DEF Increments
<1> QED
  BY <1>2

LEMMA RowNumbers ==
    ASSUME NEW r \in Row
    PROVE  /\ r.id \in Nat
           /\ r.count \in Nat
           /\ r.hook # NoHook => r.hook \in Nat
<1>1. r.id \in 0 .. MaxLinks /\ r.count \in Nat /\ r.hook \in Hooks
  BY DEF Row
<1>2. r.id \in Nat
  BY <1>1, BoundsAssumption
<1>3. Thresholds \subseteq Nat
  BY HookAssumption
<1>4. r.hook # NoHook => r.hook \in Nat
  BY <1>1, <1>3 DEF Hooks
<1> QED
  BY <1>1, <1>2, <1>4

(* What a flush or a fallback does to a row: same link, larger count.      *)
LEMMA CreditedType ==
    ASSUME NEW r \in Row, NEW n \in Nat
    PROVE  /\ Credited(r, n) \in Row
           /\ Credited(r, n).live = r.live
           /\ Credited(r, n).id = r.id
           /\ Credited(r, n).count = r.count + n
<1>1. ASSUME NEW m \in Nat, NEW f \in BOOLEAN
      PROVE  /\ [r EXCEPT !.count = m, !.fired = f] \in Row
             /\ [r EXCEPT !.count = m, !.fired = f].live = r.live
             /\ [r EXCEPT !.count = m, !.fired = f].id = r.id
             /\ [r EXCEPT !.count = m, !.fired = f].count = m
  BY DEF Row
<1> DEFINE total == r.count + n
           flag  == r.fired \/ Crosses(r, n)
<1>2. total \in Nat
  BY DEF Row
<1>3. flag \in BOOLEAN
  OBVIOUS
<1>4. Credited(r, n) = [r EXCEPT !.count = total, !.fired = flag]
  BY DEF Credited
<1> HIDE DEF total, flag
<1>5. /\ Credited(r, n) \in Row
      /\ Credited(r, n).live = r.live
      /\ Credited(r, n).id = r.id
      /\ Credited(r, n).count = total
  <2>1. /\ [r EXCEPT !.count = total, !.fired = flag] \in Row
        /\ [r EXCEPT !.count = total, !.fired = flag].live = r.live
        /\ [r EXCEPT !.count = total, !.fired = flag].id = r.id
        /\ [r EXCEPT !.count = total, !.fired = flag].count = total
    BY <1>1, <1>2, <1>3
  <2> QED
    BY <1>4, <2>1
<1> QED
  BY <1>5 DEF total

-----------------------------------------------------------------------------
(***************************************************************************)
(* Type correctness.                                                       *)
(***************************************************************************)
LEMMA InitTypeOK == Init => TypeOK
  BY HookAssumption, BoundsAssumption
  DEF Init, TypeOK, Row, Request, Edit, NoEdit, Hooks, Links

LEMMA StepTypeOK == TypeOK /\ [Next]_vars => TypeOK'
<1> SUFFICES ASSUME TypeOK, [Next]_vars PROVE TypeOK'
  OBVIOUS
<1> USE DEF stores, flush, history, failure, NoFault, Goto
<1> \A w \in Workers : Cardinality(held[w]) \in Nat
  BY IncrementsFinite DEF TypeOK
<1> DEFINE RowOK == /\ row \in [Codes -> Row]
                   /\ \A c \in Codes : row[c].live => row[c].id > 0
<1>0. ASSUME NEW c \in Codes, NEW r \in Row, r.live => r.id > 0,
             row' = [row EXCEPT ![c] = r]
      PROVE  RowOK'
  BY <1>0 DEF TypeOK
<1>1. ASSUME NEW c \in Codes, NEW h \in Hooks, CreateLink(c, h) PROVE TypeOK'
  <2>1. RowOK'
    BY <1>1, BoundsAssumption DEF CreateLink, TypeOK, Row
  <2> QED
    BY <1>1, <2>1 DEF CreateLink, TypeOK
<1>2. ASSUME NEW c \in Codes, DeleteLink(c) PROVE TypeOK'
  <2>1. RowOK'
    BY <1>2 DEF DeleteLink, TypeOK, Row
  <2> QED
    BY <1>2, <2>1 DEF DeleteLink, TypeOK
<1>3. ASSUME NEW e \in Editors, NEW c \in Codes, NEW h \in Hooks,
             LoadForUpdate(e, c, h)
      PROVE  TypeOK'
  <2>1. edit' \in [Editors -> Edit]
    <3>1. /\ row[c] \in Row
          /\ row[c].id > 0
      BY <1>3 DEF LoadForUpdate, TypeOK
    <3>2. [step |-> "loaded", code |-> c, id |-> row[c].id,
           hook |-> row[c].hook, fired |-> row[c].fired, new |-> h] \in Edit
      BY <3>1, BoundsAssumption DEF Row, Edit
    <3> QED
      BY <1>3, <3>2 DEF LoadForUpdate, TypeOK
  <2> QED
    BY <1>3, <2>1 DEF LoadForUpdate, TypeOK
<1>4. ASSUME NEW e \in Editors, CommitUpdate(e) PROVE TypeOK'
  <2>1. edit[e] \in [step : {"loaded"}, code : Codes, id : 1 .. MaxLinks,
                     hook : Hooks, fired : BOOLEAN, new : Hooks]
    BY <1>4 DEF CommitUpdate, TypeOK, Edit, NoEdit
  <2>2. RowOK'
    <3> DEFINE c == edit[e].code
               r == Patched(row[c], edit[e])
    <3>1. c \in Codes /\ row[c] \in Row
      BY <2>1 DEF TypeOK
    <3>2. r \in Row /\ r.live = row[c].live /\ r.id = row[c].id
      BY <2>1, <3>1 DEF Patched, Row
    <3>3. r.live => r.id > 0
      BY <3>1, <3>2 DEF TypeOK
    <3>4. row' = row \/ row' = [row EXCEPT ![c] = r]
      BY <1>4 DEF CommitUpdate
    <3> HIDE DEF c, r
    <3> QED
      BY <1>0, <3>1, <3>2, <3>3, <3>4 DEF TypeOK
  <2>3. edit' \in [Editors -> Edit]
    BY <1>4 DEF CommitUpdate, TypeOK, Edit
  <2> QED
    BY <1>4, <2>2, <2>3 DEF CommitUpdate, TypeOK
<1>5. ASSUME NEW k \in Clicks, NEW step, Redirected(k, step),
             step \in {"new", "fallback", "done", "failed"}
      PROVE  click' \in [Clicks -> Request] /\ click[k].code \in Codes
  <2>1. click[k] \in Request /\ click[k].code \in Codes
    BY DEF TypeOK, Request
  <2>2. row[click[k].code].id \in 0 .. MaxLinks
    BY <2>1 DEF TypeOK, Row
  <2>3. [click[k] EXCEPT !.step = step, !.id = row[click[k].code].id] \in Request
    BY <1>5, <2>1, <2>2 DEF Request
  <2> QED
    BY <1>5, <2>1, <2>3 DEF Redirected, TypeOK
<1>6. ASSUME NEW c \in Codes, NEW incs \in SUBSET Increments,
             AddToCounter(c, incs)
      PROVE  counter' \in [Codes -> SUBSET Increments] /\ pending' \subseteq Codes
  BY <1>6 DEF AddToCounter, TypeOK
<1>7. ASSUME NEW k \in Clicks, NEW step, Redirected(k, step),
             step \in {"fallback", "done"}, UNCHANGED <<row, flush, edit, queued, history>>,
             seen' \subseteq FaultKinds, budget' \in Nat,
             \/ UNCHANGED <<counter, pending>>
             \/ \E incs \in SUBSET Increments : AddToCounter(click[k].code, incs)
      PROVE  TypeOK'
  <2>1. click' \in [Clicks -> Request] /\ click[k].code \in Codes
    BY <1>5, <1>7
  <2>2. counter' \in [Codes -> SUBSET Increments] /\ pending' \subseteq Codes
    BY <1>6, <1>7, <2>1 DEF TypeOK
  <2> QED
    BY <1>7, <2>1, <2>2 DEF TypeOK
<1>8. ASSUME NEW k \in Clicks, ClickStep(k) PROVE TypeOK'
  <2> {<<k, "incr">>} \in SUBSET Increments
    /\ {<<k, "incr">>, <<k, "resent">>} \in SUBSET Increments
    /\ <<k, "update">> \in Increments
    BY SentIncrements
  <2>1. CASE IncrementCounter(k)
    BY <2>1, <1>7 DEF IncrementCounter, TypeOK
  <2>2. CASE IncrementFails(k)
    BY <2>2, <1>7, FaultsAssumption DEF IncrementFails, Fault, TypeOK
  <2>3. CASE IncrementTimesOut(k)
    <3>1. seen' \subseteq FaultKinds /\ budget' \in Nat
      BY <2>3, FaultsAssumption DEF IncrementTimesOut, Fault, TypeOK
    <3>2. \E incs \in SUBSET Increments : AddToCounter(click[k].code, incs)
      BY <2>3 DEF IncrementTimesOut
    <3>3. Redirected(k, "done") \/ Redirected(k, "fallback")
      BY <2>3 DEF IncrementTimesOut
    <3>4. UNCHANGED <<row, flush, edit, queued, history>>
      BY <2>3 DEF IncrementTimesOut
    <3> QED
      BY <1>7, <3>1, <3>2, <3>3, <3>4
  <2>4. ASSUME DirectIncrement(k)
        PROVE  RowOK' /\ posted' \subseteq Increments \X Links
                      /\ dropped' \subseteq Increments
    <3>1. click[k].code \in Codes
      BY DEF TypeOK, Request
    <3>2. CASE row[click[k].code].live
      <4>1. LinkOf(click[k].code) \in Links
        BY <3>1, <3>2 DEF LinkOf, Links, TypeOK, Row
      <4>2. RowOK'
        <5> DEFINE c == click[k].code
                   r == [row[c] EXCEPT !.count = @ + 1]
        <5>1. row[c] \in Row
          BY <3>1 DEF TypeOK
        <5>2. r \in Row /\ r.live = row[c].live /\ r.id = row[c].id
          BY <5>1 DEF Row
        <5>3. r.live => r.id > 0
          BY <3>1, <5>2 DEF TypeOK
        <5>4. row' = [row EXCEPT ![c] = r]
          BY <2>4, <3>2 DEF DirectIncrement
        <5> QED
          BY <1>0, <3>1, <5>2, <5>3, <5>4
      <4> QED
        BY <2>4, <3>2, <4>1, <4>2 DEF DirectIncrement, TypeOK
    <3>3. CASE ~row[click[k].code].live
      BY <2>4, <3>3 DEF DirectIncrement, TypeOK
    <3> QED
      BY <3>2, <3>3
  <2>5. CASE IncrementClickCount(k)
    <3>1. click' \in [Clicks -> Request]
      BY <2>5 DEF IncrementClickCount, TypeOK, Request
    <3> QED
      BY <2>4, <2>5, <3>1 DEF IncrementClickCount, TypeOK
  <2>6. CASE IncrementClickCountFails(k)
    <3>1. click' \in [Clicks -> Request]
      BY <2>6 DEF IncrementClickCountFails, TypeOK, Request
    <3>2. RowOK' /\ posted' \subseteq Increments \X Links
                 /\ dropped' \subseteq Increments
      BY <2>4, <2>6 DEF IncrementClickCountFails, TypeOK
    <3> QED
      BY <2>6, <3>1, <3>2, FaultsAssumption
      DEF IncrementClickCountFails, Fault, TypeOK
  <2> QED
    BY <1>8, <2>1, <2>2, <2>3, <2>5, <2>6 DEF ClickStep
<1>9. ASSUME NEW w \in Workers, NEW c \in Codes, Post(w, c)
      PROVE  RowOK' /\ posted' \subseteq Increments \X Links
  <2>1. LinkOf(c) \in Links
    BY <1>9 DEF Post, LinkOf, Links, TypeOK, Row
  <2>2. RowOK'
    <3> DEFINE r == Credited(row[c], Cardinality(held[w]))
    <3>3. r \in Row /\ r.live = row[c].live /\ r.id = row[c].id
      BY CreditedType DEF TypeOK
    <3>4. r.live => r.id > 0
      BY <3>3 DEF TypeOK
    <3>5. row' = [row EXCEPT ![c] = r]
      BY <1>9 DEF Post
    <3> HIDE DEF r
    <3> QED
      BY <1>0, <3>3, <3>4, <3>5
  <2> QED
    BY <1>9, <2>1, <2>2 DEF Post, TypeOK
<1>10. ASSUME NEW w \in Workers, FlushStart(w) PROVE TypeOK'
  BY <1>10 DEF FlushStart, TypeOK
<1>11. ASSUME NEW w \in Workers, FlushDone(w) PROVE TypeOK'
  BY <1>11 DEF FlushDone, TypeOK
<1>12. ASSUME NEW w \in Workers, GetDel(w) PROVE TypeOK'
  BY <1>12 DEF GetDel, Take, TypeOK
<1>13. ASSUME NEW w \in Workers, UpdateLink(w) PROVE TypeOK'
  <2>1. ASSUME NEW c \in Codes, row[c].live
        PROVE  Dispatch(c, row[c], Cardinality(held[w])) \in SUBSET Events
    BY <2>1 DEF Dispatch, Crosses, TypeOK, Row, Events, Hooks
  <2>2. RowOK' /\ posted' \subseteq Increments \X Links
    BY <1>9, <1>13 DEF UpdateLink
  <2>3. event' \in [Workers -> SUBSET Events]
    BY <1>13, <2>1 DEF UpdateLink, Post, TypeOK
  <2> QED
    BY <1>13, <2>2, <2>3 DEF UpdateLink, TypeOK
<1>14. ASSUME NEW w \in Workers, LinkNotFound(w) PROVE TypeOK'
  BY <1>14 DEF LinkNotFound, TypeOK
<1>15. ASSUME NEW w \in Workers, UpdateRaises(w) PROVE TypeOK'
  <2>1. RowOK' /\ posted' \subseteq Increments \X Links
    BY <1>9, <1>15 DEF UpdateRaises, TypeOK
  <2> QED
    BY <1>15, <2>1, FaultsAssumption DEF UpdateRaises, Fault, TypeOK
<1>16. ASSUME NEW w \in Workers, Restore(w) PROVE TypeOK'
  BY <1>16 DEF Restore, AddToCounter, TypeOK
<1>17. ASSUME NEW w \in Workers, Enqueue(w) PROVE TypeOK'
  BY <1>17 DEF Enqueue, Published, TypeOK
<1>18. ASSUME NEW w \in Workers, CounterExists(w) PROVE TypeOK'
  BY <1>18 DEF CounterExists, TypeOK
<1>19. ASSUME NEW w \in Workers, SetPending(w) PROVE TypeOK'
  BY <1>19 DEF SetPending, TypeOK
<1>20. ASSUME NEW w \in Workers, TaskFails(w) PROVE TypeOK'
  BY <1>20, FaultsAssumption DEF TaskFails, Abort, Fault, TypeOK
<1>21. ASSUME NEW w \in Workers, GetDelTimesOut(w) PROVE TypeOK'
  BY <1>21, FaultsAssumption DEF GetDelTimesOut, Fault, TypeOK
<1>22. ASSUME NEW c \in Codes, CounterExpires(c) PROVE TypeOK'
  BY <1>22, FaultsAssumption DEF CounterExpires, Fault, TypeOK
<1>23. CASE UNCHANGED vars
  BY <1>23 DEF vars, TypeOK
<1>24. ASSUME NEW w \in Workers, EnqueueUnanswered(w) PROVE TypeOK'
  <2>1. queued' \in [Events -> Nat]
    BY <1>24 DEF EnqueueUnanswered, Published, TypeOK
  <2> QED
    BY <1>24, <2>1, FaultsAssumption DEF EnqueueUnanswered, Fault, TypeOK
<1> QED
  BY <1>1, <1>2, <1>3, <1>4, <1>8, <1>10, <1>11, <1>12,
     <1>13, <1>14, <1>15, <1>16, <1>17, <1>18, <1>19, <1>20, <1>21, <1>22, <1>23, <1>24
  DEF Next, LinkStep, EditStep, WorkerStep, FlushStep

(* Every variable stays in its type, whatever fails.                       *)
THEOREM TypeCorrect == Spec => []TypeOK
  BY InitTypeOK, StepTypeOK, PTL DEF Spec
-----------------------------------------------------------------------------
(***************************************************************************)
(* The threshold event is handed over once.                                *)
(*                                                                         *)
(* webhook_fired alone does not give this: PATCH resets it.  What does is  *)
(* that click_count never decreases while a link lives and ids are never   *)
(* reused, so an event that was ever built is spent for good: its link is  *)
(* gone or its count is already at the threshold, and the crossing test    *)
(* `old < threshold' cannot hold again.                                    *)
(***************************************************************************)
Spent(e) ==
    \/ row[e.code].id > e.id
    \/ row[e.code].id = e.id /\ row[e.code].count >= e.threshold

EventInv ==
    /\ \A e \in Events : queued[e] > 0 => Spent(e)
    /\ \A w \in Workers : \A e \in event[w] : Spent(e) /\ queued[e] = 0
    /\ \A v, w \in Workers : v # w => event[v] \cap event[w] = {}

(* What has gone wrong stays on record.                                    *)
LEMMA SeenGrows == [Next]_vars => seen \subseteq seen'
<1> SUFFICES ASSUME [Next]_vars PROVE seen \subseteq seen'
  OBVIOUS
<1> USE DEF failure, NoFault, Fault
<1>1. CASE LinkStep \/ EditStep \/ UNCHANGED vars
  BY <1>1
  DEF LinkStep, EditStep, CreateLink, DeleteLink, LoadForUpdate, CommitUpdate, vars
<1>2. ASSUME NEW k \in Clicks, ClickStep(k) PROVE seen \subseteq seen'
  BY <1>2
  DEF ClickStep, IncrementCounter, IncrementFails, IncrementTimesOut,
      IncrementClickCount, IncrementClickCountFails
<1>3. ASSUME NEW w \in Workers, WorkerStep(w) PROVE seen \subseteq seen'
  BY <1>3
  DEF WorkerStep, FlushStep, FlushStart, FlushDone, GetDel, UpdateLink,
      LinkNotFound, Restore, Enqueue, CounterExists, SetPending, UpdateRaises,
      TaskFails, GetDelTimesOut, EnqueueUnanswered
<1>4. ASSUME NEW c \in Codes, CounterExpires(c) PROVE seen \subseteq seen'
  BY <1>4 DEF CounterExpires
<1> QED
  BY <1>1, <1>2, <1>3, <1>4 DEF Next

(* No step takes a link's click_count back or reuses a link's id.          *)
RowsGrow ==
    \A c \in Codes :
        \/ row'[c].id > row[c].id
        \/ row'[c].id = row[c].id /\ row'[c].count >= row[c].count

LEMMA StepRowsGrow == TypeOK /\ TypeOK' /\ [Next]_vars => RowsGrow
<1> SUFFICES ASSUME TypeOK, [Next]_vars PROVE RowsGrow
  OBVIOUS
<1> USE DEF stores, flush, history, failure, NoFault
<1>1. ASSUME UNCHANGED row PROVE RowsGrow
  BY <1>1 DEF RowsGrow, TypeOK, Row
<1>2. ASSUME NEW c \in Codes, NEW h \in Hooks, CreateLink(c, h) PROVE RowsGrow
  BY <1>2 DEF CreateLink, RowsGrow, TypeOK, Row
<1>3. ASSUME NEW c \in Codes, DeleteLink(c) PROVE RowsGrow
  BY <1>3 DEF DeleteLink, RowsGrow, TypeOK, Row
<1>4. ASSUME NEW e \in Editors, CommitUpdate(e) PROVE RowsGrow
  BY <1>4 DEF CommitUpdate, Patched, RowsGrow, TypeOK, Row
<1>5. ASSUME NEW k \in Clicks, DirectIncrement(k) PROVE RowsGrow
  BY <1>5 DEF DirectIncrement, RowsGrow, TypeOK, Row
<1>6. ASSUME NEW w \in Workers, NEW c \in Codes, Post(w, c) PROVE RowsGrow
  <2> DEFINE r == Credited(row[c], Cardinality(held[w]))
  <2>1. row[c] \in Row /\ Cardinality(held[w]) \in Nat
    BY IncrementsFinite DEF TypeOK
  <2>2. r.id = row[c].id /\ r.count = row[c].count + Cardinality(held[w])
    BY <2>1, CreditedType
  <2>3. row' = [row EXCEPT ![c] = r]
    BY <1>6 DEF Post
  <2> HIDE DEF r
  <2> QED
    BY <2>1, <2>2, <2>3 DEF RowsGrow, TypeOK, Row
<1>7. ASSUME NEW k \in Clicks, ClickStep(k) PROVE RowsGrow
  BY <1>1, <1>5, <1>7
  DEF ClickStep, IncrementCounter, IncrementFails, IncrementTimesOut,
      IncrementClickCount, IncrementClickCountFails
<1>8. ASSUME NEW w \in Workers, WorkerStep(w) PROVE RowsGrow
  BY <1>1, <1>6, <1>8
  DEF WorkerStep, FlushStep, FlushStart, FlushDone, GetDel, UpdateLink,
      LinkNotFound, Restore, Enqueue, CounterExists, SetPending, UpdateRaises,
      TaskFails, Abort, GetDelTimesOut, EnqueueUnanswered
<1>9. ASSUME NEW e \in Editors, NEW c \in Codes, NEW h \in Hooks,
             LoadForUpdate(e, c, h)
      PROVE  RowsGrow
  BY <1>1, <1>9 DEF LoadForUpdate
<1>10. ASSUME NEW c \in Codes, CounterExpires(c) PROVE RowsGrow
  BY <1>1, <1>10 DEF CounterExpires
<1>11. CASE UNCHANGED vars
  BY <1>1, <1>11 DEF vars
<1> QED
  BY <1>2, <1>3, <1>4, <1>7, <1>8, <1>9, <1>10, <1>11 DEF Next, LinkStep, EditStep

(* Hence a spent event stays spent.                                        *)
LEMMA SpentForGood ==
    ASSUME TypeOK, TypeOK', RowsGrow, NEW e \in Events, Spent(e)
    PROVE  Spent(e)'
<1>1. e.code \in Codes /\ e.id \in Nat /\ e.threshold \in Nat
  <2>1. e.code \in Codes /\ e.id \in 1 .. MaxLinks /\ e.threshold \in Thresholds
    BY DEF Events
  <2>2. Thresholds \subseteq Nat
    BY HookAssumption
  <2>3. e.id \in Nat
    BY <2>1, BoundsAssumption
  <2> QED
    BY <2>1, <2>2, <2>3
<1>2. /\ row[e.code].id \in Nat /\ row'[e.code].id \in Nat
      /\ row[e.code].count \in Nat /\ row'[e.code].count \in Nat
  <2>1. row[e.code] \in Row /\ row'[e.code] \in Row
    BY <1>1 DEF TypeOK
  <2> QED
    BY <2>1, RowNumbers
<1>3. \/ row'[e.code].id > row[e.code].id
      \/ row'[e.code].id = row[e.code].id /\ row'[e.code].count >= row[e.code].count
  BY <1>1 DEF RowsGrow
<1> QED
  BY <1>1, <1>2, <1>3 DEF Spent

LEMMA InitEventInv == Init => EventInv
  BY DEF Init, EventInv

LEMMA StepEventInv == TypeOK /\ TypeOK' /\ EventInv /\ [Next]_vars => EventInv'
<1> SUFFICES ASSUME TypeOK, TypeOK', EventInv, [Next]_vars PROVE EventInv'
  OBVIOUS
<1> USE DEF stores, flush, history, failure, NoFault
<1>1. ASSUME NEW e \in Events, Spent(e) PROVE Spent(e)'
  BY <1>1, StepRowsGrow, SpentForGood
<1>2. ASSUME UNCHANGED queued, \A w \in Workers : event'[w] \subseteq event[w]
      PROVE  EventInv'
  BY <1>1, <1>2 DEF EventInv, TypeOK
<1>3. ASSUME NEW w \in Workers, UpdateLink(w) PROVE EventInv'
  <2> PICK c \in Codes : /\ row[c].live
                         /\ Post(w, c)
                         /\ event' = [event EXCEPT ![w] =
                              Dispatch(c, row[c], Cardinality(held[w]))]
    BY <1>3 DEF UpdateLink, Post
  <2> DEFINE n == Cardinality(held[w])
  <2>1. row[c] \in Row /\ n \in Nat
    BY IncrementsFinite DEF TypeOK
  <2>2. CASE ~Crosses(row[c], n)
    BY <1>2, <1>3, <2>2 DEF UpdateLink, Dispatch, TypeOK
  <2>3. CASE Crosses(row[c], n)
    <3> DEFINE built == [code |-> c, id |-> row[c].id, threshold |-> row[c].hook]
    <3>0. event' = [event EXCEPT ![w] = {built}]
      BY <2>3 DEF Dispatch
    <3>1. built \in Events
      BY <3>0 DEF TypeOK
    <3>2. PICK new \in Events : new = built
      BY <3>1
    <3> row[c].id \in Nat /\ row[c].count \in Nat /\ row[c].hook \in Nat
      BY <2>1, <2>3, RowNumbers DEF Crosses
    <3>a. new.code = c /\ new.id = row[c].id /\ new.threshold = row[c].hook
      BY <3>2
    <3>b. event' = [event EXCEPT ![w] = {new}]
      BY <3>0, <3>2
    <3>3. ~Spent(new)
      BY <2>3, <3>a DEF Crosses, Spent
    <3>4. Credited(row[c], n).id = row[c].id
          /\ Credited(row[c], n).count = row[c].count + n
      BY <2>1, CreditedType
    <3>5. row'[c] = Credited(row[c], n)
      BY DEF Post, TypeOK
    <3>6. Spent(new)'
      <4>1. row'[c].id = row[c].id /\ row'[c].count >= row[c].hook
        BY <2>1, <2>3, <3>4, <3>5 DEF Crosses
      <4> QED
        BY <3>a, <4>1 DEF Spent
    <3>7. queued[new] = 0 /\ \A v \in Workers : new \notin event[v]
      BY <3>3 DEF EventInv, TypeOK
    <3>8. UNCHANGED queued
      BY <1>3 DEF UpdateLink
    <3> QED
      <4>1. \A v \in Workers : event'[v] = IF v = w THEN {new} ELSE event[v]
        BY <3>b DEF TypeOK
      <4>2. \A v \in Workers : \A e \in event'[v] : Spent(e)' /\ queued'[e] = 0
        BY <1>1, <3>6, <3>7, <3>8, <4>1 DEF EventInv, TypeOK
      <4>3. \A u, v \in Workers : u # v => event'[u] \cap event'[v] = {}
        BY <3>7, <4>1 DEF EventInv
      <4>4. \A e \in Events : queued'[e] > 0 => Spent(e)'
        BY <1>1, <3>8 DEF EventInv
      <4> QED
        BY <4>2, <4>3, <4>4 DEF EventInv
  <2> QED
    BY <2>2, <2>3
<1>4. ASSUME NEW w \in Workers, Enqueue(w) \/ EnqueueUnanswered(w) PROVE EventInv'
  <2>1. \A v \in Workers : event'[v] = IF v = w THEN {} ELSE event[v]
    BY <1>4 DEF Enqueue, EnqueueUnanswered, TypeOK
  <2>2. \A e \in Events : e \notin event[w] => queued'[e] = queued[e]
    BY <1>4 DEF Enqueue, EnqueueUnanswered, Published
  <2>3. ASSUME NEW v \in Workers, NEW e \in event'[v]
        PROVE  Spent(e)' /\ queued'[e] = 0
    <3>1. v # w /\ e \in event[v] /\ e \notin event[w] /\ e \in Events
      BY <2>1, <2>3 DEF EventInv, TypeOK
    <3> QED
      BY <1>1, <2>2, <3>1 DEF EventInv
  <2>4. ASSUME NEW e \in Events, queued'[e] > 0 PROVE Spent(e)'
    BY <1>1, <2>2, <2>4 DEF EventInv
  <2>5. \A u, v \in Workers : u # v => event'[u] \cap event'[v] = {}
    BY <2>1 DEF EventInv
  <2> QED
    BY <2>3, <2>4, <2>5 DEF EventInv
<1>5. ASSUME NEW w \in Workers, Abort(w) PROVE EventInv'
  BY <1>2, <1>5 DEF Abort, TypeOK
<1>6. ASSUME UNCHANGED <<event, queued>> PROVE EventInv'
  BY <1>2, <1>6
<1>7. ASSUME NEW w \in Workers, WorkerStep(w) PROVE EventInv'
  BY <1>3, <1>4, <1>5, <1>6, <1>7
  DEF WorkerStep, FlushStep, FlushStart, FlushDone, GetDel, LinkNotFound,
      Restore, CounterExists, SetPending, UpdateRaises, TaskFails, GetDelTimesOut
<1>8. ASSUME NEW k \in Clicks, ClickStep(k) PROVE EventInv'
  BY <1>6, <1>8
  DEF ClickStep, IncrementCounter, IncrementFails, IncrementTimesOut,
      IncrementClickCount, IncrementClickCountFails
<1>9. CASE LinkStep \/ EditStep \/ \E c \in Codes : CounterExpires(c)
  BY <1>6, <1>9
  DEF LinkStep, EditStep, CreateLink, DeleteLink, LoadForUpdate, CommitUpdate,
      CounterExpires
<1>10. CASE UNCHANGED vars
  BY <1>6, <1>10 DEF vars
<1> QED
  BY <1>7, <1>8, <1>9, <1>10 DEF Next

(* Messages come from hand-overs, of one worker at a time.                 *)
LEMMA StepPublishes ==
    ASSUME [Next]_vars
    PROVE  \/ UNCHANGED queued
           \/ \E w \in Workers : \E n \in 1 .. 2 :
                 Published(w, n) /\ (n = 1 \/ "brokerReply" \in seen')
<1> USE DEF stores, flush, history, failure, NoFault
<1>1. ASSUME NEW w \in Workers, Enqueue(w) \/ EnqueueUnanswered(w)
      PROVE  \E n \in 1 .. 2 : Published(w, n) /\ (n = 1 \/ "brokerReply" \in seen')
  BY <1>1 DEF Enqueue, EnqueueUnanswered, Fault
<1>2. ASSUME NEW w \in Workers, WorkerStep(w), ~(Enqueue(w) \/ EnqueueUnanswered(w))
      PROVE  UNCHANGED queued
  BY <1>2
  DEF WorkerStep, FlushStep, FlushStart, FlushDone, GetDel, UpdateLink, LinkNotFound,
      Restore, CounterExists, SetPending, UpdateRaises, TaskFails, Abort, GetDelTimesOut
<1>3. ASSUME NEW k \in Clicks, ClickStep(k) PROVE UNCHANGED queued
  BY <1>3
  DEF ClickStep, IncrementCounter, IncrementFails, IncrementTimesOut,
      IncrementClickCount, IncrementClickCountFails
<1>4. ASSUME LinkStep \/ EditStep \/ (\E c \in Codes : CounterExpires(c)) \/ UNCHANGED vars
      PROVE  UNCHANGED queued
  BY <1>4
  DEF LinkStep, EditStep, CreateLink, DeleteLink, LoadForUpdate, CommitUpdate,
      CounterExpires, vars
<1> QED
  BY <1>1, <1>2, <1>3, <1>4 DEF Next

LEMMA QueuedGrows ==
    ASSUME TypeOK, [Next]_vars, NEW e \in Events
    PROVE  queued[e] \in Nat /\ queued[e] <= queued'[e]
<1>1. queued[e] \in Nat
  BY DEF TypeOK
<1> QED
  BY <1>1, StepPublishes DEF Published

(* A step publishes messages of an event that had none, and no more than   *)
(* one hand-over can publish.                                              *)
LEMMA StepQueued ==
    ASSUME TypeOK, EventInv, [Next]_vars, NEW e \in Events
    PROVE  \/ queued'[e] = queued[e]
           \/ queued[e] = 0 /\ queued'[e] \in Nat \ {0} /\ queued'[e] <= OneHandOver'
<1>1. ASSUME NEW w \in Workers, NEW n \in 1 .. 2,
             Published(w, n), n = 1 \/ "brokerReply" \in seen'
      PROVE  \/ queued'[e] = queued[e]
             \/ queued[e] = 0 /\ queued'[e] \in Nat \ {0} /\ queued'[e] <= OneHandOver'
  <2>1. n <= OneHandOver'
    BY <1>1 DEF OneHandOver
  <2>2. CASE e \in event[w]
    <3>1. queued[e] = 0
      BY <2>2 DEF EventInv
    <3>2. queued'[e] = n
      BY <1>1, <2>2, <3>1 DEF Published
    <3> QED
      BY <2>1, <3>1, <3>2
  <2>3. CASE e \notin event[w]
    BY <1>1, <2>3 DEF Published
  <2> QED
    BY <2>2, <2>3
<1> QED
  BY <1>1, StepPublishes

LEMMA HandOverGrows ==
    ASSUME seen \subseteq seen'
    PROVE  OneHandOver \in Nat /\ OneHandOver' \in Nat /\ OneHandOver <= OneHandOver'
  BY DEF OneHandOver

(* Each event id is handed to the broker once, for every interleaving of   *)
(* flush tasks, PATCHes that reset webhook_fired, failures and retries: a  *)
(* second message only comes from a publication that was sent again for    *)
(* want of a reply (_enqueue_webhook_dispatch).                            *)
THEOREM EventScheduledOnce == Spec => []EventOnce
<1>1. Init => EventOnce
  BY DEF Init, EventOnce, OneHandOver
<1>2. TypeOK /\ EventInv /\ EventOnce /\ [Next]_vars => EventOnce'
  <2> SUFFICES ASSUME TypeOK, EventInv, EventOnce, [Next]_vars, NEW e \in Events
               PROVE  queued'[e] <= OneHandOver'
    BY DEF EventOnce
  <2>1. queued[e] \in Nat /\ queued[e] <= OneHandOver
    BY DEF EventOnce, TypeOK
  <2> QED
    BY <2>1, StepQueued, SeenGrows, HandOverGrows
<1> QED
  BY <1>1, <1>2, TypeCorrect, InitEventInv, StepEventInv, PTL DEF Spec
-----------------------------------------------------------------------------
(***************************************************************************)
(* Where increments are.  The ledger of a behaviour is the increments in   *)
(* the counters, with the workers, in click_count, or dropped for want of  *)
(* a link.                                                                 *)
(***************************************************************************)
InLedger(i) == IsOwed(i) \/ i \in PostedIncrements \/ i \in dropped

HeldInFlight == \A w \in Workers : pc[w] \notin {"update", "restore"} => held[w] = {}

(* A request that has not been counted has left no increment.              *)
NotYet ==
    \A k \in Clicks :
        /\ click[k].step = "new" => \A i \in Increments : i[1] = k => ~InLedger(i)
        /\ click[k].step = "fallback" => ~InLedger(<<k, "update">>)

LedgerInv == HeldInFlight /\ OnePlace /\ NotYet

LEMMA PostedOne ==
    ASSUME NEW i, NEW l, posted' = posted \cup {<<i, l>>}
    PROVE  PostedIncrements' = PostedIncrements \cup {i}
<1>1. <<i, l>>[1] = i /\ <<i, l>> \in posted'
  OBVIOUS
<1>2. i \in PostedIncrements'
  BY <1>1 DEF PostedIncrements
<1>3. PostedIncrements \subseteq PostedIncrements'
  BY DEF PostedIncrements
<1>4. ASSUME NEW j \in PostedIncrements' PROVE j \in PostedIncrements \cup {i}
  <2>1. PICK p \in posted' : j = p[1]
    BY DEF PostedIncrements
  <2> QED
    BY <1>1, <2>1 DEF PostedIncrements
<1> QED
  BY <1>2, <1>3, <1>4

LEMMA PostedHeld ==
    ASSUME NEW S, NEW l, posted' = posted \cup (S \X {l})
    PROVE  PostedIncrements' = PostedIncrements \cup S
<1>1. PostedIncrements' = {p[1] : p \in posted \cup (S \X {l})}
  BY DEF PostedIncrements
<1>2. ASSUME NEW i \in S PROVE i \in PostedIncrements'
  <2>1. <<i, l>> \in posted'
    OBVIOUS
  <2> QED
    BY <2>1 DEF PostedIncrements
<1>3. PostedIncrements \subseteq PostedIncrements'
  BY DEF PostedIncrements
<1>4. ASSUME NEW i \in PostedIncrements' PROVE i \in PostedIncrements \cup S
  BY <1>1 DEF PostedIncrements
<1> QED
  BY <1>2, <1>3, <1>4

LEMMA InitLedgerInv == Init => LedgerInv
  BY DEF Init, LedgerInv, HeldInFlight, OnePlace, NotYet, InLedger, IsOwed,
         PostedIncrements

(* Moving increments out of counters and hands keeps them in one place.    *)
LEMMA Shrinking ==
    ASSUME OnePlace,
           \A c \in Codes : counter'[c] \subseteq counter[c],
           \A w \in Workers : held'[w] \subseteq held[w]
    PROVE  OnePlace'
  BY DEF OnePlace

LEMMA NothingNew ==
    ASSUME TypeOK, NotYet,
           \A i \in Increments : InLedger(i)' => InLedger(i),
           \A k \in Clicks :
               /\ click'[k].step = "new" => click[k].step = "new"
               /\ click'[k].step = "fallback" => click[k].step \in {"new", "fallback"}
    PROVE  NotYet'
<1>1. \A k \in Clicks : <<k, "update">> \in Increments /\ <<k, "update">>[1] = k
  BY DEF Increments, Ways
<1> QED
  BY <1>1 DEF NotYet

LEMMA FreshIncrements ==
    ASSUME TypeOK, NotYet, OnePlace, NEW k \in Clicks, NEW c \in Codes,
           NEW F \in SUBSET Increments, \A i \in F : i[1] = k /\ i[2] # "update",
           click[k].step = "new",
           \A j \in Clicks : j # k => click'[j].step = click[j].step,
           click'[k].step # "new",
           counter' = [counter EXCEPT ![c] = @ \cup F],
           UNCHANGED <<held, posted, dropped>>
    PROVE  OnePlace' /\ NotYet'
<1>1. \A i \in F : ~InLedger(i)
  BY DEF NotYet
<1>2. \A d \in Codes : counter'[d] = IF d = c THEN counter[d] \cup F ELSE counter[d]
  BY DEF TypeOK
<1>3. OnePlace'
  BY <1>1, <1>2 DEF OnePlace, InLedger, IsOwed
<1>4. \A i : InLedger(i)' => InLedger(i) \/ i \in F
  BY <1>2 DEF InLedger, IsOwed, PostedIncrements
<1>5. <<k, "update">> \in Increments /\ <<k, "update">>[1] = k
      /\ <<k, "update">>[2] = "update"
  BY DEF Increments, Ways
<1>6. ~InLedger(<<k, "update">>)'
  BY <1>1, <1>4, <1>5 DEF NotYet
<1>7. ASSUME NEW j \in Clicks, j # k
      PROVE  /\ click'[j].step = "new" =>
                    \A i \in Increments : i[1] = j => ~InLedger(i)'
             /\ click'[j].step = "fallback" => ~InLedger(<<j, "update">>)'
  <2>1. <<j, "update">> \notin F
    BY <1>7
  <2> QED
    BY <1>4, <1>7, <2>1 DEF NotYet
<1>8. NotYet'
  BY <1>6, <1>7 DEF NotYet
<1> QED
  BY <1>3, <1>8

LEMMA StepLedgerInv == TypeOK /\ TypeOK' /\ LedgerInv /\ [Next]_vars => LedgerInv'
<1> SUFFICES ASSUME TypeOK, TypeOK', LedgerInv, [Next]_vars PROVE LedgerInv'
  OBVIOUS
<1> USE DEF stores, flush, history, failure, NoFault, Goto
<1> HeldInFlight /\ OnePlace /\ NotYet
  BY DEF LedgerInv
<1>1. ASSUME UNCHANGED <<counter, held, posted, dropped>>,
             \A w \in Workers : pc'[w] \notin {"update", "restore"} =>
                                  pc[w] \notin {"update", "restore"},
             \A k \in Clicks :
                /\ click'[k].step = "new" => click[k].step = "new"
                /\ click'[k].step = "fallback" => click[k].step \in {"new", "fallback"}
      PROVE  LedgerInv'
  <2>1. HeldInFlight'
    BY <1>1 DEF HeldInFlight
  <2>2. OnePlace'
    BY <1>1, Shrinking
  <2>3. \A i \in Increments : InLedger(i)' => InLedger(i)
    BY <1>1 DEF InLedger, IsOwed, PostedIncrements
  <2> QED
    BY <1>1, <2>1, <2>2, <2>3, NothingNew DEF LedgerInv
<1>2. ASSUME UNCHANGED <<counter, held, posted, dropped, pc, click>> PROVE LedgerInv'
  BY <1>1, <1>2
<1>3. CASE LinkStep \/ EditStep \/ UNCHANGED vars
  BY <1>2, <1>3
  DEF LinkStep, EditStep, CreateLink, DeleteLink, LoadForUpdate, CommitUpdate, vars
<1>4. ASSUME NEW k \in Clicks, NEW step, Redirected(k, step)
      PROVE  /\ click[k].step = "new" /\ click'[k].step = step
             /\ \A j \in Clicks : j # k => click'[j].step = click[j].step
             /\ click[k].code \in Codes
  BY <1>4 DEF Redirected, TypeOK, Request
<1>5. ASSUME NEW k \in Clicks, IncrementCounter(k) PROVE LedgerInv'
  <2>1. /\ {<<k, "incr">>} \in SUBSET Increments
        /\ \A i \in {<<k, "incr">>} : i[1] = k /\ i[2] # "update"
    <3>1. {<<k, "incr">>} \in SUBSET Increments
      BY SentIncrements
    <3>2. \A i \in {<<k, "incr">>} : i[1] = k /\ i[2] # "update"
      OBVIOUS
    <3> QED
      BY <3>1, <3>2
  <2>2. /\ counter' = [counter EXCEPT ![click[k].code] = @ \cup {<<k, "incr">>}]
        /\ UNCHANGED <<held, posted, dropped>>
    BY <1>5 DEF IncrementCounter, AddToCounter
  <2>3. /\ click[k].step = "new" /\ click'[k].step # "new"
        /\ \A j \in Clicks : j # k => click'[j].step = click[j].step
        /\ click[k].code \in Codes
    BY <1>4, <1>5 DEF IncrementCounter
  <2>4. OnePlace' /\ NotYet'
    BY <2>1, <2>2, <2>3, FreshIncrements
  <2> QED
    BY <1>5, <2>4 DEF LedgerInv, HeldInFlight, IncrementCounter
<1>6. ASSUME NEW k \in Clicks, IncrementFails(k) PROVE LedgerInv'
  BY <1>1, <1>4, <1>6 DEF IncrementFails
<1>7. ASSUME NEW k \in Clicks, IncrementTimesOut(k) PROVE LedgerInv'
  <2>1. PICK step \in {"done", "fallback"} : Redirected(k, step)
    BY <1>7 DEF IncrementTimesOut
  <2>2. PICK F \in {{<<k, "incr">>}, {<<k, "incr">>, <<k, "resent">>}} :
           AddToCounter(click[k].code, F)
    BY <1>7 DEF IncrementTimesOut
  <2>3. F \in SUBSET Increments /\ \A i \in F : i[1] = k /\ i[2] # "update"
    <3>1. F \in SUBSET Increments
      BY SentIncrements
    <3>2. \A i \in F : i[1] = k /\ i[2] # "update"
      OBVIOUS
    <3> QED
      BY <3>1, <3>2
  <2>4. /\ counter' = [counter EXCEPT ![click[k].code] = @ \cup F]
        /\ UNCHANGED <<held, posted, dropped>>
    BY <1>7, <2>2 DEF IncrementTimesOut, AddToCounter
  <2>5. /\ click[k].step = "new" /\ click'[k].step # "new"
        /\ \A j \in Clicks : j # k => click'[j].step = click[j].step
        /\ click[k].code \in Codes
    BY <1>4, <2>1
  <2>6. OnePlace' /\ NotYet'
    BY <2>3, <2>4, <2>5, FreshIncrements
  <2> QED
    BY <1>7, <2>6 DEF LedgerInv, HeldInFlight, IncrementTimesOut
<1>8. ASSUME NEW k \in Clicks, click[k].step = "fallback",
             click'[k].step \notin {"new", "fallback"},
             \A j \in Clicks : j # k => click'[j].step = click[j].step,
             UNCHANGED <<counter, held, pc>>,
             DirectIncrement(k) \/ UNCHANGED <<posted, dropped>>
      PROVE  LedgerInv'
  <2>1. HeldInFlight'
    BY <1>8 DEF HeldInFlight
  <2>2. OnePlace'
    BY <1>8, Shrinking
  <2>3. \A i : InLedger(i)' => InLedger(i) \/ i = <<k, "update">>
    <3>1. CASE UNCHANGED <<posted, dropped>>
      BY <1>8, <3>1 DEF InLedger, IsOwed, PostedIncrements
    <3>2. CASE DirectIncrement(k)
      <4>1. \/ PostedIncrements' = PostedIncrements \cup {<<k, "update">>}
               /\ dropped' = dropped
            \/ PostedIncrements' = PostedIncrements
               /\ dropped' = dropped \cup {<<k, "update">>}
        BY <3>2, PostedOne DEF DirectIncrement, PostedIncrements
      <4> QED
        BY <1>8, <4>1 DEF InLedger, IsOwed
    <3> QED
      BY <1>8, <3>1, <3>2
  <2>4. ASSUME NEW j \in Clicks
        PROVE  /\ click'[j].step = "new" =>
                      \A i \in Increments : i[1] = j => ~InLedger(i)'
               /\ click'[j].step = "fallback" => ~InLedger(<<j, "update">>)'
    <3>1. CASE j = k
      BY <1>8, <3>1
    <3>2. CASE j # k
      <4>1. click'[j].step = click[j].step
        BY <1>8, <3>2
      <4>2. <<j, "update">> # <<k, "update">>
            /\ \A i : i[1] = j => i # <<k, "update">>
        BY <3>2
      <4> QED
        BY <2>3, <4>1, <4>2 DEF NotYet
    <3> QED
      BY <3>1, <3>2
  <2> QED
    BY <2>1, <2>2, <2>4 DEF LedgerInv, NotYet
<1>9. ASSUME NEW k \in Clicks, IncrementClickCount(k) \/ IncrementClickCountFails(k)
      PROVE  LedgerInv'
  <2>1. /\ click'[k].step \notin {"new", "fallback"}
        /\ \A j \in Clicks : j # k => click'[j].step = click[j].step
    BY <1>9 DEF IncrementClickCount, IncrementClickCountFails, TypeOK, Request
  <2> QED
    BY <1>8, <1>9, <2>1 DEF IncrementClickCount, IncrementClickCountFails
<1>10. ASSUME NEW w \in Workers,
              FlushStart(w) \/ FlushDone(w) \/ Enqueue(w) \/ EnqueueUnanswered(w)
                \/ CounterExists(w) \/ SetPending(w)
       PROVE  LedgerInv'
  <2>1. /\ UNCHANGED <<counter, held, posted, dropped, click>>
        /\ pc[w] \notin {"update", "restore"}
        /\ \A v \in Workers : v # w => pc'[v] = pc[v]
    BY <1>10
    DEF FlushStart, FlushDone, Enqueue, EnqueueUnanswered, CounterExists,
        SetPending, TypeOK
  <2> QED
    BY <1>1, <2>1
<1>11. ASSUME NEW w \in Workers, GetDel(w) PROVE LedgerInv'
  <2>1. PICK c \in Codes : /\ Take(w, c)
                           /\ Goto(w, IF counter[c] = {} THEN "srem" ELSE "update")
    BY <1>11 DEF GetDel
  <2>2. \A d \in Codes : counter'[d] = IF d = c THEN {} ELSE counter[d]
    BY <2>1 DEF Take, TypeOK
  <2>3. \A v \in Workers : held'[v] = IF v = w THEN counter[c] ELSE held[v]
    BY <2>1 DEF Take, TypeOK
  <2>4. HeldInFlight'
    BY <2>1, <2>3 DEF HeldInFlight, TypeOK
  <2>5. OnePlace'
    BY <2>2, <2>3 DEF OnePlace
  <2>6. \A i \in Increments : InLedger(i)' => InLedger(i)
    BY <1>11, <2>2, <2>3 DEF GetDel, InLedger, IsOwed, PostedIncrements
  <2> QED
    BY <1>11, <2>4, <2>5, <2>6, NothingNew DEF GetDel, LedgerInv
<1>12. ASSUME NEW w \in Workers, UpdateLink(w) \/ LinkNotFound(w) PROVE LedgerInv'
  <2>1. \A v \in Workers : held'[v] = IF v = w THEN {} ELSE held[v]
    BY <1>12 DEF UpdateLink, LinkNotFound, TypeOK
  <2>2. UNCHANGED <<counter, click>> /\ \A v \in Workers : v # w => pc'[v] = pc[v]
    BY <1>12 DEF UpdateLink, LinkNotFound, TypeOK
  <2>3. HeldInFlight'
    BY <2>1, <2>2 DEF HeldInFlight
  <2>4. OnePlace'
    BY <2>1, <2>2, Shrinking
  <2>5. \/ PostedIncrements' = PostedIncrements \cup held[w] /\ dropped' = dropped
        \/ PostedIncrements' = PostedIncrements /\ dropped' = dropped \cup held[w]
    BY <1>12, PostedHeld DEF UpdateLink, LinkNotFound, Post, PostedIncrements
  <2>6. \A i \in Increments : InLedger(i)' => InLedger(i)
    BY <2>1, <2>2, <2>5 DEF InLedger, IsOwed
  <2> QED
    BY <2>2, <2>3, <2>4, <2>6, NothingNew DEF LedgerInv
<1>13. ASSUME NEW w \in Workers, UpdateRaises(w) PROVE LedgerInv'
  <2>1. UNCHANGED <<counter, held, dropped, click>>
    BY <1>13 DEF UpdateRaises
  <2>2. HeldInFlight'
    BY <1>13 DEF UpdateRaises, HeldInFlight, TypeOK
  <2>3. OnePlace'
    BY <2>1, Shrinking
  <2>4. PostedIncrements' = PostedIncrements
        \/ PostedIncrements' = PostedIncrements \cup held[w]
    BY <1>13, PostedHeld DEF UpdateRaises, Post, PostedIncrements
  <2>5. \A i \in Increments : InLedger(i)' => InLedger(i)
    BY <2>1, <2>4 DEF InLedger, IsOwed
  <2> QED
    BY <2>1, <2>2, <2>3, <2>5, NothingNew DEF LedgerInv
<1>14. ASSUME NEW w \in Workers, Restore(w) PROVE LedgerInv'
  <2>1. PICK c \in Codes : AddToCounter(c, held[w])
    BY <1>14 DEF Restore
  <2>2. \A d \in Codes :
           counter'[d] = IF d = c THEN counter[d] \cup held[w] ELSE counter[d]
    BY <2>1 DEF AddToCounter, TypeOK
  <2>3. \A v \in Workers : held'[v] = IF v = w THEN {} ELSE held[v]
    BY <1>14 DEF Restore, TypeOK
  <2>4. HeldInFlight'
    BY <1>14, <2>3 DEF Restore, HeldInFlight, TypeOK
  <2>5. OnePlace'
    BY <2>2, <2>3 DEF OnePlace
  <2>6. \A i \in Increments : InLedger(i)' => InLedger(i)
    <3>1. UNCHANGED <<posted, dropped>>
      BY <1>14 DEF Restore
    <3>2. ASSUME NEW i, IsOwed(i)' PROVE IsOwed(i)
      BY <2>2, <2>3, <3>2 DEF IsOwed
    <3> QED
      BY <3>1, <3>2 DEF InLedger, PostedIncrements
  <2> QED
    BY <1>14, <2>4, <2>5, <2>6, NothingNew DEF Restore, LedgerInv
<1>15. ASSUME \A c \in Codes : counter'[c] \subseteq counter[c],
              \A w \in Workers : held'[w] \subseteq held[w],
              HeldInFlight', UNCHANGED <<posted, dropped, click>>
       PROVE  LedgerInv'
  <2>1. \A i \in Increments : InLedger(i)' => InLedger(i)
    BY <1>15 DEF InLedger, IsOwed, PostedIncrements
  <2> QED
    BY <1>15, <2>1, Shrinking, NothingNew DEF LedgerInv
<1>16. ASSUME NEW w \in Workers, TaskFails(w) PROVE LedgerInv'
  <2>1. \A v \in Workers : held'[v] = IF v = w THEN {} ELSE held[v]
    BY <1>16 DEF TaskFails, Abort, TypeOK
  <2>2. HeldInFlight'
    BY <1>16, <2>1 DEF TaskFails, Abort, HeldInFlight, TypeOK
  <2> QED
    BY <1>15, <1>16, <2>1, <2>2 DEF TaskFails, Abort
<1>17. ASSUME NEW w \in Workers, GetDelTimesOut(w) PROVE LedgerInv'
  <2>1. \A c \in Codes : counter'[c] \subseteq counter[c]
    BY <1>17 DEF GetDelTimesOut, TypeOK
  <2>2. HeldInFlight'
    BY <1>17 DEF GetDelTimesOut, HeldInFlight, TypeOK
  <2> QED
    BY <1>15, <1>17, <2>1, <2>2 DEF GetDelTimesOut
<1>18. ASSUME NEW c \in Codes, CounterExpires(c) PROVE LedgerInv'
  <2>1. \A d \in Codes : counter'[d] \subseteq counter[d]
    BY <1>18 DEF CounterExpires, TypeOK
  <2>2. HeldInFlight'
    BY <1>18 DEF CounterExpires, HeldInFlight
  <2> QED
    BY <1>15, <1>18, <2>1, <2>2 DEF CounterExpires
<1> QED
  BY <1>3, <1>5, <1>6, <1>7, <1>9, <1>10, <1>11, <1>12, <1>13, <1>14, <1>16, <1>17,
     <1>18
  DEF Next, ClickStep, WorkerStep, FlushStep

(* An increment is in one counter or in the hands of one flush, never two, *)
(* for any number of workers and whatever fails.                           *)
THEOREM OnePlaceAlways == Spec => []OnePlace
<1>1. LedgerInv => OnePlace
  BY DEF LedgerInv
<1> QED
  BY <1>1, TypeCorrect, InitLedgerInv, StepLedgerInv, PTL DEF Spec

-----------------------------------------------------------------------------
(***************************************************************************)
(* No redirect is counted twice.                                           *)
(***************************************************************************)
Unambiguous == seen \cap {"incrReply", "commitReply"} = {}

OnceInv ==
    Unambiguous =>
        /\ \A i \in Increments : IsOwed(i) => i \notin PostedIncrements
        /\ \A i, j \in Increments :
              i[1] = j[1] /\ (IsOwed(i) \/ i \in PostedIncrements)
                          /\ (IsOwed(j) \/ j \in PostedIncrements) => i = j
        /\ \A k \in Clicks : click[k].step = "fallback" =>
              \A i \in Increments :
                 i[1] = k => ~IsOwed(i) /\ i \notin PostedIncrements

LEMMA InitOnceInv == Init => OnceInv
  BY DEF Init, OnceInv, IsOwed, PostedIncrements

LEMMA StepOnceInv ==
    TypeOK /\ TypeOK' /\ LedgerInv /\ OnceInv /\ [Next]_vars => OnceInv'
<1> SUFFICES ASSUME TypeOK, TypeOK', LedgerInv, OnceInv, [Next]_vars, Unambiguous'
             PROVE  OnceInv'
  BY DEF OnceInv
<1> USE DEF stores, flush, history, failure, NoFault, Goto
<1> DEFINE Somewhere(i) == IsOwed(i) \/ i \in PostedIncrements
<1>a. OnePlace /\ NotYet
  BY DEF LedgerInv
<1>b. Unambiguous
  BY SeenGrows DEF Unambiguous
<1>c. /\ \A i \in Increments : IsOwed(i) => i \notin PostedIncrements
      /\ \A i, j \in Increments :
            i[1] = j[1] /\ Somewhere(i) /\ Somewhere(j) => i = j
      /\ \A k \in Clicks : click[k].step = "fallback" =>
            \A i \in Increments : i[1] = k => ~Somewhere(i)
  BY <1>b DEF OnceInv
<1>d. \A k \in Clicks : click[k].step = "new" =>
          \A i \in Increments : i[1] = k => ~Somewhere(i)
  BY <1>a DEF NotYet, InLedger
<1>1. ASSUME \A i \in Increments : IsOwed(i)' => IsOwed(i),
             PostedIncrements' = PostedIncrements,
             \A k \in Clicks : click'[k].step = "fallback" =>
                                 click[k].step \in {"new", "fallback"}
      PROVE  OnceInv'
  BY <1>1, <1>c, <1>d DEF OnceInv
<1>2. ASSUME UNCHANGED <<counter, held, posted, click>> PROVE OnceInv'
  BY <1>1, <1>2 DEF IsOwed, PostedIncrements
<1>3. CASE LinkStep \/ EditStep \/ UNCHANGED vars
  BY <1>2, <1>3
  DEF LinkStep, EditStep, CreateLink, DeleteLink, LoadForUpdate, CommitUpdate, vars
<1>4. ASSUME NEW k \in Clicks, NEW i \in Increments, i[1] = k, ~Somewhere(i),
             click[k].step \in {"new", "fallback"}, click'[k].step = "done",
             \A j \in Clicks : j # k => click'[j].step = click[j].step,
             \/ /\ \A j \in Increments : IsOwed(j)' => IsOwed(j) \/ j = i
                /\ PostedIncrements' = PostedIncrements
             \/ /\ \A j \in Increments : IsOwed(j)' => IsOwed(j)
                /\ PostedIncrements' = PostedIncrements \cup {i}
      PROVE  OnceInv'
  <2>1. \A j \in Increments : Somewhere(j)' => Somewhere(j) \/ j = i
    BY <1>4
  <2>2. \A j \in Increments : j[1] = k => ~Somewhere(j)
    BY <1>4, <1>c, <1>d
  <2>3. \A j \in Increments : IsOwed(j)' => j \notin PostedIncrements'
    BY <1>4, <1>c
  <2>4. \A j, l \in Increments :
           j[1] = l[1] /\ Somewhere(j)' /\ Somewhere(l)' => j = l
    BY <1>4, <1>c, <2>1, <2>2
  <2>5. ASSUME NEW j \in Clicks, click'[j].step = "fallback",
               NEW l \in Increments, l[1] = j
        PROVE  ~Somewhere(l)'
    <3>1. j # k /\ click[j].step = "fallback"
      BY <1>4, <2>5
    <3>2. l # i /\ ~Somewhere(l)
      BY <1>4, <1>c, <2>5, <3>1
    <3> QED
      BY <2>1, <3>2
  <2> QED
    BY <2>3, <2>4, <2>5 DEF OnceInv
<1>5. ASSUME NEW k \in Clicks, NEW step, Redirected(k, step)
      PROVE  /\ click[k].step = "new" /\ click'[k].step = step
             /\ \A j \in Clicks : j # k => click'[j].step = click[j].step
             /\ click[k].code \in Codes
  BY <1>5 DEF Redirected, TypeOK, Request
<1>6. ASSUME NEW k \in Clicks, IncrementCounter(k) PROVE OnceInv'
  <2> DEFINE new == <<k, "incr">>
  <2>1. new \in Increments /\ new[1] = k
    BY DEF Increments, Ways
  <2>2. ~Somewhere(new)
    BY <1>5, <1>6, <1>d, <2>1 DEF IncrementCounter
  <2>3. \A d \in Codes : counter'[d] \subseteq counter[d] \cup {new}
    BY <1>6 DEF IncrementCounter, AddToCounter, TypeOK
  <2>4. UNCHANGED <<held, posted>>
    BY <1>6 DEF IncrementCounter
  <2>5. \A j \in Increments : IsOwed(j)' => IsOwed(j) \/ j = new
    BY <2>3, <2>4 DEF IsOwed
  <2>6. PostedIncrements' = PostedIncrements
    BY <2>4 DEF PostedIncrements
  <2>7. /\ click[k].step = "new" /\ click'[k].step = "done"
        /\ \A j \in Clicks : j # k => click'[j].step = click[j].step
    BY <1>5, <1>6 DEF IncrementCounter
  <2> HIDE DEF new
  <2> QED
    BY <1>4, <2>1, <2>2, <2>5, <2>6, <2>7
<1>7. ASSUME NEW k \in Clicks, IncrementFails(k) PROVE OnceInv'
  <2>1. /\ click[k].step = "new"
        /\ \A j \in Clicks : j # k => click'[j].step = click[j].step
    BY <1>5, <1>7 DEF IncrementFails
  <2>2. UNCHANGED <<counter, held, posted>>
    BY <1>7 DEF IncrementFails
  <2> QED
    BY <1>1, <2>1, <2>2 DEF IsOwed, PostedIncrements
<1>8. ASSUME NEW k \in Clicks, IncrementTimesOut(k) PROVE OnceInv'
  BY <1>8 DEF IncrementTimesOut, Fault, Unambiguous
<1>9. ASSUME NEW k \in Clicks, IncrementClickCount(k) PROVE OnceInv'
  <2> DEFINE new == <<k, "update">>
  <2>1. new \in Increments /\ new[1] = k
    BY DEF Increments, Ways
  <2>2. /\ click[k].step = "fallback" /\ click'[k].step = "done"
        /\ \A j \in Clicks : j # k => click'[j].step = click[j].step
    BY <1>9 DEF IncrementClickCount, TypeOK, Request
  <2>3. ~Somewhere(new)
    BY <1>c, <2>1, <2>2
  <2>4. UNCHANGED <<counter, held>>
    BY <1>9 DEF IncrementClickCount
  <2>5. \A j \in Increments : IsOwed(j)' => IsOwed(j)
    BY <2>4 DEF IsOwed
  <2>6. PostedIncrements' = PostedIncrements
        \/ PostedIncrements' = PostedIncrements \cup {new}
    BY <1>9, PostedOne DEF IncrementClickCount, DirectIncrement, PostedIncrements
  <2> HIDE DEF new
  <2> QED
    BY <1>4, <2>1, <2>2, <2>3, <2>5, <2>6
<1>10. ASSUME NEW k \in Clicks, IncrementClickCountFails(k) PROVE OnceInv'
  <2>1. "commitReply" \notin seen'
    BY DEF Unambiguous
  <2>2. UNCHANGED <<counter, held, posted>>
    BY <1>10, <2>1 DEF IncrementClickCountFails, Fault
  <2>3. \A j \in Clicks : click'[j].step = "fallback" => click[j].step = "fallback"
    BY <1>10 DEF IncrementClickCountFails, TypeOK, Request
  <2> QED
    BY <1>1, <2>2, <2>3 DEF IsOwed, PostedIncrements
<1>11. ASSUME NEW w \in Workers, UpdateLink(w) PROVE OnceInv'
  <2>1. \A v \in Workers : held'[v] = IF v = w THEN {} ELSE held[v]
    BY <1>11 DEF UpdateLink, TypeOK
  <2>2. UNCHANGED <<counter, click>>
    BY <1>11 DEF UpdateLink
  <2>3. PostedIncrements' = PostedIncrements \cup held[w]
    BY <1>11, PostedHeld DEF UpdateLink, Post
  <2>4. \A i \in Increments : IsOwed(i)' => IsOwed(i) /\ i \notin held[w]
    BY <1>a, <2>1, <2>2 DEF IsOwed, OnePlace
  <2>5. \A i \in Increments : Somewhere(i)' => Somewhere(i)
    BY <2>3, <2>4 DEF IsOwed
  <2> QED
    BY <1>c, <2>2, <2>3, <2>4, <2>5 DEF OnceInv
<1>12. ASSUME NEW w \in Workers, Restore(w) PROVE OnceInv'
  <2>1. PICK c \in Codes : AddToCounter(c, held[w])
    BY <1>12 DEF Restore
  <2>2. \A d \in Codes : counter'[d] \subseteq counter[d] \cup held[w]
    BY <2>1 DEF AddToCounter, TypeOK
  <2>3. UNCHANGED <<posted, click>> /\ \A v \in Workers : held'[v] \subseteq held[v]
    BY <1>12 DEF Restore, TypeOK
  <2>4. \A i \in Increments : IsOwed(i)' => IsOwed(i)
    BY <2>2, <2>3 DEF IsOwed
  <2> QED
    BY <1>1, <2>3, <2>4 DEF PostedIncrements
<1>13. ASSUME NEW w \in Workers, GetDel(w) PROVE OnceInv'
  <2>1. PICK c \in Codes : Take(w, c)
    BY <1>13 DEF GetDel
  <2>2. /\ \A d \in Codes : counter'[d] \subseteq counter[d]
        /\ \A v \in Workers : held'[v] \subseteq held[v] \cup counter[c]
    BY <2>1 DEF Take, TypeOK
  <2>3. \A i \in Increments : IsOwed(i)' => IsOwed(i)
    BY <2>2 DEF IsOwed
  <2> QED
    BY <1>1, <1>13, <2>3 DEF GetDel, PostedIncrements
<1>14. ASSUME \A c \in Codes : counter'[c] \subseteq counter[c],
              \A w \in Workers : held'[w] \subseteq held[w],
              UNCHANGED <<posted, click>>
       PROVE  OnceInv'
  BY <1>1, <1>14 DEF IsOwed, PostedIncrements
<1>15. ASSUME NEW w \in Workers,
              LinkNotFound(w) \/ UpdateRaises(w) \/ TaskFails(w) \/ GetDelTimesOut(w)
       PROVE  OnceInv'
  <2>1. "commitReply" \notin seen'
    BY DEF Unambiguous
  <2>2. CASE LinkNotFound(w)
    BY <1>14, <2>2 DEF LinkNotFound, TypeOK
  <2>3. CASE UpdateRaises(w)
    BY <1>2, <2>1, <2>3 DEF UpdateRaises, Fault
  <2>4. CASE TaskFails(w)
    BY <1>14, <2>4 DEF TaskFails, Abort, TypeOK
  <2>5. CASE GetDelTimesOut(w)
    BY <1>14, <2>5 DEF GetDelTimesOut, TypeOK
  <2> QED
    BY <1>15, <2>2, <2>3, <2>4, <2>5
<1>16. ASSUME NEW w \in Workers,
              FlushStart(w) \/ FlushDone(w) \/ Enqueue(w) \/ EnqueueUnanswered(w)
                \/ CounterExists(w) \/ SetPending(w)
       PROVE  OnceInv'
  BY <1>2, <1>16 DEF FlushStart, FlushDone, Enqueue, EnqueueUnanswered, CounterExists,
        SetPending
<1>17. ASSUME NEW c \in Codes, CounterExpires(c) PROVE OnceInv'
  BY <1>14, <1>17 DEF CounterExpires, TypeOK
<1> QED
  BY <1>3, <1>6, <1>7, <1>8, <1>9, <1>10, <1>11, <1>12, <1>13, <1>15, <1>16, <1>17
  DEF Next, ClickStep, WorkerStep, FlushStep

(* As long as no store applies a command whose answer is lost, no redirect *)
(* is counted twice: whatever crashes, fails, overlaps or is retried.      *)
THEOREM CountedOnceAlways == Spec => []CountedOnce
<1>1. TypeOK /\ OnceInv => CountedOnce
  <2> SUFFICES ASSUME TypeOK, OnceInv, Unambiguous
               PROVE  /\ Owed \cap PostedIncrements = {}
                      /\ \A i, j \in Owed \cup PostedIncrements :
                            i[1] = j[1] => i = j
    BY DEF CountedOnce, Unambiguous
  <2>1. PostedIncrements \subseteq Increments
    BY DEF PostedIncrements, TypeOK
  <2> QED
    BY <2>1 DEF OnceInv, Owed
<1> QED
  BY <1>1, TypeCorrect, InitLedgerInv, StepLedgerInv, InitOnceInv, StepOnceInv, PTL
  DEF Spec

-----------------------------------------------------------------------------
(***************************************************************************)
(* No answered redirect vanishes.                                          *)
(***************************************************************************)
Lossless ==
    seen \cap {"crash", "connectError", "getdelReply", "restoreError", "expired"} = {}

KeptInv ==
    Lossless =>
        \A k \in Clicks : click[k].step = "done" =>
            \E i \in Increments : i[1] = k /\ InLedger(i)

LEMMA InitKeptInv == Init => KeptInv
  BY DEF Init, KeptInv

LEMMA StepKeptInv ==
    TypeOK /\ TypeOK' /\ LedgerInv /\ KeptInv /\ [Next]_vars => KeptInv'
<1> SUFFICES ASSUME TypeOK, TypeOK', LedgerInv, KeptInv, [Next]_vars, Lossless'
             PROVE  KeptInv'
  BY DEF KeptInv
<1> USE DEF stores, flush, history, failure, NoFault, Goto
<1>a. HeldInFlight
  BY DEF LedgerInv
<1>b. Lossless
  BY SeenGrows DEF Lossless
<1>c. \A k \in Clicks : click[k].step = "done" =>
          \E i \in Increments : i[1] = k /\ InLedger(i)
  BY <1>b DEF KeptInv
<1>1. ASSUME \A i \in Increments : InLedger(i) => InLedger(i)',
             \A k \in Clicks : click'[k].step = "done" => click[k].step = "done"
      PROVE  KeptInv'
  BY <1>1, <1>c DEF KeptInv
<1>2. ASSUME UNCHANGED <<counter, held, posted, dropped>>,
             \A k \in Clicks : click'[k].step = "done" => click[k].step = "done"
      PROVE  KeptInv'
  BY <1>1, <1>2 DEF InLedger, IsOwed, PostedIncrements
<1>3. CASE LinkStep \/ EditStep \/ UNCHANGED vars
  BY <1>2, <1>3
  DEF LinkStep, EditStep, CreateLink, DeleteLink, LoadForUpdate, CommitUpdate, vars
<1>4. ASSUME NEW k \in Clicks, NEW i \in Increments, i[1] = k, InLedger(i)',
             \A j \in Increments : InLedger(j) => InLedger(j)',
             \A j \in Clicks : j # k => click'[j].step = click[j].step
      PROVE  KeptInv'
  BY <1>4, <1>c DEF KeptInv
<1>5. ASSUME NEW k \in Clicks, NEW step, Redirected(k, step)
      PROVE  /\ click'[k].step = step
             /\ \A j \in Clicks : j # k => click'[j].step = click[j].step
             /\ click[k].code \in Codes
  BY <1>5 DEF Redirected, TypeOK, Request
<1>6. ASSUME NEW k \in Clicks, NEW F, <<k, "incr">> \in F,
             AddToCounter(click[k].code, F), click[k].code \in Codes,
             UNCHANGED <<held, posted, dropped>>,
             \A j \in Clicks : j # k => click'[j].step = click[j].step
      PROVE  KeptInv'
  <2>1. <<k, "incr">> \in Increments /\ <<k, "incr">>[1] = k
    BY DEF Increments, Ways
  <2>2. <<k, "incr">> \in counter'[click[k].code]
        /\ \A d \in Codes : counter[d] \subseteq counter'[d]
    BY <1>6 DEF AddToCounter, TypeOK
  <2>3. InLedger(<<k, "incr">>)'
    BY <1>6, <2>2 DEF InLedger, IsOwed
  <2>4. \A j \in Increments : InLedger(j) => InLedger(j)'
    BY <1>6, <2>2 DEF InLedger, IsOwed, PostedIncrements
  <2> QED
    BY <1>4, <1>6, <2>1, <2>3, <2>4
<1>7. ASSUME NEW k \in Clicks, IncrementCounter(k) PROVE KeptInv'
  BY <1>5, <1>6, <1>7 DEF IncrementCounter
<1>8. ASSUME NEW k \in Clicks, IncrementTimesOut(k) PROVE KeptInv'
  <2>1. PICK step \in {"done", "fallback"} : Redirected(k, step)
    BY <1>8 DEF IncrementTimesOut
  <2>2. PICK F : <<k, "incr">> \in F /\ AddToCounter(click[k].code, F)
    BY <1>8 DEF IncrementTimesOut
  <2> QED
    BY <1>5, <1>6, <1>8, <2>1, <2>2 DEF IncrementTimesOut
<1>9. ASSUME NEW k \in Clicks, IncrementFails(k) PROVE KeptInv'
  <2>1. \A j \in Clicks : click'[j].step = "done" => click[j].step = "done"
    BY <1>5, <1>9 DEF IncrementFails
  <2> QED
    BY <1>2, <1>9, <2>1 DEF IncrementFails
<1>10. ASSUME NEW k \in Clicks, DirectIncrement(k)
       PROVE  /\ <<k, "update">> \in PostedIncrements' \cup dropped'
              /\ PostedIncrements \subseteq PostedIncrements'
              /\ dropped \subseteq dropped'
  BY <1>10, PostedOne DEF DirectIncrement, PostedIncrements
<1>11. ASSUME NEW k \in Clicks, IncrementClickCount(k) PROVE KeptInv'
  <2>1. <<k, "update">> \in Increments /\ <<k, "update">>[1] = k
    BY DEF Increments, Ways
  <2>2. UNCHANGED <<counter, held>> /\ DirectIncrement(k)
    BY <1>11 DEF IncrementClickCount
  <2>3. InLedger(<<k, "update">>)'
    BY <1>10, <2>2 DEF InLedger
  <2>4. \A j \in Increments : InLedger(j) => InLedger(j)'
    BY <1>10, <2>2 DEF InLedger, IsOwed
  <2>5. \A j \in Clicks : j # k => click'[j].step = click[j].step
    BY <1>11 DEF IncrementClickCount, TypeOK
  <2> QED
    BY <1>4, <2>1, <2>3, <2>4, <2>5
<1>12. ASSUME NEW k \in Clicks, IncrementClickCountFails(k) PROVE KeptInv'
  <2>1. \A j \in Clicks : click'[j].step = "done" => click[j].step = "done"
    BY <1>12 DEF IncrementClickCountFails, TypeOK, Request
  <2>2. UNCHANGED <<counter, held>>
    BY <1>12 DEF IncrementClickCountFails
  <2>3. PostedIncrements \subseteq PostedIncrements' /\ dropped \subseteq dropped'
    BY <1>10, <1>12 DEF IncrementClickCountFails, PostedIncrements
  <2>4. \A j \in Increments : InLedger(j) => InLedger(j)'
    BY <2>2, <2>3 DEF InLedger, IsOwed
  <2> QED
    BY <1>1, <2>1, <2>4
<1>13. ASSUME NEW w \in Workers, GetDel(w) PROVE KeptInv'
  <2>1. PICK c \in Codes : Take(w, c)
    BY <1>13 DEF GetDel
  <2>2. held[w] = {}
    BY <1>13, <1>a DEF GetDel, HeldInFlight
  <2>3. /\ \A d \in Codes : d # c => counter'[d] = counter[d]
        /\ held'[w] = counter[c]
        /\ \A v \in Workers : v # w => held'[v] = held[v]
    BY <2>1 DEF Take, TypeOK
  <2>4. \A i : IsOwed(i) => IsOwed(i)'
    BY <2>2, <2>3 DEF IsOwed
  <2> QED
    BY <1>1, <1>13, <2>4 DEF GetDel, InLedger, PostedIncrements
<1>14. ASSUME NEW w \in Workers, UpdateLink(w) \/ LinkNotFound(w) PROVE KeptInv'
  <2>1. UNCHANGED <<counter, click>>
        /\ \A v \in Workers : v # w => held'[v] = held[v]
    BY <1>14 DEF UpdateLink, LinkNotFound, TypeOK
  <2>2. \/ PostedIncrements' = PostedIncrements \cup held[w] /\ dropped' = dropped
        \/ PostedIncrements' = PostedIncrements /\ dropped' = dropped \cup held[w]
    BY <1>14, PostedHeld DEF UpdateLink, LinkNotFound, Post, PostedIncrements
  <2>3. \A i \in Increments : InLedger(i) => InLedger(i)'
    BY <2>1, <2>2 DEF InLedger, IsOwed
  <2> QED
    BY <1>1, <2>1, <2>3
<1>15. ASSUME NEW w \in Workers, UpdateRaises(w) PROVE KeptInv'
  <2>1. PostedIncrements \subseteq PostedIncrements'
    BY <1>15, PostedHeld DEF UpdateRaises, Post, PostedIncrements
  <2>2. UNCHANGED <<counter, held, dropped, click>>
    BY <1>15 DEF UpdateRaises
  <2>3. \A i \in Increments : InLedger(i) => InLedger(i)'
    BY <2>1, <2>2 DEF InLedger, IsOwed
  <2> QED
    BY <1>1, <2>2, <2>3
<1>16. ASSUME NEW w \in Workers, Restore(w) PROVE KeptInv'
  <2>1. PICK c \in Codes : AddToCounter(c, held[w])
    BY <1>16 DEF Restore
  <2>2. /\ \A d \in Codes : counter[d] \subseteq counter'[d]
        /\ held[w] \subseteq counter'[c]
        /\ \A v \in Workers : v # w => held'[v] = held[v]
    BY <1>16, <2>1 DEF Restore, AddToCounter, TypeOK
  <2>3. \A i : IsOwed(i) => IsOwed(i)'
    BY <2>2 DEF IsOwed
  <2> QED
    BY <1>1, <1>16, <2>3 DEF Restore, InLedger, PostedIncrements
<1>17. ASSUME NEW w \in Workers, TaskFails(w) PROVE KeptInv'
  <2>1. pc[w] = "enqueue"
    BY <1>17 DEF TaskFails, Fault, Lossless
  <2>2. held[w] = {}
    BY <2>1, <1>a DEF HeldInFlight
  <2>3. UNCHANGED <<counter, posted, dropped, click>> /\ \A v \in Workers : held'[v] = held[v]
    BY <1>17, <2>2 DEF TaskFails, Abort, TypeOK
  <2> QED
    BY <1>1, <2>3 DEF InLedger, IsOwed, PostedIncrements
<1>18. ASSUME NEW w \in Workers, GetDelTimesOut(w) PROVE KeptInv'
  BY <1>18 DEF GetDelTimesOut, Fault, Lossless
<1>19. ASSUME NEW c \in Codes, CounterExpires(c) PROVE KeptInv'
  BY <1>19 DEF CounterExpires, Fault, Lossless
<1>20. ASSUME NEW w \in Workers,
              FlushStart(w) \/ FlushDone(w) \/ Enqueue(w) \/ EnqueueUnanswered(w)
                \/ CounterExists(w) \/ SetPending(w)
       PROVE  KeptInv'
  BY <1>2, <1>20 DEF FlushStart, FlushDone, Enqueue, EnqueueUnanswered, CounterExists,
        SetPending
<1> QED
  BY <1>3, <1>7, <1>8, <1>9, <1>11, <1>12, <1>13, <1>14, <1>15, <1>16, <1>17, <1>18,
     <1>19, <1>20
  DEF Next, ClickStep, WorkerStep, FlushStep

(* Rolled-back transactions, Redis outages on the redirect path, a broker  *)
(* that refuses messages and overlapping flushes lose no redirect.         *)
THEOREM NothingVanishesAlways == Spec => []NothingVanishes
<1>1. TypeOK /\ KeptInv => NothingVanishes
  <2> SUFFICES ASSUME TypeOK, KeptInv, Lossless, NEW k \in Clicks,
                      click[k].step = "done"
               PROVE  \E i \in Owed \cup PostedIncrements \cup dropped : i[1] = k
    BY DEF NothingVanishes, Lossless
  <2>1. PICK i \in Increments : i[1] = k /\ InLedger(i)
    BY DEF KeptInv
  <2> QED
    BY <2>1 DEF InLedger, Owed
<1> QED
  BY <1>1, TypeCorrect, InitLedgerInv, StepLedgerInv, InitKeptInv, StepKeptInv, PTL
  DEF Spec
-----------------------------------------------------------------------------
(***************************************************************************)
(* click_count is the number of increments posted to the link.             *)
(*                                                                         *)
(* Each posting adds the number of increments it posts, so the count is    *)
(* exact as long as none of them was posted to this link before.  That     *)
(* holds of every owed increment until the answer to a COMMIT is lost:     *)
(* then the flush restores what it has posted.  (An INCR whose reply is    *)
(* lost makes two increments of a click, and the count counts both.)       *)
(* A new link starts at 0 because nothing is posted under an id before     *)
(* the link of that id exists.                                             *)
(***************************************************************************)
PostedTo(l) == {p \in posted : p[2] = l}

NoneAhead == \A p \in posted : p[2].id <= row[p[2].code].id

Answered == "commitReply" \notin seen

OwedUnposted == \A i \in Increments : IsOwed(i) => i \notin PostedIncrements

CountInv ==
    /\ NoneAhead
    /\ Answered => OwedUnposted /\ CountExact

LEMMA PostedToFinite ==
    ASSUME TypeOK, NEW l \in Links
    PROVE  /\ IsFiniteSet(PostedTo(l))
           /\ Cardinality(PostedTo(l)) \in Nat
<1>1. IsFiniteSet(Increments) /\ IsFiniteSet({l})
  BY IncrementsFinite, FS_Singleton
<1>2. IsFiniteSet(Increments \X {l})
  BY <1>1, FS_Product
<1>3. PostedTo(l) \in SUBSET (Increments \X {l})
  BY DEF PostedTo, TypeOK
<1> QED
  BY <1>2, <1>3, FS_Subset, FS_CardinalityType

(* What is posted to a link for the first time adds its number.            *)
LEMMA PostedMore ==
    ASSUME TypeOK, NEW l \in Links, NEW S \in SUBSET Increments,
           S \cap PostedIncrements = {},
           posted' = posted \cup (S \X {l})
    PROVE  /\ Cardinality(PostedTo(l)') = Cardinality(PostedTo(l)) + Cardinality(S)
           /\ \A m : m # l => PostedTo(m)' = PostedTo(m)
<1>1. /\ IsFiniteSet(PostedTo(l)) /\ Cardinality(PostedTo(l)) \in Nat
      /\ IsFiniteSet(S) /\ Cardinality(S) \in Nat
  BY PostedToFinite, IncrementsFinite
<1>2. IsFiniteSet(S \X {l}) /\ Cardinality(S \X {l}) = Cardinality(S)
  <2>1. IsFiniteSet({l}) /\ Cardinality({l}) = 1
    BY FS_Singleton, Zenon
  <2>2. IsFiniteSet(S \X {l}) /\ Cardinality(S \X {l}) = Cardinality(S) * Cardinality({l})
    BY <1>1, <2>1, FS_Product, Zenon
  <2>3. Cardinality(S) * 1 = Cardinality(S)
    BY <1>1
  <2> QED
    BY <2>1, <2>2, <2>3
<1>3. PostedTo(l)' = PostedTo(l) \cup (S \X {l})
  BY DEF PostedTo
<1>4. PostedTo(l) \cap (S \X {l}) = {}
  BY DEF PostedTo, PostedIncrements
<1>5. Cardinality(PostedTo(l)') = Cardinality(PostedTo(l)) + Cardinality(S) - 0
  BY <1>1, <1>2, <1>3, <1>4, FS_Union, FS_EmptySet
<1>6. \A m : m # l => PostedTo(m)' = PostedTo(m)
  BY DEF PostedTo
<1> QED
  BY <1>1, <1>5, <1>6

LEMMA InitCountInv == Init => CountInv
<1> SUFFICES ASSUME Init PROVE CountInv
  OBVIOUS
<1>1. \A c \in Codes : row[c].count = 0
  BY DEF Init
<1>2. \A l : Cardinality({p \in posted : p[2] = l}) = 0
  <2>1. posted = {}
    BY DEF Init
  <2>2. \A l : {p \in posted : p[2] = l} = {}
    BY <2>1
  <2> QED
    BY <2>2, FS_EmptySet
<1>3. NoneAhead
  BY DEF Init, NoneAhead
<1>4. OwedUnposted
  BY DEF Init, OwedUnposted, IsOwed
<1>5. CountExact
  BY <1>1, <1>2 DEF CountExact
<1> QED
  BY <1>3, <1>4, <1>5 DEF CountInv

(* CountExact, in the words of this proof.                                 *)
LEMMA CountExactAs ==
    CountExact <=>
        (Answered => \A c \in Codes : row[c].count = Cardinality(PostedTo(LinkOf(c))))
  BY DEF CountExact, PostedTo, Answered

LEMMA StepNoneAhead ==
    ASSUME TypeOK, TypeOK', NoneAhead, [Next]_vars,
           \A p \in posted' \ posted : \E c \in Codes : p[2] = LinkOf(c)
    PROVE  NoneAhead'
<1> SUFFICES ASSUME NEW p \in posted' PROVE p[2].id <= row'[p[2].code].id
  BY DEF NoneAhead
<1>1. /\ p[2].code \in Codes /\ p[2].id \in Nat
      /\ row[p[2].code].id \in Nat /\ row'[p[2].code].id \in Nat
  <2>1. p[2] \in Links
    BY DEF TypeOK
  <2>2. p[2].code \in Codes /\ p[2].id \in Nat
    BY <2>1, BoundsAssumption DEF Links
  <2> QED
    BY <2>2, RowNumbers DEF TypeOK
<1>2. row'[p[2].code].id >= row[p[2].code].id
  BY <1>1, StepRowsGrow DEF RowsGrow
<1>3. p[2].id <= row[p[2].code].id
  <2>1. CASE p \in posted
    BY <2>1 DEF NoneAhead
  <2>2. CASE p \notin posted
    <3>1. PICK c \in Codes : p[2] = LinkOf(c)
      BY <2>2
    <3>2. p[2].code = c /\ p[2].id = row[c].id
      BY <3>1 DEF LinkOf
    <3> QED
      BY <1>1, <3>2
  <2> QED
    BY <2>1, <2>2
<1> QED
  BY <1>1, <1>2, <1>3

LEMMA StepCountInv ==
    TypeOK /\ TypeOK' /\ LedgerInv /\ CountInv /\ [Next]_vars => CountInv'
<1> SUFFICES ASSUME TypeOK, TypeOK', LedgerInv, CountInv, [Next]_vars
             PROVE  CountInv'
  OBVIOUS
<1> USE DEF stores, flush, history, failure, NoFault, Goto
<1>a. NoneAhead /\ OnePlace /\ NotYet
  BY DEF CountInv, LedgerInv
<1>b. Answered' => /\ OwedUnposted
                   /\ \A c \in Codes : row[c].count = Cardinality(PostedTo(LinkOf(c)))
  BY SeenGrows, CountExactAs DEF CountInv, Answered
<1>c. \A c \in Codes : row[c] \in Row
  BY DEF TypeOK
(* A step that posts nothing: what becomes owed was nowhere before.        *)
<1>1. ASSUME posted' = posted,
             \A c \in Codes : row'[c].id = row[c].id /\ row'[c].count = row[c].count,
             \A i \in Increments : IsOwed(i)' => IsOwed(i) \/ ~InLedger(i)
      PROVE  CountInv'
  <2>1. NoneAhead'
    BY <1>1, <1>a, StepNoneAhead
  <2>2. Answered' => OwedUnposted'
    BY <1>1, <1>b DEF OwedUnposted, InLedger, PostedIncrements
  <2>3. \A c \in Codes : PostedTo(LinkOf(c))' = PostedTo(LinkOf(c))
    BY <1>1 DEF PostedTo, LinkOf
  <2>4. Answered' => \A c \in Codes : row'[c].count = Cardinality(PostedTo(LinkOf(c))')
    BY <1>1, <1>b, <2>3
  <2>5. CountExact'
    BY <2>4 DEF CountExact, PostedTo, Answered
  <2> QED
    BY <2>1, <2>2, <2>5 DEF CountInv
<1>2. ASSUME UNCHANGED <<row, posted>>,
             \A i \in Increments : IsOwed(i)' => IsOwed(i) \/ ~InLedger(i)
      PROVE  CountInv'
  BY <1>1, <1>2
(* A step that posts S, all of them for the first time, to the link of c.  *)
<1>3. ASSUME NEW c \in Codes, NEW S \in SUBSET Increments,
             row[c].live, posted' = posted \cup (S \X {LinkOf(c)}),
             Answered' => S \cap PostedIncrements = {},
             \A d \in Codes : row'[d].id = row[d].id,
             \A d \in Codes \ {c} : row'[d].count = row[d].count,
             row'[c].count = row[c].count + Cardinality(S),
             Answered' => \A i \in Increments : IsOwed(i)' => IsOwed(i) /\ i \notin S
      PROVE  CountInv'
  <2>1. NoneAhead'
    BY <1>3, <1>a, StepNoneAhead
  <2>2. Answered' => OwedUnposted'
    BY <1>3, <1>b, PostedHeld DEF OwedUnposted
  <2>3. LinkOf(c) \in Links
    BY <1>3 DEF LinkOf, Links, TypeOK, Row
  <2>4. \A d \in Codes : LinkOf(d)' = LinkOf(d) /\ (d # c => LinkOf(d) # LinkOf(c))
    BY <1>3 DEF LinkOf
  <2> DEFINE After(m) == {p \in posted' : p[2] = m}
  <2>5. Answered' => /\ Cardinality(After(LinkOf(c)))
                          = Cardinality(PostedTo(LinkOf(c))) + Cardinality(S)
                     /\ \A m : m # LinkOf(c) => After(m) = PostedTo(m)
    BY <1>3, <2>3, PostedMore DEF PostedTo
  <2>6. Answered' => \A d \in Codes : row'[d].count = Cardinality(PostedTo(LinkOf(d))')
    <3> SUFFICES ASSUME Answered', NEW d \in Codes
                 PROVE  row'[d].count = Cardinality(PostedTo(LinkOf(d))')
      OBVIOUS
    <3>1. PostedTo(LinkOf(d))' = After(LinkOf(d))
      BY <2>4 DEF PostedTo
    <3>2. row[d].count = Cardinality(PostedTo(LinkOf(d)))
          /\ row[c].count = Cardinality(PostedTo(LinkOf(c)))
      BY <1>b
    <3> HIDE DEF After
    <3>3. CASE d = c
      BY <1>3, <2>5, <3>1, <3>2, <3>3
    <3>4. CASE d # c
      BY <1>3, <2>4, <2>5, <3>1, <3>2, <3>4
    <3> QED
      BY <3>3, <3>4
  <2>7. CountExact'
    BY <2>6 DEF CountExact, PostedTo, Answered
  <2> QED
    BY <2>1, <2>2, <2>7 DEF CountInv
<1>4. CASE UNCHANGED vars
  BY <1>2, <1>4 DEF vars, IsOwed
<1>5. ASSUME NEW c \in Codes, NEW h \in Hooks, CreateLink(c, h) PROVE CountInv'
  <2>1. /\ row[c].id < MaxLinks
        /\ row' = [row EXCEPT ![c] = [live |-> TRUE, id |-> row[c].id + 1, count |-> 0,
                                      hook |-> h, fired |-> FALSE]]
        /\ UNCHANGED <<counter, held, posted>>
    BY <1>5 DEF CreateLink
  <2>2. /\ row'[c].id = row[c].id + 1 /\ row'[c].count = 0
        /\ \A d \in Codes \ {c} : row'[d] = row[d]
        /\ row[c].id \in Nat
    BY <1>c, <2>1, RowNumbers DEF TypeOK
  <2>3. NoneAhead'
    BY <1>a, <2>1, StepNoneAhead
  <2>4. Answered' => OwedUnposted'
    BY <1>b, <2>1 DEF OwedUnposted, IsOwed, PostedIncrements
  <2>5. ASSUME NEW d \in Codes, Answered'
        PROVE  row'[d].count = Cardinality(PostedTo(LinkOf(d))')
    <3>1. CASE d # c
      BY <1>b, <2>1, <2>2, <2>5, <3>1 DEF PostedTo, LinkOf
    <3>2. CASE d = c
      <4>1. LinkOf(c)'.code = c /\ LinkOf(c)'.id = row[c].id + 1
        BY <2>2 DEF LinkOf
      <4>2. \A p \in posted : p[2].code = c => p[2].id # row[c].id + 1
        <5> SUFFICES ASSUME NEW p \in posted, p[2].code = c
                     PROVE  p[2].id # row[c].id + 1
          OBVIOUS
        <5>1. p[2].id \in Nat
          BY BoundsAssumption DEF TypeOK, Links
        <5>2. p[2].id <= row[c].id
          BY <1>a DEF NoneAhead
        <5> QED
          BY <2>2, <5>1, <5>2
      <4>3. PostedTo(LinkOf(c))' = {}
        BY <2>1, <4>1, <4>2 DEF PostedTo
      <4> QED
        BY <2>2, <3>2, <4>3, FS_EmptySet
    <3> QED
      BY <3>1, <3>2
  <2>6. CountExact'
    BY <2>5 DEF CountExact, PostedTo, Answered
  <2> QED
    BY <2>3, <2>4, <2>6 DEF CountInv
<1>6. ASSUME NEW c \in Codes, DeleteLink(c) PROVE CountInv'
  <2>1. \A d \in Codes : row'[d].id = row[d].id /\ row'[d].count = row[d].count
    BY <1>6, <1>c DEF DeleteLink, TypeOK, Row
  <2> QED
    BY <1>1, <1>6, <2>1 DEF DeleteLink, IsOwed
<1>7. ASSUME NEW e \in Editors, CommitUpdate(e) PROVE CountInv'
  <2>1. \A d \in Codes : row'[d].id = row[d].id /\ row'[d].count = row[d].count
    <3>1. \A r \in Row : \A l : Patched(r, l).id = r.id /\ Patched(r, l).count = r.count
      BY DEF Patched, Row
    <3> QED
      BY <1>7, <1>c, <3>1 DEF CommitUpdate, TypeOK
  <2> QED
    BY <1>1, <1>7, <2>1 DEF CommitUpdate, IsOwed
<1>8. ASSUME NEW e \in Editors, NEW c \in Codes, NEW h \in Hooks, LoadForUpdate(e, c, h)
      PROVE  CountInv'
  BY <1>2, <1>8 DEF LoadForUpdate, IsOwed
(* A redirect: its increments are new, or they are not owed at all.        *)
<1>9. ASSUME NEW k \in Clicks, click[k].step = "new", click[k].code \in Codes,
             NEW F \in SUBSET Increments, \A i \in F : i[1] = k,
             AddToCounter(click[k].code, F), UNCHANGED <<row, held, posted>>
      PROVE  CountInv'
  <2>1. \A i \in F : ~InLedger(i)
    BY <1>9, <1>a DEF NotYet
  <2>2. \A d \in Codes : counter'[d] \subseteq counter[d] \cup F
    BY <1>9 DEF AddToCounter, TypeOK
  <2>3. \A i \in Increments : IsOwed(i)' => IsOwed(i) \/ ~InLedger(i)
    BY <1>9, <2>1, <2>2 DEF IsOwed
  <2> QED
    BY <1>2, <1>9, <2>3
<1>10. ASSUME NEW k \in Clicks, IncrementCounter(k) \/ IncrementTimesOut(k)
       PROVE  CountInv'
  <2>1. /\ click[k].step = "new" /\ click[k].code \in Codes
        /\ UNCHANGED <<row, held, posted>>
    BY <1>10 DEF IncrementCounter, IncrementTimesOut, Redirected, TypeOK, Request
  <2>2. PICK F \in {{<<k, "incr">>}, {<<k, "incr">>, <<k, "resent">>}} :
           AddToCounter(click[k].code, F)
    BY <1>10 DEF IncrementCounter, IncrementTimesOut
  <2>3. F \in SUBSET Increments /\ \A i \in F : i[1] = k
    <3>1. F \in SUBSET Increments
      BY SentIncrements
    <3>2. \A i \in F : i[1] = k
      OBVIOUS
    <3> QED
      BY <3>1, <3>2
  <2> QED
    BY <1>9, <2>1, <2>2, <2>3
<1>11. ASSUME NEW k \in Clicks, IncrementFails(k) PROVE CountInv'
  BY <1>2, <1>11 DEF IncrementFails, IsOwed
<1>12. ASSUME NEW k \in Clicks, click[k].step = "fallback", UNCHANGED <<counter, held>>,
              DirectIncrement(k)
       PROVE  CountInv'
  <2> DEFINE c == click[k].code
             i == <<k, "update">>
  <2>1. c \in Codes /\ i \in Increments /\ ~InLedger(i)
    BY <1>12, <1>a, SentIncrements DEF NotYet, TypeOK, Request
  <2>2. \A j \in Increments : IsOwed(j)' => IsOwed(j) /\ j # i
    BY <1>12, <2>1 DEF IsOwed, InLedger
  <2>3. CASE ~row[c].live
    BY <1>2, <1>12, <2>2, <2>3 DEF DirectIncrement
  <2>4. CASE row[c].live
    <3>1. row' = [row EXCEPT ![c].count = @ + 1] /\ posted' = posted \cup {<<i, LinkOf(c)>>}
      BY <1>12, <2>4 DEF DirectIncrement
    <3>2. posted' = posted \cup ({i} \X {LinkOf(c)})
      BY <3>1
    <3>3. /\ \A d \in Codes : row'[d].id = row[d].id
          /\ \A d \in Codes \ {c} : row'[d].count = row[d].count
          /\ row'[c].count = row[c].count + 1
      BY <1>c, <2>1, <3>1 DEF TypeOK, Row
    <3>4. Cardinality({i}) = 1
      BY FS_Singleton, Zenon
    <3>5. {i} \in SUBSET Increments /\ {i} \cap PostedIncrements = {}
      BY <2>1 DEF InLedger
    <3>6. \A j \in Increments : IsOwed(j)' => IsOwed(j) /\ j \notin {i}
      BY <2>2
    <3> HIDE DEF c, i
    <3> QED
      BY <1>3, <2>1, <2>4, <3>2, <3>3, <3>4, <3>5, <3>6
  <2> QED
    BY <2>3, <2>4
<1>13. ASSUME NEW k \in Clicks, IncrementClickCount(k) PROVE CountInv'
  BY <1>12, <1>13 DEF IncrementClickCount
<1>14. ASSUME NEW k \in Clicks, IncrementClickCountFails(k) PROVE CountInv'
  <2>1. click[k].step = "fallback" /\ UNCHANGED <<counter, held>>
    BY <1>14 DEF IncrementClickCountFails
  <2>2. UNCHANGED <<row, posted>> \/ DirectIncrement(k)
    BY <1>14 DEF IncrementClickCountFails
  <2> QED
    BY <1>2, <1>12, <2>1, <2>2 DEF IsOwed
(* A flush that commits posts what it holds, and holds it no more.         *)
<1>15. ASSUME NEW w \in Workers, UpdateLink(w) PROVE CountInv'
  <2>1. PICK c \in Codes : Post(w, c)
    BY <1>15 DEF UpdateLink
  <2>2. held[w] \in SUBSET Increments /\ Cardinality(held[w]) \in Nat
    BY IncrementsFinite DEF TypeOK
  <2>3. /\ \A d \in Codes : row'[d].id = row[d].id
        /\ \A d \in Codes \ {c} : row'[d].count = row[d].count
        /\ row'[c].count = row[c].count + Cardinality(held[w])
    BY <1>c, <2>1, <2>2, CreditedType DEF Post, TypeOK
  <2>4. \A i \in Increments : IsOwed(i)' => IsOwed(i) /\ i \notin held[w]
    <3>1. counter' = counter /\ \A v \in Workers : held'[v] = IF v = w THEN {} ELSE held[v]
      BY <1>15 DEF UpdateLink, TypeOK
    <3> QED
      BY <1>a, <3>1 DEF IsOwed, OnePlace
  <2>5. Answered' => held[w] \cap PostedIncrements = {}
    BY <1>b, <2>2 DEF OwedUnposted, IsOwed
  <2> QED
    BY <1>3, <2>1, <2>2, <2>3, <2>4, <2>5 DEF Post
(* After a COMMIT whose answer is lost only NoneAhead is left to keep.     *)
<1>16. ASSUME NEW w \in Workers, UpdateRaises(w) PROVE CountInv'
  <2>1. CASE UNCHANGED <<row, posted>>
    BY <1>2, <1>16, <2>1 DEF UpdateRaises, IsOwed
  <2>2. CASE ~UNCHANGED <<row, posted>>
    <3>1. "commitReply" \in seen' /\ \E c \in Codes : Post(w, c)
      BY <1>16, <2>2 DEF UpdateRaises, Fault
    <3>2. \A p \in posted' \ posted : \E c \in Codes : p[2] = LinkOf(c)
      BY <3>1 DEF Post
    <3>3. NoneAhead'
      BY <1>a, <3>2, StepNoneAhead
    <3> QED
      BY <3>1, <3>3 DEF CountInv, Answered
  <2> QED
    BY <2>1, <2>2
(* The other steps of a flush move increments between counter and hands.   *)
<1>17. ASSUME NEW w \in Workers, GetDel(w) PROVE CountInv'
  <2>1. PICK c \in Codes : Take(w, c)
    BY <1>17 DEF GetDel
  <2>2. /\ \A d \in Codes : counter'[d] \subseteq counter[d]
        /\ \A v \in Workers : held'[v] \subseteq held[v] \cup counter[c]
    BY <2>1 DEF Take, TypeOK
  <2>3. \A i \in Increments : IsOwed(i)' => IsOwed(i)
    BY <2>2 DEF IsOwed
  <2> QED
    BY <1>2, <1>17, <2>3 DEF GetDel
<1>18. ASSUME NEW w \in Workers, Restore(w) PROVE CountInv'
  <2>1. PICK c \in Codes : AddToCounter(c, held[w])
    BY <1>18 DEF Restore
  <2>2. /\ \A d \in Codes : counter'[d] \subseteq counter[d] \cup held[w]
        /\ \A v \in Workers : held'[v] \subseteq held[v]
    BY <1>18, <2>1 DEF AddToCounter, Restore, TypeOK
  <2>3. \A i \in Increments : IsOwed(i)' => IsOwed(i)
    BY <2>2 DEF IsOwed
  <2> QED
    BY <1>2, <1>18, <2>3 DEF Restore
<1>19. ASSUME \A c \in Codes : counter'[c] \subseteq counter[c],
              \A w \in Workers : held'[w] \subseteq held[w],
              UNCHANGED <<row, posted>>
       PROVE  CountInv'
  BY <1>2, <1>19 DEF IsOwed
<1>20. ASSUME NEW w \in Workers, LinkNotFound(w) PROVE CountInv'
  BY <1>19, <1>20 DEF LinkNotFound, TypeOK
<1>21. ASSUME NEW w \in Workers, TaskFails(w) PROVE CountInv'
  BY <1>19, <1>21 DEF TaskFails, Abort, TypeOK
<1>22. ASSUME NEW w \in Workers, GetDelTimesOut(w) PROVE CountInv'
  BY <1>19, <1>22 DEF GetDelTimesOut, TypeOK
<1>23. ASSUME NEW c \in Codes, CounterExpires(c) PROVE CountInv'
  BY <1>19, <1>23 DEF CounterExpires, TypeOK
<1>24. ASSUME NEW w \in Workers,
              FlushStart(w) \/ FlushDone(w) \/ Enqueue(w) \/ EnqueueUnanswered(w)
                \/ CounterExists(w) \/ SetPending(w)
       PROVE  CountInv'
  BY <1>19, <1>24 DEF FlushStart, FlushDone, Enqueue, EnqueueUnanswered, CounterExists,
        SetPending
<1> QED
  BY <1>4, <1>5, <1>6, <1>7, <1>8, <1>10, <1>11, <1>13, <1>14, <1>15, <1>16, <1>17,
     <1>18, <1>20, <1>21, <1>22, <1>23, <1>24
  DEF Next, LinkStep, EditStep, ClickStep, WorkerStep, FlushStep

(* Whatever is flushed, restored, counted by the fallback or patched, and  *)
(* whatever fails but the answer to a COMMIT: click_count is the number of *)
(* increments posted to the link (_increment_link_click_count_by,          *)
(* increment_click_count).                                                 *)
THEOREM CountExactAlways == Spec => []CountExact
<1>1. CountInv => CountExact
  BY DEF CountInv, CountExact, Answered
<1> QED
  BY <1>1, TypeCorrect, InitLedgerInv, StepLedgerInv, InitCountInv, StepCountInv, PTL
  DEF Spec
-----------------------------------------------------------------------------
(***************************************************************************)
(* webhook_fired and its message.  A worker builds the event in the commit *)
(* that marks the row, and holds it only until it is enqueued, so nothing  *)
(* overwrites it.                                                          *)
(***************************************************************************)
EventInFlight == \A w \in Workers : pc[w] # "enqueue" => event[w] = {}

Delivering == seen \cap {"crash", "brokerError", "commitReply"} = {}

(* The event of the link of c is in the broker or with a worker.           *)
OnItsWay(c) ==
    \E e \in Events :
        /\ e.code = c /\ e.id = row[c].id
        /\ HasMessage(e)

FiredInv ==
    /\ EventInFlight
    /\ Delivering => \A c \in Codes : row[c].fired => OnItsWay(c)

LEMMA InitFiredInv == Init => FiredInv
  BY DEF Init, FiredInv, EventInFlight

(* What a step leaves of the messages: none is lost unless a hazard that   *)
(* Delivering rules out happens, and a new mark comes with its message.    *)
MessageStep ==
    /\ EventInFlight'
    /\ Delivering' => \A e \in Events : HasMessage(e) => HasMessage(e)'
    /\ Delivering' => \A c \in Codes : row'[c].fired =>
           \/ row[c].fired /\ row'[c].id = row[c].id
           \/ OnItsWay(c)'

LEMMA StepMessages ==
    TypeOK /\ TypeOK' /\ EventInFlight /\ [Next]_vars => MessageStep
<1> SUFFICES ASSUME TypeOK, TypeOK', EventInFlight, [Next]_vars
             PROVE  MessageStep
  OBVIOUS
<1> USE DEF stores, flush, history, failure, NoFault, Goto
<1>a. EventInFlight /\ \A c \in Codes : row[c] \in Row
  BY DEF TypeOK
<1>1. ASSUME EventInFlight',
             Delivering' => \A e \in Events :
                 HasMessage(e) => HasMessage(e)',
             Delivering' => \A c \in Codes : row'[c].fired =>
                 \/ row[c].fired /\ row'[c].id = row[c].id
                 \/ OnItsWay(c)'
      PROVE  MessageStep
  BY <1>1 DEF MessageStep
<1>2. ASSUME UNCHANGED <<event, queued>>,
             \A w \in Workers : pc'[w] # "enqueue" => event[w] = {},
             \A c \in Codes : row'[c].fired =>
                 row[c].fired /\ row'[c].id = row[c].id
      PROVE  MessageStep
  <2>1. EventInFlight'
    BY <1>2 DEF EventInFlight
  <2> QED
    BY <1>1, <1>2, <2>1 DEF HasMessage
<1>3. ASSUME UNCHANGED <<event, queued, pc>>,
             \A c \in Codes : row'[c].fired =>
                 row[c].fired /\ row'[c].id = row[c].id
      PROVE  MessageStep
  BY <1>2, <1>3, <1>a DEF EventInFlight
<1>4. CASE UNCHANGED vars
  BY <1>3, <1>4 DEF vars
<1>5. ASSUME NEW c \in Codes, NEW h \in Hooks, CreateLink(c, h) PROVE MessageStep
  BY <1>3, <1>5 DEF CreateLink, TypeOK
<1>6. ASSUME NEW c \in Codes, DeleteLink(c) PROVE MessageStep
  BY <1>a, <1>3, <1>6 DEF DeleteLink, TypeOK, Row
<1>7. ASSUME NEW e \in Editors, CommitUpdate(e) PROVE MessageStep
  <2>1. \A r \in Row : \A l : (Patched(r, l).fired => r.fired) /\ Patched(r, l).id = r.id
    BY DEF Patched, Row
  <2>2. \A c \in Codes : row'[c].fired => row[c].fired /\ row'[c].id = row[c].id
    BY <1>a, <1>7, <2>1 DEF CommitUpdate, TypeOK
  <2> QED
    BY <1>3, <1>7, <2>2 DEF CommitUpdate
<1>8. ASSUME NEW e \in Editors, NEW c \in Codes, NEW h \in Hooks, LoadForUpdate(e, c, h)
      PROVE  MessageStep
  BY <1>3, <1>8 DEF LoadForUpdate
<1>9. ASSUME NEW k \in Clicks, DirectIncrement(k)
      PROVE  \A c \in Codes : row'[c].fired => row[c].fired /\ row'[c].id = row[c].id
  <2> DEFINE d == click[k].code
  <2>1. row' = row \/ row' = [row EXCEPT ![d].count = @ + 1]
    BY <1>9 DEF DirectIncrement
  <2>2. d \in Codes
    BY DEF TypeOK, Request
  <2>3. row[d] \in Row
    BY <1>a, <2>2
  <2> DEFINE here == [row[d] EXCEPT !.count = @ + 1]
  <2>4. here.fired = row[d].fired /\ here.id = row[d].id
    BY <2>3 DEF Row
  <2>5. row' = row \/ row' = [row EXCEPT ![d] = here]
    BY <2>1
  <2> HIDE DEF d, here
  <2> QED
    BY <2>2, <2>4, <2>5 DEF TypeOK
<1>10. ASSUME NEW k \in Clicks, ClickStep(k) PROVE MessageStep
  <2>1. UNCHANGED <<event, queued, pc>>
    BY <1>10 DEF ClickStep, IncrementCounter, IncrementFails, IncrementTimesOut,
                 IncrementClickCount, IncrementClickCountFails
  <2>2. UNCHANGED row \/ DirectIncrement(k)
    BY <1>10 DEF ClickStep, IncrementCounter, IncrementFails, IncrementTimesOut,
                 IncrementClickCount, IncrementClickCountFails, AddToCounter
  <2> QED
    BY <1>3, <1>9, <2>1, <2>2
(* The commit of a flush marks a row only together with its event.         *)
<1>11. ASSUME NEW w \in Workers, UpdateLink(w) PROVE MessageStep
  <2>1. PICK c \in Codes : /\ Post(w, c)
                           /\ event' = [event EXCEPT ![w] =
                                Dispatch(c, row[c], Cardinality(held[w]))]
    BY <1>11 DEF UpdateLink
  <2> DEFINE n == Cardinality(held[w])
             built == [code |-> c, id |-> row[c].id, threshold |-> row[c].hook]
  <2>2. n \in Nat /\ row[c].live /\ row' = [row EXCEPT ![c] = Credited(row[c], n)]
    BY <2>1, IncrementsFinite DEF Post, TypeOK
  <2>3. Credited(row[c], n).id = row[c].id
    BY <1>a, <2>2, CreditedType
  <2>4. Credited(row[c], n).fired = (row[c].fired \/ Crosses(row[c], n))
    BY <1>a DEF Credited, Row
  <2>5. event[w] = {} /\ queued' = queued
        /\ pc' = [pc EXCEPT ![w] = IF event'[w] # {} THEN "enqueue" ELSE "exists"]
    BY <1>a, <1>11 DEF EventInFlight, UpdateLink
  <2>6. \A v \in Workers : v # w => event'[v] = event[v]
    BY <2>1 DEF TypeOK
  <2>7. EventInFlight'
    BY <1>a, <2>5, <2>6 DEF EventInFlight, TypeOK
  <2>8. \A e \in Events : (\E v \in Workers : e \in event[v]) =>
                          \E v \in Workers : e \in event'[v]
    BY <2>5, <2>6
  <2>9. Crosses(row[c], n) => OnItsWay(c)'
    <3> SUFFICES ASSUME Crosses(row[c], n) PROVE OnItsWay(c)'
      OBVIOUS
    <3>1. event' = [event EXCEPT ![w] = {built}]
      BY <2>1 DEF Dispatch
    <3>2. built \in event'[w]
      BY <3>1 DEF TypeOK
    <3>3. built \in Events
      BY <3>2 DEF TypeOK
    <3>4. row'[c].id = row[c].id
      BY <2>2, <2>3 DEF TypeOK
    <3>5. built.code = c /\ built.id = row[c].id
      OBVIOUS
    <3> HIDE DEF built
    <3> QED
      BY <3>2, <3>3, <3>4, <3>5 DEF OnItsWay, HasMessage
  <2>10. \A d \in Codes : row'[d].fired =>
            \/ row[d].fired /\ row'[d].id = row[d].id
            \/ OnItsWay(d)'
    <3> SUFFICES ASSUME NEW d \in Codes, row'[d].fired
                 PROVE  \/ row[d].fired /\ row'[d].id = row[d].id
                        \/ OnItsWay(d)'
      OBVIOUS
    <3>1. CASE d # c
      BY <2>2, <3>1 DEF TypeOK
    <3>2. CASE d = c
      <4>1. row'[c] = Credited(row[c], n)
        BY <2>2 DEF TypeOK
      <4> HIDE DEF n
      <4>2. row[c].fired \/ Crosses(row[c], n)
        BY <2>4, <3>2, <4>1
      <4> QED
        BY <2>3, <2>9, <3>2, <4>1, <4>2
    <3> QED
      BY <3>1, <3>2
  <2> QED
    BY <1>1, <2>5, <2>7, <2>8, <2>10 DEF HasMessage
<1>12. ASSUME NEW w \in Workers, Enqueue(w) \/ EnqueueUnanswered(w) PROVE MessageStep
  <2>1. \A v \in Workers : event'[v] = IF v = w THEN {} ELSE event[v]
    BY <1>12 DEF Enqueue, EnqueueUnanswered, TypeOK
  <2>2. EventInFlight'
    BY <1>a, <1>12, <2>1 DEF Enqueue, EnqueueUnanswered, EventInFlight, TypeOK
  <2>3. PICK n \in 1 .. 2 : Published(w, n)
    BY <1>12 DEF Enqueue, EnqueueUnanswered
  <2>4. \A e \in Events : queued[e] \in Nat
    BY DEF TypeOK
  <2>5. \A e \in Events : queued'[e] = IF e \in event[w] THEN queued[e] + n ELSE queued[e]
    BY <2>3 DEF Published
  <2>6. UNCHANGED row
    BY <1>12 DEF Enqueue, EnqueueUnanswered
  <2>7. \A e \in Events : HasMessage(e) => HasMessage(e)'
    BY <2>1, <2>4, <2>5 DEF HasMessage
  <2> QED
    BY <1>1, <2>2, <2>6, <2>7
(* A transaction that raised marks nothing, or its answer was lost.        *)
<1>13. ASSUME NEW w \in Workers, UpdateRaises(w) PROVE MessageStep
  <2>1. UNCHANGED <<event, queued>> /\ event[w] = {}
        /\ \A v \in Workers : v # w => pc'[v] = pc[v]
    BY <1>a, <1>13 DEF UpdateRaises, EventInFlight, TypeOK
  <2>2. EventInFlight'
    BY <1>a, <2>1 DEF EventInFlight
  <2>3. Delivering' => UNCHANGED row
    BY <1>13 DEF UpdateRaises, Fault, Delivering
  <2> QED
    BY <1>1, <2>1, <2>2, <2>3 DEF HasMessage
(* The task dies: with its event only where the broker refused, or in a    *)
(* crash.                                                                  *)
<1>14. ASSUME NEW w \in Workers, TaskFails(w) PROVE MessageStep
  <2>1. \A v \in Workers : event'[v] = IF v = w THEN {} ELSE event[v]
    BY <1>14 DEF TaskFails, Abort, TypeOK
  <2>2. UNCHANGED <<row, queued>> /\ \A v \in Workers : v # w => pc'[v] = pc[v]
    BY <1>14 DEF TaskFails, Abort, TypeOK
  <2>3. EventInFlight'
    BY <1>a, <2>1, <2>2 DEF EventInFlight
  <2>4. Delivering' => event[w] = {}
    BY <1>a, <1>14 DEF TaskFails, Fault, Delivering, EventInFlight
  <2> QED
    BY <1>1, <2>1, <2>2, <2>3, <2>4 DEF HasMessage
<1>15. ASSUME NEW w \in Workers,
              FlushStart(w) \/ FlushDone(w) \/ GetDel(w) \/ LinkNotFound(w)
                \/ Restore(w) \/ CounterExists(w) \/ SetPending(w) \/ GetDelTimesOut(w)
       PROVE  MessageStep
  <2>1. UNCHANGED <<row, event, queued>> /\ pc[w] # "enqueue"
    BY <1>15 DEF FlushStart, FlushDone, GetDel, LinkNotFound, Restore, AddToCounter,
                 CounterExists, SetPending, GetDelTimesOut
  <2>2. \A v \in Workers : v # w => pc'[v] = pc[v]
    BY <1>15 DEF FlushStart, FlushDone, GetDel, LinkNotFound, Restore, CounterExists,
                 SetPending, GetDelTimesOut, TypeOK
  <2>3. \A v \in Workers : pc'[v] # "enqueue" => event[v] = {}
    BY <1>a, <2>1, <2>2 DEF EventInFlight
  <2> QED
    BY <1>2, <2>1, <2>3
<1>16. ASSUME NEW c \in Codes, CounterExpires(c) PROVE MessageStep
  BY <1>3, <1>16 DEF CounterExpires
<1> QED
  BY <1>4, <1>5, <1>6, <1>7, <1>8, <1>10, <1>11, <1>12, <1>13, <1>14, <1>15, <1>16
  DEF Next, LinkStep, EditStep, WorkerStep, FlushStep

LEMMA StepFiredInv == TypeOK /\ TypeOK' /\ FiredInv /\ [Next]_vars => FiredInv'
<1> SUFFICES ASSUME TypeOK, TypeOK', FiredInv, [Next]_vars
             PROVE  FiredInv'
  OBVIOUS
<1>1. EventInFlight /\ MessageStep
  BY StepMessages DEF FiredInv
<1>2. Delivering' => \A c \in Codes : row[c].fired => OnItsWay(c)
  BY SeenGrows DEF FiredInv, Delivering
<1> SUFFICES ASSUME Delivering', NEW c \in Codes, row'[c].fired
             PROVE  OnItsWay(c)'
  BY <1>1 DEF FiredInv, MessageStep
<1>3. CASE OnItsWay(c)'
  BY <1>3
<1>4. CASE row[c].fired /\ row'[c].id = row[c].id
  <2>1. PICK e \in Events : e.code = c /\ e.id = row[c].id /\ HasMessage(e)
    BY <1>2, <1>4 DEF OnItsWay
  <2>2. HasMessage(e)'
    BY <1>1, <2>1 DEF MessageStep
  <2> QED
    BY <1>4, <2>1, <2>2 DEF OnItsWay
<1> QED
  BY <1>1, <1>3, <1>4 DEF MessageStep

(* A link is marked only with a message in the broker or in the hands of   *)
(* the worker that marked it, unless that worker lost it after its commit  *)
(* (_increment_link_click_count_by, _enqueue_webhook_dispatch).            *)
THEOREM FiredHasEventAlways == Spec => []FiredHasEvent
<1>1. FiredInv => FiredHasEvent
  BY DEF FiredInv, FiredHasEvent, Delivering, OnItsWay
<1> QED
  BY <1>1, TypeCorrect, InitFiredInv, StepFiredInv, PTL DEF Spec
-----------------------------------------------------------------------------
(***************************************************************************)
(* The threshold is not passed unnoticed - while no PATCH is under way.    *)
(* The crossing test asks for `old < threshold', so a row found at its     *)
(* threshold and not marked is never marked: none is left behind, because  *)
(* a new link starts below every threshold and each flush that reaches it  *)
(* marks it.  The fallback of a redirect raises click_count without        *)
(* looking; it runs only after an INCR that failed.                        *)
(***************************************************************************)
Unedited == \A e \in Editors : edit[e].step = "idle"

InRedis == seen \cap {"incrError", "incrReply"} = {}

Noticed(r) == r.live /\ r.hook # NoHook /\ r.count >= r.hook => r.fired

ThresholdInv ==
    InRedis => /\ \A k \in Clicks : click[k].step # "fallback"
               /\ \A c \in Codes : Noticed(row[c])

LEMMA InitThresholdInv == Init => ThresholdInv
<1> SUFFICES ASSUME Init PROVE ThresholdInv
  OBVIOUS
<1>1. \A k \in Clicks : click[k].step = "new"
  BY DEF Init
<1>2. \A c \in Codes : row[c].live = FALSE
  BY DEF Init
<1> QED
  BY <1>1, <1>2 DEF ThresholdInv, Noticed

(* A flush keeps the row's threshold and marks the row that reaches it.    *)
LEMMA CreditedNoticed ==
    ASSUME NEW r \in Row, NEW n \in Nat, Noticed(r)
    PROVE  Noticed(Credited(r, n))
<1>1. /\ Credited(r, n).live = r.live /\ Credited(r, n).count = r.count + n
      /\ Credited(r, n).hook = r.hook
      /\ Credited(r, n).fired = (r.fired \/ Crosses(r, n))
  <2>1. Credited(r, n).hook = r.hook
    BY DEF Credited, Row
  <2>2. Credited(r, n).fired = (r.fired \/ Crosses(r, n))
    BY DEF Credited, Row
  <2> QED
    BY <2>1, <2>2, CreditedType
<1>2. r.count \in Nat /\ (r.hook # NoHook => r.hook \in Nat)
  BY RowNumbers
<1>3. ASSUME r.live, r.hook # NoHook, r.count + n >= r.hook
      PROVE  r.fired \/ Crosses(r, n)
  <2>1. CASE r.count >= r.hook
    BY <1>3, <2>1 DEF Noticed
  <2>2. CASE r.count < r.hook
    BY <1>2, <1>3, <2>2 DEF Crosses
  <2> QED
    BY <1>2, <1>3, <2>1, <2>2
<1> HIDE DEF Credited
<1> QED
  BY <1>1, <1>3 DEF Noticed

LEMMA StepThresholdInv ==
    TypeOK /\ Unedited /\ ThresholdInv /\ [Next]_vars => ThresholdInv'
<1> SUFFICES ASSUME TypeOK, Unedited, ThresholdInv, [Next]_vars, InRedis'
             PROVE  /\ \A k \in Clicks : click'[k].step # "fallback"
                    /\ \A c \in Codes : Noticed(row'[c])
  BY DEF ThresholdInv, Noticed
<1> USE DEF stores, flush, history, failure, NoFault
<1>a. /\ \A k \in Clicks : click[k].step # "fallback"
      /\ \A c \in Codes : Noticed(row[c]) /\ row[c] \in Row
  BY SeenGrows DEF ThresholdInv, InRedis, TypeOK
<1>1. CASE UNCHANGED <<row, click>>
  BY <1>1, <1>a
<1>2. ASSUME NEW c \in Codes, NEW h \in Hooks, CreateLink(c, h)
      PROVE  UNCHANGED click /\ \A d \in Codes : Noticed(row'[d])
  <2> DEFINE new == [live |-> TRUE, id |-> row[c].id + 1, count |-> 0,
                     hook |-> h, fired |-> FALSE]
  <2>1. new.hook = h /\ new.count = 0
    OBVIOUS
  <2>2. h # NoHook => h \in Nat \ {0}
    BY HookAssumption DEF Hooks
  <2>3. ~(h # NoHook /\ 0 >= h)
    BY <2>2
  <2>4. row' = [row EXCEPT ![c] = new]
    BY <1>2 DEF CreateLink
  <2> HIDE DEF new
  <2>5. Noticed(new)
    BY <2>1, <2>3 DEF Noticed
  <2>6. \A d \in Codes : row'[d] = IF d = c THEN new ELSE row[d]
    BY <2>4 DEF TypeOK
  <2> QED
    BY <1>2, <1>a, <2>5, <2>6 DEF CreateLink
<1>3. ASSUME NEW c \in Codes, DeleteLink(c)
      PROVE  UNCHANGED click /\ \A d \in Codes : Noticed(row'[d])
  <2>1. row'[c].live = FALSE /\ \A d \in Codes : d # c => row'[d] = row[d]
    BY <1>3, <1>a DEF DeleteLink, TypeOK, Row
  <2> QED
    BY <1>3, <1>a, <2>1 DEF DeleteLink, Noticed
<1>4. ~EditStep
  BY DEF EditStep, CommitUpdate, Unedited
<1>5. ASSUME NEW k \in Clicks, ClickStep(k)
      PROVE  UNCHANGED row /\ \A j \in Clicks : click'[j].step # "fallback"
  <2>1. IncrementCounter(k)
    BY <1>5, <1>a DEF ClickStep, IncrementFails, IncrementTimesOut, Fault, InRedis,
                      IncrementClickCount, IncrementClickCountFails
  <2> QED
    BY <1>a, <2>1 DEF IncrementCounter, Redirected, AddToCounter, TypeOK, Request
<1>6. ASSUME NEW w \in Workers, NEW c \in Codes, Post(w, c)
      PROVE  \A d \in Codes : Noticed(row'[d])
  <2> DEFINE r == Credited(row[c], Cardinality(held[w]))
  <2>1. Cardinality(held[w]) \in Nat
    BY IncrementsFinite DEF TypeOK
  <2>2. Noticed(r)
    BY <1>a, <2>1, CreditedNoticed
  <2>3. row' = [row EXCEPT ![c] = r]
    BY <1>6 DEF Post
  <2> HIDE DEF r
  <2>4. \A d \in Codes : row'[d] = IF d = c THEN r ELSE row[d]
    BY <2>3 DEF TypeOK
  <2> QED
    BY <1>a, <2>2, <2>4
<1>7. ASSUME NEW w \in Workers, WorkerStep(w)
      PROVE  UNCHANGED click /\ \A c \in Codes : Noticed(row'[c])
  <2>1. UNCHANGED click
    BY <1>7 DEF WorkerStep, FlushStep, FlushStart, FlushDone, GetDel, UpdateLink,
                LinkNotFound, Restore, Enqueue, CounterExists, SetPending,
                UpdateRaises, TaskFails, Abort, GetDelTimesOut,
                EnqueueUnanswered
  <2>2. UNCHANGED row \/ \E c \in Codes : Post(w, c)
    BY <1>7 DEF WorkerStep, FlushStep, FlushStart, FlushDone, GetDel, UpdateLink,
                LinkNotFound, Restore, Enqueue, CounterExists, SetPending,
                UpdateRaises, TaskFails, Abort, GetDelTimesOut,
                EnqueueUnanswered
  <2> QED
    BY <1>6, <1>a, <2>1, <2>2
<1>8. ASSUME NEW e \in Editors, NEW c \in Codes, NEW h \in Hooks, LoadForUpdate(e, c, h)
      PROVE  UNCHANGED <<row, click>>
  BY <1>8 DEF LoadForUpdate
<1>9. ASSUME NEW c \in Codes, CounterExpires(c)
      PROVE  UNCHANGED <<row, click>>
  BY <1>9 DEF CounterExpires
<1>10. CASE UNCHANGED vars
  BY <1>1, <1>10 DEF vars
<1>11. CASE UNCHANGED click /\ \A c \in Codes : Noticed(row'[c])
  BY <1>11, <1>a
<1>12. CASE UNCHANGED row /\ \A j \in Clicks : click'[j].step # "fallback"
  BY <1>12, <1>a
<1> QED
  BY <1>1, <1>2, <1>3, <1>4, <1>5, <1>7, <1>8, <1>9, <1>10, <1>11, <1>12
  DEF Next, LinkStep

(* Where no PATCH moves the threshold and every redirect is counted in     *)
(* Redis, no link has reached its threshold without being marked: however  *)
(* many flushes overlap, fail and are retried, in any order.               *)
THEOREM FiredAtThresholdAlways == Spec /\ []Unedited => []FiredAtThreshold
<1>1. ThresholdInv => FiredAtThreshold
  BY DEF ThresholdInv, FiredAtThreshold, InRedis, Noticed
<1> QED
  BY <1>1, TypeCorrect, InitThresholdInv, StepThresholdInv, PTL DEF Spec
=============================================================================
