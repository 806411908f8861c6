---------------------------- MODULE CountingProofs ----------------------------
(***************************************************************************)
(* ClickCounter implements ClickLedger, and what a restart of Redis costs, *)
(* for every value of the constants.                                       *)
(*                                                                         *)
(* Every step of ClickCounter is shown to be a step of the ledger or to    *)
(* leave it alone: an increment is accepted once, is owed to one code      *)
(* while it travels between counter and workers, and leaves the debt with  *)
(* the posting of its flush, with a link that is gone, or with a listed    *)
(* loss.  A restart brings back the counters of a snapshot; what they hold *)
(* was accepted before, and returns once.                                  *)
(***************************************************************************)
EXTENDS ClickCounterLedger, ClickCounterRestart, ClickCounterProofs

(***************************************************************************)
(* What is known: the increments accepted so far.                          *)
(***************************************************************************)
Known == Owed \cup PostedIncrements \cup dropped \cup lost

LEMMA InOwed ==
    ASSUME TypeOK, NEW i
    PROVE  i \in Owed <=> IsOwed(i)
  BY DEF TypeOK, Owed, IsOwed

LEMMA InOwedAfter ==
    ASSUME TypeOK', NEW i
    PROVE  i \in Owed' <=> IsOwed(i)'
  BY DEF TypeOK, Owed, IsOwed

(* A step that is not a redirect's accepts nothing and forgets nothing.    *)
LEMMA OthersKnown ==
    ASSUME TypeOK, TypeOK', LedgerInv, [Next]_vars,
           ~\E k \in Clicks : ClickStep(k)
    PROVE  Known' = Known
<1> USE DEF stores, flush, history, failure, NoFault, Goto
<1>a. HeldInFlight
  BY DEF LedgerInv
<1>1. ASSUME UNCHANGED <<counter, held, posted, dropped, lost>> PROVE Known' = Known
  BY <1>1 DEF Known, Owed, IsOwed, PostedIncrements
<1>2. CASE LinkStep \/ EditStep \/ UNCHANGED vars
  BY <1>1, <1>2
  DEF LinkStep, EditStep, CreateLink, DeleteLink, LoadForUpdate, CommitUpdate, vars
<1>3. ASSUME NEW w \in Workers,
             FlushStart(w) \/ FlushDone(w) \/ Enqueue(w) \/ EnqueueUnanswered(w)
               \/ CounterExists(w) \/ SetPending(w)
      PROVE  Known' = Known
  BY <1>1, <1>3 DEF FlushStart, FlushDone, Enqueue, EnqueueUnanswered, CounterExists,
        SetPending
<1>4. ASSUME \A i : IsOwed(i)' <=> IsOwed(i), UNCHANGED <<posted, dropped, lost>>
      PROVE  Known' = Known
  BY <1>4 DEF Known, Owed, PostedIncrements
<1>5. ASSUME NEW w \in Workers, GetDel(w) PROVE Known' = Known
  <2>1. PICK c \in Codes : Take(w, c)
    BY <1>5 DEF GetDel
  <2>2. held[w] = {}
    BY <1>5, <1>a DEF GetDel, HeldInFlight
  <2>3. /\ \A d \in Codes : counter'[d] = IF d = c THEN {} ELSE counter[d]
        /\ \A v \in Workers : held'[v] = IF v = w THEN counter[c] ELSE held[v]
    BY <2>1 DEF Take, TypeOK
  <2>4. \A i : IsOwed(i)' <=> IsOwed(i)
    BY <2>2, <2>3 DEF IsOwed
  <2> QED
    BY <1>4, <1>5, <2>4 DEF GetDel
<1>6. ASSUME NEW w \in Workers, Restore(w) PROVE Known' = Known
  <2>1. PICK c \in Codes : AddToCounter(c, held[w])
    BY <1>6 DEF Restore
  <2>2. /\ \A d \in Codes : counter'[d] = IF d = c THEN counter[d] \cup held[w]
                                                    ELSE counter[d]
        /\ \A v \in Workers : held'[v] = IF v = w THEN {} ELSE held[v]
    BY <1>6, <2>1 DEF AddToCounter, Restore, TypeOK
  <2>3. \A i : IsOwed(i)' <=> IsOwed(i)
    BY <2>2 DEF IsOwed
  <2> QED
    BY <1>4, <1>6, <2>3 DEF Restore
(* What a worker gives away or loses is on record elsewhere.               *)
<1>7. ASSUME NEW w \in Workers, UpdateLink(w) \/ LinkNotFound(w) PROVE Known' = Known
  <2>1. /\ UNCHANGED <<counter, lost>>
        /\ \A v \in Workers : held'[v] = IF v = w THEN {} ELSE held[v]
    BY <1>7 DEF UpdateLink, LinkNotFound, TypeOK
  <2>2. \/ PostedIncrements' = PostedIncrements \cup held[w] /\ dropped' = dropped
        \/ PostedIncrements' = PostedIncrements /\ dropped' = dropped \cup held[w]
    BY <1>7, PostedHeld DEF UpdateLink, LinkNotFound, Post, PostedIncrements
  <2>3. \A i : (IsOwed(i)' \/ i \in held[w]) <=> IsOwed(i)
    BY <2>1 DEF IsOwed
  <2>4. \A i : i \in Known' <=> i \in Known
    BY <2>1, <2>2, <2>3, InOwed, InOwedAfter DEF Known
  <2> QED
    BY <2>4
<1>8. ASSUME NEW w \in Workers, UpdateRaises(w) PROVE Known' = Known
  <2>1. UNCHANGED <<counter, held, dropped, lost>>
    BY <1>8 DEF UpdateRaises
  <2>2. \/ PostedIncrements' = PostedIncrements \cup held[w]
        \/ PostedIncrements' = PostedIncrements
    BY <1>8, PostedHeld DEF UpdateRaises, Post, PostedIncrements
  <2>3. \A i : (i \in held[w] => IsOwed(i)) /\ (IsOwed(i)' <=> IsOwed(i))
    BY <2>1 DEF IsOwed
  <2>4. \A i : i \in Known' <=> i \in Known
    BY <2>1, <2>2, <2>3, InOwed, InOwedAfter DEF Known
  <2> QED
    BY <2>4
<1>9. ASSUME NEW S, UNCHANGED <<posted, dropped>>,
             \A i : (IsOwed(i)' \/ i \in S) <=> IsOwed(i),
             lost' = lost \cup (S \ PostedIncrements)
      PROVE  Known' = Known
  <2>1. PostedIncrements' = PostedIncrements
    BY <1>9 DEF PostedIncrements
  <2>2. \A i : i \in Known' <=> i \in Known
    BY <1>9, <2>1, InOwed, InOwedAfter DEF Known
  <2> QED
    BY <2>2
<1>10. ASSUME NEW w \in Workers, TaskFails(w) PROVE Known' = Known
  <2>1. /\ UNCHANGED <<counter, posted, dropped>>
        /\ lost' = lost \cup (held[w] \ PostedIncrements)
        /\ \A v \in Workers : held'[v] = IF v = w THEN {} ELSE held[v]
    BY <1>10 DEF TaskFails, Abort, TypeOK
  <2>2. \A i : (IsOwed(i)' \/ i \in held[w]) <=> IsOwed(i)
    BY <2>1 DEF IsOwed
  <2> QED
    BY <1>9, <2>1, <2>2
<1>11. ASSUME NEW c \in Codes, counter' = [counter EXCEPT ![c] = {}],
              lost' = lost \cup (counter[c] \ PostedIncrements),
              UNCHANGED <<held, posted, dropped>>
       PROVE  Known' = Known
  <2>1. \A d \in Codes : counter'[d] = IF d = c THEN {} ELSE counter[d]
    BY <1>11 DEF TypeOK
  <2>2. \A i : (IsOwed(i)' \/ i \in counter[c]) <=> IsOwed(i)
    BY <1>11, <2>1 DEF IsOwed
  <2> QED
    BY <1>9, <1>11, <2>2
<1>12. ASSUME NEW w \in Workers, GetDelTimesOut(w) PROVE Known' = Known
  BY <1>11, <1>12 DEF GetDelTimesOut
<1>13. ASSUME NEW c \in Codes, CounterExpires(c) PROVE Known' = Known
  BY <1>11, <1>13 DEF CounterExpires
<1> QED
  BY <1>2, <1>3, <1>5, <1>6, <1>7, <1>8, <1>10, <1>12, <1>13
  DEF Next, WorkerStep, FlushStep

(* A redirect accepts its own increments.                                  *)
LEMMA ClickKnown ==
    ASSUME TypeOK, TypeOK', NEW k \in Clicks, NEW S \in SUBSET Increments,
           UNCHANGED <<held, lost>>,
           \/ /\ AddToCounter(click[k].code, S)
              /\ UNCHANGED <<posted, dropped>>
           \/ /\ counter' = counter
              /\ \/ PostedIncrements' = PostedIncrements \cup S /\ dropped' = dropped
                 \/ PostedIncrements' = PostedIncrements /\ dropped' = dropped \cup S
    PROVE  Known' = Known \cup S
<1>1. click[k].code \in Codes
  BY DEF TypeOK, Request
<1>2. CASE AddToCounter(click[k].code, S) /\ UNCHANGED <<posted, dropped>>
  <2>1. \A d \in Codes : counter'[d] = IF d = click[k].code THEN counter[d] \cup S
                                                            ELSE counter[d]
    BY <1>2 DEF AddToCounter, TypeOK
  <2>2. \A i : IsOwed(i)' <=> (IsOwed(i) \/ i \in S)
    BY <1>1, <2>1 DEF IsOwed
  <2>3. PostedIncrements' = PostedIncrements
    BY <1>2 DEF PostedIncrements
  <2>4. \A i : i \in Known' <=> i \in Known \cup S
    BY <1>2, <2>2, <2>3, InOwed, InOwedAfter DEF Known
  <2> QED
    BY <2>4
<1>3. CASE /\ counter' = counter
           /\ \/ PostedIncrements' = PostedIncrements \cup S /\ dropped' = dropped
              \/ PostedIncrements' = PostedIncrements /\ dropped' = dropped \cup S
  <2>1. \A i : IsOwed(i)' <=> IsOwed(i)
    BY <1>3 DEF IsOwed
  <2>2. \A i : i \in Known' <=> i \in Known \cup S
    BY <1>3, <2>1, InOwed, InOwedAfter DEF Known
  <2> QED
    BY <2>2
<1> QED
  BY <1>2, <1>3

(***************************************************************************)
(* Before a redirect is counted nothing is known of it.  A redirect that   *)
(* goes on to the fallback may have been counted already, by an INCR whose *)
(* reply was lost: but never by the fallback itself.                       *)
(***************************************************************************)
Unknown(k) == \A i \in Increments : i[1] = k => i \notin Known

KnownInv ==
    \A k \in Clicks :
        /\ click[k].step = "new" => Unknown(k)
        /\ click[k].step = "fallback" =>
               /\ <<k, "update">> \notin Known
               /\ "incrReply" \notin seen => Unknown(k)

LEMMA InitKnownInv == Init => KnownInv
<1> SUFFICES ASSUME Init PROVE KnownInv
  OBVIOUS
<1>1. \A k \in Clicks : click[k].step = "new"
  BY DEF Init
<1>2. Known = {}
  BY DEF Init, Known, Owed, IsOwed, PostedIncrements
<1> QED
  BY <1>1, <1>2 DEF KnownInv, Unknown

(* The increments a redirect accepts in a step, and what becomes of it.    *)
LEMMA ClickEffect ==
    ASSUME TypeOK, TypeOK', NEW k \in Clicks, ClickStep(k)
    PROVE  \E S \in SUBSET {<<k, "incr">>, <<k, "resent">>, <<k, "update">>} :
               /\ Known' = Known \cup S
               /\ click[k].step \in {"new", "fallback"} /\ click'[k].step # "new"
               /\ \A j \in Clicks : j # k => click'[j] = click[j]
               /\ click'[k].step = "fallback" =>
                      /\ click[k].step = "new"
                      /\ <<k, "update">> \notin S
                      /\ "incrReply" \notin seen' => S = {}
               /\ click'[k].step = "done" => S # {}
               /\ \A i : IsOwed(i)' => IsOwed(i) \/ (i \in S /\ i[2] # "update")
               /\ PostedIncrements' \subseteq PostedIncrements \cup S
               /\ "incrReply" \notin seen' => \A i, j \in S : i = j
<1> USE DEF stores, flush, history, failure, NoFault
<1>a. /\ <<k, "incr">> \in Increments /\ <<k, "resent">> \in Increments
      /\ <<k, "update">> \in Increments
  BY SentIncrements
<1>b. click[k] \in Request /\ click \in [Clicks -> Request]
  BY DEF TypeOK
<1>1. ASSUME NEW step, Redirected(k, step)
      PROVE  /\ click[k].step = "new" /\ click'[k].step = step
             /\ \A j \in Clicks : j # k => click'[j] = click[j]
  BY <1>1, <1>b DEF Redirected, Request
<1>c. ASSUME NEW S \in SUBSET {<<k, "incr">>, <<k, "resent">>},
             AddToCounter(click[k].code, S), UNCHANGED <<held, posted>>
      PROVE  /\ \A i : IsOwed(i)' => IsOwed(i) \/ (i \in S /\ i[2] # "update")
             /\ PostedIncrements' \subseteq PostedIncrements \cup S
  <2>1. \A d \in Codes : counter'[d] \subseteq counter[d] \cup S
    BY <1>c DEF AddToCounter, TypeOK
  <2>2. \A i \in S : i[2] # "update"
    OBVIOUS
  <2> QED
    BY <1>c, <2>1, <2>2 DEF IsOwed, PostedIncrements
<1>d. ASSUME UNCHANGED <<counter, held>>
      PROVE  \A i : IsOwed(i)' => IsOwed(i)
  BY <1>d DEF IsOwed
<1>2. CASE IncrementCounter(k)
  <2>1. Known' = Known \cup {<<k, "incr">>}
    BY <1>2, <1>a, ClickKnown DEF IncrementCounter
  <2>2. Redirected(k, "done")
    BY <1>2 DEF IncrementCounter
  <2>3. /\ click[k].step = "new" /\ click'[k].step = "done"
        /\ \A j \in Clicks : j # k => click'[j] = click[j]
    BY <1>1, <2>2
  <2>4. /\ {<<k, "incr">>} \in SUBSET {<<k, "incr">>, <<k, "resent">>, <<k, "update">>}
        /\ {<<k, "incr">>} \in SUBSET {<<k, "incr">>, <<k, "resent">>}
        /\ {<<k, "incr">>} # {}
        /\ \A i, j \in {<<k, "incr">>} : i = j
    OBVIOUS
  <2>5. /\ \A i : IsOwed(i)' => IsOwed(i) \/ (i \in {<<k, "incr">>} /\ i[2] # "update")
        /\ PostedIncrements' \subseteq PostedIncrements \cup {<<k, "incr">>}
    BY <1>2, <1>c, <2>4 DEF IncrementCounter
  <2> QED
    BY <2>1, <2>3, <2>4, <2>5
<1>3. CASE IncrementFails(k)
  <2>1. Known' = Known \cup {}
    BY <1>3 DEF IncrementFails, Known, Owed, IsOwed, PostedIncrements
  <2>2. Redirected(k, "fallback")
    BY <1>3 DEF IncrementFails
  <2>3. /\ click[k].step = "new" /\ click'[k].step = "fallback"
        /\ \A j \in Clicks : j # k => click'[j] = click[j]
    BY <1>1, <2>2
  <2>4. (\A i : IsOwed(i)' => IsOwed(i)) /\ PostedIncrements' = PostedIncrements
    BY <1>3, <1>d DEF IncrementFails, PostedIncrements
  <2> WITNESS {} \in SUBSET {<<k, "incr">>, <<k, "resent">>, <<k, "update">>}
  <2> QED
    BY <2>1, <2>3, <2>4
<1>4. CASE IncrementTimesOut(k)
  <2>1. PICK S \in {{<<k, "incr">>}, {<<k, "incr">>, <<k, "resent">>}} :
            AddToCounter(click[k].code, S)
    BY <1>4 DEF IncrementTimesOut
  <2>2. S \in SUBSET Increments /\ UNCHANGED <<held, lost, posted, dropped>>
    BY <1>4, <1>a DEF IncrementTimesOut
  <2>3. Known' = Known \cup S
    BY <2>1, <2>2, ClickKnown
  <2>4. PICK step \in {"done", "fallback"} : Redirected(k, step)
    BY <1>4 DEF IncrementTimesOut
  <2>5. "incrReply" \in seen'
    BY <1>4 DEF IncrementTimesOut, Fault
  <2>6. <<k, "update">> \notin S /\ S # {} /\ S \in SUBSET {<<k, "incr">>, <<k, "resent">>}
    OBVIOUS
  <2>7. /\ \A i : IsOwed(i)' => IsOwed(i) \/ (i \in S /\ i[2] # "update")
        /\ PostedIncrements' \subseteq PostedIncrements \cup S
    BY <2>1, <2>2, <2>6, <1>c
  <2>8. /\ click[k].step = "new" /\ click'[k].step \in {"done", "fallback"}
        /\ \A j \in Clicks : j # k => click'[j] = click[j]
    BY <1>1, <2>4
  <2>9. S \in SUBSET {<<k, "incr">>, <<k, "resent">>, <<k, "update">>}
    BY <2>6
  <2> WITNESS S \in SUBSET {<<k, "incr">>, <<k, "resent">>, <<k, "update">>}
  <2> QED
    BY <2>3, <2>5, <2>6, <2>7, <2>8
<1>5. ASSUME UNCHANGED <<counter, held, lost>>, DirectIncrement(k)
      PROVE  /\ Known' = Known \cup {<<k, "update">>}
             /\ PostedIncrements' \subseteq PostedIncrements \cup {<<k, "update">>}
  <2>1. \/ PostedIncrements' = PostedIncrements \cup {<<k, "update">>}
           /\ dropped' = dropped
        \/ PostedIncrements' = PostedIncrements
           /\ dropped' = dropped \cup {<<k, "update">>}
    BY <1>5, PostedOne DEF DirectIncrement, PostedIncrements
  <2> QED
    BY <1>5, <1>a, <2>1, ClickKnown
<1>6. CASE IncrementClickCount(k)
  <2>1. /\ Known' = Known \cup {<<k, "update">>}
        /\ PostedIncrements' \subseteq PostedIncrements \cup {<<k, "update">>}
        /\ \A i : IsOwed(i)' => IsOwed(i)
    BY <1>5, <1>6, <1>d DEF IncrementClickCount
  <2>2. click[k].step = "fallback" /\ click'[k].step = "done"
        /\ \A j \in Clicks : j # k => click'[j] = click[j]
    BY <1>6, <1>b DEF IncrementClickCount, Request
  <2>3. {<<k, "update">>} # {} /\ \A i, j \in {<<k, "update">>} : i = j
    OBVIOUS
  <2> WITNESS {<<k, "update">>} \in SUBSET {<<k, "incr">>, <<k, "resent">>, <<k, "update">>}
  <2> QED
    BY <2>1, <2>2, <2>3
<1>7. CASE IncrementClickCountFails(k)
  <2>1. UNCHANGED <<counter, held, lost>>
        /\ (DirectIncrement(k) \/ UNCHANGED <<posted, dropped>>)
    BY <1>7 DEF IncrementClickCountFails
  <2>2. /\ \/ Known' = Known \cup {<<k, "update">>}
              /\ PostedIncrements' \subseteq PostedIncrements \cup {<<k, "update">>}
           \/ Known' = Known \cup {} /\ PostedIncrements' = PostedIncrements
        /\ \A i : IsOwed(i)' => IsOwed(i)
    BY <1>5, <1>d, <2>1 DEF Known, Owed, IsOwed, PostedIncrements
  <2>3. click[k].step = "fallback" /\ click'[k].step = "failed"
        /\ \A j \in Clicks : j # k => click'[j] = click[j]
    BY <1>7, <1>b DEF IncrementClickCountFails, Request
  <2>4. PICK S \in {{}, {<<k, "update">>}} :
            Known' = Known \cup S /\ PostedIncrements' \subseteq PostedIncrements \cup S
    BY <2>2
  <2>5. S \in SUBSET {<<k, "incr">>, <<k, "resent">>, <<k, "update">>}
        /\ \A i, j \in S : i = j
    BY <2>4
  <2> WITNESS S \in SUBSET {<<k, "incr">>, <<k, "resent">>, <<k, "update">>}
  <2> QED
    BY <2>2, <2>3, <2>4, <2>5
<1> QED
  BY <1>2, <1>3, <1>4, <1>6, <1>7 DEF ClickStep

LEMMA StepKnownInv ==
    TypeOK /\ TypeOK' /\ LedgerInv /\ KnownInv /\ [Next]_vars => KnownInv'
<1> SUFFICES ASSUME TypeOK, TypeOK', LedgerInv, KnownInv, [Next]_vars, NEW j \in Clicks
             PROVE  /\ click'[j].step = "new" => Unknown(j)'
                    /\ click'[j].step = "fallback" =>
                           /\ <<j, "update">> \notin Known'
                           /\ "incrReply" \notin seen' => Unknown(j)'
  BY DEF KnownInv
<1>a. seen \subseteq seen'
  BY SeenGrows
<1>1. CASE ~\E k \in Clicks : ClickStep(k)
  <2>1. Known' = Known
    BY <1>1, OthersKnown
  <2>2. click' = click
    BY <1>1 DEF Next, LinkStep, EditStep, CreateLink, DeleteLink, LoadForUpdate,
                CommitUpdate, WorkerStep, FlushStep, FlushStart, FlushDone, GetDel,
                UpdateLink, LinkNotFound, Restore, Enqueue, CounterExists, SetPending,
                UpdateRaises, TaskFails, Abort, GetDelTimesOut, EnqueueUnanswered,
                CounterExpires, vars
  <2> QED
    BY <1>a, <2>1, <2>2 DEF KnownInv, Unknown
<1>2. ASSUME NEW k \in Clicks, ClickStep(k)
      PROVE  /\ click'[j].step = "new" => Unknown(j)'
             /\ click'[j].step = "fallback" =>
                    /\ <<j, "update">> \notin Known'
                    /\ "incrReply" \notin seen' => Unknown(j)'
  <2>1. PICK S \in SUBSET {<<k, "incr">>, <<k, "resent">>, <<k, "update">>} :
            /\ Known' = Known \cup S
            /\ click[k].step \in {"new", "fallback"} /\ click'[k].step # "new"
            /\ \A l \in Clicks : l # k => click'[l] = click[l]
            /\ click'[k].step = "fallback" =>
                   /\ click[k].step = "new"
                   /\ <<k, "update">> \notin S
                   /\ "incrReply" \notin seen' => S = {}
    BY <1>2, ClickEffect
  <2>2. \A i \in S : i[1] = k
    OBVIOUS
  <2>3. CASE j # k
    <3>1. click'[j] = click[j] /\ <<j, "update">> \notin S
      BY <2>1, <2>2, <2>3
    <3>2. Unknown(j) => Unknown(j)'
      BY <2>1, <2>2, <2>3 DEF Unknown
    <3> QED
      BY <1>a, <2>1, <3>1, <3>2 DEF KnownInv
  <2>4. CASE j = k
    <3>1. CASE click'[k].step = "fallback"
      <4>1. Unknown(k)
        BY <2>1, <3>1 DEF KnownInv
      <4>2. <<k, "update">> \in Increments
        BY SentIncrements
      <4> QED
        BY <2>1, <2>4, <3>1, <4>1, <4>2 DEF Unknown
    <3>2. CASE click'[k].step # "fallback"
      BY <2>1, <2>4, <3>2
    <3> QED
      BY <3>1, <3>2
  <2> QED
    BY <2>3, <2>4
<1> QED
  BY <1>1, <1>2
-----------------------------------------------------------------------------
(***************************************************************************)
(* What is owed to each code, step by step.                                *)
(***************************************************************************)
Owes(c, i) == \/ i \in counter[c]
              \/ \E w \in Workers : IsNext(c, todo[w]) /\ i \in held[w]

LEMMA OwedIs ==
    /\ OwedTo = [c \in Codes |-> OwedTo[c]]
    /\ \A c \in Codes : \A i : i \in OwedTo[c] <=> Owes(c, i)
<1>1. \A c \in Codes : OwedTo[c] = counter[c] \cup WithWorkers(c)
  BY DEF OwedTo
<1>2. ASSUME NEW c \in Codes, NEW i
      PROVE  i \in WithWorkers(c) <=> \E w \in Workers : IsNext(c, todo[w]) /\ i \in held[w]
  BY DEF WithWorkers
<1>3. OwedTo = [c \in Codes |-> OwedTo[c]]
  BY DEF OwedTo
<1> QED
  BY <1>1, <1>2, <1>3 DEF Owes

LEMMA OwedIsAfter ==
    /\ OwedTo' = [c \in Codes |-> OwedTo'[c]]
    /\ \A c \in Codes : \A i : i \in OwedTo'[c] <=> Owes(c, i)'
<1>1. \A c \in Codes : OwedTo'[c] = counter'[c] \cup WithWorkers(c)'
  BY DEF OwedTo
<1>2. ASSUME NEW c \in Codes, NEW i
      PROVE  i \in WithWorkers(c)' <=>
                 \E w \in Workers : IsNext(c, todo'[w]) /\ i \in held'[w]
  BY DEF WithWorkers, IsNext
<1>3. OwedTo' = [c \in Codes |-> OwedTo'[c]]
  BY DEF OwedTo
<1> QED
  BY <1>1, <1>2, <1>3 DEF Owes, IsNext

(* The current code of a task is one.                                      *)
LEMMA NextUnique ==
    ASSUME NEW S \in SUBSET Codes, NEW c \in Codes, NEW d \in Codes,
           IsNext(c, S), IsNext(d, S)
    PROVE  c = d
  BY CodesAssumption DEF IsNext

LEMMA OwedSame ==
    ASSUME \A c \in Codes : \A i : Owes(c, i)' <=> Owes(c, i)
    PROVE  OwedTo' = OwedTo
<1>1. \A c \in Codes : OwedTo'[c] = OwedTo[c]
  <2> SUFFICES ASSUME NEW c \in Codes PROVE \A i : i \in OwedTo'[c] <=> i \in OwedTo[c]
    OBVIOUS
  <2> QED
    BY OwedIs, OwedIsAfter
<1> QED
  BY <1>1, OwedIs, OwedIsAfter

LEMMA OwedLess ==
    ASSUME NEW c \in Codes, NEW S,
           \A d \in Codes \ {c} : \A i : Owes(d, i)' <=> Owes(d, i),
           \A i : Owes(c, i)' <=> Owes(c, i) /\ i \notin S
    PROVE  OwedTo' = [OwedTo EXCEPT ![c] = OwedTo[c] \ S]
<1>1. \A d \in Codes \ {c} : OwedTo'[d] = OwedTo[d]
  <2> SUFFICES ASSUME NEW d \in Codes \ {c}
               PROVE  \A i : i \in OwedTo'[d] <=> i \in OwedTo[d]
    OBVIOUS
  <2> QED
    BY OwedIs, OwedIsAfter
<1>2. OwedTo'[c] = OwedTo[c] \ S
  <2>1. \A i : i \in OwedTo'[c] <=> i \in OwedTo[c] \ S
    BY OwedIs, OwedIsAfter
  <2> QED
    BY <2>1
<1> QED
  BY <1>1, <1>2, OwedIs, OwedIsAfter

LEMMA OwedMore ==
    ASSUME NEW c \in Codes, NEW S,
           \A d \in Codes \ {c} : \A i : Owes(d, i)' <=> Owes(d, i),
           \A i : Owes(c, i)' <=> Owes(c, i) \/ i \in S
    PROVE  OwedTo' = [OwedTo EXCEPT ![c] = OwedTo[c] \cup S]
<1>1. \A d \in Codes \ {c} : OwedTo'[d] = OwedTo[d]
  <2> SUFFICES ASSUME NEW d \in Codes \ {c}
               PROVE  \A i : i \in OwedTo'[d] <=> i \in OwedTo[d]
    OBVIOUS
  <2> QED
    BY OwedIs, OwedIsAfter
<1>2. OwedTo'[c] = OwedTo[c] \cup S
  <2>1. \A i : i \in OwedTo'[c] <=> i \in OwedTo[c] \cup S
    BY OwedIs, OwedIsAfter
  <2> QED
    BY <2>1
<1> QED
  BY <1>1, <1>2, OwedIs, OwedIsAfter

(* Steps that leave counters and hands alone, a task that holds nothing    *)
(* may go on to another code.                                              *)
LEMMA QuietOwed ==
    ASSUME counter' = counter, held' = held,
           \A w \in Workers : held[w] = {} \/ todo'[w] = todo[w]
    PROVE  OwedTo' = OwedTo
<1>1. \A c \in Codes : \A i : Owes(c, i)' <=> Owes(c, i)
  BY DEF Owes, IsNext
<1> QED
  BY <1>1, OwedSame

(* GETDEL and its undoing move increments, not debt.                       *)
LEMMA MovedOwed ==
    ASSUME TypeOK, LedgerInv, NEW w \in Workers, GetDel(w) \/ Restore(w)
    PROVE  OwedTo' = OwedTo
<1> USE DEF stores, flush, history, failure, NoFault, Goto
<1>1. CASE GetDel(w)
  <2>1. PICK c \in Codes : IsNext(c, todo[w]) /\ Take(w, c)
    BY <1>1 DEF GetDel
  <2>2. held[w] = {} /\ todo' = todo
    BY <1>1 DEF GetDel, LedgerInv, HeldInFlight
  <2>3. /\ \A d \in Codes : counter'[d] = IF d = c THEN {} ELSE counter[d]
        /\ \A v \in Workers : held'[v] = IF v = w THEN counter[c] ELSE held[v]
    BY <2>1 DEF Take, TypeOK
  <2>4. \A d \in Codes : IsNext(d, todo[w]) => d = c
    BY <2>1, NextUnique DEF TypeOK
  <2>5. \A d \in Codes : \A i : Owes(d, i)' <=> Owes(d, i)
    <3> SUFFICES ASSUME NEW d \in Codes, NEW i PROVE Owes(d, i)' <=> Owes(d, i)
      OBVIOUS
    <3>1. Owes(d, i)' <=> \/ i \in counter'[d]
                          \/ \E v \in Workers : IsNext(d, todo[v]) /\ i \in held'[v]
      BY <2>2 DEF Owes, IsNext
    <3>2. CASE d = c
      BY <2>1, <2>2, <2>3, <3>1, <3>2 DEF Owes
    <3>3. CASE d # c
      BY <2>2, <2>3, <2>4, <3>1, <3>3 DEF Owes
    <3> QED
      BY <3>2, <3>3
  <2> QED
    BY <2>5, OwedSame
<1>2. CASE Restore(w)
  <2>1. PICK c \in Codes : IsNext(c, todo[w]) /\ AddToCounter(c, held[w])
    BY <1>2 DEF Restore
  <2>2. /\ \A d \in Codes : counter'[d] = IF d = c THEN counter[d] \cup held[w]
                                                    ELSE counter[d]
        /\ \A v \in Workers : held'[v] = IF v = w THEN {} ELSE held[v]
        /\ \A v \in Workers \ {w} : todo'[v] = todo[v]
    BY <1>2, <2>1 DEF AddToCounter, Restore, TypeOK
  <2>4. \A d \in Codes : IsNext(d, todo[w]) => d = c
    BY <2>1, NextUnique DEF TypeOK
  <2>5. \A d \in Codes : \A i : Owes(d, i)' <=> Owes(d, i)
    <3> SUFFICES ASSUME NEW d \in Codes, NEW i PROVE Owes(d, i)' <=> Owes(d, i)
      OBVIOUS
    <3>1. Owes(d, i)' <=> \/ i \in counter'[d]
                          \/ \E v \in Workers : IsNext(d, todo'[v]) /\ i \in held'[v]
      BY DEF Owes, IsNext
    <3>2. (\E v \in Workers : IsNext(d, todo'[v]) /\ i \in held'[v])
            <=> \E v \in Workers \ {w} : IsNext(d, todo[v]) /\ i \in held[v]
      BY <2>2
    <3>3. CASE d = c
      BY <2>1, <2>2, <3>1, <3>2, <3>3 DEF Owes
    <3>4. CASE d # c
      BY <2>2, <2>4, <3>1, <3>2, <3>4 DEF Owes
    <3> QED
      BY <3>3, <3>4
  <2> QED
    BY <2>5, OwedSame
<1> QED
  BY <1>1, <1>2

(* What a worker gives away or loses leaves the debt to its current code.  *)
LEMMA GivenAwayOwed ==
    ASSUME TypeOK, LedgerInv, NEW w \in Workers, NEW c \in Codes, IsNext(c, todo[w]),
           counter' = counter,
           \A v \in Workers : held'[v] = IF v = w THEN {} ELSE held[v],
           \A v \in Workers \ {w} : todo'[v] = todo[v]
    PROVE  OwedTo' = [OwedTo EXCEPT ![c] = OwedTo[c] \ held[w]]
<1>1. \A d \in Codes : IsNext(d, todo[w]) => d = c
  BY NextUnique DEF TypeOK
<1>2. ASSUME NEW d \in Codes, NEW i
      PROVE  Owes(d, i)' <=> \/ i \in counter[d]
                             \/ \E v \in Workers \ {w} : IsNext(d, todo[v]) /\ i \in held[v]
  BY DEF Owes, IsNext
<1>3. /\ \A d \in Codes : counter[d] \cap held[w] = {}
      /\ \A v \in Workers \ {w} : held[v] \cap held[w] = {}
  BY DEF LedgerInv, OnePlace
<1>4. \A d \in Codes \ {c} : \A i : Owes(d, i)' <=> Owes(d, i)
  BY <1>1, <1>2 DEF Owes
<1>5. \A i : Owes(c, i)' <=> Owes(c, i) /\ i \notin held[w]
  BY <1>2, <1>3 DEF Owes
<1> QED
  BY <1>4, <1>5, OwedLess

(* A counter that is emptied and not taken.                                *)
LEMMA EmptiedOwed ==
    ASSUME TypeOK, LedgerInv, NEW c \in Codes,
           counter' = [counter EXCEPT ![c] = {}], held' = held,
           \A w \in Workers : held[w] = {} \/ todo'[w] = todo[w]
    PROVE  OwedTo' = [OwedTo EXCEPT ![c] = OwedTo[c] \ counter[c]]
<1>1. \A d \in Codes : counter'[d] = IF d = c THEN {} ELSE counter[d]
  BY DEF TypeOK
<1>2. ASSUME NEW d \in Codes, NEW i
      PROVE  Owes(d, i)' <=> \/ i \in counter'[d]
                             \/ \E v \in Workers : IsNext(d, todo[v]) /\ i \in held[v]
  BY DEF Owes, IsNext
<1>3. \A v \in Workers : counter[c] \cap held[v] = {}
  BY DEF LedgerInv, OnePlace
<1>4. \A d \in Codes \ {c} : \A i : Owes(d, i)' <=> Owes(d, i)
  BY <1>1, <1>2 DEF Owes
<1>5. \A i : Owes(c, i)' <=> Owes(c, i) /\ i \notin counter[c]
  BY <1>1, <1>2, <1>3 DEF Owes
<1> QED
  BY <1>4, <1>5, OwedLess

(* A redirect that increments a counter.                                   *)
LEMMA CountedOwed ==
    ASSUME TypeOK, NEW c \in Codes, NEW S, AddToCounter(c, S),
           UNCHANGED <<held, todo>>
    PROVE  OwedTo' = [OwedTo EXCEPT ![c] = OwedTo[c] \cup S]
<1>1. \A d \in Codes : counter'[d] = IF d = c THEN counter[d] \cup S ELSE counter[d]
  BY DEF AddToCounter, TypeOK
<1>2. \A d \in Codes \ {c} : \A i : Owes(d, i)' <=> Owes(d, i)
  BY <1>1 DEF Owes, IsNext
<1>3. \A i : Owes(c, i)' <=> Owes(c, i) \/ i \in S
  BY <1>1 DEF Owes, IsNext
<1> QED
  BY <1>2, <1>3, OwedMore
-----------------------------------------------------------------------------
(***************************************************************************)
(* The steps of the ledger, in the terms of ClickCounter.                  *)
(***************************************************************************)
LiveMap  == [c \in Codes |-> row[c].live]
CountMap == [c \in Codes |-> row[c].count]

RepeatExcused == seen' \cap Repeats # {}
LossExcused   == seen' \cap Loses # {}

LEMMA KnownTyped == TypeOK => Known \subseteq Increments
  BY DEF TypeOK, Known, Owed, PostedIncrements

LEMMA RowSame ==
    ASSUME \A c \in Codes : row'[c].live = row[c].live /\ row'[c].count = row[c].count
    PROVE  LiveMap' = LiveMap /\ CountMap' = CountMap
  BY DEF LiveMap, CountMap

LEMMA RowCounted ==
    ASSUME NEW c \in Codes, NEW n,
           \A d \in Codes : row'[d].live = row[d].live,
           \A d \in Codes \ {c} : row'[d].count = row[d].count,
           row'[c].count = row[c].count + n
    PROVE  /\ LiveMap' = LiveMap
           /\ CountMap' = [CountMap EXCEPT ![c] = CountMap[c] + n]
  BY DEF LiveMap, CountMap

LEMMA Stutters ==
    ASSUME LiveMap' = LiveMap, CountMap' = CountMap, OwedTo' = OwedTo, Known' = Known
    PROVE  Ledger!Step
  BY DEF Ledger!Step, LiveMap, CountMap, Known

LEMMA SameCardinality == \A S : Ledger!Cardinality(S) = Cardinality(S)
  BY DEF Ledger!Cardinality, Cardinality

LEMMA Credits ==
    ASSUME NEW c \in Codes, row[c].live, NEW incs \in SUBSET OwedTo[c],
           LiveMap' = LiveMap,
           CountMap' = [CountMap EXCEPT ![c] = CountMap[c] + Cardinality(incs)],
           \/ OwedTo' = [OwedTo EXCEPT ![c] = OwedTo[c] \ incs]
           \/ OwedTo' = OwedTo /\ RepeatExcused,
           Known' = Known
    PROVE  Ledger!Step
<1>1. RepeatExcused => Ledger!Excused("repeat")
  BY DEF Ledger!Excused, RepeatExcused
<1>2. LiveMap[c]
  BY DEF LiveMap
<1>3. \E X \in SUBSET OwedTo[c] :
         /\ CountMap' = [CountMap EXCEPT ![c] = CountMap[c] + Cardinality(X)]
         /\ \/ OwedTo' = [OwedTo EXCEPT ![c] = OwedTo[c] \ X]
            \/ OwedTo' = OwedTo /\ Ledger!Excused("repeat")
  BY <1>1
<1>4. Ledger!Credit(c)
  BY <1>2, <1>3, SameCardinality DEF Ledger!Credit, LiveMap, CountMap, Known
<1> QED
  BY <1>4 DEF Ledger!Step

LEMMA GivesUp ==
    ASSUME NEW c \in Codes, NEW S, row[c].live => LossExcused,
           LiveMap' = LiveMap, CountMap' = CountMap,
           OwedTo' = [OwedTo EXCEPT ![c] = OwedTo[c] \ S],
           Known' = Known
    PROVE  Ledger!Step
<1>1. OwedTo'[c] = OwedTo[c] \ S
  BY OwedIs
<1>2. Ledger!GiveUp(c)
  BY <1>1 DEF Ledger!GiveUp, Ledger!Excused, LiveMap, CountMap, Known, LossExcused
<1> QED
  BY <1>2 DEF Ledger!Step

LEMMA Accepts ==
    ASSUME NEW S, S \cap Known = {}, Known' = Known \cup S,
           \A i \in S : \A j \in Known \cup S : i[1] = j[1] => i = j \/ RepeatExcused
    PROVE  Ledger!Accept(S)
  BY DEF Ledger!Accept, Ledger!Excused, Known, RepeatExcused

LEMMA OwesMore ==
    ASSUME NEW k \in Clicks, NEW c \in Codes,
           NEW ways \in SUBSET {"incr", "resent", "update"}, ways # {},
           Ledger!Accept({k} \X ways),
           LiveMap' = LiveMap, CountMap' = CountMap,
           OwedTo' = [OwedTo EXCEPT ![c] = OwedTo[c] \cup ({k} \X ways)]
    PROVE  Ledger!Step
<1>1. Ledger!Owe(k, c)
  BY DEF Ledger!Owe, LiveMap, CountMap
<1> QED
  BY <1>1 DEF Ledger!Step

LEMMA CreditsAtOnce ==
    ASSUME NEW k \in Clicks, NEW c \in Codes, Ledger!Accept({<<k, "update">>}),
           LiveMap' = LiveMap, OwedTo' = OwedTo,
           CountMap' = IF row[c].live THEN [CountMap EXCEPT ![c] = CountMap[c] + 1]
                                      ELSE CountMap
    PROVE  Ledger!Step
<1>1. Ledger!Direct(k, c)
  BY DEF Ledger!Direct, LiveMap, CountMap
<1> QED
  BY <1>1 DEF Ledger!Step
-----------------------------------------------------------------------------
(***************************************************************************)
(* Every step of ClickCounter is a step of the ledger.                     *)
(***************************************************************************)
LEMMA InitLedger == Init => Ledger!Init
<1> SUFFICES ASSUME Init PROVE Ledger!Init
  OBVIOUS
<1>1. [c \in Codes |-> row[c].live] = [c \in Codes |-> FALSE]
      /\ [c \in Codes |-> row[c].count] = [c \in Codes |-> 0]
  BY DEF Init
<1>2. OwedTo = [c \in Codes |-> {}]
  <2>1. \A c \in Codes : \A i : ~Owes(c, i)
    BY DEF Init, Owes
  <2> QED
    BY <2>1, OwedIs
<1>3. Owed \cup PostedIncrements \cup dropped \cup lost = {}
  BY DEF Init, Owed, IsOwed, PostedIncrements
<1>4. seen = {}
  BY DEF Init
<1> QED
  BY <1>1, <1>2, <1>3, <1>4 DEF Ledger!Init

LEMMA ExcusesGrow ==
    [Next]_vars =>
        {x \in {"repeat", "lose"} :
            seen \cap (IF x = "repeat" THEN Repeats ELSE Loses) # {}} \subseteq
        {x \in {"repeat", "lose"} :
            seen' \cap (IF x = "repeat" THEN Repeats ELSE Loses) # {}}
  BY SeenGrows

(* Steps on links.                                                         *)
LEMMA LinksLedger ==
    ASSUME TypeOK, TypeOK', LedgerInv, LinkStep \/ EditStep
    PROVE  Ledger!Step
<1> USE DEF flush, history
<1>a. UNCHANGED <<counter, held, todo, posted, dropped, lost>>
  BY DEF LinkStep, EditStep, CreateLink, DeleteLink, LoadForUpdate, CommitUpdate, stores
<1>b. OwedTo' = OwedTo /\ Known' = Known
  BY <1>a, QuietOwed DEF Known, Owed, IsOwed, PostedIncrements
<1>1. ASSUME NEW c \in Codes, NEW h \in Hooks, CreateLink(c, h) PROVE Ledger!Step
  <2>1. /\ \A d \in Codes \ {c} : row'[d] = row[d]
        /\ row'[c].live = TRUE /\ row'[c].count = 0 /\ ~row[c].live
    BY <1>1 DEF CreateLink, TypeOK
  <2>2. /\ ~LiveMap[c]
        /\ LiveMap' = [LiveMap EXCEPT ![c] = TRUE]
        /\ CountMap' = [CountMap EXCEPT ![c] = 0]
    BY <2>1 DEF LiveMap, CountMap
  <2>3. Ledger!Create(c)
    BY <1>b, <2>2 DEF Ledger!Create, LiveMap, CountMap, Known
  <2> QED
    BY <2>3 DEF Ledger!Step
<1>2. ASSUME NEW c \in Codes, DeleteLink(c) PROVE Ledger!Step
  <2>1. /\ \A d \in Codes \ {c} : row'[d] = row[d]
        /\ row'[c].live = FALSE /\ row'[c].count = row[c].count
    BY <1>2 DEF DeleteLink, TypeOK, Row
  <2>2. /\ LiveMap' = [LiveMap EXCEPT ![c] = FALSE]
        /\ CountMap' = CountMap
    BY <2>1 DEF LiveMap, CountMap
  <2>3. Ledger!Delete(c)
    BY <1>b, <2>2 DEF Ledger!Delete, LiveMap, CountMap, Known
  <2> QED
    BY <2>3 DEF Ledger!Step
<1>3. ASSUME NEW e \in Editors, NEW c \in Codes, NEW h \in Hooks, LoadForUpdate(e, c, h)
      PROVE  Ledger!Step
  <2>1. row' = row
    BY <1>3 DEF LoadForUpdate, stores
  <2> QED
    BY <1>b, <2>1, RowSame, Stutters
<1>4. ASSUME NEW e \in Editors, CommitUpdate(e) PROVE Ledger!Step
  <2>1. ASSUME NEW c \in Codes
        PROVE  row'[c].live = row[c].live /\ row'[c].count = row[c].count
    <3>1. row[c] \in Row
      BY DEF TypeOK
    <3>2. row'[c] = row[c] \/ row'[c] = Patched(row[c], edit[e])
      BY <1>4 DEF CommitUpdate, TypeOK
    <3>3. /\ Patched(row[c], edit[e]).live = row[c].live
          /\ Patched(row[c], edit[e]).count = row[c].count
      BY <3>1 DEF Patched, Row
    <3> QED
      BY <3>2, <3>3
  <2> QED
    BY <1>b, <2>1, RowSame, Stutters
<1> QED
  BY <1>1, <1>2, <1>3, <1>4 DEF LinkStep, EditStep

(* Steps of a redirect: what it accepts is new, and a second increment of  *)
(* the same redirect has the lost reply for an excuse.                     *)
LEMMA CreditedAtOnce ==
    ASSUME TypeOK, NEW k \in Clicks, DirectIncrement(k), UNCHANGED <<counter, held, todo>>,
           Ledger!Accept({<<k, "update">>})
    PROVE  Ledger!Step
<1>1. PICK c \in Codes : c = click[k].code
  BY DEF TypeOK, Request
<1>2. OwedTo' = OwedTo
  BY QuietOwed
<1>3. CASE row[c].live
  <2>1. row[c] \in Row /\ row' = [row EXCEPT ![c].count = row[c].count + 1]
    BY <1>1, <1>3 DEF DirectIncrement, TypeOK
  <2>2. /\ \A d \in Codes : row'[d].live = row[d].live
        /\ \A d \in Codes \ {c} : row'[d].count = row[d].count
        /\ row'[c].count = row[c].count + 1
    BY <2>1 DEF TypeOK, Row
  <2>3. LiveMap' = LiveMap /\ CountMap' = [CountMap EXCEPT ![c] = CountMap[c] + 1]
    BY <2>2, RowCounted
  <2> QED
    BY <1>2, <1>3, <2>3, CreditsAtOnce
<1>4. CASE ~row[c].live
  <2>1. row' = row
    BY <1>1, <1>4 DEF DirectIncrement
  <2>2. LiveMap' = LiveMap /\ CountMap' = CountMap
    BY <2>1 DEF LiveMap, CountMap
  <2> QED
    BY <1>2, <1>4, <2>2, CreditsAtOnce
<1> QED
  BY <1>3, <1>4

LEMMA ClicksLedger ==
    ASSUME TypeOK, TypeOK', LedgerInv, KnownInv, seen \subseteq seen',
           NEW k \in Clicks, ClickStep(k)
    PROVE  Ledger!Step
<1> USE DEF stores, flush, history, failure, NoFault
<1>a. PICK c \in Codes : c = click[k].code
  BY DEF TypeOK, Request
<1>b. /\ <<k, "incr">> \in Increments /\ <<k, "resent">> \in Increments
      /\ <<k, "update">> \in Increments
      /\ {<<k, "incr">>} \in SUBSET Increments
      /\ {<<k, "incr">>, <<k, "resent">>} \in SUBSET Increments
  BY SentIncrements
<1>c. Known \subseteq Increments
  BY KnownTyped
<1>1. ASSUME row' = row PROVE LiveMap' = LiveMap /\ CountMap' = CountMap
  BY <1>1 DEF LiveMap, CountMap
<1>2. ASSUME NEW S \in SUBSET {"incr", "resent"}, S # {}, Unknown(k),
             S = {"incr"} \/ RepeatExcused, row' = row,
             AddToCounter(c, {k} \X S), UNCHANGED <<held, todo, posted, dropped, lost>>
      PROVE  Ledger!Step
  <2>1. {k} \X S \in SUBSET Increments
    BY <1>2 DEF Increments, Ways
  <2>2. Known' = Known \cup ({k} \X S)
    BY <1>2, <1>a, <2>1, ClickKnown
  <2>3. \A i \in {k} \X S : i \notin Known /\ i[1] = k
    BY <1>2, <2>1 DEF Unknown
  <2>4. \A j \in Known : j[1] # k
    BY <1>2, <1>c DEF Unknown
  <2>5. \A i, j \in {k} \X S : i = j \/ RepeatExcused
    BY <1>2
  <2>6. Ledger!Accept({k} \X S)
    BY <2>2, <2>3, <2>4, <2>5, Accepts
  <2>7. OwedTo' = [OwedTo EXCEPT ![c] = OwedTo[c] \cup ({k} \X S)]
    BY <1>2, CountedOwed
  <2>8. S \in SUBSET {"incr", "resent", "update"}
    OBVIOUS
  <2> QED
    BY <1>1, <1>2, <2>6, <2>7, <2>8, OwesMore
<1>3. {k} \X {"incr"} = {<<k, "incr">>}
      /\ {k} \X {"incr", "resent"} = {<<k, "incr">>, <<k, "resent">>}
  OBVIOUS
<1>4. click[k].step = "new" => Unknown(k)
  BY DEF KnownInv
<1>5. CASE IncrementCounter(k)
  <2>1. AddToCounter(c, {k} \X {"incr"}) /\ click[k].step = "new"
    BY <1>5, <1>a, <1>3 DEF IncrementCounter, Redirected
  <2> QED
    BY <1>2, <1>4, <1>5, <2>1 DEF IncrementCounter
<1>6. CASE IncrementFails(k)
  <2>1. UNCHANGED <<row, counter, held, todo, posted, dropped, lost>>
    BY <1>6 DEF IncrementFails
  <2>2. Known' = Known /\ OwedTo' = OwedTo
    BY <2>1, QuietOwed DEF Known, Owed, IsOwed, PostedIncrements
  <2> QED
    BY <1>1, <2>1, <2>2, Stutters
<1>7. CASE IncrementTimesOut(k)
  <2>1. click[k].step = "new" /\ UNCHANGED <<row, held, todo, posted, dropped, lost>>
    BY <1>7 DEF IncrementTimesOut, Redirected
  <2>2. RepeatExcused
    BY <1>7 DEF IncrementTimesOut, Fault, RepeatExcused, Repeats
  <2>3. PICK S \in {{"incr"}, {"incr", "resent"}} : AddToCounter(c, {k} \X S)
    BY <1>7, <1>a, <1>3 DEF IncrementTimesOut
  <2>4. S \in SUBSET {"incr", "resent"} /\ S # {}
    BY <2>3
  <2> QED
    BY <1>2, <1>4, <2>1, <2>2, <2>3, <2>4
<1>8. ASSUME click[k].step = "fallback", DirectIncrement(k),
             UNCHANGED <<counter, held, todo, lost>>
      PROVE  Ledger!Step
  <2>1. Known' = Known \cup {<<k, "update">>}
    <3>1. \/ PostedIncrements' = PostedIncrements \cup {<<k, "update">>}
             /\ dropped' = dropped
          \/ PostedIncrements' = PostedIncrements
             /\ dropped' = dropped \cup {<<k, "update">>}
      BY <1>8, PostedOne DEF DirectIncrement, PostedIncrements
    <3> QED
      BY <1>8, <1>b, <3>1, ClickKnown
  <2>2. <<k, "update">> \notin Known /\ ("incrReply" \notin seen => Unknown(k))
    BY <1>8 DEF KnownInv
  <2>3. \A j \in Known : j[1] # k \/ RepeatExcused
    BY <1>c, <2>2 DEF Unknown, RepeatExcused, Repeats
  <2>4. \A i \in {<<k, "update">>} : \A j \in Known \cup {<<k, "update">>} :
            i[1] = j[1] => i = j \/ RepeatExcused
    BY <2>3
  <2>5. Ledger!Accept({<<k, "update">>})
    BY <2>1, <2>2, <2>4, Accepts
  <2> QED
    BY <1>8, <2>5, CreditedAtOnce
<1>9. CASE IncrementClickCount(k)
  BY <1>8, <1>9 DEF IncrementClickCount
<1>10. CASE IncrementClickCountFails(k)
  <2>1. CASE DirectIncrement(k)
    BY <1>8, <1>10, <2>1 DEF IncrementClickCountFails
  <2>2. CASE UNCHANGED <<row, posted, dropped>>
    <3>1. UNCHANGED <<row, counter, held, todo, posted, dropped, lost>>
      BY <1>10, <2>2 DEF IncrementClickCountFails
    <3>2. Known' = Known /\ OwedTo' = OwedTo
      BY <3>1, QuietOwed DEF Known, Owed, IsOwed, PostedIncrements
    <3> QED
      BY <1>1, <3>1, <3>2, Stutters
  <2> QED
    BY <1>10, <2>1, <2>2 DEF IncrementClickCountFails
<1> QED
  BY <1>5, <1>6, <1>7, <1>9, <1>10 DEF ClickStep

(* A flush posts what it holds to the link of its current code.            *)
LEMMA PostedRow ==
    ASSUME TypeOK, NEW w \in Workers, NEW c \in Codes, Post(w, c)
    PROVE  /\ row[c].live /\ LiveMap' = LiveMap
           /\ CountMap' = [CountMap EXCEPT ![c] = CountMap[c] + Cardinality(held[w])]
<1>1. row[c] \in Row /\ row[c].live
  BY DEF TypeOK, Post
<1>2. /\ \A d \in Codes \ {c} : row'[d] = row[d]
      /\ row'[c] = Credited(row[c], Cardinality(held[w]))
  BY DEF Post, TypeOK
<1>3. /\ row'[c].live = row[c].live
      /\ row'[c].count = row[c].count + Cardinality(held[w])
  BY <1>1, <1>2 DEF Credited, Row
<1>4. \A d \in Codes : row'[d].live = row[d].live
  BY <1>2, <1>3
<1>5. \A d \in Codes \ {c} : row'[d].count = row[d].count
  BY <1>2
<1>6. /\ LiveMap' = LiveMap
      /\ CountMap' = [CountMap EXCEPT ![c] = CountMap[c] + Cardinality(held[w])]
  BY <1>3, <1>4, <1>5, RowCounted
<1> QED
  BY <1>1, <1>6

(* A task is at some code as long as it is not at the top of its loop.     *)
LEMMA WorkersLedger ==
    ASSUME TypeOK, TypeOK', LedgerInv, [Next]_vars, NEW w \in Workers, WorkerStep(w),
           Known' = Known
    PROVE  Ledger!Step
<1> USE DEF stores, flush, history, failure, NoFault, Goto
<1>a. HeldInFlight
  BY DEF LedgerInv
<1>b. ASSUME row' = row PROVE LiveMap' = LiveMap /\ CountMap' = CountMap
  BY <1>b DEF LiveMap, CountMap
<1>c. ASSUME NEW c \in Codes, IsNext(c, todo[w]) PROVE held[w] \in SUBSET OwedTo[c]
  <2>1. \A i \in held[w] : Owes(c, i)
    BY <1>c DEF Owes
  <2> QED
    BY <2>1, OwedIs
<1>1. CASE FlushStart(w) \/ FlushDone(w) \/ Enqueue(w) \/ EnqueueUnanswered(w)
             \/ CounterExists(w) \/ SetPending(w)
  <2>1. UNCHANGED <<row, counter, held>>
    BY <1>1 DEF FlushStart, FlushDone, Enqueue, EnqueueUnanswered, CounterExists,
        SetPending
  <2>2. \A v \in Workers : held[v] = {} \/ todo'[v] = todo[v]
    BY <1>1, <1>a
    DEF FlushStart, FlushDone, Enqueue, EnqueueUnanswered, CounterExists,
        SetPending, HeldInFlight, TypeOK
  <2> QED
    BY <1>b, <2>1, <2>2, QuietOwed, Stutters
<1>2. CASE GetDel(w) \/ Restore(w)
  <2>1. row' = row
    BY <1>2 DEF GetDel, Restore
  <2> QED
    BY <1>2, <1>b, <2>1, MovedOwed, Stutters
<1>3. CASE UpdateLink(w)
  <2>1. PICK c \in Codes : IsNext(c, todo[w]) /\ Post(w, c)
    BY <1>3 DEF UpdateLink
  <2>2. /\ counter' = counter /\ todo' = todo
        /\ \A v \in Workers : held'[v] = IF v = w THEN {} ELSE held[v]
    BY <1>3 DEF UpdateLink, TypeOK
  <2>3. OwedTo' = [OwedTo EXCEPT ![c] = OwedTo[c] \ held[w]]
    BY <2>1, <2>2, GivenAwayOwed
  <2> QED
    BY <1>c, <2>1, <2>3, PostedRow, Credits
<1>4. CASE LinkNotFound(w)
  <2>1. PICK c \in Codes : IsNext(c, todo[w]) /\ ~row[c].live
    BY <1>4 DEF LinkNotFound
  <2>2. /\ counter' = counter /\ todo' = todo /\ row' = row
        /\ \A v \in Workers : held'[v] = IF v = w THEN {} ELSE held[v]
    BY <1>4 DEF LinkNotFound, TypeOK
  <2>3. OwedTo' = [OwedTo EXCEPT ![c] = OwedTo[c] \ held[w]]
    BY <2>1, <2>2, GivenAwayOwed
  <2> QED
    BY <1>b, <2>1, <2>2, <2>3, GivesUp
<1>5. CASE UpdateRaises(w)
  <2>1. UNCHANGED <<counter, held, todo>>
    BY <1>5 DEF UpdateRaises
  <2>2. OwedTo' = OwedTo
    BY <2>1, QuietOwed
  <2>3. CASE row' = row
    BY <1>b, <2>2, <2>3, Stutters
  <2>4. ASSUME NEW c \in Codes, IsNext(c, todo[w]), Post(w, c), Fault("commitReply")
        PROVE  Ledger!Step
    <3>1. RepeatExcused
      BY <2>4 DEF Fault, RepeatExcused, Repeats
    <3> QED
      BY <1>c, <2>2, <2>4, <3>1, PostedRow, Credits
  <2> QED
    BY <1>5, <2>3, <2>4 DEF UpdateRaises
<1>6. CASE TaskFails(w)
  <2>1. /\ counter' = counter /\ row' = row
        /\ \A v \in Workers : held'[v] = IF v = w THEN {} ELSE held[v]
        /\ \A v \in Workers \ {w} : todo'[v] = todo[v]
    BY <1>6 DEF TaskFails, Abort, TypeOK
  <2>2. CASE held[w] = {}
    <3>1. held' = held
      <4>1. \A v \in Workers : held'[v] = held[v]
        BY <2>1, <2>2
      <4>2. held = [v \in Workers |-> held[v]] /\ held' = [v \in Workers |-> held'[v]]
        BY DEF TypeOK
      <4> QED
        BY <4>1, <4>2
    <3>2. \A v \in Workers : held[v] = {} \/ todo'[v] = todo[v]
      BY <2>1, <2>2
    <3> QED
      BY <1>b, <2>1, <3>1, <3>2, QuietOwed, Stutters
  <2>3. CASE held[w] # {} /\ ~\E c \in Codes : IsNext(c, todo[w])
    <3>1. \A c \in Codes : \A i : Owes(c, i)' <=> Owes(c, i)
      BY <2>1, <2>3 DEF Owes, IsNext
    <3> QED
      BY <1>b, <2>1, <3>1, OwedSame, Stutters
  <2>4. ASSUME held[w] # {}, NEW c \in Codes, IsNext(c, todo[w]) PROVE Ledger!Step
    <3>1. LossExcused
      BY <1>6, <1>a, <2>4 DEF TaskFails, Fault, HeldInFlight, LossExcused, Loses
    <3>2. OwedTo' = [OwedTo EXCEPT ![c] = OwedTo[c] \ held[w]]
      BY <2>1, <2>4, GivenAwayOwed
    <3> QED
      BY <1>b, <2>1, <3>1, <3>2, GivesUp
  <2> QED
    BY <2>2, <2>3, <2>4
<1>7. CASE GetDelTimesOut(w)
  <2>1. PICK c \in Codes : counter' = [counter EXCEPT ![c] = {}]
    BY <1>7 DEF GetDelTimesOut
  <2>2. held' = held /\ row' = row /\ held[w] = {}
        /\ \A v \in Workers \ {w} : todo'[v] = todo[v]
    BY <1>7, <1>a DEF GetDelTimesOut, HeldInFlight, TypeOK
  <2>3. OwedTo' = [OwedTo EXCEPT ![c] = OwedTo[c] \ counter[c]]
    BY <2>1, <2>2, EmptiedOwed
  <2>4. LossExcused
    BY <1>7 DEF GetDelTimesOut, Fault, LossExcused, Loses
  <2> QED
    BY <1>b, <2>2, <2>3, <2>4, GivesUp
<1> QED
  BY <1>1, <1>2, <1>3, <1>4, <1>5, <1>6, <1>7 DEF WorkerStep, FlushStep

LEMMA ExpiryLedger ==
    ASSUME TypeOK, LedgerInv, NEW c \in Codes, CounterExpires(c), Known' = Known
    PROVE  Ledger!Step
<1>1. /\ counter' = [counter EXCEPT ![c] = {}]
      /\ UNCHANGED <<row, held, todo>>
      /\ LossExcused
  BY DEF CounterExpires, Fault, flush, LossExcused, Loses
<1>2. OwedTo' = [OwedTo EXCEPT ![c] = OwedTo[c] \ counter[c]]
  BY <1>1, EmptiedOwed
<1>3. LiveMap' = LiveMap /\ CountMap' = CountMap
  BY <1>1 DEF LiveMap, CountMap
<1> QED
  BY <1>1, <1>2, <1>3, GivesUp

LEMMA StepLedger ==
    TypeOK /\ TypeOK' /\ LedgerInv /\ KnownInv /\ [Next]_vars =>
        [Ledger!Next]_(Ledger!vars)
<1> SUFFICES ASSUME TypeOK, TypeOK', LedgerInv, KnownInv, [Next]_vars
             PROVE  Ledger!Next
  OBVIOUS
<1>1. seen \subseteq seen'
  BY SeenGrows
<1>2. Ledger!Step
  <2>1. CASE \E k \in Clicks : ClickStep(k)
    BY <1>1, <2>1, ClicksLedger
  <2>2. CASE ~\E k \in Clicks : ClickStep(k)
    <3>1. Known' = Known
      BY <2>2, OthersKnown
    <3>2. CASE UNCHANGED vars
      <4>1. LiveMap' = LiveMap /\ CountMap' = CountMap
        BY <3>2 DEF vars, stores, LiveMap, CountMap
      <4>2. OwedTo' = OwedTo
        BY <3>2, QuietOwed DEF vars, stores, flush
      <4> QED
        BY <3>1, <4>1, <4>2, Stutters
    <3> QED
      BY <2>2, <3>1, <3>2, LinksLedger, WorkersLedger, ExpiryLedger DEF Next
  <2> QED
    BY <2>1, <2>2
<1> QED
  BY <1>2, ExcusesGrow DEF Ledger!Next

(* Counting clicks keeps the books of ClickLedger: for every number of     *)
(* codes, redirects, workers and editors and every set of failures, each   *)
(* step of the pipeline of counters, pending set, overlapping flushes,     *)
(* restores and fallback credits what it takes out of the debt, moves      *)
(* nothing, or has a listed excuse.                                        *)
THEOREM KeepsLedgerAlways == Spec => KeepsLedger
<1>1. Init => TypeOK /\ LedgerInv /\ KnownInv /\ Ledger!Init
  BY InitTypeOK, InitLedgerInv, InitKnownInv, InitLedger
<1>2. TypeOK /\ LedgerInv /\ KnownInv /\ [Next]_vars => (TypeOK /\ LedgerInv /\ KnownInv)'
  BY StepTypeOK, StepLedgerInv, StepKnownInv
<1>3. TypeOK /\ TypeOK' /\ LedgerInv /\ KnownInv /\ [Next]_vars => [Ledger!Next]_(Ledger!vars)
  BY StepLedger
<1> QED
  BY <1>1, <1>2, <1>3, PTL DEF Spec, KeepsLedger, Ledger!Spec
-----------------------------------------------------------------------------
(***************************************************************************)
(* A Redis that restarts.                                                  *)
(*                                                                         *)
(* A snapshot holds increments that were accepted, each in one counter.    *)
(* Those that a flush took since come back as increments of their own, of  *)
(* which nobody knew before; so they are in one place like any others, and *)
(* one redirect has at most the two.                                       *)
(***************************************************************************)
FirstWays == {"incr", "resent", "update"}
SentToRedis == {"incr", "resent"}

SavedTyped ==
    saved \in [counter : [Codes -> SUBSET Increments], pending : SUBSET Codes,
               waiting : [Events -> Nat]]

SavedApart ==
    \A c, d \in Codes : c # d => saved.counter[c] \cap saved.counter[d] = {}

SavedSent ==
    \A c \in Codes : \A i \in saved.counter[c] : i \in Known /\ i[2] \in SentToRedis

SavedInv == SavedTyped /\ SavedApart /\ SavedSent

(* Before the restart nothing has come back.                               *)
FirstInv ==
    ~restarted =>
        /\ \A i \in Known : i[2] \in FirstWays
        /\ \A i \in Owed : i[2] \in SentToRedis

Accounted == Owed \cup PostedIncrements

OneEach(S) == \A i, j \in S : i[1] = j[1] => i = j

Same(i, j) == i = j \/ Returned(i) = j \/ Returned(j) = i

EachInv ==
    Unambiguous =>
        /\ \A i, j \in Accounted : i[1] = j[1] => Same(i, j)
        /\ ~restarted => OneEach(Accounted \cup HeldBy(saved.counter))

DoneInv == \A k \in Clicks : click[k].step = "done" => \E i \in Known : i[1] = k

(* No more messages are taken than were published, nor were more waiting   *)
(* at the snapshot.                                                        *)
BrokerInv ==
    /\ taken \in [Events -> Nat]
    /\ \A e \in Events : taken[e] <= queued[e] /\ saved.waiting[e] <= queued[e]

RestartInv ==
    /\ TypeOK /\ LedgerInv /\ KnownInv /\ CountInv
    /\ SavedInv /\ FirstInv /\ EachInv /\ DoneInv /\ BrokerInv

LEMMA InitRestartInv == RestartInit => RestartInv
<1> SUFFICES ASSUME RestartInit PROVE RestartInv
  OBVIOUS
<1>1. Init /\ saved = NoSnapshot
  BY DEF RestartInit
<1>2. TypeOK /\ LedgerInv /\ KnownInv /\ CountInv
  BY <1>1, InitTypeOK, InitLedgerInv, InitKnownInv, InitCountInv
<1>3. Known = {} /\ Owed = {} /\ PostedIncrements = {}
  BY <1>1 DEF Init, Known, Owed, IsOwed, PostedIncrements
<1>4. saved = [counter |-> [c \in Codes |-> {}], pending |-> {},
               waiting |-> [e \in Events |-> 0]]
  BY <1>1 DEF NoSnapshot
<1>5. SavedInv
  BY <1>4 DEF SavedInv, SavedTyped, SavedApart, SavedSent
<1>6. HeldBy(saved.counter) = {}
  BY <1>4 DEF HeldBy
<1>7. EachInv
  BY <1>3, <1>6 DEF EachInv, Accounted, OneEach
<1>8. DoneInv
  BY <1>1 DEF Init, DoneInv
<1>9. BrokerInv
  BY <1>1, <1>4 DEF RestartInit, Init, BrokerInv, NoneTaken
<1> QED
  BY <1>2, <1>3, <1>5, <1>7, <1>8, <1>9 DEF RestartInv, FirstInv

(* A step that is not a redirect's makes no increment: a counter or a      *)
(* worker owes what one owed, click_count gets what was owed.              *)
LEMMA OthersAccount ==
    ASSUME TypeOK, [Next]_vars, ~\E k \in Clicks : ClickStep(k)
    PROVE  /\ \A i : IsOwed(i)' => IsOwed(i)
           /\ \A i : i \in PostedIncrements' => i \in PostedIncrements \/ IsOwed(i)
<1> DEFINE Goal == /\ \A i : IsOwed(i)' => IsOwed(i)
                   /\ \A i : i \in PostedIncrements' => i \in PostedIncrements \/ IsOwed(i)
<1> SUFFICES Goal
  OBVIOUS
<1> USE DEF stores, flush, history, failure, NoFault, Goto
<1>1. ASSUME UNCHANGED posted,
             \A c \in Codes : counter'[c] \subseteq counter[c],
             \A w \in Workers : held'[w] \subseteq held[w]
      PROVE  Goal
  BY <1>1 DEF IsOwed, PostedIncrements
<1>2. CASE LinkStep \/ EditStep \/ UNCHANGED vars
  BY <1>1, <1>2
  DEF LinkStep, EditStep, CreateLink, DeleteLink, LoadForUpdate, CommitUpdate, vars
<1>3. ASSUME NEW w \in Workers,
             FlushStart(w) \/ FlushDone(w) \/ Enqueue(w) \/ EnqueueUnanswered(w)
               \/ CounterExists(w) \/ SetPending(w)
      PROVE  Goal
  BY <1>1, <1>3 DEF FlushStart, FlushDone, Enqueue, EnqueueUnanswered, CounterExists,
        SetPending
<1>4. ASSUME NEW w \in Workers, LinkNotFound(w) \/ TaskFails(w) PROVE Goal
  <2>1. UNCHANGED <<counter, posted>>
        /\ \A v \in Workers : held'[v] = IF v = w THEN {} ELSE held[v]
    BY <1>4 DEF LinkNotFound, TaskFails, Abort, TypeOK
  <2> QED
    BY <1>1, <2>1
<1>5. ASSUME NEW c \in Codes, counter' = [counter EXCEPT ![c] = {}],
             UNCHANGED <<held, posted>>
      PROVE  Goal
  <2>1. \A d \in Codes : counter'[d] = IF d = c THEN {} ELSE counter[d]
    BY <1>5 DEF TypeOK
  <2> QED
    BY <1>1, <1>5, <2>1
<1>6. ASSUME NEW w \in Workers, GetDelTimesOut(w) PROVE Goal
  BY <1>5, <1>6 DEF GetDelTimesOut
<1>7. ASSUME NEW c \in Codes, CounterExpires(c) PROVE Goal
  BY <1>5, <1>7 DEF CounterExpires
<1>8. ASSUME NEW w \in Workers, GetDel(w) PROVE Goal
  <2>1. PICK c \in Codes : Take(w, c)
    BY <1>8 DEF GetDel
  <2>2. /\ \A d \in Codes : counter'[d] = IF d = c THEN {} ELSE counter[d]
        /\ \A v \in Workers : held'[v] = IF v = w THEN counter[c] ELSE held[v]
    BY <2>1 DEF Take, TypeOK
  <2>3. \A i : IsOwed(i)' => IsOwed(i)
    BY <2>2 DEF IsOwed
  <2> QED
    BY <1>8, <2>3 DEF GetDel, PostedIncrements
<1>9. ASSUME NEW w \in Workers, Restore(w) PROVE Goal
  <2>1. PICK c \in Codes : AddToCounter(c, held[w])
    BY <1>9 DEF Restore
  <2>2. /\ \A d \in Codes : counter'[d] = IF d = c THEN counter[d] \cup held[w]
                                                    ELSE counter[d]
        /\ \A v \in Workers : held'[v] = IF v = w THEN {} ELSE held[v]
    BY <1>9, <2>1 DEF AddToCounter, Restore, TypeOK
  <2>3. \A i : IsOwed(i)' => IsOwed(i)
    BY <2>2 DEF IsOwed
  <2> QED
    BY <1>9, <2>3 DEF Restore, PostedIncrements
<1>10. ASSUME NEW w \in Workers, UpdateLink(w) \/ UpdateRaises(w) PROVE Goal
  <2>1. counter' = counter /\ \A v \in Workers : held'[v] \subseteq held[v]
    BY <1>10 DEF UpdateLink, UpdateRaises, TypeOK
  <2>2. \A i : IsOwed(i)' => IsOwed(i)
    BY <2>1 DEF IsOwed
  <2>3. \/ PostedIncrements' = PostedIncrements \cup held[w]
        \/ PostedIncrements' = PostedIncrements
    BY <1>10, PostedHeld DEF UpdateLink, UpdateRaises, Post, PostedIncrements
  <2> QED
    BY <2>2, <2>3 DEF IsOwed
<1> QED
  BY <1>2, <1>3, <1>4, <1>6, <1>7, <1>8, <1>9, <1>10 DEF Next, WorkerStep, FlushStep

(* What a step of ClickCounter adds to what is known and to what counts:   *)
(* the increments of one redirect, and one of a redirect never seen before *)
(* unless an INCR was sent twice.                                          *)
Adds(S) ==
    /\ Known' = Known \cup S
    /\ \A i \in S : i[2] \in FirstWays
    /\ \A i : IsOwed(i)' => IsOwed(i) \/ (i \in S /\ i[2] \in SentToRedis)
    /\ \A i : i \in PostedIncrements' => i \in PostedIncrements \/ IsOwed(i) \/ i \in S
    /\ "incrReply" \notin seen' =>
           /\ \A i, j \in S : i = j
           /\ \A i \in S, j \in Known : i[1] # j[1]
    /\ \A k \in Clicks : click'[k].step = "done" =>
           click[k].step = "done" \/ \E i \in S : i[1] = k

LEMMA StepAdds ==
    ASSUME TypeOK, TypeOK', LedgerInv, KnownInv, [Next]_vars
    PROVE  \E S : Adds(S)
<1>1. CASE ~\E k \in Clicks : ClickStep(k)
  <2>1. Known' = Known \cup {}
    BY <1>1, OthersKnown
  <2>2. click' = click
    BY <1>1 DEF Next, LinkStep, EditStep, CreateLink, DeleteLink, LoadForUpdate,
                CommitUpdate, WorkerStep, FlushStep, FlushStart, FlushDone, GetDel,
                UpdateLink, LinkNotFound, Restore, Enqueue, CounterExists, SetPending,
                UpdateRaises, TaskFails, Abort, GetDelTimesOut, EnqueueUnanswered,
                CounterExpires, vars
  <2>3. Adds({})
    BY <1>1, <2>1, <2>2, OthersAccount DEF Adds
  <2> QED
    BY <2>3
<1>2. ASSUME NEW k \in Clicks, ClickStep(k) PROVE \E S : Adds(S)
  <2>1. PICK S \in SUBSET {<<k, "incr">>, <<k, "resent">>, <<k, "update">>} :
            /\ Known' = Known \cup S
            /\ click[k].step \in {"new", "fallback"} /\ click'[k].step # "new"
            /\ \A l \in Clicks : l # k => click'[l] = click[l]
            /\ click'[k].step = "done" => S # {}
            /\ \A i : IsOwed(i)' => IsOwed(i) \/ (i \in S /\ i[2] # "update")
            /\ PostedIncrements' \subseteq PostedIncrements \cup S
            /\ "incrReply" \notin seen' => \A i, j \in S : i = j
    BY <1>2, ClickEffect
  <2>2. \A i \in S : i[1] = k /\ i[2] \in FirstWays
                     /\ (i[2] # "update" => i[2] \in SentToRedis)
    BY DEF FirstWays, SentToRedis
  <2>3. "incrReply" \notin seen' => Unknown(k)
    BY <2>1, SeenGrows DEF KnownInv
  <2>4. "incrReply" \notin seen' => \A i \in S, j \in Known : i[1] # j[1]
    BY <2>2, <2>3, KnownTyped DEF Unknown
  <2>5. ASSUME NEW l \in Clicks, click'[l].step = "done"
        PROVE  click[l].step = "done" \/ \E i \in S : i[1] = l
    BY <2>1, <2>2, <2>5
  <2>6. Adds(S)
    BY <2>1, <2>2, <2>4, <2>5 DEF Adds
  <2> QED
    BY <2>6
<1> QED
  BY <1>1, <1>2

LEMMA SavedKnown ==
    ASSUME SavedSent, NEW i \in HeldBy(saved.counter)
    PROVE  i \in Known /\ i[2] \in SentToRedis
  BY DEF SavedSent, HeldBy

LEMMA NothingSaved ==
    ASSUME saved' = NoSnapshot
    PROVE  /\ SavedTyped' /\ SavedApart' /\ SavedSent'
           /\ HeldBy(saved'.counter) = {}
  BY DEF SavedTyped, SavedApart, SavedSent, HeldBy, NoSnapshot

LEMMA UndisturbedInv == RestartInv /\ Undisturbed => RestartInv'
<1> SUFFICES ASSUME RestartInv, Undisturbed PROVE RestartInv'
  OBVIOUS
<1>a. /\ TypeOK /\ LedgerInv /\ KnownInv /\ CountInv
      /\ SavedTyped /\ SavedApart /\ SavedSent /\ FirstInv /\ EachInv /\ DoneInv
  BY DEF RestartInv, SavedInv
<1>b. [Next]_vars /\ restarted' = restarted /\ (saved' = saved \/ saved' = NoSnapshot)
  BY DEF Undisturbed
<1>1. TypeOK' /\ LedgerInv' /\ KnownInv'
  BY <1>a, <1>b, StepTypeOK, StepLedgerInv, StepKnownInv
<1>2. CountInv'
  BY <1>a, <1>b, <1>1, StepCountInv
<1>3. PICK S : Adds(S)
  BY <1>a, <1>b, <1>1, StepAdds
<1>4. SavedTyped' /\ SavedApart' /\ SavedSent'
      /\ HeldBy(saved'.counter) \subseteq HeldBy(saved.counter)
  <2>1. CASE saved' = saved
    BY <1>a, <1>3, <2>1 DEF SavedTyped, SavedApart, SavedSent, Adds
  <2>2. CASE saved' = NoSnapshot
    BY <2>2, NothingSaved
  <2> QED
    BY <1>b, <2>1, <2>2
<1>5. FirstInv'
  <2>1. \A i \in Owed' : i \in Owed \/ (i \in S /\ i[2] \in SentToRedis)
    BY <1>1, <1>3, <1>a, InOwed, InOwedAfter DEF Adds
  <2> QED
    BY <1>a, <1>b, <1>3, <2>1 DEF FirstInv, Adds
<1>6. EachInv'
  <2> SUFFICES ASSUME Unambiguous'
               PROVE  /\ \A i, j \in Accounted' : i[1] = j[1] => Same(i, j)
                      /\ ~restarted' => OneEach(Accounted' \cup HeldBy(saved'.counter))
    BY DEF EachInv
  <2>1. Unambiguous /\ "incrReply" \notin seen'
    BY <1>b, SeenGrows DEF Unambiguous
  <2>2. Accounted' \subseteq Accounted \cup S
    BY <1>a, <1>1, <1>3, InOwed, InOwedAfter DEF Adds, Accounted
  <2>3. Accounted \subseteq Known /\ HeldBy(saved.counter) \subseteq Known
    BY <1>a, SavedKnown DEF Accounted, Known
  <2>4. /\ \A i, j \in S : i = j
        /\ \A i \in S, j \in Known : i[1] # j[1]
    BY <1>3, <2>1 DEF Adds
  <2>5. \A i, j \in Accounted' : i[1] = j[1] => Same(i, j)
    BY <1>a, <2>1, <2>2, <2>3, <2>4 DEF EachInv, Same
  <2>6. ~restarted => OneEach(Accounted' \cup HeldBy(saved'.counter))
    BY <1>a, <1>4, <2>1, <2>2, <2>3, <2>4 DEF EachInv, OneEach
  <2> QED
    BY <1>b, <2>5, <2>6
<1>7. DoneInv'
  BY <1>a, <1>3 DEF DoneInv, Adds
<1>8. BrokerInv'
  <2>1. BrokerInv /\ (taken' = taken \/ taken' = NoneTaken)
    BY DEF RestartInv, Undisturbed
  <2>2. taken' \in [Events -> Nat]
    BY <2>1 DEF BrokerInv, NoneTaken
  <2> SUFFICES ASSUME NEW e \in Events
               PROVE  taken'[e] <= queued'[e] /\ saved'.waiting[e] <= queued'[e]
    BY <2>2 DEF BrokerInv
  <2>3. queued[e] \in Nat /\ queued[e] <= queued'[e] /\ queued'[e] \in Nat
    BY <1>a, <1>b, <1>1, QueuedGrows DEF TypeOK
  <2>4. taken[e] \in Nat /\ taken[e] <= queued[e]
    BY <2>1 DEF BrokerInv
  <2>5. saved.waiting[e] \in Nat /\ saved.waiting[e] <= queued[e]
    BY <2>1, <1>a DEF BrokerInv, SavedTyped
  <2>6. taken'[e] = taken[e] \/ taken'[e] = 0
    BY <2>1 DEF NoneTaken
  <2>7. saved'.waiting[e] = saved.waiting[e] \/ saved'.waiting[e] = 0
    BY <1>b DEF NoSnapshot
  <2> QED
    BY <2>3, <2>4, <2>5, <2>6, <2>7
<1> QED
  BY <1>1, <1>2, <1>4, <1>5, <1>6, <1>7, <1>8 DEF RestartInv, SavedInv

LEMMA SaveSnapshotInv == RestartInv /\ SaveSnapshot => RestartInv'
<1> SUFFICES ASSUME RestartInv, SaveSnapshot PROVE RestartInv'
  OBVIOUS
<1>a. /\ TypeOK /\ LedgerInv /\ KnownInv /\ CountInv /\ FirstInv /\ EachInv /\ DoneInv
      /\ ~restarted /\ BrokerInv
  BY DEF RestartInv, SaveSnapshot
<1>b. /\ saved' = [counter |-> counter, pending |-> pending, waiting |-> Waiting]
      /\ UNCHANGED <<vars, restarted>> /\ [Next]_vars
  BY DEF SaveSnapshot
<1>1. TypeOK' /\ LedgerInv' /\ KnownInv'
  BY <1>a, <1>b, StepTypeOK, StepLedgerInv, StepKnownInv
<1>2. CountInv'
  BY <1>a, <1>b, <1>1, StepCountInv
<1>3. UNCHANGED <<Known, Owed, PostedIncrements, click, seen, restarted>>
  BY <1>b DEF vars, stores, flush, history, failure, Known, Owed, IsOwed, PostedIncrements
<1>4. /\ \A c \in Codes : counter[c] \subseteq Owed
      /\ \A c, d \in Codes : c # d => counter[c] \cap counter[d] = {}
  BY <1>a DEF TypeOK, Owed, IsOwed, LedgerInv, OnePlace
<1>5. saved'.counter = counter /\ HeldBy(counter) \subseteq Owed
  BY <1>b, <1>4 DEF HeldBy
<1>6. SavedTyped' /\ BrokerInv'
  <2>1. \A e \in Events : queued[e] \in Nat /\ taken[e] \in Nat /\ taken[e] <= queued[e]
    BY <1>a DEF BrokerInv, TypeOK
  <2>2. \A e \in Events : Waiting[e] \in Nat /\ Waiting[e] <= queued[e]
    BY <2>1 DEF Waiting
  <2>3. Waiting \in [Events -> Nat]
    BY <2>2 DEF Waiting
  <2>4. SavedTyped'
    BY <1>a, <1>b, <2>3 DEF SavedTyped, TypeOK
  <2>5. saved'.waiting = Waiting /\ UNCHANGED <<queued, taken>>
    BY <1>b DEF SaveSnapshot, vars
  <2> QED
    BY <1>a, <2>2, <2>4, <2>5 DEF BrokerInv
<1>7. SavedApart' /\ SavedSent'
  BY <1>a, <1>3, <1>4, <1>5 DEF SavedApart, SavedSent, FirstInv, Known
<1>8. EachInv'
  <2> SUFFICES ASSUME Unambiguous'
               PROVE  /\ \A i, j \in Accounted' : i[1] = j[1] => Same(i, j)
                      /\ ~restarted' => OneEach(Accounted' \cup HeldBy(saved'.counter))
    BY DEF EachInv
  <2>1. Unambiguous /\ Accounted' = Accounted
    BY <1>3 DEF Unambiguous, Accounted
  <2>2. OneEach(Accounted) /\ \A i, j \in Accounted : i[1] = j[1] => Same(i, j)
    BY <1>a, <2>1 DEF EachInv, OneEach
  <2>3. Accounted' \cup HeldBy(saved'.counter) = Accounted
    BY <1>5, <2>1 DEF Accounted
  <2> QED
    BY <2>1, <2>2, <2>3
<1>9. FirstInv' /\ DoneInv'
  BY <1>a, <1>3 DEF FirstInv, DoneInv
<1> QED
  BY <1>1, <1>2, <1>6, <1>7, <1>8, <1>9 DEF RestartInv, SavedInv

(* What comes back belongs to the same redirect, is told from what was     *)
(* sent, and comes from one increment.                                     *)
LEMMA ReturnedIs ==
    /\ \A i \in Increments : Returned(i) \in Increments
    /\ \A i \in Increments : Returned(i)[1] = i[1] /\ Returned(i)[2] \notin FirstWays
    /\ \A i, j \in Increments :
           i[2] \in SentToRedis /\ j[2] \in SentToRedis /\ Returned(i) = Returned(j) => i = j
<1>1. ASSUME NEW i \in Increments
      PROVE  /\ Returned(i) \in Increments /\ Returned(i)[1] = i[1]
             /\ Returned(i)[2] = IF i[2] = "incr" THEN "incr again" ELSE "resent again"
  BY DEF Returned, Increments, Ways
<1>2. \A i \in Increments : Returned(i)[2] \notin FirstWays
  BY <1>1 DEF FirstWays
<1>3. ASSUME NEW i \in Increments, NEW j \in Increments,
             i[2] \in SentToRedis, j[2] \in SentToRedis, Returned(i) = Returned(j)
      PROVE  i = j
  <2>1. i[1] = j[1]
    BY <1>1, <1>3
  <2>2. i[2] = j[2]
    BY <1>1, <1>3 DEF SentToRedis
  <2>3. i = <<i[1], i[2]>> /\ j = <<j[1], j[2]>>
    BY DEF Increments
  <2> QED
    BY <2>1, <2>2, <2>3
<1> QED
  BY <1>1, <1>2, <1>3

(* A counter after the restart: what the snapshot and the counter share,   *)
(* and what came back.                                                     *)
LEMMA AfterRestart ==
    ASSUME RestartInv, RestartRedis
    PROVE  /\ \A c \in Codes : \A i : i \in counter'[c] <=>
                  \/ i \in saved.counter[c] /\ i \in counter[c]
                  \/ \E j \in saved.counter[c] : j \notin counter[c] /\ i = Returned(j)
           /\ UNCHANGED <<row, click, flush, edit, posted, dropped, seen>>
           /\ ~restarted /\ restarted'
           /\ lost' = lost \cup (HeldBy(counter) \ (HeldBy(saved.counter) \cup PostedIncrements))
           /\ saved' = NoSnapshot
           /\ \A c \in Codes : \A i \in saved.counter[c] :
                  i \in Known /\ i \in Increments /\ i[2] \in SentToRedis
<1>1. counter' = [c \in Codes |-> (saved.counter[c] \cap counter[c])
                      \cup {Returned(i) : i \in saved.counter[c] \ counter[c]}]
  BY DEF RestartRedis
<1>2. ASSUME NEW c \in Codes, NEW i
      PROVE  i \in counter'[c] <=>
                 \/ i \in saved.counter[c] /\ i \in counter[c]
                 \/ \E j \in saved.counter[c] : j \notin counter[c] /\ i = Returned(j)
  BY <1>1
<1>3. \A c \in Codes : \A i \in saved.counter[c] :
          i \in Known /\ i \in Increments /\ i[2] \in SentToRedis
  BY KnownTyped DEF RestartInv, SavedInv, SavedSent
<1> QED
  BY <1>2, <1>3 DEF RestartRedis

LEMMA RestartTypeOK == RestartInv /\ RestartRedis => TypeOK'
<1> SUFFICES ASSUME RestartInv, RestartRedis PROVE TypeOK'
  OBVIOUS
<1>1. TypeOK /\ SavedTyped
  BY DEF RestartInv, SavedInv
<1>2. counter' \in [Codes -> SUBSET Increments]
  <2>1. counter' = [c \in Codes |-> counter'[c]]
    BY DEF RestartRedis
  <2>2. \A c \in Codes : \A i : i \in counter'[c] => i \in Increments
    BY AfterRestart, ReturnedIs
  <2> QED
    BY <2>1, <2>2
<1>3. pending' \subseteq Codes
  BY <1>1 DEF RestartRedis, SavedTyped
<1>4. lost' \subseteq Increments
  <2>1. HeldBy(counter) \subseteq Increments
    BY <1>1 DEF TypeOK, HeldBy
  <2> QED
    BY <1>1, <2>1 DEF TypeOK, RestartRedis
<1>5. budget' \in Nat
  BY <1>1 DEF TypeOK, RestartRedis
<1>6. queued' \in [Events -> Nat]
  <2>1. queued' = [e \in Events |-> taken[e] + saved.waiting[e]]
    BY DEF RestartRedis, BrokerRestarts
  <2>2. \A e \in Events : taken[e] + saved.waiting[e] \in Nat
    BY <1>1 DEF RestartInv, BrokerInv, SavedTyped
  <2> QED
    BY <2>1, <2>2
<1> QED
  BY <1>1, <1>2, <1>3, <1>4, <1>5, <1>6 DEF TypeOK, RestartRedis, flush

(* After the restart the same increments are owed, and some that returned. *)
LEMMA OwedAfterRestart ==
    ASSUME RestartInv, RestartRedis, NEW i, IsOwed(i)'
    PROVE  \/ IsOwed(i)
           \/ /\ ~IsOwed(i) /\ i \notin Known /\ i[2] \notin FirstWays
              /\ \E j \in HeldBy(saved.counter) : j \in Increments /\ i = Returned(j)
<1>1. CASE IsOwed(i)
  BY <1>1
<1>2. CASE ~IsOwed(i)
  <2>1. PICK c \in Codes : i \in counter'[c]
    BY <1>2, AfterRestart DEF IsOwed, flush
  <2>2. PICK j \in saved.counter[c] : i = Returned(j)
    BY <1>2, <2>1, AfterRestart DEF IsOwed
  <2>3. j \in Increments /\ i[2] \notin FirstWays /\ j \in HeldBy(saved.counter)
    BY <2>2, AfterRestart, ReturnedIs DEF HeldBy
  <2>4. i \notin Known
    BY <2>3, AfterRestart DEF RestartInv, FirstInv
  <2> QED
    BY <1>2, <2>2, <2>3, <2>4
<1> QED
  BY <1>1, <1>2

LEMMA RestartOnePlace == RestartInv /\ RestartRedis => OnePlace'
<1> SUFFICES ASSUME RestartInv, RestartRedis PROVE OnePlace'
  OBVIOUS
<1>1. OnePlace /\ TypeOK /\ SavedApart
  BY DEF RestartInv, LedgerInv, SavedInv
<1>2. \A i : IsOwed(i) => i[2] \in FirstWays
  BY <1>1, InOwed, AfterRestart DEF RestartInv, FirstInv, FirstWays, SentToRedis, Owed, IsOwed, TypeOK
<1>3. ASSUME NEW c \in Codes, NEW d \in Codes, c # d, NEW i,
             i \in counter'[c], i \in counter'[d]
      PROVE  FALSE
  <2>1. CASE i \in counter[c] \/ i \in counter[d]
    <3>1. i[2] \in FirstWays
      BY <1>2, <2>1 DEF IsOwed
    <3>2. i \in counter[c] /\ i \in counter[d]
      BY <1>3, <3>1, AfterRestart, ReturnedIs
    <3> QED
      BY <1>1, <1>3, <3>2 DEF OnePlace
  <2>2. CASE i \notin counter[c] /\ i \notin counter[d]
    <3>1. PICK x \in saved.counter[c] : i = Returned(x)
      BY <1>3, <2>2, AfterRestart
    <3>2. PICK y \in saved.counter[d] : i = Returned(y)
      BY <1>3, <2>2, AfterRestart
    <3>3. x = y
      BY <3>1, <3>2, AfterRestart, ReturnedIs
    <3> QED
      BY <1>1, <1>3, <3>3 DEF SavedApart
  <2> QED
    BY <2>1, <2>2
<1>4. ASSUME NEW c \in Codes, NEW w \in Workers, NEW i, i \in counter'[c], i \in held[w]
      PROVE  FALSE
  <2>1. i[2] \in FirstWays
    BY <1>2, <1>4 DEF IsOwed
  <2>2. i \in counter[c]
    BY <1>4, <2>1, AfterRestart, ReturnedIs
  <2> QED
    BY <1>1, <1>4, <2>2 DEF OnePlace
<1>5. held' = held
  BY AfterRestart DEF flush
<1> QED
  BY <1>1, <1>3, <1>4, <1>5 DEF OnePlace

LEMMA KnownAfterRestart ==
    ASSUME RestartInv, RestartRedis, NEW i \in Known'
    PROVE  \/ i \in Known
           \/ /\ i[2] \notin FirstWays
              /\ \E j \in HeldBy(saved.counter) :
                     j \in Increments /\ j \in Known /\ i = Returned(j)
<1>1. TypeOK /\ TypeOK' /\ SavedSent
  BY RestartTypeOK DEF RestartInv, SavedInv
<1>2. CASE i \in Owed'
  <2>1. IsOwed(i)'
    BY <1>1, <1>2, InOwedAfter
  <2> QED
    BY <1>1, <2>1, OwedAfterRestart, InOwed, SavedKnown DEF Known
<1>3. CASE i \in PostedIncrements' \/ i \in dropped'
  BY <1>3, AfterRestart DEF Known, PostedIncrements
<1>4. CASE i \in lost'
  <2>1. HeldBy(counter) \subseteq Owed
    BY <1>1 DEF HeldBy, Owed, IsOwed, TypeOK
  <2> QED
    BY <1>4, <2>1, AfterRestart DEF Known
<1> QED
  BY <1>2, <1>3, <1>4 DEF Known

LEMMA RestartKnownInv == RestartInv /\ RestartRedis => KnownInv'
<1> SUFFICES ASSUME RestartInv, RestartRedis, NEW k \in Clicks
             PROVE  /\ click'[k].step = "new" => Unknown(k)'
                    /\ click'[k].step = "fallback" =>
                           /\ <<k, "update">> \notin Known'
                           /\ "incrReply" \notin seen' => Unknown(k)'
  BY DEF KnownInv
<1>1. click' = click /\ seen' = seen /\ KnownInv
  BY AfterRestart DEF RestartInv
<1>2. Unknown(k) => Unknown(k)'
  <2> SUFFICES ASSUME Unknown(k), NEW i \in Increments, i[1] = k, i \in Known' PROVE FALSE
    BY DEF Unknown
  <2>1. i \notin Known
    BY DEF Unknown
  <2>2. PICK j \in Increments : j \in Known /\ i = Returned(j)
    BY <2>1, KnownAfterRestart
  <2>3. j[1] = k
    BY <2>2, ReturnedIs
  <2> QED
    BY <2>2, <2>3 DEF Unknown
<1>3. <<k, "update">> \notin Known => <<k, "update">> \notin Known'
  <2>1. <<k, "update">>[2] \in FirstWays
    BY DEF FirstWays
  <2> QED
    BY <2>1, KnownAfterRestart
<1> QED
  BY <1>1, <1>2, <1>3 DEF KnownInv

LEMMA RestartLedgerInv == RestartInv /\ RestartRedis => LedgerInv'
<1> SUFFICES ASSUME RestartInv, RestartRedis PROVE LedgerInv'
  OBVIOUS
<1>1. TypeOK' /\ KnownInv' /\ OnePlace'
  BY RestartTypeOK, RestartKnownInv, RestartOnePlace
<1>2. HeldInFlight'
  BY AfterRestart DEF RestartInv, LedgerInv, HeldInFlight, flush
<1>3. NotYet'
  <2>1. \A i : InLedger(i)' => i \in Known'
    BY <1>1, InOwedAfter DEF InLedger, Known
  <2> QED
    BY <1>1, <2>1 DEF NotYet, KnownInv, Unknown
<1> QED
  BY <1>1, <1>2, <1>3 DEF LedgerInv

LEMMA RestartCountInv == RestartInv /\ RestartRedis => CountInv'
<1> SUFFICES ASSUME RestartInv, RestartRedis PROVE CountInv'
  OBVIOUS
<1>1. CountInv /\ TypeOK /\ UNCHANGED <<row, posted, seen>>
  BY AfterRestart DEF RestartInv
<1>2. NoneAhead' /\ (CountExact => CountExact')
  BY <1>1 DEF CountInv, NoneAhead, CountExact, LinkOf
<1>3. OwedUnposted => OwedUnposted'
  <2> SUFFICES ASSUME OwedUnposted, NEW i \in Increments, IsOwed(i)'
               PROVE  i \notin PostedIncrements'
    BY DEF OwedUnposted
  <2> QED
    BY <1>1, OwedAfterRestart DEF OwedUnposted, Known, PostedIncrements
<1> QED
  BY <1>1, <1>2, <1>3 DEF CountInv, Answered

LEMMA RestartEachInv == RestartInv /\ RestartRedis => EachInv'
<1> SUFFICES ASSUME RestartInv, RestartRedis, Unambiguous',
                    NEW i \in Accounted', NEW j \in Accounted', i[1] = j[1]
             PROVE  Same(i, j)
  BY AfterRestart DEF EachInv
<1> DEFINE First == Accounted \cup HeldBy(saved.counter)
<1>1. OneEach(First)
  BY AfterRestart DEF RestartInv, EachInv, Unambiguous
<1>2. ASSUME NEW x \in Accounted'
      PROVE  \/ x \in First
             \/ \E y \in First : y \in Increments /\ x = Returned(y)
  <2>1. TypeOK /\ TypeOK'
    BY RestartTypeOK DEF RestartInv
  <2>2. CASE x \in PostedIncrements'
    BY <2>2, AfterRestart DEF Accounted, PostedIncrements
  <2>3. CASE x \in Owed'
    BY <2>1, <2>3, InOwed, InOwedAfter, OwedAfterRestart DEF Accounted
  <2> QED
    BY <2>2, <2>3 DEF Accounted
<1>3. \A x \in First, y \in First :
          x[1] = y[1] => x = y
  BY <1>1 DEF OneEach
<1>4. CASE i \in First /\ j \in First
  BY <1>3, <1>4 DEF Same
<1>5. ASSUME i \in First, NEW y \in First, y \in Increments, j = Returned(y)
      PROVE  Same(i, j)
  <2>1. i = y
    BY <1>3, <1>5, ReturnedIs
  <2> QED
    BY <1>5, <2>1 DEF Same
<1>6. ASSUME j \in First, NEW y \in First, y \in Increments, i = Returned(y)
      PROVE  Same(i, j)
  <2>1. j = y
    BY <1>3, <1>6, ReturnedIs
  <2> QED
    BY <1>6, <2>1 DEF Same
<1>7. ASSUME NEW x \in First, x \in Increments, i = Returned(x),
             NEW y \in First, y \in Increments, j = Returned(y)
      PROVE  Same(i, j)
  <2>1. x = y
    BY <1>3, <1>7, ReturnedIs
  <2> QED
    BY <1>7, <2>1 DEF Same
<1> QED
  BY <1>2, <1>4, <1>5, <1>6, <1>7

LEMMA RestartDoneInv == RestartInv /\ RestartRedis => DoneInv'
<1> SUFFICES ASSUME RestartInv, RestartRedis, NEW k \in Clicks, click'[k].step = "done"
             PROVE  \E i \in Known' : i[1] = k
  BY DEF DoneInv
<1>1. PICK i \in Known : i[1] = k
  BY AfterRestart DEF RestartInv, DoneInv
<1>2. TypeOK /\ TypeOK'
  BY RestartTypeOK DEF RestartInv
<1>3. CASE i \in PostedIncrements \/ i \in dropped \/ i \in lost
  BY <1>1, <1>3, AfterRestart DEF Known, PostedIncrements
<1>4. ASSUME NEW w \in Workers, i \in held[w] PROVE \E j \in Known' : j[1] = k
  <2>1. IsOwed(i)'
    BY <1>4, AfterRestart DEF IsOwed, flush
  <2> QED
    BY <1>1, <1>2, <2>1, InOwedAfter DEF Known
<1>5. ASSUME NEW c \in Codes, i \in counter[c], i \notin PostedIncrements
      PROVE  \E j \in Known' : j[1] = k
  <2>1. CASE i \in HeldBy(saved.counter)
    <3>1. PICK d \in Codes : i \in saved.counter[d]
      BY <2>1 DEF HeldBy
    <3>2. \E j : j[1] = k /\ j \in counter'[d]
      BY <1>1, <3>1, AfterRestart, ReturnedIs
    <3>3. \E j : j[1] = k /\ IsOwed(j)'
      BY <3>2 DEF IsOwed
    <3> QED
      BY <1>2, <3>3, InOwedAfter DEF Known
  <2>2. CASE i \notin HeldBy(saved.counter)
    <3>1. i \in lost'
      BY <1>5, <2>2, AfterRestart DEF HeldBy
    <3> QED
      BY <1>1, <3>1 DEF Known
  <2> QED
    BY <2>1, <2>2
<1>6. i \in Owed => IsOwed(i)
  BY <1>2, InOwed
<1> QED
  BY <1>1, <1>3, <1>4, <1>5, <1>6 DEF Known, IsOwed

LEMMA RestartRedisInv == RestartInv /\ RestartRedis => RestartInv'
<1> SUFFICES ASSUME RestartInv, RestartRedis PROVE RestartInv'
  OBVIOUS
<1>1. saved' = NoSnapshot /\ restarted'
  BY AfterRestart
<1>2. SavedInv' /\ FirstInv'
  BY <1>1, NothingSaved DEF SavedInv, FirstInv
<1>3. BrokerInv'
  <2>1. \A e \in Events : queued'[e] \in Nat
    BY RestartTypeOK DEF TypeOK
  <2>2. taken' = NoneTaken
    BY DEF RestartRedis
  <2> QED
    BY <1>1, <2>1, <2>2 DEF BrokerInv, NoneTaken, NoSnapshot
<1> QED
  BY <1>2, <1>3, RestartTypeOK, RestartLedgerInv, RestartKnownInv, RestartCountInv,
     RestartEachInv, RestartDoneInv DEF RestartInv

(* The books do not change while the broker hands out messages.            *)
LEMMA SameBooks ==
    ASSUME RestartInv, UNCHANGED <<vars, saved, restarted>>, BrokerInv'
    PROVE  RestartInv'
<1>1. [Next]_vars
  OBVIOUS
<1>2. TypeOK' /\ LedgerInv' /\ KnownInv'
  BY <1>1, StepTypeOK, StepLedgerInv, StepKnownInv DEF RestartInv
<1>3. CountInv'
  BY <1>1, <1>2, StepCountInv DEF RestartInv
<1>4. UNCHANGED <<Known, Owed, PostedIncrements, click, seen, saved, restarted>>
  BY DEF vars, stores, flush, history, failure, Known, Owed, IsOwed, PostedIncrements
<1>5. SavedInv' /\ FirstInv' /\ DoneInv'
  BY <1>4 DEF RestartInv, SavedInv, SavedTyped, SavedApart, SavedSent, FirstInv, DoneInv
<1>6. EachInv'
  BY <1>4 DEF RestartInv, EachInv, Accounted, Unambiguous, OneEach, HeldBy
<1> QED
  BY <1>2, <1>3, <1>5, <1>6 DEF RestartInv

LEMMA TakeMessageInv ==
    ASSUME RestartInv, NEW e \in Events, TakeMessage(e)
    PROVE  RestartInv'
<1>1. BrokerInv /\ \A f \in Events : queued[f] \in Nat
  BY DEF RestartInv, TypeOK
<1>2. UNCHANGED <<vars, queued, saved, restarted>>
  BY DEF TakeMessage, vars
<1>3. /\ taken' \in [Events -> Nat]
      /\ \A f \in Events : taken'[f] <= queued[f]
  BY <1>1 DEF TakeMessage, BrokerInv
<1>4. BrokerInv'
  BY <1>1, <1>2, <1>3 DEF BrokerInv
<1> QED
  BY <1>2, <1>4, SameBooks

LEMMA StepRestartInv == RestartInv /\ [RestartNext]_restartVars => RestartInv'
<1> SUFFICES ASSUME RestartInv, [RestartNext]_restartVars PROVE RestartInv'
  OBVIOUS
<1>1. CASE UNCHANGED restartVars
  <2>1. UNCHANGED <<vars, queued, taken, saved, restarted>>
    BY <1>1 DEF restartVars, vars
  <2>2. BrokerInv'
    BY <2>1 DEF RestartInv, BrokerInv
  <2> QED
    BY <2>1, <2>2, SameBooks
<1> QED
  BY <1>1, UndisturbedInv, SaveSnapshotInv, RestartRedisInv, TakeMessageInv DEF RestartNext

(* What a restart of Redis costs: each increment still in one place,       *)
(* click_count still exact, a click counted twice only as itself and what  *)
(* the snapshot brought back, and no answered redirect missing without a   *)
(* record (flush_click_counters against `--save 60 1').                    *)
THEOREM RestartCostAlways == RestartSpec => []RestartCost
<1>1. RestartInv => RestartCost
  <2> SUFFICES ASSUME RestartInv, Unambiguous
               PROVE  /\ OnePlace /\ CountExact
                      /\ Owed \cap PostedIncrements = {}
                      /\ \A i, j \in Owed \cup PostedIncrements :
                            i[1] = j[1] => i = j \/ Returned(i) = j \/ Returned(j) = i
                      /\ \A k \in Clicks : click[k].step = "done" =>
                            \E i \in Owed \cup PostedIncrements \cup dropped \cup lost :
                                i[1] = k
    BY DEF RestartCost, Unambiguous
  <2>1. OnePlace
    BY DEF RestartInv, LedgerInv
  <2>2. CountExact /\ OwedUnposted
    BY DEF RestartInv, CountInv, Answered, Unambiguous
  <2>3. Owed \cap PostedIncrements = {}
    BY <2>2 DEF OwedUnposted, Owed
  <2>4. \A i, j \in Owed \cup PostedIncrements :
            i[1] = j[1] => i = j \/ Returned(i) = j \/ Returned(j) = i
    BY DEF RestartInv, EachInv, Accounted, Same
  <2>5. \A k \in Clicks : click[k].step = "done" =>
            \E i \in Owed \cup PostedIncrements \cup dropped \cup lost : i[1] = k
    BY DEF RestartInv, DoneInv, Known
  <2> QED
    BY <2>1, <2>2, <2>3, <2>4, <2>5
<1> QED
  BY <1>1, InitRestartInv, StepRestartInv, PTL DEF RestartSpec

(***************************************************************************)
(* Messages through the restart.  What the broker then has of an event was *)
(* published before, so the event is spent; what it has no longer is on    *)
(* record, unless a worker took it.                                        *)
(***************************************************************************)
MessageInv ==
    /\ EventInv /\ EventInFlight
    /\ EventOnceThroughRestart /\ FiredHasEventThroughRestart
    /\ ~restarted => brought = {} /\ missed = {}

(* The parts of a restart that concern one event.                          *)
LEMMA QueueAfterRestart ==
    ASSUME RestartInv, RestartRedis, NEW e \in Events
    PROVE  /\ queued[e] \in Nat /\ queued'[e] \in Nat
           /\ queued'[e] > 0 => queued[e] > 0
           /\ queued[e] > 0 /\ queued'[e] = 0 => e \in missed'
           /\ queued'[e] <= 2 * queued[e]
           /\ e \notin brought' => queued'[e] <= queued[e]
<1>1. /\ queued[e] \in Nat /\ taken[e] \in Nat /\ saved.waiting[e] \in Nat
      /\ taken[e] <= queued[e] /\ saved.waiting[e] <= queued[e]
  BY DEF RestartInv, TypeOK, BrokerInv, SavedInv, SavedTyped
<1>2. Waiting[e] = queued[e] - taken[e]
  BY DEF Waiting
<1>3. /\ queued'[e] = taken[e] + saved.waiting[e]
      /\ e \in missed' <=> Waiting[e] > saved.waiting[e]
      /\ e \in brought' <=> Waiting[e] < saved.waiting[e]
  BY DEF RestartRedis, BrokerRestarts
<1> QED
  BY <1>1, <1>2, <1>3

LEMMA RestartMessages == RestartInv /\ MessageInv /\ RestartRedis => MessageInv'
<1> SUFFICES ASSUME RestartInv, MessageInv, RestartRedis PROVE MessageInv'
  OBVIOUS
<1>1. UNCHANGED <<row, pc, event, seen>> /\ ~restarted /\ restarted'
  BY DEF RestartRedis, flush
<1>2. EventInv'
  <2>1. \A e \in Events : Spent(e) => Spent(e)'
    BY <1>1 DEF Spent
  <2>2. \A e \in Events : (queued'[e] > 0 => queued[e] > 0) /\ (queued[e] = 0 => queued'[e] = 0)
    BY QueueAfterRestart
  <2>3. \A w \in Workers : event[w] \subseteq Events
    BY DEF RestartInv, TypeOK
  <2> QED
    BY <1>1, <2>1, <2>2, <2>3 DEF MessageInv, EventInv
<1>3. EventOnceThroughRestart'
  <2> SUFFICES ASSUME NEW e \in Events
               PROVE  queued'[e] <= (IF e \in brought' THEN 2 ELSE 1) * OneHandOver'
    BY DEF EventOnceThroughRestart
  <2>1. OneHandOver' = OneHandOver /\ OneHandOver \in Nat
    BY <1>1 DEF OneHandOver
  <2>2. queued[e] <= OneHandOver
    <3>1. e \notin brought
      BY <1>1 DEF MessageInv
    <3> QED
      BY <2>1, <3>1 DEF MessageInv, EventOnceThroughRestart
  <2> QED
    BY <2>1, <2>2, QueueAfterRestart
<1>4. FiredHasEventThroughRestart'
  <2> SUFFICES ASSUME Delivering, NEW c \in Codes, row[c].fired
               PROVE  \E e \in Events :
                          e.code = c /\ e.id = row[c].id /\ (HasMessage(e)' \/ e \in missed')
    BY <1>1 DEF FiredHasEventThroughRestart, Delivering
  <2>1. PICK e \in Events : e.code = c /\ e.id = row[c].id /\ HasMessage(e)
    BY <1>1 DEF MessageInv, FiredHasEventThroughRestart, Delivering
  <2>2. HasMessage(e)' \/ e \in missed'
    BY <1>1, <2>1, QueueAfterRestart DEF HasMessage
  <2> QED
    BY <2>1, <2>2
<1> QED
  BY <1>1, <1>2, <1>3, <1>4 DEF MessageInv, EventInFlight

(* The steps of the pipeline, on which the record of the restart stands.   *)
LEMMA UndisturbedMessages ==
    ASSUME RestartInv, TypeOK', MessageInv, [Next]_vars, UNCHANGED <<brokerHistory, restarted>>
    PROVE  MessageInv'
<1>1. TypeOK /\ EventInv /\ EventInFlight /\ UNCHANGED <<brought, missed, restarted>>
  BY DEF RestartInv, MessageInv, brokerHistory
<1>2. EventInv' /\ MessageStep
  BY <1>1, StepEventInv, StepMessages
<1>3. EventOnceThroughRestart'
  <2> SUFFICES ASSUME NEW e \in Events
               PROVE  queued'[e] <= (IF e \in brought THEN 2 ELSE 1) * OneHandOver'
    BY <1>1 DEF EventOnceThroughRestart
  <2>1. OneHandOver \in Nat /\ OneHandOver' \in Nat /\ OneHandOver <= OneHandOver'
    BY SeenGrows, HandOverGrows
  <2>2. /\ queued[e] \in Nat
        /\ queued[e] <= (IF e \in brought THEN 2 ELSE 1) * OneHandOver
    BY <1>1 DEF TypeOK, MessageInv, EventOnceThroughRestart
  <2>3. queued'[e] = queued[e] \/ (queued'[e] \in Nat /\ queued'[e] <= OneHandOver')
    BY <1>1, StepQueued
  <2>4. CASE e \in brought
    BY <2>1, <2>2, <2>3, <2>4
  <2>5. CASE e \notin brought
    BY <2>1, <2>2, <2>3, <2>5
  <2> QED
    BY <2>4, <2>5
<1>4. FiredHasEventThroughRestart'
  <2> SUFFICES ASSUME Delivering', NEW c \in Codes, row'[c].fired
               PROVE  \E e \in Events :
                          e.code = c /\ e.id = row'[c].id /\ (HasMessage(e)' \/ e \in missed)
    BY <1>1 DEF FiredHasEventThroughRestart, Delivering
  <2>1. CASE OnItsWay(c)'
    BY <2>1 DEF OnItsWay
  <2>2. CASE row[c].fired /\ row'[c].id = row[c].id
    <3>1. Delivering
      BY SeenGrows DEF Delivering
    <3>2. PICK e \in Events : /\ e.code = c /\ e.id = row[c].id
                             /\ (HasMessage(e) \/ e \in missed)
      BY <2>2, <3>1 DEF MessageInv, FiredHasEventThroughRestart, Delivering
    <3>3. HasMessage(e) => HasMessage(e)'
      BY <1>2 DEF MessageStep
    <3>4. e.id = row'[c].id
      BY <2>2, <3>2
    <3> QED
      BY <3>2, <3>3, <3>4
  <2> QED
    BY <1>2, <2>1, <2>2 DEF MessageStep
<1> QED
  BY <1>1, <1>2, <1>3, <1>4 DEF MessageInv, MessageStep

LEMMA StepMessageInv ==
    RestartInv /\ RestartInv' /\ MessageInv /\ [RestartNext]_restartVars => MessageInv'
<1> SUFFICES ASSUME RestartInv, RestartInv', MessageInv, [RestartNext]_restartVars
             PROVE  MessageInv'
  OBVIOUS
<1>1. CASE RestartRedis
  BY <1>1, RestartMessages
<1>2. CASE Undisturbed \/ SaveSnapshot \/ (\E e \in Events : TakeMessage(e))
             \/ UNCHANGED restartVars
  <2>1. [Next]_vars /\ UNCHANGED <<brokerHistory, restarted>>
    BY <1>2 DEF Undisturbed, SaveSnapshot, TakeMessage, restartVars
  <2> QED
    BY <2>1, UndisturbedMessages DEF RestartInv
<1> QED
  BY <1>1, <1>2 DEF RestartNext

LEMMA InitMessageInv == RestartInit => MessageInv
<1> SUFFICES ASSUME RestartInit PROVE MessageInv
  OBVIOUS
<1>1. /\ EventInv /\ FiredInv
      /\ brought = {} /\ missed = {}
      /\ \A e \in Events : queued[e] = 0
      /\ \A c \in Codes : ~row[c].fired
  BY InitEventInv, InitFiredInv DEF RestartInit, Init
<1>2. OneHandOver \in Nat
  BY DEF OneHandOver
<1> QED
  BY <1>1, <1>2
  DEF MessageInv, FiredInv, EventOnceThroughRestart, FiredHasEventThroughRestart

(* A restart of Redis repeats no message but those its snapshot had and a  *)
(* worker took since, and these once: clicks that come back raise          *)
(* click_count beyond a threshold it has passed                            *)
(* (_increment_link_click_count_by; the broker is database 1 of the Redis  *)
(* that restarts).                                                         *)
THEOREM EventOnceThroughRestartAlways == RestartSpec => []EventOnceThroughRestart
<1>1. MessageInv => EventOnceThroughRestart
  BY DEF MessageInv
<1> QED
  BY <1>1, InitRestartInv, StepRestartInv, InitMessageInv, StepMessageInv, PTL
  DEF RestartSpec

(* What marks a row has its message, a worker that took it, or a restart   *)
(* that lost it with everything published after the snapshot.              *)
THEOREM FiredHasEventThroughRestartAlways ==
    RestartSpec => []FiredHasEventThroughRestart
<1>1. MessageInv => FiredHasEventThroughRestart
  BY DEF MessageInv
<1> QED
  BY <1>1, InitRestartInv, StepRestartInv, InitMessageInv, StepMessageInv, PTL
  DEF RestartSpec
=============================================================================
