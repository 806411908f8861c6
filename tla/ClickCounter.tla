---------------------------- MODULE ClickCounter ----------------------------
(***************************************************************************)
(* How a redirect reaches links.click_count, and how the click-threshold   *)
(* webhook is armed, marked and handed to the broker.                      *)
(*                                                                         *)
(* Actors: API requests (one per click), Celery workers running            *)
(* analytics.flush_click_counters, PATCH / POST / DELETE on a link.  Every *)
(* Redis command or pipeline and every database transaction is one step;   *)
(* everything else interleaves.                                            *)
(*                                                                         *)
(* Data abstraction.  A Redis counter is the set of the increments it      *)
(* holds (its value is their number): GETDEL empties it, INCRBY of what    *)
(* was taken puts the same increments back.  A short code is a number, so  *)
(* that sorted() is the order on numbers.  A link's id is its generation   *)
(* under its short code.  webhook_url and webhook_threshold are one field, *)
(* `hook', NoHook when either is unset.                                    *)
(***************************************************************************)
EXTENDS Naturals, FiniteSets

CONSTANTS Codes,      \* short codes
          Clicks,     \* the redirect requests of a behaviour, one click each
          Workers,    \* Celery worker processes
          Editors,    \* concurrent PATCH requests
          Thresholds, \* webhook thresholds a client may choose
          NoHook,     \* no webhook configured
          MaxLinks,   \* bound: links created in turn under one short code
          Faults,     \* the kinds of failure this instance allows
          MaxFaults   \* bound: failures in one behaviour

FaultKinds ==
    {"incrError",    \* the INCR pipeline fails, nothing applied
     "incrReply",    \* the INCR pipeline is applied and its reply is lost
     "dbError",      \* SQLAlchemyError, the transaction is rolled back
     "commitReply",  \* the commit is applied, an SQLAlchemyError is raised
     "connectError", \* any other exception, e.g. OSError: connection refused
     "getdelReply",  \* GETDEL is applied and its reply is lost
     "restoreError", \* the restoring pipeline raises RedisError
     "brokerError",  \* apply_async raises, nothing published
     "brokerReply",  \* the broker has the message and its reply is lost
     "expired",      \* seven days pass without an INCR: the key expires
     "crash"}        \* the worker dies, or a Redis call of it raises unapplied

ASSUME CodesAssumption == Codes \subseteq Nat
ASSUME ClicksAssumption == IsFiniteSet(Clicks)
ASSUME HookAssumption == Thresholds \subseteq Nat \ {0} /\ NoHook \notin Nat
ASSUME BoundsAssumption == MaxLinks \in Nat /\ MaxFaults \in Nat
ASSUME FaultsAssumption == Faults \subseteq FaultKinds

(* An increment: the click it counts and the way it was sent, or came back *)
(* from a snapshot of Redis (ClickCounterRestart).                         *)
Ways == {"incr", "resent", "update", "incr again", "resent again"}

Increments == Clicks \X Ways

(* event_id = link.threshold.<link id>.<threshold>                         *)
Events == [code : Codes, id : 1 .. MaxLinks, threshold : Thresholds]

Hooks == Thresholds \cup {NoHook}

VARIABLES
    row,     \* PostgreSQL: the last row inserted under each short code
    counter, \* Redis: link:<code>:clicks; {} when the key does not exist
    pending, \* Redis: the set analytics:click_counters:pending
    click,   \* where each redirect request is
    pc,      \* where each worker's flush task is
    todo,    \* the codes a flush task has still to process, current included
    held,    \* the increments a worker took by GETDEL and has not written
    event,   \* the webhook dispatch a worker has committed and not enqueued
    edit,    \* the PATCH requests in progress
    queued,  \* broker: messages of each event, waiting there or taken
    posted,  \* history: increment added to the click_count of which link
    dropped, \* history: increments with no link left to credit
    lost,    \* history: increments nobody will ever write
    seen,    \* history: kinds of failure that happened
    budget   \* bound: failures still allowed

stores  == <<row, counter, pending>>
flush   == <<pc, todo, held, event>>
history == <<posted, dropped, lost>>
failure == <<seen, budget>>
vars    == <<stores, click, flush, edit, queued, history, failure>>

(***************************************************************************)
(* Failures.                                                               *)
(***************************************************************************)
Fault(kind) ==
    /\ kind \in Faults
    /\ budget > 0
    /\ budget' = budget - 1
    /\ seen' = seen \cup {kind}

NoFault == UNCHANGED failure

(* The increments already added to some click_count.                       *)
PostedIncrements == {p[1] : p \in posted}

(***************************************************************************)
(* Helpers.                                                                *)
(***************************************************************************)
(* `for short_code in sorted(short_codes)': the next code of a flush.      *)
IsNext(c, codes) == c \in codes /\ \A d \in codes : c <= d

(* The link the row of c holds, as the pair (code, id).                    *)
LinkOf(c) == [code |-> c, id |-> row[c].id]

(* Mutants of Crosses: a row reset by PATCH fires again; the threshold     *)
(* must be hit exactly.                                                    *)
CrossesAgain(r, n) == r.hook # NoHook /\ ~r.fired /\ r.hook <= r.count + n
CrossesExactly(r, n) == r.hook # NoHook /\ ~r.fired /\ r.hook = r.count + n

(* `old < webhook_threshold <= new', on a row that has not fired.          *)
Crosses(r, n) ==
    /\ r.hook # NoHook
    /\ ~r.fired
    /\ r.count < r.hook
    /\ r.hook <= r.count + n

(***************************************************************************)
(* Types, and the initial state: no link, nothing counted, nothing runs. *)
(***************************************************************************)
Row == [live : BOOLEAN, id : 0 .. MaxLinks, count : Nat, hook : Hooks,
        fired : BOOLEAN]
Request == [step : {"new", "fallback", "done", "failed"}, code : Codes,
            id : 0 .. MaxLinks]
NoEdit == [step |-> "idle"]
Edit == [step : {"loaded"}, code : Codes, id : 1 .. MaxLinks, hook : Hooks,
         fired : BOOLEAN, new : Hooks] \cup {NoEdit}
Links == [code : Codes, id : 1 .. MaxLinks]

Init ==
    /\ row = [c \in Codes |-> [live |-> FALSE, id |-> 0, count |-> 0,
                               hook |-> NoHook, fired |-> FALSE]]
    /\ counter = [c \in Codes |-> {}]
    /\ pending = {}
    /\ click \in [Clicks -> [step : {"new"}, code : Codes, id : {0}]]
    /\ pc = [w \in Workers |-> "idle"]
    /\ todo = [w \in Workers |-> {}]
    /\ held = [w \in Workers |-> {}]
    /\ event = [w \in Workers |-> {}]
    /\ edit = [e \in Editors |-> NoEdit]
    /\ queued = [e \in Events |-> 0]
    /\ posted = {} /\ dropped = {} /\ lost = {}
    /\ seen = {} /\ budget = MaxFaults
-----------------------------------------------------------------------------
(***************************************************************************)
(* Links: POST, DELETE and PATCH /links.                                   *)
(***************************************************************************)
CreateLink(c, h) ==
    /\ ~row[c].live
    /\ row[c].id < MaxLinks
    /\ row' = [row EXCEPT ![c] = [live |-> TRUE, id |-> @.id + 1, count |-> 0,
                                  hook |-> h, fired |-> FALSE]]
    /\ UNCHANGED <<counter, pending, click, flush, edit, queued, history>>
    /\ NoFault

(* Neither the counter nor the pending set is touched.                     *)
DeleteLink(c) ==
    /\ row[c].live
    /\ row' = [row EXCEPT ![c].live = FALSE]
    /\ UNCHANGED <<counter, pending, click, flush, edit, queued, history>>
    /\ NoFault

(* update_link reads the row without a lock ...                            *)
LoadForUpdate(e, c, h) ==
    /\ edit[e].step = "idle"
    /\ row[c].live
    /\ edit' = [edit EXCEPT ![e] =
                  [step |-> "loaded", code |-> c, id |-> row[c].id,
                   hook |-> row[c].hook, fired |-> row[c].fired, new |-> h]]
    /\ UNCHANGED <<stores, click, flush, queued, history>>
    /\ NoFault

(* ... and its commit writes only the columns that differ from what it     *)
(* read: webhook_fired is reset only if it was read as true.  A row that   *)
(* is gone fails the request and changes nothing.                          *)
Patched(r, loaded) ==
    [r EXCEPT !.hook = IF loaded.new # loaded.hook THEN loaded.new ELSE r.hook,
              !.fired = r.fired /\ ~loaded.fired]

CommitUpdate(e) ==
    /\ edit[e].step = "loaded"
    /\ LET loaded == edit[e]
           c      == loaded.code
       IN  row' = IF row[c].live /\ row[c].id = loaded.id
                  THEN [row EXCEPT ![c] = Patched(@, loaded)]
                  ELSE row
    /\ edit' = [edit EXCEPT ![e] = NoEdit]
    /\ UNCHANGED <<counter, pending, click, flush, queued, history>>
    /\ NoFault
-----------------------------------------------------------------------------
(***************************************************************************)
(* Redirects: _record_click.  The link may be gone and still be served     *)
(* from the cache, so only its having existed is required.                 *)
(***************************************************************************)
Redirected(k, step) ==
    /\ click[k].step = "new"
    /\ row[click[k].code].id > 0
    /\ click' = [click EXCEPT ![k].step = step,
                              ![k].id = row[click[k].code].id]

(* Mutant of AddToCounter: SET instead of INCR or INCRBY.                  *)
SetCounter(c, incs) ==
    /\ counter' = [counter EXCEPT ![c] = incs]
    /\ pending' = pending \cup {c}

AddToCounter(c, incs) ==
    /\ counter' = [counter EXCEPT ![c] = @ \cup incs]
    /\ pending' = pending \cup {c}

(* MULTI INCR, SADD, EXPIRE EXEC.                                          *)
IncrementCounter(k) ==
    /\ Redirected(k, "done")
    /\ AddToCounter(click[k].code, {<<k, "incr">>})
    /\ UNCHANGED <<row, flush, edit, queued, history>>
    /\ NoFault

(* RedisError: increment_link_click_counter returns None.                  *)
IncrementFails(k) ==
    /\ Redirected(k, "fallback")
    /\ Fault("incrError")
    /\ UNCHANGED <<stores, flush, edit, queued, history>>

(* The pipeline times out after it was applied; retry_on_timeout sends it  *)
(* again, and that attempt succeeds, times out applied, or is refused.     *)
IncrementTimesOut(k) ==
    /\ \/ /\ Redirected(k, "done")
          /\ AddToCounter(click[k].code, {<<k, "incr">>, <<k, "resent">>})
       \/ /\ Redirected(k, "fallback")
          /\ \/ AddToCounter(click[k].code, {<<k, "incr">>})
             \/ AddToCounter(click[k].code, {<<k, "incr">>, <<k, "resent">>})
    /\ Fault("incrReply")
    /\ UNCHANGED <<row, flush, edit, queued, history>>

(* UPDATE links SET click_count = click_count + 1 WHERE short_code = ...   *)
(* No row matched: nothing to credit.  No webhook is looked at.            *)
DirectIncrement(k) ==
    LET c == click[k].code
        i == <<k, "update">>
    IN  IF row[c].live
        THEN /\ row' = [row EXCEPT ![c].count = @ + 1]
             /\ posted' = posted \cup {<<i, LinkOf(c)>>}
             /\ dropped' = dropped
        ELSE /\ dropped' = dropped \cup {i}
             /\ UNCHANGED <<row, posted>>

IncrementClickCount(k) ==
    /\ click[k].step = "fallback"
    /\ DirectIncrement(k)
    /\ click' = [click EXCEPT ![k].step = "done"]
    /\ UNCHANGED <<counter, pending, flush, edit, queued, lost>>
    /\ NoFault

(* The fallback raises: the client gets a 500 instead of its redirect.     *)
IncrementClickCountFails(k) ==
    /\ click[k].step = "fallback"
    /\ click' = [click EXCEPT ![k].step = "failed"]
    /\ \/ /\ Fault("dbError") \/ Fault("connectError")
          /\ UNCHANGED <<row, posted, dropped>>
       \/ Fault("commitReply") /\ DirectIncrement(k)
    /\ UNCHANGED <<counter, pending, flush, edit, queued, lost>>
-----------------------------------------------------------------------------
(***************************************************************************)
(* The flush task.  pc: "next" (top of the loop), "update" (GETDEL done),  *)
(* "restore", "enqueue", "exists", "sadd", "srem".                         *)
(***************************************************************************)
Goto(w, step) == pc' = [pc EXCEPT ![w] = step]

(* Beat's message is taken by an idle worker: SMEMBERS.                    *)
FlushStart(w) ==
    /\ pc[w] = "idle"
    /\ Goto(w, "next")
    /\ todo' = [todo EXCEPT ![w] = pending]
    /\ UNCHANGED <<stores, click, held, event, edit, queued, history>>
    /\ NoFault

FlushDone(w) ==
    /\ pc[w] = "next"
    /\ todo[w] = {}
    /\ Goto(w, "idle")
    /\ UNCHANGED <<stores, click, todo, held, event, edit, queued, history>>
    /\ NoFault

(* Mutant of Take: GET, and DEL left for later.                            *)
TakeByGet(w, c) ==
    /\ held' = [held EXCEPT ![w] = counter[c]]
    /\ counter' = counter

Take(w, c) ==
    /\ held' = [held EXCEPT ![w] = counter[c]]
    /\ counter' = [counter EXCEPT ![c] = {}]

(* Mutant of GetDel: a code without a counter is passed by, not removed.   *)
GetDelSkips(w) ==
    /\ pc[w] = "next"
    /\ \E c \in Codes :
         /\ IsNext(c, todo[w])
         /\ Take(w, c)
         /\ IF counter[c] = {}
            THEN Goto(w, "next") /\ todo' = [todo EXCEPT ![w] = @ \ {c}]
            ELSE Goto(w, "update") /\ todo' = todo
    /\ UNCHANGED <<row, pending, click, event, edit, queued, history>>
    /\ NoFault

GetDel(w) ==
    /\ pc[w] = "next"
    /\ \E c \in Codes :
         /\ IsNext(c, todo[w])
         /\ Take(w, c)
         /\ Goto(w, IF counter[c] = {} THEN "srem" ELSE "update")
    /\ UNCHANGED <<row, pending, click, todo, event, edit, queued, history>>
    /\ NoFault

(* _increment_link_click_count_by: one transaction under SELECT FOR UPDATE *)
(* Mutant of Credited: the flushed value replaces click_count.             *)
CreditedBySet(r, n) ==
    [r EXCEPT !.count = n, !.fired = r.fired \/ Crosses(r, n)]

Credited(r, n) ==
    [r EXCEPT !.count = r.count + n, !.fired = r.fired \/ Crosses(r, n)]

(* Mutants of Dispatch: an event for every row that has not fired, with or *)
(* without a hook; a row marked, its event built only at the exact count.  *)
DispatchUnfired(c, r, n) ==
    IF r.fired THEN {}
    ELSE {[code |-> c, id |-> r.id, threshold |-> r.hook]}

DispatchAtThreshold(c, r, n) ==
    IF Crosses(r, n) /\ r.count + n = r.hook
    THEN {[code |-> c, id |-> r.id, threshold |-> r.hook]} ELSE {}

Dispatch(c, r, n) ==
    IF Crosses(r, n)
    THEN {[code |-> c, id |-> r.id, threshold |-> r.hook]} ELSE {}

Post(w, c) ==
    /\ row[c].live
    /\ row' = [row EXCEPT ![c] = Credited(@, Cardinality(held[w]))]
    /\ posted' = posted \cup (held[w] \X {LinkOf(c)})

UpdateLink(w) ==
    /\ pc[w] = "update"
    /\ \E c \in Codes :
         /\ IsNext(c, todo[w])
         /\ Post(w, c)
         /\ event' = [event EXCEPT ![w] =
                         Dispatch(c, row[c], Cardinality(held[w]))]
    /\ Goto(w, IF event'[w] # {} THEN "enqueue" ELSE "exists")
    /\ held' = [held EXCEPT ![w] = {}]
    /\ UNCHANGED <<counter, pending, click, todo, edit, queued, dropped, lost>>
    /\ NoFault

LinkNotFound(w) ==
    /\ pc[w] = "update"
    /\ \E c \in Codes : IsNext(c, todo[w]) /\ ~row[c].live
    /\ Goto(w, "srem")
    /\ dropped' = dropped \cup held[w]
    /\ held' = [held EXCEPT ![w] = {}]
    /\ UNCHANGED <<stores, click, todo, event, edit, queued, posted, lost>>
    /\ NoFault

(* except SQLAlchemyError: the transaction was rolled back, or it was      *)
(* committed and the answer lost; then a webhook marked in it is not sent. *)
UpdateRaises(w) ==
    /\ pc[w] = "update"
    /\ Goto(w, "restore")
    /\ \/ /\ Fault("dbError")
          /\ UNCHANGED <<row, posted>>
       \/ /\ Fault("commitReply")
          /\ \E c \in Codes : IsNext(c, todo[w]) /\ Post(w, c)
    /\ UNCHANGED <<counter, pending, click, todo, held, event, edit, queued,
                   dropped, lost>>

(* Mutant of Restore: the code is registered again, nothing is added back. *)
RestoreForgets(w) ==
    /\ pc[w] = "restore"
    /\ \E c \in Codes : IsNext(c, todo[w]) /\ AddToCounter(c, {})
    /\ Goto(w, "idle")
    /\ held' = [held EXCEPT ![w] = {}]
    /\ todo' = [todo EXCEPT ![w] = {}]
    /\ UNCHANGED <<row, click, event, edit, queued, history>>
    /\ NoFault

(* _restore_pending_click_counter, then the exception goes on to Celery,   *)
(* whose retry is a later FlushStart.                                      *)
Restore(w) ==
    /\ pc[w] = "restore"
    /\ \E c \in Codes : IsNext(c, todo[w]) /\ AddToCounter(c, held[w])
    /\ Goto(w, "idle")
    /\ held' = [held EXCEPT ![w] = {}]
    /\ todo' = [todo EXCEPT ![w] = {}]
    /\ UNCHANGED <<row, click, event, edit, queued, history>>
    /\ NoFault

Published(w, n) ==
    queued' = [e \in Events |-> IF e \in event[w] THEN queued[e] + n
                                                  ELSE queued[e]]

(* _enqueue_webhook_dispatch                                               *)
Enqueue(w) ==
    /\ pc[w] = "enqueue"
    /\ Published(w, 1)
    /\ event' = [event EXCEPT ![w] = {}]
    /\ Goto(w, "exists")
    /\ UNCHANGED <<stores, click, todo, held, edit, history>>
    /\ NoFault

(* The broker has the message and its reply is lost.  The client publishes *)
(* again and goes on, with two messages in the queue; or it gives up and   *)
(* apply_async raises, whatever the queue holds by then.                   *)
EnqueueUnanswered(w) ==
    /\ pc[w] = "enqueue"
    /\ Fault("brokerReply")
    /\ \/ /\ Published(w, 2)
          /\ Goto(w, "exists")
          /\ todo' = todo
       \/ /\ \E n \in 1 .. 2 : Published(w, n)
          /\ Goto(w, "idle")
          /\ todo' = [todo EXCEPT ![w] = {}]
    /\ event' = [event EXCEPT ![w] = {}]
    /\ UNCHANGED <<stores, click, held, edit, history>>

CounterExists(w) ==
    /\ pc[w] = "exists"
    /\ \E c \in Codes :
         /\ IsNext(c, todo[w])
         /\ Goto(w, IF counter[c] # {} THEN "sadd" ELSE "srem")
    /\ UNCHANGED <<stores, click, todo, held, event, edit, queued, history>>
    /\ NoFault

(* The SADD or SREM that ends the processing of a code.                    *)
SetPending(w) ==
    /\ \E c \in Codes :
         /\ IsNext(c, todo[w])
         /\ \/ pc[w] = "sadd" /\ pending' = pending \cup {c}
            \/ pc[w] = "srem" /\ pending' = pending \ {c}
         /\ todo' = [todo EXCEPT ![w] = @ \ {c}]
    /\ Goto(w, "next")
    /\ UNCHANGED <<row, counter, click, held, event, edit, queued, history>>
    /\ NoFault

(* The task dies: what it holds in memory is gone.                         *)
Abort(w) ==
    /\ Goto(w, "idle")
    /\ todo' = [todo EXCEPT ![w] = {}]
    /\ held' = [held EXCEPT ![w] = {}]
    /\ event' = [event EXCEPT ![w] = {}]
    /\ lost' = lost \cup (held[w] \ PostedIncrements)
    /\ UNCHANGED <<stores, click, edit, queued, posted, dropped>>

TaskFails(w) ==
    /\ \/ pc[w] # "idle" /\ Fault("crash")
       \/ pc[w] = "update" /\ Fault("connectError")
       \/ pc[w] = "restore" /\ Fault("restoreError")
       \/ pc[w] = "enqueue" /\ Fault("brokerError")
    /\ Abort(w)

(* GETDEL applied, answer lost: a retry finds no key, an error ends the    *)
(* task; the increments are gone either way.                               *)
GetDelTimesOut(w) ==
    /\ pc[w] = "next"
    /\ Fault("getdelReply")
    /\ \E c \in Codes :
         /\ IsNext(c, todo[w])
         /\ counter' = [counter EXCEPT ![c] = {}]
         /\ lost' = lost \cup (counter[c] \ PostedIncrements)
    /\ \/ Goto(w, "srem") /\ todo' = todo
       \/ Goto(w, "idle") /\ todo' = [todo EXCEPT ![w] = {}]
    /\ UNCHANGED <<row, pending, click, held, event, edit, queued, posted,
                   dropped>>

CounterExpires(c) ==
    /\ counter[c] # {}
    /\ Fault("expired")
    /\ counter' = [counter EXCEPT ![c] = {}]
    /\ lost' = lost \cup (counter[c] \ PostedIncrements)
    /\ UNCHANGED <<row, pending, click, flush, edit, queued, posted, dropped>>
-----------------------------------------------------------------------------
LinkStep ==
    \E c \in Codes :
        \/ \E h \in Hooks : CreateLink(c, h)
        \/ DeleteLink(c)
        \/ \E e \in Editors, h \in Hooks : LoadForUpdate(e, c, h)

EditStep == \E e \in Editors : CommitUpdate(e)

ClickStep(k) ==
    \/ IncrementCounter(k) \/ IncrementFails(k) \/ IncrementTimesOut(k)
    \/ IncrementClickCount(k) \/ IncrementClickCountFails(k)

(* The steps of a flush task that has started and that nothing disturbs.   *)
FlushStep(w) ==
    \/ FlushDone(w) \/ GetDel(w) \/ UpdateLink(w) \/ LinkNotFound(w)
    \/ Restore(w) \/ Enqueue(w) \/ CounterExists(w) \/ SetPending(w)

WorkerStep(w) ==
    \/ FlushStart(w) \/ FlushStep(w)
    \/ UpdateRaises(w) \/ TaskFails(w) \/ GetDelTimesOut(w)
    \/ EnqueueUnanswered(w)

Next ==
    \/ LinkStep
    \/ EditStep
    \/ \E k \in Clicks : ClickStep(k)
    \/ \E w \in Workers : WorkerStep(w)
    \/ \E c \in Codes : CounterExpires(c)

Spec == Init /\ [][Next]_vars

(* Beat sends a flush message every 30 s and some worker takes it; a       *)
(* running task and a request handler go on by themselves.                 *)
Fairness ==
    /\ WF_vars(\E w \in Workers : FlushStart(w))
    /\ \A w \in Workers : WF_vars(FlushStep(w))
    /\ \A k \in Clicks : WF_vars(IncrementClickCount(k))

FairSpec == Spec /\ Fairness
-----------------------------------------------------------------------------
(***************************************************************************)
(* Properties.                                                             *)
(***************************************************************************)
TypeOK ==
    /\ row \in [Codes -> Row]
    /\ \A c \in Codes : row[c].live => row[c].id > 0
    /\ counter \in [Codes -> SUBSET Increments]
    /\ pending \subseteq Codes
    /\ click \in [Clicks -> Request]
    /\ pc \in [Workers -> {"idle", "next", "update", "restore", "enqueue",
                           "exists", "sadd", "srem"}]
    /\ todo \in [Workers -> SUBSET Codes]
    /\ held \in [Workers -> SUBSET Increments]
    /\ event \in [Workers -> SUBSET Events]
    /\ edit \in [Editors -> Edit]
    /\ queued \in [Events -> Nat]
    /\ posted \subseteq Increments \X Links
    /\ dropped \subseteq Increments
    /\ lost \subseteq Increments
    /\ seen \subseteq FaultKinds
    /\ budget \in Nat

(* The increments some counter or some worker still owes to click_count.   *)
IsOwed(i) == \/ \E c \in Codes : i \in counter[c]
             \/ \E w \in Workers : i \in held[w]

Owed == {i \in Increments : IsOwed(i)}

(* An increment taken by one flush is nowhere else: not in a counter, not  *)
(* with the other worker, whatever fails and whichever flushes overlap.    *)
(* (GETDEL is atomic and only the taker restores.)                         *)
OnePlace ==
    /\ \A c, d \in Codes : c # d => counter[c] \cap counter[d] = {}
    /\ \A c \in Codes, w \in Workers : counter[c] \cap held[w] = {}
    /\ \A v, w \in Workers : v # w => held[v] \cap held[w] = {}

(* No redirect is counted twice - an increment already in click_count is   *)
(* not owed again, and one redirect leaves one increment - unless Redis or *)
(* PostgreSQL applied something and the answer was lost.                   *)
CountedOnce ==
    seen \cap {"incrReply", "commitReply"} = {} =>
        /\ Owed \cap PostedIncrements = {}
        /\ \A i, j \in Owed \cup PostedIncrements : i[1] = j[1] => i = j

(* Every answered redirect is owed, counted, or belonged to a link that    *)
(* was deleted: an SQLAlchemyError during a flush, a Redis outage on the   *)
(* redirect path and overlapping flushes lose nothing.  (What loses clicks *)
(* is listed here: a dead worker, any other exception, a lost GETDEL       *)
(* reply, a failed restore, seven days without a flush.)                   *)
NothingVanishes ==
    seen \cap {"crash", "connectError", "getdelReply", "restoreError",
               "expired"} = {} =>
        \A k \in Clicks : click[k].step = "done" =>
            \E i \in Owed \cup PostedIncrements \cup dropped : i[1] = k

(* click_count is exactly the number of increments posted to that link:    *)
(* no flush, fallback UPDATE or PATCH overwrites another's.                *)
CountExact ==
    "commitReply" \notin seen =>
        \A c \in Codes :
            row[c].count = Cardinality({p \in posted : p[2] = LinkOf(c)})

(* What handing an event over once can put into the queue.                 *)
OneHandOver == IF "brokerReply" \in seen THEN 2 ELSE 1

(* Each event id is handed to the broker once: one message, or the two of  *)
(* a publication that was sent again for want of a reply, for all          *)
(* interleavings of flushes, PATCHes that reset webhook_fired,             *)
(* re-creations of the short code, failures and retries.                   *)
EventOnce == \A e \in Events : queued[e] <= OneHandOver

(* The event exists for somebody: a worker is about to hand it over, or    *)
(* its message is in the broker or was taken.                              *)
HasMessage(e) == queued[e] > 0 \/ \E w \in Workers : e \in event[w]

(* webhook_fired never stands for a message that is neither in the broker  *)
(* nor about to be, unless the worker lost it after its commit.            *)
FiredHasEvent ==
    seen \cap {"crash", "brokerError", "commitReply"} = {} =>
        \A c \in Codes : row[c].fired =>
            \E e \in Events :
                e.code = c /\ e.id = row[c].id /\ HasMessage(e)

(* Where no PATCH moves the threshold, a link whose click_count has        *)
(* reached it has fired, unless a click was counted by the fallback.       *)
FiredAtThreshold ==
    seen \cap {"incrError", "incrReply"} = {} =>
        \A c \in Codes :
            row[c].live /\ row[c].hook # NoHook /\ row[c].count >= row[c].hook
                => row[c].fired

(* Every flush that raises click_count to the threshold or finds it there  *)
(* marks the link: click_count >= webhook_threshold /\ ~webhook_fired does *)
(* not survive a flush of the link.                                        *)
FlushFiresAtThreshold ==
    [][\A w \in Workers, c \in Codes :
          UpdateLink(w) /\ IsNext(c, todo[w]) =>
              \/ row'[c].hook = NoHook
              \/ row'[c].count < row'[c].hook
              \/ row'[c].fired]_vars

(* webhook_fired stands for the event of the threshold now configured.     *)
FiredForHook ==
    \A c \in Codes : row[c].live /\ row[c].fired /\ row[c].hook # NoHook =>
        \E e \in Events :
            /\ e = [code |-> c, id |-> row[c].id, threshold |-> row[c].hook]
            /\ HasMessage(e)

(* Every code in the pending set leaves it: no worker failure, restored    *)
(* counter or slow neighbour keeps a code waiting for ever.                *)
PendingDrains == \A c \in Codes : c \in pending ~> c \notin pending

(* links.click_count is eventually consistent: every answered redirect is  *)
(* counted in the end, unless the link that served it is deleted.          *)
EventuallyCounted ==
    \A k \in Clicks : click[k].step = "done" ~>
        LET c == click[k].code
        IN  \/ \E i \in PostedIncrements : i[1] = k
            \/ ~row[c].live
            \/ row[c].id # click[k].id

(* The increment of an answered redirect ends in a click_count, or with a  *)
(* deleted link, or is one of the listed losses, or is in the one place    *)
(* no flush looks: a counter whose code left the pending set.  No retry,   *)
(* overlap or restore keeps it circulating or leaves it anywhere else.     *)
SettledOrStranded ==
    \A k \in Clicks, c \in Codes :
        <<k, "incr">> \in counter[c] ~>
            \/ <<k, "incr">> \in PostedIncrements \cup dropped \cup lost
            \/ <<k, "incr">> \in counter[c] /\ c \notin pending
=============================================================================
