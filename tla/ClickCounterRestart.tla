------------------------- MODULE ClickCounterRestart -------------------------
(***************************************************************************)
(* ClickCounter on a Redis that restarts.  docker-compose.yml runs Redis   *)
(* with `--save 60 1' on a volume: a snapshot now and then, of all its     *)
(* databases at one instant, and after a crash Redis comes back with the   *)
(* last one.  Database 0 has the counters and the pending set, database 1  *)
(* the messages of Celery that wait for a worker.  Workers and requests go *)
(* on with what they hold; a command that meets the restart itself is one  *)
(* of ClickCounter's failures.                                             *)
(***************************************************************************)
EXTENDS ClickCounter

VARIABLES
    taken,    \* messages of each event that a worker has taken
    saved,    \* Redis: the snapshot a restart will read
    brought,  \* history: events a restart put back after they were taken
    missed,   \* history: events whose message a restart did not bring back
    restarted \* bound: one restart in a behaviour

brokerHistory == <<brought, missed>>
restartVars   == <<vars, taken, saved, brokerHistory, restarted>>

NoSnapshot == [counter |-> [c \in Codes |-> {}], pending |-> {},
               waiting |-> [e \in Events |-> 0]]

NoneTaken == [e \in Events |-> 0]

RestartInit ==
    /\ Init
    /\ taken = NoneTaken
    /\ saved = NoSnapshot
    /\ brought = {} /\ missed = {}
    /\ restarted = FALSE

(* The messages in the list of the broker: published and not yet taken.    *)
Waiting == [e \in Events |-> queued[e] - taken[e]]

(* Only the last snapshot before the restart matters, so the earlier ones  *)
(* are left out, as is one that no failure is left to make use of.         *)
SaveSnapshot ==
    /\ ~restarted /\ budget > 0
    /\ saved = NoSnapshot
    /\ saved' = [counter |-> counter, pending |-> pending, waiting |-> Waiting]
    /\ UNCHANGED <<vars, taken, brokerHistory, restarted>>

Undisturbed ==
    /\ Next
    /\ saved' = IF budget' > 0 THEN saved ELSE NoSnapshot
    /\ taken' = IF budget' > 0 THEN taken ELSE NoneTaken
    /\ UNCHANGED <<brokerHistory, restarted>>

(* A worker takes a message of send_webhook_event (WebhookDelivery has the *)
(* rest): it is acknowledged, and gone from the broker, before it runs.    *)
(* After the last possible restart `taken' tells nothing and is cleared.   *)
TakeMessage(e) ==
    /\ ~restarted /\ budget > 0
    /\ taken[e] < queued[e]
    /\ taken' = [taken EXCEPT ![e] = @ + 1]
    /\ UNCHANGED <<vars, saved, brokerHistory, restarted>>

(* What was taken since the snapshot comes back as another increment: a    *)
(* worker may hold or restore the first one.                               *)
Returned(i) == <<i[1], IF i[2] = "incr" THEN "incr again" ELSE "resent again">>

HeldBy(counters) == UNION {counters[c] : c \in Codes}

(* Messages that workers took since the snapshot wait again, those that    *)
(* were published since are gone.                                          *)
BrokerRestarts ==
    /\ queued'  = [e \in Events |-> taken[e] + saved.waiting[e]]
    /\ brought' = {e \in Events : Waiting[e] < saved.waiting[e]}
    /\ missed'  = {e \in Events : Waiting[e] > saved.waiting[e]}

RestartRedis ==
    /\ ~restarted /\ budget > 0
    /\ restarted' = TRUE
    /\ budget' = budget - 1
    /\ counter' = [c \in Codes |->
           (saved.counter[c] \cap counter[c])
               \cup {Returned(i) : i \in saved.counter[c] \ counter[c]}]
    /\ pending' = saved.pending
    /\ BrokerRestarts
    /\ taken' = NoneTaken
    /\ saved' = NoSnapshot
    /\ lost' = lost \cup (HeldBy(counter) \ (HeldBy(saved.counter) \cup PostedIncrements))
    /\ UNCHANGED <<row, click, flush, edit, posted, dropped, seen>>

RestartNext ==
    \/ Undisturbed \/ SaveSnapshot \/ RestartRedis
    \/ \E e \in Events : TakeMessage(e)

RestartSpec == RestartInit /\ [][RestartNext]_restartVars

-----------------------------------------------------------------------------
(***************************************************************************)
(* Properties.                                                             *)
(***************************************************************************)
(* A restart repeats a threshold event only if a worker took its message   *)
(* after the last snapshot, and then once: otherwise there is one message, *)
(* or the two of a publication sent again (send_webhook_event.apply_async  *)
(* against `--save 60 1').  The flushes that run over the increments the   *)
(* restart brought back hand no event over again.                          *)
EventOnceThroughRestart ==
    \A e \in Events :
        queued[e] <= (IF e \in brought THEN 2 ELSE 1) * OneHandOver

(* webhook_fired stands for a message through a restart as well, unless    *)
(* the message was published after the last snapshot and no worker had     *)
(* taken it when Redis went down, or a worker lost it after its commit.    *)
FiredHasEventThroughRestart ==
    seen \cap {"crash", "brokerError", "commitReply"} = {} =>
        \A c \in Codes : row[c].fired =>
            \E e \in Events :
                /\ e.code = c /\ e.id = row[c].id
                /\ HasMessage(e) \/ e \in missed

(* What a restart costs, while no answer is lost after its effect: a click *)
(* is counted again only when a snapshot brought its increment back after  *)
(* a flush had taken it, and then once; click_count is still the number of *)
(* increments posted; and - while nothing else loses clicks - an answered  *)
(* redirect is missing only if its increment was younger than the snapshot *)
(* (flush_click_counters against `--save 60 1').                           *)
RestartCost ==
    seen \cap {"incrReply", "commitReply"} = {} =>
        LET owed    == Owed
            counted == PostedIncrements
        IN  /\ OnePlace
            /\ CountExact
            /\ owed \cap counted = {}
            /\ \A i, j \in owed \cup counted :
                   i[1] = j[1] => i = j \/ Returned(i) = j \/ Returned(j) = i
            /\ seen \cap {"crash", "connectError", "getdelReply",
                          "restoreError", "expired"} = {} =>
                   \A k \in Clicks : click[k].step = "done" =>
                       \E i \in owed \cup counted \cup dropped \cup lost : i[1] = k
=============================================================================
