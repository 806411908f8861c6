------------------------------- MODULE Workers -------------------------------
(***************************************************************************)
(* The Celery worker: one pool of Processes child processes (docker-       *)
(* compose.yml, --concurrency=2 --queues=default,analytics) runs the click *)
(* events and the webhook deliveries.  A task keeps its process until it   *)
(* ends or is published again, also while it waits for a receiver.         *)
(*                                                                         *)
(* Composes ClickEvents and WebhookDelivery: a step of one of them that    *)
(* leaves no more than Processes tasks running.                            *)
(***************************************************************************)
EXTENDS ClickEvents, WebhookDelivery

CONSTANTS Processes,
          MaxAgain   \* bound: messages that are in the queue once more

ASSUME ProcessesAssumption == Processes \in Nat /\ MaxAgain \in Nat

workerVars == <<eventVars, postVars>>

(* Tasks that hold a process.                                              *)
Busy == Cardinality(EventsRunning) + Cardinality(PostsRunning)

Idle == Busy < Processes

WorkerInit == EventInit /\ PostInit

StartEvent(t) == Idle /\ TakeEvent(t) /\ UNCHANGED postVars
StartPost(m)  == Idle /\ TakePost(m) /\ UNCHANGED eventVars

ContinueEvent(t) == RunEvent(t) /\ UNCHANGED postVars
ContinuePost(m)  == CheckRetries(m) /\ UNCHANGED eventVars

Again ==
    Cardinality({k \in Clicks : task[<<k, "resent">>].step # "new"})
      + Cardinality({e \in Hooks : post[<<e, "resent">>].step # "new"})

(* Requests, receivers, the broker, and what ends a process.               *)
Outside ==
    \/ /\ \/ CreateLinkRow \/ DeleteLinkRow
          \/ \E k \in Clicks : EnqueueClickEvent(k) \/ (Again < MaxAgain /\ EventAgain(k))
          \/ \E t \in Tasks : EventMissed(t)
       /\ UNCHANGED postVars
    \/ /\ \/ \E e \in Hooks : HandOver(e) \/ (Again < MaxAgain /\ QueuedAgain(e))
          \/ \E m \in Posts : Answers(m) \/ PostLost(m)
       /\ UNCHANGED eventVars

WorkerNext ==
    \/ Outside
    \/ \E t \in Tasks : StartEvent(t) \/ ContinueEvent(t)
    \/ \E m \in Posts : StartPost(m) \/ ContinuePost(m)

(* A process goes on with its task - a statement, a commit or a pipeline   *)
(* is answered or fails - and an idle one takes messages: none is passed   *)
(* over for ever.  Nothing makes a receiver answer: httpx bounds each read *)
(* of a response and not the response, and celery_app.conf sets no time    *)
(* limit for a task.                                                       *)
WorkerFairness ==
    /\ \A t \in Tasks : WF_workerVars(StartEvent(t)) /\ WF_workerVars(ContinueEvent(t))
    /\ \A m \in Posts : WF_workerVars(StartPost(m)) /\ WF_workerVars(ContinuePost(m))

WorkerSpec == WorkerInit /\ [][WorkerNext]_workerVars /\ WorkerFairness
-----------------------------------------------------------------------------
(***************************************************************************)
(* Properties.                                                             *)
(***************************************************************************)
(* The type invariant.                                                     *)
TypeOK == EventsTypeOK /\ PostsTypeOK

(* The receivers hold every process.                                       *)
HeldUp == Cardinality(PostsWaiting) >= Processes

(* Every published click event is processed, given up or lost in the end,  *)
(* although its process may be taken by other tasks and its retries start  *)
(* from the queue again - unless receivers hold all processes for ever     *)
(* (process_click_event, retry_kwargs; one pool for both kinds of task).   *)
EventEnds ==
    []<>~HeldUp =>
        \A t \in Tasks : task[t].step = "queued" ~> task[t].step \in Ended

(* Every webhook message ends: delivered, given up after Celery's retries, *)
(* or lost - unless its own receiver never lets the request end, or others *)
(* hold all processes for ever (send_webhook_event, autoretry_for).        *)
DeliveryEnds ==
    \A m \in Posts :
        []<>~HeldUp /\ []<>(m \notin PostsWaiting) =>
            (post[m].step = "queued" ~> post[m].step \in Delivered)
=============================================================================
