--------------------------- MODULE WebhookDelivery ---------------------------
(***************************************************************************)
(* The Celery task send_webhook_event: a message per threshold event       *)
(* (ClickCounter.Enqueue hands it over), a signed POST to the receiver,    *)
(* and Celery's retries.  A message may be in the queue once more: a       *)
(* publication or a retry whose reply is lost is sent again, and a Redis   *)
(* that restarts brings back what was taken since its snapshot.            *)
(*                                                                         *)
(* The receiver is outside the system: it may act on a request or not, and *)
(* answer with a 2xx, with anything else, or never; it answers 2xx only    *)
(* when it has acted.  The timeout of httpx is one for each read, so a     *)
(* receiver that goes on sending something holds the task as long as it    *)
(* likes.  The task passes no max_retries, so Celery's default             *)
(* (TaskRetries, 3) ends the retries; the task itself looks at             *)
(* settings.webhook_max_retries (PostRetries, 5).                          *)
(***************************************************************************)
EXTENDS Naturals, FiniteSets

CONSTANTS Hooks,       \* the threshold events of a behaviour
          TaskRetries, \* Task.max_retries of Celery
          PostRetries  \* settings.webhook_max_retries

ASSUME RetriesAssumption == TaskRetries \in Nat /\ PostRetries \in Nat

(* The messages: the one of an event, and - the bound is one - a second.   *)
Posts == Hooks \X {"sent", "resent"}

VARIABLES
    post,     \* where each message is, and its retries
    received, \* the receiver: how often it acted on a message
    denied    \* history: messages it acted on without a 2xx reaching the task

postVars == <<post, received, denied>>

Posting   == {"check", "posting", "acted"}
Delivered == {"delivered", "gaveup", "exhausted", "lost"}

PostInit ==
    /\ post = [m \in Posts |-> [step |-> "new", retries |-> 0]]
    /\ received = [m \in Posts |-> 0]
    /\ denied = {}

Put(m, step) == post' = [post EXCEPT ![m].step = step]

(* send_webhook_event.apply_async after the commit that marked the link.   *)
HandOver(e) ==
    /\ post[<<e, "sent">>].step = "new"
    /\ Put(<<e, "sent">>, "queued")
    /\ UNCHANGED <<received, denied>>

QueuedAgain(e) ==
    /\ post[<<e, "sent">>].step # "new"
    /\ post[<<e, "resent">>].step = "new"
    /\ \E r \in 0 .. post[<<e, "sent">>].retries :
         post' = [post EXCEPT ![<<e, "resent">>] = [step |-> "queued", retries |-> r]]
    /\ UNCHANGED <<received, denied>>

TakePost(m) ==
    /\ post[m].step = "queued"
    /\ Put(m, "check")
    /\ UNCHANGED <<received, denied>>

(* `self.request.retries >= max_retries': RuntimeError, no retry.          *)
CheckRetries(m) ==
    /\ post[m].step = "check"
    /\ Put(m, IF post[m].retries >= PostRetries THEN "exhausted" ELSE "posting")
    /\ UNCHANGED <<received, denied>>

(* Mutant of RetryPost: the retry is sent with apply_async, not retry().   *)
RetryPostAnew(m) == Put(m, "queued")

(* RequestError and HTTPStatusError are in autoretry_for.                  *)
RetryPost(m) ==
    post' = [post EXCEPT ![m] =
        IF @.retries < TaskRetries
        THEN [step |-> "queued", retries |-> @.retries + 1]
        ELSE [@ EXCEPT !.step = "gaveup"]]

(* The request reaches the receiver, which acts on it.                     *)
ReceiverActs(m) ==
    /\ post[m].step = "posting"
    /\ received' = [received EXCEPT ![m] = @ + 1]
    /\ Put(m, "acted")
    /\ UNCHANGED denied

(* No connection, a timeout, or a status outside 2xx without an effect.    *)
PostRefused(m) ==
    /\ post[m].step = "posting"
    /\ RetryPost(m)
    /\ UNCHANGED <<received, denied>>

(* Mutant of PostAnswered: the answer is not looked at.                    *)
PostUnchecked(m) ==
    /\ post[m].step \in {"posting", "acted"}
    /\ Put(m, "delivered")
    /\ UNCHANGED <<received, denied>>

(* raise_for_status() passes.                                              *)
PostAnswered(m) ==
    /\ post[m].step = "acted"
    /\ Put(m, "delivered")
    /\ UNCHANGED <<received, denied>>

(* The receiver has acted, and answers late, not at all or with an error.  *)
AnswerLost(m) ==
    /\ post[m].step = "acted"
    /\ denied' = denied \cup {m}
    /\ RetryPost(m)
    /\ UNCHANGED received

(* The process dies, or an exception outside autoretry_for ends the task;  *)
(* or Redis restarts without a message that waited.                        *)
PostLost(m) ==
    /\ post[m].step \in Posting \cup {"queued"}
    /\ Put(m, "lost")
    /\ UNCHANGED <<received, denied>>

(* What a receiver decides, at a time of its own.                          *)
Answers(m) == ReceiverActs(m) \/ PostRefused(m) \/ PostAnswered(m) \/ AnswerLost(m)

PostNext ==
    \/ \E e \in Hooks : HandOver(e) \/ QueuedAgain(e)
    \/ \E m \in Posts : TakePost(m) \/ CheckRetries(m) \/ Answers(m) \/ PostLost(m)

PostSpec == PostInit /\ [][PostNext]_postVars

(* The messages that hold a process, and those that wait for a receiver.   *)
PostsRunning == {m \in Posts : post[m].step \in Posting}
PostsWaiting == {m \in Posts : post[m].step \in {"posting", "acted"}}
-----------------------------------------------------------------------------
(***************************************************************************)
(* Properties.                                                             *)
(***************************************************************************)
(* The types of the deliveries (a part of Workers!TypeOK).                 *)
PostsTypeOK ==
    /\ post \in [Posts -> [step : {"new", "queued"} \cup Posting \cup Delivered,
                           retries : 0 .. TaskRetries]]
    /\ received \in [Posts -> Nat]
    /\ denied \subseteq Posts

(* The receiver acts on an event again only when a 2xx did not reach the   *)
(* task, or the message was in the queue once more; on one message only    *)
(* after the former, and never after a 2xx that did; a delivered message   *)
(* was received; and none is posted more often than Celery retries.        *)
DeliveryExact ==
    /\ \A e \in Hooks :
           received[<<e, "sent">>] + received[<<e, "resent">>] > 1 =>
               <<e, "sent">> \in denied \/ post[<<e, "resent">>].step # "new"
    /\ \A m \in Posts :
           /\ received[m] > 1 => m \in denied
           /\ post[m].step = "delivered" => received[m] > 0
           /\ received[m] <= post[m].retries + 1
=============================================================================
