----------------------------- MODULE ClickEvents -----------------------------
(***************************************************************************)
(* How a redirect becomes a row of the table clicks: enqueue_click_event   *)
(* publishes a message and fails open, the Celery task                     *)
(* analytics.process_click_event looks the link up, inserts one row, reads *)
(* it back and then counts the event in Redis.                             *)
(*                                                                         *)
(* One short code.  Its link may be deleted (the rows go by ON DELETE      *)
(* CASCADE) and created again at any moment; a link is known by its        *)
(* generation.  Every SQL statement that stands alone, every transaction   *)
(* and every Redis pipeline is one step of a task.                         *)
(*                                                                         *)
(* Celery, as the repository configures it: a message is acknowledged      *)
(* before the task starts, so a process that dies takes it along; a retry  *)
(* is a new message with `retries' one higher.  A publication or a retry   *)
(* whose reply is lost is sent again, and a Redis that restarts brings     *)
(* back what was taken since its snapshot: then two messages carry the     *)
(* same click.                                                             *)
(***************************************************************************)
EXTENDS Naturals, FiniteSets

CONSTANTS Clicks,       \* the redirects of a behaviour
          MaxLinks,     \* bound: links created in turn under the code
          EventRetries  \* retry_kwargs: max_retries (3 in the code)

ASSUME EventBoundsAssumption == MaxLinks \in Nat /\ EventRetries \in Nat

(* The messages: the one of a click, and - the bound is one - a second.    *)
Tasks == Clicks \X {"sent", "resent"}

VARIABLES
    link,    \* PostgreSQL: the row of the code, live or gone, and its id
    rows,    \* PostgreSQL: the table clicks
    task,    \* where each message is: in the queue, in a process, ended
    counted, \* Redis: what each click added to analytics:clicks:processed
    unsure   \* history: clicks of which an effect was not acknowledged

eventVars == <<link, rows, task, counted, unsure>>

Running == {"select", "insert", "refresh", "redis"}
Ended   == {"unsent", "done", "failed", "lost"}

Task == [step : {"new", "queued"} \cup Running \cup Ended,
         retries : 0 .. EventRetries,
         link : 0 .. MaxLinks,         \* link_id, 0 while not persisted
         stored : BOOLEAN]             \* persistence_result["persisted"]

(* A row names its click and the run of the task that inserted it.         *)
ClickRow == [task : Tasks, retries : 0 .. EventRetries, link : 1 .. MaxLinks]

(* A message that holds nothing.                                           *)
Fresh(step, r) == [step |-> step, retries |-> r, link |-> 0, stored |-> FALSE]

EventInit ==
    /\ link = [live |-> FALSE, id |-> 0]
    /\ rows = {}
    /\ task = [t \in Tasks |-> Fresh("new", 0)]
    /\ counted = [k \in Clicks |-> 0]
    /\ unsure = {}

Go(t, step) == task' = [task EXCEPT ![t].step = step]

(***************************************************************************)
(* The link, as POST and DELETE change it.                                 *)
(***************************************************************************)
CreateLinkRow ==
    /\ ~link.live /\ link.id < MaxLinks
    /\ link' = [live |-> TRUE, id |-> link.id + 1]
    /\ UNCHANGED <<rows, task, counted, unsure>>

(* Mutant of Cascade: the foreign key has no ON DELETE.                    *)
CascadeNothing(id) == rows
Cascade(id) == {r \in rows : r.link # id}

DeleteLinkRow ==
    /\ link.live
    /\ link' = [link EXCEPT !.live = FALSE]
    /\ rows' = Cascade(link.id)
    /\ UNCHANGED <<task, counted, unsure>>

(***************************************************************************)
(* The redirect publishes its event.  A redirect may be served from the    *)
(* cache after its link is gone.                                           *)
(***************************************************************************)
EnqueueClickEvent(k) ==
    /\ link.id > 0 /\ task[<<k, "sent">>].step = "new"
    /\ \/ Go(<<k, "sent">>, "queued")
       \/ Go(<<k, "sent">>, "unsent")
    /\ UNCHANGED <<link, rows, counted, unsure>>

(* The message is in the queue once more, with the retries it has or had.  *)
EventAgain(k) ==
    /\ task[<<k, "sent">>].step \notin {"new", "unsent"}
    /\ task[<<k, "resent">>].step = "new"
    /\ \E r \in 0 .. task[<<k, "sent">>].retries :
         task' = [task EXCEPT ![<<k, "resent">>] = Fresh("queued", r)]
    /\ unsure' = unsure \cup {k}
    /\ UNCHANGED <<link, rows, counted>>

(***************************************************************************)
(* Retry or give up.                                                       *)
(***************************************************************************)
(* A message is gone without a result.                                     *)
Gone(t, step) == [task[t] EXCEPT !.step = step, !.link = 0, !.stored = FALSE]

(* Mutants of Retry: the count of retries starts again with every message; *)
(* the limit is not enforced.                                              *)
RetryForgets(t) ==
    task' = [task EXCEPT ![t].step = "queued", ![t].link = 0]

RetryUnlimited(t) ==
    task' = [task EXCEPT ![t] =
        [@ EXCEPT !.step = "queued", !.retries = task[t].retries + 1, !.link = 0]]

Retry(t) ==
    task' = [task EXCEPT ![t] =
        IF @.retries < EventRetries
        THEN [@ EXCEPT !.step = "queued", !.retries = task[t].retries + 1, !.link = 0]
        ELSE Gone(t, "failed")]

(***************************************************************************)
(* The task, from an idle process on.                                      *)
(***************************************************************************)
TakeEvent(t) ==
    /\ task[t].step = "queued"
    /\ Go(t, "select")
    /\ UNCHANGED <<link, rows, counted, unsure>>

(* select(Link.id): without a link nothing is stored, Redis still counts.  *)
SelectLink(t) ==
    /\ task[t].step = "select"
    /\ task' = [task EXCEPT ![t] =
           IF link.live THEN [@ EXCEPT !.step = "insert", !.link = link.id]
                        ELSE [@ EXCEPT !.step = "redis"]]
    /\ UNCHANGED <<link, rows, counted, unsure>>

RowOf(t) == [task |-> t, retries |-> task[t].retries, link |-> task[t].link]

(* Mutant of LinkExists: the column link_id is not a foreign key.          *)
LinkExistsAlways(t) == TRUE
LinkExists(t) == link.live /\ link.id = task[t].link

(* INSERT and COMMIT.  The foreign key refuses the id of a deleted link:   *)
(* an IntegrityError, hence a retry.                                       *)
InsertRow(t) ==
    /\ task[t].step = "insert"
    /\ LinkExists(t)
    /\ rows' = rows \cup {RowOf(t)}
    /\ Go(t, "refresh")
    /\ UNCHANGED <<link, counted, unsure>>

InsertRefused(t) ==
    /\ task[t].step = "insert"
    /\ ~LinkExists(t)
    /\ Retry(t)
    /\ UNCHANGED <<link, rows, counted, unsure>>

(* The commit is applied and its answer is lost: an SQLAlchemyError.       *)
CommitUnanswered(t) ==
    /\ task[t].step = "insert"
    /\ LinkExists(t)
    /\ rows' = rows \cup {RowOf(t)}
    /\ unsure' = unsure \cup {t[1]}
    /\ Retry(t)
    /\ UNCHANGED <<link, counted>>

(* db.refresh(click): a row deleted meanwhile, or a connection that broke, *)
(* is an SQLAlchemyError, after the commit.                                *)
RefreshRow(t) ==
    /\ task[t].step = "refresh"
    /\ RowOf(t) \in rows
    /\ task' = [task EXCEPT ![t].step = "redis", ![t].stored = TRUE]
    /\ UNCHANGED <<link, rows, counted, unsure>>

RefreshFails(t) ==
    /\ task[t].step = "refresh"
    /\ unsure' = IF RowOf(t) \in rows THEN unsure \cup {t[1]} ELSE unsure
    /\ Retry(t)
    /\ UNCHANGED <<link, rows, counted>>

(* SQLAlchemyError before anything was committed.                          *)
DatabaseFails(t) ==
    /\ task[t].step \in {"select", "insert"}
    /\ Retry(t)
    /\ UNCHANGED <<link, rows, counted, unsure>>

(* The pipeline of _record_redis_analytics: MULTI, EXEC.                   *)
RecordRedis(t) ==
    /\ task[t].step = "redis"
    /\ counted' = [counted EXCEPT ![t[1]] = @ + 1]
    /\ Go(t, "done")
    /\ UNCHANGED <<link, rows, unsure>>

(* Its reply is lost and the client sends the pipeline again.              *)
RecordRedisTwice(t) ==
    /\ task[t].step = "redis"
    /\ counted' = [counted EXCEPT ![t[1]] = @ + 2]
    /\ unsure' = unsure \cup {t[1]}
    /\ Go(t, "done")
    /\ UNCHANGED <<link, rows>>

(* RedisError is caught and logged: the task is done without the count.    *)
(* Mutant of RedisFails: left to autoretry_for, which names RedisError.    *)
RedisFailsRetried(t) ==
    /\ task[t].step = "redis"
    /\ Retry(t)
    /\ UNCHANGED <<link, rows, counted, unsure>>

RedisFails(t) ==
    /\ task[t].step = "redis"
    /\ Go(t, "done")
    /\ UNCHANGED <<link, rows, counted, unsure>>

(* An exception outside autoretry_for (OSError: connection refused) ends   *)
(* the task; a dying process takes its message along.                      *)
EventTaskFails(t) ==
    /\ task[t].step \in {"select", "insert", "refresh"}
    /\ task' = [task EXCEPT ![t] = Gone(t, "failed")]
    /\ UNCHANGED <<link, rows, counted, unsure>>

EventProcessDies(t) ==
    /\ task[t].step \in Running
    /\ task' = [task EXCEPT ![t] = Gone(t, "lost")]
    /\ UNCHANGED <<link, rows, counted, unsure>>

(* Redis restarts without a message that waited.                           *)
EventMissed(t) ==
    /\ task[t].step = "queued"
    /\ task' = [task EXCEPT ![t] = Gone(t, "lost")]
    /\ UNCHANGED <<link, rows, counted, unsure>>

RunEvent(t) ==
    \/ SelectLink(t) \/ InsertRow(t) \/ InsertRefused(t) \/ CommitUnanswered(t)
    \/ RefreshRow(t) \/ RefreshFails(t) \/ DatabaseFails(t)
    \/ RecordRedis(t) \/ RecordRedisTwice(t) \/ RedisFails(t)
    \/ EventTaskFails(t) \/ EventProcessDies(t)

EventNext ==
    \/ CreateLinkRow \/ DeleteLinkRow
    \/ \E k \in Clicks : EnqueueClickEvent(k) \/ EventAgain(k)
    \/ \E t \in Tasks : TakeEvent(t) \/ RunEvent(t) \/ EventMissed(t)

EventSpec == EventInit /\ [][EventNext]_eventVars

(* The processes that run a click event.                                   *)
EventsRunning == {t \in Tasks : task[t].step \in Running}
-----------------------------------------------------------------------------
(***************************************************************************)
(* Properties.                                                             *)
(***************************************************************************)
(* The types of the click events (a part of Workers!TypeOK).               *)
EventsTypeOK ==
    /\ link \in [live : BOOLEAN, id : 0 .. MaxLinks]
    /\ rows \subseteq ClickRow
    /\ task \in [Tasks -> Task]
    /\ counted \in [Clicks -> Nat]
    /\ unsure \subseteq Clicks

(* No click row outlives its link, and no row is ever inserted for a link  *)
(* that is gone or under the id of its successor, although the id was read *)
(* in an earlier transaction than the insert                               *)
(* (_persist_click_event, models/click.py).                                *)
RowsHaveLink == \A r \in rows : link.live /\ r.link = link.id

(* The retries of process_click_event store a click twice, or count it     *)
(* twice in Redis, only when the message was queued twice or when an       *)
(* effect was not acknowledged: a failure of a later step never repeats    *)
(* an earlier one that was answered.  And a task that reports persisted    *)
(* has its row in the table until the link is deleted.                     *)
StoredOnce ==
    /\ \A k \in Clicks \ unsure :
           /\ counted[k] <= 1
           /\ \A r, s \in rows : r.task[1] = k /\ s.task[1] = k => r = s
    /\ \A t \in Tasks :
           task[t].stored =>
               RowOf(t) \in rows \/ ~link.live \/ link.id # task[t].link
=============================================================================
