---------------------------- MODULE WorkersProofs ----------------------------
(***************************************************************************)
(* Proofs about Workers, for every number of clicks, webhook events, links *)
(* created in turn, retries and processes: the types, what the table of    *)
(* clicks and the counts of Redis hold of each click, and what a receiver  *)
(* has acted on.                                                           *)
(*                                                                         *)
(* A step of the worker is a step of ClickEvents or one of WebhookDelivery *)
(* (WorkerSteps); the two share no state, only processes, and neither      *)
(* safety argument needs the bound on those.                               *)
(***************************************************************************)
EXTENDS Workers, TLAPS

(* Every step of the worker is one of these two.                           *)
LEMMA WorkerSteps ==
    ASSUME WorkerNext
    PROVE  \/ EventNext /\ UNCHANGED postVars
           \/ PostNext /\ UNCHANGED eventVars
<1>1. ASSUME Outside
      PROVE  \/ EventNext /\ UNCHANGED postVars
             \/ PostNext /\ UNCHANGED eventVars
  BY <1>1 DEF Outside, EventNext, PostNext
<1>2. ASSUME NEW t \in Tasks, StartEvent(t) \/ ContinueEvent(t)
      PROVE  EventNext /\ UNCHANGED postVars
  BY <1>2 DEF StartEvent, ContinueEvent, EventNext
<1>3. ASSUME NEW m \in Posts, StartPost(m) \/ ContinuePost(m)
      PROVE  PostNext /\ UNCHANGED eventVars
  BY <1>3 DEF StartPost, ContinuePost, PostNext
<1> QED
  BY <1>1, <1>2, <1>3 DEF WorkerNext
-----------------------------------------------------------------------------
(***************************************************************************)
(* One task.  A step of a task is its own: it changes no other task, and   *)
(* it never changes the link.                                              *)
(***************************************************************************)
Steps == {"new", "queued"} \cup Running \cup Ended

OthersKept(t) == \A u \in Tasks \ {t} : task'[u] = task[u]

(* A task moves on and keeps what it holds.                                *)
LEMMA GoEffect ==
    ASSUME EventsTypeOK, NEW t \in Tasks, NEW s \in Steps, Go(t, s)
    PROVE  /\ task' \in [Tasks -> Task]
           /\ OthersKept(t)
           /\ task'[t].step = s
           /\ task'[t].retries = task[t].retries
           /\ task'[t].link = task[t].link
           /\ task'[t].stored = task[t].stored
<1>1. task \in [Tasks -> Task]
  BY DEF EventsTypeOK
<1> DEFINE here == [task[t] EXCEPT !.step = s]
<1>2. /\ here \in Task
      /\ here.step = s
      /\ here.retries = task[t].retries
      /\ here.link = task[t].link
      /\ here.stored = task[t].stored
  BY <1>1 DEF Task, Steps
<1>3. task' = [task EXCEPT ![t] = here]
  BY DEF Go
<1> HIDE DEF here
<1> QED
  BY <1>1, <1>2, <1>3 DEF OthersKept

(* A task that ended without a result holds nothing.                       *)
LEMMA GoneEffect ==
    ASSUME EventsTypeOK, NEW t \in Tasks, NEW s \in Steps,
           task' = [task EXCEPT ![t] = Gone(t, s)]
    PROVE  /\ task' \in [Tasks -> Task]
           /\ OthersKept(t)
           /\ task'[t].step = s /\ task'[t].link = 0 /\ task'[t].stored = FALSE
<1>1. task \in [Tasks -> Task] /\ 0 \in 0 .. MaxLinks
  BY EventBoundsAssumption DEF EventsTypeOK
<1> DEFINE here == Gone(t, s)
<1>2. here = [task[t] EXCEPT !.step = s, !.link = 0, !.stored = FALSE]
  BY DEF Gone
<1>3. here \in Task /\ here.step = s /\ here.link = 0 /\ here.stored = FALSE
  BY <1>1, <1>2 DEF Task, Steps
<1> HIDE DEF here
<1>4. task' = [task EXCEPT ![t] = here]
  BY DEF here
<1> QED
  BY <1>1, <1>3, <1>4 DEF OthersKept

(* A retry starts again from the queue, or the task has failed; either way *)
(* it forgets the link it had read.                                        *)
LEMMA RetryEffect ==
    ASSUME EventsTypeOK, NEW t \in Tasks, Retry(t)
    PROVE  /\ task' \in [Tasks -> Task]
           /\ OthersKept(t)
           /\ task'[t].step \in {"queued", "failed"}
           /\ task'[t].link = 0
           /\ task'[t].stored => task[t].stored
<1>1. task \in [Tasks -> Task]
  BY DEF EventsTypeOK
<1>2. CASE task[t].retries < EventRetries
  <2> DEFINE here == [task[t] EXCEPT !.step = "queued", !.retries = task[t].retries + 1, !.link = 0]
  <2>1. task[t] \in Task
    BY <1>1
  <2>2. here.step = "queued" /\ here.link = 0 /\ here.stored = task[t].stored
    BY <2>1 DEF Task
  <2>3. here \in Task
    <3>1. task[t].retries + 1 \in 0 .. EventRetries
      BY <2>1, <1>2, EventBoundsAssumption DEF Task
    <3>2. 0 \in 0 .. MaxLinks
      BY EventBoundsAssumption
    <3> QED
      BY <2>1, <3>1, <3>2 DEF Task
  <2>4. task' = [task EXCEPT ![t] = here]
    <3>1. task' = [task EXCEPT ![t] =
                      IF task[t].retries < EventRetries THEN here ELSE Gone(t, "failed")]
      BY DEF Retry
    <3> HIDE DEF here
    <3> QED
      BY <3>1, <1>2
  <2> HIDE DEF here
  <2> QED
    BY <1>1, <2>2, <2>3, <2>4 DEF OthersKept
<1>3. CASE ~(task[t].retries < EventRetries)
  <2>1. task' = [task EXCEPT ![t] = Gone(t, "failed")]
    BY <1>3 DEF Retry
  <2>2. "failed" \in Steps
    BY DEF Steps, Ended
  <2> QED
    BY <2>1, <2>2, GoneEffect
<1> QED
  BY <1>2, <1>3
-----------------------------------------------------------------------------
(***************************************************************************)
(* What a step of a task does to the rest: nothing (QuietStep), a row more *)
(* (InsertRow, and CommitUnanswered, whose click is unsure from then on),  *)
(* or a count more (RecordRedis, and RecordRedisTwice, likewise unsure).   *)
(***************************************************************************)
OneTask(t) ==
    /\ link' = link
    /\ task' \in [Tasks -> Task]
    /\ OthersKept(t)
    /\ task[t].step # "new" /\ task'[t].step # "new"

(* A row that a task had committed is not forgotten by a quiet step: the   *)
(* task goes on to the count of Redis, or it ends.                         *)
QuietStep(t) ==
    /\ rows' = rows /\ counted' = counted /\ unsure' = unsure
    /\ task[t].step \in {"queued"} \cup Running
    /\ task'[t].step \notin {"new", "refresh"}
    /\ task[t].step \in {"refresh", "redis"} =>
           \/ task'[t].step \in {"redis", "done", "failed", "lost"}
           \/ task[t].step = "refresh" /\ RowOf(t) \notin rows
    /\ task'[t].link <= link.id
    /\ task'[t].stored =>
           \/ task[t].step = "refresh" /\ RowOf(t) \in rows /\ task'[t].step = "redis"
              /\ task'[t].retries = task[t].retries /\ task'[t].link = task[t].link
           \/ task[t].stored /\ task[t].step = "redis" /\ task'[t].step = "done"
              /\ task'[t].retries = task[t].retries /\ task'[t].link = task[t].link
           \/ task[t].stored /\ task[t].step # "redis"

(* Every row has its link (RowsHaveLink), and a task never knows a link    *)
(* that comes after the one of now.                                        *)
LinksInv ==
    /\ link.live => link.id > 0
    /\ RowsHaveLink
    /\ \A t \in Tasks : task[t].link <= link.id

(* The insert of a task, its commit answered or not.                       *)
Inserts(t) ==
    /\ task[t].step = "insert"
    /\ LinkExists(t)
    /\ rows' = rows \cup {RowOf(t)}
    /\ counted' = counted
    /\ \/ /\ unsure' = unsure
          /\ task'[t].step = "refresh"
          /\ task'[t].retries = task[t].retries
          /\ task'[t].link = task[t].link
       \/ unsure' = unsure \cup {t[1]}
    /\ task'[t].link <= link.id
    /\ task'[t].stored => task[t].stored

(* The count of a task, its reply answered or not.                         *)
Counts(t) ==
    /\ task[t].step = "redis"
    /\ rows' = rows
    /\ \/ unsure' = unsure /\ counted' = [counted EXCEPT ![t[1]] = @ + 1]
       \/ unsure' = unsure \cup {t[1]} /\ counted' = [counted EXCEPT ![t[1]] = @ + 2]
    /\ task'[t].step = "done"
    /\ task'[t].retries = task[t].retries
    /\ task'[t].link = task[t].link
    /\ task'[t].stored = task[t].stored

(* A step that was not answered for a row already there.                   *)
Unanswered(t) ==
    /\ task[t].step = "refresh"
    /\ rows' = rows /\ counted' = counted /\ unsure' = unsure \cup {t[1]}
    /\ task'[t].link <= link.id
    /\ task'[t].stored => task[t].stored

LEMMA TaskEffect ==
    ASSUME EventsTypeOK, LinksInv, NEW t \in Tasks,
           TakeEvent(t) \/ RunEvent(t) \/ EventMissed(t)
    PROVE  /\ OneTask(t)
           /\ QuietStep(t) \/ Inserts(t) \/ Counts(t) \/ Unanswered(t)
<1>1. /\ task \in [Tasks -> Task]
      /\ task[t] \in Task
      /\ task[t].link <= link.id
      /\ link.id \in Nat
  BY EventBoundsAssumption DEF EventsTypeOK, LinksInv
<1>2. {"queued", "select", "insert", "refresh", "redis", "done", "failed", "lost"}
        \subseteq Steps
  BY DEF Steps, Running, Ended
<1>3. ASSUME TakeEvent(t)
      PROVE  OneTask(t) /\ QuietStep(t)
  <2>1. task[t].step = "queued" /\ Go(t, "select") /\ UNCHANGED <<link, rows, counted, unsure>>
    BY <1>3 DEF TakeEvent
  <2>2. OneTask(t) /\ task'[t].step = "select" /\ task'[t].link = task[t].link
          /\ task'[t].stored = task[t].stored
    BY <2>1, <1>2, GoEffect DEF OneTask
  <2> QED
    BY <2>1, <2>2, <1>1 DEF QuietStep
<1>4. ASSUME SelectLink(t)
      PROVE  OneTask(t) /\ QuietStep(t)
  <2>1. task[t].step = "select" /\ UNCHANGED <<link, rows, counted, unsure>>
    BY <1>4 DEF SelectLink
  <2>2. CASE link.live
    <3> DEFINE here == [task[t] EXCEPT !.step = "insert", !.link = link.id]
    <3>1. here \in Task
      BY <1>1, <1>2 DEF Task, Steps, EventsTypeOK
    <3>2. here.step = "insert" /\ here.link = link.id /\ here.stored = task[t].stored
      BY <1>1 DEF Task
    <3>3. task' = [task EXCEPT ![t] = here]
      BY <1>4, <2>2 DEF SelectLink
    <3> HIDE DEF here
    <3>4. task'[t] = here /\ OneTask(t)
      BY <1>1, <2>1, <3>1, <3>2, <3>3 DEF OneTask, OthersKept
    <3> QED
      BY <1>1, <2>1, <3>2, <3>4 DEF QuietStep, Running
  <2>3. CASE ~link.live
    <3> DEFINE here == [task[t] EXCEPT !.step = "redis"]
    <3>1. here \in Task
      BY <1>1, <1>2 DEF Task, Steps
    <3>2. here.step = "redis" /\ here.link = task[t].link /\ here.stored = task[t].stored
      BY <1>1 DEF Task
    <3>3. task' = [task EXCEPT ![t] = here]
      BY <1>4, <2>3 DEF SelectLink
    <3> HIDE DEF here
    <3>4. task'[t] = here /\ OneTask(t)
      BY <1>1, <2>1, <3>1, <3>2, <3>3 DEF OneTask, OthersKept
    <3> QED
      BY <1>1, <2>1, <3>2, <3>4 DEF QuietStep, Running
  <2> QED
    BY <2>2, <2>3
<1>5. ASSUME InsertRow(t)
      PROVE  OneTask(t) /\ Inserts(t)
  <2>1. /\ task[t].step = "insert" /\ LinkExists(t) /\ rows' = rows \cup {RowOf(t)}
        /\ Go(t, "refresh") /\ UNCHANGED <<link, counted, unsure>>
    BY <1>5 DEF InsertRow
  <2>2. OneTask(t) /\ task'[t].step = "refresh" /\ task'[t].link = task[t].link
          /\ task'[t].retries = task[t].retries /\ task'[t].stored = task[t].stored
    BY <2>1, <1>2, GoEffect DEF OneTask
  <2> QED
    BY <2>1, <2>2, <1>1 DEF Inserts
<1>6. ASSUME CommitUnanswered(t)
      PROVE  OneTask(t) /\ Inserts(t)
  <2>1. /\ task[t].step = "insert" /\ LinkExists(t) /\ rows' = rows \cup {RowOf(t)}
        /\ Retry(t) /\ unsure' = unsure \cup {t[1]} /\ UNCHANGED <<link, counted>>
    BY <1>6 DEF CommitUnanswered
  <2>2. OneTask(t) /\ task'[t].link = 0 /\ (task'[t].stored => task[t].stored)
    BY <2>1, RetryEffect DEF OneTask
  <2> QED
    BY <2>1, <2>2, <1>1 DEF Inserts
<1>7. ASSUME InsertRefused(t) \/ DatabaseFails(t)
      PROVE  OneTask(t) /\ QuietStep(t)
  <2>1. /\ task[t].step \in {"select", "insert"} /\ Retry(t)
        /\ UNCHANGED <<link, rows, counted, unsure>>
    BY <1>7 DEF InsertRefused, DatabaseFails
  <2>2. /\ OneTask(t) /\ task'[t].link = 0 /\ (task'[t].stored => task[t].stored)
        /\ task'[t].step \in {"queued", "failed"}
    BY <2>1, RetryEffect DEF OneTask
  <2> QED
    BY <2>1, <2>2, <1>1 DEF QuietStep, Running
<1>8. ASSUME RefreshRow(t)
      PROVE  OneTask(t) /\ QuietStep(t)
  <2>1. /\ task[t].step = "refresh" /\ RowOf(t) \in rows
        /\ UNCHANGED <<link, rows, counted, unsure>>
    BY <1>8 DEF RefreshRow
  <2> DEFINE here == [task[t] EXCEPT !.step = "redis", !.stored = TRUE]
  <2>2. here \in Task
    BY <1>1, <1>2 DEF Task, Steps
  <2>3. here.step = "redis" /\ here.link = task[t].link /\ here.retries = task[t].retries
    BY <1>1 DEF Task
  <2>4. task' = [task EXCEPT ![t] = here]
    BY <1>8 DEF RefreshRow
  <2> HIDE DEF here
  <2>5. task'[t] = here /\ OneTask(t)
    BY <1>1, <2>1, <2>2, <2>3, <2>4 DEF OneTask, OthersKept
  <2> QED
    BY <1>1, <2>1, <2>3, <2>5 DEF QuietStep, Running
<1>9. ASSUME RefreshFails(t)
      PROVE  OneTask(t) /\ (QuietStep(t) \/ Unanswered(t))
  <2>1. /\ task[t].step = "refresh" /\ Retry(t) /\ UNCHANGED <<link, rows, counted>>
        /\ unsure' = IF RowOf(t) \in rows THEN unsure \cup {t[1]} ELSE unsure
    BY <1>9 DEF RefreshFails
  <2>2. /\ OneTask(t) /\ task'[t].link = 0 /\ (task'[t].stored => task[t].stored)
        /\ task'[t].step \in {"queued", "failed"}
    BY <2>1, RetryEffect DEF OneTask
  <2>3. CASE RowOf(t) \in rows
    BY <2>1, <2>2, <2>3, <1>1 DEF Unanswered
  <2>4. CASE RowOf(t) \notin rows
    BY <2>1, <2>2, <2>4, <1>1 DEF QuietStep, Running
  <2> QED
    BY <2>2, <2>3, <2>4
<1>10. ASSUME RecordRedis(t) \/ RecordRedisTwice(t)
       PROVE  OneTask(t) /\ Counts(t)
  <2>1. /\ task[t].step = "redis" /\ Go(t, "done") /\ UNCHANGED <<link, rows>>
        /\ \/ unsure' = unsure /\ counted' = [counted EXCEPT ![t[1]] = @ + 1]
           \/ unsure' = unsure \cup {t[1]} /\ counted' = [counted EXCEPT ![t[1]] = @ + 2]
    BY <1>10 DEF RecordRedis, RecordRedisTwice
  <2>2. OneTask(t) /\ task'[t].step = "done" /\ task'[t].link = task[t].link
          /\ task'[t].retries = task[t].retries /\ task'[t].stored = task[t].stored
    BY <2>1, <1>2, GoEffect DEF OneTask
  <2> QED
    BY <2>1, <2>2 DEF Counts
<1>11. ASSUME RedisFails(t)
       PROVE  OneTask(t) /\ QuietStep(t)
  <2>1. /\ task[t].step = "redis" /\ Go(t, "done")
        /\ UNCHANGED <<link, rows, counted, unsure>>
    BY <1>11 DEF RedisFails
  <2>2. OneTask(t) /\ task'[t].step = "done" /\ task'[t].link = task[t].link
          /\ task'[t].retries = task[t].retries /\ task'[t].stored = task[t].stored
    BY <2>1, <1>2, GoEffect DEF OneTask
  <2> QED
    BY <2>1, <2>2, <1>1 DEF QuietStep, Running
<1>12. ASSUME EventTaskFails(t) \/ EventProcessDies(t) \/ EventMissed(t)
       PROVE  OneTask(t) /\ QuietStep(t)
  <2>1. PICK s \in {"failed", "lost"} :
            /\ task[t].step \in {"queued"} \cup Running
            /\ task' = [task EXCEPT ![t] = Gone(t, s)]
            /\ UNCHANGED <<link, rows, counted, unsure>>
    BY <1>12 DEF EventTaskFails, EventProcessDies, EventMissed, Running
  <2>2. /\ task' \in [Tasks -> Task] /\ OthersKept(t)
        /\ task'[t].step = s /\ task'[t].link = 0 /\ task'[t].stored = FALSE
    BY <2>1, <1>2, GoneEffect
  <2>3. OneTask(t)
    BY <2>1, <2>2 DEF OneTask, Running
  <2> QED
    BY <2>1, <2>2, <2>3, <1>1 DEF QuietStep
<1> QED
  BY <1>3, <1>4, <1>5, <1>6, <1>7, <1>8, <1>9, <1>10, <1>11, <1>12 DEF RunEvent
-----------------------------------------------------------------------------
(***************************************************************************)
(* The invariant of the click events.                                      *)
(***************************************************************************)
(* The two messages of a click.                                            *)
Sent(k)   == <<k, "sent">>
Resent(k) == <<k, "resent">>

(* While every effect of a click has been answered, one message carries    *)
(* it, its count is the one its task made last, and a row of it is there   *)
(* only once the task has inserted it: at refresh the very row the task    *)
(* looks for, which is why a failed refresh that does not find it may      *)
(* start again.                                                            *)
OneMessage(k) == task[Resent(k)].step = "new"

CountedLast(k) ==
    /\ counted[k] <= 1
    /\ counted[k] > 0 => task[Sent(k)].step = "done"

RowOfTask(k) ==
    /\ \A r \in rows : r.task[1] = k =>
           /\ task[Sent(k)].step \in {"refresh", "redis"} \cup Ended
           /\ task[Sent(k)].step = "refresh" => r = RowOf(Sent(k))
    /\ \A r, s \in rows : r.task[1] = k /\ s.task[1] = k => r = s

OnceInv ==
    \A k \in Clicks \ unsure : OneMessage(k) /\ CountedLast(k) /\ RowOfTask(k)

(* A task that has read its row back has nothing left to do but to count.  *)
StoredInv ==
    \A t \in Tasks : task[t].stored =>
        /\ task[t].step \in {"redis", "done"}
        /\ RowOf(t) \in rows \/ ~link.live \/ link.id # task[t].link

(* The second message of a click is never queued before the first.         *)
SentFirst ==
    \A k \in Clicks : task[Sent(k)].step = "new" => OneMessage(k)

EventInv == EventsTypeOK /\ LinksInv /\ OnceInv /\ StoredInv /\ SentFirst

LEMMA TheTasks ==
    /\ \A k \in Clicks : Sent(k) \in Tasks /\ Resent(k) \in Tasks
    /\ \A t \in Tasks : t[1] \in Clicks /\ (t = Sent(t[1]) \/ t = Resent(t[1]))
    /\ \A k \in Clicks : Sent(k)[1] = k /\ Resent(k)[1] = k /\ Sent(k) # Resent(k)
BY DEF Tasks, Sent, Resent

LEMMA EventInitInv ==
    ASSUME EventInit
    PROVE  EventInv
<1>1. \A t \in Tasks : task[t] = Fresh("new", 0)
  BY DEF EventInit
<1>2. \A t \in Tasks : task[t].step = "new" /\ task[t].link = 0 /\ task[t].stored = FALSE
  BY <1>1 DEF Fresh
<1>3. Fresh("new", 0) \in Task
  BY EventBoundsAssumption DEF Fresh, Task
<1>4. task \in [Tasks -> Task]
  BY <1>3 DEF EventInit
<1>5. EventsTypeOK
  BY <1>4, EventBoundsAssumption DEF EventInit, EventsTypeOK
<1>6. LinksInv
  BY <1>2 DEF EventInit, LinksInv, RowsHaveLink
<1>7. OnceInv
  BY <1>2, TheTasks DEF EventInit, OnceInv, OneMessage, CountedLast, RowOfTask
<1>8. StoredInv
  BY <1>2 DEF StoredInv
<1>9. SentFirst
  BY <1>2, TheTasks DEF SentFirst, OneMessage
<1> QED
  BY <1>5, <1>6, <1>7, <1>8, <1>9 DEF EventInv

(* A row that is inserted names a link that there is.                      *)
LEMMA InsertedRow ==
    ASSUME EventsTypeOK, LinksInv, NEW t \in Tasks, LinkExists(t)
    PROVE  /\ RowOf(t) \in ClickRow
           /\ RowOf(t).link = link.id
           /\ RowOf(t).task = t
<1>1. task[t].retries \in 0 .. EventRetries
  BY DEF EventsTypeOK, Task
<1>2. task[t].link \in 1 .. MaxLinks
  BY EventBoundsAssumption DEF EventsTypeOK, LinkExists, LinksInv
<1> QED
  BY <1>1, <1>2 DEF RowOf, ClickRow, LinkExists

(* A step of a task keeps the types and the links.                         *)
LEMMA TaskKeepsLinks ==
    ASSUME EventInv, NEW t \in Tasks, TakeEvent(t) \/ RunEvent(t) \/ EventMissed(t)
    PROVE  EventsTypeOK' /\ LinksInv' /\ SentFirst'
<1>1. /\ OneTask(t)
      /\ QuietStep(t) \/ Inserts(t) \/ Counts(t) \/ Unanswered(t)
  BY TaskEffect DEF EventInv
<1>2. /\ link \in [live : BOOLEAN, id : 0 .. MaxLinks]
      /\ rows \subseteq ClickRow /\ counted \in [Clicks -> Nat] /\ unsure \subseteq Clicks
      /\ t[1] \in Clicks
  BY TheTasks DEF EventInv, EventsTypeOK
<1>3. rows' \subseteq ClickRow /\ RowsHaveLink'
  <2>1. RowsHaveLink
    BY DEF EventInv, LinksInv
  <2>2. CASE rows' = rows
    BY <1>1, <1>2, <2>1, <2>2 DEF OneTask, RowsHaveLink
  <2>3. CASE Inserts(t)
    <3>1. RowOf(t) \in ClickRow /\ RowOf(t).link = link.id /\ link.live
      BY <2>3, InsertedRow DEF EventInv, Inserts, LinkExists
    <3>2. rows' = rows \cup {RowOf(t)} /\ link' = link
      BY <1>1, <2>3 DEF Inserts, OneTask
    <3> QED
      BY <1>2, <2>1, <3>1, <3>2 DEF RowsHaveLink
  <2> QED
    BY <1>1, <2>2, <2>3 DEF QuietStep, Counts, Unanswered
<1>4. counted' \in [Clicks -> Nat] /\ unsure' \subseteq Clicks
  BY <1>1, <1>2 DEF QuietStep, Inserts, Counts, Unanswered
<1>5. EventsTypeOK'
  BY <1>1, <1>2, <1>3, <1>4 DEF EventsTypeOK, OneTask
<1>6. \A u \in Tasks : task[u].link <= link.id
  BY DEF EventInv, LinksInv
<1>7. task'[t].link <= link.id
  BY <1>1, <1>6 DEF QuietStep, Inserts, Counts, Unanswered
<1>8. LinksInv'
  <2>1. \A u \in Tasks : task'[u].link <= link'.id
    BY <1>1, <1>6, <1>7 DEF OneTask, OthersKept
  <2>2. link'.live => link'.id > 0
    BY <1>1 DEF OneTask, EventInv, LinksInv
  <2> QED
    BY <1>3, <2>1, <2>2 DEF LinksInv
<1>9. SentFirst'
  BY <1>1, TheTasks DEF OneTask, OthersKept, EventInv, SentFirst, OneMessage
<1> QED
  BY <1>5, <1>8, <1>9

(* The other message of a click whose effects were all answered is new and *)
(* does not run: a step of one of its tasks is one of the task sent.       *)
LEMMA RunsSent ==
    ASSUME EventInv, NEW t \in Tasks, t[1] \notin unsure,
           task[t].step # "new"
    PROVE  t = Sent(t[1])
BY TheTasks DEF EventInv, OnceInv, OneMessage

(* What a task does to a click that stays answered.                        *)
LEMMA TaskKeepsOnce ==
    ASSUME EventInv, NEW t \in Tasks, TakeEvent(t) \/ RunEvent(t) \/ EventMissed(t)
    PROVE  OnceInv'
<1>1. /\ OneTask(t)
      /\ QuietStep(t) \/ Inserts(t) \/ Counts(t) \/ Unanswered(t)
  BY TaskEffect DEF EventInv
<1> SUFFICES ASSUME NEW k \in Clicks, k \notin unsure'
             PROVE  OneMessage(k)' /\ CountedLast(k)' /\ RowOfTask(k)'
  BY DEF OnceInv
<1>2. unsure \subseteq unsure' /\ k \notin unsure
  BY <1>1 DEF QuietStep, Inserts, Counts, Unanswered
<1>3. OneMessage(k) /\ CountedLast(k) /\ RowOfTask(k)
  BY <1>2 DEF EventInv, OnceInv
<1>4. counted \in [Clicks -> Nat] /\ t[1] \in Clicks
  BY TheTasks DEF EventInv, EventsTypeOK
<1>5. CASE t[1] # k
  <2>1. task'[Sent(k)] = task[Sent(k)] /\ task'[Resent(k)] = task[Resent(k)]
    BY <1>1, <1>5, TheTasks DEF OneTask, OthersKept
  <2>2. counted'[k] = counted[k]
    BY <1>1, <1>4, <1>5 DEF QuietStep, Inserts, Counts, Unanswered
  <2>3. \A r \in rows' : r.task[1] = k => r \in rows
    <3>1. RowOf(t).task[1] = t[1]
      BY DEF RowOf
    <3> QED
      BY <1>1, <1>5, <3>1 DEF QuietStep, Inserts, Counts, Unanswered
  <2>4. RowOf(Sent(k))' = RowOf(Sent(k))
    BY <2>1 DEF RowOf
  <2>5. OneMessage(k)' /\ CountedLast(k)'
    BY <1>3, <2>1, <2>2 DEF OneMessage, CountedLast
  <2>6. RowOfTask(k)'
    BY <1>3, <2>1, <2>3, <2>4 DEF RowOfTask
  <2> QED
    BY <2>5, <2>6
<1>6. CASE t[1] = k
  <2>1. t = Sent(k)
    <3>1. task[t].step # "new"
      BY <1>1 DEF QuietStep, Inserts, Counts, Unanswered, Running
    <3> QED
      BY <1>2, <1>6, <3>1, RunsSent
  <2>2. unsure' = unsure
    BY <1>1, <1>2, <1>6 DEF QuietStep, Inserts, Counts, Unanswered
  <2>3. OneMessage(k)'
    BY <1>1, <1>3, <2>1, TheTasks DEF OneTask, OthersKept, OneMessage
  <2>4. task[t].step # "done" /\ counted[k] = 0
    <3>1. task[t].step # "done"
      BY <1>1 DEF QuietStep, Inserts, Counts, Unanswered, Running
    <3> QED
      BY <1>3, <1>4, <2>1, <3>1 DEF CountedLast
  <2>5. CASE QuietStep(t)
    <3>1. CountedLast(k)'
      BY <2>4, <2>5 DEF QuietStep, CountedLast
    <3>2. task'[t].step # "refresh" /\ rows' = rows
      BY <2>5 DEF QuietStep
    <3>3. ASSUME NEW r \in rows, r.task[1] = k
          PROVE  task'[t].step \in {"refresh", "redis"} \cup Ended
      <4>1. task[t].step \in {"refresh", "redis"}
        BY <1>3, <2>1, <2>5, <3>3 DEF RowOfTask, QuietStep, Running, Ended
      <4>2. ~(task[t].step = "refresh" /\ RowOf(t) \notin rows)
        BY <1>3, <2>1, <3>3 DEF RowOfTask
      <4> QED
        BY <2>5, <4>1, <4>2 DEF QuietStep, Ended
    <3>4. RowOfTask(k)'
      BY <1>3, <2>1, <3>2, <3>3 DEF RowOfTask
    <3> QED
      BY <2>3, <3>1, <3>4
  <2>6. CASE Inserts(t)
    <3>1. CountedLast(k)'
      BY <2>4, <2>6 DEF Inserts, CountedLast
    <3>2. \A r \in rows : r.task[1] # k
      BY <1>3, <2>1, <2>6 DEF Inserts, RowOfTask, Ended
    <3>3. /\ task'[t].step = "refresh" /\ task'[t].retries = task[t].retries
          /\ task'[t].link = task[t].link
      BY <1>2, <1>6, <2>2, <2>6 DEF Inserts
    <3>4. RowOf(t)' = RowOf(t) /\ rows' = rows \cup {RowOf(t)}
      BY <2>6, <3>3 DEF Inserts, RowOf
    <3>5. RowOfTask(k)'
      BY <2>1, <3>2, <3>3, <3>4 DEF RowOfTask
    <3> QED
      BY <2>3, <3>1, <3>5
  <2>7. CASE Counts(t)
    <3>1. counted'[k] = 1 /\ task'[t].step = "done" /\ rows' = rows
      BY <1>2, <1>4, <1>6, <2>2, <2>4, <2>7 DEF Counts
    <3>2. CountedLast(k)'
      BY <2>1, <3>1 DEF CountedLast
    <3>3. RowOfTask(k)'
      BY <1>3, <2>1, <3>1 DEF RowOfTask, Ended
    <3> QED
      BY <2>3, <3>2, <3>3
  <2>8. CASE Unanswered(t)
    BY <1>6, <2>8 DEF Unanswered
  <2> QED
    BY <1>1, <2>5, <2>6, <2>7, <2>8
<1> QED
  BY <1>5, <1>6

(* A task's row stays where it is while a task runs; only its own refresh  *)
(* makes a task stored.                                                    *)
LEMMA TaskKeepsStored ==
    ASSUME EventInv, NEW t \in Tasks, TakeEvent(t) \/ RunEvent(t) \/ EventMissed(t)
    PROVE  StoredInv'
<1>1. /\ OneTask(t)
      /\ QuietStep(t) \/ Inserts(t) \/ Counts(t) \/ Unanswered(t)
  BY TaskEffect DEF EventInv
<1>2. rows \subseteq rows' /\ link' = link
  BY <1>1 DEF OneTask, QuietStep, Inserts, Counts, Unanswered
<1> SUFFICES ASSUME NEW u \in Tasks, task'[u].stored
             PROVE  /\ task'[u].step \in {"redis", "done"}
                    /\ RowOf(u)' \in rows' \/ ~link.live \/ link.id # task'[u].link
  BY <1>2 DEF StoredInv
<1>3. CASE u # t
  <2>1. task'[u] = task[u]
    BY <1>1, <1>3 DEF OneTask, OthersKept
  <2>2. RowOf(u)' = RowOf(u)
    BY <2>1 DEF RowOf
  <2> QED
    BY <1>2, <2>1, <2>2 DEF EventInv, StoredInv
<1>4. CASE u = t
  <2>1. task[t].stored => task[t].step \in {"redis", "done"}
    BY DEF EventInv, StoredInv
  <2>2. CASE Inserts(t) \/ Unanswered(t)
    BY <1>4, <2>1, <2>2 DEF Inserts, Unanswered
  <2>3. CASE Counts(t)
    <3>1. task[t].stored /\ task'[t].link = task[t].link /\ task'[t].step = "done"
      BY <1>4, <2>3 DEF Counts
    <3>2. RowOf(t)' = RowOf(t)
      BY <2>3 DEF Counts, RowOf
    <3> QED
      BY <1>2, <1>4, <3>1, <3>2 DEF EventInv, StoredInv
  <2>4. CASE QuietStep(t)
    <3>1. task'[t].step \in {"redis", "done"}
      BY <1>4, <2>1, <2>4 DEF QuietStep, Running
    <3>2. task'[t].retries = task[t].retries /\ task'[t].link = task[t].link
      BY <1>4, <2>1, <2>4 DEF QuietStep, Running
    <3>3. RowOf(t)' = RowOf(t)
      BY <3>2 DEF RowOf
    <3>4. task[t].stored \/ RowOf(t) \in rows
      BY <1>4, <2>4 DEF QuietStep
    <3> QED
      BY <1>2, <1>4, <3>1, <3>2, <3>3, <3>4 DEF EventInv, StoredInv
  <2> QED
    BY <1>1, <2>2, <2>3, <2>4
<1> QED
  BY <1>3, <1>4

(* The link is created when no row is left, and deleted with its rows.     *)
LEMMA LinkStepKeeps ==
    ASSUME EventInv, CreateLinkRow \/ DeleteLinkRow
    PROVE  EventInv'
<1>1. /\ link \in [live : BOOLEAN, id : 0 .. MaxLinks]
      /\ task' = task /\ counted' = counted /\ unsure' = unsure
      /\ rows' \subseteq rows
  BY DEF EventInv, EventsTypeOK, CreateLinkRow, DeleteLinkRow, Cascade
<1>2. \A t \in Tasks : RowOf(t)' = RowOf(t)
  BY <1>1 DEF RowOf
<1>3. OnceInv' /\ SentFirst'
  BY <1>1, <1>2, TheTasks
     DEF EventInv, OnceInv, SentFirst, OneMessage, CountedLast, RowOfTask
<1>4. CASE CreateLinkRow
  <2>1. /\ ~link.live /\ link.id < MaxLinks /\ rows' = rows
        /\ link' = [live |-> TRUE, id |-> link.id + 1]
    BY <1>4 DEF CreateLinkRow
  <2>2. link'.live = TRUE /\ link'.id = link.id + 1
        /\ link' \in [live : BOOLEAN, id : 0 .. MaxLinks]
    BY <1>1, <2>1, EventBoundsAssumption
  <2>3. EventsTypeOK'
    BY <1>1, <2>1, <2>2 DEF EventInv, EventsTypeOK
  <2>4. \A t \in Tasks : task[t].link \in Nat /\ task[t].link <= link.id
    BY EventBoundsAssumption DEF EventInv, EventsTypeOK, Task, LinksInv
  <2>5. link.id \in Nat
    BY <1>1, EventBoundsAssumption
  <2>6. rows = {}
    BY <2>1 DEF EventInv, LinksInv, RowsHaveLink
  <2>7. LinksInv'
    BY <1>1, <2>1, <2>2, <2>4, <2>5, <2>6 DEF LinksInv, RowsHaveLink
  <2>8. \A t \in Tasks : link'.id # task[t].link
    BY <2>2, <2>4, <2>5
  <2>9. StoredInv'
    BY <1>1, <2>8 DEF EventInv, StoredInv
  <2> QED
    BY <1>3, <2>3, <2>7, <2>9 DEF EventInv
<1>5. CASE DeleteLinkRow
  <2>1. link' = [link EXCEPT !.live = FALSE] /\ rows' = {r \in rows : r.link # link.id}
    BY <1>5 DEF DeleteLinkRow, Cascade
  <2>2. link'.live = FALSE /\ link'.id = link.id
        /\ link' \in [live : BOOLEAN, id : 0 .. MaxLinks]
    BY <1>1, <2>1
  <2>3. EventsTypeOK'
    BY <1>1, <2>2 DEF EventInv, EventsTypeOK
  <2>4. rows' = {}
    BY <2>1 DEF EventInv, LinksInv, RowsHaveLink
  <2>5. LinksInv'
    BY <1>1, <2>2, <2>4 DEF EventInv, LinksInv, RowsHaveLink
  <2>6. StoredInv'
    BY <1>1, <2>2 DEF EventInv, StoredInv
  <2> QED
    BY <1>3, <2>3, <2>5, <2>6 DEF EventInv
<1> QED
  BY <1>4, <1>5

(* Publishing: nothing was done for this click before.                     *)
LEMMA PublishKeeps ==
    ASSUME EventInv, NEW k \in Clicks, EnqueueClickEvent(k)
    PROVE  EventInv'
<1>1. /\ task \in [Tasks -> Task] /\ Sent(k) \in Tasks
      /\ link' = link /\ rows' = rows /\ counted' = counted /\ unsure' = unsure
      /\ task[Sent(k)].step = "new"
  BY TheTasks DEF EventInv, EventsTypeOK, EnqueueClickEvent, Sent
<1>2. PICK s \in {"queued", "unsent"} : Go(Sent(k), s)
  BY DEF EnqueueClickEvent, Sent
<1>3. s \in Steps
  BY DEF Steps, Ended
<1>4. /\ task' \in [Tasks -> Task]
      /\ OthersKept(Sent(k))
      /\ task'[Sent(k)].step = s
      /\ task'[Sent(k)].link = task[Sent(k)].link
      /\ task'[Sent(k)].retries = task[Sent(k)].retries
      /\ task'[Sent(k)].stored = task[Sent(k)].stored
  BY <1>1, <1>2, <1>3, GoEffect DEF EventInv
<1>5. /\ \A t \in Tasks : /\ task'[t].link = task[t].link
                          /\ task'[t].retries = task[t].retries
                          /\ task'[t].stored = task[t].stored
      /\ \A t \in Tasks : t # Sent(k) => task'[t] = task[t]
  BY <1>4, TheTasks DEF OthersKept
<1>6. \A t \in Tasks : RowOf(t)' = RowOf(t)
  BY <1>5 DEF RowOf
<1>7. EventsTypeOK'
  BY <1>1, <1>4 DEF EventInv, EventsTypeOK
<1>8. LinksInv'
  BY <1>1, <1>5 DEF EventInv, LinksInv, RowsHaveLink
<1>9. OnceInv'
  <2> SUFFICES ASSUME NEW c \in Clicks, c \notin unsure'
               PROVE  OneMessage(c)' /\ CountedLast(c)' /\ RowOfTask(c)'
    BY DEF OnceInv
  <2>1. OneMessage(c) /\ CountedLast(c) /\ RowOfTask(c)
    BY <1>1 DEF EventInv, OnceInv
  <2>2. task'[Resent(c)] = task[Resent(c)]
    BY <1>5, TheTasks DEF Sent, Resent
  <2>3. CASE c # k
    <3>1. task'[Sent(c)] = task[Sent(c)]
      BY <1>5, <2>3, TheTasks
    <3> QED
      BY <1>1, <1>6, <2>1, <2>2, <3>1, TheTasks DEF OneMessage, CountedLast, RowOfTask
  <2>4. CASE c = k
    <3>1. counted[k] \in Nat /\ counted[k] = 0
      BY <1>1, <2>1, <2>4 DEF CountedLast, EventInv, EventsTypeOK
    <3>2. CountedLast(k)'
      BY <1>1, <3>1 DEF CountedLast
    <3>3. \A r \in rows : r.task[1] # k
      BY <1>1, <2>1, <2>4 DEF RowOfTask, Ended
    <3>4. RowOfTask(k)'
      BY <1>1, <3>3 DEF RowOfTask
    <3> QED
      BY <2>1, <2>2, <2>4, <3>2, <3>4 DEF OneMessage
  <2> QED
    BY <2>3, <2>4
<1>10. StoredInv'
  <2> SUFFICES ASSUME NEW t \in Tasks, task'[t].stored
               PROVE  /\ task'[t].step \in {"redis", "done"}
                      /\ RowOf(t)' \in rows' \/ ~link.live \/ link.id # task'[t].link
    BY <1>1 DEF StoredInv
  <2>1. task[t].stored /\ task[t].step \in {"redis", "done"}
        /\ (RowOf(t) \in rows \/ ~link.live \/ link.id # task[t].link)
    BY <1>5 DEF EventInv, StoredInv
  <2>2. task'[t] = task[t]
    BY <1>1, <1>5, <2>1
  <2> QED
    BY <1>1, <1>6, <2>1, <2>2
<1>11. SentFirst'
  <2> SUFFICES ASSUME NEW c \in Clicks, task'[Sent(c)].step = "new"
               PROVE  task'[Resent(c)].step = "new"
    BY DEF SentFirst, OneMessage
  <2>1. c # k
    BY <1>4
  <2>2. task'[Sent(c)] = task[Sent(c)] /\ task'[Resent(c)] = task[Resent(c)]
    BY <1>5, <2>1, TheTasks DEF Sent, Resent
  <2> QED
    BY <2>2 DEF EventInv, SentFirst, OneMessage
<1> QED
  BY <1>7, <1>8, <1>9, <1>10, <1>11 DEF EventInv

(* A message in the queue once more: its click is unsure at once.          *)
LEMMA AgainKeeps ==
    ASSUME EventInv, NEW k \in Clicks, EventAgain(k)
    PROVE  EventInv'
<1>1. /\ task \in [Tasks -> Task] /\ Sent(k) \in Tasks /\ Resent(k) \in Tasks
      /\ Sent(k) # Resent(k)
      /\ link' = link /\ rows' = rows /\ counted' = counted /\ unsure' = unsure \cup {k}
      /\ task[Sent(k)].step # "new"
  BY TheTasks DEF EventInv, EventsTypeOK, EventAgain, Sent, Resent
<1>2. PICK r \in 0 .. task[Sent(k)].retries :
          task' = [task EXCEPT ![Resent(k)] = Fresh("queued", r)]
  BY DEF EventAgain, Sent, Resent
<1> DEFINE here == Fresh("queued", r)
<1>3. here \in Task /\ here.link = 0 /\ here.stored = FALSE
  <2>1. task[Sent(k)].retries \in 0 .. EventRetries
    BY <1>1 DEF Task
  <2>2. r \in 0 .. EventRetries /\ 0 \in 0 .. MaxLinks
    BY <2>1, EventBoundsAssumption
  <2>3. here = [step |-> "queued", retries |-> r, link |-> 0, stored |-> FALSE]
    BY DEF Fresh
  <2> HIDE DEF here
  <2> QED
    BY <2>2, <2>3 DEF Task
<1> HIDE DEF here
<1>4. task' = [task EXCEPT ![Resent(k)] = here]
  BY <1>2 DEF here
<1>5. /\ task' \in [Tasks -> Task]
      /\ \A t \in Tasks : t # Resent(k) => task'[t] = task[t]
      /\ task'[Resent(k)].link = 0 /\ task'[Resent(k)].stored = FALSE
  BY <1>1, <1>3, <1>4
<1>6. \A t \in Tasks : t # Resent(k) => RowOf(t)' = RowOf(t)
  BY <1>5 DEF RowOf
<1>7. EventsTypeOK'
  BY <1>1, <1>5 DEF EventInv, EventsTypeOK
<1>8. LinksInv'
  <2>1. link.id \in Nat
    BY EventBoundsAssumption DEF EventInv, EventsTypeOK
  <2>2. \A t \in Tasks : task'[t].link <= link.id
    BY <1>5, <2>1 DEF EventInv, LinksInv
  <2> QED
    BY <1>1, <2>2 DEF EventInv, LinksInv, RowsHaveLink
<1>9. OnceInv'
  <2> SUFFICES ASSUME NEW c \in Clicks, c \notin unsure'
               PROVE  OneMessage(c)' /\ CountedLast(c)' /\ RowOfTask(c)'
    BY DEF OnceInv
  <2>1. c # k /\ OneMessage(c) /\ CountedLast(c) /\ RowOfTask(c)
    BY <1>1 DEF EventInv, OnceInv
  <2>2. Sent(c) # Resent(k) /\ Resent(c) # Resent(k)
    BY <2>1 DEF Sent, Resent
  <2>3. /\ task'[Sent(c)] = task[Sent(c)] /\ task'[Resent(c)] = task[Resent(c)]
        /\ RowOf(Sent(c))' = RowOf(Sent(c))
    BY <1>5, <1>6, <2>2, TheTasks
  <2> QED
    BY <1>1, <2>1, <2>3 DEF OneMessage, CountedLast, RowOfTask
<1>10. StoredInv'
  <2> SUFFICES ASSUME NEW t \in Tasks, task'[t].stored
               PROVE  /\ task'[t].step \in {"redis", "done"}
                      /\ RowOf(t)' \in rows' \/ ~link.live \/ link.id # task'[t].link
    BY <1>1 DEF StoredInv
  <2>1. t # Resent(k)
    BY <1>5
  <2>2. task'[t] = task[t]
    BY <1>5, <2>1
  <2> QED
    BY <1>1, <1>6, <2>1, <2>2 DEF EventInv, StoredInv
<1>11. SentFirst'
  <2> SUFFICES ASSUME NEW c \in Clicks, task'[Sent(c)].step = "new"
               PROVE  task'[Resent(c)].step = "new"
    BY DEF SentFirst, OneMessage
  <2>1. task'[Sent(c)] = task[Sent(c)]
    BY <1>5, TheTasks DEF Sent, Resent
  <2>2. c # k
    BY <1>1, <2>1
  <2>3. task'[Resent(c)] = task[Resent(c)]
    BY <1>5, <2>2, TheTasks DEF Resent
  <2> QED
    BY <2>1, <2>3 DEF EventInv, SentFirst, OneMessage
<1> QED
  BY <1>7, <1>8, <1>9, <1>10, <1>11 DEF EventInv

LEMMA EventStepKeeps ==
    ASSUME EventInv, [EventNext]_eventVars
    PROVE  EventInv'
<1>1. CASE UNCHANGED eventVars
  BY <1>1 DEF eventVars, EventInv, EventsTypeOK, LinksInv, RowsHaveLink, OnceInv,
              OneMessage, CountedLast, RowOfTask, RowOf, StoredInv, SentFirst
<1>2. CASE CreateLinkRow \/ DeleteLinkRow
  BY <1>2, LinkStepKeeps
<1>3. ASSUME NEW k \in Clicks, EnqueueClickEvent(k) \/ EventAgain(k)
      PROVE  EventInv'
  BY <1>3, PublishKeeps, AgainKeeps
<1>4. ASSUME NEW t \in Tasks, TakeEvent(t) \/ RunEvent(t) \/ EventMissed(t)
      PROVE  EventInv'
  BY <1>4, TaskKeepsLinks, TaskKeepsOnce, TaskKeepsStored DEF EventInv
<1> QED
  BY <1>1, <1>2, <1>3, <1>4 DEF EventNext

(* What the runs check follows: the rows a run sees, and of a click whose  *)
(* effects were answered one row and one count at most.                    *)
LEMMA EventInvImplies ==
    ASSUME EventInv
    PROVE  RowsHaveLink /\ StoredOnce
<1>1. RowsHaveLink
  BY DEF EventInv, LinksInv
<1>2. StoredOnce
  BY DEF EventInv, OnceInv, CountedLast, RowOfTask, StoredInv, StoredOnce
<1> QED
  BY <1>1, <1>2
-----------------------------------------------------------------------------
(***************************************************************************)
(* The deliveries.  Before an attempt reaches the receiver, what it acted  *)
(* on is covered by the retries already spent, and each of those attempts  *)
(* is on record as unanswered; an attempt it acted on adds one, and is     *)
(* either answered or put on record in turn.                               *)
(***************************************************************************)
Attempt == {"new", "queued", "check", "posting"}

PostInv ==
    /\ PostsTypeOK
    /\ \A m \in Posts :
           /\ post[m].step \in Attempt =>
                  /\ received[m] <= post[m].retries
                  /\ received[m] > 0 => m \in denied
           /\ post[m].step \in {"acted", "delivered"} => received[m] > 0
           /\ received[m] > 1 => m \in denied
           /\ received[m] <= post[m].retries + 1
           /\ post[m].step = "new" => received[m] = 0

LEMMA PostInitInv ==
    ASSUME PostInit
    PROVE  PostInv
<1>1. 0 \in 0 .. TaskRetries
  BY RetriesAssumption
<1>2. [step |-> "new", retries |-> 0]
        \in [step : {"new", "queued"} \cup Posting \cup Delivered, retries : 0 .. TaskRetries]
  BY <1>1
<1>3. PostsTypeOK
  BY <1>2 DEF PostInit, PostsTypeOK
<1>4. \A m \in Posts : post[m].step = "new" /\ post[m].retries = 0 /\ received[m] = 0
  BY DEF PostInit
<1> QED
  BY <1>3, <1>4 DEF PostInv

PostSteps == {"new", "queued"} \cup Posting \cup Delivered

(* A delivery moves on within its attempt.                                 *)
LEMMA PutEffect ==
    ASSUME PostsTypeOK, NEW m \in Posts, NEW s \in PostSteps, Put(m, s)
    PROVE  /\ post' \in [Posts -> [step : PostSteps, retries : 0 .. TaskRetries]]
           /\ \A o \in Posts \ {m} : post'[o] = post[o]
           /\ post'[m].step = s /\ post'[m].retries = post[m].retries
<1>1. post \in [Posts -> [step : PostSteps, retries : 0 .. TaskRetries]]
  BY DEF PostsTypeOK, PostSteps
<1> DEFINE here == [post[m] EXCEPT !.step = s]
<1>2. /\ here \in [step : PostSteps, retries : 0 .. TaskRetries]
      /\ here.step = s /\ here.retries = post[m].retries
  BY <1>1
<1>3. post' = [post EXCEPT ![m] = here]
  BY DEF Put
<1> HIDE DEF here
<1> QED
  BY <1>1, <1>2, <1>3

(* A retry has spent one more, or there was none left to spend.            *)
LEMMA RetryPostEffect ==
    ASSUME PostsTypeOK, NEW m \in Posts, RetryPost(m)
    PROVE  /\ post' \in [Posts -> [step : PostSteps, retries : 0 .. TaskRetries]]
           /\ \A o \in Posts \ {m} : post'[o] = post[o]
           /\ \/ post'[m].step = "queued" /\ post'[m].retries = post[m].retries + 1
              \/ post'[m].step = "gaveup" /\ post'[m].retries = post[m].retries
<1>1. post \in [Posts -> [step : PostSteps, retries : 0 .. TaskRetries]]
  BY DEF PostsTypeOK, PostSteps
<1>2. {"queued", "gaveup"} \subseteq PostSteps
  BY DEF PostSteps, Delivered
<1> DEFINE again == [step |-> "queued", retries |-> post[m].retries + 1]
           over  == [post[m] EXCEPT !.step = "gaveup"]
<1>3. /\ over \in [step : PostSteps, retries : 0 .. TaskRetries]
      /\ over.step = "gaveup" /\ over.retries = post[m].retries
  BY <1>1, <1>2
<1>4. again.step = "queued" /\ again.retries = post[m].retries + 1
  OBVIOUS
<1>5. post[m].retries < TaskRetries =>
          again \in [step : PostSteps, retries : 0 .. TaskRetries]
  <2>1. post[m].retries < TaskRetries => post[m].retries + 1 \in 0 .. TaskRetries
    BY <1>1, RetriesAssumption
  <2> QED
    BY <1>2, <2>1
<1>6. post' = [post EXCEPT ![m] = IF post[m].retries < TaskRetries THEN again ELSE over]
  BY DEF RetryPost
<1> HIDE DEF again, over
<1> QED
  BY <1>1, <1>3, <1>4, <1>5, <1>6

LEMMA PostStepKeeps ==
    ASSUME PostInv, [PostNext]_postVars
    PROVE  PostInv'
<1>1. CASE UNCHANGED postVars
  BY <1>1 DEF postVars, PostInv, PostsTypeOK
<1>2. ASSUME NEW m \in Posts,
             (\E e \in Hooks : m = <<e, "sent">> /\ HandOver(e))
               \/ TakePost(m) \/ CheckRetries(m) \/ Answers(m) \/ PostLost(m)
      PROVE  PostInv'
  <2>1. PostsTypeOK
    BY DEF PostInv
  <2>2. /\ received \in [Posts -> Nat] /\ denied \subseteq Posts
        /\ post \in [Posts -> [step : PostSteps, retries : 0 .. TaskRetries]]
        /\ post[m].retries \in Nat
    BY <2>1 DEF PostsTypeOK, PostSteps
  <2>3. {"queued", "check", "posting", "acted", "delivered", "exhausted", "lost"}
          \subseteq PostSteps
    BY DEF PostSteps, Posting, Delivered
  <2>4. ASSUME post' \in [Posts -> [step : PostSteps, retries : 0 .. TaskRetries]],
               \A o \in Posts \ {m} : post'[o] = post[o],
               \A o \in Posts \ {m} : received'[o] = received[o],
               received' \in [Posts -> Nat],
               denied \subseteq denied', denied' \subseteq Posts,
               post'[m].step \in Attempt =>
                  /\ received'[m] <= post'[m].retries
                  /\ received'[m] > 0 => m \in denied',
               post'[m].step \in {"acted", "delivered"} => received'[m] > 0,
               received'[m] > 1 => m \in denied',
               received'[m] <= post'[m].retries + 1,
               post'[m].step # "new"
        PROVE  PostInv'
    <3>1. PostsTypeOK'
      BY <2>4 DEF PostsTypeOK, PostSteps
    <3>2. ASSUME NEW o \in Posts
          PROVE  /\ post'[o].step \in Attempt =>
                        /\ received'[o] <= post'[o].retries
                        /\ received'[o] > 0 => o \in denied'
                 /\ post'[o].step \in {"acted", "delivered"} => received'[o] > 0
                 /\ received'[o] > 1 => o \in denied'
                 /\ received'[o] <= post'[o].retries + 1
                 /\ post'[o].step = "new" => received'[o] = 0
      <4>1. CASE o = m
        BY <2>4, <4>1
      <4>2. CASE o # m
        BY <2>4, <4>2 DEF PostInv
      <4> QED
        BY <4>1, <4>2
    <3> QED
      BY <3>1, <3>2 DEF PostInv
  <2>5. /\ post[m].step \in Attempt =>
               /\ received[m] <= post[m].retries
               /\ received[m] > 0 => m \in denied
        /\ post[m].step \in {"acted", "delivered"} => received[m] > 0
        /\ received[m] > 1 => m \in denied
        /\ received[m] <= post[m].retries + 1
    BY DEF PostInv
  <2>6. ASSUME (\E e \in Hooks : m = <<e, "sent">> /\ HandOver(e))
                 \/ TakePost(m) \/ CheckRetries(m) \/ PostAnswered(m) \/ PostLost(m)
        PROVE  PostInv'
    <3>1. PICK s \in PostSteps \ {"new"} :
              /\ Put(m, s) /\ received' = received /\ denied' = denied
              /\ s \in Attempt => post[m].step \in Attempt
              /\ s \in {"acted", "delivered"} => post[m].step = "acted"
      <4>1. CASE \E e \in Hooks : m = <<e, "sent">> /\ HandOver(e)
        <5>1. post[m].step = "new" /\ Put(m, "queued") /\ UNCHANGED <<received, denied>>
          BY <4>1 DEF HandOver
        <5> QED
          BY <2>3, <5>1 DEF Attempt
      <4>2. CASE TakePost(m)
        BY <2>3, <4>2 DEF TakePost, Attempt
      <4>3. CASE CheckRetries(m)
        BY <2>3, <4>3 DEF CheckRetries, Attempt
      <4>4. CASE PostAnswered(m)
        BY <2>3, <4>4 DEF PostAnswered, Attempt
      <4>5. CASE PostLost(m)
        BY <2>3, <4>5 DEF PostLost, Attempt
      <4> QED
        BY <2>6, <4>1, <4>2, <4>3, <4>4, <4>5
    <3>2. /\ post' \in [Posts -> [step : PostSteps, retries : 0 .. TaskRetries]]
          /\ \A o \in Posts \ {m} : post'[o] = post[o]
          /\ post'[m].step = s /\ post'[m].retries = post[m].retries
      BY <2>1, <3>1, PutEffect
    <3> QED
      BY <2>2, <2>4, <2>5, <3>1, <3>2
  <2>7. ASSUME ReceiverActs(m)
        PROVE  PostInv'
    <3>1. /\ post[m].step = "posting" /\ Put(m, "acted")
          /\ received' = [received EXCEPT ![m] = @ + 1] /\ denied' = denied
      BY <2>7 DEF ReceiverActs
    <3>2. /\ post' \in [Posts -> [step : PostSteps, retries : 0 .. TaskRetries]]
          /\ \A o \in Posts \ {m} : post'[o] = post[o]
          /\ post'[m].step = "acted" /\ post'[m].retries = post[m].retries
      BY <2>1, <2>3, <3>1, PutEffect
    <3>3. /\ received' \in [Posts -> Nat] /\ received'[m] = received[m] + 1
          /\ \A o \in Posts \ {m} : received'[o] = received[o]
      BY <2>2, <3>1
    <3>4. received[m] <= post[m].retries /\ (received[m] > 0 => m \in denied)
      BY <2>5, <3>1 DEF Attempt
    <3>5. received'[m] > 1 => m \in denied'
      BY <2>2, <3>1, <3>3, <3>4
    <3>6. received'[m] > 0 /\ received'[m] <= post'[m].retries + 1
      BY <2>2, <3>2, <3>3, <3>4
    <3> QED
      BY <2>2, <2>4, <3>1, <3>2, <3>3, <3>5, <3>6 DEF Attempt
  <2>8. ASSUME PostRefused(m)
        PROVE  PostInv'
    <3>1. /\ post[m].step = "posting" /\ RetryPost(m)
          /\ received' = received /\ denied' = denied
      BY <2>8 DEF PostRefused
    <3>2. /\ post' \in [Posts -> [step : PostSteps, retries : 0 .. TaskRetries]]
          /\ \A o \in Posts \ {m} : post'[o] = post[o]
          /\ \/ post'[m].step = "queued" /\ post'[m].retries = post[m].retries + 1
             \/ post'[m].step = "gaveup" /\ post'[m].retries = post[m].retries
      BY <2>1, <3>1, RetryPostEffect
    <3>3. received[m] <= post[m].retries /\ (received[m] > 0 => m \in denied)
      BY <2>5, <3>1 DEF Attempt
    <3>4. received'[m] <= post'[m].retries /\ received'[m] <= post'[m].retries + 1
      BY <2>2, <3>1, <3>2, <3>3
    <3> QED
      BY <2>2, <2>4, <2>5, <3>1, <3>2, <3>3, <3>4
  <2>9. ASSUME AnswerLost(m)
        PROVE  PostInv'
    <3>1. /\ post[m].step = "acted" /\ RetryPost(m)
          /\ received' = received /\ denied' = denied \cup {m}
      BY <2>9 DEF AnswerLost
    <3>2. /\ post' \in [Posts -> [step : PostSteps, retries : 0 .. TaskRetries]]
          /\ \A o \in Posts \ {m} : post'[o] = post[o]
          /\ \/ post'[m].step = "queued" /\ post'[m].retries = post[m].retries + 1
             \/ post'[m].step = "gaveup" /\ post'[m].retries = post[m].retries
      BY <2>1, <3>1, RetryPostEffect
    <3>3. post'[m].step \in Attempt => received'[m] <= post'[m].retries
      BY <2>2, <2>5, <3>1, <3>2 DEF Attempt
    <3>4. received'[m] <= post'[m].retries + 1
      BY <2>2, <2>5, <3>1, <3>2
    <3> QED
      BY <2>2, <2>4, <3>1, <3>2, <3>3, <3>4
  <2> QED
    BY <1>2, <2>6, <2>7, <2>8, <2>9 DEF Answers
(* A message once more has reached nobody yet.                             *)
<1>3. ASSUME NEW e \in Hooks, QueuedAgain(e)
      PROVE  PostInv'
  <2> DEFINE m == <<e, "resent">>
  <2>1. m \in Posts /\ <<e, "sent">> \in Posts
    BY DEF Posts
  <2>2. PostsTypeOK /\ post[m].step = "new" /\ received' = received /\ denied' = denied
    BY <1>3 DEF PostInv, QueuedAgain
  <2>3. PICK r \in 0 .. post[<<e, "sent">>].retries :
            post' = [post EXCEPT ![m] = [step |-> "queued", retries |-> r]]
    BY <1>3 DEF QueuedAgain
  <2> HIDE DEF m
  <2>4. r \in 0 .. TaskRetries /\ received[m] = 0
    BY <2>1, <2>2, RetriesAssumption DEF PostsTypeOK, PostInv
  <2>5. /\ post' \in [Posts -> [step : PostSteps, retries : 0 .. TaskRetries]]
        /\ \A o \in Posts \ {m} : post'[o] = post[o]
        /\ post'[m].step = "queued" /\ post'[m].retries = r
    BY <2>1, <2>2, <2>3, <2>4 DEF PostsTypeOK, PostSteps
  <2>6. PostsTypeOK'
    BY <2>2, <2>5 DEF PostsTypeOK, PostSteps
  <2>7. ASSUME NEW o \in Posts
        PROVE  /\ post'[o].step \in Attempt =>
                      /\ received[o] <= post'[o].retries
                      /\ received[o] > 0 => o \in denied
               /\ post'[o].step \in {"acted", "delivered"} => received[o] > 0
               /\ received[o] > 1 => o \in denied
               /\ received[o] <= post'[o].retries + 1
               /\ post'[o].step = "new" => received[o] = 0
    <3>1. CASE o = m
      BY <2>4, <2>5, <3>1
    <3>2. CASE o # m
      BY <2>5, <3>2 DEF PostInv
    <3> QED
      BY <3>1, <3>2
  <2> QED
    BY <2>2, <2>6, <2>7 DEF PostInv
<1> QED
  <2>1. \A e \in Hooks : <<e, "sent">> \in Posts
    BY DEF Posts
  <2> QED
    BY <1>1, <1>2, <1>3, <2>1 DEF PostNext

LEMMA PostInvImplies ==
    ASSUME PostInv
    PROVE  DeliveryExact
<1>1. \A e \in Hooks : <<e, "sent">> \in Posts /\ <<e, "resent">> \in Posts
  BY DEF Posts
<1>2. \A e \in Hooks :
          received[<<e, "sent">>] + received[<<e, "resent">>] > 1 =>
              <<e, "sent">> \in denied \/ post[<<e, "resent">>].step # "new"
  <2> SUFFICES ASSUME NEW e \in Hooks, <<e, "sent">> \notin denied,
                      post[<<e, "resent">>].step = "new"
               PROVE  ~(received[<<e, "sent">>] + received[<<e, "resent">>] > 1)
    OBVIOUS
  <2>1. received[<<e, "resent">>] = 0
    BY <1>1 DEF PostInv
  <2>2. received[<<e, "sent">>] \in Nat /\ ~(received[<<e, "sent">>] > 1)
    BY <1>1 DEF PostInv, PostsTypeOK
  <2> QED
    BY <2>1, <2>2
<1> QED
  BY <1>2 DEF PostInv, DeliveryExact
-----------------------------------------------------------------------------
(***************************************************************************)
(* The theorems of the worker.                                             *)
(***************************************************************************)
WorkerInv == EventInv /\ PostInv

(* The two arguments, side by side.                                        *)
THEOREM WorkerInvAlways == WorkerSpec => []WorkerInv
<1>1. WorkerInit => WorkerInv
  BY EventInitInv, PostInitInv DEF WorkerInit, WorkerInv
<1>2. WorkerInv /\ [WorkerNext]_workerVars => WorkerInv'
  <2> SUFFICES ASSUME WorkerInv, [WorkerNext]_workerVars
               PROVE  WorkerInv'
    OBVIOUS
  <2>1. [EventNext]_eventVars /\ [PostNext]_postVars
    BY WorkerSteps DEF workerVars
  <2> QED
    BY <2>1, EventStepKeeps, PostStepKeeps DEF WorkerInv
<1> QED
  BY <1>1, <1>2, PTL DEF WorkerSpec

(* The types of the click events and the deliveries hold always.           *)
THEOREM TypeCorrect == WorkerSpec => []TypeOK
<1>1. WorkerInv => TypeOK
  BY DEF WorkerInv, EventInv, PostInv, TypeOK
<1> QED
  BY <1>1, WorkerInvAlways, PTL

(* However inserts, deletions of the link and new links under the same     *)
(* code interleave, no row of clicks is without its link and none is under *)
(* the link of another time (_persist_click_event, DELETE /links).         *)
THEOREM RowsHaveLinkAlways == WorkerSpec => []RowsHaveLink
<1>1. WorkerInv => RowsHaveLink
  BY EventInvImplies DEF WorkerInv
<1> QED
  BY <1>1, WorkerInvAlways, PTL

(* However often process_click_event is retried, and wherever it fails, a  *)
(* click is stored twice or counted twice only if a publication, a commit, *)
(* a refresh or a pipeline went without an answer; and what a task reports *)
(* as persisted is in the table while its link lives.                      *)
THEOREM StoredOnceAlways == WorkerSpec => []StoredOnce
<1>1. WorkerInv => StoredOnce
  BY EventInvImplies DEF WorkerInv
<1> QED
  BY <1>1, WorkerInvAlways, PTL

(* For every limit of retries: a receiver acts again on an event only when *)
(* an answer was lost or the message was queued once more, on one message  *)
(* only after the former; a delivered message was received, and none is    *)
(* posted more often than once and once for each retry                     *)
(* (send_webhook_event).                                                   *)
THEOREM DeliveryExactAlways == WorkerSpec => []DeliveryExact
<1>1. WorkerInv => DeliveryExact
  BY PostInvImplies DEF WorkerInv
<1> QED
  BY <1>1, WorkerInvAlways, PTL
=============================================================================
