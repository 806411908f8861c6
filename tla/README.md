# A TLA+ model of the URL shortener

This directory models the URL shortener (`src/`) in TLA+: modules that follow
the code operation by operation, instances that TLC checks, and theorems that
TLAPS proves for every value of the constants. `PROJECT.json` maps every
definition to the lines it stands for and lists the runs, the findings, the
hazards and the theorems.

    tlc -workers 2 -config MCClickCounter_flush.cfg MCClickCounter
    tlapm ClickCounterProofs.tla

and so on for the other instances and `*Proofs` modules.

## 1. The system

| Component | State it keeps | Operations | Correct when |
|---|---|---|---|
| Redirect counting (`api/v1/redirect.py`, `services/counters.py`) | Redis `link:<code>:clicks`, set `analytics:click_counters:pending` | INCR + SADD + EXPIRE per redirect; UPDATE in PostgreSQL when Redis fails | a redirect is counted exactly once in the end |
| Counter flush (`tasks/analytics.py`, `tasks/celery_app.py`) | what a worker took by GETDEL and has not written | every 30 s: SMEMBERS, then per code GETDEL, locked UPDATE, EXISTS, SADD / SREM; restore on SQLAlchemyError | nothing lost, nothing twice, no code left behind |
| Click-threshold webhook (same transaction; `services/webhooks.py`) | `webhook_fired` in the row | mark before commit, enqueue after it | one event per link and threshold, never none |
| Links API (`api/v1/links.py`) | rows of `links` | POST, GET, PATCH, DELETE | PATCH and DELETE take effect for redirects and counting |
| Redirect cache (`services/cache.py`, `redirect.py`) | Redis `link:<code>:meta` with a TTL | GET, SET EX, DEL; lazy deletion of expired rows | never serves what has expired, staleness bounded |
| Short codes (`services/shortener.py`) | Redis `code_reserved:<code>` for 60 s | SET NX EX, insert under UNIQUE | a code names one link, generation succeeds |
| Webhook delivery (`tasks/webhooks.py`) | Celery message and its retry count | POST with retries | as many attempts as configured, none after a 2xx |
| Click events (`services/analytics_queue.py`, `services/analytics.py`, `tasks/analytics.py`) | rows of `clicks`, Redis analytics counters | enqueue, insert, count | one row per redirect, none without its link |
| Worker pool (`docker-compose.yml`, `tasks/celery_app.py`) | two processes, one queue order | run a task to its end | every message ends that no receiver holds |
| Rate limiter (`services/rate_limiter.py`, `middleware/rate_limit.py`) | one sorted set per client | the Lua script | at most `limit` per window, no denial without cause |
| Accounts (`services/auth_service.py`, `api/deps.py`, `web/session.py`) | rows of `users`, the session cookie | register, log in, log out, look up | one account per email |
| Link listing (`api/v1/links.py: list_links`) | a client's cursor | one SELECT per page | no link missed, none twice, none of somebody else |
| Analytics queries (`services/dashboard.py`, `services/analytics_stats.py`, two routers) | none | aggregation over `clicks` | every click of the window in its day; answers about one range agree |
| User-agent enrichment (`services/analytics_enrichment.py`) | none | classify one header | browser, system and device agree |

They meet in five places. A redirect reads the cache, then the row, and then
counts; the count is written back by a worker into the same row that PATCH
edits without a lock; and everything in Redis is keyed by the short code, while
rows have ids: DELETE and a new POST under the same alias change the id under
the same keys. A redirect publishes a click event, a flush publishes a webhook
delivery, and both kinds of message wait for the same two processes. The rows
that click events insert are what the analytics queries read, while links, and
with them their clicks, are deleted.

What is hard: the API processes, two worker processes, beat, Redis and
PostgreSQL are separate; each handler is a sequence of Redis commands and
transactions with awaits in between; any of them can fail before or after it
took effect; Celery retries whole tasks; TTLs and `expires_at` race the requests
that read them.

## 2. Modules

| Module | Contents |
|---|---|
| `ClickCounter` | redirect counting, flush task, webhook threshold, PATCH / POST / DELETE on the same row |
| `ClickLedger` | what counting promises, without counters, queues or tasks (abstract) |
| `ClickCounterLedger` | `ClickCounter` implements `ClickLedger`: the refinement mapping |
| `ClickCounterRestart` | `ClickCounter` with a Redis - counters and broker - that restarts from a snapshot |
| `LinkCache` | the lookup of a redirect: cache, row, TTL, expiry, lazy deletion, PATCH / POST / DELETE, Redis restart |
| `ShortCode` | how POST /links gives a link its code: alias lookup, reservation, generator, insert |
| `ClickEvents` | from the redirect's event to a row of `clicks` and the Redis analytics counters |
| `WebhookDelivery` | the task that posts a threshold event to its receiver |
| `Workers` | `ClickEvents` and `WebhookDelivery` in one pool of processes |
| `RateLimiter` | bucket, stamp, sliding-window script, Retry-After |
| `Accounts` | registration, sessions, and the pages of an account's links |
| `Enrichment` | the three searches over a User-Agent (operators) |
| `Reports` | the dashboard's series and countries, the reports over a range |
| `MCClickCounter`, `MCRestart`, `MCLinkCache`, `MCShortCode`, `MCWorkers`, `MCRateLimiter`, `MCAccounts`, `MCReports` | instances for TLC |
| `ClickCounterProofs`, `CountingProofs` (refinement and restart), `LinkCacheProofs`, `ShortCodeProofs`, `WorkersProofs`, `RateLimiterProofs`, `AccountsProofs`, `ReportsProofs` | theorems |

### ClickCounter

A state is: the row of every short code (`row`: id, click_count, hook, fired),
Redis (`counter`, `pending`), where each redirect is (`click`), the workers
(`pc`, `todo`, `held`, `event`), the PATCH requests (`edit`), the messages
the broker was given (`queued`), and history (`posted`, `dropped`, `lost`,
`seen`).

A Redis counter is the *set of increments* it holds. An increment is the click
it counts and how it was sent: `incr`, `resent` (the client library's retry
after a timeout) or `update` (the PostgreSQL fallback). INCR adds one, GETDEL
takes them all, the restoring INCRBY puts the same ones back, and click_count is
still an integer to which the *number* taken is added. So "lost" and "counted
twice" can be said of a single redirect. An id is a link's generation under its
code. `webhook_url` and `webhook_threshold` are one field `hook`.

| Action | Code |
|---|---|
| `CreateLink`, `DeleteLink`, `LoadForUpdate` + `CommitUpdate` | `links.py`: POST, DELETE, PATCH. PATCH reads without a lock and writes the columns that differ from what it read (SQLAlchemy's unit of work), so it is two steps |
| `IncrementCounter`, `IncrementFails`, `IncrementTimesOut` | the INCR pipeline: applied, refused, or timed out after it was applied and then retried (`retry_on_timeout=True`) |
| `IncrementClickCount`, `IncrementClickCountFails` | the fallback UPDATE |
| `FlushStart`, `GetDel`, `UpdateLink`, `LinkNotFound`, `Enqueue`, `CounterExists`, `SetPending`, `FlushDone` | the flush task, one step per Redis command or transaction, codes in sorted order |
| `UpdateRaises`, `Restore` | `except SQLAlchemyError`: rolled back, or committed with the answer lost; then INCRBY, SADD, and the exception ends the task (its retry is a later `FlushStart`) |
| `EnqueueUnanswered` | `apply_async` whose reply is lost: published again, so that the queue has two messages of one event, or given up with an exception |
| `TaskFails`, `GetDelTimesOut`, `CounterExpires` | a dead worker, any other exception, a failed restore, a failed enqueue; a lost GETDEL answer; the key's seven days |

Failures are listed in `FaultKinds`; an instance allows some of them
(`Faults`), `MaxFaults` in a behaviour, and `seen` remembers which happened, so
that an invariant can say exactly which failures it does not survive.

`ClickCounterLedger` maps this state to `ClickLedger`: an increment is *owed* to a
code while it is in the counter of the code or with the worker that took it from
there, *known* once it was ever sent, and a row's `live` and `count` are
themselves. In the abstract specification a click is owed, or credited at once;
what is credited leaves the debt and raises `count` by exactly its number; a
second increment of one click, and a debt that stays after it was credited, need
the excuse "repeat" (a lost INCR or COMMIT answer happened before); giving up a
debt whose link lives needs the excuse "lose" (the five failures of
`NothingVanishes`). Everything between - GETDEL, overlapping flushes, restores,
the pending set, EXISTS and SREM - is a stuttering step.

`ClickCounterRestart` adds the snapshot (`--save 60 1`) and one restart. Counter
and pending set go back to one earlier instant together. What a flush took since
then comes back under another name (`Returned`), because a worker may still hold
or restore the increment itself: then Redis's number has it twice, and so has the
model. The broker is database 1 of the same Redis (`docker-compose.yml`) and goes
back with it: `taken` counts the messages that workers have taken, `Waiting` is what
the list of the broker still has, the snapshot saves it, and `BrokerRestarts` puts
it back. Messages taken since the snapshot wait again (`brought`), those published
since and not yet taken are gone (`missed`).

### LinkCache

One short code and a clock that ticks. A row is its id (long_url and
password_hash never change under an id) and `expires_at`. A request goes
through the steps of `redirect` / `unlock`: GET, is_expired, DEL, SELECT,
is_expired + TTL, SET EX, or DEL and DELETE by primary key; time may pass
between any two. `is_permanent` is left out: it is one more field of the row
that PATCH changes and the cache copies, and the properties speak of rows.
`retired` remembers every row that was replaced or deleted, by whom and when.
Snapshots and restarts of Redis come from `docker-compose.yml`
(`--save 60 1`). The API, PostgreSQL and Redis are given one clock.

### ShortCode

A state is: the short codes that have a row (`links`), the reservations in Redis
(`reserved`, the instant each ends), the POST requests (`req`) and a clock. A code
is its length and which of the `KeySpace` codes of that length it is; the
alphabet does not matter. A reservation has no owner, as in the code: its value
is `"1"` for everyone and only its time releases it.

| Action | Code |
|---|---|
| `AskAlias`, `ReserveAlias` | `create_link` with `custom_alias`: SELECT (409 when there is a row), SET NX EX (409 when refused) |
| `AskGenerated`, `TryCode` | `generate_unique_code`: draw, SET NX EX; `Retry` draws again and after `max_tries` draws a longer code |
| `Insert` | INSERT and commit; an IntegrityError is not caught, `conflict` is the 500 |
| `Remove` | DELETE or lazy deletion of a row; the reservation stays |
| `RedisFails`, `DatabaseFails` | the request ends in a 500, with or without the effect |
| `RestartRedis` | the keys set since the last snapshot are gone (`amnesia` remembers it) |

`Refused` has two causes: the key is there, or the SET was applied, its answer
came late and the client's second attempt (`retry_on_timeout`) met its own key.
An alias then ends in a 409 although nobody has it, for 60 s; a generated
code is drawn again.

### ClickEvents, WebhookDelivery and Workers

`ClickEvents` has one code whose link may be deleted and created again, the table
`clicks`, and for every redirect its message, and a second one when the message
was in the queue once more: a publication or a retry sent again after a lost reply,
or a restart of Redis that brought it back (`EventAgain`). A restart may also lose
a message that waits (`EventMissed`). The task is one step per statement: `SelectLink`,
`InsertRow`, `RefreshRow` (the session of `record_click` refreshes after its
commit, so the row can be stored and the task retried), `RecordRedis`. Celery's
retry is a new message with the count one higher, up to `max_retries`. As
configured, a message is acknowledged before its task starts: a dying process
takes it along. `unsure` remembers the clicks of which an effect was not
acknowledged.

`WebhookDelivery` has the message of each threshold event, and likewise a second
one (`QueuedAgain`: `apply_async` of the same broker, sent again; or a restart). The
receiver is outside: it may act, and it may answer 2xx, anything else, late, or
never; assumed is only that it answers 2xx after acting. A receiver that never ends
its answer holds the process for ever: the timeout of httpx is one per read, and no
task has a time limit. `TaskRetries` is Celery's
default, 3, because the task passes no `max_retries`; `PostRetries` is the
setting, 5, that the task compares with and that is therefore never reached.

`Workers` composes the two: a task holds one of `Processes` processes from its
start to its end or retry, and starts only when one is free. What a receiver does
(`Answers`) is a step of the outside, not of the process.

### RateLimiter

Requests have a path, a key and addresses; `Bucket` and `Limit` follow the
middleware. Time is Redis's clock; a key is served until the clock is past its
PEXPIRE, the last instant included (`Members`, as in `LinkCache`). A request is stamped (`Arrive`) and its script
runs later (`CheckRateLimit`); in between others may run. Assumed of the
environment: when a script runs, its stamp is at most `Early` ahead of Redis's
clock and at most `Late` behind. A script whose reply is late runs again with the
same member (`ScriptTimesOut`); any exception lets the request through
(`FailOpen`). The member's random suffix is the request itself.

### Accounts

A registration looks the address up, hashes, inserts; the UNIQUE constraint
decides between two. A client's cookie names an account. A link's id is taken
from the sequence when it is inserted and the row is seen when it is committed,
so ids become visible out of order; a rolled-back insert leaves a gap. A client
reads page after page with the cursor it was given (`ListLinks`); `first` and
`twice` are history.

### Enrichment and Reports

`Enrichment` takes a User-Agent as the set of markers the code searches for.
`Reports` has a clock, clicks that happened at an instant and are stored later,
links that are deleted with their clicks, one dashboard (a chart of one link, or
a comparison of several, then the countries of the same period) and one page of
reports over a range (overview, series, breakdown, the user's overview). Every
SELECT and every reading of the clock is a step of its own; `steady` says that
nothing was stored or deleted since the page was opened. A dashboard that
compares two links reads the clock twice for each of them.

The four reports are four requests: each makes its own range of the parameters and
of its own reading of the clock (`NormalizeDateRange`; `RefuseRange` is the 422), so
without `to` the range moves from one to the next, and each answer carries the range
it is about, as the envelope's `meta` does. `TopRows` is LIMIT: the first rows by
clicks, and any of those that are equal at the cut.

## 3. What is checked

Runs that pass (states are distinct states found by TLC):

| Run | Instance | Properties |
|---|---|---|
| `flush` | 1 code, 3 redirects, 2 workers, all failures, 2 of them; 441 000 states | `TypeOK`, `OnePlace`, `CountedOnce`, `NothingVanishes`, `CountExact`, `FiredAtThreshold`, `KeepsLedger` (refinement) |
| `webhook` | 1 code created twice, 2 redirects, 2 workers, 1 PATCH at a time, threshold 1, 1 failure or 1 restart of Redis and its broker; 1.8 million states | `EventOnceThroughRestart`, `FiredHasEventThroughRestart`, `RestartCost` |
| `settle` | 2 codes, 2 redirects, 2 workers, 1 failure, fairness; 81 000 states | `PendingDrains`, `SettledOrStranded` (liveness) |
| `cache` | 2 requests, 1 PATCH, 2 links, 5 ticks of half a second, TTL 1 s, delay 1 tick, failures of Redis and PostgreSQL, Redis restarts; 4.4 million states | `TypeOK`, `BoundedStaleness`, `CacheExpiryBounded`, `ServedUnexpired`, `RemovedIfEverExpired` |
| `codes` | 3 requests, 1 alias, 1 code per length up to 4, 2 tries, reservation 2 ticks, delay 1 tick, 3 ticks, 1 failure, fairness; 412 000 states | `TypeOK`, `ReservationExclusive`, `AliasNeverConflicts`, `CreationEnds` (liveness) |
| `workers` | 1 redirect and 1 threshold event, one of them with a second message, 1 link created twice, 2 processes, 1 retry, fairness; 276 000 states | `TypeOK`, `RowsHaveLink`, `StoredOnce`, `DeliveryExact`, `EventEnds`, `DeliveryEnds` (liveness) |
| `limiter` | 3 requests of one bucket and one skipped, limit 2, window of 2 s in half seconds, stamps 1 tick early or late, 8 ticks; 1.9 million states | `TypeOK`, `AtMostLimit`, `DeniedJustified`, `RetryAfterEnough` |
| `accounts` | 3 registrations of 2 addresses, 1 client, 3 links, pages of 1; 250 000 states | `TypeOK`, `OneAccount`, `WalkComplete`, `WalkOnce` |
| `reports` | 3 clicks of 2 links, days of 2 ticks, 4 moments over 2 midnights, 4 ranges with either end given or not, limits 1 and 3, periods of 1 and 2 days; 2.4 million states | `TypeOK`, `LabelsAgree`, `SeriesExact`, `BreakdownCoversChart`, `ReportsAgree` |

What they say of the code:

* **Counting.** An increment taken by a flush is nowhere else, however flushes
  overlap (`OnePlace`); it is counted once unless an answer was lost after the
  effect (`CountedOnce`); it does not disappear unless a worker dies, an
  exception other than SQLAlchemyError interrupts a flush, a GETDEL answer is
  lost, a restore fails or seven days pass (`NothingVanishes`); click_count is
  the number of increments posted to that link, so no flush, fallback or PATCH
  overwrites another (`CountExact`). A code never waits for ever in the pending
  set (`PendingDrains`), and an increment ends in click_count, with a deleted
  link, among the listed losses, or in a counter outside the pending set
  (`SettledOrStranded`). All the safety of it together is `ClickLedger`
  (`KeepsLedger`).
* **Restart of Redis.** A restart counts a click again only when a flush had
  taken its increment since the snapshot, and loses one only when it came after
  the snapshot; click_count stays the number of increments posted
  (`RestartCost`), and the flushes of what came back hand no event over again.
* **Webhook.** Each event is handed over once, through resets by PATCH,
  re-creation and restart: one message, two if the publication was sent again for
  want of a reply, and as many again only if a restart put back what workers had
  taken since the snapshot (`EventOnceThroughRestart`). `webhook_fired` has its
  message unless the worker lost it between commit and enqueue, or the restart lost
  it because it was published after the snapshot
  (`FiredHasEventThroughRestart`); when neither the fallback
  UPDATE nor PATCH touched the row, no threshold is passed unnoticed
  (`FiredAtThreshold`, whatever else fails).
* **Cache.** What is served was the row at most `DefaultTTL` plus two request
  times ago (`BoundedStaleness`); a copy outlives its `expires_at` by at most
  one request time (`CacheExpiryBounded`), and the second check in
  `get_cached_link` keeps it from being served (`ServedUnexpired`); lazy
  deletion never hits a later link under the alias (`RemovedIfEverExpired`).
  Both bounds are tight: one tick less and TLC finds a counterexample.
* **Codes.** While Redis keeps its keys, two requests never stand before their
  INSERT with the same code (`ReservationExclusive`), and an alias that passed the
  lookup and was reserved meets no row (`AliasNeverConflicts`): lookup,
  reservation and insert are three steps, and it is the reservation of an earlier
  inserter, outliving its insert, that covers the gap. That needs requests to take
  at most half of `_RESERVE_TTL` (`PromptAssumption`, 30 s for 60 s), which the code
  does not enforce; a reservation that lapses before its own insert is thereby left
  out of both properties. The generator ends (`CreationEnds`) because it widens the code.

* **Workers.** No row of `clicks` is without its link, although the id is read
  in one transaction and inserted in another (`RowsHaveLink`); a click is stored
  and counted once unless its message was in the queue twice or an effect was not
  acknowledged, and what a task reports as persisted is in the table
  (`StoredOnce`); a receiver acts again on an event only when its answer did not
  arrive or the message was in the queue twice (`DeliveryExact`). With two processes
  for both kinds of task every click event ends as long as the receivers do not hold
  all processes for ever, and every delivery if, besides, its own receiver ends its
  request (`EventEnds`, `DeliveryEnds`). The premise is needed: without it TLC
  shows two receivers that never end their answers and a click event that waits for
  ever.
* **Rate limiter.** In every window, less the disorder `Early + Late` of the
  stamps, a bucket records at most `limit` requests (`AtMostLimit`); a 429 had a
  full window, where only a script that ran twice counts its own member
  (`DeniedJustified`); who waits as long as Retry-After says meets an empty
  bucket unless another was let in. At the very instant the wait ends the key may
  still be served, when PTTL was a whole number of seconds; what it then holds is a
  window old but for the error of its stamp, so that only stamps ahead of Redis's
  clock can deny that request (`RetryAfterEnough`).
* **Accounts and pages.** One account per address and no 409 without one
  (`OneAccount`); a walk over the pages misses nothing that was there from
  beginning to end (`WalkComplete`) and shows nothing twice (`WalkOnce`). A link
  whose smaller id is committed late is not promised, and may not be shown.
* **Reports.** A day of the chart has all its clicks, the oldest included
  (`SeriesExact`): `days` times 24 hours always reach past the first midnight
  shown, also when the second reading of the clock is after another midnight. The
  countries of a period cover the chart and exceed it by the day before it at
  most; when `limit` cuts them off they may count fewer, but none left out is
  bigger on the chart than one shown (`BreakdownCoversChart`). Overview, series,
  breakdown and user overview tell one story while nothing is stored or deleted, as
  far as their ranges let them: with `to` given they have one range, with `from`
  given a later one counts no fewer clicks, and where the ranges in their `meta` are
  equal their numbers add up, labels cut off by `limit` aside (`ReportsAgree`).
  Without `to` the window of a later request is a later one, and clicks may leave
  it: then nothing is promised, and TLC shows the answers differ.

Runs that find a violation. Each states what a document, a comment or a
description of the repository says (quoted in `PROJECT.json`, "findings"):

| Run | What the code does |
|---|---|
| `v_stranded` | EXISTS then SREM (or GETDEL then SREM), on a link that stays: a redirect in between is left in a counter no flush looks at until the next click |
| `v_fallback` | the fallback UPDATE steps over the threshold; later flushes require `old < threshold` |
| `v_patchrace` | PATCH's reset of `webhook_fired` is not written when a flush set it after PATCH read the row |

More differences between a document and the code were met on the way and have no
run of their own, because a short trace or one reading of the handler settles
them:

* `LOCAL_DEVELOPMENT.md:776` promises no clicks lost when the database is down;
  a refused connection is an OSError, not an SQLAlchemyError
  (`tasks/analytics.py:471`), and what GETDEL took is not restored
  (`NothingVanishes` lists it, as `connectError`);
* `ASSUMPTIONS.md:14-16` says Redis can be restarted without corrupting click
  data; a restart from a snapshot counts some clicks again and forgets others
  (`RestartCost` says which);
* DELETE leaves the counter: the unflushed clicks of a deleted link go to the
  next link under the alias (`links.py:414`);
* `README.md:671` and `API.md:642` say the threshold event is delivered only once;
  a receiver that acts and answers late gets it again (`DeliveryExact` says when);
* `webhook_max_retries` is 5, Celery stops after its default of 3
  (`tasks/webhooks.py:41`); the setting `webhook_timeout_seconds` is misspelt in
  `core/config.py:64`, so its default is always used;
* `ASSUMPTIONS.md:205-206` says slow receivers are isolated from analytics
  processing; both run in the same two processes (`docker-compose.yml:84`): while
  both wait for a receiver no click event starts, and `webhook_timeout_seconds` is
  no bound on that wait (`EventEnds`);
* `ASSUMPTIONS.md:71-73` says all series of a comparison have the same date
  labels; each reads the clock for itself (`analytics_dashboard.py:152-154`), and
  around midnight they differ;
* a code whose UPDATE fails at every flush keeps the codes after it in the sorted
  order from being flushed (`tasks/analytics.py:542`); `PendingDrains` is checked
  with one failure in a behaviour;
* `README.md:122` says a generated code that already exists is drawn again; only
  its reservation is looked at (`shortener.py:69`), and the INSERT of a code whose
  reservation has lapsed ends in a 500;
* of two registrations of one address at once the second is a 500 and not the
  409 of `auth_service.py:17-21` (`OneAccount` still holds);
* `DESIGN_DECISIONS.md` calls a link dead the instant `expires_at` passes; PATCH
  does not touch Redis, so after a PATCH to an earlier instant the cached copy
  redirects until its TTL ends (`BoundedStaleness` says how long), and in the
  same way a deleted link goes on redirecting from the cache;
* lazy deletion deletes by primary key a link that PATCH may have renewed since
  it was read (`redirect.py:119`);
* the TTL is computed before SET (`cache.py`, `set_cached_link`), so the key
  can outlive `expires_at`; `CacheExpiryBounded` says by how much;
* the 410 of an expired link (`schemas/link.py`) becomes a 404 once the first
  redirect has deleted the row;
* a RedisError in `get_cached_link` is answered with a 500, where
  `ASSUMPTIONS.md:18` expects a database lookup.

### Bounds

`MaxLinks`, `MaxFaults`, `MaxTime`, the sets of clicks, codes, workers,
editors, thresholds and instants bound the instances. Two links under a code
are one re-creation; two workers are what `docker-compose.yml` starts; three
increments let one be taken, one arrive meanwhile and one be restored; two codes
give the flush an order and a neighbour that fails; two failures let a retry fail
again. In `LinkCache` two requests are a filler and a reader (or a purger and a
filler), and 5 ticks reach past TTL + 2 delays = 4. `Second = 2` keeps the
rounding of the TTL to whole seconds visible. In `ShortCode` three
requests are two rivals for a code and one that meets what they left, three ticks
let a reservation lapse, and lengths to 4 let the third request run through every
reserved one. The runs of `LinkCache` and `ShortCode` disable the deadlock check:
the clock stops at `MaxTime`, and every request and PATCH is made once. The runs
of `Workers`, `RateLimiter`, `Accounts` and `Reports` do so for the same reasons.

In the restarting instance only the last snapshot before the one restart is kept:
earlier ones change nothing. In `Workers` one retry and one link created twice let
a retry meet a gone link, its successor, or its own earlier row; `PostRetries` is
above `TaskRetries`, as in the code, so the check of the setting never ends a
delivery (its branch is kept); `MaxAgain` lets one message, of either kind, be in the
queue once more, and the theorems have no such bound but the two messages a click or
an event can have (`Tasks`, `Posts`). In `RateLimiter` three requests on a limit of 2
are one too many, eight ticks let the window pass and the key expire, and one tick
either way lets stamps run backwards; `Second = 2` keeps the rounding of
Retry-After. In `Accounts` pages of one link make every boundary a page boundary,
and three links let one be committed late, one rolled back and one deleted. In
`Reports` the clock starts far enough from zero for every window, the three clicks
have a country, an empty one and none, and 4 moments pass two midnights; a limit of
1 cuts labels off and one of 3 does not.

`MaxDelay` is an assumption about the world, not only a bound: a request is
answered within it. The code sets 5 s on Redis (`socket_timeout`) and nothing on
PostgreSQL; without such a bound a cache fill can be arbitrarily late and
nothing bounds the staleness.

### Fairness

`FairSpec` assumes: while a worker is idle some flush starts again and again
(beat sends a message every `click_counter_flush_seconds` = 30 s, whatever
became of the last one, and idle workers take messages); a started flush task
goes on with its next step (a worker process runs its task to the end, and its
failures are separate actions, which are not fair); a fallback UPDATE that has
begun ends. Nothing is assumed of redirects, owners or failures.

`WorkerFairness` assumes that an idle process takes every waiting message at some
time and that a process goes on with its task: a statement, a commit or a pipeline of
a click event is answered or fails, and a delivery checks its retries. That
PostgreSQL and Redis answer or fail is assumed, as nothing in the code bounds a
statement. Each message has its own condition because the queue is served in order
and no message is overtaken for ever. Nothing is assumed of receivers: `httpx`
bounds each read of a response by `webhook_timeout_seconds` and not the response, and
`celery_app.conf` sets no time limit, so that a receiver may hold its process for
ever. The liveness properties name what they need of receivers in their premises
(`HeldUp`, `PostsWaiting`). Nothing is assumed of redirects or failures.

`ShortCode!FairSpec` assumes that the API process runs the handler of a request
it has begun to its end; which code is drawn is not assumed, nor is any deletion.

## 4. What is proved

The eight `*Proofs` modules prove, for every value of the constants that the named
assumptions admit and for every set of failures:

| Module | Theorem | States |
|---|---|---|
| `ClickCounterProofs` | `TypeCorrect` | `Spec => []TypeOK` |
| | `EventScheduledOnce` | `Spec => []EventOnce` |
| | `OnePlaceAlways` | `Spec => []OnePlace` |
| | `CountedOnceAlways` | `Spec => []CountedOnce` |
| | `NothingVanishesAlways` | `Spec => []NothingVanishes` |
| | `CountExactAlways` | `Spec => []CountExact` |
| | `FiredHasEventAlways` | `Spec => []FiredHasEvent` |
| | `FiredAtThresholdAlways` | `Spec /\ []Unedited => []FiredAtThreshold` |
| `CountingProofs` | `KeepsLedgerAlways` | `Spec => KeepsLedger` (refinement of `ClickLedger`) |
| | `RestartCostAlways` | `RestartSpec => []RestartCost` |
| | `EventOnceThroughRestartAlways` | `RestartSpec => []EventOnceThroughRestart` |
| | `FiredHasEventThroughRestartAlways` | `RestartSpec => []FiredHasEventThroughRestart` |
| `LinkCacheProofs` | `TypeCorrect` | `Spec => []TypeOK` |
| | `BoundedStalenessAlways` | `Spec => []BoundedStaleness` |
| | `CacheExpiryBoundedAlways` | `Spec => []CacheExpiryBounded` |
| | `ServedUnexpiredAlways` | `Spec => []ServedUnexpired` |
| | `RemovedIfEverExpiredAlways` | `Spec => []RemovedIfEverExpired` |
| `ShortCodeProofs` | `TypeCorrect` | `Spec => []TypeOK` |
| | `ReservationExclusiveAlways` | `Spec => []ReservationExclusive` |
| | `AliasNeverConflictsAlways` | `Spec => []AliasNeverConflicts` |
| `WorkersProofs` | `TypeCorrect` | `WorkerSpec => []TypeOK` |
| | `RowsHaveLinkAlways` | `WorkerSpec => []RowsHaveLink` |
| | `StoredOnceAlways` | `WorkerSpec => []StoredOnce` |
| | `DeliveryExactAlways` | `WorkerSpec => []DeliveryExact` |
| `RateLimiterProofs` | `TypeCorrect` | `Spec => []TypeOK` |
| | `AtMostLimitAlways` | `Spec => []AtMostLimit` |
| | `DeniedJustifiedAlways` | `Spec => []DeniedJustified` |
| | `RetryAfterEnoughAlways` | `Spec => []RetryAfterEnough` |
| `AccountsProofs` | `TypeCorrect` | `Spec => []TypeOK` |
| | `OneAccountAlways` | `Spec => []OneAccount` |
| | `WalkCompleteAlways` | `Spec => []WalkComplete` |
| | `WalkOnceAlways` | `Spec => []WalkOnce` |
| `ReportsProofs` | `TypeCorrect` | `Spec => []TypeOK` |
| | `LabelsAgreeAlways` | `Spec => []LabelsAgree` |
| | `SeriesExactAlways` | `Spec => []SeriesExact` |
| | `ReportsAgreeAlways` | `Spec => []ReportsAgree` |
| | `BreakdownCoversChartAlways` | `Spec => []BreakdownCoversChart` |

### Redirect counting

They rest on the assumptions named in `ClickCounter` (codes and thresholds are
numbers, `NoHook` is not, clicks are finite, the bounds are naturals) and on
nothing about the number of codes, workers or editors.

* `EventOnce` is not inductive: a PATCH resets `webhook_fired`, so the flag does
  not guard anything by itself. What does is that an event with threshold *t*
  is built only when click_count goes from below *t* to *t* or more, and that
  click_count never goes down under an id. `EventInv` says: whoever holds or has
  queued an event, the link's count is at or past its threshold or the link has
  been replaced, and an event is held by one worker, or was handed over, not both.
  Handing over puts one message into the queue, or two when the reply was lost
  (`OneHandOver`). The run `webhook` checks the form that covers a restart too.
* `OnePlace` needs to know that an increment not yet sent is nowhere
  (`NotYet`) and that a worker holds something only between GETDEL and the end
  of the transaction or restore (`HeldInFlight`); together they are `LedgerInv`.
* `CountedOnce` adds that posted and owed increments are disjoint while no
  answer was lost (`OnceInv`), `NothingVanishes` that every answered click has
  its increment somewhere (`KeptInv`).
* `CountExact` compares an integer in the row with the number of increments in
  the history. A flush adds the number it took, so what it took must not be
  posted already: `CountInv` carries along that nothing owed is posted while no
  COMMIT answer was lost, and that nothing is posted to a link that has not been
  created yet (`NoneAhead`), which is what makes a new row start at the right
  count, 0.
* `FiredHasEvent` needs that an event is only built with, or after, the commit
  that sets the flag (`FiredInv`): the worker holds it until the broker has it.
* `FiredAtThreshold` is not a property of all behaviours: a PATCH may set a
  threshold that the count has passed already, and then no flush fires, because
  each asks for a count below the threshold before it. The theorem therefore
  says: while no PATCH is begun (`Unedited`), as in the instance that checks it. `ThresholdInv` is the row's side of it: there is never a live row
  at its threshold and not marked, because a new link starts at 0, below every
  threshold, and each flush that crosses the threshold marks it.

**The refinement** (`CountingProofs`): every initial state of `ClickCounter` is one
of `ClickLedger` under the mapping, and every step is a step of the ledger or
leaves it unchanged. Owed increments are a union over codes and workers, so each
action first gets a lemma on how the debt of each code changes: unchanged
(`QuietOwed`, `MovedOwed`: GETDEL and restore move an increment between counter and
worker), given away (`GivenAwayOwed`), paid (`CountedOwed`), emptied with an expired
or deleted counter (`EmptiedOwed`). The steps that credit use `CountExact`'s
companion that what is posted was owed once; the excuses "repeat" and "lose" are
the failures `seen` recorded (`ExcusesGrow`).

**The restart**: `RestartInv` adds the snapshot to the invariants above. A snapshot
holds increments that were known and sent to Redis, each in one counter
(`SavedInv`); before the restart nothing has come back (`FirstInv`), so the
increments a flush took since the snapshot come back as increments of which
nobody knew, and one redirect has at most these two (`EachInv`). With it
`OnePlace` and `CountExact` hold through a restart as they stand, and the
duplication and the loss are exactly what `RestartCost` says. `BrokerInv` bounds what
was taken and what was saved by what was published, so that a restart at most
doubles the messages of an event, and only those of one in `brought`; an event that
has none left is in `missed` (`QueueAfterRestart`). `MessageInv` carries `EventInv`
across: click_count does not go back, so an event that was handed over stays spent.

### Redirect metadata cache

The ones about `LinkCache` rest on its named assumptions (time in naturals, a
second of at least one tick, `Never` no instant) and share one inductive
invariant, `CacheInv`. None of the four properties is inductive alone: what a
request serves depends on what it took from Redis, which depends on the request
that filled the key. `CacheInv` follows a row through that chain with one notion,
`Fresh(m, t, k)`: m is the row, or was until at most k ticks before t.

* A request that loaded the row holds one fresh at its arrival (k = 0), because
  it loaded it after that.
* It computes a TTL (`TTLBound`: at most the default, and at most the rest of
  the row's life) and sets the key within `MaxDelay` of its arrival, so the copy
  is fresh at its own end with k = TTL + `MaxDelay`, ends at most a TTL from now,
  and passes `expires_at` by at most `MaxDelay` (`EntryOK`, of the live key and of
  the snapshot alike, so a restart is covered).
* A request that found the key did so before that end, and serves within
  another `MaxDelay`: k = TTL + 2 `MaxDelay`, which is `Staleness`.
* `FreshKept` is the step everything rests on: whoever replaces or removes the row
  records it at the present instant, and a fresh copy stays fresh.
* For `RemovedIfEverExpired`, a request about to delete holds expired metadata
  that was the row under that id.

### Short codes

The ones about `ShortCode` rest on its named assumptions, of which
`PromptAssumption` (2 `MaxDelay` <= `ReserveTTL`) is the one about the world: a
request takes at most half of `_RESERVE_TTL` from its first query to its INSERT.
With a weaker bound the second theorem is false and TLC shows it. `ReserveInv` says,
until Redis has lost keys: no two requests are before their INSERT with one code
(`Alone`), and each is covered (`Guarded`): a request before its INSERT has a
reservation that outlives it, and if an alias was inserted by somebody else after a
request looked it up, that inserter's reservation, made at most `MaxDelay`
before, is still there when this request comes to reserve, so it is refused.

### Click events and webhook deliveries

Both are proved of the composition (`WorkerSpec`): one pool of processes runs the
tasks of either kind, and a step of one leaves the variables of the other alone.

* `RowsHaveLink` is kept by the foreign key (an insert needs the link of now) and
  by ON DELETE CASCADE; it is inductive together with the fact that no task knows
  a link id from the future (`LinksInv`).
* `StoredOnce` is about retries, so it needs to know what a task has already done
  at each of its steps. `OnceInv` says of a click whose message was sent once and
  whose every answer arrived: before the insert is committed there is no row, in
  between the row is this task's, and the Redis counters are raised only by the
  last step. `StoredInv` follows the flag of the task from the moment it read its
  row back; `SentFirst` orders the two messages of a click.
* `DeliveryExact`: before an attempt reaches the receiver, what it acted on is
  covered by the retries already spent, each of them on record as unanswered
  (`PostInv`, for each of the two messages an event can have).

### Rate limiter

The theorems rest on what `RateLimiter` assumes of the stamps (at most `Early`
ahead of Redis' clock when the script runs and at most `Late` behind it) and on
nothing about the number of requests, buckets or processes.

* `AtMostLimit` is not inductive: that the script counted fewer than the limit
  says something about the members still in the set, the property about the
  requests that were recorded. `KeepInv` connects the two: a recorded request
  stays a member, under a key that has not expired, until a window has passed
  since its stamp (`Gone`), although requests with later stamps sweep before it.
  `WindowInv` is the property for every window, not only those that begin with a
  request, because a request may become the first of a window when the others
  are recorded already.
* `DeniedJustified`: the members that were counted are recorded requests of the
  window, itself among them only if its script ran before.
* `RetryAfterEnough`: the key does not outlive the instant until which the client
  was told to wait (`RetryInv`; PTTL rounded up to seconds is never less than
  PTTL, `RetryAfterCovers`). At that instant itself it may still be served, and then
  `KeepInv` says of each member that its key was set to end a window after its
  script ran, so it is a window old but for the error of its stamp.

### Accounts and listing

* `OneAccount`: UNIQUE, and a row stays; a conflict is only answered where an
  account exists (`AccountInv`).
* `WalkComplete` and `WalkOnce` share `WalkInv`: what a walk showed is at or above
  its cursor, and what was there when it began and still is was shown or is below
  the cursor. Ids are committed out of order, so a link may appear above the
  cursor: it is never shown, and it was not there when the walk began. That a
  page holds the newest ids below the cursor, and the next cursor is its least,
  are facts about `Newest`, a choice among sets; that such a least id exists is
  well-founded induction by its minimal element (`Least`).

### Reports

* `LabelsAgreeAlways` does not depend on the behaviour: the labels agree for every
  set of markers (`EveryAgentConsistent`), because the searches for browser and
  device both look for bots first, and the search for a device comes to desktops
  only after everything that names a phone or a tablet.
* `SeriesExact` compares what the chart shows of a day with the clicks its SELECT
  saw. The window begins a number of days of 24 hours before one reading of the
  clock; the days are laid out back from another, later reading. A click between
  the two would be missing from a day that is shown. `SeriesInv` follows the page
  through its steps: the window begins that far before now or earlier (`Window`),
  the rows are all the clicks from there on (`Queried`), so a click that the SELECT
  saw and the window cut off was on a day before the first one shown (`Complete`,
  `Charted`). It rests on `TimeAssumption`: the clock starts at least the longest
  period after its origin, as the epoch does, and on `NearestPeriod`, that the
  period the page takes is one of those offered.

* `ReportsAgree` and `BreakdownCoversChart` compare answers of requests that follow
  each other, so their invariants say what has been read as a function of what is
  in the table now: while nothing was stored or deleted under the page, each answer
  is what the same SELECT over its range would give at this moment (`ToldInv`,
  `ReadInv`). A click that only happens is not in the table, and one in the table
  keeps its time (`TimeGoesOn`).
* The ranges of the four answers are each what the parameters and one moment make,
  and the moments follow each other (`RangedInv`, `Fits`): so a given `to` makes them
  one, and a given `from` makes a later range contain an earlier one
  (`AnswersAgree`).
* What LIMIT leaves is a part of the groups, with the biggest in it (`TopRowsAre`); a
  part of the groups counts the rows whose label it has (`GroupsPart`, `Covered`).
* Both then speak of sums over groups. A sum is the value of a recursive function
  (`Adds`); the sizes of the unions of disjoint sets are such a function
  (`SizesAdd`), and there is no other (`AddsOnce`: of the sets on which two of them
  differ none is smallest), so groups that are disjoint and cover the rows add up
  to their number (`ClicksInSum`, `DaysInSum`). Groups by label always are
  (`GroupsTotal`); groups by day because the day of an instant grows with it and
  the buckets go from the day of `from` to that of `to` (`DailyTotal`).
* The distinct countries are the labels other than Unknown because no country has
  that name (`CountriesAssumption`: names come from GeoLite2, and a click without one
  has NULL). With a country called "Unknown" the overview would count it and the
  breakdown would merge it with the clicks without a country.
* `NoneLater`: a chart lays out its days after its rows were read, so none of them
  lies after its last day. It is what bounds the countries by the chart from above.

Left to TLC: the liveness properties of section 3, because TLAPS does not reason
about fairness here. Every safety property that a passing run checks, and the
refinement, has its theorem.

## 5. Not modelled, and the plan

Not modelled:

* GeoIP lookup, address anonymisation, referrer normalisation: pure functions of
  one request; a click's country is given.
* `encode_base62` / `decode_base62`, and `mark_threshold_webhooks_for_firing` /
  `enqueue_webhook_dispatches` of `services/webhooks.py`: no caller in the
  application.
* Password hashing, key generation, cookie signing, webhook signatures: data.
* Of the reports: referrers, browsers and the other dimensions (grouped the same
  way as countries), first and last click, unique visitors, percentages, and the
  order of equal rows at a limit, which is left open.
* What a Redis restart does to a message that a worker has fetched and not yet
  acknowledged: it counts as waiting until it is acknowledged, which Celery does
  before the task starts.
* Templates, OpenAPI text, envelopes, settings, migrations: no state of their own.

What is left to do: state and prove the invariants under the liveness properties,
which say what each waiting process waits for (a counter that is not empty is
pending or with a worker that will look again; a queued message has attempts
left), so that only the fairness argument itself rests on an instance.
