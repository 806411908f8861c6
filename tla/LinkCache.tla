------------------------------ MODULE LinkCache ------------------------------
(***************************************************************************)
(* What a redirect is answered with: the row of the link in PostgreSQL,    *)
(* its copy link:<code>:meta in Redis, and the requests that read both,    *)
(* fill and drop the copy and delete an expired row, while the owner       *)
(* creates, PATCHes and DELETEs the link.                                  *)
(*                                                                         *)
(* One short code: two codes share nothing here.  A row is its id (which   *)
(* stands for long_url and password_hash: no operation changes them) and   *)
(* expires_at.  GET /{code} and POST /{code}/unlock look a link up by the  *)
(* same steps and are one kind of request; "served" is the redirect or the *)
(* password page built from the metadata found.  Every Redis command,      *)
(* database transaction and reading of the clock is a step.                *)
(***************************************************************************)
EXTENDS Naturals

CONSTANTS Requests,   \* redirect and unlock requests
          Editors,    \* PATCH requests
          Instants,   \* the values of expires_at a client may choose
          Never,      \* expires_at is null
          Second,     \* ticks in a second
          DefaultTTL, \* settings.default_cache_ttl, in seconds
          MaxDelay,   \* bound: a request is answered within so many ticks
          MaxLinks,   \* bound: links created in turn under the code
          MaxTime,    \* bound: the last instant looked at
          Faults      \* what may fail: "redis", "database", "restart"

ASSUME InstantsAssumption == Instants \subseteq Nat /\ Never \notin Nat
ASSUME TimeAssumption == /\ Second \in Nat \ {0} /\ DefaultTTL \in Nat
                         /\ MaxDelay \in Nat /\ MaxTime \in Nat
ASSUME LinksAssumption == MaxLinks \in Nat
ASSUME FaultsAssumption == Faults \subseteq {"redis", "database", "restart"}

Expiry == Instants \cup {Never}
Meta   == [id : 1 .. MaxLinks, expires : Expiry]
NoLink == [id |-> 0, expires |-> Never]

Entry   == [meta : Meta, until : Nat]
NoEntry == [meta |-> NoLink, until |-> 0]

Steps == {"new", "check", "drop", "load", "judge", "fill", "purge", "delete",
          "served", "gone", "missing", "failed"}
Answers == {"served", "gone", "missing", "failed"}

VARIABLES
    now,     \* the clock, the same for the API, PostgreSQL and Redis
    link,    \* the row with this short code, or NoLink
    made,    \* the last id given out
    entry,   \* the key link:<code>:meta, or NoEntry
    saved,   \* the key in Redis' last snapshot
    req,     \* the requests: step, arrival, metadata held, ttl, decision time
    edit,    \* the PATCH requests: what they read, the expires_at they set
    retired  \* history: rows that were replaced or deleted, by whom, when

vars == <<now, link, made, entry, saved, req, edit, retired>>

Request == [step : Steps, start : Nat, meta : Meta \cup {NoLink}, ttl : Nat,
            at : Nat]
Edit == [step : {"new", "loaded", "done"}, id : 0 .. MaxLinks,
         expires : Expiry, new : Expiry]

Idle == [step |-> "new", start |-> 0, meta |-> NoLink, ttl |-> 0, at |-> 0]

Init ==
    /\ now = 0
    /\ link = NoLink /\ made = 0
    /\ entry = NoEntry /\ saved = NoEntry
    /\ req = [r \in Requests |-> Idle]
    /\ edit = [e \in Editors |-> [step |-> "new", id |-> 0, expires |-> Never,
                                  new |-> Never]]
    /\ retired = {}
-----------------------------------------------------------------------------
(* is_expired: expires_at <= now.                                          *)
IsExpired(m) == m.expires # Never /\ m.expires <= now

LeastOf(a, b) == IF a <= b THEN a ELSE b

(* Mutant of TTL: the default without regard to expires_at.                *)
TTLDefault(x) ==
    IF x # Never /\ x <= now THEN 0 ELSE DefaultTTL

(* calculate_cache_ttl, in whole seconds.                                  *)
TTL(x) ==
    IF x = Never THEN DefaultTTL
    ELSE IF x <= now THEN 0
    ELSE LeastOf(DefaultTTL, (x - now) \div Second)

(* Mutant of Present: the key was set without EX.                          *)
PresentForever == entry # NoEntry

(* Redis serves a key up to and including the instant it expires at.       *)
Present == entry # NoEntry /\ now <= entry.until

Step(r, step) == req' = [req EXCEPT ![r].step = step]

(* The request is over; of what it knew, only what it served matters.      *)
Answer(r, step) == req' = [req EXCEPT ![r] = [Idle EXCEPT !.step = step]]
Serve(r, at) ==
    req' = [req EXCEPT ![r] = [Idle EXCEPT !.step = "served",
                                            !.meta = req[r].meta, !.at = at]]

(* The row is no longer what it was.                                       *)
Retired == [meta : Meta, by : {"owner", "redirect"}, at : Nat]
Retire(by) == retired' = retired \cup {[meta |-> link, by |-> by, at |-> now]}
-----------------------------------------------------------------------------
(* POST, DELETE and PATCH /links.  None of them touches the cache.         *)
(* Mutant of Create: the id is not a new one.                              *)
CreateOldId(x) ==
    /\ link = NoLink
    /\ made < MaxLinks
    /\ link' = [id |-> made, expires |-> x]
    /\ made' = made + 1
    /\ UNCHANGED <<now, entry, saved, req, edit, retired>>

Create(x) ==
    /\ link = NoLink
    /\ made < MaxLinks
    /\ link' = [id |-> made + 1, expires |-> x]
    /\ made' = made + 1
    /\ UNCHANGED <<now, entry, saved, req, edit, retired>>

Delete ==
    /\ link # NoLink
    /\ Retire("owner")
    /\ link' = NoLink
    /\ UNCHANGED <<now, made, entry, saved, req, edit>>

LoadForUpdate(e, x) ==
    /\ edit[e].step = "new"
    /\ link # NoLink
    /\ edit' = [edit EXCEPT ![e] = [step |-> "loaded", id |-> link.id,
                                    expires |-> link.expires, new |-> x]]
    /\ UNCHANGED <<now, link, made, entry, saved, req, retired>>

(* Only a value that differs from the one read is written, and only to the *)
(* row with the id that was read.                                          *)
CommitUpdate(e) ==
    /\ edit[e].step = "loaded"
    /\ IF link.id = edit[e].id /\ edit[e].new # edit[e].expires
       THEN Retire("owner") /\ link' = [link EXCEPT !.expires = edit[e].new]
       ELSE UNCHANGED <<retired, link>>
    /\ edit' = [edit EXCEPT ![e].step = "done"]
    /\ UNCHANGED <<now, made, entry, saved, req>>
-----------------------------------------------------------------------------
(* redirect and unlock.  get_cached_link: GET ...                          *)
Get(r) ==
    /\ req[r].step = "new"
    /\ req' = [req EXCEPT ![r].step = IF Present THEN "check" ELSE "load",
                          ![r].start = now,
                          ![r].meta = IF Present THEN entry.meta ELSE @]
    /\ UNCHANGED <<now, link, made, entry, saved, edit, retired>>

(* Mutant of Check: what Redis returns is served as it is.                 *)
CheckNothing(r) ==
    /\ req[r].step = "check"
    /\ Serve(r, now)
    /\ UNCHANGED <<now, link, made, entry, saved, edit, retired>>

(* ... then is_expired ...                                                 *)
Check(r) ==
    /\ req[r].step = "check"
    /\ IF IsExpired(req[r].meta) THEN Step(r, "drop") ELSE Serve(r, now)
    /\ UNCHANGED <<now, link, made, entry, saved, edit, retired>>

(* ... and delete_cached_link.                                             *)
Drop(r) ==
    /\ req[r].step = "drop"
    /\ entry' = NoEntry
    /\ Step(r, "load")
    /\ UNCHANGED <<now, link, made, saved, edit, retired>>

(* _load_link_from_db                                                      *)
Load(r) ==
    /\ req[r].step = "load"
    /\ IF link = NoLink
       THEN Answer(r, "missing")
       ELSE req' = [req EXCEPT ![r].step = "judge", ![r].meta = link]
    /\ UNCHANGED <<now, link, made, entry, saved, edit, retired>>

(* is_expired(link.expires_at); otherwise set_cached_link computes the ttl *)
(* with no await in between.                                               *)
Judge(r) ==
    /\ req[r].step = "judge"
    /\ IF IsExpired(req[r].meta)
       THEN Step(r, "purge")
       ELSE req' = [req EXCEPT ![r].step = "fill", ![r].at = now,
                               ![r].ttl = TTL(req[r].meta.expires)]
    /\ UNCHANGED <<now, link, made, entry, saved, edit, retired>>

(* SET ... EX ttl, or DEL when the ttl is 0.                               *)
Filled(r) ==
    IF req[r].ttl = 0 THEN NoEntry
    ELSE [meta |-> req[r].meta, until |-> now + req[r].ttl * Second]

Fill(r) ==
    /\ req[r].step = "fill"
    /\ entry' = Filled(r)
    /\ Serve(r, req[r].at)
    /\ UNCHANGED <<now, link, made, saved, edit, retired>>

(* _delete_expired_link: delete_cached_link ...                            *)
Purge(r) ==
    /\ req[r].step = "purge"
    /\ entry' = NoEntry
    /\ Step(r, "delete")
    /\ UNCHANGED <<now, link, made, saved, edit, retired>>

(* ... then DELETE FROM links WHERE id = ...                               *)
(* Mutant of DeleteRow: WHERE short_code = ...                             *)
DeleteRowByCode(id) ==
    IF link # NoLink THEN Retire("redirect") /\ link' = NoLink
                     ELSE UNCHANGED <<retired, link>>

DeleteRow(id) ==
    IF link # NoLink /\ link.id = id
    THEN Retire("redirect") /\ link' = NoLink
    ELSE UNCHANGED <<retired, link>>

LazyDelete(r) ==
    /\ req[r].step = "delete"
    /\ DeleteRow(req[r].meta.id)
    /\ Answer(r, "gone")
    /\ UNCHANGED <<now, made, entry, saved, edit>>

(* A RedisError is not caught anywhere in these handlers; the command may  *)
(* have been executed.                                                     *)
RedisFails(r) ==
    /\ "redis" \in Faults
    /\ \/ req[r].step \in {"new", "drop", "fill", "purge"} /\ entry' = entry
       \/ req[r].step \in {"drop", "purge"} /\ entry' = NoEntry
       \/ req[r].step = "fill" /\ entry' = Filled(r)
    /\ Answer(r, "failed")
    /\ UNCHANGED <<now, link, made, saved, edit, retired>>

(* Nor is an SQLAlchemyError.                                              *)
DatabaseFails(r) ==
    /\ "database" \in Faults
    /\ \/ req[r].step \in {"load", "delete"} /\ UNCHANGED <<retired, link>>
       \/ req[r].step = "delete" /\ DeleteRow(req[r].meta.id)
    /\ Answer(r, "failed")
    /\ UNCHANGED <<now, made, entry, saved, edit>>
-----------------------------------------------------------------------------
(* redis-server --save 60 1: snapshots, and a restart from the last one or *)
(* from nothing.                                                           *)
SaveSnapshot ==
    /\ "restart" \in Faults
    /\ saved' = entry
    /\ UNCHANGED <<now, link, made, entry, req, edit, retired>>

RestartRedis ==
    /\ "restart" \in Faults
    /\ entry' \in {saved, NoEntry}
    /\ UNCHANGED <<now, link, made, saved, req, edit, retired>>

(* Time passes; no request takes longer than MaxDelay.                     *)
InProgress(r) == req[r].step \notin Answers \cup {"new"}

Tick ==
    /\ now < MaxTime
    /\ \A r \in Requests : InProgress(r) => now < req[r].start + MaxDelay
    /\ now' = now + 1
    /\ UNCHANGED <<link, made, entry, saved, req, edit, retired>>
-----------------------------------------------------------------------------
OwnerStep ==
    \/ \E x \in Expiry : Create(x)
    \/ Delete
    \/ \E e \in Editors, x \in Expiry : LoadForUpdate(e, x)
    \/ \E e \in Editors : CommitUpdate(e)

RequestStep(r) ==
    \/ Get(r) \/ Check(r) \/ Drop(r) \/ Load(r) \/ Judge(r) \/ Fill(r)
    \/ Purge(r) \/ LazyDelete(r) \/ RedisFails(r) \/ DatabaseFails(r)

Next ==
    \/ OwnerStep
    \/ \E r \in Requests : RequestStep(r)
    \/ SaveSnapshot \/ RestartRedis
    \/ Tick

Spec == Init /\ [][Next]_vars
-----------------------------------------------------------------------------
(***************************************************************************)
(* Properties.                                                             *)
(***************************************************************************)
TypeOK ==
    /\ now \in Nat
    /\ link \in Meta \cup {NoLink}
    /\ made \in 0 .. MaxLinks /\ link.id <= made
    /\ entry \in Entry \cup {NoEntry}
    /\ saved \in Entry \cup {NoEntry}
    /\ req \in [Requests -> Request]
    /\ edit \in [Editors -> Edit]
    /\ retired \subseteq Retired

(* How long after it was replaced or deleted a row may still be served.    *)
Staleness == DefaultTTL * Second + 2 * MaxDelay

(* A redirect is never answered from a row older than the default TTL plus *)
(* the time two requests take, whatever PATCH, DELETE, re-creation, lazy   *)
(* deletion, concurrent cache fill or Redis restart happens in between.    *)
(* (Nothing invalidates the cache; only the TTL limits what it serves.)    *)
BoundedStaleness ==
    \A r \in Requests : req[r].step = "served" =>
        \/ req[r].meta = link
        \/ \E p \in retired :
              p.meta = req[r].meta /\ p.at + Staleness >= req[r].at

(* The copy in Redis outlives the expires_at it holds by no more than the  *)
(* time a request takes from computing the TTL to setting the key.         *)
CacheExpiryBounded ==
    \A e \in {entry, saved} :
        e # NoEntry /\ e.meta.expires # Never =>
            e.until <= e.meta.expires + MaxDelay

(* No request is served metadata whose own expires_at had passed when the  *)
(* request decided to serve it, though Redis may still have the copy.      *)
ServedUnexpired ==
    \A r \in Requests :
        req[r].step = "served" /\ req[r].meta.expires # Never =>
            req[r].at < req[r].meta.expires

(* A redirect removes a row only if that very row, not a later one under   *)
(* the same alias, has had an expires_at that has passed.                  *)
RemovedIfEverExpired ==
    \A p \in retired : p.by = "redirect" =>
        \E q \in retired : /\ q.meta.id = p.meta.id
                           /\ q.meta.expires # Never
                           /\ q.meta.expires <= p.at
=============================================================================
