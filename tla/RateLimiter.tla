----------------------------- MODULE RateLimiter -----------------------------
(***************************************************************************)
(* The sliding-window rate limiter: RateLimitMiddleware chooses a bucket   *)
(* and its limit, check_rate_limit stamps the request with the clock of    *)
(* its API process and has Redis run the script SLIDING_WINDOW_LUA.        *)
(*                                                                         *)
(* The script is one step of Redis.  Stamping and running are two: API     *)
(* processes have clocks of their own and a request may wait on its way,   *)
(* so the scripts run in another order than their stamps.  Time is Redis's *)
(* clock, in ticks; a second has Second ticks.                             *)
(*                                                                         *)
(* Assumed of the environment: when a script runs, its stamp is at most    *)
(* Early ahead of Redis's clock and at most Late behind it.                *)
(***************************************************************************)
EXTENDS Naturals, FiniteSets

CONSTANTS Requests,  \* the requests of a behaviour
          Shape,     \* the path, key and addresses of each request
          Limits,    \* settings.rate_limit_{auth,api,redirect}_requests
          NoKey,     \* no X-API-Key, no X-Forwarded-For
          Second,    \* ticks in a second
          Window,    \* rate_limit_window_seconds, in ticks
          Early, Late,
          Start,     \* the first moment
          MaxTime    \* bound: the last moment

Prefixes == {"auth", "api", "redirect"}

ASSUME RequestsAssumption ==
    /\ IsFiniteSet(Requests)
    /\ \A r \in Requests : Shape[r].path \in {"page", "register", "api", "other"}
ASSUME LimitsAssumption == Limits \in [Prefixes -> Nat \ {0}]
ASSUME TimeAssumption ==
    /\ {Second, Window, Early, Late, Start, MaxTime} \subseteq Nat
    /\ Second > 0 /\ Window > 0
    /\ Start >= Late

(***************************************************************************)
(* _should_skip_rate_limit and _build_rate_limit_key_and_limit.            *)
(***************************************************************************)
Skipped(r) == Shape[r].path = "page"

ClientIp(r) ==
    IF Shape[r].forwarded # NoKey THEN Shape[r].forwarded ELSE Shape[r].host

Prefix(r) ==
    CASE Shape[r].path = "register" -> "auth"
      [] Shape[r].path = "api"      -> "api"
      [] OTHER                      -> "redirect"

(* The API's bucket is the caller's key, any key, before its address.      *)
Bucket == [r \in Requests |->
    IF Prefix(r) = "api" /\ Shape[r].key # NoKey
    THEN <<"api", "api_key", Shape[r].key>>
    ELSE <<Prefix(r), "ip", ClientIp(r)>>]

Limit == [r \in Requests |-> Limits[Prefix(r)]]

Buckets == {Bucket[r] : r \in Requests}

VARIABLES
    now,    \* Redis's clock
    zset,   \* Redis: the members of each bucket's sorted set
    expiry, \* Redis: when the key of a bucket expires
    req     \* where each request is

vars == <<now, zset, expiry, req>>

Open == {"new", "sent", "resend"}

Request == [step : Open \cup {"allowed", "limited", "failopen", "skipped"},
            stamp : Nat,      \* now_ms, the score of its member
            recorded : BOOLEAN, \* history: a script of it added its member
            resent : BOOLEAN, \* history: its script ran more than once
            until : Nat]      \* history: when Retry-After has passed; 0 when it
                              \* was not limited or another was recorded since

Init ==
    /\ now = Start
    /\ zset = [b \in Buckets |-> {}]
    /\ expiry = [b \in Buckets |-> 0]
    /\ req = [r \in Requests |-> [step |-> "new", stamp |-> 0, recorded |-> FALSE,
                                  resent |-> FALSE, until |-> 0]]

Tick == now < MaxTime /\ now' = now + 1 /\ UNCHANGED <<zset, expiry, req>>

(***************************************************************************)
(* The script.                                                             *)
(***************************************************************************)
(* The members Redis holds: none once the moment the key expires at has    *)
(* passed.  At that moment itself the key is served, and its PTTL is 0.    *)
Members(b) == IF now <= expiry[b] THEN zset[b] ELSE {}

(* Mutants of Swept: the script counts without sweeping; an entry exactly  *)
(* a window old is kept.                                                   *)
SweptNothing(r) == Members(Bucket[r])
SweptExclusive(r) ==
    {x \in Members(Bucket[r]) : req[x].stamp + Window >= req[r].stamp}

(* ZREMRANGEBYSCORE key 0 (now_ms - window_ms): what stays.                *)
Swept(r) == {x \in Members(Bucket[r]) : req[x].stamp + Window > req[r].stamp}

(* Mutant of Full: one request more than the limit.                        *)
FullLate(r) == Cardinality(Swept(r)) > Limit[r]
Full(r) == Cardinality(Swept(r)) >= Limit[r]

(* Mutant of RetryAfter: the milliseconds are cut off, not rounded up.     *)
RetryAfterFloor(ttl) == IF ttl < Second THEN 1 ELSE ttl \div Second
RetryAfter(ttl) ==
    IF ttl = 0 THEN 1 ELSE (ttl + Second - 1) \div Second

(* Mutant of Script: ZADD comes before the count.                          *)
ScriptAddsFirst(r) ==
    /\ zset' = [zset EXCEPT ![Bucket[r]] = Swept(r) \cup {r}]
    /\ expiry' = [expiry EXCEPT ![Bucket[r]] = now + Window]

(* A denied request leaves the key with the expiry of the last allowed one *)
(* (its PTTL is the answer), an allowed one renews it.                     *)
Script(r) ==
    LET b == Bucket[r] IN
    /\ zset' = [zset EXCEPT ![b] = IF Full(r) THEN Swept(r) ELSE Swept(r) \cup {r}]
    /\ expiry' = IF Full(r) THEN expiry ELSE [expiry EXCEPT ![b] = now + Window]

(* r after its script ran; step is what check_rate_limit made of it.       *)
(* Whoever waits in the bucket of a recorded request has waited in vain.   *)
Ran(r, step) ==
    req' = [x \in Requests |->
        IF x = r
        THEN [req[r] EXCEPT !.step = step,
                            !.recorded = @ \/ ~Full(r),
                            !.resent = req[r].step = "resend",
                            !.until = IF step = "limited"
                                      THEN now + RetryAfter(expiry[Bucket[r]] - now) * Second
                                      ELSE 0]
        ELSE [req[x] EXCEPT !.until =
                 IF Bucket[x] = Bucket[r] /\ ~Full(r) THEN 0 ELSE @]]

Verdict(r) == IF Full(r) THEN "limited" ELSE "allowed"

(* Assumed: the stamp is not too far from the clock the script runs at.    *)
OnTime(r) == req[r].stamp <= now + Early /\ now <= req[r].stamp + Late

(***************************************************************************)
(* The request.                                                            *)
(***************************************************************************)
(* dispatch, up to the EVAL; int(time.time() * 1000) of the API process.   *)
Arrive(r) ==
    /\ req[r].step = "new"
    /\ ~Skipped(r)
    /\ \E stamp \in now - Late .. now + Early :
           req' = [req EXCEPT ![r].step = "sent", ![r].stamp = stamp]
    /\ UNCHANGED <<now, zset, expiry>>

Skip(r) ==
    /\ req[r].step = "new"
    /\ Skipped(r)
    /\ req' = [req EXCEPT ![r].step = "skipped"]
    /\ UNCHANGED <<now, zset, expiry>>

CheckRateLimit(r) ==
    /\ req[r].step \in {"sent", "resend"}
    /\ OnTime(r)
    /\ Script(r)
    /\ Ran(r, Verdict(r))
    /\ UNCHANGED now

(* The script runs, its reply is late: retry_on_timeout sends it again,    *)
(* with the same member and the same stamp.                                *)
ScriptTimesOut(r) ==
    /\ req[r].step \in {"sent", "resend"}
    /\ OnTime(r)
    /\ Script(r)
    /\ Ran(r, "resend")
    /\ UNCHANGED now

(* Any exception: the request passes, whatever a script of it has done.    *)
FailOpen(r) ==
    /\ req[r].step \in {"sent", "resend"}
    /\ req' = [req EXCEPT ![r].step = "failopen"]
    /\ UNCHANGED <<now, zset, expiry>>

Next ==
    \/ Tick
    \/ \E r \in Requests :
           \/ Arrive(r) \/ Skip(r)
           \/ CheckRateLimit(r) \/ ScriptTimesOut(r) \/ FailOpen(r)

Spec == Init /\ [][Next]_vars
-----------------------------------------------------------------------------
(***************************************************************************)
(* Properties.                                                             *)
(***************************************************************************)
(* The type invariant: a sorted set holds recorded requests of its bucket. *)
TypeOK ==
    /\ now \in Nat
    /\ zset \in [Buckets -> SUBSET Requests]
    /\ \A b \in Buckets : \A x \in zset[b] : Bucket[x] = b /\ req[x].recorded
    /\ expiry \in [Buckets -> Nat]
    /\ req \in [Requests -> Request]

(* The disorder of the stamps, as far as the environment allows it.        *)
Disorder == Early + Late

(* However the scripts are reordered, resent or answered late, and although*)
(* a key may expire under its members: the requests a bucket recorded with *)
(* stamps in one window, less the disorder, are never more than its limit  *)
(* (SLIDING_WINDOW_LUA).                                                   *)
AtMostLimit ==
    \A r \in Requests :
        Cardinality({x \in Requests :
            /\ req[x].recorded
            /\ Bucket[x] = Bucket[r]
            /\ req[r].stamp <= req[x].stamp
            /\ req[x].stamp + Disorder < req[r].stamp + Window}) <= Limit[r]

(* A request answered 429 met a full window: Limit other requests of its   *)
(* bucket were recorded less than a window before its own stamp or after   *)
(* it.  Its own member can only be among them when its script ran twice    *)
(* (retry_on_timeout): then one request may be denied by itself.           *)
DeniedJustified ==
    \A r \in Requests :
        req[r].step = "limited" =>
            LET others == {x \in Requests \ {r} :
                              /\ req[x].recorded
                              /\ Bucket[x] = Bucket[r]
                              /\ req[x].stamp + Window > req[r].stamp}
            IN  Cardinality(others) + (IF req[r].resent THEN 1 ELSE 0) >= Limit[r]

(* A client that waits as long as Retry-After says, while nobody else of   *)
(* its bucket is let through, finds the window empty (check_rate_limit     *)
(* lines 97-104: PTTL in milliseconds, rounded up to seconds).  One moment *)
(* is excepted: when the PTTL was a whole number of seconds, the wait ends *)
(* as the key expires, and Redis serves it for that moment yet.  What is   *)
(* left then is a window old, but for the Early its stamp was ahead: with  *)
(* equal clocks the client is let through then too, with a clock that is   *)
(* behind those of the others it may be denied once more.                  *)
RetryAfterEnough ==
    \A r \in Requests :
        req[r].until > 0 /\ now >= req[r].until =>
            \A x \in Members(Bucket[r]) :
                /\ now = req[r].until
                /\ req[x].stamp + Window <= now + Early
=============================================================================
