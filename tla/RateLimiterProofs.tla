------------------------- MODULE RateLimiterProofs -------------------------
(***************************************************************************)
(* Proofs about RateLimiter, for every value of its constants.             *)
(***************************************************************************)
EXTENDS RateLimiter, FiniteSetTheorems, TLAPS

(***************************************************************************)
(* Lemmas about the buckets and about Retry-After.                         *)
(***************************************************************************)
LEMMA BucketLimit ==
    ASSUME NEW r \in Requests
    PROVE  /\ Bucket[r] \in Buckets
           /\ Limit[r] \in Nat \ {0}
           /\ \A x \in Requests : Bucket[x] = Bucket[r] => Limit[x] = Limit[r]
<1>1. ASSUME NEW x \in Requests
      PROVE  /\ Bucket[x][1] = Prefix(x)
             /\ Prefix(x) \in Prefixes
             /\ Limit[x] = Limits[Bucket[x][1]]
  <2>1. Bucket[x][1] = Prefix(x)
    BY DEF Bucket, Prefix
  <2>2. Prefix(x) \in Prefixes
    BY DEF Prefix, Prefixes
  <2> QED
    BY <2>1, <2>2 DEF Limit
<1>2. Limit[r] \in Nat \ {0}
  BY <1>1, LimitsAssumption
<1> QED
  BY <1>1, <1>2 DEF Buckets

(* The seconds of Retry-After cover the PTTL they were made from.          *)
LEMMA RetryAfterCovers ==
    ASSUME NEW ttl \in Nat
    PROVE  RetryAfter(ttl) \in Nat /\ RetryAfter(ttl) * Second >= ttl
<1>1. Second \in Nat \ {0}
  BY TimeAssumption
<1>2. ASSUME NEW n \in Nat
      PROVE  /\ (n \div Second) \in Nat
             /\ n < (n \div Second) * Second + Second
  BY <1>1
<1>3. CASE ttl = 0
  BY <1>1, <1>3 DEF RetryAfter
<1>4. CASE ttl # 0
  <2> DEFINE n == ttl + Second - 1
             q == n \div Second
  <2>1. n \in Nat /\ ttl + Second = n + 1
    BY <1>1
  <2>2. q \in Nat /\ n < q * Second + Second
    BY <1>2, <2>1
  <2>3. RetryAfter(ttl) = q
    BY <1>4 DEF RetryAfter
  <2> HIDE DEF q, n
  <2>4. q * Second \in Nat
    BY <1>1, <2>2
  <2>5. q * Second >= ttl
    BY <1>1, <2>1, <2>2, <2>4
  <2> QED
    BY <2>2, <2>3, <2>5
<1> QED
  BY <1>3, <1>4
-----------------------------------------------------------------------------
(***************************************************************************)
(* Type correctness.  The clock does not go back before Start, so a stamp  *)
(* is a natural number.                                                    *)
(***************************************************************************)
TypeInv == TypeOK /\ now >= Start

(* The two actions that run the script.                                    *)
ScriptRuns(r, step) ==
    /\ req[r].step \in {"sent", "resend"}
    /\ OnTime(r)
    /\ Script(r)
    /\ Ran(r, step)
    /\ now' = now
    /\ \/ step = "limited" /\ Full(r)
       \/ step = "allowed" /\ ~Full(r)
       \/ step = "resend"

(* The actions that leave Redis alone: what they make of a request.        *)
RequestMoves(r) ==
    /\ req[r].step \in {"new", "sent", "resend"}
    /\ \E step \in {"sent", "skipped", "failopen"}, stamp \in Nat :
           /\ req' = [req EXCEPT ![r].step = step, ![r].stamp = stamp]
           /\ step = "failopen" => stamp = req[r].stamp
           /\ step # "failopen" => req[r].step = "new"
    /\ UNCHANGED <<now, zset, expiry>>

LEMMA StepCases ==
    ASSUME TypeInv, [Next]_vars
    PROVE  \/ UNCHANGED vars
           \/ Tick
           \/ \E r \in Requests : RequestMoves(r)
           \/ \E r \in Requests, step \in {"limited", "allowed", "resend"} :
                  ScriptRuns(r, step)
<1>1. ASSUME NEW r \in Requests, Arrive(r) PROVE RequestMoves(r)
  <2>1. PICK stamp \in now - Late .. now + Early :
           req' = [req EXCEPT ![r].step = "sent", ![r].stamp = stamp]
    BY <1>1 DEF Arrive
  <2>2. stamp \in Nat
    BY TimeAssumption DEF TypeInv, TypeOK
  <2> QED
    BY <1>1, <2>1, <2>2 DEF Arrive, RequestMoves
<1>2. ASSUME NEW r \in Requests, req[r].step \in {"new", "sent", "resend"},
             NEW step \in {"skipped", "failopen"},
             step # "failopen" => req[r].step = "new",
             req' = [req EXCEPT ![r].step = step],
             UNCHANGED <<now, zset, expiry>>
      PROVE  RequestMoves(r)
  <2>1. req[r] \in Request /\ req[r].stamp \in Nat
    BY DEF TypeInv, TypeOK, Request
  <2>2. [req[r] EXCEPT !.step = step]
           = [req[r] EXCEPT !.step = step, !.stamp = req[r].stamp]
    BY <2>1 DEF Request
  <2>3. req' = [req EXCEPT ![r].step = step, ![r].stamp = req[r].stamp]
    BY <1>2, <2>1, <2>2
  <2> QED
    BY <1>2, <2>1, <2>3 DEF RequestMoves
<1>3. ASSUME NEW r \in Requests, Skip(r) \/ FailOpen(r) PROVE RequestMoves(r)
  BY <1>2, <1>3 DEF Skip, FailOpen
<1>4. ASSUME NEW r \in Requests, CheckRateLimit(r)
      PROVE  ScriptRuns(r, Verdict(r)) /\ Verdict(r) \in {"limited", "allowed"}
  BY <1>4 DEF CheckRateLimit, ScriptRuns, Verdict
<1>5. ASSUME NEW r \in Requests, ScriptTimesOut(r) PROVE ScriptRuns(r, "resend")
  BY <1>5 DEF ScriptTimesOut, ScriptRuns
<1> QED
  BY <1>1, <1>3, <1>4, <1>5 DEF Next

LEMMA SweptType ==
    ASSUME TypeInv, NEW r \in Requests
    PROVE  /\ Swept(r) \subseteq Members(Bucket[r])
           /\ Members(Bucket[r]) \subseteq Requests
           /\ \A x \in Swept(r) : Bucket[x] = Bucket[r] /\ req[x].recorded
           /\ IsFiniteSet(Swept(r)) /\ Cardinality(Swept(r)) \in Nat
           /\ Full(r) => now <= expiry[Bucket[r]]
<1>1. Swept(r) \subseteq Members(Bucket[r])
  BY DEF Swept
<1>2. Members(Bucket[r]) \subseteq zset[Bucket[r]]
  BY DEF Members
<1>3. Members(Bucket[r]) \subseteq Requests
  BY <1>2, BucketLimit DEF TypeInv, TypeOK
<1>4. IsFiniteSet(Swept(r)) /\ Cardinality(Swept(r)) \in Nat
  BY <1>1, <1>3, RequestsAssumption, FS_Subset, FS_CardinalityType
<1>5. ASSUME Full(r) PROVE now <= expiry[Bucket[r]]
  <2>1. Swept(r) # {}
    BY <1>5, BucketLimit, FS_EmptySet DEF Full
  <2> QED
    BY <1>1, <2>1 DEF Members
<1> QED
  BY <1>1, <1>2, <1>3, <1>4, <1>5, BucketLimit DEF TypeInv, TypeOK

(* What the script leaves of a request, and of its bucket.                 *)
LEMMA ScriptEffect ==
    ASSUME TypeInv, NEW r \in Requests,
           NEW step \in {"limited", "allowed", "resend"}, ScriptRuns(r, step)
    PROVE  /\ req' \in [Requests -> Request]
           /\ \A x \in Requests :
                 /\ req'[x].stamp = req[x].stamp
                 /\ req'[x].recorded <=> req[x].recorded \/ (x = r /\ ~Full(r))
                 /\ x # r => /\ req'[x].step = req[x].step
                             /\ req'[x].resent = req[x].resent
                             /\ req'[x].until =
                                   IF Bucket[x] = Bucket[r] /\ ~Full(r)
                                   THEN 0 ELSE req[x].until
           /\ req'[r].step = step
           /\ req'[r].resent = (req[r].step = "resend")
           /\ step # "limited" => req'[r].until = 0
           /\ step = "limited" => req'[r].until >= expiry[Bucket[r]]
<1> DEFINE pttl == expiry[Bucket[r]] - now
           limit == now + RetryAfter(pttl) * Second
           until == IF step = "limited" THEN limit ELSE 0
           here == [req[r] EXCEPT !.step = step, !.recorded = @ \/ ~Full(r),
                                  !.resent = req[r].step = "resend",
                                  !.until = until]
<1>1. req \in [Requests -> Request] /\ now \in Nat /\ expiry[Bucket[r]] \in Nat
  BY BucketLimit DEF TypeInv, TypeOK
<1>2. ASSUME step = "limited"
      PROVE  limit \in Nat /\ limit >= expiry[Bucket[r]]
  <2>1. now <= expiry[Bucket[r]]
    BY <1>2, SweptType DEF ScriptRuns
  <2>2. pttl \in Nat /\ expiry[Bucket[r]] = now + pttl
    BY <1>1, <2>1
  <2>3. RetryAfter(pttl) \in Nat /\ RetryAfter(pttl) * Second >= pttl
    BY <2>2, RetryAfterCovers
  <2> HIDE DEF pttl
  <2>4. RetryAfter(pttl) * Second \in Nat
    BY <2>3, TimeAssumption
  <2> QED
    BY <1>1, <2>2, <2>3, <2>4
<1>3. until \in Nat
  BY <1>2
<1>4. \A x \in Requests :
         req'[x] = IF x = r THEN here
                   ELSE [req[x] EXCEPT !.until =
                           IF Bucket[x] = Bucket[r] /\ ~Full(r) THEN 0 ELSE @]
  BY DEF ScriptRuns, Ran
<1>5. Requests = DOMAIN req'
  BY DEF ScriptRuns, Ran
<1> HIDE DEF until
<1>6. /\ here \in Request
      /\ here.stamp = req[r].stamp /\ here.step = step
      /\ here.recorded <=> req[r].recorded \/ ~Full(r)
      /\ here.resent = (req[r].step = "resend")
      /\ here.until = until
  BY <1>1, <1>3 DEF Request, Open
<1> HIDE DEF here
<1>7. req'[r] = here
  BY <1>4
<1>8. ASSUME NEW x \in Requests, x # r
      PROVE  /\ req'[x] \in Request
             /\ req'[x].stamp = req[x].stamp /\ req'[x].step = req[x].step
             /\ req'[x].recorded = req[x].recorded
             /\ req'[x].resent = req[x].resent
             /\ req'[x].until = IF Bucket[x] = Bucket[r] /\ ~Full(r)
                                THEN 0 ELSE req[x].until
  <2>1. req[x] \in Request
    BY <1>1
  <2>2. req'[x] = [req[x] EXCEPT !.until =
                      IF Bucket[x] = Bucket[r] /\ ~Full(r) THEN 0 ELSE @]
    BY <1>4, <1>8
  <2> QED
    BY <2>1, <2>2 DEF Request
<1>9. req' \in [Requests -> Request]
  <2>1. \A x \in Requests : req'[x] \in Request
    BY <1>6, <1>7, <1>8
  <2>2. req' = [x \in Requests |-> req'[x]]
    BY DEF ScriptRuns, Ran
  <2> QED
    BY <2>1, <2>2
<1>10. /\ step # "limited" => until = 0
       /\ step = "limited" => until >= expiry[Bucket[r]]
  BY <1>2 DEF until
<1> QED
  BY <1>6, <1>7, <1>8, <1>9, <1>10

(* What the other actions of a request leave of it.                        *)
LEMMA MoveEffect ==
    ASSUME TypeInv, NEW r \in Requests, RequestMoves(r)
    PROVE  /\ req' \in [Requests -> Request]
           /\ \A x \in Requests :
                 /\ req'[x].recorded = req[x].recorded
                 /\ req'[x].resent = req[x].resent
                 /\ req'[x].until = req[x].until
                 /\ x # r => req'[x].step = req[x].step
                 /\ req[x].step # "new" => req'[x].stamp = req[x].stamp
           /\ req'[r].step \in {"sent", "skipped", "failopen"}
           /\ req[r].step = "new" \/ req'[r].step = "failopen"
           /\ UNCHANGED <<now, zset, expiry>>
<1>1. PICK step \in {"sent", "skipped", "failopen"}, stamp \in Nat :
         /\ req' = [req EXCEPT ![r].step = step, ![r].stamp = stamp]
         /\ step = "failopen" => stamp = req[r].stamp
         /\ step # "failopen" => req[r].step = "new"
  BY DEF RequestMoves
<1> DEFINE here == [req[r] EXCEPT !.step = step, !.stamp = stamp]
<1>2. req[r] \in Request /\ req \in [Requests -> Request]
  BY DEF TypeInv, TypeOK
<1>3. /\ here \in Request
      /\ here.recorded = req[r].recorded /\ here.resent = req[r].resent
      /\ here.until = req[r].until /\ here.step = step /\ here.stamp = stamp
  BY <1>2 DEF Request, Open
<1>4. req' = [req EXCEPT ![r] = here]
  BY <1>1, <1>2
<1> HIDE DEF here
<1>5. /\ req'[r] = here
      /\ \A x \in Requests : x # r => req'[x] = req[x]
      /\ req' \in [Requests -> Request]
  BY <1>2, <1>3, <1>4
<1>6. UNCHANGED <<now, zset, expiry>>
  BY DEF RequestMoves
<1> QED
  BY <1>1, <1>3, <1>5, <1>6

LEMMA InitTypeInv == Init => TypeInv
<1> SUFFICES ASSUME Init PROVE TypeInv
  OBVIOUS
<1>1. now \in Nat /\ now >= Start
  BY TimeAssumption DEF Init
<1>2. [step |-> "new", stamp |-> 0, recorded |-> FALSE, resent |-> FALSE,
       until |-> 0] \in Request
  BY DEF Request, Open
<1>3. req \in [Requests -> Request]
  BY <1>2 DEF Init
<1> QED
  BY <1>1, <1>3 DEF Init, TypeInv, TypeOK

LEMMA StepTypeInv == TypeInv /\ [Next]_vars => TypeInv'
<1> SUFFICES ASSUME TypeInv, [Next]_vars PROVE TypeInv'
  OBVIOUS
<1>1. CASE UNCHANGED vars
  BY <1>1 DEF vars, TypeInv, TypeOK
<1>2. CASE Tick
  BY <1>2, TimeAssumption DEF Tick, TypeInv, TypeOK
<1>3. ASSUME NEW r \in Requests, RequestMoves(r) PROVE TypeInv'
  <2>1. ASSUME NEW b \in Buckets, NEW x \in zset'[b]
        PROVE  Bucket[x] = b /\ req'[x].recorded
    <3>1. x \in zset[b] /\ x \in Requests
      BY <1>3, <2>1, MoveEffect DEF TypeInv, TypeOK
    <3> QED
      BY <1>3, <3>1, MoveEffect DEF TypeInv, TypeOK
  <2>2. req' \in [Requests -> Request] /\ UNCHANGED <<now, zset, expiry>>
    BY <1>3, MoveEffect
  <2> QED
    BY <2>1, <2>2 DEF TypeInv, TypeOK
<1>4. ASSUME NEW r \in Requests, NEW step \in {"limited", "allowed", "resend"},
             ScriptRuns(r, step)
      PROVE  TypeInv'
  <2> DEFINE b == Bucket[r]
  <2>1. /\ zset' = [zset EXCEPT ![b] = IF Full(r) THEN Swept(r)
                                                  ELSE Swept(r) \cup {r}]
        /\ expiry' = IF Full(r) THEN expiry ELSE [expiry EXCEPT ![b] = now + Window]
        /\ now' = now /\ b \in Buckets
    BY <1>4, BucketLimit DEF ScriptRuns, Script
  <2>2. Swept(r) \subseteq Requests
    BY SweptType
  <2>3. zset' \in [Buckets -> SUBSET Requests]
    BY <2>1, <2>2 DEF TypeInv, TypeOK
  <2>4. expiry' \in [Buckets -> Nat]
    BY <2>1, TimeAssumption DEF TypeInv, TypeOK
  <2>5. ASSUME NEW c \in Buckets, NEW x \in zset'[c]
        PROVE  Bucket[x] = c /\ req'[x].recorded
    <3>1. x \in Requests
      BY <2>3, <2>5
    <3>2. CASE x = r /\ c = b /\ ~Full(r)
      BY <1>4, <3>2, ScriptEffect
    <3>3. CASE x \in Swept(r) /\ c = b
      BY <1>4, <3>1, <3>3, ScriptEffect, SweptType
    <3>4. CASE c # b
      <4>1. x \in zset[c]
        BY <2>1, <2>5, <3>4 DEF TypeInv, TypeOK
      <4> QED
        BY <1>4, <3>1, <4>1, ScriptEffect DEF TypeInv, TypeOK
    <3> QED
      BY <2>1, <2>5, <3>2, <3>3, <3>4 DEF TypeInv, TypeOK
  <2> QED
    BY <1>4, <2>1, <2>3, <2>4, <2>5, ScriptEffect DEF TypeInv, TypeOK
<1> QED
  BY <1>1, <1>2, <1>3, <1>4, StepCases

LEMMA TypeInvAlways == Spec => []TypeInv
  BY InitTypeInv, StepTypeInv, PTL DEF Spec

(* Every sorted set holds recorded requests of its bucket, and the clock,  *)
(* the expiries and the histories have their types.                        *)
THEOREM TypeCorrect == Spec => []TypeOK
<1>1. TypeInv => TypeOK
  BY DEF TypeInv
<1> QED
  BY <1>1, TypeInvAlways, PTL
-----------------------------------------------------------------------------
(***************************************************************************)
(* The limit of a window.  A recorded request is still in the sorted set,  *)
(* under a key that has not expired, until a window has passed since its   *)
(* stamp on the clock of Redis plus Early: neither the sweep of a request  *)
(* that runs out of order nor the expiry of the key removes it before.     *)
(***************************************************************************)
Gone(x) == req[x].stamp + Window <= now + Early

KeepInv ==
    /\ \A r \in Requests : req[r].step \in {"new", "sent"} => ~req[r].recorded
    /\ \A r \in Requests : req[r].recorded => r \in Members(Bucket[r]) \/ Gone(r)
    /\ \A b \in Buckets : \A x \in zset[b] :
           req[x].stamp + Window <= expiry[b] + Early
    /\ \A b \in Buckets : expiry[b] <= now + Window

LEMMA InitKeepInv == Init => KeepInv
  BY TimeAssumption DEF Init, KeepInv

LEMMA StepKeepInv == TypeInv /\ TypeInv' /\ KeepInv /\ [Next]_vars => KeepInv'
<1> SUFFICES ASSUME TypeInv, TypeInv', KeepInv, [Next]_vars PROVE KeepInv'
  OBVIOUS
<1> USE TimeAssumption
<1>1. CASE UNCHANGED vars
  BY <1>1 DEF vars, KeepInv, Members, Gone
<1>2. CASE Tick
  <2>1. /\ now' = now + 1 /\ zset' = zset /\ expiry' = expiry /\ req' = req
    BY <1>2 DEF Tick
  <2>2. ASSUME NEW r \in Requests, req[r].recorded, r \in Members(Bucket[r])
        PROVE  r \in Members(Bucket[r])' \/ Gone(r)'
    <3>1. /\ r \in zset[Bucket[r]]
          /\ req[r].stamp + Window <= expiry[Bucket[r]] + Early
      BY <2>2, BucketLimit DEF Members, KeepInv
    <3>2. req[r].stamp \in Nat /\ expiry[Bucket[r]] \in Nat /\ now \in Nat
      BY BucketLimit DEF TypeInv, TypeOK, Request
    <3> QED
      BY <2>1, <3>1, <3>2 DEF Members, Gone
  <2>3. ASSUME NEW r \in Requests, Gone(r) PROVE Gone(r)'
    BY <2>1, <2>3 DEF Gone, TypeInv, TypeOK, Request
  <2>4. ASSUME NEW b \in Buckets PROVE expiry'[b] <= now' + Window
    BY <2>1 DEF KeepInv, TypeInv, TypeOK
  <2> QED
    BY <2>1, <2>2, <2>3, <2>4 DEF KeepInv
<1>3. ASSUME NEW r \in Requests, RequestMoves(r) PROVE KeepInv'
  <2>1. now' = now /\ zset' = zset /\ expiry' = expiry
    BY <1>3, MoveEffect
  <2>2. \A x \in Requests :
           /\ req'[x].recorded = req[x].recorded
           /\ req[x].recorded => req'[x].stamp = req[x].stamp
    BY <1>3, MoveEffect DEF KeepInv
  <2>3. ASSUME NEW b \in Buckets, NEW x \in zset[b]
        PROVE  x \in Requests /\ req[x].recorded
    BY DEF TypeInv, TypeOK
  <2>4. ASSUME NEW x \in Requests, req'[x].step \in {"new", "sent"}
        PROVE  ~req'[x].recorded
    <3>1. req[x].step \in {"new", "sent"}
      BY <1>3, <2>4, MoveEffect
    <3> QED
      BY <2>2, <3>1 DEF KeepInv
  <2>5. \A x \in Requests : Members(Bucket[x])' = Members(Bucket[x])
    BY <2>1 DEF Members
  <2>6. \A x \in Requests : req'[x].recorded =>
           x \in Members(Bucket[x])' \/ Gone(x)'
    BY <2>1, <2>2, <2>5 DEF KeepInv, Gone
  <2> QED
    BY <2>1, <2>2, <2>3, <2>4, <2>6 DEF KeepInv
<1>4. ASSUME NEW r \in Requests, NEW step \in {"limited", "allowed", "resend"},
             ScriptRuns(r, step)
      PROVE  KeepInv'
  <2> DEFINE b == Bucket[r]
  <2>1. /\ zset' = [zset EXCEPT ![b] = IF Full(r) THEN Swept(r)
                                                  ELSE Swept(r) \cup {r}]
        /\ expiry' = IF Full(r) THEN expiry ELSE [expiry EXCEPT ![b] = now + Window]
        /\ now' = now /\ b \in Buckets
        /\ req[r].stamp <= now + Early
    BY <1>4, BucketLimit DEF ScriptRuns, Script, OnTime
  <2>2. \A x \in Requests :
           /\ req'[x].stamp = req[x].stamp /\ req[x].stamp \in Nat
           /\ req'[x].recorded <=> req[x].recorded \/ (x = r /\ ~Full(r))
           /\ req'[x].step = IF x = r THEN step ELSE req[x].step
    BY <1>4, ScriptEffect DEF TypeInv, TypeOK, Request
  <2>3. \A c \in Buckets : /\ expiry[c] \in Nat /\ expiry[c] <= expiry'[c]
                           /\ expiry'[c] <= now' + Window
    BY <2>1 DEF KeepInv, TypeInv, TypeOK
  <2>4. ASSUME NEW x \in Requests, req'[x].recorded
        PROVE  x \in Members(Bucket[x])' \/ Gone(x)'
    <3>1. CASE x = r /\ ~Full(r)
      <4>1. x \in zset'[b] /\ expiry'[b] = now + Window
        BY <2>1, <3>1 DEF TypeInv, TypeOK
      <4>2. now <= now + Window
        BY DEF TypeInv, TypeOK
      <4> QED
        BY <2>1, <3>1, <4>1, <4>2 DEF Members
    <3>2. CASE Gone(x)
      BY <2>1, <2>2, <3>2 DEF Gone
    <3>3. CASE x \in Members(Bucket[x]) /\ Bucket[x] # b
      <4>1. Bucket[x] \in Buckets
        BY BucketLimit
      <4>2. zset'[Bucket[x]] = zset[Bucket[x]] /\ expiry'[Bucket[x]] = expiry[Bucket[x]]
        BY <2>1, <3>3, <4>1 DEF TypeInv, TypeOK
      <4> QED
        BY <2>1, <3>3, <4>2 DEF Members
    <3>4. CASE x \in Members(b) /\ Bucket[x] = b
      <4>1. now <= expiry[b]
        BY <3>4 DEF Members
      <4>2. CASE x \in Swept(r)
        <5>1. x \in zset'[b]
          BY <2>1, <4>2 DEF TypeInv, TypeOK
        <5>2. now' <= expiry'[b]
          BY <2>1, <2>3, <4>1 DEF TypeInv, TypeOK
        <5> QED
          BY <3>4, <5>1, <5>2 DEF Members
      <4>3. CASE x \notin Swept(r)
        <5>1. req[x].stamp + Window <= req[r].stamp
          BY <2>2, <3>4, <4>3 DEF Swept
        <5> QED
          BY <2>1, <2>2, <5>1 DEF Gone, TypeInv, TypeOK
      <4> QED
        BY <4>2, <4>3
    <3> QED
      BY <2>2, <2>4, <3>1, <3>2, <3>3, <3>4 DEF KeepInv
  <2>5. ASSUME NEW c \in Buckets, NEW x \in zset'[c]
        PROVE  req'[x].stamp + Window <= expiry'[c] + Early
    <3>1. CASE x \in zset[c]
      BY <2>2, <2>3, <3>1 DEF KeepInv, TypeInv, TypeOK
    <3>2. CASE x \notin zset[c]
      <4>1. c = b /\ x = r /\ ~Full(r)
        BY <2>1, <2>5, <3>2, SweptType DEF Members, TypeInv, TypeOK
      <4>2. expiry'[c] = now + Window
        BY <2>1, <4>1 DEF TypeInv, TypeOK
      <4> QED
        BY <2>1, <2>2, <4>1, <4>2 DEF TypeInv, TypeOK
    <3> QED
      BY <3>1, <3>2
  <2>6. ASSUME NEW x \in Requests, req'[x].step \in {"new", "sent"}
        PROVE  ~req'[x].recorded
    BY <2>2, <2>6 DEF KeepInv
  <2> QED
    BY <2>3, <2>4, <2>5, <2>6 DEF KeepInv
<1> QED
  BY <1>1, <1>2, <1>3, <1>4, StepCases

LEMMA KeepInvAlways == Spec => []KeepInv
  BY InitKeepInv, StepKeepInv, TypeInvAlways, PTL DEF Spec

(* The recorded requests of r's bucket with stamps in the window from s    *)
(* on, less the disorder.                                                  *)
InWindow(r, s) ==
    {x \in Requests : /\ req[x].recorded
                      /\ Bucket[x] = Bucket[r]
                      /\ s <= req[x].stamp
                      /\ req[x].stamp + Disorder < s + Window}

(* AtMostLimit for every window: a request chooses its stamp, hence the    *)
(* window that starts with it, when the others are already recorded.       *)
WindowInv ==
    \A r \in Requests, s \in Nat : Cardinality(InWindow(r, s)) <= Limit[r]

LEMMA InitWindowInv == Init => WindowInv
<1> SUFFICES ASSUME Init, NEW r \in Requests, NEW s \in Nat
             PROVE  Cardinality(InWindow(r, s)) <= Limit[r]
  BY DEF WindowInv
<1>1. InWindow(r, s) = {}
  BY DEF Init, InWindow
<1> QED
  BY <1>1, FS_EmptySet, BucketLimit

(* Whoever is in one window with r when its script runs is still in the    *)
(* sorted set after its sweep.                                             *)
LEMMA SweepKeepsWindow ==
    ASSUME TypeInv, KeepInv, NEW r \in Requests, OnTime(r), NEW s \in Nat,
           s <= req[r].stamp, req[r].stamp + Disorder < s + Window,
           NEW x \in InWindow(r, s)
    PROVE  x \in Swept(r)
<1>1. /\ req[x].stamp \in Nat /\ req[r].stamp \in Nat /\ now \in Nat
      /\ x \in Requests
  BY DEF InWindow, TypeInv, TypeOK, Request
<1>2. Early \in Nat /\ Late \in Nat /\ Window \in Nat
  BY TimeAssumption
<1>3. req[r].stamp + Disorder < req[x].stamp + Window
  BY <1>1, <1>2 DEF InWindow, Disorder
<1>4. ~Gone(x)
  BY <1>1, <1>2, <1>3 DEF Gone, OnTime, Disorder
<1>5. x \in Members(Bucket[r])
  BY <1>1, <1>4 DEF KeepInv, InWindow
<1>6. req[x].stamp + Window > req[r].stamp
  BY <1>1, <1>2, <1>3 DEF Disorder
<1> QED
  BY <1>5, <1>6 DEF Swept

LEMMA StepWindowInv ==
    TypeInv /\ KeepInv /\ WindowInv /\ [Next]_vars => WindowInv'
<1> SUFFICES ASSUME TypeInv, KeepInv, WindowInv, [Next]_vars,
                    NEW q \in Requests, NEW s \in Nat
             PROVE  Cardinality(InWindow(q, s)') <= Limit[q]
  BY DEF WindowInv
<1>1. Cardinality(InWindow(q, s)) <= Limit[q]
  BY DEF WindowInv
<1>2. ASSUME InWindow(q, s)' = InWindow(q, s)
      PROVE  Cardinality(InWindow(q, s)') <= Limit[q]
  BY <1>1, <1>2
<1>3. CASE UNCHANGED vars \/ Tick
  BY <1>2, <1>3 DEF vars, Tick, InWindow
<1>4. ASSUME NEW r \in Requests, RequestMoves(r)
      PROVE  InWindow(q, s)' = InWindow(q, s)
  <2>1. \A x \in Requests :
           /\ req'[x].recorded = req[x].recorded
           /\ req[x].recorded => req'[x].stamp = req[x].stamp
    BY <1>4, MoveEffect DEF KeepInv
  <2> QED
    BY <2>1 DEF InWindow
<1>5. ASSUME NEW r \in Requests, NEW step \in {"limited", "allowed", "resend"},
             ScriptRuns(r, step)
      PROVE  Cardinality(InWindow(q, s)') <= Limit[q]
  <2>1. \A x \in Requests :
           /\ req'[x].stamp = req[x].stamp
           /\ req'[x].recorded <=> req[x].recorded \/ (x = r /\ ~Full(r))
    BY <1>5, ScriptEffect
  <2>2. CASE \/ Full(r) \/ Bucket[r] # Bucket[q]
             \/ ~(s <= req[r].stamp /\ req[r].stamp + Disorder < s + Window)
    <3>1. InWindow(q, s)' = InWindow(q, s)
      BY <2>1, <2>2 DEF InWindow
    <3> QED
      BY <1>2, <3>1
  <2>3. CASE /\ ~Full(r) /\ Bucket[r] = Bucket[q]
             /\ s <= req[r].stamp /\ req[r].stamp + Disorder < s + Window
    <3>1. InWindow(q, s)' = InWindow(r, s) \cup {r}
      BY <2>1, <2>3 DEF InWindow
    <3>2. OnTime(r)
      BY <1>5 DEF ScriptRuns
    <3>3. InWindow(r, s) \subseteq Swept(r)
      BY <2>3, <3>2, SweepKeepsWindow
    <3>4. /\ IsFiniteSet(InWindow(r, s))
          /\ Cardinality(InWindow(r, s)) \in Nat
          /\ Cardinality(InWindow(r, s)) <= Cardinality(Swept(r))
      BY <3>3, SweptType, FS_Subset, FS_CardinalityType
    <3>5. Cardinality(Swept(r)) < Limit[r] /\ Limit[q] = Limit[r]
      BY <2>3, SweptType, BucketLimit DEF Full
    <3>6. Cardinality(InWindow(r, s) \cup {r})
             = IF r \in InWindow(r, s) THEN Cardinality(InWindow(r, s))
                                       ELSE Cardinality(InWindow(r, s)) + 1
      BY <3>4, FS_AddElement, Zenon
    <3> QED
      BY <3>1, <3>4, <3>5, <3>6, SweptType, BucketLimit
  <2> QED
    BY <2>2, <2>3
<1> QED
  BY <1>2, <1>3, <1>4, <1>5, StepCases

(* The requests a bucket recorded with stamps in one window, less the      *)
(* disorder the environment allows, are never more than its limit.         *)
THEOREM AtMostLimitAlways == Spec => []AtMostLimit
<1>1. TypeInv /\ WindowInv => AtMostLimit
  <2> SUFFICES ASSUME TypeInv, WindowInv, NEW r \in Requests
               PROVE  Cardinality(InWindow(r, req[r].stamp)) <= Limit[r]
    BY DEF AtMostLimit, InWindow
  <2>1. req[r].stamp \in Nat
    BY DEF TypeInv, TypeOK, Request
  <2> QED
    BY <2>1 DEF WindowInv
<1> QED
  BY <1>1, InitWindowInv, StepWindowInv, KeepInvAlways, TypeInvAlways, PTL DEF Spec
-----------------------------------------------------------------------------
(***************************************************************************)
(* A 429 is justified.                                                     *)
(***************************************************************************)
(* The requests of r's bucket, itself left out, that were recorded less    *)
(* than a window before its stamp.                                         *)
Others(r) ==
    {x \in Requests \ {r} : /\ req[x].recorded
                            /\ Bucket[x] = Bucket[r]
                            /\ req[x].stamp + Window > req[r].stamp}

LEMMA OthersFinite ==
    ASSUME NEW r \in Requests
    PROVE  IsFiniteSet(Others(r)) /\ IsFiniteSet(Others(r)')
  BY RequestsAssumption, FS_Subset DEF Others

LEMMA StepDeniedJustified ==
    TypeInv /\ KeepInv /\ DeniedJustified /\ [Next]_vars => DeniedJustified'
<1> SUFFICES ASSUME TypeInv, KeepInv, DeniedJustified, [Next]_vars,
                    NEW q \in Requests, req'[q].step = "limited"
             PROVE  Cardinality(Others(q)') + (IF req'[q].resent THEN 1 ELSE 0)
                       >= Limit[q]
  BY DEF DeniedJustified, Others
<1>1. ASSUME req[q].step = "limited", Others(q) \subseteq Others(q)',
             req'[q].resent = req[q].resent
      PROVE  Cardinality(Others(q)') + (IF req'[q].resent THEN 1 ELSE 0)
                >= Limit[q]
  <2>1. Cardinality(Others(q)) + (IF req[q].resent THEN 1 ELSE 0) >= Limit[q]
    BY <1>1 DEF DeniedJustified, Others
  <2>2. /\ Cardinality(Others(q)) \in Nat /\ Cardinality(Others(q)') \in Nat
        /\ Cardinality(Others(q)) <= Cardinality(Others(q)')
    BY <1>1, OthersFinite, FS_Subset, FS_CardinalityType
  <2> QED
    BY <1>1, <2>1, <2>2, BucketLimit
<1>2. CASE UNCHANGED vars \/ Tick
  BY <1>1, <1>2 DEF vars, Tick, Others
<1>3. ASSUME NEW r \in Requests, RequestMoves(r)
      PROVE  Cardinality(Others(q)') + (IF req'[q].resent THEN 1 ELSE 0)
                >= Limit[q]
  <2>1. q # r /\ req[q].step = "limited"
    BY <1>3, MoveEffect
  <2>2. \A x \in Requests :
           /\ req'[x].recorded = req[x].recorded
           /\ req'[x].resent = req[x].resent
           /\ req[x].recorded \/ x = q => req'[x].stamp = req[x].stamp
    BY <1>3, <2>1, MoveEffect DEF KeepInv
  <2>3. Others(q) \subseteq Others(q)'
    BY <2>2 DEF Others
  <2> QED
    BY <1>1, <2>1, <2>2, <2>3
<1>4. ASSUME NEW r \in Requests, NEW step \in {"limited", "allowed", "resend"},
             ScriptRuns(r, step), q # r
      PROVE  Cardinality(Others(q)') + (IF req'[q].resent THEN 1 ELSE 0)
                >= Limit[q]
  <2>1. req[q].step = "limited" /\ req'[q].resent = req[q].resent
    BY <1>4, ScriptEffect
  <2>2. Others(q) \subseteq Others(q)'
    BY <1>4, ScriptEffect DEF Others
  <2> QED
    BY <1>1, <2>1, <2>2
<1>5. ASSUME NEW step \in {"limited", "allowed", "resend"}, ScriptRuns(q, step)
      PROVE  Cardinality(Others(q)') + (IF req'[q].resent THEN 1 ELSE 0)
                >= Limit[q]
  <2>1. step = "limited" /\ Full(q) /\ req'[q].resent = (req[q].step = "resend")
    BY <1>5, ScriptEffect DEF ScriptRuns
  <2>2. Swept(q) \ {q} \subseteq Others(q)'
    <3>1. \A x \in Swept(q) :
             /\ x \in Requests /\ Bucket[x] = Bucket[q] /\ req[x].recorded
             /\ req[x].stamp + Window > req[q].stamp
      BY SweptType DEF Swept
    <3>2. \A x \in Requests : /\ req'[x].stamp = req[x].stamp
                              /\ req[x].recorded => req'[x].recorded
      BY <1>5, ScriptEffect
    <3> QED
      BY <3>1, <3>2 DEF Others
  <2>3. q \in Swept(q) => req'[q].resent
    BY <1>5, <2>1, SweptType DEF KeepInv, ScriptRuns
  <2>4. /\ Cardinality(Swept(q) \ {q}) = IF q \in Swept(q)
                                         THEN Cardinality(Swept(q)) - 1
                                         ELSE Cardinality(Swept(q))
        /\ IsFiniteSet(Swept(q) \ {q}) /\ Cardinality(Swept(q) \ {q}) \in Nat
    BY SweptType, FS_RemoveElement, FS_CardinalityType
  <2>5. /\ Cardinality(Others(q)') \in Nat
        /\ Cardinality(Swept(q) \ {q}) <= Cardinality(Others(q)')
    BY <2>2, OthersFinite, FS_Subset, FS_CardinalityType
  <2>6. Cardinality(Swept(q)) >= Limit[q] /\ Cardinality(Swept(q)) \in Nat
    BY <2>1, SweptType DEF Full
  <2> QED
    BY <2>3, <2>4, <2>5, <2>6, BucketLimit
<1> QED
  BY <1>2, <1>3, <1>4, <1>5, StepCases

(* A request answered 429 met a full window of other requests, its own     *)
(* resent script set aside.                                                *)
THEOREM DeniedJustifiedAlways == Spec => []DeniedJustified
<1>1. Init => DeniedJustified
  BY DEF Init, DeniedJustified
<1> QED
  BY <1>1, StepDeniedJustified, KeepInvAlways, TypeInvAlways, PTL DEF Spec
-----------------------------------------------------------------------------
(***************************************************************************)
(* Retry-After is long enough: nothing is recorded in the bucket while the *)
(* wait counts, so its key expires no later than when it was told.         *)
(***************************************************************************)
RetryInv == \A r \in Requests : req[r].until > 0 => expiry[Bucket[r]] <= req[r].until

LEMMA StepRetryInv == TypeInv /\ RetryInv /\ [Next]_vars => RetryInv'
<1> SUFFICES ASSUME TypeInv, RetryInv, [Next]_vars, NEW q \in Requests,
                    req'[q].until > 0
             PROVE  expiry'[Bucket[q]] <= req'[q].until
  BY DEF RetryInv
<1>1. CASE UNCHANGED vars \/ Tick
  BY <1>1 DEF vars, Tick, RetryInv
<1>2. ASSUME NEW r \in Requests, RequestMoves(r)
      PROVE  expiry'[Bucket[q]] <= req'[q].until
  BY <1>2, MoveEffect DEF RetryInv
<1>3. ASSUME NEW r \in Requests, NEW step \in {"limited", "allowed", "resend"},
             ScriptRuns(r, step)
      PROVE  expiry'[Bucket[q]] <= req'[q].until
  <2>1. expiry' = IF Full(r) THEN expiry
                  ELSE [expiry EXCEPT ![Bucket[r]] = now + Window]
    BY <1>3 DEF ScriptRuns, Script
  <2>2. CASE q = r
    <3>1. step = "limited"
      BY <1>3, <2>2, ScriptEffect
    <3> QED
      BY <1>3, <2>1, <2>2, <3>1, ScriptEffect DEF ScriptRuns
  <2>3. CASE q # r
    <3>1. /\ Full(r) \/ Bucket[q] # Bucket[r]
          /\ req'[q].until = req[q].until
      BY <1>3, <2>3, ScriptEffect
    <3>2. expiry'[Bucket[q]] = expiry[Bucket[q]]
      BY <2>1, <3>1, BucketLimit DEF TypeInv, TypeOK
    <3> QED
      BY <3>1, <3>2 DEF RetryInv
  <2> QED
    BY <2>2, <2>3
<1> QED
  BY <1>1, <1>2, <1>3, StepCases

(* Whoever waits as long as Retry-After says, while nobody else of the     *)
(* bucket is let through, finds an empty window; at the moment the wait and*)
(* the key end together, what is left of it is a window old.               *)
THEOREM RetryAfterEnoughAlways == Spec => []RetryAfterEnough
<1>1. Init => RetryInv
  BY DEF Init, RetryInv
<1>2. TypeInv /\ KeepInv /\ RetryInv => RetryAfterEnough
  <2> SUFFICES ASSUME TypeInv, KeepInv, RetryInv, NEW r \in Requests,
                      req[r].until > 0, now >= req[r].until,
                      NEW x \in Members(Bucket[r])
               PROVE  /\ now = req[r].until
                      /\ req[x].stamp + Window <= now + Early
    BY DEF RetryAfterEnough
  <2>1. /\ expiry[Bucket[r]] <= req[r].until
        /\ expiry[Bucket[r]] \in Nat /\ req[r].until \in Nat /\ now \in Nat
    BY BucketLimit DEF RetryInv, TypeInv, TypeOK, Request
  <2>2. now <= expiry[Bucket[r]] /\ x \in zset[Bucket[r]]
    BY DEF Members
  <2>3. now = expiry[Bucket[r]] /\ now = req[r].until
    BY <2>1, <2>2
  <2> QED
    BY <2>2, <2>3, BucketLimit DEF KeepInv
<1> QED
  BY <1>1, <1>2, StepRetryInv, KeepInvAlways, TypeInvAlways, PTL DEF Spec
=============================================================================
