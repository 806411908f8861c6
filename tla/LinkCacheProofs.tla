-------------------------- MODULE LinkCacheProofs --------------------------
(***************************************************************************)
(* Proofs about LinkCache, for every value of its constants.               *)
(***************************************************************************)
EXTENDS LinkCache, TLAPS

(* The default TTL in ticks, and the TTL as a number of ticks.             *)
Default == DefaultTTL * Second
Ticks(n) == n * Second

LEMMA DefaultType == Default \in Nat
  BY TimeAssumption DEF Default

LEMMA TicksBound ==
    ASSUME NEW n \in Nat, n <= DefaultTTL
    PROVE  Ticks(n) \in Nat /\ Ticks(n) <= Default
  BY TimeAssumption, SMT DEF Ticks, Default

LEMMA TicksOfQuotient ==
    ASSUME NEW d \in Nat
    PROVE  d \div Second \in Nat /\ Ticks(d \div Second) <= d
  BY TimeAssumption, SMT DEF Ticks

(* calculate_cache_ttl: never above the default, never beyond expires_at.  *)
LEMMA TTLBound ==
    ASSUME NEW x \in Expiry, now \in Nat
    PROVE  /\ TTL(x) \in Nat
           /\ TTL(x) <= DefaultTTL
           /\ x # Never /\ now < x => now + Ticks(TTL(x)) <= x
<1>1. CASE x = Never
  BY <1>1, TimeAssumption DEF TTL
<1>2. CASE x # Never
  <2>1. x \in Nat
    BY <1>2, InstantsAssumption DEF Expiry
  <2>2. CASE x <= now
    BY <1>2, <2>1, <2>2, TimeAssumption DEF TTL
  <2>3. CASE now < x
    <3> DEFINE d == x - now
               n == d \div Second
    <3>1. d \in Nat
      BY <2>1, <2>3
    <3>2. n \in Nat /\ Ticks(n) \in Nat /\ Ticks(n) <= d
      BY <3>1, TicksOfQuotient, TimeAssumption DEF Ticks
    <3>3. TTL(x) = LeastOf(DefaultTTL, n)
      BY <1>2, <2>1, <2>3 DEF TTL
    <3> HIDE DEF n
    <3>4. CASE DefaultTTL <= n
      <4>1. Ticks(DefaultTTL) <= Ticks(n) /\ Ticks(DefaultTTL) \in Nat
        BY <3>2, <3>4, TimeAssumption, SMT DEF Ticks
      <4> QED
        BY <2>1, <2>3, <3>2, <3>3, <3>4, <4>1, TimeAssumption DEF LeastOf
    <3>5. CASE ~(DefaultTTL <= n)
      BY <2>1, <2>3, <3>2, <3>3, <3>5, TimeAssumption DEF LeastOf
    <3> QED
      BY <3>4, <3>5
  <2> QED
    BY <2>1, <2>2, <2>3
<1> QED
  BY <1>1, <1>2

LEMMA MetaFacts ==
    ASSUME NEW m \in Meta
    PROVE  m # NoLink /\ (m.expires # Never => m.expires \in Nat)
<1>1. m.id \in 1 .. MaxLinks /\ m.expires \in Expiry
  BY DEF Meta
<1>2. m.id # NoLink.id
  BY <1>1, LinksAssumption DEF NoLink
<1> QED
  BY <1>1, <1>2, InstantsAssumption DEF Expiry
-----------------------------------------------------------------------------
(***************************************************************************)
(* Type correctness.  Beyond TypeOK, a loaded PATCH knows the id of a link *)
(* and a request past its lookup holds the metadata of one.                *)
(***************************************************************************)
Holding == {"check", "judge", "fill", "purge", "delete", "served"}

TypeInv ==
    /\ TypeOK
    /\ \A e \in Editors : edit[e].step = "loaded" => edit[e].id # 0
    /\ \A r \in Requests : req[r].step \in Holding => req[r].meta \in Meta

LEMMA InitTypeInv == Init => TypeInv
<1> SUFFICES ASSUME Init PROVE TypeInv
  OBVIOUS
<1>1. made \in 0 .. MaxLinks /\ link.id <= made
  BY LinksAssumption DEF Init, NoLink
<1>2. req \in [Requests -> Request]
  BY DEF Init, Idle, Request, Steps
<1>3. edit \in [Editors -> Edit]
  BY LinksAssumption DEF Init, Edit, Expiry
<1> QED
  BY <1>1, <1>2, <1>3 DEF Init, Idle, TypeInv, TypeOK, Holding

(* A request's record is replaced by one of the right type.                *)
LEMMA ReqType ==
    ASSUME TypeInv, NEW r \in Requests, NEW q \in Request,
           q.step \in Holding => q.meta \in Meta,
           req' = [req EXCEPT ![r] = q]
    PROVE  /\ req' \in [Requests -> Request]
           /\ \A s \in Requests : req'[s].step \in Holding => req'[s].meta \in Meta
  BY DEF TypeInv, TypeOK

LEMMA RequestStepType ==
    ASSUME TypeInv, NEW r \in Requests, RequestStep(r)
    PROVE  TypeInv'
<1> DEFINE q == req'[r]
<1>1. req[r] \in Request /\ now \in Nat /\ link \in Meta \cup {NoLink}
  BY DEF TypeInv, TypeOK
<1>2. /\ req' = [req EXCEPT ![r] = q]
      /\ q \in Request
      /\ q.step \in Holding => q.meta \in Meta
  <2>1. CASE Get(r)
    <3>1. Present => entry.meta \in Meta
      BY DEF Present, TypeInv, TypeOK, Entry
    <3> QED
      BY <1>1, <2>1, <3>1 DEF Get, TypeInv, TypeOK, Request, Steps, Holding
  <2>2. CASE Judge(r)
    <3>1. ~IsExpired(req[r].meta) => TTL(req[r].meta.expires) \in Nat
      BY <1>1, <2>2, TTLBound DEF Judge, TypeInv, Holding, Meta
    <3> QED
      BY <1>1, <2>2, <3>1 DEF Judge, Step, TypeInv, TypeOK, Request, Steps, Holding
  <2>3. CASE Load(r)
    BY <1>1, <2>3 DEF Load, Answer, Idle, TypeInv, TypeOK, Request, Steps, Holding
  <2>4. CASE Drop(r) \/ Purge(r) \/ LazyDelete(r)
    BY <1>1, <2>4
    DEF Drop, Purge, LazyDelete, Step, Answer, Idle, TypeInv, TypeOK,
        Request, Steps, Holding
  <2>6. ASSUME NEW at \in Nat, Serve(r, at), req[r].step \in Holding
        PROVE  /\ req' = [req EXCEPT ![r] = q]
               /\ q \in Request
               /\ q.step \in Holding => q.meta \in Meta
    <3> DEFINE z == [Idle EXCEPT !.step = "served", !.meta = req[r].meta, !.at = at]
    <3>1. req[r].meta \in Meta
      BY <2>6 DEF TypeInv
    <3>2. z \in Request /\ z.meta \in Meta
      BY <2>6, <3>1 DEF Idle, Request, Steps
    <3>3. req' = [req EXCEPT ![r] = z]
      BY <2>6 DEF Serve
    <3> HIDE DEF z
    <3> QED
      BY <3>2, <3>3 DEF TypeInv, TypeOK
  <2>7. CASE Check(r)
    <3>1. CASE IsExpired(req[r].meta)
      BY <1>1, <2>7, <3>1
      DEF Check, Step, TypeInv, TypeOK, Request, Steps, Holding
    <3>2. CASE ~IsExpired(req[r].meta)
      BY <1>1, <2>6, <2>7, <3>2 DEF Check, Holding
    <3> QED
      BY <3>1, <3>2
  <2>8. CASE Fill(r)
    <3>1. req[r].at \in Nat
      BY <1>1 DEF Request
    <3> QED
      BY <2>6, <2>8, <3>1 DEF Fill, Holding
  <2>5. CASE RedisFails(r) \/ DatabaseFails(r)
    BY <1>1, <2>5
    DEF RedisFails, DatabaseFails, Answer, Idle, TypeInv, TypeOK, Request, Steps, Holding
  <2> QED
    BY <2>1, <2>2, <2>3, <2>4, <2>5, <2>7, <2>8 DEF RequestStep
<1>3. /\ link' \in Meta \cup {NoLink} /\ link'.id <= made
      /\ retired' \subseteq Retired
      /\ made' = made /\ now' = now /\ edit' = edit /\ saved' = saved
  <2>1. ASSUME NEW id, DeleteRow(id)
        PROVE  /\ link' \in Meta \cup {NoLink} /\ link'.id <= made
               /\ retired' \subseteq Retired
    BY <1>1, <2>1, LinksAssumption
    DEF DeleteRow, Retire, Retired, NoLink, TypeInv, TypeOK
  <2>2. CASE LazyDelete(r) \/ DatabaseFails(r)
    BY <1>1, <2>1, <2>2 DEF LazyDelete, DatabaseFails, TypeInv, TypeOK
  <2>3. CASE /\ UNCHANGED <<now, link, made, saved, edit, retired>>
    BY <2>3 DEF TypeInv, TypeOK
  <2> QED
    BY <2>2, <2>3
    DEF RequestStep, Get, Check, Drop, Load, Judge, Fill, Purge, RedisFails
<1>4. entry' \in Entry \cup {NoEntry}
  <2>1. req[r].step = "fill" => Filled(r) \in Entry \cup {NoEntry}
    <3>1. ASSUME req[r].step = "fill"
          PROVE  req[r].meta \in Meta /\ now + req[r].ttl * Second \in Nat
      BY <1>1, <3>1, TimeAssumption DEF TypeInv, Holding, Request
    <3> QED
      BY <3>1 DEF Filled, Entry
  <2>2. entry \in Entry \cup {NoEntry}
    BY DEF TypeInv, TypeOK
  <2> QED
    BY <2>1, <2>2
    DEF RequestStep, Get, Check, Drop, Load, Judge, Fill, Purge, LazyDelete,
        RedisFails, DatabaseFails
<1> HIDE DEF q
<1> QED
  BY <1>2, <1>3, <1>4, ReqType DEF TypeInv, TypeOK

LEMMA StepTypeInv == TypeInv /\ [Next]_vars => TypeInv'
<1> SUFFICES ASSUME TypeInv, [Next]_vars PROVE TypeInv'
  OBVIOUS
<1>1. ASSUME NEW x \in Expiry, Create(x) PROVE TypeInv'
  BY <1>1, LinksAssumption DEF Create, TypeInv, TypeOK, Meta, NoLink
<1>2. CASE Delete
  BY <1>2 DEF Delete, Retire, Retired, TypeInv, TypeOK, NoLink
<1>3. ASSUME NEW e \in Editors, NEW x \in Expiry, LoadForUpdate(e, x)
      PROVE  TypeInv'
  <2>1. link \in Meta
    BY <1>3 DEF LoadForUpdate, TypeInv, TypeOK
  <2> DEFINE new == [step |-> "loaded", id |-> link.id,
                     expires |-> link.expires, new |-> x]
  <2>2. new \in Edit /\ new.id # 0 /\ new.step = "loaded"
    BY <2>1, LinksAssumption DEF Edit, Meta
  <2>3. edit' = [edit EXCEPT ![e] = new]
    BY <1>3 DEF LoadForUpdate
  <2> HIDE DEF new
  <2> QED
    BY <1>3, <2>2, <2>3 DEF LoadForUpdate, TypeInv, TypeOK
<1>4. ASSUME NEW e \in Editors, CommitUpdate(e) PROVE TypeInv'
  <2>1. edit[e] \in Edit /\ edit[e].id # 0
    BY <1>4 DEF CommitUpdate, TypeInv, TypeOK
  <2>2. /\ edit' \in [Editors -> Edit]
        /\ \A f \in Editors : edit'[f].step = "loaded" => edit'[f].id # 0
    BY <1>4, <2>1 DEF CommitUpdate, TypeInv, TypeOK, Edit
  <2>3. /\ link' \in Meta \cup {NoLink} /\ link'.id <= made
        /\ retired' \subseteq Retired
    <3>1. CASE link.id = edit[e].id /\ edit[e].new # edit[e].expires
      <4>1. link \in Meta /\ edit[e].new \in Expiry
        BY <2>1, <3>1 DEF TypeInv, TypeOK, NoLink, Edit
      <4> QED
        BY <1>4, <3>1, <4>1
        DEF CommitUpdate, Retire, Retired, TypeInv, TypeOK, Meta
    <3>2. CASE ~(link.id = edit[e].id /\ edit[e].new # edit[e].expires)
      BY <1>4, <3>2 DEF CommitUpdate, TypeInv, TypeOK
    <3> QED
      BY <3>1, <3>2
  <2> QED
    BY <1>4, <2>2, <2>3 DEF CommitUpdate, TypeInv, TypeOK
<1>5. ASSUME NEW r \in Requests, RequestStep(r) PROVE TypeInv'
  BY <1>5, RequestStepType
<1>6. CASE SaveSnapshot \/ RestartRedis
  BY <1>6 DEF SaveSnapshot, RestartRedis, TypeInv, TypeOK
<1>7. CASE Tick
  BY <1>7 DEF Tick, TypeInv, TypeOK
<1>8. CASE UNCHANGED vars
  BY <1>8 DEF vars, TypeInv, TypeOK
<1> QED
  BY <1>1, <1>2, <1>3, <1>4, <1>5, <1>6, <1>7, <1>8 DEF Next, OwnerStep

(* Every variable keeps its type, in every instance.                       *)
THEOREM TypeCorrect == Spec => []TypeOK
<1>1. TypeInv => TypeOK
  BY DEF TypeInv
<1> QED
  BY <1>1, InitTypeInv, StepTypeInv, PTL DEF Spec

-----------------------------------------------------------------------------
(***************************************************************************)
(* What the cache and the requests hold was the row not long ago.          *)
(***************************************************************************)
(* m is the row, or was it until at most k ticks before t.                 *)
Fresh(m, t, k) ==
    \/ m = link
    \/ \E p \in retired : p.meta = m /\ p.at + k >= t

(* A copy of the row with its end: set at most Default ticks ahead, from a *)
(* row at most MaxDelay ticks old, for at most its own remaining life.     *)
EntryOK(e) == e # NoEntry =>
    /\ e.until <= now + Default
    /\ Fresh(e.meta, e.until, Default + MaxDelay)
    /\ e.meta.expires # Never => e.until <= e.meta.expires + MaxDelay

InHand(q) ==
    /\ q.step = "check" => Fresh(q.meta, q.start, Default + MaxDelay)
    /\ q.step \in {"judge", "fill", "purge", "delete"} =>
          Fresh(q.meta, q.start, 0)
    /\ q.step = "served" => Fresh(q.meta, q.at, Staleness)

Timed(q) ==
    /\ q.step \notin Answers \cup {"new"} =>
          q.start <= now /\ now <= q.start + MaxDelay
    /\ q.step \in {"fill", "served"} =>
          /\ q.at <= now
          /\ q.meta.expires # Never => q.at < q.meta.expires
    /\ q.step = "fill" =>
          /\ q.start <= q.at
          /\ q.ttl <= DefaultTTL
          /\ q.meta.expires # Never => q.at + Ticks(q.ttl) <= q.meta.expires
    /\ q.step \in {"purge", "delete"} => IsExpired(q.meta)

CacheInv ==
    /\ EntryOK(entry) /\ EntryOK(saved)
    /\ \A r \in Requests : InHand(req[r]) /\ Timed(req[r])

(* A step leaves the row alone, creates one, or replaces it and says so.   *)
RowStep ==
    /\ now' = now
    /\ \/ UNCHANGED <<link, retired>>
       \/ link = NoLink /\ UNCHANGED retired
       \/ \E by \in {"owner", "redirect"} : Retire(by)

LEMMA FreshKept ==
    ASSUME TypeOK, RowStep, NEW m \in Meta, NEW t \in Nat, NEW k \in Nat,
           Fresh(m, t, k), t <= now + k
    PROVE  Fresh(m, t, k)'
<1>1. now \in Nat /\ m # NoLink
  BY MetaFacts DEF TypeOK
<1>2. CASE \E p \in retired : p.meta = m /\ p.at + k >= t
  <2>1. retired \subseteq retired'
    BY DEF RowStep, Retire
  <2> QED
    BY <1>2, <2>1 DEF Fresh
<1>3. CASE m = link /\ UNCHANGED <<link, retired>>
  BY <1>3 DEF Fresh
<1>4. CASE m = link /\ \E by \in {"owner", "redirect"} : Retire(by)
  <2>1. PICK by \in {"owner", "redirect"} : Retire(by)
    BY <1>4
  <2>2. [meta |-> m, by |-> by, at |-> now] \in retired'
    BY <1>4, <2>1 DEF Retire
  <2> QED
    BY <1>1, <2>2 DEF Fresh
<1> QED
  BY <1>1, <1>2, <1>3, <1>4 DEF Fresh, RowStep

LEMMA EntryKept ==
    ASSUME TypeOK, RowStep, NEW e \in Entry \cup {NoEntry}, EntryOK(e)
    PROVE  EntryOK(e)'
<1>1. CASE e = NoEntry
  BY <1>1 DEF EntryOK
<1>2. CASE e # NoEntry
  <2>1. /\ e.meta \in Meta /\ e.until \in Nat /\ now \in Nat
        /\ Default + MaxDelay \in Nat /\ e.until <= now + (Default + MaxDelay)
    BY <1>2, DefaultType, TimeAssumption DEF TypeOK, EntryOK, Entry
  <2>2. Fresh(e.meta, e.until, Default + MaxDelay)'
    BY <1>2, <2>1, FreshKept DEF EntryOK
  <2> QED
    BY <1>2, <2>2 DEF EntryOK, RowStep
<1> QED
  BY <1>1, <1>2

LEMMA RequestKept ==
    ASSUME TypeOK, RowStep, NEW q \in Request,
           q.step \in Holding => q.meta \in Meta, InHand(q), Timed(q)
    PROVE  InHand(q)' /\ Timed(q)'
<1>1. /\ now \in Nat /\ q.start \in Nat /\ q.at \in Nat /\ now' = now
      /\ Default \in Nat /\ MaxDelay \in Nat /\ Staleness \in Nat
      /\ Default + MaxDelay \in Nat
  BY DefaultType, TimeAssumption
  DEF TypeOK, Request, RowStep, Staleness, Default
<1>2. Timed(q)'
  BY <1>1 DEF Timed, IsExpired
<1>3. q.step \in {"check", "judge", "fill", "purge", "delete"} =>
          q.start <= now
  BY DEF Timed, Answers
<1>4. q.step = "served" => q.at <= now
  BY DEF Timed
<1>5. InHand(q)'
  <2>1. CASE q.step = "check"
    BY <1>1, <1>3, <2>1, FreshKept DEF InHand, Holding
  <2>2. CASE q.step \in {"judge", "fill", "purge", "delete"}
    BY <1>1, <1>3, <2>2, FreshKept DEF InHand, Holding
  <2>3. CASE q.step = "served"
    BY <1>1, <1>4, <2>3, FreshKept DEF InHand, Holding
  <2> QED
    BY <2>1, <2>2, <2>3 DEF InHand
<1> QED
  BY <1>2, <1>5

(* All but one request and the entry are kept by a step of that request.   *)
LEMMA CacheKept ==
    ASSUME TypeInv, CacheInv, RowStep, saved' = saved, EntryOK(entry)',
           NEW r \in Requests, NEW q, req' = [req EXCEPT ![r] = q],
           InHand(q)', Timed(q)'
    PROVE  CacheInv'
<1>1. ASSUME NEW s \in Requests PROVE InHand(req[s])' /\ Timed(req[s])'
  <2>1. CASE s = r
    <3>1. req'[s] = q
      BY <2>1 DEF TypeInv, TypeOK
    <3> QED
      BY <3>1 DEF InHand, Timed, Fresh, IsExpired
  <2>2. CASE s # r
    <3>1. PICK z : z = req[s]
      OBVIOUS
    <3>2. req'[s] = z
      BY <2>2, <3>1 DEF TypeInv, TypeOK
    <3>3. z \in Request /\ (z.step \in Holding => z.meta \in Meta)
      BY <3>1 DEF TypeInv, TypeOK
    <3>4. InHand(z) /\ Timed(z)
      BY <3>1 DEF CacheInv
    <3>5. InHand(z)' /\ Timed(z)'
      BY <3>3, <3>4, RequestKept DEF TypeInv
    <3> QED
      BY <3>2, <3>5 DEF InHand, Timed, Fresh, IsExpired
  <2> QED
    BY <2>1, <2>2
<1>2. EntryOK(saved)'
  <2>1. PICK e : e = saved
    OBVIOUS
  <2>2. e \in Entry \cup {NoEntry} /\ EntryOK(e)
    BY <2>1 DEF TypeInv, TypeOK, CacheInv
  <2>3. EntryOK(e)'
    BY <2>2, EntryKept DEF TypeInv
  <2> QED
    BY <2>1, <2>3 DEF EntryOK, Fresh
<1> QED
  BY <1>1, <1>2 DEF CacheInv

LEMMA InitCacheInv == Init => CacheInv
  BY DEF Init, Idle, CacheInv, EntryOK, InHand, Timed, Answers

(* The steps of a request.                                                 *)
LEMMA RequestStepCacheInv ==
    ASSUME TypeInv, TypeInv', CacheInv, NEW r \in Requests, RequestStep(r)
    PROVE  CacheInv'
<1>1. PICK p : p = req[r]
  OBVIOUS
<1>2. PICK q : q = req'[r]
  OBVIOUS
<1>3. /\ p \in Request /\ (p.step \in Holding => p.meta \in Meta)
      /\ q \in Request /\ (q.step \in Holding => q.meta \in Meta)
      /\ InHand(p) /\ Timed(p)
  BY <1>1, <1>2 DEF TypeInv, TypeOK, CacheInv
<1>4. req' = [req EXCEPT ![r] = q]
  BY <1>2
  DEF RequestStep, Get, Check, Drop, Load, Judge, Fill, Purge, LazyDelete,
      RedisFails, DatabaseFails, Step, Answer, Serve, TypeInv, TypeOK
<1>5. /\ now \in Nat /\ Default \in Nat /\ MaxDelay \in Nat
      /\ p.start \in Nat /\ p.at \in Nat /\ p.ttl \in Nat
      /\ Staleness = Default + 2 * MaxDelay
  BY <1>3, DefaultType, TimeAssumption
  DEF TypeInv, TypeOK, Request, Staleness, Default
<1>6. EntryOK(entry)
  BY DEF CacheInv
<1>7. RowStep /\ saved' = saved
  <2>1. ASSUME NEW id, DeleteRow(id)
        PROVE  UNCHANGED <<link, retired>> \/ Retire("redirect")
    BY <2>1 DEF DeleteRow
  <2>2. CASE LazyDelete(r) \/ DatabaseFails(r)
    BY <2>1, <2>2 DEF LazyDelete, DatabaseFails, RowStep
  <2>3. CASE UNCHANGED <<now, link, saved, retired>>
    BY <2>3 DEF RowStep
  <2> QED
    BY <2>2, <2>3
    DEF RequestStep, Get, Check, Drop, Load, Judge, Fill, Purge, RedisFails
<1>8. q.step \in {"gone", "missing", "failed"} => InHand(q)' /\ Timed(q)'
  BY DEF InHand, Timed, Answers
<1>9. UNCHANGED entry \/ entry' = NoEntry => EntryOK(entry)'
  <2>1. PICK e : e = entry
    OBVIOUS
  <2>2. e \in Entry \cup {NoEntry} /\ EntryOK(e)
    BY <1>6, <2>1 DEF TypeInv, TypeOK
  <2>3. EntryOK(e)'
    BY <1>7, <2>2, EntryKept DEF TypeInv
  <2> QED
    BY <2>1, <2>3 DEF EntryOK, Fresh
<1> DEFINE Same == UNCHANGED <<now, link, retired>>
<1>10. ASSUME p.step = "fill", Same, entry' = Filled(r)
       PROVE  EntryOK(entry)'
  <2>1. CASE p.ttl = 0
    BY <1>1, <1>10, <2>1 DEF Filled, EntryOK
  <2>2. CASE p.ttl # 0
    <3> DEFINE until == now + Ticks(p.ttl)
    <3>1. Ticks(p.ttl) \in Nat /\ Ticks(p.ttl) <= Default
      BY <1>3, <1>5, <1>10, TicksBound DEF Timed
    <3>2. p.start <= now /\ now <= p.start + MaxDelay /\ p.start <= p.at
      BY <1>3, <1>10 DEF Timed, Answers
    <3>3. until \in Nat /\ until <= now + Default
      BY <1>5, <3>1
    <3>4. Fresh(p.meta, until, Default + MaxDelay)
      <4>1. Fresh(p.meta, p.start, 0)
        BY <1>3, <1>10 DEF InHand
      <4>2. ASSUME NEW x \in retired, x.at + 0 >= p.start
            PROVE  x.at + (Default + MaxDelay) >= until
        <5>1. x.at \in Nat
          BY DEF TypeInv, TypeOK, Retired
        <5> QED
          BY <1>5, <3>1, <3>2, <4>2, <5>1
      <4> QED
        BY <4>1, <4>2 DEF Fresh
    <3>5. p.meta.expires # Never => until <= p.meta.expires + MaxDelay
      <4> SUFFICES ASSUME p.meta.expires # Never
                   PROVE  until <= p.meta.expires + MaxDelay
        OBVIOUS
      <4>1. p.meta.expires \in Nat
        BY <1>3, <1>10, MetaFacts DEF Holding
      <4>2. p.at + Ticks(p.ttl) <= p.meta.expires
        BY <1>3, <1>10 DEF Timed
      <4> QED
        BY <1>5, <3>1, <3>2, <4>1, <4>2
    <3>6. entry' = [meta |-> p.meta, until |-> until]
      BY <1>1, <1>10, <2>2 DEF Filled, Ticks
    <3> HIDE DEF until
    <3> QED
      BY <1>10, <3>3, <3>4, <3>5, <3>6 DEF EntryOK, Fresh
  <2> QED
    BY <2>1, <2>2
<1>11. ASSUME Get(r)
       PROVE  EntryOK(entry)' /\ InHand(q)' /\ Timed(q)'
  <2>1. q = [p EXCEPT !.step = IF Present THEN "check" ELSE "load",
                      !.start = now,
                      !.meta = IF Present THEN entry.meta ELSE @]
    BY <1>1, <1>2, <1>11 DEF Get, TypeInv, TypeOK
  <2>2. /\ q.start = now
        /\ q.step = IF Present THEN "check" ELSE "load"
        /\ Present => q.meta = entry.meta
    BY <1>3, <2>1 DEF Request
  <2>3. Present => Fresh(q.meta, q.start, Default + MaxDelay)
    <3> SUFFICES ASSUME Present PROVE Fresh(q.meta, now, Default + MaxDelay)
      BY <2>2
    <3>1. /\ entry # NoEntry /\ now <= entry.until
          /\ Fresh(q.meta, entry.until, Default + MaxDelay)
      BY <1>6, <2>2 DEF Present, EntryOK
    <3>2. entry.until \in Nat
      BY <3>1 DEF TypeInv, TypeOK, Entry
    <3>3. \A x \in retired : x.at \in Nat
      BY DEF TypeInv, TypeOK, Retired
    <3>4. ASSUME NEW x \in retired,
                 x.at + (Default + MaxDelay) >= entry.until
          PROVE  x.at + (Default + MaxDelay) >= now
      BY <1>5, <3>1, <3>2, <3>3, <3>4
    <3> QED
      BY <3>1, <3>4 DEF Fresh
  <2>4. InHand(q)'
    BY <1>11, <2>2, <2>3 DEF Get, InHand, Fresh
  <2>5. Timed(q)'
    BY <1>5, <1>11, <2>2 DEF Get, Timed, Answers
  <2> QED
    BY <1>9, <1>11, <2>4, <2>5 DEF Get
<1>12. ASSUME Check(r)
       PROVE  EntryOK(entry)' /\ InHand(q)' /\ Timed(q)'
  <2>1. CASE IsExpired(p.meta)
    <3>1. q.step = "drop" /\ q.start = p.start /\ p.step = "check"
      BY <1>1, <1>2, <1>3, <1>12, <2>1
      DEF Check, Step, TypeInv, TypeOK, Request
    <3> QED
      BY <1>3, <1>9, <1>12, <3>1 DEF Check, InHand, Timed, Answers
  <2>2. CASE ~IsExpired(p.meta)
    <3>1. /\ q.step = "served" /\ q.at = now /\ q.meta = p.meta
          /\ p.step = "check"
      <4>1. p.step = "check" /\ Serve(r, now)
        BY <1>1, <1>12, <2>2 DEF Check
      <4>2. q = [Idle EXCEPT !.step = "served", !.meta = p.meta, !.at = now]
        BY <1>1, <1>2, <4>1 DEF Serve, TypeInv, TypeOK
      <4> QED
        BY <4>1, <4>2 DEF Idle
    <3>2. p.start <= now /\ now <= p.start + MaxDelay
      BY <1>3, <3>1 DEF Timed, Answers
    <3>3. Fresh(p.meta, p.start, Default + MaxDelay)
      BY <1>3, <3>1 DEF InHand
    <3>4. Fresh(p.meta, now, Staleness)
      <4>1. ASSUME NEW x \in retired,
                   x.at + (Default + MaxDelay) >= p.start
            PROVE  x.at + Staleness >= now
        <5>1. x.at \in Nat
          BY DEF TypeInv, TypeOK, Retired
        <5> QED
          BY <1>5, <3>2, <4>1, <5>1
      <4> QED
        BY <3>3, <4>1 DEF Fresh
    <3>5. p.meta.expires # Never => now < p.meta.expires
      BY <1>3, <1>5, <2>2, <3>1, MetaFacts DEF IsExpired, Holding
    <3>6. Timed(q)'
      BY <1>5, <1>12, <3>1, <3>5 DEF Check, Timed, Answers
    <3>7. InHand(q)'
      BY <1>12, <3>1, <3>4 DEF Check, InHand, Fresh
    <3> QED
      BY <1>9, <1>12, <3>6, <3>7 DEF Check
  <2> QED
    BY <2>1, <2>2
<1>13. ASSUME Load(r)
       PROVE  EntryOK(entry)' /\ InHand(q)' /\ Timed(q)'
  <2>1. CASE link = NoLink
    <3>1. q.step = "missing"
      BY <1>1, <1>2, <1>3, <1>13, <2>1
      DEF Load, Answer, Idle, TypeInv, TypeOK, Request
    <3> QED
      BY <1>8, <1>9, <1>13, <3>1 DEF Load
  <2>2. CASE link # NoLink
    <3>1. /\ q.step = "judge" /\ q.meta = link /\ q.start = p.start
          /\ p.step = "load"
      BY <1>1, <1>2, <1>3, <1>13, <2>2 DEF Load, TypeInv, TypeOK, Request
    <3>2. InHand(q)'
      BY <1>13, <3>1 DEF Load, InHand, Fresh
    <3>3. Timed(q)'
      BY <1>3, <1>13, <3>1 DEF Load, Timed, Answers
    <3> QED
      BY <1>9, <1>13, <3>2, <3>3 DEF Load
  <2> QED
    BY <2>1, <2>2
<1>14. ASSUME Judge(r)
       PROVE  EntryOK(entry)' /\ InHand(q)' /\ Timed(q)'
  <2>1. CASE IsExpired(p.meta)
    <3>1. /\ q.step = "purge" /\ q.meta = p.meta /\ q.start = p.start
          /\ p.step = "judge"
      BY <1>1, <1>2, <1>3, <1>14, <2>1
      DEF Judge, Step, TypeInv, TypeOK, Request
    <3>2. InHand(q)'
      BY <1>3, <1>14, <3>1 DEF Judge, InHand, Fresh
    <3>3. Timed(q)'
      BY <1>3, <1>14, <2>1, <3>1 DEF Judge, Timed, Answers, IsExpired
    <3> QED
      BY <1>9, <1>14, <3>2, <3>3 DEF Judge
  <2>2. CASE ~IsExpired(p.meta)
    <3> DEFINE t == TTL(p.meta.expires)
    <3>1. /\ q.step = "fill" /\ q.meta = p.meta /\ q.start = p.start
          /\ q.at = now /\ q.ttl = t /\ p.step = "judge"
      BY <1>1, <1>2, <1>3, <1>14, <2>2
      DEF Judge, TypeInv, TypeOK, Request
    <3>2. p.meta \in Meta /\ p.meta.expires \in Expiry
      BY <1>3, <3>1 DEF Holding, Meta
    <3>3. /\ t <= DefaultTTL
          /\ p.meta.expires # Never /\ now < p.meta.expires =>
                now + Ticks(t) <= p.meta.expires
      BY <1>5, <3>2, TTLBound
    <3> HIDE DEF t
    <3>4. p.meta.expires # Never => now < p.meta.expires
      BY <1>5, <2>2, <3>2, MetaFacts DEF IsExpired
    <3>5. InHand(q)'
      BY <1>3, <1>14, <3>1 DEF Judge, InHand, Fresh
    <3>6. Timed(q)'
      BY <1>3, <1>5, <1>14, <3>1, <3>3, <3>4 DEF Judge, Timed, Answers
    <3> QED
      BY <1>9, <1>14, <3>5, <3>6 DEF Judge
  <2> QED
    BY <2>1, <2>2
<1>15. ASSUME Fill(r)
       PROVE  EntryOK(entry)' /\ InHand(q)' /\ Timed(q)'
  <2>1. /\ q.step = "served" /\ q.meta = p.meta /\ q.at = p.at
        /\ p.step = "fill"
    BY <1>1, <1>2, <1>3, <1>15 DEF Fill, Serve, Idle, TypeInv, TypeOK, Request
  <2>2. Fresh(p.meta, p.at, Staleness)
    <3>1. Fresh(p.meta, p.start, 0)
      BY <1>3, <2>1 DEF InHand
    <3>2. p.at <= now /\ now <= p.start + MaxDelay
      BY <1>3, <2>1 DEF Timed, Answers
    <3>3. ASSUME NEW x \in retired, x.at + 0 >= p.start
          PROVE  x.at + Staleness >= p.at
      <4>1. x.at \in Nat
        BY DEF TypeInv, TypeOK, Retired
      <4> QED
        BY <1>5, <3>2, <3>3, <4>1
    <3> QED
      BY <3>1, <3>3 DEF Fresh
  <2>3. InHand(q)'
    BY <1>15, <2>1, <2>2 DEF Fill, InHand, Fresh
  <2>4. Timed(q)'
    BY <1>3, <1>15, <2>1 DEF Fill, Timed, Answers
  <2> QED
    BY <1>10, <1>15, <2>1, <2>3, <2>4 DEF Fill
<1>16. ASSUME Drop(r)
       PROVE  EntryOK(entry)' /\ InHand(q)' /\ Timed(q)'
  <2>1. q.step = "load" /\ q.start = p.start /\ p.step = "drop"
    BY <1>1, <1>2, <1>3, <1>16 DEF Drop, Step, TypeInv, TypeOK, Request
  <2> QED
    BY <1>3, <1>9, <1>16, <2>1 DEF Drop, InHand, Timed, Answers
<1>17. ASSUME Purge(r)
       PROVE  EntryOK(entry)' /\ InHand(q)' /\ Timed(q)'
  <2>1. /\ q.step = "delete" /\ q.meta = p.meta /\ q.start = p.start
        /\ p.step = "purge"
    BY <1>1, <1>2, <1>3, <1>17 DEF Purge, Step, TypeInv, TypeOK, Request
  <2>2. InHand(q)'
    BY <1>3, <1>17, <2>1 DEF Purge, InHand, Fresh
  <2>3. Timed(q)'
    BY <1>3, <1>17, <2>1 DEF Purge, Timed, Answers, IsExpired
  <2> QED
    BY <1>9, <1>17, <2>2, <2>3 DEF Purge
<1>18. ASSUME LazyDelete(r) \/ RedisFails(r) \/ DatabaseFails(r)
       PROVE  EntryOK(entry)' /\ InHand(q)' /\ Timed(q)'
  <2>1. q.step \in {"gone", "failed"}
    BY <1>1, <1>2, <1>3, <1>18
    DEF LazyDelete, RedisFails, DatabaseFails, Answer, Idle, TypeInv, TypeOK, Request
  <2>2. EntryOK(entry)'
    BY <1>1, <1>9, <1>10, <1>18
    DEF LazyDelete, RedisFails, DatabaseFails
  <2> QED
    BY <1>8, <2>1, <2>2
<1>19. EntryOK(entry)' /\ InHand(q)' /\ Timed(q)'
  BY <1>11, <1>12, <1>13, <1>14, <1>15, <1>16, <1>17, <1>18 DEF RequestStep
<1> QED
  BY <1>3, <1>4, <1>7, <1>19, CacheKept

(* An owner's step: the cache and the requests are left alone.             *)
LEMMA OwnerStepCacheInv ==
    ASSUME TypeInv, CacheInv, RowStep, UNCHANGED <<entry, saved, req>>
    PROVE  CacheInv'
<1>1. ASSUME NEW s \in Requests PROVE InHand(req[s])' /\ Timed(req[s])'
  <2>1. PICK z : z = req[s]
    OBVIOUS
  <2>2. z \in Request /\ (z.step \in Holding => z.meta \in Meta)
    BY <2>1 DEF TypeInv, TypeOK
  <2>3. InHand(z) /\ Timed(z)
    BY <2>1 DEF CacheInv
  <2>4. InHand(z)' /\ Timed(z)'
    BY <2>2, <2>3, RequestKept DEF TypeInv
  <2> QED
    BY <2>1, <2>4 DEF InHand, Timed, Fresh, IsExpired
<1>2. ASSUME NEW e \in {entry, saved} PROVE EntryOK(e)'
  <2>1. PICK d : d = e
    OBVIOUS
  <2>2. d \in Entry \cup {NoEntry} /\ EntryOK(d)
    BY <1>2, <2>1 DEF TypeInv, TypeOK, CacheInv
  <2>3. EntryOK(d)'
    BY <2>2, EntryKept DEF TypeInv
  <2> QED
    BY <1>2, <2>1, <2>3 DEF EntryOK, Fresh
<1> QED
  BY <1>1, <1>2 DEF CacheInv, EntryOK, Fresh

LEMMA StepCacheInv == TypeInv /\ TypeInv' /\ CacheInv /\ [Next]_vars => CacheInv'
<1> SUFFICES ASSUME TypeInv, TypeInv', CacheInv, [Next]_vars PROVE CacheInv'
  OBVIOUS
<1>1. ASSUME NEW r \in Requests, RequestStep(r) PROVE CacheInv'
  BY <1>1, RequestStepCacheInv
<1>2. CASE OwnerStep
  <2>1. RowStep /\ UNCHANGED <<entry, saved, req>>
    BY <1>2
    DEF OwnerStep, Create, Delete, LoadForUpdate, CommitUpdate, RowStep
  <2> QED
    BY <2>1, OwnerStepCacheInv
<1>3. CASE SaveSnapshot \/ RestartRedis
  <2>1. UNCHANGED <<now, link, retired, req>>
    BY <1>3 DEF SaveSnapshot, RestartRedis
  <2>2. /\ entry' \in {entry, saved, NoEntry}
        /\ saved' \in {entry, saved}
    BY <1>3 DEF SaveSnapshot, RestartRedis
  <2>3. EntryOK(entry)' /\ EntryOK(saved)'
    BY <2>1, <2>2 DEF CacheInv, EntryOK, Fresh
  <2>4. ASSUME NEW s \in Requests PROVE InHand(req[s])' /\ Timed(req[s])'
    BY <2>1 DEF CacheInv, InHand, Timed, Fresh, IsExpired
  <2> QED
    BY <2>3, <2>4 DEF CacheInv
<1>4. CASE Tick
  <2>1. /\ UNCHANGED <<link, retired, req, entry, saved>>
        /\ now' = now + 1 /\ now \in Nat /\ Default \in Nat /\ MaxDelay \in Nat
    BY <1>4, DefaultType, TimeAssumption DEF Tick, TypeInv, TypeOK
  <2>2. ASSUME NEW e \in {entry, saved} PROVE EntryOK(e)'
    <3>1. PICK d : d = e
      OBVIOUS
    <3>2. d \in Entry \cup {NoEntry} /\ EntryOK(d)
      BY <2>2, <3>1 DEF TypeInv, TypeOK, CacheInv
    <3>3. d # NoEntry => d.until \in Nat
      BY <3>2 DEF Entry
    <3>4. EntryOK(d)'
      BY <2>1, <3>2, <3>3 DEF EntryOK, Fresh
    <3> QED
      BY <2>1, <2>2, <3>1, <3>4 DEF EntryOK, Fresh
  <2>3. ASSUME NEW s \in Requests PROVE InHand(req[s])' /\ Timed(req[s])'
    <3>1. PICK q : q = req[s]
      OBVIOUS
    <3>2. /\ q \in Request /\ (q.step \in Holding => q.meta \in Meta)
          /\ InHand(q) /\ Timed(q)
      BY <3>1 DEF TypeInv, TypeOK, CacheInv
    <3>3. q.start \in Nat /\ q.at \in Nat
      BY <3>2 DEF Request
    <3>4. q.step \notin Answers \cup {"new"} => now < q.start + MaxDelay
      BY <1>4, <3>1 DEF Tick, InProgress
    <3>5. q.step \in Holding /\ q.meta.expires # Never => q.meta.expires \in Nat
      BY <3>2, MetaFacts
    <3>6. Timed(q)'
      BY <2>1, <3>2, <3>3, <3>4, <3>5 DEF Timed, IsExpired, Holding
    <3>7. InHand(q)'
      BY <2>1, <3>2 DEF InHand, Fresh
    <3> QED
      BY <2>1, <3>1, <3>6, <3>7 DEF InHand, Timed, Fresh, IsExpired
  <2> QED
    BY <2>1, <2>2, <2>3 DEF CacheInv, EntryOK, Fresh
<1>5. CASE UNCHANGED vars
  BY <1>5 DEF vars, CacheInv, EntryOK, InHand, Timed, Fresh, IsExpired
<1> QED
  BY <1>1, <1>2, <1>3, <1>4, <1>5 DEF Next

LEMMA CacheInvAlways == Spec => [](TypeInv /\ CacheInv)
  BY InitTypeInv, StepTypeInv, InitCacheInv, StepCacheInv, PTL DEF Spec

(* A redirect is answered with the row, or with one replaced or deleted at *)
(* most the default TTL and two request times before: nothing drops the    *)
(* copy on PATCH and DELETE, and still no order of cache fills, lazy       *)
(* deletions and Redis restarts lets it live longer.                       *)
THEOREM BoundedStalenessAlways == Spec => []BoundedStaleness
<1>1. CacheInv => BoundedStaleness
  BY DEF CacheInv, InHand, Fresh, BoundedStaleness
<1> QED
  BY <1>1, CacheInvAlways, PTL

(* The TTL that set_cached_link computes keeps the key from outliving      *)
(* expires_at by more than the time a request may take.                    *)
THEOREM CacheExpiryBoundedAlways == Spec => []CacheExpiryBounded
<1>1. CacheInv => CacheExpiryBounded
  BY DEF CacheInv, EntryOK, CacheExpiryBounded
<1> QED
  BY <1>1, CacheInvAlways, PTL

(* No redirect decides to serve metadata that has expired by its own       *)
(* expires_at, whether it came from Redis or from PostgreSQL.              *)
THEOREM ServedUnexpiredAlways == Spec => []ServedUnexpired
<1>1. ASSUME CacheInv, NEW r \in Requests,
             req[r].step = "served", req[r].meta.expires # Never
      PROVE  req[r].at < req[r].meta.expires
  <2>1. Timed(req[r])
    BY <1>1 DEF CacheInv
  <2> QED
    BY <1>1, <2>1 DEF Timed
<1>2. CacheInv => ServedUnexpired
  BY <1>1, Zenon DEF ServedUnexpired
<1> QED
  BY <1>2, CacheInvAlways, PTL
-----------------------------------------------------------------------------
(***************************************************************************)
(* Lazy deletion: what a purging request holds is expired and was the row, *)
(* so a row with its id had an expires_at in the past.                     *)
(***************************************************************************)
LEMMA StepRemoved ==
    ASSUME TypeInv, CacheInv, RemovedIfEverExpired, [Next]_vars
    PROVE  RemovedIfEverExpired'
<1> DEFINE Excused(p, S) ==
        \E q \in S : /\ q.meta.id = p.meta.id
                     /\ q.meta.expires # Never
                     /\ q.meta.expires <= p.at
<1>1. CASE UNCHANGED retired
  BY <1>1 DEF RemovedIfEverExpired
<1>2. CASE Retire("owner")
  BY <1>2 DEF Retire, RemovedIfEverExpired
<1>3. ASSUME NEW r \in Requests, DeleteRow(req[r].meta.id),
             req[r].step = "delete"
      PROVE  RemovedIfEverExpired'
  <2>1. CASE ~(link # NoLink /\ link.id = req[r].meta.id)
    BY <1>1, <1>3, <2>1 DEF DeleteRow
  <2>2. CASE link # NoLink /\ link.id = req[r].meta.id
    <3> DEFINE p == [meta |-> link, by |-> "redirect", at |-> now]
    <3>1. retired' = retired \cup {p}
      BY <1>3, <2>2 DEF DeleteRow, Retire
    <3>2. /\ req[r].meta.expires # Never /\ req[r].meta.expires <= now
          /\ Fresh(req[r].meta, req[r].start, 0)
      BY <1>3 DEF CacheInv, Timed, InHand, IsExpired
    <3>3. p \in retired' /\ p.meta = link /\ p.at = now
      BY <3>1
    <3>4. \E q \in retired' : q.meta = req[r].meta
      <4>1. CASE req[r].meta = link
        BY <3>3, <4>1
      <4>2. CASE \E q \in retired : q.meta = req[r].meta
        BY <3>1, <4>2
      <4> QED
        BY <3>2, <4>1, <4>2 DEF Fresh
    <3>5. Excused(p, retired')
      BY <2>2, <3>2, <3>3, <3>4
    <3>6. \A x \in retired : x.by = "redirect" => Excused(x, retired')
      BY <3>1 DEF RemovedIfEverExpired
    <3> QED
      BY <3>1, <3>5, <3>6 DEF RemovedIfEverExpired
  <2> QED
    BY <2>1, <2>2
<1> QED
  BY <1>1, <1>2, <1>3
  DEF Next, OwnerStep, Create, Delete, LoadForUpdate, CommitUpdate, RequestStep,
      Get, Check, Drop, Load, Judge, Fill, Purge, LazyDelete, RedisFails,
      DatabaseFails, SaveSnapshot, RestartRedis, Tick, vars

(* A redirect removes a row only if that very link has been expired: not a *)
(* later link under the alias, and not one that never had an end.          *)
THEOREM RemovedIfEverExpiredAlways == Spec => []RemovedIfEverExpired
<1>1. Init => RemovedIfEverExpired
  BY DEF Init, RemovedIfEverExpired
<1> QED
  BY <1>1, CacheInvAlways, StepRemoved, PTL DEF Spec
=============================================================================
