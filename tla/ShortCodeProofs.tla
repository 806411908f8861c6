-------------------------- MODULE ShortCodeProofs --------------------------
(***************************************************************************)
(* Proofs about ShortCode, for every value of its constants.               *)
(***************************************************************************)
EXTENDS ShortCode, TLAPS

(***************************************************************************)
(* Type correctness.  Beyond TypeOK, a request about to insert has a code, *)
(* so has one about to reserve its alias, and none takes too long.         *)
(***************************************************************************)
RequestOK(q) ==
    /\ q \in Request
    /\ q.step = "new" => ~q.alias
    /\ q.step = "insert" \/ (q.step = "reserve" /\ q.alias) => q.code \in Codes
    /\ q.step \in {"reserve", "insert"} =>
          q.start <= now /\ now <= q.start + MaxDelay

TypeInv == TypeOK /\ \A r \in Requests : RequestOK(req[r])

LEMMA FreshOK ==
    ASSUME NEW step \in Steps \ {"reserve", "insert"}, NEW alias \in BOOLEAN,
           step = "new" => ~alias
    PROVE  /\ Fresh(step, alias) \in Request
           /\ Fresh(step, alias).step = step
           /\ Fresh(step, alias).alias = alias
           /\ RequestOK(Fresh(step, alias))
<1>1. Fresh(step, alias) \in Request
  BY SpaceAssumption DEF Fresh, Request
<1> QED
  BY <1>1 DEF Fresh, RequestOK

LEMMA InitTypeInv == Init => TypeInv
<1> SUFFICES ASSUME Init PROVE TypeInv
  OBVIOUS
<1>1. Fresh("new", FALSE) \in Request /\ RequestOK(Fresh("new", FALSE))
  BY FreshOK DEF Steps
<1>2. PICK f : f = Fresh("new", FALSE)
  OBVIOUS
<1>3. f \in Request /\ RequestOK(f) /\ req = [r \in Requests |-> f]
  BY <1>1, <1>2 DEF Init
<1>4. ASSUME NEW r \in Requests PROVE RequestOK(req[r])
  BY <1>3 DEF RequestOK
<1>5. req \in [Requests -> Request]
  BY <1>3
<1>6. /\ now \in Nat /\ links \subseteq Codes /\ reserved \in [Codes -> Nat]
      /\ failures \in 0 .. MaxFaults /\ amnesia \in BOOLEAN
  <2>1. /\ now = 0 /\ links = {} /\ failures = 0 /\ amnesia = FALSE
        /\ reserved = [c \in Codes |-> 0]
    BY DEF Init
  <2>2. reserved \in [Codes -> Nat]
    BY <2>1
  <2>3. failures \in 0 .. MaxFaults
    BY <2>1, FaultsAssumption
  <2> QED
    BY <2>1, <2>2, <2>3
<1> QED
  BY <1>4, <1>5, <1>6 DEF TypeInv, TypeOK

(* What a Redis command does to the reservations.                          *)
Reserving ==
    \/ reserved' = reserved
    \/ \E c \in Codes : SetNX(c)

LEMMA ReservingType ==
    ASSUME TypeOK, Reserving
    PROVE  reserved' \in [Codes -> Nat]
<1>1. now + ReserveTTL \in Nat
  BY TimeAssumption DEF TypeOK
<1> QED
  BY <1>1 DEF Reserving, SetNX, TypeOK

(* What a step of one request may do: replace its record by q, reserve one *)
(* code, or insert the code it has reserved.                               *)
Stepped(r, q) ==
    /\ req' = [req EXCEPT ![r] = q]
    /\ UNCHANGED <<now, amnesia>>
    /\ failures' \in 0 .. MaxFaults
    /\ \/ links' = links /\ Reserving
       \/ /\ req[r].step = "insert" /\ q.step \notin {"reserve", "insert"}
          /\ links' = links \cup {req[r].code} /\ reserved' = reserved

LEMMA FailuresType ==
    ASSUME TypeOK, NoFault \/ \E k \in Faults : Fault(k)
    PROVE  failures' \in 0 .. MaxFaults
  BY FaultsAssumption DEF TypeOK, NoFault, Fault

LEMMA RetryOK ==
    ASSUME NEW z, RequestOK(z), z.step = "reserve", ~z.alias
    PROVE  RequestOK(Retry(z))
<1>1. z \in Request /\ z.tries + 1 \in Nat /\ z.length + 1 \in Nat
  BY DEF RequestOK, Request
<1>2. CASE z.tries + 1 < MaxTries
  <2>1. Retry(z) = [z EXCEPT !.tries = z.tries + 1]
    BY <1>2 DEF Retry
  <2> QED
    BY <1>1, <2>1 DEF RequestOK, Request
<1>3. CASE ~(z.tries + 1 < MaxTries)
  <2> DEFINE l == z.length + 1
             y == [z EXCEPT !.tries = 0, !.length = l]
  <2>1. Retry(z) = y
    BY <1>3 DEF Retry
  <2> HIDE DEF l
  <2>2. /\ y \in Request
        /\ y.step = z.step /\ y.alias = z.alias /\ y.code = z.code
        /\ y.start = z.start
    BY <1>1 DEF Request, l
  <2> HIDE DEF y
  <2>3. RequestOK(y)
    BY <2>2 DEF RequestOK
  <2> QED
    BY <2>1, <2>3 DEF RequestOK
<1> QED
  BY <1>2, <1>3

LEMMA HandlerStepped ==
    ASSUME TypeInv, NEW r \in Requests, HandlerStep(r)
    PROVE  \E q : Stepped(r, q) /\ RequestOK(q)
<1>1. req[r] \in Request /\ RequestOK(req[r]) /\ now \in Nat
  BY DEF TypeInv, TypeOK
<1>2. CASE ReserveAlias(r)
  <2>1. req[r].code \in Codes
    BY <1>1, <1>2 DEF ReserveAlias, RequestOK
  <2>2. CASE /\ SetNX(req[r].code) /\ NoFault
             /\ req' = [req EXCEPT ![r] = Won(@, @.code)]
    <3> DEFINE q == Won(req[r], req[r].code)
    <3>1. RequestOK(q)
      BY <1>1, <1>2, <2>1 DEF ReserveAlias, Won, RequestOK, Request, Steps
    <3>2. req' = [req EXCEPT ![r] = q]
      BY <2>2 DEF TypeInv, TypeOK
    <3> HIDE DEF q
    <3>3. Stepped(r, q)
      BY <1>2, <2>1, <2>2, <3>2, FailuresType
      DEF ReserveAlias, Stepped, Reserving, TypeInv
    <3> QED
      BY <3>1, <3>3
  <2>3. CASE Refused(req[r].code) /\ Answer(r, "busy")
    <3> DEFINE q == Fresh("busy", req[r].alias)
    <3>1. RequestOK(q)
      BY <1>1, FreshOK DEF Steps, Answers, Request
    <3>2. req' = [req EXCEPT ![r] = q]
      BY <2>3 DEF Answer
    <3> HIDE DEF q
    <3>3. failures' \in 0 .. MaxFaults
      BY <2>3, FaultsAssumption DEF Refused, Fault, NoFault, TypeInv, TypeOK
    <3>4. Stepped(r, q)
      BY <1>2, <2>1, <2>3, <3>2, <3>3
      DEF ReserveAlias, Stepped, Reserving, Refused
    <3> QED
      BY <3>1, <3>4
  <2> QED
    BY <1>2, <2>2, <2>3 DEF ReserveAlias
<1>3. CASE TryCode(r)
  <2>1. PICK c \in Codes :
           \/ SetNX(c) /\ NoFault /\ req' = [req EXCEPT ![r] = Won(@, c)]
           \/ Refused(c) /\ req' = [req EXCEPT ![r] = Retry(@)]
    BY <1>3 DEF TryCode
  <2>2. CASE SetNX(c) /\ NoFault /\ req' = [req EXCEPT ![r] = Won(@, c)]
    <3> DEFINE q == Won(req[r], c)
    <3>1. RequestOK(q)
      BY <1>1, <1>3 DEF TryCode, Won, RequestOK, Request, Steps
    <3>2. req' = [req EXCEPT ![r] = q]
      BY <2>2 DEF TypeInv, TypeOK
    <3> HIDE DEF q
    <3>3. Stepped(r, q)
      BY <1>3, <2>2, <3>2, FailuresType
      DEF TryCode, Stepped, Reserving, TypeInv
    <3> QED
      BY <3>1, <3>3
  <2>3. CASE Refused(c) /\ req' = [req EXCEPT ![r] = Retry(@)]
    <3> DEFINE q == Retry(req[r])
    <3>1. RequestOK(q)
      <4>1. PICK z : z = req[r]
        OBVIOUS
      <4>2. RequestOK(z) /\ z.step = "reserve" /\ ~z.alias
        BY <1>1, <1>3, <4>1 DEF TryCode, RequestOK
      <4> QED
        BY <4>1, <4>2, RetryOK DEF RequestOK
    <3>2. req' = [req EXCEPT ![r] = q]
      BY <2>3 DEF TypeInv, TypeOK
    <3> HIDE DEF q
    <3>3. failures' \in 0 .. MaxFaults
      BY <2>3, FaultsAssumption DEF Refused, Fault, NoFault, TypeInv, TypeOK
    <3>4. Stepped(r, q)
      BY <1>3, <2>3, <3>2, <3>3 DEF TryCode, Stepped, Reserving, Refused
    <3> QED
      BY <3>1, <3>4
  <2> QED
    BY <2>1, <2>2, <2>3
<1>4. CASE Insert(r)
  <2>1. ASSUME NEW a \in {"conflict", "created"}, Answer(r, a)
        PROVE  \E q : Stepped(r, q) /\ RequestOK(q)
    <3> DEFINE q == Fresh(a, req[r].alias)
    <3>1. RequestOK(q) /\ q.step = a
      BY <1>1, FreshOK DEF Steps, Answers, Request
    <3>2. req' = [req EXCEPT ![r] = q]
      BY <2>1 DEF Answer
    <3> HIDE DEF q
    <3>3. Stepped(r, q)
      BY <1>4, <3>1, <3>2
      DEF Insert, Stepped, Reserving, history, TypeInv, TypeOK
    <3> QED
      BY <3>1, <3>3
  <2> QED
    BY <1>4, <2>1 DEF Insert
<1> QED
  BY <1>2, <1>3, <1>4 DEF HandlerStep

LEMMA RequestStepped ==
    ASSUME TypeInv, NEW r \in Requests, RequestStep(r)
    PROVE  \E q : Stepped(r, q) /\ RequestOK(q)
<1>1. req[r] \in Request /\ RequestOK(req[r]) /\ now \in Nat
  BY DEF TypeInv, TypeOK
<1>2. ASSUME NEW c \in Aliases, AskAlias(r, c)
      PROVE  \E q : Stepped(r, q) /\ RequestOK(q)
  <2>1. CASE c \in links
    <3> DEFINE q == Fresh("taken", TRUE)
    <3>1. RequestOK(q)
      BY FreshOK DEF Steps, Answers
    <3> HIDE DEF q
    <3>2. Stepped(r, q)
      BY <1>2, <2>1
      DEF q, AskAlias, Stepped, Reserving, history, TypeInv, TypeOK
    <3> QED
      BY <3>1, <3>2
  <2>2. CASE c \notin links
    <3> DEFINE q == [req[r] EXCEPT !.step = "reserve", !.alias = TRUE,
                                   !.code = c, !.start = now]
    <3>1. q \in Request
      BY <1>1, AliasesAssumption DEF Request, Steps
    <3>a. /\ q.step = "reserve" /\ q.alias = TRUE /\ q.code = c
          /\ q.start = now
      BY <1>1 DEF Request
    <3>b. now <= now /\ now <= now + MaxDelay
      BY <1>1, TimeAssumption
    <3>c. RequestOK(q)
      BY <3>1, <3>a, <3>b, AliasesAssumption DEF RequestOK
    <3>2. req' = [req EXCEPT ![r] = q]
      BY <1>2, <2>2 DEF AskAlias, TypeInv, TypeOK
    <3> HIDE DEF q
    <3>3. Stepped(r, q)
      BY <1>2, <2>2, <3>2
      DEF AskAlias, Stepped, Reserving, history, TypeInv, TypeOK
    <3> QED
      BY <3>c, <3>3
  <2> QED
    BY <2>1, <2>2
<1>3. CASE AskGenerated(r)
  <2> DEFINE q == [req[r] EXCEPT !.step = "reserve", !.start = now]
  <2>1. RequestOK(q)
    <3>1. q \in Request
      BY <1>1 DEF Request, Steps
    <3>2. q.step = "reserve" /\ ~q.alias /\ q.start = now
      BY <1>1, <1>3 DEF AskGenerated, RequestOK, Request
    <3>3. now <= now /\ now <= now + MaxDelay
      BY <1>1, TimeAssumption
    <3> QED
      BY <3>1, <3>2, <3>3 DEF RequestOK
  <2>2. req' = [req EXCEPT ![r] = q]
    BY <1>3 DEF AskGenerated, TypeInv, TypeOK
  <2> HIDE DEF q
  <2>3. Stepped(r, q)
    BY <1>3, <2>2
    DEF AskGenerated, Stepped, Reserving, history, TypeInv, TypeOK
  <2> QED
    BY <2>1, <2>3
<1>4. CASE RedisFails(r) \/ DatabaseFails(r)
  <2> DEFINE q == Fresh("failed", req[r].alias)
  <2>1. RequestOK(q) /\ q.step = "failed"
    BY <1>1, FreshOK DEF Steps, Answers, Request
  <2>2. req' = [req EXCEPT ![r] = q]
    BY <1>4 DEF RedisFails, DatabaseFails, Answer
  <2> HIDE DEF q
  <2>3. failures' \in 0 .. MaxFaults
    BY <1>4, FaultsAssumption
    DEF RedisFails, DatabaseFails, Fault, TypeInv, TypeOK
  <2>4. Stepped(r, q)
    BY <1>4, <2>1, <2>2, <2>3 DEF RedisFails, DatabaseFails, Stepped, Reserving
  <2> QED
    BY <2>1, <2>4
<1> QED
  BY <1>2, <1>3, <1>4, HandlerStepped DEF RequestStep

LEMMA StepTypeInv == TypeInv /\ [Next]_vars => TypeInv'
<1> SUFFICES ASSUME TypeInv, [Next]_vars PROVE TypeInv'
  OBVIOUS
<1>1. ASSUME NEW r \in Requests, RequestStep(r) PROVE TypeInv'
  <2>1. PICK q : Stepped(r, q) /\ RequestOK(q)
    BY <1>1, RequestStepped
  <2>2. reserved' \in [Codes -> Nat]
    BY <2>1, ReservingType DEF Stepped, TypeInv, TypeOK
  <2>3. links' \subseteq Codes
    <3>1. req[r].step = "insert" => req[r].code \in Codes
      BY DEF TypeInv, RequestOK
    <3> QED
      BY <2>1, <3>1 DEF Stepped, TypeInv, TypeOK
  <2>4. req' \in [Requests -> Request]
        /\ \A s \in Requests : RequestOK(req[s])'
    BY <2>1 DEF Stepped, TypeInv, TypeOK, RequestOK
  <2> QED
    BY <2>1, <2>2, <2>3, <2>4 DEF Stepped, TypeInv, TypeOK
<1>2. ASSUME NEW c \in Codes, Remove(c) PROVE TypeInv'
  BY <1>2 DEF Remove, history, TypeInv, TypeOK, RequestOK
<1>3. CASE RestartRedis
  <2>1. reserved' \in [Codes -> Nat]
    BY <1>3 DEF RestartRedis, TypeInv, TypeOK
  <2> QED
    BY <1>3, <2>1, FaultsAssumption
    DEF RestartRedis, Fault, TypeInv, TypeOK, RequestOK
<1>4. CASE Tick
  <2>1. reserved' \in [Codes -> Nat] /\ now' \in Nat
    BY <1>4 DEF Tick, TypeInv, TypeOK
  <2>2. ASSUME NEW s \in Requests PROVE RequestOK(req[s])'
    <3>1. RequestOK(req[s]) /\ now \in Nat /\ req[s].start \in Nat
      BY DEF TypeInv, TypeOK, Request
    <3>2. req[s].step \in {"reserve", "insert"} => now < req[s].start + MaxDelay
      BY <1>4 DEF Tick, InProgress
    <3> QED
      BY <1>4, <3>1, <3>2, TimeAssumption DEF Tick, RequestOK
  <2> QED
    BY <1>4, <2>1, <2>2 DEF Tick, history, TypeInv, TypeOK
<1>5. CASE UNCHANGED vars
  BY <1>5 DEF vars, TypeInv, TypeOK, RequestOK
<1> QED
  BY <1>1, <1>2, <1>3, <1>4, <1>5 DEF Next

(* Every variable keeps its type, in every instance.                       *)
THEOREM TypeCorrect == Spec => []TypeOK
<1>1. TypeInv => TypeOK
  BY DEF TypeInv
<1> QED
  BY <1>1, InitTypeInv, StepTypeInv, PTL DEF Spec
-----------------------------------------------------------------------------
(***************************************************************************)
(* While Redis keeps its keys: the key of a code about to be inserted is   *)
(* there, and outlasts the request; and a code that appeared among the     *)
(* links since an alias was looked up is still reserved.                   *)
(***************************************************************************)
Guarded(q) ==
    /\ q.step = "insert" =>
          /\ reserved[q.code] # 0
          /\ reserved[q.code] >= q.start + ReserveTTL
          /\ q.alias => q.code \notin links
    /\ q.step = "reserve" /\ q.alias /\ q.code \in links =>
          /\ reserved[q.code] # 0
          /\ reserved[q.code] + MaxDelay >= q.start + ReserveTTL
    /\ ~(q.alias /\ q.step = "conflict")

Alone ==
    \A r, s \in Requests :
        r # s /\ req[r].step = "insert" /\ req[s].step = "insert" =>
            req[r].code # req[s].code

ReserveInv == ~amnesia => Alone /\ \A r \in Requests : Guarded(req[r])

LEMMA InitReserveInv == Init => ReserveInv
<1> SUFFICES ASSUME Init PROVE ReserveInv
  OBVIOUS
<1>1. \A r \in Requests : req[r].step = "new" /\ ~req[r].alias
  BY DEF Init, Fresh
<1> QED
  BY <1>1 DEF ReserveInv, Alone, Guarded

(* A reservation takes only a code that no guarded request relies on.      *)
LEMMA GuardedReserving ==
    ASSUME TypeOK, NEW q \in Request, RequestOK(q), Guarded(q), Reserving,
           links' = links
    PROVE  Guarded(q)'
<1>1. CASE reserved' = reserved
  BY <1>1 DEF Guarded
<1>2. ASSUME NEW c \in Codes, SetNX(c) PROVE Guarded(q)'
  <2>1. reserved[c] = 0 /\ \A d \in Codes \ {c} : reserved'[d] = reserved[d]
    BY <1>2 DEF SetNX, Reserved, TypeOK
  <2>2. q.step = "insert" => q.code \in Codes \ {c}
    BY <2>1 DEF Guarded, RequestOK
  <2>3. q.step = "reserve" /\ q.alias /\ q.code \in links => q.code \in Codes \ {c}
    BY <2>1 DEF Guarded, RequestOK
  <2> QED
    BY <2>1, <2>2, <2>3 DEF Guarded
<1> QED
  BY <1>1, <1>2 DEF Reserving

(* The INSERT of s is late by at most MaxDelay, its key lives ReserveTTL:  *)
(* it is there for as long as an alias looked up before may need.          *)
LEMMA GuardedInsert ==
    ASSUME TypeOK, NEW q \in Request, RequestOK(q), Guarded(q),
           NEW z \in Request, RequestOK(z), Guarded(z), z.step = "insert",
           q.step = "insert" => q.code # z.code,
           links' = links \cup {z.code}, reserved' = reserved
    PROVE  Guarded(q)'
<1>1. /\ z.start + MaxDelay >= now /\ z.code \in Codes
      /\ reserved[z.code] # 0 /\ reserved[z.code] >= z.start + ReserveTTL
  BY DEF RequestOK, Guarded
<1>2. /\ reserved[z.code] \in Nat /\ z.start \in Nat /\ q.start \in Nat
      /\ now \in Nat /\ MaxDelay \in Nat /\ ReserveTTL \in Nat
  BY <1>1, TimeAssumption DEF TypeOK, Request
<1>3. q.step = "reserve" => q.start <= now
  BY DEF RequestOK
<1>4. q.step = "reserve" => reserved[z.code] + MaxDelay >= q.start + ReserveTTL
  BY <1>1, <1>2, <1>3
<1> QED
  BY <1>1, <1>4 DEF Guarded

(* The new record of a request that steps.                                 *)
LEMMA GuardedStep ==
    ASSUME TypeInv, TypeInv', ReserveInv, ~amnesia,
           NEW r \in Requests, RequestStep(r)
    PROVE  /\ Guarded(req[r])'
           /\ req'[r].step = "insert" => \/ req[r].step = "insert"
                                         \/ reserved[req'[r].code] = 0
<1>1. /\ req[r] \in Request /\ RequestOK(req[r]) /\ Guarded(req[r])
      /\ now \in Nat /\ MaxDelay \in Nat /\ ReserveTTL \in Nat \ {0}
  BY TimeAssumption DEF TypeInv, TypeOK, ReserveInv
<1>2. ASSUME NEW a \in Answers, Answer(r, a), a = "conflict" => ~req[r].alias
      PROVE  Guarded(req[r])' /\ req'[r].step # "insert"
  <2>1. req'[r].step = a /\ req'[r].alias = req[r].alias
    BY <1>2 DEF Answer, Fresh, TypeInv, TypeOK
  <2> QED
    BY <1>2, <2>1 DEF Guarded, Answers
<1>3. ASSUME NEW c \in Codes, SetNX(c), req' = [req EXCEPT ![r] = Won(@, c)],
             req[r].step = "reserve", req[r].alias => req[r].code = c,
             links' = links
      PROVE  Guarded(req[r])' /\ reserved[req'[r].code] = 0
  <2>1. /\ req'[r].step = "insert" /\ req'[r].code = c
        /\ req'[r].start = req[r].start /\ req'[r].alias = req[r].alias
    BY <1>1, <1>3 DEF Won, Request, TypeInv, TypeOK
  <2>2. reserved[c] = 0 /\ reserved'[c] = now + ReserveTTL
    BY <1>3 DEF SetNX, Reserved, TypeInv, TypeOK
  <2>3. req[r].alias => c \notin links
    BY <1>1, <1>3, <2>2 DEF Guarded
  <2>4. req[r].start <= now /\ req[r].start \in Nat
    BY <1>1, <1>3 DEF RequestOK, Request
  <2>5. now + ReserveTTL # 0 /\ now + ReserveTTL >= req[r].start + ReserveTTL
    BY <1>1, <2>4
  <2> QED
    BY <1>3, <2>1, <2>2, <2>3, <2>5 DEF Guarded
<1>4. ASSUME NEW c \in Aliases, AskAlias(r, c)
      PROVE  Guarded(req[r])' /\ req'[r].step # "insert"
  <2>1. CASE c \in links
    <3>1. req'[r].step = "taken"
      BY <1>4, <2>1 DEF AskAlias, Fresh, TypeInv, TypeOK
    <3> QED
      BY <3>1 DEF Guarded
  <2>2. CASE c \notin links
    <3>1. req'[r].step = "reserve" /\ req'[r].code = c /\ links' = links
      BY <1>1, <1>4, <2>2 DEF AskAlias, Request, TypeInv, TypeOK
    <3> QED
      BY <2>2, <3>1 DEF Guarded
  <2> QED
    BY <2>1, <2>2
<1>5. CASE AskGenerated(r)
  <2>1. req'[r].step = "reserve" /\ ~req'[r].alias
    BY <1>1, <1>5 DEF AskGenerated, RequestOK, Request, TypeInv, TypeOK
  <2> QED
    BY <2>1 DEF Guarded
<1>6. CASE ReserveAlias(r)
  <2>1. req[r].code \in Codes
    BY <1>1, <1>6 DEF ReserveAlias, RequestOK
  <2>2. CASE Answer(r, "busy")
    BY <1>2, <2>2 DEF Answers
  <2>3. CASE /\ SetNX(req[r].code)
             /\ req' = [req EXCEPT ![r] = Won(@, @.code)]
    <3>1. PICK c \in Codes : c = req[r].code
      BY <2>1
    <3>2. req' = [req EXCEPT ![r] = Won(@, c)]
      BY <2>3, <3>1 DEF TypeInv, TypeOK
    <3> QED
      BY <1>3, <1>6, <2>3, <3>1, <3>2 DEF ReserveAlias, SetNX, Reserved
  <2> QED
    BY <1>6, <2>2, <2>3 DEF ReserveAlias
<1>7. CASE TryCode(r)
  <2>1. PICK c \in Codes :
           \/ SetNX(c) /\ req' = [req EXCEPT ![r] = Won(@, c)]
           \/ req' = [req EXCEPT ![r] = Retry(@)]
    BY <1>7 DEF TryCode
  <2>2. CASE SetNX(c) /\ req' = [req EXCEPT ![r] = Won(@, c)]
    BY <1>3, <1>7, <2>2 DEF TryCode
  <2>3. CASE req' = [req EXCEPT ![r] = Retry(@)]
    <3>1. req'[r].step = "reserve" /\ ~req'[r].alias
      BY <1>1, <1>7, <2>3 DEF TryCode, Retry, Request, TypeInv, TypeOK
    <3> QED
      BY <3>1 DEF Guarded
  <2> QED
    BY <2>1, <2>2, <2>3
<1>8. CASE Insert(r)
  <2>1. req[r].code \in links => ~req[r].alias
    BY <1>1, <1>8 DEF Insert, Guarded
  <2> QED
    BY <1>2, <1>8, <2>1 DEF Insert, Answers
<1>9. CASE RedisFails(r) \/ DatabaseFails(r)
  BY <1>2, <1>9 DEF RedisFails, DatabaseFails, Answers
<1> QED
  BY <1>4, <1>5, <1>6, <1>7, <1>8, <1>9 DEF RequestStep, HandlerStep

LEMMA RequestStepReserveInv ==
    ASSUME TypeInv, TypeInv', ReserveInv, NEW r \in Requests, RequestStep(r)
    PROVE  ReserveInv'
<1>1. PICK q : Stepped(r, q) /\ RequestOK(q)
  BY RequestStepped
<1>2. SUFFICES ASSUME ~amnesia
               PROVE  Alone' /\ \A s \in Requests : Guarded(req[s])'
  BY <1>1 DEF ReserveInv, Stepped
<1>3. Alone /\ \A s \in Requests : Guarded(req[s])
  BY <1>2 DEF ReserveInv
<1>4. /\ Guarded(req[r])'
      /\ req'[r].step = "insert" => \/ req[r].step = "insert"
                                    \/ reserved[req'[r].code] = 0
  BY <1>2, GuardedStep
<1>5. \A s \in Requests \ {r} : req'[s] = req[s]
  BY <1>1 DEF Stepped, TypeInv, TypeOK
<1>6. ASSUME NEW s \in Requests \ {r} PROVE Guarded(req[s])'
  <2>1. PICK p : p = req[s]
    OBVIOUS
  <2>2. PICK z : z = req[r]
    OBVIOUS
  <2>3. /\ p \in Request /\ RequestOK(p) /\ Guarded(p)
        /\ z \in Request /\ RequestOK(z) /\ Guarded(z)
    BY <1>3, <2>1, <2>2 DEF TypeInv, TypeOK, Guarded, RequestOK
  <2>4. Guarded(p)'
    <3>1. CASE links' = links /\ Reserving
      BY <2>3, <3>1, GuardedReserving DEF TypeInv
    <3>2. CASE /\ z.step = "insert" /\ links' = links \cup {z.code}
               /\ reserved' = reserved
      <4>1. p.step = "insert" => p.code # z.code
        BY <1>3, <2>1, <2>2, <3>2 DEF Alone
      <4> QED
        BY <2>3, <3>2, <4>1, GuardedInsert DEF TypeInv
    <3> QED
      BY <1>1, <2>2, <3>1, <3>2 DEF Stepped
  <2> QED
    BY <1>5, <2>1, <2>4 DEF Guarded
<1>7. ASSUME NEW s \in Requests \ {r},
             req'[r].step = "insert", req'[s].step = "insert"
      PROVE  req'[r].code # req'[s].code
  <2>1. req'[s] = req[s] /\ reserved[req[s].code] # 0
    BY <1>3, <1>5, <1>7 DEF Guarded
  <2>2. CASE reserved[req'[r].code] = 0
    BY <2>1, <2>2
  <2>3. CASE req[r].step = "insert" /\ reserved[req'[r].code] # 0
    <3>1. req'[r].step \notin {"reserve", "insert"}
      BY <2>3, <1>1
      DEF RequestStep, HandlerStep, AskAlias, AskGenerated, ReserveAlias,
          TryCode, Insert, RedisFails, DatabaseFails, Answer, Fresh, TypeInv,
          TypeOK
    <3> QED
      BY <1>7, <3>1
  <2> QED
    BY <1>4, <1>7, <2>2, <2>3
<1>8. Alone'
  BY <1>3, <1>5, <1>7 DEF Alone
<1> QED
  BY <1>4, <1>6, <1>8

LEMMA StepReserveInv ==
    TypeInv /\ TypeInv' /\ ReserveInv /\ [Next]_vars => ReserveInv'
<1> SUFFICES ASSUME TypeInv, TypeInv', ReserveInv, [Next]_vars
             PROVE  ReserveInv'
  OBVIOUS
<1>1. ASSUME NEW r \in Requests, RequestStep(r) PROVE ReserveInv'
  BY <1>1, RequestStepReserveInv
<1>2. ASSUME NEW c \in Codes, Remove(c) PROVE ReserveInv'
  BY <1>2 DEF Remove, history, ReserveInv, Alone, Guarded
<1>3. CASE RestartRedis
  BY <1>3 DEF RestartRedis, ReserveInv
<1>4. CASE Tick
  <2>1. /\ UNCHANGED <<links, req, amnesia>>
        /\ reserved' = [c \in Codes |-> IF reserved[c] > now THEN reserved[c]
                                                             ELSE 0]
    BY <1>4 DEF Tick, history
  <2>2. ASSUME ~amnesia, NEW s \in Requests PROVE Guarded(req[s])'
    <3>1. PICK q : q = req[s]
      OBVIOUS
    <3>2. q \in Request /\ RequestOK(q) /\ Guarded(q)
      BY <2>2, <3>1 DEF TypeInv, TypeOK, ReserveInv
    <3>3. q.step \in {"reserve", "insert"} => now < q.start + MaxDelay
      BY <1>4, <3>1 DEF Tick, InProgress
    <3>4. /\ q.start \in Nat /\ now \in Nat /\ MaxDelay \in Nat
          /\ ReserveTTL \in Nat /\ 2 * MaxDelay <= ReserveTTL
      BY <3>2, TimeAssumption, PromptAssumption DEF TypeInv, TypeOK, Request
    <3>5. ASSUME NEW c \in Codes, now < q.start + MaxDelay,
                 reserved[c] + MaxDelay >= q.start + ReserveTTL
          PROVE  reserved'[c] = reserved[c]
      <4>1. reserved[c] \in Nat
        BY DEF TypeInv, TypeOK
      <4>2. reserved[c] > now
        BY <3>4, <3>5, <4>1
      <4> QED
        BY <2>1, <4>2
    <3>6. q.step = "insert" => reserved'[q.code] = reserved[q.code]
      <4> SUFFICES ASSUME q.step = "insert"
                   PROVE  reserved'[q.code] = reserved[q.code]
        OBVIOUS
      <4>1. q.code \in Codes /\ reserved[q.code] >= q.start + ReserveTTL
        BY <3>2 DEF RequestOK, Guarded
      <4>2. reserved[q.code] \in Nat
        BY <4>1 DEF TypeInv, TypeOK
      <4>3. reserved[q.code] + MaxDelay >= q.start + ReserveTTL
        BY <3>4, <4>1, <4>2
      <4> QED
        BY <3>3, <3>5, <4>1, <4>3
    <3>7. q.step = "reserve" /\ q.alias /\ q.code \in links =>
             reserved'[q.code] = reserved[q.code]
      BY <3>2, <3>3, <3>5 DEF RequestOK, Guarded
    <3>8. Guarded(q)'
      BY <2>1, <3>2, <3>6, <3>7 DEF Guarded
    <3> QED
      BY <2>1, <3>1, <3>8 DEF Guarded
  <2> QED
    BY <2>1, <2>2 DEF ReserveInv, Alone
<1>5. CASE UNCHANGED vars
  BY <1>5 DEF vars, ReserveInv, Alone, Guarded
<1> QED
  BY <1>1, <1>2, <1>3, <1>4, <1>5 DEF Next

LEMMA ReserveInvAlways == Spec => []ReserveInv
  BY InitTypeInv, StepTypeInv, InitReserveInv, StepReserveInv, PTL DEF Spec

(* SET NX EX is a lock between a request's reservation and its INSERT,     *)
(* though its key has no owner and lapses by itself.                       *)
THEOREM ReservationExclusiveAlways == Spec => []ReservationExclusive
<1>1. ReserveInv => ReservationExclusive
  BY DEF ReserveInv, Alone, ReservationExclusive
<1> QED
  BY <1>1, ReserveInvAlways, PTL

(* An alias that was looked up and reserved is inserted without meeting    *)
(* the UNIQUE constraint, for a reservation of two request times or more.  *)
THEOREM AliasNeverConflictsAlways == Spec => []AliasNeverConflicts
<1>1. ReserveInv => AliasNeverConflicts
  BY DEF ReserveInv, Guarded, AliasNeverConflicts
<1> QED
  BY <1>1, ReserveInvAlways, PTL
=============================================================================
