----------------------------- MODULE ShortCode -----------------------------
(***************************************************************************)
(* How POST /links gives a link its code: an alias is looked up, reserved  *)
(* in Redis (code_reserved:<code>, SET NX EX) and inserted under the       *)
(* UNIQUE constraint; a generated code is drawn at random and reserved,    *)
(* with a longer code after max_tries refusals, and inserted.  Every       *)
(* Redis command and database transaction is a step.                       *)
(*                                                                         *)
(* A code is its length and which of the KeySpace codes of that length it  *)
(* is.  The value of a reservation is "1" for everyone: Redis does not     *)
(* know who holds it, and nothing releases it but its time.                *)
(***************************************************************************)
EXTENDS Naturals

CONSTANTS Requests,   \* POST /links requests
          KeySpace,   \* how many codes a length has
          MinLength,  \* settings.short_code_length
          MaxLength,  \* bound: the longest code looked at
          Aliases,    \* the codes clients ask for by name
          MaxTries,   \* max_tries of generate_unique_code
          ReserveTTL, \* _RESERVE_TTL, in ticks
          MaxDelay,   \* bound: from its first query or command to its INSERT
                      \* a request takes at most so many ticks
          MaxTime,    \* bound: the last instant looked at
          NoCode,     \* a request has no code yet
          Faults,     \* what may fail: "timeout", "redis", "database", "restart"
          MaxFaults   \* bound: failures in a behaviour

ASSUME SpaceAssumption == /\ KeySpace \in Nat \ {0} /\ MaxTries \in Nat \ {0}
                          /\ MinLength \in Nat /\ MaxLength \in Nat
ASSUME TimeAssumption == ReserveTTL \in Nat \ {0} /\ MaxDelay \in Nat /\ MaxTime \in Nat
ASSUME FaultsAssumption == MaxFaults \in Nat
ASSUME PromptAssumption == 2 * MaxDelay <= ReserveTTL

Codes == (MinLength .. MaxLength) \X (1 .. KeySpace)

ASSUME AliasesAssumption == Aliases \subseteq Codes /\ NoCode \notin Codes

Answers == {"created", "taken", "busy", "conflict", "failed"}
Steps   == {"new", "reserve", "insert"} \cup Answers

VARIABLES
    now,      \* the clock
    links,    \* the short codes of the rows of links
    reserved, \* code -> when its reservation ends, 0 without one
    req,      \* the requests
    failures, \* how many of the failures have happened
    amnesia   \* history: Redis has restarted without its latest keys

vars    == <<now, links, reserved, req, failures, amnesia>>
history == <<failures, amnesia>>

Request == [step : Steps, alias : BOOLEAN, code : Codes \cup {NoCode},
            start : Nat, length : Nat, tries : Nat]

Fresh(step, alias) ==
    [step |-> step, alias |-> alias, code |-> NoCode, start |-> 0,
     length |-> MinLength, tries |-> 0]

Init ==
    /\ now = 0
    /\ links = {}
    /\ reserved = [c \in Codes |-> 0]
    /\ req = [r \in Requests |-> Fresh("new", FALSE)]
    /\ failures = 0 /\ amnesia = FALSE
-----------------------------------------------------------------------------
Fault(kind) ==
    kind \in Faults /\ failures < MaxFaults /\ failures' = failures + 1
NoFault == failures' = failures

(* reserve_code                                                            *)
Reserved(c) == reserved[c] # 0

(* Mutant of SetNX: SET without NX.                                        *)
SetAlways(c) ==
    reserved' = [reserved EXCEPT ![c] = now + ReserveTTL]

SetNX(c) ==
    ~Reserved(c) /\ reserved' = [reserved EXCEPT ![c] = now + ReserveTTL]

(* The key is there already; or the command was applied, its answer came   *)
(* too late, and the client's second attempt (retry_on_timeout) finds the  *)
(* key that the first one set.                                             *)
Refused(c) ==
    \/ Reserved(c) /\ reserved' = reserved /\ NoFault
    \/ SetNX(c) /\ Fault("timeout")

(* The request has the code c.  Mutant: the code is not returned.          *)
WonUnnamed(q, c) == [q EXCEPT !.step = "insert"]

Won(q, c) == [q EXCEPT !.step = "insert", !.code = c]

(* The request is over, and what it knew is gone.                          *)
Answer(r, step) == req' = [req EXCEPT ![r] = Fresh(step, req[r].alias)]
-----------------------------------------------------------------------------
(* create_link with custom_alias: the lookup.  Mutant: without one.        *)
AskAliasBlindly(r, c) ==
    /\ req[r].step = "new"
    /\ req' = [req EXCEPT ![r].step = "reserve", ![r].alias = TRUE,
                          ![r].code = c, ![r].start = now]
    /\ UNCHANGED <<now, links, reserved, history>>

AskAlias(r, c) ==
    /\ req[r].step = "new"
    /\ IF c \in links
       THEN req' = [req EXCEPT ![r] = Fresh("taken", TRUE)]
       ELSE req' = [req EXCEPT ![r].step = "reserve", ![r].alias = TRUE,
                               ![r].code = c, ![r].start = now]
    /\ UNCHANGED <<now, links, reserved, history>>

ReserveAlias(r) ==
    /\ req[r].step = "reserve" /\ req[r].alias
    /\ \/ /\ SetNX(req[r].code) /\ NoFault
          /\ req' = [req EXCEPT ![r] = Won(@, @.code)]
       \/ Refused(req[r].code) /\ Answer(r, "busy")
    /\ UNCHANGED <<now, links, amnesia>>

(* create_link without custom_alias: generate_unique_code, one draw a step *)
AskGenerated(r) ==
    /\ req[r].step = "new"
    /\ req' = [req EXCEPT ![r].step = "reserve", ![r].start = now]
    /\ UNCHANGED <<now, links, reserved, history>>

(* Mutant of Retry: the length stays.                                      *)
RetrySameLength(q) ==
    IF q.tries + 1 < MaxTries THEN [q EXCEPT !.tries = @ + 1]
    ELSE [q EXCEPT !.tries = 0]

Retry(q) ==
    IF q.tries + 1 < MaxTries THEN [q EXCEPT !.tries = @ + 1]
    ELSE [q EXCEPT !.tries = 0, !.length = @ + 1]

TryCode(r) ==
    /\ req[r].step = "reserve" /\ ~req[r].alias
    /\ \E c \in Codes :
         /\ c[1] = req[r].length
         /\ \/ /\ SetNX(c) /\ NoFault
               /\ req' = [req EXCEPT ![r] = Won(@, c)]
            \/ Refused(c) /\ req' = [req EXCEPT ![r] = Retry(@)]
    /\ UNCHANGED <<now, links, amnesia>>

(* INSERT INTO links and commit: an IntegrityError is not caught.          *)
Insert(r) ==
    /\ req[r].step = "insert"
    /\ IF req[r].code \in links
       THEN Answer(r, "conflict") /\ links' = links
       ELSE Answer(r, "created") /\ links' = links \cup {req[r].code}
    /\ UNCHANGED <<now, reserved, history>>

(* DELETE /links/{code}, or the lazy deletion of an expired link: the      *)
(* reservation, if it is still there, stays.                               *)
Remove(c) ==
    /\ c \in links
    /\ links' = links \ {c}
    /\ UNCHANGED <<now, reserved, req, history>>
-----------------------------------------------------------------------------
(* A RedisError or SQLAlchemyError ends the request with a 500; the        *)
(* command or the transaction may have been carried out.                   *)
RedisFails(r) ==
    /\ Fault("redis")
    /\ req[r].step = "reserve"
    /\ \/ reserved' = reserved
       \/ \E c \in Codes :
            /\ IF req[r].alias THEN c = req[r].code ELSE c[1] = req[r].length
            /\ SetNX(c)
    /\ Answer(r, "failed")
    /\ UNCHANGED <<now, links, amnesia>>

DatabaseFails(r) ==
    /\ Fault("database")
    /\ req[r].step \in {"new", "insert"}
    /\ \/ links' = links
       \/ req[r].step = "insert" /\ links' = links \cup {req[r].code}
    /\ Answer(r, "failed")
    /\ UNCHANGED <<now, reserved, amnesia>>

(* redis-server --save 60 1: the keys set since the last snapshot are      *)
(* gone, and reservations are only ever set later and later.               *)
RestartRedis ==
    /\ Fault("restart")
    /\ \E t \in 0 .. now + ReserveTTL :
         reserved' = [c \in Codes |-> IF reserved[c] <= t THEN reserved[c] ELSE 0]
    /\ amnesia' = TRUE
    /\ UNCHANGED <<now, links, req>>

InProgress(r) == req[r].step \in {"reserve", "insert"}

(* A key is there up to and including the instant it ends at.              *)
Tick ==
    /\ now < MaxTime
    /\ \A r \in Requests : InProgress(r) => now < req[r].start + MaxDelay
    /\ now' = now + 1
    /\ reserved' = [c \in Codes |-> IF reserved[c] > now THEN reserved[c] ELSE 0]
    /\ UNCHANGED <<links, req, history>>
-----------------------------------------------------------------------------
(* What the API process does next for a request it has begun.              *)
HandlerStep(r) == ReserveAlias(r) \/ TryCode(r) \/ Insert(r)

RequestStep(r) ==
    \/ \E c \in Aliases : AskAlias(r, c)
    \/ AskGenerated(r)
    \/ HandlerStep(r)
    \/ RedisFails(r) \/ DatabaseFails(r)

Next ==
    \/ \E r \in Requests : RequestStep(r)
    \/ \E c \in Codes : Remove(c)
    \/ RestartRedis
    \/ Tick

Spec == Init /\ [][Next]_vars

(* A process runs the handler of a request to its end.                     *)
Fairness == \A r \in Requests : WF_vars(HandlerStep(r))

FairSpec == Spec /\ Fairness
-----------------------------------------------------------------------------
(***************************************************************************)
(* Properties.                                                             *)
(***************************************************************************)
TypeOK ==
    /\ now \in Nat
    /\ links \subseteq Codes
    /\ reserved \in [Codes -> Nat]
    /\ req \in [Requests -> Request]
    /\ failures \in 0 .. MaxFaults /\ amnesia \in BOOLEAN

(* Between its reservation and its INSERT a request is alone with its      *)
(* code, although the key names no owner, is never released and lapses by  *)
(* itself.  (Redis' restart is the exception.)  That a reservation lapses  *)
(* before its own request's INSERT is not seen here: the clock's guard and *)
(* PromptAssumption cut it away, and the code has nothing against it.      *)
ReservationExclusive ==
    ~amnesia =>
        \A r, s \in Requests :
            r # s /\ req[r].step = "insert" /\ req[s].step = "insert" =>
                req[r].code # req[s].code

(* Lookup, reservation and INSERT are three separate steps; as long as     *)
(* Redis keeps its keys, and requests take at most half a reservation's    *)
(* time, an alias that passed the lookup and was reserved does not meet    *)
(* the UNIQUE constraint: it ends in a 201 or a 409, not in a 500.         *)
AliasNeverConflicts ==
    ~amnesia => \A r \in Requests : req[r].alias => req[r].step # "conflict"

(* Every creation is answered: the generator does not draw reserved codes  *)
(* for ever.                                                               *)
CreationEnds ==
    \A r \in Requests : InProgress(r) ~> ~InProgress(r)
=============================================================================
