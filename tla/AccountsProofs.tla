--------------------------- MODULE AccountsProofs ---------------------------
(***************************************************************************)
(* Proofs about Accounts, for every value of its constants.                *)
(***************************************************************************)
EXTENDS Accounts, FiniteSetTheorems, TLAPS

(***************************************************************************)
(* Lemmas about the pages of a listing.                                    *)
(***************************************************************************)
LEMMA Least ==
    ASSUME NEW S \in SUBSET Nat, S # {}
    PROVE  \E m \in S : \A n \in S : m <= n
<1> DEFINE R == OpToRel(<, Nat)
<1>1. IsWellFoundedOn(R, Nat)
  BY NatLessThanWellFounded
<1> HIDE DEF R
<1>2. PICK m \in S : \A n \in S : ~ (<<n, m>> \in R)
  BY <1>1, WFMin
<1>3. ASSUME NEW n \in S PROVE m <= n
  <2>1. n \in Nat /\ m \in Nat
    OBVIOUS
  <2>2. <<n, m>> \in R <=> n < m
    BY <2>1 DEF R, OpToRel
  <2>3. ~(n < m)
    BY <1>2, <2>2
  <2> QED
    BY <2>1, <2>3
<1> QED
  BY <1>3

LEMMA LeastId ==
    ASSUME NEW S \in SUBSET Ids, S # {}
    PROVE  \E m \in S : \A i \in S : m <= i
  BY Least, PageAssumption DEF Ids

LEMMA GreatestId ==
    ASSUME NEW S \in SUBSET Ids, S # {}
    PROVE  \E m \in S : \A i \in S : i <= m
<1> DEFINE T == {n \in Nat : \E i \in S : n = MaxLinks - i}
<1>1. \A i \in S : i \in Nat /\ MaxLinks - i \in T
  BY PageAssumption DEF Ids
<1>2. PICK n \in T : \A k \in T : n <= k
  <2>1. T # {} /\ T \in SUBSET Nat
    BY <1>1
  <2> QED
    BY <2>1, Least
<1>3. PICK m \in S : n = MaxLinks - m
  OBVIOUS
<1> QED
  BY <1>1, <1>2, <1>3, PageAssumption

LEMMA IdsNumbers == Ids \subseteq Nat \ {0}
  BY PageAssumption DEF Ids

LEMMA IdsFinite ==
    ASSUME NEW S \in SUBSET Ids
    PROVE  IsFiniteSet(S) /\ Cardinality(S) \in Nat
<1>1. IsFiniteSet(Ids)
  BY FS_Interval, PageAssumption DEF Ids
<1> QED
  BY <1>1, FS_Subset, FS_CardinalityType

(* What stands above i in a listing.                                       *)
Above(ids, i) == {j \in ids : j > i}

LEMMA InNewest ==
    ASSUME NEW ids, NEW n
    PROVE  \A i : i \in Newest(ids, n) <=>
                     i \in ids /\ Cardinality(Above(ids, i)) < n
<1>1. Newest(ids, n) = {i \in ids : Cardinality(Above(ids, i)) < n}
  BY DEF Newest, Above
<1> QED
  BY <1>1

LEMMA AboveIds ==
    ASSUME NEW ids \in SUBSET Ids, NEW i \in Ids
    PROVE  /\ Above(ids, i) \in SUBSET Ids
           /\ IsFiniteSet(Above(ids, i)) /\ Cardinality(Above(ids, i)) \in Nat
<1>1. Above(ids, i) \in SUBSET Ids
  BY DEF Above
<1> QED
  BY <1>1, IdsFinite

(* A page goes down to some id: nothing at or above an id shown is left    *)
(* out.                                                                    *)
LEMMA NewestDown ==
    ASSUME NEW ids \in SUBSET Ids, NEW n \in Nat,
           NEW k \in Newest(ids, n), NEW i \in ids, i >= k
    PROVE  i \in Newest(ids, n)
<1> k \in ids
  BY InNewest
<1>1. Above(ids, i) \subseteq Above(ids, k) /\ Above(ids, k) \in SUBSET Ids
  <2>1. ASSUME NEW j \in Above(ids, i) PROVE j \in Above(ids, k)
    <3>1. j \in ids /\ j > i /\ {i, j, k} \subseteq Nat
      BY IdsNumbers DEF Above
    <3> QED
      BY <3>1 DEF Above
  <2> QED
    BY <2>1, AboveIds
<1>2. Cardinality(Above(ids, i)) <= Cardinality(Above(ids, k))
  BY <1>1, IdsFinite, FS_Subset
<1>3. /\ Cardinality(Above(ids, i)) \in Nat /\ Cardinality(Above(ids, k)) \in Nat
      /\ Cardinality(Above(ids, k)) < n
  BY AboveIds, InNewest
<1>4. Cardinality(Above(ids, i)) < n
  BY <1>2, <1>3
<1> QED
  BY <1>4, InNewest

(* A page of a listing that is not empty is not empty.                     *)
LEMMA NewestSome ==
    ASSUME NEW ids \in SUBSET Ids, ids # {}, NEW n \in Nat \ {0}
    PROVE  Newest(ids, n) # {}
<1>1. PICK m \in ids : \A i \in ids : i <= m
  BY GreatestId
<1>2. Above(ids, m) = {}
  <2>1. ASSUME NEW i \in ids PROVE ~(i > m)
    BY <1>1, IdsNumbers
  <2> QED
    BY <2>1 DEF Above
<1>3. Cardinality(Above(ids, m)) = 0
  BY <1>2, FS_EmptySet
<1>4. Cardinality(Above(ids, m)) < n
  BY <1>3
<1> QED
  BY <1>4, InNewest

(* When one row more than a page is asked for and does not come, the page  *)
(* shows everything.                                                       *)
LEMMA NewestAll ==
    ASSUME NEW ids \in SUBSET Ids, NEW n \in Nat \ {0},
           Cardinality(Newest(ids, n + 1)) <= n
    PROVE  Newest(ids, n) = ids
<1> DEFINE below == ids \ Newest(ids, n)
<1> SUFFICES ASSUME below # {} PROVE FALSE
  BY DEF Newest
<1>1. PICK m \in below : \A i \in below : i <= m
  BY GreatestId
<1> DEFINE up == Above(ids, m)
<1>2. up \in SUBSET Ids /\ m \in ids /\ IsFiniteSet(up) /\ Cardinality(up) \in Nat
  BY AboveIds
<1>3. up \subseteq Newest(ids, n)
  <2>1. ASSUME NEW i \in up PROVE i \in ids /\ ~(i <= m)
    BY <1>2, IdsNumbers DEF Above
  <2> QED
    BY <1>1, <2>1
<1>4. ~(Cardinality(up) < n)
  BY <1>2, InNewest
<1>5. PICK p \in up : \A i \in up : p <= i
  <2>1. up # {}
    BY <1>4, FS_EmptySet
  <2> QED
    BY <1>2, <2>1, LeastId
<1>6. Cardinality(Above(ids, p)) < n
  BY <1>3, <1>5, InNewest
<1>7. up \ {p} = Above(ids, p)
  <2>1. ASSUME NEW i \in up, i # p PROVE i \in Above(ids, p)
    BY <1>2, <1>5, <2>1, IdsNumbers DEF Above
  <2>2. ASSUME NEW i \in Above(ids, p) PROVE i \in up /\ i # p
    BY <1>2, <1>5, <2>2, IdsNumbers DEF Above
  <2> QED
    BY <2>1, <2>2
<1>8. Cardinality(up) = Cardinality(up \ {p}) + 1
  <2>1. Cardinality(up \ {p}) = Cardinality(up) - 1
    BY <1>2, <1>5, FS_RemoveElement
  <2> QED
    BY <1>2, <2>1
<1>9. Cardinality(up) = n
  <2>1. Cardinality(up \ {p}) \in Nat
    BY <1>2, IdsFinite
  <2>2. Cardinality(up \ {p}) < n
    BY <1>6, <1>7
  <2> QED
    BY <1>2, <1>4, <1>8, <2>1, <2>2
<1>10. up \cup {m} \subseteq Newest(ids, n + 1)
  <2>1. m \in Newest(ids, n + 1)
    BY <1>2, <1>9, InNewest
  <2>2. ASSUME NEW i \in Newest(ids, n) PROVE i \in Newest(ids, n + 1)
    <3>1. i \in ids /\ Cardinality(Above(ids, i)) < n
      BY InNewest
    <3>2. Cardinality(Above(ids, i)) \in Nat
      BY <3>1, AboveIds
    <3>3. Cardinality(Above(ids, i)) < n + 1
      BY <3>1, <3>2
    <3> QED
      BY <3>1, <3>3, InNewest
  <2> QED
    BY <1>3, <2>1, <2>2
<1>11. Cardinality(up \cup {m}) = n + 1
  <2>1. m \notin up
    BY <1>2, IdsNumbers DEF Above
  <2> HIDE DEF up
  <2>2. Cardinality(up \cup {m}) = IF m \in up THEN Cardinality(up) ELSE Cardinality(up) + 1
    BY <1>2, FS_AddElement
  <2> QED
    BY <1>9, <2>1, <2>2
<1>12. Cardinality(up \cup {m}) <= Cardinality(Newest(ids, n + 1))
  <2>1. Newest(ids, n + 1) \in SUBSET Ids
    BY DEF Newest
  <2> QED
    BY <1>10, <2>1, IdsFinite, FS_Subset
<1>13. Cardinality(Newest(ids, n + 1)) \in Nat
  BY IdsFinite DEF Newest
<1> QED
  BY <1>11, <1>12, <1>13

(* next_cursor is the least id shown.                                      *)
LEMMA CursorLeast ==
    ASSUME NEW ids \in SUBSET Ids, ids # {}
    PROVE  /\ NextCursor(ids) \in Newest(ids, PageSize)
           /\ \A i \in Newest(ids, PageSize) : NextCursor(ids) <= i
<1>1. Newest(ids, PageSize) # {} /\ Newest(ids, PageSize) \in SUBSET Ids
  BY NewestSome, PageAssumption DEF Newest
<1>2. \E m \in Newest(ids, PageSize) : \A i \in Newest(ids, PageSize) : m <= i
  BY <1>1, LeastId
<1> QED
  BY <1>2 DEF NextCursor
-----------------------------------------------------------------------------
(***************************************************************************)
(* Type correctness.                                                       *)
(***************************************************************************)
LEMMA LinksOfType == \A u : LinksOf(u) \in SUBSET Ids
  BY DEF LinksOf

LEMMA OlderType == \A ids \in SUBSET Ids : \A k : Older(ids, k) \in SUBSET Ids
  BY DEF Older

LEMMA NewestType == \A ids \in SUBSET Ids : \A n : Newest(ids, n) \in SUBSET Ids
  BY DEF Newest

(* A page there is more of is not empty.                                   *)
LEMMA HasMoreSome ==
    ASSUME NEW ids \in SUBSET Ids, HasMore(ids)
    PROVE  ids # {}
<1> SUFFICES ASSUME ids = {} PROVE FALSE
  OBVIOUS
<1>1. Newest(ids, PageSize + 1) = {}
  BY DEF Newest
<1>2. Cardinality(Newest(ids, PageSize + 1)) = 0
  BY <1>1, FS_EmptySet
<1> QED
  BY <1>2, PageAssumption DEF HasMore

(* What one page shows and leaves for the next.                            *)
Found(c) == Older(LinksOf(cookie[c]), walk[c].cursor)
Shown(c) == Newest(Found(c), PageSize)

LEMMA PageEffect ==
    ASSUME TypeOK, NEW c \in Clients, ListLinks(c)
    PROVE  /\ walk[c].step = "reading"
           /\ walk' \in [Clients -> Walk]
           /\ \A d \in Clients : d # c => walk'[d] = walk[d]
           /\ walk'[c].first = walk[c].first
           /\ walk'[c].seen = walk[c].seen \cup Shown(c)
           /\ walk'[c].twice = walk[c].twice \cup (walk[c].seen \cap Shown(c))
           /\ \/ /\ HasMore(Found(c))
                 /\ walk'[c].step = "reading"
                 /\ walk'[c].cursor = NextCursor(Found(c))
              \/ ~HasMore(Found(c)) /\ walk'[c].step = "ended"
           /\ UNCHANGED <<accounts, state, owner>>
<1> DEFINE w == walk[c]
           cursor == IF HasMore(Found(c)) THEN NextCursor(Found(c)) ELSE 0
           step == IF HasMore(Found(c)) THEN "reading" ELSE "ended"
           next == [w EXCEPT !.step = step, !.cursor = cursor,
                             !.seen = @ \cup Shown(c),
                             !.twice = @ \cup (w.seen \cap Shown(c))]
<1>1. w \in Walk /\ walk \in [Clients -> Walk] /\ w.step = "reading"
  BY DEF TypeOK, ListLinks
<1>2. Found(c) \in SUBSET Ids /\ Shown(c) \in SUBSET Ids
  BY LinksOfType, OlderType, NewestType DEF Found, Shown
<1>3. cursor \in 0 .. MaxLinks
  <2>1. CASE HasMore(Found(c))
    <3>1. NextCursor(Found(c)) \in Newest(Found(c), PageSize)
      BY <1>2, <2>1, HasMoreSome, CursorLeast
    <3>2. NextCursor(Found(c)) \in Ids
      BY <1>2, <3>1 DEF Shown
    <3> QED
      BY <2>1, <3>2, PageAssumption DEF Ids
  <2>2. CASE ~HasMore(Found(c))
    BY <2>2, PageAssumption
  <2> QED
    BY <2>1, <2>2
<1>4. walk' = [walk EXCEPT ![c] = next]
  BY <1>1 DEF ListLinks, Found, Shown
<1> HIDE DEF cursor
<1>5. /\ next \in Walk
      /\ next.first = w.first /\ next.step = step /\ next.cursor = cursor
      /\ next.seen = w.seen \cup Shown(c)
      /\ next.twice = w.twice \cup (w.seen \cap Shown(c))
  BY <1>1, <1>2, <1>3 DEF Walk
<1> HIDE DEF next, w
<1>6. /\ walk'[c] = next /\ walk' \in [Clients -> Walk]
      /\ \A d \in Clients : d # c => walk'[d] = walk[d]
  BY <1>1, <1>4, <1>5
<1>7. UNCHANGED <<accounts, state, owner>>
  BY DEF ListLinks
<1> QED
  BY <1>1, <1>5, <1>6, <1>7 DEF w, cursor

LEMMA StartEffect ==
    ASSUME TypeOK, NEW c \in Clients, StartWalk(c)
    PROVE  /\ walk' = [walk EXCEPT ![c] =
                 [walk[c] EXCEPT !.step = "reading", !.first = LinksOf(cookie[c])]]
           /\ walk[c].step = "idle"
           /\ walk' \in [Clients -> Walk]
           /\ UNCHANGED <<accounts, state, owner>>
<1>1. walk[c] \in Walk /\ walk \in [Clients -> Walk]
  BY DEF TypeOK
<1>2. [walk[c] EXCEPT !.step = "reading", !.first = LinksOf(cookie[c])] \in Walk
  BY <1>1, LinksOfType DEF Walk
<1> QED
  BY <1>1, <1>2 DEF StartWalk

LEMMA NoWalkType == NoWalk \in Walk
  BY PageAssumption DEF NoWalk, Walk

LEMMA InitTypeOK == Init => TypeOK
  BY NoWalkType DEF Init, TypeOK

LEMMA StepTypeOK == TypeOK /\ [Next]_vars => TypeOK'
<1> SUFFICES ASSUME TypeOK, [Next]_vars PROVE TypeOK'
  OBVIOUS
<1> USE DEF accounts
<1>1. ASSUME NEW r \in Registrations,
             LookUpEmail(r) \/ InsertUser(r) \/ InsertUserFails(r)
      PROVE  TypeOK'
  <2>1. users \subseteq users' /\ users' \subseteq Registrations
    BY <1>1 DEF LookUpEmail, InsertUser, InsertUserFails, TypeOK
  <2>2. reg' \in [Registrations -> {"new", "hashing", "created", "conflict", "error"}]
    BY <1>1 DEF LookUpEmail, InsertUser, InsertUserFails, TypeOK
  <2>3. UNCHANGED <<cookie, state, owner, walk>>
    BY <1>1 DEF LookUpEmail, InsertUser, InsertUserFails
  <2> QED
    BY <2>1, <2>2, <2>3 DEF TypeOK
<1>2. ASSUME NEW c \in Clients, NEW u \in users \cup {Nobody}, SetCookie(c, u)
      PROVE  TypeOK'
  BY <1>2, NoWalkType DEF SetCookie, TypeOK
<1>3. ASSUME NEW c \in Clients, InsertLink(c) PROVE TypeOK'
  BY <1>3 DEF InsertLink, TypeOK
<1>4. ASSUME NEW c \in Clients, StartWalk(c) PROVE TypeOK'
  BY <1>4, StartEffect DEF TypeOK
<1>5. ASSUME NEW c \in Clients, ListLinks(c) PROVE TypeOK'
  BY <1>5, PageEffect DEF TypeOK
<1>6. ASSUME NEW c \in Clients, CloseWalk(c) PROVE TypeOK'
  BY <1>6, NoWalkType DEF CloseWalk, TypeOK
<1>7. ASSUME NEW i \in Ids, CommitLink(i) \/ RemoveLink(i) PROVE TypeOK'
  BY <1>7 DEF CommitLink, RemoveLink, TypeOK
<1>8. CASE UNCHANGED vars
  BY <1>8 DEF vars, TypeOK
<1> QED
  BY <1>1, <1>2, <1>3, <1>4, <1>5, <1>6, <1>7, <1>8
  DEF Next, SessionLogin, SessionLogout

(* Registrations, sessions, links and walks have their types; the cursor   *)
(* of a walk is an id.                                                     *)
THEOREM TypeCorrect == Spec => []TypeOK
  BY InitTypeOK, StepTypeOK, PTL DEF Spec
-----------------------------------------------------------------------------
(***************************************************************************)
(* One account per address: whoever has not inserted yet is no account.    *)
(***************************************************************************)
AccountInv ==
    /\ OneAccount
    /\ \A r \in Registrations : reg[r] \in {"new", "hashing"} => r \notin users

LEMMA StepAccountInv == TypeOK /\ AccountInv /\ [Next]_vars => AccountInv'
<1> SUFFICES ASSUME TypeOK, AccountInv, [Next]_vars PROVE AccountInv'
  OBVIOUS
<1> USE DEF accounts
<1>1. ASSUME NEW r \in Registrations, LookUpEmail(r) PROVE AccountInv'
  BY <1>1 DEF LookUpEmail, AccountInv, OneAccount, Taken, TypeOK
<1>2. ASSUME NEW r \in Registrations, InsertUser(r) PROVE AccountInv'
  <2>1. /\ ~Taken(r) /\ users' = users \cup {r} /\ reg[r] = "hashing"
        /\ reg' = [reg EXCEPT ![r] = "created"] \/ reg' = [reg EXCEPT ![r] = "error"]
    BY <1>2 DEF InsertUser, Insertable
  <2>2. \A u, v \in users' : Email[u] = Email[v] => u = v
    BY <2>1 DEF AccountInv, OneAccount, Taken
  <2>3. ASSUME NEW q \in Registrations
        PROVE  /\ reg'[q] = "created" => q \in users'
               /\ reg'[q] = "conflict" => Taken(q)' /\ q \notin users'
               /\ reg'[q] \in {"new", "hashing"} => q \notin users'
    <3>1. reg'[q] = IF q = r THEN reg'[r] ELSE reg[q]
      BY <2>1 DEF TypeOK
    <3>2. reg'[r] \in {"created", "error"}
      BY <2>1 DEF TypeOK
    <3> QED
      BY <2>1, <3>1, <3>2 DEF AccountInv, OneAccount, Taken
  <2> QED
    BY <2>2, <2>3 DEF AccountInv, OneAccount
<1>3. ASSUME NEW r \in Registrations, InsertUserFails(r) PROVE AccountInv'
  BY <1>3 DEF InsertUserFails, AccountInv, OneAccount, Taken, TypeOK
<1>4. CASE UNCHANGED <<users, reg>>
  BY <1>4 DEF AccountInv, OneAccount, Taken
<1>5. ASSUME NEW c \in Clients, NEW u, SetCookie(c, u) PROVE UNCHANGED <<users, reg>>
  BY <1>5 DEF SetCookie
<1>6. ASSUME NEW c \in Clients,
             InsertLink(c) \/ StartWalk(c) \/ ListLinks(c) \/ CloseWalk(c)
      PROVE  UNCHANGED <<users, reg>>
  BY <1>6 DEF InsertLink, StartWalk, ListLinks, CloseWalk
<1>7. ASSUME NEW i \in Ids, CommitLink(i) \/ RemoveLink(i)
      PROVE  UNCHANGED <<users, reg>>
  BY <1>7 DEF CommitLink, RemoveLink
<1> QED
  BY <1>1, <1>2, <1>3, <1>4, <1>5, <1>6, <1>7
  DEF Next, SessionLogin, SessionLogout, vars

(* However registrations interleave there is one account per address, a    *)
(* 201 names an account and a 409 is only given where there is one.        *)
THEOREM OneAccountAlways == Spec => []OneAccount
<1>1. Init => AccountInv
  BY DEF Init, AccountInv, OneAccount
<1>2. AccountInv => OneAccount
  BY DEF AccountInv
<1> QED
  BY <1>1, <1>2, StepAccountInv, TypeCorrect, PTL DEF Spec
-----------------------------------------------------------------------------
(***************************************************************************)
(* Walks.  The pages read so far end at the cursor: what was shown is at   *)
(* or above it, and what was there when the walk began and still is was    *)
(* shown or is below it.                                                   *)
(***************************************************************************)
Settled(i) == state[i] \in {"live", "gone"}

WalkInv(c) ==
    LET w == walk[c] IN
    /\ w.twice = {}
    /\ \A i \in w.seen \cup w.first : Settled(i) /\ owner[i] = cookie[c]
    /\ w.step = "idle" => w = NoWalk
    /\ w.step = "reading" =>
          /\ w.cursor = 0 => w.seen = {}
          /\ \A i \in w.seen : w.cursor <= i
          /\ \A i \in w.first :
                state[i] = "live" => i \in w.seen \/ w.cursor = 0 \/ i < w.cursor
    /\ w.step = "ended" => \A i \in w.first : state[i] = "live" => i \in w.seen

WalksInv == \A c \in Clients : WalkInv(c)

(* A link that was committed or rolled back does not change its owner and  *)
(* does not come back.                                                     *)
LinksKept ==
    \A i \in Ids : Settled(i) =>
        /\ Settled(i)' /\ owner'[i] = owner[i]
        /\ state'[i] = "live" => state[i] = "live"

LEMMA StepLinksKept == TypeOK /\ [Next]_vars => LinksKept
<1> SUFFICES ASSUME TypeOK, [Next]_vars PROVE LinksKept
  OBVIOUS
<1> USE DEF accounts
<1>1. CASE UNCHANGED <<state, owner>>
  BY <1>1 DEF LinksKept, Settled
<1>2. ASSUME NEW c \in Clients, InsertLink(c) PROVE LinksKept
  <2>1. PICK i \in Ids : /\ NextId(i)
                         /\ state' = [state EXCEPT ![i] = "open"]
                         /\ owner' = [owner EXCEPT ![i] = cookie[c]]
    BY <1>2 DEF InsertLink
  <2>2. state[i] = "free"
    BY <2>1 DEF NextId
  <2> QED
    BY <2>1, <2>2 DEF LinksKept, Settled, TypeOK
<1>3. ASSUME NEW i \in Ids, CommitLink(i) \/ RemoveLink(i) PROVE LinksKept
  BY <1>3 DEF CommitLink, RemoveLink, LinksKept, Settled, TypeOK
<1>4. ASSUME NEW r \in Registrations,
             LookUpEmail(r) \/ InsertUser(r) \/ InsertUserFails(r)
      PROVE  UNCHANGED <<state, owner>>
  BY <1>4 DEF LookUpEmail, InsertUser, InsertUserFails
<1>5. ASSUME NEW c \in Clients, StartWalk(c) \/ ListLinks(c) \/ CloseWalk(c)
      PROVE  UNCHANGED <<state, owner>>
  BY <1>5 DEF StartWalk, ListLinks, CloseWalk
<1> QED
  BY <1>1, <1>2, <1>3, <1>4, <1>5
  DEF Next, SessionLogin, SessionLogout, SetCookie, vars

LEMMA NoWalkInv == ASSUME NEW c, walk[c] = NoWalk PROVE WalkInv(c)
  BY DEF WalkInv, NoWalk

LEMMA InitWalksInv == Init => WalksInv
  BY NoWalkInv DEF Init, WalksInv

(* A page after the first shows only what is below everything shown; it    *)
(* ends at its cursor, or there is no more.                                *)
LEMMA PageKeepsWalkInv ==
    ASSUME TypeOK, NEW c \in Clients, WalkInv(c), ListLinks(c)
    PROVE  WalkInv(c)'
<1> DEFINE w == walk[c]
           v == walk'[c]
<1>1. /\ w \in Walk /\ w.step = "reading"
      /\ v.first = w.first /\ v.seen = w.seen \cup Shown(c)
      /\ v.twice = w.twice \cup (w.seen \cap Shown(c))
      /\ UNCHANGED <<accounts, state, owner>>
  BY PageEffect DEF TypeOK
<1>2. /\ w.seen \in SUBSET Ids /\ w.first \in SUBSET Ids
      /\ w.cursor \in Nat
  BY <1>1, PageAssumption DEF Walk
<1>3. /\ w.twice = {}
      /\ \A i \in w.seen \cup w.first : Settled(i) /\ owner[i] = cookie[c]
      /\ w.cursor = 0 => w.seen = {}
      /\ \A i \in w.seen : w.cursor <= i
      /\ \A i \in w.first :
            state[i] = "live" => i \in w.seen \/ w.cursor = 0 \/ i < w.cursor
  BY <1>1 DEF WalkInv
<1>4. /\ Found(c) \in SUBSET Ids /\ Shown(c) \subseteq Found(c)
      /\ Shown(c) \in SUBSET Ids
  BY LinksOfType, OlderType, NewestType DEF Found, Shown, Newest
<1>5. \A i \in Ids : i \in Found(c) <=>
         /\ state[i] = "live" /\ owner[i] = cookie[c]
         /\ w.cursor = 0 \/ i < w.cursor
  BY DEF Found, Older, LinksOf
<1>6. w.seen \cap Shown(c) = {}
  <2>1. ASSUME NEW i \in w.seen, i \in Found(c) PROVE FALSE
    <3>1. i \in Nat /\ w.cursor <= i
      BY <1>2, <1>3, IdsNumbers
    <3>2. i < w.cursor
      BY <1>2, <1>3, <1>5, <2>1
    <3> QED
      BY <1>2, <3>1, <3>2
  <2> QED
    BY <1>4, <2>1
<1>7. v.twice = {}
  BY <1>1, <1>3, <1>6
<1>8. \A i \in v.seen \cup v.first : Settled(i)' /\ owner'[i] = cookie'[c]
  BY <1>1, <1>3, <1>4, <1>5 DEF Settled, accounts
<1>9. \A i \in w.first : state[i] = "live" => i \in w.seen \/ i \in Found(c)
  BY <1>2, <1>3, <1>5
<1>10. CASE ~HasMore(Found(c))
  <2>1. v.step = "ended"
    BY <1>10, PageEffect
  <2>2. Shown(c) = Found(c)
    <3>1. Cardinality(Newest(Found(c), PageSize + 1)) \in Nat
      BY <1>4, NewestType, IdsFinite
    <3>2. Cardinality(Newest(Found(c), PageSize + 1)) <= PageSize
      BY <1>10, <3>1, PageAssumption DEF HasMore
    <3> QED
      BY <1>4, <3>2, NewestAll, PageAssumption DEF Shown
  <2>3. \A i \in v.first : state'[i] = "live" => i \in v.seen
    BY <1>1, <1>9, <2>2
  <2> QED
    BY <1>7, <1>8, <2>1, <2>3 DEF WalkInv
<1>11. CASE HasMore(Found(c))
  <2> DEFINE k == NextCursor(Found(c))
  <2>1. v.step = "reading" /\ v.cursor = k
    BY <1>11, PageEffect
  <2>2. k \in Shown(c) /\ \A i \in Shown(c) : k <= i
    BY <1>4, <1>11, HasMoreSome, CursorLeast DEF Shown
  <2>3. k \in Nat \ {0} /\ k \in Found(c)
    BY <1>4, <2>2, IdsNumbers
  <2>4. \A i \in v.seen : k <= i
    <3>1. ASSUME NEW i \in w.seen PROVE k <= i
      <4>1. k < w.cursor
        BY <1>3, <1>4, <1>5, <2>3
      <4>2. w.cursor <= i /\ i \in Nat
        BY <1>2, <1>3, IdsNumbers
      <4> QED
        BY <1>2, <2>3, <4>1, <4>2
    <3> QED
      BY <1>1, <2>2, <3>1
  <2>5. ASSUME NEW i \in v.first, state'[i] = "live"
        PROVE  i \in v.seen \/ i < k
    <3>1. i \in w.seen \/ i \in Found(c)
      BY <1>1, <1>9, <2>5
    <3>2. ASSUME i \in Found(c), i >= k PROVE i \in Shown(c)
      BY <1>4, <2>2, <3>2, NewestDown, PageAssumption DEF Shown
    <3>3. i \in Nat
      BY <1>1, <1>2, IdsNumbers
    <3> QED
      BY <1>1, <2>3, <3>1, <3>2, <3>3
  <2> HIDE DEF k
  <2> QED
    BY <1>7, <1>8, <2>1, <2>3, <2>4, <2>5 DEF WalkInv
<1> QED
  BY <1>10, <1>11

LEMMA StepWalksInv == TypeOK /\ WalksInv /\ [Next]_vars => WalksInv'
<1> SUFFICES ASSUME TypeOK, WalksInv, [Next]_vars, NEW d \in Clients
             PROVE  WalkInv(d)'
  BY DEF WalksInv
<1> USE DEF accounts
<1>1. WalkInv(d) /\ LinksKept /\ walk[d] \in Walk
  BY StepLinksKept DEF WalksInv, TypeOK
<1>2. ASSUME walk'[d] = walk[d], cookie'[d] = cookie[d] PROVE WalkInv(d)'
  <2>1. walk[d].seen \in SUBSET Ids /\ walk[d].first \in SUBSET Ids
    BY <1>1 DEF Walk
  <2>2. \A i \in walk[d].seen \cup walk[d].first :
           /\ Settled(i) /\ owner[i] = cookie[d]
           /\ Settled(i)' /\ owner'[i] = owner[i]
           /\ state'[i] = "live" => state[i] = "live"
    BY <1>1, <2>1 DEF WalkInv, LinksKept
  <2> QED
    BY <1>1, <1>2, <2>2 DEF WalkInv
<1>3. ASSUME walk'[d] = NoWalk PROVE WalkInv(d)'
  BY <1>3 DEF WalkInv, NoWalk
<1>4. ASSUME NEW r \in Registrations,
             LookUpEmail(r) \/ InsertUser(r) \/ InsertUserFails(r)
      PROVE  WalkInv(d)'
  BY <1>2, <1>4 DEF LookUpEmail, InsertUser, InsertUserFails
<1>5. ASSUME NEW c \in Clients, NEW u, SetCookie(c, u) PROVE WalkInv(d)'
  <2>1. CASE c = d
    BY <1>3, <1>5, <2>1 DEF SetCookie, TypeOK
  <2>2. CASE c # d
    BY <1>2, <1>5, <2>2 DEF SetCookie, TypeOK
  <2> QED
    BY <2>1, <2>2
<1>6. ASSUME NEW c \in Clients, InsertLink(c) PROVE WalkInv(d)'
  BY <1>2, <1>6 DEF InsertLink
<1>7. ASSUME NEW i \in Ids, CommitLink(i) \/ RemoveLink(i) PROVE WalkInv(d)'
  BY <1>2, <1>7 DEF CommitLink, RemoveLink
<1>8. ASSUME NEW c \in Clients, StartWalk(c) PROVE WalkInv(d)'
  <2>1. CASE c = d
    <3> DEFINE v == [walk[d] EXCEPT !.step = "reading", !.first = LinksOf(cookie[d])]
    <3>1. /\ walk[d].step = "idle" /\ walk' = [walk EXCEPT ![d] = v]
          /\ UNCHANGED <<accounts, state, owner>>
      BY <1>8, <2>1, StartEffect
    <3>2. walk[d] = NoWalk
      BY <1>1, <3>1 DEF WalkInv
    <3>3. /\ v.step = "reading" /\ v.cursor = 0 /\ v.seen = {} /\ v.twice = {}
          /\ v.first = LinksOf(cookie[d])
      BY <3>2 DEF NoWalk
    <3> HIDE DEF v
    <3>4. walk'[d] = v
      BY <3>1 DEF TypeOK
    <3> QED
      BY <3>1, <3>3, <3>4 DEF WalkInv, LinksOf, Settled
  <2>2. CASE c # d
    BY <1>2, <1>8, <2>2, StartEffect DEF TypeOK
  <2> QED
    BY <2>1, <2>2
<1>9. ASSUME NEW c \in Clients, ListLinks(c) PROVE WalkInv(d)'
  <2>1. CASE c = d
    BY <1>1, <1>9, <2>1, PageKeepsWalkInv
  <2>2. CASE c # d
    BY <1>2, <1>9, <2>2, PageEffect
  <2> QED
    BY <2>1, <2>2
<1>10. ASSUME NEW c \in Clients, CloseWalk(c) PROVE WalkInv(d)'
  <2>1. CASE c = d
    BY <1>3, <1>10, <2>1 DEF CloseWalk, TypeOK
  <2>2. CASE c # d
    BY <1>2, <1>10, <2>2 DEF CloseWalk, TypeOK
  <2> QED
    BY <2>1, <2>2
<1>11. CASE UNCHANGED vars
  BY <1>2, <1>11 DEF vars
<1> QED
  BY <1>4, <1>5, <1>6, <1>7, <1>8, <1>9, <1>10, <1>11
  DEF Next, SessionLogin, SessionLogout

LEMMA WalksInvAlways == Spec => []WalksInv
  BY InitWalksInv, StepWalksInv, TypeCorrect, PTL DEF Spec

(* A client that reads page after page misses no link that was there when  *)
(* it began and is there when it ends.                                     *)
THEOREM WalkCompleteAlways == Spec => []WalkComplete
<1>1. WalksInv => WalkComplete
  BY DEF WalksInv, WalkInv, WalkComplete, LinksOf
<1> QED
  BY <1>1, WalksInvAlways, PTL

(* No link is shown on two pages of a walk, and none of another account.   *)
THEOREM WalkOnceAlways == Spec => []WalkOnce
<1>1. WalksInv => WalkOnce
  BY DEF WalksInv, WalkInv, WalkOnce
<1> QED
  BY <1>1, WalksInvAlways, PTL
=============================================================================
