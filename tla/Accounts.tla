------------------------------ MODULE Accounts ------------------------------
(***************************************************************************)
(* Registration and sessions, and an account's view of its links: the      *)
(* check-then-insert of register_user, the session cookie, and the keyset  *)
(* pagination of GET /api/v1/links while links come and go.                *)
(*                                                                         *)
(* A registration is known by the request that asked for it: it brings an  *)
(* e-mail address and credentials of its own (password, then api_key), and *)
(* the account it creates has its name.  A link is its id.  PostgreSQL     *)
(* takes the id from a sequence when the INSERT is executed and shows the  *)
(* row when it is committed, so links may appear in another order than     *)
(* their ids.  Each page is one SELECT.                                    *)
(***************************************************************************)
EXTENDS Naturals, FiniteSets

CONSTANTS Registrations, \* POST /auth/register and /session/register requests
          Email,         \* the address of each
          Clients,       \* browsers and API clients
          Nobody,        \* no cookie and no key
          MaxLinks,      \* bound: links created
          PageSize       \* the query parameter limit, 1 to 100

ASSUME NobodyAssumption == Nobody \notin Registrations
ASSUME PageAssumption == MaxLinks \in Nat /\ PageSize \in Nat \ {0}

Ids == 1 .. MaxLinks

VARIABLES
    users,   \* PostgreSQL: the accounts
    reg,     \* where each registration is
    cookie,  \* the account whose key a client sends
    state,   \* PostgreSQL: each link id: free, open (uncommitted), live, gone
    owner,   \* links.user_id
    walk     \* the pages a client is reading

accounts == <<users, reg, cookie>>
vars     == <<accounts, state, owner, walk>>

(* next_cursor (0: none), the ids shown, and two histories: the ids shown  *)
(* twice and the ids there when the walk began.                            *)
Walk == [step : {"idle", "reading", "ended"}, cursor : 0 .. MaxLinks,
         seen : SUBSET Ids, twice : SUBSET Ids, first : SUBSET Ids]
NoWalk == [step |-> "idle", cursor |-> 0, seen |-> {}, twice |-> {}, first |-> {}]

Init ==
    /\ users = {}
    /\ reg = [r \in Registrations |-> "new"]
    /\ cookie = [c \in Clients |-> Nobody]
    /\ state = [i \in Ids |-> "free"]
    /\ owner = [i \in Ids |-> Nobody]
    /\ walk = [c \in Clients |-> NoWalk]

(***************************************************************************)
(* Registration.                                                           *)
(***************************************************************************)
Taken(r) == \E u \in users : Email[u] = Email[r]

(* select(User).where(email), 409 when there is one.                       *)
LookUpEmail(r) ==
    /\ reg[r] = "new"
    /\ reg' = [reg EXCEPT ![r] = IF Taken(r) THEN "conflict" ELSE "hashing"]
    /\ UNCHANGED <<users, cookie, state, owner, walk>>

(* Mutant of Insertable: users.email is not UNIQUE.                        *)
InsertableAlways(r) == TRUE
Insertable(r) == ~Taken(r)

(* INSERT, COMMIT, refresh.  The constraint on users.email refuses the     *)
(* second of two: an IntegrityError nobody maps, a 500.  A commit or a     *)
(* refresh without an answer is a 500 as well, of an account that exists.  *)
InsertUser(r) ==
    /\ reg[r] = "hashing"
    /\ Insertable(r)
    /\ users' = users \cup {r}
    /\ \/ reg' = [reg EXCEPT ![r] = "created"]
       \/ reg' = [reg EXCEPT ![r] = "error"]
    /\ UNCHANGED <<cookie, state, owner, walk>>

InsertUserFails(r) ==
    /\ reg[r] = "hashing"
    /\ reg' = [reg EXCEPT ![r] = "error"]
    /\ UNCHANGED <<users, cookie, state, owner, walk>>

(***************************************************************************)
(* Sessions.                                                               *)
(***************************************************************************)
(* The answer sets the cookie and redirects the page: what it was reading  *)
(* is gone.                                                                *)
SetCookie(c, u) ==
    /\ cookie' = [cookie EXCEPT ![c] = u]
    /\ walk' = [walk EXCEPT ![c] = NoWalk]
    /\ UNCHANGED <<users, reg, state, owner>>

(* Mutant of SessionLogin: the account is not looked up.                   *)
SessionLoginUnchecked(c, r) == cookie[c] # r /\ SetCookie(c, r)

(* Login with the credentials of a registration, session_register's answer *)
(* included: 401 unless they are those of an account.                      *)
SessionLogin(c, r) == r \in users /\ cookie[c] # r /\ SetCookie(c, r)

SessionLogout(c) == cookie[c] # Nobody /\ SetCookie(c, Nobody)

(***************************************************************************)
(* Links.                                                                  *)
(***************************************************************************)
NextId(i) == state[i] = "free" /\ \A j \in Ids : j < i => state[j] # "free"

InsertLink(c) ==
    /\ cookie[c] # Nobody
    /\ \E i \in Ids :
           /\ NextId(i)
           /\ state' = [state EXCEPT ![i] = "open"]
           /\ owner' = [owner EXCEPT ![i] = cookie[c]]
    /\ UNCHANGED <<accounts, walk>>

CommitLink(i) ==
    /\ state[i] = "open"
    /\ \/ state' = [state EXCEPT ![i] = "live"]
       \/ state' = [state EXCEPT ![i] = "gone"]  \* rolled back
    /\ UNCHANGED <<accounts, owner, walk>>

(* DELETE by its owner, or lazily by a redirect.                           *)
RemoveLink(i) ==
    /\ state[i] = "live"
    /\ state' = [state EXCEPT ![i] = "gone"]
    /\ UNCHANGED <<accounts, owner, walk>>

LinksOf(u) == {i \in Ids : state[i] = "live" /\ owner[i] = u}

(***************************************************************************)
(* list_links.                                                             *)
(***************************************************************************)
(* ORDER BY id DESC LIMIT n.                                               *)
Newest(ids, n) == {i \in ids : Cardinality({j \in ids : j > i}) < n}

(* Mutant of Older: the cursor itself is on the next page, too.            *)
OlderOrSame(ids, cursor) == {i \in ids : cursor = 0 \/ i <= cursor}

(* `if cursor: where(Link.id < cursor)'.                                   *)
Older(ids, cursor) == {i \in ids : cursor = 0 \/ i < cursor}

(* One row more than a page is fetched, to know whether there is one.      *)
HasMore(ids) == Cardinality(Newest(ids, PageSize + 1)) > PageSize

(* Mutant of NextCursor: the id of the row that was fetched and not shown. *)
NextCursorUnshown(ids) ==
    CHOOSE i \in Newest(ids, PageSize + 1) : \A j \in Newest(ids, PageSize + 1) : i <= j

(* rows[-1].id                                                             *)
NextCursor(ids) ==
    CHOOSE i \in Newest(ids, PageSize) : \A j \in Newest(ids, PageSize) : i <= j

StartWalk(c) ==
    /\ cookie[c] # Nobody
    /\ walk[c].step = "idle"
    /\ walk' = [walk EXCEPT ![c].step = "reading", ![c].first = LinksOf(cookie[c])]
    /\ UNCHANGED <<accounts, state, owner>>

ListLinks(c) ==
    LET found == Older(LinksOf(cookie[c]), walk[c].cursor)
        shown == Newest(found, PageSize)
    IN  /\ walk[c].step = "reading"
        /\ walk' = [walk EXCEPT
               ![c].step = IF HasMore(found) THEN "reading" ELSE "ended",
               ![c].cursor = IF HasMore(found) THEN NextCursor(found) ELSE 0,
               ![c].seen = @ \cup shown,
               ![c].twice = @ \cup (walk[c].seen \cap shown)]
        /\ UNCHANGED <<accounts, state, owner>>

CloseWalk(c) ==
    /\ walk[c].step = "ended"
    /\ walk' = [walk EXCEPT ![c] = NoWalk]
    /\ UNCHANGED <<accounts, state, owner>>

Next ==
    \/ \E r \in Registrations : LookUpEmail(r) \/ InsertUser(r) \/ InsertUserFails(r)
    \/ \E c \in Clients :
           \/ SessionLogout(c) \/ InsertLink(c)
           \/ StartWalk(c) \/ ListLinks(c) \/ CloseWalk(c)
           \/ \E r \in Registrations : SessionLogin(c, r)
    \/ \E i \in Ids : CommitLink(i) \/ RemoveLink(i)

Spec == Init /\ [][Next]_vars
-----------------------------------------------------------------------------
(***************************************************************************)
(* Properties.                                                             *)
(***************************************************************************)
(* The type invariant.                                                     *)
TypeOK ==
    /\ users \subseteq Registrations
    /\ reg \in [Registrations -> {"new", "hashing", "created", "conflict", "error"}]
    /\ cookie \in [Clients -> users \cup {Nobody}]
    /\ state \in [Ids -> {"free", "open", "live", "gone"}]
    /\ owner \in [Ids -> users \cup {Nobody}]
    /\ walk \in [Clients -> Walk]

(* However registrations of one address interleave between the lookup and  *)
(* the insert, there is one account for it; a 201 names an account and a   *)
(* 409 is only given where there is one (register_user).                   *)
OneAccount ==
    /\ \A u, v \in users : Email[u] = Email[v] => u = v
    /\ \A r \in Registrations :
           /\ reg[r] = "created" => r \in users
           /\ reg[r] = "conflict" => Taken(r) /\ r \notin users

(* A client that reads page after page misses no link that was there when  *)
(* it began and is there when it ends, whatever was committed, rolled back *)
(* or deleted in between, the row the cursor names included (list_links).  *)
WalkComplete ==
    \A c \in Clients :
        walk[c].step = "ended" =>
            walk[c].first \cap LinksOf(cookie[c]) \subseteq walk[c].seen

(* No link is shown on two pages of a walk, and no page shows a link of    *)
(* another account, although ids are committed out of order (list_links).  *)
WalkOnce ==
    \A c \in Clients :
        /\ walk[c].twice = {}
        /\ \A i \in walk[c].seen : owner[i] = cookie[c]
=============================================================================
