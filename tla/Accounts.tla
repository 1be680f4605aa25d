------------------------------- MODULE Accounts -------------------------------
(***************************************************************************)
(* The accounts of the operators (apps/api/routers/auth.py, core/roles.py) *)
(* and the counters that bound the attempts to enter (core/ratelimit.py).  *)
(*                                                                         *)
(* A request reads its rows, then writes the columns it changed.  Nothing  *)
(* compares two passwords: whether the one presented is right is a choice. *)
(* Whoever acts holds a session token that has not expired; what he may do *)
(* is read from his row.  The time left of a counter and of a link counts  *)
(* down.                                                                   *)
(***************************************************************************)
EXTENDS Updates, Integers, FiniteSets

CONSTANTS Users,     \* accounts, by email
          Founders,  \* the administrators there are at first
          Addresses, \* addresses requests come from
          LIMIT,     \* attempts a window allows, by key
          WINDOW,    \* length of a window
          LinkTTL,   \* _RESET_TTL_MINUTES
          MaxLink,   \* bound on the links sent
          MaxWrites, \* bound on the transactions of a behaviour that counts attempts
          Requests   \* requests in flight

\* The user of a link that was not sent.
NoOne == "nobody"

ASSUME AccountsAssumption ==
    /\ NoOne \notin Users
    /\ Founders \subseteq Users
    /\ LIMIT \in Nat
    /\ {WINDOW, LinkTTL} \subseteq Nat \ {0}
    /\ {MaxLink, MaxWrites} \subseteq Nat

VARIABLES prod,     \* whether attempts are limited: in production only
          user,     \* users: role and is_active
          link,     \* password_reset_tokens
          counter,  \* the keys of Redis: count, and time left
          redis,    \* whether Redis answers
          request,  \* what each request has read
          quiet,    \* the requests during which no other one committed
          tried,    \* history: the passwords checked in the window of each key
          writes    \* the transactions committed in production, up to MaxWrites

vars == <<prod, user, link, counter, redis, request, quiet, tried, writes>>

rows == <<user, link>>
limits == <<prod, counter, redis, tried>>

\* Each of the two routes counts by address and by account.
Keys == {"login", "change-password"} \X (Addresses \cup Users)

-----------------------------------------------------------------------------
\* Roles.

LEVEL == [viewer |-> 0, developer |-> 1, pm |-> 2, cto |-> 3, admin |-> 4]

\* An unknown role is below all the others.
level_of(role) == IF role \in DOMAIN LEVEL THEN LEVEL[role] ELSE -1

has_at_least(role, minimum) == level_of(role) >= LEVEL[minimum]

\* get_current_user, require_role: the row decides, not the token.
require_role(u, minimum) == user[u].is_active /\ has_at_least(user[u].role, minimum)

-----------------------------------------------------------------------------
\* The limiter.

\* Mutant: every attempt starts the window again.
RearmedAlways(k) == WINDOW

\* EXPIRE NX: a window is not extended by the attempts made in it.
Rearmed(k) == IF counter[k].left = 0 THEN WINDOW ELSE counter[k].left

\* check_and_increment, in one transaction of Redis; counts beyond LIMIT + 1 are alike.
Incremented(keys) ==
    [k \in Keys |->
        IF k \in keys /\ prod /\ redis
        THEN [count |-> IF counter[k].count > LIMIT THEN LIMIT + 1 ELSE counter[k].count + 1,
              left |-> Rearmed(k)]
        ELSE counter[k]]

Exceeded(k) == prod /\ redis /\ counter[k].count >= LIMIT

\* Mutant: an attempt is refused only if both its keys are exhausted.
RefusedBoth(keys) == \A k \in keys : Exceeded(k)

\* Both keys are counted, one exhausted key is enough; without Redis nothing is refused.
Refused(keys) == \E k \in keys : Exceeded(k)

\* The keys of an attempt from an address, on an account.
KeysOf(route, u, address) == {<<route, u>>, <<route, address>>}

Attempt(keys) ==
    /\ counter' = Incremented(keys)
    /\ tried' = [k \in Keys |->
           IF k \in keys /\ prod /\ redis /\ ~Refused(keys) THEN tried[k] + 1 ELSE tried[k]]
    /\ UNCHANGED <<prod, redis>>

-----------------------------------------------------------------------------
\* Requests.

Idle == [pc |-> "idle"]

Begin(r, t) ==
    /\ request[r] = Idle
    /\ prod => writes < MaxWrites
    /\ request' = [request EXCEPT ![r] = t]
    /\ quiet' = quiet \cup {r}
    /\ UNCHANGED <<rows, writes>>

Commit(r) ==
    /\ writes' = IF prod /\ writes < MaxWrites THEN writes + 1 ELSE writes
    /\ request' = [request EXCEPT ![r] = Idle]
    /\ quiet' = {}
    /\ UNCHANGED limits

\* login: it writes nothing.
login(u, address) ==
    /\ Attempt(KeysOf("login", u, address))
    /\ UNCHANGED <<rows, request, quiet, writes>>

\* Mutant: former links stay open.
SupersededNone(u) == {}

\* The former links of a user, that the statement closes.
Superseded(u) == {l \in DOMAIN link : link[l].user = u /\ ~link[l].used}

\* forgot_password: the statement runs, the link is inserted and the whole committed.
BeginForgot(r, u) ==
    /\ user[u].role # "absent"
    /\ Begin(r, [pc |-> "forgetting", user |-> u, closed |-> Superseded(u)])
    /\ UNCHANGED limits

CommitForgot(r) ==
    LET t == request[r]
        fresh == {l \in DOMAIN link : link[l].user = NoOne}
        new == CHOOSE l \in fresh : \A m \in fresh : l <= m
    IN  /\ t.pc = "forgetting"
        /\ fresh # {}
        /\ link' = [l \in DOMAIN link |->
               IF l \in t.closed THEN [link[l] EXCEPT !.used = TRUE]
               ELSE IF l = new THEN [user |-> t.user, used |-> FALSE, left |-> LinkTTL]
               ELSE link[l]]
        /\ Commit(r)
        /\ UNCHANGED user

Live(l) == link[l].user # NoOne /\ ~link[l].used /\ link[l].left > 0

\* reset_password.
BeginReset(r, l) ==
    /\ Live(l)
    /\ Begin(r, [pc |-> "resetting", link |-> l])
    /\ UNCHANGED limits

CommitReset(r) ==
    /\ request[r].pc = "resetting"
    /\ link' = [link EXCEPT ![request[r].link].used = TRUE]
    /\ Commit(r)
    /\ UNCHANGED user

\* change_password: the attempts are counted, and a right one writes the password.
change_password(u, address) ==
    /\ require_role(u, "viewer")
    /\ Attempt(KeysOf("change-password", u, address))
    /\ quiet' = IF Refused(KeysOf("change-password", u, address)) THEN quiet ELSE {}
    /\ UNCHANGED <<rows, request, writes>>

\* create_user: the email is looked up, and unique.
BeginCreate(r, admin, u, role) ==
    /\ require_role(admin, "admin")
    /\ user[u].role = "absent"
    /\ Begin(r, [pc |-> "creating", user |-> u, role |-> role])
    /\ UNCHANGED limits

CommitCreate(r) ==
    LET t == request[r]
    IN  /\ t.pc = "creating"
        /\ user[t.user].role = "absent"
        /\ user' = [user EXCEPT ![t.user] = [role |-> t.role, is_active |-> TRUE]]
        /\ Commit(r)
        /\ UNCHANGED link

\* Mutant: only a demotion is looked at.
HarmsSelfByRole(admin, u, role, is_active) == u = admin /\ role # "admin"

\* An administrator may neither demote nor deactivate himself.
HarmsSelf(admin, u, role, is_active) == u = admin /\ (role # "admin" \/ ~is_active)

\* update_user; a column left out of the body is one that keeps its value.
BeginUpdate(r, admin, u, role, is_active) ==
    /\ require_role(admin, "admin")
    /\ user[u].role # "absent"
    /\ ~HarmsSelf(admin, u, role, is_active)
    /\ Begin(r, [pc |-> "updating", user |-> u, role |-> Changed(user[u].role, role),
                 is_active |-> Changed(user[u].is_active, is_active)])
    /\ UNCHANGED limits

CommitUpdate(r) ==
    LET t == request[r]
    IN  /\ t.pc = "updating"
        /\ user' = [user EXCEPT ![t.user] =
               [role |-> Written(@.role, t.role), is_active |-> Written(@.is_active, t.is_active)]]
        /\ Commit(r)
        /\ UNCHANGED link

\* A request fails: a constraint, or its process dies.
Abort(r) ==
    /\ request[r] # Idle
    /\ request' = [request EXCEPT ![r] = Idle]
    /\ quiet' = quiet \ {r}
    /\ UNCHANGED <<rows, limits, writes>>

-----------------------------------------------------------------------------
Less(n) == IF n > 0 THEN n - 1 ELSE 0

\* Time passes: a key that has no time left is gone.
Tick ==
    /\ counter' = [k \in Keys |->
           IF counter[k].left > 1 THEN [counter[k] EXCEPT !.left = @ - 1]
           ELSE [count |-> 0, left |-> 0]]
    /\ tried' = [k \in Keys |-> IF counter[k].left > 1 THEN tried[k] ELSE 0]
    /\ link' = [l \in DOMAIN link |-> [link[l] EXCEPT !.left = Less(@)]]
    /\ UNCHANGED <<prod, user, redis, request, quiet, writes>>

RedisFlips ==
    /\ prod
    /\ redis' = ~redis
    /\ UNCHANGED <<prod, rows, counter, tried, request, quiet, writes>>

Init ==
    /\ user = [u \in Users |-> [role |-> IF u \in Founders THEN "admin" ELSE "absent",
                                is_active |-> u \in Founders]]
    /\ link = [l \in 1..MaxLink |-> [user |-> NoOne, used |-> FALSE, left |-> 0]]
    /\ counter = [k \in Keys |-> [count |-> 0, left |-> 0]]
    /\ prod \in BOOLEAN
    /\ redis = TRUE
    /\ writes = 0
    /\ request = [r \in Requests |-> Idle]
    /\ quiet = {}
    /\ tried = [k \in Keys |-> 0]

Next ==
    \/ \E u \in Users, address \in Addresses : login(u, address) \/ change_password(u, address)
    \/ \E r \in Requests :
           \/ \E u \in Users : BeginForgot(r, u)
           \/ \E l \in DOMAIN link : BeginReset(r, l)
           \/ \E admin, u \in Users, role \in {"viewer", "admin"} :
                  \/ BeginCreate(r, admin, u, role)
                  \/ \E is_active \in BOOLEAN : BeginUpdate(r, admin, u, role, is_active)
           \/ CommitForgot(r) \/ CommitReset(r) \/ CommitCreate(r) \/ CommitUpdate(r) \/ Abort(r)
    \/ Tick \/ RedisFlips

Spec == Init /\ [][Next]_vars

\* Time passes.
FairSpec == Spec /\ WF_vars(Tick)

-----------------------------------------------------------------------------
(***************************************************************************)
(* Properties.                                                             *)
(***************************************************************************)

Role == {"absent", "viewer", "admin"}

\* Every variable ranges over what the code can store.
TypeOK ==
    /\ {prod, redis} \subseteq BOOLEAN
    /\ user \in [Users -> [role : Role, is_active : BOOLEAN]]
    /\ link \in [1..MaxLink -> [user : Users \cup {NoOne}, used : BOOLEAN, left : 0..LinkTTL]]
    /\ counter \in [Keys -> [count : 0..LIMIT + 1, left : 0..WINDOW]]
    /\ request \in [Requests ->
           {Idle}
             \cup [pc : {"forgetting"}, user : Users, closed : SUBSET (1..MaxLink)]
             \cup [pc : {"resetting"}, link : 1..MaxLink]
             \cup [pc : {"creating"}, user : Users, role : Role]
             \cup [pc : {"updating"}, user : Users, role : Column(Role), is_active : Column(BOOLEAN)]]
    /\ quiet \subseteq Requests
    /\ tried \in [Keys -> 0..LIMIT]
    /\ writes \in 0..MaxWrites

\* In no window are more than LIMIT passwords tried on one account or from one
\* address, however the attempts are spread over the other addresses and accounts,
\* as long as Redis counts them; and no counter is left without an end.
LimitHolds ==
    \A k \in Keys : tried[k] <= LIMIT /\ (counter[k].count > 0 => counter[k].left > 0)

\* What makes them inductive: a password that was tried was counted; a request
\* during which no other one commits still sees the links it will close, and the
\* administrator who sent it, whom it leaves one.
TriesCounted == \A k \in Keys : tried[k] <= counter[k].count

Undisturbed(t) ==
    /\ t.pc = "forgetting" => t.closed = Superseded(t.user)
    /\ t.pc \in {"creating", "updating"} =>
           \E admin \in Users :
               /\ require_role(admin, "admin")
               /\ t.pc = "updating" /\ t.user = admin =>
                      /\ Written(user[admin].role, t.role) = "admin"
                      /\ Written(user[admin].is_active, t.is_active)

QuietFacts == \A r \in quiet : Undisturbed(request[r])

\* The inductive invariant.
AccountsInv == TypeOK /\ LimitHolds /\ TriesCounted /\ QuietFacts

\* Whoever is refused is let in again once the window ends, even if somebody goes
\* on trying.
LockoutEnds == \A k \in Keys : []<>~Exceeded(k)

\* A change of an account during which no other request commits leaves an active
\* administrator: the one who made it.
AdminSurvivesAlone ==
    [][\A r \in quiet : request[r] # Idle /\ request'[r] = Idle /\ user' # user =>
          \E u \in Users : require_role(u, "admin")']_vars

\* After a request for a link during which no other request commits, it is the
\* only one that opens the account.
SupersedesAlone ==
    [][\A r \in quiet : request[r].pc = "forgetting" /\ request'[r] = Idle /\ link' # link =>
          Cardinality({l \in DOMAIN link : link'[l].user = request[r].user /\ ~link'[l].used}) = 1]_vars
=============================================================================
