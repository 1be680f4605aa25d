------------------------ MODULE AdministrationProofs ------------------------
(***************************************************************************)
(* What administrators manage: the accounts, for any number of users,      *)
(* addresses, links and overlapping requests.  The counters bound the      *)
(* attempts, and a request that no commit crosses leaves an administrator  *)
(* and one open link.  Then the policies: every action has one answer,     *)
(* that of the documented order, and an edit revives none by accident.     *)
(***************************************************************************)
EXTENDS Accounts, Policies, Orders, TLAPS

-----------------------------------------------------------------------------
\* Types.

Forgetting == [pc : {"forgetting"}, user : Users, closed : SUBSET (1..MaxLink)]
Resetting == [pc : {"resetting"}, link : 1..MaxLink]
Creating == [pc : {"creating"}, user : Users, role : Role]
Updating == [pc : {"updating"}, user : Users, role : Column(Role), is_active : Column(BOOLEAN)]

Request == {Idle} \cup Forgetting \cup Resetting \cup Creating \cup Updating

LEMMA RequestTyped == TypeOK => request \in [Requests -> Request]
BY DEF TypeOK, Request, Forgetting, Resetting, Creating, Updating

LEMMA RequestKinds ==
    ASSUME NEW t \in Request
    PROVE  /\ t.pc = "forgetting" => t \in Forgetting
           /\ t.pc = "resetting" => t \in Resetting
           /\ t.pc = "creating" => t \in Creating
           /\ t.pc = "updating" => t \in Updating
           /\ t.pc = "idle" => t = Idle
BY DEF Request, Forgetting, Resetting, Creating, Updating, Idle

LEMMA ColumnTyped ==
    ASSUME NEW S, NEW read \in S, NEW new \in S
    PROVE  /\ Changed(read, new) \in Column(S)
           /\ Written(read, Changed(read, new)) = new
BY DEF Changed, Column, Written

LEMMA WrittenTyped ==
    ASSUME NEW S, NEW current \in S, NEW column \in Column(S)
    PROVE  Written(current, column) \in S
BY DEF Column, Written

\* The columns of the counters and of the links.
Counter == [count : 0..LIMIT + 1, left : 0..WINDOW]
Link == [user : Users \cup {NoOne}, used : BOOLEAN, left : 0..LinkTTL]

\* An attempt is counted, and starts or continues a window.
LEMMA IncrementedTyped ==
    ASSUME counter \in [Keys -> Counter], NEW keys, NEW k \in Keys
    PROVE  /\ Incremented(keys)[k] \in Counter
           /\ k \in keys /\ prod /\ redis =>
                 /\ Incremented(keys)[k].left > 0
                 /\ Incremented(keys)[k].count > 0
                 /\ counter[k].count <= LIMIT =>
                        Incremented(keys)[k].count = counter[k].count + 1
                 /\ Incremented(keys)[k].count >= counter[k].count
           /\ ~(k \in keys /\ prod /\ redis) => Incremented(keys)[k] = counter[k]
<1> DEFINE c == counter[k]
           new == [count |-> IF c.count > LIMIT THEN LIMIT + 1 ELSE c.count + 1,
                   left |-> IF c.left = 0 THEN WINDOW ELSE c.left]
<1>1. LIMIT \in Nat /\ WINDOW \in Nat /\ WINDOW > 0
  BY AccountsAssumption DEF AccountsAssumption
<1>2. c.count \in 0..LIMIT + 1 /\ c.left \in 0..WINDOW /\ c \in Counter
  BY DEF Counter
<1>3. Incremented(keys)[k] = IF k \in keys /\ prod /\ redis THEN new ELSE c
  BY DEF Incremented, Rearmed
<1> HIDE DEF c
<1>4. /\ new \in Counter /\ new.left > 0 /\ new.count > 0
      /\ c.count <= LIMIT => new.count = c.count + 1
      /\ new.count >= c.count
  BY <1>1, <1>2 DEF Counter
<1> HIDE DEF new
<1> QED
  BY <1>2, <1>3, <1>4 DEF c

\* The counters after an attempt.
Limits == counter \in [Keys -> Counter] /\ tried \in [Keys -> 0..LIMIT]

LEMMA AttemptCounts ==
    ASSUME Limits, LimitHolds, TriesCounted, NEW keys, Attempt(keys)
    PROVE  Limits' /\ LimitHolds' /\ TriesCounted'
<1>1. LIMIT \in Nat
  BY AccountsAssumption DEF AccountsAssumption
<1>2. ASSUME NEW k \in Keys
      PROVE  /\ counter'[k] \in Counter
             /\ tried'[k] \in 0..LIMIT
             /\ tried'[k] <= LIMIT /\ (counter'[k].count > 0 => counter'[k].left > 0)
             /\ tried'[k] <= counter'[k].count
  <2>1. counter[k] \in Counter /\ counter[k].count \in 0..LIMIT + 1 /\ tried[k] \in 0..LIMIT
        /\ tried[k] <= counter[k].count /\ (counter[k].count > 0 => counter[k].left > 0)
    BY DEF Limits, Counter, LimitHolds, TriesCounted
  <2>2. /\ counter'[k] = Incremented(keys)[k]
        /\ tried'[k] = IF k \in keys /\ prod /\ redis /\ ~Refused(keys) THEN tried[k] + 1
                       ELSE tried[k]
    BY DEF Attempt
  <2>3. CASE k \in keys /\ prod /\ redis
    <3>1. /\ counter'[k] \in Counter /\ counter'[k].left > 0
          /\ counter[k].count <= LIMIT => counter'[k].count = counter[k].count + 1
          /\ counter'[k].count >= counter[k].count
      BY <2>2, <2>3, IncrementedTyped DEF Limits
    <3>2. ~Refused(keys) => ~(counter[k].count >= LIMIT)
      BY <2>3 DEF Refused, Exceeded
    <3>3. counter'[k].count \in 0..LIMIT + 1
      BY <3>1 DEF Counter
    <3>4. CASE Refused(keys)
      BY <1>1, <2>1, <2>2, <3>1, <3>3, <3>4
    <3>5. CASE ~Refused(keys)
      BY <1>1, <2>1, <2>2, <2>3, <3>1, <3>2, <3>3, <3>5
    <3> QED
      BY <3>4, <3>5
  <2>4. CASE ~(k \in keys /\ prod /\ redis)
    BY <1>1, <2>1, <2>2, <2>4, IncrementedTyped DEF Limits
  <2> QED
    BY <2>3, <2>4
<1>3. counter' = [k \in Keys |-> counter'[k]] /\ tried' = [k \in Keys |-> tried'[k]]
  BY DEF Attempt, Incremented
<1> QED
  BY <1>2, <1>3 DEF Limits, LimitHolds, TriesCounted

LEMMA TickCounts ==
    ASSUME Limits, LimitHolds, TriesCounted, Tick
    PROVE  Limits' /\ LimitHolds' /\ TriesCounted'
<1>1. LIMIT \in Nat /\ WINDOW \in Nat
  BY AccountsAssumption DEF AccountsAssumption
<1>2. ASSUME NEW k \in Keys
      PROVE  /\ counter'[k] \in Counter
             /\ tried'[k] \in 0..LIMIT
             /\ tried'[k] <= LIMIT /\ (counter'[k].count > 0 => counter'[k].left > 0)
             /\ tried'[k] <= counter'[k].count
  <2>1. /\ counter[k] \in Counter
        /\ counter[k].count \in 0..LIMIT + 1 /\ counter[k].left \in 0..WINDOW
        /\ tried[k] \in 0..LIMIT
        /\ tried[k] <= counter[k].count /\ (counter[k].count > 0 => counter[k].left > 0)
    BY DEF Limits, Counter, LimitHolds, TriesCounted
  <2>2. CASE counter[k].left > 1
    <3>1. counter'[k] = [counter[k] EXCEPT !.left = @ - 1] /\ tried'[k] = tried[k]
      BY <2>2 DEF Tick
    <3>2. counter'[k].left = counter[k].left - 1 /\ counter'[k].count = counter[k].count
          /\ counter'[k] \in [count : 0..LIMIT + 1, left : 0..WINDOW]
      BY <1>1, <2>1, <2>2, <3>1 DEF Counter
    <3> QED
      BY <1>1, <2>1, <2>2, <3>1, <3>2 DEF Counter
  <2>3. CASE ~(counter[k].left > 1)
    <3>1. counter'[k] = [count |-> 0, left |-> 0] /\ tried'[k] = 0
      BY <2>3 DEF Tick
    <3> QED
      BY <1>1, <3>1 DEF Counter
  <2> QED
    BY <2>2, <2>3
<1>3. counter' = [k \in Keys |-> counter'[k]] /\ tried' = [k \in Keys |-> tried'[k]]
  BY DEF Tick
<1> QED
  BY <1>2, <1>3 DEF Limits, LimitHolds, TriesCounted

-----------------------------------------------------------------------------
\* The inductive invariant.

Account == [role : Role, is_active : BOOLEAN]

RowsTyped == user \in [Users -> Account] /\ link \in [1..MaxLink -> Link]

LEMMA TypeParts ==
    TypeOK <=> /\ {prod, redis} \subseteq BOOLEAN
               /\ RowsTyped /\ Limits
               /\ request \in [Requests -> Request]
               /\ quiet \subseteq Requests
               /\ writes \in 0..MaxWrites
BY DEF TypeOK, RowsTyped, Limits, Account, Link, Counter, Request, Forgetting, Resetting,
       Creating, Updating

\* The same after a step.
LEMMA TypePartsAfter ==
    ASSUME {prod', redis'} \subseteq BOOLEAN, RowsTyped', Limits',
           request' \in [Requests -> Request], quiet' \subseteq Requests,
           writes' \in 0..MaxWrites
    PROVE  TypeOK'
BY DEF TypeOK, RowsTyped, Limits, Account, Link, Counter, Request, Forgetting, Resetting,
       Creating, Updating

LEMMA InitAccounts == Init => AccountsInv
<1> SUFFICES ASSUME Init PROVE AccountsInv
  OBVIOUS
<1>1. /\ LIMIT \in Nat /\ WINDOW \in Nat /\ LinkTTL \in Nat /\ MaxLink \in Nat
      /\ MaxWrites \in Nat
  BY AccountsAssumption DEF AccountsAssumption
<1>2. RowsTyped
  BY <1>1 DEF Init, RowsTyped, Account, Role, Link
<1>3. Limits /\ LimitHolds /\ TriesCounted
  BY <1>1 DEF Init, Limits, Counter, LimitHolds, TriesCounted
<1>4. request \in [Requests -> Request] /\ {prod, redis} \subseteq BOOLEAN
      /\ quiet = {} /\ writes \in 0..MaxWrites
  BY <1>1 DEF Init, Request
<1> QED
  BY <1>2, <1>3, <1>4, TypeParts DEF AccountsInv, QuietFacts

\* A request enters: what it has read is what is committed.
LEMMA EnterStep ==
    ASSUME AccountsInv, NEW r \in Requests, NEW t \in Request, Undisturbed(t),
           Begin(r, t), UNCHANGED limits
    PROVE  AccountsInv'
<1>1. /\ request' = [request EXCEPT ![r] = t] /\ quiet' = quiet \cup {r}
      /\ UNCHANGED <<user, link, writes>>
      /\ UNCHANGED <<prod, counter, redis, tried>>
  BY DEF Begin, rows, limits
<1>2. request \in [Requests -> Request] /\ quiet \subseteq Requests
  BY TypeParts DEF AccountsInv
<1>3. TypeOK'
  <2>1. request' \in [Requests -> Request] /\ quiet' \subseteq Requests
    BY <1>1, <1>2
  <2>2. RowsTyped' /\ Limits' /\ {prod', redis'} \subseteq BOOLEAN /\ writes' \in 0..MaxWrites
    BY <1>1, TypeParts DEF AccountsInv, RowsTyped, Limits
  <2> QED
    BY <2>1, <2>2, TypePartsAfter
<1>4. QuietFacts'
  <2>1. ASSUME NEW q \in quiet' PROVE Undisturbed(request'[q])
    BY <1>1, <1>2 DEF AccountsInv, QuietFacts
  <2> QED
    BY <2>1, <1>1 DEF QuietFacts, Undisturbed, Superseded, require_role
<1> QED
  BY <1>1, <1>3, <1>4 DEF AccountsInv, LimitHolds, TriesCounted

\* A request ends without a trace.
LEMMA AbortStep ==
    ASSUME AccountsInv, NEW r \in Requests, Abort(r)
    PROVE  AccountsInv'
<1>1. /\ request' = [request EXCEPT ![r] = Idle] /\ quiet' = quiet \ {r}
      /\ UNCHANGED <<user, link, writes>>
      /\ UNCHANGED <<prod, counter, redis, tried>>
  BY DEF Abort, rows, limits
<1>2. request \in [Requests -> Request] /\ quiet \subseteq Requests
  BY TypeParts DEF AccountsInv
<1>3. TypeOK'
  <2>1. request' \in [Requests -> Request] /\ quiet' \subseteq Requests
    BY <1>1, <1>2 DEF Request
  <2>2. RowsTyped' /\ Limits' /\ {prod', redis'} \subseteq BOOLEAN /\ writes' \in 0..MaxWrites
    BY <1>1, TypeParts DEF AccountsInv, RowsTyped, Limits
  <2> QED
    BY <2>1, <2>2, TypePartsAfter
<1>4. QuietFacts'
  <2>1. ASSUME NEW q \in quiet' PROVE Undisturbed(request'[q])
    BY <1>1, <1>2 DEF AccountsInv, QuietFacts
  <2> QED
    BY <2>1, <1>1 DEF QuietFacts, Undisturbed, Superseded, require_role
<1> QED
  BY <1>1, <1>3, <1>4 DEF AccountsInv, LimitHolds, TriesCounted

\* A commit disturbs every other request.
LEMMA CommitStep ==
    ASSUME AccountsInv, NEW r \in Requests, Commit(r), RowsTyped'
    PROVE  AccountsInv'
<1>1. /\ request' = [request EXCEPT ![r] = Idle] /\ quiet' = {}
      /\ writes' = IF prod /\ writes < MaxWrites THEN writes + 1 ELSE writes
      /\ UNCHANGED <<prod, counter, redis, tried>>
  BY DEF Commit, limits
<1>2. writes \in 0..MaxWrites /\ MaxWrites \in Nat /\ request \in [Requests -> Request]
  BY TypeParts, AccountsAssumption DEF AccountsInv, AccountsAssumption
<1>3. TypeOK'
  <2>1. request' \in [Requests -> Request] /\ quiet' \subseteq Requests
    BY <1>1, <1>2 DEF Request
  <2>2. writes' \in 0..MaxWrites
    BY <1>1, <1>2
  <2>3. Limits' /\ {prod', redis'} \subseteq BOOLEAN
    BY <1>1, TypeParts DEF AccountsInv, Limits
  <2> QED
    BY <2>1, <2>2, <2>3, TypePartsAfter
<1> QED
  BY <1>1, <1>3 DEF AccountsInv, LimitHolds, TriesCounted, QuietFacts

\* The clock and the limiter leave the accounts and who opens them alone.
LEMMA CounterStep ==
    ASSUME AccountsInv, Limits', LimitHolds', TriesCounted',
           {prod', redis'} \subseteq BOOLEAN, RowsTyped',
           UNCHANGED <<user, request, writes>>, quiet' \in {quiet, {}},
           \A u : Superseded(u)' = Superseded(u)
    PROVE  AccountsInv'
<1>1. TypeOK'
  BY TypeParts, TypePartsAfter DEF AccountsInv
<1>2. QuietFacts'
  BY DEF AccountsInv, QuietFacts, Undisturbed, require_role
<1> QED
  BY <1>1, <1>2 DEF AccountsInv

LEMMA BeginSteps ==
    ASSUME AccountsInv, NEW r \in Requests,
           \/ \E u \in Users : BeginForgot(r, u)
           \/ \E l \in DOMAIN link : BeginReset(r, l)
           \/ \E admin, u \in Users, role \in {"viewer", "admin"} :
                  \/ BeginCreate(r, admin, u, role)
                  \/ \E is_active \in BOOLEAN : BeginUpdate(r, admin, u, role, is_active)
    PROVE  AccountsInv'
<1> /\ user \in [Users -> Account] /\ link \in [1..MaxLink -> Link]
  BY TypeParts DEF AccountsInv, RowsTyped
<1>1. ASSUME NEW u \in Users, BeginForgot(r, u) PROVE AccountsInv'
  <2> DEFINE t == [pc |-> "forgetting", user |-> u, closed |-> Superseded(u)]
  <2>1. t \in Request
    BY DEF Request, Forgetting, Superseded
  <2>2. Undisturbed(t)
    BY DEF Undisturbed
  <2> QED
    BY <1>1, <2>1, <2>2, EnterStep DEF BeginForgot
<1>2. ASSUME NEW l \in DOMAIN link, BeginReset(r, l) PROVE AccountsInv'
  <2> DEFINE t == [pc |-> "resetting", link |-> l]
  <2>1. t \in Request /\ Undisturbed(t)
    BY DEF Request, Resetting, Undisturbed
  <2> QED
    BY <1>2, <2>1, EnterStep DEF BeginReset
<1>3. ASSUME NEW admin \in Users, NEW u \in Users, NEW role \in {"viewer", "admin"},
             BeginCreate(r, admin, u, role)
      PROVE  AccountsInv'
  <2> DEFINE t == [pc |-> "creating", user |-> u, role |-> role]
  <2>1. t \in Request
    BY DEF Request, Creating, Role
  <2>2. Undisturbed(t)
    BY <1>3 DEF BeginCreate, Undisturbed
  <2> QED
    BY <1>3, <2>1, <2>2, EnterStep DEF BeginCreate
<1>4. ASSUME NEW admin \in Users, NEW u \in Users, NEW role \in {"viewer", "admin"},
             NEW is_active \in BOOLEAN, BeginUpdate(r, admin, u, role, is_active)
      PROVE  AccountsInv'
  <2> DEFINE asRole == Changed(user[u].role, role)
             asActive == Changed(user[u].is_active, is_active)
             t == [pc |-> "updating", user |-> u, role |-> asRole, is_active |-> asActive]
  <2>1. /\ asRole \in Column(Role) /\ Written(user[u].role, asRole) = role
        /\ asActive \in Column(BOOLEAN) /\ Written(user[u].is_active, asActive) = is_active
    <3>1. user[u].role \in Role /\ role \in Role /\ user[u].is_active \in BOOLEAN
      BY DEF Account, Role
    <3>2. asRole \in Column(Role) /\ Written(user[u].role, asRole) = role
      <4>1. \A old, new \in Role : /\ Changed(old, new) \in Column(Role)
                                   /\ Written(old, Changed(old, new)) = new
        BY ColumnTyped
      <4> QED
        BY <3>1, <4>1
    <3>3. asActive \in Column(BOOLEAN) /\ Written(user[u].is_active, asActive) = is_active
      BY <3>1, ColumnTyped, Zenon
    <3> QED
      BY <3>2, <3>3
  <2> HIDE DEF asRole, asActive
  <2>2. t \in Request
    BY <2>1 DEF Request, Updating
  <2>3. Undisturbed(t)
    BY <1>4, <2>1 DEF BeginUpdate, HarmsSelf, Undisturbed
  <2> QED
    BY <1>4, <2>2, <2>3, EnterStep DEF BeginUpdate, asRole, asActive
<1> QED
  BY <1>1, <1>2, <1>3, <1>4

\* What the commits write.
LEMMA NewestFresh ==
    ASSUME NEW fresh \in SUBSET Nat, fresh # {}
    PROVE  (CHOOSE l \in fresh : \A m \in fresh : l <= m) \in fresh
<1>1. \E l \in fresh : \A m \in fresh : l <= m
  BY LeastNumber
<1> QED
  BY <1>1

LEMMA CommitSteps ==
    ASSUME AccountsInv, NEW r \in Requests,
           CommitForgot(r) \/ CommitReset(r) \/ CommitCreate(r) \/ CommitUpdate(r)
    PROVE  AccountsInv'
<1> /\ user \in [Users -> Account] /\ link \in [1..MaxLink -> Link]
    /\ request[r] \in Request
  BY TypeParts DEF AccountsInv, RowsTyped
<1>1. CASE CommitForgot(r)
  <2>1. request[r] \in Forgetting
    BY <1>1, RequestKinds DEF CommitForgot
  <2>2. LinkTTL \in 0..LinkTTL
    BY AccountsAssumption DEF AccountsAssumption
  <2>3. link' \in [1..MaxLink -> Link]
    BY ZenonT(60), <1>1, <2>1, <2>2 DEF CommitForgot, Forgetting, Link
  <2> QED
    BY <1>1, <2>3, CommitStep DEF CommitForgot, RowsTyped
<1>2. CASE CommitReset(r)
  <2>1. link' \in [1..MaxLink -> Link]
    BY <1>2 DEF CommitReset, Link
  <2> QED
    BY <1>2, <2>1, CommitStep DEF CommitReset, RowsTyped
<1>3. CASE CommitCreate(r)
  <2>1. request[r] \in Creating
    BY <1>3, RequestKinds DEF CommitCreate
  <2>2. user' \in [Users -> Account]
    BY <1>3, <2>1 DEF CommitCreate, Creating, Account
  <2> QED
    BY <1>3, <2>2, CommitStep DEF CommitCreate, RowsTyped
<1>4. CASE CommitUpdate(r)
  <2> DEFINE t == request[r]
             row == user[t.user]
  <2>1. t \in Updating
    BY <1>4, RequestKinds DEF CommitUpdate
  <2>2. row \in Account
    BY <2>1 DEF Updating
  <2>3. Written(row.role, t.role) \in Role /\ Written(row.is_active, t.is_active) \in BOOLEAN
    BY <2>1, <2>2, WrittenTyped DEF Updating, Account
  <2>4. user' \in [Users -> Account]
    BY <1>4, <2>1, <2>3 DEF CommitUpdate, Updating, Account
  <2> QED
    BY <1>4, <2>4, CommitStep DEF CommitUpdate, RowsTyped
<1> QED
  BY <1>1, <1>2, <1>3, <1>4

LEMMA NextAccounts == AccountsInv /\ [Next]_vars => AccountsInv'
<1> SUFFICES ASSUME AccountsInv, [Next]_vars PROVE AccountsInv'
  OBVIOUS
<1> /\ RowsTyped /\ Limits /\ LimitHolds /\ TriesCounted /\ {prod, redis} \subseteq BOOLEAN
  BY TypeParts DEF AccountsInv
<1>1. ASSUME NEW u \in Users, NEW address \in Addresses, login(u, address)
      PROVE  AccountsInv'
  <2>1. Attempt(KeysOf("login", u, address)) /\ UNCHANGED <<user, link, request, quiet, writes>>
    BY <1>1 DEF login, rows
  <2>2. Limits' /\ LimitHolds' /\ TriesCounted' /\ UNCHANGED <<prod, redis>>
    BY <2>1, AttemptCounts DEF Attempt
  <2> QED
    BY <2>1, <2>2, CounterStep DEF RowsTyped, Superseded
<1>2. ASSUME NEW u \in Users, NEW address \in Addresses, change_password(u, address)
      PROVE  AccountsInv'
  <2>1. /\ Attempt(KeysOf("change-password", u, address))
        /\ UNCHANGED <<user, link, request, writes>> /\ quiet' \in {quiet, {}}
    BY <1>2 DEF change_password, rows
  <2>2. Limits' /\ LimitHolds' /\ TriesCounted' /\ UNCHANGED <<prod, redis>>
    BY <2>1, AttemptCounts DEF Attempt
  <2> QED
    BY <2>1, <2>2, CounterStep DEF RowsTyped, Superseded
<1>3. CASE Tick
  <2>1. Limits' /\ LimitHolds' /\ TriesCounted'
    BY <1>3, TickCounts
  <2>2. ASSUME NEW l \in 1..MaxLink
        PROVE  /\ link'[l] \in Link
               /\ link'[l].user = link[l].user /\ link'[l].used = link[l].used
    <3>1. link[l] \in Link /\ LinkTTL \in Nat /\ link'[l] = [link[l] EXCEPT !.left = Less(@)]
      BY <1>3, AccountsAssumption DEF Tick, RowsTyped, AccountsAssumption
    <3>2. Less(link[l].left) \in 0..LinkTTL
      BY <3>1 DEF Less, Link
    <3> QED
      BY <3>1, <3>2 DEF Link
  <2>3. DOMAIN link = 1..MaxLink /\ link' = [l \in 1..MaxLink |-> link'[l]]
    BY <1>3 DEF Tick, RowsTyped
  <2>4. RowsTyped'
    BY <1>3, <2>2, <2>3 DEF Tick, RowsTyped
  <2>5. \A u : Superseded(u)' = Superseded(u)
    BY <2>2, <2>3 DEF Superseded
  <2> QED
    BY <1>3, <2>1, <2>4, <2>5, CounterStep DEF Tick
<1>4. CASE RedisFlips
  <2>1. /\ UNCHANGED <<prod, user, link, counter, tried, request, quiet, writes>>
        /\ redis' \in BOOLEAN
    BY <1>4 DEF RedisFlips, rows
  <2> QED
    BY <2>1, CounterStep DEF RowsTyped, Superseded, Limits, LimitHolds, TriesCounted
<1>5. CASE UNCHANGED vars
  <2>1. UNCHANGED <<prod, user, link, counter, redis, tried, request, quiet, writes>>
    BY <1>5 DEF vars
  <2> QED
    BY <2>1, CounterStep DEF RowsTyped, Superseded, Limits, LimitHolds, TriesCounted
<1> QED
  BY <1>1, <1>2, <1>3, <1>4, <1>5, BeginSteps, CommitSteps, AbortStep DEF Next

\* Whatever is attempted from wherever, no window admits more than LIMIT passwords on
\* a key while Redis counts, and every counter ends.
THEOREM AttemptsBounded == Spec => []AccountsInv
<1> QED
  BY InitAccounts, NextAccounts, PTL DEF Spec

-----------------------------------------------------------------------------
\* Requests that no commit crosses.

\* A step that ends a request and writes a row is the commit of that request.
LEMMA WhoCommits ==
    ASSUME AccountsInv, [Next]_vars, NEW r \in Requests, request[r] # Idle, request'[r] = Idle,
           user' # user \/ link' # link
    PROVE  CommitForgot(r) \/ CommitReset(r) \/ CommitCreate(r) \/ CommitUpdate(r)
<1> request \in [Requests -> Request]
  BY TypeParts DEF AccountsInv
<1>1. request' # request
  OBVIOUS
<1>2. ASSUME NEW q \in Requests, request' = [request EXCEPT ![q] = Idle] PROVE q = r
  BY <1>2
<1>3. ~Tick /\ ~RedisFlips /\ ~UNCHANGED vars
  BY <1>1 DEF Tick, RedisFlips, vars
<1>4. ASSUME NEW u \in Users, NEW address \in Addresses,
             login(u, address) \/ change_password(u, address)
      PROVE  FALSE
  BY <1>1, <1>4 DEF login, change_password
<1>5. ASSUME UNCHANGED rows PROVE FALSE
  BY <1>5 DEF rows
<1>6. ASSUME NEW q \in Requests,
             CommitForgot(q) \/ CommitReset(q) \/ CommitCreate(q) \/ CommitUpdate(q)
      PROVE  q = r
  BY <1>2, <1>6 DEF CommitForgot, CommitReset, CommitCreate, CommitUpdate, Commit
<1> QED
  BY <1>3, <1>4, <1>5, <1>6
  DEF Next, BeginForgot, BeginReset, BeginCreate, BeginUpdate, Begin, Abort

\* A change of an account that no commit crosses leaves an active administrator.
THEOREM AdministratorRemains == Spec => AdminSurvivesAlone
<1>1. ASSUME AccountsInv, [Next]_vars, NEW r \in quiet, request[r] # Idle, request'[r] = Idle,
             user' # user
      PROVE  \E u \in Users : require_role(u, "admin")'
  <2>1. /\ r \in Requests /\ request[r] \in Request /\ user \in [Users -> Account]
        /\ Undisturbed(request[r])
    BY <1>1, TypeParts DEF AccountsInv, RowsTyped, QuietFacts
  <2> DEFINE t == request[r]
  <2>2. CommitCreate(r) \/ CommitUpdate(r)
    BY <1>1, <2>1, WhoCommits DEF CommitForgot, CommitReset
  <2>3. t.pc \in {"creating", "updating"}
    BY <2>2 DEF CommitCreate, CommitUpdate
  <2>4. PICK admin \in Users :
          /\ require_role(admin, "admin")
          /\ t.pc = "updating" /\ t.user = admin =>
                 /\ Written(user[admin].role, t.role) = "admin"
                 /\ Written(user[admin].is_active, t.is_active)
    BY <2>1, <2>3 DEF Undisturbed
  <2>5. \/ user'[admin] = user[admin]
        \/ user'[admin].role = "admin" /\ user'[admin].is_active
    <3>1. CASE CommitCreate(r)
      <4>1. user[t.user].role = "absent" =>  ~require_role(t.user, "admin")
        BY DEF require_role, has_at_least, level_of, LEVEL
      <4>2. user[t.user].role = "absent" /\ user' = [user EXCEPT ![t.user] =
                [role |-> t.role, is_active |-> TRUE]]
        BY <3>1 DEF CommitCreate
      <4>3. t.user # admin
        BY <2>4, <4>1, <4>2
      <4> QED
        BY <2>1, <4>2, <4>3
    <3>2. CASE CommitUpdate(r) /\ t.user = admin
      <4>1. /\ t.pc = "updating"
            /\ user' = [user EXCEPT ![admin] = [role |-> Written(@.role, t.role),
                                                is_active |-> Written(@.is_active, t.is_active)]]
        BY <3>2 DEF CommitUpdate
      <4> QED
        BY <2>1, <2>4, <3>2, <4>1
    <3>3. CASE CommitUpdate(r) /\ t.user # admin
      <4>1. user' = [user EXCEPT ![t.user] = [role |-> Written(@.role, t.role),
                                              is_active |-> Written(@.is_active, t.is_active)]]
        BY <3>3 DEF CommitUpdate
      <4> QED
        BY <2>1, <3>3, <4>1
    <3> QED
      BY <2>2, <3>1, <3>2, <3>3
  <2>6. LEVEL["admin"] = 4 /\ "admin" \in DOMAIN LEVEL
    BY DEF LEVEL
  <2> QED
    BY <2>4, <2>5, <2>6 DEF require_role, has_at_least, level_of
<1>2. AccountsInv /\ [Next]_vars =>
        [\A r \in quiet : request[r] # Idle /\ request'[r] = Idle /\ user' # user =>
             \E u \in Users : require_role(u, "admin")']_vars
  BY <1>1
<1> QED
  BY <1>2, AttemptsBounded, PTL DEF Spec, AdminSurvivesAlone

\* After a request for a link that no commit crosses, one link opens the account.
THEOREM OneLinkRemains == Spec => SupersedesAlone
<1>1. ASSUME AccountsInv, [Next]_vars, NEW r \in quiet, request[r].pc = "forgetting",
             request'[r] = Idle, link' # link
      PROVE  Cardinality({l \in DOMAIN link : link'[l].user = request[r].user
                                                /\ ~link'[l].used}) = 1
  <2> DEFINE t == request[r]
             fresh == {l \in DOMAIN link : link[l].user = NoOne}
             new == CHOOSE l \in fresh : \A m \in fresh : l <= m
  <2>1. /\ r \in Requests /\ t \in Request /\ link \in [1..MaxLink -> Link]
        /\ t.closed = Superseded(t.user)
    BY <1>1, TypeParts DEF AccountsInv, RowsTyped, QuietFacts, Undisturbed
  <2>2. t \in Forgetting /\ t # Idle
    BY <1>1, <2>1, RequestKinds DEF Idle
  <2>3. t.user \in Users /\ t.user # NoOne
    BY <2>2, AccountsAssumption DEF Forgetting, AccountsAssumption
  <2>4. CommitForgot(r)
    BY <1>1, <2>1, <2>2, WhoCommits DEF CommitReset, CommitCreate, CommitUpdate
  <2>5. new \in fresh
    <3>1. fresh # {} /\ fresh \in SUBSET Nat
      BY <2>1, <2>4 DEF CommitForgot
    <3> HIDE DEF fresh
    <3> QED
      BY <3>1, NewestFresh
  <2>6. link' = [l \in DOMAIN link |->
               IF l \in t.closed THEN [link[l] EXCEPT !.used = TRUE]
               ELSE IF l = new THEN [user |-> t.user, used |-> FALSE, left |-> LinkTTL]
               ELSE link[l]]
    BY <2>4 DEF CommitForgot
  <2> HIDE DEF new
  <2>7. new \in DOMAIN link /\ new \notin t.closed
    BY <2>1, <2>3, <2>5 DEF Superseded
  <2>8. ASSUME NEW l \in DOMAIN link
        PROVE  link'[l].user = t.user /\ ~link'[l].used <=> l = new
    <3>1. CASE l \in t.closed
      <4>1. link'[l].used
        BY <2>1, <2>6, <2>8, <3>1 DEF Link
      <4> QED
        BY <2>7, <3>1, <4>1
    <3>2. CASE l = new
      BY <2>6, <2>7, <3>2
    <3>3. CASE l \notin t.closed /\ l # new
      <4>1. link'[l] = link[l]
        BY <2>6, <2>8, <3>3
      <4> QED
        BY <2>1, <2>8, <3>3, <4>1 DEF Superseded
    <3> QED
      BY <3>1, <3>2, <3>3
  <2>9. {l \in DOMAIN link : link'[l].user = t.user /\ ~link'[l].used} = {new}
    BY <2>7, <2>8
  <2> QED
    BY <2>9, FS_Singleton
<1>2. AccountsInv /\ [Next]_vars =>
        [\A r \in quiet : request[r].pc = "forgetting" /\ request'[r] = Idle /\ link' # link =>
             Cardinality({l \in DOMAIN link : link'[l].user = request[r].user
                                                /\ ~link'[l].used}) = 1]_vars
  BY <1>1
<1> QED
  BY <1>2, AttemptsBounded, PTL DEF Spec, SupersedesAlone

-----------------------------------------------------------------------------
\* Policies, which administrators manage as well: which one wins.

\* The criteria, as numbers: what is smaller comes first.
Priority(p) == -policy[p].priority
Scope(p) == -SCOPE_SPECIFICITY[policy[p].scope_type]
Action(p) == IF policy[p].action_type = "*" THEN 0 ELSE -1

\* The order of tuples of four, written out.
First(p, q) ==
    \/ Priority(p) < Priority(q)
    \/ Priority(p) = Priority(q) /\ Scope(p) < Scope(q)
    \/ Priority(p) = Priority(q) /\ Scope(p) = Scope(q) /\ Action(p) < Action(q)
    \/ Priority(p) = Priority(q) /\ Scope(p) = Scope(q) /\ Action(p) = Action(q) /\ p < q

LEMMA TuplesOfFour ==
    ASSUME NEW k, NEW l, DOMAIN k = {1, 2, 3, 4}
    PROVE  Precedes(k, l) <=>
               \/ k[1] < l[1]
               \/ k[1] = l[1] /\ k[2] < l[2]
               \/ k[1] = l[1] /\ k[2] = l[2] /\ k[3] < l[3]
               \/ k[1] = l[1] /\ k[2] = l[2] /\ k[3] = l[3] /\ k[4] < l[4]
<1> DEFINE Decides(i) == k[i] < l[i] /\ \A j \in 1..(i - 1) : k[j] = l[j]
<1>1. Precedes(k, l) <=> Decides(1) \/ Decides(2) \/ Decides(3) \/ Decides(4)
  <2>1. Precedes(k, l) <=> \E i \in DOMAIN k : Decides(i)
    BY Zenon DEF Precedes
  <2> HIDE DEF Decides
  <2> QED
    BY <2>1
<1>2. /\ 1..(1 - 1) = {} /\ 1..(2 - 1) = {1} /\ 1..(3 - 1) = {1, 2}
      /\ 1..(4 - 1) = {1, 2, 3}
  OBVIOUS
<1>3. /\ Decides(1) <=> k[1] < l[1]
      /\ Decides(2) <=> k[1] = l[1] /\ k[2] < l[2]
      /\ Decides(3) <=> k[1] = l[1] /\ k[2] = l[2] /\ k[3] < l[3]
      /\ Decides(4) <=> k[1] = l[1] /\ k[2] = l[2] /\ k[3] = l[3] /\ k[4] < l[4]
  BY <1>2
<1> HIDE DEF Decides
<1> QED
  BY <1>1, <1>3

\* A policy that applies is a row whose scope is one of the three.
LEMMA ApplicableTyped ==
    ASSUME PoliciesTypeOK, NEW act, NEW p \in Applicable(act)
    PROVE  /\ p \in Nat /\ p \in Policies /\ policy[p].priority \in Int
           /\ policy[p].scope_type \in {"agent", "project", "installation"}
           /\ Priority(p) \in Int /\ Scope(p) \in Int /\ Action(p) \in Int
<1>1. p \in Policies /\ policy[p] # Absent /\ Matches(policy[p], act)
  BY DEF Applicable, Existing
<1>2. IsRow(policy[p]) /\ p \in Nat
  BY <1>1, PoliciesAssumption DEF PoliciesTypeOK, PoliciesAssumption
<1>3. policy[p].scope_type \in {"agent", "project", "installation"}
  BY <1>1 DEF Matches
<1>4. policy[p].priority \in Int
  BY <1>2 DEF IsRow, Columns, Fits
<1> QED
  BY <1>1, <1>2, <1>3, <1>4 DEF Priority, Scope, Action, SCOPE_SPECIFICITY

LEMMA KeysCompare ==
    ASSUME PoliciesTypeOK, NEW act,
           NEW p \in Applicable(act), NEW q \in Applicable(act)
    PROVE  Precedes(ResolutionKey(p), ResolutionKey(q)) <=> First(p, q)
<1> DEFINE k == ResolutionKey(p)
           l == ResolutionKey(q)
<1>1. /\ k = <<Priority(p), Scope(p), Action(p), p>>
      /\ l = <<Priority(q), Scope(q), Action(q), q>>
  BY Zenon DEF ResolutionKey, Priority, Scope, Action
<1> HIDE DEF k, l
<1>2. /\ DOMAIN k = {1, 2, 3, 4}
      /\ k[1] = Priority(p) /\ k[2] = Scope(p) /\ k[3] = Action(p) /\ k[4] = p
      /\ l[1] = Priority(q) /\ l[2] = Scope(q) /\ l[3] = Action(q) /\ l[4] = q
  BY <1>1
<1>3. Precedes(k, l) <=>
          \/ k[1] < l[1]
          \/ k[1] = l[1] /\ k[2] < l[2]
          \/ k[1] = l[1] /\ k[2] = l[2] /\ k[3] < l[3]
          \/ k[1] = l[1] /\ k[2] = l[2] /\ k[3] = l[3] /\ k[4] < l[4]
  BY <1>2, TuplesOfFour
<1>4. Precedes(k, l) <=> First(p, q)
  BY <1>2, <1>3 DEF First
<1> QED
  BY <1>4 DEF k, l

\* The policies that apply, in the order of their keys.
KeyOrder(act) == {e \in Applicable(act) \X Applicable(act) : First(e[1], e[2])}

LEMMA KeysOrdered ==
    ASSUME PoliciesTypeOK, NEW act
    PROVE  /\ IsFiniteSet(Applicable(act))
           /\ OrderOn(KeyOrder(act), Applicable(act))
           /\ \A p, q \in Applicable(act) : <<p, q>> \in KeyOrder(act) <=> First(p, q)
<1> DEFINE A == Applicable(act)
<1>1. IsFiniteSet(A)
  <2>1. A \subseteq Policies
    BY DEF Applicable, Existing
  <2>2. IsFiniteSet(Policies)
    BY PoliciesAssumption DEF PoliciesAssumption
  <2> HIDE DEF A
  <2> QED
    BY <2>1, <2>2, FS_Subset
<1>2. \A p, q \in A : <<p, q>> \in KeyOrder(act) <=> First(p, q)
  BY DEF KeyOrder
<1>3. \A p \in A : p \in Int /\ Priority(p) \in Int /\ Scope(p) \in Int /\ Action(p) \in Int
  BY ApplicableTyped
<1>4. OrderOn(KeyOrder(act), A)
  <2> HIDE DEF A
  <2> QED
    BY <1>2, <1>3 DEF OrderOn, First
<1> QED
  BY <1>1, <1>2, <1>4

LEMMA WinnersAreFirst ==
    ASSUME PoliciesTypeOK, NEW act
    PROVE  Winners(act) =
               {p \in Applicable(act) :
                   \A q \in Applicable(act) \ {p} : <<p, q>> \in KeyOrder(act)}
<1> DEFINE A == Applicable(act)
<1>1. \A p, q \in A : Precedes(ResolutionKey(p), ResolutionKey(q)) <=>
                          <<p, q>> \in KeyOrder(act)
  BY KeysCompare, KeysOrdered
<1>2. Winners(act) = {p \in A : \A q \in A \ {p} :
          Precedes(ResolutionKey(p), ResolutionKey(q))}
  BY Zenon DEF Winners
<1> HIDE DEF A
<1>3. Winners(act) = {p \in A : \A q \in A \ {p} : <<p, q>> \in KeyOrder(act)}
  BY <1>1, <1>2
<1> QED
  BY <1>3 DEF A

\* What the documented order says of the policy it puts first.
LEMMA ResolutionIs ==
    ASSUME PoliciesTypeOK, NEW act, NEW p \in Applicable(act)
    PROVE  p \in Resolution(act) <=> \A q \in Applicable(act) : ~First(q, p)
<1> DEFINE A == Applicable(act)
           B == {x \in A : \A y \in A : ~(Priority(y) < Priority(x))}
           C == {x \in B : \A y \in B : ~(Scope(y) < Scope(x))}
           D == {x \in C : \A y \in C : ~(Action(y) < Action(x))}
           E == {x \in D : \A y \in D : ~(y < x)}
<1>1. Resolution(act) = E
  <2>1. \A x, y \in A :
          /\ policy[y].priority > policy[x].priority <=> Priority(y) < Priority(x)
          /\ SCOPE_SPECIFICITY[policy[y].scope_type] > SCOPE_SPECIFICITY[policy[x].scope_type]
                <=> Scope(y) < Scope(x)
          /\ policy[y].action_type # "*" /\ policy[x].action_type = "*" <=> Action(y) < Action(x)
    <3> SUFFICES ASSUME NEW x \in A, NEW y \in A
                 PROVE  /\ policy[y].priority > policy[x].priority <=> Priority(y) < Priority(x)
                        /\ SCOPE_SPECIFICITY[policy[y].scope_type] >
                             SCOPE_SPECIFICITY[policy[x].scope_type]
                              <=> Scope(y) < Scope(x)
                        /\ policy[y].action_type # "*" /\ policy[x].action_type = "*"
                              <=> Action(y) < Action(x)
      OBVIOUS
    <3>1. /\ policy[x].priority \in Int /\ policy[y].priority \in Int
          /\ policy[x].scope_type \in {"agent", "project", "installation"}
          /\ policy[y].scope_type \in {"agent", "project", "installation"}
      BY ApplicableTyped
    <3> QED
      BY <3>1 DEF Priority, Scope, Action, SCOPE_SPECIFICITY
  <2> DEFINE B0 == {x \in A : \A y \in A : ~(policy[y].priority > policy[x].priority)}
             C0 == {x \in B0 : \A y \in B0 :
                      ~(SCOPE_SPECIFICITY[policy[y].scope_type] >
                          SCOPE_SPECIFICITY[policy[x].scope_type])}
             D0 == {x \in C0 : \A y \in C0 :
                      ~(policy[y].action_type # "*" /\ policy[x].action_type = "*")}
             E0 == {x \in D0 : \A y \in D0 : ~(y < x)}
  <2>2. Resolution(act) = E0
    BY Zenon DEF Resolution, Best
  <2> HIDE DEF A
  <2>3. B0 = B
    BY <2>1
  <2>4. B \subseteq A
    OBVIOUS
  <2> HIDE DEF B0, B
  <2>5. C0 = C
    BY <2>1, <2>3, <2>4
  <2>6. C \subseteq A
    BY <2>4
  <2> HIDE DEF C0, C
  <2>7. D0 = D
    BY <2>1, <2>5, <2>6
  <2> HIDE DEF D0, D
  <2>8. E0 = E
    BY <2>7
  <2> QED
    BY <2>2, <2>8
<1>2. \A x \in A : x \in Int /\ Priority(x) \in Int /\ Scope(x) \in Int /\ Action(x) \in Int
  BY ApplicableTyped
<1> HIDE DEF A
<1>3. ASSUME NEW x \in A, \A y \in A : ~First(y, x) PROVE x \in E
  <2>1. x \in B /\ \A y \in B : Priority(y) = Priority(x)
    BY <1>2, <1>3 DEF First
  <2>2. B \subseteq A
    OBVIOUS
  <2> HIDE DEF B
  <2>3. x \in C /\ \A y \in C : Scope(y) = Scope(x)
    BY <1>2, <1>3, <2>1, <2>2 DEF First
  <2>4. C \subseteq B
    OBVIOUS
  <2> HIDE DEF C
  <2>5. x \in D /\ \A y \in D : Action(y) = Action(x)
    BY <1>2, <1>3, <2>1, <2>2, <2>3, <2>4 DEF First
  <2>6. D \subseteq C
    OBVIOUS
  <2> HIDE DEF D
  <2> QED
    BY <1>2, <1>3, <2>1, <2>2, <2>3, <2>4, <2>5, <2>6 DEF First
<1>4. PICK w \in A : \A y \in A \ {w} : First(w, y)
  <2>1. /\ IsFiniteSet(A) /\ OrderOn(KeyOrder(act), A)
        /\ \A x, y \in A : <<x, y>> \in KeyOrder(act) <=> First(x, y)
    BY KeysOrdered DEF A
  <2>2. A \in SUBSET A /\ A # {}
    BY DEF A
  <2>3. \E m \in A : \A x \in A \ {m} : <<m, x>> \in KeyOrder(act)
    BY <2>1, <2>2, FirstElement
  <2> QED
    BY <2>1, <2>3
<1>5. w \in E
  <2>1. \A y \in A : ~First(y, w)
    BY <1>2, <1>4 DEF First
  <2> QED
    BY <1>3, <2>1
<1>6. ASSUME p \in E PROVE p = w
  <2>1. p \in B /\ w \in B /\ p \in C /\ w \in C /\ p \in D /\ w \in D /\ p \in A
    BY <1>5, <1>6
  <2>2. Priority(p) = Priority(w) /\ Scope(p) = Scope(w) /\ Action(p) = Action(w) /\ p = w
    <3>1. ~(Priority(w) < Priority(p)) /\ ~(Priority(p) < Priority(w))
      BY <2>1
    <3>2. ~(Scope(w) < Scope(p)) /\ ~(Scope(p) < Scope(w))
      BY <2>1
    <3>3. ~(Action(w) < Action(p)) /\ ~(Action(p) < Action(w))
      BY <2>1
    <3>4. ~(w < p) /\ ~(p < w)
      BY <1>5, <1>6, <2>1
    <3> HIDE DEF E, D, C, B
    <3> QED
      BY <1>2, <2>1, <3>1, <3>2, <3>3, <3>4
  <2> QED
    BY <2>2
<1>7. ASSUME p \in E, NEW q \in A PROVE ~First(q, p)
  <2>1. p = w
    BY <1>6, <1>7
  <2>2. q = w \/ First(w, q)
    BY <1>4
  <2> HIDE DEF E
  <2> QED
    BY <1>2, <2>1, <2>2 DEF First
<1>8. p \in A
  BY DEF A
<1>9. p \in E <=> \A q \in A : ~First(q, p)
  <2> HIDE DEF E
  <2> QED
    BY <1>3, <1>7, <1>8
<1> HIDE DEF E
<1> QED
  BY <1>1, <1>9 DEF A

\* Every action has one answer.
LEMMA OneAnswer ==
    ASSUME PoliciesTypeOK
    PROVE  Deterministic
<1> SUFFICES ASSUME NEW act \in Actions
             PROVE  /\ Winners(act) = Resolution(act)
                    /\ Cardinality(Winners(act)) =
                           (IF Applicable(act) = {} THEN 0 ELSE 1)
                    /\ evaluate_policy(act) \in
                           {Default} \cup {policy[p].effect : p \in Applicable(act)}
  BY Zenon DEF Deterministic
<1> DEFINE A == Applicable(act)
           W == Winners(act)
<1>1. /\ IsFiniteSet(A) /\ OrderOn(KeyOrder(act), A)
      /\ \A p, q \in A : <<p, q>> \in KeyOrder(act) <=> First(p, q)
  BY KeysOrdered
<1>2. W = {p \in A : \A q \in A \ {p} : <<p, q>> \in KeyOrder(act)}
  BY WinnersAreFirst
<1>3. \A p \in A : p \in Resolution(act) <=> \A q \in A : ~First(q, p)
  BY ResolutionIs
<1>4. Resolution(act) \subseteq A
  BY DEF Resolution, Best
<1> HIDE DEF A, W
<1>5. W = Resolution(act)
  BY <1>1, <1>2, <1>3, <1>4 DEF OrderOn
<1>6. A # {} => \E w \in A : W = {w}
  <2> SUFFICES ASSUME A # {} PROVE \E w \in A : W = {w}
    OBVIOUS
  <2>1. A \in SUBSET A
    OBVIOUS
  <2>2. PICK w \in A : \A x \in A \ {w} : <<w, x>> \in KeyOrder(act)
    BY <1>1, <2>1, FirstElement
  <2>3. w \in W
    BY <1>2, <2>2
  <2>4. ASSUME NEW x \in W, x # w PROVE FALSE
    <3>1. x \in A /\ <<x, w>> \in KeyOrder(act) /\ <<w, x>> \in KeyOrder(act)
      BY <1>2, <2>2, <2>4
    <3> QED
      BY <1>1, <3>1 DEF OrderOn
  <2> QED
    BY <2>3, <2>4
<1>7. W \subseteq A
  BY <1>2
<1>8. Cardinality(W) = (IF A = {} THEN 0 ELSE 1)
  BY <1>6, <1>7, FS_EmptySet, FS_Singleton
<1>9. evaluate_policy(act) \in {Default} \cup {policy[p].effect : p \in A}
  <2>1. evaluate_policy(act) =
            IF W = {} THEN Default ELSE policy[CHOOSE p \in W : TRUE].effect
    BY Zenon DEF evaluate_policy, W
  <2>2. W # {} => (CHOOSE p \in W : TRUE) \in A
    BY <1>7
  <2> QED
    BY <2>1, <2>2
<1> QED
  BY <1>5, <1>8, <1>9 DEF A, W
-----------------------------------------------------------------------------
\* How policies change.

PolicyFacts == PoliciesTypeOK /\ ScopesNamed /\ EditFit

\* A policy is created or written, and an edit may end with it.
LEMMA RowStep ==
    ASSUME PolicyFacts, NEW p \in Policies, NEW row,
           policy' = [policy EXCEPT ![p] = row], IsRow(row), ScopeNamed(row),
           policy[p] # Absent /\ policy[p].scope_id # "none" => row.scope_id # "none",
           DOMAIN edit' = Edits,
           \A r \in Edits : edit'[r] = NoEdit \/ edit'[r] = edit[r]
    PROVE  PolicyFacts'
<1>1. DOMAIN policy' = Policies /\ \A q \in Policies : policy'[q] = IF q = p THEN row ELSE policy[q]
  BY DEF PolicyFacts, PoliciesTypeOK
<1>2. row # Absent
  <2>1. DOMAIN row # {"status"}
    BY DEF IsRow, Columns
  <2>2. DOMAIN Absent = {"status"}
    BY DEF Absent
  <2> QED
    BY <2>1, <2>2
<1>3. \A q \in Policies : q \in Existing' <=> q = p \/ q \in Existing
  BY <1>1, <1>2 DEF Existing, Absent
<1>4. PoliciesTypeOK'
  <2>1. \A q \in Policies : policy'[q] = Absent \/ IsRow(policy'[q])
    BY <1>1 DEF PolicyFacts, PoliciesTypeOK
  <2>2. ASSUME NEW r \in Edits
        PROVE  \/ edit'[r] = NoEdit
               \/ /\ edit'[r].pc = "writing"
                  /\ edit'[r].policy \in Existing'
                  /\ edit'[r].version \in 2..MaxVersion
    <3>1. edit[r].policy \in Existing => edit[r].policy \in Existing'
      BY <1>3 DEF Existing
    <3> QED
      BY <3>1 DEF PolicyFacts, PoliciesTypeOK
  <2>3. Absent' = Absent /\ NoEdit' = NoEdit
    BY DEF Absent, NoEdit
  <2> QED
    BY <1>1, <2>1, <2>2, <2>3 DEF PoliciesTypeOK, IsRow
<1>5. ScopesNamed'
  <2>1. \A q \in Policies : q \in Existing' => ScopeNamed(policy'[q])
    BY <1>1, <1>3 DEF PolicyFacts, ScopesNamed
  <2> QED
    BY <2>1 DEF ScopesNamed, ScopeNamed, Existing
<1>6. EditFit'
  <2> SUFFICES ASSUME NEW r \in Edits, edit'[r] # NoEdit
               PROVE  LET columns == edit'[r].columns
                      IN  /\ DOMAIN columns \subseteq Columns
                          /\ \A c \in DOMAIN columns : Fits(c, columns[c])
                          /\ "status" \in DOMAIN columns => columns["status"] # edit'[r].read
                          /\ "scope_id" \in DOMAIN columns => columns["scope_id"] # "none"
                          /\ /\ "scope_type" \in DOMAIN columns
                             /\ columns["scope_type"] \in {"agent", "project"}
                             => \/ "scope_id" \in DOMAIN columns
                                \/ policy'[edit'[r].policy].scope_id # "none"
    BY DEF EditFit, NoEdit, Columns, Fits
  <2>1. edit'[r] = edit[r] /\ edit[r] # NoEdit
    OBVIOUS
  <2>2. edit[r].policy \in Policies /\ policy[edit[r].policy] # Absent
    BY <2>1 DEF PolicyFacts, PoliciesTypeOK, Existing
  <2>3. policy[edit[r].policy].scope_id # "none" => policy'[edit[r].policy].scope_id # "none"
    BY <1>1, <2>2
  <2> QED
    BY <2>1, <2>3 DEF PolicyFacts, EditFit
<1> QED
  BY <1>4, <1>5, <1>6 DEF PolicyFacts

\* An edit is begun or given up.
LEMMA EditStep ==
    ASSUME PolicyFacts, NEW r \in Edits, NEW t, UNCHANGED policy,
           edit' = [edit EXCEPT ![r] = t],
           \/ t = NoEdit
           \/ /\ t.pc = "writing" /\ t.policy \in Existing
              /\ t.version \in 2..MaxVersion
              /\ DOMAIN t.columns \subseteq Columns
              /\ \A c \in DOMAIN t.columns : Fits(c, t.columns[c])
              /\ "status" \in DOMAIN t.columns => t.columns["status"] # t.read
              /\ "scope_id" \in DOMAIN t.columns => t.columns["scope_id"] # "none"
              /\ /\ "scope_type" \in DOMAIN t.columns
                 /\ t.columns["scope_type"] \in {"agent", "project"}
                 => \/ "scope_id" \in DOMAIN t.columns
                    \/ policy[t.policy].scope_id # "none"
    PROVE  PolicyFacts'
<1>1. DOMAIN edit' = Edits /\ \A q \in Edits : edit'[q] = IF q = r THEN t ELSE edit[q]
  BY DEF PolicyFacts, PoliciesTypeOK
<1>2. Existing' = Existing
  BY DEF Existing, Absent
<1>3. PoliciesTypeOK'
  BY <1>1, <1>2 DEF PolicyFacts, PoliciesTypeOK, NoEdit, Absent, IsRow
<1>4. ScopesNamed'
  BY <1>2 DEF PolicyFacts, ScopesNamed, ScopeNamed
<1>5. EditFit'
  <2> SUFFICES ASSUME NEW q \in Edits, edit'[q] # NoEdit
               PROVE  LET columns == edit'[q].columns
                      IN  /\ DOMAIN columns \subseteq Columns
                          /\ \A c \in DOMAIN columns : Fits(c, columns[c])
                          /\ "status" \in DOMAIN columns => columns["status"] # edit'[q].read
                          /\ "scope_id" \in DOMAIN columns => columns["scope_id"] # "none"
                          /\ /\ "scope_type" \in DOMAIN columns
                             /\ columns["scope_type"] \in {"agent", "project"}
                             => \/ "scope_id" \in DOMAIN columns
                                \/ policy[edit'[q].policy].scope_id # "none"
    BY DEF EditFit, NoEdit, Columns, Fits
  <2>1. CASE q = r
    BY <1>1, <2>1
  <2>2. CASE q # r
    <3>1. edit'[q] = edit[q]
      BY <1>1, <2>2
    <3> QED
      BY <3>1 DEF PolicyFacts, EditFit
  <2> QED
    BY <2>1, <2>2
<1> QED
  BY <1>3, <1>4, <1>5 DEF PolicyFacts

LEMMA CreateStep ==
    ASSUME PolicyFacts, NEW p \in Policies, NEW draft \in Drafts,
           create_policy(p, draft)
    PROVE  PolicyFacts'
<1>1. policy[p] = Absent /\ policy' = [policy EXCEPT ![p] = draft] /\ UNCHANGED edit
  BY DEF create_policy
<1>2. IsRow(draft) /\ ScopeNamed(draft)
  BY PoliciesAssumption DEF PoliciesAssumption
<1>3. DOMAIN edit' = Edits
  BY <1>1 DEF PolicyFacts, PoliciesTypeOK
<1> QED
  BY <1>1, <1>2, <1>3, RowStep

LEMMA DisableStep ==
    ASSUME PolicyFacts, NEW p \in Policies, disable_policy(p)
    PROVE  PolicyFacts'
<1> DEFINE row == [policy[p] EXCEPT !.status = "disabled", !.version = policy[p].version + 1]
<1>1. /\ p \in Existing /\ policy[p].version < MaxVersion /\ UNCHANGED edit
      /\ policy' = [policy EXCEPT ![p].status = "disabled", ![p].version = @ + 1]
  BY DEF disable_policy
<1>2. IsRow(policy[p]) /\ ScopeNamed(policy[p]) /\ DOMAIN policy = Policies
  BY <1>1 DEF PolicyFacts, PoliciesTypeOK, ScopesNamed, Existing
<1>3. DOMAIN policy[p] = Columns \cup {"version"}
  BY <1>2 DEF IsRow
<1>4. policy' = [policy EXCEPT ![p] = row]
  BY <1>1, <1>2, <1>3 DEF Columns
<1>5. /\ DOMAIN row = DOMAIN policy[p] /\ row.version = policy[p].version + 1
      /\ row.status = "disabled"
      /\ \A c \in Columns : c # "status" => row[c] = policy[p][c]
  BY <1>3 DEF Columns
<1> HIDE DEF row
<1>6. MaxVersion \in Nat
  BY PoliciesAssumption DEF PoliciesAssumption
<1>7. row.version \in 1..MaxVersion
  BY <1>1, <1>2, <1>5, <1>6 DEF IsRow
<1>8. \A c \in Columns : Fits(c, row[c])
  BY <1>2, <1>5 DEF IsRow, Fits
<1>9. IsRow(row)
  BY <1>2, <1>5, <1>7, <1>8 DEF IsRow
<1>10. row.scope_type = policy[p].scope_type /\ row.scope_id = policy[p].scope_id
  BY <1>5 DEF Columns
<1>11. DOMAIN edit' = Edits /\ ScopeNamed(row)
  BY <1>1, <1>2, <1>10 DEF PolicyFacts, PoliciesTypeOK, ScopeNamed
<1> QED
  BY <1>1, <1>4, <1>9, <1>10, <1>11, RowStep

LEMMA BeginStep ==
    ASSUME PolicyFacts, NEW r \in Edits, NEW p \in Policies,
           NEW change \in Changes, BeginEdit(r, p, change)
    PROVE  PolicyFacts'
<1> DEFINE columns == Differing(policy[p], change)
           t == [pc |-> "writing", policy |-> p, read |-> policy[p].status,
                 columns |-> columns, version |-> policy[p].version + 1]
<1>1. /\ p \in Existing /\ policy[p].version < MaxVersion /\ UNCHANGED policy
      /\ ValidScope(policy[p], change) /\ edit' = [edit EXCEPT ![r] = t]
  BY DEF BeginEdit
<1>2. IsRow(policy[p]) /\ MaxVersion \in Nat
  BY <1>1, PoliciesAssumption DEF PolicyFacts, PoliciesTypeOK, Existing, PoliciesAssumption
<1>3. /\ DOMAIN change \subseteq Columns
      /\ \A c \in DOMAIN change : Fits(c, change[c])
      /\ "scope_id" \in DOMAIN change => change["scope_id"] # "none"
  BY PoliciesAssumption DEF PoliciesAssumption
<1>4. /\ \A c : c \in DOMAIN columns <=> c \in DOMAIN change /\ change[c] # policy[p][c]
      /\ \A c \in DOMAIN columns : columns[c] = change[c]
  BY DEF Differing
<1> HIDE DEF columns
<1>5. /\ DOMAIN columns \subseteq Columns
      /\ \A c \in DOMAIN columns : Fits(c, columns[c])
      /\ "status" \in DOMAIN columns => columns["status"] # policy[p].status
      /\ "scope_id" \in DOMAIN columns => columns["scope_id"] # "none"
  BY <1>3, <1>4
<1>6. ASSUME "scope_type" \in DOMAIN columns, columns["scope_type"] \in {"agent", "project"}
      PROVE  "scope_id" \in DOMAIN columns \/ policy[p].scope_id # "none"
  <2>1. /\ "scope_type" \in DOMAIN change /\ change["scope_type"] # ""
        /\ change["scope_type"] # "installation"
    BY <1>4, <1>6
  <2>2. (IF "scope_id" \in DOMAIN change THEN change["scope_id"] ELSE policy[p]["scope_id"]) # "none"
    BY <1>1, <2>1 DEF ValidScope
  <2> QED
    BY <1>4, <2>2
<1>7. policy[p].version + 1 \in 2..MaxVersion
  BY <1>1, <1>2 DEF IsRow
<1>8. /\ t.pc = "writing" /\ t.policy = p /\ t.read = policy[p].status
      /\ t.columns = columns /\ t.version = policy[p].version + 1
  OBVIOUS
<1> HIDE DEF t
<1> QED
  BY <1>1, <1>5, <1>6, <1>7, <1>8, EditStep

LEMMA EditCommitStep ==
    ASSUME PolicyFacts, NEW r \in Edits, CommitEdit(r)
    PROVE  PolicyFacts'
<1> DEFINE t == edit[r]
           p == t.policy
           row == [c \in DOMAIN policy[p] |->
                      IF c = "version" THEN t.version
                      ELSE IF c \in DOMAIN t.columns THEN t.columns[c] ELSE policy[p][c]]
<1>1. /\ t.pc = "writing" /\ policy' = [policy EXCEPT ![p] = row]
      /\ edit' = [edit EXCEPT ![r] = NoEdit]
  BY DEF CommitEdit
<1>2. t # NoEdit /\ p \in Existing /\ t.version \in 2..MaxVersion
  BY <1>1 DEF PolicyFacts, PoliciesTypeOK, NoEdit
<1>3. /\ p \in Policies /\ IsRow(policy[p]) /\ ScopeNamed(policy[p])
  BY <1>2 DEF PolicyFacts, PoliciesTypeOK, ScopesNamed, Existing
<1>4. /\ DOMAIN t.columns \subseteq Columns
      /\ \A c \in DOMAIN t.columns : Fits(c, t.columns[c])
      /\ "scope_id" \in DOMAIN t.columns => t.columns["scope_id"] # "none"
      /\ "scope_type" \in DOMAIN t.columns /\ t.columns["scope_type"] \in {"agent", "project"} =>
            "scope_id" \in DOMAIN t.columns \/ policy[p].scope_id # "none"
  BY <1>2 DEF PolicyFacts, EditFit
<1>5. /\ DOMAIN row = Columns \cup {"version"}
      /\ row["version"] = t.version
      /\ \A c \in Columns :
             row[c] = IF c \in DOMAIN t.columns THEN t.columns[c] ELSE policy[p][c]
  BY <1>3 DEF IsRow, Columns
<1>6. DOMAIN edit' = Edits /\ \A q \in Edits : edit'[q] = NoEdit \/ edit'[q] = edit[q]
  BY <1>1 DEF PolicyFacts, PoliciesTypeOK
<1> HIDE DEF t, p, row
<1>7. t.version \in 1..MaxVersion
  BY <1>2, PoliciesAssumption DEF PoliciesAssumption
<1>8. IsRow(row)
  BY <1>3, <1>4, <1>5, <1>7 DEF IsRow
<1>9. /\ row["scope_id"] = IF "scope_id" \in DOMAIN t.columns THEN t.columns["scope_id"]
                           ELSE policy[p]["scope_id"]
      /\ row["scope_type"] = IF "scope_type" \in DOMAIN t.columns THEN t.columns["scope_type"]
                             ELSE policy[p]["scope_type"]
  BY <1>5 DEF Columns
<1>10. ScopeNamed(row) /\ (policy[p].scope_id # "none" => row.scope_id # "none")
  BY <1>3, <1>4, <1>9 DEF ScopeNamed
<1> QED
  BY <1>1, <1>3, <1>6, <1>8, <1>10, RowStep

LEMMA PoliciesStep ==
    ASSUME PolicyFacts, [PoliciesNext]_policyVars
    PROVE  PolicyFacts'
<1>1. CASE UNCHANGED policyVars
  <2>1. policy' = policy /\ edit' = edit
    BY <1>1 DEF policyVars
  <2>2. PoliciesTypeOK'
    BY <2>1 DEF PolicyFacts, PoliciesTypeOK, Existing, NoEdit, Absent, IsRow
  <2>3. ScopesNamed'
    BY <2>1 DEF PolicyFacts, ScopesNamed, ScopeNamed, Existing, Absent
  <2>4. EditFit'
    BY <2>1 DEF PolicyFacts, EditFit, NoEdit, Columns, Fits
  <2> QED
    BY <2>2, <2>3, <2>4 DEF PolicyFacts
<1>2. ASSUME NEW r \in Edits, AbortEdit(r) PROVE PolicyFacts'
  <2>1. edit' = [edit EXCEPT ![r] = NoEdit] /\ UNCHANGED policy
    BY <1>2 DEF AbortEdit
  <2> QED
    BY <2>1, EditStep
<1>3. CASE PoliciesNext
  BY <1>2, <1>3, CreateStep, DisableStep, BeginStep, EditCommitStep DEF PoliciesNext
<1> QED
  BY <1>1, <1>3

\* Whatever the edits make of any number of policies, every action has one answer,
\* and a scope names what it is the scope of.
THEOREM OneAnswerAlways == PoliciesSpec => []PoliciesInv
<1>1. PoliciesInit => PolicyFacts
  BY DEF PoliciesInit, PolicyFacts, PoliciesTypeOK, ScopesNamed, EditFit,
     Existing
<1>2. PolicyFacts /\ [PoliciesNext]_policyVars => PolicyFacts'
  BY PoliciesStep
<1>3. PolicyFacts => PoliciesInv
  BY OneAnswer DEF PolicyFacts, PoliciesInv
<1> QED
  BY <1>1, <1>2, <1>3, PTL DEF PoliciesSpec

\* What a step may do with a policy that is disabled.
RevivedKnowingly(p) ==
    policy[p].status = "disabled" /\ policy'[p].status = "active" =>
        \E r \in Edits : /\ edit[r] # NoEdit
                         /\ edit[r].policy = p
                         /\ edit[r].read # "active"
                         /\ "status" \in DOMAIN edit[r].columns

LEMMA RevivalStep ==
    ASSUME PolicyFacts, PoliciesNext, NEW p \in Existing
    PROVE  RevivedKnowingly(p)
<1>1. /\ p \in Policies /\ policy[p] # Absent /\ IsRow(policy[p])
      /\ DOMAIN policy = Policies
  BY DEF Existing, PolicyFacts, PoliciesTypeOK
<1>2. ASSUME NEW q \in Policies, NEW draft \in Drafts, create_policy(q, draft)
      PROVE  RevivedKnowingly(p)
  BY <1>1, <1>2 DEF create_policy, RevivedKnowingly
<1>3. ASSUME NEW q \in Policies, disable_policy(q) PROVE RevivedKnowingly(p)
  <2>1. policy' = [policy EXCEPT ![q].status = "disabled", ![q].version = @ + 1]
    BY <1>3 DEF disable_policy
  <2>2. CASE q = p
    <3>1. DOMAIN policy[p] = Columns \cup {"version"}
      BY <1>1 DEF IsRow
    <3>2. policy'[p].status = "disabled"
      BY <1>1, <2>1, <2>2, <3>1 DEF Columns
    <3> QED
      BY <3>2 DEF RevivedKnowingly
  <2>3. CASE q # p
    BY <1>1, <2>1, <2>3 DEF RevivedKnowingly
  <2> QED
    BY <2>2, <2>3
<1>4. ASSUME UNCHANGED policy PROVE RevivedKnowingly(p)
  BY <1>4 DEF RevivedKnowingly
<1>5. ASSUME NEW r \in Edits, CommitEdit(r), policy[p].status = "disabled",
             policy'[p].status = "active"
      PROVE  /\ edit[r] # NoEdit /\ edit[r].policy = p /\ edit[r].read # "active"
             /\ "status" \in DOMAIN edit[r].columns
  <2> DEFINE t == edit[r]
             row == [c \in DOMAIN policy[t.policy] |->
                        IF c = "version" THEN t.version
                        ELSE IF c \in DOMAIN t.columns THEN t.columns[c] ELSE policy[t.policy][c]]
  <2>1. t.pc = "writing" /\ policy' = [policy EXCEPT ![t.policy] = row]
    BY <1>5 DEF CommitEdit
  <2>2. t # NoEdit
    BY <2>1 DEF NoEdit
  <2>3. t.policy = p
    BY <1>1, <1>5, <2>1
  <2>4. "status" \in DOMAIN policy[p]
    BY <1>1 DEF IsRow, Columns
  <2>5. policy'[p]["status"] = IF "status" \in DOMAIN t.columns THEN t.columns["status"]
                               ELSE policy[p]["status"]
    BY <1>1, <2>1, <2>3, <2>4
  <2>6. "status" \in DOMAIN t.columns /\ t.columns["status"] = "active"
    BY <1>5, <2>5
  <2>7. t.columns["status"] # t.read
    BY <2>2, <2>6 DEF PolicyFacts, EditFit
  <2> QED
    BY <2>2, <2>3, <2>6, <2>7
<1>6. ASSUME NEW r \in Edits, CommitEdit(r) PROVE RevivedKnowingly(p)
  BY <1>5, <1>6 DEF RevivedKnowingly
<1>7. ASSUME NEW r \in Edits
      PROVE  /\ AbortEdit(r) => UNCHANGED policy
             /\ \A q, change : BeginEdit(r, q, change) => UNCHANGED policy
  BY DEF AbortEdit, BeginEdit
<1> QED
  BY <1>2, <1>3, <1>4, <1>6, <1>7 DEF PoliciesNext

\* No edit of other columns revives a policy that was disabled under it.
THEOREM DisabledForGood == PoliciesSpec => DisabledStays
<1>1. PoliciesInit => PolicyFacts
  BY DEF PoliciesInit, PolicyFacts, PoliciesTypeOK, ScopesNamed, EditFit,
     Existing
<1>2. PolicyFacts /\ [PoliciesNext]_policyVars => PolicyFacts'
  BY PoliciesStep
<1>3. PolicyFacts /\ [PoliciesNext]_policyVars =>
          [\A p \in Existing : RevivedKnowingly(p)]_policyVars
  BY RevivalStep
<1>4. [\A p \in Existing : RevivedKnowingly(p)]_policyVars =>
          [\A p \in Existing : policy[p].status = "disabled" /\ policy'[p].status = "active" =>
             \E r \in Edits : /\ edit[r] # NoEdit
                              /\ edit[r].policy = p
                              /\ edit[r].read # "active"
                              /\ "status" \in DOMAIN edit[r].columns]_policyVars
  BY DEF RevivedKnowingly
<1> QED
  BY <1>1, <1>2, <1>3, <1>4, PTL DEF PoliciesSpec, DisabledStays

=============================================================================
