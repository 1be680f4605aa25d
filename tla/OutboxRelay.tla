----------------------------- MODULE OutboxRelay -----------------------------
(***************************************************************************)
(* The outbox of the control plane and its relay to the WebSocket clients  *)
(* (apps/api/agent_control/realtime.py): every API process drains pending  *)
(* rows of mc_outbox_events into a Redis channel, inside one transaction   *)
(* that holds the row locks across the awaits of the publications, and     *)
(* listens to that channel for the clients connected to it.                *)
(*                                                                         *)
(* Rows are numbered by created_at, the start of the transaction that      *)
(* wrote them; they become visible in any order, at its commit.            *)
(***************************************************************************)
EXTENDS Integers, FiniteSets, FiniteSetsExt

CONSTANTS MaxRow,        \* rows are numbered 1..MaxRow
          Tenantless,    \* the rows without installation_id
          Workers,       \* API processes
          BatchSize,     \* _RELAY_BATCH
          MaxAttempts,   \* _RELAY_MAX_ATTEMPTS
          MaxCrashes,    \* bound on the transactions that are lost
          MaxOutages     \* bound on the outages of Redis

Rows == 1..MaxRow

ASSUME RelayAssumption ==
    /\ MaxRow \in Nat
    /\ Tenantless \subseteq Rows
    /\ {BatchSize, MaxAttempts} \subseteq Nat \ {0}
    /\ {MaxCrashes, MaxOutages} \subseteq Nat

VARIABLES status,      \* mc_outbox_events.status
          attempts,    \* mc_outbox_events.attempts
          sent,        \* how many times Redis took the message of each row
          relay,       \* the transaction of each worker's relay
          redis_up,    \* whether Redis answers
          subscriber,  \* the subscription of each worker
          inbox,       \* what Redis pushed to a worker and it has not read
          heard,       \* the rows the clients of each worker have received
          crashes,     \* how many transactions were lost
          outages      \* how many times Redis went away

vars == <<status, attempts, sent, relay, redis_up, subscriber, inbox, heard,
          crashes, outages>>

rowVars == <<status, attempts>>
channelVars == <<redis_up, subscriber, inbox, heard>>
counters == <<crashes, outages>>

-----------------------------------------------------------------------------
\* The transaction of a relay: the rows it locked, those still to handle, and
\* what it will write of the others.
Asleep == [pc |-> "asleep", locked |-> {}, todo |-> {}, published |-> {}, refused |-> {}]

Down == [Asleep EXCEPT !.pc = "down"]

\* Mutant: FOR UPDATE without SKIP LOCKED is as good as no lock once the other
\* worker has decided.
LockedNever(r) == FALSE

Locked(r) == \E w \in Workers : r \in relay[w].locked

\* Mutant: a row that failed once is not selected again.
PendingFresh == {r \in Rows : status[r] = "pending" /\ attempts[r] = 0 /\ ~Locked(r)}

\* status = 'pending', SKIP LOCKED.
Pending == {r \in Rows : status[r] = "pending" /\ ~Locked(r)}

\* The oldest BatchSize of them.
Batch == {r \in Pending : Cardinality({q \in Pending : q < r}) < BatchSize}

Exhausted(n) == n >= MaxAttempts

\* emit_outbox, _emit: the row is committed with the fact it announces.
Write(r) ==
    /\ status[r] = "absent"
    /\ status' = [status EXCEPT ![r] = "pending"]
    /\ UNCHANGED <<attempts, sent, relay, channelVars, counters>>

\* An empty selection returns at once; the pause of a second, or none after a
\* full batch, only delays the next selection.
Select(w) ==
    /\ relay[w].pc = "asleep"
    /\ Batch # {}
    /\ relay' = [relay EXCEPT ![w] = [Asleep EXCEPT !.pc = "draining",
                                         !.locked = Batch, !.todo = Batch]]
    /\ UNCHANGED <<rowVars, sent, channelVars, counters>>

\* The row the loop is at.
Head(w) == Min(relay[w].todo)

Handle(w, list) ==
    /\ relay[w].todo # {}
    /\ relay' = [relay EXCEPT ![w].todo = @ \ {Head(w)},
                              ![w][list] = @ \cup {Head(w)}]

\* A row without tenant is marked published: no client may receive it.
PassOver(w) ==
    /\ Handle(w, "published")
    /\ Head(w) \in Tenantless
    /\ UNCHANGED <<rowVars, sent, channelVars, counters>>

\* Mutant: the processes share one subscription, as consumers of a queue would.
ListenersShared ==
    {w \in Workers : /\ subscriber[w] = "listening"
                     /\ w = CHOOSE v \in Workers : subscriber[v] = "listening"}

\* Each process subscribes to the channel for its own clients.
Listeners == {w \in Workers : subscriber[w] = "listening"}

\* Redis pushes the message to whoever listens at that moment, and keeps none.
Push(r) ==
    /\ sent' = [sent EXCEPT ![r] = @ + 1]
    /\ inbox' = [w \in Workers |-> IF w \in Listeners THEN inbox[w] \cup {r} ELSE inbox[w]]
    /\ UNCHANGED <<redis_up, subscriber, heard>>

\* What becomes of a row whose publication was, or was not, answered.
Outcome(answered) == IF answered THEN "published" ELSE "refused"

\* The publication; its answer may be lost after Redis took the message.
Publish(w, answered) ==
    /\ Handle(w, Outcome(answered))
    /\ Head(w) \notin Tenantless
    /\ redis_up
    /\ Push(Head(w))
    /\ UNCHANGED <<rowVars, counters>>

PublishFails(w) ==
    /\ Handle(w, Outcome(FALSE))
    /\ Head(w) \notin Tenantless
    /\ ~redis_up
    /\ UNCHANGED <<rowVars, sent, channelVars, counters>>

Commit(w) ==
    LET txn == relay[w]
    IN  /\ txn.pc = "draining"
        /\ txn.todo = {}
        /\ attempts' = [r \in Rows |-> attempts[r] + IF r \in txn.refused THEN 1 ELSE 0]
        /\ status' = [r \in Rows |->
               IF r \in txn.published THEN "published"
               ELSE IF r \in txn.refused /\ Exhausted(attempts[r] + 1) THEN "failed"
               ELSE status[r]]
        /\ relay' = [relay EXCEPT ![w] = Asleep]
        /\ UNCHANGED <<sent, channelVars, counters>>

\* The database refuses or the connection is lost: the loop survives, what the
\* transaction would have written does not.
Abort(w) ==
    /\ relay[w].pc = "draining"
    /\ crashes < MaxCrashes
    /\ crashes' = crashes + 1
    /\ relay' = [relay EXCEPT ![w] = Asleep]
    /\ UNCHANGED <<rowVars, sent, channelVars, outages>>

-----------------------------------------------------------------------------
\* The process dies with its transaction and the connections of its clients,
\* then starts again: start() subscribes, or its task dies if Redis is away.
Crash(w) ==
    /\ relay[w].pc # "down"
    /\ crashes < MaxCrashes
    /\ crashes' = crashes + 1
    /\ relay' = [relay EXCEPT ![w] = Down]
    /\ subscriber' = [subscriber EXCEPT ![w] = "dead"]
    /\ inbox' = [inbox EXCEPT ![w] = {}]
    /\ UNCHANGED <<rowVars, sent, redis_up, heard, outages>>

Restart(w) ==
    /\ relay[w].pc = "down"
    /\ relay' = [relay EXCEPT ![w] = Asleep]
    /\ subscriber' = [subscriber EXCEPT ![w] = IF redis_up THEN "listening" ELSE "dead"]
    /\ UNCHANGED <<rowVars, sent, redis_up, inbox, heard, counters>>

\* fanout to the clients of the worker that subscribed to the topic.
Fanout(w, r) ==
    /\ r \in inbox[w]
    /\ inbox' = [inbox EXCEPT ![w] = @ \ {r}]
    /\ heard' = [heard EXCEPT ![w] = @ \cup {r}]
    /\ UNCHANGED <<rowVars, sent, relay, redis_up, subscriber, counters>>

\* Redis goes away and takes the subscriptions with it.  The exception ends the
\* task of the subscriber, unless the Redis library connects again by itself.
RedisDrops ==
    /\ redis_up
    /\ outages < MaxOutages
    /\ outages' = outages + 1
    /\ redis_up' = FALSE
    /\ subscriber' \in {s \in [Workers -> {"dead", "lost"}] :
           \A w \in Workers : subscriber[w] = "dead" => s[w] = "dead"}
    /\ UNCHANGED <<rowVars, sent, relay, inbox, heard, crashes>>

RedisReturns ==
    /\ ~redis_up
    /\ redis_up' = TRUE
    /\ UNCHANGED <<rowVars, sent, relay, subscriber, inbox, heard, counters>>

Resubscribe(w) ==
    /\ redis_up
    /\ subscriber[w] = "lost"
    /\ subscriber' = [subscriber EXCEPT ![w] = "listening"]
    /\ UNCHANGED <<rowVars, sent, relay, redis_up, inbox, heard, counters>>

Init ==
    /\ status = [r \in Rows |-> "absent"]
    /\ attempts = [r \in Rows |-> 0]
    /\ sent = [r \in Rows |-> 0]
    /\ relay = [w \in Workers |-> Asleep]
    /\ redis_up = TRUE
    /\ subscriber = [w \in Workers |-> "listening"]
    /\ inbox = [w \in Workers |-> {}]
    /\ heard = [w \in Workers |-> {}]
    /\ crashes = 0
    /\ outages = 0

Drain(w) == \/ Select(w) \/ PassOver(w) \/ PublishFails(w) \/ Commit(w)
            \/ \E answered \in BOOLEAN : Publish(w, answered)

Listen(w) == Resubscribe(w) \/ \E r \in Rows : Fanout(w, r)

Next == \/ RedisDrops \/ RedisReturns
        \/ \E r \in Rows : Write(r)
        \/ \E w \in Workers : Drain(w) \/ Listen(w) \/ Abort(w) \/ Crash(w) \/ Restart(w)

Spec == Init /\ [][Next]_vars

\* _outbox_relay loops for ever whatever is raised in it, the supervisor starts
\* a dead process again, and what is pushed is read.  Redis comes back.
FairSpec == /\ Spec
            /\ WF_vars(RedisReturns)
            /\ \A w \in Workers : /\ WF_vars(Drain(w)) /\ WF_vars(Restart(w))
                                  /\ WF_vars(Listen(w))

-----------------------------------------------------------------------------
(***************************************************************************)
(* Properties.                                                             *)
(***************************************************************************)

Transaction == [pc : {"down", "asleep", "draining"}, locked : SUBSET Rows,
                todo : SUBSET Rows, published : SUBSET Rows, refused : SUBSET Rows]

\* Every variable ranges over the values the code can store; in particular no
\* row is tried more often than _RELAY_MAX_ATTEMPTS.
TypeOK ==
    /\ status \in [Rows -> {"absent", "pending", "published", "failed"}]
    /\ attempts \in [Rows -> 0..MaxAttempts]
    /\ sent \in [Rows -> Nat]
    /\ relay \in [Workers -> Transaction]
    /\ redis_up \in BOOLEAN
    /\ subscriber \in [Workers -> {"listening", "lost", "dead"}]
    /\ inbox \in [Workers -> SUBSET Rows]
    /\ heard \in [Workers -> SUBSET Rows]
    /\ crashes \in 0..MaxCrashes
    /\ outages \in 0..MaxOutages

\* At least once up to Redis: a row of a tenant that is marked published was
\* taken by Redis, however relays overlap, fail and die (ADR-0005).
PublishedWasSent ==
    \A r \in Rows \ Tenantless : status[r] = "published" => sent[r] > 0

\* Two processes never publish the same row in the same window: every copy
\* beyond the first is the work of a lost transaction or of an attempt that was
\* counted (FOR UPDATE SKIP LOCKED held until the commit).
CopiesAccounted == \A r \in Rows : sent[r] <= 1 + crashes + attempts[r]

\* What makes them inductive: a relay works on rows it alone has locked, which are
\* still pending; what it will mark published was sent, and sent once in this
\* transaction; only a row being drained has a copy that no counter explains yet.
RelayFacts ==
    /\ \A w, v \in Workers : w # v => relay[w].locked \cap relay[v].locked = {}
    /\ \A w \in Workers :
           /\ \A r \in relay[w].locked : status[r] = "pending"
           /\ relay[w].pc # "draining" => relay[w].locked = {}
           /\ relay[w].todo \cup relay[w].published \cup relay[w].refused
                  \subseteq relay[w].locked
           /\ relay[w].todo \cap (relay[w].published \cup relay[w].refused) = {}
           /\ relay[w].published \cap relay[w].refused = {}
           /\ \A r \in relay[w].published \ Tenantless : sent[r] > 0
    /\ \A r \in Rows : status[r] # "published" =>
           /\ (\A w \in Workers : r \notin relay[w].published \cup relay[w].refused)
                  => sent[r] <= crashes + attempts[r]
           /\ status[r] # "failed" => attempts[r] < MaxAttempts

OutboxInv == TypeOK /\ PublishedWasSent /\ CopiesAccounted /\ RelayFacts

\* A row is written once by the relay: a published or failed row is closed.
RowLife == INSTANCE Lifecycle
    WITH Entities <- Rows, States <- {"pending", "published", "failed"},
         Births <- {"pending"},
         Moves <- {<<"pending", "published">>, <<"pending", "failed">>},
         state <- status

RowsFollowLifecycle == RowLife!Spec

\* A committed row does not stay in the outbox: it ends published or failed,
\* through outages of Redis and deaths of the processes.
OutboxDrains == \A r \in Rows : (status[r] = "pending") ~> (status[r] \in {"published", "failed"})

\* Until Redis or a process fails, the clients of every process receive every
\* event that is marked published, whichever process published it
\* (_ac_redis_subscriber runs in each; after a failure an event may be lost).
ReachesEveryProcess ==
    \A r \in Rows \ Tenantless, w \in Workers :
        (status[r] = "published") ~> (r \in heard[w] \/ crashes > 0 \/ outages > 0)

=============================================================================
