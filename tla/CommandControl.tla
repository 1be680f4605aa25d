--------------------------- MODULE CommandControl ---------------------------
(***************************************************************************)
(* The command queue and the approvals of the control plane                *)
(* (apps/api/agent_control/control/commands.py and approvals.py) as the    *)
(* transactions of concurrent API requests over one Postgres database.     *)
(*                                                                         *)
(* Every handler is synchronous, runs in a thread pool and owns a database *)
(* session at READ COMMITTED with autoflush off: it reads rows, decides on *)
(* what it read, and its writes (UPDATE ... WHERE id = ...) become visible *)
(* at the commit, whatever happened to the row in between.  A handler is   *)
(* therefore a read step and a commit step; only the conditional UPDATE of *)
(* an approval re-checks the row, and holds its lock until the commit.     *)
(*                                                                         *)
(* A command stands for its idempotency key; the approval that holds a     *)
(* command back, if there is one, has the same index.                      *)
(***************************************************************************)
EXTENDS Integers, FiniteSets, StateMachines

CONSTANTS Commands,         \* idempotency keys of one tenant, for one agent
          Sessions,         \* database sessions, one per request in flight
          NoCommand,        \* the key of a session that works on no command
          CommandTTLs,      \* the lifetimes a submission may ask for
          ApprovalTTL,      \* mc_approval_default_ttl_seconds
          PollLimit,        \* the limit parameter of a poll
          MaxClock,         \* bound on time
          OperatorCancels   \* whether cancel_command is called at all

ASSUME ControlAssumption ==
    /\ NoCommand \notin Commands
    /\ IsFiniteSet(Sessions)
    /\ CommandTTLs \subseteq Nat \ {0}
    /\ ApprovalTTL \in Nat \ {0}
    /\ PollLimit \in Nat \ {0}
    /\ MaxClock \in Nat
    /\ OperatorCancels \in BOOLEAN

VARIABLES now,        \* the clock
          command,    \* table agent_commands
          approval,   \* table approval_requests
          outbox,     \* events written for each command, ever
          audit,      \* audit entries written for each command, ever
          handed,     \* how many committed polls put the command in their answer
          known,      \* commands whose id has reached the agent
          session     \* what each database session has read so far

vars == <<now, command, approval, outbox, audit, handed, known, session>>

-----------------------------------------------------------------------------
\* The rows.

Absent == [status |-> "absent", released |-> FALSE, created |-> 0, expires_at |-> 0]

NoApproval == [status |-> "absent", version |-> 0, expires_at |-> 0]

Command == [status : CommandStates \cup {"absent"}, released : BOOLEAN,
            created : Nat, expires_at : Nat]

Approval == [status : ApprovalStates \cup {"absent"}, version : Nat, expires_at : Nat]

Cancellation == [operator_cancel   |-> "command.cancelled by operator",
                 approval_rejected |-> "command.cancelled by rejection",
                 approval_expired  |-> "command.cancelled by expiry"]

\* Mutant: a successful result announced as an acknowledgement.
AnnouncesWrongly(status) ==
    CASE status \in {"acknowledged", "succeeded"} -> "command.acknowledged"
      [] status = "failed"       -> "command.failed"
      [] status = "cancelled"    -> Cancellation.operator_cancel

Announces(status) ==
    CASE status = "acknowledged" -> "command.acknowledged"
      [] status = "succeeded"    -> "command.succeeded"
      [] status = "failed"       -> "command.failed"
      [] status = "cancelled"    -> Cancellation.operator_cancel

Events == {"command.queued", "command.delivered", "command.expired",
           "command.acknowledged", "command.succeeded", "command.failed",
           "approval.requested", "approval.approved", "approval.rejected"}
            \cup {Cancellation.operator_cancel, Cancellation.approval_rejected,
                  Cancellation.approval_expired}

AuditActions == {"policy.evaluated", "command.submitted",
                 "approval.approved", "approval.rejected"}

is_expired(row) == row.expires_at <= now

\* Mutants: the release is not looked at; an unanswered delivery is repeated.
DeliverableHeld(k) == command[k].status = "queued"
DeliverableAgain(k) == command[k].status \in {"queued", "delivered"} /\ command[k].released

\* commands.py, _deliverable_query: queued and released, the clock aside.
Deliverable(k) == command[k].status = "queued" /\ command[k].released

-----------------------------------------------------------------------------
\* The sessions.

Idle == [pc |-> "idle", key |-> NoCommand, at |-> 0, until |-> 0, to |-> "none",
         from |-> "absent", version |-> 0, won |-> FALSE, deliver |-> {}, lapse |-> {}]

Targets == CommandStates \cup ApprovalStates \cup {"none", "allow", "require_approval"}

Session == [pc : {"idle", "submit", "decide", "decided", "expire", "expired",
                  "poll", "transition"},
            key : Commands \cup {NoCommand}, at : Nat, until : Nat, to : Targets,
            from : CommandStates \cup {"absent"}, version : Nat, won : BOOLEAN,
            deliver : SUBSET Commands, lapse : SUBSET Commands]

Begin(s, txn) == session[s] = Idle /\ session' = [session EXCEPT ![s] = txn]
Continue(s, txn) == session' = [session EXCEPT ![s] = txn]
End(s) == session' = [session EXCEPT ![s] = Idle]

\* Mutant: rows are updated without a lock.
LockedNever(k) == FALSE

\* The row lock of an approval that a session has updated and not committed.
Locked(k) == \E s \in Sessions : session[s].won /\ session[s].key = k

Written(log, k, entries) == [log EXCEPT ![k] = @ \cup entries]

-----------------------------------------------------------------------------
\* submit_command.

PolicyEffects == {"allow", "require_approval", "deny"}
BudgetGates == {"allow", "require_approval", "block"}

Refused(effect, gate) == effect = "deny" \/ gate = "block"

EffectiveEffect(effect, gate) ==
    IF gate = "require_approval" /\ effect = "allow" THEN "require_approval" ELSE effect

\* A deny, or an exceeded blocking budget: nothing is created, the audit of the
\* policy decision is committed before the request fails.
SubmitRefused(s, k) ==
    /\ session[s] = Idle
    /\ command[k].status = "absent"
    /\ \E effect \in PolicyEffects, gate \in BudgetGates : Refused(effect, gate)
    /\ audit' = Written(audit, k, {"policy.evaluated"})
    /\ UNCHANGED <<now, command, approval, outbox, handed, known, session>>

SubmitRead(s, k) ==
    /\ command[k].status = "absent"
    /\ \E effect \in PolicyEffects, gate \in BudgetGates, ttl \in CommandTTLs :
           /\ ~Refused(effect, gate)
           /\ Begin(s, [Idle EXCEPT !.pc = "submit", !.key = k, !.at = now,
                                    !.until = now + ttl,
                                    !.to = EffectiveEffect(effect, gate)])
    /\ UNCHANGED <<now, command, approval, outbox, audit, handed, known>>

SubmitCommit(s) ==
    LET txn == session[s]
        k == txn.key
        held == txn.to = "require_approval"
    IN  /\ txn.pc = "submit"
        /\ command[k].status = "absent"
        /\ command' = [command EXCEPT ![k] =
               [status |-> "queued", released |-> ~held,
                created |-> txn.at, expires_at |-> txn.until]]
        /\ approval' = IF held
                       THEN [approval EXCEPT ![k] =
                               [status |-> "pending", version |-> 1,
                                expires_at |-> txn.at + ApprovalTTL]]
                       ELSE approval
        /\ outbox' = Written(outbox, k,
                       {IF held THEN "approval.requested" ELSE "command.queued"})
        /\ audit' = Written(audit, k, {"policy.evaluated", "command.submitted"})
        /\ End(s)
        /\ UNCHANGED <<now, handed, known>>

\* uq_agent_commands_idempotency: the second of two first submissions with one
\* key fails at its INSERT and everything it wrote is rolled back.
SubmitConflict(s) ==
    /\ session[s].pc = "submit"
    /\ command[session[s].key].status # "absent"
    /\ End(s)
    /\ UNCHANGED <<now, command, approval, outbox, audit, handed, known>>

-----------------------------------------------------------------------------
\* _decide, for approve and reject, and _expire.

\* The version the operator's page showed: a row is 1 while pending, 2 after.
BodyVersions == 1..2

DecideRead(s, k, target, version) ==
    /\ approval[k].status = "pending"
    /\ ~is_expired(approval[k])
    /\ Begin(s, [Idle EXCEPT !.pc = "decide", !.key = k, !.to = target,
                             !.version = version])
    /\ UNCHANGED <<now, command, approval, outbox, audit, handed, known>>

\* Mutant: the version alone is compared, as if it could not be guessed.
MatchesVersionOnly(row, version) == row.version = version

\* The WHERE clause of the conditional UPDATE.
Matches(row, version) == row.status = "pending" /\ row.version = version

\* The conditional UPDATE waits for the row lock, then sees the committed row.
DecideUpdate(s) ==
    LET txn == session[s]
        k == txn.key
    IN  /\ txn.pc = "decide"
        /\ ~Locked(k)
        /\ Continue(s, IF ~Matches(approval[k], txn.version) THEN Idle
                       ELSE [txn EXCEPT !.pc = "decided", !.won = TRUE,
                                        !.from = command[k].status])
        /\ UNCHANGED <<now, command, approval, outbox, audit, handed, known>>

\* Mutant: the rejection leaves the command queued.
DecidedKept(row, target, from) ==
    IF target = "approved" THEN [row EXCEPT !.released = TRUE] ELSE row

\* The row of the linked command as the decision leaves it: an approval sets
\* released_at only, a rejection overwrites the status.
Decided(row, target, from) ==
    IF from # "queued" THEN row
    ELSE IF target = "approved" THEN [row EXCEPT !.released = TRUE]
    ELSE [row EXCEPT !.status = "cancelled"]

DecideCommit(s) ==
    LET txn == session[s]
        k == txn.key
        event == IF txn.to = "approved" THEN "approval.approved" ELSE "approval.rejected"
        linked == IF txn.from # "queued" THEN {}
                  ELSE IF txn.to = "approved" THEN {"command.queued"}
                  ELSE {Cancellation.approval_rejected}
    IN  /\ txn.pc = "decided"
        /\ approval' = [approval EXCEPT ![k].status = txn.to, ![k].version = @ + 1]
        /\ command' = [command EXCEPT ![k] = Decided(@, txn.to, txn.from)]
        /\ outbox' = Written(outbox, k, {event} \cup linked)
        /\ audit' = Written(audit, k, {event})
        /\ End(s)
        /\ UNCHANGED <<now, handed, known>>

DecideReadExpired(s, k) ==
    /\ approval[k].status = "pending"
    /\ is_expired(approval[k])
    /\ Begin(s, [Idle EXCEPT !.pc = "expire", !.key = k])
    /\ UNCHANGED <<now, command, approval, outbox, audit, handed, known>>

\* The UPDATE of _expire is conditional too, but its rowcount is not looked at.
ExpireUpdate(s) ==
    LET txn == session[s]
        k == txn.key
    IN  /\ txn.pc = "expire"
        /\ ~Locked(k)
        /\ Continue(s, [txn EXCEPT !.pc = "expired",
                                   !.won = (approval[k].status = "pending"),
                                   !.from = command[k].status])
        /\ UNCHANGED <<now, command, approval, outbox, audit, handed, known>>

ExpireCommit(s) ==
    LET txn == session[s]
        k == txn.key
    IN  /\ txn.pc = "expired"
        /\ approval' = IF txn.won
                       THEN [approval EXCEPT ![k].status = "expired", ![k].version = @ + 1]
                       ELSE approval
        /\ command' = IF txn.from = "queued"
                      THEN [command EXCEPT ![k].status = "cancelled"]
                      ELSE command
        /\ outbox' = Written(outbox, k, IF txn.from = "queued"
                                        THEN {Cancellation.approval_expired} ELSE {})
        /\ End(s)
        /\ UNCHANGED <<now, audit, handed, known>>

-----------------------------------------------------------------------------
\* poll_commands: each turn of the long poll is one _fetch_and_deliver.

\* Mutant: an expired command is passed over instead of lapsing.
BatchSkipping(deliver, lapse) ==
    /\ lapse = {} /\ deliver # {} /\ Cardinality(deliver) <= PollLimit
    /\ \A k \in deliver : Deliverable(k) /\ ~is_expired(command[k])

\* Candidates are taken oldest first, expired ones lapse on the way, and the
\* loop breaks at the PollLimit-th delivery.
Batch(deliver, lapse) ==
    LET candidates == {k \in Commands : Deliverable(k)}
        taken == deliver \cup lapse
    IN  /\ taken # {}
        /\ \A k \in deliver : k \in candidates /\ ~is_expired(command[k])
        /\ \A k \in lapse : k \in candidates /\ is_expired(command[k])
        /\ \A k \in taken, j \in candidates \ taken :
               command[k].created <= command[j].created
        /\ \/ taken = candidates /\ Cardinality(deliver) <= PollLimit
           \/ /\ Cardinality(deliver) = PollLimit
              /\ \A k \in lapse : \E j \in deliver : command[k].created <= command[j].created

PollRead(s) ==
    /\ \E deliver, lapse \in SUBSET Commands :
           /\ Batch(deliver, lapse)
           /\ Begin(s, [Idle EXCEPT !.pc = "poll", !.deliver = deliver, !.lapse = lapse])
    /\ UNCHANGED <<now, command, approval, outbox, audit, handed, known>>

\* The answer may be lost after the commit: the agent then knows nothing of it.
PollCommit(s) ==
    LET txn == session[s]
        taken == txn.deliver \cup txn.lapse
    IN  /\ txn.pc = "poll"
        /\ command' = [k \in Commands |->
               IF k \in taken
               THEN [command[k] EXCEPT !.status =
                        IF k \in txn.deliver THEN "delivered" ELSE "expired"]
               ELSE command[k]]
        /\ outbox' = [k \in Commands |->
               outbox[k] \cup (IF k \in txn.deliver THEN {"command.delivered"} ELSE {})
                         \cup (IF k \in txn.lapse THEN {"command.expired"} ELSE {})]
        /\ handed' = [k \in Commands |->
               IF k \in txn.deliver THEN handed[k] + 1 ELSE handed[k]]
        /\ known' \in {known, known \cup txn.deliver}
        /\ End(s)
        /\ UNCHANGED <<now, approval, audit>>

-----------------------------------------------------------------------------
\* ack_command, submit_result and cancel_command: transition_command on the row
\* that was read, idempotent when it already has the target state.

\* Mutant: the machine is not consulted.
AllowedAlways(current, target) == current # "absent"

Allowed(current, target) ==
    current = target \/ can_transition(COMMAND_TRANSITIONS, current, target)

TransitionRead(s, k, target) ==
    LET current == command[k].status
    IN  /\ Allowed(current, target)
        /\ Begin(s, [Idle EXCEPT !.pc = "transition", !.key = k, !.to = target,
                                 !.from = current])
        /\ UNCHANGED <<now, command, approval, outbox, audit, handed, known>>

AckRead(s, k) == k \in known /\ TransitionRead(s, k, "acknowledged")

ResultRead(s, k, result) == k \in known /\ TransitionRead(s, k, result)

CancelRead(s, k) == OperatorCancels /\ TransitionRead(s, k, "cancelled")

TransitionCommit(s) ==
    LET txn == session[s]
        k == txn.key
    IN  /\ txn.pc = "transition"
        /\ command' = IF txn.from = txn.to THEN command
                      ELSE [command EXCEPT ![k].status = txn.to]
        /\ outbox' = Written(outbox, k, {Announces(txn.to)})
        /\ End(s)
        /\ UNCHANGED <<now, approval, audit, handed, known>>

-----------------------------------------------------------------------------
\* A request dies before its commit (worker killed, connection lost).
Crash(s) ==
    /\ session[s] # Idle
    /\ End(s)
    /\ UNCHANGED <<now, command, approval, outbox, audit, handed, known>>

Tick ==
    /\ now < MaxClock
    /\ now' = now + 1
    /\ UNCHANGED <<command, approval, outbox, audit, handed, known, session>>

Init ==
    /\ now = 0
    /\ command = [k \in Commands |-> Absent]
    /\ approval = [k \in Commands |-> NoApproval]
    /\ outbox = [k \in Commands |-> {}]
    /\ audit = [k \in Commands |-> {}]
    /\ handed = [k \in Commands |-> 0]
    /\ known = {}
    /\ session = [s \in Sessions |-> Idle]

Submit(s) == SubmitCommit(s) \/ SubmitConflict(s)
                \/ \E k \in Commands : SubmitRefused(s, k) \/ SubmitRead(s, k)

Decide(s) == \/ DecideUpdate(s) \/ DecideCommit(s) \/ ExpireUpdate(s) \/ ExpireCommit(s)
             \/ \E k \in Commands :
                    \/ DecideReadExpired(s, k)
                    \/ \E target \in {"approved", "rejected"}, version \in BodyVersions :
                           DecideRead(s, k, target, version)

Transition(s) == \/ TransitionCommit(s)
                 \/ \E k \in Commands :
                        \/ AckRead(s, k) \/ CancelRead(s, k)
                        \/ \E result \in {"succeeded", "failed"} : ResultRead(s, k, result)

Next == \/ Tick
        \/ \E s \in Sessions : Submit(s) \/ Decide(s) \/ PollRead(s) \/ PollCommit(s)
                                 \/ Transition(s) \/ Crash(s)

Spec == Init /\ [][Next]_vars

\* The commands that a session has read and is about to write over (a decision
\* reads the linked command once it has the approval), and the status it read.
Holds(s) ==
    session[s].deliver \cup session[s].lapse
      \cup (IF session[s].pc \in {"decided", "expired", "transition"}
            THEN {session[s].key} ELSE {})

ReadAs(s) == IF session[s].pc = "poll" THEN "queued" ELSE session[s].from

\* No two requests hold the same command; of any others, all may overlap.
Apart == \A s, t \in Sessions : s # t => Holds(s) \cap Holds(t) = {}

ApartSpec == Init /\ [][Next /\ Apart']_vars

\* Requests that are served finish sooner or later, however often others are
\* killed (row locks are granted in turn), the agent keeps polling and some of
\* its polls survive.  Nothing is assumed of the agent's answers nor of the
\* operators: no code makes them come.
Finish(s) == \/ SubmitCommit(s) \/ SubmitConflict(s) \/ DecideUpdate(s) \/ DecideCommit(s)
             \/ ExpireUpdate(s) \/ ExpireCommit(s) \/ PollCommit(s) \/ TransitionCommit(s)

FairApart ==
    /\ ApartSpec
    /\ WF_vars(Tick)
    /\ \A s \in Sessions : SF_vars(Finish(s))
    /\ SF_vars(\E s \in Sessions : PollRead(s))
    /\ SF_vars(\E s \in Sessions : PollCommit(s))

-----------------------------------------------------------------------------
(***************************************************************************)
(* Properties.                                                             *)
(***************************************************************************)

\* Every variable ranges over the values the code can store.
TypeOK ==
    /\ now \in 0..MaxClock
    /\ command \in [Commands -> Command]
    /\ approval \in [Commands -> Approval]
    /\ outbox \in [Commands -> SUBSET Events]
    /\ audit \in [Commands -> SUBSET AuditActions]
    /\ handed \in [Commands -> Nat]
    /\ known \subseteq Commands
    /\ session \in [Sessions -> Session]

\* Gate P5: a command that was put in a poll's answer needed no approval or has
\* been approved, whatever polls, decisions and expirations overlapped
\* (_deliverable_query, _decide, _expire).
HandedOnlyIfApproved ==
    \A k \in Commands : handed[k] > 0 => approval[k].status \in {"absent", "approved"}

\* The two rows written by one decision never disagree, although the decision
\* overwrites the command from what it read before: an undecided approval holds
\* its command back, an approval releases it unless it was cancelled first, a
\* rejection or an expiration leaves it cancelled and never released.
ApprovalCommandAgreement ==
    \A k \in Commands :
        /\ approval[k].status = "pending" =>
               command[k].status \in {"queued", "cancelled"} /\ ~command[k].released
        /\ approval[k].status = "approved" =>
               command[k].released \/ command[k].status = "cancelled"
        /\ approval[k].status \in {"rejected", "expired"} =>
               command[k].status = "cancelled" /\ ~command[k].released

\* Two operators never both decide: the audit trail holds the decision the
\* approval row shows and no other one (conditional UPDATE in _decide).
OneAuditedDecision ==
    \A k \in Commands :
        audit[k] \cap {"approval.approved", "approval.rejected"}
          = IF approval[k].status = "approved" THEN {"approval.approved"}
            ELSE IF approval[k].status = "rejected" THEN {"approval.rejected"}
            ELSE {}

Signal == [delivered    |-> "command.delivered",
           acknowledged |-> "command.acknowledged",
           succeeded    |-> "command.succeeded",
           failed       |-> "command.failed",
           expired      |-> "command.expired"]

\* A listener of the outbox can follow the command: an event was written for the
\* status each command is in, and for its release, in the same transaction.
StatusAnnounced ==
    \A k \in Commands :
        /\ command[k].released => "command.queued" \in outbox[k]
        /\ command[k].status = "cancelled" =>
               \E reason \in DOMAIN Cancellation : Cancellation[reason] \in outbox[k]
        /\ \A status \in DOMAIN Signal :
               command[k].status = status => Signal[status] \in outbox[k]

\* The strengthening that makes HandedOnlyIfApproved, ApprovalCommandAgreement
\* and OneAuditedDecision inductive: what a transaction in flight has read stays
\* true of the rows it will overwrite.

\* A row that does not exist is held back by nothing; what reached the agent, or
\* is in the answer of a poll, was released; only an approval releases.
RowFacts ==
    \A k \in Commands :
        /\ command[k].status = "absent" => /\ ~command[k].released
                                          /\ approval[k].status = "absent"
        /\ handed[k] > 0 \/ k \in known => command[k].released
        /\ command[k].released => approval[k].status \in {"absent", "approved"}

\* Whoever changed an approval and has not committed is alone to have done so,
\* the committed row is still pending, and the linked command is still as the
\* session read it, unless an operator cancelled it.
LockFacts ==
    /\ \A s \in Sessions : session[s].won =>
           /\ session[s].pc \in {"decided", "expired"}
           /\ approval[session[s].key].status = "pending"
           /\ session[s].from # "queued" => command[session[s].key].status = "cancelled"
    /\ \A s, t \in Sessions :
           session[s].won /\ session[t].won /\ session[s].key = session[t].key => s = t

\* The rows a session will write exist, and those an agent acts on are released.
SessionFacts ==
    \A s \in Sessions :
        /\ session[s].pc \notin {"idle", "poll"} => session[s].key \in Commands
        /\ \A k \in session[s].deliver \cup session[s].lapse : command[k].released
        /\ session[s].pc = "submit" => session[s].to \in {"allow", "require_approval"}
        /\ session[s].pc \in {"decide", "decided", "expire", "expired"} =>
               approval[session[s].key].status # "absent"
        /\ session[s].pc \in {"decide", "decided"} =>
               session[s].to \in {"approved", "rejected"}
        /\ session[s].pc = "decided" => session[s].won
        /\ session[s].pc = "transition" =>
               /\ session[s].to \in {"acknowledged", "succeeded", "failed", "cancelled"}
               /\ command[session[s].key].status # "absent"
               /\ session[s].to # "cancelled" => command[session[s].key].released

ControlInv == /\ TypeOK /\ RowFacts /\ LockFacts /\ SessionFacts
              /\ ApprovalCommandAgreement /\ OneAuditedDecision

\* The approvals implement the frozen machine under full concurrency: created
\* pending, decided or expired once, then immutable.
ApprovalLife == INSTANCE Lifecycle
    WITH Entities <- Commands, States <- ApprovalStates, Births <- {"pending"},
         Moves <- APPROVAL_TRANSITIONS, state <- [k \in Commands |-> approval[k].status]

ApprovalsFollowMachine == ApprovalLife!Spec

\* The session ends with a write of the command, to a status the machine lists for
\* the one it had read.
MovesWhatItRead(s, k) ==
    /\ k \in Holds(s) /\ session'[s] = Idle
    /\ can_transition(COMMAND_TRANSITIONS, ReadAs(s), command'[k].status)

\* Whatever requests overlap, a command is created in the queue and each later change
\* of it is a transition of the machine from the status that its request had read: it
\* strays from the machine, out of a terminal state even, only where another request
\* has moved it in between (transition_command checks the row it read,
\* _fetch_and_deliver and _decide the status they selected).
CommandsMoveFromRead ==
    [][\A k \in Commands :
          \/ command'[k].status = command[k].status
          \/ command[k].status = "absent" /\ command'[k].status = "queued"
          \/ \E s \in Sessions : MovesWhatItRead(s, k)]_vars

\* state_machines.py: a terminal state is immutable.
TerminalIsImmutable ==
    [][\A k \in Commands :
          command[k].status \in terminal_states(CommandStates, COMMAND_TRANSITIONS)
            => command'[k].status = command[k].status]_vars

\* A command is given to the agent again only by polls that overlapped the first one:
\* no more often than requests are served at once, however long the agent polls and
\* however many answers are lost (_deliverable_query, _fetch_and_deliver).
HandedOncePerOverlap == \A k \in Commands : handed[k] <= Cardinality(Sessions)

\* A released command does not stay in the queue while the agent polls: it is
\* delivered, or lapses, or is cancelled (poll_commands).
ReleasedLeavesQueue ==
    \A k \in Commands : Deliverable(k) ~> ~Deliverable(k)

=============================================================================
