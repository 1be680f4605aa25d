----------------------------- MODULE EventIngest -----------------------------
(***************************************************************************)
(* Ingest of one agent's sequenced events and heartbeats, and their        *)
(* projection into runs and steps (apps/api/agent_control/ingest/service.py *)
(* and runs/service.py).                                                    *)
(*                                                                         *)
(* A request is a database transaction in three steps: the agent row is    *)
(* loaded with the credential; the batch is deduplicated, filtered and     *)
(* projected onto the runs as they then are; the commit writes everything  *)
(* at once, overwriting the agent and the runs by primary key.  Unique     *)
(* indexes are the only arbiters between overlapping requests: one that    *)
(* violates an index loses everything it did.                              *)
(*                                                                         *)
(* Events are numbered by their sequence, which stands for their id too,   *)
(* and are about one run and one step of the agent.                        *)
(***************************************************************************)
EXTENDS Integers, FiniteSets, StateMachines

CONSTANTS MaxEvent,    \* events the producer numbers 1..MaxEvent
          Kinds,       \* the kinds of events it may send, subset of EventKinds
          Orphans,     \* the events that name a project or a task that is not there
          Beats,       \* the sequences its heartbeats may carry, 0 for none
          Sessions     \* requests in flight

StepKinds == {"run.step.started", "run.step.completed", "run.step.failed"}

\* A run event is named after its state; "refused" stands for a type outside the
\* catalogue or an unreadable date, "other" for an event that projects nothing.
EventKinds == RunStates \cup StepKinds \cup {"refused", "other"}

ASSUME IngestAssumption ==
    /\ MaxEvent \in Nat
    /\ Kinds \subseteq EventKinds
    /\ Orphans \subseteq 1..MaxEvent
    /\ Beats \subseteq 0..MaxEvent

Events == 1..MaxEvent

\* The states a heartbeat may report; stale is refused.
AgentStates == {"idle", "working", "blocked", "done", "error"}

\* What heartbeat n reports, fixed by its number.
BeatState(n) == IF n % 2 = 0 THEN "working" ELSE "done"

VARIABLES kind,           \* what each event is, never changes
          journal,        \* table agent_events: the events accepted
          outbox,         \* how many outbox rows carry each event
          last_sequence,  \* agents.last_sequence
          agent_state,    \* agents.state
          newest,         \* the newest sequence of the heartbeats applied
          run,            \* agent_runs.state of the run
          step,           \* agent_run_steps.state of its step
          session         \* what each request has read and decided

vars == <<kind, journal, outbox, last_sequence, agent_state, newest, run, step, session>>

-----------------------------------------------------------------------------
\* Projection of one event.

STEP_STATE_BY_EVENT == [started |-> "started", completed |-> "succeeded", failed |-> "failed"]

StepState(k) == CASE k = "run.step.started"   -> STEP_STATE_BY_EVENT.started
                  [] k = "run.step.completed" -> STEP_STATE_BY_EVENT.completed
                  [] k = "run.step.failed"    -> STEP_STATE_BY_EVENT.failed

\* Mutant: a projected state is taken as it comes.
ProjectedBlindly(state, new) == new

\* project_run_event, transition_run: the first event creates the run in its
\* state, a transition the machine does not list is ignored.
Projected(state, new) ==
    IF state = "absent" \/ can_transition(RUN_TRANSITIONS, state, new) THEN new ELSE state

\* Mutants: a step may be opened again; a step without run is kept.
StepReopened(runState, state, new) == IF runState = "absent" THEN state ELSE new
StepOrphaned(runState, state, new) ==
    IF state # "absent" /\ new = "started" THEN state ELSE new

\* project_run_step_event: no run, no step; an open step only takes a closing.
StepProjected(runState, state, new) ==
    IF runState = "absent" \/ (state # "absent" /\ new = "started") THEN state ELSE new

\* Mutant: only the next sequence is taken.
AcceptsNextOnly(read, n) == n \notin read.known /\ kind[n] # "refused" /\ n = read.last + 1

\* ingest_events: neither journaled before, nor malformed, nor older than the
\* last accepted sequence.
Accepts(read, n) == n \notin read.known /\ kind[n] # "refused" /\ n > read.last

Apply(read, n) ==
    [read EXCEPT !.last = n, !.accepted = @ \cup {n},
                 !.run = IF kind[n] \in RunStates THEN Projected(@, kind[n]) ELSE @,
                 !.step = IF kind[n] \in StepKinds
                          THEN StepProjected(read.run, @, StepState(kind[n])) ELSE @]

\* The batch is handled in the order of the sequences.
Ingested(read, batch) ==
    LET after[n \in 0..MaxEvent] ==
            IF n = 0 THEN read
            ELSE IF n \in batch /\ Accepts(after[n - 1], n) THEN Apply(after[n - 1], n)
            ELSE after[n - 1]
    IN  after[MaxEvent]

\* The run that event n creates refers to nothing (foreign keys of agent_runs).
Dangles(read, n) ==
    n \in Orphans /\ kind[n] \in RunStates /\ read.run = "absent" /\ Accepts(read, n)

\* _create_run flushes the run within the batch: nobody catches what that raises.
Fails(read, batch) == \E n \in batch : Dangles(Ingested(read, batch \cap 1..(n - 1)), n)

-----------------------------------------------------------------------------
\* Requests.

Idle == [pc |-> "idle", last |-> 0]

Enter(s, txn) == session[s].pc = "idle" /\ session' = [session EXCEPT ![s] = txn]
Leave(s) == session' = [session EXCEPT ![s] = Idle]

\* resolve_agent_credential loads the agent; then comes a batch or a heartbeat.
Authenticate(s) ==
    /\ Enter(s, [pc |-> "authenticated", last |-> last_sequence, state |-> agent_state])
    /\ UNCHANGED <<kind, journal, outbox, last_sequence, agent_state, newest, run, step>>

\* What a batch starts from: the agent as authenticated, the rest as it now is.
Read(s) == [known |-> journal, last |-> session[s].last, accepted |-> {},
            run |-> run, step |-> step]

ProjectBatch(s, batch) ==
    /\ session[s].pc = "authenticated"
    /\ ~Fails(Read(s), batch)
    /\ session' = [session EXCEPT ![s] =
           [pc |-> "projected", last |-> session[s].last, batch |-> batch, read |-> Read(s),
            new |-> Ingested(Read(s), batch)]]
    /\ UNCHANGED <<kind, journal, outbox, last_sequence, agent_state, newest, run, step>>

\* The projection of one event takes the batch with it, whatever it holds.
ProjectFails(s, batch) ==
    /\ session[s].pc = "authenticated"
    /\ Fails(Read(s), batch)
    /\ Leave(s)
    /\ UNCHANGED <<kind, journal, outbox, last_sequence, agent_state, newest, run, step>>

\* A row the session inserts while another session has committed the same key.
ProjectionConflict(txn) ==
    \/ txn.read.run = "absent" /\ txn.new.run # "absent" /\ run # "absent"
    \/ txn.read.step = "absent" /\ txn.new.step # "absent" /\ step # "absent"

\* Mutant: no unique index on the events.
ConflictUnindexed(txn) == ProjectionConflict(txn)

Conflict(txn) == txn.new.accepted \cap journal # {} \/ ProjectionConflict(txn)

\* A column is written only if the session changed what it had read.
Overwritten(current, read, new) == IF read = new THEN current ELSE new

CommitBatch(s) ==
    LET txn == session[s]
    IN  /\ txn.pc = "projected"
        /\ ~Conflict(txn)
        /\ journal' = journal \cup txn.new.accepted
        /\ outbox' = [n \in Events |->
               IF n \in txn.new.accepted THEN outbox[n] + 1 ELSE outbox[n]]
        /\ last_sequence' = Overwritten(last_sequence, txn.last, txn.new.last)
        /\ run' = Overwritten(run, txn.read.run, txn.new.run)
        /\ step' = Overwritten(step, txn.read.step, txn.new.step)
        /\ Leave(s)
        /\ UNCHANGED <<kind, agent_state, newest>>

ConflictBatch(s) ==
    /\ session[s].pc = "projected"
    /\ Conflict(session[s])
    /\ Leave(s)
    /\ UNCHANGED <<kind, journal, outbox, last_sequence, agent_state, newest, run, step>>

\* Mutant: an old heartbeat is applied like any other.
OutdatedNever(n, last) == FALSE

Outdated(n, last) == n # 0 /\ n < last

\* ingest_heartbeat_v1: an outdated heartbeat only proves that the agent lives.
Heartbeat(s, n) ==
    LET txn == session[s]
    IN  /\ txn.pc = "authenticated"
        /\ IF Outdated(n, txn.last)
           THEN UNCHANGED <<last_sequence, agent_state, newest>>
           ELSE /\ agent_state' = Overwritten(agent_state, txn.state, BeatState(n))
                /\ newest' = IF n # 0 /\ n < newest THEN newest ELSE n
                /\ last_sequence' = IF n > txn.last THEN n ELSE last_sequence
        /\ Leave(s)
        /\ UNCHANGED <<kind, journal, outbox, run, step>>

\* The request dies before its commit.
Crash(s) ==
    /\ session[s].pc # "idle"
    /\ Leave(s)
    /\ UNCHANGED <<kind, journal, outbox, last_sequence, agent_state, newest, run, step>>

Init ==
    /\ kind \in [Events -> Kinds]
    /\ journal = {}
    /\ outbox = [n \in Events |-> 0]
    /\ last_sequence = 0
    /\ agent_state = "idle"
    /\ newest = 0
    /\ run = "absent"
    /\ step = "absent"
    /\ session = [s \in Sessions |-> Idle]

Next ==
    \E s \in Sessions :
        \/ Authenticate(s) \/ CommitBatch(s) \/ ConflictBatch(s) \/ Crash(s)
        \/ \E batch \in SUBSET Events \ {{}} : ProjectBatch(s, batch) \/ ProjectFails(s, batch)
        \/ \E n \in Beats : Heartbeat(s, n)

Spec == Init /\ [][Next]_vars

\* The producer sends every event again, by itself, until it is answered, and some of
\* these requests survive to their commit.
FairSpec ==
    /\ Spec
    /\ \A s \in Sessions : WF_vars(Authenticate(s)) /\ SF_vars(CommitBatch(s) \/ ConflictBatch(s))
    /\ \A n \in Events : SF_vars(\E s \in Sessions : ProjectBatch(s, {n}))
    /\ \A n \in Events : SF_vars(\E s \in Sessions : CommitBatch(s) /\ session[s].batch = {n})

-----------------------------------------------------------------------------
(***************************************************************************)
(* Properties.                                                             *)
(***************************************************************************)

Rows == [known : SUBSET Events, last : 0..MaxEvent, accepted : SUBSET Events,
         run : RunStates \cup {"absent"},
         step : {"absent", "started", "succeeded", "failed"}]

Transaction ==
    [pc : {"projected"}, last : 0..MaxEvent, batch : SUBSET Events, read : Rows, new : Rows]

\* Every variable ranges over what the code can store.
TypeOK ==
    /\ kind \in [Events -> Kinds]
    /\ journal \subseteq Events
    /\ outbox \in [Events -> Nat]
    /\ last_sequence \in 0..MaxEvent
    /\ agent_state \in AgentStates
    /\ newest \in 0..MaxEvent
    /\ run \in RunStates \cup {"absent"}
    /\ step \in {"absent", "started", "succeeded", "failed"}
    /\ session \in [Sessions -> {Idle} \cup Transaction
                                  \cup [pc : {"authenticated"}, last : 0..MaxEvent,
                                        state : AgentStates]]

\* An event sent again, alone or in another batch, overlapping or not, is
\* diffused exactly once, and only if it is journaled (dedup by event_id, one
\* transaction for journal and outbox).
PublishedOnce == \A n \in Events : outbox[n] = IF n \in journal THEN 1 ELSE 0

\* What a batch leaves of the rows it read: a projection it changed shows an event
\* that it accepts, is never back to absent, and a step it found is only closed.
Sound(read, new) ==
    /\ read.last <= new.last
    /\ \A n \in new.accepted : n <= new.last
    /\ new.run # read.run => \E n \in new.accepted : kind[n] = new.run
    /\ new.run = "absent" => read.run = "absent"
    /\ new.step # read.step =>
          /\ new.run # "absent"
          /\ new.step # "absent"
          /\ read.step # "absent" => new.step # "started"
          /\ \E n \in new.accepted : kind[n] \in StepKinds /\ StepState(kind[n]) = new.step

\* What makes the invariants inductive: a batch that is about to be committed is
\* sound, and the run it read is still there.
BatchesSound ==
    \A s \in Sessions : session[s].pc = "projected" =>
        /\ Sound(session[s].read, session[s].new)
        /\ session[s].read.run # "absent" => run # "absent"

\* The invariant the run checks first.
IngestInv == TypeOK /\ PublishedOnce /\ BatchesSound

\* The run shows a state that a journaled event announced, and a step of a run
\* that exists, whatever requests overlap: an overwritten projection is stale,
\* never invented, and no projection outlives the rollback of its event.
ProjectionFromJournal ==
    /\ run # "absent" => \E n \in journal : kind[n] = run
    /\ step # "absent" => run # "absent"
    /\ step # "absent" => \E n \in journal : kind[n] \in StepKinds /\ StepState(kind[n]) = step

StepClosed == step \in {"succeeded", "failed"}

\* A closed step is never opened again (project_run_step_event).
StepStaysClosed == [][StepClosed => StepClosed']_vars

\* Whatever batches overlap, a run is created only where there is none, and a batch
\* moves it along the frozen machine from the state that this batch read: it is moved
\* out of a terminal state, or aside, only by a batch that read it before another
\* one's commit.
RunMovesFromRead ==
    [][run' # run =>
       \E s \in Sessions :
          /\ session[s].pc = "projected" /\ session'[s] = Idle
          /\ \/ session[s].read.run = "absent" /\ run = "absent"
             \/ <<session[s].read.run, run'>> \in paths(RUN_TRANSITIONS, MaxEvent)]_vars

\* Nothing journaled, and no applied heartbeat, is ahead of last_sequence, so nothing
\* at or below it is taken for new; and the agent shows its newest heartbeat.
AgentCurrent ==
    /\ \A n \in journal : n <= last_sequence
    /\ newest <= last_sequence
    /\ newest # 0 => agent_state = BeatState(newest)

\* The row of the agent is no longer what the request authenticated with.
StaleAgent(s) ==
    \/ session[s].pc # "idle" /\ session[s].last # last_sequence
    \/ session[s].pc = "authenticated" /\ session[s].state # agent_state

\* However batches and heartbeats overlap, and in whatever order they arrive, the row
\* of the agent falls behind its journal or its heartbeats only by the commit of a
\* request that had read it before another one changed it.
AgentFallsBehindByStale ==
    [][AgentCurrent => AgentCurrent' \/ \E s \in Sessions : StaleAgent(s) /\ session'[s] = Idle]_vars

\* A well-formed event that the producer keeps sending is journaled in the end,
\* unless a later sequence was taken before it, or it would create the run of a project
\* or task that is not there and no other event ever creates that run: the failure of
\* its projection then refuses it for good (ingest/service.py:58-64 says never).
EventuallyAccounted ==
    \A n \in Events : kind[n] # "refused" =>
        \/ <>(n \in journal \/ last_sequence >= n)
        \/ [](run = "absent" /\ kind[n] \in RunStates /\ n \in Orphans)

=============================================================================
