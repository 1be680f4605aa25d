-------------------------- MODULE EventIngestProofs --------------------------
(***************************************************************************)
(* The ingest of an agent's events, for any number of events, any batches  *)
(* and any number of overlapping requests: the journal and the outbox are  *)
(* written exactly once, what the projections show was announced by a      *)
(* journaled event, a batch moves the run along the machine from what it   *)
(* read, and only a stale request makes the agent fall behind its journal  *)
(* and its heartbeats.                                                     *)
(***************************************************************************)
EXTENDS EventIngest, Orders, TLAPS

\* What the handling of a batch does at event n.
Handled(batch, x, n) == IF n \in batch /\ Accepts(x, n) THEN Apply(x, n) ELSE x

\* Whatever holds of the rows as they were read, and is kept by the handling of an
\* event, holds of the rows as the batch leaves them.
LEMMA IngestedStaysIn ==
    ASSUME NEW J, NEW read \in J, NEW batch,
           \A x \in J, n \in Events : Handled(batch, x, n) \in J
    PROVE  Ingested(read, batch) \in J
<1> DEFINE Body(f) == [n \in 0..MaxEvent |->
                          IF n = 0 THEN read
                          ELSE IF n \in batch /\ Accepts(f[n - 1], n) THEN Apply(f[n - 1], n)
                          ELSE f[n - 1]]
           F == [n \in 1..MaxEvent |-> [x \in J |-> Handled(batch, x, n)]]
<1>0. MaxEvent \in Nat /\ Events = 1..MaxEvent
  BY IngestAssumption DEF IngestAssumption, Events
<1>1. PICK g : Iterates(g, MaxEvent, J, read, F)
  <2>1. Steps(F, MaxEvent, J)
    BY <1>0 DEF Steps
  <2> HIDE DEF F
  <2> QED
    BY <1>0, <2>1, Iteration
<1>2. g = Body(g)
  <2>1. ASSUME NEW n \in 1..MaxEvent PROVE g[n] = Handled(batch, g[n - 1], n)
    <3>1. n - 1 \in 0..MaxEvent
      BY <1>0
    <3>2. g[n - 1] \in J /\ g[n] = F[n][g[n - 1]]
      BY <1>1, <3>1 DEF Iterates
    <3> QED
      BY <3>2
  <2>2. ASSUME NEW n \in 0..MaxEvent PROVE g[n] = Body(g)[n]
    <3>1. CASE n = 0
      BY <1>1, <3>1 DEF Iterates
    <3>2. CASE n # 0
      BY <1>0, <2>1, <3>2 DEF Handled
    <3> QED
      BY <3>1, <3>2
  <2> HIDE DEF F
  <2> QED
    BY <1>1, <2>2 DEF Iterates
<1> DEFINE after == CHOOSE f : f = Body(f)
<1>3. after = Body(after)
  <2> HIDE DEF Body
  <2> QED
    BY <1>2
<1>4. Ingested(read, batch) = after[MaxEvent]
  BY DEF Ingested
<1> HIDE DEF after
<1> DEFINE S == {n \in 0..MaxEvent : after[n] \in J}
<1>5. Inductive(S, MaxEvent)
  <2>1. 0 \in S
    BY <1>0, <1>3
  <2>2. ASSUME NEW n \in Nat, n < MaxEvent, n \in S PROVE n + 1 \in S
    <3>1. n + 1 \in Events /\ n + 1 \in 0..MaxEvent /\ n + 1 # 0 /\ (n + 1) - 1 = n
      BY <1>0, <2>2
    <3>2. after[n + 1] = Handled(batch, after[n], n + 1)
      BY <1>3, <3>1 DEF Handled
    <3> QED
      BY <2>2, <3>1, <3>2
  <2> QED
    BY <2>1, <2>2 DEF Inductive
<1>6. MaxEvent \in S
  <2> HIDE DEF S
  <2> QED
    BY <1>0, <1>5, InductionUpTo
<1> QED
  BY <1>4, <1>6


\* The columns of the rows after the step of an event.
LEMMA AppliedColumns ==
    ASSUME NEW x \in Rows, NEW n
    PROVE  Apply(x, n) =
              [known |-> x.known, last |-> n, accepted |-> x.accepted \cup {n},
               run |-> IF kind[n] \in RunStates THEN Projected(x.run, kind[n]) ELSE x.run,
               step |-> IF kind[n] \in StepKinds
                        THEN StepProjected(x.run, x.step, StepState(kind[n])) ELSE x.step]
<1> DEFINE newRun == IF kind[n] \in RunStates THEN Projected(x.run, kind[n]) ELSE x.run
           newStep == IF kind[n] \in StepKinds
                      THEN StepProjected(x.run, x.step, StepState(kind[n])) ELSE x.step
<1>1. Apply(x, n) = [x EXCEPT !.last = n, !.accepted = x.accepted \cup {n},
                              !.run = newRun, !.step = newStep]
  BY DEF Apply
<1> HIDE DEF newRun, newStep
<1>2. Apply(x, n) = [known |-> x.known, last |-> n, accepted |-> x.accepted \cup {n},
                     run |-> newRun, step |-> newStep]
  BY <1>1 DEF Rows
<1> QED
  BY <1>2 DEF newRun, newStep

\* The step of an event keeps the type of the rows.
LEMMA HandledTyped ==
    ASSUME TypeOK, NEW x \in Rows, NEW n \in Events, NEW batch
    PROVE  Handled(batch, x, n) \in Rows
<1>1. CASE n \in batch /\ Accepts(x, n)
  <2>1. Handled(batch, x, n) = Apply(x, n)
    BY <1>1 DEF Handled
  <2>2. kind[n] \in EventKinds /\ n \in 0..MaxEvent
    BY IngestAssumption DEF TypeOK, IngestAssumption, Events
  <2> DEFINE newRun == IF kind[n] \in RunStates THEN Projected(x.run, kind[n]) ELSE x.run
             newStep == IF kind[n] \in StepKinds
                        THEN StepProjected(x.run, x.step, StepState(kind[n])) ELSE x.step
  <2>3. newRun \in RunStates \cup {"absent"}
    BY DEF Projected, Rows
  <2>4. newStep \in {"absent", "started", "succeeded", "failed"}
    BY DEF StepProjected, StepState, StepKinds, STEP_STATE_BY_EVENT, Rows
  <2>5. Apply(x, n) = [known |-> x.known, last |-> n, accepted |-> x.accepted \cup {n},
                       run |-> newRun, step |-> newStep]
    BY AppliedColumns
  <2> HIDE DEF newRun, newStep
  <2> QED
    BY <2>1, <2>2, <2>3, <2>4, <2>5 DEF Rows
<1>2. CASE ~(n \in batch /\ Accepts(x, n))
  BY <1>2 DEF Handled
<1> QED
  BY <1>1, <1>2

\* And what a batch leaves is sound.
LEMMA HandledSound ==
    ASSUME TypeOK, NEW read \in Rows, NEW x \in Rows, Sound(read, x), NEW n \in Events, NEW batch
    PROVE  Sound(read, Handled(batch, x, n))
<1>1. CASE n \in batch /\ Accepts(x, n)
  <2> DEFINE y == Apply(x, n)
  <2>1. Handled(batch, x, n) = y
    BY <1>1 DEF Handled
  <2>2. n > x.last /\ n \in Nat /\ x.last \in Nat /\ read.last \in Nat /\ x.accepted \subseteq Nat
    BY <1>1, IngestAssumption DEF Accepts, Rows, Events, IngestAssumption
  <2>3. /\ y.last = n /\ y.accepted = x.accepted \cup {n}
        /\ y.run = IF kind[n] \in RunStates THEN Projected(x.run, kind[n]) ELSE x.run
        /\ y.step = IF kind[n] \in StepKinds
                    THEN StepProjected(x.run, x.step, StepState(kind[n])) ELSE x.step
    BY AppliedColumns
  <2> HIDE DEF y
  <2>4. read.last <= y.last /\ \A k \in y.accepted : k <= y.last
    BY <2>2, <2>3 DEF Sound
  <2>5. y.run = x.run \/ (kind[n] \in RunStates /\ y.run = kind[n])
    BY <2>3 DEF Projected
  <2>6. "absent" \notin RunStates
    BY DEF RunStates
  <2>7. /\ y.run # read.run => \E k \in y.accepted : kind[k] = y.run
        /\ y.run = "absent" => read.run = "absent"
        /\ x.run # "absent" => y.run # "absent"
    BY <2>3, <2>5, <2>6 DEF Sound
  <2>8. \/ y.step = x.step
        \/ /\ kind[n] \in StepKinds
           /\ y.step = StepState(kind[n])
           /\ x.run # "absent"
           /\ ~(x.step # "absent" /\ y.step = "started")
    BY <2>3 DEF StepProjected
  <2>9. kind[n] \in StepKinds => StepState(kind[n]) \in {"started", "succeeded", "failed"}
    BY DEF StepKinds, StepState, STEP_STATE_BY_EVENT
  <2>10. y.step # read.step =>
           /\ y.run # "absent"
           /\ y.step # "absent"
           /\ read.step # "absent" => y.step # "started"
           /\ \E k \in y.accepted : kind[k] \in StepKinds /\ StepState(kind[k]) = y.step
    <3>1. CASE y.step = x.step
      BY <2>3, <2>7, <3>1 DEF Sound
    <3>2. CASE y.step # x.step
      BY <2>3, <2>7, <2>8, <2>9, <3>2 DEF Sound
    <3> QED
      BY <3>1, <3>2
  <2> QED
    BY <2>1, <2>4, <2>7, <2>10 DEF Sound
<1>2. CASE ~(n \in batch /\ Accepts(x, n))
  BY <1>2 DEF Handled
<1> QED
  BY <1>1, <1>2

LEMMA IngestedSound ==
    ASSUME TypeOK, NEW read \in Rows, read.accepted = {}, NEW batch
    PROVE  Ingested(read, batch) \in Rows /\ Sound(read, Ingested(read, batch))
<1> DEFINE J == {x \in Rows : Sound(read, x)}
<1>1. read \in J
  BY IngestAssumption DEF Sound, Rows, IngestAssumption
<1>2. \A x \in J, n \in Events : Handled(batch, x, n) \in J
  BY HandledTyped, HandledSound
<1>3. Ingested(read, batch) \in J
  <2> HIDE DEF J
  <2> QED
    BY <1>1, <1>2, IngestedStaysIn
<1> QED
  BY <1>3


LEMMA InitIngest == Init => IngestInv /\ ProjectionFromJournal
<1> SUFFICES ASSUME Init PROVE IngestInv /\ ProjectionFromJournal
  OBVIOUS
<1>1. TypeOK
  BY IngestAssumption DEF Init, TypeOK, Idle, AgentStates, IngestAssumption
<1> QED
  BY <1>1 DEF Init, IngestInv, PublishedOnce, BatchesSound, ProjectionFromJournal, Idle

LEMMA AuthenticateStep ==
    ASSUME IngestInv, ProjectionFromJournal, NEW s \in Sessions, Authenticate(s)
    PROVE  IngestInv' /\ ProjectionFromJournal'
<1> DEFINE txn == [pc |-> "authenticated", last |-> last_sequence, state |-> agent_state]
<1>1. session' = [session EXCEPT ![s] = txn]
  BY DEF Authenticate, Enter
<1>2. UNCHANGED <<kind, journal, outbox, last_sequence, agent_state, newest, run, step>>
  BY DEF Authenticate
<1>3. txn \in [pc : {"authenticated"}, last : 0..MaxEvent, state : AgentStates]
  BY DEF IngestInv, TypeOK
<1>4. txn.pc # "projected"
  OBVIOUS
<1> HIDE DEF txn
<1>5. TypeOK'
  BY <1>1, <1>2, <1>3 DEF IngestInv, TypeOK
<1>6. BatchesSound'
  BY <1>1, <1>2, <1>4 DEF IngestInv, TypeOK, BatchesSound, Sound
<1> QED
  BY <1>2, <1>5, <1>6 DEF IngestInv, PublishedOnce, ProjectionFromJournal

\* A request that leaves without a trace.
LEMMA LeaveStep ==
    ASSUME IngestInv, ProjectionFromJournal, NEW s \in Sessions, Leave(s),
           UNCHANGED <<kind, journal, outbox, last_sequence, agent_state, newest, run, step>>
    PROVE  IngestInv' /\ ProjectionFromJournal'
<1>1. TypeOK'
  BY DEF IngestInv, TypeOK, Leave
<1>2. BatchesSound'
  BY DEF IngestInv, TypeOK, BatchesSound, Sound, Leave, Idle
<1> QED
  BY <1>1, <1>2 DEF IngestInv, PublishedOnce, ProjectionFromJournal

LEMMA ProjectStep ==
    ASSUME IngestInv, ProjectionFromJournal, NEW s \in Sessions,
           NEW batch \in SUBSET Events, ProjectBatch(s, batch)
    PROVE  IngestInv' /\ ProjectionFromJournal'
<1> DEFINE read == Read(s)
           new == Ingested(read, batch)
           txn == [pc |-> "projected", last |-> session[s].last, batch |-> batch,
                   read |-> read, new |-> new]
<1>1. session[s].last \in 0..MaxEvent
  BY DEF ProjectBatch, IngestInv, TypeOK, Idle, Transaction
<1>2. read \in Rows /\ read.accepted = {} /\ read.run = run
  BY <1>1 DEF Read, IngestInv, TypeOK, Rows
<1>3. session' = [session EXCEPT ![s] = txn]
  BY DEF ProjectBatch
<1>4. UNCHANGED <<kind, journal, outbox, last_sequence, agent_state, newest, run, step>>
  BY DEF ProjectBatch
<1> HIDE DEF read
<1>5. new \in Rows /\ Sound(read, new)
  BY <1>2, IngestedSound DEF IngestInv
<1> HIDE DEF new
<1>6. TypeOK'
  BY <1>1, <1>2, <1>3, <1>4, <1>5 DEF IngestInv, TypeOK, Transaction
<1>7. BatchesSound'
  BY <1>2, <1>3, <1>4, <1>5 DEF IngestInv, TypeOK, BatchesSound, Sound
<1> QED
  BY <1>4, <1>6, <1>7 DEF IngestInv, PublishedOnce, ProjectionFromJournal

LEMMA CommitStep ==
    ASSUME IngestInv, ProjectionFromJournal, NEW s \in Sessions, CommitBatch(s)
    PROVE  IngestInv' /\ ProjectionFromJournal'
<1> DEFINE read == session[s].read
           new == session[s].new
           last == session[s].last
<1>1. session[s].pc = "projected" /\ ~Conflict(session[s])
  BY DEF CommitBatch
<1>2. session[s] \in Transaction
  BY <1>1 DEF IngestInv, TypeOK, Idle
<1>3. read \in Rows /\ new \in Rows /\ last \in 0..MaxEvent
  BY <1>2 DEF Transaction
<1>4. Sound(read, new) /\ (read.run # "absent" => run # "absent")
  BY <1>1 DEF IngestInv, BatchesSound
<1>5. new.accepted \cap journal = {}
  BY <1>1 DEF Conflict
<1>6. /\ journal' = journal \cup new.accepted
      /\ outbox' = [n \in Events |-> IF n \in new.accepted THEN outbox[n] + 1 ELSE outbox[n]]
      /\ last_sequence' = Overwritten(last_sequence, last, new.last)
      /\ run' = Overwritten(run, read.run, new.run)
      /\ step' = Overwritten(step, read.step, new.step)
      /\ session' = [session EXCEPT ![s] = Idle]
      /\ UNCHANGED <<kind, agent_state, newest>>
  BY DEF CommitBatch, Leave
<1> HIDE DEF read, new, last
<1>7. TypeOK'
  BY <1>3, <1>6 DEF IngestInv, TypeOK, Overwritten, Rows
<1>8. PublishedOnce'
  BY <1>3, <1>5, <1>6 DEF IngestInv, TypeOK, PublishedOnce, Rows
<1>9. run # "absent" => run' # "absent"
  BY <1>4, <1>6 DEF Overwritten, Sound
<1>10. BatchesSound'
  BY <1>6, <1>9 DEF IngestInv, TypeOK, BatchesSound, Sound, Idle
<1>11. ProjectionFromJournal'
  <2>1. run' # "absent" => \E n \in journal' : kind'[n] = run'
    BY <1>4, <1>6 DEF ProjectionFromJournal, Overwritten, Sound
  <2>2. CASE new.step = read.step
    BY <1>6, <1>9, <2>1, <2>2 DEF ProjectionFromJournal, Overwritten
  <2>3. CASE new.step # read.step
    <3>1. run' # "absent"
      BY <1>4, <1>6, <2>3 DEF Overwritten, Sound
    <3> QED
      BY <1>4, <1>6, <2>1, <2>3, <3>1 DEF ProjectionFromJournal, Overwritten, Sound
  <2> QED
    BY <2>2, <2>3
<1> QED
  BY <1>7, <1>8, <1>10, <1>11 DEF IngestInv

LEMMA HeartbeatStep ==
    ASSUME IngestInv, ProjectionFromJournal, NEW s \in Sessions, NEW n \in Beats,
           Heartbeat(s, n)
    PROVE  IngestInv' /\ ProjectionFromJournal'
<1>1. session' = [session EXCEPT ![s] = Idle] /\ UNCHANGED <<kind, journal, outbox, run, step>>
  BY DEF Heartbeat, Leave
<1>2. /\ last_sequence' \in {last_sequence, n}
      /\ newest' \in {newest, n}
      /\ agent_state' \in {agent_state, BeatState(n)}
  BY DEF Heartbeat, Overwritten
<1>3. n \in 0..MaxEvent /\ BeatState(n) \in AgentStates
  BY IngestAssumption DEF BeatState, AgentStates, IngestAssumption
<1>4. TypeOK'
  BY <1>1, <1>2, <1>3 DEF IngestInv, TypeOK
<1>5. BatchesSound'
  BY <1>1 DEF IngestInv, TypeOK, BatchesSound, Sound, Idle
<1> QED
  BY <1>1, <1>4, <1>5 DEF IngestInv, PublishedOnce, ProjectionFromJournal

LEMMA NextIngest ==
    ASSUME IngestInv, ProjectionFromJournal, [Next]_vars
    PROVE  IngestInv' /\ ProjectionFromJournal'
<1>1. ASSUME NEW s \in Sessions, Authenticate(s) PROVE IngestInv' /\ ProjectionFromJournal'
  BY <1>1, AuthenticateStep
<1>2. ASSUME NEW s \in Sessions, CommitBatch(s) PROVE IngestInv' /\ ProjectionFromJournal'
  BY <1>2, CommitStep
<1>3. ASSUME NEW s \in Sessions,
             ConflictBatch(s) \/ Crash(s) \/ \E batch \in SUBSET Events : ProjectFails(s, batch)
      PROVE  IngestInv' /\ ProjectionFromJournal'
  BY <1>3, LeaveStep DEF ConflictBatch, Crash, ProjectFails
<1>4. ASSUME NEW s \in Sessions, NEW batch \in SUBSET Events, ProjectBatch(s, batch)
      PROVE  IngestInv' /\ ProjectionFromJournal'
  BY <1>4, ProjectStep
<1>5. ASSUME NEW s \in Sessions, NEW n \in Beats, Heartbeat(s, n)
      PROVE  IngestInv' /\ ProjectionFromJournal'
  BY <1>5, HeartbeatStep
<1>6. CASE UNCHANGED vars
  BY <1>6 DEF vars, IngestInv, TypeOK, PublishedOnce, BatchesSound, Sound, ProjectionFromJournal
<1> QED
  BY <1>1, <1>2, <1>3, <1>4, <1>5, <1>6 DEF Next

\* The journal and the outbox are written exactly once, for any number of events and
\* of overlapping requests: events sent again, batches that cross, requests that die.
THEOREM IngestedOnce == Spec => []IngestInv
<1>1. Init => IngestInv /\ ProjectionFromJournal
  BY InitIngest
<1>2. IngestInv /\ ProjectionFromJournal /\ [Next]_vars => (IngestInv /\ ProjectionFromJournal)'
  BY NextIngest
<1> QED
  BY <1>1, <1>2, PTL DEF Spec

\* No projection is invented and none outlives the rollback of its event.
THEOREM ProjectionBacked == Spec => []ProjectionFromJournal
<1>1. Init => IngestInv /\ ProjectionFromJournal
  BY InitIngest
<1>2. IngestInv /\ ProjectionFromJournal /\ [Next]_vars => (IngestInv /\ ProjectionFromJournal)'
  BY NextIngest
<1> QED
  BY <1>1, <1>2, PTL DEF Spec

\* A closed step is never opened again, not even by a batch that read it open.
THEOREM StepClosedForGood == Spec => StepStaysClosed
<1>1. IngestInv /\ [Next]_vars => [StepClosed => StepClosed']_vars
  <2> SUFFICES ASSUME IngestInv, Next, StepClosed PROVE StepClosed'
    OBVIOUS
  <2>1. ASSUME NEW s \in Sessions, CommitBatch(s) PROVE StepClosed'
    <3> DEFINE read == session[s].read
               new == session[s].new
    <3>1. session[s].pc = "projected" /\ ~Conflict(session[s])
      BY <2>1 DEF CommitBatch
    <3>2. session[s] \in Transaction
      BY <3>1 DEF IngestInv, TypeOK, Idle
    <3>3. new.step \in {"absent", "started", "succeeded", "failed"}
      BY <3>2 DEF Transaction, Rows
    <3>4. Sound(read, new)
      BY <3>1 DEF IngestInv, BatchesSound
    <3>5. ~(read.step = "absent" /\ new.step # "absent")
      BY <3>1 DEF Conflict, ProjectionConflict, StepClosed
    <3>6. step' = Overwritten(step, read.step, new.step)
      BY <2>1 DEF CommitBatch
    <3> QED
      BY <3>3, <3>4, <3>5, <3>6 DEF Sound, Overwritten, StepClosed
  <2>2. CASE UNCHANGED step
    BY <2>2 DEF StepClosed
  <2> QED
    BY <2>1, <2>2
    DEF Next, Authenticate, ConflictBatch, Crash, ProjectBatch, ProjectFails, Heartbeat
<1> QED
  BY <1>1, IngestedOnce, PTL DEF Spec, StepStaysClosed

-----------------------------------------------------------------------------
\* Paths of the machine.

\* Where k transitions lead, and how one more goes on.
Reaches(reach, machine, m) ==
    /\ \A k \in 1..m : machine \subseteq reach[k] /\ reach[k - 1] \subseteq reach[k]
    /\ \A k \in 1..m : \A p \in reach[k - 1], q \in machine :
           p[2] = q[1] => <<p[1], q[2]>> \in reach[k]

\* The pairs of machine after those of R.
Extended(R, machine) ==
    machine \cup {<<pq[1][1], pq[2][2]>> : pq \in {x \in R \X machine : x[1][2] = x[2][1]}}

LEMMA ExtendedHas ==
    ASSUME NEW R, NEW machine
    PROVE  /\ machine \subseteq Extended(R, machine)
           /\ \A p \in R, q \in machine :
                 p[2] = q[1] => <<p[1], q[2]>> \in Extended(R, machine)
<1>1. ASSUME NEW p \in R, NEW q \in machine, p[2] = q[1]
      PROVE  <<p[1], q[2]>> \in Extended(R, machine)
  <2>1. <<p, q>> \in {x \in R \X machine : x[1][2] = x[2][1]}
    BY <1>1
  <2> QED
    BY <2>1 DEF Extended
<1> QED
  BY <1>1 DEF Extended

LEMMA ExtendedMonotone ==
    ASSUME NEW R, NEW T, R \subseteq T, NEW machine
    PROVE  Extended(R, machine) \subseteq Extended(T, machine)
  BY DEF Extended

LEMMA ExtendedTyped ==
    ASSUME NEW States, NEW R \in SUBSET (States \X States),
           NEW machine \in SUBSET (States \X States)
    PROVE  Extended(R, machine) \in SUBSET (States \X States)
  BY DEF Extended

LEMMA PathsReach ==
    ASSUME NEW m \in Nat, NEW States, NEW machine \in SUBSET (States \X States)
    PROVE  \E reach : paths(machine, m) = reach[m] /\ Reaches(reach, machine, m)
<1> DEFINE Body(f) == [k \in 0..m |->
                          IF k = 0 THEN {}
                          ELSE machine \cup {<<pq[1][1], pq[2][2]>> :
                                   pq \in {x \in f[k - 1] \X machine : x[1][2] = x[2][1]}}]
           Pairs == SUBSET (States \X States)
           F == [k \in 1..m |-> [R \in Pairs |-> Extended(R, machine)]]
<1>1. PICK g : Iterates(g, m, Pairs, {}, F)
  <2>1. Steps(F, m, Pairs)
    BY ExtendedTyped DEF Steps
  <2>2. {} \in Pairs
    OBVIOUS
  <2> HIDE DEF F, Pairs
  <2> QED
    BY <2>1, <2>2, Iteration
<1>2. ASSUME NEW k \in 1..m PROVE g[k] = Extended(g[k - 1], machine)
  <2>1. k - 1 \in 0..m
    OBVIOUS
  <2>2. g[k - 1] \in Pairs /\ g[k] = F[k][g[k - 1]]
    BY <1>1, <2>1 DEF Iterates
  <2> HIDE DEF Pairs
  <2> QED
    BY <2>2
<1>3. g = Body(g)
  <2>1. ASSUME NEW k \in 0..m PROVE g[k] = Body(g)[k]
    <3>1. CASE k = 0
      BY <1>1, <3>1 DEF Iterates
    <3>2. CASE k # 0
      BY <1>2, <3>2 DEF Extended
    <3> QED
      BY <3>1, <3>2
  <2> HIDE DEF F, Pairs
  <2> QED
    BY <1>1, <2>1 DEF Iterates
<1> DEFINE reach == CHOOSE f : f = Body(f)
<1>4. reach = Body(reach)
  <2> HIDE DEF Body
  <2> QED
    BY <1>3
<1>5. paths(machine, m) = reach[m]
  BY DEF paths
<1> HIDE DEF reach
<1>6. reach[0] = {} /\ \A k \in 1..m : reach[k] = Extended(reach[k - 1], machine)
  <2>1. reach[0] = {}
    BY <1>4
  <2>2. ASSUME NEW k \in 1..m PROVE reach[k] = Extended(reach[k - 1], machine)
    <3>1. k \in 0..m /\ k # 0
      OBVIOUS
    <3> QED
      BY <1>4, <3>1 DEF Extended
  <2> QED
    BY <2>1, <2>2
<1> DEFINE S == {k \in 0..m : k = 0 \/ reach[k - 1] \subseteq reach[k]}
<1>7. Inductive(S, m)
  <2>1. ASSUME NEW k \in Nat, k < m, k \in S PROVE k + 1 \in S
    <3>1. k + 1 \in 1..m /\ (k + 1) - 1 = k
      BY <2>1
    <3>2. CASE k = 0
      BY <1>6, <3>1, <3>2
    <3>3. CASE k # 0
      <4>1. k \in 1..m /\ reach[k - 1] \subseteq reach[k]
        BY <2>1, <3>3
      <4>2. /\ reach[k] = Extended(reach[k - 1], machine)
            /\ reach[k + 1] = Extended(reach[k], machine)
        BY <1>6, <3>1, <4>1
      <4>3. reach[k] \subseteq reach[k + 1]
        BY <4>1, <4>2, ExtendedMonotone
      <4> QED
        BY <3>1, <4>3
    <3> QED
      BY <3>2, <3>3
  <2> QED
    BY <2>1 DEF Inductive
<1>8. \A k \in 1..m : reach[k - 1] \subseteq reach[k]
  <2>1. 0..m \subseteq S
    <3> HIDE DEF S
    <3> QED
      BY <1>7, InductionUpTo
  <2> QED
    BY <2>1
<1>9. Reaches(reach, machine, m)
  <2>1. ASSUME NEW k \in 1..m
        PROVE  /\ machine \subseteq reach[k]
               /\ \A p \in reach[k - 1], q \in machine :
                     p[2] = q[1] => <<p[1], q[2]>> \in reach[k]
    BY <1>6, ExtendedHas
  <2> QED
    BY <1>8, <2>1 DEF Reaches
<1> QED
  BY <1>5, <1>9


\* Further on, the paths are more.
LEMMA ReachesMonotone ==
    ASSUME NEW m \in Nat, NEW machine, NEW reach, Reaches(reach, machine, m),
           NEW i \in 0..m, NEW j \in 0..m, i <= j
    PROVE  reach[i] \subseteq reach[j]
<1> DEFINE S == {k \in 0..m : i <= k => reach[i] \subseteq reach[k]}
<1>1. Inductive(S, m)
  <2>1. 0 \in S
    OBVIOUS
  <2>2. ASSUME NEW k \in Nat, k < m, k \in S PROVE k + 1 \in S
    <3>1. k + 1 \in 1..m /\ (k + 1) - 1 = k
      BY <2>2
    <3>2. reach[k] \subseteq reach[k + 1]
      BY <3>1 DEF Reaches
    <3>3. i <= k + 1 => i = k + 1 \/ i <= k
      BY <2>2
    <3> QED
      BY <2>2, <3>1, <3>2, <3>3
  <2> QED
    BY <2>1, <2>2 DEF Inductive
<1>2. 0..m \subseteq S
  <2> HIDE DEF S
  <2> QED
    BY <1>1, InductionUpTo
<1> QED
  BY <1>2

\* A batch moves a run that it found along the machine, at most one transition for
\* each event.
LEMMA IngestedFollows ==
    ASSUME TypeOK, NEW read \in Rows, read.accepted = {}, NEW batch
    PROVE  LET new == Ingested(read, batch)
           IN  \/ new.run = read.run
               \/ read.run = "absent"
               \/ <<read.run, new.run>> \in paths(RUN_TRANSITIONS, MaxEvent)
<1>0. MaxEvent \in Nat
  BY IngestAssumption DEF IngestAssumption
<1>1. RUN_TRANSITIONS \in SUBSET (RunStates \X RunStates)
  BY DEF RUN_TRANSITIONS, RunStates, Arrows
<1> DEFINE machine == RUN_TRANSITIONS
<1>2. PICK reach : paths(machine, MaxEvent) = reach[MaxEvent] /\ Reaches(reach, machine, MaxEvent)
  BY <1>0, <1>1, PathsReach
<1> HIDE DEF machine
<1> DEFINE Follows(x) == \/ x.run = read.run
                         \/ read.run = "absent"
                         \/ <<read.run, x.run>> \in reach[x.last]
           J == {x \in Rows : Sound(read, x) /\ Follows(x)}
<1>3. read \in J
  BY IngestAssumption DEF Sound, Rows, IngestAssumption
<1>4. ASSUME NEW x \in J, NEW n \in Events PROVE Handled(batch, x, n) \in J
  <2>1. Handled(batch, x, n) \in Rows /\ Sound(read, Handled(batch, x, n))
    BY HandledTyped, HandledSound
  <2>2. Follows(Handled(batch, x, n))
    <3>1. CASE n \in batch /\ Accepts(x, n)
      <4> DEFINE y == Handled(batch, x, n)
      <4>1. y.last = n /\
            y.run = IF kind[n] \in RunStates THEN Projected(x.run, kind[n]) ELSE x.run
        BY <3>1, AppliedColumns DEF Handled
      <4> HIDE DEF y
      <4>2. n \in 1..MaxEvent /\ x.last \in 0..MaxEvent /\ x.last <= n - 1 /\ n - 1 \in 0..MaxEvent
        BY <1>0, <3>1 DEF Accepts, Events, Rows
      <4>3. reach[x.last] \subseteq reach[n - 1]
        BY <1>0, <1>2, <4>2, ReachesMonotone
      <4>4. reach[x.last] \subseteq reach[n] /\ machine \subseteq reach[n]
        BY <1>2, <4>2, <4>3 DEF Reaches
      <4>5. CASE y.run = x.run
        BY <4>1, <4>4, <4>5 DEF y
      <4>6. CASE y.run # x.run
        <5>1. x.run = "absent" \/ <<x.run, y.run>> \in machine
          BY <4>1, <4>6 DEF Projected, can_transition, machine
        <5>2. x.run = "absent" => read.run = "absent"
          BY DEF Sound
        <5>3. CASE <<x.run, y.run>> \in machine /\ read.run # "absent" /\ x.run # read.run
          <6>1. <<read.run, x.run>> \in reach[n - 1]
            BY <4>3, <5>3
          <6>2. \A p \in reach[n - 1], q \in machine : p[2] = q[1] => <<p[1], q[2]>> \in reach[n]
            BY <1>2, <4>2 DEF Reaches
          <6>3. <<read.run, y.run>> \in reach[n]
            BY <5>3, <6>1, <6>2
          <6> QED
            BY <4>1, <6>3 DEF y
        <5> QED
          BY <4>1, <4>4, <5>1, <5>2, <5>3 DEF y
      <4> QED
        BY <4>5, <4>6
    <3>2. CASE ~(n \in batch /\ Accepts(x, n))
      BY <3>2 DEF Handled
    <3> QED
      BY <3>1, <3>2
  <2> QED
    BY <2>1, <2>2
<1>5. Ingested(read, batch) \in J
  <2> HIDE DEF J
  <2> QED
    BY <1>3, <1>4, IngestedStaysIn
<1> DEFINE new == Ingested(read, batch)
<1> HIDE DEF new
<1>6. new \in Rows /\ Follows(new)
  BY <1>5 DEF new
<1>7. new.last \in 0..MaxEvent /\ MaxEvent \in 0..MaxEvent /\ new.last <= MaxEvent
  BY <1>0, <1>6 DEF Rows
<1>8. reach[new.last] \subseteq reach[MaxEvent]
  BY <1>0, <1>2, <1>7, ReachesMonotone
<1> QED
  BY <1>2, <1>6, <1>8 DEF new, machine

\* A run is created in any state, then moves along the machine.
Follows(from, to) ==
    \/ to = from
    \/ from = "absent"
    \/ <<from, to>> \in paths(RUN_TRANSITIONS, MaxEvent)

-----------------------------------------------------------------------------
\* Requests that overlap: what each of them does to the rows it had read.

\* A batch leads the run along the machine from what it read, and starts from the
\* sequence its request authenticated with.
ReadInv ==
    \A s \in Sessions : session[s].pc = "projected" =>
        /\ Follows(session[s].read.run, session[s].new.run)
        /\ session[s].read.last = session[s].last

LEMMA ReadStep ==
    ASSUME IngestInv, ReadInv, [Next]_vars
    PROVE  ReadInv'
<1>0. session \in [Sessions -> {Idle} \cup Transaction
                     \cup [pc : {"authenticated"}, last : 0..MaxEvent, state : AgentStates]]
  BY DEF IngestInv, TypeOK
<1>1. ASSUME NEW t \in Sessions, NEW txn, session' = [session EXCEPT ![t] = txn],
             txn.pc = "projected" => /\ Follows(txn.read.run, txn.new.run)
                                     /\ txn.read.last = txn.last
      PROVE  ReadInv'
  <2>1. \A s \in Sessions : session'[s] = IF s = t THEN txn ELSE session[s]
    BY <1>0, <1>1
  <2> QED
    BY <1>1, <2>1 DEF ReadInv, Follows
<1>2. ASSUME NEW t \in Sessions, Authenticate(t) PROVE ReadInv'
  BY <1>1, <1>2 DEF Authenticate, Enter
<1>3. ASSUME NEW t \in Sessions, Leave(t) PROVE ReadInv'
  BY <1>1, <1>3 DEF Leave, Idle
<1>4. ASSUME NEW t \in Sessions, NEW batch \in SUBSET Events, ProjectBatch(t, batch)
      PROVE  ReadInv'
  <2> DEFINE new == Ingested(Read(t), batch)
             txn == [pc |-> "projected", last |-> session[t].last, batch |-> batch,
                     read |-> Read(t), new |-> new]
  <2>1. session[t].pc = "authenticated" /\ session' = [session EXCEPT ![t] = txn]
    BY <1>4 DEF ProjectBatch
  <2>2. session[t].last \in 0..MaxEvent
    BY <1>0, <2>1 DEF Idle, Transaction
  <2>3. Read(t) \in Rows /\ Read(t).accepted = {} /\ Read(t).last = session[t].last
    BY <2>2 DEF Read, IngestInv, TypeOK, Rows
  <2>4. Follows(Read(t).run, new.run)
    BY <2>3, IngestedFollows DEF Follows, IngestInv
  <2> HIDE DEF new
  <2>5. Follows(txn.read.run, txn.new.run) /\ txn.read.last = txn.last
    BY <2>3, <2>4
  <2> HIDE DEF txn
  <2> QED
    BY <1>1, <2>1, <2>5
<1>5. CASE UNCHANGED vars
  BY <1>5 DEF vars, ReadInv, Follows
<1> QED
  BY <1>2, <1>3, <1>4, <1>5
  DEF Next, CommitBatch, ConflictBatch, ProjectFails, Crash, Heartbeat

LEMMA InitRead == Init => ReadInv
BY DEF Init, ReadInv, Idle

\* However batches overlap, a batch creates the run where there is none or moves it
\* along the machine from the state it read, by as many transitions as it has events.
THEOREM RunMoved == Spec => RunMovesFromRead
<1>1. IngestInv /\ ReadInv /\ [Next]_vars =>
        [run' # run =>
           \E s \in Sessions :
              /\ session[s].pc = "projected" /\ session'[s] = Idle
              /\ \/ session[s].read.run = "absent" /\ run = "absent"
                 \/ <<session[s].read.run, run'>> \in paths(RUN_TRANSITIONS, MaxEvent)]_vars
  <2> SUFFICES ASSUME IngestInv, ReadInv, Next, run' # run
               PROVE  \E s \in Sessions :
                         /\ session[s].pc = "projected" /\ session'[s] = Idle
                         /\ \/ session[s].read.run = "absent" /\ run = "absent"
                            \/ <<session[s].read.run, run'>>
                                   \in paths(RUN_TRANSITIONS, MaxEvent)
    OBVIOUS
  <2>1. PICK s \in Sessions : CommitBatch(s)
    BY DEF Next, Authenticate, ProjectBatch, ProjectFails, ConflictBatch, Crash, Heartbeat
  <2> DEFINE read == session[s].read
             new == session[s].new
  <2>2. /\ session[s].pc = "projected" /\ ~ProjectionConflict(session[s])
        /\ run' = Overwritten(run, read.run, new.run)
        /\ session' = [session EXCEPT ![s] = Idle]
    BY <2>1 DEF CommitBatch, Conflict, Leave
  <2>3. session'[s] = Idle
    BY <2>2 DEF IngestInv, TypeOK
  <2>4. Follows(read.run, new.run)
    BY <2>2 DEF ReadInv
  <2>5. read.run # new.run /\ run' = new.run
    BY <2>2 DEF Overwritten
  <2>6. read.run = "absent" => run = "absent"
    BY <2>2, <2>5 DEF ProjectionConflict
  <2> HIDE DEF read, new
  <2>7. \/ read.run = "absent" /\ run = "absent"
        \/ <<read.run, run'>> \in paths(RUN_TRANSITIONS, MaxEvent)
    BY <2>4, <2>5, <2>6 DEF Follows
  <2> QED
    BY <2>2, <2>3, <2>7 DEF read
<1> QED
  BY <1>1, InitRead, ReadStep, IngestedOnce, PTL DEF Spec, RunMovesFromRead

\* A batch that starts from the sequence as it is keeps the agent up to date.
LEMMA CommitCurrent ==
    ASSUME IngestInv, ReadInv, AgentCurrent, NEW s \in Sessions, CommitBatch(s), ~StaleAgent(s)
    PROVE  AgentCurrent'
<1> DEFINE txn == session[s]
           read == txn.read
           new == txn.new
<1>1. txn.pc = "projected"
  BY DEF CommitBatch
<1>2. txn \in Transaction
  BY <1>1 DEF IngestInv, TypeOK, Idle
<1>3. /\ read \in Rows /\ new \in Rows
      /\ Sound(read, new)
      /\ txn.last = last_sequence /\ read.last = last_sequence
  BY <1>1, <1>2 DEF Transaction, IngestInv, BatchesSound, ReadInv, StaleAgent
<1>4. /\ journal' = journal \cup new.accepted
      /\ last_sequence' = Overwritten(last_sequence, txn.last, new.last)
      /\ UNCHANGED <<agent_state, newest>>
  BY DEF CommitBatch
<1> HIDE DEF read, new
<1>5. last_sequence' = new.last
  BY <1>3, <1>4 DEF Overwritten
<1>6. /\ new.last \in Nat /\ last_sequence \in Nat /\ newest \in Nat
      /\ new.accepted \subseteq Nat /\ journal \subseteq Nat
  BY <1>3, IngestAssumption DEF Rows, IngestInv, TypeOK, Events, IngestAssumption
<1>7. last_sequence <= new.last /\ \A n \in new.accepted : n <= new.last
  BY <1>3 DEF Sound
<1>8. (\A n \in journal : n <= last_sequence) /\ newest <= last_sequence
  BY DEF AgentCurrent
<1>9. ASSUME NEW n \in journal' PROVE n <= last_sequence'
  <2>1. CASE n \in new.accepted
    BY <1>5, <1>7, <2>1
  <2>2. CASE n \in journal
    <3>1. n \in Nat /\ n <= last_sequence
      BY <1>6, <1>8, <2>2
    <3> QED
      BY <1>5, <1>6, <1>7, <3>1
  <2> QED
    BY <1>4, <1>9, <2>1, <2>2
<1>10. newest' <= last_sequence'
  BY <1>4, <1>5, <1>6, <1>7, <1>8
<1> QED
  BY <1>4, <1>9, <1>10 DEF AgentCurrent

\* So does a heartbeat that finds the agent as it had read it.
LEMMA HeartbeatCurrent ==
    ASSUME IngestInv, AgentCurrent, NEW s \in Sessions, NEW n \in Beats, Heartbeat(s, n),
           ~StaleAgent(s)
    PROVE  AgentCurrent'
<1> DEFINE txn == session[s]
<1>1. txn.pc = "authenticated" /\ txn.last = last_sequence /\ txn.state = agent_state
  BY DEF Heartbeat, StaleAgent
<1>2. journal' = journal
  BY DEF Heartbeat
<1>3. IF Outdated(n, txn.last)
      THEN UNCHANGED <<last_sequence, agent_state, newest>>
      ELSE /\ agent_state' = Overwritten(agent_state, txn.state, BeatState(n))
           /\ newest' = (IF n # 0 /\ n < newest THEN newest ELSE n)
           /\ last_sequence' = IF n > txn.last THEN n ELSE last_sequence
  BY DEF Heartbeat
<1>4. n \in Nat /\ last_sequence \in Nat /\ newest \in Nat /\ journal \subseteq Nat
  BY IngestAssumption DEF IngestAssumption, IngestInv, TypeOK, Events
<1>5. (\A k \in journal : k <= last_sequence) /\ newest <= last_sequence
  BY DEF AgentCurrent
<1>6. (\A k \in journal' : k <= last_sequence') /\ newest' <= last_sequence'
  <2>1. CASE Outdated(n, txn.last)
    BY <1>2, <1>3, <1>5, <2>1
  <2>2. CASE ~Outdated(n, txn.last)
    <3>1. /\ newest' = newest \/ newest' = n
          /\ last_sequence' = IF n > last_sequence THEN n ELSE last_sequence
      BY <1>1, <1>3, <2>2
    <3>2. last_sequence' \in Nat /\ last_sequence <= last_sequence' /\ n <= last_sequence'
      BY <1>4, <3>1
    <3>3. ASSUME NEW k \in journal' PROVE k <= last_sequence'
      BY <1>2, <1>4, <1>5, <3>2, <3>3
    <3> QED
      BY <1>4, <1>5, <3>1, <3>2, <3>3
  <2> QED
    BY <2>1, <2>2
<1>7. newest' # 0 => agent_state' = BeatState(newest')
  BY <1>1, <1>3, <1>4, <1>5 DEF AgentCurrent, Outdated, Overwritten, BeatState
<1> QED
  BY <1>6, <1>7 DEF AgentCurrent, BeatState

\* However batches and heartbeats overlap, the row of the agent falls behind its
\* journal or its heartbeats only by the commit of a request that had read it before
\* another one changed it.
THEOREM BehindByStale == Spec => AgentFallsBehindByStale
<1>1. IngestInv /\ ReadInv /\ [Next]_vars =>
        [AgentCurrent =>
            AgentCurrent' \/ \E s \in Sessions : StaleAgent(s) /\ session'[s] = Idle]_vars
  <2> SUFFICES ASSUME IngestInv, ReadInv, Next, AgentCurrent
               PROVE  AgentCurrent' \/ \E s \in Sessions : StaleAgent(s) /\ session'[s] = Idle
    OBVIOUS
  <2>1. CASE UNCHANGED <<journal, last_sequence, newest, agent_state>>
    BY <2>1 DEF AgentCurrent, BeatState
  <2>2. ASSUME NEW s \in Sessions, Leave(s) PROVE session'[s] = Idle
    BY <2>2 DEF Leave, IngestInv, TypeOK
  <2>3. ASSUME NEW s \in Sessions, CommitBatch(s)
        PROVE  AgentCurrent' \/ (StaleAgent(s) /\ session'[s] = Idle)
    BY <2>2, <2>3, CommitCurrent DEF CommitBatch
  <2>4. ASSUME NEW s \in Sessions, NEW n \in Beats, Heartbeat(s, n)
        PROVE  AgentCurrent' \/ (StaleAgent(s) /\ session'[s] = Idle)
    BY <2>2, <2>4, HeartbeatCurrent DEF Heartbeat
  <2> QED
    BY <2>1, <2>3, <2>4 DEF Next, Authenticate, ProjectBatch, ProjectFails, ConflictBatch, Crash
<1> QED
  BY <1>1, InitRead, ReadStep, IngestedOnce, PTL DEF Spec, AgentFallsBehindByStale

=============================================================================
