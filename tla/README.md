# Mission Control, verified: the control plane in TLA+

This directory keeps TLA+ models of Mission Control (`src/apps/api`, and the
client of `src/apps/agent-cli` where the protocol needs it), TLC configurations
that check them on small instances, and proofs that TLAPS checks for instances of
any size.

Run `tlc -config X.cfg MCModule` for a configuration and `tlapm XProofs.tla` for
the proofs. `PROJECT.json` lists components, runs, mutants, the map from
definitions to source lines, findings, hazards and theorems.

## 1. The system

A FastAPI service over Postgres. Operators submit commands to agents through HTTP;
agents poll for them, acknowledge and answer, and send sequenced events and
heartbeats; risky commands wait for an approval. Usage events are priced, summed
and compared with budgets, which open alerts. Everything that happens is written
to a transactional outbox, which a relay publishes on Redis for WebSocket clients.
An older version of the service (V0), with its own heartbeats, projects and status
files, works on the same database.

| part | state | operations | properties that make it correct |
|---|---|---|---|
| frozen state machines (`integrations/state_machines.py`) | none | `can_transition`, `terminal_states` | terminal states are immutable |
| command queue (`control/commands.py`) | `agent_commands` | submit, cancel, poll (delivers or expires), ack, result | no delivery before approval; again only to polls that overlap; every move is one of the machine from what was read; a released command leaves the queue |
| approvals (`control/approvals.py`) | `approval_requests` | approve, reject, expire on a late decision | one decision; decision and command agree; the machine |
| policies (`control/policies.py`) | `agent_policies` | evaluate, create, edit, disable | one answer, in the documented order; a disabled policy stays so |
| usage, pricing, budgets (`operations/usage.py`, `pricing.py`, `budgets.py`) | `agent_usage_records`, `agent_budgets` | record, sum a period, thresholds, gate, edits | an event is counted once; the gate is the strictest answer of the budgets that cover a command |
| alerts (`operations/alerts.py`) | `agent_alerts` | open, acknowledge, resolve | one active alert of a condition; a crossing is noticed |
| ingest (`ingest/service.py`, `ingest/auth.py`) | `agent_events`, `agents.last_sequence`, `agents.state` | batch of events, heartbeat | journal exactly once; sequence and heartbeat fall behind only under an overlap; every good event is accounted for |
| runs and steps (`runs/service.py`) | `agent_runs`, `agent_run_steps` | projection of accepted events | every move is one of the machine from what was read; a closed step stays closed |
| outbox relay and WebSocket (`realtime.py`) | `mc_outbox_events`, connections | drain, publish, fan out | at least once up to Redis; no copy without a failure; drains |
| registry, credentials (`registry/service.py`) | `agents`, `agent_credentials` | register, status, issue, rotate, revoke | nobody reaches another tenant's agent; a rotated or revoked credential is dead |
| host adapters (`integrations/*_adapter.py`, `capabilities.py`) | user mappings | tenant and capabilities of an operator | placed in one of his installations only |
| activation, SGI webhook (`overview`, `routers/integrations_sgi.py`) | `mc_installations.status` | activate, suspend, resume | no operator lifts a suspension |
| projects and tasks (`projects/service.py`, V0 `services/projects.py`) | `projects`, `tasks` | create, update, assign, delete, list | tasks in a live project of their tenant; unique slugs and codes; a walk of a list loses nothing |
| V0 heartbeat and enrolment (`routers/heartbeat.py`, `routers/agents.py`, client) | `agents`, the client's credentials file | enrol, beat, revoke | no client locked out by the protocol itself |
| V0 scanner and file watcher (`realtime/ws.py`, `services/mc_sync.py`) | `agents`, status files | mark stale, upsert and purge | silent agents turn stale; files are mirrored; other agents are kept |
| accounts (`routers/auth.py`, `core/ratelimit.py`) | `users`, `password_reset_tokens`, Redis counters | login, reset, password, users | bounded attempts, locks that end, an administrator remains |
| lists (ten routes with a cursor) | none | page by page | no row twice, none skipped |
| redaction, overview, web front, contracts, deployment | none that counts | | |

**How they interact.** Only through rows of one database, Redis and the status
files. A submission reads the policies and the budgets and writes a command,
perhaps an approval, outbox rows and audit entries; a decision writes the approval
and the command; an ingest writes the journal, the outbox, the agent, its runs,
its usage and alerts. Each request is one transaction, except that a refused
submission commits its audit entry first and a poll commits after each turn. The
scanner and the watcher are tasks of the event loop and never overlap each other;
they do overlap the heartbeats, which run in threads.

**What is hard.** Handlers run in a thread pool at READ COMMITTED, with autoflush
off. They read, decide in Python, and commit `UPDATE ... WHERE id`: nothing checks
that the row is still as it was read. Only the approval decision is a conditional
`UPDATE`; only the relay uses `FOR UPDATE SKIP LOCKED`; unique indexes and foreign
keys are the other arbiters. On top of this: requests that die before the commit,
answers lost after it, retries by agents, deadlines nobody watches, an outbox
drained by several processes, Redis outages, and tasks of the loop that end for
good on their first exception. `PROJECT.json` lists each of these hazards at its
line.

## 2. The modules

| module | models | abstracts |
|---|---|---|
| `StateMachines` | the five transition tables, as relations | |
| `Lifecycle` | what any frozen machine promises: born in a birth state, moves along the machine. The abstract specification that approvals, credentials and outbox rows implement, and alerts where no commit crosses a request | |
| `CommandControl` | `commands.py` and `approvals.py`: `command`, `approval`, `outbox`, `audit` are the tables, `session` what each request has read | payloads, tenants, pagination; one agent, the commands of one tenant; policy and budget by their answer |
| `Policies` | `policies.py`: which policy wins, creation, update with the version of the body, disabling | one installation; events and audit |
| `UsageBudgets` | `usage.py`, `pricing.py`, `budgets.py`, `alerts.py` and the usage projection of an ingest: `journal`, `usage`, `budget`, `alerts`, and `tx`, what each transaction has read and not yet committed | one installation; days and costs are small integers; aggregates and CSV |
| `EventIngest` | `ingest/service.py` and `runs/service.py` for one agent, one run and one step of it | usage projection, texts, timestamps; the sequence stands for the event id. An event in `Orphans` names a project or a task that is not there |
| `OutboxRelay` | `realtime.py`: the relay of every process, Redis pub/sub, the subscriber | topics and connections (a process stands for its clients) |
| `AgentAccess` | who may act for which agent: adapters, registry, credentials, the check of a credential, activation, the webhook | signatures and hashes: a token is valid or it is not |
| `AgentPresence` | V0 heartbeats, enrolment tokens, the token file that the clients of a machine share, the scanner, the file watcher and what ends them | times are fresh or old, states are working, stale or other |
| `Accounts` | login, reset links, password changes, users, attempt counters per route and address or account | a password is right or wrong; proxies and their headers |
| `Projects` | both services on `projects` and `tasks`, the seed that gives rows a tenant, and a reader that walks the tasks | columns nothing else reads |
| `Listings` | what a list read page by page promises, for all ten. The abstract specification the walk of `Projects` implements | the rows beyond their order and date |
| `Updates` | `core/db.py`: what the UPDATE of a transaction holds of a row it has read, shared by `AgentAccess`, `AgentPresence` and `Accounts` | |
| `Orders` | nothing of the code: the lemmas the proofs share, on least numbers, induction, functions defined from one number to the next, and the first elements of a finite ordered set | |
| `*Proofs` | the theorems about the module they are named after. `ProjectsProofs` has those of `Listings` too, of a general instance (`INSTANCE` without substitution); `AgentAccessProofs` extends `AgentAccess` and `AgentPresence`, `AdministrationProofs` extends `Accounts` and `Policies`, and so both modules of each pair have names of their own (`PresenceSpec`, `PoliciesSpec`) | |
| `MC*` | instances for TLC | |

**A handler is a read step and a commit step**, in every module: `SubmitRead` and
`SubmitCommit`, `ReadCreate` and its write, `BeginUpdate` and `CommitUpdate`,
`BeginEdit` and `CommitEdit`, `ReadHeartbeat` and `CommitHeartbeat`. The commit
writes exactly the columns the handler assigned, over whatever is there: a column
that the session left as it read it is not in the UPDATE (`Column(S)` is a column
that is written or not, in `Updates`). Single statements are one step
(`disable_policy`, `delete_project`, `update_task`). Where an insert meets a key
or a reference, the constraint is checked at the commit, and the request aborts.
Reads that follow each other inside one handler are one step when no property can
tell.

In `CommandControl`, a decision has a third step, `DecideUpdate`, in which the
conditional UPDATE takes the row lock (`won`), re-checks status and version, and
only then reads the linked command; `ExpireUpdate` does the same and goes on even
if it changed nothing, because the code does not look at the rowcount. `Crash` is
a request that dies before its commit; a poll's answer may be lost after it
(`known'` in `PollCommit`), and an agent only acts on commands it knows.
`cancel_command` is in the service but no route calls it: `OperatorCancels` says
whether a run includes it. An `outbox` entry records that an event was written,
never how many times.

In `EventIngest` a batch is authenticated, projected (`ProjectBatch`, or
`ProjectFails` when the flush of a run in it fails on a foreign key) and
committed, or loses everything to a unique index (`ConflictBatch`).

In `UsageBudgets` a batch is four steps: `BeginIngest` (dedup against the
journal), `RecordUsage` event by event, `EvaluateBudgets` for each, which opens
alerts unless it sees an active one, and `CommitIngest`, where the unique indexes
decide. `quiet` is a history of the requests during which nothing else was
committed; the same history is in `Accounts`.

`OutboxRelay` numbers rows by `created_at`, the start of the writing transaction,
so rows appear in any order. The locks of a batch are held across the awaits of
its publications. A publication may fail, or succeed while its answer is lost.
When Redis goes away the subscriber's task ends or reconnects: both are allowed,
because that is decided in the Redis client library.

In `AgentAccess` a request of an agent checks its credential once and then lasts,
as a long poll does. The status of a credential is no column but `Status`, read
off its revocation, its deadline and the clock. In `AgentPresence`, `loop` is the
one thing the event loop is doing, `watcher` and `scanning` say whether its tasks
are alive; `disturbed` and `missed` record the disturbances the code does not
repair. A heartbeat has up to five steps: `ReadHeartbeat` and `CommitHeartbeat` on
the server and, if it enrolled, the answer, `LoadTokens` and `StoreToken` in the
client, which writes the whole file over what others stored since it read it.
`Timeout` and `FailStore` lose the token on the way; every heartbeat is a process
of its own, so all of this overlaps, with itself too. In `Accounts`, `tried`
counts the passwords checked in a window, beside the counter the code keeps.

## 3. What the runs check

| run | instance | shows |
|---|---|---|
| `ControlSafety` | 1 command, 3 requests, clock to 3, symmetry | `HandedOnlyIfApproved` (gate P5), `ApprovalCommandAgreement`, `StatusAnnounced`, `ApprovalsFollowMachine` (refinement of `Lifecycle`), `CommandsMoveFromRead`, `HandedOncePerOverlap`, and the inductive `ControlInv`, under every overlap and death |
| `ControlApart` | 2 commands, 2 requests that never hold one command both (`Apart`), poll limit 1, clock to 1, fair | `ReleasedLeavesQueue` |
| `IngestOverlap` | 3 events of 6 kinds in any batches, one of which names a project that is not there, heartbeats 1 and 2, 2 requests | `IngestInv` (journal and outbox exactly once), `ProjectionFromJournal`, `StepStaysClosed`, `RunMovesFromRead`, `AgentFallsBehindByStale` |
| `IngestSerial` | 3 events of 5 kinds (starting, running, blocked, succeeded, refused), one of which names a project that is not there, heartbeats 0..3, 1 request, fair | `EventuallyAccounted` |
| `RelayOutbox` | 2 rows, one without tenant, 2 processes, 1 death, 1 outage, fair | `OutboxInv` (nothing marked published unsent, every copy explained), `RowsFollowLifecycle` (refinement), `OutboxDrains`, `ReachesEveryProcess` |
| `UsageBudgets` | 4 events of 3 agents (a shared id, a late event, an unknown model and version, a reference that is missing), a budget of the tenant and one of an agent, 1 threshold that an edit may leave to the default, 2 requests | `UsageInv` (counted once, with its whole batch), `OneActiveAlert`, `NoticedAlone`, `AlertsMoveAlone`, `GateIsStrictest` |
| `AgentAccess` | 2 users, 2 installations, 1 agent, 2 credentials, 2 operators, 1 request of an agent, both adapters | `AccessInv` (tenants apart, rotations revoke), `SuspensionHolds`, `CredentialsFollowMachine` (steps of `Lifecycle`), `RevokedFallsSilent` |
| `AgentPresence` | 1 agent that always reports working and claims to come from a file, its status file (good, bad, half-written or gone), 2 overlapping heartbeats, 2 tokens, 2 changes of files, 1 failure (a lost answer, a token not stored or the database), fair | `PresenceInv` (no lockout undisturbed), `HeartbeatAgentsKept`, `EventuallyStale`, `FilesMirrored` |
| `Accounts` | a founder and a new account, 1 address, limit 1, window 2, 2 links, 2 requests, fair | `AccountsInv` (limits hold), `LockoutEnds`, `AdminSurvivesAlone`, `SupersedesAlone` |
| `Policies` | 3 policies of 4 drafts, 2 edits of a status, of a priority and action or of a scope, 2 versions | `PoliciesInv` (one answer, the documented order; scopes that name something), `DisabledStays` |
| `Projects` | 2 tenants, 3 projects, 3 tasks (a shared date, a shared code), pages of 1, 2 requests | `BoardInv`, `TasksListed` (refinement of `Listings`) |

**Overlap.** The code does not keep its machines when two requests meet on one
row: each writes what it decided on what it had read. What it does keep, whatever
overlaps, is stated of every behaviour: a command or the run only moves along its
machine from what the request had read (`CommandsMoveFromRead`,
`RunMovesFromRead`), so it leaves a terminal state only where another commit came
in between; a command is handed out again only by polls that overlapped the first
(`HandedOncePerOverlap`); sequence and heartbeat of an agent fall behind only by a
request that another one crossed (`AgentFallsBehindByStale`). `NoticedAlone`,
`AlertsMoveAlone`, `AdminSurvivesAlone` and `SupersedesAlone` speak of the
requests that no commit crossed, among others that some did. `Apart` (no two
requests are between the read and the write of one command) bounds one run only,
`ControlApart`, whose two commands would otherwise make too many states: it takes
the steps that keep `Apart`, deaths, lost answers and all other overlaps among
them. That the machine itself is not kept is a run of its own, which must find the
violation:

| run | the source says | what TLC finds |
|---|---|---|
| `ControlReopened` | a terminal state is immutable (`state_machines.py:4`) | a poll reads a released queued command, another poll lets it expire, or delivers it and the agent ends it, and the first commits `delivered` over it. (A command held for approval is never read as deliverable, so its rejection is not at stake.) |

**Divergences read off the code, without a run.** Some contradict a comment or a
document; the others are behaviours the models contain and no property excludes.

- Commands and approvals: a late decision cancels, as expired, the command of an
  approval somebody else approved meanwhile (`approvals.py:242`); a delivered
  command never expires (`commands.py:406`, against `config.py:125`); an approval
  nobody opens is never marked expired, and one that expires writes no event and
  no audit entry (`approvals.py:240`); a repeated acknowledgement or result emits
  its event again; the payload of `command.queued` reads the id before the flush
  that assigns it (`commands.py:270`).
- Ingest: overlapping batches reopen a finished run (`runs/service.py:94` and
  `115`) and set `last_sequence` back (`ingest/service.py:234`, against
  `tables.py:136`); an event that would create a run of a project or task that is
  not there fails its flush (`runs/service.py:258`) and the whole batch with it,
  at every retry, though `ingest/service.py:58-64` says that no exception comes
  out of a projection and that the journal does not depend on it; so does a usage
  event with a missing reference, though `_project_usage` says it is not fatal. A
  producer that repeats the same batch stays blocked by such an event:
  `EventuallyAccounted` has it send each event by itself too.
- Outbox: a row is abandoned as `failed` after eight attempts; rows may be
  published out of the order of `created_at`; the topics of a client beyond the
  200th are ignored.
- Policies and budgets: two editors who read the same version both succeed
  (`policies.py:256`, `budgets.py:359`).
- Usage: of two agents that share an event id the second is not counted; an
  unknown `pricing_version` is stored though the cost is computed with the current
  grid (`pricing.py:85`); a late event is evaluated with the usage that came after
  it; overlapping batches can hide a crossing from each other; an alert left
  unresolved silences the next period; an acknowledgement that has read an open
  alert overwrites its resolution (`alerts.py:207`, against
  `state_machines.py:4`).
- Agents: activation can never lift a suspension, whatever
  `08_RELEASE_ROLLBACK.md` says; agents of a suspended installation and archived
  agents go on ingesting; rotating a revoked credential issues a usable one;
  overlapping rotations leave two; overlapping `set_status` may leave an active
  agent with `revoked_at`; the webhook applies events in the order they arrive; a
  credential that has expired can be revoked, though `models/agent_control.py:124`
  says that both ends are final, and a rotation may issue one past its deadline.
- V0: a client whose token was revoked, lost with its answer, not stored, or
  overwritten never enrols again: after a revocation it keeps sending its old
  token, though `agents.py:66` says that it enrols with the shared secret; else
  the server refuses it that secret (`heartbeat.py:50-53`), though the README of
  `agent-cli` (22-24) says that the next call enrols with it; two heartbeats of an
  agent without token both enrol it, and the file may keep the token the row has
  lost; a heartbeat with a meta strips the source of a row, which then outlives
  its file (against `mc_sync.py:35-36`); a status file that is not UTF-8, holds no
  object or no number, and one that vanishes before its stat, end the watcher; a
  half-written status file purges its agent; a purged agent that something refers
  to kills the watcher, and a database failure kills the watcher or the scanner; a
  change between the first sync and the first signature is missed; the scanner may
  overwrite a fresh heartbeat.
- Accounts: two administrators can deactivate each other; a link can be used by
  two overlapping resets; overlapping requests leave two links; the key of the
  limit lowers the case of the email, the lookup does not.
- Projects: the V0 deletion removes a project of any tenant; `update_task` and
  `assign_task` do not refuse seed projects, though the head of
  `projects/service.py` says every mutation does; the V1 deletion of a project
  with tasks fails on the foreign key.

**Bounds.** `MaxClock` bounds time: lifetimes are 1 or 2, so a command and its
approval can expire before, at and after each step, in either order. Three
requests on one command suffice for two concurrent writers and a third that
changes the row they read. Two commands and a poll limit of one make the limit,
the order and the lapse on the way happen. Three events let a run begin, finish
and be contradicted, and a step open, close and be opened again; event 2 is the
one that may fail, so that events come before and after it. Kinds beyond those the
runs mix take the same paths: what differs is the table of the machine, and the
theorems have them all. `MaxCrashes` and `MaxOutages` are one: each copy or loss
already needs one. `MaxAttempts` is 2 in `RelayOutbox`, 8 in the code; no
definition depends on more than being below or at it. `MaxVersion` lets a budget
or policy be edited once after its creation, by two overlapping edits;
`MaxResolved` lets an alert be resolved and its condition be announced again. Two
credentials let one be rotated into the other; two tokens let an enrolment be
revoked and renewed, and two heartbeats enrol one agent twice. `MaxFaults` 1 in
`AgentPresence` is one lost answer, one token not stored or one failure of the
database; the theorems have any number. In `Accounts`, LIMIT 1 and WINDOW 2 make a
counter reach its limit, outlive a tick and end; where attempts are counted the
transactions of requests change nothing the counters depend on, and `MaxWrites` 0
leaves them to the behaviours outside production. Pages of one task make every
position a cursor; `MaxWrites` 2 in `Projects` bounds amendments and deletions,
enough to delete the row of the cursor and unlist another. The proofs below lift
these bounds for what they cover. Deadlock is not checked where the system may
rest: everything ended, drained or used up.

**Fairness.** Of `CommandControl`: time passes; each request that keeps being
served finishes (strong, since others are killed again and again and row locks are
granted in turn); the agent polls, and some polls survive. Nothing is assumed of
the agent's answers or of operators. Of `EventIngest`: the producer sends an event
again, by itself, until it is answered, and some of these requests survive to
their commit, if it can be reached: the projection that fails never reaches it. Of
`OutboxRelay`: the relay loop catches every exception and runs for ever, a dead
process is started again, what was pushed is read, and Redis comes back. Of
`AgentPresence`: the event loop gives its tasks their turns, strongly, for each
may find it busy with the other again and again; clients, files and operators owe
nothing. Of `AgentAccess`: a request of an agent ends, a poll by its timeout. Of
`Accounts`: time passes. The other modules state safety only.

## 4. What is proved

Every safety property, action property and refinement that a run checks and finds
true is a theorem, for any values of the constants that the assumption of its
module allows. None supposes anything of what overlaps. `TasksWalked`,
`OneAuditedDecision` and `RevocationStands` are theorems that no run has: beside
them the runs check `TasksListed`, `ControlInv` (of which the second is a part)
and `CredentialsFollowMachine`. There are 36 theorems in all:

| module | theorems | what they say |
|---|---|---|
| `CommandControlProofs` | `ControlInvariant`, and from it `TypeCorrect`, `GateP5`, `Agreement`, `OneDecision`, `EveryStatusAnnounced` | the approval gate, agreement, single decision and announced statuses for any commands, requests, lifetimes |
| | `ApprovalsImplementMachine` | the refinement of `Lifecycle` with the approval machine |
| | `CommandsMoved`, `HandedAgainByOverlap` | whatever overlaps: a command is moved only along its machine, from what was read; it is handed out again only by polls that overlap |
| `EventIngestProofs` | `IngestedOnce`, `ProjectionBacked`, `StepClosedForGood` | exactly-once journal and outbox, projections backed by the journal, closed steps stay closed, whatever overlaps |
| | `RunMoved`, `BehindByStale` | whatever overlaps: a batch of any length moves the run along its machine from what it had read; sequence and heartbeat fall behind only by a request that another one crossed |
| `OutboxRelayProofs` | `OutboxInvariant` | nothing marked published unsent; every copy is explained by a failure, for any number of processes, deaths and outages |
| | `RowsImplementLifecycle` | the refinement of `Lifecycle` |
| `UsageBudgetsProofs` | `UsageCounted`, `AlertsKeptApart`, `NoticedWhenAlone`, `GateStrictest` | counted once; one active alert; a batch alone notices its crossings; the gate is the strictest answer of the budgets that cover the command, in whatever order |
| | `MovedAlone` | whatever overlaps, a request that no commit crosses moves the alerts along their machine |
| `AgentAccessProofs` | `AccessKept`, `SuspensionStands`, `RevokedForGood` | tenants apart, rotations revoke; no operator lifts a suspension; a revoked credential stays so and lets nobody in |
| | `CredentialsImplementMachine` | whatever overlaps, the refinement of `Lifecycle` with the machine of the credentials: never usable again once revoked or expired |
| | `EnrolmentKept`, `AgentsKept` | no client locked out undisturbed, however its heartbeats and those of the agents it shares a token file with overlap; no agent without a file deleted |
| `AdministrationProofs` | `AttemptsBounded`, `AdministratorRemains`, `OneLinkRemains` | bounded attempts; an administrator and one link remain of what runs alone |
| | `OneAnswerAlways`, `DisabledForGood` | every action has one answer, in the documented order; no edit revives a disabled policy |
| `ProjectsProofs` | `BoardKept` | tasks in place, names unique, whatever both services do together |
| | `WalkKeptWhole` | whichever list is walked: no row twice, none skipped that was listed all along |
| | `TasksImplementList`, `TasksRead` | the walk of the tasks implements `Listings`, and so inherits that |

Each follows the same argument: an inductive invariant holds initially, every
action of every step keeps it (one step of the proof per action), and it implies
the property. What makes the invariants inductive is, each time, what a request
that has read and not yet written may rely on:

- `ControlInv` adds `LockFacts` (only the session that changed an approval has its
  lock, alone; until it commits nothing can have been released), `RowFacts`
  (released means needing no approval or approved, and only released commands were
  handed out) and `SessionFacts` (what a poll is about to deliver was released
  when it was read, and no step takes a release back). That is the core of gate
  P5: a poll may overwrite a cancellation, but never delivers what was held.
- `ReadsSound` (commands) and `ReadInv` (runs) keep what a request found when it
  read: the machine was asked, of what was read then, for what it will write. They
  say nothing of the row, which others may have changed, and so need no hypothesis
  for `CommandsMoveFromRead` and `RunMovesFromRead`. `QuietRead` keeps what the
  requests that no commit crossed have read of the alerts, for `AlertsMoveAlone`.
  `HandingInv` counts: what was handed of a command and the polls that have taken
  it from the queue are together no more than the requests served at once, and a
  command that left the queue is taken by no new poll.
- `IngestInv` adds `BatchesSound`: a batch about to be committed accepts events of
  its own, announces what it projects by one of them, and the run it read has not
  gone. What a batch of any length makes of a run is proved by induction along the
  events (`InductionUpTo` in `Orders`); `ReadInv` uses the same induction for the
  paths of the machine.
- `OutboxInv` adds that a row being drained is locked by one process and still
  pending, and that the copies of a row are its attempts and the transactions lost
  after a publication.
- `UsageInv` adds `BatchesCount`: a batch under way has recorded what it accepted,
  itself or before it, and its rows are only of accepted events. The proof of
  `NoticedWhenAlone` also keeps what a quiet batch has evaluated so far.
- `AccessInv` adds `LineageKept` and `ReadsLast`: agents, homes and scopes of a
  credential never change and a revocation is never taken back, so a request that
  leaves the revocation unwritten found it done. From that follows how far the
  status of a credential can move in one step (`StatusAdvances`), and the
  refinement: the clock only expires, a commit only revokes.
- `PresenceInv` adds `EnrolmentUnderWay` (while the token of an undisturbed agent
  is on its way to the file, the row has that token: whoever changes the row,
  loses the token or overwrites the file marks the agent disturbed),
  `LoopUnderWay` (only a sync deletes rows and it never overlaps a scan, so
  neither writes to a row that is gone) and `FilesKnown` (only a file makes an
  agent one of the files).
- `AccountsInv` adds `TriesCounted` (while Redis counts, every password that was
  tried is in the counter) and `QuietFacts`: as long as nobody else commits, a
  request for a link knows every open link, and the administrator who changes an
  account is still one.
- `PoliciesInv` adds `EditFit`: what an edit under way will write fits its column,
  leaves out a status it found, and moves a scope only of a policy that names one.
  That there is always one winner is a fact about orders: `FirstElement` in
  `Orders`, with the four criteria as an order of the policies.
- `BoardInv` adds `ReadsLast`: the project and the parent that a creation read are
  as they were, or deleted, in which case the foreign key refuses it.
- `WalkInv` keeps that nothing before the cursor that was listed all along is
  missing from what was shown. `TasksImplementList` maps each page of `list_tasks`
  to a page of `Listings`: a page there is the set of the newest rows, defined by
  counting the rows before each, and `Orders` proves that this is a leading part
  of the order, full or the last (`FirstAreLeading`, `FirstCounted`).

**What the attempts corrected.** `Policies` had any row edited to any scope: the
code refuses a scope that names nothing (`ValidScope`), without which `EditFit`
fails. `status` is not validated by `update_policy`, so an edit that revives a
policy may have read any status but active: `DisabledStays` says so now. A page of
`list_tasks` was a sort of a set; it is the set of the newest rows, and its cursor
the last of them. `AccountsInv` and `PresenceInv` are stronger than they were, and
TLC checks the parts that were added. The credentials do not implement their
frozen machine: one that has expired may be revoked, and a rotation may issue one
that is already past its deadline. `CredentialLife` has the machine they do
implement. Theorems that supposed that requests do not overlap, and so had the
machine itself, are replaced by what holds when they do.

**Assumptions.** Those of the modules, named next to their CONSTANTS, which TLC
evaluates in every run. The theorem about an instance (`Listings`) states the
assumption of that module as a hypothesis. `GateStrictest` supposes a
finite set of budgets, `PoliciesAssumption` one of policies and
`ProjectsAssumption` one of tasks, as a table holds.

**Only model-checked:** the liveness properties (`ReleasedLeavesQueue`,
`EventuallyAccounted`, `OutboxDrains`, `ReachesEveryProcess`,
`RevokedFallsSilent`, `EventuallyStale`, `FilesMirrored`, `LockoutEnds`), since
fairness and ENABLED are outside the prover's reach. Of `RevokedFallsSilent`,
`RevokedForGood` proves the safety half. That agents of one machine overwrite each
other's tokens is only proved: the instance of the run has one agent.

## 5. Not modelled

- Redaction, a pure function on dictionaries of text, and the rounding of prices
  to eight decimals; the grid and the choice of its version are modelled.
- Reads that only aggregate: the overview, the usage totals and the CSV export,
  the health of an agent.
- Columns that nothing else reads: `update_agent`, names and texts of projects and
  tasks, summaries, results, retries and assignments of runs, `last_used_at`.
- Signatures, hashes and the trust of proxies: the models choose the answer.
- The registry of WebSocket connections and its topics: a process stands for its
  clients, which read again on any signal.
- Links of V0 agents to projects and activities, and what a V0 deletion detaches.
- Of the seed, the showcase rows: they are an initial state.
- Composition of the usage and the run projections in one module: both are
  projections of the same batch, in one transaction; each module has the batch
  with its own projection, and neither reads what the other writes.
- Of the ingest: a second agent, whose use of the same run id is refused
  (`runs/service.py:196`); an event twice within one batch
  (`ingest/service.py:178`), which a set cannot say; projections that raise for
  other reasons than a missing project or task (a step sequence beyond an integer,
  dates with and without a zone). These fail a batch just as `ProjectFails` does.
- Of V0: the directory of status files is there (without it a sync purges nobody);
  every client asks to be enrolled; the shared secret is right and enabled; a meta
  with nothing in it but a source counts as none; a failure of `publish_stats`
  after a commit counts as one of the task's next run; a client loads its token
  and is served in one step, since what changes in between only has it refused.
- The instance of `AgentPresence` has no agent that another row refers to
  (`Pinned`), and that of `Projects` no task of the seed: both are parameters.
- The web front, generated contracts and deployment.
