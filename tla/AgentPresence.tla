---------------------------- MODULE AgentPresence ----------------------------
(***************************************************************************)
(* The live agents of V0: heartbeats and enrolment (apps/api/routers/      *)
(* heartbeat.py, agents.py), the client that sends them (agent-cli/        *)
(* mc_platform/client.py), the scanner of silent agents and the watcher of *)
(* the status files (realtime/ws.py, services/mc_sync.py).                 *)
(*                                                                         *)
(* Heartbeats run in threads; the scanner and the watcher run in the event *)
(* loop, one at a time.  Each reads rows, then writes the columns it       *)
(* changed.  A task of the loop that raises ends for good.                 *)
(* Of the states, working, stale and the others are told apart; of a time, *)
(* whether it is older than the threshold.                                 *)
(***************************************************************************)
EXTENDS Updates, Integers, FiniteSets, TLC

CONSTANTS LiveAgents, \* agent keys
          Pinned,     \* the agents that a task or an event refers to
          Reports,    \* the heartbeats sent: state, and what the meta claims
          Orchestrated, \* the agents that may have a status file
          Statuses,   \* the states and dates of the status files
          Requests,   \* heartbeats in flight
          MaxToken,   \* bound on the tokens issued
          MaxWrites,  \* bound on the changes of the status files
          MaxFaults   \* bound on the failures: answers and stores lost, database errors

ASSUME PresenceAssumption ==
    /\ Pinned \cup Orchestrated \subseteq LiveAgents
    /\ Reports \subseteq [state : {"working", "other"}, meta : {"none", "plain", "mc-file"}]
    /\ Statuses \subseteq [state : {"working", "other"}, dated : BOOLEAN]
    /\ {MaxToken, MaxWrites, MaxFaults} \subseteq Nat

VARIABLES row,        \* agents: state, last_heartbeat, meta.source, token_hash
          file,       \* the status files of mc
          held,       \* the credentials file, one for all agents of a machine: a token, or 0
          request,    \* what each heartbeat in flight has read
          loop,       \* what the event loop is doing
          watcher,    \* the progress of the watcher's task
          scanning,   \* whether the scanner's task is alive
          changed,    \* whether the signature of the files has changed
          issued,     \* the number of tokens issued
          writes,     \* the changes of the files
          faults,     \* the failures
          filed,      \* history: the agents that ever had a status file
          reported,   \* history: whether a heartbeat was written, and since the last sync
          disturbed,  \* history: the agents whose enrolment was disturbed
          missed      \* history: the last change fell before the first signature

presence == <<row, file, held, request, loop, watcher, scanning, changed, issued, writes,
              faults, filed, reported, disturbed, missed>>

enrolment == <<held, request, issued, reported, disturbed>>
tasks == <<loop, watcher, scanning, changed, missed>>
files == <<file, writes, filed>>

Absent == [state |-> "absent", beat |-> "none", source |-> "none", token |-> 0]

Unsent == [pc |-> "idle"]
Free == [task |-> "free"]

-----------------------------------------------------------------------------
\* Heartbeats.

\* Mutant: the client does not find its token again.
SentShared(a) == 0

\* The token a client sends: its own if the file has one, else the shared secret, 0.
Sent(a) == held[a]

\* An agent that is enrolled needs its own token, any other the shared secret.
Admits(a, token) == token = row[a].token

\* Mutant: the source is taken from the client.
SourceClaimed(read, meta) == IF meta = "none" THEN read ELSE IF meta = "plain" THEN "none" ELSE meta

\* The meta of a heartbeat, less its source, replaces that of the row.
Source(read, meta) == IF meta = "none" THEN read ELSE "none"

\* Every client asks; a token is issued to an agent that has none.
Issues(a) == row[a].token = 0

\* A token was issued to a and is not yet in its file.
Waits(a) == \E q \in Requests : request[q].pc \in {"answered", "storing"} /\ request[q].agent = a

\* The client is a new process for every heartbeat, so those of one agent overlap.
\* It loads its token and is served in one step: a token that changes in between
\* is refused, and a refused heartbeat changes nothing.
ReadHeartbeat(q, a, report) ==
    /\ request[q] = Unsent
    /\ Admits(a, Sent(a))
    /\ request' = [request EXCEPT ![q] =
           [pc |-> "writing", agent |-> a, heard |-> TRUE, insert |-> (row[a] = Absent),
            state |-> Changed(row[a].state, report.state),
            source |-> Changed(row[a].source, Source(row[a].source, report.meta)),
            issue |-> Issues(a)]]
    /\ UNCHANGED <<row, held, issued, reported, disturbed, files, tasks, faults>>

\* The row was deleted, or created by somebody else.
Lost(q) == request[q].insert # (row[request[q].agent] = Absent)

Touched(a) ==
    loop' = IF loop.task = "sync" THEN [loop EXCEPT !.touched = @ \cup {a}] ELSE loop

\* Two heartbeats that found no token both issue one, and the second replaces
\* the first in the row.
CommitHeartbeat(q) ==
    LET t == request[q]
        a == t.agent
        token == IF t.issue THEN issued + 1 ELSE row[a].token
    IN  /\ t.pc = "writing"
        /\ ~Lost(q)
        /\ t.issue => issued < MaxToken
        /\ issued' = IF t.issue THEN issued + 1 ELSE issued
        /\ row' = [row EXCEPT ![a] =
               [state |-> Written(@.state, t.state), beat |-> "fresh",
                source |-> Written(@.source, t.source), token |-> token]]
        /\ request' = [request EXCEPT ![q] =
               IF t.issue /\ t.heard
               THEN [pc |-> "answered", agent |-> a, token |-> token]
               ELSE Unsent]
        /\ reported' = [reported EXCEPT ![a] = "since"]
        /\ disturbed' = IF t.issue /\ row[a].token # 0 THEN disturbed \cup {a} ELSE disturbed
        /\ Touched(a)
        /\ UNCHANGED <<held, files, watcher, scanning, changed, faults, missed>>

\* A constraint, a stale row or a failure refuses the write: the client gets an
\* error.
FailHeartbeat(q) ==
    /\ request[q].pc = "writing"
    /\ request' = [request EXCEPT ![q] = Unsent]
    /\ UNCHANGED <<row, held, issued, reported, disturbed, files, tasks, faults>>

\* The client gives up after its timeout, or the answer is lost; the server goes on.
Timeout(q) ==
    /\ faults < MaxFaults
    /\ faults' = faults + 1
    /\ \/ /\ request[q].pc = "writing"
          /\ request[q].heard
          /\ request' = [request EXCEPT ![q].heard = FALSE]
       \/ /\ request[q].pc = "answered"
          /\ request' = [request EXCEPT ![q] = Unsent]
    /\ disturbed' = disturbed \cup {request[q].agent}
    /\ UNCHANGED <<row, held, issued, reported, files, tasks>>

\* _store_token reads the file of all agents, and writes it again.  A file that
\* another process is writing reads as one without tokens.
NoTokens == [a \in LiveAgents |-> 0]

LoadTokens(q) ==
    /\ request[q].pc = "answered"
    /\ \E copy \in {held} \cup {NoTokens : r \in {r \in Requests : request[r].pc = "storing"}} :
           request' = [request EXCEPT ![q] =
               [pc |-> "storing", agent |-> @.agent, token |-> @.token, copy |-> copy]]
    /\ UNCHANGED <<row, held, issued, reported, disturbed, files, tasks, faults>>

\* The agents whose token differs in the file and in a copy of it.
Differ(copy) == {a \in LiveAgents : copy[a] # held[a]}

\* What another process stored meanwhile is overwritten.
StoreToken(q) ==
    LET t == request[q]
    IN  /\ t.pc = "storing"
        /\ held' = [t.copy EXCEPT ![t.agent] = t.token]
        /\ disturbed' = disturbed \cup (Differ(t.copy) \ {t.agent})
        /\ request' = [request EXCEPT ![q] = Unsent]
        /\ UNCHANGED <<row, issued, reported, files, tasks, faults>>

\* An OSError is swallowed: the file stays as it was, or was emptied already.
FailStore(q) ==
    /\ request[q].pc = "storing"
    /\ faults < MaxFaults
    /\ faults' = faults + 1
    /\ held' \in {held, NoTokens}
    /\ disturbed' = disturbed \cup {request[q].agent} \cup Differ(held')
    /\ request' = [request EXCEPT ![q] = Unsent]
    /\ UNCHANGED <<row, issued, reported, files, tasks>>

\* revoke_agent_token.
revoke_agent_token(a) ==
    /\ row[a].token # 0
    /\ row' = [row EXCEPT ![a].token = 0]
    /\ disturbed' = disturbed \cup {a}
    /\ UNCHANGED <<held, request, issued, reported, files, tasks, faults>>

-----------------------------------------------------------------------------
\* The status files.

\* No file, or one that is skipped: read while it is written, or without an agent.
Missing == [kind |-> "missing", state |-> "other", dated |-> FALSE]

\* A file that is not UTF-8, holds no object or has no number for its progress
\* raises.
Bad == [Missing EXCEPT !.kind = "bad"]

\* An orchestrated agent writes, rewrites or removes its file.
WriteFile(a, content) ==
    /\ writes < MaxWrites
    /\ content # file[a]
    /\ writes' = writes + 1
    /\ file' = [file EXCEPT ![a] = content]
    /\ filed' = IF content.kind = "status" THEN filed \cup {a} ELSE filed
    /\ changed' = TRUE
    /\ missed' = (watcher = "signing" \/ (watcher = "starting" /\ loop.task = "sync"))
    /\ UNCHANGED <<row, enrolment, loop, watcher, scanning, faults>>

\* Time passes and an agent is silent.
Age(a) ==
    /\ row[a].beat = "fresh"
    /\ row' = [row EXCEPT ![a].beat = "old"]
    /\ UNCHANGED <<enrolment, files, tasks, faults>>

-----------------------------------------------------------------------------
\* The watcher.

\* What sync_once does to a row: a file that parses is copied, one without a date
\* leaves that of the row; the agents of files that are gone are purged.  The
\* date of a file is recent or not.
Synced(a, date) ==
    LET f == file[a]
        beat == IF f.dated THEN date ELSE row[a].beat
    IN  CASE f.kind = "status" /\ row[a] = Absent ->
                 [do |-> "insert", row |-> [state |-> f.state, beat |-> beat,
                                            source |-> "mc-file", token |-> 0]]
          [] f.kind = "status" /\ row[a] # Absent ->
                 [do |-> "update", state |-> Changed(row[a].state, f.state),
                  beat |-> Changed(row[a].beat, beat),
                  source |-> Changed(row[a].source, "mc-file")]
          [] f.kind # "status" /\ row[a].source = "mc-file" -> [do |-> "delete"]
          [] OTHER -> [do |-> "nothing"]

\* Mutant: the signature is taken once the files are in the database.
SignedAfter(moment) == moment = "after"

\* A poll takes the signature before it reads the files.
Signed(moment) == moment = "before"

DueSync == loop = Free /\ (watcher = "starting" \/ (watcher = "polling" /\ changed))

\* The exception of a bad file ends the task.
ReadBadFile ==
    /\ DueSync
    /\ \E a \in LiveAgents : file[a].kind = "bad"
    /\ watcher' = "dead"
    /\ UNCHANGED <<row, enrolment, files, loop, scanning, changed, faults, missed>>

\* The signature stats each file it has listed: one that vanishes in between
\* ends the task.
Vanish(a) ==
    /\ loop = Free
    /\ watcher \in {"signing", "polling"}
    /\ file[a] # Missing
    /\ writes < MaxWrites
    /\ writes' = writes + 1
    /\ file' = [file EXCEPT ![a] = Missing]
    /\ watcher' = "dead"
    /\ UNCHANGED <<row, enrolment, loop, scanning, changed, faults, filed, missed>>

BeginSync ==
    /\ DueSync
    /\ \A a \in LiveAgents : file[a].kind # "bad"
    /\ changed' = (changed /\ ~(watcher = "polling" /\ Signed("before")))
    /\ \E date \in {"fresh", "old"} :
           loop' = [task |-> "sync", new |-> [a \in LiveAgents |-> Synced(a, date)], touched |-> {}]
    /\ UNCHANGED <<row, enrolment, files, watcher, scanning, faults, missed>>

Created(t) == {a \in LiveAgents : t.new[a].do = "insert"}
Purged(t) == {a \in LiveAgents : t.new[a].do = "delete"}

\* The key of a new agent was taken meanwhile, or a row refers to a purged one.
Refused(t) ==
    \/ \E a \in Created(t) : row[a] # Absent
    \/ Purged(t) \cap Pinned # {}

\* A heartbeat logged an activity of a purged agent before its deletion.
MayBeRefused(t) == Purged(t) \cap t.touched # {}

\* The row of an agent after the transaction of sync_once.
Merged(current, new) ==
    CASE new.do = "insert"  -> new.row
      [] new.do = "delete"  -> Absent
      [] new.do = "nothing" -> current
      [] new.do = "update"  ->
             [state |-> Written(current.state, new.state), beat |-> Written(current.beat, new.beat),
              source |-> Written(current.source, new.source), token |-> current.token]

\* After the initial sync the signature is still to be taken.
CommitSync ==
    LET t == loop
    IN  /\ t.task = "sync"
        /\ ~Refused(t)
        /\ row' = [a \in LiveAgents |-> Merged(row[a], t.new[a])]
        /\ reported' = [a \in LiveAgents |->
               IF reported[a] = "since" /\ a \notin t.touched THEN "before" ELSE reported[a]]
        /\ disturbed' = disturbed \cup Purged(t)
        /\ loop' = Free
        /\ watcher' = IF watcher = "starting" THEN "signing" ELSE watcher
        /\ changed' = (changed /\ ~(watcher = "polling" /\ Signed("after")))
        /\ UNCHANGED <<held, request, issued, files, scanning, faults, missed>>

\* The first signature: what changed before it is not seen.
FirstSignature ==
    /\ loop = Free
    /\ watcher = "signing"
    /\ watcher' = "polling"
    /\ changed' = FALSE
    /\ UNCHANGED <<row, enrolment, files, loop, scanning, faults, missed>>

\* The exception ends the task, the transaction is rolled back.
FailSync ==
    /\ loop.task = "sync"
    /\ Refused(loop) \/ MayBeRefused(loop)
    /\ watcher' = "dead"
    /\ loop' = Free
    /\ UNCHANGED <<row, enrolment, files, scanning, changed, faults, missed>>

-----------------------------------------------------------------------------
\* The scanner.

Silent(a) == row[a].state = "working" /\ row[a].beat = "old"

\* A scan that finds nobody changes nothing: only its failure is a step, below.
BeginScan ==
    /\ loop = Free
    /\ scanning
    /\ \E a \in LiveAgents : Silent(a)
    /\ loop' = [task |-> "scan", found |-> {a \in LiveAgents : Silent(a)}]
    /\ UNCHANGED <<row, enrolment, files, watcher, scanning, changed, faults, missed>>

\* Mutant: the scanner asks for other states than working.
FoundOthers(t) == {a \in t.found : row[a].state # "working"}

\* The rows the scanner writes.
Found(t) == t.found

\* stale is written over whatever the row holds by then.
CommitScan ==
    /\ loop.task = "scan"
    /\ row' = [a \in LiveAgents |-> IF a \in Found(loop) THEN [row[a] EXCEPT !.state = "stale"] ELSE row[a]]
    /\ loop' = Free
    /\ UNCHANGED <<enrolment, files, watcher, scanning, changed, faults, missed>>

\* The database fails under the running task, or under a scan that would find
\* nobody, and the task ends.  (A failure of publish_stats after the commit ends it
\* as one of its next run does.)
Outage ==
    /\ faults < MaxFaults
    /\ loop # Free \/ scanning
    /\ faults' = faults + 1
    /\ IF loop.task = "sync" THEN watcher' = "dead" /\ UNCHANGED scanning
       ELSE scanning' = FALSE /\ UNCHANGED watcher
    /\ loop' = Free
    /\ UNCHANGED <<row, enrolment, files, changed, missed>>

-----------------------------------------------------------------------------
Contents == {Missing, Bad} \cup
            {[kind |-> "status", state |-> s.state, dated |-> s.dated] : s \in Statuses}

PresenceInit ==
    /\ row = [a \in LiveAgents |-> Absent]
    /\ file = [a \in LiveAgents |-> Missing]
    /\ held = [a \in LiveAgents |-> 0]
    /\ request = [q \in Requests |-> Unsent]
    /\ loop = Free
    /\ watcher = "starting"
    /\ scanning = TRUE
    /\ changed = FALSE
    /\ issued = 0
    /\ writes = 0
    /\ faults = 0
    /\ filed = {}
    /\ reported = [a \in LiveAgents |-> "never"]
    /\ disturbed = {}
    /\ missed = FALSE

Heartbeat(q) ==
    \/ \E a \in LiveAgents, report \in Reports : ReadHeartbeat(q, a, report)
    \/ CommitHeartbeat(q) \/ FailHeartbeat(q) \/ Timeout(q)
    \/ LoadTokens(q) \/ StoreToken(q) \/ FailStore(q)

PresenceNext ==
    \/ \E q \in Requests : Heartbeat(q)
    \/ \E a \in LiveAgents :
           \/ revoke_agent_token(a) \/ Age(a)
           \/ \E content \in Contents : a \in Orchestrated /\ WriteFile(a, content)
           \/ a \in Orchestrated /\ Vanish(a)
    \/ ReadBadFile \/ BeginSync \/ CommitSync \/ FirstSignature \/ FailSync
    \/ BeginScan \/ CommitScan \/ Outage

PresenceSpec == PresenceInit /\ [][PresenceNext]_presence

\* The event loop gives each task its turn, however busy the others keep it;
\* clients and operators owe nothing.
FairPresence ==
    /\ PresenceSpec
    /\ SF_presence(ReadBadFile \/ BeginSync) /\ WF_presence(CommitSync \/ FailSync) /\ WF_presence(FirstSignature)
    /\ SF_presence(BeginScan) /\ WF_presence(CommitScan)

-----------------------------------------------------------------------------
(***************************************************************************)
(* Properties.                                                             *)
(***************************************************************************)

Row == [state : {"working", "other", "stale"}, beat : {"none", "fresh", "old"},
        source : {"none", "mc-file"}, token : 0..MaxToken]

Sync == [do : {"insert"}, row : Row] \cup [do : {"delete", "nothing"}]
          \cup [do : {"update"}, state : Column({"working", "other"}),
                beat : Column({"fresh", "old"}), source : Column({"mc-file"})]

Writing ==
    [pc : {"writing"}, agent : LiveAgents, heard : BOOLEAN, insert : BOOLEAN,
     state : Column({"working", "other"}), source : Column({"none", "mc-file"}), issue : BOOLEAN]

Answered == [pc : {"answered"}, agent : LiveAgents, token : 1..MaxToken]

Storing == [pc : {"storing"}, agent : LiveAgents, token : 1..MaxToken,
            copy : [LiveAgents -> 0..MaxToken]]

InFlight == {Unsent} \cup Writing \cup Answered \cup Storing

InLoop == {Free} \cup [task : {"scan"}, found : SUBSET LiveAgents]
            \cup [task : {"sync"}, new : [LiveAgents -> Sync], touched : SUBSET LiveAgents]

\* Every variable ranges over what the code can store; a token in the database
\* was issued.
PresenceTypeOK ==
    /\ row \in [LiveAgents -> Row \cup {Absent}]
    /\ file \in [LiveAgents -> Contents]
    /\ held \in [LiveAgents -> 0..issued]
    /\ \A a \in LiveAgents : row[a].token <= issued
    /\ request \in [Requests -> InFlight]
    /\ loop \in InLoop
    /\ watcher \in {"starting", "signing", "polling", "dead"}
    /\ {scanning, changed, missed} \subseteq BOOLEAN
    /\ issued \in 0..MaxToken /\ writes \in 0..MaxWrites /\ faults \in 0..MaxFaults
    /\ reported \in [LiveAgents -> {"never", "before", "since"}]
    /\ filed \subseteq LiveAgents /\ disturbed \subseteq LiveAgents

\* An agent that never had a status file is never deleted, whatever its client
\* puts in the meta of its heartbeats and however they overlap a sync.
HeartbeatAgentsKept ==
    [][\A a \in LiveAgents : row[a] # Absent /\ row'[a] = Absent => a \in filed]_presence

\* An agent is locked out of its own key only by an answer that is lost, by a token
\* that is not stored or is overwritten in the shared file, by two enrolments that
\* overlap, by a revocation or by a purge: in any other history whoever enrolled can
\* go on sending.  (The shared secret does not enrol it again.)
NoLockout ==
    \A a \in LiveAgents : a \notin disturbed /\ ~Waits(a) => Admits(a, Sent(a))

\* What makes it inductive: while a token is on its way to the file, the row has it.
UnderWay(q) ==
    LET t == request[q]
        a == t.agent
    IN  /\ t.pc = "writing" =>
               /\ t.heard \/ a \in disturbed
               /\ t.insert => t.state # <<>>
               /\ t.source # <<"mc-file">>
        /\ t.pc \in {"answered", "storing"} =>
               t.token <= issued /\ (a \in disturbed \/ row[a].token = t.token)
        /\ t.pc = "storing" => \A b \in LiveAgents : t.copy[b] <= issued

EnrolmentUnderWay == \A q \in Requests : UnderWay(q)

\* What the event loop read lasts: nobody else deletes a row.
LoopUnderWay ==
    /\ loop.task = "scan" => \A a \in loop.found : row[a] # Absent
    /\ loop.task = "sync" => \A a \in LiveAgents :
           /\ loop.new[a].do = "update"  => row[a] # Absent
           /\ loop.new[a].do = "insert"  => loop.new[a].row.token = 0
           /\ loop.new[a].do # "nothing" => a \in filed

FilesKnown ==
    \A a \in LiveAgents : file[a].kind = "status" \/ row[a].source = "mc-file" => a \in filed

\* The invariant the run checks.
PresenceInv == PresenceTypeOK /\ NoLockout /\ EnrolmentUnderWay /\ LoopUnderWay /\ FilesKnown

\* An agent that says it works and falls silent is shown stale in the end, unless
\* it is heard again or the scanner died of a failure of the database.
EventuallyStale ==
    \A a \in LiveAgents : Silent(a) ~> (~Silent(a) \/ ~scanning)

\* What a status file says is in the row of its agent, but that a silent worker is
\* shown stale.
Copied(a) ==
    /\ row[a].source = "mc-file"
    /\ \/ row[a].state = file[a].state
       \/ row[a].state = "stale" /\ file[a].state = "working"

\* Every status file has its agent, which shows what the file says unless a heartbeat
\* came after; no agent outlives its file that is still known to come from one, and
\* none at all that never sent a heartbeat.
Mirrored ==
    \A a \in LiveAgents :
        IF file[a].kind = "status"
        THEN row[a] # Absent /\ (reported[a] # "since" => Copied(a))
        ELSE row[a].source # "mc-file" /\ (reported[a] = "never" => row[a] = Absent)

\* In the end the rows mirror the files, unless a failure, a bad file or a race killed
\* the watcher, or the last change came during or after its first sync and before its
\* first signature.
FilesMirrored == <>[](Mirrored \/ watcher = "dead" \/ missed)
=============================================================================
