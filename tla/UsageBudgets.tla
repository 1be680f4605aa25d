----------------------------- MODULE UsageBudgets -----------------------------
(***************************************************************************)
(* Consumption, budgets and alerts (apps/api/agent_control/operations/     *)
(* usage.py, pricing.py, budgets.py, alerts.py, and the usage projection   *)
(* of ingest/service.py).                                                  *)
(*                                                                         *)
(* A batch of usage events is one transaction: each event is recorded,     *)
(* then the budgets it counts for are evaluated on the rows committed so   *)
(* far and its own, and the alerts of the thresholds reached are opened.   *)
(* Operators acknowledge and resolve alerts and edit budgets in            *)
(* transactions that read, then write the columns they changed.            *)
(*                                                                         *)
(* An insert that meets an uncommitted row with its key waits for it, and  *)
(* fails if that row is committed; here it goes on and fails at its own    *)
(* commit, with the same outcome: everything its transaction did is lost.  *)
(* One installation; days and costs are small integers.                    *)
(***************************************************************************)
EXTENDS Integers, FiniteSets, FiniteSetsExt, Sequences, SequencesExt, StateMachines

CONSTANTS Events,      \* the usage events agents send, numbers
          Event,       \* [Events -> [agent, id, project, day, model, version, input, output]]
          References,  \* the projects and runs that exist
          Rates,       \* the price list: [versions -> [models -> [input, output]]]
          Current,     \* CURRENT_PRICING_VERSION
          Budgets,     \* the budgets
          Scope,       \* [Budgets -> [type, id]], fixed at creation
          Draft,       \* [Budgets -> columns], what each is created with
          Changes,     \* what an edit may change: columns and their new values
          Thresholds,  \* the percentages a budget may announce
          DEFAULT_THRESHOLDS, \* those of a budget that names none
          Requests,    \* requests in flight
          MaxVersion,  \* bound on the edits of a budget
          MaxResolved  \* bound on the alerts resolved

\* What the columns of a budget hold, and those an edit may name.
Row == [status : {"absent", "active", "paused"}, version : Nat, amount_limit : Nat,
        period : {"daily", "weekly", "monthly", "total"}, thresholds : SUBSET Thresholds,
        on_exceed : {"alert", "require_approval", "block_new_runs"}]

Column == [status |-> {"active", "paused"}, amount_limit |-> Nat,
           period |-> {"daily", "weekly", "monthly", "total"},
           thresholds |-> SUBSET Thresholds,
           on_exceed |-> {"alert", "require_approval", "block_new_runs"}]

ASSUME UsageAssumption ==
    /\ Events \subseteq Nat
    /\ \A e \in Events : {Event[e].input, Event[e].output} \subseteq Nat
    /\ Current \in DOMAIN Rates
    /\ \A v \in DOMAIN Rates :
           /\ "*" \in DOMAIN Rates[v]
           /\ \A m \in DOMAIN Rates[v] : {Rates[v][m].input, Rates[v][m].output} \subseteq Nat
    /\ \A b \in Budgets : Scope[b] = [type |-> Scope[b].type, id |-> Scope[b].id]
    /\ Thresholds \subseteq 1..100
    /\ DEFAULT_THRESHOLDS \subseteq Thresholds
    /\ Draft \in [Budgets -> Row]
    /\ \A change \in Changes : \A c \in DOMAIN change :
           c \in DOMAIN Column /\ change[c] \in Column[c]
    /\ {MaxVersion, MaxResolved} \subseteq Nat

VARIABLES journal,  \* agent_events: the usage events accepted
          usage,    \* agent_usage_records
          budget,   \* agent_budgets
          alerts,   \* agent_alerts: the statuses of the alerts of each condition
          tx,       \* what each request has read and not committed
          quiet     \* the requests during which no other one committed

vars == <<journal, usage, budget, alerts, tx, quiet>>

-----------------------------------------------------------------------------
\* Pricing.

\* _rate: an unknown version falls back to the current list, an unknown model to
\* the default of the list.
Rate(version, model) ==
    LET table == Rates[IF version \in DOMAIN Rates THEN version ELSE Current]
    IN  table[IF model \in DOMAIN table THEN model ELSE "*"]

\* compute_cost: the version that is kept is the one the event names.
compute_cost(e) ==
    LET version == IF Event[e].version = "none" THEN Current ELSE Event[e].version
        rate == Rate(version, Event[e].model)
    IN  [event |-> e, pricing_version |-> version,
         cost |-> Event[e].input * rate.input + Event[e].output * rate.output]

-----------------------------------------------------------------------------
\* Consumption of a budget.

\* period_start, on a calendar of days: weeks of 7 and months of 28.
period_start(period, day) ==
    CASE period = "daily"   -> day
      [] period = "weekly"  -> day - (day % 7)
      [] period = "monthly" -> day - (day % 28)
      [] period = "total"   -> 0

\* Whether the scope of a budget covers what an agent does, in a project or in none.
Covers(b, action) ==
    \/ Scope[b].type = "installation"
    \/ Scope[b].type = "agent" /\ Scope[b].id = action.agent
    \/ Scope[b].type = "project" /\ Scope[b].id = action.project /\ action.project # "none"

\* Mutant: the scope of a budget is not looked at.
ApplicableEverywhere(action) == {b \in Budgets : budget[b].status = "active"}

applicable_budgets(action) == {b \in Budgets : budget[b].status = "active" /\ Covers(b, action)}

\* consumption_for: a lower bound in time, no upper one.
consumption_for(b, rows, since) ==
    MapThenSumSet(LAMBDA u : u.cost,
        {u \in rows : Covers(b, Event[u.event]) /\ Event[u.event].day >= since})

\* consumed_and_pct: without a limit the percentage is 0.
Reached(b, rows, day, threshold) ==
    /\ budget[b].amount_limit > 0
    /\ consumption_for(b, rows, period_start(budget[b].period, day)) * 100
          >= threshold * budget[b].amount_limit

\* _thresholds: an edit may leave an empty list.
thresholds(b) ==
    IF budget[b].thresholds = {} THEN DEFAULT_THRESHOLDS ELSE budget[b].thresholds

-----------------------------------------------------------------------------
\* The gate of a submission.

\* budget_gate, for one exceeded budget: block ends the loop.
Hardened(behavior, on_exceed) ==
    IF behavior = "block" \/ on_exceed = "block_new_runs" THEN "block"
    ELSE IF on_exceed = "require_approval" THEN "require_approval" ELSE behavior

\* budget_gate, for a command of an agent in the project of its run.  The budgets come
\* in any order; those that do not apply or are not exceeded are passed over.
budget_gate(order, command, day) ==
    LET exceeded(b) == b \in applicable_budgets(command) /\ Reached(b, usage, day, 100)
        after[i \in 0..Len(order)] ==
            IF i = 0 THEN "allow"
            ELSE IF exceeded(order[i]) THEN Hardened(after[i - 1], budget[order[i]].on_exceed)
            ELSE after[i - 1]
    IN  after[Len(order)]

-----------------------------------------------------------------------------
\* Requests.

Idle == [pc |-> "idle"]

Begin(r, t) ==
    /\ tx[r] = Idle
    /\ tx' = [tx EXCEPT ![r] = t]
    /\ quiet' = quiet \cup {r}

Step(r, t) == tx' = [tx EXCEPT ![r] = t] /\ UNCHANGED quiet

\* A commit is visible to every request that is under way.
Commit(r) == tx' = [tx EXCEPT ![r] = Idle] /\ quiet' = {}

\* A failed or dead request leaves nothing.
Abort(r) ==
    /\ tx[r] # Idle
    /\ tx' = [tx EXCEPT ![r] = Idle]
    /\ quiet' = quiet \ {r}
    /\ UNCHANGED <<journal, usage, budget, alerts>>

\* A condition, the dedup_key of its alerts.
Keys == [budget : Budgets, threshold : Thresholds]

\* find_active_alert.
Active(key) == \E i \in DOMAIN alerts[key] : alerts[key][i] # "resolved"

\* ingest_events: the events of one agent that the journal does not have yet.
BeginIngest(r, batch) ==
    /\ batch # {}
    /\ \A e, f \in batch : Event[e].agent = Event[f].agent
    /\ Begin(r, [pc |-> "projecting", todo |-> batch \ journal, accepted |-> {},
                 rows |-> {}, opened |-> {}])
    /\ UNCHANGED <<journal, usage, budget, alerts>>

\* The lookup of record_usage, by installation and event id.
Recorded(rows, e) == \E u \in rows : Event[u.event].id = Event[e].id

\* Whether the foreign keys of the record hold; if not the batch is lost.
Referenced(e) == Event[e].project \in References \cup {"none"}

\* record_usage, for the next event of the batch.
RecordUsage(r) ==
    LET t == tx[r]
        e == Min(t.todo)
        accepted == [t EXCEPT !.todo = @ \ {e}, !.accepted = @ \cup {e}]
    IN  /\ t.pc = "projecting"
        /\ t.todo # {}
        /\ IF Recorded(usage \cup t.rows, e)
           THEN Step(r, accepted)
           ELSE /\ Referenced(e)
                /\ Step(r, [accepted EXCEPT !.pc = "evaluating",
                                            !.rows = @ \cup {compute_cost(e)}])
        /\ UNCHANGED <<journal, usage, budget, alerts>>

\* Mutant: the sum does not see the rows of its own transaction.
VisibleCommitted(t) == usage

\* The rows a transaction sums: the committed ones and its own, flushed.
Visible(t) == usage \cup t.rows

\* The event just recorded.
Latest(t) == Max({u.event : u \in t.rows})

\* The thresholds an event reaches and that no alert of the database announces.
Crossed(t, e) ==
    {k \in Keys :
        /\ k.budget \in applicable_budgets(Event[e])
        /\ k.threshold \in thresholds(k.budget)
        /\ Reached(k.budget, Visible(t), Event[e].day, k.threshold)
        /\ ~Active(k)}

\* evaluate_budgets and open_alert, at the day of the event.
EvaluateBudgets(r) ==
    LET t == tx[r]
    IN  /\ t.pc = "evaluating"
        /\ Step(r, [t EXCEPT !.pc = "projecting", !.opened = @ \cup Crossed(t, Latest(t))])
        /\ UNCHANGED <<journal, usage, budget, alerts>>

\* Mutant: no unique index on the records.
ConflictRecordsFree(t) == t.accepted \cap journal # {} \/ \E k \in t.opened : Active(k)

\* uq_agent_events_agent_event, uq_agent_usage_source_event, and the partial
\* index of the active alerts.
Conflict(t) ==
    \/ t.accepted \cap journal # {}
    \/ \E u \in t.rows : Recorded(usage, u.event)
    \/ \E k \in t.opened : Active(k)

Ingested(r) == tx[r].pc = "projecting" /\ tx[r].todo = {} /\ ~Conflict(tx[r])

CommitIngest(r) ==
    /\ Ingested(r)
    /\ journal' = journal \cup tx[r].accepted
    /\ usage' = usage \cup tx[r].rows
    /\ alerts' = [k \in Keys |->
           IF k \in tx[r].opened THEN Append(alerts[k], "open") ELSE alerts[k]]
    /\ Commit(r)
    /\ UNCHANGED budget

-----------------------------------------------------------------------------
\* Operators.

\* Mutant: what is asked of a resolved alert is not refused.
RequiredAny(status) == AlertStates

\* What acknowledge_alert and resolve_alert require of the alert as read: a request
\* that would change nothing ends.
Required(status) == IF status = "resolved" THEN {"open", "acknowledged"} ELSE {"open"}

\* acknowledge_alert, resolve_alert.
ReadAlert(r, k, i, status) ==
    /\ alerts[k][i] \in Required(status)
    /\ Begin(r, [pc |-> "writing", key |-> k, alert |-> i, status |-> status])
    /\ UNCHANGED <<journal, usage, budget, alerts>>

\* Mutant: the lookup alone keeps the active alerts apart.
ClashesNever(t) == FALSE

\* A resolved alert made active again meets the one opened since for its key.
Clashes(t) ==
    /\ t.status # "resolved"
    /\ alerts[t.key][t.alert] = "resolved"
    /\ Active(t.key)

Resolved == {ki \in Keys \X (1..MaxResolved) :
                 ki[2] \in DOMAIN alerts[ki[1]] /\ alerts[ki[1]][ki[2]] = "resolved"}

\* The status is written over whatever the row holds by then.
WriteAlert(r) ==
    LET t == tx[r]
    IN  /\ t.pc = "writing"
        /\ ~Clashes(t)
        /\ t.status = "resolved" => Cardinality(Resolved) < MaxResolved
        /\ alerts' = [alerts EXCEPT ![t.key][t.alert] = t.status]
        /\ Commit(r)
        /\ UNCHANGED <<journal, usage, budget>>

\* create_budget: validated columns, version 1.
CreateBudget(r, b) ==
    /\ tx[r] = Idle
    /\ budget[b].status = "absent"
    /\ budget' = [budget EXCEPT ![b] = Draft[b]]
    /\ Commit(r)
    /\ UNCHANGED <<journal, usage, alerts>>

\* update_budget: the version of the body is compared with the row as read.
ReadBudget(r, b, change) ==
    /\ budget[b].status # "absent"
    /\ Begin(r, [pc |-> "editing", budget |-> b, read |-> budget[b], change |-> change])
    /\ UNCHANGED <<journal, usage, budget, alerts>>

\* The columns that differ from what was read are written, and the version.
Patched(row, read, change) ==
    [c \in DOMAIN row |->
        IF c = "version" THEN read.version + 1
        ELSE IF c \in DOMAIN change /\ change[c] # read[c] THEN change[c]
        ELSE row[c]]

WriteBudget(r) ==
    LET t == tx[r]
    IN  /\ t.pc = "editing"
        /\ t.read.version < MaxVersion
        /\ budget' = [budget EXCEPT ![t.budget] = Patched(@, t.read, t.change)]
        /\ Commit(r)
        /\ UNCHANGED <<journal, usage, alerts>>

-----------------------------------------------------------------------------
Absent == [status |-> "absent", period |-> "total", amount_limit |-> 1,
           thresholds |-> {}, on_exceed |-> "alert", version |-> 0]

Init ==
    /\ journal = {}
    /\ usage = {}
    /\ budget = [b \in Budgets |-> Absent]
    /\ alerts = [k \in Keys |-> <<>>]
    /\ tx = [r \in Requests |-> Idle]
    /\ quiet = {}

Next ==
    \E r \in Requests :
        \/ \E batch \in SUBSET Events : BeginIngest(r, batch)
        \/ RecordUsage(r) \/ EvaluateBudgets(r) \/ CommitIngest(r) \/ Abort(r)
        \/ \E k \in Keys : \E i \in DOMAIN alerts[k], status \in {"acknowledged", "resolved"} :
               ReadAlert(r, k, i, status)
        \/ WriteAlert(r)
        \/ \E b \in Budgets : CreateBudget(r, b)
        \/ \E b \in Budgets, change \in Changes : ReadBudget(r, b, change)
        \/ WriteBudget(r)

Spec == Init /\ [][Next]_vars

-----------------------------------------------------------------------------
(***************************************************************************)
(* Properties.                                                             *)
(***************************************************************************)

Record == [event : Events, pricing_version : DOMAIN Rates \cup {Event[e].version : e \in Events},
           cost : Nat]

Batch == [pc : {"projecting", "evaluating"}, todo : SUBSET Events, accepted : SUBSET Events,
          rows : SUBSET Record, opened : SUBSET Keys]

Transaction ==
    {Idle} \cup Batch
      \cup [pc : {"writing"}, key : Keys, alert : Nat, status : {"acknowledged", "resolved"}]
      \cup [pc : {"editing"}, budget : Budgets, read : Row, change : Changes]

\* Every variable ranges over what the code can store.
TypeOK ==
    /\ journal \subseteq Events
    /\ usage \subseteq Record
    /\ budget \in [Budgets -> Row]
    /\ alerts \in [Keys -> Seq({"open", "acknowledged", "resolved"})]
    /\ tx \in [Requests -> Transaction]
    /\ quiet \subseteq Requests

\* Two records are of two event ids, and cover what was accepted.
Counts(accepted, rows) ==
    /\ \A e \in accepted : Recorded(rows, e)
    /\ \A u \in rows : u.event \in accepted
    /\ \A u, v \in rows : Event[u.event].id = Event[v.event].id => u = v

\* Whatever batches overlap, die or are sent again, an accepted usage event is
\* counted, once for all the agents that use its id, and nothing is counted that
\* the journal does not have: what /usage sums is what was ingested.
CountedOnce == Counts(journal, usage)

\* What makes it inductive: a batch has recorded what it accepted, itself or before
\* it; an operator writes an alert that exists.
BatchesCount ==
    \A r \in Requests :
        /\ tx[r].pc \in {"projecting", "evaluating"} =>
               /\ \A e \in tx[r].accepted : Recorded(usage \cup tx[r].rows, e)
               /\ \A u \in tx[r].rows : u.event \in tx[r].accepted
               /\ \A u, v \in tx[r].rows : Event[u.event].id = Event[v.event].id => u = v
        /\ tx[r].pc = "writing" => tx[r].alert \in DOMAIN alerts[tx[r].key]

UsageInv == TypeOK /\ CountedOnce /\ BatchesCount

\* A condition never has two alerts that are not resolved, neither when two
\* batches reach a threshold together, nor when an alert is acknowledged while
\* another operator resolves it and the condition is announced again.
OneActiveAlert ==
    \A k \in Keys : \A i, j \in DOMAIN alerts[k] :
        alerts[k][i] # "resolved" /\ alerts[k][j] # "resolved" => i = j

\* What a step of the alerts' frozen machine is: no key has more alerts, by MaxResolved
\* and the one active.
AlertLife == INSTANCE Lifecycle
             WITH Entities <- Keys \X (1..MaxResolved + 1),
                  States <- AlertStates,
                  Births <- {"open"},
                  Moves <- ALERT_TRANSITIONS,
                  state <- [a \in Keys \X (1..MaxResolved + 1) |->
                                IF a[2] \in DOMAIN alerts[a[1]] THEN alerts[a[1]][a[2]]
                                ELSE "absent"]

\* A request during which nothing else was committed moves the alerts along their
\* machine, among others that read what it has changed since and write over it.
AlertsMoveAlone ==
    [][\A r \in quiet : tx'[r] # tx[r] /\ alerts' # alerts => AlertLife!Next]_vars

\* After a batch during which nothing else was committed, every threshold that
\* the consumption has reached at the day of its last counted event has an
\* active alert: dedup hides no new crossing, the sum misses no own row.
NoticedAlone ==
    [][\A r \in quiet : \A e \in Events :
          Ingested(r) /\ tx[r].rows # {} /\ e = Latest(tx[r]) /\ usage' # usage /\ tx'[r] = Idle =>
          \A k \in Keys :
             /\ k.budget \in applicable_budgets(Event[e])
             /\ k.threshold \in thresholds(k.budget)
             /\ Reached(k.budget, usage, Event[e].day, k.threshold)'
             => Active(k)']_vars

\* The budgets that bind a command: those of the tenant, of its agent, of its project.
Binding(command) ==
    {b \in Budgets :
        /\ budget[b].status = "active"
        /\ \/ Scope[b].type = "installation"
           \/ Scope[b] = [type |-> "agent", id |-> command.agent]
           \/ Scope[b] = [type |-> "project", id |-> command.project] /\ command.project # "none"}

\* The gate of a command is as strict as the strictest of the budgets that bind it and
\* are exceeded, in whatever order the database lists them; a budget of another agent
\* or project neither blocks it nor holds it back.  The commands are those of the
\* agents and projects that events name.
GateIsStrictest ==
    \A day \in {Event[e].day : e \in Events} :
    \A command \in {Event[e] : e \in Events}, order \in SetToSeqs(Budgets) :
        LET asked == {budget[b].on_exceed :
                          b \in {c \in Binding(command) : Reached(c, usage, day, 100)}}
        IN  budget_gate(order, command, day) =
                IF "block_new_runs" \in asked THEN "block"
                ELSE IF "require_approval" \in asked THEN "require_approval" ELSE "allow"

=============================================================================
