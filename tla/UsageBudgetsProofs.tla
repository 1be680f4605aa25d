------------------------- MODULE UsageBudgetsProofs -------------------------
(***************************************************************************)
(* Usage, budgets and alerts for any number of events, budgets and         *)
(* requests: what is ingested is counted once, a condition has one active  *)
(* alert, a batch alone announces every threshold it reaches, and the gate *)
(* of a submission is the strictest.                                       *)
(***************************************************************************)
EXTENDS UsageBudgets, Orders, SequenceTheorems, FiniteSetTheorems, TLAPS

\* The cost of an event is a number, whatever its model and version.
LEMMA CostIsNat ==
    ASSUME NEW e \in Events
    PROVE  compute_cost(e) \in Record /\ compute_cost(e).event = e
<1> DEFINE version == IF Event[e].version = "none" THEN Current ELSE Event[e].version
           rate == Rate(version, Event[e].model)
<1>1. version \in DOMAIN Rates \cup {Event[f].version : f \in Events}
  BY UsageAssumption DEF UsageAssumption
<1>2. {rate.input, rate.output} \subseteq Nat
  <2> DEFINE list == IF version \in DOMAIN Rates THEN version ELSE Current
  <2>1. list \in DOMAIN Rates
    BY UsageAssumption DEF UsageAssumption
  <2> HIDE DEF version, list
  <2>2. (IF Event[e].model \in DOMAIN Rates[list] THEN Event[e].model ELSE "*")
            \in DOMAIN Rates[list]
    BY <2>1, UsageAssumption DEF UsageAssumption
  <2>3. rate = Rates[list][IF Event[e].model \in DOMAIN Rates[list] THEN Event[e].model ELSE "*"]
    BY DEF Rate, list
  <2> QED
    BY <2>1, <2>2, <2>3, UsageAssumption DEF UsageAssumption
<1>3. {Event[e].input, Event[e].output} \subseteq Nat
  BY UsageAssumption DEF UsageAssumption
<1>4. \A x, y \in Nat : x * y \in Nat
  OBVIOUS
<1>5. Event[e].input * rate.input + Event[e].output * rate.output \in Nat
  <2>1. Event[e].input * rate.input \in Nat /\ Event[e].output * rate.output \in Nat
    BY <1>2, <1>3, <1>4
  <2> QED
    BY <2>1
<1>6. compute_cost(e) = [event |-> e, pricing_version |-> version,
                         cost |-> Event[e].input * rate.input + Event[e].output * rate.output]
  BY DEF compute_cost
<1> HIDE DEF version, rate
<1> QED
  BY <1>1, <1>5, <1>6 DEF Record

\* What an edit leaves is a row, whatever was written since it read.
LEMMA PatchedIsRow ==
    ASSUME NEW row \in Row, NEW read \in Row, NEW change \in Changes
    PROVE  Patched(row, read, change) \in Row
<1> DEFINE f == Patched(row, read, change)
<1>1. DOMAIN row = {"status", "version", "amount_limit", "period", "thresholds", "on_exceed"}
  BY DEF Row
<1>2. f = [c \in {"status", "version", "amount_limit", "period", "thresholds", "on_exceed"} |->
              IF c = "version" THEN read.version + 1
              ELSE IF c \in DOMAIN change /\ change[c] # read[c] THEN change[c]
              ELSE row[c]]
  BY <1>1 DEF Patched
<1>3. \A c \in DOMAIN change : change[c] \in Column[c]
  BY UsageAssumption DEF UsageAssumption
<1> HIDE DEF f
<1>4. f["version"] \in Nat
  BY <1>2 DEF Row
<1>5. f["status"] \in {"absent", "active", "paused"}
  BY <1>2, <1>3 DEF Row, Column
<1>6. f["amount_limit"] \in Nat
  BY <1>2, <1>3 DEF Row, Column
<1>7. f["period"] \in {"daily", "weekly", "monthly", "total"}
  BY <1>2, <1>3 DEF Row, Column
<1>8. f["thresholds"] \in SUBSET Thresholds
  BY <1>2, <1>3 DEF Row, Column
<1>9. f["on_exceed"] \in {"alert", "require_approval", "block_new_runs"}
  BY <1>2, <1>3 DEF Row, Column
<1>10. f = [c \in {"status", "version", "amount_limit", "period", "thresholds", "on_exceed"} |-> f[c]]
  BY <1>2
<1> QED
  BY <1>4, <1>5, <1>6, <1>7, <1>8, <1>9, <1>10 DEF Row, f

\* The next event of a batch is one of those it has to handle.
LEMMA NextIsTodo ==
    ASSUME NEW S \in SUBSET Events, S # {}
    PROVE  Min(S) \in S
<1>1. S \in SUBSET Nat
  BY UsageAssumption DEF UsageAssumption
<1>2. \E n \in S : \A m \in S : n <= m
  BY <1>1, LeastNumber
<1> QED
  BY <1>2 DEF Min

LEMMA InitUsage == Init => UsageInv
<1> SUFFICES ASSUME Init PROVE UsageInv
  OBVIOUS
<1>1. Absent \in Row
  BY DEF Absent, Row
<1>2. TypeOK
  BY <1>1 DEF Init, TypeOK, Transaction
<1>3. CountedOnce /\ BatchesCount
  BY DEF Init, CountedOnce, Counts, BatchesCount, Idle
<1> QED
  BY <1>2, <1>3 DEF UsageInv

\* Recording more keeps what is recorded.
LEMMA RecordedMore ==
    ASSUME NEW rows, NEW more, rows \subseteq more, NEW e, Recorded(rows, e)
    PROVE  Recorded(more, e)
BY DEF Recorded

\* A request enters, goes on or dies: the tables stay.
LEMMA RequestStep ==
    ASSUME UsageInv, NEW r \in Requests, NEW t \in Transaction,
           tx' = [tx EXCEPT ![r] = t], quiet' \subseteq Requests,
           UNCHANGED <<journal, usage, budget, alerts>>,
           t.pc \in {"projecting", "evaluating"} =>
               /\ \A e \in t.accepted : Recorded(usage \cup t.rows, e)
               /\ \A u \in t.rows : u.event \in t.accepted
               /\ \A u, v \in t.rows : Event[u.event].id = Event[v.event].id => u = v,
           t.pc = "writing" => t.alert \in DOMAIN alerts[t.key]
    PROVE  UsageInv'
<1>1. TypeOK'
  BY DEF UsageInv, TypeOK
<1>2. CountedOnce'
  BY DEF UsageInv, CountedOnce, Counts, Recorded
<1>3. \A q \in Requests : tx'[q] = IF q = r THEN t ELSE tx[q]
  BY DEF UsageInv, TypeOK
<1>4. BatchesCount'
  BY <1>3 DEF UsageInv, BatchesCount, Recorded
<1> QED
  BY <1>1, <1>2, <1>4 DEF UsageInv

\* A commit: the tables only gain records and alerts.
LEMMA CommitStep ==
    ASSUME UsageInv, NEW r \in Requests, Commit(r),
           journal' \subseteq Events, usage \subseteq usage', usage' \subseteq Record,
           budget' \in [Budgets -> Row],
           alerts' \in [Keys -> Seq({"open", "acknowledged", "resolved"})],
           \A k \in Keys : DOMAIN alerts[k] \subseteq DOMAIN alerts'[k],
           CountedOnce'
    PROVE  UsageInv'
<1>1. tx' = [tx EXCEPT ![r] = Idle] /\ quiet' = {}
  BY DEF Commit
<1>2. TypeOK'
  BY <1>1 DEF UsageInv, TypeOK, Transaction
<1>3. \A q \in Requests : tx'[q] = IF q = r THEN Idle ELSE tx[q]
  BY <1>1 DEF UsageInv, TypeOK
<1>4. ASSUME NEW q \in Requests, q # r, tx[q].pc = "writing" PROVE tx[q].key \in Keys
  BY SMTT(60), <1>4 DEF UsageInv, TypeOK, Transaction, Batch, Idle
<1>5. ASSUME NEW q \in Requests, q # r, NEW e, Recorded(usage \cup tx[q].rows, e)
      PROVE  Recorded(usage' \cup tx[q].rows, e)
  BY <1>5, RecordedMore
<1>6. BatchesCount'
  <2> SUFFICES ASSUME NEW q \in Requests
               PROVE  /\ tx'[q].pc \in {"projecting", "evaluating"} =>
                             /\ \A e \in tx'[q].accepted : Recorded(usage' \cup tx'[q].rows, e)
                             /\ \A u \in tx'[q].rows : u.event \in tx'[q].accepted
                             /\ \A u, v \in tx'[q].rows :
                                    Event[u.event].id = Event[v.event].id => u = v
                      /\ tx'[q].pc = "writing" => tx'[q].alert \in DOMAIN alerts'[tx'[q].key]
    BY DEF BatchesCount, Recorded
  <2>1. CASE q = r
    BY <1>3, <2>1 DEF Idle
  <2>2. CASE q # r
    BY <1>3, <1>4, <1>5, <2>2 DEF UsageInv, BatchesCount
  <2> QED
    BY <2>1, <2>2
<1> QED
  BY <1>2, <1>6 DEF UsageInv

LEMMA RecordStep ==
    ASSUME UsageInv, NEW r \in Requests, RecordUsage(r)
    PROVE  UsageInv'
<1> DEFINE t == tx[r]
           e == Min(t.todo)
           accepted == [t EXCEPT !.todo = @ \ {e}, !.accepted = @ \cup {e}]
           evaluating == [accepted EXCEPT !.pc = "evaluating", !.rows = @ \cup {compute_cost(e)}]
<1>1. t \in Batch /\ t.pc = "projecting" /\ t.todo # {}
  BY DEF RecordUsage, UsageInv, TypeOK, Transaction, Idle
<1>2. t.todo \in SUBSET Events /\ t.rows \in SUBSET Record /\ t.accepted \in SUBSET Events
  BY <1>1 DEF Batch
<1>3. e \in Events
  BY <1>1, <1>2, NextIsTodo
<1>4. compute_cost(e) \in Record /\ compute_cost(e).event = e
  BY <1>3, CostIsNat
<1>5. /\ \A f \in t.accepted : Recorded(usage \cup t.rows, f)
      /\ \A u \in t.rows : u.event \in t.accepted
      /\ \A u, v \in t.rows : Event[u.event].id = Event[v.event].id => u = v
  BY <1>1 DEF UsageInv, BatchesCount
<1>6. UNCHANGED <<journal, usage, budget, alerts, quiet>>
  BY DEF RecordUsage, Step
<1>7. quiet' \subseteq Requests
  BY <1>6 DEF UsageInv, TypeOK
<1> HIDE DEF e
<1>8. CASE Recorded(usage \cup t.rows, e)
  <2>1. tx' = [tx EXCEPT ![r] = accepted]
    BY <1>8 DEF RecordUsage, Step, e
  <2>2. /\ accepted \in Batch /\ accepted.pc = "projecting"
        /\ accepted.accepted = t.accepted \cup {e} /\ accepted.rows = t.rows
    BY <1>1, <1>2, <1>3 DEF Batch
  <2>3. accepted \in Transaction
    BY <2>2 DEF Transaction
  <2>4. /\ \A f \in accepted.accepted : Recorded(usage \cup accepted.rows, f)
        /\ \A u \in accepted.rows : u.event \in accepted.accepted
        /\ \A u, v \in accepted.rows : Event[u.event].id = Event[v.event].id => u = v
    BY <1>5, <1>8, <2>2
  <2> HIDE DEF accepted
  <2> QED
    BY <1>6, <1>7, <2>1, <2>2, <2>3, <2>4, RequestStep
<1>9. CASE ~Recorded(usage \cup t.rows, e)
  <2>1. tx' = [tx EXCEPT ![r] = evaluating]
    BY <1>9 DEF RecordUsage, Step, e
  <2>2. /\ evaluating \in Batch /\ evaluating.pc = "evaluating"
        /\ evaluating.accepted = t.accepted \cup {e}
        /\ evaluating.rows = t.rows \cup {compute_cost(e)}
    BY <1>1, <1>2, <1>3, <1>4 DEF Batch
  <2>3. evaluating \in Transaction
    BY <2>2 DEF Transaction
  <2>4. \A f \in evaluating.accepted : Recorded(usage \cup evaluating.rows, f)
    BY <1>4, <1>5, <2>2 DEF Recorded
  <2>5. \A u \in evaluating.rows : u.event \in evaluating.accepted
    BY <1>4, <1>5, <2>2
  <2>6. \A u, v \in evaluating.rows : Event[u.event].id = Event[v.event].id => u = v
    BY <1>4, <1>5, <1>9, <2>2 DEF Recorded
  <2> HIDE DEF evaluating
  <2> QED
    BY <1>6, <1>7, <2>1, <2>2, <2>3, <2>4, <2>5, <2>6, RequestStep
<1> QED
  BY <1>8, <1>9

LEMMA EvaluateStep ==
    ASSUME UsageInv, NEW r \in Requests, EvaluateBudgets(r)
    PROVE  UsageInv'
<1> DEFINE t == tx[r]
           done == [t EXCEPT !.pc = "projecting", !.opened = @ \cup Crossed(t, Latest(t))]
<1>1. t \in Batch /\ t.pc = "evaluating"
  BY DEF EvaluateBudgets, UsageInv, TypeOK, Transaction, Idle
<1>2. Crossed(t, Latest(t)) \subseteq Keys
  BY DEF Crossed
<1>3. tx' = [tx EXCEPT ![r] = done] /\ UNCHANGED <<journal, usage, budget, alerts, quiet>>
  BY DEF EvaluateBudgets, Step
<1>4. /\ done \in Batch /\ done.pc = "projecting"
      /\ done.accepted = t.accepted /\ done.rows = t.rows
  BY <1>1, <1>2 DEF Batch
<1>5. done \in Transaction /\ quiet' \subseteq Requests
  BY <1>3, <1>4 DEF Transaction, UsageInv, TypeOK
<1>6. /\ \A e \in done.accepted : Recorded(usage \cup done.rows, e)
      /\ \A u \in done.rows : u.event \in done.accepted
      /\ \A u, v \in done.rows : Event[u.event].id = Event[v.event].id => u = v
  BY <1>1, <1>4 DEF UsageInv, BatchesCount
<1> HIDE DEF done
<1> QED
  BY <1>3, <1>4, <1>5, <1>6, RequestStep

LEMMA CommitIngestStep ==
    ASSUME UsageInv, NEW r \in Requests, CommitIngest(r)
    PROVE  UsageInv'
<1> DEFINE t == tx[r]
<1>1. t \in Batch /\ t.pc = "projecting" /\ ~Conflict(t)
  BY DEF CommitIngest, Ingested, UsageInv, TypeOK, Transaction, Idle
<1>2. /\ journal' = journal \cup t.accepted /\ usage' = usage \cup t.rows
      /\ alerts' = [k \in Keys |->
             IF k \in t.opened THEN Append(alerts[k], "open") ELSE alerts[k]]
      /\ Commit(r) /\ budget' = budget
  BY DEF CommitIngest
<1>3. /\ journal' \subseteq Events /\ usage \subseteq usage' /\ usage' \subseteq Record
      /\ budget' \in [Budgets -> Row]
  BY <1>1, <1>2 DEF Batch, UsageInv, TypeOK
<1>4. ASSUME NEW k \in Keys
      PROVE  /\ alerts'[k] \in Seq({"open", "acknowledged", "resolved"})
             /\ DOMAIN alerts[k] \subseteq DOMAIN alerts'[k]
  BY <1>2 DEF UsageInv, TypeOK
<1>5. alerts' \in [Keys -> Seq({"open", "acknowledged", "resolved"})]
  BY <1>2, <1>4
<1>6. CountedOnce'
  <2>1. /\ \A e \in t.accepted : Recorded(usage \cup t.rows, e)
        /\ \A u \in t.rows : u.event \in t.accepted
        /\ \A u, v \in t.rows : Event[u.event].id = Event[v.event].id => u = v
    BY <1>1 DEF UsageInv, BatchesCount
  <2>2. \A u \in t.rows, v \in usage : Event[u.event].id # Event[v.event].id
    BY <1>1 DEF Conflict, Recorded
  <2>3. Counts(journal \cup t.accepted, usage \cup t.rows)
    BY <2>1, <2>2, RecordedMore DEF UsageInv, CountedOnce, Counts
  <2> QED
    BY <1>2, <2>3 DEF CountedOnce, Counts, Recorded
<1> QED
  BY <1>2, <1>3, <1>4, <1>5, <1>6, CommitStep

\* Requests that read and enter, or die.
LEMMA EnterStep ==
    ASSUME UsageInv, NEW r \in Requests,
           \/ \E batch \in SUBSET Events : BeginIngest(r, batch)
           \/ \E k \in Keys : \E i \in DOMAIN alerts[k], status \in {"acknowledged", "resolved"} :
                  ReadAlert(r, k, i, status)
           \/ \E b \in Budgets, change \in Changes : ReadBudget(r, b, change)
           \/ Abort(r)
    PROVE  UsageInv'
<1>1. ASSUME NEW batch \in SUBSET Events, BeginIngest(r, batch) PROVE UsageInv'
  <2> DEFINE t == [pc |-> "projecting", todo |-> batch \ journal, accepted |-> {},
                   rows |-> {}, opened |-> {}]
  <2>1. t \in Transaction /\ t.pc = "projecting" /\ t.accepted = {} /\ t.rows = {}
    BY DEF Transaction, Batch
  <2>2. /\ tx' = [tx EXCEPT ![r] = t] /\ quiet' \subseteq Requests
        /\ UNCHANGED <<journal, usage, budget, alerts>>
    BY <1>1 DEF BeginIngest, Begin, UsageInv, TypeOK
  <2> HIDE DEF t
  <2> QED
    BY <2>1, <2>2, RequestStep
<1>2. ASSUME NEW k \in Keys, NEW i \in DOMAIN alerts[k],
             NEW status \in {"acknowledged", "resolved"}, ReadAlert(r, k, i, status)
      PROVE  UsageInv'
  <2> DEFINE t == [pc |-> "writing", key |-> k, alert |-> i, status |-> status]
  <2>1. i \in Nat
    BY DEF UsageInv, TypeOK
  <2>2. t \in Transaction /\ t.pc = "writing" /\ t.alert \in DOMAIN alerts[t.key]
    BY <2>1 DEF Transaction
  <2>3. /\ tx' = [tx EXCEPT ![r] = t] /\ quiet' \subseteq Requests
        /\ UNCHANGED <<journal, usage, budget, alerts>>
    BY <1>2 DEF ReadAlert, Begin, UsageInv, TypeOK
  <2> HIDE DEF t
  <2> QED
    BY <2>2, <2>3, RequestStep
<1>3. ASSUME NEW b \in Budgets, NEW change \in Changes, ReadBudget(r, b, change)
      PROVE  UsageInv'
  <2> DEFINE t == [pc |-> "editing", budget |-> b, read |-> budget[b], change |-> change]
  <2>1. t \in Transaction /\ t.pc = "editing"
    BY DEF Transaction, UsageInv, TypeOK
  <2>2. /\ tx' = [tx EXCEPT ![r] = t] /\ quiet' \subseteq Requests
        /\ UNCHANGED <<journal, usage, budget, alerts>>
    BY <1>3 DEF ReadBudget, Begin, UsageInv, TypeOK
  <2> HIDE DEF t
  <2> QED
    BY <2>1, <2>2, RequestStep
<1>4. CASE Abort(r)
  <2>1. Idle \in Transaction /\ Idle.pc = "idle"
    BY DEF Transaction, Idle
  <2>2. /\ tx' = [tx EXCEPT ![r] = Idle] /\ quiet' \subseteq Requests
        /\ UNCHANGED <<journal, usage, budget, alerts>>
    BY <1>4 DEF Abort, UsageInv, TypeOK
  <2> QED
    BY <2>1, <2>2, RequestStep
<1> QED
  BY <1>1, <1>2, <1>3, <1>4

\* What the write of an operator leaves of the alerts.
LEMMA WriteAlertFacts ==
    ASSUME UsageInv, NEW r \in Requests, WriteAlert(r)
    PROVE  /\ tx[r].key \in Keys /\ tx[r].alert \in DOMAIN alerts[tx[r].key]
           /\ tx[r].status \in {"acknowledged", "resolved"}
           /\ alerts' = [alerts EXCEPT ![tx[r].key] =
                             [alerts[tx[r].key] EXCEPT ![tx[r].alert] = tx[r].status]]
<1>1. /\ tx[r].key \in Keys /\ tx[r].status \in {"acknowledged", "resolved"}
      /\ tx[r].pc = "writing"
  BY DEF WriteAlert, UsageInv, TypeOK, Transaction, Batch, Idle
<1> QED
  BY <1>1 DEF WriteAlert, UsageInv, BatchesCount

LEMMA OperatorStep ==
    ASSUME UsageInv, NEW r \in Requests,
           WriteAlert(r) \/ WriteBudget(r) \/ \E b \in Budgets : CreateBudget(r, b)
    PROVE  UsageInv'
<1>1. CASE WriteAlert(r)
  <2>1. Commit(r) /\ UNCHANGED <<journal, usage, budget>>
    BY <1>1 DEF WriteAlert
  <2>2. /\ journal' \subseteq Events /\ usage \subseteq usage' /\ usage' \subseteq Record
        /\ budget' \in [Budgets -> Row] /\ CountedOnce'
    BY <2>1 DEF UsageInv, TypeOK, CountedOnce, Counts, Recorded
  <2>3. ASSUME NEW k \in Keys
        PROVE  /\ alerts'[k] \in Seq({"open", "acknowledged", "resolved"})
               /\ DOMAIN alerts[k] \subseteq DOMAIN alerts'[k]
    <3>1. alerts[k] \in Seq({"open", "acknowledged", "resolved"})
      BY DEF UsageInv, TypeOK
    <3>2. alerts'[k] = IF k = tx[r].key THEN [alerts[k] EXCEPT ![tx[r].alert] = tx[r].status]
                       ELSE alerts[k]
      <4>1. alerts' = [alerts EXCEPT ![tx[r].key] =
                           [alerts[tx[r].key] EXCEPT ![tx[r].alert] = tx[r].status]]
        BY <1>1, WriteAlertFacts
      <4>2. alerts \in [Keys -> Seq({"open", "acknowledged", "resolved"})]
        BY DEF UsageInv, TypeOK
      <4> QED
        BY <4>1, <4>2, Zenon
    <3> QED
      BY <1>1, <3>1, <3>2, WriteAlertFacts
  <2>4. alerts' \in [Keys -> Seq({"open", "acknowledged", "resolved"})]
    BY <1>1, <2>3, WriteAlertFacts DEF UsageInv, TypeOK
  <2> QED
    BY <2>1, <2>2, <2>3, <2>4, CommitStep
<1>2. CASE WriteBudget(r) \/ \E b \in Budgets : CreateBudget(r, b)
  <2>1. Commit(r) /\ UNCHANGED <<journal, usage, alerts>>
    BY <1>2 DEF WriteBudget, CreateBudget
  <2>2. budget' \in [Budgets -> Row]
    <3>1. CASE WriteBudget(r)
      <4>1. /\ tx[r].budget \in Budgets /\ tx[r].read \in Row /\ tx[r].change \in Changes
            /\ budget' = [budget EXCEPT ![tx[r].budget] =
                              Patched(budget[tx[r].budget], tx[r].read, tx[r].change)]
        BY <3>1 DEF WriteBudget, UsageInv, TypeOK, Transaction, Batch, Idle
      <4>2. budget[tx[r].budget] \in Row
        BY <4>1 DEF UsageInv, TypeOK
      <4>3. Patched(budget[tx[r].budget], tx[r].read, tx[r].change) \in Row
        BY <4>1, <4>2, PatchedIsRow
      <4> QED
        BY <4>1, <4>3 DEF UsageInv, TypeOK
    <3>2. CASE \E b \in Budgets : CreateBudget(r, b)
      BY <3>2, UsageAssumption DEF UsageAssumption, CreateBudget, UsageInv, TypeOK
    <3> QED
      BY <1>2, <3>1, <3>2
  <2>3. /\ journal' \subseteq Events /\ usage \subseteq usage' /\ usage' \subseteq Record
        /\ alerts' \in [Keys -> Seq({"open", "acknowledged", "resolved"})]
        /\ \A k \in Keys : DOMAIN alerts[k] \subseteq DOMAIN alerts'[k]
        /\ CountedOnce'
    BY <2>1 DEF UsageInv, TypeOK, CountedOnce, Counts, Recorded
  <2> QED
    BY <2>1, <2>2, <2>3, CommitStep
<1> QED
  BY <1>1, <1>2

LEMMA NextUsage == UsageInv /\ [Next]_vars => UsageInv'
<1> SUFFICES ASSUME UsageInv, [Next]_vars PROVE UsageInv'
  OBVIOUS
<1>1. CASE UNCHANGED vars
  BY <1>1 DEF vars, UsageInv, TypeOK, CountedOnce, Counts, BatchesCount, Recorded
<1>2. CASE Next
  BY <1>2, EnterStep, RecordStep, EvaluateStep, CommitIngestStep, OperatorStep DEF Next
<1> QED
  BY <1>1, <1>2

\* What /usage sums is what was ingested: for every set of events, budgets and
\* requests, an accepted usage event is counted, and once.
THEOREM UsageCounted == Spec => []UsageInv
<1> QED
  BY InitUsage, NextUsage, PTL DEF Spec

LEMMA NextAlerts == UsageInv /\ OneActiveAlert /\ [Next]_vars => OneActiveAlert'
<1> SUFFICES ASSUME UsageInv, OneActiveAlert, [Next]_vars PROVE OneActiveAlert'
  OBVIOUS
<1>1. ASSUME UNCHANGED alerts PROVE OneActiveAlert'
  BY <1>1 DEF OneActiveAlert
<1>2. ASSUME NEW r \in Requests, CommitIngest(r) PROVE OneActiveAlert'
  <2> SUFFICES ASSUME NEW k \in Keys, NEW i \in DOMAIN alerts'[k], NEW j \in DOMAIN alerts'[k],
                      alerts'[k][i] # "resolved", alerts'[k][j] # "resolved"
               PROVE  i = j
    BY DEF OneActiveAlert
  <2>1. alerts[k] \in Seq({"open", "acknowledged", "resolved"})
    BY DEF UsageInv, TypeOK
  <2>2. alerts'[k] = IF k \in tx[r].opened THEN Append(alerts[k], "open") ELSE alerts[k]
    BY <1>2 DEF CommitIngest
  <2>3. CASE k \in tx[r].opened
    <3>1. \A n \in DOMAIN alerts[k] : alerts[k][n] = "resolved"
      BY <1>2, <2>3 DEF CommitIngest, Ingested, Conflict, Active
    <3>2. alerts'[k] = Append(alerts[k], "open")
      BY <2>2, <2>3
    <3>3. \A n \in DOMAIN alerts'[k] : n # Len(alerts[k]) + 1 => alerts'[k][n] = "resolved"
      BY <2>1, <3>1, <3>2
    <3> QED
      BY <3>3
  <2>4. CASE k \notin tx[r].opened
    BY <2>2, <2>4 DEF OneActiveAlert
  <2> QED
    BY <2>3, <2>4
<1>3. ASSUME NEW r \in Requests, WriteAlert(r) PROVE OneActiveAlert'
  <2> DEFINE key == tx[r].key
             alert == tx[r].alert
  <2>1. /\ key \in Keys /\ alert \in DOMAIN alerts[key]
        /\ tx[r].status \in {"acknowledged", "resolved"}
        /\ alerts' = [alerts EXCEPT ![key] = [alerts[key] EXCEPT ![alert] = tx[r].status]]
    BY <1>3, WriteAlertFacts
  <2>2. /\ tx[r].status # "resolved" /\ alerts[key][alert] = "resolved"
               => \A n \in DOMAIN alerts[key] : alerts[key][n] = "resolved"
    BY <1>3 DEF WriteAlert, Clashes, Active
  <2> HIDE DEF key, alert
  <2> SUFFICES ASSUME NEW k \in Keys, NEW i \in DOMAIN alerts'[k], NEW j \in DOMAIN alerts'[k],
                      alerts'[k][i] # "resolved", alerts'[k][j] # "resolved"
               PROVE  i = j
    BY DEF OneActiveAlert
  <2>3. CASE k # key
    BY <2>1, <2>3 DEF OneActiveAlert, UsageInv, TypeOK
  <2>4. CASE k = key
    <3>1. /\ DOMAIN alerts'[k] = DOMAIN alerts[k]
          /\ \A n \in DOMAIN alerts[k] :
                 alerts'[k][n] = IF n = alert THEN tx[r].status ELSE alerts[k][n]
      <4>1. alerts'[k] = [alerts[k] EXCEPT ![alert] = tx[r].status]
        BY <2>1, <2>4 DEF UsageInv, TypeOK
      <4>2. alerts[k] \in Seq({"open", "acknowledged", "resolved"})
        BY DEF UsageInv, TypeOK
      <4> QED
        BY <4>1, <4>2
    <3>2. \A m, n \in DOMAIN alerts[k] :
              alerts[k][m] # "resolved" /\ alerts[k][n] # "resolved" => m = n
      BY DEF OneActiveAlert
    <3> QED
      BY <2>1, <2>2, <2>4, <3>1, <3>2
  <2> QED
    BY <2>3, <2>4
<1>4. \/ UNCHANGED alerts
      \/ \E r \in Requests : CommitIngest(r) \/ WriteAlert(r)
  BY DEF Next, BeginIngest, RecordUsage, EvaluateBudgets, Abort, ReadAlert, CreateBudget,
     ReadBudget, WriteBudget, vars
<1> QED
  BY <1>1, <1>2, <1>3, <1>4

\* A condition has at most one alert that is not resolved, for every set of budgets
\* and thresholds and however many batches and operators overlap.
THEOREM AlertsKeptApart == Spec => []OneActiveAlert
<1>1. Init => OneActiveAlert
  BY DEF Init, OneActiveAlert
<1> QED
  BY <1>1, NextAlerts, UsageCounted, PTL DEF Spec

-----------------------------------------------------------------------------
\* The machine of the alerts, among operators that may write one alert at once.

\* Alerts are opened, and those there are move along the machine.
AlertsAdvance ==
    \A k \in Keys :
        /\ \A i \in DOMAIN alerts[k] :
               /\ i \in DOMAIN alerts'[k]
               /\ alerts'[k][i] = alerts[k][i] \/ <<alerts[k][i], alerts'[k][i]>> \in ALERT_TRANSITIONS
        /\ \A i \in DOMAIN alerts'[k] \ DOMAIN alerts[k] : alerts'[k][i] = "open"

\* A request that writes names an alert that exists.
LEMMA WritingTyped ==
    ASSUME UsageInv, NEW r \in Requests, tx[r].pc = "writing"
    PROVE  tx[r].key \in Keys /\ tx[r].alert \in DOMAIN alerts[tx[r].key]
<1>1. tx[r] \in Transaction
  BY DEF UsageInv, TypeOK
<1>2. tx[r] \in [pc : {"writing"}, key : Keys, alert : Nat, status : {"acknowledged", "resolved"}]
  BY <1>1 DEF Transaction, Batch, Idle
<1> QED
  BY <1>2 DEF UsageInv, BatchesCount

\* A batch appends the alerts it opens.
LEMMA OpeningAdvances ==
    ASSUME UsageInv, NEW r \in Requests, CommitIngest(r)
    PROVE  /\ AlertsAdvance
           /\ \A k \in Keys : \A i \in DOMAIN alerts[k] : alerts'[k][i] = alerts[k][i]
<1>1. /\ tx' = [tx EXCEPT ![r] = Idle] /\ Idle.pc # "writing"
      /\ \A k \in Keys : alerts'[k] = IF k \in tx[r].opened THEN Append(alerts[k], "open")
                                      ELSE alerts[k]
  BY DEF CommitIngest, Commit, Idle
<1>2. ASSUME NEW k \in Keys
      PROVE  /\ \A i \in DOMAIN alerts[k] : i \in DOMAIN alerts'[k] /\ alerts'[k][i] = alerts[k][i]
             /\ \A i \in DOMAIN alerts'[k] \ DOMAIN alerts[k] : alerts'[k][i] = "open"
  <2>1. alerts[k] \in Seq({"open", "acknowledged", "resolved"})
    BY DEF UsageInv, TypeOK
  <2>2. CASE k \in tx[r].opened
    <3>1. alerts'[k] = Append(alerts[k], "open")
      BY <1>1, <2>2
    <3> QED
      BY <2>1, <3>1
  <2>3. CASE k \notin tx[r].opened
    BY <1>1, <2>3
  <2> QED
    BY <2>2, <2>3
<1>3. AlertsAdvance
  BY <1>2 DEF AlertsAdvance
<1> QED
  BY <1>2, <1>3

\* An operator whose reading of the alert still holds moves it along the machine,
\* and no other alert.
LEMMA WritingAdvances ==
    ASSUME UsageInv, NEW r \in Requests, WriteAlert(r),
           alerts[tx[r].key][tx[r].alert] \in Required(tx[r].status)
    PROVE  /\ AlertsAdvance
           /\ \A k \in Keys : \A i \in DOMAIN alerts[k] :
                  <<k, i>> # <<tx[r].key, tx[r].alert>> => alerts'[k][i] = alerts[k][i]
<1> DEFINE key == tx[r].key
           alert == tx[r].alert
           status == tx[r].status
<1>1. /\ key \in Keys /\ alert \in DOMAIN alerts[key]
      /\ status \in {"acknowledged", "resolved"}
      /\ alerts' = [alerts EXCEPT ![key] = [alerts[key] EXCEPT ![alert] = status]]
  BY WriteAlertFacts
<1>2. alerts[key][alert] \in Required(status)
  OBVIOUS
<1> HIDE DEF key, alert, status
<1>3. <<alerts[key][alert], status>> \in ALERT_TRANSITIONS
  BY <1>1, <1>2 DEF Required, ALERT_TRANSITIONS, Arrows
<1>4. ASSUME NEW k \in Keys
      PROVE  /\ DOMAIN alerts'[k] = DOMAIN alerts[k]
             /\ \A i \in DOMAIN alerts[k] :
                    alerts'[k][i] = IF k = key /\ i = alert THEN status ELSE alerts[k][i]
  <2>1. alerts[k] \in Seq({"open", "acknowledged", "resolved"})
        /\ DOMAIN alerts = Keys
    BY DEF UsageInv, TypeOK
  <2>2. CASE k = key
    <3>1. alerts'[k] = [alerts[k] EXCEPT ![alert] = status]
      BY <1>1, <2>1, <2>2
    <3> QED
      BY <2>1, <2>2, <3>1
  <2>3. CASE k # key
    BY <1>1, <2>1, <2>3
  <2> QED
    BY <2>2, <2>3
<1>5. AlertsAdvance
  BY <1>3, <1>4 DEF AlertsAdvance
<1>6. \A k \in Keys : \A i \in DOMAIN alerts[k] :
          <<k, i>> # <<key, alert>> => alerts'[k][i] = alerts[k][i]
  BY <1>4
<1> QED
  BY <1>5, <1>6 DEF key, alert

\* A batch that goes on is still a batch.
LEMMA ProjectingGoesOn ==
    ASSUME UsageInv, NEW r \in Requests, RecordUsage(r) \/ EvaluateBudgets(r)
    PROVE  \E t : tx' = [tx EXCEPT ![r] = t] /\ t.pc # "writing"
<1>1. tx[r] \in Batch
  BY DEF RecordUsage, EvaluateBudgets, UsageInv, TypeOK, Transaction, Idle
<1>2. CASE RecordUsage(r)
  <2>1. PICK todo, accepted, pc, rows :
          /\ tx' = [tx EXCEPT ![r] = [tx[r] EXCEPT !.todo = todo, !.accepted = accepted,
                                                  !.pc = pc, !.rows = rows]]
          /\ pc \in {"projecting", "evaluating"}
    <3> DEFINE Picked(p, q) ==
          tx' = [tx EXCEPT ![r] = [tx[r] EXCEPT
                    !.todo = @ \ {Min(tx[r].todo)}, !.accepted = @ \cup {Min(tx[r].todo)},
                    !.pc = p, !.rows = q]]
    <3>1. CASE tx' = [tx EXCEPT ![r] = [tx[r] EXCEPT
                    !.todo = @ \ {Min(tx[r].todo)}, !.accepted = @ \cup {Min(tx[r].todo)}]]
      <4>1. [tx[r] EXCEPT !.todo = @ \ {Min(tx[r].todo)},
                          !.accepted = @ \cup {Min(tx[r].todo)}]
            = [tx[r] EXCEPT !.todo = @ \ {Min(tx[r].todo)},
                            !.accepted = @ \cup {Min(tx[r].todo)},
                            !.pc = tx[r].pc, !.rows = tx[r].rows]
        BY <1>1 DEF Batch
      <4>2. Picked(tx[r].pc, tx[r].rows)
        BY <3>1, <4>1
      <4> QED
        BY <1>1, <4>2 DEF Batch
    <3>2. CASE \E rows : Picked("evaluating", rows)
      BY <3>2
    <3> QED
      BY <1>2, <3>1, <3>2 DEF RecordUsage, Step
  <2> DEFINE u == [tx[r] EXCEPT !.todo = todo, !.accepted = accepted, !.pc = pc, !.rows = rows]
  <2>2. tx' = [tx EXCEPT ![r] = u] /\ u.pc = pc
    BY <1>1, <2>1 DEF Batch
  <2> HIDE DEF u
  <2> QED
    BY <2>1, <2>2
<1>3. CASE EvaluateBudgets(r)
  <2>1. PICK opened : tx' = [tx EXCEPT ![r] = [tx[r] EXCEPT !.pc = "projecting", !.opened = opened]]
    BY <1>3 DEF EvaluateBudgets, Step
  <2> DEFINE u == [tx[r] EXCEPT !.pc = "projecting", !.opened = opened]
  <2>2. tx' = [tx EXCEPT ![r] = u] /\ u.pc = "projecting"
    BY <1>1, <2>1 DEF Batch
  <2> HIDE DEF u
  <2> QED
    BY <2>2
<1> QED
  BY <1>2, <1>3
\* Alerts that are opened and move along the machine are a step of the lifecycle.
LEMMA AlertLifeStep ==
    ASSUME UsageInv, UsageInv', AlertsAdvance
    PROVE  AlertLife!Next
<1> DEFINE Alerts == Keys \X (1..MaxResolved + 1)
           state == [a \in Alerts |-> IF a[2] \in DOMAIN alerts[a[1]] THEN alerts[a[1]][a[2]]
                                      ELSE "absent"]
<1>1. ASSUME NEW a \in Alerts
      PROVE  state'[a] \in AlertStates \cup {"absent"} /\ AlertLife!Advances(state[a], state'[a])
  <2>1. /\ a[1] \in Keys
        /\ alerts[a[1]] \in Seq({"open", "acknowledged", "resolved"})
        /\ alerts'[a[1]] \in Seq({"open", "acknowledged", "resolved"})
    BY DEF UsageInv, TypeOK
  <2>2. CASE a[2] \in DOMAIN alerts[a[1]]
    <3>1. /\ a[2] \in DOMAIN alerts'[a[1]]
          /\ state[a] = alerts[a[1]][a[2]] /\ state'[a] = alerts'[a[1]][a[2]]
          /\ state'[a] = state[a] \/ <<state[a], state'[a]>> \in ALERT_TRANSITIONS
      BY <2>1, <2>2 DEF AlertsAdvance
    <3> QED
      BY <2>1, <3>1 DEF AlertStates, AlertLife!Advances
  <2>3. CASE a[2] \notin DOMAIN alerts[a[1]] /\ a[2] \in DOMAIN alerts'[a[1]]
    <3>1. state[a] = "absent" /\ state'[a] = "open"
      BY <2>1, <2>3 DEF AlertsAdvance
    <3> QED
      BY <3>1 DEF AlertStates, AlertLife!Advances
  <2>4. CASE a[2] \notin DOMAIN alerts[a[1]] /\ a[2] \notin DOMAIN alerts'[a[1]]
    BY <2>4 DEF AlertLife!Advances
  <2> QED
    BY <2>2, <2>3, <2>4
<1>2. state' \in [Alerts -> AlertStates \cup {"absent"}]
  BY <1>1
<1> QED
  BY <1>1, <1>2 DEF AlertLife!Next

\* While nothing else is committed, what an operator has read of an alert still allows
\* what it is going to write.
QuietRead ==
    \A r \in quiet : tx[r].pc = "writing" =>
        alerts[tx[r].key][tx[r].alert] \in Required(tx[r].status)

\* A step that commits nothing.
LEMMA QuietUntouched ==
    ASSUME UsageInv, QuietRead, UNCHANGED alerts, NEW r \in Requests, NEW t,
           tx' = [tx EXCEPT ![r] = t], quiet' \subseteq quiet \cup {r},
           t.pc = "writing" => alerts[t.key][t.alert] \in Required(t.status)
    PROVE  QuietRead'
<1>1. quiet \subseteq Requests
  BY DEF UsageInv, TypeOK
<1>2. \A q \in Requests : tx'[q] = IF q = r THEN t ELSE tx[q]
  BY DEF UsageInv, TypeOK
<1> QED
  BY <1>1, <1>2 DEF QuietRead, Required

LEMMA QuietStep ==
    ASSUME UsageInv, QuietRead, [Next]_vars
    PROVE  QuietRead'
<1>1. CASE UNCHANGED vars
  BY <1>1 DEF vars, QuietRead, Required
<1>2. ASSUME NEW r \in Requests, NEW batch \in SUBSET Events, BeginIngest(r, batch)
      PROVE  QuietRead'
  <2> DEFINE t == [pc |-> "projecting", todo |-> batch \ journal, accepted |-> {},
                   rows |-> {}, opened |-> {}]
  <2>1. /\ tx' = [tx EXCEPT ![r] = t] /\ UNCHANGED alerts /\ t.pc # "writing"
        /\ quiet' \subseteq quiet \cup {r}
    BY <1>2 DEF BeginIngest, Begin
  <2> HIDE DEF t
  <2> QED
    BY <2>1, QuietUntouched
<1>3. ASSUME NEW r \in Requests, RecordUsage(r) \/ EvaluateBudgets(r)
      PROVE  QuietRead'
  <2>1. UNCHANGED alerts /\ quiet' \subseteq quiet \cup {r}
    BY <1>3 DEF RecordUsage, EvaluateBudgets, Step
  <2>2. PICK t : tx' = [tx EXCEPT ![r] = t] /\ t.pc # "writing"
    BY <1>3, ProjectingGoesOn
  <2> QED
    BY <2>1, <2>2, QuietUntouched
<1>4. ASSUME NEW r \in Requests, NEW k \in Keys, NEW i \in DOMAIN alerts[k],
             NEW status \in {"acknowledged", "resolved"}, ReadAlert(r, k, i, status)
      PROVE  QuietRead'
  <2> DEFINE t == [pc |-> "writing", key |-> k, alert |-> i, status |-> status]
  <2>1. /\ tx' = [tx EXCEPT ![r] = t] /\ UNCHANGED alerts
        /\ alerts[t.key][t.alert] \in Required(t.status)
        /\ quiet' \subseteq quiet \cup {r}
    BY <1>4 DEF ReadAlert, Begin
  <2> HIDE DEF t
  <2> QED
    BY <2>1, QuietUntouched
<1>5. ASSUME NEW r \in Requests,
             Abort(r) \/ \E b \in Budgets, change \in Changes : ReadBudget(r, b, change)
      PROVE  QuietRead'
  <2>1. /\ UNCHANGED alerts /\ quiet' \subseteq quiet \cup {r}
        /\ \E t : tx' = [tx EXCEPT ![r] = t] /\ t.pc # "writing"
    BY <1>5 DEF Abort, ReadBudget, Begin, Idle
  <2> QED
    BY <2>1, QuietUntouched
<1>6. ASSUME NEW r \in Requests,
             \/ CommitIngest(r) \/ WriteAlert(r) \/ WriteBudget(r)
             \/ \E b \in Budgets : CreateBudget(r, b)
      PROVE  QuietRead'
  <2>1. quiet' = {}
    BY <1>6 DEF CommitIngest, WriteAlert, WriteBudget, CreateBudget, Commit
  <2> QED
    BY <2>1 DEF QuietRead
<1> QED
  BY <1>1, <1>2, <1>3, <1>4, <1>5, <1>6 DEF Next

\* A request moves only its own transaction.
LEMMA OwnStep ==
    ASSUME UsageInv, NEW r \in Requests, NEW t, tx' = [tx EXCEPT ![r] = t],
           NEW q \in Requests, tx'[q] # tx[q]
    PROVE  q = r
BY DEF UsageInv, TypeOK

\* However requests overlap, one that no commit crosses opens alerts and moves those
\* there are along their machine: an alert is reopened only by a request that has seen
\* others commit since it read.
THEOREM MovedAlone == Spec => AlertsMoveAlone
<1>1. Init => QuietRead
  BY DEF Init, QuietRead
<1>2. UsageInv /\ QuietRead /\ [Next]_vars => QuietRead'
  BY QuietStep
<1>3. UsageInv /\ UsageInv' /\ QuietRead /\ [Next]_vars =>
        [\A r \in quiet : tx'[r] # tx[r] /\ alerts' # alerts => AlertLife!Next]_vars
  <2> SUFFICES ASSUME UsageInv, UsageInv', QuietRead, Next, NEW q \in quiet,
                      tx'[q] # tx[q], alerts' # alerts
               PROVE  AlertLife!Next
    OBVIOUS
  <2>1. q \in Requests
    BY DEF UsageInv, TypeOK
  <2>2. PICK r \in Requests : CommitIngest(r) \/ WriteAlert(r)
    BY DEF Next, BeginIngest, RecordUsage, EvaluateBudgets, Abort, ReadAlert, CreateBudget,
           ReadBudget, WriteBudget
  <2>3. CASE CommitIngest(r)
    BY <2>3, OpeningAdvances, AlertLifeStep
  <2>4. CASE WriteAlert(r)
    <3>1. tx' = [tx EXCEPT ![r] = Idle] /\ tx[r].pc = "writing"
      BY <2>4 DEF WriteAlert, Commit
    <3>2. q = r
      BY <2>1, <3>1, OwnStep
    <3>3. alerts[tx[r].key][tx[r].alert] \in Required(tx[r].status)
      BY <3>1, <3>2 DEF QuietRead
    <3> QED
      BY <2>4, <3>3, WritingAdvances, AlertLifeStep
  <2> QED
    BY <2>2, <2>3, <2>4
<1> QED
  BY <1>1, <1>2, <1>3, UsageCounted, PTL DEF Spec, AlertsMoveAlone

-----------------------------------------------------------------------------
\* What makes NoticedAlone inductive: while nothing else is committed, a batch has
\* opened the alert of every threshold its last counted event reaches.
EvaluationsKept ==
    \A r \in quiet : tx[r].pc = "projecting" /\ tx[r].rows # {} =>
        Crossed(tx[r], Latest(tx[r])) \subseteq tx[r].opened

\* The thresholds crossed depend on the rows of the batch and on the tables only.
LEMMA CrossedSame ==
    ASSUME NEW r, tx'[r].rows = tx[r].rows, UNCHANGED <<usage, budget, alerts>>
    PROVE  Crossed(tx[r], Latest(tx[r]))' = Crossed(tx[r], Latest(tx[r]))
<1>1. Latest(tx[r])' = Latest(tx[r])
  BY DEF Latest
<1> QED
  BY <1>1 DEF Crossed, Visible, applicable_budgets, thresholds, Reached, Active

LEMMA NextEvaluations == UsageInv /\ EvaluationsKept /\ [Next]_vars => EvaluationsKept'
<1> SUFFICES ASSUME UsageInv, EvaluationsKept, [Next]_vars,
                    NEW r \in quiet', tx'[r].pc = "projecting", tx'[r].rows # {}
             PROVE  Crossed(tx[r], Latest(tx[r]))' \subseteq tx'[r].opened
  BY DEF EvaluationsKept
<1>1. ASSUME r \in quiet, tx[r].pc = "projecting", tx'[r].rows = tx[r].rows,
             tx'[r].opened = tx[r].opened, UNCHANGED <<usage, budget, alerts>>
      PROVE  Crossed(tx[r], Latest(tx[r]))' \subseteq tx'[r].opened
  BY <1>1, CrossedSame DEF EvaluationsKept
<1>2. CASE UNCHANGED vars
  BY <1>1, <1>2 DEF vars
<1>3. ASSUME NEW q \in Requests, Commit(q) PROVE FALSE
  BY <1>3 DEF Commit
<1>4. ASSUME NEW q \in Requests, RecordUsage(q)
      PROVE  Crossed(tx[r], Latest(tx[r]))' \subseteq tx'[r].opened
  <2>1. /\ tx[q] \in Batch /\ UNCHANGED <<journal, usage, budget, alerts, quiet>>
        /\ tx[q].pc = "projecting"
    BY <1>4 DEF RecordUsage, Step, UsageInv, TypeOK, Transaction, Idle
  <2>2. CASE r = q
    <3> DEFINE e == Min(tx[q].todo)
               accepted == [tx[q] EXCEPT !.todo = @ \ {e}, !.accepted = @ \cup {e}]
               evaluating == [accepted EXCEPT !.pc = "evaluating",
                                              !.rows = @ \cup {compute_cost(e)}]
    <3>1. \/ tx' = [tx EXCEPT ![q] = accepted]
          \/ tx' = [tx EXCEPT ![q] = evaluating]
      BY <1>4 DEF RecordUsage, Step
    <3>2. evaluating.pc = "evaluating"
      BY <2>1 DEF Batch
    <3>3. tx'[q].pc = "projecting"
      BY <2>2
    <3>4. tx' = [tx EXCEPT ![q] = accepted]
      <4> HIDE DEF evaluating
      <4> QED
        BY <3>1, <3>2, <3>3 DEF UsageInv, TypeOK
    <3>5. tx'[r].rows = tx[r].rows /\ tx'[r].opened = tx[r].opened
      BY <2>1, <2>2, <3>4 DEF Batch, UsageInv, TypeOK
    <3> QED
      BY <1>1, <2>1, <2>2, <3>5
  <2>3. CASE r # q
    BY <1>1, <1>4, <2>1, <2>3 DEF RecordUsage, Step, UsageInv, TypeOK
  <2> QED
    BY <2>2, <2>3
<1>5. ASSUME NEW q \in Requests, EvaluateBudgets(q)
      PROVE  Crossed(tx[r], Latest(tx[r]))' \subseteq tx'[r].opened
  <2>1. /\ tx[q] \in Batch /\ UNCHANGED <<journal, usage, budget, alerts, quiet>>
        /\ tx' = [tx EXCEPT ![q] = [tx[q] EXCEPT !.pc = "projecting",
                                        !.opened = @ \cup Crossed(tx[q], Latest(tx[q]))]]
    BY <1>5 DEF EvaluateBudgets, Step, UsageInv, TypeOK, Transaction, Idle
  <2>2. CASE r = q
    <3>1. /\ tx'[r].rows = tx[r].rows
          /\ tx'[r].opened = tx[r].opened \cup Crossed(tx[r], Latest(tx[r]))
      BY <2>1, <2>2 DEF Batch, UsageInv, TypeOK
    <3> QED
      BY <2>1, <3>1, CrossedSame
  <2>3. CASE r # q
    BY <1>1, <2>1, <2>3 DEF UsageInv, TypeOK
  <2> QED
    BY <2>2, <2>3
<1>6. ASSUME NEW q \in Requests, NEW t, tx' = [tx EXCEPT ![q] = t], t.rows = {} \/ t.pc # "projecting",
             quiet' \ {q} \subseteq quiet, UNCHANGED <<usage, budget, alerts>>
      PROVE  Crossed(tx[r], Latest(tx[r]))' \subseteq tx'[r].opened
  <2>1. r # q
    BY <1>6 DEF UsageInv, TypeOK
  <2> QED
    BY <1>1, <1>6, <2>1 DEF UsageInv, TypeOK
<1>7. ASSUME NEW q \in Requests,
             \/ \E batch \in SUBSET Events : BeginIngest(q, batch)
             \/ \E k \in Keys : \E i \in DOMAIN alerts[k], status \in {"acknowledged", "resolved"} :
                    ReadAlert(q, k, i, status)
             \/ \E b \in Budgets, change \in Changes : ReadBudget(q, b, change)
             \/ Abort(q)
      PROVE  Crossed(tx[r], Latest(tx[r]))' \subseteq tx'[r].opened
  <2>1. quiet' \ {q} \subseteq quiet /\ UNCHANGED <<usage, budget, alerts>>
    BY <1>7 DEF BeginIngest, ReadAlert, ReadBudget, Abort, Begin
  <2>2. \E t : /\ tx' = [tx EXCEPT ![q] = t]
               /\ t.rows = {} \/ t.pc # "projecting"
    BY <1>7 DEF BeginIngest, ReadAlert, ReadBudget, Abort, Begin, Idle
  <2> QED
    BY <1>6, <2>1, <2>2
<1>8. CASE Next
  BY <1>3, <1>4, <1>5, <1>7, <1>8 DEF Next, CommitIngest, WriteAlert, CreateBudget, WriteBudget
<1> QED
  BY <1>2, <1>8

\* A batch alone announces every threshold that the day of its last counted event
\* has reached, for every price list, set of budgets and number of requests.
THEOREM NoticedWhenAlone == Spec => NoticedAlone
<1>1. Init => EvaluationsKept
  BY DEF Init, EvaluationsKept
<1>2. UsageInv /\ EvaluationsKept /\ [Next]_vars =>
          [\A r \in quiet : \A e \in Events :
              Ingested(r) /\ tx[r].rows # {} /\ e = Latest(tx[r]) /\ usage' # usage
                      /\ tx'[r] = Idle =>
              \A k \in Keys :
                 /\ k.budget \in applicable_budgets(Event[e])
                 /\ k.threshold \in thresholds(k.budget)
                 /\ Reached(k.budget, usage, Event[e].day, k.threshold)'
                 => Active(k)']_vars
  <2> SUFFICES ASSUME UsageInv, EvaluationsKept, [Next]_vars,
                      NEW r \in quiet, NEW e \in Events, Ingested(r), tx[r].rows # {},
                      e = Latest(tx[r]), usage' # usage, tx'[r] = Idle,
                      NEW k \in Keys, k.budget \in applicable_budgets(Event[e]),
                      k.threshold \in thresholds(k.budget),
                      Reached(k.budget, usage, Event[e].day, k.threshold)'
               PROVE  Active(k)'
    OBVIOUS
  <2>1. tx[r].pc = "projecting" /\ r \in Requests
    BY DEF Ingested, UsageInv, TypeOK
  <2>2. CommitIngest(r)
    <3>1. \E q \in Requests : CommitIngest(q)
      BY DEF Next, BeginIngest, RecordUsage, EvaluateBudgets, Abort, ReadAlert, WriteAlert,
         CreateBudget, ReadBudget, WriteBudget, vars
    <3>2. ASSUME NEW q \in Requests, CommitIngest(q), q # r PROVE FALSE
      <4>1. tx'[r] = tx[r]
        BY <3>2 DEF CommitIngest, Commit, UsageInv, TypeOK
      <4> QED
        BY <2>1, <4>1 DEF Idle
    <3> QED
      BY <3>1, <3>2
  <2>3. /\ usage' = Visible(tx[r]) /\ budget' = budget
        /\ alerts' = [c \in Keys |->
               IF c \in tx[r].opened THEN Append(alerts[c], "open") ELSE alerts[c]]
    BY <2>2 DEF CommitIngest, Visible
  <2>4. Reached(k.budget, Visible(tx[r]), Event[e].day, k.threshold)
    BY <2>3 DEF Reached
  <2>5. k \in tx[r].opened \/ Active(k)
    <3>1. Crossed(tx[r], Latest(tx[r])) \subseteq tx[r].opened
      BY <2>1 DEF EvaluationsKept
    <3> QED
      BY <2>4, <3>1 DEF Crossed
  <2>6. alerts[k] \in Seq({"open", "acknowledged", "resolved"})
    BY DEF UsageInv, TypeOK
  <2>7. CASE k \in tx[r].opened
    <3>1. alerts'[k] = Append(alerts[k], "open")
      BY <2>3, <2>7
    <3>2. Len(alerts[k]) + 1 \in DOMAIN alerts'[k] /\ alerts'[k][Len(alerts[k]) + 1] = "open"
      BY <2>6, <3>1
    <3> QED
      BY <3>2 DEF Active
  <2>8. CASE k \notin tx[r].opened
    BY <2>3, <2>5, <2>8 DEF Active
  <2> QED
    BY <2>7, <2>8
<1> QED
  BY <1>1, <1>2, NextEvaluations, UsageCounted, PTL DEF Spec, NoticedAlone

-----------------------------------------------------------------------------
\* The gate of a submission.

Exceeded(b, command, day) == b \in applicable_budgets(command) /\ Reached(b, usage, day, 100)

\* What the exceeded budgets among the first i ask for.
AskedUpTo(order, i, command, day) ==
    {budget[order[j]].on_exceed : j \in {k \in 1..i : Exceeded(order[k], command, day)}}

Strictest(asked) ==
    IF "block_new_runs" \in asked THEN "block"
    ELSE IF "require_approval" \in asked THEN "require_approval" ELSE "allow"

LEMMA StrictestHardened ==
    ASSUME NEW asked, NEW one \in {"alert", "require_approval", "block_new_runs"}
    PROVE  Strictest(asked \cup {one}) = Hardened(Strictest(asked), one)
BY DEF Strictest, Hardened

Behaviors == {"allow", "require_approval", "block"}

LEMMA HardenedType ==
    ASSUME NEW behavior \in Behaviors, NEW one
    PROVE  Hardened(behavior, one) \in Behaviors
BY DEF Hardened, Behaviors

\* The loop over the budgets: after each, the strictest of what was asked so far.
LEMMA GateOfOrder ==
    ASSUME TypeOK, NEW order \in Seq(Budgets), NEW command, NEW day
    PROVE  budget_gate(order, command, day) = Strictest(AskedUpTo(order, Len(order), command, day))
<1> DEFINE m == Len(order)
           turn(i, x) == IF Exceeded(order[i], command, day) THEN Hardened(x, budget[order[i]].on_exceed)
                         ELSE x
           F == [i \in 1..m |-> [x \in Behaviors |-> turn(i, x)]]
           Body(f) == [i \in 0..m |->
                          IF i = 0 THEN "allow"
                          ELSE IF Exceeded(order[i], command, day)
                               THEN Hardened(f[i - 1], budget[order[i]].on_exceed)
                               ELSE f[i - 1]]
<1>1. m \in Nat
  OBVIOUS
<1> HIDE DEF m
<1>2. PICK g : Iterates(g, m, Behaviors, "allow", F)
  <2>1. Steps(F, m, Behaviors)
    BY HardenedType DEF Steps
  <2>2. "allow" \in Behaviors
    BY DEF Behaviors
  <2> HIDE DEF F
  <2> QED
    BY <1>1, <2>1, <2>2, Iteration
<1>3. g = Body(g)
  <2>1. ASSUME NEW i \in 0..m PROVE g[i] = Body(g)[i]
    <3>1. CASE i = 0
      BY <1>2, <3>1 DEF Iterates
    <3>2. CASE i # 0
      <4>1. i \in 1..m /\ i - 1 \in 0..m
        BY <1>1, <3>2
      <4>2. g[i - 1] \in Behaviors /\ g[i] = F[i][g[i - 1]]
        BY <1>2, <4>1 DEF Iterates
      <4>3. g[i] = turn(i, g[i - 1])
        BY <4>1, <4>2
      <4> QED
        BY <3>2, <4>1, <4>3 DEF Exceeded
    <3> QED
      BY <3>1, <3>2
  <2> HIDE DEF F
  <2> QED
    BY <1>2, <2>1 DEF Iterates
<1> DEFINE after == CHOOSE f : f = Body(f)
<1>4. after = Body(after)
  <2> HIDE DEF Body
  <2> QED
    BY <1>3
<1>5. budget_gate(order, command, day) = after[m]
  BY DEF budget_gate, m, Exceeded
<1> HIDE DEF after
<1> DEFINE S == {i \in 0..m : after[i] = Strictest(AskedUpTo(order, i, command, day))}
<1>6. Inductive(S, m)
  <2>1. 0 \in S
    <3>1. AskedUpTo(order, 0, command, day) = {}
      BY DEF AskedUpTo
    <3> QED
      BY <1>1, <1>4, <3>1 DEF Strictest
  <2>2. ASSUME NEW i \in Nat, i < m, i \in S PROVE i + 1 \in S
    <3> DEFINE j == i + 1
    <3>1. j \in 1..m /\ j \in 0..m /\ j # 0 /\ j - 1 = i
      BY <1>1, <2>2
    <3>2. after[j] = turn(j, after[i])
      <4> HIDE DEF j, F
      <4> QED
        BY <1>4, <3>1 DEF Exceeded
    <3>3. order[j] \in Budgets
      BY <3>1 DEF m
    <3>4. budget[order[j]].on_exceed \in {"alert", "require_approval", "block_new_runs"}
      BY <3>3 DEF TypeOK, Row
    <3>5. AskedUpTo(order, j, command, day)
            = IF Exceeded(order[j], command, day)
              THEN AskedUpTo(order, i, command, day) \cup {budget[order[j]].on_exceed}
              ELSE AskedUpTo(order, i, command, day)
      <4>1. 1..j = (1..i) \cup {j}
        BY <3>1
      <4> HIDE DEF j
      <4> QED
        BY <4>1 DEF AskedUpTo
    <3> HIDE DEF j
    <3>6. after[i] = Strictest(AskedUpTo(order, i, command, day))
      BY <2>2
    <3>7. after[j] = Strictest(AskedUpTo(order, j, command, day))
      <4>1. CASE Exceeded(order[j], command, day)
        <5> DEFINE asks == budget[order[j]].on_exceed
        <5>1. after[j] = Hardened(Strictest(AskedUpTo(order, i, command, day)), asks)
          BY <3>2, <3>6, <4>1
        <5>2. AskedUpTo(order, j, command, day) = AskedUpTo(order, i, command, day) \cup {asks}
          BY <3>5, <4>1
        <5>3. asks \in {"alert", "require_approval", "block_new_runs"}
          BY <3>4
        <5> HIDE DEF asks
        <5>4. Strictest(AskedUpTo(order, i, command, day) \cup {asks})
                = Hardened(Strictest(AskedUpTo(order, i, command, day)), asks)
          BY <5>3, StrictestHardened
        <5> QED
          BY <5>1, <5>2, <5>4
      <4>2. CASE ~Exceeded(order[j], command, day)
        BY <3>2, <3>5, <3>6, <4>2
      <4> QED
        BY <4>1, <4>2
    <3> QED
      BY <3>1, <3>7 DEF j
  <2> QED
    BY <2>1, <2>2 DEF Inductive
<1>7. m \in S
  <2> HIDE DEF S
  <2> QED
    BY <1>1, <1>6, InductionUpTo
<1> QED
  BY <1>5, <1>7 DEF m

\* The budgets that apply to a command are those that bind it.
LEMMA ApplicableBind ==
    ASSUME NEW command
    PROVE  applicable_budgets(command) = Binding(command)
<1>1. ASSUME NEW b \in Budgets
      PROVE  Covers(b, command) <=>
                  \/ Scope[b].type = "installation"
                  \/ Scope[b] = [type |-> "agent", id |-> command.agent]
                  \/ /\ Scope[b] = [type |-> "project", id |-> command.project]
                     /\ command.project # "none"
  <2>1. Scope[b] = [type |-> Scope[b].type, id |-> Scope[b].id]
    BY UsageAssumption DEF UsageAssumption
  <2> QED
    BY <2>1 DEF Covers
<1> QED
  BY <1>1 DEF applicable_budgets, Binding

\* A listing of all the budgets has each.
LEMMA OrderHasAll ==
    ASSUME IsFiniteSet(Budgets), NEW order \in SetToSeqs(Budgets)
    PROVE  order \in Seq(Budgets) /\ \A b \in Budgets : \E i \in 1..Len(order) : order[i] = b
<1> DEFINE m == Cardinality(Budgets)
           D == 1..m
<1>1. m \in Nat /\ IsFiniteSet(D) /\ Cardinality(D) = m
  BY FS_CardinalityType, FS_Interval
<1>2. order \in [D -> Budgets] /\ \A i, j \in D : i # j => order[i] # order[j]
  BY DEF SetToSeqs
<1> HIDE DEF m
<1>3. order \in Seq(Budgets) /\ Len(order) = m
  BY <1>1, <1>2
<1>4. order \in Injection(D, Budgets)
  BY <1>2 DEF Injection, IsInjective
<1>5. order \in Surjection(D, Budgets)
  BY <1>1, <1>4, FS_Injection DEF m
<1> QED
  BY <1>3, <1>5 DEF Surjection

\* In whatever order the database lists the budgets, the gate of a submission is as
\* strict as the strictest of those that are exceeded.
THEOREM GateStrictest ==
    ASSUME IsFiniteSet(Budgets)
    PROVE  Spec => []GateIsStrictest
<1>1. ASSUME TypeOK, NEW day, NEW command, NEW order \in SetToSeqs(Budgets)
      PROVE  budget_gate(order, command, day)
               = Strictest({budget[b].on_exceed :
                     b \in {c \in Binding(command) : Reached(c, usage, day, 100)}})
  <2> DEFINE asked == {budget[b].on_exceed : b \in {c \in Budgets : Exceeded(c, command, day)}}
  <2>1. /\ order \in Seq(Budgets)
        /\ \A b \in Budgets : \E i \in 1..Len(order) : order[i] = b
    BY <1>1, OrderHasAll
  <2>2. \A i \in 1..Len(order) : order[i] \in Budgets
    BY <2>1
  <2>3. AskedUpTo(order, Len(order), command, day) = asked
    <3>1. ASSUME NEW x \in AskedUpTo(order, Len(order), command, day) PROVE x \in asked
      BY <2>2, <3>1 DEF AskedUpTo
    <3>2. ASSUME NEW x \in asked PROVE x \in AskedUpTo(order, Len(order), command, day)
      <4>1. PICK b \in Budgets : Exceeded(b, command, day) /\ x = budget[b].on_exceed
        BY <3>2
      <4> QED
        BY <2>1, <4>1 DEF AskedUpTo
    <3> QED
      BY <3>1, <3>2
  <2>4. asked = {budget[b].on_exceed :
                     b \in {c \in Binding(command) : Reached(c, usage, day, 100)}}
    BY ApplicableBind DEF Exceeded, Binding
  <2> QED
    BY <1>1, <2>1, <2>3, <2>4, GateOfOrder
<1>2. TypeOK => GateIsStrictest
  BY <1>1 DEF GateIsStrictest, Strictest
<1>3. UsageInv => TypeOK
  BY DEF UsageInv
<1> QED
  BY <1>2, <1>3, UsageCounted, PTL

=============================================================================
