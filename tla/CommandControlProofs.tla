------------------------ MODULE CommandControlProofs ------------------------
(***************************************************************************)
(* Proofs about the command queue and the approvals, for any number of     *)
(* commands and sessions and any clock bound, whatever requests overlap.   *)
(***************************************************************************)
EXTENDS CommandControl, FiniteSetTheorems, TLAPS

-----------------------------------------------------------------------------
\* The vocabulary of the rows and of the sessions.

LEMMA IdleType == Idle \in Session
BY DEF Idle, Session, Targets

\* A submission that is not refused is either free or held back.
LEMMA EffectiveEffectType ==
    ASSUME NEW effect \in PolicyEffects, NEW gate \in BudgetGates,
           ~Refused(effect, gate)
    PROVE  EffectiveEffect(effect, gate) \in {"allow", "require_approval"}
BY DEF PolicyEffects, BudgetGates, Refused, EffectiveEffect

LEMMA AnnouncesType ==
    ASSUME NEW status \in {"acknowledged", "succeeded", "failed", "cancelled"}
    PROVE  Announces(status) \in Events
<1>1. CASE status = "acknowledged"  BY <1>1 DEF Announces, Events
<1>2. CASE status = "succeeded"     BY <1>2 DEF Announces, Events
<1>3. CASE status = "failed"        BY <1>3 DEF Announces, Events
<1>4. CASE status = "cancelled"     BY <1>4 DEF Announces, Events
<1> QED  BY <1>1, <1>2, <1>3, <1>4

-----------------------------------------------------------------------------
\* Type correctness.

LEMMA TypeStep == TypeOK /\ SessionFacts /\ [Next]_vars => TypeOK'
<1> SUFFICES ASSUME TypeOK, SessionFacts, [Next]_vars PROVE TypeOK'
  OBVIOUS
<1> USE ControlAssumption, IdleType DEF ControlAssumption
<1>1. CASE Tick
  BY <1>1 DEF TypeOK, Tick
<1>2. ASSUME NEW s \in Sessions, NEW k \in Commands, SubmitRefused(s, k)
      PROVE  TypeOK'
  BY <1>2 DEF TypeOK, SubmitRefused, Written, AuditActions
<1>3. ASSUME NEW s \in Sessions, NEW k \in Commands, SubmitRead(s, k)
      PROVE  TypeOK'
  <2>1. PICK effect \in PolicyEffects, gate \in BudgetGates, ttl \in CommandTTLs :
          /\ ~Refused(effect, gate)
          /\ session' = [session EXCEPT ![s] =
               [Idle EXCEPT !.pc = "submit", !.key = k, !.at = now,
                            !.until = now + ttl, !.to = EffectiveEffect(effect, gate)]]
    BY <1>3 DEF SubmitRead, Begin
  <2>2. EffectiveEffect(effect, gate) \in Targets
    BY <2>1, EffectiveEffectType DEF Targets
  <2>3. now \in Nat /\ now + ttl \in Nat
    BY DEF TypeOK
  <2>4. [Idle EXCEPT !.pc = "submit", !.key = k, !.at = now, !.until = now + ttl,
                     !.to = EffectiveEffect(effect, gate)] \in Session
    BY <2>2, <2>3 DEF Session, Idle
  <2> QED
    BY <1>3, <2>1, <2>4 DEF TypeOK, SubmitRead
<1>4. ASSUME NEW s \in Sessions, SubmitCommit(s)
      PROVE  TypeOK'
  <2>1. session[s].key \in Commands \/ session[s].key = NoCommand
    BY DEF TypeOK, Session
  <2>2. command' \in [Commands -> Command]
    BY <1>4 DEF TypeOK, SubmitCommit, Command, CommandStates, Session
  <2>3. approval' \in [Commands -> Approval]
    <3>1. [status |-> "pending", version |-> 1,
           expires_at |-> session[s].at + ApprovalTTL] \in Approval
      BY DEF TypeOK, Session, Approval, ApprovalStates
    <3> QED
      BY <1>4, <3>1 DEF TypeOK, SubmitCommit
  <2>4. outbox' \in [Commands -> SUBSET Events]
    BY <1>4 DEF TypeOK, SubmitCommit, Written, Events
  <2>5. audit' \in [Commands -> SUBSET AuditActions]
    BY <1>4 DEF TypeOK, SubmitCommit, Written, AuditActions
  <2> QED
    BY <1>4, <2>2, <2>3, <2>4, <2>5 DEF TypeOK, SubmitCommit, End
<1>5. ASSUME NEW s \in Sessions, SubmitConflict(s)
      PROVE  TypeOK'
  BY <1>5 DEF TypeOK, SubmitConflict, End
<1>6. ASSUME NEW s \in Sessions, NEW k \in Commands,
             NEW target \in {"approved", "rejected"}, NEW version \in BodyVersions,
             DecideRead(s, k, target, version)
      PROVE  TypeOK'
  <2>1. [Idle EXCEPT !.pc = "decide", !.key = k, !.to = target, !.version = version]
          \in Session
    <3>1. version \in Nat
      BY DEF BodyVersions
    <3>2. target \in Targets
      BY DEF Targets, ApprovalStates
    <3> QED
      BY <3>1, <3>2 DEF Idle, Session
  <2> QED
    BY <1>6, <2>1 DEF TypeOK, DecideRead, Begin
<1>7. ASSUME NEW s \in Sessions, DecideUpdate(s)
      PROVE  TypeOK'
  <2>1. session[s].key \in Commands /\ session[s] \in Session
    BY <1>7 DEF SessionFacts, DecideUpdate, TypeOK
  <2>2. command[session[s].key].status \in CommandStates \cup {"absent"}
    BY <2>1 DEF TypeOK, Command
  <2>3. [session[s] EXCEPT !.pc = "decided", !.won = TRUE,
                           !.from = command[session[s].key].status] \in Session
    BY <2>1, <2>2 DEF Session
  <2> QED
    BY <1>7, <2>3 DEF TypeOK, DecideUpdate, Continue
<1>8. ASSUME NEW s \in Sessions, DecideCommit(s)
      PROVE  TypeOK'
  <2>1. /\ session[s].key \in Commands /\ session[s].to \in {"approved", "rejected"}
        /\ command[session[s].key] \in Command /\ approval[session[s].key] \in Approval
    BY <1>8 DEF TypeOK, SessionFacts, DecideCommit
  <2>2. Decided(command[session[s].key], session[s].to, session[s].from) \in Command
    BY <2>1 DEF Decided, Command, CommandStates
  <2>3. command' \in [Commands -> Command]
    BY <1>8, <2>2 DEF TypeOK, DecideCommit
  <2>4. [approval[session[s].key] EXCEPT !.status = session[s].to, !.version = @ + 1]
          \in Approval
    <3>1. session[s].to \in ApprovalStates
      BY <2>1 DEF ApprovalStates
    <3>2. approval[session[s].key].version + 1 \in Nat
      BY <2>1 DEF Approval
    <3> QED
      BY <2>1, <3>1, <3>2 DEF Approval
  <2>5. approval' \in [Commands -> Approval]
    BY <1>8, <2>4 DEF TypeOK, DecideCommit
  <2>6. outbox' \in [Commands -> SUBSET Events]
    BY <1>8, <2>1 DEF TypeOK, DecideCommit, Written, Events
  <2>7. audit' \in [Commands -> SUBSET AuditActions]
    BY <1>8, <2>1 DEF TypeOK, DecideCommit, Written, AuditActions
  <2> QED
    BY <1>8, <2>3, <2>5, <2>6, <2>7 DEF TypeOK, DecideCommit, End
<1>9. ASSUME NEW s \in Sessions, NEW k \in Commands, DecideReadExpired(s, k)
      PROVE  TypeOK'
  BY <1>9 DEF TypeOK, DecideReadExpired, Begin, Idle, Session
<1>10. ASSUME NEW s \in Sessions, ExpireUpdate(s)
       PROVE  TypeOK'
  <2>1. session[s].key \in Commands /\ session[s] \in Session
    BY <1>10 DEF SessionFacts, ExpireUpdate, TypeOK
  <2>2. command[session[s].key].status \in CommandStates \cup {"absent"}
    BY <2>1 DEF TypeOK, Command
  <2>3. \A b \in BOOLEAN : [session[s] EXCEPT !.pc = "expired", !.won = b,
                           !.from = command[session[s].key].status] \in Session
    BY <2>1, <2>2 DEF Session
  <2> QED
    BY <1>10, <2>3 DEF TypeOK, ExpireUpdate, Continue
<1>11. ASSUME NEW s \in Sessions, ExpireCommit(s)
       PROVE  TypeOK'
  <2>1. command' \in [Commands -> Command]
    <3>1. \A row \in Command : [row EXCEPT !.status = "cancelled"] \in Command
      BY DEF Command, CommandStates
    <3>2. command' = command
            \/ command' = [command EXCEPT ![session[s].key] =
                             [command[session[s].key] EXCEPT !.status = "cancelled"]]
      BY <1>11 DEF ExpireCommit
    <3> QED
      BY <3>1, <3>2 DEF TypeOK
  <2>2. approval' \in [Commands -> Approval]
    <3>1. session[s].key \in Commands
      BY <1>11 DEF SessionFacts, ExpireCommit
    <3>2. [approval[session[s].key] EXCEPT !.status = "expired", !.version = @ + 1]
            \in Approval
      <4>1. approval[session[s].key] \in Approval
        BY <3>1 DEF TypeOK
      <4>2. approval[session[s].key].version + 1 \in Nat
        BY <4>1 DEF Approval
      <4> QED
        BY <4>1, <4>2 DEF Approval, ApprovalStates
    <3> QED
      BY <1>11, <3>1, <3>2 DEF TypeOK, ExpireCommit
  <2>3. outbox' \in [Commands -> SUBSET Events]
    BY <1>11 DEF TypeOK, ExpireCommit, Written, Events
  <2> QED
    BY <1>11, <2>1, <2>2, <2>3 DEF TypeOK, ExpireCommit, End
<1>12. ASSUME NEW s \in Sessions, PollRead(s)
       PROVE  TypeOK'
  <2>1. PICK deliver \in SUBSET Commands, lapse \in SUBSET Commands :
          session' = [session EXCEPT ![s] =
            [Idle EXCEPT !.pc = "poll", !.deliver = deliver, !.lapse = lapse]]
    BY <1>12 DEF PollRead, Begin
  <2>2. [Idle EXCEPT !.pc = "poll", !.deliver = deliver, !.lapse = lapse] \in Session
    BY DEF Idle, Session, Targets
  <2> QED
    BY <1>12, <2>1, <2>2 DEF TypeOK, PollRead
<1>13. ASSUME NEW s \in Sessions, PollCommit(s)
       PROVE  TypeOK'
  <2>1. command' \in [Commands -> Command]
    BY <1>13 DEF TypeOK, PollCommit, Command, CommandStates
  <2>2. outbox' \in [Commands -> SUBSET Events]
    BY <1>13 DEF TypeOK, PollCommit, Events
  <2>3. handed' \in [Commands -> Nat]
    BY <1>13 DEF TypeOK, PollCommit
  <2>4. known' \subseteq Commands
    BY <1>13 DEF TypeOK, PollCommit, Session
  <2> QED
    BY <1>13, <2>1, <2>2, <2>3, <2>4 DEF TypeOK, PollCommit, End
<1>14. ASSUME NEW s \in Sessions, NEW k \in Commands, NEW target \in CommandStates,
              TransitionRead(s, k, target)
       PROVE  TypeOK'
  <2>1. [Idle EXCEPT !.pc = "transition", !.key = k, !.to = target,
                     !.from = command[k].status] \in Session
    BY DEF TypeOK, Idle, Session, Targets, Command
  <2> QED
    BY <1>14, <2>1 DEF TypeOK, TransitionRead, Begin
<1>15. ASSUME NEW s \in Sessions, TransitionCommit(s)
       PROVE  TypeOK'
  <2>1. session[s].to \in {"acknowledged", "succeeded", "failed", "cancelled"}
    BY <1>15 DEF SessionFacts, TransitionCommit
  <2>2. command' \in [Commands -> Command]
    <3>1. session[s].key \in Commands /\ session[s].to \in CommandStates
      BY <1>15, <2>1 DEF SessionFacts, TransitionCommit, CommandStates
    <3>2. [command[session[s].key] EXCEPT !.status = session[s].to] \in Command
      BY SMTT(60), <3>1 DEF TypeOK, Command
    <3> QED
      BY <1>15, <3>1, <3>2 DEF TypeOK, TransitionCommit
  <2>3. outbox' \in [Commands -> SUBSET Events]
    BY <1>15, <2>1, AnnouncesType DEF TypeOK, TransitionCommit, Written
  <2> QED
    BY <1>15, <2>2, <2>3 DEF TypeOK, TransitionCommit, End
<1>16. ASSUME NEW s \in Sessions, Crash(s)
       PROVE  TypeOK'
  BY <1>16 DEF TypeOK, Crash, End
<1>17. CASE UNCHANGED vars
  BY <1>17 DEF TypeOK, vars
<1> QED
  BY <1>1, <1>2, <1>3, <1>4, <1>5, <1>6, <1>7, <1>8, <1>9, <1>10, <1>11, <1>12, <1>13,
     <1>14, <1>15, <1>16, <1>17
  DEF Next, Submit, Decide, Transition, AckRead, ResultRead, CancelRead, CommandStates

-----------------------------------------------------------------------------
\* The inductive invariant.

LEMMA InitInv == Init => ControlInv
BY ControlAssumption
   DEF ControlAssumption, Init, ControlInv, TypeOK, RowFacts, LockFacts, SessionFacts,
       ApprovalCommandAgreement, OneAuditedDecision, Absent, NoApproval, Idle, Command,
       Approval, Session, Targets, CommandStates, ApprovalStates

\* Steps that write no row the invariant speaks of.
LEMMA QuietRows ==
    ASSUME RowFacts, ApprovalCommandAgreement, OneAuditedDecision,
           UNCHANGED <<command, approval, audit, handed, known>>
    PROVE  RowFacts' /\ ApprovalCommandAgreement' /\ OneAuditedDecision'
BY DEF RowFacts, ApprovalCommandAgreement, OneAuditedDecision

\* The rows after each step: who was handed out was released, an approval and
\* its command agree, and the audit trail shows the decision of the row.
LEMMA RowsStep ==
    ControlInv /\ [Next]_vars
        => RowFacts' /\ ApprovalCommandAgreement' /\ OneAuditedDecision'
<1> DEFINE Rows == RowFacts /\ ApprovalCommandAgreement /\ OneAuditedDecision
<1> SUFFICES ASSUME ControlInv, [Next]_vars PROVE Rows'
  OBVIOUS
<1>1. ASSUME NEW s \in Sessions, NEW k \in Commands, SubmitRefused(s, k)
      PROVE  Rows'
  BY <1>1 DEF ControlInv, TypeOK, RowFacts, ApprovalCommandAgreement, OneAuditedDecision,
              SubmitRefused, Written
<1>2. ASSUME NEW s \in Sessions, SubmitCommit(s)
      PROVE  Rows'
  <2> DEFINE key == session[s].key
  <2>1. key \in Commands /\ command[key].status = "absent"
    BY <1>2 DEF ControlInv, SessionFacts, SubmitCommit
  <2>2. /\ command'[key].status = "queued"
        /\ \/ command'[key].released /\ approval'[key].status = "absent"
           \/ ~command'[key].released /\ approval'[key].status = "pending"
        /\ ~(handed[key] > 0) /\ key \notin known
    BY <1>2, <2>1 DEF ControlInv, TypeOK, RowFacts, SubmitCommit
  <2>3. \A k \in Commands \ {key} : command'[k] = command[k] /\ approval'[k] = approval[k]
    BY <1>2 DEF ControlInv, TypeOK, SubmitCommit
  <2>4. \A k \in Commands : audit'[k] \cap {"approval.approved", "approval.rejected"}
                              = audit[k] \cap {"approval.approved", "approval.rejected"}
    BY <1>2 DEF ControlInv, TypeOK, SubmitCommit, Written
  <2>5. RowFacts'
    BY <1>2, <2>1, <2>2, <2>3 DEF ControlInv, RowFacts, SubmitCommit
  <2>6. ApprovalCommandAgreement'
    BY <2>1, <2>2, <2>3 DEF ControlInv, ApprovalCommandAgreement
  <2>7. OneAuditedDecision'
    BY <2>1, <2>2, <2>3, <2>4 DEF ControlInv, RowFacts, OneAuditedDecision
  <2> QED
    BY <2>5, <2>6, <2>7
<1>3. ASSUME NEW s \in Sessions, DecideCommit(s)
      PROVE  Rows'
  <2> DEFINE key == session[s].key
             txn == session[s]
  <2>1. /\ key \in Commands /\ txn.to \in {"approved", "rejected"}
        /\ approval[key].status = "pending"
        /\ txn.from # "queued" => command[key].status = "cancelled"
    BY <1>3 DEF ControlInv, SessionFacts, LockFacts, DecideCommit
  <2>2. /\ approval'[key].status = txn.to
        /\ command'[key] = Decided(command[key], txn.to, txn.from)
        /\ audit'[key] = audit[key] \cup {IF txn.to = "approved" THEN "approval.approved"
                                          ELSE "approval.rejected"}
    BY <1>3, <2>1 DEF ControlInv, TypeOK, Approval, DecideCommit, Written
  <2>3. \A k \in Commands \ {key} :
          command'[k] = command[k] /\ approval'[k] = approval[k] /\ audit'[k] = audit[k]
    BY <1>3 DEF ControlInv, TypeOK, DecideCommit, Written
  <2>4. handed' = handed /\ known' = known
    BY <1>3 DEF DecideCommit
  <2>5. /\ command[key].status \in {"queued", "cancelled"} /\ ~command[key].released
        /\ audit[key] \cap {"approval.approved", "approval.rejected"} = {}
        /\ ~(handed[key] > 0) /\ key \notin known
    BY <2>1 DEF ControlInv, RowFacts, ApprovalCommandAgreement, OneAuditedDecision
  <2>6. /\ command'[key].status \in {"queued", "cancelled"}
        /\ txn.to = "approved" => command'[key].released \/ command'[key].status = "cancelled"
        /\ txn.to = "rejected" => command'[key].status = "cancelled" /\ ~command'[key].released
    BY <2>1, <2>2, <2>5 DEF ControlInv, TypeOK, Command, Decided
  <2>7. RowFacts'
    BY <2>1, <2>2, <2>3, <2>4, <2>5, <2>6 DEF ControlInv, RowFacts
  <2>8. ApprovalCommandAgreement'
    BY <2>1, <2>2, <2>3, <2>6 DEF ControlInv, ApprovalCommandAgreement
  <2>9. OneAuditedDecision'
    BY <2>1, <2>2, <2>3, <2>5 DEF ControlInv, OneAuditedDecision
  <2> QED
    BY <2>7, <2>8, <2>9
<1>4. ASSUME NEW s \in Sessions, ExpireCommit(s)
      PROVE  Rows'
  <2> DEFINE key == session[s].key
             txn == session[s]
  <2>1. /\ key \in Commands /\ approval[key].status # "absent"
        /\ txn.won => /\ approval[key].status = "pending"
                      /\ txn.from # "queued" => command[key].status = "cancelled"
    BY <1>4 DEF ControlInv, SessionFacts, LockFacts, ExpireCommit
  <2>2. /\ approval'[key].status = IF txn.won THEN "expired" ELSE approval[key].status
        /\ command'[key].status = IF txn.from = "queued" THEN "cancelled"
                                  ELSE command[key].status
        /\ command'[key].released = command[key].released
    BY <1>4, <2>1 DEF ControlInv, TypeOK, Approval, Command, ExpireCommit
  <2>3. \A k \in Commands \ {key} : command'[k] = command[k] /\ approval'[k] = approval[k]
    BY <1>4 DEF ControlInv, TypeOK, ExpireCommit
  <2>4. handed' = handed /\ known' = known /\ audit' = audit
    BY <1>4 DEF ExpireCommit
  <2>5. RowFacts'
    BY <2>1, <2>2, <2>3, <2>4 DEF ControlInv, RowFacts
  <2>6. ApprovalCommandAgreement'
    BY <2>1, <2>2, <2>3 DEF ControlInv, RowFacts, ApprovalCommandAgreement
  <2>7. OneAuditedDecision'
    BY <2>1, <2>2, <2>3, <2>4 DEF ControlInv, OneAuditedDecision
  <2> QED
    BY <2>5, <2>6, <2>7
<1>5. ASSUME NEW s \in Sessions, PollCommit(s)
      PROVE  Rows'
  <2>1. \A k \in session[s].deliver \cup session[s].lapse : command[k].released
    BY <1>5 DEF ControlInv, SessionFacts
  <2>2. /\ approval' = approval /\ audit' = audit
        /\ \A k \in Commands :
             /\ command'[k].released = command[k].released
             /\ k \notin session[s].deliver \cup session[s].lapse =>
                    command'[k] = command[k]
             /\ k \in session[s].deliver \cup session[s].lapse =>
                    command'[k].status \in {"delivered", "expired"}
             /\ handed'[k] > 0 \/ k \in known' =>
                    handed[k] > 0 \/ k \in known \/ k \in session[s].deliver
    BY <1>5 DEF ControlInv, TypeOK, Command, PollCommit
  <2>3. RowFacts'
    BY <2>1, <2>2 DEF ControlInv, RowFacts
  <2>4. ApprovalCommandAgreement'
    BY <2>1, <2>2 DEF ControlInv, RowFacts, ApprovalCommandAgreement
  <2>5. OneAuditedDecision'
    BY <2>2 DEF ControlInv, OneAuditedDecision
  <2> QED
    BY <2>3, <2>4, <2>5
<1>6. ASSUME NEW s \in Sessions, TransitionCommit(s)
      PROVE  Rows'
  <2> DEFINE key == session[s].key
             txn == session[s]
  <2>1. /\ key \in Commands /\ command[key].status # "absent"
        /\ txn.to \in {"acknowledged", "succeeded", "failed", "cancelled"}
        /\ txn.to # "cancelled" => command[key].released
    BY <1>6 DEF ControlInv, SessionFacts, TransitionCommit
  <2>2. /\ approval' = approval /\ audit' = audit /\ handed' = handed /\ known' = known
        /\ command'[key].released = command[key].released
        /\ command'[key].status \in {txn.to, command[key].status}
        /\ \A k \in Commands \ {key} : command'[k] = command[k]
    BY <1>6, <2>1 DEF ControlInv, TypeOK, Command, TransitionCommit
  <2>3. RowFacts'
    BY <2>1, <2>2 DEF ControlInv, RowFacts
  <2>4. ApprovalCommandAgreement'
    BY <2>1, <2>2 DEF ControlInv, RowFacts, ApprovalCommandAgreement
  <2>5. OneAuditedDecision'
    BY <2>2 DEF ControlInv, OneAuditedDecision
  <2> QED
    BY <2>3, <2>4, <2>5
<1>7. UNCHANGED <<command, approval, audit, handed, known>> => Rows'
  BY QuietRows DEF ControlInv
<1> QED
  BY <1>1, <1>2, <1>3, <1>4, <1>5, <1>6, <1>7
  DEF Next, vars, Tick, Submit, SubmitRead, SubmitConflict, Decide, DecideRead, DecideUpdate,
      DecideReadExpired, ExpireUpdate, PollRead, Transition, AckRead, ResultRead,
      CancelRead, TransitionRead, Crash

\* A session that ends, or that begins without having changed an approval, holds
\* no lock; the rows it leaves alone stay as the other sessions know them.
LEMMA NoNewLock ==
    ASSUME LockFacts, session \in [Sessions -> Session],
           NEW s \in Sessions, ~session'[s].won,
           \A t \in Sessions \ {s} : session'[t] = session[t],
           \A t \in Sessions \ {s} : session[t].won =>
               /\ approval'[session[t].key].status = "pending"
               /\ session[t].from # "queued" => command'[session[t].key].status = "cancelled"
    PROVE  LockFacts'
BY DEF LockFacts

LEMMA LockStep == ControlInv /\ [Next]_vars => LockFacts'
<1> SUFFICES ASSUME ControlInv, [Next]_vars PROVE LockFacts'
  OBVIOUS
<1> USE DEF ControlInv
<1> session \in [Sessions -> Session]
  BY DEF TypeOK
<1>1. ASSUME NEW s \in Sessions, ~session'[s].won,
             \A t \in Sessions \ {s} : session'[t] = session[t],
             UNCHANGED <<command, approval>>
      PROVE  LockFacts'
  BY <1>1, NoNewLock DEF LockFacts
<1>2. ~Idle.won
  BY DEF Idle
<1>3. ASSUME NEW s \in Sessions, NEW k \in Commands, SubmitRead(s, k)
      PROVE  LockFacts'
  BY <1>1, <1>3 DEF SubmitRead, Begin, Idle
<1>4. ASSUME NEW s \in Sessions, SubmitCommit(s)
      PROVE  LockFacts'
  <2>1. \A t \in Sessions \ {s} : session[t].won => session[t].key # session[s].key
    BY <1>4 DEF LockFacts, RowFacts, SessionFacts, SubmitCommit
  <2>2. \A t \in Sessions : session[t].won => session[t].key \in Commands
    BY DEF LockFacts, SessionFacts
  <2>3. \A k \in Commands \ {session[s].key} :
          command'[k] = command[k] /\ approval'[k] = approval[k]
    BY <1>4 DEF TypeOK, SubmitCommit
  <2> QED
    BY <1>2, <1>4, <2>1, <2>2, <2>3, NoNewLock DEF LockFacts, SubmitCommit, End
<1>5. ASSUME NEW s \in Sessions, SubmitConflict(s) \/ Crash(s)
      PROVE  LockFacts'
  BY <1>1, <1>2, <1>5 DEF SubmitConflict, Crash, End
<1>6. ASSUME NEW s \in Sessions, NEW k \in Commands, NEW target, NEW version,
             DecideRead(s, k, target, version)
      PROVE  LockFacts'
  BY <1>1, <1>6 DEF DecideRead, Begin, Idle
<1>7. ASSUME NEW s \in Sessions, DecideUpdate(s)
      PROVE  LockFacts'
  <2>1. CASE session' = [session EXCEPT ![s] = Idle]
    BY <1>1, <1>2, <1>7, <2>1 DEF DecideUpdate
  <2> DEFINE key == session[s].key
  <2>2. CASE /\ approval[key].status = "pending"
             /\ session' = [session EXCEPT ![s] =
                  [session[s] EXCEPT !.pc = "decided", !.won = TRUE,
                                     !.from = command[key].status]]
    <3>1. /\ key \in Commands /\ UNCHANGED <<command, approval>>
          /\ \A t \in Sessions : ~(session[t].won /\ session[t].key = key)
      BY <1>7 DEF SessionFacts, DecideUpdate, Locked
    <3>2. /\ session'[s].won /\ session'[s].pc = "decided" /\ session'[s].key = key
          /\ session'[s].from = command[key].status
          /\ \A t \in Sessions \ {s} : session'[t] = session[t]
      BY <2>2 DEF Session
    <3>3. command[key].status \in {"queued", "cancelled"}
      BY <2>2, <3>1 DEF ApprovalCommandAgreement
    <3> QED
      BY <2>2, <3>1, <3>2, <3>3 DEF LockFacts
  <2> QED
    BY <1>7, <2>1, <2>2 DEF DecideUpdate, Continue, Matches
<1>8. ASSUME NEW s \in Sessions, DecideCommit(s)
      PROVE  LockFacts'
  <2>1. session[s].won
    BY <1>8 DEF SessionFacts, DecideCommit
  <2>2. \A t \in Sessions \ {s} : session[t].won =>
            session[t].key \in Commands /\ session[t].key # session[s].key
    BY <2>1 DEF LockFacts, SessionFacts
  <2>3. \A k \in Commands \ {session[s].key} :
          command'[k] = command[k] /\ approval'[k] = approval[k]
    BY <1>8 DEF TypeOK, DecideCommit
  <2>4. ~session'[s].won /\ \A t \in Sessions \ {s} : session'[t] = session[t]
    BY <1>2, <1>8 DEF DecideCommit, End
  <2> QED
    BY <2>2, <2>3, <2>4, NoNewLock DEF LockFacts
<1>9. ASSUME NEW s \in Sessions, NEW k \in Commands, DecideReadExpired(s, k)
      PROVE  LockFacts'
  BY <1>1, <1>9 DEF DecideReadExpired, Begin, Idle
<1>10. ASSUME NEW s \in Sessions, ExpireUpdate(s)
       PROVE  LockFacts'
  <2> DEFINE key == session[s].key
  <2>1. /\ key \in Commands /\ UNCHANGED <<command, approval>>
        /\ \A t \in Sessions : ~(session[t].won /\ session[t].key = key)
    BY <1>10 DEF SessionFacts, ExpireUpdate, Locked
  <2>2. /\ session'[s].won <=> approval[key].status = "pending"
        /\ session'[s].pc = "expired" /\ session'[s].key = key
        /\ session'[s].from = command[key].status
        /\ \A t \in Sessions \ {s} : session'[t] = session[t]
    BY <1>10 DEF ExpireUpdate, Continue, Session
  <2>3. approval[key].status = "pending" => command[key].status \in {"queued", "cancelled"}
    BY <2>1 DEF ApprovalCommandAgreement
  <2> QED
    BY <2>1, <2>2, <2>3 DEF LockFacts
<1>11. ASSUME NEW s \in Sessions, ExpireCommit(s)
       PROVE  LockFacts'
  <2> DEFINE key == session[s].key
  <2>1. key \in Commands
    BY <1>11 DEF SessionFacts, ExpireCommit
  <2>2. /\ approval'[key].status = IF session[s].won THEN "expired" ELSE approval[key].status
        /\ command'[key].status \in {"cancelled", command[key].status}
        /\ \A k \in Commands \ {key} : command'[k] = command[k] /\ approval'[k] = approval[k]
    BY <1>11, <2>1 DEF TypeOK, Approval, Command, ExpireCommit
  <2>3. \A t \in Sessions \ {s} : session[t].won =>
            session[t].key \in Commands /\ (session[t].key = key => ~session[s].won)
    BY DEF LockFacts, SessionFacts
  <2>4. ~session'[s].won /\ \A t \in Sessions \ {s} : session'[t] = session[t]
    BY <1>2, <1>11 DEF ExpireCommit, End
  <2>5. \A t \in Sessions \ {s} : session[t].won =>
           /\ approval'[session[t].key].status = "pending"
           /\ session[t].from # "queued" => command'[session[t].key].status = "cancelled"
    BY <2>1, <2>2, <2>3 DEF LockFacts
  <2> QED
    BY <2>4, <2>5, NoNewLock
<1>12. ASSUME NEW s \in Sessions, PollRead(s)
       PROVE  LockFacts'
  BY <1>1, <1>12 DEF PollRead, Begin, Idle
<1>13. ASSUME NEW s \in Sessions, PollCommit(s)
       PROVE  LockFacts'
  <2>1. \A t \in Sessions : session[t].won =>
            /\ session[t].key \in Commands
            /\ session[t].key \notin session[s].deliver \cup session[s].lapse
    BY <1>13 DEF LockFacts, SessionFacts, RowFacts
  <2>2. \A k \in Commands \ (session[s].deliver \cup session[s].lapse) :
            command'[k] = command[k]
    BY <1>13 DEF TypeOK, PollCommit
  <2> QED
    BY <1>2, <1>13, <2>1, <2>2, NoNewLock DEF LockFacts, PollCommit, End
<1>14. ASSUME NEW s \in Sessions, NEW k \in Commands, NEW target,
              TransitionRead(s, k, target)
       PROVE  LockFacts'
  BY <1>1, <1>14 DEF TransitionRead, Begin, Idle
<1>15. ASSUME NEW s \in Sessions, TransitionCommit(s)
       PROVE  LockFacts'
  <2>1. \A t \in Sessions : session[t].won =>
            /\ session[t].key \in Commands
            /\ session[t].key = session[s].key => session[s].to = "cancelled"
    BY <1>15 DEF LockFacts, SessionFacts, RowFacts, TransitionCommit
  <2>2. /\ command'[session[s].key].status \in {session[s].to, command[session[s].key].status}
        /\ \A k \in Commands \ {session[s].key} : command'[k] = command[k]
    BY <1>15 DEF SessionFacts, TypeOK, Command, TransitionCommit
  <2> QED
    BY <1>2, <1>15, <2>1, <2>2, NoNewLock DEF LockFacts, TransitionCommit, End
<1>16. ASSUME UNCHANGED <<command, approval, session>>
       PROVE  LockFacts'
  BY <1>16 DEF LockFacts
<1> QED
  BY <1>3, <1>4, <1>5, <1>6, <1>7, <1>8, <1>9, <1>10, <1>11, <1>12, <1>13, <1>14, <1>15, <1>16
  DEF Next, vars, Tick, Submit, SubmitRefused, Decide, Transition, AckRead, ResultRead,
      CancelRead

\* What one session relies on; SessionFacts says it of each.
SessionFit(s) ==
    /\ session[s].pc \notin {"idle", "poll"} => session[s].key \in Commands
    /\ \A k \in session[s].deliver \cup session[s].lapse : command[k].released
    /\ session[s].pc = "submit" => session[s].to \in {"allow", "require_approval"}
    /\ session[s].pc \in {"decide", "decided", "expire", "expired"} =>
           approval[session[s].key].status # "absent"
    /\ session[s].pc \in {"decide", "decided"} =>
           session[s].to \in {"approved", "rejected"}
    /\ session[s].pc = "decided" => session[s].won
    /\ session[s].pc = "transition" =>
           /\ session[s].to \in {"acknowledged", "succeeded", "failed", "cancelled"}
           /\ command[session[s].key].status # "absent"
           /\ session[s].to # "cancelled" => command[session[s].key].released

\* Rows are never deleted and a release is never taken back, so what the other
\* sessions rely on survives any step.
RowsGrow ==
    \A k \in Commands :
        /\ command[k].released => command'[k].released
        /\ command[k].status # "absent" => command'[k].status # "absent"
        /\ approval[k].status # "absent" => approval'[k].status # "absent"

LEMMA RowsGrowStep == ControlInv /\ [Next]_vars => RowsGrow
<1> SUFFICES ASSUME ControlInv, [Next]_vars PROVE RowsGrow
  OBVIOUS
<1> USE DEF ControlInv, RowsGrow
<1>1. ASSUME NEW s \in Sessions, SubmitCommit(s) PROVE RowsGrow
  BY <1>1 DEF TypeOK, RowFacts, SubmitCommit
<1>2. ASSUME NEW s \in Sessions, DecideCommit(s) PROVE RowsGrow
  <2>1. /\ session[s].key \in Commands /\ session[s].to \in {"approved", "rejected"}
        /\ command[session[s].key] \in Command /\ approval[session[s].key] \in Approval
    BY <1>2 DEF TypeOK, SessionFacts, DecideCommit
  <2>2. command' = [command EXCEPT ![session[s].key] =
                      Decided(command[session[s].key], session[s].to, session[s].from)]
    BY <1>2 DEF DecideCommit
  <2>3. LET row == command[session[s].key]
            kept == Decided(row, session[s].to, session[s].from)
        IN  (row.released => kept.released) /\ (row.status # "absent" => kept.status # "absent")
    BY <2>1 DEF Decided, Command
  <2>4. \A k \in Commands : /\ command[k].released => command'[k].released
                            /\ command[k].status # "absent" => command'[k].status # "absent"
    BY <2>2, <2>3 DEF TypeOK
  <2>5. \A k \in Commands : approval[k].status # "absent" => approval'[k].status # "absent"
    BY <1>2, <2>1 DEF TypeOK, Approval, DecideCommit
  <2> QED
    BY <2>4, <2>5
<1>3. ASSUME NEW s \in Sessions, ExpireCommit(s) PROVE RowsGrow
  BY <1>3 DEF TypeOK, Command, Approval, ExpireCommit
<1>4. ASSUME NEW s \in Sessions, PollCommit(s) PROVE RowsGrow
  BY <1>4 DEF TypeOK, Command, PollCommit
<1>5. ASSUME NEW s \in Sessions, TransitionCommit(s) PROVE RowsGrow
  BY <1>5 DEF TypeOK, Command, SessionFacts, TransitionCommit
<1> QED
  BY ZenonT(60), <1>1, <1>2, <1>3, <1>4, <1>5
  DEF Next, vars, Tick, Submit, SubmitRefused, SubmitRead, SubmitConflict, Decide, DecideRead,
      DecideUpdate, DecideReadExpired, ExpireUpdate, PollRead, Transition, AckRead, ResultRead,
      CancelRead, TransitionRead, Crash

LEMMA SessionStep == ControlInv /\ [Next]_vars => SessionFacts'
<1> SUFFICES ASSUME ControlInv, [Next]_vars PROVE SessionFacts'
  OBVIOUS
<1> USE DEF ControlInv
<1> /\ session \in [Sessions -> Session] /\ RowsGrow
    /\ \A s \in Sessions : SessionFit(s)
  BY RowsGrowStep DEF TypeOK, SessionFacts, SessionFit
<1>1. ASSUME NEW s \in Sessions, SessionFit(s)',
             \A t \in Sessions \ {s} : session'[t] = session[t]
      PROVE  SessionFacts'
  <2>1. ASSUME NEW t \in Sessions \ {s} PROVE SessionFit(t)'
    BY <1>1, <2>1 DEF SessionFit, RowsGrow, Session
  <2> QED
    BY <1>1, <2>1 DEF SessionFacts, SessionFit
<1>2. ASSUME NEW s \in Sessions, session' = [session EXCEPT ![s] = Idle]
      PROVE  SessionFacts'
  BY <1>1, <1>2 DEF Idle, SessionFit
<1>3. ASSUME NEW s \in Sessions, NEW k \in Commands, SubmitRead(s, k)
      PROVE  SessionFacts'
  <2>1. SessionFit(s)'
    BY <1>3, EffectiveEffectType DEF SubmitRead, Begin, Idle, SessionFit
  <2> QED
    BY <1>1, <1>3, <2>1 DEF SubmitRead, Begin
<1>4. ASSUME NEW s \in Sessions, NEW k \in Commands,
             NEW target \in {"approved", "rejected"}, NEW version,
             DecideRead(s, k, target, version)
      PROVE  SessionFacts'
  BY <1>1, <1>4 DEF DecideRead, Begin, Idle, SessionFit
<1>5. ASSUME NEW s \in Sessions, DecideUpdate(s)
      PROVE  SessionFacts'
  <2>1. CASE session' = [session EXCEPT ![s] = Idle]
    BY <1>2, <2>1
  <2>2. CASE session' = [session EXCEPT ![s] =
                  [session[s] EXCEPT !.pc = "decided", !.won = TRUE,
                                     !.from = command[session[s].key].status]]
    BY <1>1, <1>5, <2>2 DEF DecideUpdate, SessionFit, Session
  <2> QED
    BY <1>5, <2>1, <2>2 DEF DecideUpdate, Continue
<1>6. ASSUME NEW s \in Sessions, NEW k \in Commands, DecideReadExpired(s, k)
      PROVE  SessionFacts'
  BY <1>1, <1>6 DEF DecideReadExpired, Begin, Idle, SessionFit
<1>7. ASSUME NEW s \in Sessions, ExpireUpdate(s)
      PROVE  SessionFacts'
  BY <1>1, <1>7 DEF ExpireUpdate, Continue, SessionFit, Session
<1>8. ASSUME NEW s \in Sessions, PollRead(s)
      PROVE  SessionFacts'
  <2>1. SessionFit(s)'
    BY <1>8 DEF PollRead, Begin, Batch, Deliverable, Idle, SessionFit
  <2> QED
    BY <1>1, <1>8, <2>1 DEF PollRead, Begin
<1>9. ASSUME NEW s \in Sessions, NEW k \in Commands,
             \/ AckRead(s, k) \/ CancelRead(s, k)
             \/ \E result \in {"succeeded", "failed"} : ResultRead(s, k, result)
      PROVE  SessionFacts'
  <2>1. k \in known => command[k].released
    BY DEF RowFacts
  <2>2. ASSUME NEW target \in {"acknowledged", "succeeded", "failed", "cancelled"},
               target # "cancelled" => command[k].released, TransitionRead(s, k, target)
        PROVE  SessionFacts'
    <3>1. command[k].status # "absent"
      BY <2>2 DEF TransitionRead, Allowed, can_transition, COMMAND_TRANSITIONS, Arrows
    <3> QED
      BY <1>1, <2>2, <3>1 DEF TransitionRead, Begin, Idle, SessionFit
  <2> QED
    BY <1>9, <2>1, <2>2 DEF AckRead, CancelRead, ResultRead
<1>10. ASSUME UNCHANGED session
       PROVE  SessionFacts'
  <2>1. ASSUME NEW t \in Sessions PROVE SessionFit(t)'
    BY <1>10, <2>1 DEF SessionFit, RowsGrow, Session
  <2> QED
    BY <2>1 DEF SessionFacts, SessionFit
<1>11. ASSUME NEW s \in Sessions,
              \/ SubmitCommit(s) \/ SubmitConflict(s) \/ DecideCommit(s) \/ ExpireCommit(s)
              \/ PollCommit(s) \/ TransitionCommit(s) \/ Crash(s)
       PROVE  SessionFacts'
  BY <1>2, <1>11 DEF SubmitCommit, SubmitConflict, DecideCommit, ExpireCommit, PollCommit,
                     TransitionCommit, Crash, End
<1> QED
  BY <1>3, <1>4, <1>5, <1>6, <1>7, <1>8, <1>9, <1>10, <1>11
  DEF Next, vars, Tick, Submit, SubmitRefused, Decide, Transition

-----------------------------------------------------------------------------
\* The invariant, and the safety properties it implies.

THEOREM ControlInvariant == Spec => []ControlInv
<1>1. Init => ControlInv
  BY InitInv
<1>2. ControlInv /\ [Next]_vars => ControlInv'
  BY TypeStep, RowsStep, LockStep, SessionStep DEF ControlInv
<1> QED
  BY <1>1, <1>2, PTL DEF Spec

\* Every variable keeps its type, for any number of commands and sessions.
THEOREM TypeCorrect == Spec => []TypeOK
<1>1. ControlInv => TypeOK
  BY DEF ControlInv
<1> QED
  BY <1>1, ControlInvariant, PTL

\* Gate P5: whatever requests overlap, no poll ever hands out a command whose
\* approval is pending, rejected or expired.
THEOREM GateP5 == Spec => []HandedOnlyIfApproved
<1>1. ControlInv => HandedOnlyIfApproved
  BY DEF ControlInv, RowFacts, HandedOnlyIfApproved
<1> QED
  BY <1>1, ControlInvariant, PTL

\* The approval row and the command it holds back agree after every commit.
THEOREM Agreement == Spec => []ApprovalCommandAgreement
<1>1. ControlInv => ApprovalCommandAgreement
  BY DEF ControlInv
<1> QED
  BY <1>1, ControlInvariant, PTL

\* Two operators never both decide an approval.
THEOREM OneDecision == Spec => []OneAuditedDecision
<1>1. ControlInv => OneAuditedDecision
  BY DEF ControlInv
<1> QED
  BY <1>1, ControlInvariant, PTL

-----------------------------------------------------------------------------
\* The approvals implement the abstract lifecycle.

\* One step leaves the status of an approval alone, creates it pending, or
\* takes a pending one along the machine.
LEMMA ApprovalMoves ==
    ControlInv /\ [Next]_vars =>
        \A k \in Commands :
            /\ approval'[k].status \in ApprovalStates \cup {"absent"}
            /\ ApprovalLife!Advances(approval[k].status, approval'[k].status)
<1> SUFFICES ASSUME ControlInv, [Next]_vars, NEW k \in Commands
             PROVE  ApprovalLife!Advances(approval[k].status, approval'[k].status)
  BY TypeStep DEF ControlInv, TypeOK, Approval
<1> USE DEF ControlInv, ApprovalLife!Advances
<1>1. ASSUME NEW s \in Sessions, SubmitCommit(s)
      PROVE  ApprovalLife!Advances(approval[k].status, approval'[k].status)
  BY <1>1 DEF TypeOK, RowFacts, SubmitCommit
<1>2. ASSUME NEW s \in Sessions, DecideCommit(s)
      PROVE  ApprovalLife!Advances(approval[k].status, approval'[k].status)
  <2>1. /\ approval[session[s].key].status = "pending"
        /\ session[s].to \in {"approved", "rejected"}
    BY <1>2 DEF LockFacts, SessionFacts, DecideCommit
  <2>2. <<"pending", session[s].to>> \in APPROVAL_TRANSITIONS
    BY <2>1 DEF APPROVAL_TRANSITIONS, Arrows
  <2>3. approval'[k].status = IF k = session[s].key THEN session[s].to ELSE approval[k].status
    BY <1>2 DEF TypeOK, Approval, DecideCommit
  <2> QED
    BY <2>1, <2>2, <2>3
<1>3. ASSUME NEW s \in Sessions, ExpireCommit(s)
      PROVE  ApprovalLife!Advances(approval[k].status, approval'[k].status)
  <2>1. session[s].won => approval[session[s].key].status = "pending"
    BY <1>3 DEF LockFacts
  <2>2. <<"pending", "expired">> \in APPROVAL_TRANSITIONS
    BY DEF APPROVAL_TRANSITIONS, Arrows
  <2>3. approval'[k].status = IF session[s].won /\ k = session[s].key THEN "expired"
                              ELSE approval[k].status
    BY <1>3 DEF TypeOK, Approval, ExpireCommit
  <2> QED
    BY <2>1, <2>2, <2>3
<1>4. UNCHANGED approval => ApprovalLife!Advances(approval[k].status, approval'[k].status)
  OBVIOUS
<1> QED
  BY ZenonT(60), <1>1, <1>2, <1>3, <1>4
  DEF Next, vars, Tick, Submit, SubmitRefused, SubmitRead, SubmitConflict, Decide, DecideRead,
      DecideUpdate, DecideReadExpired, ExpireUpdate, PollRead, PollCommit, Transition, AckRead,
      ResultRead, CancelRead, TransitionRead, TransitionCommit, Crash

\* However requests overlap, the approvals behave as rows of the frozen machine:
\* every step of the queue is a step of the lifecycle or leaves it unchanged.
THEOREM ApprovalsImplementMachine == Spec => ApprovalsFollowMachine
<1> DEFINE status == [k \in Commands |-> approval[k].status]
<1>1. Init => ApprovalLife!Init
  BY DEF Init, ApprovalLife!Init, NoApproval
<1>2. ControlInv /\ [Next]_vars => [ApprovalLife!Next]_status
  <2> SUFFICES ASSUME ControlInv, [Next]_vars
               PROVE  ApprovalLife!Next
    OBVIOUS
  <2>1. status' \in [Commands -> ApprovalStates \cup {"absent"}]
    BY ApprovalMoves
  <2>2. \A k \in Commands : ApprovalLife!Advances(status[k], status'[k])
    BY ApprovalMoves
  <2> QED
    BY <2>1, <2>2 DEF ApprovalLife!Next
<1> QED
  BY <1>1, <1>2, ControlInvariant, PTL DEF Spec, ApprovalsFollowMachine, ApprovalLife!Spec


-----------------------------------------------------------------------------
\* Announcements: what an outbox reader learns.

\* What one step does to the row and the events of a command: nothing is unsaid,
\* and a row that changes is announced.
LEMMA AnnouncedStep == ControlInv /\ StatusAnnounced /\ [Next]_vars => StatusAnnounced'
<1> SUFFICES ASSUME ControlInv, StatusAnnounced, [Next]_vars PROVE StatusAnnounced'
  OBVIOUS
<1> DEFINE Told(row, events) ==
             /\ row.released => "command.queued" \in events
             /\ row.status = "cancelled" =>
                    \E reason \in DOMAIN Cancellation : Cancellation[reason] \in events
             /\ \A status \in DOMAIN Signal : row.status = status => Signal[status] \in events
<1>1. \A k \in Commands : Told(command[k], outbox[k])
  BY DEF StatusAnnounced
<1>2. (\A k \in Commands : Told(command'[k], outbox'[k])) => StatusAnnounced'
  BY DEF StatusAnnounced
<1>3. /\ command \in [Commands -> Command] /\ outbox \in [Commands -> SUBSET Events]
      /\ session \in [Sessions -> Session]
  BY DEF ControlInv, TypeOK
<1>4. DOMAIN Cancellation = {"operator_cancel", "approval_rejected", "approval_expired"}
  BY DEF Cancellation
<1>5. DOMAIN Signal = {"delivered", "acknowledged", "succeeded", "failed", "expired"}
  BY DEF Signal
<1>6. ASSUME NEW row, NEW events, Told(row, events), NEW more, events \subseteq more
      PROVE  Told(row, more)
  BY <1>6
<1>7. ASSUME NEW k \in Commands, command'[k] = command[k], outbox[k] \subseteq outbox'[k]
      PROVE  Told(command'[k], outbox'[k])
  BY <1>1, <1>6, <1>7
<1>8. ASSUME UNCHANGED <<command, outbox>> PROVE StatusAnnounced'
  BY <1>8 DEF StatusAnnounced
<1>9. ASSUME NEW s \in Sessions, SubmitCommit(s) PROVE StatusAnnounced'
  <2> DEFINE j == session[s].key
             held == session[s].to = "require_approval"
  <2>1. j \in Commands
    BY <1>9 DEF ControlInv, SessionFacts, SubmitCommit
  <2>2. /\ command' = [command EXCEPT ![j] = [status |-> "queued", released |-> ~held,
                          created |-> session[s].at, expires_at |-> session[s].until]]
        /\ outbox' = [outbox EXCEPT ![j] = @ \cup
                          {IF held THEN "approval.requested" ELSE "command.queued"}]
    BY <1>9 DEF SubmitCommit, Written
  <2> HIDE DEF j, held
  <2>3. ASSUME NEW k \in Commands PROVE Told(command'[k], outbox'[k])
    <3>1. CASE k = j
      BY <1>3, <1>5, <2>1, <2>2, <3>1
    <3>2. CASE k # j
      BY <1>3, <1>7, <2>2, <3>2
    <3> QED
      BY <3>1, <3>2
  <2> QED
    BY <1>2, <2>3
<1>10. ASSUME NEW s \in Sessions, DecideCommit(s) PROVE StatusAnnounced'
  <2> DEFINE j == session[s].key
             to == session[s].to
             from == session[s].from
             event == IF to = "approved" THEN "approval.approved" ELSE "approval.rejected"
             linked == IF from # "queued" THEN {}
                       ELSE IF to = "approved" THEN {"command.queued"}
                       ELSE {Cancellation.approval_rejected}
  <2>1. j \in Commands /\ to \in {"approved", "rejected"}
    BY <1>10 DEF ControlInv, SessionFacts, DecideCommit
  <2>2. /\ command' = [command EXCEPT ![j] = Decided(@, to, from)]
        /\ outbox' = [outbox EXCEPT ![j] = @ \cup ({event} \cup linked)]
    BY <1>10 DEF DecideCommit, Written
  <2>3. ASSUME NEW k \in Commands PROVE Told(command'[k], outbox'[k])
    <3>1. CASE k = j /\ from = "queued" /\ to = "approved"
      <4>1. /\ command'[k].status = command[k].status
            /\ outbox'[k] = outbox[k] \cup {event, "command.queued"}
        BY <1>3, <2>2, <3>1 DEF Decided, Command
      <4> QED
        BY <1>1, <4>1
    <3>2. CASE k = j /\ from = "queued" /\ to # "approved"
      <4>1. /\ command'[k].status = "cancelled" /\ command'[k].released = command[k].released
            /\ outbox'[k] = outbox[k] \cup {event, Cancellation.approval_rejected}
        BY <1>3, <2>2, <3>2 DEF Decided, Command
      <4> QED
        BY <1>1, <1>4, <1>5, <4>1
    <3>3. CASE k # j \/ from # "queued"
      <4>1. command'[k] = command[k] /\ outbox[k] \subseteq outbox'[k]
        BY <1>3, <2>2, <3>3 DEF Decided
      <4> QED
        BY <1>7, <4>1
    <3> QED
      BY <3>1, <3>2, <3>3
  <2> QED
    BY <1>2, <2>3
<1>11. ASSUME NEW s \in Sessions, ExpireCommit(s) PROVE StatusAnnounced'
  <2> DEFINE j == session[s].key
  <2>1. /\ command' = IF session[s].from = "queued"
                      THEN [command EXCEPT ![j].status = "cancelled"] ELSE command
        /\ outbox' = [outbox EXCEPT ![j] = @ \cup
                         IF session[s].from = "queued" THEN {Cancellation.approval_expired} ELSE {}]
    BY <1>11 DEF ExpireCommit, Written
  <2>2. ASSUME NEW k \in Commands PROVE Told(command'[k], outbox'[k])
    <3>1. CASE k = j /\ session[s].from = "queued"
      <4>1. /\ command'[k].status = "cancelled" /\ command'[k].released = command[k].released
            /\ outbox'[k] = outbox[k] \cup {Cancellation.approval_expired}
        BY <1>3, <2>1, <3>1 DEF Command
      <4> QED
        BY <1>1, <1>4, <1>5, <4>1
    <3>2. CASE ~(k = j /\ session[s].from = "queued")
      <4>1. command'[k] = command[k] /\ outbox[k] \subseteq outbox'[k]
        BY <1>3, <2>1, <3>2
      <4> QED
        BY <1>7, <4>1
    <3> QED
      BY <3>1, <3>2
  <2> QED
    BY <1>2, <2>2
<1>12. ASSUME NEW s \in Sessions, PollCommit(s) PROVE StatusAnnounced'
  <2> DEFINE deliver == session[s].deliver
             lapse == session[s].lapse
  <2>1. /\ command' = [k \in Commands |->
               IF k \in deliver \cup lapse
               THEN [command[k] EXCEPT !.status =
                        IF k \in deliver THEN "delivered" ELSE "expired"]
               ELSE command[k]]
        /\ outbox' = [k \in Commands |->
               outbox[k] \cup (IF k \in deliver THEN {"command.delivered"} ELSE {})
                         \cup (IF k \in lapse THEN {"command.expired"} ELSE {})]
    BY <1>12 DEF PollCommit
  <2> HIDE DEF deliver, lapse
  <2>2. ASSUME NEW k \in Commands PROVE Told(command'[k], outbox'[k])
    <3>1. outbox[k] \subseteq outbox'[k]
      BY <2>1
    <3>2. CASE k \in deliver
      <4>1. /\ command'[k].status = "delivered" /\ command'[k].released = command[k].released
            /\ "command.delivered" \in outbox'[k]
        BY <1>3, <2>1, <3>2 DEF Command
      <4> QED
        BY <1>1, <1>5, <3>1, <4>1 DEF Signal
    <3>3. CASE k \in lapse \ deliver
      <4>1. /\ command'[k].status = "expired" /\ command'[k].released = command[k].released
            /\ "command.expired" \in outbox'[k]
        BY <1>3, <2>1, <3>3 DEF Command
      <4> QED
        BY <1>1, <1>5, <3>1, <4>1 DEF Signal
    <3>4. CASE k \notin deliver \cup lapse
      BY <1>7, <2>1, <3>1, <3>4
    <3> QED
      BY <3>2, <3>3, <3>4
  <2> QED
    BY <1>2, <2>2
<1>13. ASSUME NEW s \in Sessions, TransitionCommit(s) PROVE StatusAnnounced'
  <2> DEFINE j == session[s].key
             to == session[s].to
  <2>1. /\ command' = IF session[s].from = to THEN command
                      ELSE [command EXCEPT ![j].status = to]
        /\ outbox' = [outbox EXCEPT ![j] = @ \cup {Announces(to)}]
    BY <1>13 DEF TransitionCommit, Written
  <2>2. to \in {"acknowledged", "succeeded", "failed", "cancelled"}
    BY <1>13 DEF ControlInv, SessionFacts, TransitionCommit
  <2>3. /\ to = "cancelled" => Announces(to) = Cancellation.operator_cancel
        /\ \A status \in DOMAIN Signal : to = status => Announces(to) = Signal[status]
    <3>1. CASE to = "acknowledged"  BY <1>5, <3>1 DEF Announces, Signal
    <3>2. CASE to = "succeeded"     BY <1>5, <3>2 DEF Announces, Signal
    <3>3. CASE to = "failed"        BY <1>5, <3>3 DEF Announces, Signal
    <3>4. CASE to = "cancelled"     BY <1>5, <3>4 DEF Announces
    <3> QED  BY <2>2, <3>1, <3>2, <3>3, <3>4
  <2> HIDE DEF to
  <2>4. ASSUME NEW k \in Commands PROVE Told(command'[k], outbox'[k])
    <3>1. CASE k = j /\ session[s].from # to
      <4>1. /\ command'[k].status = to /\ command'[k].released = command[k].released
            /\ outbox'[k] = outbox[k] \cup {Announces(to)}
        BY <1>3, <2>1, <3>1 DEF Command
      <4> QED
        BY <1>1, <1>4, <2>3, <4>1
    <3>2. CASE ~(k = j /\ session[s].from # to)
      <4>1. command'[k] = command[k] /\ outbox[k] \subseteq outbox'[k]
        BY <1>3, <2>1, <3>2
      <4> QED
        BY <1>7, <4>1
    <3> QED
      BY <3>1, <3>2
  <2> QED
    BY <1>2, <2>4
<1> QED
  BY <1>8, <1>9, <1>10, <1>11, <1>12, <1>13
  DEF Next, vars, Tick, Submit, SubmitRefused, SubmitRead, SubmitConflict, Decide, DecideRead,
      DecideUpdate, DecideReadExpired, ExpireUpdate, PollRead, Transition, AckRead,
      ResultRead, CancelRead, TransitionRead, Crash

\* Whatever overlaps and whoever overwrites whom, every status a command is in, and
\* its release, was announced in the outbox.
THEOREM EveryStatusAnnounced == Spec => []StatusAnnounced
<1>1. Init => StatusAnnounced
  BY DEF Init, StatusAnnounced, Absent, Signal
<1> QED
  BY <1>1, AnnouncedStep, ControlInvariant, PTL DEF Spec

-----------------------------------------------------------------------------
\* What a session that commits had read, whatever happened to the row since.

\* A command is either delivered or lapses, and the machine was consulted for what is
\* written, on the status that was read.
ReadSound(s) ==
    /\ session[s].deliver \cap session[s].lapse = {}
    /\ session[s].pc = "transition" => Allowed(session[s].from, session[s].to)

ReadsSound == \A s \in Sessions : ReadSound(s)

\* The requests of one session.
Acts(t) == \/ Submit(t) \/ Decide(t) \/ PollRead(t) \/ PollCommit(t)
           \/ Transition(t) \/ Crash(t)

LEMMA ReadsOwn ==
    ASSUME TypeOK, NEW s \in Sessions, ReadSound(s), Acts(s)
    PROVE  ReadSound(s)'
<1> session \in [Sessions -> Session]
  BY DEF TypeOK
<1>1. ASSUME UNCHANGED session PROVE ReadSound(s)'
  BY <1>1 DEF ReadSound
<1>2. ASSUME session' = [session EXCEPT ![s] = Idle] PROVE ReadSound(s)'
  BY <1>2 DEF ReadSound, Idle
<1>3. ASSUME NEW k \in Commands, SubmitRead(s, k) \/ DecideReadExpired(s, k)
      PROVE  ReadSound(s)'
  <2>1. /\ session'[s].pc \in {"submit", "expire"}
        /\ session'[s].deliver = {} /\ session'[s].lapse = {}
    BY ZenonT(60), <1>3 DEF SubmitRead, DecideReadExpired, Begin, Idle
  <2> QED
    BY <2>1 DEF ReadSound
<1>4. ASSUME NEW k \in Commands, NEW target, NEW version, DecideRead(s, k, target, version)
      PROVE  ReadSound(s)'
  BY <1>4 DEF DecideRead, Begin, Idle, ReadSound
<1>5. ASSUME DecideUpdate(s) PROVE ReadSound(s)'
  <2>1. CASE session' = [session EXCEPT ![s] = Idle]
    BY <1>2, <2>1
  <2>2. CASE session' = [session EXCEPT ![s] =
                  [session[s] EXCEPT !.pc = "decided", !.won = TRUE,
                                       !.from = command[session[s].key].status]]
    BY <1>5, <2>2 DEF DecideUpdate, ReadSound, Session
  <2> QED
    BY <1>5, <2>1, <2>2 DEF DecideUpdate, Continue
<1>6. ASSUME ExpireUpdate(s) PROVE ReadSound(s)'
  BY <1>6 DEF ExpireUpdate, Continue, ReadSound, Session
<1>7. ASSUME PollRead(s) PROVE ReadSound(s)'
  <2>1. PICK deliver \in SUBSET Commands, lapse \in SUBSET Commands :
          /\ Batch(deliver, lapse)
          /\ session' = [session EXCEPT ![s] =
               [Idle EXCEPT !.pc = "poll", !.deliver = deliver, !.lapse = lapse]]
    BY <1>7 DEF PollRead, Begin
  <2>2. /\ \A k \in deliver : ~is_expired(command[k])
        /\ \A k \in lapse : is_expired(command[k])
    BY <2>1 DEF Batch
  <2>3. deliver \cap lapse = {}
    BY <2>2
  <2> QED
    BY <1>7, <2>1, <2>3 DEF PollRead, Idle, ReadSound
<1>8. ASSUME NEW k \in Commands, NEW target, TransitionRead(s, k, target)
      PROVE  ReadSound(s)'
  BY <1>8 DEF TransitionRead, Begin, Idle, ReadSound
<1> QED
  BY <1>1, <1>2, <1>3, <1>4, <1>5, <1>6, <1>7, <1>8
  DEF Acts, Submit, SubmitRefused, SubmitConflict, SubmitCommit, Decide,
      DecideCommit, ExpireCommit, PollCommit, Transition, AckRead, ResultRead, CancelRead,
      TransitionCommit, Crash, End

\* A session leaves alone what the others have read.
LEMMA OthersKept ==
    ASSUME TypeOK, NEW t \in Sessions, Acts(t), NEW s \in Sessions \ {t}
    PROVE  session'[s] = session[s]
BY DEF TypeOK, Acts, Submit, SubmitRefused, SubmitRead, SubmitCommit, SubmitConflict, Decide,
      DecideRead, DecideUpdate, DecideCommit, DecideReadExpired, ExpireUpdate, ExpireCommit,
      PollRead, PollCommit, Transition, AckRead, ResultRead, CancelRead, TransitionRead,
      TransitionCommit, Crash, Begin, Continue, End

LEMMA ReadsSoundInvariant == Spec => []ReadsSound
<1>1. Init => ReadsSound
  BY DEF Init, ReadsSound, ReadSound, Idle
<1>2. TypeOK /\ ReadsSound /\ [Next]_vars => ReadsSound'
  <2> SUFFICES ASSUME TypeOK, ReadsSound, [Next]_vars, NEW s \in Sessions
               PROVE  ReadSound(s)'
    BY DEF ReadsSound
  <2>1. CASE UNCHANGED session
    BY <2>1 DEF ReadsSound, ReadSound
  <2>2. ASSUME NEW t \in Sessions, Acts(t) PROVE ReadSound(s)'
    <3>1. CASE s = t
      BY <2>2, <3>1, ReadsOwn DEF ReadsSound
    <3>2. CASE s # t
      <4>1. session'[s] = session[s]
        BY <2>2, <3>2, OthersKept
      <4> QED
        BY <4>1 DEF ReadsSound, ReadSound
    <3> QED
      BY <3>1, <3>2
  <2> QED
    BY <2>1, <2>2 DEF Next, vars, Tick, Acts
<1> QED
  BY <1>1, <1>2, TypeCorrect, PTL DEF Spec

\* What one step does to the status of a command.
Moved(k) ==
    \/ command'[k].status = command[k].status
    \/ command[k].status = "absent" /\ command'[k].status = "queued"
    \/ \E s \in Sessions : MovesWhatItRead(s, k)

LEMMA MovedStep ==
    ControlInv /\ ReadsSound /\ [Next]_vars => \A k \in Commands : Moved(k)
<1> SUFFICES ASSUME ControlInv, ReadsSound, [Next]_vars, NEW k \in Commands PROVE Moved(k)
  OBVIOUS
<1> /\ command \in [Commands -> Command] /\ session \in [Sessions -> Session]
  BY DEF ControlInv, TypeOK
<1>0. /\ can_transition(COMMAND_TRANSITIONS, "queued", "cancelled")
      /\ can_transition(COMMAND_TRANSITIONS, "queued", "delivered")
      /\ can_transition(COMMAND_TRANSITIONS, "queued", "expired")
  BY DEF can_transition, COMMAND_TRANSITIONS, Arrows
<1>1. ASSUME UNCHANGED command PROVE Moved(k)
  BY <1>1 DEF Moved
<1>2. ASSUME NEW s \in Sessions, SubmitCommit(s) PROVE Moved(k)
  BY <1>2 DEF SubmitCommit, Moved
<1>3. ASSUME NEW s \in Sessions, DecideCommit(s) PROVE Moved(k)
  <2>1. CASE /\ k = session[s].key
             /\ session[s].from = "queued" /\ session[s].to # "approved"
    <3>1. command'[k].status = "cancelled"
      BY <1>3, <2>1 DEF DecideCommit, Decided, Command
    <3>2. session'[s] = Idle /\ k \in Holds(s) /\ ReadAs(s) = "queued"
      BY <1>3, <2>1 DEF DecideCommit, End, Holds, ReadAs
    <3> QED
      BY <1>0, <3>1, <3>2 DEF Moved, MovesWhatItRead
  <2>2. CASE ~(/\ k = session[s].key
               /\ session[s].from = "queued" /\ session[s].to # "approved")
    <3>1. command'[k].status = command[k].status
      BY <1>3, <2>2 DEF DecideCommit, Decided, Command
    <3> QED
      BY <3>1 DEF Moved
  <2> QED
    BY <2>1, <2>2
<1>4. ASSUME NEW s \in Sessions, ExpireCommit(s) PROVE Moved(k)
  <2>1. CASE k = session[s].key /\ session[s].from = "queued"
    <3>1. command'[k].status = "cancelled"
      BY <1>4, <2>1 DEF ExpireCommit, Command
    <3>2. session'[s] = Idle /\ k \in Holds(s) /\ ReadAs(s) = "queued"
      BY <1>4, <2>1 DEF ExpireCommit, End, Holds, ReadAs
    <3> QED
      BY <1>0, <3>1, <3>2 DEF Moved, MovesWhatItRead
  <2>2. CASE ~(k = session[s].key /\ session[s].from = "queued")
    <3>1. command'[k] = command[k]
      BY <1>4, <2>2 DEF ExpireCommit
    <3> QED
      BY <3>1 DEF Moved
  <2> QED
    BY <2>1, <2>2
<1>5. ASSUME NEW s \in Sessions, PollCommit(s) PROVE Moved(k)
  <2>1. CASE k \in session[s].deliver \cup session[s].lapse
    <3>1. command'[k].status \in {"delivered", "expired"}
      BY <1>5, <2>1 DEF PollCommit, Command
    <3>2. session'[s] = Idle /\ k \in Holds(s) /\ ReadAs(s) = "queued"
      BY <1>5, <2>1 DEF PollCommit, End, Holds, ReadAs
    <3> QED
      BY <1>0, <3>1, <3>2 DEF Moved, MovesWhatItRead
  <2>2. CASE k \notin session[s].deliver \cup session[s].lapse
    <3>1. command'[k] = command[k]
      BY <1>5, <2>2 DEF PollCommit
    <3> QED
      BY <3>1 DEF Moved
  <2> QED
    BY <2>1, <2>2
<1>6. ASSUME NEW s \in Sessions, TransitionCommit(s) PROVE Moved(k)
  <2>1. CASE k = session[s].key /\ session[s].from # session[s].to
    <3>1. command'[k].status = session[s].to
      BY <1>6, <2>1 DEF TransitionCommit, Command
    <3>2. session'[s] = Idle /\ k \in Holds(s) /\ ReadAs(s) = session[s].from
      BY <1>6, <2>1 DEF TransitionCommit, End, Holds, ReadAs
    <3>3. can_transition(COMMAND_TRANSITIONS, session[s].from, session[s].to)
      BY <1>6, <2>1 DEF TransitionCommit, ReadsSound, ReadSound, Allowed
    <3> QED
      BY <3>1, <3>2, <3>3 DEF Moved, MovesWhatItRead
  <2>2. CASE ~(k = session[s].key /\ session[s].from # session[s].to)
    <3>1. command'[k] = command[k]
      BY <1>6, <2>2 DEF TransitionCommit
    <3> QED
      BY <3>1 DEF Moved
  <2> QED
    BY <2>1, <2>2
<1> QED
  BY <1>1, <1>2, <1>3, <1>4, <1>5, <1>6
  DEF Next, vars, Tick, Submit, SubmitRefused, SubmitRead, SubmitConflict, Decide, DecideRead,
      DecideUpdate, DecideReadExpired, ExpireUpdate, PollRead, Transition, AckRead,
      ResultRead, CancelRead, TransitionRead, Crash

\* Whatever requests overlap, a command is born in the queue and is moved along its
\* machine from the status that the request which writes it had read.
THEOREM CommandsMoved == Spec => CommandsMoveFromRead
<1>1. ControlInv /\ ReadsSound /\ [Next]_vars => [\A k \in Commands : Moved(k)]_vars
  BY MovedStep
<1> QED
  BY <1>1, ControlInvariant, ReadsSoundInvariant, PTL DEF Spec, CommandsMoveFromRead, Moved

-----------------------------------------------------------------------------
\* How often a command is handed to the agent.

\* The polls that have read the command and are about to put it in their answer.
Takers(k) == {s \in Sessions : k \in session[s].deliver}

\* A command of the queue was never handed; one that left it can still be handed by
\* the polls that took it before, and by no other.
Handing(k) ==
    /\ command[k].status \in {"absent", "queued"} => handed[k] = 0
    /\ handed[k] + Cardinality(Takers(k)) <= Cardinality(Sessions)

HandingInv == \A k \in Commands : Handing(k)

LEMMA TakersCounted ==
    ASSUME NEW k
    PROVE  /\ IsFiniteSet(Takers(k)) /\ Cardinality(Takers(k)) \in Nat
           /\ Cardinality(Sessions) \in Nat /\ Cardinality(Takers(k)) <= Cardinality(Sessions)
<1>1. Takers(k) \subseteq Sessions
  BY DEF Takers
<1> QED
  BY <1>1, FS_Subset, FS_CardinalityType, ControlAssumption DEF ControlAssumption

\* No step hands the command, and no poll joins those that took it.
LEMMA HandingKept ==
    ASSUME NEW k, Handing(k), handed'[k] = handed[k], handed[k] \in Nat,
           command'[k].status \in {"absent", "queued"} =>
               command[k].status \in {"absent", "queued"},
           Takers(k)' \subseteq Takers(k)
    PROVE  Handing(k)'
<1>1. Cardinality(Takers(k)') <= Cardinality(Takers(k)) /\ Cardinality(Takers(k)') \in Nat
  BY TakersCounted, FS_Subset, FS_CardinalityType
<1> QED
  BY <1>1, TakersCounted DEF Handing

\* The polls that took the command are those that had, and among them only one whose
\* request has just begun is new.
LEMMA TakersStep ==
    ASSUME TypeOK, [Next]_vars, NEW k, ~\E s \in Sessions : PollRead(s)
    PROVE  Takers(k)' \subseteq Takers(k)
<1> SUFFICES ASSUME NEW s \in Sessions, k \in session'[s].deliver
             PROVE  k \in session[s].deliver
  BY DEF Takers
<1> session \in [Sessions -> Session]
  BY DEF TypeOK
<1>1. CASE UNCHANGED session
  BY <1>1
<1>2. ASSUME NEW t \in Sessions, Acts(t), ~PollRead(t) PROVE k \in session[s].deliver
  <2>1. CASE s # t
    BY <1>2, <2>1, OthersKept
  <2>2. CASE s = t
    <3>1. ASSUME NEW j \in Commands, SubmitRead(t, j) \/ DecideReadExpired(t, j) PROVE FALSE
      <4>1. session'[t].deliver = {}
        BY ZenonT(60), <3>1 DEF SubmitRead, DecideReadExpired, Begin, Idle
      <4> QED
        BY <2>2, <4>1
    <3>2. ASSUME NEW j \in Commands, NEW target, NEW version,
                 DecideRead(t, j, target, version) \/ TransitionRead(t, j, target)
          PROVE  FALSE
      BY <2>2, <3>2 DEF DecideRead, TransitionRead, Begin, Idle
    <3>3. ASSUME session' = [session EXCEPT ![t] = Idle] PROVE FALSE
      BY <2>2, <3>3 DEF Idle
    <3>4. ASSUME DecideUpdate(t) \/ ExpireUpdate(t) PROVE k \in session[s].deliver
      <4>1. PICK txn : session' = [session EXCEPT ![t] = txn]
                         /\ (txn = Idle \/ txn.deliver = session[t].deliver)
        <5>1. CASE DecideUpdate(t)
          <6>1. CASE session' = [session EXCEPT ![t] = Idle]
            BY <6>1
          <6>2. CASE session' = [session EXCEPT ![t] =
                  [session[t] EXCEPT !.pc = "decided", !.won = TRUE,
                                     !.from = command[session[t].key].status]]
            <7>1. [session[t] EXCEPT !.pc = "decided", !.won = TRUE,
                      !.from = command[session[t].key].status].deliver = session[t].deliver
              BY DEF Session
            <7> QED
              BY <6>2, <7>1
          <6> QED
            BY <5>1, <6>1, <6>2 DEF DecideUpdate, Continue
        <5>2. CASE ExpireUpdate(t)
          <6> DEFINE txn == [session[t] EXCEPT !.pc = "expired",
                                 !.won = (approval[session[t].key].status = "pending"),
                                 !.from = command[session[t].key].status]
          <6>1. txn.deliver = session[t].deliver
            BY DEF Session
          <6>2. session' = [session EXCEPT ![t] = txn]
            BY <5>2 DEF ExpireUpdate, Continue
          <6> QED
            BY <6>1, <6>2
        <5> QED
          BY <3>4, <5>1, <5>2
      <4> QED
        BY <2>2, <3>3, <4>1
    <3> QED
      BY <1>1, <1>2, <3>1, <3>2, <3>3, <3>4
      DEF Acts, Submit, SubmitRefused, SubmitConflict, SubmitCommit, Decide,
          DecideCommit, ExpireCommit, PollCommit, Transition, AckRead, ResultRead,
          CancelRead, TransitionCommit, Crash, End
  <2> QED
    BY <2>1, <2>2
<1> QED
  BY <1>1, <1>2 DEF Next, vars, Tick, Acts

LEMMA HandingStep == ControlInv /\ HandingInv /\ ReadsSound /\ [Next]_vars => HandingInv'
<1> SUFFICES ASSUME ControlInv, HandingInv, ReadsSound, [Next]_vars, NEW k \in Commands
             PROVE  Handing(k)'
  BY DEF HandingInv
<1>0. /\ TypeOK /\ Handing(k) /\ handed[k] \in Nat
      /\ command \in [Commands -> Command] /\ session \in [Sessions -> Session]
  BY DEF ControlInv, TypeOK, HandingInv
<1>1. ASSUME NEW s \in Sessions, PollRead(s) PROVE Handing(k)'
  <2>1. PICK deliver \in SUBSET Commands, lapse \in SUBSET Commands :
          /\ Batch(deliver, lapse)
          /\ session[s] = Idle
          /\ session' = [session EXCEPT ![s] =
               [Idle EXCEPT !.pc = "poll", !.deliver = deliver, !.lapse = lapse]]
    BY <1>1 DEF PollRead, Begin
  <2>2. UNCHANGED <<command, handed>>
    BY <1>1 DEF PollRead
  <2>3. CASE k \in deliver
    <3>1. handed[k] = 0
      BY <1>0, <2>1, <2>3 DEF Batch, Deliverable, Handing
    <3>2. Cardinality(Takers(k)') <= Cardinality(Sessions) /\ Cardinality(Takers(k)') \in Nat
      <4>1. Takers(k)' \subseteq Sessions
        BY DEF Takers
      <4> QED
        BY <4>1, FS_Subset, FS_CardinalityType, ControlAssumption DEF ControlAssumption
    <3> QED
      BY <2>2, <3>1, <3>2 DEF Handing
  <2>4. CASE k \notin deliver
    <3>1. Takers(k)' \subseteq Takers(k)
      BY <1>0, <2>1, <2>4 DEF Takers, Idle
    <3> QED
      BY <1>0, <2>2, <3>1, HandingKept
  <2> QED
    BY <2>3, <2>4
<1>2. ASSUME NEW s \in Sessions, PollCommit(s), ~\E t \in Sessions : PollRead(t)
      PROVE  Handing(k)'
  <2>1. /\ command'[k] = IF k \in session[s].deliver \cup session[s].lapse
                         THEN [command[k] EXCEPT !.status =
                                  IF k \in session[s].deliver THEN "delivered" ELSE "expired"]
                         ELSE command[k]
        /\ handed'[k] = IF k \in session[s].deliver THEN handed[k] + 1 ELSE handed[k]
        /\ session' = [session EXCEPT ![s] = Idle]
    BY <1>2 DEF PollCommit, End
  <2>2. Takers(k)' \subseteq Takers(k)
    BY <1>0, <1>2, TakersStep
  <2>3. CASE k \in session[s].deliver
    <3>1. command'[k].status = "delivered" /\ handed'[k] = handed[k] + 1
      BY <1>0, <2>1, <2>3 DEF Command
    <3>2. s \in Takers(k) /\ Takers(k)' \subseteq Takers(k) \ {s}
      BY <1>0, <2>1, <2>2, <2>3 DEF Takers, Idle
    <3>3. /\ Cardinality(Takers(k) \ {s}) = Cardinality(Takers(k)) - 1
          /\ IsFiniteSet(Takers(k) \ {s})
      BY <3>2, TakersCounted, FS_RemoveElement
    <3>4. /\ Cardinality(Takers(k)') <= Cardinality(Takers(k)) - 1
          /\ Cardinality(Takers(k)') \in Nat
      BY <3>2, <3>3, FS_Subset, FS_CardinalityType
    <3> QED
      BY <1>0, <3>1, <3>4, TakersCounted DEF Handing
  <2>4. CASE k \notin session[s].deliver
    <3>1. /\ handed'[k] = handed[k]
          /\ command'[k].status \in {"absent", "queued"} => command'[k] = command[k]
      BY <1>0, <2>1, <2>4 DEF Command
    <3> QED
      BY <1>0, <2>2, <3>1, HandingKept
  <2> QED
    BY <2>3, <2>4
<1>3. ASSUME ~\E s \in Sessions : PollRead(s) \/ PollCommit(s) PROVE Handing(k)'
  <2>1. handed' = handed
    BY <1>3 DEF Next, vars, Tick, Submit, SubmitRefused, SubmitRead, SubmitCommit,
      SubmitConflict, Decide, DecideRead, DecideUpdate, DecideCommit, DecideReadExpired,
      ExpireUpdate, ExpireCommit, Transition, AckRead, ResultRead, CancelRead,
      TransitionRead, TransitionCommit, Crash
  <2>2. Takers(k)' \subseteq Takers(k)
    BY <1>0, <1>3, TakersStep
  <2>3. command'[k].status \in {"absent", "queued"} =>
            command[k].status \in {"absent", "queued"}
    <3>1. CASE command'[k].status = command[k].status
      BY <3>1
    <3>2. CASE \E s \in Sessions : MovesWhatItRead(s, k)
      BY <3>2 DEF MovesWhatItRead, can_transition, COMMAND_TRANSITIONS, Arrows
    <3> QED
      BY <3>1, <3>2, MovedStep DEF Moved
  <2> QED
    BY <1>0, <2>1, <2>2, <2>3, HandingKept
<1> QED
  BY <1>1, <1>2, <1>3

\* However long the agent polls and whatever is lost, a command is handed to it no
\* more often than requests are served at once: by the first poll and by those that
\* had read it when the first one committed.
THEOREM HandedAgainByOverlap == Spec => []HandedOncePerOverlap
<1>1. Init => HandingInv
  <2> SUFFICES ASSUME Init, NEW k \in Commands PROVE Handing(k)
    BY DEF HandingInv
  <2> QED
    BY TakersCounted DEF Init, Handing
<1>2. TypeOK /\ HandingInv => HandedOncePerOverlap
  <2> SUFFICES ASSUME TypeOK, HandingInv, NEW k \in Commands
               PROVE  handed[k] <= Cardinality(Sessions)
    BY DEF HandedOncePerOverlap
  <2> QED
    BY TakersCounted DEF HandingInv, Handing, TypeOK
<1> QED
  BY <1>1, <1>2, HandingStep, ControlInvariant, TypeCorrect, ReadsSoundInvariant, PTL DEF Spec

=============================================================================
