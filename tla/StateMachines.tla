---------------------------- MODULE StateMachines ----------------------------
(***************************************************************************)
(* The frozen state machines of the V1 control plane                       *)
(* (apps/api/integrations/state_machines.py).  A machine is the relation   *)
(* of its allowed transitions: a set of pairs <<source, target>>.  A state *)
(* with no outgoing pair is terminal.                                      *)
(***************************************************************************)
EXTENDS Naturals

Arrows(src, targets) == {src} \X targets

RunStates == {"queued", "starting", "running", "waiting_approval", "blocked",
              "succeeded", "failed", "cancelled", "timed_out"}

CommandStates == {"queued", "delivered", "acknowledged", "succeeded",
                  "failed", "expired", "cancelled"}

ApprovalStates == {"pending", "approved", "rejected", "expired", "cancelled"}

AlertStates == {"open", "acknowledged", "resolved"}

CredentialStates == {"active", "revoked", "expired"}

RUN_TRANSITIONS ==
    Arrows("queued", {"starting", "cancelled", "timed_out"})
      \cup Arrows("starting", {"running", "failed", "cancelled"})
      \cup Arrows("running", {"waiting_approval", "blocked", "succeeded",
                            "failed", "cancelled", "timed_out"})
      \cup ({"waiting_approval", "blocked"}
              \X {"running", "cancelled", "timed_out", "failed"})

COMMAND_TRANSITIONS ==
    Arrows("queued", {"delivered", "expired", "cancelled"})
      \cup Arrows("delivered", {"acknowledged", "expired", "cancelled"})
      \cup Arrows("acknowledged", {"succeeded", "failed"})

APPROVAL_TRANSITIONS ==
    Arrows("pending", {"approved", "rejected", "expired", "cancelled"})

ALERT_TRANSITIONS ==
    Arrows("open", {"acknowledged", "resolved"})
      \cup Arrows("acknowledged", {"resolved"})

CREDENTIAL_TRANSITIONS == Arrows("active", {"revoked", "expired"})

can_transition(machine, src, dst) == <<src, dst>> \in machine

\* Where at most n transitions lead: one database transaction may take several.
paths(machine, n) ==
    LET reach[k \in 0..n] ==
            IF k = 0 THEN {}
            ELSE machine \cup {<<pq[1][1], pq[2][2]>> :
                     pq \in {x \in reach[k - 1] \X machine : x[1][2] = x[2][1]}}
    IN  reach[n]

terminal_states(states, machine) ==
    {s \in states : \A t \in states : ~can_transition(machine, s, t)}

=============================================================================
