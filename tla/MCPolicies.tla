------------------------------ MODULE MCPolicies ------------------------------
(***************************************************************************)
(* Instances of Policies for TLC.                                          *)
(***************************************************************************)
EXTENDS Policies, TLC

Draft(scope_type, scope_id, action_type, priority, effect) ==
    [status |-> "active", version |-> 1, scope_type |-> scope_type, scope_id |-> scope_id,
     action_type |-> action_type, priority |-> priority, effect |-> effect]

\* Drafts that differ in one criterion or in two that disagree.
MCDrafts ==
    {Draft("installation", "none", "*", 1, "deny"),
     Draft("installation", "none", "deploy", 0, "require_approval"),
     Draft("project", "p1", "*", 0, "allow"),
     Draft("agent", "a1", "deploy", 0, "allow")}

\* A form sends the status with the rest; another moves the scope to an agent, which
\* only a policy that names one may do, and widens the action.
MCChanges ==
    {"priority" :> 1 @@ "status" :> "active", "action_type" :> "*" @@ "scope_type" :> "agent"}

MCActions == [agent : {"a1", "a2"}, command_type : {"deploy", "restart"}, project : {"p1", "none"}]

Symmetry == Permutations(Edits)

=============================================================================
