------------------------------- MODULE Policies -------------------------------
(***************************************************************************)
(* The policies a submission is judged by (apps/api/agent_control/control/ *)
(* policies.py): which one wins, and how administrators create, edit and   *)
(* disable them while others do.                                           *)
(*                                                                         *)
(* CommandControl takes the effect of a submission as any of the three;    *)
(* this module says which.  An edit reads the row, then writes the columns *)
(* it changed; a disabling is one statement.  One installation.            *)
(***************************************************************************)
EXTENDS Integers, FiniteSets

CONSTANTS Policies,   \* policies, numbered in the order of their creation
          Drafts,     \* the columns a policy may be created with
          Changes,    \* what an edit may change: columns and their new values
          Actions,    \* what is judged: agent, command type, project
          Default,    \* MC_POLICY_DEFAULT_EFFECT
          Edits,      \* edits in flight
          MaxVersion  \* bound on the edits of a policy

SCOPE_SPECIFICITY == [agent |-> 3, project |-> 2, installation |-> 1]

Effects == {"allow", "deny", "require_approval"}

\* The columns, and what each may hold: the rest is not looked at, and the edit
\* takes an empty scope for none.
Columns == {"status", "priority", "scope_type", "scope_id", "action_type", "effect"}

Fits(column, value) ==
    /\ column = "priority" => value \in Int
    /\ column = "scope_type" => value \in DOMAIN SCOPE_SPECIFICITY \cup {""}
    /\ column = "effect" => value \in Effects

IsRow(row) ==
    /\ DOMAIN row = Columns \cup {"version"}
    /\ row.version \in 1..MaxVersion
    /\ \A c \in Columns : Fits(c, row[c])

\* The scope of an agent or of a project names it.
ScopeNamed(row) == row.scope_type \in {"agent", "project"} => row.scope_id # "none"

ASSUME PoliciesAssumption ==
    /\ Policies \subseteq Nat
    /\ IsFiniteSet(Policies)
    /\ MaxVersion \in Nat \ {0}
    /\ \A draft \in Drafts : IsRow(draft) /\ draft.version = 1 /\ ScopeNamed(draft)
    /\ \A change \in Changes :
          /\ DOMAIN change \subseteq Columns
          /\ \A c \in DOMAIN change : Fits(c, change[c])
          /\ "scope_id" \in DOMAIN change => change.scope_id # "none"

VARIABLES policy,  \* agent_policies
          edit     \* what each edit has read

policyVars == <<policy, edit>>

Absent == [status |-> "absent"]

NoEdit == [pc |-> "idle"]

Existing == {p \in Policies : policy[p] # Absent}

-----------------------------------------------------------------------------
\* Evaluation.

\* _matches.
Matches(row, act) ==
    /\ \/ row.scope_type = "installation"
       \/ row.scope_type = "agent" /\ row.scope_id = act.agent
       \/ row.scope_type = "project" /\ act.project # "none" /\ row.scope_id = act.project
    /\ row.action_type \in {"*", act.command_type}

\* Mutant: the scope is compared before the priority.
ResolutionKeyScopeFirst(p) ==
    << -SCOPE_SPECIFICITY[policy[p].scope_type], -policy[p].priority,
       IF policy[p].action_type = "*" THEN 0 ELSE -1, p >>

\* _resolution_key: creation breaks the ties.
ResolutionKey(p) ==
    << -policy[p].priority, -SCOPE_SPECIFICITY[policy[p].scope_type],
       IF policy[p].action_type = "*" THEN 0 ELSE -1, p >>

\* The order of tuples.
Precedes(k, l) ==
    \E i \in DOMAIN k : k[i] < l[i] /\ \A j \in 1..(i - 1) : k[j] = l[j]

Applicable(act) == {p \in Existing : policy[p].status = "active" /\ Matches(policy[p], act)}

\* evaluate_policy: the first of the sorted list, or nothing.
Winners(act) ==
    {p \in Applicable(act) :
        \A q \in Applicable(act) \ {p} : Precedes(ResolutionKey(p), ResolutionKey(q))}

evaluate_policy(act) ==
    IF Winners(act) = {} THEN Default ELSE policy[CHOOSE p \in Winners(act) : TRUE].effect

-----------------------------------------------------------------------------
\* Administration.

\* create_policy.
create_policy(p, draft) ==
    /\ policy[p] = Absent
    /\ \A q \in Policies : q < p => policy[q] # Absent
    /\ policy' = [policy EXCEPT ![p] = draft]
    /\ UNCHANGED edit

\* Mutant: a column is written whenever it is in the form.
DifferingAlways(row, change) == change

\* The columns of the UPDATE: those of the body that differ from what was read.
Differing(row, change) ==
    [c \in {d \in DOMAIN change : change[d] # row[d]} |-> change[c]]

\* _validate_scope, of the scope as it is going to be.
ValidScope(row, change) ==
    LET Column(c) == IF c \in DOMAIN change THEN change[c] ELSE row[c]
        scope == IF Column("scope_type") = "" THEN row.scope_type ELSE Column("scope_type")
    IN  /\ scope \in DOMAIN SCOPE_SPECIFICITY
        /\ scope # "installation" => Column("scope_id") # "none"

\* update_policy: the version of the body must be that of the row as read.
BeginEdit(r, p, change) ==
    /\ edit[r] = NoEdit
    /\ p \in Existing
    /\ policy[p].version < MaxVersion
    /\ ValidScope(policy[p], change)
    /\ edit' = [edit EXCEPT ![r] =
           [pc |-> "writing", policy |-> p, read |-> policy[p].status,
            columns |-> Differing(policy[p], change), version |-> policy[p].version + 1]]
    /\ UNCHANGED policy

CommitEdit(r) ==
    LET t == edit[r]
    IN  /\ t.pc = "writing"
        /\ policy' = [policy EXCEPT ![t.policy] =
               [c \in DOMAIN @ |-> IF c = "version" THEN t.version
                                   ELSE IF c \in DOMAIN t.columns THEN t.columns[c] ELSE @[c]]]
        /\ edit' = [edit EXCEPT ![r] = NoEdit]

\* The edit is refused, or its process dies.
AbortEdit(r) ==
    /\ edit[r] # NoEdit
    /\ edit' = [edit EXCEPT ![r] = NoEdit]
    /\ UNCHANGED policy

\* disable_policy: the statement increments the version of the row as it is.
disable_policy(p) ==
    /\ p \in Existing
    /\ policy[p].version < MaxVersion
    /\ policy' = [policy EXCEPT ![p].status = "disabled", ![p].version = @ + 1]
    /\ UNCHANGED edit

PoliciesInit ==
    /\ policy = [p \in Policies |-> Absent]
    /\ edit = [r \in Edits |-> NoEdit]

PoliciesNext ==
    \/ \E p \in Policies :
           \/ \E draft \in Drafts : create_policy(p, draft)
           \/ disable_policy(p)
           \/ \E r \in Edits, change \in Changes : BeginEdit(r, p, change)
    \/ \E r \in Edits : CommitEdit(r) \/ AbortEdit(r)

PoliciesSpec == PoliciesInit /\ [][PoliciesNext]_policyVars

-----------------------------------------------------------------------------
(***************************************************************************)
(* Properties.                                                             *)
(***************************************************************************)

\* Every variable ranges over what the code can store.
PoliciesTypeOK ==
    /\ DOMAIN policy = Policies /\ DOMAIN edit = Edits
    /\ \A p \in Policies : policy[p] = Absent \/ IsRow(policy[p])
    /\ \A r \in Edits :
           \/ edit[r] = NoEdit
           \/ /\ edit[r].pc = "writing"
              /\ edit[r].policy \in Existing
              /\ edit[r].version \in 2..MaxVersion

\* Every scope names what it is the scope of, whichever columns two edits write.
ScopesNamed == \A p \in Existing : ScopeNamed(policy[p])

\* What makes it inductive: an edit writes columns that fit, leaves out the status it
\* read, and moves a scope only of a policy that names one.
EditFit ==
    \A r \in Edits : edit[r] # NoEdit =>
        LET columns == edit[r].columns
        IN  /\ DOMAIN columns \subseteq Columns
            /\ \A c \in DOMAIN columns : Fits(c, columns[c])
            /\ "status" \in DOMAIN columns => columns["status"] # edit[r].read
            /\ "scope_id" \in DOMAIN columns => columns["scope_id"] # "none"
            /\ "scope_type" \in DOMAIN columns /\ columns["scope_type"] \in {"agent", "project"} =>
                  "scope_id" \in DOMAIN columns \/ policy[edit[r].policy].scope_id # "none"

\* The policies of a set that no other one of it beats.
Best(S, Beats(_, _)) == {p \in S : \A q \in S : ~Beats(q, p)}

\* The documented resolution, one criterion after the other.
Resolution(act) ==
    LET Higher(q, p) == policy[q].priority > policy[p].priority
        Closer(q, p) == SCOPE_SPECIFICITY[policy[q].scope_type] > SCOPE_SPECIFICITY[policy[p].scope_type]
        Exact(q, p) == policy[q].action_type # "*" /\ policy[p].action_type = "*"
        Older(q, p) == q < p
    IN  Best(Best(Best(Best(Applicable(act), Higher), Closer), Exact), Older)

\* Whatever the edits made of the policies, every action has one answer, that of
\* the policy the documented order puts first, and a policy that is disabled or
\* of another agent, project or command never gives it.
Deterministic ==
    \A act \in Actions :
        /\ Winners(act) = Resolution(act)
        /\ Cardinality(Winners(act)) = (IF Applicable(act) = {} THEN 0 ELSE 1)
        /\ evaluate_policy(act) \in {Default} \cup {policy[p].effect : p \in Applicable(act)}

\* The invariant the run checks.
PoliciesInv == PoliciesTypeOK /\ ScopesNamed /\ EditFit /\ Deterministic

\* A policy that was disabled judges again only if an administrator who had seen it
\* out of force put it back: no edit of other columns under way revives it.
DisabledStays ==
    [][\A p \in Existing : policy[p].status = "disabled" /\ policy'[p].status = "active" =>
          \E r \in Edits : /\ edit[r] # NoEdit
                           /\ edit[r].policy = p
                           /\ edit[r].read # "active"
                           /\ "status" \in DOMAIN edit[r].columns]_policyVars
=============================================================================
