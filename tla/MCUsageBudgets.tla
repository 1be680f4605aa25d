--------------------------- MODULE MCUsageBudgets ---------------------------
(***************************************************************************)
(* Instances of UsageBudgets for TLC.                                      *)
(***************************************************************************)
EXTENDS UsageBudgets, TLC

\* Two agents that use one event id, an event that arrives a day late, an
\* unknown model and version, and a run that does not exist.
MCEvent ==
    << [agent |-> "a1", id |-> "i1", project |-> "p1", day |-> 2, model |-> "opus",
        version |-> "none", input |-> 1, output |-> 0],
       [agent |-> "a2", id |-> "i1", project |-> "none", day |-> 2, model |-> "opus",
        version |-> "none", input |-> 1, output |-> 0],
       [agent |-> "a2", id |-> "i2", project |-> "p1", day |-> 1, model |-> "other",
        version |-> "v9", input |-> 0, output |-> 1],
       [agent |-> "a3", id |-> "i3", project |-> "gone", day |-> 2, model |-> "opus",
        version |-> "v1", input |-> 1, output |-> 1] >>

MCRates == "v1" :> ("opus" :> [input |-> 1, output |-> 2] @@ "*" :> [input |-> 1, output |-> 1])

MCScope == "tenant" :> [type |-> "installation", id |-> "none"] @@
           "mine" :> [type |-> "agent", id |-> "a1"]

MCDraft ==
    "tenant" :> [status |-> "active", version |-> 1, amount_limit |-> 2, period |-> "daily",
                 thresholds |-> {50}, on_exceed |-> "block_new_runs"] @@
    "mine" :> [status |-> "active", version |-> 1, amount_limit |-> 1, period |-> "total",
               thresholds |-> {50}, on_exceed |-> "require_approval"]

\* An edit that lowers the limit and empties the list of thresholds.
MCChanges == {"amount_limit" :> 1 @@ "thresholds" :> {}}

\* The requests are interchangeable.
Symmetry == Permutations(Requests)

=============================================================================
