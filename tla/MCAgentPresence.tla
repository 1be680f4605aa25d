--------------------------- MODULE MCAgentPresence ---------------------------
(***************************************************************************)
(* Instances of AgentPresence for TLC.                                     *)
(***************************************************************************)
EXTENDS AgentPresence

\* An agent that always works and claims, in vain, to come from a file; its file
\* says something else.
MCReports == {[state |-> "working", meta |-> "mc-file"]}

MCStatuses == {[state |-> "other", dated |-> TRUE]}

=============================================================================
