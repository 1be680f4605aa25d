---------------------------- MODULE MCAgentAccess ----------------------------
(***************************************************************************)
(* Instances of AgentAccess for TLC.                                       *)
(***************************************************************************)
EXTENDS AgentAccess, TLC

\* One operator of both installations, one developer of the second; in the
\* host's tokens both are administrators, of one company each.
MCMapped == {<<"u1", 1>>, <<"u1", 2>>, <<"u2", 2>>}
MCCompany == "u1" :> 1 @@ "u2" :> 2
MCRole == "u1" :> "admin" @@ "u2" :> "developer"
MCHome == "k1" :> 1
MCScopes == {{"commands"}}

=============================================================================
