---------------------------- MODULE MCOutboxRelay ----------------------------
(***************************************************************************)
(* Instances of OutboxRelay for TLC.                                       *)
(***************************************************************************)
EXTENDS OutboxRelay

\* A row of a tenant and one of none, which no client may receive.
MCTenantless == {2}

=============================================================================
