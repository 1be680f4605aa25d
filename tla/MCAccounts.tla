------------------------------ MODULE MCAccounts ------------------------------
(***************************************************************************)
(* Instances of Accounts for TLC.                                          *)
(***************************************************************************)
EXTENDS Accounts

\* One account that founded the platform, one it may create.
MCUsers == {"u1", "u2"}
MCFounders == {"u1"}

=============================================================================
