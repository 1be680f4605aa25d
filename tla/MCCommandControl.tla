-------------------------- MODULE MCCommandControl --------------------------
(***************************************************************************)
(* Instances of CommandControl for TLC.                                    *)
(***************************************************************************)
EXTENDS CommandControl, TLC

\* Commands and sessions are interchangeable: no definition names one of them.
Symmetry == Permutations(Commands) \cup Permutations(Sessions)

=============================================================================
