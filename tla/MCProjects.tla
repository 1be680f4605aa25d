------------------------------ MODULE MCProjects ------------------------------
(***************************************************************************)
(* Instances of Projects for TLC.                                          *)
(***************************************************************************)
EXTENDS Projects, TLC

\* Two tasks share a date, and the ids do not follow the dates.
MCBorn == 1 :> 2 @@ 2 :> 1 @@ 3 :> 2

MCSlugs == <<"s">>

\* Two tasks are given the same code, one none.
MCCode == 1 :> "c" @@ 2 :> "none" @@ 3 :> "c"

MCHome == "a1" :> "t1"

Symmetry == Permutations(Requests)

=============================================================================
