------------------------------ MODULE Lifecycle ------------------------------
(***************************************************************************)
(* What every server-side entity with a frozen state machine promises: an  *)
(* entity is created in a birth state and afterwards only moves along its  *)
(* machine, so that it never leaves a state without moves ("le serveur     *)
(* fait foi : une transition non listee est refusee").  One step may move  *)
(* several entities, because one database transaction may.                 *)
(***************************************************************************)
CONSTANTS Entities,   \* the rows of the table
          States,     \* the states of the machine
          Births,     \* the states a row may be created in
          Moves       \* the transitions, a set of pairs

VARIABLE state

Init == state = [e \in Entities |-> "absent"]

Advances(from, to) ==
    \/ from = to
    \/ from = "absent" /\ to \in Births
    \/ <<from, to>> \in Moves

Next ==
    \E after \in [Entities -> States \cup {"absent"}] :
        /\ \A e \in Entities : Advances(state[e], after[e])
        /\ state' = after

Spec == Init /\ [][Next]_state

=============================================================================
