------------------------------- MODULE Updates -------------------------------
(***************************************************************************)
(* What a transaction writes of a row it has read (core/db.py): the UPDATE *)
(* names the columns whose value changed, and leaves the others as they    *)
(* are by then, whoever wrote them.                                        *)
(***************************************************************************)

\* Mutant: a column is written whenever it is assigned.
ChangedAlways(read, new) == <<new>>

\* A column of the UPDATE: a sequence of at most one value, empty if the request
\* does not change what it read.
Changed(read, new) == IF read = new THEN <<>> ELSE <<new>>

\* The column once it is committed.
Written(current, column) == IF column = <<>> THEN current ELSE column[1]

\* What the UPDATE may hold of a column that takes its values in S.
Column(S) == {<<>>} \cup {<<x>> : x \in S}

=============================================================================
