------------------------------- MODULE Listings -------------------------------
(***************************************************************************)
(* What a list that is read page by page promises, whichever it is: the    *)
(* lists of the control plane order the rows of the tenant by a column and *)
(* the id, read one row more than the page to know whether there is a      *)
(* next one, and resume after the last row of the page.                    *)
(*                                                                         *)
(* The rows a list admits change as they may between two pages.  A row is  *)
(* a number, in the order of the ids; its column never changes.            *)
(***************************************************************************)
EXTENDS Integers, FiniteSets

CONSTANTS Rows,    \* the rows there may ever be
          Column,  \* [Rows -> value of the column a list is ordered by]
          Limit,   \* rows of a page
          Listing  \* the name of the list that is read

-----------------------------------------------------------------------------
\* The lists: the column and the direction, the filters, and whether the rows are
\* never deleted.
list_projects  == [by |-> "created_at",    newest_first |-> TRUE,  kept |-> FALSE,
                   filters |-> {"status"}]
list_tasks     == [by |-> "created_at",    newest_first |-> TRUE,  kept |-> FALSE,
                   filters |-> {"status", "parent"}]
list_agents    == [by |-> "registered_at", newest_first |-> TRUE,  kept |-> FALSE,
                   filters |-> {"status", "state", "environment", "assignment"}]
list_runs      == [by |-> "created_at",    newest_first |-> TRUE,  kept |-> TRUE,
                   filters |-> {"project", "agent", "state"}]
run_timeline   == [by |-> "sequence",      newest_first |-> FALSE, kept |-> TRUE,
                   filters |-> {"run"}]
list_commands  == [by |-> "created_at",    newest_first |-> TRUE,  kept |-> TRUE,
                   filters |-> {"run", "agent", "status"}]
list_approvals == [by |-> "created_at",    newest_first |-> TRUE,  kept |-> TRUE,
                   filters |-> {"status"}]
list_usage     == [by |-> "occurred_at",   newest_first |-> TRUE,  kept |-> TRUE,
                   filters |-> {"project", "agent"}]
list_alerts    == [by |-> "opened_at",     newest_first |-> TRUE,  kept |-> TRUE,
                   filters |-> {"status", "severity"}]
list_audit     == [by |-> "created_at",    newest_first |-> TRUE,  kept |-> TRUE,
                   filters |-> {"action", "actor"}]

Lists == [list_projects |-> list_projects, list_tasks |-> list_tasks,
          list_agents |-> list_agents, list_runs |-> list_runs,
          run_timeline |-> run_timeline, list_commands |-> list_commands,
          list_approvals |-> list_approvals, list_usage |-> list_usage,
          list_alerts |-> list_alerts, list_audit |-> list_audit]

\* The columns that change: a filter on one of them may stop admitting a row.
Moving == {"status", "state", "severity", "environment", "assignment"}

\* A list of which no row is ever lost.
Lasting == Lists[Listing].kept /\ Lists[Listing].filters \cap Moving = {}

ListingsAssumption ==
    /\ Rows \subseteq Nat
    /\ IsFiniteSet(Rows)
    /\ Column \in [Rows -> Int]
    /\ Limit \in Nat \ {0}
    /\ Listing \in DOMAIN Lists

VARIABLES listed,  \* the rows that tenant and filters admit now
          pc,      \* the walk: "closed", "open", "done", or "left" before its end
          cursor,  \* none, or one: the last row of the page before
          shown,   \* the rows of the pages so far
          steady   \* history: the rows admitted from the first page until now

vars == <<listed, pc, cursor, shown, steady>>

\* The order of tuples of two.
Below(i, j) == Column[i] < Column[j] \/ (Column[i] = Column[j] /\ i < j)

\* The order of the list.
Precedes(i, j) == IF Lists[Listing].newest_first THEN Below(j, i) ELSE Below(i, j)

\* The rows that the query of a page selects.
Following(rows, after) == {i \in rows : \A c \in after : Precedes(c, i)}

\* The first rows of a set, as many as Limit allows.
IsPage(page, rest) ==
    /\ page \subseteq rest
    /\ \A i \in page, j \in rest \ page : Precedes(i, j)
    /\ Cardinality(page) = (IF Cardinality(rest) > Limit THEN Limit ELSE Cardinality(rest))

\* The last row of a page, the one the cursor encodes.
IsLast(i, page) == i \in page /\ \A j \in page \ {i} : Precedes(j, i)

-----------------------------------------------------------------------------
Init ==
    /\ listed \subseteq Rows
    /\ pc = "closed"
    /\ cursor = {}
    /\ shown = {}
    /\ steady = {}

\* The rows change; until the walk is closed the steady ones are followed.
Change ==
    /\ listed' \subseteq Rows
    /\ Lasting => listed \subseteq listed'
    /\ steady' = IF pc = "open" THEN steady \cap listed' ELSE steady
    /\ UNCHANGED <<pc, cursor, shown>>

\* The reader chooses its filters.
Open ==
    /\ pc = "closed"
    /\ listed' \subseteq Rows
    /\ pc' = "open"
    /\ steady' = listed'
    /\ UNCHANGED <<cursor, shown>>

NextPage ==
    /\ pc = "open"
    /\ LET rest == Following(listed, cursor)
       IN  \E page \in SUBSET rest :
              /\ IsPage(page, rest)
              /\ shown' = shown \cup page
              /\ IF Cardinality(rest) > Limit
                 THEN \E i \in page : IsLast(i, page) /\ cursor' = {i} /\ UNCHANGED pc
                 ELSE pc' = "done" /\ UNCHANGED cursor
    /\ UNCHANGED <<listed, steady>>

\* The reader stops, or the list is refused to it.
Leave ==
    /\ pc = "open"
    /\ pc' = "left"
    /\ UNCHANGED <<listed, cursor, shown, steady>>

Next == Change \/ Open \/ NextPage \/ Leave

Spec == Init /\ [][Next]_vars

-----------------------------------------------------------------------------
(***************************************************************************)
(* Properties.                                                             *)
(***************************************************************************)

TypeOK ==
    /\ listed \subseteq Rows
    /\ pc \in {"closed", "open", "done", "left"}
    /\ cursor \in {{}} \cup {{i} : i \in Rows}
    /\ shown \subseteq Rows
    /\ steady \subseteq Rows

\* A walk read to its end has shown every row that was admitted all along, whatever
\* was inserted, amended or deleted meanwhile and however many rows share a date.
WalkComplete == pc = "done" => steady \subseteq shown

\* No row is shown on two pages: what was shown is not beyond the cursor.
ShownOnce == pc = "open" /\ cursor # {} => shown \cap Following(Rows, cursor) = {}

\* While the walk is under way the steady rows are shown or still to come.
NothingSkipped ==
    /\ pc = "open" => \A i \in steady : i \in shown \/ i \in Following(listed, cursor)
    /\ pc \in {"closed", "open"} /\ cursor = {} => shown = {}
    /\ pc = "closed" => cursor = {}

\* The inductive invariant.
WalkInv == TypeOK /\ WalkComplete /\ ShownOnce /\ NothingSkipped
=============================================================================
