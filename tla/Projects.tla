------------------------------- MODULE Projects -------------------------------
(***************************************************************************)
(* Projects and their tasks: the tenant's own service (apps/api/agent_     *)
(* control/projects/service.py), the older one without tenants             *)
(* (services/projects.py) on the same tables, and a reader that walks the  *)
(* list of the tasks of a project page by page while they write.           *)
(*                                                                         *)
(* A creation looks up what must be unique or present, then inserts; the   *)
(* database has the last word at its commit.  The older deletion purges    *)
(* the tasks it sees, then deletes the project.  The rest is one statement.*)
(* The walk is shown to be the one of Listings.                            *)
(***************************************************************************)
EXTENDS Integers, FiniteSets

CONSTANTS Tenants,   \* installations
          Local,     \* the installation the seed gives what has none
          Projects,  \* projects there may ever be
          Seed,      \* the one the seed created, is_seed
          Slugs,     \* the slugs of a name: base, base-2, ...
          Tasks,     \* tasks there may ever be, numbered in the order of their ids
          SeedTasks, \* those of the seed
          Code,      \* [Tasks -> the code its client gives it, or "none"]
          Born,      \* [Tasks -> created_at]
          Agents,    \* agents
          Home,      \* [Agents -> installation]
          Requests,  \* writing requests in flight
          Limit,     \* tasks of a page
          MaxWrites  \* bound on the amendments and deletions

ASSUME ProjectsAssumption ==
    /\ Local \in Tenants
    /\ "none" \notin Tenants \cup Agents
    /\ Seed \in Projects
    /\ Tasks \subseteq Nat \ {0}
    /\ IsFiniteSet(Tasks)
    /\ SeedTasks \subseteq Tasks
    /\ Born \in [Tasks -> Nat]
    /\ Home \in [Agents -> Tenants]
    /\ Limit \in Nat \ {0}
    /\ MaxWrites \in Nat

VARIABLES project,  \* projects
          task,     \* tasks
          tx,       \* what each writing request has read
          walk,     \* the walk of a reader, and the tasks that were listed all along
          writes    \* amendments and deletions so far

vars == <<project, task, tx, walk, writes>>

Absent == [state |-> "absent"]
Gone == [state |-> "gone"]
Idle == [pc |-> "idle"]

\* One write more; a bound of the model.
Counted == writes < MaxWrites /\ writes' = writes + 1

Live(table) == {i \in DOMAIN table : table[i].state = "present"}

TasksOf(p) == {i \in Live(task) : task[i].project = p}

\* get_project, get_task: by id and tenant.
Visible(table, i, tenant) == i \in Live(table) /\ table[i].tenant = tenant

SlugTaken(slug) == \E p \in Live(project) : project[p].slug = slug

CodeTaken(p, code) == code # "none" /\ \E i \in TasksOf(p) : task[i].code = code

-----------------------------------------------------------------------------
\* The list of the tasks.

\* The tasks that project, tenant, status and parent select; no parent, 0, is no filter.
Admitted(table, w) ==
    {i \in Live(table) : /\ table[i].project = w.project
                         /\ table[i].tenant = w.tenant
                         /\ w.status \in {"any", table[i].status}
                         /\ w.parent \in {0, table[i].parent}}

\* (created_at, id) < (created_at, id) of the cursor.
Older(i, j) == Born[i] < Born[j] \/ (Born[i] = Born[j] /\ i < j)

\* LIMIT n, newest first.
Newest(rows, n) == {i \in rows : Cardinality({j \in rows : Older(i, j)}) < n}

\* The rows read for a page: one more than it shows.
PageRows(after) ==
    Newest({i \in Admitted(task, walk) : \A c \in after : Older(i, c)}, Limit + 1)

LastOf(rows) == {i \in rows : \A j \in rows \ {i} : Older(i, j)}

\* Mutant: the last row read, not the last row shown.
NextCursorLate(rows) == LastOf(rows)

\* The cursor of the next page.
NextCursor(rows) == LastOf(Newest(rows, Limit))

\* The walk once the tables have changed; the history follows the listed tasks.
Followed ==
    walk' = IF walk.pc = "open" THEN [walk EXCEPT !.steady = @ \cap Admitted(task', walk)]
            ELSE walk

Open(tenant, p, status, parent) ==
    /\ walk.pc = "closed"
    /\ Visible(project, p, tenant)
    /\ LET w == [walk EXCEPT !.pc = "open", !.project = p, !.tenant = tenant, !.status = status,
                             !.parent = parent]
       IN  walk' = [w EXCEPT !.steady = Admitted(task, w)]
    /\ UNCHANGED <<project, task, tx, writes>>

\* list_tasks.
list_tasks ==
    /\ walk.pc = "open"
    /\ Visible(project, walk.project, walk.tenant)
    /\ LET rows == PageRows(walk.cursor)
           more == Cardinality(rows) > Limit
       IN  walk' = [walk EXCEPT !.shown = @ \cup Newest(rows, Limit),
                                !.cursor = IF more THEN NextCursor(rows) ELSE @,
                                !.pc = IF more THEN @ ELSE "done"]
    /\ UNCHANGED <<project, task, tx, writes>>

\* get_project: the project is not found any more.
Leave ==
    /\ walk.pc = "open"
    /\ ~Visible(project, walk.project, walk.tenant)
    /\ walk' = [walk EXCEPT !.pc = "left"]
    /\ UNCHANGED <<project, task, tx, writes>>

-----------------------------------------------------------------------------
\* Requests that write.

Enter(r, request) ==
    /\ tx[r] = Idle
    /\ tx' = [tx EXCEPT ![r] = request]
    /\ UNCHANGED <<project, task, walk, writes>>

\* The request fails, is refused by the database, or dies: nothing is written.
Abort(r) ==
    /\ tx[r] # Idle
    /\ tx' = [tx EXCEPT ![r] = Idle]
    /\ UNCHANGED <<project, task, walk, writes>>

\* create_project, of a tenant: the slug of the body, refused when it is taken.
create_project(r, tenant, slug) ==
    /\ ~SlugTaken(slug)
    /\ Enter(r, [pc |-> "project", tenant |-> tenant, slug |-> slug])

\* create_project of services/projects.py: the first free slug, no tenant.
create_project_V0(r) ==
    \E n \in DOMAIN Slugs :
        /\ ~SlugTaken(Slugs[n])
        /\ \A m \in 1..(n - 1) : SlugTaken(Slugs[m])
        /\ Enter(r, [pc |-> "project", tenant |-> "none", slug |-> Slugs[n]])

\* The index of slug is unique.
CommitProject(r, p) ==
    /\ tx[r].pc = "project"
    /\ project[p] = Absent
    /\ ~SlugTaken(tx[r].slug)
    /\ project' = [project EXCEPT ![p] =
           [state |-> "present", tenant |-> tx[r].tenant, slug |-> tx[r].slug]]
    /\ tx' = [tx EXCEPT ![r] = Idle]
    /\ UNCHANGED <<task, walk, writes>>

\* The project is deleted with the tasks given, which are all it has: project_id
\* is not null, and references the project.
Erase(p, tasks) ==
    /\ TasksOf(p) \subseteq tasks
    /\ project' = [project EXCEPT ![p] = Gone]
    /\ task' = [i \in Tasks |-> IF i \in TasksOf(p) THEN Gone ELSE task[i]]
    /\ Followed

\* delete_project, of a tenant: the tasks are not deleted, so there must be none.
delete_project(tenant, p) ==
    /\ Visible(project, p, tenant)
    /\ p # Seed
    /\ Erase(p, {})
    /\ Counted
    /\ UNCHANGED tx

\* The rows that an uncommitted deletion holds.
Held(i) == \E r \in Requests : tx[r].pc = "deleting" /\ i \in tx[r].tasks

\* delete_project of services/projects.py, of any tenant: purges the tasks it sees.
BeginDelete(r, p) ==
    /\ p \in Live(project) \ {Seed}
    /\ \A i \in TasksOf(p) : ~Held(i)
    /\ writes < MaxWrites
    /\ Enter(r, [pc |-> "deleting", project |-> p, tasks |-> TasksOf(p)])

CommitDelete(r) ==
    /\ tx[r].pc = "deleting"
    /\ tx[r].project \in Live(project)
    /\ Erase(tx[r].project, tx[r].tasks)
    /\ Counted
    /\ tx' = [tx EXCEPT ![r] = Idle]

\* The rows that the seed of a starting process finds without a tenant.
seed ==
    /\ \E p \in Projects : Visible(project, p, "none")
    /\ project' = [p \in Projects |->
           IF Visible(project, p, "none") THEN [project[p] EXCEPT !.tenant = Local] ELSE project[p]]
    /\ UNCHANGED <<task, tx, walk, writes>>

\* The parent of a task: of the project and the tenant, and not itself a subtask.
Parent(tenant, p, i) ==
    Visible(task, i, tenant) /\ task[i].project = p /\ task[i].parent = 0

\* create_task: created_at is the start of the transaction.
create_task(r, tenant, p, i, parent) ==
    /\ Visible(project, p, tenant)
    /\ p # Seed
    /\ parent = 0 \/ Parent(tenant, p, parent)
    /\ ~CodeTaken(p, Code[i])
    /\ LET begun == {j \in Tasks : task[j] # Absent}
                    \cup {tx[q].task : q \in {q \in Requests : tx[q].pc = "task"}}
       IN  i \notin begun /\ \A j \in begun : Born[j] <= Born[i]
    /\ Enter(r, [pc |-> "task", task |-> i,
                 row |-> [state |-> "present", project |-> p, tenant |-> tenant,
                          parent |-> parent, code |-> Code[i], status |-> "todo",
                          agent |-> "none"]])

\* Mutant: the keys are not checked when a row is inserted.
ReferencesDangling(row) == TRUE

\* The foreign keys of a task; that of its parent waits for a deletion under way.
References(row) ==
    /\ row.project \in Live(project)
    /\ row.parent # 0 => row.parent \in Live(task) /\ ~Held(row.parent)

\* The index of project and code is unique.
CommitTask(r) ==
    /\ tx[r].pc = "task"
    /\ References(tx[r].row)
    /\ ~CodeTaken(tx[r].row.project, tx[r].row.code)
    /\ task' = [task EXCEPT ![tx[r].task] = tx[r].row]
    /\ tx' = [tx EXCEPT ![r] = Idle]
    /\ Followed
    /\ UNCHANGED <<project, writes>>

Write(tenant, i, column, value) ==
    /\ Visible(task, i, tenant)
    /\ ~Held(i)
    /\ task[i][column] # value
    /\ Counted
    /\ task' = [task EXCEPT ![i][column] = value]
    /\ Followed
    /\ UNCHANGED <<project, tx>>

update_task(tenant, i, status) == Write(tenant, i, "status", status)

\* assign_task: the agent is looked up in the tenant.
assign_task(tenant, i, agent) ==
    Home[agent] = tenant /\ Write(tenant, i, "agent", agent)

-----------------------------------------------------------------------------
Init ==
    /\ project = [p \in Projects |->
           IF p = Seed THEN [state |-> "present", tenant |-> Local, slug |-> "seed"] ELSE Absent]
    /\ task = [i \in Tasks |->
           IF i \in SeedTasks
           THEN [state |-> "present", project |-> Seed, tenant |-> Local, parent |-> 0,
                 code |-> "none", status |-> "todo", agent |-> "none"]
           ELSE Absent]
    /\ tx = [r \in Requests |-> Idle]
    /\ walk = [pc |-> "closed", project |-> Seed, tenant |-> Local, status |-> "any",
               parent |-> 0, cursor |-> {}, shown |-> {}, steady |-> {}]
    /\ writes = 0

Statuses == {"todo", "done"}

Next ==
    \/ \E tenant \in Tenants :
           \/ \E p \in Projects :
                  \/ \E status \in Statuses \cup {"any"}, parent \in Tasks \cup {0} :
                         Open(tenant, p, status, parent)
                  \/ delete_project(tenant, p)
                  \/ \E r \in Requests, i \in Tasks, parent \in Tasks \cup {0} :
                         create_task(r, tenant, p, i, parent)
           \/ \E r \in Requests : \E n \in DOMAIN Slugs : create_project(r, tenant, Slugs[n])
           \/ \E i \in Tasks :
                  \/ \E status \in Statuses : update_task(tenant, i, status)
                  \/ \E agent \in Agents : assign_task(tenant, i, agent)
    \/ list_tasks \/ Leave \/ seed
    \/ \E r \in Requests :
           \/ create_project_V0(r) \/ CommitTask(r) \/ CommitDelete(r) \/ Abort(r)
           \/ \E p \in Projects : CommitProject(r, p) \/ BeginDelete(r, p)

Spec == Init /\ [][Next]_vars

-----------------------------------------------------------------------------
(***************************************************************************)
(* Properties.                                                             *)
(***************************************************************************)

ProjectRow == [state : {"present"}, tenant : Tenants \cup {"none"},
               slug : {Slugs[n] : n \in DOMAIN Slugs} \cup {"seed"}]

TaskRow == [state : {"present"}, project : Projects, tenant : Tenants,
            parent : Tasks \cup {0}, code : {Code[i] : i \in Tasks} \cup {"none"}, status : Statuses,
            agent : Agents \cup {"none"}]

Request == {Idle}
             \cup [pc : {"project"}, tenant : Tenants \cup {"none"},
                   slug : {Slugs[n] : n \in DOMAIN Slugs}]
             \cup [pc : {"task"}, task : Tasks, row : TaskRow]
             \cup [pc : {"deleting"}, project : Projects, tasks : SUBSET Tasks]

\* The tables and the requests range over what the code can store; WalkInv types
\* the walk.
TypeOK ==
    /\ project \in [Projects -> {Absent, Gone} \cup ProjectRow]
    /\ task \in [Tasks -> {Absent, Gone} \cup TaskRow]
    /\ tx \in [Requests -> Request]

\* Whoever creates and deletes together, of the two services: a task belongs to a
\* project that is there and to its tenant, its parent is a task of the same
\* project with no parent, its agent is of the tenant.
TasksInPlace ==
    \A i \in Live(task) :
        /\ task[i].project \in Live(project)
        /\ task[i].tenant = project[task[i].project].tenant
        /\ task[i].agent # "none" => Home[task[i].agent] = task[i].tenant
        /\ task[i].parent # 0 =>
              /\ task[i].parent \in TasksOf(task[i].project)
              /\ task[task[i].parent].parent = 0

\* A slug names one project and a code one task of its project.
NamesUnique ==
    /\ \A i, j \in Live(task) :
           /\ task[i].project = task[j].project
           /\ task[i].code = task[j].code /\ task[i].code # "none"
           => i = j
    /\ \A p, q \in Live(project) : project[p].slug = project[q].slug => p = q

\* What makes them inductive: the task a request will insert is new, and nobody
\* else's; the project and the parent it read are as they were, or deleted.
ReadsLast ==
    \A r \in Requests : tx[r].pc = "task" =>
        LET row == tx[r].row
        IN  /\ task[tx[r].task] = Absent
            /\ row.agent = "none"
            /\ \/ project[row.project] = Gone
               \/ Visible(project, row.project, row.tenant)
            /\ row.parent # 0 => \/ task[row.parent] = Gone
                                 \/ /\ row.parent \in TasksOf(row.project)
                                    /\ task[row.parent].parent = 0
            /\ \A q \in Requests : tx[q].pc = "task" /\ tx[q].task = tx[r].task => q = r

BoardInv == TypeOK /\ TasksInPlace /\ NamesUnique /\ ReadsLast

TheList ==
    INSTANCE Listings WITH
        Rows <- Tasks, Column <- Born, Listing <- "list_tasks",
        listed <- Admitted(task, walk), pc <- walk.pc, cursor <- walk.cursor,
        shown <- walk.shown, steady <- walk.steady

\* A reader that follows the cursors to the end has seen every task that was
\* listed all along, and none twice, while tasks are created out of the order of
\* their dates, share a date, change status and are deleted.
TasksWalked == TheList!WalkInv

\* The list of tasks is one of the lists of the control plane: order, page and
\* cursor are those of Listings, and only tasks that stop being listed are missed.
TasksListed == TheList!Spec
=============================================================================
