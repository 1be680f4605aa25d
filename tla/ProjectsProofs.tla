--------------------------- MODULE ProjectsProofs ---------------------------
(***************************************************************************)
(* Projects and tasks for any number of tenants, projects, tasks and       *)
(* requests: whoever creates and deletes together, every task stays in its *)
(* project, its tenant and under its parent, and names stay unique.  Then  *)
(* a walk through any list, with pages of any size, reads what was there   *)
(* all along, once; and the list of the tasks is such a list.              *)
(***************************************************************************)
EXTENDS Projects, Orders, TLAPS

\* A row that is there is a row of its table.
LEMMA LiveRows ==
    ASSUME BoardInv
    PROVE  /\ \A p : p \in Live(project) <=> p \in Projects /\ project[p] \in ProjectRow
           /\ \A i : i \in Live(task) <=> i \in Tasks /\ task[i] \in TaskRow
           /\ \A p \in Projects : project[p] \in {Absent, Gone} \/ p \in Live(project)
           /\ \A i \in Tasks : task[i] \in {Absent, Gone} \/ i \in Live(task)
           /\ \A i \in Live(task) : task[i] \notin {Absent, Gone}
           /\ \A p \in Live(project) : project[p] \notin {Absent, Gone}
BY DEF BoardInv, TypeOK, Live, ProjectRow, TaskRow, Absent, Gone

LEMMA InitBoard == Init => BoardInv
<1> SUFFICES ASSUME Init PROVE BoardInv
  OBVIOUS
<1>1. TypeOK
  BY ProjectsAssumption DEF ProjectsAssumption, Init, TypeOK, ProjectRow, TaskRow, Request, Statuses
<1>2. /\ \A p \in Live(project) : p = Seed /\ project[p].tenant = Local
      /\ Seed \in Live(project)
      /\ \A i \in Live(task) : /\ task[i].project = Seed /\ task[i].tenant = Local
                               /\ task[i].parent = 0
                               /\ task[i].code = "none" /\ task[i].agent = "none"
  BY ProjectsAssumption DEF ProjectsAssumption, Init, Live, Absent
<1>3. TasksInPlace /\ NamesUnique
  BY <1>2 DEF TasksInPlace, NamesUnique
<1>4. ReadsLast
  BY DEF Init, ReadsLast, Idle
<1> QED
  BY <1>1, <1>3, <1>4 DEF BoardInv

\* A request enters or ends and the tables stay.
LEMMA RequestStep ==
    ASSUME BoardInv, NEW r \in Requests, NEW t \in Request,
           tx' = [tx EXCEPT ![r] = t], UNCHANGED <<project, task>>,
           t.pc = "task" =>
               /\ task[t.task] = Absent /\ t.row.agent = "none"
               /\ Visible(project, t.row.project, t.row.tenant)
               /\ t.row.parent # 0 => /\ t.row.parent \in TasksOf(t.row.project)
                                      /\ task[t.row.parent].parent = 0
               /\ \A q \in Requests : tx[q].pc = "task" => tx[q].task # t.task
    PROVE  BoardInv'
<1>1. TypeOK'
  BY DEF BoardInv, TypeOK
<1>2. TasksInPlace' /\ NamesUnique'
  BY DEF BoardInv, TasksInPlace, NamesUnique, TasksOf, Live
<1>3. \A q \in Requests : tx'[q] = IF q = r THEN t ELSE tx[q]
  BY DEF BoardInv, TypeOK
<1>4. ReadsLast'
  <2> SUFFICES ASSUME NEW p \in Requests, tx'[p].pc = "task"
               PROVE  /\ task[tx'[p].task] = Absent
                      /\ tx'[p].row.agent = "none"
                      /\ \/ project[tx'[p].row.project] = Gone
                         \/ Visible(project, tx'[p].row.project, tx'[p].row.tenant)
                      /\ tx'[p].row.parent # 0 =>
                            \/ task[tx'[p].row.parent] = Gone
                            \/ /\ tx'[p].row.parent \in TasksOf(tx'[p].row.project)
                               /\ task[tx'[p].row.parent].parent = 0
                      /\ \A q \in Requests :
                            tx'[q].pc = "task" /\ tx'[q].task = tx'[p].task => q = p
    BY DEF ReadsLast, Visible, TasksOf, Live
  <2>1. CASE p = r
    BY <1>3, <2>1
  <2>2. CASE p # r
    BY <1>3, <2>2 DEF BoardInv, ReadsLast
  <2> QED
    BY <2>1, <2>2
<1> QED
  BY <1>1, <1>2, <1>4 DEF BoardInv

\* The tables change: what is gone stays gone, what stays keeps its project, tenant
\* and parent, and no task appears but the one whose request ends.
LEMMA TablesStep ==
    ASSUME BoardInv, TypeOK', TasksInPlace', NamesUnique',
           \A r \in Requests : tx'[r] \in {tx[r], Idle},
           \A p \in Projects :
               /\ project[p] = Gone => project'[p] = Gone
               /\ p \in Live(project) /\ project[p].tenant # "none" =>
                      \/ project'[p] = Gone
                      \/ p \in Live(project') /\ project'[p].tenant = project[p].tenant,
           \A i \in Tasks :
               /\ task[i] = Gone => task'[i] = Gone
               /\ task[i] = Absent => \/ task'[i] = Absent
                                      \/ \E r \in Requests :
                                            /\ tx[r].pc = "task" /\ tx[r].task = i
                                            /\ tx'[r] = Idle
               /\ i \in Live(task) => \/ task'[i] = Gone
                                      \/ /\ i \in Live(task')
                                         /\ task'[i].project = task[i].project
                                         /\ task'[i].parent = task[i].parent
    PROVE  BoardInv'
<1> SUFFICES ASSUME NEW r \in Requests, tx'[r].pc = "task"
             PROVE  /\ task'[tx'[r].task] = Absent
                    /\ tx'[r].row.agent = "none"
                    /\ \/ project'[tx'[r].row.project] = Gone
                       \/ Visible(project', tx'[r].row.project, tx'[r].row.tenant)
                    /\ tx'[r].row.parent # 0 =>
                          \/ task'[tx'[r].row.parent] = Gone
                          \/ /\ tx'[r].row.parent \in Live(task')
                             /\ task'[tx'[r].row.parent].project = tx'[r].row.project
                             /\ task'[tx'[r].row.parent].parent = 0
                    /\ \A q \in Requests : tx'[q].pc = "task" /\ tx'[q].task = tx'[r].task => q = r
  BY DEF BoardInv, ReadsLast, Visible, TasksOf, Live
<1>1. tx'[r] = tx[r] /\ tx[r].pc = "task"
  BY DEF Idle
<1>2. /\ tx[r].task \in Tasks /\ tx[r].row \in TaskRow
      /\ tx[r].row.project \in Projects /\ tx[r].row.tenant # "none"
      /\ tx[r].row.parent # 0 => tx[r].row.parent \in Tasks
  BY <1>1, ProjectsAssumption DEF ProjectsAssumption, BoardInv, TypeOK, Request, TaskRow, Idle
<1>3. /\ task[tx[r].task] = Absent
      /\ tx[r].row.agent = "none"
      /\ \/ project[tx[r].row.project] = Gone
         \/ /\ tx[r].row.project \in Live(project)
            /\ project[tx[r].row.project].tenant = tx[r].row.tenant
      /\ tx[r].row.parent # 0 =>
            \/ task[tx[r].row.parent] = Gone
            \/ /\ tx[r].row.parent \in Live(task)
               /\ task[tx[r].row.parent].project = tx[r].row.project
               /\ task[tx[r].row.parent].parent = 0
      /\ \A q \in Requests : tx[q].pc = "task" /\ tx[q].task = tx[r].task => q = r
  BY <1>1 DEF BoardInv, ReadsLast, Visible, TasksOf
<1>4. task'[tx[r].task] = Absent
  BY <1>1, <1>2, <1>3 DEF Idle
<1>5. \/ project'[tx[r].row.project] = Gone
      \/ Visible(project', tx[r].row.project, tx[r].row.tenant)
  BY <1>2, <1>3 DEF Visible
<1>6. tx[r].row.parent # 0 =>
          \/ task'[tx[r].row.parent] = Gone
          \/ /\ tx[r].row.parent \in Live(task')
             /\ task'[tx[r].row.parent].project = tx[r].row.project
             /\ task'[tx[r].row.parent].parent = 0
  BY <1>2, <1>3
<1>7. \A q \in Requests : tx'[q].pc = "task" /\ tx'[q].task = tx'[r].task => q = r
  BY <1>1, <1>3 DEF Idle
<1> QED
  BY <1>1, <1>3, <1>4, <1>5, <1>6, <1>7

\* Requests that read and enter, or die.
LEMMA EnterStep ==
    ASSUME BoardInv, NEW r \in Requests,
           \/ \E tenant \in Tenants, n \in DOMAIN Slugs : create_project(r, tenant, Slugs[n])
           \/ create_project_V0(r)
           \/ \E p \in Projects : BeginDelete(r, p)
           \/ Abort(r)
    PROVE  BoardInv'
<1>1. ASSUME NEW t \in Request, t.pc # "task", tx' = [tx EXCEPT ![r] = t],
             UNCHANGED <<project, task>>
      PROVE  BoardInv'
  BY <1>1, RequestStep
<1>2. ASSUME NEW tenant \in Tenants \cup {"none"}, NEW n \in DOMAIN Slugs,
             Enter(r, [pc |-> "project", tenant |-> tenant, slug |-> Slugs[n]])
      PROVE  BoardInv'
  <2> DEFINE t == [pc |-> "project", tenant |-> tenant, slug |-> Slugs[n]]
  <2>1. t \in Request /\ t.pc # "task"
    BY DEF Request
  <2>2. tx' = [tx EXCEPT ![r] = t] /\ UNCHANGED <<project, task>>
    BY <1>2 DEF Enter
  <2> HIDE DEF t
  <2> QED
    BY <1>1, <2>1, <2>2
<1>3. ASSUME NEW p \in Projects, BeginDelete(r, p) PROVE BoardInv'
  <2> DEFINE t == [pc |-> "deleting", project |-> p, tasks |-> TasksOf(p)]
  <2>1. TasksOf(p) \subseteq Tasks
    BY DEF TasksOf, Live, BoardInv, TypeOK
  <2>2. t \in Request /\ t.pc # "task"
    BY <2>1 DEF Request
  <2>3. tx' = [tx EXCEPT ![r] = t] /\ UNCHANGED <<project, task>>
    BY <1>3 DEF BeginDelete, Enter
  <2> HIDE DEF t
  <2> QED
    BY <1>1, <2>2, <2>3
<1>4. CASE Abort(r)
  <2>1. Idle \in Request /\ Idle.pc # "task"
    BY DEF Idle, Request
  <2> QED
    BY <1>1, <1>4, <2>1 DEF Abort
<1>5. CASE create_project_V0(r)
  BY <1>2, <1>5 DEF create_project_V0
<1>6. CASE \E tenant \in Tenants, n \in DOMAIN Slugs : create_project(r, tenant, Slugs[n])
  BY <1>2, <1>6 DEF create_project
<1> QED
  BY <1>3, <1>4, <1>5, <1>6

LEMMA CreateTaskStep ==
    ASSUME BoardInv, NEW r \in Requests, NEW tenant \in Tenants, NEW p \in Projects,
           NEW i \in Tasks, NEW parent \in Tasks \cup {0}, create_task(r, tenant, p, i, parent)
    PROVE  BoardInv'
<1> DEFINE row == [state |-> "present", project |-> p, tenant |-> tenant,
                   parent |-> parent, code |-> Code[i], status |-> "todo", agent |-> "none"]
           t == [pc |-> "task", task |-> i, row |-> row]
<1>1. row \in TaskRow
  BY DEF TaskRow, Statuses
<1>2. t \in Request /\ t.pc = "task" /\ t.task = i /\ t.row = row
  BY <1>1 DEF Request
<1>3. /\ tx' = [tx EXCEPT ![r] = t] /\ UNCHANGED <<project, task>>
      /\ Visible(project, p, tenant)
      /\ task[i] = Absent
      /\ \A q \in Requests : tx[q].pc = "task" => tx[q].task # i
  BY DEF create_task, Enter
<1>4. parent # 0 => parent \in TasksOf(p) /\ task[parent].parent = 0
  BY DEF create_task, Parent, Visible, TasksOf
<1>5. /\ row.agent = "none" /\ row.project = p /\ row.tenant = tenant /\ row.parent = parent
  OBVIOUS
<1> HIDE DEF row
<1>6. /\ task[t.task] = Absent /\ t.row.agent = "none"
      /\ Visible(project, t.row.project, t.row.tenant)
      /\ t.row.parent # 0 => /\ t.row.parent \in TasksOf(t.row.project)
                             /\ task[t.row.parent].parent = 0
      /\ \A q \in Requests : tx[q].pc = "task" => tx[q].task # t.task
  BY <1>2, <1>3, <1>4, <1>5
<1> HIDE DEF t
<1> QED
  BY <1>2, <1>3, <1>6, RequestStep

LEMMA CommitProjectStep ==
    ASSUME BoardInv, NEW r \in Requests, NEW p \in Projects, CommitProject(r, p)
    PROVE  BoardInv'
<1> DEFINE new == [state |-> "present", tenant |-> tx[r].tenant, slug |-> tx[r].slug]
<1>1. /\ project[p] = Absent /\ ~SlugTaken(tx[r].slug) /\ UNCHANGED task
      /\ project' = [project EXCEPT ![p] = new]
      /\ tx' = [tx EXCEPT ![r] = Idle]
  BY DEF CommitProject
<1>2. tx[r].tenant \in Tenants \cup {"none"} /\ tx[r].slug \in {Slugs[n] : n \in DOMAIN Slugs}
  BY DEF CommitProject, BoardInv, TypeOK, Request, Idle
<1>3. new \in ProjectRow /\ new.slug = tx[r].slug
  BY <1>2 DEF ProjectRow
<1> HIDE DEF new
<1>4. \A q \in Projects : project'[q] = IF q = p THEN new ELSE project[q]
  BY <1>1 DEF BoardInv, TypeOK
<1>5. TypeOK'
  BY <1>1, <1>3 DEF BoardInv, TypeOK, Request
<1>6. p \notin Live(project) /\ Live(project') = Live(project) \cup {p}
  <2>1. p \notin Live(project)
    BY <1>1, LiveRows
  <2>2. Live(project') \subseteq Projects /\ Live(project) \subseteq Projects
    BY <1>1 DEF Live, BoardInv, TypeOK
  <2>3. new.state = "present"
    BY <1>3 DEF ProjectRow
  <2> QED
    BY <1>1, <1>4, <2>1, <2>2, <2>3 DEF Live, BoardInv, TypeOK
<1>7. TasksInPlace'
  <2> SUFFICES ASSUME NEW i \in Live(task)
               PROVE  /\ task[i].project \in Live(project')
                      /\ task[i].tenant = project'[task[i].project].tenant
                      /\ task[i].agent # "none" => Home[task[i].agent] = task[i].tenant
                      /\ task[i].parent # 0 =>
                            /\ task[i].parent \in TasksOf(task[i].project)
                            /\ task[task[i].parent].parent = 0
    BY <1>1 DEF TasksInPlace, TasksOf, Live
  <2>1. task[i].project \in Live(project) /\ task[i].project \in Projects /\ task[i].project # p
    BY <1>6, LiveRows DEF BoardInv, TasksInPlace
  <2> QED
    BY <1>4, <1>6, <2>1 DEF BoardInv, TasksInPlace
<1>8. NamesUnique'
  <2>1. \A q \in Live(project) : project[q].slug # new.slug
    BY <1>1, <1>3 DEF SlugTaken
  <2>2. \A q, s \in Live(project') : project'[q].slug = project'[s].slug => q = s
    BY <1>4, <1>6, <2>1, LiveRows DEF BoardInv, NamesUnique
  <2>3. \A i, j \in Live(task') :
            /\ task'[i].project = task'[j].project
            /\ task'[i].code = task'[j].code /\ task'[i].code # "none"
            => i = j
    BY <1>1 DEF BoardInv, NamesUnique, Live
  <2> QED
    BY <2>2, <2>3 DEF NamesUnique
<1>9. \A q \in Requests : tx'[q] \in {tx[q], Idle}
  BY <1>1 DEF BoardInv, TypeOK
<1>10. \A q \in Projects :
           /\ project[q] = Gone => project'[q] = Gone
           /\ q \in Live(project) /\ project[q].tenant # "none" =>
                  \/ project'[q] = Gone
                  \/ q \in Live(project') /\ project'[q].tenant = project[q].tenant
  <2>1. Absent # Gone
    BY DEF Absent, Gone
  <2> QED
    BY <1>1, <1>4, <1>6, <2>1
<1>11. \A i \in Tasks :
           /\ task[i] = Gone => task'[i] = Gone
           /\ task[i] = Absent => task'[i] = Absent
           /\ i \in Live(task) => /\ i \in Live(task')
                                  /\ task'[i].project = task[i].project
                                  /\ task'[i].parent = task[i].parent
  BY <1>1 DEF Live
<1> QED
  BY <1>5, <1>7, <1>8, <1>9, <1>10, <1>11, TablesStep

\* A project and its tasks are deleted together.
LEMMA EraseStep ==
    ASSUME BoardInv, NEW p \in Projects, NEW tasks, Erase(p, tasks),
           tx' \in [Requests -> Request], \A q \in Requests : tx'[q] \in {tx[q], Idle}
    PROVE  BoardInv'
<1>1. /\ project' = [project EXCEPT ![p] = Gone]
      /\ task' = [i \in Tasks |-> IF i \in TasksOf(p) THEN Gone ELSE task[i]]
  BY DEF Erase
<1>2. TypeOK'
  BY <1>1 DEF BoardInv, TypeOK
<1>3. \A q \in Projects : project'[q] = IF q = p THEN Gone ELSE project[q]
  BY <1>1 DEF BoardInv, TypeOK
<1>4. Live(project') = Live(project) \ {p}
  BY <1>1, <1>3 DEF Live, BoardInv, TypeOK, Gone
<1>5. Live(task') = Live(task) \ TasksOf(p) /\ \A i \in Live(task') : task'[i] = task[i]
  BY <1>1 DEF Live, BoardInv, TypeOK, Gone
<1>6. \A i \in Live(task') : task[i].project # p
  BY <1>5 DEF TasksOf
<1>7. TasksInPlace'
  <2> SUFFICES ASSUME NEW i \in Live(task')
               PROVE  /\ task'[i].project \in Live(project')
                      /\ task'[i].tenant = project'[task'[i].project].tenant
                      /\ task'[i].agent # "none" => Home[task'[i].agent] = task'[i].tenant
                      /\ task'[i].parent # 0 =>
                            /\ task'[i].parent \in Live(task')
                            /\ task'[task'[i].parent].project = task'[i].project
                            /\ task'[task'[i].parent].parent = 0
    BY DEF TasksInPlace, TasksOf
  <2>1. /\ i \in Live(task) /\ task'[i] = task[i] /\ task[i].project # p
        /\ task[i].project \in Live(project) /\ task[i].project \in Projects
    BY <1>5, <1>6, LiveRows DEF BoardInv, TasksInPlace
  <2>2. /\ task'[i].project \in Live(project')
        /\ task'[i].tenant = project'[task'[i].project].tenant
        /\ task'[i].agent # "none" => Home[task'[i].agent] = task'[i].tenant
    BY <1>3, <1>4, <2>1 DEF BoardInv, TasksInPlace
  <2>3. ASSUME task[i].parent # 0
        PROVE  /\ task'[i].parent \in Live(task')
               /\ task'[task'[i].parent].project = task'[i].project
               /\ task'[task'[i].parent].parent = 0
    <3>1. /\ task[i].parent \in Live(task) /\ task[task[i].parent].project = task[i].project
          /\ task[task[i].parent].parent = 0
      BY <2>1, <2>3 DEF BoardInv, TasksInPlace, TasksOf
    <3>2. task[i].parent \in Live(task')
      BY <1>5, <2>1, <3>1 DEF TasksOf
    <3> QED
      BY <1>5, <2>1, <3>1, <3>2
  <2> QED
    BY <2>1, <2>2, <2>3
<1>8. NamesUnique'
  BY <1>3, <1>4, <1>5, LiveRows DEF BoardInv, NamesUnique
<1>9. \A q \in Projects :
          /\ project[q] = Gone => project'[q] = Gone
          /\ q \in Live(project) /\ project[q].tenant # "none" =>
                 \/ project'[q] = Gone
                 \/ q \in Live(project') /\ project'[q].tenant = project[q].tenant
  BY <1>3, <1>4
<1>10. \A i \in Tasks :
           /\ task[i] = Gone => task'[i] = Gone
           /\ task[i] = Absent => task'[i] = Absent
           /\ i \in Live(task) => \/ task'[i] = Gone
                                  \/ /\ i \in Live(task')
                                     /\ task'[i].project = task[i].project
                                     /\ task'[i].parent = task[i].parent
  BY <1>1, <1>5, LiveRows DEF TasksOf
<1> QED
  BY <1>2, <1>7, <1>8, <1>9, <1>10, TablesStep

LEMMA DeleteStep ==
    ASSUME BoardInv,
           \/ \E tenant \in Tenants, p \in Projects : delete_project(tenant, p)
           \/ \E r \in Requests : CommitDelete(r)
    PROVE  BoardInv'
<1>1. ASSUME NEW tenant \in Tenants, NEW p \in Projects, delete_project(tenant, p) PROVE BoardInv'
  <2>1. Erase(p, {}) /\ tx' = tx
    BY <1>1 DEF delete_project
  <2>2. tx' \in [Requests -> Request] /\ \A q \in Requests : tx'[q] \in {tx[q], Idle}
    BY <2>1 DEF BoardInv, TypeOK
  <2> QED
    BY <2>1, <2>2, EraseStep
<1>2. ASSUME NEW r \in Requests, CommitDelete(r) PROVE BoardInv'
  <2>1. /\ Erase(tx[r].project, tx[r].tasks) /\ tx' = [tx EXCEPT ![r] = Idle]
        /\ tx[r].project \in Projects
    BY <1>2 DEF CommitDelete, BoardInv, TypeOK, Request, Idle
  <2>2. tx' \in [Requests -> Request] /\ \A q \in Requests : tx'[q] \in {tx[q], Idle}
    BY <2>1 DEF BoardInv, TypeOK, Request
  <2> QED
    BY <2>1, <2>2, EraseStep
<1> QED
  BY <1>1, <1>2

\* The seed gives a tenant to projects that have none, and no task.
LEMMA SeedStep ==
    ASSUME BoardInv, seed
    PROVE  BoardInv'
<1>1. /\ project' = [p \in Projects |-> IF Visible(project, p, "none")
                                         THEN [project[p] EXCEPT !.tenant = Local] ELSE project[p]]
      /\ UNCHANGED <<task, tx>>
  BY DEF seed
<1>2. ASSUME NEW p \in Projects, Visible(project, p, "none")
      PROVE  /\ p \in Live(project) /\ project'[p] \in ProjectRow
             /\ project'[p].slug = project[p].slug /\ project'[p].state = "present"
             /\ \A i \in Live(task) : task[i].project # p
  <2>1. p \in Live(project) /\ project[p] \in ProjectRow /\ project[p].tenant = "none"
    BY <1>2, LiveRows DEF Visible
  <2>2. project'[p] = [project[p] EXCEPT !.tenant = Local]
    BY <1>1, <1>2
  <2>3. \A i \in Live(task) : task[i].tenant # "none"
    BY LiveRows, ProjectsAssumption DEF ProjectsAssumption, TaskRow
  <2>4. \A i \in Live(task) : task[i].project # p
    BY <2>1, <2>3 DEF BoardInv, TasksInPlace
  <2> QED
    BY <2>1, <2>2, <2>4, ProjectsAssumption DEF ProjectsAssumption, ProjectRow
<1>3. ASSUME NEW p \in Projects, ~Visible(project, p, "none") PROVE project'[p] = project[p]
  BY <1>1, <1>3
<1>4. TypeOK'
  BY <1>1, <1>2, <1>3 DEF BoardInv, TypeOK
<1>5. Live(project') = Live(project)
  BY <1>1, <1>2, <1>3 DEF Live, BoardInv, TypeOK
<1>6. \A i \in Live(task) : project'[task[i].project] = project[task[i].project]
  BY <1>2, <1>3, LiveRows DEF BoardInv, TasksInPlace
<1>7. TasksInPlace'
  BY ZenonT(60), <1>1, <1>5, <1>6 DEF BoardInv, TasksInPlace, TasksOf, Live
<1>8. \A p \in Live(project) : project'[p].slug = project[p].slug
  BY <1>2, <1>3, LiveRows
<1>9. NamesUnique'
  BY SMTT(60), <1>1, <1>5, <1>8 DEF BoardInv, NamesUnique, Live
<1>10. \A q \in Projects :
           /\ project[q] = Gone => project'[q] = Gone
           /\ q \in Live(project) /\ project[q].tenant # "none" =>
                  q \in Live(project') /\ project'[q].tenant = project[q].tenant
  BY <1>3, <1>5, LiveRows DEF Visible
<1>11. /\ \A r \in Requests : tx'[r] \in {tx[r], Idle}
       /\ \A i \in Tasks :
              /\ task[i] = Gone => task'[i] = Gone
              /\ task[i] = Absent => task'[i] = Absent
              /\ i \in Live(task) => /\ i \in Live(task')
                                     /\ task'[i].project = task[i].project
                                     /\ task'[i].parent = task[i].parent
  BY <1>1 DEF Live
<1> QED
  BY <1>4, <1>7, <1>9, <1>10, <1>11, TablesStep

LEMMA CommitTaskStep ==
    ASSUME BoardInv, NEW r \in Requests, CommitTask(r)
    PROVE  BoardInv'
<1> DEFINE i == tx[r].task
           row == tx[r].row
<1>1. /\ i \in Tasks /\ row \in TaskRow /\ tx[r].pc = "task"
      /\ References(row) /\ ~CodeTaken(row.project, row.code)
      /\ task' = [task EXCEPT ![i] = row] /\ tx' = [tx EXCEPT ![r] = Idle]
      /\ UNCHANGED project
  BY DEF CommitTask, BoardInv, TypeOK, Request, Idle
<1>2. /\ task[i] = Absent /\ row.agent = "none"
      /\ project[row.project] = Gone \/ Visible(project, row.project, row.tenant)
      /\ row.parent # 0 => \/ task[row.parent] = Gone
                           \/ /\ row.parent \in TasksOf(row.project)
                              /\ task[row.parent].parent = 0
  BY <1>1 DEF BoardInv, ReadsLast
<1>3. /\ row.project \in Live(project) /\ project[row.project].tenant = row.tenant
      /\ row.parent # 0 => row.parent \in TasksOf(row.project) /\ task[row.parent].parent = 0
  BY <1>1, <1>2, LiveRows DEF References, Visible
<1> HIDE DEF i, row
<1>4. \A j \in Tasks : task'[j] = IF j = i THEN row ELSE task[j]
  BY <1>1 DEF BoardInv, TypeOK
<1>5. i \notin Live(task) /\ Live(task') = Live(task) \cup {i}
  <2>1. i \notin Live(task)
    BY <1>2, LiveRows
  <2>2. row.state = "present"
    BY <1>1 DEF TaskRow
  <2> QED
    BY <1>1, <1>4, <2>1, <2>2 DEF Live, BoardInv, TypeOK
<1>6. TypeOK'
  BY <1>1 DEF BoardInv, TypeOK, Request
<1>7. \A j \in Live(task) : j \in Tasks /\ j # i /\ task'[j] = task[j]
  BY <1>4, <1>5, LiveRows
<1>8. TasksInPlace'
  <2> SUFFICES ASSUME NEW j \in Live(task')
               PROVE  /\ task'[j].project \in Live(project)
                      /\ task'[j].tenant = project[task'[j].project].tenant
                      /\ task'[j].agent # "none" => Home[task'[j].agent] = task'[j].tenant
                      /\ task'[j].parent # 0 =>
                            /\ task'[j].parent \in Live(task')
                            /\ task'[task'[j].parent].project = task'[j].project
                            /\ task'[task'[j].parent].parent = 0
    BY <1>1 DEF TasksInPlace, TasksOf, Live
  <2>1. CASE j = i
    BY ZenonT(60), <1>1, <1>2, <1>3, <1>4, <1>5, <1>7, <2>1 DEF TasksOf
  <2>2. CASE j # i
    <3>1. j \in Live(task) /\ task'[j] = task[j]
      BY <1>5, <1>7, <2>2
    <3>2. task[j].parent # 0 => /\ task[j].parent \in Live(task)
                                /\ task[task[j].parent].project = task[j].project
                                /\ task[task[j].parent].parent = 0
      BY <3>1 DEF BoardInv, TasksInPlace, TasksOf
    <3>3. /\ task[j].project \in Live(project)
          /\ task[j].tenant = project[task[j].project].tenant
          /\ task[j].agent # "none" => Home[task[j].agent] = task[j].tenant
      BY <3>1 DEF BoardInv, TasksInPlace
    <3> QED
      BY <1>5, <1>7, <3>1, <3>2, <3>3
  <2> QED
    BY <2>1, <2>2
<1>9. NamesUnique'
  <2>1. \A j \in Live(task) : task[j].project = row.project /\ row.code # "none"
                                  => task[j].code # row.code
    BY <1>1 DEF CodeTaken, TasksOf
  <2>2. \A j, k \in Live(task') :
            /\ task'[j].project = task'[k].project
            /\ task'[j].code = task'[k].code /\ task'[j].code # "none"
            => j = k
    <3> SUFFICES ASSUME NEW j \in Live(task'), NEW k \in Live(task'),
                        task'[j].project = task'[k].project,
                        task'[j].code = task'[k].code, task'[j].code # "none"
                 PROVE  j = k
      OBVIOUS
    <3>1. CASE j = i \/ k = i
      BY <1>1, <1>4, <1>5, <1>7, <2>1, <3>1
    <3>2. CASE j # i /\ k # i
      BY <1>5, <1>7, <3>2 DEF BoardInv, NamesUnique
    <3> QED
      BY <3>1, <3>2
  <2>3. \A p, q \in Live(project') : project'[p].slug = project'[q].slug => p = q
    BY <1>1 DEF BoardInv, NamesUnique, Live
  <2> QED
    BY <2>2, <2>3 DEF NamesUnique
<1>10. \A q \in Requests : tx'[q] \in {tx[q], Idle}
  BY <1>1 DEF BoardInv, TypeOK
<1>11. \A q \in Projects :
           /\ project[q] = Gone => project'[q] = Gone
           /\ q \in Live(project) => q \in Live(project') /\ project'[q].tenant = project[q].tenant
  BY <1>1 DEF Live
<1>12. \A j \in Tasks :
           /\ task[j] = Gone => task'[j] = Gone
           /\ task[j] = Absent => \/ task'[j] = Absent
                                  \/ \E q \in Requests : /\ tx[q].pc = "task" /\ tx[q].task = j
                                                         /\ tx'[q] = Idle
           /\ j \in Live(task) => /\ j \in Live(task')
                                  /\ task'[j].project = task[j].project
                                  /\ task'[j].parent = task[j].parent
  <2>1. Absent # Gone
    BY DEF Absent, Gone
  <2>2. tx[r].pc = "task" /\ tx[r].task = i /\ tx'[r] = Idle
    BY <1>1 DEF i, BoardInv, TypeOK
  <2> QED
    BY <1>2, <1>4, <1>5, <1>7, <2>1, <2>2
<1> QED
  BY <1>6, <1>8, <1>9, <1>10, <1>11, <1>12, TablesStep

LEMMA WriteStep ==
    ASSUME BoardInv, NEW tenant \in Tenants, NEW i \in Tasks,
           \/ \E status \in Statuses : update_task(tenant, i, status)
           \/ \E agent \in Agents : assign_task(tenant, i, agent)
    PROVE  BoardInv'
<1>1. ASSUME NEW row \in TaskRow, i \in Live(task), task' = [task EXCEPT ![i] = row],
             row.project = task[i].project, row.tenant = task[i].tenant,
             row.parent = task[i].parent, row.code = task[i].code,
             row.agent # "none" => Home[row.agent] = row.tenant,
             UNCHANGED <<project, tx>>
      PROVE  BoardInv'
  <2>1. \A j \in Tasks : task'[j] = IF j = i THEN row ELSE task[j]
    BY <1>1 DEF BoardInv, TypeOK
  <2>2. Live(task') = Live(task)
    <3>1. row.state = "present"
      BY <1>1 DEF TaskRow
    <3> QED
      BY <1>1, <2>1, <3>1 DEF Live, BoardInv, TypeOK
  <2>3. \A j \in Live(task) : /\ j \in Tasks
                              /\ task'[j].project = task[j].project
                              /\ task'[j].tenant = task[j].tenant
                              /\ task'[j].parent = task[j].parent
                              /\ task'[j].code = task[j].code
                              /\ j # i => task'[j].agent = task[j].agent
    BY <1>1, <2>1, LiveRows
  <2>4. TypeOK'
    BY <1>1 DEF BoardInv, TypeOK
  <2>5. TasksInPlace'
    <3> SUFFICES ASSUME NEW j \in Live(task)
                 PROVE  /\ task'[j].project \in Live(project)
                        /\ task'[j].tenant = project[task'[j].project].tenant
                        /\ task'[j].agent # "none" => Home[task'[j].agent] = task'[j].tenant
                        /\ task'[j].parent # 0 =>
                              /\ task'[j].parent \in Live(task)
                              /\ task'[task'[j].parent].project = task'[j].project
                              /\ task'[task'[j].parent].parent = 0
      BY <1>1, <2>2 DEF TasksInPlace, TasksOf, Live
    <3>1. /\ task[j].project \in Live(project)
          /\ task[j].tenant = project[task[j].project].tenant
          /\ task[j].agent # "none" => Home[task[j].agent] = task[j].tenant
          /\ task[j].parent # 0 => /\ task[j].parent \in Live(task)
                                   /\ task[task[j].parent].project = task[j].project
                                   /\ task[task[j].parent].parent = 0
      BY DEF BoardInv, TasksInPlace, TasksOf
    <3>2. task'[j].agent # "none" => Home[task'[j].agent] = task'[j].tenant
      BY <1>1, <2>1, <2>3, <3>1
    <3> QED
      BY <2>3, <3>1, <3>2
  <2>6. NamesUnique'
    <3>1. \A j, k \in Live(task') :
              /\ task'[j].project = task'[k].project
              /\ task'[j].code = task'[k].code /\ task'[j].code # "none"
              => j = k
      BY <2>2, <2>3 DEF BoardInv, NamesUnique
    <3> QED
      BY <1>1, <3>1 DEF BoardInv, NamesUnique, Live
  <2>7. /\ \A q \in Requests : tx'[q] \in {tx[q], Idle}
        /\ \A q \in Projects :
               /\ project[q] = Gone => project'[q] = Gone
               /\ q \in Live(project) => q \in Live(project') /\ project'[q].tenant = project[q].tenant
    BY <1>1 DEF Live
  <2>8. \A j \in Tasks :
            /\ task[j] = Gone => task'[j] = Gone
            /\ task[j] = Absent => task'[j] = Absent
            /\ j \in Live(task) => /\ j \in Live(task')
                                   /\ task'[j].project = task[j].project
                                   /\ task'[j].parent = task[j].parent
    BY <1>1, <2>1, <2>2, <2>3, LiveRows
  <2> QED
    BY <2>4, <2>5, <2>6, <2>7, <2>8, TablesStep
<1>2. ASSUME i \in Live(task)
      PROVE  task[i] \in TaskRow /\ (task[i].agent # "none" => Home[task[i].agent] = task[i].tenant)
  BY <1>2, LiveRows DEF BoardInv, TasksInPlace
<1>3. ASSUME NEW status \in Statuses, update_task(tenant, i, status) PROVE BoardInv'
  <2> DEFINE row == [task[i] EXCEPT !.status = status]
  <2>1. i \in Live(task) /\ task' = [task EXCEPT ![i] = row] /\ UNCHANGED <<project, tx>>
    BY <1>3 DEF update_task, Write, Visible
  <2>2. task[i] \in TaskRow
    BY <1>2, <2>1
  <2>3. /\ row \in TaskRow /\ row.project = task[i].project /\ row.tenant = task[i].tenant
        /\ row.parent = task[i].parent /\ row.code = task[i].code /\ row.agent = task[i].agent
    BY <2>2 DEF TaskRow
  <2> HIDE DEF row
  <2>4. row.agent # "none" => Home[row.agent] = row.tenant
    BY <1>2, <2>1, <2>3
  <2> QED
    BY <1>1, <2>1, <2>3, <2>4
<1>4. ASSUME NEW agent \in Agents, assign_task(tenant, i, agent) PROVE BoardInv'
  <2> DEFINE row == [task[i] EXCEPT !.agent = agent]
  <2>1. /\ i \in Live(task) /\ task' = [task EXCEPT ![i] = row] /\ UNCHANGED <<project, tx>>
        /\ task[i].tenant = tenant /\ Home[agent] = tenant
    BY <1>4 DEF assign_task, Write, Visible
  <2>2. task[i] \in TaskRow
    BY <1>2, <2>1
  <2>3. /\ row \in TaskRow /\ row.project = task[i].project /\ row.tenant = task[i].tenant
        /\ row.parent = task[i].parent /\ row.code = task[i].code /\ row.agent = agent
    BY <2>2 DEF TaskRow
  <2> HIDE DEF row
  <2>4. row.agent # "none" => Home[row.agent] = row.tenant
    BY <2>1, <2>3
  <2> QED
    BY <1>1, <2>1, <2>3, <2>4
<1> QED
  BY <1>3, <1>4

LEMMA NextBoard == BoardInv /\ [Next]_vars => BoardInv'
<1> SUFFICES ASSUME BoardInv, [Next]_vars PROVE BoardInv'
  OBVIOUS
<1>1. ASSUME UNCHANGED <<project, task, tx>> PROVE BoardInv'
  BY <1>1 DEF BoardInv, TypeOK, TasksInPlace, NamesUnique, ReadsLast, TasksOf, Live, Visible
<1>2. CASE UNCHANGED vars
  BY <1>1, <1>2 DEF vars
<1>3. ASSUME NEW tenant \in Tenants, NEW p \in Projects,
             NEW status \in Statuses \cup {"any"}, NEW parent \in Tasks \cup {0},
             Open(tenant, p, status, parent)
      PROVE  BoardInv'
  BY <1>1, <1>3 DEF Open
<1>4. CASE list_tasks \/ Leave
  BY <1>1, <1>4 DEF list_tasks, Leave
<1>5. CASE Next
  BY <1>3, <1>4, <1>5, CommitProjectStep, CommitTaskStep, CreateTaskStep, DeleteStep, EnterStep,
     SeedStep, WriteStep DEF Next
<1> QED
  BY <1>2, <1>5

\* Tasks in place and names unique, whoever creates and deletes together, for every
\* number of tenants, projects, tasks and requests.
THEOREM BoardKept == Spec => []BoardInv
<1> QED
  BY InitBoard, NextBoard, PTL DEF Spec

-----------------------------------------------------------------------------
\* A walk through any list.

CONSTANTS Rows, Column, Listing

VARIABLES listed, pc, cursor, shown, steady

AnyList == INSTANCE Listings

\* An instance counts as any module does.
LEMMA ListCounts ==
    /\ \A S : AnyList!Cardinality(S) = Cardinality(S)
    /\ \A S : AnyList!IsFiniteSet(S) <=> IsFiniteSet(S)
<1>1. \A S : AnyList!Cardinality(S) = Cardinality(S)
  BY DEF AnyList!Cardinality, Cardinality
<1>2. \A S : AnyList!IsFiniteSet(S) <=> IsFiniteSet(S)
  BY DEF AnyList!IsFiniteSet, IsFiniteSet
<1> QED
  BY <1>1, <1>2

\* The order of a list, as a set of pairs.
ListOrder == {e \in Rows \X Rows : AnyList!Precedes(e[1], e[2])}

\* It is a strict total order, whichever its direction and however many rows share a
\* value of the column.
LEMMA ListOrdered ==
    ASSUME AnyList!ListingsAssumption
    PROVE  /\ OrderOn(ListOrder, Rows)
           /\ \A i, j \in Rows : <<i, j>> \in ListOrder <=> AnyList!Precedes(i, j)
<1>1. \A i, j \in Rows : <<i, j>> \in ListOrder <=> AnyList!Precedes(i, j)
  BY DEF ListOrder
<1>2. \A i \in Rows : i \in Int /\ Column[i] \in Int
  BY DEF AnyList!ListingsAssumption
<1>3. OrderOn(ListOrder, Rows)
  <2> HIDE DEF ListOrder
  <2> QED
    BY <1>1, <1>2 DEF OrderOn, AnyList!Precedes, AnyList!Below
<1> QED
  BY <1>1, <1>3

\* What follows a cursor is beyond it.
LEMMA FollowingIsBeyond ==
    ASSUME AnyList!ListingsAssumption, NEW rows \in SUBSET Rows, NEW after \in SUBSET Rows
    PROVE  AnyList!Following(rows, after) = Beyond(ListOrder, rows, after)
<1>1. \A i, j \in Rows : <<i, j>> \in ListOrder <=> AnyList!Precedes(i, j)
  BY ListOrdered
<1> HIDE DEF ListOrder
<1> QED
  BY <1>1 DEF AnyList!Following, Beyond

LEMMA PageKept ==
    ASSUME AnyList!ListingsAssumption, AnyList!WalkInv, AnyList!NextPage
    PROVE  AnyList!WalkInv'
<1> DEFINE rest == AnyList!Following(listed, cursor)
<1>0. AnyList!Cardinality(rest) = Cardinality(rest)
  BY ListCounts, Zenon
<1>1. PICK page \in SUBSET rest :
        /\ AnyList!IsPage(page, rest)
        /\ shown' = shown \cup page
        /\ IF Cardinality(rest) > Limit
           THEN \E i \in page : AnyList!IsLast(i, page) /\ cursor' = {i} /\ UNCHANGED pc
           ELSE pc' = "done" /\ UNCHANGED cursor
  <2>1. \E page \in SUBSET rest :
          /\ AnyList!IsPage(page, rest)
          /\ shown' = shown \cup page
          /\ IF AnyList!Cardinality(rest) > Limit
             THEN \E i \in page : AnyList!IsLast(i, page) /\ cursor' = {i} /\ UNCHANGED pc
             ELSE pc' = "done" /\ UNCHANGED cursor
    BY Zenon DEF AnyList!NextPage
  <2> HIDE DEF rest
  <2> QED
    BY <1>0, <2>1
<1>2. /\ pc = "open" /\ UNCHANGED <<listed, steady>>
      /\ rest \subseteq Rows /\ page \subseteq Rows
      /\ listed \subseteq Rows /\ shown \subseteq Rows /\ steady \subseteq Rows
      /\ cursor \subseteq Rows
  BY <1>1 DEF AnyList!NextPage, AnyList!WalkInv, AnyList!TypeOK, AnyList!Following
<1>3. CASE Cardinality(rest) > Limit
  <2>1. PICK l \in page : AnyList!IsLast(l, page) /\ cursor' = {l} /\ pc' = "open"
    BY <1>1, <1>2, <1>3
  <2>2. rest = Beyond(ListOrder, listed, cursor)
    BY <1>2, FollowingIsBeyond
  <2>3. Leading(page, ListOrder, rest) /\ \A j \in page \ {l} : <<j, l>> \in ListOrder
    BY <1>1, <1>2, <2>1, ListOrdered DEF Leading, AnyList!IsPage, AnyList!IsLast
  <2>4. /\ shown = {} \/ \E c \in Rows : cursor = {c}
        /\ shown # {} => shown \cap Beyond(ListOrder, Rows, cursor) = {}
        /\ steady \subseteq shown \cup rest
    <3>1. AnyList!Following(Rows, cursor) = Beyond(ListOrder, Rows, cursor)
      BY <1>2, FollowingIsBeyond
    <3>2. shown = {} \/ \E c \in Rows : cursor = {c}
      BY <1>2 DEF AnyList!WalkInv, AnyList!TypeOK, AnyList!NothingSkipped
    <3>3. shown # {} => shown \cap AnyList!Following(Rows, cursor) = {}
      BY <1>2, <3>2 DEF AnyList!WalkInv, AnyList!ShownOnce
    <3>4. steady \subseteq shown \cup rest
      BY <1>2 DEF AnyList!WalkInv, AnyList!NothingSkipped
    <3> QED
      BY <3>1, <3>2, <3>3, <3>4
  <2>5. Walked(ListOrder, Rows, listed, {l}, shown \cup page, steady)
    <3>1. OrderOn(ListOrder, Rows)
      BY ListOrdered
    <3>2. Leading(page, ListOrder, Beyond(ListOrder, listed, cursor))
      BY <2>2, <2>3
    <3>3. steady \subseteq shown \cup Beyond(ListOrder, listed, cursor)
      BY <2>2, <2>4
    <3> QED
      BY <1>2, <2>3, <2>4, <3>1, <3>2, <3>3, PageWalked
  <2>6. /\ AnyList!Following(listed, {l}) = Beyond(ListOrder, listed, {l})
        /\ AnyList!Following(Rows, {l}) = Beyond(ListOrder, Rows, {l})
    BY <1>2, FollowingIsBeyond
  <2>7. /\ shown' \cap AnyList!Following(Rows, {l}) = {}
        /\ steady' \subseteq shown' \cup AnyList!Following(listed', {l})
    BY <1>1, <1>2, <2>5, <2>6 DEF Walked
  <2>8. AnyList!TypeOK'
    BY <1>1, <1>2, <2>1 DEF AnyList!TypeOK
  <2>9. AnyList!NothingSkipped' /\ AnyList!ShownOnce'
    BY <2>1, <2>7 DEF AnyList!NothingSkipped, AnyList!ShownOnce, AnyList!Following,
       AnyList!Precedes, AnyList!Below
  <2> QED
    BY <2>1, <2>8, <2>9 DEF AnyList!WalkInv, AnyList!WalkComplete
<1>4. CASE ~(Cardinality(rest) > Limit)
  <2>1. pc' = "done" /\ cursor' = cursor
    BY <1>1, <1>4
  <2>2. page = rest
    <3>1. IsFiniteSet(Rows)
      BY ListCounts DEF AnyList!ListingsAssumption
    <3>2. IsFiniteSet(rest)
      BY <1>2, <3>1, FS_Subset
    <3>3. AnyList!Cardinality(page) = Cardinality(page)
      BY ListCounts, Zenon
    <3> HIDE DEF rest
    <3>4. Cardinality(page) = Cardinality(rest)
      BY <1>0, <1>1, <1>4, <3>3 DEF AnyList!IsPage
    <3> QED
      BY <1>1, <3>2, <3>4, FS_Subset
  <2>3. steady \subseteq shown'
    BY <1>1, <1>2, <2>2 DEF AnyList!WalkInv, AnyList!NothingSkipped
  <2> QED
    BY <1>1, <1>2, <2>1, <2>3 DEF AnyList!WalkInv, AnyList!TypeOK, AnyList!WalkComplete,
       AnyList!ShownOnce, AnyList!NothingSkipped
<1> QED
  BY <1>3, <1>4

LEMMA WalkStep ==
    ASSUME AnyList!ListingsAssumption, AnyList!WalkInv, [AnyList!Next]_(AnyList!vars)
    PROVE  AnyList!WalkInv'
<1> USE DEF AnyList!WalkInv, AnyList!TypeOK, AnyList!WalkComplete, AnyList!ShownOnce,
            AnyList!NothingSkipped
<1>1. CASE AnyList!Change
  BY <1>1 DEF AnyList!Change, AnyList!Following, AnyList!Precedes, AnyList!Below
<1>2. CASE AnyList!Open
  BY <1>2 DEF AnyList!Open, AnyList!Following
<1>3. CASE AnyList!NextPage
  BY <1>3, PageKept
<1>4. CASE AnyList!Leave
  BY <1>4 DEF AnyList!Leave
<1>5. CASE UNCHANGED AnyList!vars
  BY <1>5 DEF AnyList!vars, AnyList!Following, AnyList!Precedes, AnyList!Below
<1> QED
  BY <1>1, <1>2, <1>3, <1>4, <1>5 DEF AnyList!Next

\* Whatever the list, the size of its pages, the rows and their dates, and however
\* the rows change between two pages.
THEOREM WalkKeptWhole ==
    ASSUME AnyList!ListingsAssumption
    PROVE  AnyList!Spec => []AnyList!WalkInv
<1>1. AnyList!Init => AnyList!WalkInv
  BY DEF AnyList!Init, AnyList!WalkInv, AnyList!TypeOK, AnyList!WalkComplete,
     AnyList!ShownOnce, AnyList!NothingSkipped
<1>2. AnyList!WalkInv /\ [AnyList!Next]_(AnyList!vars) => AnyList!WalkInv'
  BY WalkStep
<1> QED
  BY <1>1, <1>2, PTL DEF AnyList!Spec

-----------------------------------------------------------------------------
\* The walk through the tasks of a project.

WalkTyped ==
    walk \in [pc : {"closed", "open", "done", "left"}, project : Projects, tenant : Tenants,
              status : Statuses \cup {"any"}, parent : Tasks \cup {0}, cursor : SUBSET Tasks, shown : SUBSET Tasks,
              steady : SUBSET Tasks]

LEMMA TaskListCounts ==
    /\ \A S : TheList!Cardinality(S) = Cardinality(S)
    /\ \A S : TheList!IsFiniteSet(S) <=> IsFiniteSet(S)
<1>1. \A S : TheList!Cardinality(S) = Cardinality(S)
  BY DEF TheList!Cardinality, Cardinality
<1>2. \A S : TheList!IsFiniteSet(S) <=> IsFiniteSet(S)
  BY DEF TheList!IsFiniteSet, IsFiniteSet
<1> QED
  BY <1>1, <1>2

\* The newest task comes first.
TaskOrder == {e \in Tasks \X Tasks : Older(e[2], e[1])}

LEMMA TasksOrdered ==
    /\ OrderOn(TaskOrder, Tasks)
    /\ \A i, j \in Tasks : <<i, j>> \in TaskOrder <=> Older(j, i)
<1>1. \A i, j \in Tasks : <<i, j>> \in TaskOrder <=> Older(j, i)
  BY DEF TaskOrder
<1>2. \A i \in Tasks : i \in Nat /\ Born[i] \in Nat
  BY ProjectsAssumption DEF ProjectsAssumption
<1>3. OrderOn(TaskOrder, Tasks)
  <2> HIDE DEF TaskOrder
  <2> QED
    BY <1>1, <1>2 DEF OrderOn, Older
<1> QED
  BY <1>1, <1>3

\* It is the order of that list, and the list loses rows.
LEMMA OrderOfTasks ==
    /\ \A i, j : TheList!Precedes(i, j) <=> Older(j, i)
    /\ ~TheList!Lasting
BY DEF TheList!Precedes, TheList!Below, Older, TheList!Lasting, TheList!Lists, TheList!list_tasks

LEMMA NewestAreFirst ==
    ASSUME NEW rows \in SUBSET Tasks, NEW n \in Nat
    PROVE  /\ IsFiniteSet(rows) /\ OrderOn(TaskOrder, rows)
           /\ Newest(rows, n) = FirstOf(TaskOrder, rows, n)
<1>1. IsFiniteSet(rows)
  BY ProjectsAssumption, FS_Subset DEF ProjectsAssumption
<1>2. \A i, j \in Tasks : <<i, j>> \in TaskOrder <=> Older(j, i)
  BY TasksOrdered
<1>3. OrderOn(TaskOrder, Tasks)
  BY TasksOrdered
<1> HIDE DEF TaskOrder
<1>4. OrderOn(TaskOrder, rows)
  BY <1>3 DEF OrderOn
<1>5. \A i \in rows : Before(TaskOrder, rows, i) = {j \in rows : Older(i, j)}
  BY <1>2 DEF Before
<1>6. Newest(rows, n) = FirstOf(TaskOrder, rows, n)
  BY <1>5 DEF Newest, FirstOf
<1> QED
  BY <1>1, <1>4, <1>6

\* What the query selects and the page shows: no other row comes before one of
\* them, and they are as many as asked for, or all there are.
LEMMA NewestCounted ==
    ASSUME NEW rows \in SUBSET Tasks, NEW n \in Nat
    PROVE  /\ Newest(rows, n) \subseteq rows
           /\ \A i \in Newest(rows, n), j \in rows \ Newest(rows, n) : Older(j, i)
           /\ Cardinality(Newest(rows, n)) =
                  IF n <= Cardinality(rows) THEN n ELSE Cardinality(rows)
<1>1. /\ IsFiniteSet(rows) /\ OrderOn(TaskOrder, rows)
      /\ Newest(rows, n) = FirstOf(TaskOrder, rows, n)
  BY NewestAreFirst
<1>2. Leading(Newest(rows, n), TaskOrder, rows)
  BY <1>1, FirstAreLeading
<1>3. Cardinality(Newest(rows, n)) = IF n <= Cardinality(rows) THEN n ELSE Cardinality(rows)
  BY <1>1, FirstCounted
<1>4. \A i, j \in Tasks : <<i, j>> \in TaskOrder <=> Older(j, i)
  BY TasksOrdered
<1> HIDE DEF TaskOrder
<1> QED
  BY <1>2, <1>3, <1>4 DEF Leading

\* One row more than the page is read: the page is the first rows of what follows.
LEMMA PageOfRows ==
    ASSUME NEW rest \in SUBSET Tasks
    PROVE  LET rows == Newest(rest, Limit + 1)
               page == Newest(rows, Limit)
           IN  /\ page \subseteq rest
               /\ \A i \in page, j \in rest \ page : Older(j, i)
               /\ Cardinality(rows) > Limit <=> Cardinality(rest) > Limit
               /\ Cardinality(page) = IF Cardinality(rest) > Limit THEN Limit
                                      ELSE Cardinality(rest)
<1> DEFINE rows == Newest(rest, Limit + 1)
           page == Newest(rows, Limit)
<1>1. Limit \in Nat
  BY ProjectsAssumption DEF ProjectsAssumption
<1>2. /\ rows \subseteq rest
      /\ \A i \in rows, j \in rest \ rows : Older(j, i)
      /\ Cardinality(rows) =
             IF Limit + 1 <= Cardinality(rest) THEN Limit + 1 ELSE Cardinality(rest)
  BY <1>1, NewestCounted
<1> HIDE DEF rows
<1>3. rows \in SUBSET Tasks
  BY <1>2
<1>4. /\ page \subseteq rows
      /\ \A i \in page, j \in rows \ page : Older(j, i)
      /\ Cardinality(page) = IF Limit <= Cardinality(rows) THEN Limit ELSE Cardinality(rows)
  BY <1>1, <1>3, NewestCounted
<1>5. Cardinality(rest) \in Nat
  BY ProjectsAssumption, FS_Subset, FS_CardinalityType DEF ProjectsAssumption
<1> HIDE DEF page
<1>6. \A i \in page, j \in rest \ page : Older(j, i)
  BY <1>2, <1>4
<1>7. /\ Cardinality(rows) > Limit <=> Cardinality(rest) > Limit
      /\ Cardinality(page) = IF Cardinality(rest) > Limit THEN Limit ELSE Cardinality(rest)
  BY <1>1, <1>2, <1>4, <1>5
<1> QED
  BY <1>2, <1>4, <1>6, <1>7 DEF rows, page

\* The cursor of a page that is not empty is one row, its last.
LEMMA CursorIsLast ==
    ASSUME NEW page \in SUBSET Tasks, page # {}
    PROVE  \E l \in page : LastOf(page) = {l} /\ \A j \in page \ {l} : Older(l, j)
<1>1. PICK l \in page : \A x \in page \ {l} : <<x, l>> \in TaskOrder
  <2>1. IsFiniteSet(Tasks) /\ OrderOn(TaskOrder, Tasks)
    BY TasksOrdered, ProjectsAssumption DEF ProjectsAssumption
  <2> HIDE DEF TaskOrder
  <2> QED
    BY <2>1, LastElement
<1>2. \A i, j \in Tasks : <<i, j>> \in TaskOrder <=> Older(j, i)
  BY TasksOrdered
<1>3. OrderOn(TaskOrder, Tasks)
  BY TasksOrdered
<1> HIDE DEF TaskOrder
<1>4. \A j \in page \ {l} : Older(l, j) /\ ~Older(j, l)
  BY <1>1, <1>2, <1>3 DEF OrderOn
<1>5. LastOf(page) = {l}
  BY <1>4 DEF LastOf
<1> QED
  BY <1>4, <1>5

LEMMA AdmittedAreTasks ==
    ASSUME NEW table, DOMAIN table = Tasks, NEW w
    PROVE  Admitted(table, w) \subseteq Tasks
BY DEF Admitted, Live

LEMMA WalkBegins == Init => WalkTyped /\ TheList!Init
<1> SUFFICES ASSUME Init PROVE WalkTyped /\ TheList!Init
  OBVIOUS
<1>1. WalkTyped
  BY ProjectsAssumption DEF ProjectsAssumption, Init, WalkTyped
<1>2. DOMAIN task = Tasks
  BY DEF Init
<1> QED
  BY <1>1, <1>2, AdmittedAreTasks DEF Init, TheList!Init

\* The tables change.
LEMMA FollowedChanges ==
    ASSUME WalkTyped, Followed, DOMAIN task' = Tasks
    PROVE  WalkTyped' /\ TheList!Change
<1> DEFINE kept == walk.steady \cap Admitted(task', walk)
<1>1. walk' = IF walk.pc = "open" THEN [walk EXCEPT !.steady = kept] ELSE walk
  BY DEF Followed
<1>2. kept \subseteq Tasks
  BY DEF WalkTyped
<1>3. /\ WalkTyped'
      /\ walk'.steady = IF walk.pc = "open" THEN kept ELSE walk.steady
      /\ walk'.pc = walk.pc /\ walk'.cursor = walk.cursor /\ walk'.shown = walk.shown
      /\ walk'.project = walk.project /\ walk'.tenant = walk.tenant /\ walk'.status = walk.status
      /\ walk'.parent = walk.parent
  <2> HIDE DEF kept
  <2> QED
    BY <1>1, <1>2 DEF WalkTyped
<1>4. Admitted(task', walk') = Admitted(task', walk)
  BY <1>3 DEF Admitted
<1>5. Admitted(task', walk') \subseteq Tasks
  BY AdmittedAreTasks
<1>6. ~TheList!Lasting
  BY OrderOfTasks
<1> QED
  BY <1>3, <1>4, <1>5, <1>6 DEF TheList!Change

\* A page is read.
LEMMA PageListed ==
    ASSUME BoardInv, WalkTyped, list_tasks
    PROVE  WalkTyped' /\ TheList!NextPage
<1> DEFINE rest == {i \in Admitted(task, walk) : \A c \in walk.cursor : Older(i, c)}
           rows == Newest(rest, Limit + 1)
           page == Newest(rows, Limit)
           more == Cardinality(rows) > Limit
<1>1. rest \in SUBSET Tasks
  <2>1. DOMAIN task = Tasks
    BY DEF BoardInv, TypeOK
  <2> QED
    BY <2>1, AdmittedAreTasks
<1>2. /\ walk.pc = "open" /\ UNCHANGED task
      /\ walk' = [walk EXCEPT !.shown = @ \cup page,
                             !.cursor = IF more THEN LastOf(page) ELSE @,
                             !.pc = IF more THEN @ ELSE "done"]
  BY Zenon DEF list_tasks, PageRows, NextCursor
<1>3. TheList!Following(Admitted(task, walk), walk.cursor) = rest
  BY OrderOfTasks DEF TheList!Following
<1>4. /\ page \subseteq rest
      /\ \A i \in page, j \in rest \ page : Older(j, i)
      /\ more <=> Cardinality(rest) > Limit
      /\ Cardinality(page) = IF Cardinality(rest) > Limit THEN Limit ELSE Cardinality(rest)
  <2> HIDE DEF rest
  <2> QED
    BY <1>1, PageOfRows
<1> HIDE DEF rest, page
<1>5. TheList!IsPage(page, rest)
  <2>1. /\ TheList!Cardinality(page) = Cardinality(page)
        /\ TheList!Cardinality(rest) = Cardinality(rest)
    BY TaskListCounts, Zenon
  <2> QED
    BY <1>4, <2>1, OrderOfTasks DEF TheList!IsPage
<1>6. more => \E l \in page : LastOf(page) = {l} /\ TheList!IsLast(l, page)
  <2> SUFFICES ASSUME more PROVE \E l \in page : LastOf(page) = {l} /\ TheList!IsLast(l, page)
    OBVIOUS
  <2>1. page # {}
    <3>1. Limit # 0
      BY ProjectsAssumption DEF ProjectsAssumption
    <3>2. Cardinality(page) = Limit
      BY <1>4
    <3> QED
      BY <3>1, <3>2, FS_EmptySet
  <2>2. page \in SUBSET Tasks
    BY <1>1, <1>4
  <2>3. PICK l \in page : LastOf(page) = {l} /\ \A j \in page \ {l} : Older(l, j)
    BY <2>1, <2>2, CursorIsLast
  <2> QED
    BY <2>3, OrderOfTasks DEF TheList!IsLast
<1>7. TheList!Cardinality(rest) > Limit <=> more
  <2>1. TheList!Cardinality(rest) = Cardinality(rest)
    BY TaskListCounts, Zenon
  <2> QED
    BY <1>4, <2>1
<1>8. LastOf(page) \subseteq Tasks /\ page \subseteq Tasks
  BY <1>1, <1>4 DEF LastOf
<1> HIDE DEF more
<1>9. /\ WalkTyped'
      /\ walk'.shown = walk.shown \cup page
      /\ walk'.cursor = IF more THEN LastOf(page) ELSE walk.cursor
      /\ walk'.pc = IF more THEN walk.pc ELSE "done"
      /\ walk'.steady = walk.steady
      /\ walk'.project = walk.project /\ walk'.tenant = walk.tenant /\ walk'.status = walk.status
      /\ walk'.parent = walk.parent
  <2> DEFINE after == IF more THEN LastOf(page) ELSE walk.cursor
             seen == walk.shown \cup page
             next == IF more THEN walk.pc ELSE "done"
  <2>1. after \subseteq Tasks /\ seen \subseteq Tasks /\ next \in {"open", "done"}
    BY <1>2, <1>8 DEF WalkTyped
  <2>2. walk' = [walk EXCEPT !.shown = seen, !.cursor = after, !.pc = next]
    BY <1>2 DEF WalkTyped
  <2> HIDE DEF after, seen, next
  <2>3. /\ WalkTyped'
        /\ walk'.shown = seen /\ walk'.cursor = after /\ walk'.pc = next
        /\ walk'.steady = walk.steady
        /\ walk'.project = walk.project /\ walk'.tenant = walk.tenant /\ walk'.status = walk.status
        /\ walk'.parent = walk.parent
    BY <2>1, <2>2 DEF WalkTyped
  <2> QED
    BY <2>3 DEF after, seen, next
<1>10. Admitted(task, walk)' = Admitted(task, walk)
  BY <1>2, <1>9 DEF Admitted
<1> QED
  BY <1>2, <1>3, <1>4, <1>5, <1>6, <1>7, <1>9, <1>10 DEF TheList!NextPage

\* Neither the tasks nor the walk change.
LEMMA ListStays ==
    ASSUME WalkTyped, UNCHANGED <<task, walk>>
    PROVE  WalkTyped' /\ UNCHANGED TheList!vars
<1>1. Admitted(task, walk)' = Admitted(task, walk)
  BY DEF Admitted, Live
<1> QED
  BY <1>1 DEF WalkTyped, TheList!vars

LEMMA OpenListed ==
    ASSUME BoardInv, WalkTyped, NEW tenant \in Tenants, NEW p \in Projects,
           NEW status \in Statuses \cup {"any"}, NEW parent \in Tasks \cup {0},
           Open(tenant, p, status, parent)
    PROVE  WalkTyped' /\ TheList!Open
<1> DEFINE w == [walk EXCEPT !.pc = "open", !.project = p, !.tenant = tenant, !.status = status,
                             !.parent = parent]
           rows == Admitted(task, w)
<1>1. walk.pc = "closed" /\ walk' = [w EXCEPT !.steady = rows] /\ UNCHANGED task
  BY Zenon DEF Open
<1>2. rows \subseteq Tasks
  BY AdmittedAreTasks DEF BoardInv, TypeOK
<1>3. w.project = p /\ w.tenant = tenant /\ w.status = status /\ w.parent = parent
  BY DEF WalkTyped
<1>4. walk' = [walk EXCEPT !.pc = "open", !.project = p, !.tenant = tenant, !.status = status,
                           !.parent = parent, !.steady = rows]
  <2> HIDE DEF rows
  <2> QED
    BY <1>1 DEF WalkTyped
<1> HIDE DEF rows
<1>5. /\ WalkTyped'
      /\ walk'.pc = "open" /\ walk'.steady = rows /\ walk'.cursor = walk.cursor
      /\ walk'.shown = walk.shown
      /\ walk'.project = p /\ walk'.tenant = tenant /\ walk'.status = status /\ walk'.parent = parent
  BY <1>2, <1>4 DEF WalkTyped
<1>6. Admitted(task, walk)' = rows
  BY <1>1, <1>3, <1>5 DEF Admitted, rows
<1> QED
  BY <1>1, <1>2, <1>5, <1>6 DEF TheList!Open

LEMMA LeaveListed ==
    ASSUME WalkTyped, Leave
    PROVE  WalkTyped' /\ TheList!Leave
<1>1. /\ walk.pc = "open" /\ UNCHANGED task
      /\ walk' = [walk EXCEPT !.pc = "left"]
  BY DEF Leave
<1>2. /\ WalkTyped' /\ walk'.pc = "left"
      /\ walk'.steady = walk.steady /\ walk'.cursor = walk.cursor /\ walk'.shown = walk.shown
      /\ walk'.project = walk.project /\ walk'.tenant = walk.tenant /\ walk'.status = walk.status
      /\ walk'.parent = walk.parent
  BY <1>1 DEF WalkTyped
<1>3. Admitted(task, walk)' = Admitted(task, walk)
  BY <1>1, <1>2 DEF Admitted, Live
<1> QED
  BY <1>1, <1>2, <1>3 DEF TheList!Leave

\* Every step is a step of the list, or leaves it as it is.
LEMMA NextListed ==
    ASSUME BoardInv, BoardInv', WalkTyped, [Next]_vars
    PROVE  WalkTyped' /\ [TheList!Next]_(TheList!vars)
<1>1. CASE UNCHANGED <<task, walk>>
  BY <1>1, ListStays
<1>2. CASE Followed
  <2>1. DOMAIN task' = Tasks
    BY DEF BoardInv, TypeOK
  <2> QED
    BY <1>2, <2>1, FollowedChanges DEF TheList!Next
<1>3. CASE list_tasks
  BY <1>3, PageListed DEF TheList!Next
<1>4. CASE Leave
  BY <1>4, LeaveListed DEF TheList!Next
<1>5. CASE \E tenant \in Tenants, p \in Projects, status \in Statuses \cup {"any"},
                parent \in Tasks \cup {0} : Open(tenant, p, status, parent)
  BY <1>5, OpenListed DEF TheList!Next
<1>6. ASSUME NEW tenant \in Tenants, NEW i \in Tasks
      PROVE  /\ \A status : update_task(tenant, i, status) => Followed
             /\ \A agent : assign_task(tenant, i, agent) => Followed
  BY DEF update_task, assign_task, Write
<1>7. ASSUME NEW p PROVE \A tenant : delete_project(tenant, p) => Followed
  BY DEF delete_project, Erase
<1>8. ASSUME NEW r \in Requests
      PROVE  /\ CommitTask(r) => Followed
             /\ CommitDelete(r) => Followed
             /\ create_project_V0(r) \/ Abort(r) => UNCHANGED <<task, walk>>
             /\ \A p : CommitProject(r, p) \/ BeginDelete(r, p) => UNCHANGED <<task, walk>>
             /\ \A tenant, slug : create_project(r, tenant, slug) => UNCHANGED <<task, walk>>
             /\ \A tenant, p, i, parent :
                    create_task(r, tenant, p, i, parent) => UNCHANGED <<task, walk>>
  BY DEF CommitTask, CommitDelete, Erase, create_project_V0, Abort, CommitProject, BeginDelete,
     create_project, create_task, Enter
<1>9. CASE seed
  BY <1>1, <1>9 DEF seed
<1>10. CASE UNCHANGED vars
  BY <1>1, <1>10 DEF vars
<1>11. CASE Next
  BY <1>1, <1>2, <1>3, <1>4, <1>5, <1>6, <1>7, <1>8, <1>9, <1>11 DEF Next
<1> QED
  BY <1>10, <1>11

\* The tasks of a project are read as Listings says, whoever writes meanwhile.
THEOREM TasksImplementList == Spec => TasksListed
<1>1. Init => WalkTyped /\ TheList!Init
  BY WalkBegins
<1>2. BoardInv /\ BoardInv' /\ WalkTyped /\ [Next]_vars =>
          WalkTyped' /\ [TheList!Next]_(TheList!vars)
  BY NextListed
<1> QED
  BY <1>1, <1>2, BoardKept, PTL DEF Spec, TasksListed, TheList!Spec

LEMMA RemainingIsBeyond ==
    ASSUME NEW rows \in SUBSET Tasks, NEW after \in SUBSET Tasks
    PROVE  TheList!Following(rows, after) = Beyond(TaskOrder, rows, after)
<1>1. \A i, j \in Tasks : <<i, j>> \in TaskOrder <=> TheList!Precedes(i, j)
  BY TasksOrdered, OrderOfTasks
<1> HIDE DEF TaskOrder
<1> QED
  BY <1>1 DEF TheList!Following, Beyond

LEMMA TaskPageKept ==
    ASSUME TheList!WalkInv, TheList!NextPage
    PROVE  TheList!WalkInv'
<1> DEFINE rest == TheList!Following(Admitted(task, walk), walk.cursor)
<1>0. TheList!Cardinality(rest) = Cardinality(rest)
  BY TaskListCounts, Zenon
<1>1. PICK page \in SUBSET rest :
        /\ TheList!IsPage(page, rest)
        /\ walk.shown' = walk.shown \cup page
        /\ IF Cardinality(rest) > Limit
           THEN \E i \in page : TheList!IsLast(i, page) /\ walk.cursor' = {i} /\ UNCHANGED walk.pc
           ELSE walk.pc' = "done" /\ UNCHANGED walk.cursor
  <2>1. \E page \in SUBSET rest :
          /\ TheList!IsPage(page, rest)
          /\ walk.shown' = walk.shown \cup page
          /\ IF TheList!Cardinality(rest) > Limit
             THEN \E i \in page : TheList!IsLast(i, page) /\ walk.cursor' = {i} /\ UNCHANGED walk.pc
             ELSE walk.pc' = "done" /\ UNCHANGED walk.cursor
    BY Zenon DEF TheList!NextPage
  <2> HIDE DEF rest
  <2> QED
    BY <1>0, <2>1
<1>2. /\ walk.pc = "open" /\ UNCHANGED <<Admitted(task, walk), walk.steady>>
      /\ rest \subseteq Tasks /\ page \subseteq Tasks
      /\ Admitted(task, walk) \subseteq Tasks /\ walk.shown \subseteq Tasks /\ walk.steady \subseteq Tasks
      /\ walk.cursor \subseteq Tasks
  BY <1>1 DEF TheList!NextPage, TheList!WalkInv, TheList!TypeOK, TheList!Following
<1>3. CASE Cardinality(rest) > Limit
  <2>1. PICK l \in page : TheList!IsLast(l, page) /\ walk.cursor' = {l} /\ walk.pc' = "open"
    BY <1>1, <1>2, <1>3
  <2>2. rest = Beyond(TaskOrder, Admitted(task, walk), walk.cursor)
    BY <1>2, RemainingIsBeyond
  <2>3. Leading(page, TaskOrder, rest) /\ \A j \in page \ {l} : <<j, l>> \in TaskOrder
    <3>1. \A i, j \in Tasks : <<i, j>> \in TaskOrder <=> TheList!Precedes(i, j)
      BY TasksOrdered, OrderOfTasks
    <3> HIDE DEF TaskOrder
    <3> QED
      BY <1>1, <1>2, <2>1, <3>1 DEF Leading, TheList!IsPage, TheList!IsLast
  <2>4. /\ walk.shown = {} \/ \E c \in Tasks : walk.cursor = {c}
        /\ walk.shown # {} => walk.shown \cap Beyond(TaskOrder, Tasks, walk.cursor) = {}
        /\ walk.steady \subseteq walk.shown \cup rest
    <3>1. TheList!Following(Tasks, walk.cursor) = Beyond(TaskOrder, Tasks, walk.cursor)
      BY <1>2, RemainingIsBeyond
    <3>2. walk.shown = {} \/ \E c \in Tasks : walk.cursor = {c}
      BY <1>2 DEF TheList!WalkInv, TheList!TypeOK, TheList!NothingSkipped
    <3>3. walk.shown # {} => walk.shown \cap TheList!Following(Tasks, walk.cursor) = {}
      BY <1>2, <3>2 DEF TheList!WalkInv, TheList!ShownOnce
    <3>4. walk.steady \subseteq walk.shown \cup rest
      BY <1>2 DEF TheList!WalkInv, TheList!NothingSkipped
    <3> QED
      BY <3>1, <3>2, <3>3, <3>4
  <2>5. Walked(TaskOrder, Tasks, Admitted(task, walk), {l}, walk.shown \cup page, walk.steady)
    <3>1. OrderOn(TaskOrder, Tasks)
      BY TasksOrdered
    <3>2. Leading(page, TaskOrder, Beyond(TaskOrder, Admitted(task, walk), walk.cursor))
      BY <2>2, <2>3
    <3>3. walk.steady \subseteq walk.shown \cup Beyond(TaskOrder, Admitted(task, walk), walk.cursor)
      BY <2>2, <2>4
    <3> QED
      BY <1>2, <2>3, <2>4, <3>1, <3>2, <3>3, PageWalked
  <2>6. /\ TheList!Following(Admitted(task, walk), {l}) = Beyond(TaskOrder, Admitted(task, walk), {l})
        /\ TheList!Following(Tasks, {l}) = Beyond(TaskOrder, Tasks, {l})
    BY <1>2, RemainingIsBeyond
  <2>7. /\ walk.shown' \cap TheList!Following(Tasks, {l}) = {}
        /\ walk.steady' \subseteq walk.shown' \cup TheList!Following(Admitted(task, walk)', {l})
    BY <1>1, <1>2, <2>5, <2>6 DEF Walked
  <2>8. TheList!TypeOK'
    BY <1>1, <1>2, <2>1 DEF TheList!TypeOK
  <2>9. TheList!NothingSkipped' /\ TheList!ShownOnce'
    BY <2>1, <2>7 DEF TheList!NothingSkipped, TheList!ShownOnce, TheList!Following,
       TheList!Precedes, TheList!Below
  <2> QED
    BY <2>1, <2>8, <2>9 DEF TheList!WalkInv, TheList!WalkComplete
<1>4. CASE ~(Cardinality(rest) > Limit)
  <2>1. walk.pc' = "done" /\ walk.cursor' = walk.cursor
    BY <1>1, <1>4
  <2>2. page = rest
    <3>1. IsFiniteSet(Tasks)
      BY ProjectsAssumption DEF ProjectsAssumption
    <3>2. IsFiniteSet(rest)
      BY <1>2, <3>1, FS_Subset
    <3>3. TheList!Cardinality(page) = Cardinality(page)
      BY TaskListCounts, Zenon
    <3> HIDE DEF rest
    <3>4. Cardinality(page) = Cardinality(rest)
      BY <1>0, <1>1, <1>4, <3>3 DEF TheList!IsPage
    <3> QED
      BY <1>1, <3>2, <3>4, FS_Subset
  <2>3. walk.steady \subseteq walk.shown'
    BY <1>1, <1>2, <2>2 DEF TheList!WalkInv, TheList!NothingSkipped
  <2> QED
    BY <1>1, <1>2, <2>1, <2>3 DEF TheList!WalkInv, TheList!TypeOK, TheList!WalkComplete,
       TheList!ShownOnce, TheList!NothingSkipped
<1> QED
  BY <1>3, <1>4

LEMMA TaskWalkStep ==
    ASSUME TheList!WalkInv, [TheList!Next]_(TheList!vars)
    PROVE  TheList!WalkInv'
<1> USE DEF TheList!WalkInv, TheList!TypeOK, TheList!WalkComplete, TheList!ShownOnce,
            TheList!NothingSkipped
<1>1. CASE TheList!Change
  BY <1>1 DEF TheList!Change, TheList!Following, TheList!Precedes, TheList!Below
<1>2. CASE TheList!Open
  BY <1>2 DEF TheList!Open, TheList!Following
<1>3. CASE TheList!NextPage
  BY <1>3, TaskPageKept
<1>4. CASE TheList!Leave
  BY <1>4 DEF TheList!Leave
<1>5. CASE UNCHANGED TheList!vars
  BY <1>5 DEF TheList!vars, TheList!Following, TheList!Precedes, TheList!Below
<1> QED
  BY <1>1, <1>2, <1>3, <1>4, <1>5 DEF TheList!Next

\* A reader that follows the cursors to the end has seen every task that was listed
\* all along, and none twice, whoever writes meanwhile.
THEOREM TasksRead == Spec => []TasksWalked
<1>1. TheList!Init => TheList!WalkInv
  BY DEF TheList!Init, TheList!WalkInv, TheList!TypeOK, TheList!WalkComplete,
     TheList!ShownOnce, TheList!NothingSkipped
<1>2. TheList!WalkInv /\ [TheList!Next]_(TheList!vars) => TheList!WalkInv'
  BY TaskWalkStep
<1> QED
  BY <1>1, <1>2, TasksImplementList, PTL DEF TasksListed, TasksWalked, TheList!Spec

=============================================================================
