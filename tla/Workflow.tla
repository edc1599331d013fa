------------------------------ MODULE Workflow ------------------------------
(***************************************************************************)
(* One project's workflow: its columns, statuses and allowed transitions   *)
(* (ProjectWorkflowService, ProjectsService) and the tasks that sit in     *)
(* those statuses (TasksService.create, changeStatus, remove).             *)
(*                                                                         *)
(* Task.status holds a status NAME, with no foreign key, so nothing in the *)
(* database ties a task to the status table: the services do.  Requests    *)
(* run concurrently and a handler is a sequence of awaited statements; an  *)
(* in-flight request is a record of what it has read so far, and each      *)
(* later statement of it is a step of its own.  One request = the serial   *)
(* system.                                                                 *)
(*                                                                         *)
(* A Prisma $transaction (READ COMMITTED) is two steps: TxBegin takes the  *)
(* snapshot of the rows its demoting UPDATE will match, Commit re-checks   *)
(* them, applies every statement and makes them visible.                   *)
(***************************************************************************)
EXTENDS Naturals, FiniteSets

CONSTANTS Requests,     \* requests that can be in flight at the same time
          StatusIds,    \* ids of ProjectStatus rows
          ColumnIds,    \* ids of ProjectColumn rows
          Names,        \* status names
          Tasks,        \* task ids
          None,         \* null / field absent from a patch
          PresetNames, PresetFirst, PresetDone, PresetEdges,  \* the preset's defaults
          Ops,          \* the operations clients call in this instance
          Creations,    \* inputs of createStatus: [name, initial, done]
          Patches,      \* inputs of updateStatus: [name, initial, done, column]
          EdgeSets      \* inputs of replaceWorkflowTransitions

ASSUME PresetAssumption == /\ PresetFirst \in PresetNames
                           /\ PresetDone \subseteq PresetNames
                           /\ PresetNames \subseteq Names
                           /\ PresetEdges \subseteq PresetNames \X PresetNames
ASSUME NoneAssumption == /\ None \notin Names
                         /\ None \notin ColumnIds
                         /\ None \notin Tasks
                         /\ None \notin BOOLEAN

\* An id of its own for every entry of the preset.
Injections(S, T) == {f \in [S -> T] : \A x, y \in S : f[x] = f[y] => x = y}

ASSUME EnoughIds == /\ Injections(PresetNames, StatusIds) # {}
                    /\ Injections(PresetNames, ColumnIds) # {}
ASSUME InputAssumption ==
  /\ Creations \subseteq [name : Names, initial : BOOLEAN, done : BOOLEAN]
  /\ Patches \subseteq [name : Names \cup {None}, initial : BOOLEAN \cup {None},
                        done : BOOLEAN \cup {None}, column : BOOLEAN]
  /\ EdgeSets \subseteq SUBSET (Names \X Names)

VARIABLES columns,   \* the ProjectColumn rows: a set of ids
          rows,      \* the ProjectStatus rows, by id
          edges,     \* the ProjectWorkflowTransition rows
          tasks,     \* the Task rows, by id
          req        \* the requests in flight

vars == <<columns, rows, edges, tasks, req>>

-----------------------------------------------------------------------------

StatusNames == {rows[i].name : i \in DOMAIN rows}
InitialIds == {i \in DOMAIN rows : rows[i].initial}
DoneNames == {rows[i].name : i \in {j \in DOMAIN rows : rows[j].done}}

\* validate and isDone of changeStatus, with the fallback to the preset.
ValidStatus(s) == s \in IF DOMAIN rows = {} THEN PresetNames ELSE StatusNames
IsDone(s) == s \in IF DoneNames = {} THEN PresetDone ELSE DoneNames

Children(t) == {u \in DOMAIN tasks : tasks[u].parent = t}

\* Ids some request in flight still refers to: uuids are never reused.
HeldIds == UNION {IF "id" \in DOMAIN req[r] THEN {req[r].id} ELSE {} : r \in Requests}
             \cup UNION {IF "demote" \in DOMAIN req[r] THEN req[r].demote ELSE {} : r \in Requests}
HeldColumns == {req[r].column : r \in {q \in Requests : "column" \in DOMAIN req[q]}}
HeldTasks == {req[r].task : r \in {q \in Requests : "task" \in DOMAIN req[q]}}
               \cup {req[r].parent : r \in {q \in Requests : "parent" \in DOMAIN req[q]}}

Idle == [op |-> "idle"]
Free(r) == req[r] = Idle
At(r, op, step) == req[r].op = op /\ req[r].step = step
Continue(r, q) == req' = [req EXCEPT ![r] = q]
Return(r) == Continue(r, Idle)

TaskRow == [status : Names, parent : Tasks \cup {None}, completed : BOOLEAN]
StatusRow == [name : Names, initial : BOOLEAN, done : BOOLEAN, column : ColumnIds]

Request ==
  {Idle}
  \cup [op : {"changeStatus"}, step : {"loaded"}, task : Tasks, to : Names, by : {"user", "system"},
        from : Names, subs : SUBSET Names]
  \cup [op : {"changeStatus"}, step : {"gate", "write"}, task : Tasks, to : Names,
        from : Names, stamp : BOOLEAN \cup {None}]
  \cup [op : {"create"}, step : {"write"}, parent : Tasks \cup {None}, status : Names]
  \cup [op : {"createStatus"}, step : {"begin", "commit"}, in : Creations, column : ColumnIds,
        demote : SUBSET StatusIds]
  \cup [op : {"updateStatus"}, step : {"begin", "commit"}, in : Patches, id : StatusIds,
        from : Names, column : ColumnIds, demote : SUBSET StatusIds]
  \cup [op : {"deleteStatus"}, step : {"count", "commit"}, id : StatusIds, from : Names]
  \cup [op : {"deleteColumn"}, step : {"commit"}, column : ColumnIds]
  \cup [op : {"resetToDefaults"}, step : {"commit"}]
  \cup [op : {"replaceTransitions"}, step : {"commit"}, edges : EdgeSets]

\* Types, and the foreign keys of the rows.
TypeOK == /\ columns \subseteq ColumnIds
          /\ DOMAIN rows \subseteq StatusIds
          /\ rows \in [DOMAIN rows -> StatusRow]
          /\ \A i \in DOMAIN rows : rows[i].column \in columns
          /\ edges \subseteq Names \X Names
          /\ DOMAIN tasks \subseteq Tasks
          /\ tasks \in [DOMAIN tasks -> TaskRow]
          /\ \A t \in DOMAIN tasks : tasks[t].parent \in DOMAIN tasks \cup {None}
          /\ req \in [Requests -> Request]

-----------------------------------------------------------------------------
\* New column ids, one per preset entry: which ones makes no difference.
FreshColumns(held) == CHOOSE col \in Injections(PresetNames, ColumnIds \ held) : TRUE

\* The rows seedDefaults writes: a column and a status per preset entry, the
\* first of them initial.
Seeded(id, col) ==
  [i \in {id[n] : n \in PresetNames} |->
     LET n == CHOOSE m \in PresetNames : id[m] = i
     IN  [name |-> n, initial |-> n = PresetFirst, done |-> n \in PresetDone,
          column |-> col[n]]]

\* ProjectsService.create: project and workflow in one transaction.
Init == /\ \E id \in Injections(PresetNames, StatusIds) : rows = Seeded(id, FreshColumns({}))
        /\ columns = {FreshColumns({})[n] : n \in PresetNames}
        /\ edges = PresetEdges
        /\ tasks = [t \in {} |-> None]
        /\ req = [r \in Requests |-> Idle]

-----------------------------------------------------------------------------
\* TasksService.create

\* The reads: the parent must exist, the status is that of an initial row
\* (findFirst without an order: any of them), else the preset's first.
CreateTaskLoad(r) ==
  /\ "create" \in Ops
  /\ Free(r)
  /\ \E p \in DOMAIN tasks \cup {None},
       s \in IF InitialIds = {} THEN {PresetFirst} ELSE {rows[i].name : i \in InitialIds} :
       Continue(r, [op |-> "create", step |-> "write", parent |-> p, status |-> s])
  /\ UNCHANGED <<columns, rows, edges, tasks>>

\* The transaction; it fails on the foreign key if the parent is gone.
CreateTaskWrite(r) ==
  /\ At(r, "create", "write")
  /\ IF req[r].parent \in DOMAIN tasks \cup {None}
       THEN \E t \in Tasks \ (DOMAIN tasks \cup HeldTasks) :
              tasks' = [u \in DOMAIN tasks \cup {t} |->
                          IF u = t THEN [status |-> req[r].status, parent |-> req[r].parent,
                                         completed |-> FALSE]
                                   ELSE tasks[u]]
       ELSE UNCHANGED tasks
  /\ Return(r)
  /\ UNCHANGED <<columns, rows, edges>>

\* MUTANT of RemoveTask: the foreign key does not null the children's parent.
RemoveTaskKeepsLinks(r) ==
  /\ "remove" \in Ops
  /\ Free(r)
  /\ \E t \in DOMAIN tasks : tasks' = [u \in DOMAIN tasks \ {t} |-> tasks[u]]
  /\ UNCHANGED <<columns, rows, edges, req>>

\* TasksService.remove; parentTaskId is ON DELETE SET NULL.
RemoveTask(r) ==
  /\ "remove" \in Ops
  /\ Free(r)
  /\ \E t \in DOMAIN tasks :
       tasks' = [u \in DOMAIN tasks \ {t} |->
                   [status |-> tasks[u].status, completed |-> tasks[u].completed,
                    parent |-> IF tasks[u].parent = t THEN None ELSE tasks[u].parent]]
  /\ UNCHANGED <<columns, rows, edges, req>>

-----------------------------------------------------------------------------
\* TasksService.changeStatus

\* findUniqueOrThrow of the task with its subtasks.
ChangeStatusLoad(r) ==
  /\ "changeStatus" \in Ops
  /\ Free(r)
  /\ \E t \in DOMAIN tasks, s \in Names, by \in {"user", "system"} :
       Continue(r, [op |-> "changeStatus", step |-> "loaded", task |-> t, to |-> s, by |-> by,
                    from |-> tasks[t].status, subs |-> {tasks[u].status : u \in Children(t)}])
  /\ UNCHANGED <<columns, rows, edges, tasks>>

\* MUTANT of Stamp: re-opening does not clear completedAt.
StampNoClear(from, to) == IF ~IsDone(from) /\ IsDone(to) THEN TRUE ELSE None

\* completedAt: stamped on entering a done status, cleared on leaving one.
Stamp(from, to) == IF ~IsDone(from) /\ IsDone(to) THEN TRUE
                   ELSE IF IsDone(from) /\ ~IsDone(to) THEN FALSE ELSE None

\* MUTANT of Blocking: a subtask merely out of the initial status is enough.
BlockingStarted(q) == {s \in q.subs : IsDone(q.to) /\ s = PresetFirst}

\* The subtasks a parent waits for before it may enter a done status.
Blocking(q) == {s \in q.subs : IsDone(q.to) /\ ~IsDone(s)}

\* The project's statuses: unknown status, incomplete subtasks and no-op.
ChangeStatusValidate(r) ==
  LET q == req[r] IN
  /\ At(r, "changeStatus", "loaded")
  /\ IF ValidStatus(q.to) /\ Blocking(q) = {} /\ q.from # q.to
       THEN Continue(r, [op |-> "changeStatus", step |-> IF q.by = "user" THEN "gate" ELSE "write",
                         task |-> q.task, to |-> q.to, from |-> q.from,
                         stamp |-> Stamp(q.from, q.to)])
       ELSE Return(r)
  /\ UNCHANGED <<columns, rows, edges, tasks>>

\* The transition graph, for human callers only.
ChangeStatusGate(r) ==
  /\ At(r, "changeStatus", "gate")
  /\ IF <<req[r].from, req[r].to>> \in edges
       THEN Continue(r, [req[r] EXCEPT !.step = "write"])
       ELSE Return(r)
  /\ UNCHANGED <<columns, rows, edges, tasks>>

\* task.update by id; rejects if the task is gone.
ChangeStatusWrite(r) ==
  /\ At(r, "changeStatus", "write")
  /\ IF req[r].task \in DOMAIN tasks
       THEN tasks' = [tasks EXCEPT
                        ![req[r].task] =
                          [status |-> req[r].to, parent |-> @.parent,
                           completed |-> IF req[r].stamp = None THEN @.completed
                                                                ELSE req[r].stamp]]
       ELSE UNCHANGED tasks
  /\ Return(r)
  /\ UNCHANGED <<columns, rows, edges>>

-----------------------------------------------------------------------------
\* ProjectWorkflowService: columns

CreateColumn(r) ==
  /\ "createColumn" \in Ops
  /\ Free(r)
  /\ \E c \in ColumnIds \ (columns \cup HeldColumns) : columns' = columns \cup {c}
  /\ UNCHANGED <<rows, edges, tasks, req>>

\* The column is found and has no status in it.
DeleteColumnCheck(r) ==
  /\ "deleteColumn" \in Ops
  /\ Free(r)
  /\ \E c \in columns :
       /\ \A i \in DOMAIN rows : rows[i].column # c
       /\ Continue(r, [op |-> "deleteColumn", step |-> "commit", column |-> c])
  /\ UNCHANGED <<columns, rows, edges, tasks>>

\* The statuses in the column by now go with it (ON DELETE CASCADE).
DeleteColumnCommit(r) ==
  /\ At(r, "deleteColumn", "commit")
  /\ columns' = columns \ {req[r].column}
  /\ rows' = [i \in {j \in DOMAIN rows : rows[j].column # req[r].column} |-> rows[i]]
  /\ Return(r)
  /\ UNCHANGED <<edges, tasks>>

-----------------------------------------------------------------------------
\* ProjectWorkflowService: statuses

CreateStatusCheck(r) ==
  /\ "createStatus" \in Ops
  /\ Free(r)
  /\ \E in \in Creations, c \in columns :
       Continue(r, [op |-> "createStatus", step |-> "begin", in |-> in, column |-> c,
                    demote |-> {}])
  /\ UNCHANGED <<columns, rows, edges, tasks>>

\* The row is found; a column in the patch belongs to the project.
UpdateStatusCheck(r) ==
  /\ "updateStatus" \in Ops
  /\ Free(r)
  /\ \E i \in DOMAIN rows, in \in Patches :
       \E c \in IF in.column THEN columns ELSE {rows[i].column} :
         Continue(r, [op |-> "updateStatus", step |-> "begin", in |-> in, id |-> i,
                      from |-> rows[i].name, column |-> c, demote |-> {}])
  /\ UNCHANGED <<columns, rows, edges, tasks>>

\* MUTANT of TxBegin: the former initial status is not demoted on update.
TxBeginNoDemote(r) ==
  /\ req[r].op \in {"createStatus", "updateStatus"}
  /\ req[r].step = "begin"
  /\ Continue(r, [req[r] EXCEPT !.step = "commit",
                    !.demote = IF req[r].in.initial # TRUE \/ req[r].op = "updateStatus" THEN {}
                               ELSE InitialIds])
  /\ UNCHANGED <<columns, rows, edges, tasks>>

\* BEGIN and the snapshot of the demoting updateMany, if there is one.
TxBegin(r) ==
  /\ req[r].op \in {"createStatus", "updateStatus"}
  /\ req[r].step = "begin"
  /\ Continue(r, [req[r] EXCEPT !.step = "commit",
                    !.demote = IF req[r].in.initial # TRUE THEN {}
                               ELSE IF req[r].op = "updateStatus" THEN InitialIds \ {req[r].id}
                               ELSE InitialIds])
  /\ UNCHANGED <<columns, rows, edges, tasks>>

Demoted(S) == [i \in DOMAIN rows |->
                 [name |-> rows[i].name, initial |-> rows[i].initial /\ i \notin S,
                  done |-> rows[i].done, column |-> rows[i].column]]

\* The insert; a taken name or a deleted column rolls the transaction back.
CreateStatusCommit(r) ==
  LET q == req[r]
      new == [name |-> q.in.name, initial |-> q.in.initial, done |-> q.in.done,
              column |-> q.column]
  IN
  /\ At(r, "createStatus", "commit")
  /\ IF q.in.name \notin StatusNames /\ q.column \in columns
       THEN \E i \in StatusIds \ (DOMAIN rows \cup HeldIds) :
              rows' = [j \in DOMAIN rows \cup {i} |->
                         IF j = i THEN new ELSE Demoted(q.demote)[j]]
       ELSE UNCHANGED rows
  /\ Return(r)
  /\ UNCHANGED <<columns, edges, tasks>>

Renamed(n, from, to) == IF n = from THEN to ELSE n

\* Whether renaming in the transition table hits its unique index.
RenameCollides(from, to) ==
  \E e, f \in edges : e # f /\ \A k \in {1, 2} : Renamed(e[k], from, to) = Renamed(f[k], from, to)

\* Demotions, the rename's cascade to tasks and transitions, and the row.  A
\* row that is gone or a unique index rolls everything back.
UpdateStatusCommit(r) ==
  LET q == req[r]
      to == IF q.in.name = None THEN q.from ELSE q.in.name
      clash == \/ q.id \notin DOMAIN rows
               \/ q.in.column /\ q.column \notin columns
               \/ q.in.name # None /\ \E i \in DOMAIN rows \ {q.id} : rows[i].name = to
               \/ to # q.from /\ RenameCollides(q.from, to)
  IN
  /\ At(r, "updateStatus", "commit")
  /\ IF clash
       THEN UNCHANGED <<rows, edges, tasks>>
       ELSE /\ rows' = [Demoted(q.demote) EXCEPT ![q.id] =
                          [name |-> IF q.in.name = None THEN @.name ELSE to,
                           initial |-> IF q.in.initial = None THEN @.initial ELSE q.in.initial,
                           done |-> IF q.in.done = None THEN @.done ELSE q.in.done,
                           column |-> IF q.in.column THEN q.column ELSE @.column]]
            /\ edges' = {<<Renamed(e[1], q.from, to), Renamed(e[2], q.from, to)>> : e \in edges}
            /\ tasks' = [t \in DOMAIN tasks |->
                           [status |-> Renamed(tasks[t].status, q.from, to),
                            parent |-> tasks[t].parent, completed |-> tasks[t].completed]]
  /\ Return(r)
  /\ UNCHANGED columns

DeleteStatusLoad(r) ==
  /\ "deleteStatus" \in Ops
  /\ Free(r)
  /\ \E i \in DOMAIN rows :
       /\ ~rows[i].initial
       /\ Continue(r, [op |-> "deleteStatus", step |-> "count", id |-> i, from |-> rows[i].name])
  /\ UNCHANGED <<columns, rows, edges, tasks>>

\* MUTANT of DeleteStatusCount: tasks in the status do not stop the delete.
DeleteStatusNoCount(r) ==
  /\ At(r, "deleteStatus", "count")
  /\ Continue(r, [req[r] EXCEPT !.step = "commit"])
  /\ UNCHANGED <<columns, rows, edges, tasks>>

\* task.count: refuses while a task has the name read before.
DeleteStatusCount(r) ==
  /\ At(r, "deleteStatus", "count")
  /\ IF \E t \in DOMAIN tasks : tasks[t].status = req[r].from
       THEN Return(r)
       ELSE Continue(r, [req[r] EXCEPT !.step = "commit"])
  /\ UNCHANGED <<columns, rows, edges, tasks>>

\* MUTANT of DeleteStatusCommit: only the outgoing transitions are dropped.
DeleteStatusHalf(r) ==
  LET q == req[r] IN
  /\ At(r, "deleteStatus", "commit")
  /\ IF q.id \in DOMAIN rows
       THEN /\ rows' = [i \in DOMAIN rows \ {q.id} |-> rows[i]]
            /\ edges' = {e \in edges : q.from # e[1]}
       ELSE UNCHANGED <<rows, edges>>
  /\ Return(r)
  /\ UNCHANGED <<columns, tasks>>

\* Transitions and row in one transaction; rolled back if the row is gone.
DeleteStatusCommit(r) ==
  LET q == req[r] IN
  /\ At(r, "deleteStatus", "commit")
  /\ IF q.id \in DOMAIN rows
       THEN /\ rows' = [i \in DOMAIN rows \ {q.id} |-> rows[i]]
            /\ edges' = {e \in edges : q.from \notin {e[1], e[2]}}
       ELSE UNCHANGED <<rows, edges>>
  /\ Return(r)
  /\ UNCHANGED <<columns, tasks>>

\* resetToDefaults refuses while a task is outside the preset's statuses.
ResetCheck(r) ==
  /\ "resetToDefaults" \in Ops
  /\ Free(r)
  /\ \A t \in DOMAIN tasks : tasks[t].status \in PresetNames
  /\ Continue(r, [op |-> "resetToDefaults", step |-> "commit"])
  /\ UNCHANGED <<columns, rows, edges, tasks>>

ResetCommit(r) ==
  /\ At(r, "resetToDefaults", "commit")
  /\ Injections(PresetNames, ColumnIds \ HeldColumns) # {}
  /\ \E id \in Injections(PresetNames, StatusIds \ HeldIds) :
       rows' = Seeded(id, FreshColumns(HeldColumns))
  /\ columns' = {FreshColumns(HeldColumns)[n] : n \in PresetNames}
  /\ edges' = PresetEdges
  /\ Return(r)
  /\ UNCHANGED tasks

-----------------------------------------------------------------------------
\* ProjectsService: transitions

\* Every edge joins two different statuses of the project.
ReplaceTransitionsCheck(r) ==
  /\ "replaceTransitions" \in Ops
  /\ Free(r)
  /\ \E E \in EdgeSets :
       /\ \A e \in E : e[1] \in StatusNames /\ e[2] \in StatusNames /\ e[1] # e[2]
       /\ Continue(r, [op |-> "replaceTransitions", step |-> "commit", edges |-> E])
  /\ UNCHANGED <<columns, rows, edges, tasks>>

ReplaceTransitionsCommit(r) ==
  /\ At(r, "replaceTransitions", "commit")
  /\ edges' = req[r].edges
  /\ Return(r)
  /\ UNCHANGED <<columns, rows, tasks>>

ResetTransitions(r) ==
  /\ "resetTransitions" \in Ops
  /\ Free(r)
  /\ edges' = PresetEdges
  /\ UNCHANGED <<columns, rows, tasks, req>>

-----------------------------------------------------------------------------

\* A statement rejects (connection lost, timeout) or the replica dies: what
\* was committed stays, the rest of the handler does not happen.
Abort(r) ==
  /\ ~Free(r)
  /\ Return(r)
  /\ UNCHANGED <<columns, rows, edges, tasks>>

Next == \E r \in Requests :
  \/ CreateTaskLoad(r) \/ CreateTaskWrite(r) \/ RemoveTask(r)
  \/ ChangeStatusLoad(r) \/ ChangeStatusValidate(r) \/ ChangeStatusGate(r) \/ ChangeStatusWrite(r)
  \/ CreateColumn(r) \/ DeleteColumnCheck(r) \/ DeleteColumnCommit(r)
  \/ CreateStatusCheck(r) \/ UpdateStatusCheck(r) \/ TxBegin(r)
  \/ CreateStatusCommit(r) \/ UpdateStatusCommit(r)
  \/ DeleteStatusLoad(r) \/ DeleteStatusCount(r) \/ DeleteStatusCommit(r)
  \/ ResetCheck(r) \/ ResetCommit(r)
  \/ ReplaceTransitionsCheck(r) \/ ReplaceTransitionsCommit(r) \/ ResetTransitions(r)
  \/ Abort(r)

Spec == Init /\ [][Next]_vars

-----------------------------------------------------------------------------

\* The instance has no operation that takes a name out of the status table.
KeepsNames == /\ Ops \cap {"deleteStatus", "deleteColumn", "resetToDefaults"} = {}
              /\ \A p \in Patches : p.name = None

\* No task is orphaned: its status is the name of a status row.
TasksHaveStatus == \A t \in DOMAIN tasks : tasks[t].status \in StatusNames

\* Exactly one status of the project is the initial one.
OneInitial == Cardinality(InitialIds) = 1

\* A task enters a done status only when all its subtasks are done.
ParentGate ==
  [][\A t \in DOMAIN tasks :
       (t \in DOMAIN tasks' /\ ~IsDone(tasks[t].status) /\ IsDone(tasks'[t].status)
          /\ UNCHANGED rows)
       => \A u \in Children(t) : IsDone(tasks[u].status)]_vars

\* The completion date is kept by done tasks only.
CompletedIsDone == \A t \in DOMAIN tasks : tasks[t].completed => IsDone(tasks[t].status)

GhostEdges == {e \in edges : e[1] \notin StatusNames \/ e[2] \notin StatusNames}

\* No operation leaves transitions of a status that is gone, except that the
\* preset's graph comes back whole whatever statuses there are by then
\* (resetWorkflowTransitions).
NoNewGhostEdge ==
  [][edges' # PresetEdges => Cardinality(GhostEdges') <= Cardinality(GhostEdges)]_vars

\* What the requests leave behind is consistent: one status is the initial
\* one, and only done tasks carry a completion date.
WorkflowSound == OneInitial /\ CompletedIsDone
=============================================================================
