--------------------------- MODULE WorkflowProofs ---------------------------
(***************************************************************************)
(* What holds of a project's workflow for any preset, any number of rows   *)
(* and tasks and any inputs.                                               *)
(*                                                                         *)
(* Under any number of racing requests: the status table may grow and      *)
(* change its flags without ever orphaning a task, only the operations     *)
(* that take a name away can; and the tables keep their types and foreign  *)
(* keys.                                                                   *)
(*                                                                         *)
(* Under requests that race but are apart, because they are not about the  *)
(* same names, flag or family of tasks: a task stays in a status of its    *)
(* project, a parent waits for its subtasks, deleteStatus and renames      *)
(* leave no new transition of a status that is gone, there is one initial  *)
(* status, and only done tasks carry a completion date.  All of it rests   *)
(* on NamesInv: names are unique, and what a request has read of the       *)
(* status table is true when it writes.  One request at a time is a case   *)
(* of being apart (SerialIsApart).                                         *)
(***************************************************************************)
EXTENDS Workflow, FiniteSetTheorems, TLAPS

-----------------------------------------------------------------------------
(* Names that only grow *)

\* What a request in flight has validated stays true while names only grow.
RequestInv(q) ==
  /\ q.op \notin {"deleteStatus", "deleteColumn", "resetToDefaults"}
  /\ q.op = "create" => q.status \in StatusNames
  /\ q.op = "changeStatus" /\ q.step \in {"gate", "write"} => q.to \in StatusNames
  /\ q.op = "updateStatus" => q.in \in Patches

\* Both tables are functions on the ids of their rows.
RowsOK == /\ rows = [i \in DOMAIN rows |-> rows[i]]
          /\ tasks = [t \in DOMAIN tasks |-> tasks[t]]

StatusInv == /\ RowsOK
             /\ PresetFirst \in StatusNames
             /\ TasksHaveStatus
             /\ req = [r \in Requests |-> req[r]]
             /\ \A r \in Requests : RequestInv(req[r])

\* A step that takes no name away, leaves each task in a status and puts a
\* request in a valid state (or leaves the requests alone) keeps StatusInv.
LEMMA StepKeeps ==
  ASSUME StatusInv, RowsOK', TasksHaveStatus', StatusNames \subseteq StatusNames',
         \/ UNCHANGED req
         \/ \E r \in Requests : \E q : req' = [req EXCEPT ![r] = q] /\ RequestInv(q)
  PROVE  StatusInv'
BY DEF StatusInv, RequestInv

\* A step that only moves a request on.
LEMMA RequestStep ==
  ASSUME StatusInv, NEW r \in Requests, NEW q, Continue(r, q), RequestInv(q),
         UNCHANGED <<rows, tasks>>
  PROVE  StatusInv'
<1>1. StatusNames' = StatusNames
  BY DEF StatusNames
<1>2. RowsOK' /\ TasksHaveStatus'
  BY <1>1 DEF StatusInv, RowsOK, TasksHaveStatus
<1> QED
  BY <1>1, <1>2, StepKeeps DEF Continue

\* seedDefaults gives the preset's first status a row.
LEMMA InitStatusInv == Init => StatusInv
<1> SUFFICES ASSUME Init PROVE StatusInv
  OBVIOUS
<1>1. PICK id \in Injections(PresetNames, StatusIds) : rows = Seeded(id, FreshColumns({}))
  BY DEF Init
<1>2. rows[id[PresetFirst]].name = PresetFirst /\ id[PresetFirst] \in DOMAIN rows
  BY <1>1, PresetAssumption DEF Seeded, Injections
<1>3. PresetFirst \in StatusNames
  BY <1>2 DEF StatusNames
<1>4. RowsOK
  BY <1>1 DEF Init, Seeded, RowsOK
<1>5. TasksHaveStatus
  BY DEF Init, TasksHaveStatus
<1>6. \A r \in Requests : RequestInv(req[r])
  BY DEF Init, RequestInv, Idle
<1> QED
  BY <1>3, <1>4, <1>5, <1>6 DEF StatusInv, Init

\* Every step of every handler keeps StatusInv when names only grow.
LEMMA NextStatusInv == KeepsNames /\ StatusInv /\ [Next]_vars => StatusInv'
<1> SUFFICES ASSUME KeepsNames, StatusInv, [Next]_vars PROVE StatusInv'
  OBVIOUS
<1>0. RequestInv(Idle)
  BY DEF RequestInv, Idle
<1>1. ASSUME NEW r \in Requests, CreateTaskLoad(r) PROVE StatusInv'
  <2>1. PICK p, s : /\ s \in IF InitialIds = {} THEN {PresetFirst} ELSE {rows[i].name : i \in InitialIds}
                    /\ Continue(r, [op |-> "create", step |-> "write", parent |-> p, status |-> s])
    BY <1>1 DEF CreateTaskLoad
  <2>2. s \in StatusNames
    BY <2>1 DEF StatusInv, StatusNames, InitialIds
  <2> QED
    BY <1>1, <2>1, <2>2, RequestStep DEF CreateTaskLoad, RequestInv
<1>2. ASSUME NEW r \in Requests, CreateTaskWrite(r) PROVE StatusInv'
  <2>1. req[r].status \in StatusNames
    BY <1>2 DEF CreateTaskWrite, At, StatusInv, RequestInv
  <2>2. StatusNames' = StatusNames
    BY <1>2 DEF CreateTaskWrite, StatusNames
  <2>3. CASE UNCHANGED tasks
    BY <1>0, <1>2, <2>3, RequestStep DEF CreateTaskWrite, Return
  <2>4. CASE ~UNCHANGED tasks
    <3>1. PICK t \in Tasks : tasks' = [u \in DOMAIN tasks \cup {t} |->
                           IF u = t THEN [status |-> req[r].status, parent |-> req[r].parent,
                                          completed |-> FALSE]
                                    ELSE tasks[u]]
      BY <1>2, <2>4 DEF CreateTaskWrite
    <3>2. RowsOK'
      BY <1>2, <3>1 DEF CreateTaskWrite, StatusInv, RowsOK
    <3>3. TasksHaveStatus'
      BY <2>1, <2>2, <3>1 DEF StatusInv, TasksHaveStatus
    <3> QED
      BY <1>0, <1>2, <2>2, <3>2, <3>3, StepKeeps DEF CreateTaskWrite, Return, Continue
  <2> QED
    BY <2>3, <2>4
<1>3. ASSUME NEW r \in Requests, RemoveTask(r) PROVE StatusInv'
  <2>1. StatusNames' = StatusNames
    BY <1>3 DEF RemoveTask, StatusNames
  <2>2. RowsOK' /\ TasksHaveStatus'
    BY <1>3, <2>1 DEF RemoveTask, StatusInv, RowsOK, TasksHaveStatus
  <2> QED
    BY <1>3, <2>1, <2>2, StepKeeps DEF RemoveTask
<1>4. ASSUME NEW r \in Requests, ChangeStatusLoad(r) PROVE StatusInv'
  BY <1>4, RequestStep DEF ChangeStatusLoad, RequestInv
<1>5. ASSUME NEW r \in Requests, ChangeStatusValidate(r) PROVE StatusInv'
  <2>1. DOMAIN rows # {}
    BY DEF StatusInv, StatusNames
  <2>2. CASE Continue(r, Idle)
    BY <1>0, <1>5, <2>2, RequestStep DEF ChangeStatusValidate
  <2>3. CASE ~Continue(r, Idle)
    BY <1>5, <2>1, <2>3, RequestStep DEF ChangeStatusValidate, ValidStatus, RequestInv, Return
  <2> QED
    BY <2>2, <2>3
<1>6. ASSUME NEW r \in Requests, ChangeStatusGate(r) PROVE StatusInv'
  <2>1. RequestInv([req[r] EXCEPT !.step = "write"])
    BY <1>6 DEF ChangeStatusGate, At, StatusInv, RequestInv
  <2> QED
    BY <1>0, <1>6, <2>1, RequestStep DEF ChangeStatusGate, Return
<1>7. ASSUME NEW r \in Requests, ChangeStatusWrite(r) PROVE StatusInv'
  <2>1. StatusNames' = StatusNames
    BY <1>7 DEF ChangeStatusWrite, StatusNames
  <2>2. req[r].to \in StatusNames
    BY <1>7 DEF ChangeStatusWrite, At, StatusInv, RequestInv
  <2>3. RowsOK' /\ TasksHaveStatus'
    BY <1>7, <2>1, <2>2 DEF ChangeStatusWrite, StatusInv, RowsOK, TasksHaveStatus
  <2> QED
    BY <1>0, <1>7, <2>1, <2>3, StepKeeps DEF ChangeStatusWrite, Return, Continue
<1>8. ASSUME NEW r \in Requests, CreateColumn(r) PROVE StatusInv'
  BY <1>8 DEF CreateColumn, StatusInv, RowsOK, TasksHaveStatus, StatusNames, RequestInv
<1>9. ASSUME NEW r \in Requests, CreateStatusCheck(r) PROVE StatusInv'
  BY <1>9, RequestStep DEF CreateStatusCheck, RequestInv
<1>10. ASSUME NEW r \in Requests, UpdateStatusCheck(r) PROVE StatusInv'
  BY <1>10, RequestStep DEF UpdateStatusCheck, RequestInv
<1>11. ASSUME NEW r \in Requests, TxBegin(r) PROVE StatusInv'
  <2>1. PICK d : Continue(r, [req[r] EXCEPT !.step = "commit", !.demote = d])
    BY <1>11 DEF TxBegin
  <2>2. RequestInv([req[r] EXCEPT !.step = "commit", !.demote = d])
    BY <1>11 DEF TxBegin, StatusInv, RequestInv
  <2> QED
    BY <1>11, <2>1, <2>2, RequestStep DEF TxBegin
<1>12. ASSUME NEW r \in Requests, CreateStatusCommit(r) PROVE StatusInv'
  <2>1. CASE UNCHANGED rows
    BY <1>0, <1>12, <2>1, RequestStep DEF CreateStatusCommit, Return
  <2>2. CASE ~UNCHANGED rows
    <3>1. PICK i, new : rows' = [j \in DOMAIN rows \cup {i} |->
                                   IF j = i THEN new ELSE Demoted(req[r].demote)[j]]
               /\ i \notin DOMAIN rows
      BY <1>12, <2>2 DEF CreateStatusCommit
    <3>2. \A j \in DOMAIN rows : j \in DOMAIN rows' /\ rows'[j].name = rows[j].name
      BY <3>1 DEF Demoted
    <3>3. StatusNames \subseteq StatusNames'
      BY <3>2 DEF StatusNames
    <3>4. RowsOK'
      BY <1>12, <3>1 DEF CreateStatusCommit, StatusInv, RowsOK
    <3>5. TasksHaveStatus'
      BY <1>12, <3>3 DEF CreateStatusCommit, StatusInv, TasksHaveStatus
    <3> QED
      BY <1>0, <1>12, <3>3, <3>4, <3>5, StepKeeps DEF CreateStatusCommit, Return, Continue
  <2> QED
    BY <2>1, <2>2
<1>13. ASSUME NEW r \in Requests, UpdateStatusCommit(r) PROVE StatusInv'
  <2>1. req[r].in.name = None
    BY <1>13 DEF UpdateStatusCommit, At, StatusInv, RequestInv, KeepsNames
  <2>2. StatusNames \subseteq StatusNames' /\ RowsOK'
    BY <1>13, <2>1 DEF UpdateStatusCommit, StatusInv, RowsOK, StatusNames, Demoted, Renamed
  <2>3. TasksHaveStatus'
    BY <1>13, <2>1, <2>2 DEF UpdateStatusCommit, StatusInv, TasksHaveStatus, Renamed
  <2> QED
    BY <1>0, <1>13, <2>2, <2>3, StepKeeps DEF UpdateStatusCommit, Return, Continue
<1>14. ASSUME NEW r \in Requests, Abort(r) PROVE StatusInv'
  BY <1>0, <1>14, RequestStep DEF Abort, Return
<1>15. ASSUME NEW r \in Requests,
              \/ DeleteStatusLoad(r) \/ DeleteStatusCount(r) \/ DeleteStatusCommit(r)
              \/ DeleteColumnCheck(r) \/ DeleteColumnCommit(r)
              \/ ResetCheck(r) \/ ResetCommit(r)
       PROVE FALSE
  BY <1>15 DEF KeepsNames, StatusInv, RequestInv, At, DeleteStatusLoad, DeleteStatusCount,
       DeleteStatusCommit, DeleteColumnCheck, DeleteColumnCommit, ResetCheck, ResetCommit
<1>16. ASSUME NEW r \in Requests, ReplaceTransitionsCheck(r) PROVE StatusInv'
  BY <1>16, RequestStep DEF ReplaceTransitionsCheck, RequestInv
<1>17. ASSUME NEW r \in Requests, ReplaceTransitionsCommit(r) PROVE StatusInv'
  BY <1>0, <1>17, RequestStep DEF ReplaceTransitionsCommit, Return
<1>18. ASSUME UNCHANGED <<rows, tasks, req>> PROVE StatusInv'
  BY <1>18 DEF StatusInv, RowsOK, TasksHaveStatus, StatusNames, RequestInv
<1>19. ASSUME NEW r \in Requests, ResetTransitions(r) PROVE StatusInv'
  BY <1>18, <1>19 DEF ResetTransitions
<1> QED
  BY <1>1, <1>2, <1>3, <1>4, <1>5, <1>6, <1>7, <1>8, <1>9, <1>10, <1>11, <1>12, <1>13, <1>14,
     <1>15, <1>16, <1>17, <1>18, <1>19 DEF Next, vars

\* As long as no operation takes a name out of the status table, no number of
\* concurrent task and workflow requests orphans a task: changeStatus and
\* create write only names that were in the table when they looked.
THEOREM GrowingWorkflowKeepsTasks == KeepsNames => (Spec => []TasksHaveStatus)
<1> SUFFICES ASSUME KeepsNames PROVE Spec => []TasksHaveStatus
  OBVIOUS
<1>1. StatusInv /\ [Next]_vars => StatusInv'
  BY NextStatusInv
<1>2. StatusInv => TasksHaveStatus
  BY DEF StatusInv
<1> QED
  BY InitStatusInv, <1>1, <1>2, PTL DEF Spec

-----------------------------------------------------------------------------
(* Types *)

LoadedReq == [op : {"changeStatus"}, step : {"loaded"}, task : Tasks, to : Names,
              by : {"user", "system"}, from : Names, subs : SUBSET Names]
MovingReq == [op : {"changeStatus"}, step : {"gate", "write"}, task : Tasks, to : Names,
              from : Names, stamp : BOOLEAN \cup {None}]
CreateReq == [op : {"create"}, step : {"write"}, parent : Tasks \cup {None}, status : Names]
NewStatusReq == [op : {"createStatus"}, step : {"begin", "commit"}, in : Creations, column : ColumnIds,
                 demote : SUBSET StatusIds]
PatchReq == [op : {"updateStatus"}, step : {"begin", "commit"}, in : Patches, id : StatusIds,
             from : Names, column : ColumnIds, demote : SUBSET StatusIds]
DeleteReq == [op : {"deleteStatus"}, step : {"count", "commit"}, id : StatusIds, from : Names]
ColumnReq == [op : {"deleteColumn"}, step : {"commit"}, column : ColumnIds]
ResetReq == [op : {"resetToDefaults"}, step : {"commit"}]
EdgesReq == [op : {"replaceTransitions"}, step : {"commit"}, edges : EdgeSets]

\* A request is of one of these kinds.
LEMMA RequestKinds ==
  Request = {Idle} \cup LoadedReq \cup MovingReq \cup CreateReq \cup NewStatusReq \cup PatchReq
              \cup DeleteReq \cup ColumnReq \cup ResetReq \cup EdgesReq
  BY DEF Request, LoadedReq, MovingReq, CreateReq, NewStatusReq, PatchReq, DeleteReq, ColumnReq,
         ResetReq, EdgesReq

\* What the operation and the step of a request say of its kind.
LEMMA KindOf ==
  ASSUME NEW q \in Request
  PROVE  /\ q.op = "changeStatus" => q \in LoadedReq \/ q \in MovingReq
         /\ q.op = "changeStatus" /\ q.step = "loaded" => q \in LoadedReq
         /\ q.op = "changeStatus" /\ q.step \in {"gate", "write"} => q \in MovingReq
         /\ q.op = "create" => q \in CreateReq
         /\ q.op = "createStatus" => q \in NewStatusReq
         /\ q.op = "updateStatus" => q \in PatchReq
         /\ q.op = "deleteStatus" => q \in DeleteReq
         /\ q.op = "deleteColumn" => q \in ColumnReq
         /\ q.op = "resetToDefaults" => q \in ResetReq
         /\ q.op = "replaceTransitions" => q \in EdgesReq
         /\ q.op = "idle" => q = Idle
<1>1. \/ q = Idle \/ q \in LoadedReq \/ q \in MovingReq \/ q \in CreateReq \/ q \in NewStatusReq
      \/ q \in PatchReq \/ q \in DeleteReq \/ q \in ColumnReq \/ q \in ResetReq \/ q \in EdgesReq
  BY RequestKinds
<1>2. /\ q = Idle => q.op = "idle"
      /\ q \in LoadedReq => q.op = "changeStatus" /\ q.step = "loaded"
      /\ q \in MovingReq => q.op = "changeStatus" /\ q.step \in {"gate", "write"}
      /\ q \in CreateReq => q.op = "create"
      /\ q \in NewStatusReq => q.op = "createStatus"
      /\ q \in PatchReq => q.op = "updateStatus"
      /\ q \in DeleteReq => q.op = "deleteStatus"
      /\ q \in ColumnReq => q.op = "deleteColumn"
      /\ q \in ResetReq => q.op = "resetToDefaults"
      /\ q \in EdgesReq => q.op = "replaceTransitions"
  BY DEF Idle, LoadedReq, MovingReq, CreateReq, NewStatusReq, PatchReq, DeleteReq, ColumnReq,
         ResetReq, EdgesReq
<1>3. /\ q.op = "changeStatus" => q \in LoadedReq \/ q \in MovingReq
      /\ q.op = "create" => q \in CreateReq
      /\ q.op = "createStatus" => q \in NewStatusReq
      /\ q.op = "updateStatus" => q \in PatchReq
      /\ q.op = "deleteStatus" => q \in DeleteReq
  BY <1>1, <1>2
<1>4. /\ q.op = "deleteColumn" => q \in ColumnReq
      /\ q.op = "resetToDefaults" => q \in ResetReq
      /\ q.op = "replaceTransitions" => q \in EdgesReq
      /\ q.op = "idle" => q = Idle
  BY <1>1, <1>2
<1> QED
  BY <1>2, <1>3, <1>4

\* The tables' part of the types.
TablesOK == /\ columns \subseteq ColumnIds
            /\ DOMAIN rows \subseteq StatusIds
            /\ rows \in [DOMAIN rows -> StatusRow]
            /\ \A i \in DOMAIN rows : rows[i].column \in columns
            /\ edges \subseteq Names \X Names
            /\ DOMAIN tasks \subseteq Tasks
            /\ tasks \in [DOMAIN tasks -> TaskRow]
            /\ \A t \in DOMAIN tasks : tasks[t].parent \in DOMAIN tasks \cup {None}

\* Types are the tables' and the requests'.
LEMMA TypesSplit == TypeOK <=> TablesOK /\ req \in [Requests -> Request]
  BY DEF TypeOK, TablesOK

\* A step that moves a request to a state of its type, and leaves the tables
\* well typed.
LEMMA RequestMoves ==
  ASSUME TypeOK, TablesOK', NEW r \in Requests, NEW q \in Request, Continue(r, q)
  PROVE  TypeOK'
  BY DEF TypeOK, TablesOK, Continue

\* Tables that no step touches stay well typed.
LEMMA TablesSame ==
  ASSUME TypeOK, UNCHANGED <<columns, rows, edges, tasks>>
  PROVE  TablesOK'
  BY DEF TypeOK, TablesOK

\* A handler that only goes on.
LEMMA HandlerGoesOn ==
  ASSUME TypeOK, UNCHANGED <<columns, rows, edges, tasks>>, NEW r \in Requests, NEW q \in Request,
         Continue(r, q)
  PROVE  TypeOK'
  BY TablesSame, RequestMoves

\* A free slot is a request.
LEMMA IdleRequest == Idle \in Request /\ Idle.op = "idle"
  BY DEF Request, Idle

\* seedDefaults gives every entry of the preset a row.
SeedOK(seed, id, col) ==
    /\ DOMAIN seed = {id[n] : n \in PresetNames} /\ DOMAIN seed \subseteq StatusIds
    /\ seed \in [DOMAIN seed -> StatusRow]
    /\ \A n \in PresetNames : seed[id[n]].name = n /\ seed[id[n]].column = col[n]
    /\ \A n \in PresetNames : seed[id[n]].initial <=> n = PresetFirst
    /\ \A n \in PresetNames : seed[id[n]].done <=> n \in PresetDone

\* The rows it writes are of their types, and one to one with the preset.
LEMMA SeedTyped ==
  ASSUME NEW S, NEW C, S \subseteq StatusIds, C \subseteq ColumnIds,
         NEW id \in Injections(PresetNames, S), NEW col \in Injections(PresetNames, C)
  PROVE  SeedOK(Seeded(id, col), id, col)
<1>1. /\ id \in [PresetNames -> S] /\ col \in [PresetNames -> C]
      /\ \A m, n \in PresetNames : id[m] = id[n] => m = n
  BY DEF Injections
<1>2. ASSUME NEW n \in PresetNames
      PROVE  /\ id[n] \in StatusIds /\ Seeded(id, col)[id[n]] \in StatusRow
             /\ Seeded(id, col)[id[n]].name = n /\ Seeded(id, col)[id[n]].column = col[n]
             /\ Seeded(id, col)[id[n]].initial <=> n = PresetFirst
             /\ Seeded(id, col)[id[n]].done <=> n \in PresetDone
  <2>1. (CHOOSE m \in PresetNames : id[m] = id[n]) = n
    BY <1>1
  <2>a. PICK b \in BOOLEAN : b <=> n = PresetFirst
    OBVIOUS
  <2>2. PICK d \in BOOLEAN : d <=> n \in PresetDone
    OBVIOUS
  <2>3. Seeded(id, col)[id[n]] = [name |-> n, initial |-> b, done |-> d, column |-> col[n]]
    BY <2>1, <2>a, <2>2 DEF Seeded
  <2>4. n \in Names /\ col[n] \in ColumnIds /\ id[n] \in StatusIds
    BY <1>1, PresetAssumption
  <2>5. PICK x : x = [name |-> n, initial |-> b, done |-> d, column |-> col[n]]
    OBVIOUS
  <2>6. x \in StatusRow /\ x.name = n /\ x.initial = b /\ x.done = d /\ x.column = col[n]
    BY <2>4, <2>5 DEF StatusRow
  <2> QED
    BY <2>a, <2>2, <2>3, <2>4, <2>5, <2>6
<1>3. Seeded(id, col) = [i \in {id[n] : n \in PresetNames} |-> Seeded(id, col)[i]]
  BY DEF Seeded
<1>4. PICK seed : seed = Seeded(id, col)
  OBVIOUS
<1>5. DOMAIN seed = {id[n] : n \in PresetNames} /\ seed = [i \in DOMAIN seed |-> seed[i]]
  BY <1>3, <1>4
<1>6. \A i \in DOMAIN seed : i \in StatusIds /\ seed[i] \in StatusRow
  BY <1>2, <1>4, <1>5
<1>7. DOMAIN seed \subseteq StatusIds /\ seed \in [DOMAIN seed -> StatusRow]
  BY <1>5, <1>6
<1>8. \A n \in PresetNames : seed[id[n]].name = n /\ seed[id[n]].column = col[n]
  BY <1>2, <1>4
<1>9. /\ \A n \in PresetNames : seed[id[n]].initial <=> n = PresetFirst
      /\ \A n \in PresetNames : seed[id[n]].done <=> n \in PresetDone
  BY <1>2, <1>4
<1> QED
  BY <1>4, <1>5, <1>7, <1>8, <1>9 DEF SeedOK

\* Every row it writes is in a column it makes.
LEMMA SeedColumns ==
  ASSUME NEW seed, NEW id, NEW col, SeedOK(seed, id, col)
  PROVE  \A i \in DOMAIN seed : seed[i].column \in {col[n] : n \in PresetNames}
<1>1. ASSUME NEW i \in DOMAIN seed PROVE seed[i].column \in {col[n] : n \in PresetNames}
  <2>1. PICK n \in PresetNames : i = id[n]
    BY DEF SeedOK
  <2>2. \A m \in PresetNames : seed[id[m]].column = col[m]
    BY DEF SeedOK
  <2>3. seed[i].column = col[n]
    BY <2>1, <2>2
  <2> QED
    BY <2>3
<1> QED
  BY <1>1

\* The columns seedDefaults makes are there to be made.
LEMMA ColumnsThere ==
  ASSUME NEW held, Injections(PresetNames, ColumnIds \ held) # {}
  PROVE  FreshColumns(held) \in Injections(PresetNames, ColumnIds \ held)
  BY DEF FreshColumns

\* The workflow of a new project is the preset.
LEMMA InitSeeds ==
  ASSUME Init
  PROVE  \E id, col : /\ SeedOK(rows, id, col)
                      /\ columns = {col[n] : n \in PresetNames} /\ columns \subseteq ColumnIds
<1>0. Injections(PresetNames, ColumnIds \ {}) # {}
  <2>1. ColumnIds \ {} = ColumnIds
    OBVIOUS
  <2> QED
    BY <2>1, EnoughIds
<1>1. PICK col \in Injections(PresetNames, ColumnIds \ {}) : col = FreshColumns({})
  BY <1>0, ColumnsThere
<1>2. PICK id \in Injections(PresetNames, StatusIds) : rows = Seeded(id, col)
  <2>1. \E id \in Injections(PresetNames, StatusIds) : rows = Seeded(id, FreshColumns({}))
    BY DEF Init
  <2> QED
    BY <1>1, <2>1
<1>3. SeedOK(rows, id, col)
  <2>1. ColumnIds \ {} \subseteq ColumnIds /\ StatusIds \subseteq StatusIds
    OBVIOUS
  <2>2. SeedOK(Seeded(id, col), id, col)
    BY <2>1, SeedTyped
  <2> QED
    BY <1>2, <2>2
<1>4. columns = {col[n] : n \in PresetNames} /\ columns \subseteq ColumnIds
  BY <1>1 DEF Init, Injections
<1> QED
  BY <1>3, <1>4

\* resetToDefaults brings the preset back.
LEMMA ResetSeeds ==
  ASSUME NEW r \in Requests, ResetCommit(r)
  PROVE  \E id, col : /\ SeedOK(rows', id, col)
                      /\ columns' = {col[n] : n \in PresetNames} /\ columns' \subseteq ColumnIds
<1>1. PICK held : held = HeldColumns
  OBVIOUS
<1>2. PICK ids : ids = HeldIds
  OBVIOUS
<1>3. PICK col \in Injections(PresetNames, ColumnIds \ held) : col = FreshColumns(held)
  BY <1>1, ColumnsThere DEF ResetCommit
<1>4. PICK id \in Injections(PresetNames, StatusIds \ ids) : rows' = Seeded(id, col)
  BY <1>1, <1>2, <1>3 DEF ResetCommit
<1>5. SeedOK(Seeded(id, col), id, col)
  <2>1. ColumnIds \ held \subseteq ColumnIds /\ StatusIds \ ids \subseteq StatusIds
    OBVIOUS
  <2> QED
    BY <2>1, SeedTyped
<1>6. columns' = {col[n] : n \in PresetNames} /\ columns' \subseteq ColumnIds
  BY <1>1, <1>3 DEF ResetCommit, Injections
<1>7. SeedOK(rows', id, col)
  BY <1>4, <1>5
<1> QED
  BY <1>6, <1>7

\* The workflow of a new project is well typed.
LEMMA TypesStart == Init => TypeOK
<1> SUFFICES ASSUME Init PROVE TypeOK
  OBVIOUS
<1>1. PICK id, col : /\ SeedOK(rows, id, col)
                     /\ columns = {col[n] : n \in PresetNames} /\ columns \subseteq ColumnIds
  BY InitSeeds
<1>2. \A i \in DOMAIN rows : rows[i].column \in columns
  BY <1>1, SeedColumns
<1>3. edges \subseteq Names \X Names
  BY PresetAssumption DEF Init
<1>4. /\ DOMAIN tasks = {} /\ tasks \in [DOMAIN tasks -> TaskRow]
      /\ req \in [Requests -> Request]
  BY IdleRequest DEF Init
<1> QED
  BY <1>1, <1>2, <1>3, <1>4 DEF TypeOK, SeedOK

\* The rows of the task table.
LEMMA TasksTyped ==
  ASSUME TypeOK
  PROVE  \A t \in DOMAIN tasks : /\ t \in Tasks /\ tasks[t] \in TaskRow /\ tasks[t].status \in Names
                                 /\ tasks[t].parent \in Tasks \cup {None} /\ tasks[t].completed \in BOOLEAN
  BY DEF TypeOK, TaskRow

\* The rows of the status table.
LEMMA RowsTyped ==
  ASSUME TypeOK
  PROVE  \A i \in DOMAIN rows : /\ i \in StatusIds /\ rows[i] \in StatusRow /\ rows[i].name \in Names
                                /\ rows[i].initial \in BOOLEAN /\ rows[i].done \in BOOLEAN
                                /\ rows[i].column \in ColumnIds /\ rows[i].column \in columns
  BY DEF TypeOK, StatusRow

\* TasksService.create.
LEMMA CreateTaskTyped ==
  ASSUME TypeOK, NEW r \in Requests, CreateTaskLoad(r) \/ CreateTaskWrite(r)
  PROVE  TypeOK'
<1>1. CASE CreateTaskLoad(r)
  <2>1. PICK p \in DOMAIN tasks \cup {None},
             s \in IF InitialIds = {} THEN {PresetFirst} ELSE {rows[i].name : i \in InitialIds} :
          Continue(r, [op |-> "create", step |-> "write", parent |-> p, status |-> s])
    BY <1>1 DEF CreateTaskLoad
  <2>2. p \in Tasks \cup {None}
    BY <2>1 DEF TypeOK
  <2>3. s \in Names
    BY <2>1, RowsTyped, PresetAssumption DEF InitialIds
  <2>4. [op |-> "create", step |-> "write", parent |-> p, status |-> s] \in Request
    BY <2>2, <2>3, RequestKinds DEF CreateReq
  <2> QED
    BY <1>1, <2>1, <2>4, HandlerGoesOn DEF CreateTaskLoad
<1>2. CASE CreateTaskWrite(r)
  <2>1. CASE UNCHANGED tasks
    BY <1>2, <2>1, HandlerGoesOn, IdleRequest DEF CreateTaskWrite, Return
  <2>2. CASE ~UNCHANGED tasks
    <3>1. PICK q \in CreateReq : q = req[r]
      BY <1>2, KindOf DEF CreateTaskWrite, At, TypeOK
    <3>2. PICK t \in Tasks, row \in TaskRow :
             /\ tasks' = [u \in DOMAIN tasks \cup {t} |-> IF u = t THEN row ELSE tasks[u]]
             /\ row.parent \in DOMAIN tasks \cup {None}
      <4>1. PICK t \in Tasks :
              /\ q.parent \in DOMAIN tasks \cup {None}
              /\ tasks' = [u \in DOMAIN tasks \cup {t} |->
                             IF u = t THEN [status |-> q.status, parent |-> q.parent, completed |-> FALSE]
                                      ELSE tasks[u]]
        BY <1>2, <2>2, <3>1 DEF CreateTaskWrite
      <4>2. /\ [status |-> q.status, parent |-> q.parent, completed |-> FALSE] \in TaskRow
            /\ [status |-> q.status, parent |-> q.parent, completed |-> FALSE].parent = q.parent
        BY DEF CreateReq, TaskRow
      <4> QED
        BY <4>1, <4>2
    <3>3. /\ DOMAIN tasks' \subseteq Tasks /\ tasks' \in [DOMAIN tasks' -> TaskRow]
          /\ \A u \in DOMAIN tasks' : tasks'[u].parent \in DOMAIN tasks' \cup {None}
      BY <3>2 DEF TypeOK
    <3>4. TablesOK'
      BY <1>2, <3>3 DEF TypeOK, TablesOK, CreateTaskWrite
    <3> QED
      BY <1>2, <3>4, RequestMoves, IdleRequest DEF CreateTaskWrite, Return
  <2> QED
    BY <2>1, <2>2
<1> QED
  BY <1>1, <1>2

\* TasksService.remove.
LEMMA RemoveTaskTyped ==
  ASSUME TypeOK, NEW r \in Requests, RemoveTask(r)
  PROVE  TypeOK'
<1>1. PICK t \in DOMAIN tasks :
         tasks' = [u \in DOMAIN tasks \ {t} |->
                     [status |-> tasks[u].status, completed |-> tasks[u].completed,
                      parent |-> IF tasks[u].parent = t THEN None ELSE tasks[u].parent]]
  BY DEF RemoveTask
<1>2. ASSUME NEW u \in DOMAIN tasks \ {t}
      PROVE  /\ tasks'[u] \in TaskRow
             /\ tasks'[u].parent \in (DOMAIN tasks \ {t}) \cup {None}
  <2>1. PICK p : p = IF tasks[u].parent = t THEN None ELSE tasks[u].parent
    OBVIOUS
  <2>2. p \in (DOMAIN tasks \ {t}) \cup {None} /\ p \in Tasks \cup {None}
    BY <2>1, TasksTyped DEF TypeOK
  <2>3. tasks'[u] = [status |-> tasks[u].status, completed |-> tasks[u].completed, parent |-> p]
    BY <1>1, <2>1
  <2> QED
    BY <2>2, <2>3, TasksTyped DEF TaskRow
<1>3. DOMAIN tasks' = DOMAIN tasks \ {t} /\ tasks' = [u \in DOMAIN tasks \ {t} |-> tasks'[u]]
  BY <1>1
<1>4. /\ DOMAIN tasks' \subseteq Tasks /\ tasks' \in [DOMAIN tasks' -> TaskRow]
      /\ \A u \in DOMAIN tasks' : tasks'[u].parent \in DOMAIN tasks' \cup {None}
  BY <1>2, <1>3 DEF TypeOK
<1> QED
  BY <1>4 DEF TypeOK, RemoveTask

\* TasksService.changeStatus.
LEMMA ChangeStatusTyped ==
  ASSUME TypeOK, NEW r \in Requests,
         ChangeStatusLoad(r) \/ ChangeStatusValidate(r) \/ ChangeStatusGate(r) \/ ChangeStatusWrite(r)
  PROVE  TypeOK'
<1>1. CASE ChangeStatusLoad(r)
  <2>1. PICK t \in DOMAIN tasks, s \in Names, by \in {"user", "system"} :
          Continue(r, [op |-> "changeStatus", step |-> "loaded", task |-> t, to |-> s, by |-> by,
                       from |-> tasks[t].status, subs |-> {tasks[u].status : u \in Children(t)}])
    BY <1>1 DEF ChangeStatusLoad
  <2>2. t \in Tasks /\ tasks[t].status \in Names /\ {tasks[u].status : u \in Children(t)} \in SUBSET Names
    BY TasksTyped DEF Children
  <2>3. [op |-> "changeStatus", step |-> "loaded", task |-> t, to |-> s, by |-> by,
         from |-> tasks[t].status, subs |-> {tasks[u].status : u \in Children(t)}] \in Request
    BY <2>2, RequestKinds DEF LoadedReq
  <2> QED
    BY <1>1, <2>1, <2>3, HandlerGoesOn DEF ChangeStatusLoad
<1>2. CASE ChangeStatusValidate(r)
  <2>1. CASE Return(r)
    BY <1>2, <2>1, HandlerGoesOn, IdleRequest DEF ChangeStatusValidate, Return
  <2>2. CASE ~Return(r)
    <3>1. PICK q \in LoadedReq : q = req[r]
      BY <1>2, KindOf DEF ChangeStatusValidate, At, TypeOK
    <3>2. PICK st \in {"gate", "write"}, stamp \in BOOLEAN \cup {None} :
            Continue(r, [op |-> "changeStatus", step |-> st, task |-> q.task, to |-> q.to,
                         from |-> q.from, stamp |-> stamp])
      <4>1. PICK st \in {"gate", "write"} : st = IF q.by = "user" THEN "gate" ELSE "write"
        OBVIOUS
      <4>2. PICK stamp \in BOOLEAN \cup {None} : stamp = Stamp(q.from, q.to)
        BY DEF Stamp
      <4> QED
        BY <1>2, <2>2, <3>1, <4>1, <4>2 DEF ChangeStatusValidate
    <3>3. [op |-> "changeStatus", step |-> st, task |-> q.task, to |-> q.to, from |-> q.from,
           stamp |-> stamp] \in Request
      BY RequestKinds DEF LoadedReq, MovingReq
    <3> QED
      BY <1>2, <3>2, <3>3, HandlerGoesOn DEF ChangeStatusValidate
  <2> QED
    BY <2>1, <2>2
<1>3. CASE ChangeStatusGate(r)
  <2>1. PICK q \in MovingReq : q = req[r]
    BY <1>3, KindOf DEF ChangeStatusGate, At, TypeOK
  <2>2. [q EXCEPT !.step = "write"] \in Request
    BY RequestKinds DEF MovingReq
  <2> QED
    BY <1>3, <2>1, <2>2, HandlerGoesOn, IdleRequest DEF ChangeStatusGate, Return
<1>4. CASE ChangeStatusWrite(r)
  <2>1. CASE UNCHANGED tasks
    BY <1>4, <2>1, HandlerGoesOn, IdleRequest DEF ChangeStatusWrite, Return
  <2>2. CASE ~UNCHANGED tasks
    <3>1. PICK q \in MovingReq : q = req[r]
      BY <1>4, KindOf DEF ChangeStatusWrite, At, TypeOK
    <3>2. PICK t \in DOMAIN tasks, row \in TaskRow :
             tasks' = [tasks EXCEPT ![t] = row] /\ row.parent = tasks[t].parent
      <4>1. PICK t \in DOMAIN tasks : t = q.task
        BY <1>4, <2>2, <3>1 DEF ChangeStatusWrite
      <4>2. PICK done \in BOOLEAN : done = IF q.stamp = None THEN tasks[t].completed ELSE q.stamp
        BY TasksTyped DEF MovingReq
      <4>3. tasks' = [tasks EXCEPT ![t] = [status |-> q.to, parent |-> tasks[t].parent, completed |-> done]]
        BY <1>4, <2>2, <3>1, <4>1, <4>2 DEF ChangeStatusWrite
      <4>4. /\ [status |-> q.to, parent |-> tasks[t].parent, completed |-> done] \in TaskRow
            /\ [status |-> q.to, parent |-> tasks[t].parent, completed |-> done].parent = tasks[t].parent
        BY TasksTyped DEF MovingReq, TaskRow
      <4> QED
        BY <4>3, <4>4
    <3>3. /\ DOMAIN tasks' = DOMAIN tasks /\ tasks' \in [DOMAIN tasks -> TaskRow]
          /\ \A u \in DOMAIN tasks : tasks'[u].parent = tasks[u].parent
      BY <3>2 DEF TypeOK
    <3>4. TablesOK'
      BY <1>4, <3>3 DEF TypeOK, TablesOK, ChangeStatusWrite
    <3> QED
      BY <1>4, <3>4, RequestMoves, IdleRequest DEF ChangeStatusWrite, Return
  <2> QED
    BY <2>1, <2>2
<1> QED
  BY <1>1, <1>2, <1>3, <1>4

\* ProjectWorkflowService: columns.
LEMMA ColumnTyped ==
  ASSUME TypeOK, NEW r \in Requests, CreateColumn(r) \/ DeleteColumnCheck(r) \/ DeleteColumnCommit(r)
  PROVE  TypeOK'
<1>1. CASE CreateColumn(r)
  BY <1>1 DEF CreateColumn, TypeOK
<1>2. CASE DeleteColumnCheck(r)
  <2>1. PICK c \in columns : Continue(r, [op |-> "deleteColumn", step |-> "commit", column |-> c])
    BY <1>2 DEF DeleteColumnCheck
  <2>2. [op |-> "deleteColumn", step |-> "commit", column |-> c] \in Request
    BY RequestKinds DEF ColumnReq, TypeOK
  <2> QED
    BY <1>2, <2>1, <2>2, HandlerGoesOn DEF DeleteColumnCheck
<1>3. CASE DeleteColumnCommit(r)
  <2>1. PICK c : /\ columns' = columns \ {c}
                 /\ rows' = [i \in {j \in DOMAIN rows : rows[j].column # c} |-> rows[i]]
    BY <1>3 DEF DeleteColumnCommit
  <2>2. /\ DOMAIN rows' = {j \in DOMAIN rows : rows[j].column # c}
        /\ \A i \in DOMAIN rows' : rows'[i] = rows[i] /\ rows[i].column # c
        /\ rows' = [i \in DOMAIN rows' |-> rows'[i]]
    BY <2>1
  <2>3. /\ rows' \in [DOMAIN rows' -> StatusRow] /\ DOMAIN rows' \subseteq StatusIds
        /\ \A i \in DOMAIN rows' : rows'[i].column \in columns'
    BY <2>1, <2>2, RowsTyped
  <2>4. TablesOK'
    BY <1>3, <2>1, <2>3 DEF DeleteColumnCommit, TypeOK, TablesOK
  <2> QED
    BY <1>3, <2>4, RequestMoves, IdleRequest DEF DeleteColumnCommit, Return
<1> QED
  BY <1>1, <1>2, <1>3

\* createStatus and updateStatus up to their transaction.
LEMMA StatusCheckTyped ==
  ASSUME TypeOK, NEW r \in Requests, CreateStatusCheck(r) \/ UpdateStatusCheck(r) \/ TxBegin(r)
  PROVE  TypeOK'
<1>1. CASE CreateStatusCheck(r)
  <2>1. PICK in \in Creations, c \in columns :
          Continue(r, [op |-> "createStatus", step |-> "begin", in |-> in, column |-> c, demote |-> {}])
    BY <1>1 DEF CreateStatusCheck
  <2>2. [op |-> "createStatus", step |-> "begin", in |-> in, column |-> c, demote |-> {}] \in Request
    BY RequestKinds DEF NewStatusReq, TypeOK
  <2> QED
    BY <1>1, <2>1, <2>2, HandlerGoesOn DEF CreateStatusCheck
<1>2. CASE UpdateStatusCheck(r)
  <2>1. PICK i \in DOMAIN rows, in \in Patches, c \in ColumnIds, n \in Names :
          Continue(r, [op |-> "updateStatus", step |-> "begin", in |-> in, id |-> i,
                       from |-> n, column |-> c, demote |-> {}])
    <3>1. PICK i \in DOMAIN rows, in \in Patches :
            \E c \in IF in.column THEN columns ELSE {rows[i].column} :
              Continue(r, [op |-> "updateStatus", step |-> "begin", in |-> in, id |-> i,
                           from |-> rows[i].name, column |-> c, demote |-> {}])
      BY <1>2 DEF UpdateStatusCheck
    <3>2. rows[i].name \in Names /\ rows[i].column \in ColumnIds /\ columns \subseteq ColumnIds
      BY RowsTyped DEF TypeOK
    <3> QED
      BY <3>1, <3>2
  <2>2. [op |-> "updateStatus", step |-> "begin", in |-> in, id |-> i,
         from |-> n, column |-> c, demote |-> {}] \in Request
    <3>1. i \in StatusIds
      BY RowsTyped
    <3> QED
      BY <3>1, RequestKinds DEF PatchReq
  <2> QED
    BY <1>2, <2>1, <2>2, HandlerGoesOn DEF UpdateStatusCheck
<1>3. CASE TxBegin(r)
  <2>1. PICK d \in SUBSET StatusIds : Continue(r, [req[r] EXCEPT !.step = "commit", !.demote = d])
    <3>1. PICK d : /\ d = IF req[r].in.initial # TRUE THEN {}
                          ELSE IF req[r].op = "updateStatus" THEN InitialIds \ {req[r].id}
                          ELSE InitialIds
                   /\ Continue(r, [req[r] EXCEPT !.step = "commit", !.demote = d])
      BY <1>3 DEF TxBegin
    <3>2. InitialIds \subseteq StatusIds
      BY DEF InitialIds, TypeOK
    <3> QED
      BY <3>1, <3>2
  <2>2. PICK q \in NewStatusReq \cup PatchReq : q = req[r]
    BY <1>3, KindOf DEF TxBegin, TypeOK
  <2>3. [q EXCEPT !.step = "commit", !.demote = d] \in Request
    <3>1. CASE q \in NewStatusReq
      BY <3>1, RequestKinds DEF NewStatusReq
    <3>2. CASE q \in PatchReq
      BY <3>2, RequestKinds DEF PatchReq
    <3> QED
      BY <3>1, <3>2
  <2> QED
    BY <1>3, <2>1, <2>2, <2>3, HandlerGoesOn DEF TxBegin
<1> QED
  BY <1>1, <1>2, <1>3

\* What the demotion leaves of the rows.
LEMMA DemotedTyped ==
  ASSUME TypeOK, NEW S
  PROVE  /\ DOMAIN Demoted(S) = DOMAIN rows /\ Demoted(S) \in [DOMAIN rows -> StatusRow]
         /\ \A i \in DOMAIN rows :
              /\ Demoted(S)[i].name = rows[i].name /\ Demoted(S)[i].column = rows[i].column
              /\ Demoted(S)[i].done = rows[i].done
              /\ Demoted(S)[i].initial <=> rows[i].initial /\ i \notin S
<1>1. ASSUME NEW i \in DOMAIN rows
      PROVE  /\ Demoted(S)[i] \in StatusRow
             /\ Demoted(S)[i].name = rows[i].name /\ Demoted(S)[i].column = rows[i].column
             /\ Demoted(S)[i].done = rows[i].done
             /\ Demoted(S)[i].initial <=> rows[i].initial /\ i \notin S
  <2>1. PICK b \in BOOLEAN : b = (rows[i].initial /\ i \notin S)
    OBVIOUS
  <2>2. Demoted(S)[i] = [name |-> rows[i].name, initial |-> b, done |-> rows[i].done,
                         column |-> rows[i].column]
    BY <2>1 DEF Demoted
  <2>3. /\ [name |-> rows[i].name, initial |-> b, done |-> rows[i].done,
            column |-> rows[i].column] \in StatusRow
        /\ Demoted(S)[i].name = rows[i].name /\ Demoted(S)[i].column = rows[i].column
        /\ Demoted(S)[i].done = rows[i].done /\ Demoted(S)[i].initial = b
    BY <2>2, RowsTyped DEF StatusRow
  <2> QED
    BY <2>1, <2>2, <2>3
<1>2. Demoted(S) = [i \in DOMAIN rows |-> Demoted(S)[i]]
  BY DEF Demoted
<1> QED
  BY <1>1, <1>2

\* createStatus writes a row of its own.
LEMMA CreateCommitTyped ==
  ASSUME TypeOK, NEW r \in Requests, CreateStatusCommit(r)
  PROVE  TypeOK'
<1>1. CASE UNCHANGED rows
  BY <1>1, HandlerGoesOn, IdleRequest DEF CreateStatusCommit, Return
<1>2. CASE ~UNCHANGED rows
  <2>1. PICK q \in NewStatusReq : q = req[r]
    BY KindOf DEF CreateStatusCommit, At, TypeOK
  <2>2. PICK new : new = [name |-> q.in.name, initial |-> q.in.initial, done |-> q.in.done,
                          column |-> q.column]
    OBVIOUS
  <2>3. PICK i \in StatusIds : /\ q.column \in columns
                               /\ rows' = [j \in DOMAIN rows \cup {i} |->
                                             IF j = i THEN new ELSE Demoted(q.demote)[j]]
    BY <1>2, <2>1, <2>2 DEF CreateStatusCommit
  <2>4. new \in StatusRow /\ new.column = q.column
    <3>1. q.in \in Creations /\ q.column \in ColumnIds
      BY DEF NewStatusReq
    <3>2. q.in.name \in Names /\ q.in.initial \in BOOLEAN /\ q.in.done \in BOOLEAN
      BY <3>1, InputAssumption
    <3> QED
      BY <2>2, <3>1, <3>2 DEF StatusRow
  <2>5. PICK D : D = Demoted(q.demote) /\ DOMAIN D = DOMAIN rows /\ D \in [DOMAIN rows -> StatusRow]
                 /\ \A j \in DOMAIN rows : D[j].column = rows[j].column
    BY DemotedTyped
  <2>6. /\ DOMAIN rows' \subseteq StatusIds /\ rows' \in [DOMAIN rows' -> StatusRow]
        /\ \A j \in DOMAIN rows' : rows'[j].column \in columns
    BY <2>3, <2>4, <2>5, RowsTyped
  <2>7. TablesOK'
    BY <2>6 DEF CreateStatusCommit, TypeOK, TablesOK
  <2> QED
    BY <2>7, RequestMoves, IdleRequest DEF CreateStatusCommit, Return
<1> QED
  BY <1>1, <1>2

\* updateStatus renames tasks and transitions with the row.
LEMMA UpdateCommitTyped ==
  ASSUME TypeOK, NEW r \in Requests, UpdateStatusCommit(r)
  PROVE  TypeOK'
<1>1. CASE UNCHANGED <<rows, edges, tasks>>
  BY <1>1, HandlerGoesOn, IdleRequest DEF UpdateStatusCommit, Return
<1>2. CASE ~UNCHANGED <<rows, edges, tasks>>
  <2>1. PICK q \in PatchReq : q = req[r]
    BY KindOf DEF UpdateStatusCommit, At, TypeOK
  <2>2. /\ q.in \in Patches /\ q.id \in StatusIds /\ q.from \in Names /\ q.column \in ColumnIds
        /\ q.in.name \in Names \cup {None} /\ q.in.initial \in BOOLEAN \cup {None}
        /\ q.in.done \in BOOLEAN \cup {None} /\ q.in.column \in BOOLEAN
    BY InputAssumption DEF PatchReq
  <2>3. PICK to \in Names : to = IF q.in.name = None THEN q.from ELSE q.in.name
    BY <2>2
  <2>4. PICK D : D = Demoted(q.demote) /\ DOMAIN D = DOMAIN rows /\ D \in [DOMAIN rows -> StatusRow]
                 /\ \A j \in DOMAIN rows : D[j].column = rows[j].column
    BY DemotedTyped
  <2>5. /\ q.id \in DOMAIN rows /\ (q.in.column => q.column \in columns)
        /\ rows' = [D EXCEPT ![q.id] =
                       [name |-> IF q.in.name = None THEN D[q.id].name ELSE to,
                        initial |-> IF q.in.initial = None THEN D[q.id].initial ELSE q.in.initial,
                        done |-> IF q.in.done = None THEN D[q.id].done ELSE q.in.done,
                        column |-> IF q.in.column THEN q.column ELSE D[q.id].column]]
        /\ edges' = {<<Renamed(e[1], q.from, to), Renamed(e[2], q.from, to)>> : e \in edges}
        /\ tasks' = [t \in DOMAIN tasks |->
                       [status |-> Renamed(tasks[t].status, q.from, to),
                        parent |-> tasks[t].parent, completed |-> tasks[t].completed]]
    BY <1>2, <2>1, <2>3, <2>4 DEF UpdateStatusCommit
  <2>6. PICK new \in StatusRow : /\ rows' = [D EXCEPT ![q.id] = new] /\ new.column \in columns
    <3>1. D[q.id] \in StatusRow
      BY <2>4, <2>5
    <3>2. PICK n \in Names : n = IF q.in.name = None THEN D[q.id].name ELSE to
      BY <3>1 DEF StatusRow
    <3>3. PICK b \in BOOLEAN : b = IF q.in.initial = None THEN D[q.id].initial ELSE q.in.initial
      BY <2>2, <3>1 DEF StatusRow
    <3>4. PICK d \in BOOLEAN : d = IF q.in.done = None THEN D[q.id].done ELSE q.in.done
      BY <2>2, <3>1 DEF StatusRow
    <3>5. PICK c \in columns : c = IF q.in.column THEN q.column ELSE D[q.id].column
      BY <2>2, <2>4, <2>5, RowsTyped
    <3>6. PICK new : new = [name |-> n, initial |-> b, done |-> d, column |-> c]
      OBVIOUS
    <3>7. new \in StatusRow /\ new.column = c
      BY <3>6 DEF StatusRow, TypeOK
    <3> QED
      BY <2>5, <3>2, <3>3, <3>4, <3>5, <3>6, <3>7
  <2>7. /\ DOMAIN rows' \subseteq StatusIds /\ rows' \in [DOMAIN rows' -> StatusRow]
        /\ \A j \in DOMAIN rows' : rows'[j].column \in columns
    BY <2>4, <2>5, <2>6, RowsTyped
  <2>8. \A n \in Names : Renamed(n, q.from, to) \in Names
    BY DEF Renamed
  <2>9. edges' \subseteq Names \X Names
    BY <2>5, <2>8 DEF TypeOK
  <2>10. ASSUME NEW t \in DOMAIN tasks
         PROVE  tasks'[t] \in TaskRow /\ tasks'[t].parent = tasks[t].parent
    BY <2>5, <2>8, TasksTyped DEF TaskRow
  <2>11. /\ DOMAIN tasks' = DOMAIN tasks /\ tasks' \in [DOMAIN tasks -> TaskRow]
    BY <2>5, <2>10
  <2>12. TablesOK'
    BY <2>7, <2>9, <2>10, <2>11 DEF UpdateStatusCommit, TypeOK, TablesOK
  <2> QED
    BY <2>12, RequestMoves, IdleRequest DEF UpdateStatusCommit, Return
<1> QED
  BY <1>1, <1>2

\* deleteStatus.
LEMMA DeleteStatusTyped ==
  ASSUME TypeOK, NEW r \in Requests, DeleteStatusLoad(r) \/ DeleteStatusCount(r) \/ DeleteStatusCommit(r)
  PROVE  TypeOK'
<1>1. CASE DeleteStatusLoad(r)
  <2>1. PICK i \in DOMAIN rows, n \in Names :
          Continue(r, [op |-> "deleteStatus", step |-> "count", id |-> i, from |-> n])
    BY <1>1, RowsTyped DEF DeleteStatusLoad
  <2>2. [op |-> "deleteStatus", step |-> "count", id |-> i, from |-> n] \in Request
    <3>1. i \in StatusIds
      BY RowsTyped
    <3> QED
      BY <3>1, RequestKinds DEF DeleteReq
  <2> QED
    BY <1>1, <2>1, <2>2, HandlerGoesOn DEF DeleteStatusLoad
<1>2. CASE DeleteStatusCount(r)
  <2>1. PICK q \in DeleteReq : q = req[r]
    BY <1>2, KindOf DEF DeleteStatusCount, At, TypeOK
  <2>2. [q EXCEPT !.step = "commit"] \in Request
    BY RequestKinds DEF DeleteReq
  <2> QED
    BY <1>2, <2>1, <2>2, HandlerGoesOn, IdleRequest DEF DeleteStatusCount, Return
<1>3. CASE DeleteStatusCommit(r)
  <2>1. CASE UNCHANGED <<rows, edges>>
    BY <1>3, <2>1, HandlerGoesOn, IdleRequest DEF DeleteStatusCommit, Return
  <2>2. CASE ~UNCHANGED <<rows, edges>>
    <3>1. PICK i \in DOMAIN rows : rows' = [j \in DOMAIN rows \ {i} |-> rows[j]] /\ edges' \subseteq edges
      BY <1>3, <2>2 DEF DeleteStatusCommit
    <3>2. /\ DOMAIN rows' \subseteq StatusIds /\ rows' \in [DOMAIN rows' -> StatusRow]
          /\ \A j \in DOMAIN rows' : rows'[j].column \in columns
      BY <3>1, RowsTyped
    <3>3. TablesOK'
      BY <1>3, <3>1, <3>2 DEF DeleteStatusCommit, TypeOK, TablesOK
    <3> QED
      BY <1>3, <3>3, RequestMoves, IdleRequest DEF DeleteStatusCommit, Return
  <2> QED
    BY <2>1, <2>2
<1> QED
  BY <1>1, <1>2, <1>3

\* resetToDefaults.
LEMMA ResetTyped ==
  ASSUME TypeOK, NEW r \in Requests, ResetCheck(r) \/ ResetCommit(r)
  PROVE  TypeOK'
<1>1. CASE ResetCheck(r)
  <2>1. [op |-> "resetToDefaults", step |-> "commit"] \in Request
    BY RequestKinds DEF ResetReq
  <2> QED
    BY <1>1, <2>1, HandlerGoesOn DEF ResetCheck
<1>2. CASE ResetCommit(r)
  <2>1. PICK id, col : /\ SeedOK(rows', id, col)
                       /\ columns' = {col[n] : n \in PresetNames} /\ columns' \subseteq ColumnIds
    BY <1>2, ResetSeeds
  <2>2. /\ DOMAIN rows' \subseteq StatusIds /\ rows' \in [DOMAIN rows' -> StatusRow]
    BY <2>1 DEF SeedOK
  <2>3. \A i \in DOMAIN rows' : rows'[i].column \in columns'
    BY <2>1, SeedColumns
  <2>4. edges' \subseteq Names \X Names
    BY <1>2, PresetAssumption DEF ResetCommit
  <2>5. TablesOK'
    BY <1>2, <2>1, <2>2, <2>3, <2>4 DEF ResetCommit, TypeOK, TablesOK
  <2> QED
    BY <1>2, <2>5, RequestMoves, IdleRequest DEF ResetCommit, Return
<1> QED
  BY <1>1, <1>2

\* The transitions.
LEMMA TransitionsTyped ==
  ASSUME TypeOK, NEW r \in Requests,
         ReplaceTransitionsCheck(r) \/ ReplaceTransitionsCommit(r) \/ ResetTransitions(r)
  PROVE  TypeOK'
<1>1. CASE ReplaceTransitionsCheck(r)
  <2>1. PICK E \in EdgeSets : Continue(r, [op |-> "replaceTransitions", step |-> "commit", edges |-> E])
    BY <1>1 DEF ReplaceTransitionsCheck
  <2>2. [op |-> "replaceTransitions", step |-> "commit", edges |-> E] \in Request
    BY RequestKinds DEF EdgesReq
  <2> QED
    BY <1>1, <2>1, <2>2, HandlerGoesOn DEF ReplaceTransitionsCheck
<1>2. CASE ReplaceTransitionsCommit(r)
  <2>1. PICK q \in EdgesReq : q = req[r]
    BY <1>2, KindOf DEF ReplaceTransitionsCommit, At, TypeOK
  <2>2. edges' \subseteq Names \X Names
    BY <1>2, <2>1, InputAssumption DEF ReplaceTransitionsCommit, EdgesReq
  <2>3. TablesOK'
    BY <1>2, <2>2 DEF ReplaceTransitionsCommit, TypeOK, TablesOK
  <2> QED
    BY <1>2, <2>3, RequestMoves, IdleRequest DEF ReplaceTransitionsCommit, Return
<1>3. CASE ResetTransitions(r)
  <2>1. edges' \subseteq Names \X Names
    BY <1>3, PresetAssumption DEF ResetTransitions
  <2> QED
    BY <1>3, <2>1 DEF ResetTransitions, TypeOK
<1> QED
  BY <1>1, <1>2, <1>3

\* Every step of every handler keeps the types.
LEMMA TypesStep == TypeOK /\ [Next]_vars => TypeOK'
<1> SUFFICES ASSUME TypeOK, [Next]_vars PROVE TypeOK'
  OBVIOUS
<1>1. ASSUME NEW r \in Requests, Abort(r) PROVE TypeOK'
  BY <1>1, HandlerGoesOn, IdleRequest DEF Abort, Return
<1>2. CASE UNCHANGED vars
  BY <1>2 DEF vars, TypeOK
<1> QED
  BY <1>1, <1>2, CreateTaskTyped, RemoveTaskTyped, ChangeStatusTyped, ColumnTyped, StatusCheckTyped,
     CreateCommitTyped, UpdateCommitTyped, DeleteStatusTyped, ResetTyped, TransitionsTyped DEF Next

\* The tables keep their types and their foreign keys (a status is in a column
\* of the project, a parent is a task), for any number of racing requests.
THEOREM WorkflowTyped == Spec => []TypeOK
  BY TypesStart, TypesStep, PTL DEF Spec
-----------------------------------------------------------------------------
(* Requests that are not about the same names *)

\* The name that a request is to take out of the status table.
Losing(q, n) == /\ q.op = "deleteStatus" \/ (q.op = "updateStatus" /\ q.in.name # None)
                /\ n = q.from

\* The names that a request has read and relies on.
Using(q, n) == \/ q.op = "create" /\ n = q.status
               \/ q.op = "changeStatus" /\ n = q.to
               \/ q.op \in {"updateStatus", "deleteStatus"} /\ n = q.from
               \/ q.op = "replaceTransitions" /\ \E e \in q.edges : n \in {e[1], e[2]}

\* No request takes away a name that another one under way relies on, none
\* puts a status in a column that another is deleting, and the reset is alone.
NamesApart ==
  \A r, q \in Requests : r # q =>
    /\ \A n \in Names : ~(Losing(req[r], n) /\ Using(req[q], n))
    /\ req[r].op = "deleteColumn" /\ req[q].op \in {"createStatus", "updateStatus"} =>
         req[r].column # req[q].column
    /\ req[r].op = "resetToDefaults" => req[q] = Idle

\* One step of the handler of a request.
Acts(r) ==
  \/ CreateTaskLoad(r) \/ CreateTaskWrite(r) \/ RemoveTask(r)
  \/ ChangeStatusLoad(r) \/ ChangeStatusValidate(r) \/ ChangeStatusGate(r) \/ ChangeStatusWrite(r)
  \/ CreateColumn(r) \/ DeleteColumnCheck(r) \/ DeleteColumnCommit(r)
  \/ CreateStatusCheck(r) \/ UpdateStatusCheck(r) \/ TxBegin(r)
  \/ CreateStatusCommit(r) \/ UpdateStatusCommit(r)
  \/ DeleteStatusLoad(r) \/ DeleteStatusCount(r) \/ DeleteStatusCommit(r)
  \/ ResetCheck(r) \/ ResetCommit(r)
  \/ ReplaceTransitionsCheck(r) \/ ReplaceTransitionsCommit(r) \/ ResetTransitions(r)
  \/ Abort(r)

\* The steps that read, and go on with the request or end it.
Reads(r) ==
  \/ CreateTaskLoad(r) \/ ChangeStatusLoad(r) \/ ChangeStatusValidate(r) \/ ChangeStatusGate(r)
  \/ DeleteColumnCheck(r) \/ CreateStatusCheck(r) \/ UpdateStatusCheck(r) \/ TxBegin(r)
  \/ DeleteStatusLoad(r) \/ DeleteStatusCount(r) \/ ResetCheck(r) \/ ReplaceTransitionsCheck(r)
  \/ Abort(r)

\* The steps that write to the status table.
Writes(r) == \/ CreateStatusCommit(r) \/ UpdateStatusCommit(r) \/ DeleteStatusCommit(r)
             \/ DeleteColumnCommit(r) \/ ResetCommit(r)

\* A step is one request's.
LEMMA NextActs == Next <=> \E r \in Requests : Acts(r)
  BY DEF Next, Acts

\* A request that ends frees its slot.
LEMMA Returned ==
  ASSUME TypeOK, NEW r \in Requests, Return(r)
  PROVE  req'[r] = Idle
  BY DEF TypeOK, Return, Continue

\* What a step does to the requests: one goes on.
LEMMA ReadsOnly ==
  ASSUME NEW r \in Requests, Reads(r)
  PROVE  UNCHANGED <<columns, rows, edges, tasks>> /\ \E v : Continue(r, v)
<1>1. CASE CreateTaskLoad(r) \/ ChangeStatusLoad(r) \/ ChangeStatusValidate(r) \/ ChangeStatusGate(r)
  BY <1>1 DEF CreateTaskLoad, ChangeStatusLoad, ChangeStatusValidate, ChangeStatusGate, Return
<1>2. CASE DeleteColumnCheck(r) \/ CreateStatusCheck(r) \/ UpdateStatusCheck(r) \/ TxBegin(r)
  BY <1>2 DEF DeleteColumnCheck, CreateStatusCheck, UpdateStatusCheck, TxBegin
<1>3. CASE \/ DeleteStatusLoad(r) \/ DeleteStatusCount(r) \/ ResetCheck(r) \/ ReplaceTransitionsCheck(r)
           \/ Abort(r)
  BY <1>3 DEF DeleteStatusLoad, DeleteStatusCount, ResetCheck, ReplaceTransitionsCheck, Abort, Return
<1> QED
  BY <1>1, <1>2, <1>3 DEF Reads

\* A request that writes ends, and one that is a single step has no slot.
LEMMA ActsEnd ==
  ASSUME TypeOK, NEW r \in Requests, Acts(r), ~Reads(r)
  PROVE  req'[r] = Idle /\ \E v : Continue(r, v)
<1>1. CASE CreateTaskWrite(r) \/ ChangeStatusWrite(r) \/ ReplaceTransitionsCommit(r) \/ Writes(r)
  <2>1. Return(r)
    BY <1>1 DEF CreateTaskWrite, ChangeStatusWrite, ReplaceTransitionsCommit, Writes, CreateStatusCommit,
                UpdateStatusCommit, DeleteStatusCommit, DeleteColumnCommit, ResetCommit
  <2> QED
    BY <2>1, Returned DEF Return
<1>2. CASE RemoveTask(r) \/ CreateColumn(r) \/ ResetTransitions(r)
  <2>1. req[r] = Idle /\ UNCHANGED req
    BY <1>2 DEF RemoveTask, CreateColumn, ResetTransitions, Free
  <2>2. Continue(r, Idle)
    BY <2>1 DEF Continue, TypeOK
  <2> QED
    BY <2>1, <2>2
<1> QED
  BY <1>1, <1>2 DEF Acts, Reads, Writes

\* The other requests wait.
LEMMA OthersWait ==
  ASSUME TypeOK, NEW r \in Requests, Acts(r), NEW q \in Requests, q # r
  PROVE  req'[q] = req[q]
<1>1. PICK v : Continue(r, v)
  BY ReadsOnly, ActsEnd
<1> QED
  BY <1>1 DEF Continue, TypeOK

\* The unique index on a project's status names.
UniqueNames == \A i, j \in DOMAIN rows : rows[i].name = rows[j].name => i = j

\* What a request has read of the status table is still so.
Kept(q) ==
    /\ q.op = "createStatus" => (q.in.initial # TRUE => q.demote = {})
    /\ q.op = "updateStatus" =>
         /\ q.id \in DOMAIN rows /\ q.from = rows[q.id].name
         /\ q.id \notin q.demote /\ (q.in.initial # TRUE => q.demote = {})
    /\ q.op = "deleteStatus" =>
         /\ q.id \in DOMAIN rows /\ q.from = rows[q.id].name /\ ~rows[q.id].initial
         /\ q.step = "commit" => \A t \in DOMAIN tasks : tasks[t].status # q.from
    /\ q.op = "deleteColumn" => \A i \in DOMAIN rows : rows[i].column # q.column
    /\ q.op = "resetToDefaults" => \A t \in DOMAIN tasks : tasks[t].status \in PresetNames
    /\ q.op = "replaceTransitions" => \A e \in q.edges : e[1] \in StatusNames /\ e[2] \in StatusNames

NamesInv == TypeOK /\ UniqueNames /\ \A r \in Requests : Kept(req[r])

\* A free slot has read nothing.
LEMMA IdleKept == Kept(Idle) /\ Kept(Idle)'
  BY DEF Kept, Idle

\* What was read stays so while the tables stay as they are.
LEMMA KeptSame ==
  ASSUME NEW q, Kept(q), UNCHANGED <<rows, tasks>>
  PROVE  Kept(q)'
<1>1. StatusNames' = StatusNames
  BY DEF StatusNames
<1> QED
  BY <1>1 DEF Kept

\* The request under way goes on, and nothing else happens.
LEMMA TalkStep ==
  ASSUME NamesInv, TypeOK', NEW r \in Requests, NEW q, Continue(r, q), Kept(q), UNCHANGED <<rows, tasks>>
  PROVE  NamesInv'
<1>1. ASSUME NEW x \in Requests PROVE Kept(req[x])'
  <2>1. PICK p : p = req'[x] /\ (p = q \/ p = req[x])
    BY DEF Continue, NamesInv, TypeOK
  <2>2. Kept(p)
    BY <2>1 DEF NamesInv
  <2> QED
    BY <2>1, <2>2, KeptSame
<1>2. UniqueNames'
  BY DEF NamesInv, UniqueNames
<1> QED
  BY <1>1, <1>2 DEF NamesInv

\* The requests that read.
LEMMA NamesReads ==
  ASSUME NamesInv, TypeOK', NEW r \in Requests, Reads(r)
  PROVE  NamesInv'
<1>0. TypeOK /\ Kept(req[r]) /\ req[r] \in Request
  BY DEF NamesInv, TypeOK
<1>a. UNCHANGED <<columns, rows, edges, tasks>>
  BY ReadsOnly
<1> SUFFICES \E q : Continue(r, q) /\ Kept(q)
  BY <1>a, TalkStep
<1>b. Return(r) => \E q : Continue(r, q) /\ Kept(q)
  BY IdleKept DEF Return
<1>1. CASE CreateTaskLoad(r)
  <2>1. PICK q : Continue(r, q) /\ q.op = "create"
    BY <1>1 DEF CreateTaskLoad
  <2> QED
    BY <2>1 DEF Kept
<1>2. CASE ChangeStatusLoad(r)
  <2>1. PICK q : Continue(r, q) /\ q.op = "changeStatus"
    BY <1>2 DEF ChangeStatusLoad
  <2> QED
    BY <2>1 DEF Kept
<1>3. CASE ChangeStatusValidate(r)
  <2>1. CASE ~Return(r)
    <3>1. PICK q : Continue(r, q) /\ q.op = "changeStatus"
      BY <1>3, <2>1 DEF ChangeStatusValidate
    <3> QED
      BY <3>1 DEF Kept
  <2> QED
    BY <1>b, <2>1
<1>4. CASE ChangeStatusGate(r)
  <2>1. CASE ~Return(r)
    <3>1. PICK p \in MovingReq : p = req[r]
      BY <1>0, <1>4, KindOf DEF ChangeStatusGate, At
    <3>2. PICK q : Continue(r, q) /\ q.op = "changeStatus"
      BY <1>4, <2>1, <3>1 DEF ChangeStatusGate, MovingReq
    <3> QED
      BY <3>2 DEF Kept
  <2> QED
    BY <1>b, <2>1
<1>5. CASE DeleteColumnCheck(r)
  <2>1. PICK q : \E c \in columns : /\ Continue(r, q) /\ q.op = "deleteColumn" /\ q.column = c
                                /\ \A i \in DOMAIN rows : rows[i].column # c
    BY <1>5 DEF DeleteColumnCheck
  <2> QED
    BY <2>1 DEF Kept
<1>6. CASE CreateStatusCheck(r)
  <2>1. PICK q : Continue(r, q) /\ q.op = "createStatus" /\ q.demote = {}
    BY <1>6 DEF CreateStatusCheck
  <2> QED
    BY <2>1 DEF Kept
<1>7. CASE UpdateStatusCheck(r)
  <2>1. PICK q : \E i \in DOMAIN rows : /\ Continue(r, q) /\ q.op = "updateStatus"
                                    /\ q.id = i /\ q.from = rows[i].name /\ q.demote = {}
    BY <1>7 DEF UpdateStatusCheck
  <2> QED
    BY <2>1 DEF Kept
<1>8. CASE TxBegin(r)
  <2>1. PICK p \in NewStatusReq \cup PatchReq : p = req[r]
    BY <1>0, <1>8, KindOf DEF TxBegin
  <2>2. PICK d : /\ d = IF p.in.initial # TRUE THEN {}
                        ELSE IF p.op = "updateStatus" THEN InitialIds \ {p.id} ELSE InitialIds
                 /\ Continue(r, [p EXCEPT !.step = "commit", !.demote = d])
    BY <1>8, <2>1 DEF TxBegin
  <2>3. PICK q : q = [p EXCEPT !.step = "commit", !.demote = d]
    OBVIOUS
  <2>4. CASE p \in NewStatusReq
    <3>1. q.op = "createStatus" /\ p.op = "createStatus" /\ q.step = "commit" /\ q.in = p.in /\ q.demote = d
      BY <2>3, <2>4 DEF NewStatusReq
    <3> QED
      BY <2>2, <2>3, <3>1 DEF Kept
  <2>5. CASE p \in PatchReq
    <3>1. /\ q.op = "updateStatus" /\ p.op = "updateStatus" /\ q.step = "commit" /\ q.in = p.in
          /\ q.demote = d /\ q.id = p.id /\ q.from = p.from
      BY <2>3, <2>5 DEF PatchReq
    <3>2. p.id \in DOMAIN rows /\ p.from = rows[p.id].name
      BY <1>0, <2>1, <3>1 DEF Kept
    <3>3. p.id \notin d /\ (p.in.initial # TRUE => d = {})
      BY <2>2, <3>1
    <3>4. Kept(q)
      BY <3>1, <3>2, <3>3 DEF Kept
    <3> QED
      BY <2>2, <2>3, <3>4
  <2> QED
    BY <2>4, <2>5
<1>9. CASE DeleteStatusLoad(r)
  <2>1. PICK q : \E i \in DOMAIN rows : /\ Continue(r, q) /\ q.op = "deleteStatus" /\ q.step = "count"
                                    /\ q.id = i /\ q.from = rows[i].name /\ ~rows[i].initial
    BY <1>9 DEF DeleteStatusLoad
  <2> QED
    BY <2>1 DEF Kept
<1>10. CASE DeleteStatusCount(r)
  <2>1. CASE ~Return(r)
    <3>1. PICK p \in DeleteReq : p = req[r]
      BY <1>0, <1>10, KindOf DEF DeleteStatusCount, At
    <3>2. PICK q : /\ Continue(r, q) /\ q.op = "deleteStatus" /\ q.id = p.id /\ q.from = p.from
      BY <1>10, <2>1, <3>1 DEF DeleteStatusCount, DeleteReq
    <3>3. \A t \in DOMAIN tasks : tasks[t].status # p.from
      BY <1>10, <2>1, <3>1 DEF DeleteStatusCount
    <3>4. p.id \in DOMAIN rows /\ p.from = rows[p.id].name /\ ~rows[p.id].initial
      BY <1>0, <3>1 DEF Kept, DeleteReq
    <3> QED
      BY <3>2, <3>3, <3>4 DEF Kept
  <2> QED
    BY <1>b, <2>1
<1>11. CASE ResetCheck(r)
  <2>1. PICK q : Continue(r, q) /\ q.op = "resetToDefaults"
    BY <1>11 DEF ResetCheck
  <2> QED
    BY <1>11, <2>1 DEF ResetCheck, Kept
<1>12. CASE ReplaceTransitionsCheck(r)
  <2>1. PICK q : \E E \in EdgeSets : /\ Continue(r, q) /\ q.op = "replaceTransitions" /\ q.edges = E
                                 /\ \A e \in E : e[1] \in StatusNames /\ e[2] \in StatusNames
    BY <1>12 DEF ReplaceTransitionsCheck
  <2> QED
    BY <2>1 DEF Kept
<1>13. CASE Abort(r)
  BY <1>b, <1>13 DEF Abort
<1> QED
  BY <1>1, <1>2, <1>3, <1>4, <1>5, <1>6, <1>7, <1>8, <1>9, <1>10, <1>11, <1>12, <1>13 DEF Reads
\* What createStatus writes, unless it is rolled back.
Creates(in, S, i) ==
    /\ i \in StatusIds /\ i \notin DOMAIN rows /\ DOMAIN rows' = DOMAIN rows \cup {i}
    /\ in \in Creations /\ in.name \notin StatusNames
    /\ rows'[i].name = in.name /\ rows'[i].initial = in.initial /\ rows'[i].done = in.done
    /\ \A j \in DOMAIN rows : rows'[j].name = rows[j].name /\ rows'[j].done = rows[j].done
    /\ \A j \in DOMAIN rows : rows'[j].initial <=> rows[j].initial /\ j \notin S
    /\ (in.initial # TRUE => S = {}) /\ UNCHANGED <<edges, tasks>>

\* Its transaction.
LEMMA CreateWrites ==
  ASSUME TypeOK, NEW r \in Requests, Kept(req[r]), CreateStatusCommit(r), ~UNCHANGED rows
  PROVE  \E in \in Creations, i \in StatusIds : \E S :
            Creates(in, S, i) /\ in = req[r].in /\ S = req[r].demote
<1>0. TypeOK /\ Kept(req[r]) /\ req[r] \in Request
  BY DEF TypeOK
<1>1. PICK q \in NewStatusReq : q = req[r] /\ q.step = "commit"
  BY <1>0, KindOf DEF CreateStatusCommit, At
<1>2. PICK in \in Creations : in = q.in
  BY DEF NewStatusReq
<1>3. in.name \in Names /\ in.initial \in BOOLEAN /\ in.done \in BOOLEAN
  BY InputAssumption
<1>4. PICK S : S = q.demote /\ (in.initial # TRUE => S = {})
  BY <1>0, <1>1, <1>2 DEF Kept, NewStatusReq
<1>5. PICK new : new = [name |-> in.name, initial |-> in.initial, done |-> in.done, column |-> q.column]
  OBVIOUS
<1>6. new.name = in.name /\ new.initial = in.initial /\ new.done = in.done
  BY <1>5
<1>7. PICK i \in StatusIds : /\ in.name \notin StatusNames /\ i \notin DOMAIN rows
                             /\ rows' = [j \in DOMAIN rows \cup {i} |-> IF j = i THEN new ELSE Demoted(S)[j]]
  BY <1>1, <1>2, <1>4, <1>5 DEF CreateStatusCommit
<1>8. /\ \A j \in DOMAIN rows : Demoted(S)[j].name = rows[j].name /\ Demoted(S)[j].done = rows[j].done
      /\ \A j \in DOMAIN rows : Demoted(S)[j].initial <=> rows[j].initial /\ j \notin S
  BY <1>0, DemotedTyped
<1>9. /\ DOMAIN rows' = DOMAIN rows \cup {i} /\ rows'[i] = new
      /\ \A j \in DOMAIN rows : rows'[j] = Demoted(S)[j]
  BY <1>7
<1>10. UNCHANGED <<edges, tasks>>
  BY DEF CreateStatusCommit
<1>11. Creates(in, S, i)
  BY <1>4, <1>6, <1>7, <1>8, <1>9, <1>10 DEF Creates
<1> QED
  BY <1>1, <1>2, <1>4, <1>11

\* What updateStatus writes, unless it is rolled back.
Updates(in, S, i, from, to) ==
    /\ in \in Patches /\ i \in DOMAIN rows /\ DOMAIN rows' = DOMAIN rows
    /\ from \in Names /\ to \in Names /\ from = rows[i].name
    /\ to = IF in.name = None THEN from ELSE in.name
    /\ \A j \in DOMAIN rows : j # i => rows[j].name # to
    /\ to # from => ~RenameCollides(from, to)
    /\ rows'[i].name = to
    /\ rows'[i].done <=> IF in.done = None THEN rows[i].done ELSE in.done
    /\ rows'[i].initial <=> IF in.initial = None THEN rows[i].initial /\ i \notin S ELSE in.initial
    /\ \A j \in DOMAIN rows : j # i => rows'[j].name = rows[j].name /\ rows'[j].done = rows[j].done
    /\ \A j \in DOMAIN rows : j # i => (rows'[j].initial <=> rows[j].initial /\ j \notin S)
    /\ edges' = {<<Renamed(e[1], from, to), Renamed(e[2], from, to)>> : e \in edges}
    /\ DOMAIN tasks' = DOMAIN tasks
    /\ \A t \in DOMAIN tasks : /\ tasks'[t].status = Renamed(tasks[t].status, from, to)
                                /\ tasks'[t].parent = tasks[t].parent
                                /\ tasks'[t].completed = tasks[t].completed
    /\ i \notin S /\ (in.initial # TRUE => S = {})

\* Its transaction.
LEMMA UpdateWrites ==
  ASSUME TypeOK, UniqueNames, NEW r \in Requests, Kept(req[r]), UpdateStatusCommit(r),
         ~UNCHANGED <<rows, edges, tasks>>
  PROVE  \E in \in Patches, i \in DOMAIN rows, from, to \in Names : \E S :
            /\ Updates(in, S, i, from, to) /\ in = req[r].in /\ from = req[r].from
            /\ S = req[r].demote /\ i = req[r].id
<1>0. TypeOK /\ Kept(req[r]) /\ req[r] \in Request /\ UniqueNames
  BY DEF TypeOK
<1>1. PICK q \in PatchReq : q = req[r] /\ q.step = "commit"
  BY <1>0, KindOf DEF UpdateStatusCommit, At
<1>2. PICK in \in Patches, from \in Names : in = q.in /\ from = q.from
  BY DEF PatchReq
<1>3. /\ in.name \in Names \cup {None} /\ in.initial \in BOOLEAN \cup {None}
      /\ in.done \in BOOLEAN \cup {None} /\ in.column \in BOOLEAN
  BY InputAssumption
<1>4. PICK i \in DOMAIN rows : i = q.id /\ from = rows[i].name
  BY <1>0, <1>1, <1>2 DEF Kept, PatchReq
<1>5. PICK S : S = q.demote /\ i \notin S /\ (in.initial # TRUE => S = {})
  BY <1>0, <1>1, <1>2, <1>4 DEF Kept, PatchReq
<1>6. PICK to \in Names : to = IF in.name = None THEN from ELSE in.name
  BY <1>3
<1>7. PICK D : /\ D = Demoted(S) /\ DOMAIN D = DOMAIN rows /\ D \in [DOMAIN rows -> StatusRow]
               /\ \A j \in DOMAIN rows : D[j].name = rows[j].name /\ D[j].done = rows[j].done
               /\ \A j \in DOMAIN rows : D[j].initial <=> rows[j].initial /\ j \notin S
  BY <1>0, DemotedTyped
<1>8. /\ in.name # None => \A j \in DOMAIN rows \ {i} : rows[j].name # to
      /\ to # from => ~RenameCollides(from, to)
      /\ rows' = [D EXCEPT ![i] =
                     [name |-> IF in.name = None THEN D[i].name ELSE to,
                      initial |-> IF in.initial = None THEN D[i].initial ELSE in.initial,
                      done |-> IF in.done = None THEN D[i].done ELSE in.done,
                      column |-> IF in.column THEN q.column ELSE D[i].column]]
      /\ edges' = {<<Renamed(e[1], from, to), Renamed(e[2], from, to)>> : e \in edges}
      /\ tasks' = [t \in DOMAIN tasks |->
                     [status |-> Renamed(tasks[t].status, from, to),
                      parent |-> tasks[t].parent, completed |-> tasks[t].completed]]
  <2> DEFINE goal == IF q.in.name = None THEN q.from ELSE q.in.name
  <2>1. /\ ~(q.in.name # None /\ \E j \in DOMAIN rows \ {q.id} : rows[j].name = goal)
        /\ ~(goal # q.from /\ RenameCollides(q.from, goal))
    BY <1>1 DEF UpdateStatusCommit
  <2>2. rows' = [Demoted(q.demote) EXCEPT ![q.id] =
                   [name |-> IF q.in.name = None THEN @.name ELSE goal,
                    initial |-> IF q.in.initial = None THEN @.initial ELSE q.in.initial,
                    done |-> IF q.in.done = None THEN @.done ELSE q.in.done,
                    column |-> IF q.in.column THEN q.column ELSE @.column]]
    BY <1>1 DEF UpdateStatusCommit
  <2>3. edges' = {<<Renamed(e[1], q.from, goal), Renamed(e[2], q.from, goal)>> : e \in edges}
    BY <1>1 DEF UpdateStatusCommit
  <2>4. tasks' = [t \in DOMAIN tasks |->
                    [status |-> Renamed(tasks[t].status, q.from, goal),
                     parent |-> tasks[t].parent, completed |-> tasks[t].completed]]
    BY <1>1 DEF UpdateStatusCommit
  <2>5. goal = to
    BY <1>2, <1>6
  <2> HIDE DEF goal
  <2>6. rows' = [D EXCEPT ![i] =
                   [name |-> IF in.name = None THEN @.name ELSE to,
                    initial |-> IF in.initial = None THEN @.initial ELSE in.initial,
                    done |-> IF in.done = None THEN @.done ELSE in.done,
                    column |-> IF in.column THEN q.column ELSE @.column]]
    BY <1>2, <1>4, <1>5, <1>7, <2>2, <2>5
  <2> QED
    BY <1>2, <1>4, <2>1, <2>3, <2>4, <2>5, <2>6
<1>9. \A j \in DOMAIN rows : j # i => rows[j].name # to
  <2>1. CASE in.name = None
    BY <1>0, <1>4, <1>6, <2>1 DEF UniqueNames
  <2>2. CASE in.name # None
    BY <1>8, <2>2
  <2> QED
    BY <2>1, <2>2
<1>10. PICK new : /\ new = rows'[i] /\ new.name = to
                  /\ new.done <=> IF in.done = None THEN D[i].done ELSE in.done
                  /\ new.initial <=> IF in.initial = None THEN D[i].initial ELSE in.initial
  <2>1. D[i] \in StatusRow /\ D[i].name = from
    BY <1>4, <1>7
  <2>2. D[i].done \in BOOLEAN /\ D[i].initial \in BOOLEAN
    BY <2>1 DEF StatusRow
  <2>3. PICK b \in BOOLEAN : b = IF in.initial = None THEN D[i].initial ELSE in.initial
    BY <1>3, <2>2
  <2>4. PICK d \in BOOLEAN : d = IF in.done = None THEN D[i].done ELSE in.done
    BY <1>3, <2>2
  <2>5. to = IF in.name = None THEN D[i].name ELSE to
    BY <1>6, <2>1
  <2>6. PICK c : c = IF in.column THEN q.column ELSE D[i].column
    OBVIOUS
  <2>7. rows'[i] = [name |-> to, initial |-> b, done |-> d, column |-> c]
    BY <1>7, <1>8, <2>3, <2>4, <2>5, <2>6
  <2>8. rows'[i].name = to /\ rows'[i].initial = b /\ rows'[i].done = d
    BY <2>7
  <2> QED
    BY <2>3, <2>4, <2>8
<1>11. /\ DOMAIN rows' = DOMAIN rows
       /\ \A j \in DOMAIN rows : j # i => rows'[j] = D[j]
  BY <1>7, <1>8
<1>12. /\ DOMAIN tasks' = DOMAIN tasks
       /\ \A t \in DOMAIN tasks : /\ tasks'[t].status = Renamed(tasks[t].status, from, to)
                                   /\ tasks'[t].parent = tasks[t].parent
                                   /\ tasks'[t].completed = tasks[t].completed
  BY <1>8
<1>13. /\ rows'[i].name = to
       /\ rows'[i].done <=> IF in.done = None THEN rows[i].done ELSE in.done
       /\ rows'[i].initial <=> IF in.initial = None THEN rows[i].initial /\ i \notin S ELSE in.initial
  BY <1>7, <1>10
<1>14. /\ \A j \in DOMAIN rows : j # i => rows'[j].name = rows[j].name /\ rows'[j].done = rows[j].done
       /\ \A j \in DOMAIN rows : j # i => (rows'[j].initial <=> rows[j].initial /\ j \notin S)
  BY <1>7, <1>11
<1>15. Updates(in, S, i, from, to)
  BY <1>4, <1>5, <1>6, <1>8, <1>9, <1>11, <1>12, <1>13, <1>14 DEF Updates
<1>16. in = req[r].in /\ from = req[r].from /\ S = req[r].demote /\ i = req[r].id
  BY <1>1, <1>2, <1>4, <1>5
<1> QED
  BY <1>15, <1>16

\* What deleteStatus takes away.
Deletes(i, from) ==
    /\ i \in DOMAIN rows /\ DOMAIN rows' = DOMAIN rows \ {i} /\ from = rows[i].name
    /\ ~rows[i].initial
    /\ \A j \in DOMAIN rows' : rows'[j] = rows[j]
    /\ edges' = {e \in edges : from \notin {e[1], e[2]}}
    /\ (\A t \in DOMAIN tasks : tasks[t].status # from) /\ UNCHANGED tasks

\* Its transaction.
LEMMA DeleteWrites ==
  ASSUME TypeOK, NEW r \in Requests, Kept(req[r]), DeleteStatusCommit(r)
  PROVE  \E i \in DOMAIN rows, from \in Names : Deletes(i, from) /\ from = req[r].from
<1>0. TypeOK /\ Kept(req[r]) /\ req[r] \in Request
  BY DEF TypeOK
<1>1. PICK q \in DeleteReq : q = req[r] /\ q.step = "commit"
  BY <1>0, KindOf DEF DeleteStatusCommit, At
<1>2. PICK i \in DOMAIN rows, from \in Names : i = q.id /\ from = q.from
  BY <1>0, <1>1 DEF Kept, DeleteReq
<1>3. from = rows[i].name /\ ~rows[i].initial /\ \A t \in DOMAIN tasks : tasks[t].status # from
  BY <1>0, <1>1, <1>2 DEF Kept, DeleteReq
<1>4. rows' = [j \in DOMAIN rows \ {i} |-> rows[j]] /\ edges' = {e \in edges : from \notin {e[1], e[2]}}
  BY <1>1, <1>2 DEF DeleteStatusCommit
<1>5. Deletes(i, from)
  BY <1>3, <1>4 DEF Deletes, DeleteStatusCommit
<1> QED
  BY <1>1, <1>2, <1>5

\* deleteColumn finds its column as empty as it was.
LEMMA ColumnWrites ==
  ASSUME TypeOK, NEW r \in Requests, Kept(req[r]), DeleteColumnCommit(r)
  PROVE  UNCHANGED rows
<1>0. TypeOK /\ Kept(req[r]) /\ req[r] \in Request
  BY DEF TypeOK
<1>1. PICK q \in ColumnReq : q = req[r]
  BY <1>0, KindOf DEF DeleteColumnCommit, At
<1>2. \A i \in DOMAIN rows : rows[i].column # q.column
  BY <1>0, <1>1 DEF Kept, ColumnReq
<1>3. rows' = [i \in {j \in DOMAIN rows : rows[j].column # q.column} |-> rows[i]]
  BY <1>1 DEF DeleteColumnCommit
<1>4. {j \in DOMAIN rows : rows[j].column # q.column} = DOMAIN rows
  BY <1>2
<1>5. rows = [i \in DOMAIN rows |-> rows[i]]
  BY <1>0 DEF TypeOK
<1> QED
  BY <1>3, <1>4, <1>5

\* The rows of the preset: its names, one each, with the preset's flags.
LEMMA SeedRows ==
  ASSUME NEW seed, NEW id, NEW col, SeedOK(seed, id, col)
  PROVE  /\ {seed[i].name : i \in DOMAIN seed} = PresetNames
         /\ \A i, j \in DOMAIN seed : seed[i].name = seed[j].name => i = j
         /\ \E i \in DOMAIN seed : \A j \in DOMAIN seed : seed[j].initial <=> j = i
         /\ \A i \in DOMAIN seed : seed[i].done <=> seed[i].name \in PresetDone
<1>1. DOMAIN seed = {id[n] : n \in PresetNames}
  BY DEF SeedOK
<1>2. /\ \A n \in PresetNames : seed[id[n]].name = n
      /\ \A n \in PresetNames : seed[id[n]].initial <=> n = PresetFirst
      /\ \A n \in PresetNames : seed[id[n]].done <=> n \in PresetDone
  BY DEF SeedOK
<1>3. \A i \in DOMAIN seed : \E n \in PresetNames : i = id[n] /\ seed[i].name = n
  BY <1>1, <1>2
<1>4. {seed[i].name : i \in DOMAIN seed} = PresetNames
  BY <1>1, <1>2, <1>3
<1>5. \A i, j \in DOMAIN seed : seed[i].name = seed[j].name => i = j
  BY <1>3
<1>6. \A i \in DOMAIN seed : seed[i].done <=> seed[i].name \in PresetDone
  BY <1>2, <1>3
<1>7. \A j \in DOMAIN seed : seed[j].initial <=> j = id[PresetFirst]
  <2>1. ASSUME NEW j \in DOMAIN seed PROVE seed[j].initial <=> j = id[PresetFirst]
    <3>1. PICK n \in PresetNames : j = id[n] /\ seed[j].name = n
      BY <1>3
    <3>2. seed[j].initial <=> n = PresetFirst
      BY <1>2, <3>1
    <3>3. seed[id[PresetFirst]].name = PresetFirst
      BY <1>2, PresetAssumption
    <3> QED
      BY <3>1, <3>2, <3>3
  <2> QED
    BY <2>1
<1>8. id[PresetFirst] \in DOMAIN seed
  BY <1>1, PresetAssumption
<1> QED
  BY <1>4, <1>5, <1>6, <1>7, <1>8

\* A new project serves its first request from where it starts.
LEMMA NamesStart == Init => NamesInv
<1> SUFFICES ASSUME Init PROVE NamesInv
  OBVIOUS
<1>1. PICK id, col : SeedOK(rows, id, col)
  BY InitSeeds
<1>2. UniqueNames
  BY <1>1, SeedRows DEF UniqueNames
<1>3. \A r \in Requests : Kept(req[r])
  BY IdleKept DEF Init
<1> QED
  BY <1>2, <1>3, TypesStart DEF NamesInv

\* The column of a row that createStatus or updateStatus writes.
LEMMA RowColumns ==
  ASSUME TypeOK, NEW r \in Requests, CreateStatusCommit(r) \/ UpdateStatusCommit(r)
  PROVE  \A j \in DOMAIN rows' : \/ rows'[j].column = req[r].column
                                 \/ j \in DOMAIN rows /\ rows'[j].column = rows[j].column
<1>1. CASE UNCHANGED rows
  BY <1>1
<1>2. CASE CreateStatusCommit(r) /\ ~UNCHANGED rows
  <2> DEFINE new == [name |-> req[r].in.name, initial |-> req[r].in.initial, done |-> req[r].in.done,
                     column |-> req[r].column]
  <2>1. PICK i : rows' = [j \in DOMAIN rows \cup {i} |->
                            IF j = i THEN new ELSE Demoted(req[r].demote)[j]]
    BY <1>2 DEF CreateStatusCommit
  <2>2. new.column = req[r].column
    OBVIOUS
  <2> HIDE DEF new
  <2> QED
    BY <2>1, <2>2, DemotedTyped
<1>3. CASE UpdateStatusCommit(r) /\ ~UNCHANGED rows
  <2> DEFINE D == Demoted(req[r].demote)
             to == IF req[r].in.name = None THEN req[r].from ELSE req[r].in.name
  <2>1. rows' = [D EXCEPT ![req[r].id] =
                   [name |-> IF req[r].in.name = None THEN @.name ELSE to,
                    initial |-> IF req[r].in.initial = None THEN @.initial ELSE req[r].in.initial,
                    done |-> IF req[r].in.done = None THEN @.done ELSE req[r].in.done,
                    column |-> IF req[r].in.column THEN req[r].column ELSE @.column]]
    BY <1>3 DEF UpdateStatusCommit
  <2>2. \A j \in DOMAIN rows : D[j].column = rows[j].column
    BY DemotedTyped
  <2>3. DOMAIN D = DOMAIN rows /\ D = [j \in DOMAIN rows |-> D[j]]
    BY DemotedTyped
  <2> HIDE DEF D, to
  <2>4. DOMAIN rows' = DOMAIN rows
    BY <2>1, <2>3
  <2>5. \A j \in DOMAIN rows : j # req[r].id => rows'[j] = D[j]
    BY <2>1, <2>3
  <2>6. req[r].id \in DOMAIN rows =>
          rows'[req[r].id].column = IF req[r].in.column THEN req[r].column ELSE D[req[r].id].column
    BY <2>1, <2>3
  <2> QED
    BY <2>2, <2>4, <2>5, <2>6
<1> QED
  BY <1>1, <1>2, <1>3

\* What a step of a request does to the status of a task, when it is not a
\* rename.
LEMMA TaskSteps ==
  ASSUME TypeOK, NEW r \in Requests, Acts(r), ~UpdateStatusCommit(r), NEW t \in DOMAIN tasks'
  PROVE  \/ /\ t \in DOMAIN tasks
            /\ tasks'[t].status = tasks[t].status /\ tasks'[t].completed = tasks[t].completed
         \/ /\ req[r].op = "create" /\ UNCHANGED rows /\ t \notin DOMAIN tasks
            /\ tasks'[t].status = req[r].status /\ tasks'[t].completed = FALSE
         \/ /\ ChangeStatusWrite(r)
            /\ req[r].op = "changeStatus" /\ req[r].step = "write" /\ UNCHANGED rows
            /\ t = req[r].task /\ t \in DOMAIN tasks /\ tasks'[t].status = req[r].to
            /\ tasks'[t].completed = IF req[r].stamp = None THEN tasks[t].completed ELSE req[r].stamp
<1>1. CASE UNCHANGED tasks
  BY <1>1
<1>2. CASE CreateTaskWrite(r)
  <2>1. PICK row : row = [status |-> req[r].status, parent |-> req[r].parent, completed |-> FALSE]
    OBVIOUS
  <2>2. row.status = req[r].status /\ row.completed = FALSE
    BY <2>1
  <2>3. UNCHANGED tasks \/ \E x \in Tasks \ DOMAIN tasks :
           tasks' = [u \in DOMAIN tasks \cup {x} |->
                       IF u = x THEN [status |-> req[r].status, parent |-> req[r].parent,
                                      completed |-> FALSE]
                                ELSE tasks[u]]
    BY <1>2 DEF CreateTaskWrite
  <2>4. UNCHANGED tasks \/ \E x \in Tasks \ DOMAIN tasks :
           tasks' = [u \in DOMAIN tasks \cup {x} |-> IF u = x THEN row ELSE tasks[u]]
    BY <2>1, <2>3
  <2>5. req[r].op = "create" /\ UNCHANGED rows
    BY <1>2 DEF CreateTaskWrite, At
  <2>6. CASE UNCHANGED tasks
    BY <2>6
  <2>7. ASSUME NEW x \in Tasks \ DOMAIN tasks,
               tasks' = [u \in DOMAIN tasks \cup {x} |-> IF u = x THEN row ELSE tasks[u]]
        PROVE  \/ t \in DOMAIN tasks /\ tasks'[t] = tasks[t]
               \/ tasks'[t] = row /\ t \notin DOMAIN tasks
    BY <2>7
  <2> QED
    BY <2>2, <2>4, <2>5, <2>6, <2>7
<1>3. CASE RemoveTask(r)
  <2>1. PICK x \in DOMAIN tasks :
          tasks' = [u \in DOMAIN tasks \ {x} |->
                      [status |-> tasks[u].status, completed |-> tasks[u].completed,
                       parent |-> IF tasks[u].parent = x THEN None ELSE tasks[u].parent]]
    BY <1>3 DEF RemoveTask
  <2> QED
    BY <2>1
<1>4. CASE ChangeStatusWrite(r)
  <2>1. PICK done : done = IF req[r].stamp = None THEN tasks[req[r].task].completed ELSE req[r].stamp
    OBVIOUS
  <2>2. PICK row : row = [status |-> req[r].to, parent |-> tasks[req[r].task].parent, completed |-> done]
    OBVIOUS
  <2>3. row.status = req[r].to /\ row.completed = done
    BY <2>2
  <2>4. UNCHANGED tasks \/ (req[r].task \in DOMAIN tasks /\ tasks' = [tasks EXCEPT ![req[r].task] = row])
    BY <1>4, <2>1, <2>2 DEF ChangeStatusWrite
  <2>5. req[r].op = "changeStatus" /\ req[r].step = "write" /\ UNCHANGED rows
    BY <1>4 DEF ChangeStatusWrite, At
  <2>6. CASE t = req[r].task
    BY <1>4, <2>1, <2>3, <2>4, <2>5, <2>6 DEF TypeOK
  <2>7. CASE t # req[r].task
    BY <2>4, <2>7 DEF TypeOK
  <2> QED
    BY <2>6, <2>7
<1>5. CASE \/ CreateColumn(r) \/ ResetTransitions(r) \/ ReplaceTransitionsCommit(r)
           \/ CreateStatusCommit(r) \/ DeleteStatusCommit(r) \/ ResetCommit(r) \/ DeleteColumnCommit(r)
  BY <1>1, <1>5 DEF CreateColumn, ResetTransitions, ReplaceTransitionsCommit, CreateStatusCommit,
                    DeleteStatusCommit, ResetCommit, DeleteColumnCommit
<1>6. CASE Reads(r)
  BY <1>1, <1>6, ReadsOnly
<1> QED
  BY <1>2, <1>3, <1>4, <1>5, <1>6 DEF Acts, Reads

\* The ways in which a step of a request changes the status table.
LEMMA RowSteps ==
  ASSUME NamesInv, NEW r \in Requests, Acts(r)
  PROVE  \/ UNCHANGED rows /\ ~UpdateStatusCommit(r)
         \/ UNCHANGED <<rows, edges, tasks>>
         \/ /\ CreateStatusCommit(r)
            /\ \E in \in Creations, i \in StatusIds : \E S :
                  Creates(in, S, i) /\ in = req[r].in /\ S = req[r].demote
         \/ /\ UpdateStatusCommit(r)
            /\ \E in \in Patches, i \in DOMAIN rows, from, to \in Names : \E S :
                  /\ Updates(in, S, i, from, to) /\ in = req[r].in /\ from = req[r].from
                  /\ S = req[r].demote /\ i = req[r].id
         \/ /\ DeleteStatusCommit(r)
            /\ \E i \in DOMAIN rows, from \in Names : Deletes(i, from) /\ from = req[r].from
         \/ /\ req[r].op = "resetToDefaults" /\ ResetCommit(r)
            /\ \E id, col : SeedOK(rows', id, col)
            /\ UNCHANGED tasks /\ \A t \in DOMAIN tasks : tasks[t].status \in PresetNames
<1>0. TypeOK /\ UniqueNames /\ Kept(req[r])
  BY DEF NamesInv
<1>1. CASE CreateStatusCommit(r)
  BY <1>0, <1>1, CreateWrites DEF CreateStatusCommit
<1>2. CASE UpdateStatusCommit(r)
  BY <1>0, <1>2, UpdateWrites
<1>3. CASE DeleteStatusCommit(r)
  BY <1>0, <1>3, DeleteWrites
<1>4. CASE DeleteColumnCommit(r)
  <2>1. UNCHANGED <<rows, edges, tasks>>
    BY <1>0, <1>4, ColumnWrites DEF DeleteColumnCommit
  <2> QED
    BY <2>1
<1>5. CASE ResetCommit(r)
  <2>1. req[r].op = "resetToDefaults" /\ UNCHANGED tasks
    BY <1>5 DEF ResetCommit, At
  <2>2. \A t \in DOMAIN tasks : tasks[t].status \in PresetNames
    BY <1>0, <2>1 DEF Kept
  <2> QED
    BY <1>5, <2>1, <2>2, ResetSeeds
<1>6. CASE Reads(r)
  BY <1>6, ReadsOnly
<1>7. CASE \/ CreateTaskWrite(r) \/ RemoveTask(r) \/ ChangeStatusWrite(r) \/ CreateColumn(r)
           \/ ReplaceTransitionsCommit(r) \/ ResetTransitions(r)
  <2>1. UNCHANGED rows
    BY <1>7 DEF CreateTaskWrite, RemoveTask, ChangeStatusWrite, CreateColumn, ReplaceTransitionsCommit,
                ResetTransitions
  <2> QED
    BY <1>2, <2>1
<1> QED
  BY <1>1, <1>2, <1>3, <1>4, <1>5, <1>6, <1>7 DEF Acts, Reads


\* The names after a rename.
LEMMA RenamedNames ==
  ASSUME NEW in, NEW i \in DOMAIN rows, NEW from, NEW to, NEW S, Updates(in, S, i, from, to)
  PROVE  \A n \in StatusNames : Renamed(n, from, to) \in StatusNames'
<1>1. ASSUME NEW j \in DOMAIN rows PROVE Renamed(rows[j].name, from, to) \in StatusNames'
  <2>1. j \in DOMAIN rows' /\ rows'[j].name = IF j = i THEN to ELSE rows[j].name
    BY DEF Updates
  <2>2. rows[j].name = from => to \in StatusNames'
    BY DEF Updates, StatusNames
  <2>3. rows[j].name # from => rows'[j].name = rows[j].name
    BY <2>1 DEF Updates
  <2> QED
    BY <2>1, <2>2, <2>3 DEF Renamed, StatusNames
<1> QED
  BY <1>1 DEF StatusNames

\* The names after deleteStatus.
LEMMA DeletedNames ==
  ASSUME NEW i, NEW from, Deletes(i, from)
  PROVE  \A n \in StatusNames : n # from => n \in StatusNames'
  BY DEF Deletes, StatusNames

\* The names of the table are names.
LEMMA StatusNamesTyped == TypeOK => StatusNames \subseteq Names
  BY DEF TypeOK, StatusNames, StatusRow

\* Names stay unique whatever is written.
LEMMA NamesStayUnique ==
  ASSUME NamesInv, NEW r \in Requests, Acts(r)
  PROVE  UniqueNames'
<1>0. UniqueNames
  BY DEF NamesInv
<1>1. CASE UNCHANGED rows
  BY <1>0, <1>1 DEF UniqueNames
<1>2. ASSUME NEW in \in Creations, NEW i \in StatusIds, NEW S, Creates(in, S, i) PROVE UniqueNames'
  BY <1>0, <1>2 DEF Creates, UniqueNames, StatusNames
<1>3. ASSUME NEW in \in Patches, NEW i \in DOMAIN rows, NEW from \in Names, NEW to \in Names, NEW S,
             Updates(in, S, i, from, to)
      PROVE  UniqueNames'
  <2>1. /\ DOMAIN rows' = DOMAIN rows /\ rows'[i].name = to
        /\ \A j \in DOMAIN rows : j # i => rows[j].name # to
        /\ \A j \in DOMAIN rows : j # i => rows'[j].name = rows[j].name
    BY <1>3 DEF Updates
  <2> QED
    BY <1>0, <2>1 DEF UniqueNames
<1>4. ASSUME NEW i \in DOMAIN rows, NEW from \in Names, Deletes(i, from) PROVE UniqueNames'
  BY <1>0, <1>4 DEF Deletes, UniqueNames
<1>5. ASSUME NEW id, NEW col, SeedOK(rows', id, col) PROVE UniqueNames'
  BY <1>5, SeedRows DEF UniqueNames
<1> QED
  BY <1>1, <1>2, <1>3, <1>4, <1>5, RowSteps

\* A name in the table that a request relies on outlives the others' steps.
LEMMA UsedNamesStay ==
  ASSUME NamesInv, NamesApart, NEW r \in Requests, Acts(r), NEW q \in Requests, q # r,
         NEW n \in StatusNames, Using(req[q], n)
  PROVE  n \in StatusNames'
<1>0. TypeOK /\ n \in Names
  BY StatusNamesTyped DEF NamesInv
<1>1. ~Losing(req[r], n)
  BY <1>0 DEF NamesApart
<1>2. CASE UNCHANGED rows
  BY <1>2 DEF StatusNames
<1>3. ASSUME NEW in \in Creations, NEW i \in StatusIds, NEW S, Creates(in, S, i)
      PROVE  n \in StatusNames'
  BY <1>3 DEF Creates, StatusNames
<1>4. ASSUME NEW in \in Patches, NEW i \in DOMAIN rows, NEW from \in Names, NEW to \in Names, NEW S,
             Updates(in, S, i, from, to), UpdateStatusCommit(r), in = req[r].in, from = req[r].from
      PROVE  n \in StatusNames'
  <2>1. req[r].op = "updateStatus"
    BY <1>4 DEF UpdateStatusCommit, At
  <2>2. in.name = None => from = to
    BY <1>4 DEF Updates
  <2>3. from = to \/ n # from
    BY <1>1, <1>4, <2>1, <2>2 DEF Losing
  <2>4. Renamed(n, from, to) = n
    BY <2>3 DEF Renamed
  <2> QED
    BY <1>4, <2>4, RenamedNames
<1>5. ASSUME NEW i \in DOMAIN rows, NEW from \in Names, Deletes(i, from), DeleteStatusCommit(r),
             from = req[r].from
      PROVE  n \in StatusNames'
  <2>1. req[r].op = "deleteStatus"
    BY <1>5 DEF DeleteStatusCommit, At
  <2>2. n # from
    BY <1>1, <1>5, <2>1 DEF Losing
  <2> QED
    BY <1>5, <2>2, DeletedNames
<1>6. CASE req[r].op = "resetToDefaults"
  <2>1. req[q] = Idle
    BY <1>6 DEF NamesApart
  <2> QED
    BY <2>1 DEF Using, Idle
<1> QED
  BY <1>2, <1>3, <1>4, <1>5, <1>6, RowSteps

\* A row that a request is to rename or delete is another's only if that one
\* neither renames nor deletes it.
LEMMA RowsStay ==
  ASSUME NamesInv, NamesApart, NEW r \in Requests, Acts(r), NEW q \in Requests, q # r,
         req[q].op \in {"updateStatus", "deleteStatus"}
  PROVE  /\ req[q].id \in DOMAIN rows' /\ req[q].from = rows'[req[q].id].name
         /\ req[q].op = "deleteStatus" => ~rows'[req[q].id].initial
<1>0. TypeOK /\ UniqueNames /\ Kept(req[q])
  BY DEF NamesInv
<1> DEFINE k == req[q].id
           name == req[q].from
           drop == req[q].op = "deleteStatus"
<1>1. /\ k \in DOMAIN rows /\ name = rows[k].name /\ (drop => ~rows[k].initial)
      /\ name \in Names /\ Using(req[q], name) /\ (drop => Losing(req[q], name))
  <2>1. k \in DOMAIN rows /\ name = rows[k].name /\ (drop => ~rows[k].initial)
    BY <1>0 DEF Kept
  <2>2. name \in StatusNames
    BY <2>1 DEF StatusNames
  <2> QED
    BY <1>0, <2>1, <2>2, StatusNamesTyped DEF Using, Losing
<1>2. ~Losing(req[r], name) /\ (drop => ~Using(req[r], name))
  BY <1>1 DEF NamesApart
<1>i. req[q] # Idle
  BY DEF Idle
<1> HIDE DEF k, name, drop
<1> SUFFICES k \in DOMAIN rows' /\ name = rows'[k].name /\ (drop => ~rows'[k].initial)
  BY DEF k, name, drop
<1>3. CASE UNCHANGED rows
  BY <1>1, <1>3
<1>4. ASSUME NEW in \in Creations, NEW i \in StatusIds, NEW S, Creates(in, S, i)
      PROVE  k \in DOMAIN rows' /\ name = rows'[k].name /\ (drop => ~rows'[k].initial)
  <2>1. /\ DOMAIN rows \subseteq DOMAIN rows' /\ rows'[k].name = rows[k].name
        /\ rows'[k].initial => rows[k].initial
    BY <1>1, <1>4 DEF Creates
  <2> QED
    BY <1>1, <2>1
<1>5. ASSUME NEW in \in Patches, NEW i \in DOMAIN rows, NEW from \in Names, NEW to \in Names, NEW S,
             Updates(in, S, i, from, to), UpdateStatusCommit(r), in = req[r].in, from = req[r].from
      PROVE  k \in DOMAIN rows' /\ name = rows'[k].name /\ (drop => ~rows'[k].initial)
  <2>1. req[r].op = "updateStatus"
    BY <1>5 DEF UpdateStatusCommit, At
  <2>2. in.name = None => from = to
    BY <1>5 DEF Updates
  <2>3. CASE k = i
    <3>1. name = from
      BY <1>1, <1>5, <2>3 DEF Updates
    <3>2. Using(req[r], from)
      BY <1>5, <2>1 DEF Using
    <3>3. in.name = None
      BY <1>2, <1>5, <2>1, <3>1 DEF Losing
    <3> QED
      BY <1>1, <1>2, <1>5, <2>2, <2>3, <3>1, <3>2, <3>3 DEF Updates
  <2>4. CASE k # i
    <3>1. k \in DOMAIN rows' /\ rows'[k].name = rows[k].name /\ (rows'[k].initial => rows[k].initial)
      BY <1>1, <1>5, <2>4 DEF Updates
    <3> QED
      BY <1>1, <3>1
  <2> QED
    BY <2>3, <2>4
<1>6. ASSUME NEW i \in DOMAIN rows, NEW from \in Names, Deletes(i, from), DeleteStatusCommit(r),
             from = req[r].from
      PROVE  k \in DOMAIN rows' /\ name = rows'[k].name /\ (drop => ~rows'[k].initial)
  <2>1. req[r].op = "deleteStatus"
    BY <1>6 DEF DeleteStatusCommit, At
  <2>2. name # from
    BY <1>2, <1>6, <2>1 DEF Losing
  <2>3. k \in DOMAIN rows' /\ rows'[k] = rows[k]
    BY <1>1, <1>6, <2>2 DEF Deletes
  <2> QED
    BY <1>1, <2>3
<1>7. CASE req[r].op = "resetToDefaults"
  BY <1>7, <1>i DEF NamesApart
<1> QED
  BY <1>3, <1>4, <1>5, <1>6, <1>7, RowSteps

\* A status that a request has found empty stays empty.
LEMMA StaysEmpty ==
  ASSUME NamesInv, NamesApart, NEW r \in Requests, Acts(r), NEW q \in Requests, q # r,
         req[q].op = "deleteStatus", \A t \in DOMAIN tasks : tasks[t].status # req[q].from
  PROVE  \A t \in DOMAIN tasks' : tasks'[t].status # req[q].from
<1>0. TypeOK /\ UniqueNames /\ Kept(req[q])
  BY DEF NamesInv
<1>k. PICK k \in DOMAIN rows : k = req[q].id /\ rows[k].name = req[q].from
  BY <1>0 DEF Kept
<1>1. PICK n : n = req[q].from /\ n = rows[k].name
  BY <1>k
<1>2. n \in Names /\ n \in StatusNames /\ Losing(req[q], n)
  BY <1>0, <1>1, StatusNamesTyped DEF StatusNames, Losing
<1>3. ~Using(req[r], n)
  BY <1>2 DEF NamesApart
<1> SUFFICES ASSUME NEW t \in DOMAIN tasks' PROVE tasks'[t].status # n
  BY <1>1
<1>4. CASE ~UpdateStatusCommit(r)
  BY <1>0, <1>1, <1>3, <1>4, TaskSteps DEF Using
<1>5. CASE UpdateStatusCommit(r) /\ UNCHANGED tasks
  BY <1>1, <1>5
<1>6. CASE UpdateStatusCommit(r) /\ ~UNCHANGED tasks
  <2>1. PICK in \in Patches, i \in DOMAIN rows, from \in Names, to \in Names :
           \E S : Updates(in, S, i, from, to) /\ from = req[r].from
    BY <1>0, <1>6, UpdateWrites DEF NamesInv
  <2>2. /\ from = rows[i].name /\ \A j \in DOMAIN rows : j # i => rows[j].name # to
        /\ DOMAIN tasks' = DOMAIN tasks /\ tasks'[t].status = Renamed(tasks[t].status, from, to)
    BY <2>1 DEF Updates
  <2>3. Using(req[r], from)
    BY <1>6, <2>1 DEF UpdateStatusCommit, At, Using
  <2>4. to # n
    BY <1>1, <1>3, <2>2, <2>3
  <2> QED
    BY <1>1, <2>2, <2>4 DEF Renamed
<1> QED
  BY <1>4, <1>5, <1>6

\* A column that a request has found empty stays empty.
LEMMA ColumnStaysEmpty ==
  ASSUME NamesInv, NamesApart, NEW r \in Requests, Acts(r), NEW q \in Requests, q # r,
         req[q].op = "deleteColumn", \A i \in DOMAIN rows : rows[i].column # req[q].column
  PROVE  \A i \in DOMAIN rows' : rows'[i].column # req[q].column
<1>0. TypeOK
  BY DEF NamesInv
<1>1. CASE UNCHANGED rows
  BY <1>1
<1>2. CASE CreateStatusCommit(r) \/ UpdateStatusCommit(r)
  <2>1. req[r].op \in {"createStatus", "updateStatus"}
    BY <1>2 DEF CreateStatusCommit, UpdateStatusCommit, At
  <2>2. req[r].column # req[q].column
    BY <2>1 DEF NamesApart
  <2> QED
    BY <1>0, <1>2, <2>2, RowColumns
<1>3. ASSUME NEW i \in DOMAIN rows, NEW from \in Names, Deletes(i, from)
      PROVE  \A j \in DOMAIN rows' : rows'[j].column # req[q].column
  BY <1>3 DEF Deletes
<1>4. CASE req[r].op = "resetToDefaults"
  BY <1>4 DEF NamesApart, Idle
<1> QED
  BY <1>1, <1>2, <1>3, <1>4, RowSteps

\* The tasks that the reset has found in the preset's statuses stay there.
LEMMA StayInPreset ==
  ASSUME NamesInv, NamesApart, NEW r \in Requests, Acts(r), NEW q \in Requests, q # r,
         req[q].op = "resetToDefaults", \A t \in DOMAIN tasks : tasks[t].status \in PresetNames
  PROVE  \A t \in DOMAIN tasks' : tasks'[t].status \in PresetNames
<1>1. TypeOK /\ req[r] = Idle
  BY DEF NamesInv, NamesApart
<1>2. ~UpdateStatusCommit(r) /\ req[r].op \notin {"create", "changeStatus"}
  BY <1>1 DEF UpdateStatusCommit, At, Idle
<1> QED
  BY <1>1, <1>2, TaskSteps

\* What a request has read survives the others' steps.
LEMMA OthersKept ==
  ASSUME NamesInv, NamesApart, NEW r \in Requests, Acts(r), NEW q \in Requests, q # r
  PROVE  Kept(req[q])'
<1>0. TypeOK /\ Kept(req[q]) /\ req'[q] = req[q]
  BY OthersWait DEF NamesInv
<1>1. PICK p : p = req[q] /\ p = req'[q]
  BY <1>0
<1>2. Kept(p)
  BY <1>0, <1>1
<1>3. p.op = "updateStatus" => p.id \in DOMAIN rows' /\ p.from = rows'[p.id].name
  BY <1>1, RowsStay
<1>4. p.op = "deleteStatus" =>
        /\ p.id \in DOMAIN rows' /\ p.from = rows'[p.id].name /\ ~rows'[p.id].initial
        /\ p.step = "commit" => \A t \in DOMAIN tasks' : tasks'[t].status # p.from
  <2>1. SUFFICES ASSUME p.op = "deleteStatus"
                 PROVE  /\ p.id \in DOMAIN rows' /\ p.from = rows'[p.id].name /\ ~rows'[p.id].initial
                        /\ p.step = "commit" => \A t \in DOMAIN tasks' : tasks'[t].status # p.from
    OBVIOUS
  <2>2. p.id \in DOMAIN rows' /\ p.from = rows'[p.id].name /\ ~rows'[p.id].initial
    BY <1>1, <2>1, RowsStay
  <2>3. ASSUME p.step = "commit" PROVE \A t \in DOMAIN tasks' : tasks'[t].status # p.from
    <3>1. \A t \in DOMAIN tasks : tasks[t].status # p.from
      BY <1>2, <2>1, <2>3 DEF Kept
    <3> QED
      BY <1>1, <2>1, <3>1, StaysEmpty
  <2> QED
    BY <2>2, <2>3
<1>5. p.op = "deleteColumn" => \A i \in DOMAIN rows' : rows'[i].column # p.column
  BY <1>1, <1>2, ColumnStaysEmpty DEF Kept
<1>6. p.op = "resetToDefaults" => \A t \in DOMAIN tasks' : tasks'[t].status \in PresetNames
  BY <1>1, <1>2, StayInPreset DEF Kept
<1>7. p.op = "replaceTransitions" =>
        \A e \in p.edges : e[1] \in StatusNames' /\ e[2] \in StatusNames'
  <2> SUFFICES ASSUME p.op = "replaceTransitions", NEW e \in p.edges
               PROVE  e[1] \in StatusNames' /\ e[2] \in StatusNames'
    OBVIOUS
  <2>1. e[1] \in StatusNames /\ e[2] \in StatusNames
    BY <1>2 DEF Kept
  <2>2. Using(req[q], e[1]) /\ Using(req[q], e[2])
    BY <1>1 DEF Using
  <2> QED
    BY <2>1, <2>2, UsedNamesStay
<1>8. Kept(p)'
  BY <1>2, <1>3, <1>4, <1>5, <1>6, <1>7 DEF Kept
<1> QED
  BY <1>1, <1>8

\* With requests that are not about the same names, what one has read of the
\* status table is true when it is used.
LEMMA NamesStep == NamesApart /\ NamesInv /\ [Next]_vars => NamesInv'
<1> SUFFICES ASSUME NamesApart, NamesInv, [Next]_vars PROVE NamesInv'
  OBVIOUS
<1>0. TypeOK /\ TypeOK'
  BY TypesStep DEF NamesInv
<1>1. CASE UNCHANGED vars
  <2>1. ASSUME NEW r \in Requests PROVE Kept(req[r])'
    <3>1. PICK q : q = req[r] /\ q = req'[r]
      BY <1>1 DEF vars
    <3>2. Kept(q)'
      BY <1>1, <3>1, KeptSame DEF NamesInv, vars
    <3> QED
      BY <3>1, <3>2
  <2> QED
    BY <1>0, <1>1, <2>1 DEF NamesInv, UniqueNames, vars
<1>2. CASE Next
  <2>1. PICK r \in Requests : Acts(r)
    BY <1>2, NextActs
  <2>2. CASE Reads(r)
    BY <1>0, <2>2, NamesReads
  <2>3. CASE ~Reads(r)
    <3>1. req'[r] = Idle
      BY <1>0, <2>1, <2>3, ActsEnd
    <3>2. Kept(req[r])'
      BY <3>1, IdleKept
    <3>3. \A q \in Requests : Kept(req[q])'
      BY <2>1, <3>2, OthersKept
    <3> QED
      BY <1>0, <2>1, <3>3, NamesStayUnique DEF NamesInv
  <2> QED
    BY <2>2, <2>3
<1> QED
  BY <1>1, <1>2

\* The image of a finite set has no more elements than the set.
LEMMA NoMoreImages ==
  ASSUME NEW S, IsFiniteSet(S), NEW f, DOMAIN f = S, f = [x \in S |-> f[x]]
  PROVE  LET T == {f[x] : x \in S} IN IsFiniteSet(T) /\ Cardinality(T) <= Cardinality(S)
<1> DEFINE T == {f[x] : x \in S}
<1>1. f \in [S -> T]
  OBVIOUS
<1>2. f \in Surjection(S, T)
  BY <1>1 DEF Surjection
<1> HIDE DEF T
<1>3. IsFiniteSet(T) /\ Cardinality(T) <= Cardinality(S)
  BY <1>2, FS_Surjection
<1> QED
  BY <1>3 DEF T

\* The preset's graph and those clients send are finite.
FiniteGraphs == IsFiniteSet(PresetEdges) /\ \A E \in EdgeSets : IsFiniteSet(E)

\* The graph as updateStatus leaves it: renamed, edge by edge.
RenamedEdges(E, from, to) == {<<Renamed(e[1], from, to), Renamed(e[2], from, to)>> : e \in E}

\* Renaming merges transitions or keeps them, it makes none.
LEMMA RenamedNoMore ==
  ASSUME NEW E, IsFiniteSet(E), NEW from, NEW to
  PROVE  /\ IsFiniteSet(RenamedEdges(E, from, to))
         /\ Cardinality(RenamedEdges(E, from, to)) <= Cardinality(E)
<1>1. PICK f : f = [e \in E |-> <<Renamed(e[1], from, to), Renamed(e[2], from, to)>>]
  OBVIOUS
<1>2. DOMAIN f = E /\ f = [e \in E |-> f[e]] /\ RenamedEdges(E, from, to) = {f[e] : e \in E}
  BY <1>1 DEF RenamedEdges
<1> QED
  BY <1>2, NoMoreImages

\* Where the graph can come from.
LEMMA GraphSteps ==
  ASSUME NamesInv, [Next]_vars
  PROVE  \/ StatusNames \subseteq StatusNames' /\ edges' = edges
         \/ edges' = PresetEdges
         \/ \E i \in DOMAIN rows, from \in Names : Deletes(i, from)
         \/ \E in \in Patches, i \in DOMAIN rows, from, to \in Names : \E S : Updates(in, S, i, from, to)
         \/ \E E \in EdgeSets : /\ edges' = E /\ UNCHANGED rows
                                /\ \A e \in E : e[1] \in StatusNames /\ e[2] \in StatusNames
<1>0. TypeOK
  BY DEF NamesInv
<1>1. CASE UNCHANGED <<rows, edges>>
  <2>1. StatusNames' = StatusNames
    BY <1>1 DEF StatusNames
  <2> QED
    BY <1>1, <2>1
<1>2. CASE UNCHANGED vars
  BY <1>1, <1>2 DEF vars
<1>3. CASE Next
  <2>1. PICK r \in Requests : Acts(r)
    BY <1>3, NextActs
  <2>2. CASE ReplaceTransitionsCommit(r)
    <3>1. req[r] \in Request /\ Kept(req[r])
      BY <1>0 DEF NamesInv, TypeOK
    <3>2. PICK q \in EdgesReq : q = req[r]
      BY <2>2, <3>1, KindOf DEF ReplaceTransitionsCommit, At
    <3>3. q.edges \in EdgeSets /\ \A e \in q.edges : e[1] \in StatusNames /\ e[2] \in StatusNames
      BY <3>1, <3>2 DEF Kept, EdgesReq
    <3> QED
      BY <2>2, <3>2, <3>3 DEF ReplaceTransitionsCommit
  <2>3. CASE ResetTransitions(r) \/ ResetCommit(r)
    BY <2>3 DEF ResetTransitions, ResetCommit
  <2>4. CASE Reads(r)
    BY <1>1, <2>4, ReadsOnly
  <2>5. CASE CreateTaskWrite(r) \/ RemoveTask(r) \/ ChangeStatusWrite(r) \/ CreateColumn(r)
    BY <1>1, <2>5 DEF CreateTaskWrite, RemoveTask, ChangeStatusWrite, CreateColumn
  <2>6. CASE DeleteColumnCommit(r)
    BY <1>0, <1>1, <2>6, ColumnWrites DEF DeleteColumnCommit, NamesInv
  <2>7. CASE CreateStatusCommit(r)
    <3>1. UNCHANGED rows \/ \E in \in Creations, i \in StatusIds : \E S : Creates(in, S, i)
      BY <1>0, <2>7, CreateWrites DEF NamesInv
    <3>2. UNCHANGED edges
      BY <2>7 DEF CreateStatusCommit
    <3>3. (\E in \in Creations, i \in StatusIds : \E S : Creates(in, S, i)) => StatusNames \subseteq StatusNames'
      BY DEF Creates, StatusNames
    <3> QED
      BY <1>1, <3>1, <3>2, <3>3
  <2>8. CASE UpdateStatusCommit(r)
    BY <1>0, <1>1, <2>8, UpdateWrites DEF NamesInv
  <2>9. CASE DeleteStatusCommit(r)
    BY <1>0, <2>9, DeleteWrites DEF NamesInv
  <2> QED
    BY <2>1, <2>2, <2>3, <2>4, <2>5, <2>6, <2>7, <2>8, <2>9 DEF Acts, Reads
<1> QED
  BY <1>2, <1>3

\* Among requests that are not about the same names, transitions of a status
\* that is gone come with the preset's graph or not at all.
THEOREM GhostsOnlyFromReset == FiniteGraphs => (Spec /\ []NamesApart => NoNewGhostEdge)
<1> SUFFICES ASSUME FiniteGraphs PROVE Spec /\ []NamesApart => NoNewGhostEdge
  OBVIOUS
<1> DEFINE Inv == NamesInv /\ IsFiniteSet(edges)
           Fewer == edges' # PresetEdges => Cardinality(GhostEdges') <= Cardinality(GhostEdges)
<1>1. Init => Inv
  BY NamesStart DEF Init, FiniteGraphs
<1>2. NamesApart /\ Inv /\ [Next]_vars => Inv' /\ [Fewer]_vars
  <2> SUFFICES ASSUME NamesApart, Inv, [Next]_vars
               PROVE  IsFiniteSet(edges') /\ Fewer
    BY NamesStep
  <2>0. /\ IsFiniteSet(edges) /\ GhostEdges \subseteq edges /\ IsFiniteSet(GhostEdges)
        /\ Cardinality(GhostEdges) \in Nat
    <3>1. GhostEdges \in SUBSET edges
      BY DEF GhostEdges
    <3>2. IsFiniteSet(GhostEdges)
      BY <3>1, FS_Subset
    <3> QED
      BY <3>1, <3>2, FS_CardinalityType
  <2>a. ASSUME GhostEdges' \subseteq GhostEdges
        PROVE  Cardinality(GhostEdges') <= Cardinality(GhostEdges)
    <3>1. PICK G \in SUBSET GhostEdges : G = GhostEdges'
      BY <2>a
    <3> QED
      BY <2>0, <3>1, FS_Subset
  <2>1. CASE StatusNames \subseteq StatusNames' /\ edges' = edges
    <3>1. GhostEdges' \subseteq GhostEdges
      BY <2>1 DEF GhostEdges
    <3> QED
      BY <2>0, <2>1, <2>a, <3>1
  <2>2. CASE edges' = PresetEdges
    BY <2>2 DEF FiniteGraphs
  <2>3. ASSUME NEW i \in DOMAIN rows, NEW from \in Names, Deletes(i, from)
        PROVE  IsFiniteSet(edges') /\ Fewer
    <3>1. edges' \in SUBSET edges
      BY <2>3 DEF Deletes
    <3>2. IsFiniteSet(edges')
      BY <2>0, <3>1, FS_Subset
    <3>3. \A n \in StatusNames : n # from => n \in StatusNames'
      BY <2>3 DEF Deletes, StatusNames
    <3>4. GhostEdges' \subseteq GhostEdges
      BY <2>3, <3>3 DEF Deletes, GhostEdges
    <3> QED
      BY <2>a, <3>2, <3>4
  <2>4. ASSUME NEW in \in Patches, NEW i \in DOMAIN rows, NEW from \in Names, NEW to \in Names, NEW S,
               Updates(in, S, i, from, to)
        PROVE  IsFiniteSet(edges') /\ Fewer
    <3>1. edges' = RenamedEdges(edges, from, to)
      BY <2>4 DEF Updates, RenamedEdges
    <3>2. IsFiniteSet(edges')
      BY <2>0, <3>1, RenamedNoMore
    <3>3. PICK T : T = RenamedEdges(GhostEdges, from, to)
      OBVIOUS
    <3>4. IsFiniteSet(T) /\ Cardinality(T) <= Cardinality(GhostEdges)
      BY <2>0, <3>3, RenamedNoMore
    <3>5. ASSUME NEW g \in GhostEdges' PROVE g \in T
      <4>1. PICK e \in edges : g = <<Renamed(e[1], from, to), Renamed(e[2], from, to)>>
        BY <3>1, <3>5 DEF GhostEdges, RenamedEdges
      <4>2. g[1] \notin StatusNames' \/ g[2] \notin StatusNames'
        BY <3>5 DEF GhostEdges
      <4>3. e[1] \notin StatusNames \/ e[2] \notin StatusNames
        BY <2>4, <4>1, <4>2, RenamedNames
      <4>4. e \in GhostEdges
        BY <4>3 DEF GhostEdges
      <4> QED
        BY <3>3, <4>1, <4>4 DEF RenamedEdges
    <3>6. PICK G \in SUBSET T : G = GhostEdges'
      BY <3>5
    <3>7. Cardinality(G) <= Cardinality(T) /\ IsFiniteSet(G)
      BY <3>4, FS_Subset
    <3>8. Cardinality(G) \in Nat /\ Cardinality(T) \in Nat
      BY <3>4, <3>7, FS_CardinalityType
    <3> QED
      BY <2>0, <3>2, <3>4, <3>6, <3>7, <3>8
  <2>5. ASSUME NEW E \in EdgeSets, edges' = E, UNCHANGED rows,
               \A e \in E : e[1] \in StatusNames /\ e[2] \in StatusNames
        PROVE  IsFiniteSet(edges') /\ Fewer
    <3>1. StatusNames' = StatusNames
      BY <2>5 DEF StatusNames
    <3>2. GhostEdges' = {}
      BY <2>5, <3>1 DEF GhostEdges
    <3> QED
      BY <2>5, <2>a, <3>2 DEF FiniteGraphs
  <2> HIDE DEF Fewer
  <2> QED
    BY <2>1, <2>2, <2>3, <2>4, <2>5, GraphSteps
<1> QED
  BY <1>1, <1>2, PTL DEF Spec, NoNewGhostEdge

-----------------------------------------------------------------------------
(* Tasks and their statuses *)

\* No patch withdraws the initial flag: the code lets a client do that, and
\* then the project may have no initial status.
KeepsInitial == \A p \in Patches : p.initial # FALSE

\* A status that was checked is still in the table.
Valid(q) == /\ q.op = "create" => q.status \in StatusNames
            /\ q.op = "changeStatus" /\ q.step # "loaded" => q.to \in StatusNames

StatusesInv == NamesInv /\ InitialIds # {} /\ TasksHaveStatus /\ \A r \in Requests : Valid(req[r])

\* Some row is an initial one, whatever is written.
LEMMA InitialStays ==
  ASSUME KeepsInitial, NamesInv, InitialIds # {}, NEW r \in Requests, Acts(r)
  PROVE  InitialIds' # {}
<1>1. PICK k \in DOMAIN rows : rows[k].initial
  BY DEF InitialIds
<1> SUFFICES \E j \in DOMAIN rows' : rows'[j].initial
  BY DEF InitialIds
<1>2. CASE UNCHANGED rows
  BY <1>1, <1>2
<1>3. ASSUME NEW in \in Creations, NEW i \in StatusIds, NEW S, Creates(in, S, i)
      PROVE  \E j \in DOMAIN rows' : rows'[j].initial
  <2>1. /\ DOMAIN rows' = DOMAIN rows \cup {i} /\ rows'[i].initial = in.initial
        /\ \A j \in DOMAIN rows : rows'[j].initial <=> rows[j].initial /\ j \notin S
        /\ in.initial # TRUE => S = {}
    BY <1>3 DEF Creates
  <2> QED
    BY <1>1, <2>1
<1>4. ASSUME NEW in \in Patches, NEW i \in DOMAIN rows, NEW from \in Names, NEW to \in Names, NEW S,
             Updates(in, S, i, from, to)
      PROVE  \E j \in DOMAIN rows' : rows'[j].initial
  <2>1. in.initial \in {TRUE, None} /\ None # TRUE
    BY InputAssumption, NoneAssumption DEF KeepsInitial
  <2>2. /\ DOMAIN rows' = DOMAIN rows /\ (in.initial # TRUE => S = {})
        /\ rows'[i].initial <=> IF in.initial = None THEN rows[i].initial /\ i \notin S ELSE in.initial
        /\ \A j \in DOMAIN rows : j # i => (rows'[j].initial <=> rows[j].initial /\ j \notin S)
    BY <1>4 DEF Updates
  <2>3. CASE in.initial = TRUE
    BY <2>1, <2>2, <2>3
  <2>4. CASE in.initial = None
    BY <1>1, <2>1, <2>2, <2>4
  <2> QED
    BY <2>1, <2>3, <2>4
<1>5. ASSUME NEW i \in DOMAIN rows, NEW from \in Names, Deletes(i, from)
      PROVE  \E j \in DOMAIN rows' : rows'[j].initial
  BY <1>1, <1>5 DEF Deletes
<1>6. ASSUME NEW id, NEW col, SeedOK(rows', id, col)
      PROVE  \E j \in DOMAIN rows' : rows'[j].initial
  BY <1>6, SeedRows
<1> QED
  BY <1>2, <1>3, <1>4, <1>5, <1>6, RowSteps

\* What the handler that goes on has checked.
LEMMA ValidReads ==
  ASSUME StatusesInv, NEW r \in Requests, Reads(r)
  PROVE  \E q : Continue(r, q) /\ Valid(q)
<1>0. /\ NamesInv /\ TypeOK /\ InitialIds # {} /\ Valid(req[r]) /\ req[r] \in Request
  BY DEF StatusesInv, NamesInv, TypeOK
<1>a. \A q : q.op \notin {"create", "changeStatus"} => Valid(q)
  BY DEF Valid
<1>b. Return(r) => \E q : Continue(r, q) /\ Valid(q)
  BY DEF Return, Valid, Idle
<1>1. CASE CreateTaskLoad(r)
  <2>1. PICK p \in DOMAIN tasks \cup {None}, i \in InitialIds :
          Continue(r, [op |-> "create", step |-> "write", parent |-> p, status |-> rows[i].name])
    BY <1>0, <1>1 DEF CreateTaskLoad
  <2>2. PICK q : q = [op |-> "create", step |-> "write", parent |-> p, status |-> rows[i].name]
    OBVIOUS
  <2>3. q.op = "create" /\ q.status = rows[i].name /\ i \in DOMAIN rows
    BY <2>2 DEF InitialIds
  <2>4. Valid(q)
    BY <2>3 DEF Valid, StatusNames
  <2> QED
    BY <2>1, <2>2, <2>4
<1>2. CASE ChangeStatusLoad(r)
  <2>1. PICK q : Continue(r, q) /\ q.op = "changeStatus" /\ q.step = "loaded"
    BY <1>2 DEF ChangeStatusLoad
  <2> QED
    BY <2>1 DEF Valid
<1>3. CASE ChangeStatusValidate(r) /\ ~Return(r)
  <2>1. PICK p \in LoadedReq : p = req[r]
    BY <1>0, <1>3, KindOf DEF ChangeStatusValidate, At
  <2>2. ValidStatus(p.to) /\ DOMAIN rows # {}
    BY <1>0, <1>3, <2>1 DEF ChangeStatusValidate, InitialIds
  <2>3. PICK q : Continue(r, q) /\ q.op = "changeStatus" /\ q.to = p.to
    BY <1>3, <2>1 DEF ChangeStatusValidate
  <2>4. Valid(q)
    BY <2>2, <2>3 DEF Valid, ValidStatus
  <2> QED
    BY <2>3, <2>4
<1>4. CASE ChangeStatusGate(r) /\ ~Return(r)
  <2>1. PICK p \in MovingReq : p = req[r]
    BY <1>0, <1>4, KindOf DEF ChangeStatusGate, At
  <2>2. PICK q : Continue(r, q) /\ q.op = "changeStatus" /\ q.to = p.to
    BY <1>4, <2>1 DEF ChangeStatusGate, MovingReq
  <2>3. Valid(q)
    BY <1>0, <2>1, <2>2 DEF Valid, MovingReq
  <2> QED
    BY <2>2, <2>3
<1>5. CASE DeleteColumnCheck(r)
  BY <1>5, <1>a DEF DeleteColumnCheck
<1>6. CASE CreateStatusCheck(r)
  BY <1>6, <1>a DEF CreateStatusCheck
<1>7. CASE UpdateStatusCheck(r)
  BY <1>7, <1>a DEF UpdateStatusCheck
<1>8. CASE DeleteStatusLoad(r)
  BY <1>8, <1>a DEF DeleteStatusLoad
<1>9. CASE ResetCheck(r)
  BY <1>9, <1>a DEF ResetCheck
<1>10. CASE ReplaceTransitionsCheck(r)
  BY <1>10, <1>a DEF ReplaceTransitionsCheck
<1>11. CASE TxBegin(r)
  <2>1. PICK p \in NewStatusReq \cup PatchReq : p = req[r]
    BY <1>0, <1>11, KindOf DEF TxBegin
  <2>2. PICK d : Continue(r, [p EXCEPT !.step = "commit", !.demote = d])
    BY <1>11, <2>1 DEF TxBegin
  <2>3. PICK q : q = [p EXCEPT !.step = "commit", !.demote = d]
    OBVIOUS
  <2>4. q.op \notin {"create", "changeStatus"}
    BY <2>3 DEF NewStatusReq, PatchReq
  <2> QED
    BY <1>a, <2>2, <2>3, <2>4
<1>12. CASE DeleteStatusCount(r) /\ ~Return(r)
  <2>1. PICK p \in DeleteReq : p = req[r]
    BY <1>0, <1>12, KindOf DEF DeleteStatusCount, At
  <2>2. PICK q : Continue(r, q) /\ q.op = "deleteStatus"
    BY <1>12, <2>1 DEF DeleteStatusCount, DeleteReq
  <2> QED
    BY <1>a, <2>2
<1>13. CASE Abort(r)
  BY <1>b, <1>13 DEF Abort
<1> QED
  BY <1>b, <1>1, <1>2, <1>3, <1>4, <1>5, <1>6, <1>7, <1>8, <1>9, <1>10, <1>11, <1>12, <1>13 DEF Reads

\* What a handler has checked holds when it writes.
LEMMA ValidStep ==
  ASSUME NamesApart, StatusesInv, NEW r \in Requests, Acts(r), NEW x \in Requests
  PROVE  Valid(req[x])'
<1>0. NamesInv /\ TypeOK /\ \A q \in Requests : Valid(req[q])
  BY DEF StatusesInv, NamesInv
<1>1. CASE x = r /\ Reads(r)
  <2>1. PICK q : Continue(r, q) /\ Valid(q)
    BY <1>1, ValidReads
  <2>2. req'[r] = q /\ UNCHANGED rows
    BY <1>0, <1>1, <2>1, ReadsOnly DEF Continue, TypeOK
  <2>3. Valid(q)'
    BY <2>1, <2>2 DEF Valid, StatusNames
  <2> QED
    BY <1>1, <2>2, <2>3
<1>2. CASE x = r /\ ~Reads(r)
  <2>1. req'[r] = Idle
    BY <1>0, <1>2, ActsEnd
  <2> QED
    BY <1>2, <2>1 DEF Valid, Idle
<1>3. CASE x # r
  <2>1. PICK p : p = req[x] /\ p = req'[x] /\ Valid(p)
    BY <1>0, <1>3, OthersWait
  <2>2. p.op = "create" => p.status \in StatusNames'
    BY <1>0, <1>3, <2>1, UsedNamesStay DEF Valid, Using
  <2>3. p.op = "changeStatus" /\ p.step # "loaded" => p.to \in StatusNames'
    BY <1>0, <1>3, <2>1, UsedNamesStay DEF Valid, Using
  <2>4. Valid(p)'
    BY <2>2, <2>3 DEF Valid
  <2> QED
    BY <2>1, <2>4
<1> QED
  BY <1>1, <1>2, <1>3

\* Every task stays in a status of the project.
LEMMA TasksStay ==
  ASSUME StatusesInv, NEW r \in Requests, Acts(r)
  PROVE  TasksHaveStatus'
<1>0. NamesInv /\ TypeOK /\ TasksHaveStatus /\ Valid(req[r])
  BY DEF StatusesInv, NamesInv
<1>a. \A t \in DOMAIN tasks : tasks[t].status \in StatusNames
  BY <1>0 DEF TasksHaveStatus
<1>1. CASE UNCHANGED rows /\ ~UpdateStatusCommit(r)
  <2>1. StatusNames' = StatusNames
    BY <1>1 DEF StatusNames
  <2>2. ASSUME NEW t \in DOMAIN tasks' PROVE tasks'[t].status \in StatusNames
    BY <1>0, <1>a, <1>1, TaskSteps DEF Valid
  <2> QED
    BY <2>1, <2>2 DEF TasksHaveStatus
<1>2. CASE UNCHANGED <<rows, edges, tasks>>
  BY <1>0, <1>2 DEF TasksHaveStatus, StatusNames
<1>3. ASSUME NEW in \in Creations, NEW i \in StatusIds, NEW S, Creates(in, S, i)
      PROVE  TasksHaveStatus'
  <2>1. StatusNames \subseteq StatusNames' /\ UNCHANGED tasks
    BY <1>3 DEF Creates, StatusNames
  <2> QED
    BY <1>a, <2>1 DEF TasksHaveStatus
<1>4. ASSUME NEW in \in Patches, NEW i \in DOMAIN rows, NEW from \in Names, NEW to \in Names, NEW S,
             Updates(in, S, i, from, to)
      PROVE  TasksHaveStatus'
  <2>1. /\ DOMAIN tasks' = DOMAIN tasks
        /\ \A t \in DOMAIN tasks : tasks'[t].status = Renamed(tasks[t].status, from, to)
    BY <1>4 DEF Updates
  <2> QED
    BY <1>a, <1>4, <2>1, RenamedNames DEF TasksHaveStatus
<1>5. ASSUME NEW i \in DOMAIN rows, NEW from \in Names, Deletes(i, from)
      PROVE  TasksHaveStatus'
  <2>1. UNCHANGED tasks /\ \A t \in DOMAIN tasks : tasks[t].status # from
    BY <1>5 DEF Deletes
  <2> QED
    BY <1>a, <1>5, <2>1, DeletedNames DEF TasksHaveStatus
<1>6. ASSUME NEW id, NEW col, SeedOK(rows', id, col), UNCHANGED tasks,
             \A t \in DOMAIN tasks : tasks[t].status \in PresetNames
      PROVE  TasksHaveStatus'
  <2>1. StatusNames' = PresetNames
    BY <1>6, SeedRows DEF StatusNames
  <2> QED
    BY <1>6, <2>1 DEF TasksHaveStatus
<1> QED
  BY <1>0, <1>1, <1>2, <1>3, <1>4, <1>5, <1>6, RowSteps

\* Step by step.
LEMMA StatusesStep == NamesApart /\ KeepsInitial /\ StatusesInv /\ [Next]_vars => StatusesInv'
<1> SUFFICES ASSUME NamesApart, KeepsInitial, StatusesInv, [Next]_vars PROVE StatusesInv'
  OBVIOUS
<1>0. NamesInv /\ NamesInv' /\ InitialIds # {} /\ TasksHaveStatus /\ \A r \in Requests : Valid(req[r])
  BY NamesStep DEF StatusesInv
<1>1. CASE UNCHANGED vars
  <2>1. UNCHANGED <<rows, tasks, req, StatusNames, InitialIds>>
    BY <1>1 DEF vars, StatusNames, InitialIds
  <2>2. \A r \in Requests : Valid(req[r])'
    BY <1>0, <2>1 DEF Valid
  <2>3. TasksHaveStatus' /\ InitialIds' # {}
    BY <1>0, <2>1 DEF TasksHaveStatus
  <2> QED
    BY <1>0, <2>2, <2>3 DEF StatusesInv
<1>2. CASE Next
  <2>1. PICK r \in Requests : Acts(r)
    BY <1>2, NextActs
  <2>2. InitialIds' # {}
    BY <1>0, <2>1, InitialStays
  <2>3. TasksHaveStatus'
    BY <2>1, TasksStay
  <2>4. \A x \in Requests : Valid(req[x])'
    BY <2>1, ValidStep
  <2> QED
    BY <1>0, <2>2, <2>3, <2>4 DEF StatusesInv
<1> QED
  BY <1>1, <1>2

\* A new project has no tasks, and the preset has an initial status.
LEMMA StatusesStart == Init => StatusesInv
<1> SUFFICES ASSUME Init PROVE StatusesInv
  OBVIOUS
<1>1. PICK id, col : SeedOK(rows, id, col)
  BY InitSeeds
<1>2. InitialIds # {}
  BY <1>1, SeedRows DEF InitialIds
<1>3. TasksHaveStatus
  BY DEF Init, TasksHaveStatus
<1>4. \A r \in Requests : Valid(req[r])
  BY DEF Init, Valid, Idle
<1> QED
  BY <1>2, <1>3, <1>4, NamesStart DEF StatusesInv

\* Among requests that are not about the same names, a task is always in a
\* status of its project: renames carry it along, deletes and the reset wait
\* for it, and a status that was checked is there when the task gets it.
THEOREM ApartKeepsTasks == KeepsInitial => (Spec /\ []NamesApart => []TasksHaveStatus)
<1> SUFFICES ASSUME KeepsInitial PROVE Spec /\ []NamesApart => []TasksHaveStatus
  OBVIOUS
<1>1. NamesApart /\ StatusesInv /\ [Next]_vars => StatusesInv'
  BY StatusesStep
<1>2. StatusesInv => TasksHaveStatus
  BY DEF StatusesInv
<1> QED
  BY StatusesStart, <1>1, <1>2, PTL DEF Spec

-----------------------------------------------------------------------------
(* The initial status *)

\* One row is the initial one.
OneInit == \E i \in DOMAIN rows : \A j \in DOMAIN rows : rows[j].initial <=> j = i

\* A request that makes its status the initial one.
Appoints(q) == q.op \in {"createStatus", "updateStatus"} /\ q.in.initial = TRUE

\* No two requests under way name another initial status.
FlagsApart == \A r, q \in Requests : r # q => ~(Appoints(req[r]) /\ Appoints(req[q]))

\* The rows that a request is to demote are all the initial ones.
DemotesAll(q) ==
  /\ q.op = "createStatus" /\ q.step = "commit" /\ q.in.initial = TRUE => q.demote = InitialIds
  /\ q.op = "updateStatus" /\ q.step = "commit" /\ q.in.initial = TRUE =>
       q.demote = InitialIds \ {q.id}

FlagsInv == NamesInv /\ OneInit /\ \A r \in Requests : DemotesAll(req[r])

\* One initial row, whatever is written.
LEMMA OneInitStays ==
  ASSUME KeepsInitial, FlagsInv, NEW r \in Requests, Acts(r)
  PROVE  OneInit'
<1>0. PICK i0 \in DOMAIN rows : \A j \in DOMAIN rows : rows[j].initial <=> j = i0
  BY DEF FlagsInv, OneInit
<1>1. InitialIds = {i0} /\ NamesInv /\ DemotesAll(req[r])
  BY <1>0 DEF InitialIds, FlagsInv
<1>2. CASE UNCHANGED rows
  BY <1>0, <1>2 DEF OneInit
<1>3. ASSUME NEW in \in Creations, NEW i \in StatusIds, NEW S, Creates(in, S, i), CreateStatusCommit(r),
             in = req[r].in, S = req[r].demote
      PROVE  OneInit'
  <2>1. in.initial \in BOOLEAN
    BY InputAssumption
  <2>2. /\ DOMAIN rows' = DOMAIN rows \cup {i} /\ i \notin DOMAIN rows /\ rows'[i].initial = in.initial
        /\ \A j \in DOMAIN rows : rows'[j].initial <=> rows[j].initial /\ j \notin S
        /\ in.initial # TRUE => S = {}
    BY <1>3 DEF Creates
  <2>3. CASE in.initial = TRUE
    <3>1. S = InitialIds
      BY <1>1, <1>3, <2>3 DEF DemotesAll, CreateStatusCommit, At
    <3>2. \A j \in DOMAIN rows' : rows'[j].initial <=> j = i
      BY <1>0, <1>1, <2>2, <2>3, <3>1
    <3> QED
      BY <2>2, <3>2 DEF OneInit
  <2>4. CASE in.initial = FALSE
    <3>1. \A j \in DOMAIN rows' : rows'[j].initial <=> j = i0
      BY <1>0, <2>2, <2>4
    <3> QED
      BY <2>2, <3>1 DEF OneInit
  <2> QED
    BY <2>1, <2>3, <2>4
<1>4. ASSUME NEW in \in Patches, NEW i \in DOMAIN rows, NEW from \in Names, NEW to \in Names, NEW S,
             Updates(in, S, i, from, to), UpdateStatusCommit(r), in = req[r].in, S = req[r].demote,
             i = req[r].id
      PROVE  OneInit'
  <2>1. in.initial \in {TRUE, None} /\ None # TRUE
    BY InputAssumption, NoneAssumption DEF KeepsInitial
  <2>2. /\ DOMAIN rows' = DOMAIN rows /\ (in.initial # TRUE => S = {})
        /\ rows'[i].initial <=> IF in.initial = None THEN rows[i].initial /\ i \notin S ELSE in.initial
        /\ \A j \in DOMAIN rows : j # i => (rows'[j].initial <=> rows[j].initial /\ j \notin S)
    BY <1>4 DEF Updates
  <2>3. CASE in.initial = TRUE
    <3>1. rows'[i].initial
      BY <2>1, <2>2, <2>3
    <3>2. S = InitialIds \ {i}
      BY <1>1, <1>4, <2>3 DEF DemotesAll, UpdateStatusCommit, At
    <3>3. \A j \in DOMAIN rows' : rows'[j].initial <=> j = i
      BY <1>0, <1>1, <2>2, <2>3, <3>1, <3>2
    <3> QED
      BY <2>2, <3>3 DEF OneInit
  <2>4. CASE in.initial = None
    <3>1. S = {}
      BY <2>1, <2>2, <2>4
    <3>2. \A j \in DOMAIN rows' : rows'[j].initial <=> j = i0
      BY <1>0, <2>2, <2>4, <3>1
    <3> QED
      BY <2>2, <3>2 DEF OneInit
  <2> QED
    BY <2>1, <2>3, <2>4
<1>5. ASSUME NEW i \in DOMAIN rows, NEW from \in Names, Deletes(i, from) PROVE OneInit'
  BY <1>0, <1>5 DEF Deletes, OneInit
<1>6. ASSUME NEW id, NEW col, SeedOK(rows', id, col) PROVE OneInit'
  BY <1>6, SeedRows DEF OneInit
<1> QED
  BY <1>1, <1>2, <1>3, <1>4, <1>5, <1>6, RowSteps

\* Only a request that names the initial status and the reset touch the flag.
LEMMA InitialsSame ==
  ASSUME KeepsInitial, NamesInv, NEW r \in Requests, Acts(r), ~Appoints(req[r]),
         req[r].op # "resetToDefaults"
  PROVE  InitialIds' = InitialIds
<1>1. CASE UNCHANGED rows
  BY <1>1 DEF InitialIds
<1>2. ASSUME NEW in \in Creations, NEW i \in StatusIds, NEW S, Creates(in, S, i), CreateStatusCommit(r),
             in = req[r].in
      PROVE  InitialIds' = InitialIds
  <2>1. in.initial \in BOOLEAN
    BY InputAssumption
  <2>2. ~(in.initial = TRUE)
    BY <1>2 DEF Appoints, CreateStatusCommit, At
  <2>3. /\ DOMAIN rows' = DOMAIN rows \cup {i} /\ i \notin DOMAIN rows /\ rows'[i].initial = FALSE
        /\ \A j \in DOMAIN rows : rows'[j].initial <=> rows[j].initial
    BY <1>2, <2>1, <2>2 DEF Creates
  <2> QED
    BY <2>3 DEF InitialIds
<1>3. ASSUME NEW in \in Patches, NEW i \in DOMAIN rows, NEW from \in Names, NEW to \in Names, NEW S,
             Updates(in, S, i, from, to), UpdateStatusCommit(r), in = req[r].in
      PROVE  InitialIds' = InitialIds
  <2>1. in.initial \in {TRUE, None} /\ None # TRUE
    BY InputAssumption, NoneAssumption DEF KeepsInitial
  <2>2. in.initial = None
    BY <1>3, <2>1 DEF Appoints, UpdateStatusCommit, At
  <2>3. /\ DOMAIN rows' = DOMAIN rows /\ S = {}
        /\ rows'[i].initial <=> rows[i].initial /\ i \notin S
        /\ \A j \in DOMAIN rows : j # i => (rows'[j].initial <=> rows[j].initial /\ j \notin S)
    BY <1>3, <2>1, <2>2 DEF Updates
  <2>4. \A j \in DOMAIN rows : rows'[j].initial <=> rows[j].initial
    BY <2>3
  <2> QED
    BY <2>3, <2>4 DEF InitialIds
<1>4. ASSUME NEW i \in DOMAIN rows, NEW from \in Names, Deletes(i, from) PROVE InitialIds' = InitialIds
  BY <1>4 DEF Deletes, InitialIds
<1> QED
  BY <1>1, <1>2, <1>3, <1>4, RowSteps

\* What a transaction demotes are still all the initial rows when it commits.
LEMMA DemotesStep ==
  ASSUME NamesApart, FlagsApart, KeepsInitial, FlagsInv, NEW r \in Requests, Acts(r), NEW x \in Requests
  PROVE  DemotesAll(req[x])'
<1>0. NamesInv /\ TypeOK /\ req[r] \in Request /\ \A q \in Requests : DemotesAll(req[q])
  BY DEF FlagsInv, NamesInv, TypeOK
<1>1. CASE x = r /\ ~Reads(r)
  <2>1. req'[r] = Idle
    BY <1>0, <1>1, ActsEnd
  <2> QED
    BY <1>1, <2>1 DEF DemotesAll, Idle
<1>2. CASE x = r /\ TxBegin(r)
  <2>1. PICK p \in NewStatusReq \cup PatchReq : p = req[r]
    BY <1>0, <1>2, KindOf DEF TxBegin
  <2>2. PICK d : /\ d = IF p.in.initial # TRUE THEN {}
                        ELSE IF p.op = "updateStatus" THEN InitialIds \ {p.id} ELSE InitialIds
                 /\ Continue(r, [p EXCEPT !.step = "commit", !.demote = d])
    BY <1>2, <2>1 DEF TxBegin
  <2>3. PICK q : q = [p EXCEPT !.step = "commit", !.demote = d]
    OBVIOUS
  <2>4. q = req'[r] /\ InitialIds' = InitialIds
    BY <1>0, <1>2, <2>2, <2>3 DEF Continue, TypeOK, TxBegin, InitialIds
  <2>5. CASE p \in NewStatusReq
    <3>1. q.op = "createStatus" /\ p.op = "createStatus" /\ q.in = p.in /\ q.demote = d
      BY <2>3, <2>5 DEF NewStatusReq
    <3>2. DemotesAll(q)'
      BY <2>2, <2>4, <3>1 DEF DemotesAll
    <3> QED
      BY <1>2, <2>4, <3>2
  <2>6. CASE p \in PatchReq
    <3>1. q.op = "updateStatus" /\ p.op = "updateStatus" /\ q.in = p.in /\ q.demote = d /\ q.id = p.id
      BY <2>3, <2>6 DEF PatchReq
    <3>2. DemotesAll(q)'
      BY <2>2, <2>4, <3>1 DEF DemotesAll
    <3> QED
      BY <1>2, <2>4, <3>2
  <2> QED
    BY <2>5, <2>6
<1>3. CASE x = r /\ Reads(r) /\ ~TxBegin(r)
  <2>1. \E q : Continue(r, q) /\ (q.op \in {"createStatus", "updateStatus"} => q.step = "begin")
    <3>a. Return(r) => \E q : Continue(r, q) /\ (q.op \in {"createStatus", "updateStatus"} => q.step = "begin")
      BY DEF Return, Idle
    <3>1. CASE CreateTaskLoad(r)
      BY <3>1 DEF CreateTaskLoad
    <3>2. CASE ChangeStatusLoad(r)
      BY <3>2 DEF ChangeStatusLoad
    <3>3. CASE ChangeStatusValidate(r) /\ ~Return(r)
      <4>1. PICK p \in LoadedReq : p = req[r]
        BY <1>0, <3>3, KindOf DEF ChangeStatusValidate, At
      <4>2. PICK q : Continue(r, q) /\ q.op = "changeStatus"
        BY <3>3, <4>1 DEF ChangeStatusValidate
      <4> QED
        BY <4>2
    <3>4. CASE ChangeStatusGate(r) /\ ~Return(r)
      <4>1. PICK p \in MovingReq : p = req[r]
        BY <1>0, <3>4, KindOf DEF ChangeStatusGate, At
      <4>2. PICK q : Continue(r, q) /\ q.op = "changeStatus"
        BY <3>4, <4>1 DEF ChangeStatusGate, MovingReq
      <4> QED
        BY <4>2
    <3>5. CASE DeleteColumnCheck(r)
      BY <3>5 DEF DeleteColumnCheck
    <3>6. CASE CreateStatusCheck(r)
      BY <3>6 DEF CreateStatusCheck
    <3>7. CASE UpdateStatusCheck(r)
      BY <3>7 DEF UpdateStatusCheck
    <3>8. CASE DeleteStatusLoad(r)
      BY <3>8 DEF DeleteStatusLoad
    <3>9. CASE DeleteStatusCount(r) /\ ~Return(r)
      <4>1. PICK p \in DeleteReq : p = req[r]
        BY <1>0, <3>9, KindOf DEF DeleteStatusCount, At
      <4>2. PICK q : Continue(r, q) /\ q.op = "deleteStatus"
        BY <3>9, <4>1 DEF DeleteStatusCount, DeleteReq
      <4> QED
        BY <4>2
    <3>10. CASE ResetCheck(r)
      BY <3>10 DEF ResetCheck
    <3>11. CASE ReplaceTransitionsCheck(r)
      BY <3>11 DEF ReplaceTransitionsCheck
    <3>12. CASE Abort(r)
      BY <3>12, <3>a DEF Abort
    <3> QED
      BY <1>3, <3>a, <3>1, <3>2, <3>3, <3>4, <3>5, <3>6, <3>7, <3>8, <3>9, <3>10, <3>11, <3>12 DEF Reads
  <2>2. PICK q : Continue(r, q) /\ (q.op \in {"createStatus", "updateStatus"} => q.step = "begin")
    BY <2>1
  <2>3. q = req'[r]
    BY <1>0, <2>2 DEF Continue, TypeOK
  <2>4. DemotesAll(q)'
    BY <2>2 DEF DemotesAll
  <2> QED
    BY <1>3, <2>3, <2>4
<1>4. CASE x # r
  <2>1. PICK p : p = req[x] /\ p = req'[x] /\ DemotesAll(p)
    BY <1>0, <1>4, OthersWait
  <2>2. CASE Appoints(p)
    <3>1. ~Appoints(req[r])
      BY <1>4, <2>1, <2>2 DEF FlagsApart
    <3>2. req[r].op # "resetToDefaults"
      <4>1. p # Idle
        BY <2>2 DEF Appoints, Idle
      <4> QED
        BY <1>4, <2>1, <4>1 DEF NamesApart
    <3>3. InitialIds' = InitialIds
      BY <1>0, <3>1, <3>2, InitialsSame
    <3>4. DemotesAll(p)'
      BY <2>1, <3>3 DEF DemotesAll
    <3> QED
      BY <2>1, <3>4
  <2>3. CASE ~Appoints(p)
    <3>1. DemotesAll(p)'
      BY <2>3 DEF DemotesAll, Appoints
    <3> QED
      BY <2>1, <3>1
  <2> QED
    BY <2>2, <2>3
<1> QED
  BY <1>1, <1>2, <1>3, <1>4

\* Step by step.
LEMMA FlagsStep == NamesApart /\ FlagsApart /\ KeepsInitial /\ FlagsInv /\ [Next]_vars => FlagsInv'
<1> SUFFICES ASSUME NamesApart, FlagsApart, KeepsInitial, FlagsInv, [Next]_vars PROVE FlagsInv'
  OBVIOUS
<1>0. NamesInv' /\ OneInit /\ \A r \in Requests : DemotesAll(req[r])
  BY NamesStep DEF FlagsInv
<1>1. CASE UNCHANGED vars
  <2>1. UNCHANGED <<rows, req, InitialIds>>
    BY <1>1 DEF vars, InitialIds
  <2>2. \A r \in Requests : DemotesAll(req[r])'
    BY <1>0, <2>1 DEF DemotesAll
  <2>3. OneInit'
    BY <1>0, <2>1 DEF OneInit
  <2> QED
    BY <1>0, <2>2, <2>3 DEF FlagsInv
<1>2. CASE Next
  <2>1. PICK r \in Requests : Acts(r)
    BY <1>2, NextActs
  <2>2. OneInit'
    BY <2>1, OneInitStays
  <2>3. \A x \in Requests : DemotesAll(req[x])'
    BY <2>1, DemotesStep
  <2> QED
    BY <1>0, <2>2, <2>3 DEF FlagsInv
<1> QED
  BY <1>1, <1>2

\* The preset has one initial status.
LEMMA FlagsStart == Init => FlagsInv
<1> SUFFICES ASSUME Init PROVE FlagsInv
  OBVIOUS
<1>1. OneInit
  BY InitSeeds, SeedRows DEF OneInit
<1>2. \A r \in Requests : DemotesAll(req[r])
  BY DEF Init, DemotesAll, Idle
<1> QED
  BY <1>1, <1>2, NamesStart DEF FlagsInv

-----------------------------------------------------------------------------
(* A parent and its subtasks *)

\* A request that changes which names there are or which of them are done.
Edits(q) == \/ q.op \in {"createStatus", "deleteStatus", "resetToDefaults"}
            \/ q.op = "updateStatus" /\ (q.in.name # None \/ q.in.done # None)

\* While the status of a task is being changed, nobody edits the statuses,
\* adds a subtask to it, or changes the status of the task or of a subtask.
FamiliesApart ==
  \A r, q \in Requests : r # q /\ req[r].op = "changeStatus" =>
    /\ ~Edits(req[q])
    /\ req[q].op = "create" => req[q].parent # req[r].task
    /\ req[q].op = "changeStatus" =>
         /\ req[q].task # req[r].task
         /\ req[q].task \in DOMAIN tasks => tasks[req[q].task].parent # req[r].task

\* What changeStatus has read of a task that is still there is still so.
Current(q) ==
  q.op = "changeStatus" /\ q.task \in DOMAIN tasks =>
    /\ q.from = tasks[q.task].status
    /\ q.step = "loaded" => \A u \in Children(q.task) : tasks[u].status \in q.subs
    /\ q.step # "loaded" => /\ q.stamp = Stamp(q.from, q.to)
                            /\ IsDone(q.to) => \A u \in Children(q.task) : IsDone(tasks[u].status)

FamilyInv == NamesInv /\ \A r \in Requests : Current(req[r])

\* What was read stays so while done keeps its meaning, the task its status
\* and the subtasks, if they stay, theirs.
LEMMA CurrentSame ==
  ASSUME NEW q, Current(q), DoneNames' = DoneNames,
         q.op = "changeStatus" /\ q.task \in DOMAIN tasks' =>
           /\ q.task \in DOMAIN tasks /\ tasks'[q.task].status = tasks[q.task].status
           /\ \A u \in Children(q.task)' : /\ u \in Children(q.task)
                                           /\ tasks'[u].status = tasks[u].status
  PROVE  Current(q)'
<1>1. \A s : IsDone(s)' <=> IsDone(s)
  BY DEF IsDone
<1>2. \A from, to : Stamp(from, to)' = Stamp(from, to)
  BY <1>1 DEF Stamp
<1> SUFFICES ASSUME q.op = "changeStatus", q.task \in DOMAIN tasks'
             PROVE  /\ q.from = tasks'[q.task].status
                    /\ q.step = "loaded" => \A u \in Children(q.task)' : tasks'[u].status \in q.subs
                    /\ q.step # "loaded" =>
                         /\ q.stamp = Stamp(q.from, q.to)'
                         /\ IsDone(q.to)' => \A u \in Children(q.task)' : IsDone(tasks[u].status)'
  BY DEF Current
<1> QED
  BY <1>1, <1>2 DEF Current

\* What the handler that goes on has read.
LEMMA CurrentReads ==
  ASSUME FamilyInv, NEW r \in Requests, Reads(r)
  PROVE  \E q : Continue(r, q) /\ Current(q)
<1>0. NamesInv /\ TypeOK /\ Current(req[r]) /\ req[r] \in Request
  BY DEF FamilyInv, NamesInv, TypeOK
<1>a. \A q : q.op # "changeStatus" => Current(q)
  BY DEF Current
<1>b. Return(r) => \E q : Continue(r, q) /\ Current(q)
  BY <1>a DEF Return, Idle
<1>1. CASE CreateTaskLoad(r)
  BY <1>1, <1>a DEF CreateTaskLoad
<1>2. CASE ChangeStatusLoad(r)
  <2>1. PICK q : \E t \in DOMAIN tasks :
          /\ Continue(r, q) /\ q.op = "changeStatus" /\ q.step = "loaded" /\ q.task = t
          /\ q.from = tasks[t].status /\ q.subs = {tasks[u].status : u \in Children(t)}
    BY <1>2 DEF ChangeStatusLoad
  <2> QED
    BY <2>1 DEF Current
<1>3. CASE ChangeStatusValidate(r) /\ ~Return(r)
  <2>1. PICK p \in LoadedReq : p = req[r]
    BY <1>0, <1>3, KindOf DEF ChangeStatusValidate, At
  <2>2. PICK q : /\ Continue(r, q) /\ q.op = "changeStatus" /\ q.step # "loaded" /\ q.task = p.task
                 /\ q.from = p.from /\ q.to = p.to /\ q.stamp = Stamp(p.from, p.to)
    BY <1>3, <2>1 DEF ChangeStatusValidate
  <2>3. p.task \in DOMAIN tasks =>
          p.from = tasks[p.task].status /\ \A u \in Children(p.task) : tasks[u].status \in p.subs
    BY <1>0, <2>1 DEF Current, LoadedReq
  <2>4. IsDone(p.to) => \A s \in p.subs : IsDone(s)
    BY <1>3, <2>1 DEF ChangeStatusValidate, Blocking
  <2> QED
    BY <2>2, <2>3, <2>4 DEF Current
<1>4. CASE ChangeStatusGate(r) /\ ~Return(r)
  <2>1. PICK p \in MovingReq : p = req[r]
    BY <1>0, <1>4, KindOf DEF ChangeStatusGate, At
  <2>2. PICK q : /\ Continue(r, q) /\ q.op = "changeStatus" /\ q.step = "write" /\ q.task = p.task
                 /\ q.from = p.from /\ q.to = p.to /\ q.stamp = p.stamp
    BY <1>4, <2>1 DEF ChangeStatusGate, MovingReq
  <2>3. Current(p) /\ p.op = "changeStatus" /\ p.step # "loaded"
    BY <1>0, <2>1 DEF MovingReq
  <2> QED
    BY <2>2, <2>3 DEF Current
<1>5. CASE DeleteColumnCheck(r)
  BY <1>5, <1>a DEF DeleteColumnCheck
<1>6. CASE CreateStatusCheck(r)
  BY <1>6, <1>a DEF CreateStatusCheck
<1>7. CASE UpdateStatusCheck(r)
  BY <1>7, <1>a DEF UpdateStatusCheck
<1>8. CASE DeleteStatusLoad(r)
  BY <1>8, <1>a DEF DeleteStatusLoad
<1>9. CASE ResetCheck(r)
  BY <1>9, <1>a DEF ResetCheck
<1>10. CASE ReplaceTransitionsCheck(r)
  BY <1>10, <1>a DEF ReplaceTransitionsCheck
<1>11. CASE TxBegin(r)
  <2>1. PICK p \in NewStatusReq \cup PatchReq : p = req[r]
    BY <1>0, <1>11, KindOf DEF TxBegin
  <2>2. PICK d : Continue(r, [p EXCEPT !.step = "commit", !.demote = d])
    BY <1>11, <2>1 DEF TxBegin
  <2>3. PICK q : q = [p EXCEPT !.step = "commit", !.demote = d]
    OBVIOUS
  <2>4. q.op # "changeStatus"
    BY <2>3 DEF NewStatusReq, PatchReq
  <2> QED
    BY <1>a, <2>2, <2>3, <2>4
<1>12. CASE DeleteStatusCount(r) /\ ~Return(r)
  <2>1. PICK p \in DeleteReq : p = req[r]
    BY <1>0, <1>12, KindOf DEF DeleteStatusCount, At
  <2>2. PICK q : Continue(r, q) /\ q.op = "deleteStatus"
    BY <1>12, <2>1 DEF DeleteStatusCount, DeleteReq
  <2> QED
    BY <1>a, <2>2
<1>13. CASE Abort(r)
  BY <1>b, <1>13 DEF Abort
<1> QED
  BY <1>b, <1>1, <1>2, <1>3, <1>4, <1>5, <1>6, <1>7, <1>8, <1>9, <1>10, <1>11, <1>12, <1>13 DEF Reads

\* No other request changes which statuses are done.
LEMMA DoneNamesSame ==
  ASSUME NamesInv, FamiliesApart, NEW r \in Requests, Acts(r), NEW q \in Requests, q # r,
         req[q].op = "changeStatus"
  PROVE  DoneNames' = DoneNames
<1>1. ~Edits(req[r])
  BY DEF FamiliesApart
<1>2. CASE UNCHANGED rows
  BY <1>2 DEF DoneNames
<1>3. CASE CreateStatusCommit(r) \/ DeleteStatusCommit(r) \/ ResetCommit(r)
  BY <1>1, <1>3 DEF Edits, CreateStatusCommit, DeleteStatusCommit, ResetCommit, At
<1>4. ASSUME NEW in \in Patches, NEW i \in DOMAIN rows, NEW from \in Names, NEW to \in Names, NEW S,
             Updates(in, S, i, from, to), UpdateStatusCommit(r), in = req[r].in
      PROVE  DoneNames' = DoneNames
  <2>1. in.name = None /\ in.done = None
    BY <1>1, <1>4 DEF Edits, UpdateStatusCommit, At
  <2>2. /\ DOMAIN rows' = DOMAIN rows /\ rows'[i].name = rows[i].name /\ (rows'[i].done <=> rows[i].done)
        /\ \A j \in DOMAIN rows : j # i => rows'[j].name = rows[j].name /\ rows'[j].done = rows[j].done
    BY <1>4, <2>1 DEF Updates
  <2>3. \A j \in DOMAIN rows : rows'[j].name = rows[j].name /\ (rows'[j].done <=> rows[j].done)
    BY <2>2
  <2> QED
    BY <2>2, <2>3 DEF DoneNames
<1> QED
  BY <1>2, <1>3, <1>4, RowSteps

\* Nor the status of the task or of a subtask, nor adds a subtask.
LEMMA FamilySame ==
  ASSUME NamesInv, FamiliesApart, NEW r \in Requests, Acts(r), NEW q \in Requests, q # r,
         req[q].op = "changeStatus", NEW t \in DOMAIN tasks', t = req[q].task
  PROVE  /\ t \in DOMAIN tasks /\ tasks'[t].status = tasks[t].status
         /\ \A u \in Children(t)' : u \in Children(t) /\ tasks'[u].status = tasks[u].status
<1>0. TypeOK /\ ~Edits(req[r]) /\ t # None
  <2>1. TypeOK' /\ TypeOK
    BY TypesStep, NextActs DEF NamesInv
  <2> QED
    BY <2>1, NoneAssumption DEF FamiliesApart, TypeOK
<1>1. CASE UNCHANGED tasks
  BY <1>1 DEF Children
<1>2. CASE CreateTaskWrite(r) /\ ~UNCHANGED tasks
  <2>1. req[r].op = "create" /\ req[r].parent # t
    BY <1>2 DEF CreateTaskWrite, At, FamiliesApart
  <2>2. PICK row : row = [status |-> req[r].status, parent |-> req[r].parent, completed |-> FALSE]
    OBVIOUS
  <2>3. row.parent # t
    BY <2>1, <2>2
  <2>4. \E x \in Tasks \ (DOMAIN tasks \cup HeldTasks) :
          tasks' = [u \in DOMAIN tasks \cup {x} |->
                      IF u = x THEN [status |-> req[r].status, parent |-> req[r].parent,
                                     completed |-> FALSE]
                               ELSE tasks[u]]
    BY <1>2 DEF CreateTaskWrite
  <2>5. PICK x \in Tasks \ (DOMAIN tasks \cup HeldTasks) :
          tasks' = [u \in DOMAIN tasks \cup {x} |-> IF u = x THEN row ELSE tasks[u]]
    BY <2>2, <2>4
  <2>6. t # x
    <3>1. req[q] \in Request
      BY <1>0 DEF TypeOK
    <3>2. PICK p : p = req[q] /\ p \in LoadedReq \cup MovingReq
      BY <3>1, KindOf
    <3>3. "task" \in DOMAIN p
      BY <3>2 DEF LoadedReq, MovingReq
    <3>4. req[q].task \in HeldTasks
      BY <3>2, <3>3 DEF HeldTasks
    <3> QED
      BY <2>5, <3>4
  <2>7. /\ t \in DOMAIN tasks /\ tasks'[t] = tasks[t] /\ tasks'[x] = row
        /\ \A u \in DOMAIN tasks' : u # x => u \in DOMAIN tasks /\ tasks'[u] = tasks[u]
    BY <2>5, <2>6
  <2> QED
    BY <2>3, <2>7 DEF Children
<1>3. CASE RemoveTask(r)
  <2>1. PICK x \in DOMAIN tasks :
          tasks' = [u \in DOMAIN tasks \ {x} |->
                      [status |-> tasks[u].status, completed |-> tasks[u].completed,
                       parent |-> IF tasks[u].parent = x THEN None ELSE tasks[u].parent]]
    BY <1>3 DEF RemoveTask
  <2>2. \A u \in DOMAIN tasks' :
          /\ u \in DOMAIN tasks /\ tasks'[u].status = tasks[u].status
          /\ tasks'[u].parent = IF tasks[u].parent = x THEN None ELSE tasks[u].parent
    BY <2>1
  <2> QED
    BY <1>0, <2>2 DEF Children
<1>4. CASE ChangeStatusWrite(r) /\ ~UNCHANGED tasks
  <2>1. PICK x \in DOMAIN tasks : x = req[r].task
    BY <1>4 DEF ChangeStatusWrite
  <2>2. x # t /\ tasks[x].parent # t
    BY <1>4, <2>1 DEF ChangeStatusWrite, At, FamiliesApart
  <2>3. PICK done : done = IF req[r].stamp = None THEN tasks[x].completed ELSE req[r].stamp
    OBVIOUS
  <2>4. PICK row : row = [status |-> req[r].to, parent |-> tasks[x].parent, completed |-> done]
    OBVIOUS
  <2>5. row.parent # t
    BY <2>2, <2>4
  <2>6. tasks' = [tasks EXCEPT ![x] = row]
    BY <1>4, <2>1, <2>3, <2>4 DEF ChangeStatusWrite
  <2>7. /\ DOMAIN tasks' = DOMAIN tasks /\ tasks'[x] = row
        /\ \A u \in DOMAIN tasks : u # x => tasks'[u] = tasks[u]
    BY <1>0, <2>6 DEF TypeOK
  <2> QED
    BY <2>2, <2>5, <2>7 DEF Children
<1>5. CASE UpdateStatusCommit(r) /\ ~UNCHANGED tasks
  <2>1. PICK in \in Patches, i \in DOMAIN rows, from \in Names, to \in Names :
           \E S : Updates(in, S, i, from, to) /\ in = req[r].in
    BY <1>0, <1>5, UpdateWrites DEF NamesInv
  <2>2. in.name = None
    BY <1>0, <1>5, <2>1 DEF Edits, UpdateStatusCommit, At
  <2>3. from = to /\ DOMAIN tasks' = DOMAIN tasks
    BY <2>1, <2>2 DEF Updates
  <2>4. \A u \in DOMAIN tasks : tasks'[u].status = tasks[u].status /\ tasks'[u].parent = tasks[u].parent
    BY <2>1, <2>3 DEF Updates, Renamed
  <2> QED
    BY <2>3, <2>4 DEF Children
<1>6. CASE \/ CreateColumn(r) \/ ResetTransitions(r) \/ ReplaceTransitionsCommit(r)
           \/ CreateStatusCommit(r) \/ DeleteStatusCommit(r) \/ ResetCommit(r) \/ DeleteColumnCommit(r)
  BY <1>1, <1>6 DEF CreateColumn, ResetTransitions, ReplaceTransitionsCommit, CreateStatusCommit,
                    DeleteStatusCommit, ResetCommit, DeleteColumnCommit
<1>7. CASE Reads(r)
  BY <1>1, <1>7, ReadsOnly
<1> QED
  BY <1>1, <1>2, <1>3, <1>4, <1>5, <1>6, <1>7 DEF Acts, Reads

\* Step by step.
LEMMA FamilyStep == NamesApart /\ FamiliesApart /\ FamilyInv /\ [Next]_vars => FamilyInv'
<1> SUFFICES ASSUME NamesApart, FamiliesApart, FamilyInv, [Next]_vars PROVE FamilyInv'
  OBVIOUS
<1>0. NamesInv /\ NamesInv' /\ TypeOK /\ \A r \in Requests : Current(req[r])
  BY NamesStep DEF FamilyInv, NamesInv
<1>a. UNCHANGED <<rows, tasks>> => \A q : Current(q) => Current(q)'
  BY CurrentSame DEF DoneNames, Children
<1>1. CASE UNCHANGED vars
  <2>1. \A r \in Requests : Current(req[r])'
    BY <1>0, <1>1, <1>a DEF vars
  <2> QED
    BY <1>0, <2>1 DEF FamilyInv
<1>2. CASE Next
  <2>1. PICK r \in Requests : Acts(r)
    BY <1>2, NextActs
  <2>2. ASSUME NEW x \in Requests PROVE Current(req[x])'
    <3>1. CASE x = r /\ Reads(r)
      <4>1. PICK q : Continue(r, q) /\ Current(q)
        BY <3>1, CurrentReads
      <4>2. req'[r] = q /\ Current(q)'
        BY <1>0, <1>a, <3>1, <4>1, ReadsOnly DEF Continue, TypeOK
      <4> QED
        BY <3>1, <4>2
    <3>2. CASE x = r /\ ~Reads(r)
      <4>1. req'[r] = Idle
        BY <1>0, <2>1, <3>2, ActsEnd
      <4> QED
        BY <3>2, <4>1 DEF Current, Idle
    <3>3. CASE x # r
      <4>1. PICK p : p = req[x] /\ p = req'[x] /\ Current(p)
        BY <1>0, <2>1, <3>3, OthersWait
      <4>2. CASE p.op # "changeStatus"
        <5>1. Current(p)'
          BY <4>2 DEF Current
        <5> QED
          BY <4>1, <5>1
      <4>3. CASE p.op = "changeStatus"
        <5>1. DoneNames' = DoneNames
          BY <1>0, <2>1, <3>3, <4>1, <4>3, DoneNamesSame
        <5>2. p.task \in DOMAIN tasks' =>
                /\ p.task \in DOMAIN tasks /\ tasks'[p.task].status = tasks[p.task].status
                /\ \A u \in Children(p.task)' : /\ u \in Children(p.task)
                                                /\ tasks'[u].status = tasks[u].status
          BY <1>0, <2>1, <3>3, <4>1, <4>3, FamilySame
        <5>3. Current(p)'
          BY <4>1, <5>1, <5>2, CurrentSame
        <5> QED
          BY <4>1, <5>3
      <4> QED
        BY <4>2, <4>3
    <3> QED
      BY <3>1, <3>2, <3>3
  <2> QED
    BY <1>0, <2>2 DEF FamilyInv
<1> QED
  BY <1>1, <1>2

\* No request has read anything yet.
LEMMA FamilyStart == Init => FamilyInv
<1> SUFFICES ASSUME Init PROVE FamilyInv
  OBVIOUS
<1>1. \A r \in Requests : Current(req[r])
  BY DEF Init, Current, Idle
<1> QED
  BY <1>1, NamesStart DEF FamilyInv

\* changeStatus moves the task as its stamp and its gate were computed.
LEMMA StatusWrites ==
  ASSUME FamilyInv, NEW r \in Requests, ChangeStatusWrite(r), NEW t \in DOMAIN tasks, t = req[r].task
  PROVE  /\ DOMAIN tasks' = DOMAIN tasks /\ \A u \in DOMAIN tasks : u # t => tasks'[u] = tasks[u]
         /\ tasks'[t].status = req[r].to
         /\ req[r].stamp = Stamp(tasks[t].status, req[r].to) /\ req[r].stamp \in BOOLEAN \cup {None}
         /\ tasks'[t].completed = IF req[r].stamp = None THEN tasks[t].completed ELSE req[r].stamp
         /\ IsDone(req[r].to) => \A u \in Children(t) : IsDone(tasks[u].status)
<1>0. TypeOK /\ Current(req[r]) /\ req[r] \in Request
  BY DEF FamilyInv, NamesInv, TypeOK
<1>1. PICK q \in MovingReq : q = req[r] /\ q.step = "write"
  BY <1>0, KindOf DEF ChangeStatusWrite, At
<1>2. q.op = "changeStatus" /\ q.stamp \in BOOLEAN \cup {None}
  BY DEF MovingReq
<1>3. /\ q.stamp = Stamp(tasks[t].status, q.to)
      /\ IsDone(q.to) => \A u \in Children(t) : IsDone(tasks[u].status)
  BY <1>0, <1>1, <1>2 DEF Current
<1>4. PICK done : done = IF q.stamp = None THEN tasks[t].completed ELSE q.stamp
  OBVIOUS
<1>5. PICK row : row = [status |-> q.to, parent |-> tasks[t].parent, completed |-> done]
  OBVIOUS
<1>6. row.status = q.to /\ row.completed = done
  BY <1>5
<1>7. tasks' = [tasks EXCEPT ![t] = row]
  BY <1>1, <1>4, <1>5 DEF ChangeStatusWrite
<1>8. /\ DOMAIN tasks' = DOMAIN tasks /\ tasks'[t] = row
      /\ \A u \in DOMAIN tasks : u # t => tasks'[u] = tasks[u]
  BY <1>0, <1>7 DEF TypeOK
<1> QED
  BY <1>1, <1>2, <1>3, <1>4, <1>6, <1>8

\* While no other request touches the family of a task whose status is being
\* changed, a task enters a done status only when all its subtasks are done.
THEOREM ParentsWait == Spec /\ []NamesApart /\ []FamiliesApart => ParentGate
<1> DEFINE Waits == \A t \in DOMAIN tasks :
                      (t \in DOMAIN tasks' /\ ~IsDone(tasks[t].status) /\ IsDone(tasks'[t].status)
                         /\ UNCHANGED rows)
                      => \A u \in Children(t) : IsDone(tasks[u].status)
<1>1. FamilyInv /\ [Next]_vars => [Waits]_vars
  <2> SUFFICES ASSUME FamilyInv, Next, UNCHANGED rows, NEW t \in DOMAIN tasks, t \in DOMAIN tasks',
                      ~IsDone(tasks[t].status), IsDone(tasks'[t].status), NEW u \in Children(t)
               PROVE  IsDone(tasks[u].status)
    OBVIOUS
  <2>1. PICK r \in Requests : Acts(r)
    BY NextActs
  <2>2. tasks'[t].status # tasks[t].status /\ NamesInv /\ TypeOK /\ UniqueNames /\ Kept(req[r])
    BY DEF FamilyInv, NamesInv
  <2>3. CASE UpdateStatusCommit(r)
    <3>1. PICK in \in Patches, i \in DOMAIN rows, from \in Names, to \in Names :
             \E S : Updates(in, S, i, from, to)
      BY <2>2, <2>3, UpdateWrites
    <3>2. from = to /\ tasks'[t].status = Renamed(tasks[t].status, from, to)
      BY <3>1 DEF Updates
    <3> QED
      BY <2>2, <3>2 DEF Renamed
  <2>4. CASE ~UpdateStatusCommit(r)
    <3>1. ChangeStatusWrite(r) /\ t = req[r].task
      BY <2>1, <2>2, <2>4, TaskSteps
    <3>2. tasks'[t].status = req[r].to /\ (IsDone(req[r].to) => \A x \in Children(t) : IsDone(tasks[x].status))
      BY <3>1, StatusWrites
    <3> QED
      BY <3>2
  <2> QED
    BY <2>3, <2>4
<1> HIDE DEF Waits
<1>2. NamesApart /\ FamiliesApart /\ FamilyInv /\ [Next]_vars => FamilyInv'
  BY FamilyStep
<1>3. []NamesApart /\ []FamiliesApart => [](NamesApart /\ FamiliesApart)
  BY PTL
<1> QED
  BY FamilyStart, <1>1, <1>2, <1>3, PTL DEF Spec, ParentGate, Waits

-----------------------------------------------------------------------------
(* Completion dates *)

\* Neither a new status nor a patch gives a preset name another meaning.
KeepsDone == /\ \A in \in Creations : in.name \in PresetNames => (in.done <=> in.name \in PresetDone)
             /\ \A in \in Patches : in.done = None /\ in.name \notin PresetNames

\* A row with a name of the preset has the preset's meaning.
PresetMeaning ==
  \A i \in DOMAIN rows :
    rows[i].name \in PresetNames => (rows[i].done <=> rows[i].name \in PresetDone)

\* A task with a completion date is in a row that is done.
DatedTasks == \A t \in DOMAIN tasks : tasks[t].completed =>
                \E i \in DOMAIN rows : rows[i].name = tasks[t].status /\ rows[i].done

SoundInv == StatusesInv /\ FlagsInv /\ FamilyInv /\ PresetMeaning /\ DatedTasks

\* The fallback to the preset never disagrees with the rows.
LEMMA DoneIsRow ==
  ASSUME PresetMeaning, NEW s \in StatusNames
  PROVE  IsDone(s) <=> \E i \in DOMAIN rows : rows[i].name = s /\ rows[i].done
<1>1. CASE DoneNames = {}
  <2>1. \A i \in DOMAIN rows : ~rows[i].done
    BY <1>1 DEF DoneNames
  <2>2. PICK i \in DOMAIN rows : rows[i].name = s
    BY DEF StatusNames
  <2>3. s \notin PresetDone
    BY <2>1, <2>2, PresetAssumption DEF PresetMeaning
  <2> QED
    BY <1>1, <2>1, <2>3 DEF IsDone
<1>2. CASE DoneNames # {}
  BY <1>2 DEF IsDone, DoneNames
<1> QED
  BY <1>1, <1>2

\* Preset names keep their meaning.
LEMMA MeaningStays ==
  ASSUME KeepsDone, NamesInv, PresetMeaning, NEW r \in Requests, Acts(r)
  PROVE  PresetMeaning'
<1>1. CASE UNCHANGED rows
  BY <1>1 DEF PresetMeaning
<1>2. ASSUME NEW in \in Creations, NEW i \in StatusIds, NEW S, Creates(in, S, i) PROVE PresetMeaning'
  BY <1>2 DEF Creates, PresetMeaning, KeepsDone
<1>3. ASSUME NEW in \in Patches, NEW i \in DOMAIN rows, NEW from \in Names, NEW to \in Names, NEW S,
             Updates(in, S, i, from, to)
      PROVE  PresetMeaning'
  <2>1. in.done = None /\ in.name \notin PresetNames
    BY DEF KeepsDone
  <2>2. /\ DOMAIN rows' = DOMAIN rows /\ from = rows[i].name /\ rows'[i].name = to
        /\ to = IF in.name = None THEN from ELSE in.name
        /\ rows'[i].done <=> IF in.done = None THEN rows[i].done ELSE in.done
        /\ \A j \in DOMAIN rows : j # i => rows'[j].name = rows[j].name /\ rows'[j].done = rows[j].done
    BY <1>3 DEF Updates
  <2>3. rows'[i].done <=> rows[i].done
    BY <2>1, <2>2
  <2>4. to \in PresetNames => to = rows[i].name
    BY <2>1, <2>2
  <2>5. rows'[i].name \in PresetNames => (rows'[i].done <=> rows'[i].name \in PresetDone)
    BY <2>2, <2>3, <2>4 DEF PresetMeaning
  <2> QED
    BY <2>2, <2>5 DEF PresetMeaning
<1>4. ASSUME NEW i \in DOMAIN rows, NEW from \in Names, Deletes(i, from) PROVE PresetMeaning'
  BY <1>4 DEF Deletes, PresetMeaning
<1>5. ASSUME NEW id, NEW col, SeedOK(rows', id, col) PROVE PresetMeaning'
  BY <1>5, SeedRows DEF PresetMeaning
<1> QED
  BY <1>1, <1>2, <1>3, <1>4, <1>5, RowSteps

\* The task that changeStatus moves carries a date only into a done status.
LEMMA StampedTask ==
  ASSUME SoundInv, NEW r \in Requests, ChangeStatusWrite(r), UNCHANGED rows,
         NEW t \in DOMAIN tasks, t = req[r].task, tasks'[t].completed
  PROVE  \E i \in DOMAIN rows : rows[i].name = tasks'[t].status /\ rows[i].done
<1>0. /\ FamilyInv /\ TasksHaveStatus /\ DatedTasks /\ PresetMeaning /\ Valid(req[r])
      /\ None # TRUE /\ None # FALSE
  BY NoneAssumption DEF SoundInv, StatusesInv
<1>1. req[r].to \in StatusNames
  BY <1>0 DEF Valid, ChangeStatusWrite, At
<1>2. PICK to \in StatusNames, stamp \in BOOLEAN \cup {None} :
        /\ tasks'[t].status = to /\ stamp = Stamp(tasks[t].status, to)
        /\ tasks'[t].completed = IF stamp = None THEN tasks[t].completed ELSE stamp
  BY <1>0, <1>1, StatusWrites
<1>3. IsDone(to)
  <2>1. CASE stamp = None
    <3>1. tasks[t].completed
      BY <1>2, <2>1
    <3>2. PICK s \in StatusNames : s = tasks[t].status
      BY <1>0 DEF TasksHaveStatus
    <3>3. \E i \in DOMAIN rows : rows[i].name = s /\ rows[i].done
      BY <1>0, <3>1, <3>2 DEF DatedTasks
    <3>4. IsDone(s)
      BY <1>0, <3>3, DoneIsRow
    <3> QED
      BY <1>0, <1>2, <2>1, <3>2, <3>4 DEF Stamp
  <2>2. CASE stamp # None
    <3>1. stamp = TRUE
      BY <1>2, <2>2
    <3> QED
      BY <1>0, <1>2, <3>1 DEF Stamp
  <2> QED
    BY <2>1, <2>2
<1> QED
  BY <1>0, <1>2, <1>3, DoneIsRow

\* Completion dates stay with done tasks.
LEMMA DatesStay ==
  ASSUME KeepsDone, SoundInv, NEW r \in Requests, Acts(r)
  PROVE  DatedTasks'
<1>0. NamesInv /\ TypeOK /\ UniqueNames /\ TasksHaveStatus /\ PresetMeaning /\ DatedTasks
  BY DEF SoundInv, StatusesInv, NamesInv
<1>a. ASSUME NEW t \in DOMAIN tasks, tasks[t].completed
      PROVE  /\ \E i \in DOMAIN rows : rows[i].name = tasks[t].status /\ rows[i].done
             /\ tasks[t].status \in StatusNames
  BY <1>0, <1>a DEF DatedTasks, TasksHaveStatus
<1>1. CASE UNCHANGED rows /\ ~UpdateStatusCommit(r)
  <2> SUFFICES ASSUME NEW t \in DOMAIN tasks', tasks'[t].completed
               PROVE  \E i \in DOMAIN rows : rows[i].name = tasks'[t].status /\ rows[i].done
    BY <1>1 DEF DatedTasks
  <2>1. CASE /\ t \in DOMAIN tasks
             /\ tasks'[t].status = tasks[t].status /\ tasks'[t].completed = tasks[t].completed
    BY <1>a, <2>1
  <2>2. CASE ChangeStatusWrite(r) /\ t = req[r].task /\ t \in DOMAIN tasks
    BY <1>1, <2>2, StampedTask
  <2>3. ~(tasks'[t].completed = FALSE)
    OBVIOUS
  <2> QED
    BY <1>0, <1>1, <2>1, <2>2, <2>3, TaskSteps
<1>2. CASE UNCHANGED <<rows, edges, tasks>>
  BY <1>0, <1>2 DEF DatedTasks
<1>3. ASSUME NEW in \in Creations, NEW i \in StatusIds, NEW S, Creates(in, S, i)
      PROVE  DatedTasks'
  <2>1. /\ DOMAIN rows \subseteq DOMAIN rows' /\ UNCHANGED tasks
        /\ \A j \in DOMAIN rows : rows'[j].name = rows[j].name /\ rows'[j].done = rows[j].done
    BY <1>3 DEF Creates
  <2> QED
    BY <1>a, <2>1 DEF DatedTasks
<1>4. ASSUME NEW in \in Patches, NEW i \in DOMAIN rows, NEW from \in Names, NEW to \in Names, NEW S,
             Updates(in, S, i, from, to)
      PROVE  DatedTasks'
  <2>1. in.done = None
    BY DEF KeepsDone
  <2>2. /\ DOMAIN rows' = DOMAIN rows /\ from = rows[i].name /\ rows'[i].name = to
        /\ rows'[i].done <=> IF in.done = None THEN rows[i].done ELSE in.done
        /\ \A j \in DOMAIN rows : j # i => rows'[j].name = rows[j].name /\ rows'[j].done = rows[j].done
        /\ DOMAIN tasks' = DOMAIN tasks
        /\ \A t \in DOMAIN tasks : tasks'[t].status = Renamed(tasks[t].status, from, to)
        /\ \A t \in DOMAIN tasks : tasks'[t].completed = tasks[t].completed
    BY <1>4 DEF Updates
  <2>3. ASSUME NEW t \in DOMAIN tasks', tasks'[t].completed
        PROVE  \E j \in DOMAIN rows' : rows'[j].name = tasks'[t].status /\ rows'[j].done
    <3>1. t \in DOMAIN tasks /\ tasks[t].completed
      BY <2>2, <2>3
    <3>2. PICK j \in DOMAIN rows : rows[j].name = tasks[t].status /\ rows[j].done
      BY <1>a, <3>1
    <3>3. CASE j = i
      <4>1. tasks'[t].status = to
        BY <2>2, <3>1, <3>2, <3>3 DEF Renamed
      <4>2. rows'[i].done
        BY <2>1, <2>2, <3>2, <3>3
      <4> QED
        BY <2>2, <4>1, <4>2
    <3>4. CASE j # i
      <4>1. rows[j].name # from
        BY <1>0, <2>2, <3>4 DEF UniqueNames
      <4>2. tasks'[t].status = tasks[t].status
        BY <2>2, <3>1, <3>2, <4>1 DEF Renamed
      <4> QED
        BY <2>2, <3>2, <3>4, <4>2
    <3> QED
      BY <3>3, <3>4
  <2> QED
    BY <2>3 DEF DatedTasks
<1>5. ASSUME NEW i \in DOMAIN rows, NEW from \in Names, Deletes(i, from)
      PROVE  DatedTasks'
  <2>1. /\ DOMAIN rows' = DOMAIN rows \ {i} /\ from = rows[i].name /\ UNCHANGED tasks
        /\ \A j \in DOMAIN rows' : rows'[j] = rows[j]
        /\ \A t \in DOMAIN tasks : tasks[t].status # from
    BY <1>5 DEF Deletes
  <2> QED
    BY <1>a, <2>1 DEF DatedTasks
<1>6. ASSUME NEW id, NEW col, SeedOK(rows', id, col), UNCHANGED tasks,
             \A t \in DOMAIN tasks : tasks[t].status \in PresetNames
      PROVE  DatedTasks'
  <2>1. {rows'[i].name : i \in DOMAIN rows'} = PresetNames
    BY <1>6, SeedRows
  <2>2. \A i \in DOMAIN rows' : rows'[i].done <=> rows'[i].name \in PresetDone
    BY <1>6, SeedRows
  <2>3. ASSUME NEW t \in DOMAIN tasks, tasks[t].completed
        PROVE  tasks[t].status \in PresetNames \cap PresetDone
    BY <1>0, <1>6, <1>a, <2>3 DEF PresetMeaning
  <2> QED
    BY <1>6, <2>1, <2>2, <2>3 DEF DatedTasks
<1> QED
  BY <1>0, <1>1, <1>2, <1>3, <1>4, <1>5, <1>6, RowSteps

\* Among requests that are apart, with the initial flag passed on and never
\* just withdrawn and the preset's names left with their meaning, there is
\* always one initial status and only done tasks carry a completion date.
THEOREM ApartIsSound ==
  KeepsInitial /\ KeepsDone =>
    (Spec /\ []NamesApart /\ []FlagsApart /\ []FamiliesApart => []WorkflowSound)
<1> SUFFICES ASSUME KeepsInitial, KeepsDone
             PROVE  Spec /\ []NamesApart /\ []FlagsApart /\ []FamiliesApart => []WorkflowSound
  OBVIOUS
<1> DEFINE Apart == NamesApart /\ FlagsApart /\ FamiliesApart
<1>1. Init => SoundInv
  <2> SUFFICES ASSUME Init PROVE SoundInv
    OBVIOUS
  <2>1. PresetMeaning
    BY InitSeeds, SeedRows DEF PresetMeaning
  <2>2. DatedTasks
    BY DEF Init, DatedTasks
  <2> QED
    BY <2>1, <2>2, StatusesStart, FlagsStart, FamilyStart DEF SoundInv
<1>2. Apart /\ SoundInv /\ [Next]_vars => SoundInv'
  <2> SUFFICES ASSUME Apart, SoundInv, [Next]_vars PROVE SoundInv'
    OBVIOUS
  <2>1. StatusesInv' /\ FlagsInv' /\ FamilyInv'
    BY StatusesStep, FlagsStep, FamilyStep DEF SoundInv
  <2>2. PresetMeaning' /\ DatedTasks'
    <3>1. CASE UNCHANGED vars
      BY <3>1 DEF vars, SoundInv, PresetMeaning, DatedTasks
    <3>2. CASE Next
      <4>1. PICK r \in Requests : Acts(r)
        BY <3>2, NextActs
      <4> QED
        BY <4>1, MeaningStays, DatesStay DEF SoundInv, FlagsInv
    <3> QED
      BY <3>1, <3>2
  <2> QED
    BY <2>1, <2>2 DEF SoundInv
<1>3. SoundInv => WorkflowSound
  <2> SUFFICES ASSUME SoundInv PROVE WorkflowSound
    OBVIOUS
  <2>1. PICK i \in DOMAIN rows : \A j \in DOMAIN rows : rows[j].initial <=> j = i
    BY DEF SoundInv, FlagsInv, OneInit
  <2>2. InitialIds = {i}
    BY <2>1 DEF InitialIds
  <2>3. OneInitial
    BY <2>2, FS_Singleton DEF OneInitial
  <2>4. CompletedIsDone
    BY DoneIsRow DEF SoundInv, StatusesInv, DatedTasks, TasksHaveStatus, CompletedIsDone
  <2> QED
    BY <2>3, <2>4 DEF WorkflowSound
<1>4. []NamesApart /\ []FlagsApart /\ []FamiliesApart => []Apart
  BY PTL
<1> HIDE DEF Apart
<1> QED
  BY <1>1, <1>2, <1>3, <1>4, PTL DEF Spec

-----------------------------------------------------------------------------

\* One request at a time is the simplest way of being apart.
LEMMA SerialIsApart ==
  (\A r, q \in Requests : r = q) => NamesApart /\ FlagsApart /\ FamiliesApart
  BY DEF NamesApart, FlagsApart, FamiliesApart
=============================================================================
