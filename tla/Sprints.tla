------------------------------- MODULE Sprints -------------------------------
(***************************************************************************)
(* The sprints of one project (SprintsService), the tasks planned in them  *)
(* and the membership history that burndown reads.                         *)
(*                                                                         *)
(* Task.sprintId says where a task is now; SprintTaskMembership is an      *)
(* append-only history whose open rows (removedAt null) should say the     *)
(* same.  Each handler checks the sprint's state in one statement and      *)
(* writes in a later one, so requests in flight interleave.                *)
(***************************************************************************)
EXTENDS Naturals, FiniteSets, FiniteSetsExt

CONSTANTS Requests,    \* requests that can be in flight at the same time
          MaxSprints,  \* bound: sprints ever created, numbered by createdAt
          Tasks,       \* the project's tasks
          Statuses,    \* the statuses they take
          Design,      \* the project's preset is "design"
          Readd,       \* clients also add tasks that already are in a sprint
          MaxOpen      \* bound: open membership rows per sprint and task

ASSUME SprintBounds == /\ MaxSprints \in Nat /\ MaxOpen \in Nat \ {0}
                       /\ {Design, Readd} \subseteq BOOLEAN

VARIABLES state,    \* each sprint's state; "none" before create or after delete
          created,  \* number of sprints created so far
          sprint,   \* sprintId of each task, 0 for the backlog
          status,   \* status of each task
          open,     \* open membership rows, per sprint and task
          patched,  \* history: tasks moved through the task endpoint
          req       \* requests in flight

vars == <<state, created, sprint, status, open, patched, req>>

SprintIds == 1..MaxSprints
Backlog == 0
Exists(s) == s \in SprintIds /\ state[s] # "none"

Idle == [op |-> "idle"]
Free(r) == req[r] = Idle
Continue(r, q) == req' = [req EXCEPT ![r] = q]
Return(r) == Continue(r, Idle)

\* Types, and the foreign key of Task.sprintId.
TypeOK ==
  /\ state \in [SprintIds -> {"none", "planned", "active", "completed"}]
  /\ created \in 0..MaxSprints
  /\ sprint \in [Tasks -> 0..MaxSprints]
  /\ \A t \in Tasks : sprint[t] # Backlog => Exists(sprint[t])
  /\ status \in [Tasks -> Statuses]
  /\ open \in [SprintIds -> [Tasks -> 0..MaxOpen]]
  /\ patched \subseteq Tasks
  /\ req \in [Requests -> {Idle}
                \cup [op : {"start"}, s : SprintIds]
                \cup [op : {"complete"}, s : SprintIds, dest : {"backlog", "next"}]
                \cup [op : {"add"}, s : SprintIds, ids : SUBSET Tasks]
                \cup [op : {"remove"}, s : SprintIds, t : Tasks]]

Init == /\ state = [s \in SprintIds |-> "none"]
        /\ created = 0
        /\ sprint = [t \in Tasks |-> Backlog]
        /\ status \in [Tasks -> Statuses]
        /\ open = [s \in SprintIds |-> [t \in Tasks |-> 0]]
        /\ patched = {}
        /\ req = [r \in Requests |-> Idle]

-----------------------------------------------------------------------------

\* create: planned, after every sprint created before.
Create(r) == /\ Free(r)
             /\ created < MaxSprints
             /\ created' = created + 1
             /\ state' = [state EXCEPT ![created + 1] = "planned"]
             /\ UNCHANGED <<sprint, status, open, patched, req>>

\* Mutant: the planned check is missing.
StartLoadAny(r) == /\ Free(r)
                   /\ \E s \in SprintIds : /\ Exists(s)
                                           /\ Continue(r, [op |-> "start", s |-> s])
                   /\ UNCHANGED <<state, created, sprint, status, open, patched>>

\* start: the sprint is planned when it is read.
StartLoad(r) == /\ Free(r)
                /\ \E s \in SprintIds : /\ state[s] = "planned"
                                        /\ Continue(r, [op |-> "start", s |-> s])
                /\ UNCHANGED <<state, created, sprint, status, open, patched>>

\* Mutant: no such index.
IndexAllowsAll(s) == TRUE

\* The partial unique index on the active sprint of a project.
IndexAllows(s) == \A u \in SprintIds \ {s} : state[u] # "active"

\* The update; P2002 (another active sprint) and P2025 (deleted) reject it.
StartWrite(r) == /\ req[r].op = "start"
                 /\ LET s == req[r].s IN
                    state' = IF Exists(s) /\ IndexAllows(s)
                               THEN [state EXCEPT ![s] = "active"] ELSE state
                 /\ Return(r)
                 /\ UNCHANGED <<created, sprint, status, open, patched>>

\* complete: the sprint is active when it is read.
CompleteLoad(r) == /\ Free(r)
                   /\ \E s \in SprintIds, dest \in {"backlog", "next"} :
                        /\ state[s] = "active"
                        /\ Continue(r, [op |-> "complete", s |-> s, dest |-> dest])
                   /\ UNCHANGED <<state, created, sprint, status, open, patched>>

\* doneFilter of the preset; the branch for the next sprint spells its own.
DoneFilter == IF Design THEN {"Approved", "Done"} ELSE {"Done"}
NextFilter == {"Done", "Approved"}

Planned == {s \in SprintIds : state[s] = "planned"}
NextPlanned == IF Planned = {} THEN Backlog ELSE Min(Planned)

\* Mutant: the filter is inverted.
LeavingDone(s, filter) == {t \in Tasks : sprint[t] = s /\ status[t] \in filter}

\* The sprint's tasks whose status is not in the filter.
Leaving(s, filter) == {t \in Tasks : sprint[t] = s /\ status[t] \notin filter}

\* The transaction: incomplete tasks leave, their memberships are closed here
\* and opened in the next sprint, and the sprint is completed.
CompleteCommit(r) ==
  /\ req[r].op = "complete"
  /\ LET s == req[r].s
         moving == Leaving(s, DoneFilter)
         next == IF req[r].dest = "backlog" THEN Backlog ELSE NextPlanned
         leaving == IF req[r].dest = "backlog" THEN moving ELSE Leaving(s, NextFilter)
     IN  IF Exists(s)
           THEN /\ \A t \in moving : next # Backlog => open[next][t] < MaxOpen
                /\ sprint' = [t \in Tasks |-> IF t \in leaving THEN next ELSE sprint[t]]
                /\ open' = [u \in SprintIds |-> [t \in Tasks |->
                              IF t \notin moving THEN open[u][t]
                              ELSE IF u = s THEN 0
                              ELSE IF u = next THEN open[u][t] + 1 ELSE open[u][t]]]
                /\ state' = [state EXCEPT ![s] = "completed"]
           ELSE UNCHANGED <<state, sprint, open>>
  /\ Return(r)
  /\ UNCHANGED <<created, status, patched>>

\* delete: the tasks fall back to the backlog, the memberships go too.
DeleteSprint(r) ==
  /\ Free(r)
  /\ \E s \in SprintIds :
       /\ Exists(s)
       /\ state' = [state EXCEPT ![s] = "none"]
       /\ sprint' = [t \in Tasks |-> IF sprint[t] = s THEN Backlog ELSE sprint[t]]
       /\ open' = [open EXCEPT ![s] = [t \in Tasks |-> 0]]
  /\ UNCHANGED <<created, status, patched, req>>

\* Mutant: the completed check is missing.
AddLoadAny(r) == /\ Free(r)
                 /\ \E s \in SprintIds, ids \in (SUBSET Tasks) \ {{}} :
                      /\ Exists(s)
                      /\ Readd \/ \A t \in ids : sprint[t] = Backlog
                      /\ Continue(r, [op |-> "add", s |-> s, ids |-> ids])
                 /\ UNCHANGED <<state, created, sprint, status, open, patched>>

\* addTasks: the sprint is not completed, the tasks exist in its project.
AddLoad(r) == /\ Free(r)
              /\ \E s \in SprintIds, ids \in (SUBSET Tasks) \ {{}} :
                   /\ state[s] \in {"planned", "active"}
                   /\ Readd \/ \A t \in ids : sprint[t] = Backlog
                   /\ Continue(r, [op |-> "add", s |-> s, ids |-> ids])
              /\ UNCHANGED <<state, created, sprint, status, open, patched>>

\* Mutant: an id listed twice gets two rows.
AddCommitTwice(r) ==
  /\ req[r].op = "add"
  /\ LET s == req[r].s IN
     IF Exists(s)
       THEN /\ sprint' = [t \in Tasks |-> IF t \in req[r].ids THEN s ELSE sprint[t]]
            /\ open' = [open EXCEPT ![s] = [t \in Tasks |->
                          IF t \in req[r].ids THEN 2 ELSE open[s][t]]]
       ELSE UNCHANGED <<sprint, open>>
  /\ Return(r)
  /\ UNCHANGED <<state, created, status, patched>>

\* The transaction: sprintId and a new open membership row per task.
AddCommit(r) ==
  /\ req[r].op = "add"
  /\ LET s == req[r].s IN
     IF Exists(s)
       THEN /\ \A t \in req[r].ids : open[s][t] < MaxOpen
            /\ sprint' = [t \in Tasks |-> IF t \in req[r].ids THEN s ELSE sprint[t]]
            /\ open' = [open EXCEPT ![s] = [t \in Tasks |->
                          IF t \in req[r].ids THEN open[s][t] + 1 ELSE open[s][t]]]
       ELSE UNCHANGED <<sprint, open>>
  /\ Return(r)
  /\ UNCHANGED <<state, created, status, patched>>

\* removeTask: the task is in this sprint, which is not completed.
RemoveLoad(r) == /\ Free(r)
                 /\ \E t \in Tasks : /\ Exists(sprint[t])
                                     /\ state[sprint[t]] # "completed"
                                     /\ Continue(r, [op |-> "remove", s |-> sprint[t], t |-> t])
                 /\ UNCHANGED <<state, created, sprint, status, open, patched>>

\* Mutant: the membership stays open.
RemoveKeepsOpen(r) == /\ req[r].op = "remove"
                      /\ sprint' = [sprint EXCEPT ![req[r].t] = Backlog]
                      /\ Return(r)
                      /\ UNCHANGED <<state, created, status, open, patched>>

\* The transaction: out of any sprint, and its memberships of this one closed.
RemoveCommit(r) == /\ req[r].op = "remove"
                   /\ sprint' = [sprint EXCEPT ![req[r].t] = Backlog]
                   /\ open' = [open EXCEPT ![req[r].s][req[r].t] = 0]
                   /\ Return(r)
                   /\ UNCHANGED <<state, created, status, patched>>

-----------------------------------------------------------------------------
\* TasksService, as far as sprints see it.

\* update with a sprintId: the column is written as it comes.
UpdateSprintId(r) == /\ Free(r)
                     /\ \E t \in Tasks, s \in SprintIds \cup {Backlog} :
                          /\ s = Backlog \/ Exists(s)
                          /\ sprint' = [sprint EXCEPT ![t] = s]
                          /\ patched' = patched \cup {t}
                     /\ UNCHANGED <<state, created, status, open, req>>

ChangeStatus(r) == /\ Free(r)
                   /\ \E t \in Tasks, v \in Statuses : status' = [status EXCEPT ![t] = v]
                   /\ UNCHANGED <<state, created, sprint, open, patched, req>>

\* A statement rejects or the replica dies before the write.
Abort(r) == /\ ~Free(r)
            /\ Return(r)
            /\ UNCHANGED <<state, created, sprint, status, open, patched>>

Next == \E r \in Requests :
  \/ Create(r) \/ StartLoad(r) \/ StartWrite(r) \/ CompleteLoad(r) \/ CompleteCommit(r)
  \/ DeleteSprint(r) \/ AddLoad(r) \/ AddCommit(r) \/ RemoveLoad(r) \/ RemoveCommit(r)
  \/ UpdateSprintId(r) \/ ChangeStatus(r) \/ Abort(r)

Spec == Init /\ [][Next]_vars

-----------------------------------------------------------------------------

\* A project has at most one active sprint, however many starts race.
OneActive == Cardinality({s \in SprintIds : state[s] = "active"}) <= 1

\* A membership row is open exactly while its task is in its sprint, for the
\* tasks only ever moved through the sprint endpoints.
MembershipMatches ==
  \A s \in SprintIds, t \in Tasks \ patched : (open[s][t] > 0) <=> (sprint[t] = s)

\* Rows do not stack up: one open row per sprint and task.
OneOpenRow == \A s \in SprintIds, t \in Tasks \ patched : open[s][t] <= 1

\* A sprint is started once and completed once: it never goes back.
Lifecycle(s) ==
  state[s] # state'[s] =>
    \/ <<state[s], state'[s]>> \in {<<"none", "planned">>, <<"planned", "active">>,
                                    <<"active", "completed">>}
    \/ state'[s] = "none"

\* Completing a sprint leaves only done tasks in it.
IncompleteMovedOut(s) ==
  state[s] = "active" /\ state'[s] = "completed" =>
    \A t \in Tasks : sprint'[t] = s => status[t] \in DoneFilter

\* No task enters the completed sprint s, except through the task endpoint,
\* which does not look at the sprint's state.
NobodyEnters(s) ==
  state[s] = "completed" =>
    \A t \in Tasks \ patched' : sprint'[t] = s => sprint[t] = s

\* A completed sprint is history: it got there by its lifecycle, left its
\* unfinished tasks behind on the way, and no task joins it afterwards.
CompletedSealed ==
  [][\A s \in SprintIds : Lifecycle(s) /\ IncompleteMovedOut(s) /\ NobodyEnters(s)]_vars

\* The membership history is the history of the tasks' sprints: the open rows
\* say where each task is, and there is one per sprint and task.
MembershipHistory == MembershipMatches /\ OneOpenRow
=============================================================================
