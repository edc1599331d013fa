------------------------------ MODULE Imports -------------------------------
(***************************************************************************)
(* CSV imports: one ImportRun row, the tasks its rows become, and the      *)
(* requests (commit, then any number of resumes) that drive it through     *)
(* ImportService.runPlans.  Every awaited statement is a step and may be   *)
(* rejected; a replica may die between two of them.                        *)
(*                                                                         *)
(* Rows are numbered from 1, so resumableFromRow = k stands for the        *)
(* code's 0-based k - 1 and says "rows 1..k are skipped by a resume".      *)
(***************************************************************************)
EXTENDS Integers, Functions

CONSTANTS Rows,          \* number of plans parsed from the CSV
          Requests,      \* commit and resume requests
          RowLocal,      \* whether a row may fail and a later one succeed
          MaxFails,      \* bound: rows whose tasks.create rejects
          MaxFaults,     \* bound: statements on the run row that reject
          MaxCrashes     \* bound: requests that die with their replica

ASSUME RowsAssumption == Rows \in Nat \ {0}
ASSUME BoundAssumption == /\ RowLocal \in BOOLEAN
                          /\ MaxFails \in Nat
                          /\ MaxFaults \in Nat
                          /\ MaxCrashes \in Nat

VARIABLES run,       \* the ImportRun row
          tasks,     \* how many tasks each row has become
          req,       \* the requests in flight
          raced,     \* a request started its loop while another was in flight
          fails, faults, crashes

vars == <<run, tasks, req, raced, fails, faults, crashes>>

NoPoint == -1       \* resumableFromRow is null

Status == {"none", "running", "succeeded", "failed"}
Point == {"idle", "mark", "skip", "row", "count", "bucket", "point", "finish", "clear",
          "rescue", "fail"}

Idle == [at |-> "idle", i |-> 1, last |-> 0, errors |-> FALSE, down |-> FALSE]

\* Types; a request never works on a row past the end.
TypeOK == /\ run \in [status : Status, from : NoPoint..Rows, created : Nat]
          /\ tasks \in [1..Rows -> Nat]
          /\ req \in [Requests -> [at : Point, i : 1..(Rows + 1), last : 0..Rows,
                                   errors : BOOLEAN, down : BOOLEAN]]
          /\ \A q \in Requests : req[q].at \in {"row", "count", "bucket"} => req[q].last <= req[q].i
          /\ raced \in BOOLEAN
          /\ fails \in 0..MaxFails /\ faults \in 0..MaxFaults /\ crashes \in 0..MaxCrashes

Init == /\ run = [status |-> "none", from |-> NoPoint, created |-> 0]
        /\ tasks = [r \in 1..Rows |-> 0]
        /\ req = [q \in Requests |-> Idle]
        /\ raced = FALSE
        /\ fails = 0 /\ faults = 0 /\ crashes = 0

-----------------------------------------------------------------------------
At(q, p) == req[q].at = p
Goto(q, p) == req' = [req EXCEPT ![q].at = p]
Stop(q) == req' = [req EXCEPT ![q] = Idle]
Others(q) == {o \in Requests \ {q} : ~At(o, "idle")}

\* The head of the row loop: the next row, or what follows the loop.
NextRow(i) == IF i > Rows THEN "finish" ELSE "row"

\* runPlans begins: rows up to k count as already done.
Begin(q, p, k) == /\ req' = [req EXCEPT ![q] = [at |-> p, i |-> k + 1, last |-> k,
                                                errors |-> FALSE, down |-> FALSE]]
                  /\ raced' = (raced \/ Others(q) # {})

\* commit: every row has been validated, the run row is written.
Commit(q) == /\ run.status = "none"
             /\ run' = [status |-> "running", from |-> NoPoint, created |-> 0]
             /\ Begin(q, "skip", 0)
             /\ UNCHANGED <<tasks, fails, faults, crashes>>

\* The counter of the empty rows.
Skip(q) == /\ At(q, "skip")
           /\ Goto(q, NextRow(req[q].i))
           /\ UNCHANGED <<run, tasks, raced, fails, faults, crashes>>

\* resume, first half: the run is read and found resumable.
ResumeLoad(q) == /\ At(q, "idle")
                 /\ run.status = "failed" /\ run.from # NoPoint
                 /\ req' = [req EXCEPT ![q] = [at |-> "mark", i |-> 1, last |-> run.from,
                                               errors |-> FALSE, down |-> FALSE]]
                 /\ UNCHANGED <<run, tasks, raced, fails, faults, crashes>>

\* resume, second half: the run is marked running, whatever its status is by
\* now, and replayed from the row after the point that was read.
ResumeMark(q) == /\ At(q, "mark")
                 /\ run' = [run EXCEPT !.status = "running"]
                 /\ Begin(q, NextRow(req[q].last + 1), req[q].last)
                 /\ UNCHANGED <<tasks, fails, faults, crashes>>

\* MUTANT of CreateOk: the counter is advanced before the task is there.
CreateOkCountsFirst(q) == /\ At(q, "row") /\ (RowLocal \/ ~req[q].down)
                          /\ run' = [run EXCEPT !.created = @ + 1]
                          /\ Goto(q, "count")
                          /\ UNCHANGED <<tasks, raced, fails, faults, crashes>>

\* MUTANT of CreateOk: lastSuccessIndex does not move.
CreateOkKeepsLast(q) == /\ At(q, "row") /\ (RowLocal \/ ~req[q].down)
                        /\ tasks' = [tasks EXCEPT ![req[q].i] = @ + 1]
                        /\ Goto(q, "count")
                        /\ UNCHANGED <<run, raced, fails, faults, crashes>>

\* tasks.create succeeds: lastSuccessIndex moves before the counter does.
CreateOk(q) == /\ At(q, "row") /\ (RowLocal \/ ~req[q].down)
               /\ tasks' = [tasks EXCEPT ![req[q].i] = @ + 1]
               /\ req' = [req EXCEPT ![q].at = "count", ![q].last = req[q].i]
               /\ UNCHANGED <<run, raced, fails, faults, crashes>>

\* tasks.create rejects.  Unless RowLocal, the reason (an archived project, a
\* lost role, an outage) lasts for the rest of the request.
CreateFails(q) == /\ At(q, "row")
                  /\ req[q].down \/ fails < MaxFails
                  /\ fails' = IF req[q].down THEN fails ELSE fails + 1
                  /\ req' = [req EXCEPT ![q].at = "bucket", ![q].errors = TRUE, ![q].down = ~RowLocal]
                  /\ UNCHANGED <<run, tasks, raced, faults, crashes>>

\* runs.increment(created).
CountCreated(q) == /\ At(q, "count")
                   /\ run' = [run EXCEPT !.created = @ + 1]
                   /\ req' = [req EXCEPT ![q].at = NextRow(req[q].i + 1), ![q].i = @ + 1]
                   /\ UNCHANGED <<tasks, raced, fails, faults, crashes>>

\* runs.increment(errored).
CountErrored(q) == /\ At(q, "bucket")
                   /\ Goto(q, "point")
                   /\ UNCHANGED <<run, tasks, raced, fails, faults, crashes>>

\* MUTANT of SavePoint: the failed row is recorded as the last one done.
SavePointAtFailure(q) == /\ At(q, "point")
                         /\ run' = [run EXCEPT !.from = req[q].i]
                         /\ req' = [req EXCEPT ![q].at = NextRow(req[q].i + 1), ![q].i = @ + 1]
                         /\ UNCHANGED <<tasks, raced, fails, faults, crashes>>

\* The resume point of a failed row: written on every failure, not only on
\* the first, and from the last row that succeeded so far.
SavePoint(q) == /\ At(q, "point")
                /\ run' = [run EXCEPT !.from = req[q].last]
                /\ req' = [req EXCEPT ![q].at = NextRow(req[q].i + 1), ![q].i = @ + 1]
                /\ UNCHANGED <<tasks, raced, fails, faults, crashes>>

\* MUTANT of Finish: the verdict ignores the rows that failed.
FinishGreen(q) == /\ At(q, "finish")
                  /\ run' = [run EXCEPT !.status = "succeeded"]
                  /\ Goto(q, "clear")
                  /\ UNCHANGED <<tasks, raced, fails, faults, crashes>>

\* runs.finish: any failed row makes the run failed.
Finish(q) == /\ At(q, "finish")
             /\ run' = [run EXCEPT !.status = IF req[q].errors THEN "failed" ELSE "succeeded"]
             /\ IF req[q].errors THEN Stop(q) ELSE Goto(q, "clear")
             /\ UNCHANGED <<tasks, raced, fails, faults, crashes>>

\* A green run forgets its resume point.
ClearPoint(q) == /\ At(q, "clear")
                 /\ run' = [run EXCEPT !.from = NoPoint]
                 /\ Stop(q)
                 /\ UNCHANGED <<tasks, raced, fails, faults, crashes>>

\* The outer catch, first statement: the resume point.
Rescue(q) == /\ At(q, "rescue")
             /\ run' = [run EXCEPT !.from = req[q].last]
             /\ Goto(q, "fail")
             /\ UNCHANGED <<tasks, raced, fails, faults, crashes>>

\* The outer catch, second statement: the run is failed, the error rethrown.
Fail(q) == /\ At(q, "fail")
           /\ run' = [run EXCEPT !.status = "failed"]
           /\ Stop(q)
           /\ UNCHANGED <<tasks, raced, fails, faults, crashes>>

\* MUTANT of Caught: a statement of a row's catch block ends the request.
CaughtNotTwice(p) == CASE p = "count" -> "bucket"
                       [] p \in {"skip", "finish", "clear"} -> "rescue"
                       [] OTHER -> "idle"

\* Where a rejected statement at p leads: the row's catch, the outer catch,
\* or out of the request.
Caught(p) == CASE p = "count" -> "bucket"
               [] p \in {"skip", "bucket", "point", "finish", "clear"} -> "rescue"
               [] OTHER -> "idle"

\* The database rejects the statement the request is at.
Reject(q) == /\ req[q].at \in Point \ {"idle", "row"}
             /\ faults < MaxFaults /\ faults' = faults + 1
             /\ LET p == Caught(req[q].at) IN
                IF p = "idle" THEN Stop(q) ELSE req' = [req EXCEPT ![q].at = p, ![q].errors = TRUE]
             /\ UNCHANGED <<run, tasks, raced, fails, crashes>>

\* The replica dies: nothing picks the run up again.
Crash(q) == /\ ~At(q, "idle")
            /\ crashes < MaxCrashes /\ crashes' = crashes + 1
            /\ Stop(q)
            /\ UNCHANGED <<run, tasks, raced, fails, faults>>

Step(q) == \/ Skip(q) \/ ResumeMark(q) \/ CreateOk(q) \/ CreateFails(q) \/ CountCreated(q)
           \/ CountErrored(q) \/ SavePoint(q) \/ Finish(q) \/ ClearPoint(q)
           \/ Rescue(q) \/ Fail(q)

Next == \E q \in Requests : Commit(q) \/ ResumeLoad(q) \/ Step(q) \/ Reject(q) \/ Crash(q)

\* A request that is running goes on running: its statements are answered.
\* Nobody has to start or resume an import.
Fairness == \A q \in Requests : WF_vars(Step(q))

Spec == Init /\ [][Next]_vars /\ Fairness

-----------------------------------------------------------------------------
\* resume skips the rows up to resumableFromRow "since those rows succeeded
\* the first time around": each of them is a task, through every mixture of
\* failed rows, failed statements, crashes and overlapping resumes.
SkippedSucceeded == \A r \in 1..run.from : tasks[r] > 0

\* A run that says it succeeded has imported every row.
SucceededComplete == run.status = "succeeded" => \A r \in 1..Rows : tasks[r] > 0

\* "partial-fail runs don't have to re-do completed inserts": as long as the
\* run row can be written and resumes do not overlap, no row becomes two tasks.
NoRowTwice == faults = 0 /\ ~raced => \A r \in 1..Rows : tasks[r] <= 1

\* The progress bar never counts a task that is not there.
CreatedCovered == run.created <= FoldFunction(+, 0, tasks)

\* One rejected statement never leaves a run in "running": the row's catch and
\* the outer catch between them see it through.
RunSettles == run.status = "running" ~> (run.status # "running" \/ faults > 1 \/ crashes > 0)

\* Tasks and counters agree with the rows: none is imported twice, and the
\* progress bar counts only what is there.
RowsCounted == NoRowTwice /\ CreatedCovered
=============================================================================
