----------------------------- MODULE ExportRuns -----------------------------
(***************************************************************************)
(* ExportsProcessor: the ExportRun rows on their way from "queued" to      *)
(* "completed" or "failed", with the queue's retries and stalled jobs.     *)
(* Every awaited statement of process() is a step.                         *)
(***************************************************************************)
EXTENDS Naturals, FiniteSets

CONSTANTS Runs,          \* ids of ExportRun rows, which are also the jobs' ids
          Attempts,      \* attempts given to queue.add
          Concurrency,   \* jobs processed at the same time
          MaxFaults,     \* bound: statements that reject
          MaxCrashes     \* bound: workers that die while they hold a job

ASSUME BoundAssumption == /\ Attempts \in Nat \ {0} /\ Concurrency \in Nat \ {0}
                          /\ MaxFaults \in Nat /\ MaxCrashes \in Nat

VARIABLES creator,   \* what the runs' actor may see now
          run,       \* status of each ExportRun row
          job,       \* BullMQ's view of each run's job
          proc,      \* where the processor of each active job is
          faults, crashes

vars == <<creator, run, job, proc, faults, crashes>>

ProcPoint == {"none", "read", "refuse", "begin", "export", "complete", "mail", "fail"}

\* Types; no job is past its last attempt.
TypeOK == /\ creator \in {"ok", "noAccess", "gone"}
          /\ run \in [Runs -> {"none", "queued", "running", "completed", "failed"}]
          /\ job \in [Runs -> [state : {"none", "waiting", "active", "completed", "failed"}, made : 0..Attempts]]
          /\ \A r \in Runs : job[r].made = Attempts => job[r].state = "failed"
          /\ proc \in [Runs -> ProcPoint]
          /\ faults \in 0..MaxFaults /\ crashes \in 0..MaxCrashes

Init == /\ creator = "ok"
        /\ run = [r \in Runs |-> "none"]
        /\ job = [r \in Runs |-> [state |-> "none", made |-> 0]]
        /\ proc = [r \in Runs |-> "none"]
        /\ faults = 0 /\ crashes = 0

-----------------------------------------------------------------------------
\* The actor loses the source, is archived, or gets everything back.
ChangeAccess == /\ creator' \in {"ok", "noAccess", "gone"} \ {creator}
                /\ UNCHANGED <<run, job, proc, faults, crashes>>

\* createRun.
CreateRun(r) == /\ run[r] = "none"
                /\ run' = [run EXCEPT ![r] = "queued"]
                /\ UNCHANGED <<creator, job, proc, faults, crashes>>

\* enqueue: the job has the run's id, so there is one.
Enqueue(r) == /\ run[r] = "queued" /\ job[r].state = "none"
              /\ job' = [job EXCEPT ![r] = [state |-> "waiting", made |-> 0]]
              /\ UNCHANGED <<creator, run, proc, faults, crashes>>

-----------------------------------------------------------------------------
\* ExportsProcessor.process.

ProcAt(r, p) == proc' = [proc EXCEPT ![r] = p]
JobOver(r) == /\ job' = [job EXCEPT ![r].state = "completed"]
              /\ ProcAt(r, "none")
Throw(r) == /\ job' = [job EXCEPT ![r] = [state |-> IF @.made + 1 < Attempts THEN "waiting" ELSE "failed",
                                          made |-> @.made + 1]]
            /\ ProcAt(r, "none")
SetRun(r, s) == run' = [run EXCEPT ![r] = s]

ProcStart(r) == /\ job[r].state = "waiting"
                /\ Cardinality({s \in Runs : job[s].state = "active"}) < Concurrency
                /\ job' = [job EXCEPT ![r].state = "active"]
                /\ ProcAt(r, "read")
                /\ UNCHANGED <<creator, run, faults, crashes>>

\* The run, its schedule and the actor are read.
ProcRead(r) == /\ proc[r] = "read"
               /\ ProcAt(r, IF creator = "gone" THEN "refuse" ELSE "begin")
               /\ UNCHANGED <<creator, run, job, faults, crashes>>

ProcRefuse(r) == /\ proc[r] = "refuse"
                 /\ SetRun(r, "failed") /\ JobOver(r)
                 /\ UNCHANGED <<creator, faults, crashes>>

ProcBegin(r) == /\ proc[r] = "begin"
                /\ SetRun(r, "running") /\ ProcAt(r, "export")
                /\ UNCHANGED <<creator, job, faults, crashes>>

\* The rows are loaded with the actor's rights, the file is written.
ProcExport(r) == /\ proc[r] = "export"
                 /\ ProcAt(r, IF creator = "ok" THEN "complete" ELSE "fail")
                 /\ UNCHANGED <<creator, run, job, faults, crashes>>

ProcComplete(r) == /\ proc[r] = "complete"
                   /\ SetRun(r, "completed") /\ ProcAt(r, "mail")
                   /\ UNCHANGED <<creator, job, faults, crashes>>

\* MUTANT of ProcMail: a rejected mail fails the export.
ProcMailRethrows(r) == /\ proc[r] = "mail"
                       /\ \/ JobOver(r)
                          \/ ProcAt(r, "fail") /\ UNCHANGED job
                       /\ UNCHANGED <<creator, run, faults, crashes>>

\* The mail with the link is sent or its failure logged; the job is done.
ProcMail(r) == /\ proc[r] = "mail"
               /\ JobOver(r)
               /\ UNCHANGED <<creator, run, faults, crashes>>

\* MUTANT of ProcFail: the status is left at "running".
ProcFailSilent(r) == /\ proc[r] = "fail"
                     /\ Throw(r)
                     /\ UNCHANGED <<creator, run, faults, crashes>>

\* The catch block: the run is failed, the error rethrown to the queue.
ProcFail(r) == /\ proc[r] = "fail"
               /\ SetRun(r, "failed") /\ Throw(r)
               /\ UNCHANGED <<creator, faults, crashes>>

\* A statement rejects: inside the try block the catch is next.
ProcFault(r) == /\ proc[r] \notin {"none", "mail"}
                /\ faults < MaxFaults /\ faults' = faults + 1
                /\ IF proc[r] \in {"export", "complete"}
                     THEN ProcAt(r, "fail") /\ UNCHANGED job
                     ELSE Throw(r)
                /\ UNCHANGED <<creator, run, crashes>>

\* MUTANT of ProcCrash: a stalled job is counted as two attempts.
ProcCrashCounts(r) == /\ proc[r] # "none"
                      /\ crashes < MaxCrashes /\ crashes' = crashes + 1
                      /\ job' = [job EXCEPT ![r] = [state |-> "waiting", made |-> @.made + 2]]
                      /\ ProcAt(r, "none")
                      /\ UNCHANGED <<creator, run, faults>>

\* The worker dies; the queue hands the stalled job out again.
ProcCrash(r) == /\ proc[r] # "none"
                /\ crashes < MaxCrashes /\ crashes' = crashes + 1
                /\ job' = [job EXCEPT ![r].state = "waiting"]
                /\ ProcAt(r, "none")
                /\ UNCHANGED <<creator, run, faults>>

-----------------------------------------------------------------------------
Process(r) == \/ ProcStart(r) \/ ProcRead(r) \/ ProcRefuse(r) \/ ProcBegin(r) \/ ProcExport(r)
              \/ ProcComplete(r) \/ ProcMail(r) \/ ProcFail(r)

Next == \/ ChangeAccess
        \/ \E r \in Runs : CreateRun(r) \/ Enqueue(r) \/ Process(r) \/ ProcFault(r) \/ ProcCrash(r)

\* Workers keep taking jobs and their statements are answered.
Spec == Init /\ [][Next]_vars /\ \A r \in Runs : WF_vars(Process(r))

-----------------------------------------------------------------------------
\* An export that is completed stays so, whatever its mail does: only the
\* death of its worker makes the queue run it again.
CompletedStays ==
    [][\A r \in Runs : run[r] = "completed" => run'[r] = "completed" \/ crashes' > 0]_vars

\* Through retries, rejected statements and dead workers the queue always
\* comes to a point where no export it was given hangs: each is completed or
\* failed, or has used its attempts, the last on a write that was rejected.
ExportsSettle ==
    []<>(\A r \in Runs : \/ job[r].state = "none"
                         \/ run[r] \in {"completed", "failed"} /\ proc[r] = "none"
                         \/ job[r].made = Attempts /\ faults > 0)

\* What ExportsProcessor.process promises of a run (exports.processor.ts).
ExportsEndOnce == CompletedStays /\ ExportsSettle
=============================================================================
