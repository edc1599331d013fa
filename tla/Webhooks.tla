------------------------------ MODULE Webhooks ------------------------------
(***************************************************************************)
(* Outbound webhooks: one registered hook, the delivery rows and the       *)
(* BullMQ queue between OutboundWebhooksService and the delivery processor *)
(* of each replica.                                                        *)
(*                                                                         *)
(* Every awaited statement of the processor is a step.  The statements it  *)
(* makes inside its try block (inTry) fall into the network-error path     *)
(* when the database rejects them; the others fail the attempt.            *)
(***************************************************************************)
EXTENDS Naturals, FiniteSets

CONSTANTS Deliveries,       \* ids of WebhookDelivery rows, and of their jobs
          Concurrency,      \* jobs processed at the same time (replicas)
          RetryAttempts,    \* RETRY_ATTEMPTS
          Threshold,        \* AUTO_DISABLE_THRESHOLD
          Edits,            \* patch.enabled of the updates
          CanRemove,        \* whether the hook may be deleted
          MaxFaults,        \* bound: statements that reject
          MaxCrashes        \* bound: workers that die while they hold a job

ASSUME BoundAssumption == /\ RetryAttempts \in Nat \ {0}
                          /\ Threshold \in Nat \ {0}
                          /\ Concurrency \in Nat \ {0}
                          /\ MaxFaults \in Nat
                          /\ MaxCrashes \in Nat
ASSUME EditAssumption == Edits \subseteq {"on", "off", "absent"} /\ CanRemove \in BOOLEAN

VARIABLES hook,      \* the OutboundWebhook row: exists, enabled, failures
          row,       \* status of each WebhookDelivery row
          job,       \* BullMQ's view of each job, with attemptsMade
          pc,        \* where the processor of each active job is
          edit,      \* the update request in flight: what it will write
          posts,     \* HTTP posts made for each delivery
          flips,     \* times the hook was disabled automatically
          notices,   \* OutboundWebhookDisabled notifications attempted
          faults, crashes

vars == <<hook, row, job, pc, edit, posts, flips, notices, faults, crashes>>

RowState == {"none", "pending", "success", "failed", "dropped"}
JobState == {"none", "adding", "waiting", "active", "completed", "failed"}
Point == {"none", "read", "drop", "fetch", "rowOk", "hookOk", "rowRejected", "retry",
          "count", "flip", "notify"}
NoEdit == [enabled |-> FALSE, reset |-> FALSE, busy |-> FALSE]

\* Types; no job is ever past its last attempt.
TypeOK == /\ hook \in [exists : BOOLEAN, enabled : BOOLEAN, failures : Nat]
          /\ row \in [Deliveries -> RowState]
          /\ job \in [Deliveries -> [state : JobState, made : 0..RetryAttempts]]
          /\ pc \in [Deliveries -> [at : Point, inTry : BOOLEAN, resp : {"none", "ok", "rejected", "retryable"}]]
          /\ edit \in [enabled : BOOLEAN, reset : BOOLEAN, busy : BOOLEAN]
          /\ posts \in [Deliveries -> Nat]
          /\ flips \in Nat /\ notices \in Nat
          /\ faults \in 0..MaxFaults /\ crashes \in 0..MaxCrashes

Out == [at |-> "none", inTry |-> FALSE, resp |-> "none"]

Init == /\ hook = [exists |-> TRUE, enabled |-> TRUE, failures |-> 0]
        /\ row = [d \in Deliveries |-> "none"]
        /\ job = [d \in Deliveries |-> [state |-> "none", made |-> 0]]
        /\ pc = [d \in Deliveries |-> Out]
        /\ edit = NoEdit
        /\ posts = [d \in Deliveries |-> 0]
        /\ flips = 0 /\ notices = 0 /\ faults = 0 /\ crashes = 0

-----------------------------------------------------------------------------
\* Moves of one delivery's processor and job.

At(d, p) == pc[d].at = p
Goto(d, p) == pc' = [pc EXCEPT ![d].at = p]
SetJob(d, s, m) == job' = [job EXCEPT ![d] = [state |-> s, made |-> m]]

\* process() returns: the job is done.
Complete(d) == /\ SetJob(d, "completed", job[d].made)
               /\ pc' = [pc EXCEPT ![d] = Out]

\* process() throws: BullMQ runs the job again until its attempts are used up.
Throw(d) == /\ SetJob(d, IF job[d].made + 1 >= RetryAttempts THEN "failed" ELSE "waiting",
                      job[d].made + 1)
            /\ pc' = [pc EXCEPT ![d] = Out]

\* A database statement of process() rejects at this point.
Reject(d) == IF pc[d].inTry
               THEN /\ pc' = [pc EXCEPT ![d].at = "retry", ![d].inTry = FALSE]
                    /\ UNCHANGED job
               ELSE Throw(d)

-----------------------------------------------------------------------------
\* The service: events, test deliveries, re-deliveries.

\* enqueueForEvent for an enabled hook, testFire and redeliver for any: the
\* pending row is written before the job is added.
CreateDelivery(d) == /\ row[d] = "none" /\ job[d].state = "none"
                     /\ hook.exists
                     /\ row' = [row EXCEPT ![d] = "pending"]
                     /\ SetJob(d, "adding", 0)
                     /\ UNCHANGED <<hook, pc, edit, posts, flips, notices, faults, crashes>>

AddJob(d) == /\ job[d].state = "adding"
             /\ SetJob(d, "waiting", 0)
             /\ UNCHANGED <<hook, row, pc, edit, posts, flips, notices, faults, crashes>>

\* queue.add answers that the job id exists: the row is dropped again.
AddDuplicate(d) == /\ job[d].state = "adding"
                   /\ row' = [row EXCEPT ![d] = "none"]
                   /\ SetJob(d, "completed", 0)
                   /\ UNCHANGED <<hook, pc, edit, posts, flips, notices, faults, crashes>>

\* queue.add rejects for any other reason: the error is logged or returned,
\* the pending row stays.
AddFails(d) == /\ job[d].state = "adding"
               /\ faults < MaxFaults /\ faults' = faults + 1
               /\ SetJob(d, "failed", 0)
               /\ UNCHANGED <<hook, row, pc, edit, posts, flips, notices, crashes>>

\* update, first half: the row is read, the patch merged over it.
UpdateLoad == /\ hook.exists /\ ~edit.busy
              /\ \E p \in Edits :
                   LET merged == IF p = "absent" THEN hook.enabled ELSE p = "on" IN
                   edit' = [enabled |-> merged, reset |-> ~hook.enabled /\ merged, busy |-> TRUE]
              /\ UNCHANGED <<hook, row, job, pc, posts, flips, notices, faults, crashes>>

\* update, second half: every column is written from the merged values.
UpdateWrite == /\ edit.busy
               /\ hook' = IF hook.exists
                            THEN [hook EXCEPT !.enabled = edit.enabled,
                                              !.failures = IF edit.reset THEN 0 ELSE @]
                            ELSE hook
               /\ edit' = NoEdit
               /\ UNCHANGED <<row, job, pc, posts, flips, notices, faults, crashes>>

\* remove: the delivery rows go with the hook.
Remove == /\ CanRemove /\ hook.exists
          /\ hook' = [hook EXCEPT !.exists = FALSE, !.enabled = FALSE]
          /\ row' = [d \in Deliveries |-> "none"]
          /\ UNCHANGED <<job, pc, edit, posts, flips, notices, faults, crashes>>

-----------------------------------------------------------------------------
\* The processor.

Start(d) == /\ job[d].state = "waiting"
            /\ Cardinality({e \in Deliveries : job[e].state = "active"}) < Concurrency
            /\ SetJob(d, "active", job[d].made)
            /\ Goto(d, "read")
            /\ UNCHANGED <<hook, row, edit, posts, flips, notices, faults, crashes>>

ReadHook(d) == /\ At(d, "read")
               /\ Goto(d, IF hook.exists /\ hook.enabled THEN "fetch" ELSE "drop")
               /\ UNCHANGED <<hook, row, job, edit, posts, flips, notices, faults, crashes>>

\* recordDelivery fails when the row went with its hook.
Drop(d) == /\ At(d, "drop")
           /\ IF row[d] = "none"
                THEN Reject(d) /\ UNCHANGED row
                ELSE Complete(d) /\ row' = [row EXCEPT ![d] = "dropped"]
           /\ UNCHANGED <<hook, edit, posts, flips, notices, faults, crashes>>

\* The post and its answer: 2xx, a non-retryable status, or a retryable
\* status, a network error or the timeout.
Fetch(d) == /\ At(d, "fetch")
            /\ posts' = [posts EXCEPT ![d] = @ + 1]
            /\ \E resp \in {"ok", "rejected", "retryable"} :
                 pc' = [pc EXCEPT ![d] =
                          [at |-> CASE resp = "ok" -> "rowOk"
                                    [] resp = "rejected" -> "rowRejected"
                                    [] OTHER -> "retry",
                           inTry |-> resp # "retryable", resp |-> resp]]
            /\ UNCHANGED <<hook, row, job, edit, flips, notices, faults, crashes>>

RowOk(d) == /\ At(d, "rowOk")
            /\ IF row[d] = "none"
                 THEN Reject(d) /\ UNCHANGED row
                 ELSE /\ row' = [row EXCEPT ![d] = "success"]
                      /\ Goto(d, "hookOk") /\ UNCHANGED job
            /\ UNCHANGED <<hook, edit, posts, flips, notices, faults, crashes>>

\* recordSuccess.
HookOk(d) == /\ At(d, "hookOk")
             /\ IF ~hook.exists
                  THEN Reject(d) /\ UNCHANGED hook
                  ELSE Complete(d) /\ hook' = [hook EXCEPT !.failures = 0]
             /\ UNCHANGED <<row, edit, posts, flips, notices, faults, crashes>>

RowRejected(d) == /\ At(d, "rowRejected")
                  /\ IF row[d] = "none"
                       THEN Reject(d) /\ UNCHANGED row
                       ELSE /\ row' = [row EXCEPT ![d] = "failed"]
                            /\ Goto(d, "count") /\ UNCHANGED job
                  /\ UNCHANGED <<hook, edit, posts, flips, notices, faults, crashes>>

\* MUTANT of Retry: the last attempt is not recognised.
RetryNeverLast(d) == /\ At(d, "retry")
                     /\ row' = IF row[d] = "none" THEN row ELSE [row EXCEPT ![d] = "pending"]
                     /\ Throw(d)
                     /\ UNCHANGED <<hook, edit, posts, flips, notices, faults, crashes>>

\* After the try block: last attempt or not.
Retry(d) == /\ At(d, "retry")
            /\ \/ /\ row[d] = "none"
                  /\ Throw(d) /\ UNCHANGED row
               \/ /\ row[d] # "none" /\ job[d].made + 1 >= RetryAttempts
                  /\ row' = [row EXCEPT ![d] = "failed"]
                  /\ pc' = [pc EXCEPT ![d].at = "count", ![d].inTry = FALSE]
                  /\ UNCHANGED job
               \/ /\ row[d] # "none" /\ job[d].made + 1 < RetryAttempts
                  /\ row' = [row EXCEPT ![d] = "pending"]
                  /\ Throw(d)
            /\ UNCHANGED <<hook, edit, posts, flips, notices, faults, crashes>>

\* recordTerminalFailure: increment and read back.
Count(d) == /\ At(d, "count")
            /\ IF ~hook.exists
                 THEN Reject(d) /\ UNCHANGED hook
                 ELSE /\ hook' = [hook EXCEPT !.failures = @ + 1]
                      /\ IF hook.failures + 1 >= Threshold /\ hook.enabled
                           THEN Goto(d, "flip") /\ UNCHANGED job
                           ELSE Complete(d)
            /\ UNCHANGED <<row, edit, posts, flips, notices, faults, crashes>>

\* MUTANT of Flip: whoever saw the threshold notifies.
FlipAlwaysNotifies(d) == /\ At(d, "flip")
                         /\ hook' = [hook EXCEPT !.enabled = FALSE]
                         /\ flips' = IF hook.exists /\ hook.enabled THEN flips + 1 ELSE flips
                         /\ Goto(d, "notify")
                         /\ UNCHANGED <<row, job, edit, posts, notices, faults, crashes>>

\* The conditional updateMany: only the one that flips the hook notifies.
Flip(d) == /\ At(d, "flip")
           /\ IF hook.exists /\ hook.enabled
                THEN /\ hook' = [hook EXCEPT !.enabled = FALSE]
                     /\ flips' = flips + 1
                     /\ Goto(d, "notify") /\ UNCHANGED job
                ELSE Complete(d) /\ UNCHANGED <<hook, flips>>
           /\ UNCHANGED <<row, edit, posts, notices, faults, crashes>>

\* The notification row (errors swallowed) and the domain event.
Notify(d) == /\ At(d, "notify")
             /\ notices' = notices + 1
             /\ Complete(d)
             /\ UNCHANGED <<hook, row, edit, posts, flips, faults, crashes>>

\* A database statement of the processor rejects.
DbFault(d) == /\ faults < MaxFaults /\ faults' = faults + 1
              /\ pc[d].at \in {"read", "drop", "rowOk", "hookOk", "rowRejected", "retry", "count", "flip"}
              /\ Reject(d)
              /\ UNCHANGED <<hook, row, edit, posts, flips, notices, crashes>>

\* MUTANT of Crash: a stalled job starts over with all its attempts.
CrashRestartsBudget(d) == /\ crashes < MaxCrashes /\ crashes' = crashes + 1
                          /\ job[d].state = "active"
                          /\ SetJob(d, "waiting", 0)
                          /\ pc' = [pc EXCEPT ![d] = Out]
                          /\ UNCHANGED <<hook, row, edit, posts, flips, notices, faults>>

\* The worker dies: BullMQ finds the job stalled and queues it again, its
\* attempts unchanged.
Crash(d) == /\ crashes < MaxCrashes /\ crashes' = crashes + 1
            /\ job[d].state = "active"
            /\ SetJob(d, "waiting", job[d].made)
            /\ pc' = [pc EXCEPT ![d] = Out]
            /\ UNCHANGED <<hook, row, edit, posts, flips, notices, faults>>

Step(d) == \/ Start(d) \/ ReadHook(d) \/ Drop(d) \/ Fetch(d) \/ RowOk(d) \/ HookOk(d)
           \/ RowRejected(d) \/ Retry(d) \/ Count(d) \/ Flip(d) \/ Notify(d)

Next == \/ \E d \in Deliveries : \/ CreateDelivery(d) \/ AddJob(d) \/ AddDuplicate(d) \/ AddFails(d)
                                 \/ Step(d) \/ DbFault(d) \/ Crash(d)
        \/ UpdateLoad \/ UpdateWrite \/ Remove

\* Workers keep taking jobs and a job in hand goes on; queue.add answers.
Fairness == \A d \in Deliveries : /\ WF_vars(Step(d))
                                  /\ WF_vars(AddJob(d) \/ AddDuplicate(d))

Spec == Init /\ [][Next]_vars /\ Fairness

-----------------------------------------------------------------------------

\* Of the failures that race past the threshold one disables the hook and
\* tells its creator: never two notifications for one disablement.
NoticePerDisable == notices <= flips

\* The receiver gets at most RETRY_ATTEMPTS posts of a delivery, and one more
\* for each worker that died holding its job.
PostsBounded == \A d \in Deliveries : posts[d] <= RetryAttempts + crashes

\* The hook is disabled automatically only by failures that still count: the
\* counter has not been reset since.
AutoDisableJustified == [][flips' > flips => hook.failures >= Threshold]_vars

\* No delivery row is left pending: it is sent, given up or dropped, even when
\* the worker that held its job dies, unless a statement rejects.
DeliverySettles ==
  \A d \in Deliveries : (row[d] = "pending") ~> (row[d] # "pending" \/ faults > 0)

=============================================================================
