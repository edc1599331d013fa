--------------------------- MODULE ExportSchedules ---------------------------
(***************************************************************************)
(* Scheduled exports: one ExportSchedule, the minute ticks of              *)
(* ExportsScheduler on every replica under the scheduler lock, and the     *)
(* runs the ticks and runOnce create and put on the queue (ExportRuns      *)
(* models what becomes of them).                                           *)
(*                                                                         *)
(* Time advances in half minutes.  A tick is identified by its replica and *)
(* the minute it captured in `now`; firedMinute allows one per pair.  The  *)
(* lock is the SchedulerLock component, whose calls are the ticks.         *)
(***************************************************************************)
EXTENDS Integers

CONSTANTS Replicas,      \* API replicas
          LastMinute,    \* bound: minutes 0..LastMinute are modelled
          Due,           \* the minutes scheduleCron matches
          Manual,        \* runOnce requests for the schedule
          NoTick,        \* the lock's key does not exist
          MaxEdits,      \* bound: edits of the schedule and changes of access
          MaxFaults,     \* bound: statements that reject
          MaxCrashes     \* bound: replicas that die in a tick

ASSUME BoundAssumption == /\ LastMinute \in Nat
                          /\ Due \subseteq 0..LastMinute
                          /\ MaxEdits \in Nat /\ MaxFaults \in Nat /\ MaxCrashes \in Nat

PerMinute == 2           \* clock steps in a minute
LockTtl == 3             \* withLock's 90 s

Ticks == Replicas \X (0..LastMinute)
Runs == Ticks \cup Manual
Times == 0..(PerMinute * (LastMinute + 1) - 1)
Never == -PerMinute      \* lastRunAt is null
MinuteStart(m) == PerMinute * m

ASSUME RunAssumption == Manual \cap Ticks = {} /\ NoTick \notin Ticks

VARIABLES pc, lock, ttl, age,     \* the scheduler lock
          now,       \* the clock
          sched,     \* the ExportSchedule row
          access,    \* the schedule's creator is there and may read its source
          fire,      \* where each tick's fireDueSchedules is, and the lastRunAt it read
          once,      \* where each runOnce is, and when it stamped lastRunAt
          rows,      \* the ExportRun rows created
          jobs,      \* the runs put on the queue
          overran,   \* a tick has outlived the lock's time to live
          lost,      \* the creator has been without access at some time
          edits, faults, crashes

lockVars == <<pc, lock, ttl, age>>
vars == <<pc, lock, ttl, age, now, sched, access, edits, fire, once, rows, jobs, overran, lost, faults,
          crashes>>

Lock == INSTANCE SchedulerLock WITH Calls <- Ticks, NoToken <- NoTick, Ttl <- LockTtl

FirePoint == {"none", "list", "check", "disable", "create", "stamp", "enqueue", "skipped"}
OncePoint == {"none", "stamp", "enqueue", "over"}

\* Types; the lock's own types; a job is put on the queue for a row.
TypeOK == /\ Lock!LockTypeOK
          /\ now \in Times
          /\ sched \in [exists : BOOLEAN, enabled : BOOLEAN, auto : BOOLEAN, last : {Never} \cup Times]
          /\ access \in BOOLEAN /\ edits \in 0..MaxEdits
          /\ fire \in [Ticks -> [at : FirePoint, seen : {Never} \cup Times]]
          /\ once \in [Manual -> [at : OncePoint, time : {Never} \cup Times]]
          /\ rows \subseteq Runs /\ jobs \subseteq rows
          /\ overran \in BOOLEAN /\ lost \in BOOLEAN
          /\ faults \in 0..MaxFaults /\ crashes \in 0..MaxCrashes

Init == /\ Lock!LockInit
        /\ now = 0
        /\ sched = [exists |-> TRUE, enabled |-> TRUE, auto |-> FALSE, last |-> Never]
        /\ access = TRUE /\ edits = 0
        /\ fire = [t \in Ticks |-> [at |-> "none", seen |-> Never]]
        /\ once = [o \in Manual |-> [at |-> "none", time |-> Never]]
        /\ rows = {} /\ jobs = {}
        /\ overran = FALSE /\ lost = FALSE /\ faults = 0 /\ crashes = 0

-----------------------------------------------------------------------------
\* The clock, the users and the creator's rights.

Clock == /\ now + 1 \in Times
         /\ now' = now + 1
         /\ Lock!Tick
         /\ overran' = (overran \/ \E t \in Ticks : pc[t] = "body" /\ age'[t] = LockTtl)
         /\ UNCHANGED <<sched, access, edits, fire, once, rows, jobs, lost, faults, crashes>>

Edit == edits < MaxEdits /\ edits' = edits + 1

\* updateSchedule with enabled, where it changes anything.
SetEnabled == /\ sched.exists /\ Edit
              /\ \E e \in BOOLEAN : sched' = [sched EXCEPT !.enabled = e, !.auto = FALSE]
              /\ sched' # sched
              /\ UNCHANGED <<lockVars, now, access, fire, once, rows, jobs, overran, lost, faults, crashes>>

DeleteSchedule == /\ sched.exists /\ Edit
                  /\ sched' = [sched EXCEPT !.exists = FALSE, !.enabled = FALSE, !.auto = FALSE]
                  /\ UNCHANGED <<lockVars, now, access, fire, once, rows, jobs, overran, lost, faults, crashes>>

\* The creator is archived, loses the source, or gets it back.
ChangeAccess == /\ Edit
                /\ access' = ~access
                /\ lost' = TRUE
                /\ UNCHANGED <<lockVars, now, sched, fire, once, rows, jobs, overran, faults, crashes>>

-----------------------------------------------------------------------------
\* The tick: withLock around fireDueSchedules.

FireAt(t, p) == fire' = [fire EXCEPT ![t] = [at |-> p, seen |-> Never]]
\* The body ends at this point; the lock's release is a step of its own.
FireEnds(t, p) == FireAt(t, p) /\ Lock!BodyEnds(t)

TickStart(t) == /\ now \div PerMinute = t[2]
                /\ Lock!Acquire(t)
                /\ FireAt(t, "list")
                /\ UNCHANGED <<now, sched, access, edits, once, rows, jobs, overran, lost, faults, crashes>>

TickBusy(t) == /\ now \div PerMinute = t[2]
               /\ Lock!Busy(t)
               /\ UNCHANGED <<now, sched, access, edits, fire, once, rows, jobs, overran, lost, faults, crashes>>

TickError(t) == /\ now \div PerMinute = t[2]
                /\ faults < MaxFaults /\ faults' = faults + 1
                /\ Lock!AcquireError(t)
                /\ UNCHANGED <<now, sched, access, edits, fire, once, rows, jobs, overran, lost, crashes>>

TickRelease(t) == /\ \/ Lock!Release(t) /\ UNCHANGED faults
                     \/ Lock!ReleaseError(t) /\ faults < MaxFaults /\ faults' = faults + 1
                  /\ UNCHANGED <<now, sched, access, edits, fire, once, rows, jobs, overran, lost, crashes>>

\* The enabled schedules are read; the cron is matched against the minute.
List(t) == /\ fire[t].at = "list"
           /\ IF sched.exists /\ sched.enabled /\ t[2] \in Due
                THEN /\ fire' = [fire EXCEPT ![t] = [at |-> "check", seen |-> sched.last]]
                     /\ UNCHANGED lockVars
                ELSE FireEnds(t, "none")
           /\ UNCHANGED <<now, sched, access, edits, once, rows, jobs, overran, lost, faults, crashes>>

\* MUTANT of Near: a run of the minute before counts as well.
NearInclusive(a, m) == a # Never /\ a - MinuteStart(m) <= PerMinute /\ MinuteStart(m) - a <= PerMinute

\* |lastRunAt - minuteStart| < 60_000
Near(a, m) == a # Never /\ a - MinuteStart(m) < PerMinute /\ MinuteStart(m) - a < PerMinute

\* The minute's duplicate check on the row as it was read, then the
\* creator's rights as they are.
Check(t) == /\ fire[t].at = "check"
            /\ IF Near(fire[t].seen, t[2])
                 THEN FireEnds(t, "skipped")
                 ELSE /\ FireAt(t, IF access THEN "create" ELSE "disable")
                      /\ UNCHANGED lockVars
            /\ UNCHANGED <<now, sched, access, edits, once, rows, jobs, overran, lost, faults, crashes>>

\* A creator who is gone or has lost the source: the schedule is disabled.
Disable(t) == /\ fire[t].at = "disable"
              /\ sched' = IF sched.exists THEN [sched EXCEPT !.enabled = FALSE, !.auto = TRUE] ELSE sched
              /\ FireEnds(t, "none")
              /\ UNCHANGED <<now, access, edits, once, rows, jobs, overran, lost, faults, crashes>>

\* MUTANT of CreateRun: the insert is not awaited and never made.
CreateRunUnawaited(t) == /\ fire[t].at = "create"
                         /\ FireAt(t, "stamp")
                         /\ UNCHANGED <<lockVars, rows, now, sched, access, edits, once, jobs, overran, lost, faults, crashes>>

\* createRun: the foreign key fails when the schedule is gone.
CreateRun(t) == /\ fire[t].at = "create"
                /\ IF sched.exists
                     THEN /\ rows' = rows \cup {t}
                          /\ FireAt(t, "stamp") /\ UNCHANGED lockVars
                     ELSE FireEnds(t, "none") /\ UNCHANGED rows
                /\ UNCHANGED <<now, sched, access, edits, once, jobs, overran, lost, faults, crashes>>

\* MUTANT of Stamp: lastRunAt is not written.
StampNothing(t) == /\ fire[t].at = "stamp"
                   /\ FireAt(t, "enqueue")
                   /\ UNCHANGED <<lockVars, sched, now, access, edits, once, rows, jobs, overran, lost, faults, crashes>>

\* lastRunAt becomes the start of the minute.
Stamp(t) == /\ fire[t].at = "stamp"
            /\ IF sched.exists
                 THEN /\ sched' = [sched EXCEPT !.last = MinuteStart(t[2])]
                      /\ FireAt(t, "enqueue") /\ UNCHANGED lockVars
                 ELSE FireEnds(t, "none") /\ UNCHANGED sched
            /\ UNCHANGED <<now, access, edits, once, rows, jobs, overran, lost, faults, crashes>>

Enqueue(t) == /\ fire[t].at = "enqueue"
              /\ jobs' = jobs \cup {t}
              /\ FireEnds(t, "none")
              /\ UNCHANGED <<now, sched, access, edits, once, rows, overran, lost, faults, crashes>>

\* MUTANT of FireFault: an error while the rights are checked counts as a loss.
FireFaultDisables(t) == /\ fire[t].at \notin {"none", "skipped"}
                        /\ faults < MaxFaults /\ faults' = faults + 1
                        /\ sched' = IF fire[t].at = "check" /\ sched.exists
                                      THEN [sched EXCEPT !.enabled = FALSE, !.auto = TRUE] ELSE sched
                        /\ FireEnds(t, "none")
                        /\ UNCHANGED <<now, access, edits, once, rows, jobs, overran, lost, crashes>>

\* A statement of the tick rejects: tick() logs it and the body is over.
FireFault(t) == /\ fire[t].at \notin {"none", "skipped"}
                /\ faults < MaxFaults /\ faults' = faults + 1
                /\ FireEnds(t, "none")
                /\ UNCHANGED <<now, sched, access, edits, once, rows, jobs, overran, lost, crashes>>

TickCrash(t) == /\ crashes < MaxCrashes /\ crashes' = crashes + 1
                /\ Lock!CallDies(t)
                /\ FireAt(t, "none")
                /\ UNCHANGED <<now, sched, access, edits, once, rows, jobs, overran, lost, faults>>

-----------------------------------------------------------------------------
\* runOnce for the schedule, by its creator.

OnceCreate(o) == /\ once[o].at = "none" /\ o \notin rows
                 /\ sched.exists /\ access
                 /\ rows' = rows \cup {o}
                 /\ once' = [once EXCEPT ![o].at = "stamp"]
                 /\ UNCHANGED <<lockVars, now, sched, access, edits, fire, jobs, overran, lost, faults, crashes>>

\* lastRunAt becomes the current time, not the start of a minute.
OnceStamp(o) == /\ once[o].at = "stamp"
                /\ IF sched.exists
                     THEN /\ sched' = [sched EXCEPT !.last = now]
                          /\ once' = [once EXCEPT ![o] = [at |-> "enqueue", time |-> now]]
                     ELSE once' = [once EXCEPT ![o].at = "over"] /\ UNCHANGED sched
                /\ UNCHANGED <<lockVars, now, access, edits, fire, rows, jobs, overran, lost, faults, crashes>>

OnceEnqueue(o) == /\ once[o].at = "enqueue"
                  /\ jobs' = jobs \cup {o}
                  /\ once' = [once EXCEPT ![o].at = "over"]
                  /\ UNCHANGED <<lockVars, now, sched, access, edits, fire, rows, overran, lost, faults, crashes>>

-----------------------------------------------------------------------------
Next == \/ Clock \/ SetEnabled \/ DeleteSchedule \/ ChangeAccess
        \/ \E t \in Ticks : \/ TickStart(t) \/ TickBusy(t) \/ TickError(t) \/ TickRelease(t)
                            \/ List(t) \/ Check(t) \/ Disable(t) \/ CreateRun(t) \/ Stamp(t)
                            \/ Enqueue(t) \/ FireFault(t) \/ TickCrash(t)
        \/ \E o \in Manual : OnceCreate(o) \/ OnceStamp(o) \/ OnceEnqueue(o)

Spec == Init /\ [][Next]_vars

-----------------------------------------------------------------------------
\* "only the first one gets the row through": however the replicas' ticks
\* fall, lose the lock's answer, fail half way or crash, a due minute puts at
\* most one export on the queue, unless a tick has outlived the lock or
\* runOnce has overwritten the minute's stamp.
OneExportPerMinute ==
  ~overran /\ (\A o \in Manual : once[o].time = Never) =>
    \A t, u \in Ticks : t[2] = u[2] /\ t \in jobs /\ u \in jobs => t = u

\* A tick that finds its minute already served is right: another tick of this
\* minute has created a run, or somebody ran the schedule by hand less than a
\* minute from its start.  The minute before never counts.
SkipJustified ==
  \A t \in Ticks : fire[t].at = "skipped" =>
    \/ \E u \in Ticks \ {t} : u[2] = t[2] /\ u \in rows
    \/ \E o \in Manual : /\ once[o].time # Never
                         /\ once[o].time \in (MinuteStart(t[2]) - PerMinute + 1)..(MinuteStart(t[2]) + PerMinute - 1)

\* "a momentary blip doesn't wipe a user's schedules": a schedule is disabled
\* by the scheduler only if its creator has really been without access.
BlipKeepsSchedule == sched.auto => lost

\* The schedule is kept to: a due minute exports once, is passed over only
\* when it has been served, and no fault ends the schedule.
ScheduleHonoured == OneExportPerMinute /\ SkipJustified /\ BlipKeepsSchedule
=============================================================================
