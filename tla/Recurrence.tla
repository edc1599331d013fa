----------------------------- MODULE Recurrence -----------------------------
(***************************************************************************)
(* Recurring tasks (apps/api/src/modules/recurrence) in a project that can *)
(* be archived, restored and purged (projects.service.ts,                  *)
(* projects-purge.processor.ts).                                           *)
(*                                                                         *)
(* A spawn tick reads the due rules, claims each one by moving nextRunAt   *)
(* away from the value it read, numbers and creates the task, and writes   *)
(* the real nextRunAt.  Ticks overlap when a tick outlives its lock.  Each *)
(* awaited statement is one action.                                        *)
(***************************************************************************)
EXTENDS Naturals

CONSTANTS
    Rules,          \* template tasks that may carry a recurrence
    InitialRules,   \* those that do at the start
    Ticks,          \* spawn ticks that can overlap
    Admins,         \* archive and restore calls that can overlap
    Period,         \* how far ahead computeNextRun looks
    Provisional,    \* the ten minutes a claim buys
    Grace,          \* GRACE_PERIOD_DAYS
    MaxDay,         \* bound: the clock
    MaxUpsets       \* bound: calls by users, failed statements and dead ticks

ASSUME RecurrenceAssumption ==
    /\ InitialRules \subseteq Rules
    /\ Period \in Nat \ {0} /\ Provisional \in Nat \ {0} /\ Grace \in Nat
    /\ MaxDay \in Nat \ {0} /\ MaxUpsets \in Nat

VARIABLES
    day,          \* the clock
    project,      \* the Project row
    rule,         \* TaskRecurrence rows
    tick,         \* spawnDueRecurrences in flight
    spawned,      \* tasks created by spawnOne
    admin,        \* archive and restore calls in flight
    sweep,        \* purgeOnce in flight
    touched,      \* history: archivedAt was written since the sweep's read
    upsets

recurrenceVars == <<day, project, rule, tick, spawned, admin, sweep, touched,
                    upsets>>

Days == 0..MaxDay
Runs == 0..(MaxDay + Period + Provisional)

\* A rule as a tick has read it.
DueRow == [rule: Rules, id: Nat, edit: Nat, at: Runs]
NoRow == [rule |-> "none", id |-> 0, edit |-> 0, at |-> 0]

RecurrenceTypeOK ==
    /\ day \in 1..MaxDay
    /\ project \in [there: BOOLEAN, archivedAt: Days, nextTaskNumber: Nat]
    /\ rule \in [Rules -> [there: BOOLEAN, id: Nat, edit: Nat, enabled: BOOLEAN,
                           nextRunAt: Runs]]
    /\ tick \in [Ticks -> [pc: {"idle", "loop", "number", "create", "finish"},
                           now: Days, due: SUBSET DueRow,
                           cur: DueRow \cup {NoRow}, num: Nat]]
    /\ \A x \in spawned : x.rule \in Rules /\ x.num \in Nat
    /\ admin \in [Admins -> {"idle", "archive", "restore"}]
    /\ sweep \in [on: BOOLEAN, at: Days, archivedAt: Days]
    /\ touched \in BOOLEAN
    /\ upsets \in 0..MaxUpsets

NoTick == [pc |-> "idle", now |-> 0, due |-> {}, cur |-> NoRow, num |-> 0]
NoSweep == [on |-> FALSE, at |-> 0, archivedAt |-> 0]

RecurrenceInit ==
    /\ day = 1
    /\ project = [there |-> TRUE, archivedAt |-> 0, nextTaskNumber |-> 1]
    /\ rule = [r \in Rules |-> [there |-> r \in InitialRules, id |-> 0,
                                edit |-> 0, enabled |-> TRUE, nextRunAt |-> 1]]
    /\ tick = [t \in Ticks |-> NoTick]
    /\ spawned = {}
    /\ admin = [a \in Admins |-> "idle"]
    /\ sweep = NoSweep /\ touched = FALSE
    /\ upsets = 0

Upset == upsets < MaxUpsets /\ upsets' = upsets + 1

----------------------------------------------------------------------------
(* The spawn tick *)

\* What follows the end of one rule's turn, well or badly.
NextRow(t) ==
    tick' = [tick EXCEPT ![t] = IF @.due = {} THEN NoTick
                                ELSE [@ EXCEPT !.pc = "loop", !.cur = NoRow,
                                               !.num = 0]]

\* findMany: the enabled rules that are due.
SpawnScan(t) ==
    LET due == {r \in Rules : rule[r].there /\ rule[r].enabled
                                            /\ rule[r].nextRunAt <= day} IN
    /\ tick[t].pc = "idle" /\ due # {}
    /\ tick' = [tick EXCEPT ![t] =
         [NoTick EXCEPT !.pc = "loop", !.now = day,
            !.due = {[rule |-> r, id |-> rule[r].id, edit |-> rule[r].edit,
                      at |-> rule[r].nextRunAt] : r \in due}]]
    /\ UNCHANGED <<day, project, rule, spawned, admin, sweep, touched, upsets>>

\* Mutant: the claim asks for an unedited rule, which a claim does not change.
ClaimUnedited(t, x) ==
    /\ tick[t].pc = "loop" /\ x \in tick[t].due
    /\ IF rule[x.rule].there /\ rule[x.rule].id = x.id /\ rule[x.rule].edit = x.edit
       THEN /\ rule' = [rule EXCEPT ![x.rule].nextRunAt = tick[t].now + Provisional]
            /\ tick' = [tick EXCEPT ![t].pc = "number", ![t].cur = x,
                                    ![t].due = @ \ {x}]
       ELSE /\ tick' = [tick EXCEPT ![t] =
                          IF tick[t].due = {x} THEN NoTick
                          ELSE [tick[t] EXCEPT !.due = tick[t].due \ {x}]]
            /\ UNCHANGED rule
    /\ UNCHANGED <<day, project, spawned, admin, sweep, touched, upsets>>

\* The conditional update that moves nextRunAt away from the value read; the
\* tick that finds it moved goes on to its next rule.
SpawnClaim(t, x) ==
    /\ tick[t].pc = "loop" /\ x \in tick[t].due
    /\ IF rule[x.rule].there /\ rule[x.rule].id = x.id /\ rule[x.rule].nextRunAt = x.at
       THEN /\ rule' = [rule EXCEPT ![x.rule].nextRunAt = tick[t].now + Provisional]
            /\ tick' = [tick EXCEPT ![t].pc = "number", ![t].cur = x,
                                    ![t].due = @ \ {x}]
       ELSE /\ tick' = [tick EXCEPT ![t] =
                          IF tick[t].due = {x} THEN NoTick
                          ELSE [tick[t] EXCEPT !.due = tick[t].due \ {x}]]
            /\ UNCHANGED rule
    /\ UNCHANGED <<day, project, spawned, admin, sweep, touched, upsets>>

\* Mutant: the number comes from the row that was read.
NumberFromRead(t) ==
    /\ tick[t].pc = "number" /\ project.there
    /\ tick' = [tick EXCEPT ![t].pc = "create", ![t].num = project.nextTaskNumber]
    /\ UNCHANGED <<day, project, rule, spawned, admin, sweep, touched, upsets>>

\* spawnOne reads the project and takes the next number in one increment; both
\* throw once the project is purged.
SpawnNumber(t) ==
    /\ tick[t].pc = "number"
    /\ IF project.there
       THEN /\ tick' = [tick EXCEPT ![t].pc = "create",
                                    ![t].num = project.nextTaskNumber]
            /\ project' = [project EXCEPT !.nextTaskNumber = @ + 1]
       ELSE NextRow(t) /\ UNCHANGED project
    /\ UNCHANGED <<day, rule, spawned, admin, sweep, touched, upsets>>

\* task.create fails on the foreign key once the project is purged.
SpawnCreate(t) ==
    LET x == tick[t].cur IN
    /\ tick[t].pc = "create"
    /\ IF project.there
       THEN /\ spawned' = spawned \cup {[rule |-> x.rule, id |-> x.id, due |-> x.at,
                                         num |-> tick[t].num]}
            /\ tick' = [tick EXCEPT ![t].pc = "finish"]
       ELSE NextRow(t) /\ UNCHANGED spawned
    /\ UNCHANGED <<day, project, rule, admin, sweep, touched, upsets>>

\* The real nextRunAt, by id: it throws when the rule has been removed, which
\* skips task.created, and it overwrites an edit made meanwhile.
SpawnFinish(t) ==
    LET x == tick[t].cur IN
    /\ tick[t].pc = "finish"
    /\ rule' = [rule EXCEPT ![x.rule].nextRunAt =
                  IF rule[x.rule].there /\ rule[x.rule].id = x.id THEN day + Period
                                                                  ELSE @]
    /\ NextRow(t)
    /\ UNCHANGED <<day, project, spawned, admin, sweep, touched, upsets>>

\* A statement of spawnOne throws, which is logged, or the replica dies.
SpawnFault(t) ==
    /\ Upset
    /\ \/ tick[t].pc \in {"number", "create", "finish"} /\ NextRow(t)
       \/ tick[t].pc # "idle" /\ tick' = [tick EXCEPT ![t] = NoTick]
    /\ UNCHANGED <<day, project, rule, spawned, admin, sweep, touched>>

----------------------------------------------------------------------------
(* Users and administrators *)

\* Mutant: an edit leaves the next run alone when it switches the rule off.
UpsertKeepsNextRun(r, on) ==
    /\ Upset /\ project.there
    /\ rule' = [rule EXCEPT ![r] =
         [there |-> TRUE, id |-> IF @.there THEN @.id ELSE @.edit + 1,
          edit |-> @.edit + 1, enabled |-> on,
          nextRunAt |-> IF on THEN day + Period ELSE @.nextRunAt]]
    /\ UNCHANGED <<day, project, tick, spawned, admin, sweep, touched>>

\* upsert: an edit, or a new row, always with a next run in the future.
RuleUpsert(r, on) ==
    /\ Upset /\ project.there
    /\ rule' = [rule EXCEPT ![r] =
         [there |-> TRUE, id |-> IF @.there THEN @.id ELSE @.edit + 1,
          edit |-> @.edit + 1, enabled |-> on, nextRunAt |-> day + Period]]
    /\ UNCHANGED <<day, project, tick, spawned, admin, sweep, touched>>

RuleRemove(r) ==
    /\ Upset /\ project.there /\ rule[r].there
    /\ rule' = [rule EXCEPT ![r].there = FALSE]
    /\ UNCHANGED <<day, project, tick, spawned, admin, sweep, touched>>

\* archive and restore read the row and return early when there is nothing to do.
ArchiveRead(a) ==
    /\ admin[a] = "idle" /\ Upset
    /\ project.there /\ project.archivedAt = 0
    /\ admin' = [admin EXCEPT ![a] = "archive"]
    /\ UNCHANGED <<day, project, rule, tick, spawned, sweep, touched>>

RestoreRead(a) ==
    /\ admin[a] = "idle" /\ Upset
    /\ project.there /\ project.archivedAt # 0
    /\ admin' = [admin EXCEPT ![a] = "restore"]
    /\ UNCHANGED <<day, project, rule, tick, spawned, sweep, touched>>

\* Mutant: archive stores the day the grace window ends.
AdminWriteDeadline(a) ==
    /\ admin[a] # "idle" /\ project.there
    /\ admin' = [admin EXCEPT ![a] = "idle"]
    /\ project' = [project EXCEPT !.archivedAt =
                     IF admin[a] = "archive" THEN day + Grace ELSE 0]
    /\ touched' = sweep.on
    /\ UNCHANGED <<day, rule, tick, spawned, sweep, upsets>>

\* The update is by id and throws if the row is gone.
AdminWrite(a) ==
    /\ admin[a] # "idle"
    /\ admin' = [admin EXCEPT ![a] = "idle"]
    /\ IF project.there
       THEN /\ project' = [project EXCEPT !.archivedAt =
                             IF admin[a] = "archive" THEN day ELSE 0]
            /\ touched' = sweep.on
       ELSE UNCHANGED <<project, touched>>
    /\ UNCHANGED <<day, rule, tick, spawned, sweep, upsets>>

\* Mutant: the cutoff is the end of the grace window's first day.
SweepScanEarly ==
    /\ ~sweep.on /\ project.there
    /\ project.archivedAt # 0 /\ day - project.archivedAt >= 1
    /\ sweep' = [on |-> TRUE, at |-> day, archivedAt |-> project.archivedAt]
    /\ touched' = FALSE
    /\ UNCHANGED <<day, project, rule, tick, spawned, admin, upsets>>

\* purgeOnce finds the projects archived for longer than the grace window.
SweepScan ==
    /\ ~sweep.on /\ project.there
    /\ project.archivedAt # 0 /\ day - project.archivedAt > Grace
    /\ sweep' = [on |-> TRUE, at |-> day, archivedAt |-> project.archivedAt]
    /\ touched' = FALSE
    /\ UNCHANGED <<day, project, rule, tick, spawned, admin, upsets>>

\* The delete, by id, takes the tasks and their rules with it; it may throw.
SweepDelete ==
    /\ sweep.on /\ sweep' = NoSweep
    /\ project' = [project EXCEPT !.there = FALSE]
    /\ rule' = [r \in Rules |-> [rule[r] EXCEPT !.there = FALSE]]
    /\ spawned' = {}
    /\ UNCHANGED <<day, tick, admin, touched, upsets>>

SweepFails ==
    /\ sweep.on /\ sweep' = NoSweep
    /\ UNCHANGED <<day, project, rule, tick, spawned, admin, touched, upsets>>

\* Time passes.  A sweep's read and its delete fall on one day.
DayPasses ==
    /\ day < MaxDay /\ day' = day + 1 /\ ~sweep.on
    /\ UNCHANGED <<project, rule, tick, spawned, admin, sweep, touched, upsets>>

RecurrenceNext ==
    \/ \E t \in Ticks : \/ SpawnScan(t) \/ SpawnNumber(t) \/ SpawnCreate(t)
                        \/ SpawnFinish(t) \/ SpawnFault(t)
                        \/ \E x \in tick[t].due : SpawnClaim(t, x)
    \/ \E r \in Rules : RuleRemove(r) \/ \E on \in BOOLEAN : RuleUpsert(r, on)
    \/ \E a \in Admins : ArchiveRead(a) \/ RestoreRead(a) \/ AdminWrite(a)
    \/ SweepScan \/ SweepDelete \/ SweepFails
    \/ DayPasses

RecurrenceSpec == RecurrenceInit /\ [][RecurrenceNext]_recurrenceVars

----------------------------------------------------------------------------
(* Properties *)

\* A due run of a rule makes one task, however many ticks have read it.
OneTaskPerDueRun ==
    \A x, y \in spawned :
        x.rule = y.rule /\ x.id = y.id /\ x.due = y.due => x = y

\* No two tasks of the project have the same key number, although each tick
\* numbers and creates its tasks in separate statements.
KeyNumbersUnique == \A x, y \in spawned : x.num = y.num => x = y

\* A claim is won only for the rule as it stands: a rule edited, switched off or
\* removed after the tick's read is never spawned from what the tick has read.
ClaimsCurrentRule ==
    \A t \in Ticks : tick[t].pc = "loop" /\ tick'[t].pc = "number" =>
        LET x == tick'[t].cur IN
        rule[x.rule].there /\ rule[x.rule].enabled /\ rule[x.rule].edit = x.edit

\* A purged project had been archived for longer than the grace window at the
\* moment it was deleted, unless an administrator archived or restored it while
\* the sweep was running.
PurgeHonoursGrace ==
    project.there /\ ~project'.there =>
        touched \/ (project.archivedAt # 0 /\ day - project.archivedAt > Grace)

\* However many ticks have read a due run it becomes one task, under a number of
\* its own; and what the two schedulers have read may be out of date when they
\* act on it, and they do not act on it then (recurrence.service.ts, the purge).
RecurrenceSound ==
    /\ [](OneTaskPerDueRun /\ KeyNumbersUnique)
    /\ [][ClaimsCurrentRule /\ PurgeHonoursGrace]_recurrenceVars
=============================================================================
