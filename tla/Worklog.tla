------------------------------- MODULE Worklog -------------------------------
(***************************************************************************)
(* WorklogService (worklog.service.ts): the live timers of one user, whose *)
(* requests may overlap (two tabs, a double click).  start and stop are    *)
(* two statements each; the partial unique index of companion.sql lets a   *)
(* user have one row whose endedAt is null.                                *)
(***************************************************************************)
EXTENDS Naturals, FiniteSets

CONSTANTS
    Logs,      \* bound: ids of Worklog rows
    Timed,     \* tasks the user may see
    Tabs,      \* requests in flight at the same time
    MaxClock   \* bound: seconds

ASSUME WorklogAssumption == MaxClock \in Nat

VARIABLES
    log,    \* Worklog rows
    tab,    \* requests in flight
    clock

worklogVars == <<log, tab, clock>>

NoLog == [st |-> "none", task |-> "none", startedAt |-> 0, endedAt |-> 0, seconds |-> 0]
Resting == [pc |-> "idle", task |-> "none", log |-> "none", now |-> 0, raced |-> FALSE]

Running == {l \in Logs : log[l].st = "running"}
Unused == {l \in Logs : log[l].st = "none"}
Fresh == CHOOSE l \in Unused : TRUE  \* a new row's id
Answer(t) == tab' = [tab EXCEPT ![t] = Resting]

WorklogInit ==
    /\ log = [l \in Logs |-> NoLog]
    /\ tab = [t \in Tabs |-> Resting]
    /\ clock = 0

-----------------------------------------------------------------------------
\* MUTANT of StartEnd: only a timer of the same task is ended.
StartEndSameTask(t, task) ==
    /\ tab[t].pc = "idle"
    /\ log' = [l \in Logs |-> IF log[l].st = "running" /\ log[l].task = task
                                THEN [log[l] EXCEPT !.st = "ended", !.endedAt = clock, !.seconds = 0]
                                ELSE log[l]]
    /\ tab' = [tab EXCEPT ![t] = [Resting EXCEPT !.pc = "create", !.task = task]]
    /\ UNCHANGED clock

\* start: whatever timer runs is ended, with no time on it.
StartEnd(t, task) ==
    /\ tab[t].pc = "idle"
    /\ log' = [l \in Logs |-> IF log[l].st = "running"
                                THEN [log[l] EXCEPT !.st = "ended", !.endedAt = clock, !.seconds = 0]
                                ELSE log[l]]
    /\ tab' = [tab EXCEPT ![t] = [Resting EXCEPT !.pc = "create", !.task = task]]
    /\ UNCHANGED clock

\* `raced` notes, in every other start in flight, that this one came first.
StartCreate(t) ==
    /\ tab[t].pc = "create" /\ Running = {} /\ Unused # {}
    /\ log' = [log EXCEPT ![Fresh] = [NoLog EXCEPT !.st = "running", !.task = tab[t].task,
                                                !.startedAt = clock]]
    /\ tab' = [u \in Tabs |-> CASE u = t -> Resting
                                [] u # t /\ tab[u].pc = "create" -> [tab[u] EXCEPT !.raced = TRUE]
                                [] OTHER -> tab[u]]
    /\ UNCHANGED clock

\* The index refuses the row.
StartRefused(t) ==
    /\ tab[t].pc = "create" /\ Running # {}
    /\ Answer(t)
    /\ UNCHANGED <<log, clock>>

\* stop: the running timer of the task, and the time on it now; no timer is a
\* bad request.
StopFind(t, l) ==
    /\ tab[t].pc = "idle" /\ l \in Running
    /\ tab' = [tab EXCEPT ![t] = [Resting EXCEPT !.pc = "end", !.log = l, !.now = clock]]
    /\ UNCHANGED <<log, clock>>

\* MUTANT of StopEnd: the time is added to what the row has.
StopEndAdds(t) ==
    LET l == tab[t].log
    IN  /\ tab[t].pc = "end"
        /\ log' = IF log[l].st = "deleted" THEN log
                  ELSE [log EXCEPT ![l].st = "ended", ![l].endedAt = tab[t].now,
                                   ![l].seconds = @ + tab[t].now - log[l].startedAt]
        /\ Answer(t) /\ UNCHANGED clock

\* The row is written by its id, whoever has ended it meanwhile; a row that
\* is gone rejects the update.
StopEnd(t) ==
    LET l == tab[t].log
    IN  /\ tab[t].pc = "end"
        /\ log' = IF log[l].st = "deleted" THEN log
                  ELSE [log EXCEPT ![l].st = "ended", ![l].endedAt = tab[t].now,
                                   ![l].seconds = tab[t].now - log[l].startedAt]
        /\ Answer(t) /\ UNCHANGED clock

\* logManual: a row that has ended, with the time it was given.
LogManual(task) ==
    /\ Unused # {}
    /\ \E s \in 1..MaxClock :
         log' = [log EXCEPT ![Fresh] = [st |-> "ended", task |-> task, startedAt |-> clock,
                                        endedAt |-> clock + s, seconds |-> s]]
    /\ UNCHANGED <<tab, clock>>

DeleteLog(l) ==
    /\ log[l].st \in {"running", "ended"}
    /\ log' = [log EXCEPT ![l] = [NoLog EXCEPT !.st = "deleted"]]
    /\ UNCHANGED <<tab, clock>>

Second == clock < MaxClock /\ clock' = clock + 1 /\ UNCHANGED <<log, tab>>

WorklogNext ==
    \/ Second
    \/ \E l \in Logs : DeleteLog(l)
    \/ \E task \in Timed : LogManual(task)
    \/ \E t \in Tabs :
         \/ StartCreate(t) \/ StartRefused(t) \/ StopEnd(t)
         \/ \E task \in Timed : StartEnd(t, task)
         \/ \E l \in Logs : StopFind(t, l)

WorklogSpec == WorklogInit /\ [][WorklogNext]_worklogVars

-----------------------------------------------------------------------------
\* Types; one row without an endedAt at most, and a row that has ended has
\* no more time on it than has passed.
WorklogTypeOK ==
    /\ log \in [Logs -> [st: {"none", "running", "ended", "deleted"}, task: Timed \cup {"none"},
                         startedAt: 0..MaxClock, endedAt: 0..(2 * MaxClock), seconds: 0..MaxClock]]
    /\ tab \in [Tabs -> [pc: {"idle", "create", "end"}, task: Timed \cup {"none"},
                         log: Logs \cup {"none"}, now: 0..MaxClock, raced: BOOLEAN]]
    /\ clock \in 0..MaxClock
    /\ Cardinality(Running) <= 1
    /\ \A l \in Logs : log[l].st = "ended" => log[l].seconds \in {0, log[l].endedAt - log[l].startedAt}

\* Starting a timer while another runs is not an error: the index refuses a
\* start only if an overlapping one has created its row since this one ended
\* the running timers (worklog.service.ts, 28-40).
RefusedOnlyWhenOverlapped ==
    \A t \in Tabs : tab[t].pc = "create" /\ Running # {} => tab[t].raced

=============================================================================
