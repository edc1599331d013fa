---------------------------- MODULE Automations ----------------------------
(***************************************************************************)
(* Project automations (apps/api/src/modules/automations): the listener    *)
(* that turns domain events into runs, the execution engine, and the       *)
(* due-soon scheduler that feeds it.                                       *)
(*                                                                         *)
(* One task.  Handlers of several events interleave at every await, with   *)
(* users who edit the task and the automations.  Events live in memory and *)
(* are lost, like the handler, when the replica dies.                      *)
(***************************************************************************)
EXTENDS Naturals, Sequences, FiniteSets

CONSTANTS
    Autos,
    Config,       \* automation -> [trigger, from, to, actions]
    Statuses,
    Closed,       \* Done and Approved, the statuses the due-soon scan leaves out
    Handlers,     \* listener calls that can run at the same time
    MaxMoves      \* bound: changes by users, failed actions, dead replicas

ActionKinds == {"set", "set_due_date", "transition_status", "add_comment",
                "remove_label", "send_webhook"}
Triggers == {"task_status_changed", "comment_added", "task_due_soon"}
Dues == {"none", "near", "far"}   \* the due date against the 24 h horizon

\* What validate lets through: an action and, for two of them, its target.
Actions == {act \in ActionKinds \X (Statuses \cup Dues) :
              /\ act[1] = "transition_status" => act[2] \in Statuses
              /\ act[1] = "set_due_date" => act[2] \in Dues}

ASSUME AutomationsAssumption ==
    /\ Closed \subseteq Statuses
    /\ \A a \in Autos :
         /\ Config[a].trigger \in Triggers
         /\ {Config[a].from, Config[a].to} \subseteq Statuses \cup {"any"}
         /\ Config[a].actions \in Seq(Actions) \ {<<>>}  \* its own action, then its steps
    /\ MaxMoves \in Nat

VARIABLES
    task,       \* the Task row
    enabled,    \* automation -> "on", "off" or "gone"
    inbox,      \* events emitted and not yet taken up by the listener
    emitted,    \* history: the number of events heeded
    outside,    \* history: those that no automation caused
    handler,    \* runMatchingAutomations calls in flight
    started, succeeded, failed, complete, runCount,  \* per automation, see below
    ringer,     \* the due-soon tick
    rung,       \* history: due-soon events since the marker was last cleared
    moves, breaks

automationVars == <<task, enabled, inbox, emitted, outside, handler, started, succeeded,
                    failed, complete, runCount, ringer, rung, moves, breaks>>

\* started: runs begun; succeeded and failed: AutomationRun rows that say so;
\* complete: runs in which every action took effect; runCount:
\* Automation.runCount.
Tally == [Autos -> Nat]

Event == [n: Nat, kind: Triggers, from: Statuses, to: Statuses]
NoEvent == [n |-> 0, kind |-> "comment_added", from |-> "any", to |-> "any"]
Free == [pc |-> "idle", ev |-> NoEvent, todo |-> {}, auto |-> "none", step |-> 0,
         ok |-> 0]

AutomationsTypeOK ==
    /\ task \in [there: BOOLEAN, status: Statuses, due: Dues, marked: BOOLEAN]
    /\ enabled \in [Autos -> {"on", "off", "gone"}]
    /\ inbox \subseteq Event
    /\ emitted \in Nat /\ outside \in Nat
    /\ handler \in [Handlers -> [pc: {"idle", "loop", "act", "repost", "record", "count", "fail"},
                                 ev: Event \cup {NoEvent}, todo: SUBSET Autos,
                                 auto: Autos \cup {"none"}, step: Nat, ok: Nat]]
    /\ started \in Tally /\ succeeded \in Tally /\ failed \in Tally
    /\ complete \in Tally /\ runCount \in Tally
    /\ ringer \in {"idle", "mark", "emit", "clear"}
    /\ rung \in Nat
    /\ moves \in 0..MaxMoves /\ breaks \in 0..MaxMoves

AutomationsInit ==
    /\ task \in [there: {TRUE}, status: Statuses \ Closed, due: {"none", "near"},
                 marked: {FALSE}]
    /\ enabled = [a \in Autos |-> "on"]
    /\ inbox = {} /\ emitted = 0 /\ outside = 0
    /\ handler = [h \in Handlers |-> Free]
    /\ started = [a \in Autos |-> 0]
    /\ succeeded = [a \in Autos |-> 0] /\ failed = [a \in Autos |-> 0]
    /\ complete = [a \in Autos |-> 0] /\ runCount = [a \in Autos |-> 0]
    /\ ringer = "idle" /\ rung = 0
    /\ moves = 0 /\ breaks = 0

Move == moves + breaks < MaxMoves /\ moves' = moves + 1
Break == moves + breaks < MaxMoves /\ breaks' = breaks + 1

\* Mutant: events of automations are listened to as well.
HeedsAll(via) == TRUE

\* The first line of every listener: an event with viaAutomation is dropped.
Heeds(via) == ~via

Emit(kind, from, to, via) ==
    /\ emitted' = emitted + (IF Heeds(via) THEN 1 ELSE 0)
    /\ outside' = outside + (IF via THEN 0 ELSE 1)
    /\ inbox' = IF Heeds(via)
                THEN inbox \cup {[n |-> emitted + 1, kind |-> kind, from |-> from,
                                  to |-> to]}
                ELSE inbox
NoEmit == UNCHANGED <<inbox, emitted, outside>>
Counters == <<started, succeeded, failed, complete, runCount>>
Plus(tally, a, n) == [tally EXCEPT ![a] = @ + n]

----------------------------------------------------------------------------
(* The listener and the engine *)

\* The enabled automations of the trigger are read once.
Listen(h, e) ==
    LET found == {a \in Autos : enabled[a] = "on" /\ Config[a].trigger = e.kind} IN
    /\ e \in inbox /\ inbox' = inbox \ {e}
    /\ handler[h] = Free
    /\ handler' = IF found = {} THEN handler
                  ELSE [handler EXCEPT ![h] = [Free EXCEPT !.pc = "loop", !.ev = e,
                                                           !.todo = found]]
    /\ UNCHANGED <<task, enabled, emitted, outside, Counters, ringer, rung, moves, breaks>>

MatchesTrigger(a, e) ==
    Config[a].trigger = "task_status_changed" =>
        Config[a].from \in {"any", e.from} /\ Config[a].to \in {"any", e.to}

\* After one automation the handler turns to the next it has read.
NextAuto(h) ==
    handler' = [handler EXCEPT ![h] =
                  IF @.todo = {} THEN Free
                  ELSE [@ EXCEPT !.pc = "loop", !.auto = "none", !.step = 0, !.ok = 0]]

\* An automation whose filter does not match is recorded as skipped.
TakeAuto(h, a) ==
    /\ handler[h].pc = "loop" /\ a \in handler[h].todo
    /\ IF MatchesTrigger(a, handler[h].ev)
       THEN handler' = [handler EXCEPT ![h].pc = "act", ![h].auto = a, ![h].step = 1,
                                       ![h].todo = @ \ {a}]
       ELSE handler' = [handler EXCEPT ![h] =
                          IF handler[h].todo = {a} THEN Free
                          ELSE [handler[h] EXCEPT !.todo = handler[h].todo \ {a}]]
    /\ started' = Plus(started, a, IF MatchesTrigger(a, handler[h].ev) THEN 1 ELSE 0)
    /\ NoEmit
    /\ UNCHANGED <<task, enabled, succeeded, failed, complete, runCount, ringer, rung,
                   moves, breaks>>

Step(h) == Config[handler[h].auto].actions[handler[h].step]

\* The action of a step, then the next step or the record of the run.
Acted(h) ==
    handler' = [handler EXCEPT ![h].ok = @ + 1, ![h].step = @ + 1,
                  ![h].pc = IF handler[h].step = Len(Config[handler[h].auto].actions)
                            THEN "record" ELSE "act"]

\* executeAction.  A write to a task that has been deleted throws; removing a
\* label never does.
ExecuteAction(h) ==
    /\ handler[h].pc = "act" /\ Step(h)[1] # "send_webhook"
    /\ task.there \/ Step(h)[1] = "remove_label"
    /\ Acted(h)
    /\ task' = CASE Step(h)[1] = "transition_status" ->
                      [task EXCEPT !.status = Step(h)[2]]
                 [] Step(h)[1] = "set_due_date" -> [task EXCEPT !.due = Step(h)[2]]
                 [] OTHER -> task
    /\ CASE Step(h)[1] = "transition_status" ->
              Emit("task_status_changed", handler[h].ev.to, Step(h)[2], TRUE)
         [] Step(h)[1] = "add_comment" ->
              Emit("comment_added", task.status, task.status, TRUE)
         [] OTHER -> NoEmit
    /\ UNCHANGED <<enabled, Counters, ringer, rung, moves, breaks>>

\* Mutant: a failed action does not end the run.
ActionFailsOnward(h) ==
    /\ handler[h].pc = "act" /\ Step(h)[1] # "send_webhook"
    /\ handler' = [handler EXCEPT ![h].step = @ + 1,
                     ![h].pc = IF handler[h].step
                                    = Len(Config[handler[h].auto].actions)
                               THEN "record" ELSE "act"]
    /\ IF task.there \/ Step(h)[1] = "remove_label" THEN Break ELSE UNCHANGED breaks
    /\ NoEmit
    /\ UNCHANGED <<task, enabled, Counters, ringer, rung, moves>>

\* Whatever throws ends the run in the catch block.
Caught(h) == handler' = [handler EXCEPT ![h].pc = "fail"]

\* Mutant: a failed action ends the run without a record.
ActionFailsSilently(h) ==
    /\ handler[h].pc = "act" /\ Step(h)[1] # "send_webhook"
    /\ IF task.there \/ Step(h)[1] = "remove_label" THEN Break ELSE UNCHANGED breaks
    /\ NextAuto(h)
    /\ NoEmit
    /\ UNCHANGED <<task, enabled, Counters, ringer, rung, moves>>

\* An action throws: the later steps of the run are left out.
ActionFails(h) ==
    /\ handler[h].pc = "act" /\ Step(h)[1] # "send_webhook"
    /\ IF task.there \/ Step(h)[1] = "remove_label" THEN Break ELSE UNCHANGED breaks
    /\ Caught(h)
    /\ NoEmit
    /\ UNCHANGED <<task, enabled, Counters, ringer, rung, moves>>

\* send_webhook goes out with or without the task.  A transient answer, or
\* none, is tried once more after two seconds; a refusal throws at once.
SendWebhook(h) ==
    /\ handler[h].pc = "act" /\ Step(h)[1] = "send_webhook"
    /\ \/ Acted(h) /\ UNCHANGED breaks
       \/ handler' = [handler EXCEPT ![h].pc = "repost"] /\ UNCHANGED breaks
       \/ Caught(h) /\ Break
    /\ NoEmit
    /\ UNCHANGED <<task, enabled, Counters, ringer, rung, moves>>

\* The second post settles it: whatever is not accepted throws.
RepostWebhook(h) ==
    /\ handler[h].pc = "repost"
    /\ \/ Acted(h) /\ UNCHANGED breaks
       \/ Caught(h) /\ Break
    /\ NoEmit
    /\ UNCHANGED <<task, enabled, Counters, ringer, rung, moves>>

\* recordRun never throws: without the automation there is no row to write, and
\* a rejected insert is swallowed.
NewRow(tally, a) ==
    \/ tally' = Plus(tally, a, IF enabled[a] = "gone" THEN 0 ELSE 1) /\ UNCHANGED breaks
    \/ UNCHANGED tally /\ Break

\* Every action has returned.
RecordRun(h) ==
    LET a == handler[h].auto IN
    /\ handler[h].pc = "record"
    /\ NewRow(succeeded, a)
    /\ complete' = Plus(complete, a,
                        IF handler[h].ok = Len(Config[a].actions) THEN 1 ELSE 0)
    /\ handler' = [handler EXCEPT ![h].pc = "count"]
    /\ NoEmit
    /\ UNCHANGED <<task, enabled, started, failed, runCount, ringer, rung, moves>>

\* Mutant: the counter counts steps.
CountSteps(h) ==
    /\ handler[h].pc = "count"
    /\ runCount' = Plus(runCount, handler[h].auto, handler[h].step)
    /\ NextAuto(h)
    /\ NoEmit
    /\ UNCHANGED <<task, enabled, started, succeeded, failed, complete, ringer, rung, moves,
                   breaks>>

\* runCount is incremented, whether the row was written or not.  The update
\* throws if the automation is gone, or is rejected: then the run that has
\* succeeded goes to the catch block too.
CountRun(h) ==
    LET a == handler[h].auto IN
    /\ handler[h].pc = "count"
    /\ \/ enabled[a] # "gone" /\ NextAuto(h)
          /\ runCount' = Plus(runCount, a, 1) /\ UNCHANGED breaks
       \/ Caught(h) /\ UNCHANGED runCount
          /\ IF enabled[a] = "gone" THEN UNCHANGED breaks ELSE Break
    /\ NoEmit
    /\ UNCHANGED <<task, enabled, started, succeeded, failed, complete, ringer, rung, moves>>

\* The catch block records a failed run.
RecordFailed(h) ==
    /\ handler[h].pc = "fail"
    /\ NewRow(failed, handler[h].auto)
    /\ NextAuto(h)
    /\ NoEmit
    /\ UNCHANGED <<task, enabled, started, succeeded, complete, runCount, ringer, rung, moves>>

\* The replica that runs the handler dies.
HandlerDies(h) ==
    /\ handler[h] # Free /\ Break
    /\ handler' = [handler EXCEPT ![h] = Free]
    /\ NoEmit
    /\ UNCHANGED <<task, enabled, Counters, ringer, rung, moves>>

----------------------------------------------------------------------------
(* The due-soon tick, one at a time under its lock *)

\* Mutant: tasks that are marked already are read as well.
DueScanAll ==
    /\ ringer = "idle" /\ task.there
    /\ task.due = "near" /\ task.status \notin Closed
    /\ ringer' = "mark"
    /\ NoEmit
    /\ UNCHANGED <<task, enabled, handler, Counters, rung, moves, breaks>>

\* Without an unmarked task that is due the tick returns, before it has cleared
\* any marker.
DueScan ==
    /\ ringer = "idle" /\ task.there
    /\ task.due = "near" /\ ~task.marked /\ task.status \notin Closed
    /\ ringer' = "mark"
    /\ NoEmit
    /\ UNCHANGED <<task, enabled, handler, Counters, rung, moves, breaks>>

\* The marker is written before the event is emitted, so that a crash between
\* the two loses the event and never repeats it.
DueMark ==
    /\ ringer = "mark" /\ ringer' = "emit"
    /\ task' = [task EXCEPT !.marked = TRUE]
    /\ NoEmit
    /\ UNCHANGED <<enabled, handler, Counters, rung, moves, breaks>>

DueEmit ==
    /\ ringer = "emit" /\ ringer' = "clear"
    /\ Emit("task_due_soon", task.status, task.status, FALSE)
    /\ rung' = rung + 1
    /\ UNCHANGED <<task, enabled, handler, Counters, moves, breaks>>

\* Mutant: the tick starts over instead of returning.
DueClearAgain ==
    /\ ringer = "clear" /\ ringer' = "scan"
    /\ NoEmit
    /\ UNCHANGED <<task, enabled, handler, Counters, rung, moves, breaks>>

\* Markers of tasks that are no longer due soon, or closed, are cleared.
DueClear ==
    LET out == task.due \in {"none", "far"} \/ task.status \in Closed IN
    /\ ringer = "clear" /\ ringer' = "idle"
    /\ task' = [task EXCEPT !.marked = @ /\ ~out]
    /\ rung' = IF out THEN 0 ELSE rung
    /\ NoEmit
    /\ UNCHANGED <<enabled, handler, Counters, moves, breaks>>

DueDies ==
    /\ ringer # "idle" /\ Break /\ ringer' = "idle"
    /\ NoEmit
    /\ UNCHANGED <<task, enabled, handler, Counters, rung, moves>>

----------------------------------------------------------------------------
(* Users *)

ChangeStatus(s) ==
    /\ Move /\ task.there /\ s # task.status
    /\ task' = [task EXCEPT !.status = s]
    /\ Emit("task_status_changed", task.status, s, FALSE)
    /\ UNCHANGED <<enabled, handler, Counters, ringer, rung, breaks>>

AddComment ==
    /\ Move /\ task.there
    /\ Emit("comment_added", task.status, task.status, FALSE)
    /\ UNCHANGED <<task, enabled, handler, Counters, ringer, rung, breaks>>

SetDueDate(d) ==
    /\ Move /\ task.there /\ d # task.due
    /\ task' = [task EXCEPT !.due = d]
    /\ NoEmit
    /\ UNCHANGED <<enabled, handler, Counters, ringer, rung, breaks>>

RemoveTask ==
    /\ Move /\ task.there
    /\ task' = [task EXCEPT !.there = FALSE]
    /\ NoEmit
    /\ UNCHANGED <<enabled, handler, Counters, ringer, rung, breaks>>

\* toggle, or remove, which takes the run rows with it.
EditAutomation(a, to) ==
    /\ Move /\ enabled[a] \notin {"gone", to}
    /\ enabled' = [enabled EXCEPT ![a] = to]
    /\ NoEmit
    /\ UNCHANGED <<task, handler, Counters, ringer, rung, breaks>>

HandlerStep(h) ==
    \/ \E a \in handler[h].todo : TakeAuto(h, a)
    \/ ExecuteAction(h) \/ ActionFails(h) \/ SendWebhook(h) \/ RepostWebhook(h)
    \/ RecordRun(h) \/ CountRun(h) \/ RecordFailed(h)

AutomationsNext ==
    \/ \E h \in Handlers : HandlerStep(h) \/ HandlerDies(h)
                           \/ \E e \in inbox : Listen(h, e)
    \/ DueScan \/ DueMark \/ DueEmit \/ DueClear \/ DueDies
    \/ \E s \in Statuses : ChangeStatus(s)
    \/ AddComment \/ RemoveTask
    \/ \E d \in Dues : SetDueDate(d)
    \/ \E a \in Autos, to \in {"on", "off", "gone"} : EditAutomation(a, to)

AutomationsSpec == AutomationsInit /\ [][AutomationsNext]_automationVars

----------------------------------------------------------------------------
(* Properties *)

\* Automations never set each other off: each runs at most once per event that
\* a user or the scheduler caused, even when two of them undo each other.
NoCascade == \A a \in Autos : started[a] <= outside

\* A run is recorded as succeeded only if every one of its actions took effect.
SuccessIsComplete == \A a \in Autos : succeeded[a] <= complete[a]

InHand(a, pcs) == {h \in Handlers : handler[h].auto = a /\ handler[h].pc \in pcs}

\* runCount counts none but complete runs.  Against the recorded successes it
\* runs ahead only by records that were swallowed, and falls behind only by runs
\* that are between the two writes, or had the second one fail or died there.
RunCountTracksSuccess ==
    \A a \in Autos :
        /\ runCount[a] <= complete[a]
        /\ runCount[a] <= succeeded[a] + breaks
        /\ enabled[a] # "gone" =>
             succeeded[a] <= runCount[a] + Cardinality(InHand(a, {"count"})) + breaks

\* A run that was begun leaves one record, of a success or of a failure, unless
\* it is still at work, and both or none only where a write was rejected or the
\* replica died.
EveryRunRecorded ==
    \A a \in Autos :
        LET accounted == succeeded[a] + failed[a]
                           + Cardinality(InHand(a, {"act", "repost", "record", "fail"}))
        IN  enabled[a] # "gone" =>
              started[a] <= accounted + breaks /\ accounted <= started[a] + breaks

\* A task rings once for each time it comes into the due-soon window: not again
\* before its marker has been cleared, crashes and edits included.
RingsOncePerMark == rung <= 1

\* Automations run once per event from outside, their records tell what they
\* did, and a reminder comes once, whatever fails, dies or is edited meanwhile.
AutomationsSound ==
    /\ NoCascade /\ SuccessIsComplete /\ RunCountTracksSuccess /\ EveryRunRecorded
    /\ RingsOncePerMark
=============================================================================
