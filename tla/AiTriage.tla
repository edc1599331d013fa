------------------------------ MODULE AiTriage ------------------------------
(***************************************************************************)
(* What the AI jobs write and what they cost (apps/api/src/modules/ai):    *)
(* PrioritizeProcessor, which gives a task a priority while its user may   *)
(* be giving it another, and the monthly budget of the standup summaries.  *)
(* The model's answer takes seconds; nothing is locked meanwhile.          *)
(***************************************************************************)
EXTENDS Naturals, FiniteSets

CONSTANTS
    TriageJobs,    \* prioritize jobs of one task
    Standups,      \* standup requests handled at the same time
    MaxStandups,   \* bound: standup requests
    Budget,        \* monthlyBudgetUsdCents of standups; 0 means no cap
    Cost,          \* the most cents one answer takes
    MaxEdits       \* bound: priorities chosen by the user

ASSUME AiTriageAssumption == {Budget, Cost, MaxEdits, MaxStandups} \subseteq Nat

Priorities == {"Low", "Medium", "High"}

VARIABLES
    priority, aiPriorityReason,  \* of the task; the reason is the priority it argues for
    chosen,      \* history: the last priority a user chose
    edits,
    triage,      \* jobs
    lateEdit,    \* history: that choice came after a job's last look at the task
    looksNew,    \* history: that choice left the task as one nobody has looked at
    overlap,     \* history: two jobs were at work at the same time
    standup,     \* requests in flight
    asked,       \* requests so far
    spent,       \* recorded cents of the month
    ungated      \* history: those recorded by generateStandup

edited == <<chosen, edits, lateEdit, looksNew>>
budgetVars == <<standup, asked, spent, ungated>>
aiVars == <<priority, aiPriorityReason, edited, triage, overlap, budgetVars>>

NoTriage == [pc |-> "waiting", suggested |-> "Medium"]
Untouched == priority = "Medium" /\ aiPriorityReason = "none"

AiTriageInit ==
    /\ priority = "Medium" /\ aiPriorityReason = "none" /\ chosen = "none" /\ edits = 0
    /\ triage = [j \in TriageJobs |-> NoTriage]
    /\ lateEdit = FALSE /\ looksNew = FALSE /\ overlap = FALSE
    /\ standup = [s \in Standups |-> "idle"] /\ asked = 0 /\ spent = 0 /\ ungated = 0

-----------------------------------------------------------------------------
\* The user chooses a priority, Medium included; a reason of the model stays.
ChoosePriority(p) ==
    /\ edits < MaxEdits /\ edits' = edits + 1
    /\ priority' = p /\ chosen' = p
    /\ lateEdit' = (\E j \in TriageJobs : triage[j].pc = "write")
    /\ looksNew' = (p = "Medium" /\ aiPriorityReason = "none")
    /\ UNCHANGED <<aiPriorityReason, triage, overlap, budgetVars>>

\* Only a task as it was created is looked at, and only one that says something:
\* otherwise the job ends here.
TriageRead(j) ==
    /\ triage[j].pc = "waiting"
    /\ \E next \in (IF Untouched THEN {"ask", "done"} ELSE {"done"}) :
          triage' = [triage EXCEPT ![j].pc = next]
    /\ overlap' = (overlap \/ \E k \in TriageJobs : triage[k].pc \in {"ask", "none", "recheck", "write"})
    /\ UNCHANGED <<priority, aiPriorityReason, edited, budgetVars>>

\* The model's priority, or the one of the keywords; or no signal at all.
TriageAsk(j) ==
    /\ triage[j].pc = "ask"
    /\ \/ \E p \in Priorities : triage' = [triage EXCEPT ![j] = [pc |-> "recheck", suggested |-> p]]
       \/ triage' = [triage EXCEPT ![j].pc = "none"]
    /\ UNCHANGED <<priority, aiPriorityReason, edited, overlap, budgetVars>>

\* Without a signal only the reason is written, whatever happened meanwhile; a
\* write that fails is forgotten.
TriageNoSignal(j) ==
    /\ triage[j].pc = "none"
    /\ aiPriorityReason' \in {"Medium", aiPriorityReason}
    /\ triage' = [triage EXCEPT ![j].pc = "done"]
    /\ UNCHANGED <<priority, edited, overlap, budgetVars>>

\* MUTANT of TriageRecheck: the task is not read again.
TriageRecheckSkipped(j) ==
    /\ triage[j].pc = "recheck"
    /\ triage' = [triage EXCEPT ![j].pc = "write"]
    /\ UNCHANGED <<priority, aiPriorityReason, edited, overlap, budgetVars>>

\* The user may have edited the task while the model was thinking.
TriageRecheck(j) ==
    /\ triage[j].pc = "recheck"
    /\ triage' = [triage EXCEPT ![j].pc = IF Untouched THEN "write" ELSE "done"]
    /\ UNCHANGED <<priority, aiPriorityReason, edited, overlap, budgetVars>>

\* MUTANT of TriageWrite: the reason is the model's, the priority is kept.
TriageWriteReason(j) ==
    /\ triage[j].pc = "write"
    /\ aiPriorityReason' = triage[j].suggested
    /\ triage' = [triage EXCEPT ![j].pc = "done"]
    /\ UNCHANGED <<priority, edited, overlap, budgetVars>>

TriageWrite(j) ==
    /\ triage[j].pc = "write"
    /\ priority' = triage[j].suggested /\ aiPriorityReason' = triage[j].suggested
    /\ triage' = [triage EXCEPT ![j].pc = "done"]
    /\ UNCHANGED <<edited, overlap, budgetVars>>

\* A read or a write rejects, or the worker dies: the job is left undone, or
\* tried again from its start.
TriageAgain(j) ==
    /\ triage[j].pc \in {"ask", "none", "recheck", "write"}
    /\ triage' = [triage EXCEPT ![j] = NoTriage]
    /\ UNCHANGED <<priority, aiPriorityReason, edited, overlap, budgetVars>>

-----------------------------------------------------------------------------
CalmTriage == UNCHANGED <<priority, aiPriorityReason, edited, triage, overlap>>

\* A new request, in the state it is left in.
Request(s, st) ==
    /\ standup[s] = "idle" /\ asked < MaxStandups /\ asked' = asked + 1
    /\ standup' = [standup EXCEPT ![s] = st]
    /\ UNCHANGED <<spent, ungated>> /\ CalmTriage

\* MUTANT of StandupGate: refuses only beyond the budget.
StandupGateBeyond(s) == Request(s, IF Budget = 0 \/ spent <= Budget THEN "asking" ELSE "idle")

\* synthesize reads the month's spending; from the budget on the model is not
\* asked.
StandupGate(s) == Request(s, IF Budget = 0 \/ spent < Budget THEN "asking" ELSE "idle")

\* generateStandup, behind POST /ai/users/:id/standup, knows of no budget.
GenerateStandup(s) == Request(s, "generating")

\* MUTANT of StandupAnswer: a repeated record charges for it twice.
StandupAnswerTwice(s) ==
    /\ standup[s] # "idle"
    /\ spent' = spent + 2 * Cost
    /\ ungated' = IF standup[s] = "generating" THEN ungated + 2 * Cost ELSE ungated
    /\ standup' = [standup EXCEPT ![s] = "idle"]
    /\ UNCHANGED asked /\ CalmTriage

\* Both record what the answer took under the same kind; a failed record is only
\* logged, and a model that fails takes nothing.
StandupAnswer(s) ==
    /\ standup[s] # "idle"
    /\ \E cents \in 0..Cost :
          /\ spent' = spent + cents
          /\ ungated' = IF standup[s] = "generating" THEN ungated + cents ELSE ungated
    /\ standup' = [standup EXCEPT ![s] = "idle"]
    /\ UNCHANGED asked /\ CalmTriage

AiTriageNext ==
    \/ \E p \in Priorities : ChoosePriority(p)
    \/ \E j \in TriageJobs : \/ TriageRead(j) \/ TriageAsk(j) \/ TriageNoSignal(j)
                             \/ TriageRecheck(j) \/ TriageWrite(j) \/ TriageAgain(j)
    \/ \E s \in Standups : StandupGate(s) \/ GenerateStandup(s) \/ StandupAnswer(s)

AiTriageSpec == AiTriageInit /\ [][AiTriageNext]_aiVars

-----------------------------------------------------------------------------
\* Types; no request is charged for twice.
AiTriageTypeOK ==
    /\ priority \in Priorities /\ aiPriorityReason \in Priorities \cup {"none"}
    /\ chosen \in Priorities \cup {"none"} /\ edits \in 0..MaxEdits
    /\ triage \in [TriageJobs -> [pc: {"waiting", "ask", "none", "recheck", "write", "done"},
                                  suggested: Priorities]]
    /\ lateEdit \in BOOLEAN /\ looksNew \in BOOLEAN /\ overlap \in BOOLEAN
    /\ standup \in [Standups -> {"idle", "asking", "generating"}] /\ asked \in 0..MaxStandups
    /\ spent \in 0..(Cost * asked) /\ ungated \in 0..spent

\* A priority that a user chose is not replaced by the model's, with two
\* exceptions: it was chosen between a job's last look at the task and its
\* write, or it is a Medium on a task without a reason, which a job takes for a
\* priority nobody chose (ai.processors.ts, 401 and 464-498).
UserChoiceStands == chosen # "none" => priority = chosen \/ lateEdit \/ looksNew

\* The reason on the task argues for the priority on the task, unless a user
\* has changed it or two jobs were at work on it (ai.processors.ts, 451-461
\* and 488-498).
ReasonFitsPriority ==
    aiPriorityReason # "none" => aiPriorityReason = priority \/ chosen # "none" \/ overlap

\* Under a budget, what synthesize pays goes beyond it only for the requests
\* that were already being answered when it was reached; generateStandup has no
\* part in this, it pays whatever the budget says (ai-standup.service.ts,
\* 113-127, and ai-sync.service.ts, 457-468).
OverspentByRequestsInFlight ==
    LET asking == {s \in Standups : standup[s] = "asking"}
    IN  Budget > 0 => (spent - ungated) + Cost * Cardinality(asking)
                        < Budget + Cost * Cardinality(Standups)

\* The slow answers of the model neither overrule the user, where his choice can
\* be told from the default, nor outspend the budget behind the gate by more
\* than is already under way.
TriageSound == UserChoiceStands /\ ReasonFitsPriority /\ OverspentByRequestsInFlight
=============================================================================
