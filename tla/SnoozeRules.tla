----------------------------- MODULE SnoozeRules -----------------------------
(***************************************************************************)
(* A user's weekly do-not-disturb rules (NotificationSnoozeService) and    *)
(* the check the dispatcher makes with them before it enqueues a note.     *)
(* create validates a rule; update validates only a patch that carries     *)
(* the days and both hours, and writes the fields it was given one by one. *)
(***************************************************************************)
EXTENDS Naturals

CONSTANTS
    RuleIds,
    DaysPerWeek,  \* 7 in the code
    HoursPerDay   \* 24 in the code

ASSUME SnoozeAssumption == DaysPerWeek \in Nat \ {0} /\ HoursPerDay \in Nat \ {0}

Days == 0..(DaysPerWeek - 1)
Hours == 0..(HoursPerDay - 1)

VARIABLES
    snooze,    \* NotificationSnoozeRule rows
    piecemeal  \* history: the rows whose window was last written by a partial patch

snoozeVars == <<snooze, piecemeal>>

\* What the request bodies can carry: at least one day, hours of the day.
Windows == [days: (SUBSET Days) \ {{}}, start: Hours, end: Hours, enabled: BOOLEAN]
NoRule == [days |-> {}, start |-> 0, end |-> 0, enabled |-> FALSE]

SnoozeInit ==
    /\ snooze = [r \in RuleIds |-> NoRule]
    /\ piecemeal = {}

\* Mutant: the two hours are not compared.
ValidatedHours(w) == w.days # {} /\ w.start \in Hours /\ w.end \in Hours

\* validate.
Validated(w) == w.days # {} /\ w.start \in Hours /\ w.end \in Hours /\ w.start # w.end

CreateRule(r) ==
    /\ snooze[r] = NoRule
    /\ \E w \in Windows : Validated(w) /\ snooze' = [snooze EXCEPT ![r] = w]
    /\ UNCHANGED piecemeal

\* The row after a patch that gives only the fields in `given`.
AfterPatch(old, patch, given) ==
    [days |-> IF "days" \in given THEN patch.days ELSE old.days,
     start |-> IF "start" \in given THEN patch.start ELSE old.start,
     end |-> IF "end" \in given THEN patch.end ELSE old.end,
     enabled |-> IF "enabled" \in given THEN patch.enabled ELSE old.enabled]

Whole == {"days", "start", "end"}  \* the fields update validates together

\* Mutant: a patch with the days alone takes them off the row.
UpdateRuleRemovesDays(r) ==
    /\ snooze[r] # NoRule
    /\ \E patch \in Windows, given \in SUBSET (Whole \cup {"enabled"}) :
         snooze' = [snooze EXCEPT ![r].days = @ \ patch.days]
    /\ UNCHANGED piecemeal

UpdateRule(r) ==
    /\ snooze[r] # NoRule
    /\ \E patch \in Windows, given \in SUBSET (Whole \cup {"enabled"}) :
         /\ Whole \subseteq given => Validated(patch)
         /\ snooze' = [snooze EXCEPT ![r] = AfterPatch(@, patch, given)]
         /\ piecemeal' = CASE Whole \subseteq given -> piecemeal \ {r}
                           [] given \cap {"start", "end"} # {} /\ ~(Whole \subseteq given) ->
                                piecemeal \cup {r}
                           [] OTHER -> piecemeal

RemoveRule(r) ==
    /\ snooze' = [snooze EXCEPT ![r] = NoRule]
    /\ piecemeal' = piecemeal \ {r}

SnoozeNext == \E r \in RuleIds : CreateRule(r) \/ UpdateRule(r) \/ RemoveRule(r)

SnoozeSpec == SnoozeInit /\ [][SnoozeNext]_snoozeVars

-----------------------------------------------------------------------------
\* Mutant: the morning after a wrapping window is looked up under its own day.
InsideRuleSameDay(rule, day, hour) ==
    /\ day \in rule.days
    /\ IF rule.end < rule.start THEN hour >= rule.start \/ hour < rule.end
       ELSE hour >= rule.start /\ hour < rule.end

IsNowInsideRule(rule, day, hour) ==
    IF rule.end < rule.start
    THEN \/ day \in rule.days /\ hour >= rule.start
         \/ ((day + DaysPerWeek - 1) % DaysPerWeek) \in rule.days /\ hour < rule.end
    ELSE day \in rule.days /\ hour >= rule.start /\ hour < rule.end

IsWithinSnoozeWindow(day, hour) ==
    \E r \in RuleIds : snooze[r].enabled /\ IsNowInsideRule(snooze[r], day, hour)

\* What a window means: from its start on each listed day, the hours up to its
\* end, on the next day if the end is the earlier of the two.
WindowHours(rule) ==
    LET length == IF rule.end < rule.start THEN rule.end + HoursPerDay - rule.start
                                           ELSE rule.end - rule.start
    IN  {(d * HoursPerDay + rule.start + k) % (DaysPerWeek * HoursPerDay) :
           d \in rule.days, k \in 0..(length - 1)}

-----------------------------------------------------------------------------
\* Rows keep the shape the request bodies have: an existing rule has a day.
SnoozeTypeOK ==
    /\ snooze \in [RuleIds -> Windows \cup {NoRule}]
    /\ piecemeal \subseteq RuleIds

\* The dispatcher's check holds exactly in the hours the enabled rules cover,
\* across midnight and across the end of the week (snooze.service.ts, 92-167).
SnoozedExactlyInWindow ==
    \A day \in Days, hour \in Hours :
        IsWithinSnoozeWindow(day, hour)
            <=> \E r \in RuleIds : /\ snooze[r].enabled
                                   /\ (day * HoursPerDay + hour) \in WindowHours(snooze[r])

\* A rule that is never inside its window ("a zero-length window is
\* meaningless", validate) is the work of a patch that carried one hour without
\* the rest: create and a whole patch refuse it.
EmptyWindowIsPiecemeal ==
    \A r \in RuleIds : snooze[r] # NoRule /\ WindowHours(snooze[r]) = {} => r \in piecemeal

\* Rules silence the hours they cover and no others, and cover some.
SnoozeSound == SnoozedExactlyInWindow /\ EmptyWindowIsPiecemeal
=============================================================================
