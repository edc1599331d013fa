----------------------------- MODULE MCServices -----------------------------
(* Ten services that share no state.  As in MCBackground each behaviour      *)
(* moves one of them, and TLC checks the sum of their state spaces.  The     *)
(* two halves of AiTriage move apart for the same reason.                    *)
EXTENDS ExportRuns, SourceImports, CodeEvents, AiTriage, Formulas, Worklog, NextRun, Pomodoro,
        SnoozeRules, Automations

VARIABLE focus  \* the service that moves

mcVars == <<focus, vars, sourceImportVars, codeEventVars, aiVars, formulaVars, worklogVars,
            nextRunVars, pomodoroVars, snoozeVars, automationVars>>

\* Two automations that undo each other, and one for the due-soon event.
MCConfig ==
    [a1 |-> [trigger |-> "task_status_changed", from |-> "any", to |-> "todo",
             actions |-> << <<"transition_status", "done">>,
                            <<"set_due_date", "far">> >>],
     a2 |-> [trigger |-> "task_status_changed", from |-> "any", to |-> "done",
             actions |-> << <<"transition_status", "todo">>,
                            <<"add_comment", "todo">> >>],
     a3 |-> [trigger |-> "task_due_soon", from |-> "any", to |-> "any",
             actions |-> << <<"send_webhook", "todo">> >>]]

MCMixes == {[i1 |-> "jira", i2 |-> "jira"], [i1 |-> "linear", i2 |-> "github"]}
MCFirstName == <<"A", "B", "C">>

MCInit ==
    /\ focus \in {"exports", "imports", "code", "triage", "standups", "formulas", "worklog", "nextRun",
                 "pomodoro", "snooze", "automations"}
    /\ Init /\ CodeEventsInit /\ AiTriageInit /\ WorklogInit /\ PomodoroInit /\ SnoozeInit
    \* The services that stand still do so in one state.
    /\ AutomationsInit
    /\ focus # "automations" => task.due = "none"
    /\ SourceImportsInit
    /\ focus # "imports" => /\ nextTaskNumber[1] = 0
                            /\ \A r \in ImportIds : imp[r].source = "jira"
    /\ FormulasInit
    /\ focus # "formulas" => \A f \in Fields : def[f].st = "live" /\ def[f].refs = {}
    /\ NextRunInit
    /\ focus # "nextRun" => schedule.frequency = "daily" /\ schedule.interval = 1 /\ ranOn = 0

MCNext ==
    /\ UNCHANGED focus
    /\ \/ /\ focus = "exports" /\ Next
          /\ UNCHANGED <<sourceImportVars, codeEventVars, aiVars, formulaVars, worklogVars,
                         nextRunVars, pomodoroVars, snoozeVars, automationVars>>
       \/ /\ focus = "imports" /\ SourceImportsNext
          /\ UNCHANGED <<vars, codeEventVars, aiVars, formulaVars, worklogVars, nextRunVars,
                         pomodoroVars, snoozeVars, automationVars>>
       \/ /\ focus = "code" /\ CodeEventsNext
          /\ UNCHANGED <<vars, sourceImportVars, aiVars, formulaVars, worklogVars, nextRunVars,
                         pomodoroVars, snoozeVars, automationVars>>
       \/ /\ \/ focus = "triage" /\ UNCHANGED budgetVars /\ AiTriageNext
             \/ focus = "standups" /\ CalmTriage /\ AiTriageNext
          /\ UNCHANGED <<vars, sourceImportVars, codeEventVars, formulaVars, worklogVars,
                         nextRunVars, pomodoroVars, snoozeVars, automationVars>>
       \/ /\ focus = "formulas" /\ FormulasNext
          /\ UNCHANGED <<vars, sourceImportVars, codeEventVars, aiVars, worklogVars, nextRunVars,
                         pomodoroVars, snoozeVars, automationVars>>
       \/ /\ focus = "worklog" /\ WorklogNext
          /\ UNCHANGED <<vars, sourceImportVars, codeEventVars, aiVars, formulaVars, nextRunVars,
                         pomodoroVars, snoozeVars, automationVars>>
       \/ /\ focus = "nextRun" /\ NextRunNext
          /\ UNCHANGED <<vars, sourceImportVars, codeEventVars, aiVars, formulaVars, worklogVars,
                         pomodoroVars, snoozeVars, automationVars>>
       \/ /\ focus = "pomodoro" /\ PomodoroNext
          /\ UNCHANGED <<vars, sourceImportVars, codeEventVars, aiVars, formulaVars, worklogVars,
                         nextRunVars, snoozeVars, automationVars>>
       \/ /\ focus = "snooze" /\ SnoozeNext
          /\ UNCHANGED <<vars, sourceImportVars, codeEventVars, aiVars, formulaVars, worklogVars,
                         nextRunVars, pomodoroVars, automationVars>>
       \/ /\ focus = "automations" /\ AutomationsNext
          /\ UNCHANGED <<vars, sourceImportVars, codeEventVars, aiVars, formulaVars, worklogVars,
                         nextRunVars, pomodoroVars, snoozeVars>>

MCSpec == MCInit /\ [][MCNext]_mcVars /\ \A r \in Runs : WF_vars(Process(r))

\* The state of every service is well typed.
MCTypeOK ==
    /\ TypeOK /\ SourceImportsTypeOK /\ CodeEventsTypeOK /\ AiTriageTypeOK /\ FormulasTypeOK
    /\ WorklogTypeOK /\ NextRunTypeOK /\ PomodoroTypeOK /\ SnoozeTypeOK /\ AutomationsTypeOK
=============================================================================
