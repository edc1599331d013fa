------------------------------ MODULE MCImports ------------------------------
(* Imports, goals and the scheduler lock: components that share no state, so *)
(* that each behaviour moves one of them and TLC checks the sum of their     *)
(* state spaces.                                                             *)
EXTENDS Imports, SchedulerLock, Goals

VARIABLE focus  \* the component that moves

mcVars == <<focus, vars, lockVars, goalVars>>

MCInit == focus \in {"imports", "lock", "goals"} /\ Init /\ LockInit /\ GoalsInit

MCNext ==
    /\ UNCHANGED focus
    /\ \/ focus = "imports" /\ Next /\ UNCHANGED <<lockVars, goalVars>>
       \/ focus = "lock" /\ LockNext /\ UNCHANGED <<vars, goalVars>>
       \/ focus = "goals" /\ GoalsNext /\ UNCHANGED <<vars, lockVars>>

\* No step of the component that stands still is fair: nothing is under way.
MCSpec == MCInit /\ [][MCNext]_mcVars /\ Fairness /\ WF_lockVars(Tick)

\* The lock and the goals are well typed.
MCTypeOK == LockTypeOK /\ GoalsTypeOK
=============================================================================
