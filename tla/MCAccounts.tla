----------------------------- MODULE MCAccounts -----------------------------
(* Accounts, with one company address and one client; who may see a          *)
(* project; and the scheduled exports.  The three share no state, so each    *)
(* behaviour moves one of them and TLC checks the sum of their state spaces. *)
EXTENDS ExportSchedules, Accounts, Access, TLC

VARIABLE focus  \* the component that moves

mcVars == <<focus, vars, accountVars, accessVars>>

MCInit ==
    /\ focus \in {"schedules", "accounts", "access"}
    /\ Init /\ AccountsInit
    \* A component that stands still does so in one state.
    /\ AccessInit
    /\ focus # "access" => user["ann"].role = "Admin" /\ user["bob"].kind = "client" /\ project.public

MCNext ==
    /\ UNCHANGED focus
    /\ \/ focus = "schedules" /\ Next /\ UNCHANGED <<accountVars, accessVars>>
       \/ focus = "accounts" /\ AccountsNext /\ UNCHANGED <<vars, accessVars>>
       \/ focus = "access" /\ AccessNext /\ UNCHANGED <<vars, accountVars>>

MCSpec == MCInit /\ [][MCNext]_mcVars

\* The replicas are interchangeable.
MCSymmetry == Permutations(Replicas)

\* The state of every component is well typed.
MCTypeOK == TypeOK /\ AccountsTypeOK /\ AccessTypeOK
=============================================================================
