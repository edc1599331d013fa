----------------------------- MODULE MCWorkflow -----------------------------
(***************************************************************************)
(* Instances of Workflow for TLC: the "generic" preset and one custom      *)
(* status name.                                                            *)
(***************************************************************************)
EXTENDS Workflow, TLC

Generic == {"Todo", "In Progress", "Done"}
GenericDone == {"Done"}
GenericEdges == {<<"Todo", "In Progress">>, <<"In Progress", "Todo">>,
                 <<"In Progress", "Done">>, <<"Done", "In Progress">>}
AllNames == Generic \cup {"Custom"}

AllOps == {"create", "remove", "changeStatus", "createStatus", "updateStatus", "deleteStatus",
           "resetToDefaults", "createColumn", "deleteColumn", "replaceTransitions",
           "resetTransitions"}

\* Inputs of createStatus.
CustomInitial == {[name |-> "Custom", initial |-> TRUE, done |-> FALSE]}
NoCreations == {}

\* Inputs of updateStatus.
NoPatch == [name |-> None, initial |-> None, done |-> None, column |-> FALSE]
RenameMoveOrMakeInitial == {[NoPatch EXCEPT !.name = "Custom", !.column = TRUE],
                            [NoPatch EXCEPT !.initial = TRUE]}
NoPatches == {}

\* Inputs of replaceWorkflowTransitions.
OpenEdges == {{<<"Todo", "Done">>, <<"Custom", "Done">>}}
NoEdgeSets == {}

\* ColumnIds is not here: FreshColumns chooses from it.
Symmetry == Permutations(StatusIds) \cup Permutations(Tasks) \cup Permutations(Requests)
=============================================================================
