------------------------------ MODULE MCSprints ------------------------------
(***************************************************************************)
(* Instances of Sprints for TLC.                                           *)
(***************************************************************************)
EXTENDS Sprints, TLC

Symmetry == Permutations(Tasks) \cup Permutations(Requests)
=============================================================================
