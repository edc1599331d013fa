------------------------------ MODULE MCGoals ------------------------------
(* Goals with enough key results for the rounding of their weights to add up. *)
EXTENDS Goals
=============================================================================
