------------------------------ MODULE MCPlans ------------------------------
(* Plans for TLC. *)
EXTENDS Plans, TLC

\* Row identifiers and calls are interchangeable.
IdSymmetry == Permutations(PlanIds) \cup Permutations(ItemIds) \cup Permutations(Handlers)
=============================================================================
