--------------------------- MODULE MCProfileStore ---------------------------
(* ProfileStore for TLC. *)
EXTENDS ProfileStore

\* The calls play the same part, and so do the identifiers.
StoreSymmetry == Permutations(Calls) \cup Permutations(Ids)
=============================================================================
