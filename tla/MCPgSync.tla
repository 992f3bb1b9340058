------------------------------ MODULE MCPgSync ------------------------------
(* Small instances of PgSync. *)
EXTENDS PgSync

CONSTANTS s1, s2, p1, p2

\* Every row has a title or a date of its own.
DistinctKeys == [i \in Ids |-> i]

\* Every song has the same title, and every plan the same date.
SameKey == [i \in Ids |-> "key"]
=============================================================================
