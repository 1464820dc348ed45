------------------------------- MODULE Tables -------------------------------
(***************************************************************************)
(* Services whose requests meet rows stored before.  A table is a function *)
(* from row ids, requests among them, to rows, NULL where there is none.   *)
(***************************************************************************)
EXTENDS RequestHandler

\* The table with the rows that are there before.
Stored(ids, old) == [l \in ids |-> IF l \in DOMAIN old THEN old[l] ELSE NULL]

Rows(table) == {l \in DOMAIN table : table[l] # NULL}

\* The rows of a table that a step inserts or changes.
Written(table) == {l \in DOMAIN table : table'[l] # table[l]}

=============================================================================
