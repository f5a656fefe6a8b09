-------------------------- MODULE MCSchemaQueries ---------------------------
(* Two users, one of them an administrator, three schema queries.          *)
EXTENDS SchemaQueries, TLC

CONSTANTS Ada, Bob, q1, q2, q3, s1, s2, r1, r2

MCUser == {Ada, Bob}
MCAdmin == {Ada}
MCQuery == {q1, q2, q3}
MCServer == {s1}
MCRequest == {r1, r2}

(* The names of queries, servers and threads mean nothing.                 *)
Symmetry == Permutations(MCQuery) \cup Permutations(MCRequest)

=============================================================================
