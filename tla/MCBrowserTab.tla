---------------------------- MODULE MCBrowserTab ----------------------------
(* The parts of a browser tab on small instances. *)
EXTENDS BrowserTab, TLC

CONSTANTS u1, u2, s1, s2, d1, d2, c1, c2, k1, k2

MCUser == {u1, u2}
Symmetry == Permutations(MCUser)

\* The first server opens without a database, the second one with its only one.
MCServer == {s1, s2}
MCDb == {d1, d2}
MCDatabases == s1 :> {d1, d2} @@ s2 :> {d2}
MCInitDb == s1 :> NoDb @@ s2 :> d2

\* Two connections that list the first database, one of which lacks the second one.
MCConnection == {c1, c2}
MCCatalog == {k1, k2}
MCDatabasesOf == c1 :> {k1} @@ c2 :> {k1, k2}

\* Two schemas, one with two tables of a column; the column of each table may be referred to by its key.
MCSchemas == <<<<1, 1>>, <<1>>>>
MCPrimaryKey == {<<1, 1, 1>>, <<1, 2, 1>>, <<2, 1, 1>>}

\* Columns of one name in two schemas, and in two tables.
MCColumnPath == {<<"s1", "t1", "c1">>, <<"s2", "t1", "c1">>, <<"s1", "t2", "c1">>}
=============================================================================
