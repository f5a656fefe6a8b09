------------------------------ MODULE Workbench ------------------------------
(***************************************************************************)
(* The tabs of the workbench: which database server is active, the index   *)
(* of its databases, the active database of each server and the databases  *)
(* that are held for it, loaded when they become the active one.           *)
(*                                                                         *)
(* The stores react to their own changes: a server that becomes active     *)
(* asks for its index (dbIndexLoader), a database that becomes active on   *)
(* the active server is asked for (currentDbLoader), and the component     *)
(* makes the database in the path, or the default one, active whenever     *)
(* that name changes (tableDisposer).  A step of the model is an event     *)
(* and all the reactions to it.                                            *)
(*                                                                         *)
(* `here' tells whether the placeholder a database was asked for with is   *)
(* still held.  Requests under way that agree in everything are one.  The  *)
(* list of the servers is read once; its changes are the subject of        *)
(* ServerList, the editors of a database of Editors.  The mark of a        *)
(* database that is read again, and the filters of the tree are left out.  *)
(***************************************************************************)
EXTENDS Naturals, FiniteSets, Functions

CONSTANTS
    Server, NoServer, Db, NoDb,
    Databases,          \* the databases of each server
    InitDb,             \* the initial database of each server, if it has one
    MaxBenchRequests    \* bound: requests under way

WorkbenchAssumption ==
    /\ NoServer \notin Server /\ NoDb \notin Db
    /\ Databases \in [Server -> SUBSET Db]
    /\ InitDb \in [Server -> Db \cup {NoDb}]
    /\ MaxBenchRequests \in Nat

VARIABLES
    bench,          \* the store, and the path and last name seen by the component
    benchRequests,
    strayed,        \* note of the model: an answer changed the active server
    closedOnce      \* note of the model: servers that were closed, or lost their active database

benchVars == <<bench, benchRequests, strayed, closedOnce>>

LoadState == {"none", "loading", "success", "error"}
Held == {"none", "loading", "loaded", "failed"}
Names == [loaded : BOOLEAN, names : SUBSET Db]
NoNames == [loaded |-> FALSE, names |-> {}]
Kind == {"index", "reindex", "load", "reload"}
Request == [kind : Kind, server : Server, db : Db \cup {NoDb}, here : BOOLEAN]

NewBench ==
    [route |-> NoServer, db |-> NoDb, seen |-> NoDb,
     known |-> FALSE, activeDbServerId |-> NoServer, dbIndexLoadState |-> "none",
     databaseIndex |-> [s \in Server |-> NoNames],
     activeDatabase |-> [s \in Server |-> NoDb],
     maps |-> {}, databases |-> [s \in Server |-> [d \in Db |-> "none"]],
     out |-> {}]

BenchTypeOK ==
    /\ bench \in [route : Server \cup {NoServer}, db : Db \cup {NoDb}, seen : Db \cup {NoDb},
                  known : BOOLEAN, activeDbServerId : Server \cup {NoServer},
                  dbIndexLoadState : LoadState, databaseIndex : [Server -> Names],
                  activeDatabase : [Server -> Db \cup {NoDb}],
                  maps : SUBSET Server, databases : [Server -> [Db -> Held]], out : {{}}]
    /\ benchRequests \subseteq Request
    /\ strayed \in BOOLEAN
    /\ closedOnce \subseteq Server

BenchInit ==
    /\ bench = NewBench
    /\ benchRequests = {}
    /\ strayed = FALSE
    /\ closedOnce = {}

-----------------------------------------------------------------------------
(* What the reactions read. *)

ActiveFound(b) == b.known /\ b.activeDbServerId # NoServer
ActiveDatabaseKey(b) ==
    IF ActiveFound(b) THEN <<b.activeDbServerId, b.activeDatabase[b.activeDbServerId]>> ELSE <<>>

\* The initial database, or the last of the index.
DefaultDatabaseName(b, s) ==
    LET names == b.databaseIndex[s].names IN
    CASE ~b.known -> NoDb
      [] b.known /\ InitDb[s] # NoDb -> InitDb[s]
      [] b.known /\ InitDb[s] = NoDb /\ names = {} -> NoDb
      [] b.known /\ InitDb[s] = NoDb /\ names # {} -> CHOOSE d \in names : TRUE

DbName(b) ==
    IF b.db # NoDb THEN b.db
    ELSE IF ActiveFound(b) THEN DefaultDatabaseName(b, b.activeDbServerId) ELSE NoDb

-----------------------------------------------------------------------------
(* What the store does to a bench b.  Its requests gather in b.out. *)

Send(b, kind, s, d, here) ==
    [b EXCEPT !.out = @ \cup {[kind |-> kind, server |-> s, db |-> d, here |-> here]}]

SetActiveDatabase(b, s, d) == [b EXCEPT !.activeDatabase[s] = d, !.maps = @ \cup {s}]

LoadDatabaseIndex(b, s) ==
    IF b.databaseIndex[s].loaded THEN b
    ELSE Send([b EXCEPT !.dbIndexLoadState = "loading"], "index", s, NoDb, TRUE)

\* A placeholder is held while the request is under way, if the server has a map to hold it.
LoadDatabase(b, s, d) ==
    Send(IF s \in b.maps THEN [b EXCEPT !.databases[s][d] = "loading"] ELSE b,
         "load", s, d, s \in b.maps)

DbIndexLoader(old, b) ==
    IF b.activeDbServerId \in {old.activeDbServerId, NoServer} THEN b
    ELSE LoadDatabaseIndex(b, b.activeDbServerId)

CurrentDbLoader(old, b) ==
    LET s == b.activeDbServerId IN
    IF /\ ActiveFound(b) /\ ActiveDatabaseKey(b) # ActiveDatabaseKey(old)
       /\ b.activeDatabase[s] # NoDb /\ b.databases[s][b.activeDatabase[s]] = "none"
    THEN LoadDatabase(b, s, b.activeDatabase[s]) ELSE b

TableDisposer(b) ==
    LET named == [b EXCEPT !.seen = DbName(b)] IN
    IF b.route = NoServer THEN b
    ELSE IF DbName(b) \notin {b.seen, NoDb} /\ ActiveFound(b)
    THEN SetActiveDatabase(named, b.activeDbServerId, DbName(b)) ELSE named

\* A mutant: the loader is done before the component has made its database active.
SettledEarly(old, b) == TableDisposer(CurrentDbLoader(old, DbIndexLoader(old, b)))
Settled(old, b) ==
    LET loaded == CurrentDbLoader(old, DbIndexLoader(old, b))
    IN CurrentDbLoader(loaded, TableDisposer(loaded))

\* The path is changed while the workbench is shown: the component reacts first.
Routed(b, s, d) ==
    LET there == [b EXCEPT !.route = s, !.db = d]
        active == IF s # b.route THEN [there EXCEPT !.activeDbServerId = s] ELSE there
    IN CurrentDbLoader(b, DbIndexLoader(b, TableDisposer(active)))

\* The workbench is opened.
Mounted(b, s, d) ==
    LET there == [b EXCEPT !.route = s, !.db = d]
        shown == [there EXCEPT !.seen = DbName(there)]
        active == Settled(shown, [shown EXCEPT !.activeDbServerId = s])
    IN IF DbName(active) = NoDb THEN active
       ELSE Settled(active, SetActiveDatabase(active, s, DbName(active)))

-----------------------------------------------------------------------------
(* Bookkeeping of one step. *)

Becomes(b, rest) ==
    /\ bench' = [b EXCEPT !.out = {}]
    /\ benchRequests' = rest \cup b.out

\* Bound: the user goes on while few requests are under way; after a close, only to another path.
Free ==
    /\ Cardinality(closedOnce) <= 1
    /\ Cardinality(benchRequests) < IF strayed \/ closedOnce # {} THEN 1 ELSE MaxBenchRequests

Elsewhere(s) == {[r EXCEPT !.here = FALSE] : r \in {q \in benchRequests : q.server = s}}
                    \cup {r \in benchRequests : r.server # s}

-----------------------------------------------------------------------------
(* The user. *)

Goto(s, d) ==
    /\ Free /\ d \in Databases[s] \cup {NoDb}
    /\ Becomes(IF bench.route = NoServer THEN Mounted(bench, s, d) ELSE Routed(bench, s, d),
               benchRequests)
    \* What an answer has changed is mended when the path changes to another server.
    /\ strayed' = (strayed /\ s = bench.route)
    /\ UNCHANGED closedOnce

Leave ==
    /\ bench.route # NoServer
    /\ Becomes([bench EXCEPT !.route = NoServer, !.db = NoDb, !.seen = NoDb], benchRequests)
    /\ strayed' = FALSE
    /\ UNCHANGED closedOnce

(* The next tab is shown, without one the dashboard.  The active database  *)
(* of the closed server is kept.                                           *)
CloseDbServer ==
    LET s == bench.activeDbServerId
        closed == [bench EXCEPT !.databaseIndex[s] = NoNames, !.maps = @ \ {s},
                                !.databases[s] = [d \in Db |-> "none"]]
        others == {t \in Server \ {s} : bench.databaseIndex[t].loaded}
    IN /\ Free /\ closedOnce = {} /\ bench.route # NoServer /\ ActiveFound(bench)
       /\ \/ \E t \in others :
                 /\ Becomes(Routed(closed, t, NoDb), Elsewhere(s))
                 /\ strayed' = (strayed /\ t = bench.route)
          \/ /\ others = {}
             /\ Becomes([closed EXCEPT !.route = NoServer, !.db = NoDb, !.seen = NoDb,
                                       !.activeDbServerId = NoServer], Elsewhere(s))
             /\ strayed' = FALSE
       /\ closedOnce' = closedOnce \cup {s}

ReloadDbServer ==
    /\ Free /\ closedOnce = {} /\ bench.route # NoServer /\ ActiveFound(bench)
    /\ Becomes(Send([bench EXCEPT !.dbIndexLoadState = "loading"],
                    "reindex", bench.activeDbServerId, NoDb, TRUE), benchRequests)
    /\ UNCHANGED <<strayed, closedOnce>>

\* A database that is held is replaced when the answer arrives.
ReloadDatabase(d) ==
    LET s == bench.activeDbServerId IN
    /\ Free /\ closedOnce = {} /\ bench.route # NoServer /\ ActiveFound(bench)
    /\ bench.databases[s][d] # "none"
    /\ Becomes(Send(bench, "reload", s, d, TRUE), benchRequests)
    /\ UNCHANGED <<strayed, closedOnce>>

\* The store is emptied, and what was asked for is withdrawn: an index as one that has failed.
BenchLogout ==
    /\ bench.known
    /\ bench' = [NewBench EXCEPT !.dbIndexLoadState =
                    IF \E r \in benchRequests : r.kind \in {"index", "reindex"} THEN "error" ELSE "none"]
    /\ benchRequests' = {}
    /\ strayed' = FALSE /\ closedOnce' = {}

-----------------------------------------------------------------------------
(* The answers. *)

ServersKnown ==
    /\ ~bench.known
    /\ Becomes(Settled(bench, [bench EXCEPT !.known = TRUE]), benchRequests)
    /\ UNCHANGED <<strayed, closedOnce>>

Rest(r) == benchRequests \ {r}

IndexAnswered(r, names) ==
    LET s == r.server
        indexed == Settled(bench, [bench EXCEPT
                       !.databaseIndex[s] = [loaded |-> TRUE, names |-> names],
                       !.dbIndexLoadState = "success"])
        initial == DefaultDatabaseName(indexed, s)
    IN /\ r.kind = "index" /\ names \subseteq Databases[s]
       /\ Becomes(IF indexed.activeDatabase[s] = NoDb /\ initial # NoDb
                  THEN Settled(indexed, SetActiveDatabase(indexed, s, initial)) ELSE indexed, Rest(r))
       /\ UNCHANGED <<strayed, closedOnce>>

\* Whichever server is active then, none is afterwards.
IndexFailed(r) ==
    /\ r.kind = "index"
    /\ Becomes(Settled(bench, [bench EXCEPT
           !.databaseIndex[r.server] = NoNames, !.activeDbServerId = NoServer,
           !.dbIndexLoadState = "error"]), Rest(r))
    /\ strayed' = (bench.route # NoServer)
    /\ UNCHANGED closedOnce

\* Databases that are gone are dropped, the others are read again.
ReindexAnswered(r, names) ==
    LET s == r.server
        indexed == Settled(bench, [bench EXCEPT
                       !.databaseIndex[s] = [loaded |-> TRUE, names |-> names],
                       !.dbIndexLoadState = "success"])
        again == {d \in names : indexed.databases[s][d] # "none"}
        kept == [indexed EXCEPT
                    !.databases[s] = [d \in Db |-> IF d \in names THEN @[d] ELSE "none"],
                    !.out = @ \cup {[kind |-> "reload", server |-> s, db |-> d, here |-> TRUE]
                                    : d \in again}]
    IN /\ r.kind = "reindex" /\ names \subseteq Databases[s]
       /\ Becomes(kept, {[q EXCEPT !.here = @ /\ (q.server = s => q.db \in names \cup {NoDb})]
                              : q \in Rest(r)})
       /\ closedOnce' = closedOnce \cup (IF bench.activeDatabase[s] \in names THEN {} ELSE {s})
       /\ UNCHANGED strayed

ReindexFailed(r) ==
    /\ r.kind = "reindex"
    /\ Becomes([bench EXCEPT !.dbIndexLoadState = "error"], Rest(r))
    /\ UNCHANGED <<strayed, closedOnce>>

(* The answer makes its database and its server the active ones, wherever  *)
(* the user has gone meanwhile, unless the server was closed.              *)
LoadAnswered(r) ==
    LET s == r.server
        loaded == [bench EXCEPT !.databases[s][r.db] = "loaded"]
        active == Settled(bench, SetActiveDatabase(loaded, s, r.db))
    IN /\ r.kind = "load"
       /\ IF s \in bench.maps
          THEN /\ Becomes(Settled(active, [active EXCEPT !.activeDbServerId = s]), Rest(r))
               /\ strayed' = (strayed \/ bench.route \notin {s, NoServer})
          ELSE /\ Becomes(bench, Rest(r))
               /\ UNCHANGED strayed
       /\ UNCHANGED closedOnce

LoadFailed(r) ==
    /\ r.kind = "load"
    /\ Becomes(IF r.here THEN [bench EXCEPT !.databases[r.server][r.db] = "failed"] ELSE bench, Rest(r))
    /\ UNCHANGED <<strayed, closedOnce>>

\* The placeholder of another request for the database is no longer held.
ReloadAnswered(r) ==
    /\ r.kind = "reload"
    /\ IF r.server \in bench.maps
       THEN Becomes([bench EXCEPT !.databases[r.server][r.db] = "loaded"],
                    {[q EXCEPT !.here = @ /\ ~(q.kind = "load" /\ q.server = r.server /\ q.db = r.db)]
                        : q \in Rest(r)})
       ELSE Becomes(bench, Rest(r))
    /\ UNCHANGED <<strayed, closedOnce>>

\* The database that is held stays, marked as one that is loading.
ReloadFailed(r) ==
    /\ r.kind = "reload"
    /\ Becomes(bench, Rest(r))
    /\ UNCHANGED <<strayed, closedOnce>>

BenchAnswered(kinds, s, d) ==
    \E r \in benchRequests :
        /\ r.kind \in kinds /\ r.server = s /\ r.db = d
        /\ \/ \E names \in SUBSET Db \ {{}} : IndexAnswered(r, names) \/ ReindexAnswered(r, names)
           \/ IndexFailed(r) \/ ReindexFailed(r)
           \/ LoadAnswered(r) \/ LoadFailed(r)
           \/ ReloadAnswered(r) \/ ReloadFailed(r)

BenchNext ==
    \/ \E s \in Server, d \in Db \cup {NoDb} : Goto(s, d)
    \/ Leave
    \/ CloseDbServer
    \/ ReloadDbServer
    \/ \E d \in Db : ReloadDatabase(d)
    \/ BenchLogout
    \/ ServersKnown
    \/ \E s \in Server, d \in Db \cup {NoDb} : BenchAnswered(Kind, s, d)

-----------------------------------------------------------------------------
(* The server in the path is the active one, unless the answer to an       *)
(* earlier request has made another one active, or none.  Nothing is said  *)
(* of the database in the path: of two that were asked for, the one that   *)
(* is answered last is active (loadDatabase).                              *)
RouteIsActive ==
    bench.route # NoServer /\ ~strayed => bench.activeDbServerId = bench.route

(* The active database of the active server is held, as a placeholder at   *)
(* least: the workbench does not wait for one that nobody asks for, unless *)
(* the server was closed and opened again, or its index has dropped it.    *)
ActiveIsHeld ==
    LET s == bench.activeDbServerId IN
    ActiveFound(bench) /\ s \notin closedOnce /\ bench.activeDatabase[s] # NoDb =>
        bench.databases[s][bench.activeDatabase[s]] # "none"
=============================================================================
