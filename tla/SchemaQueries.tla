--------------------------- MODULE SchemaQueries ----------------------------
(***************************************************************************)
(* The schema queries of one type of database: the SQL that db-sql uses to *)
(* read the structure of a database.  Users write them, private or public; *)
(* one of them is the default, which an administrator chooses and which    *)
(* new database servers get.                                               *)
(*                                                                         *)
(* A request runs on a thread of the web server.  It loads rows first and  *)
(* decides on what it has loaded, in memory; other requests commit in      *)
(* between.  Only make_default! spans several statements in a transaction: *)
(* it reads what is committed, and keeps the rows it has updated locked    *)
(* until it commits.                                                       *)
(***************************************************************************)
EXTENDS FiniteSets

CONSTANTS
    User, Query, Server,    \* rows
    Admin,                  \* the users who choose defaults
    Shared,                 \* the owner of a server that belongs to a group
    Request,                \* threads of the web server
    NoQuery, NoUser, NoServer

ASSUME SchemaQueriesAssumption ==
    /\ Admin \subseteq User
    /\ Shared \notin User /\ NoUser \notin User
    /\ NoQuery \notin Query
    /\ NoServer \notin Server

VARIABLES
    queries,    \* database_schema_queries: author, is_default, is_private
    servers,    \* db_servers: owner and database_schema_query
    request,    \* what each thread has loaded and locked, and whether another request
                \* has overtaken it, which is a note of the model
    spoilt      \* a query was destroyed or became the default by an overtaken request:
                \* a note of the model

vars == <<queries, servers, request, spoilt>>

QueryRow == [exists : BOOLEAN, author : User \cup {NoUser}, is_default : BOOLEAN,
             is_private : BOOLEAN]
NoQueryRow == [exists |-> FALSE, author |-> NoUser, is_default |-> FALSE,
               is_private |-> FALSE]

ServerRow == [owner : User \cup {Shared, NoUser}, query : Query \cup {NoQuery}]
NoServerRow == [owner |-> NoUser, query |-> NoQuery]

(* make_default!: "read" the current default, "demote" it, "validate" and  *)
(* "promote" the new one, "commit".  The others load and "write".          *)
Kind == {"none", "make_default", "update", "destroy", "create_server", "update_server"}
Phase == {"idle", "read", "demote", "validate", "promote", "commit", "write"}

RequestState ==
    [kind : Kind, phase : Phase, query : Query \cup {NoQuery},
     was_default : BOOLEAN, was_private : BOOLEAN,
     strangers : BOOLEAN, current : Query \cup {NoQuery}, loaded : BOOLEAN,
     promoted : BOOLEAN, moved : SUBSET Server, server : Server \cup {NoServer},
     owner : User \cup {Shared, NoUser}, value : BOOLEAN, overtaken : BOOLEAN]
Idle ==
    [kind |-> "none", phase |-> "idle", query |-> NoQuery,
     was_default |-> FALSE, was_private |-> FALSE,
     strangers |-> FALSE, current |-> NoQuery, loaded |-> FALSE, promoted |-> FALSE, moved |-> {},
     server |-> NoServer, owner |-> NoUser, value |-> FALSE, overtaken |-> FALSE]

TypeOK ==
    /\ queries \in [Query -> QueryRow]
    /\ servers \in [Server -> ServerRow]
    /\ request \in [Request -> RequestState]
    /\ spoilt \in BOOLEAN
    /\ \A q \in Query : queries[q].exists <=> queries[q].author # NoUser
    /\ \A s \in Server : servers[s].query # NoQuery => queries[servers[s].query].exists

(* The seeds write one public default.                                     *)
Init ==
    /\ \E u \in User, q \in Query :
           queries = [x \in Query |-> IF x = q
                      THEN [exists |-> TRUE, author |-> u, is_default |-> TRUE,
                            is_private |-> FALSE]
                      ELSE NoQueryRow]
    /\ servers = [s \in Server |-> NoServerRow]
    /\ request = [r \in Request |-> Idle]
    /\ spoilt = FALSE

-----------------------------------------------------------------------------
(* Reading                                                                 *)

Defaults == {q \in Query : queries[q].exists /\ queries[q].is_default}

References(q) == {s \in Server : servers[s].query = q /\ q # NoQuery}
ReferencedByStrangers(q) ==
    \E s \in References(q) : servers[s].owner # queries[q].author

(* DatabaseSchemaQueryPolicy                                               *)
Shows(q, u) == queries[q].exists /\ (~queries[q].is_private \/ queries[q].author = u)

(* The rows a transaction has updated and not committed.                   *)
Held(r) ==
    CASE request[r].phase \in {"validate", "promote"} -> {request[r].current} \ {NoQuery}
      [] request[r].phase = "commit" -> {request[r].current, request[r].query} \ {NoQuery}
      [] OTHER -> {}
Locked(q, r) == \E other \in Request \ {r} : q \in Held(other)

Begin(r, state) ==
    /\ request[r].phase = "idle"
    /\ request' = [request EXCEPT ![r] = state]
    /\ UNCHANGED <<queries, servers, spoilt>>

Continue(r, state) ==
    /\ request' = [request EXCEPT ![r] = state]
    /\ UNCHANGED <<queries, servers, spoilt>>

(* The request ends, and what it wrote about the queries in Q overtakes    *)
(* all that are about one of them.                                         *)
End(r, Q) ==
    request' = [x \in Request |->
        IF x = r THEN Idle
        ELSE [request[x] EXCEPT !.overtaken =
                  @ \/ request[x].query \in Q]]

Spoil(r) == spoilt' = (spoilt \/ request[r].overtaken)

(* An exception, a failed validation, a deadlock that the database breaks  *)
(* or the end of the process: what was not committed is rolled back.       *)
Fail(r) ==
    /\ request[r].phase # "idle"
    /\ Continue(r, Idle)

-----------------------------------------------------------------------------
(* POST and PUT /database_schema_queries                                   *)

CreateQuery(q, u, private) ==
    /\ ~queries[q].exists
    /\ queries' = [queries EXCEPT ![q] =
           [exists |-> TRUE, author |-> u, is_default |-> FALSE, is_private |-> private]]
    /\ \A r \in Request : q \notin {request[r].query, request[r].current}
    /\ UNCHANGED <<servers, request, spoilt>>

(* includes(:db_servers) loads the servers with the query.  A value that   *)
(* the loaded row has already is not written.                              *)
UpdateLoad(r, q, u, private) ==
    /\ queries[q].exists /\ queries[q].author = u
    /\ private # queries[q].is_private
    /\ Begin(r, [Idle EXCEPT !.kind = "update", !.phase = "write", !.query = q,
                             !.was_default = queries[q].is_default, !.value = private,
                             !.strangers = private /\ ReferencedByStrangers(q)])

MayBePrivateUnlessDefault(r) == ~request[r].was_default

(* check_not_referenced_when_private counts in the database, and looks for *)
(* other owners among the servers that were loaded.                        *)
MayBePrivate(r) ==
    /\ ~request[r].was_default
    /\ References(request[r].query) = {} \/ ~request[r].strangers

(* Updating a row that was deleted meanwhile does nothing.                 *)
UpdateWrite(r) ==
    LET q == request[r].query
    IN  /\ request[r].kind = "update"
        /\ request[r].value => MayBePrivate(r)
        /\ request[r].was_default => Defaults = {} \/ q \in Defaults
        /\ ~Locked(q, r)
        /\ queries' = IF queries[q].exists
                      THEN [queries EXCEPT ![q].is_private = request[r].value] ELSE queries
        /\ End(r, {q})
        /\ UNCHANGED <<servers, spoilt>>

-----------------------------------------------------------------------------
(* DELETE /database_schema_queries/:id                                     *)

(* assert_not_default looks at the loaded row.                             *)
DestroyLoad(r, q, u) ==
    /\ queries[q].exists /\ queries[q].author = u
    /\ ~queries[q].is_default
    /\ Begin(r, [Idle EXCEPT !.kind = "destroy", !.phase = "write", !.query = q])

DestroyReferenced(r) ==
    LET q == request[r].query
    IN  /\ request[r].kind = "destroy"
        /\ ~Locked(q, r)
        /\ queries' = [queries EXCEPT ![q] = NoQueryRow]
        /\ Spoil(r)
        /\ End(r, {q})
        /\ UNCHANGED servers

(* A server that refers to the query makes assert_not_referenced or, when  *)
(* the query is private, the foreign key refuse.                           *)
DestroyWrite(r) ==
    LET q == request[r].query
    IN  /\ request[r].kind = "destroy"
        /\ References(q) = {}
        /\ ~Locked(q, r)
        /\ queries' = [queries EXCEPT ![q] = NoQueryRow]
        /\ Spoil(r)
        /\ End(r, {q})
        /\ UNCHANGED servers

-----------------------------------------------------------------------------
(* POST /database_schema_queries/:id/make_default                          *)

MakeDefaultLoad(r, q, u) ==
    /\ Shows(q, u)
    /\ ~queries[q].is_default
    /\ Begin(r, [Idle EXCEPT !.kind = "make_default", !.phase = "read", !.query = q,
                             !.was_private = queries[q].is_private])

(* A private default is validated against its servers, which loads them.   *)
ReadDefault(r) ==
    /\ request[r].phase = "read"
    /\ IF Defaults = {} THEN Continue(r, [request[r] EXCEPT !.phase = "demote"])
       ELSE \E d \in Defaults :
              /\ ~(queries[d].is_private /\ ReferencedByStrangers(d))
              /\ Continue(r, [request[r] EXCEPT !.phase = "demote", !.current = d,
                                  !.loaded = queries[d].is_private /\ References(d) # {},
                                  !.moved = IF queries[d].is_private THEN References(d)
                                                                     ELSE {}])

(* update!(is_default: false) waits for whoever has updated the row.       *)
Demote(r) ==
    /\ request[r].phase = "demote"
    /\ ~Locked(request[r].current, r)
    /\ Continue(r, [request[r] EXCEPT !.phase = "validate"])

(* only_one_default_by_db_type looks for a default; the transaction sees   *)
(* its own update.  Without an update the answer is that of ReadDefault,   *)
(* from the query cache of the request.                                    *)
ValidateAlone(r) ==
    /\ request[r].phase = "validate"
    /\ ~request[r].was_private
    /\ Continue(r, [request[r] EXCEPT !.phase = "promote"])

Validate(r) ==
    /\ request[r].phase = "validate"
    /\ \/ request[r].current = NoQuery
       \/ Defaults \subseteq {request[r].current}
       \/ request[r].query \in Defaults
    /\ ~request[r].was_private
    /\ Continue(r, [request[r] EXCEPT !.phase = "promote"])

(* Updating a row that was deleted meanwhile does nothing.  The servers    *)
(* that refer to the old default are loaded last, unless its validation    *)
(* has loaded them, and then updated.                                      *)
Promote(r) ==
    LET q == request[r].query
    IN  /\ request[r].phase = "promote"
        /\ ~Locked(q, r)
        /\ Continue(r, [request[r] EXCEPT !.phase = "commit", !.promoted = queries[q].exists,
                            !.moved = IF request[r].loaded THEN @
                                      ELSE References(request[r].current)])

(* The foreign key refuses to move servers to a query that is gone.        *)
Commit(r) ==
    LET q == request[r].query
        d == request[r].current
        moved == {s \in request[r].moved : servers[s].query # NoQuery}
        Flagged(x) == (queries[x].is_default /\ x # d) \/ (x = q /\ request[r].promoted)
    IN  /\ request[r].phase = "commit"
        /\ moved # {} => request[r].promoted
        /\ queries' = [x \in Query |-> [queries[x] EXCEPT !.is_default = Flagged(x)]]
        /\ servers' = [s \in Server |-> IF s \in moved THEN [servers[s] EXCEPT !.query = q]
                                                       ELSE servers[s]]
        /\ Spoil(r)
        /\ End(r, {q, d} \ {NoQuery})

-----------------------------------------------------------------------------
(* Database servers                                                        *)

(* set_database_schema_query takes the default.                            *)
CreateServerLoad(r, s, o, d) ==
    /\ servers[s].query = NoQuery
    /\ \A x \in Request : request[x].server # s /\ s \notin request[x].moved
    /\ d \in Defaults
    /\ Begin(r, [Idle EXCEPT !.kind = "create_server", !.phase = "write", !.query = d,
                             !.server = s, !.owner = o])

(* The form of a server offers the queries that its user u can see.        *)
UpdateServerLoad(r, s, u, q) ==
    /\ servers[s].query \notin {NoQuery, q}
    /\ servers[s].owner \in {u, Shared}
    /\ Shows(q, u)
    /\ Begin(r, [Idle EXCEPT !.kind = "update_server", !.phase = "write", !.query = q,
                             !.server = s, !.owner = servers[s].owner])

(* A query that was deleted meanwhile is refused; updating a server that   *)
(* was deleted meanwhile does nothing.                                     *)
ServerWrite(r) ==
    LET q == request[r].query
        s == request[r].server
    IN  /\ request[r].kind \in {"create_server", "update_server"}
        /\ queries[q].exists
        /\ servers' = IF request[r].kind = "create_server" \/ servers[s].query # NoQuery
                      THEN [servers EXCEPT ![s] = [owner |-> request[r].owner, query |-> q]]
                      ELSE servers
        /\ End(r, {q, servers[s].query} \ {NoQuery})
        /\ UNCHANGED <<queries, spoilt>>

DestroyServer(s) ==
    /\ servers[s].query # NoQuery
    /\ servers' = [servers EXCEPT ![s] = NoServerRow]
    /\ UNCHANGED <<queries, request, spoilt>>

-----------------------------------------------------------------------------

Load(r) ==
    \/ \E q \in Query, u \in User, private \in BOOLEAN : UpdateLoad(r, q, u, private)
    \/ \E q \in Query, u \in User : DestroyLoad(r, q, u)
    \/ \E q \in Query, u \in Admin : MakeDefaultLoad(r, q, u)
    \/ \E s \in Server, o \in User \cup {Shared}, d \in Query : CreateServerLoad(r, s, o, d)
    \/ \E s \in Server, u \in User, q \in Query : UpdateServerLoad(r, s, u, q)

Step(r) ==
    \/ UpdateWrite(r)
    \/ DestroyWrite(r)
    \/ ReadDefault(r)
    \/ Demote(r)
    \/ Validate(r)
    \/ Promote(r)
    \/ Commit(r)
    \/ ServerWrite(r)
    \/ Fail(r)

Next ==
    \/ \E q \in Query, u \in User, private \in BOOLEAN : CreateQuery(q, u, private)
    \/ \E r \in Request : Load(r) \/ Step(r)
    \/ \E s \in Server : DestroyServer(s)

Spec == Init /\ [][Next]_vars

-----------------------------------------------------------------------------
(* Properties                                                              *)

(* A default query is already set when another one is to become it         *)
(* (database_schema_query.rb:132-141).  The code breaks it: the check       *)
(* lets a query pass that is the default already, although it loses the    *)
(* flag before the update gets the lock on its row.                        *)
AtMostOneDefault == \A q, p \in Defaults : q = p

(* However many requests make defaults at the same time, and although      *)
(* nothing but the row of the old default makes them wait for each other,  *)
(* there is exactly one, as long as no request destroys or promotes a      *)
(* query that another one has written since the first had loaded it        *)
(* (database_schema_query.rb:107-119, 132-141 and 154-159).                *)
OneDefault == ~spoilt => \E q \in Query : Defaults = {q}

OvertakenEnds == \E r \in Request : request[r].overtaken /\ request'[r] = Idle

(* Who depends on a query can read it: the default is public, and a private *)
(* query is used only by servers of its author and by shared ones, for     *)
(* which a member of the group may choose a query of his own.              *)
Readable(q) ==
    queries[q].exists /\ queries[q].is_private =>
        /\ ~queries[q].is_default
        /\ \A s \in References(q) : servers[s].owner \in {queries[q].author, Shared}

(* Only a request that another one has overtaken takes a query away from   *)
(* those who depend on it (database_schema_query.rb:143-152 and 169-175,   *)
(* database_schema_query_policy.rb:28-37).                                 *)
ReadersLostByRace ==
    [][\A q \in Query : Readable(q) /\ ~Readable(q)' =>
          OvertakenEnds]_vars

=============================================================================
