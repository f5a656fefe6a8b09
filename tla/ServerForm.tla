----------------------------- MODULE ServerForm -----------------------------
(***************************************************************************)
(* The form of a new or edited server: each change of what is needed for a *)
(* connection is tested (debounced, on the leading and the trailing edge), *)
(* a valid connection has its databases listed, and the list, or another   *)
(* initial database, has the tables of that database listed.               *)
(*                                                                         *)
(* These steps are reactions: they run when the value they watch changes,  *)
(* and not when it is set to the same again.  No request is withdrawn when *)
(* the form goes on.  What is typed is a connection or not enough for one; *)
(* the names, the schema query and the table that is chosen are left out.  *)
(* A connection string that is pasted changes the connection and the       *)
(* database at once: it is typed first and the database is set then, with  *)
(* nothing between them.                                                   *)
(* Another form is another object, on which the answers for a form that is *)
(* closed have no effect: it starts as this one does.                      *)
(***************************************************************************)
EXTENDS Naturals, FiniteSets

CONSTANTS
    Connection, Incomplete,     \* what can be typed
    Saved,                      \* the connection with the password of the server that is edited
    Catalog, NoCatalog,         \* databases, and none
    DatabasesOf,                \* those that a connection lists
    MaxFormRequests             \* bound: requests under way

ServerFormAssumption ==
    /\ Incomplete \notin Connection /\ Saved \in Connection
    /\ NoCatalog \notin Catalog /\ MaxFormRequests \in Nat
    /\ DatabasesOf \in [Connection -> SUBSET Catalog]

VARIABLES
    typed, initDb,
    testConnection,             \* the debounced function
    testState, validConnection,
    tested,                     \* note of the model: the connection the result is about
    dbRequestState, databases,  \* the connection whose databases are listed
    tableRequestState, tables,  \* the connection and the database whose tables are listed
    tablesLoaded,               \* whether the table that is chosen goes with the server
    formRequests,
    passwordPending,
    crossed                     \* note of the model: kinds of requests that overlapped

serverFormVars == <<typed, initDb, testConnection, testState, validConnection, tested, dbRequestState,
                    databases, tableRequestState, tables, tablesLoaded, formRequests, passwordPending,
                    crossed>>

REST == {"none", "requested", "success", "error"}
FormKind == {"test", "databases", "tables"}
Typed == Connection \cup {Incomplete}
FormRequest == [kind : FormKind, connection : Typed, db : Catalog \cup {NoCatalog}]
Tables == [connection : Typed, db : Catalog \cup {NoCatalog}]
NoTables == [connection |-> Incomplete, db |-> NoCatalog]

ServerFormTypeOK ==
    /\ typed \in Typed /\ tested \in Typed /\ databases \in Typed
    /\ initDb \in Catalog \cup {NoCatalog}
    /\ testConnection \in {"idle", "waiting", "called"}
    /\ testState \in REST /\ dbRequestState \in REST /\ tableRequestState \in REST
    /\ validConnection \in {"yes", "no", "unknown"}
    /\ tables \in Tables /\ tablesLoaded \in {"yes", "no", "unknown"}
    /\ formRequests \subseteq FormRequest
    /\ passwordPending \in BOOLEAN
    /\ crossed \subseteq FormKind

\* A server that is edited lacks the password until it has been read.
ServerFormInit ==
    /\ typed = Incomplete /\ initDb \in Catalog \cup {NoCatalog}
    /\ passwordPending \in BOOLEAN
    /\ testConnection = "idle" /\ testState = "none" /\ validConnection = "no" /\ tested = Incomplete
    /\ dbRequestState = "none" /\ databases = Incomplete
    /\ tableRequestState = "none" /\ tables = NoTables /\ tablesLoaded = "no"
    /\ formRequests = {} /\ crossed = {}

-----------------------------------------------------------------------------
Request(kind, connection, db) == [kind |-> kind, connection |-> connection, db |-> db]
Requests(requests, kind) == {r \in requests : r.kind = kind}

\* Asks, and notes that a request of the kind is under way already.
Asks(requests, kind, db) ==
    /\ formRequests' = requests \cup {Request(kind, typed', db)}
    /\ crossed' = IF Requests(requests, kind) = {} THEN crossed ELSE crossed \cup {kind}
Asking(requests) == formRequests' = requests /\ UNCHANGED crossed

\* The test itself: not enough to connect with is not tested.
Test ==
    IF typed' = Incomplete
    THEN Asking(formRequests) /\ UNCHANGED <<testState, validConnection>>
    ELSE /\ testState' = "requested" /\ validConnection' = "unknown"
         /\ Asks(formRequests, "test", NoCatalog)

(* Only the first of a row of calls is run at once. A mutant: the last one *)
(* is not run at all.                                                      *)
CalledLeading(state) == "waiting"
Called(state) == IF state = "idle" THEN "waiting" ELSE "called"

CallTest ==
    /\ testConnection' = Called(testConnection)
    /\ IF testConnection = "idle" THEN Test
       ELSE Asking(formRequests) /\ UNCHANGED <<testState, validConnection>>

Listed(connection) == IF connection = Incomplete THEN {} ELSE DatabasesOf[connection]

(* An initial database that is not listed has no tables read: the tables   *)
(* of the former one stay, and so does the state of their request.         *)
LoadTables(requests, listed) ==
    IF initDb' \notin Listed(listed)
    THEN /\ formRequests' = requests /\ tablesLoaded' = "no" /\ UNCHANGED tableRequestState
         /\ crossed' = crossed \cup {r.kind : r \in Requests(requests, "tables")}
    ELSE /\ Asks(requests, "tables", initDb')
         /\ tablesLoaded' = "unknown" /\ tableRequestState' = "requested"

-----------------------------------------------------------------------------
(* The user, and the timer. *)

TypeConnection(c) ==
    /\ c # typed /\ typed' = c
    /\ CallTest
    /\ UNCHANGED <<initDb, tested, dbRequestState, databases, tableRequestState, tables, tablesLoaded,
                   passwordPending>>

\* What was typed before the password arrives is overwritten.
PasswordArrives ==
    /\ passwordPending /\ passwordPending' = FALSE
    /\ typed' \in {typed, Saved}
    /\ IF typed' = typed THEN Asking(formRequests) /\ UNCHANGED <<testConnection, testState, validConnection>>
       ELSE CallTest
    /\ UNCHANGED <<initDb, tested, dbRequestState, databases, tableRequestState, tables, tablesLoaded>>

SetInitDb(d) ==
    /\ d # initDb /\ initDb' = d
    /\ UNCHANGED typed
    /\ LoadTables(formRequests, databases)
    /\ UNCHANGED <<testConnection, testState, validConnection, tested, dbRequestState, databases, tables,
                   passwordPending>>

\* The button cancels the debounced call first.
PressTest ==
    /\ testConnection' = "waiting"
    /\ UNCHANGED typed
    /\ Test
    /\ UNCHANGED <<initDb, tested, dbRequestState, databases, tableRequestState, tables, tablesLoaded,
                   passwordPending>>

TestTimer ==
    /\ testConnection # "idle" /\ testConnection' = "idle"
    /\ UNCHANGED typed
    /\ IF testConnection = "called" THEN Test
       ELSE Asking(formRequests) /\ UNCHANGED <<testState, validConnection>>
    /\ UNCHANGED <<initDb, tested, dbRequestState, databases, tableRequestState, tables, tablesLoaded,
                   passwordPending>>

-----------------------------------------------------------------------------
(* The answers. *)

\* A connection that has become valid has its databases listed, and no tables meanwhile.
Tested(r, valid, state) ==
    /\ r.kind = "test"
    /\ validConnection' = valid /\ testState' = state /\ tested' = r.connection
    /\ UNCHANGED typed
    /\ IF valid = "yes" /\ validConnection # "yes"
       THEN /\ Asks(formRequests \ {r}, "databases", NoCatalog)
            /\ dbRequestState' = "requested"
            /\ tableRequestState' = IF dbRequestState = "requested" THEN tableRequestState ELSE "none"
       ELSE /\ Asking(formRequests \ {r})
            /\ UNCHANGED <<dbRequestState, tableRequestState>>
    /\ UNCHANGED <<initDb, testConnection, databases, tables, tablesLoaded, passwordPending>>

\* The tables are read when the state of the list has changed.
DatabasesListed(r) ==
    /\ r.kind = "databases"
    /\ databases' = r.connection /\ dbRequestState' = "success"
    /\ UNCHANGED <<typed, initDb>>
    /\ IF dbRequestState = "success" THEN Asking(formRequests \ {r}) /\ UNCHANGED <<tableRequestState, tablesLoaded>>
       ELSE LoadTables(formRequests \ {r}, r.connection)
    /\ UNCHANGED <<testConnection, testState, validConnection, tested, tables, passwordPending>>

DatabasesFailed(r) ==
    /\ r.kind = "databases"
    /\ databases' = Incomplete /\ dbRequestState' = "error"
    /\ tableRequestState' = IF dbRequestState = "error" THEN tableRequestState ELSE "none"
    /\ Asking(formRequests \ {r})
    /\ UNCHANGED <<typed, initDb, testConnection, testState, validConnection, tested, tables, tablesLoaded,
                   passwordPending>>

TablesAnswered(r) ==
    /\ r.kind = "tables"
    /\ \/ /\ tables' = [connection |-> r.connection, db |-> r.db]
          /\ tablesLoaded' = "yes" /\ tableRequestState' = "success"
       \/ /\ tables' = NoTables
          /\ tablesLoaded' = "no" /\ tableRequestState' = "error"
    /\ Asking(formRequests \ {r})
    /\ UNCHANGED <<typed, initDb, testConnection, testState, validConnection, tested, dbRequestState,
                   databases, passwordPending>>

FormAnswered(kinds) ==
    \E r \in formRequests :
        /\ r.kind \in kinds
        /\ \/ \E valid \in {"yes", "no"} : Tested(r, valid, "success")
           \/ Tested(r, "no", "error")
           \/ DatabasesListed(r) \/ DatabasesFailed(r) \/ TablesAnswered(r)

\* Bound: the user goes on while few requests are under way, and none has crossed another.
UserFills ==
    /\ \/ \E c \in Typed : TypeConnection(c)
       \/ \E d \in Catalog \cup {NoCatalog} : SetInitDb(d)
       \/ PressTest
    /\ Cardinality(formRequests') <= MaxFormRequests /\ crossed = {}

ServerFormNext ==
    \/ UserFills
    \/ PasswordArrives
    \/ TestTimer
    \/ FormAnswered(FormKind)

-----------------------------------------------------------------------------
(* Once all is answered, what the form shows is about the connection and   *)
(* the database that are typed in: the last change is tested, a valid      *)
(* connection lists its own databases, the tables are those of the initial *)
(* database if that is listed, and a chosen table is sent only with the    *)
(* database it is of.  Tables of a former database may still be shown      *)
(* beside an initial database that is not listed.  Answers of one kind     *)
(* that overlap may come in the wrong order, and the last one stays.       *)
FormIsCurrent ==
    formRequests = {} /\ testConnection = "idle" /\ typed # Incomplete =>
        /\ "test" \notin crossed => tested = typed
        /\ crossed \cap {"test", "databases"} = {} /\ dbRequestState = "success" /\ validConnection = "yes" =>
               databases = typed
        /\ crossed = {} /\ dbRequestState = "success" /\ validConnection = "yes" =>
               /\ tableRequestState = "success" /\ initDb \in Listed(typed) =>
                      tables = [connection |-> typed, db |-> initDb]
               /\ tablesLoaded = "yes" => tables = [connection |-> typed, db |-> initDb]
=============================================================================
