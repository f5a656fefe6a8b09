------------------------------ MODULE QueryRuns -----------------------------
(***************************************************************************)
(* The requests that run queries on a database server, and the log they    *)
(* leave: query, multi_query and raw_query of api/resources/db_servers.rb, *)
(* the connection of models/db_server.rb, the log of models/sql_query.rb   *)
(* and the marking of favourites of api/resources/sql_queries.rb.          *)
(*                                                                         *)
(* All requests concern one database server.  A request is a thread of the *)
(* web server: it runs its statements one by one and then saves one row of *)
(* the log in a transaction, which also deletes the rows beyond the cap.   *)
(* Transactions read what is committed (READ COMMITTED).                   *)
(***************************************************************************)
EXTENDS RawResults, FiniteSets

CONSTANTS
    User,
    Request,        \* requests; each serves one call
    NoUser,
    AnyText,        \* the texts that a user may write
    Batches,        \* the lists of statements that multi_query gets
    Texts,          \* the texts that query and raw_query get
    Limits,         \* values of default_sql_limit
    Cap,            \* QUERY_COUNT_PER_SERVER_AND_USER
    Earlier,        \* number of rows the log holds at the start
    MaxFaults       \* bound on connections refused or lost and requests that crash

ASSUME QueryRunsAssumption ==
    /\ NoUser \notin User
    /\ AnyText \subseteq Seq(Nat \cup {Fail}) /\ Texts \subseteq AnyText
    /\ \A batch \in Batches : batch \in Seq(AnyText)
    /\ Limits \subseteq Nat /\ Cap \in Nat /\ Earlier \in 0..Cap /\ MaxFaults \in Nat
    /\ IsFiniteSet(Request)

VARIABLES
    dbServer,   \* db_servers: exists, db_type, default_sql_limit, query_count, error_query_count
    log,        \* committed rows of sql_queries
    request,
    saved,      \* the rows inserted so far; rows are numbered as they are created
    faults      \* the faults so far

vars == <<dbServer, log, request, saved, faults>>

Run == {"query", "multi_query", "raw_query"}

RowId == 1..(Earlier + Cardinality(Request))
NoRowId == 0
SqlQuery == [id : RowId, user : User, is_favorite : BOOLEAN, is_valid : BOOLEAN,
             error : SUBSET Nat]

\* A statement is counted, then executed, then its error is counted: "exec" and "error"
\* are the phases between.
Phase == {"idle", "run", "exec", "error", "trim", "commit", "mark", "done", "failed"}
InStatements == {"run", "exec", "error"}
Saving == {"trim", "commit"}       \* between the insertion and the commit

Blank(text) == text = <<>>

Idle == [op |-> "none", user |-> NoUser, phase |-> "idle", queries |-> <<>>,
         proceed |-> TRUE, next |-> 1, connection |-> "none", results |-> <<>>,
         error |-> {}, row |-> NoRowId, victims |-> {}, loaded |-> FALSE,
         value |-> FALSE, overlapped |-> FALSE]

TypeOK ==
    /\ dbServer \in [exists : BOOLEAN, db_type : {"psql", "mysql"},
                     default_sql_limit : Limits, query_count : Nat,
                     error_query_count : Nat]
    /\ IsFiniteSet(log) /\ log \subseteq SqlQuery
    /\ \A a, b \in log : a.id = b.id => a = b
    /\ saved \in 0..(Earlier + Cardinality(Request))
    /\ faults \in 0..MaxFaults
    /\ DOMAIN request = Request
    /\ \A r \in Request :
           /\ request[r].op \in Run \cup {"none", "put"}
           /\ request[r].user \in User \cup {NoUser}
           /\ request[r].phase \in Phase
           /\ request[r].connection \in {"none", "open", "unread", "lost"}
           /\ request[r].row \in 0..saved
           /\ request[r].victims \subseteq RowId

Init ==
    /\ dbServer \in [exists : {TRUE}, db_type : {"psql", "mysql"},
                     default_sql_limit : Limits, query_count : {0},
                     error_query_count : {0}]
    /\ \E u \in User, favorite \in SUBSET (1..Earlier) :
           log = {[id |-> i, user |-> u, is_favorite |-> i \in favorite,
                   is_valid |-> TRUE, error |-> {}] : i \in 1..Earlier}
    /\ request = [r \in Request |-> Idle]
    /\ saved = Earlier
    /\ faults = 0

-----------------------------------------------------------------------------
(* The connection                                                          *)

\* Mutated form: the connection is taken without asking whether it is alive.
ConnectedUnasked(connection) == connection

\* connect: an open connection is asked whether it is alive, by a statement that first
\* reads what an earlier one left unread; a lost one is handed out again.
Connected(connection) == IF connection = "unread" THEN "open" ELSE connection

Entry(state, rows, limited, cause) ==
    [state |-> state, rows |-> rows, limit_reached |-> limited, cause |-> cause]
Skipped == Entry("skipped", <<>>, FALSE, "none")


\* What one statement may answer over a connection, the connection after it and whether
\* this is a new fault.
Outcome(state, rows, limited, cause, after) ==
    [entry |-> Entry(state, rows, limited, cause), after |-> after, fault |-> 0]
Error(cause, after) == Outcome("error", <<>>, FALSE, cause, after)
Fault(cause, after) == [Error(cause, after) EXCEPT !.fault = 1]

Answers(connection, result) ==
    CASE Connected(connection) = "lost"   -> {Error("lost", "lost")}
      [] Connected(connection) = "unread" -> {Error("unread", "unread")}
      [] OTHER ->
           {f \in {Fault("connect", "none"), Fault("lost", "lost")} :
               faults < MaxFaults /\ (f.entry.cause = "connect" => connection = "none")}
           \cup {LET after == IF result.unread THEN "unread" ELSE "open"
                 IN  IF result.state = "success"
                     THEN Outcome("success", result.result, result.limit_reached, "none", after)
                     ELSE Error("statement", after)}

\* exec_raw_query
RawAnswers(connection, text) ==
    Answers(connection, RawResult(dbServer.db_type, text, dbServer.default_sql_limit))

\* exec_query returns all rows of its one statement.
QueryAnswers(text) ==
    Answers("none", LET all == MysqlResult(Commands(text))
                    IN  IF text = <<>> /\ dbServer.db_type = "mysql" THEN Failure(FALSE)
                        ELSE all)

-----------------------------------------------------------------------------
(* Running the statements                                                  *)

\* increment! adds in the database; it does nothing when the row is gone.
Counted(queries, errors) ==
    dbServer' = IF dbServer.exists
                THEN [dbServer EXCEPT !.query_count = @ + queries,
                                      !.error_query_count = @ + errors]
                ELSE dbServer

Begin(r, u) ==
    /\ request[r].phase = "idle"
    /\ dbServer.exists
    /\ LET Starts(op, queries, proceed) ==
               request' = [request EXCEPT ![r] =
                  [Idle EXCEPT !.op = op, !.user = u, !.phase = "run",
                               !.queries = queries, !.proceed = proceed]]
       IN  \/ \E batch \in Batches, proceed \in BOOLEAN : Starts("multi_query", batch, proceed)
           \/ \E text \in Texts : Starts("raw_query", <<text>>, TRUE)
           \/ \E text \in Texts : Len(text) <= 1 /\ Starts("query", <<text>>, TRUE)
    /\ UNCHANGED <<dbServer, log, saved, faults>>

\* Mutated form: only the statement before counts.
ErrorOccuredJustBefore(r) == request[r].next - 2 \in request[r].error

ErrorOccured(r) == request[r].error # {}

\* The statement that comes next is sent: it is there, and in multi_query it is not blank
\* and no error before it makes the rest be skipped.
Due(r) ==
    LET req == request[r]
    IN  /\ req.next <= Len(req.queries)
        /\ req.op = "multi_query" => /\ ~Blank(req.queries[req.next])
                                     /\ ErrorOccured(r) => req.proceed

Executing(r, op) == request[r].phase = "exec" /\ request[r].op = op /\ Due(r)

\* Mutated form: the count is set in the copy loaded when nothing was counted, and saved.
CountQueryOnCopy(r) ==
    /\ request[r].phase = "run"
    /\ Due(r)
    /\ dbServer' = [dbServer EXCEPT !.query_count = Len(request[r].results) + 1]
    /\ request' = [request EXCEPT ![r].phase = "exec"]
    /\ UNCHANGED <<log, saved, faults>>

\* Each statement is counted before it is sent.
CountQuery(r) ==
    /\ request[r].phase = "run"
    /\ Due(r)
    /\ Counted(1, 0)
    /\ request' = [request EXCEPT ![r].phase = "exec"]
    /\ UNCHANGED <<log, saved, faults>>

\* An error is counted after it, where the request counts errors.
CountError(r) ==
    /\ request[r].phase = "error"
    /\ Counted(0, 1)
    /\ request' = [request EXCEPT ![r].phase = "run"]
    /\ UNCHANGED <<log, saved, faults>>

\* Mutated form: an error is numbered by its place among the results.
ReportByResult(r, entry, errors, connection, phase) ==
    request' = [request EXCEPT ![r].results = Append(@, entry), ![r].next = @ + 1,
                               ![r].error = @ \cup {Len(request[r].results) : e \in errors},
                               ![r].connection = connection, ![r].phase = phase]

Report(r, entry, errors, connection, phase) ==
    request' = [request EXCEPT ![r].results = Append(@, entry), ![r].next = @ + 1,
                               ![r].error = @ \cup errors, ![r].connection = connection,
                               ![r].phase = phase]

\* A turn of the loop of multi_query that sends nothing.
MultiQuerySkip(r) ==
    LET req == request[r]
    IN  /\ req.phase = "run" /\ req.op = "multi_query"
        /\ req.next <= Len(req.queries)
        /\ \/ /\ Blank(req.queries[req.next])
              /\ request' = [request EXCEPT ![r].next = @ + 1]
           \/ /\ ~Blank(req.queries[req.next])
              /\ ErrorOccured(r) /\ ~req.proceed
              /\ Report(r, Skipped, {}, req.connection, "run")
        /\ UNCHANGED <<dbServer, log, saved, faults>>

\* One turn of the loop of multi_query; reuse_connection keeps the connection for the next.
MultiQueryStatement(r) ==
    /\ Executing(r, "multi_query")
    /\ LET req == request[r]
       IN  \E a \in RawAnswers(req.connection, req.queries[req.next]) :
              LET bad == a.entry.state = "error"
                  rows == IF bad THEN <<>> ELSE a.entry.rows[1]
              IN  /\ Report(r, [a.entry EXCEPT !.rows = rows],
                             IF bad THEN {req.next - 1} ELSE {}, a.after,
                             IF bad THEN "error" ELSE "run")
                  /\ faults' = faults + a.fault
    /\ UNCHANGED <<dbServer, log, saved>>

\* POST query counts no errors.
QueryStatement(r) ==
    /\ Executing(r, "query")
    /\ \E a \in QueryAnswers(request[r].queries[1]) :
           /\ Report(r, a.entry, IF a.entry.state = "error" THEN {0} ELSE {}, "none", "run")
           /\ faults' = faults + a.fault
    /\ UNCHANGED <<dbServer, log, saved>>

\* POST raw_query does not rescue what connect raises, nor what reading on from a lost
\* connection may raise: the request fails, with the statement counted and nothing logged.
RawQueryStatement(r) ==
    /\ Executing(r, "raw_query")
    /\ \E a \in RawAnswers("none", request[r].queries[1]) :
           LET bad == a.entry.state = "error"
           IN  /\ faults' = faults + a.fault
               /\ \/ /\ a.entry.cause # "connect"
                     /\ Report(r, a.entry, IF bad THEN {0} ELSE {}, "none",
                               IF bad THEN "error" ELSE "run")
                  \/ /\ a.entry.cause \in {"connect", "lost"}
                     /\ request' = [request EXCEPT ![r].results = <<a.entry>>,
                                                   ![r].phase = "failed"]
    /\ UNCHANGED <<dbServer, log, saved>>

-----------------------------------------------------------------------------
(* Saving the row of the log                                               *)

\* Mutated form: the row is numbered by what has been saved when it commits.
RowOfLastSaved(r) ==
    [id |-> saved, user |-> request[r].user, is_favorite |-> FALSE,
     is_valid |-> request[r].error = {}, error |-> request[r].error]

RowOf(r) == [id |-> request[r].row, user |-> request[r].user, is_favorite |-> FALSE,
             is_valid |-> ~ErrorOccured(r), error |-> request[r].error]

RowsOfUser(u) == {x \in log : x.user = u}

\* What the transaction of r sees of its user's log: what is committed, and its own row.
Visible(r) == RowsOfUser(request[r].user) \cup {RowOf(r)}

\* Mutated form: the newest first, favourites or not.
BeforeByDate(a, b) == a.id > b.id

\* order('is_favorite desc', 'created_at desc')
Before(a, b) == \/ a.is_favorite /\ ~b.is_favorite
                \/ a.is_favorite = b.is_favorite /\ a.id > b.id

\* Mutated form: one row too many is kept.
BeyondCapByOne(rows) == {x \in rows : Cardinality({y \in rows : Before(y, x)}) > Cap}

\* offset(QUERY_COUNT_PER_SERVER_AND_USER)
BeyondCap(rows) == {x \in rows : Cardinality({y \in rows : Before(y, x)}) >= Cap}

Overlapping(r) == {s \in Request \ {r} : /\ request[s].phase \in Saving
                                         /\ request[s].user = request[r].user}

\* sql_query.save inserts the row and counts the rows of its user; the foreign key refuses
\* a row whose server is gone, and the request fails.
Insert(r) ==
    /\ request[r].phase = "run"
    /\ request[r].next > Len(request[r].queries)
    /\ LET with == Overlapping(r)
           full == Cardinality(RowsOfUser(request[r].user)) + 1 > Cap
           inserted == [request EXCEPT ![r].row = saved + 1, ![r].connection = "none",
                                       ![r].phase = IF full THEN "trim" ELSE "commit"]
       IN  IF dbServer.exists
           THEN /\ saved' = saved + 1
                /\ request' = [s \in Request |->
                      IF s \in with \/ (s = r /\ with # {})
                      THEN [inserted[s] EXCEPT !.overlapped = TRUE] ELSE inserted[s]]
           ELSE /\ request' = [request EXCEPT ![r].phase = "failed", ![r].connection = "none"]
                /\ UNCHANGED saved
    /\ UNCHANGED <<dbServer, log, faults>>

\* cleanup_outdated_queries loads the rows to destroy ...
Trim(r) ==
    /\ request[r].phase = "trim"
    /\ request' = [request EXCEPT ![r].phase = "commit",
                                  ![r].victims = {x.id : x \in BeyondCap(Visible(r))}]
    /\ UNCHANGED <<dbServer, log, saved, faults>>

\* ... and destroys them by their ids, whatever they have become.
Commit(r) ==
    /\ request[r].phase = "commit"
    /\ log' = {x \in log \cup {RowOf(r)} : x.id \notin request[r].victims}
    /\ request' = [request EXCEPT ![r].phase = "done"]
    /\ UNCHANGED <<dbServer, saved, faults>>

-----------------------------------------------------------------------------
(* Favourites, deletion, crashes                                           *)

\* PUT /sql_queries/:id loads the row ...
MarkLoad(r) ==
    /\ request[r].phase = "idle"
    /\ \E x \in log, value \in BOOLEAN :
           request' = [request EXCEPT ![r] =
               [Idle EXCEPT !.op = "put", !.user = x.user, !.phase = "mark", !.row = x.id,
                            !.loaded = x.is_favorite, !.value = value]]
    /\ UNCHANGED <<dbServer, log, saved, faults>>

\* ... and writes the flag if it differs from what it loaded.
MarkWrite(r) ==
    LET req == request[r]
        Marked(x) == IF x.id = req.row /\ req.value # req.loaded
                     THEN [x EXCEPT !.is_favorite = req.value] ELSE x
    IN  /\ req.phase = "mark"
        /\ log' = {Marked(x) : x \in log}
        /\ request' = [request EXCEPT ![r].phase = "done"]
        /\ UNCHANGED <<dbServer, saved, faults>>

\* DELETE /db_servers/:id takes the log along (dependent: :delete_all).  A transaction that
\* has inserted a row holds the server's row, and the deletion fails when it commits.
DeleteServer ==
    /\ dbServer.exists
    /\ \A r \in Request : request[r].phase \notin Saving
    /\ dbServer' = [dbServer EXCEPT !.exists = FALSE]
    /\ log' = {}
    /\ UNCHANGED <<request, saved, faults>>

\* The web server stops: the transaction of the request is rolled back.
Crash(r) ==
    /\ request[r].phase \in Saving \cup InStatements \cup {"mark"}
    /\ request' = [request EXCEPT ![r].phase = "failed", ![r].connection = "none"]
    /\ faults < MaxFaults
    /\ faults' = faults + 1
    /\ UNCHANGED <<dbServer, log, saved>>

Next ==
    \/ \E r \in Request :
           \/ \E u \in User : Begin(r, u)
           \/ CountQuery(r) \/ CountError(r) \/ MultiQuerySkip(r)
           \/ MultiQueryStatement(r) \/ QueryStatement(r) \/ RawQueryStatement(r)
           \/ Insert(r) \/ Trim(r) \/ Commit(r)
           \/ MarkLoad(r) \/ MarkWrite(r)
           \/ Crash(r)
    \/ DeleteServer

Spec == Init /\ [][Next]_vars

-----------------------------------------------------------------------------
(* Properties                                                              *)

\* The loop over the results of a connection pairs every command of a text with its rows
\* (db_server.rb 262-302).  This does not depend on the state, and is evaluated where a
\* behaviour starts.
RawResultsRight ==
    (\A r \in Request : request[r] = Idle) =>
        \A limit \in Limits : PairsCommandsWithRows(AnyText, 1..limit)

Entries(r) == {request[r].results[k] : k \in DOMAIN request[r].results}

\* The statements of r that have been answered, and the place of one of them among the
\* results: blank statements get none.
Answered(r) ==
    {i \in 1..request[r].next - 1 :
        request[r].op = "multi_query" => ~Blank(request[r].queries[i])}
ResultOf(r, i) == request[r].results[Cardinality({j \in Answered(r) : j <= i})]

\* Every statement of multi_query that is not blank has one result, in order.  After an
\* error without proceed_after_error all further ones are skipped, and none otherwise; a
\* success carries the rows of the statement's own first command, cut to the limit
\* (db_servers.rb 288-344).
ResultsMatchStatements ==
    \A r \in Request : request[r].op = "multi_query" =>
        /\ Len(request[r].results) = Cardinality(Answered(r))
        /\ \A i \in Answered(r) :
              LET failed == \E j \in Answered(r) : j < i /\ ResultOf(r, j).state = "error"
                  text == request[r].queries[i]
                  limit == dbServer.default_sql_limit
              IN  /\ ResultOf(r, i).state = "skipped" <=> failed /\ ~request[r].proceed
                  /\ ResultOf(r, i).state = "success" =>
                        ResultOf(r, i).rows =
                            RowsOf(1, IF dbServer.db_type = "psql"
                                      THEN Min({limit, text[1]}) ELSE text[1])

\* An error is the statement's own (or the limit is zero), or the connection could not be
\* made or was lost: what a truncated statement left unread in a reused connection never
\* reaches the next one (db_server.rb 158-193, 249-302).
ErrorsAreOwn ==
    \A r \in Request : \A i \in Answered(r) :
        ResultOf(r, i).state = "error" =>
            \/ ResultOf(r, i).cause \in {"connect", "lost"}
            \/ /\ ResultOf(r, i).cause = "statement"
               /\ LET text == request[r].queries[i]
                  IN  \/ \E c \in DOMAIN text : text[c] = Fail
                      \/ Blank(text) /\ dbServer.db_type = "mysql"
                      \/ dbServer.default_sql_limit = 0

Sent(r) == Cardinality({k \in DOMAIN request[r].results :
                           request[r].results[k].state # "skipped"})
Failed(r) == IF request[r].op = "query" THEN 0 ELSE Cardinality(request[r].error)

InPhase(phase) == Cardinality({r \in Request : request[r].phase = phase})

\* The counters of the server lose and invent nothing, however many requests count at
\* once: a statement that was not skipped counts once, from before it is sent, and an error
\* of multi_query and of a raw_query that could answer counts once, after it.  Only a
\* request that stopped may leave one statement counted without an answer, or one error
\* not counted (increment! in db_servers.rb 223, 302-337, 370-379).
CountersExact ==
    dbServer.exists =>
        LET sent == SumFunction([r \in Request |-> Sent(r)]) + InPhase("exec")
            failed == SumFunction([r \in Request |-> Failed(r)])
            errors == dbServer.error_query_count + InPhase("error")
        IN  /\ sent <= dbServer.query_count
            /\ dbServer.query_count <= sent + InPhase("failed")
            /\ errors <= failed
            /\ failed <= errors + InPhase("failed")

\* The row that a request leaves in the log tells what it answered: the row is valid if no
\* result is an error, and its errors name the statements, blank ones counted, whose
\* results are errors (sql_query.rb 60-63, db_servers.rb 314-336).
LogTellsResults ==
    \A r \in Request, x \in log :
        request[r].op \in Run /\ x.id = request[r].row =>
            /\ x.is_valid <=> \A entry \in Entries(r) : entry.state # "error"
            /\ x.error = {i - 1 : i \in {j \in Answered(r) : ResultOf(r, j).state = "error"}}

\* The cap: requests that save one after another keep the log of a user at the cap; it is
\* exceeded only by transactions that overlapped, and by fewer rows than they are
\* (sql_query.rb 77-84).
CapExceededOnlyByOverlap ==
    \A u \in User :
        LET overlapped == {r \in Request : request[r].user = u /\ request[r].overlapped}
        IN  Cardinality(RowsOfUser(u))
                <= Cap + (IF overlapped = {} THEN 0 ELSE Cardinality(overlapped) - 1)

\* A favourite is trimmed only in a race: it was marked after the rows to destroy were
\* chosen, or saves that overlapped had left the log above the cap (sql_query.rb 77-84).
FavouriteLossNeedsRace ==
    [][\A r \in Request : Trim(r) =>
          \A x \in log : x.is_favorite /\ x.id \in request'[r].victims =>
              Cardinality(RowsOfUser(x.user)) > Cap]_vars

\* A row that the trimming of another request destroys is not a favourite.  The tests say
\* "favorites are kept" (spec/integration/sql_query_api_spec.rb:224).
FavoritesKept ==
    [][\A r \in Request : Commit(r) =>
          \A x \in log : x.is_favorite => x \in log']_vars
=============================================================================
