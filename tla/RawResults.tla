----------------------------- MODULE RawResults -----------------------------
(***************************************************************************)
(* What DbServer#exec_raw_query returns for a text of SQL commands.  A     *)
(* text is a sequence of commands; a command is the number of rows it      *)
(* yields, or Fail.  A row is the pair of its command and its place there. *)
(*                                                                         *)
(* PostgreSQL answers in "single row mode": one result per row, then an    *)
(* empty one at the end of each command.  The loop in db_server.rb stops   *)
(* reading when a command has reached the limit; what it did not read      *)
(* stays in the connection (unread).                                       *)
(***************************************************************************)
EXTENDS Integers, SequencesExt

CONSTANT Fail

ASSUME RawResultsAssumption == Fail \notin Nat

Row(command, k) == <<command, k>>
NoRow == <<>>

RowsOf(command, n) == [k \in 1..n |-> Row(command, k)]

-----------------------------------------------------------------------------
(* The server of the user's database.                                      *)

\* An empty text is answered by one empty result.
Commands(text) == IF text = <<>> THEN <<0>> ELSE text

\* After a command that fails the server skips the rest of the text.
Ends(text) == {c \in DOMAIN text : text[c] = Fail} \cup {Len(text)}
Executed(text) == SubSeq(text, 1, Min(Ends(text)))

Answer(row, error) == [row |-> row, error |-> error]

\* The results of one command, as get_result hands them out one by one.
Stream(command, n) ==
    IF n = Fail THEN <<Answer(NoRow, TRUE)>>
    ELSE Append([k \in 1..n |-> Answer(Row(command, k), FALSE)], Answer(NoRow, FALSE))

Wire(text) ==
    LET run == Executed(Commands(text))
    IN  FlattenSeq([c \in DOMAIN run |-> Stream(c, run[c])])

-----------------------------------------------------------------------------
(* exec_raw_query                                                          *)

\* When a result opens the list of the next command.
Opens(answer) == answer.row = NoRow

\* One turn of the loop over get_result.
GetResult(read, answer, limit) ==
    IF read.unread \/ Len(Last(read.results)) >= limit
    THEN [read EXCEPT !.unread = TRUE]
    ELSE LET opened == IF Opens(answer) THEN Append(read.results, <<>>)
                                             ELSE read.results
         IN  IF answer.error
             THEN [read EXCEPT !.results = opened, !.error = TRUE]
             ELSE [read EXCEPT !.results =
                      IF answer.row = NoRow THEN opened
                      ELSE [opened EXCEPT ![Len(opened)] = Append(@, answer.row)]]

\* Mutated form: the list that the end of the last command opened is kept.
PsqlReadUnpopped(text, limit) ==
    LET Turn(read, answer) == GetResult(read, answer, limit)
    IN  FoldLeft(Turn, [results |-> << <<>> >>, error |-> FALSE, unread |-> FALSE],
                 Wire(text))

PsqlRead(text, limit) ==
    LET Turn(read, answer) == GetResult(read, answer, limit)
        all == FoldLeft(Turn, [results |-> << <<>> >>, error |-> FALSE, unread |-> FALSE],
                        Wire(text))
    IN  [all EXCEPT !.results = IF Last(@) = <<>> THEN Front(@) ELSE @]

Failure(unread) == [state |-> "error", result |-> <<>>, limit_reached |-> FALSE,
                    unread |-> unread]

\* With a limit of zero nothing is read: results[0] is nil and has no length.
PsqlResult(text, limit) ==
    LET read == PsqlRead(text, limit)
    IN  IF read.error \/ read.results = <<>> THEN Failure(read.unread)
        ELSE [state |-> "success", result |-> read.results,
              limit_reached |-> Len(read.results[1]) >= limit, unread |-> read.unread]

\* mysql2 reads every result, and abandons what is left of them.
MysqlResult(text) ==
    IF text = <<>> \/ \E c \in DOMAIN text : text[c] = Fail THEN Failure(FALSE)
    ELSE [state |-> "success", result |-> [c \in DOMAIN text |-> RowsOf(c, text[c])],
          limit_reached |-> FALSE, unread |-> FALSE]

RawResult(db_type, text, limit) ==
    IF db_type = "psql" THEN PsqlResult(text, limit) ELSE MysqlResult(text)

-----------------------------------------------------------------------------
(* What a caller may rely on, without wire, turns and trailing results: a  *)
(* result per command up to the first one that reaches the limit, cut to   *)
(* the limit there; an error if a command fails up to there.               *)

AtLimit(text, limit) == {c \in DOMAIN text : text[c] # Fail /\ text[c] >= limit}
Served(text, limit) == SubSeq(text, 1, Min(AtLimit(text, limit) \cup {Len(text)}))

Promised(text, limit) ==
    LET served == Served(Commands(text), limit)
    IN  IF Contains(served, Fail) THEN Failure(FALSE)
        ELSE [state |-> "success",
              result |-> [c \in DOMAIN served |-> RowsOf(c, Min({served[c], limit}))],
              limit_reached |-> served[1] >= limit,
              unread |-> AtLimit(served, limit) # {}]

\* The loop pairs every command with its rows, whatever mixture of empty, short and
\* long results and of failures a text produces (db_server.rb 249-302).
PairsCommandsWithRows(texts, limits) ==
    \A text \in texts, limit \in limits : PsqlResult(text, limit) = Promised(text, limit)
=============================================================================
