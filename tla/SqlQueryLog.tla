---------------------------- MODULE SqlQueryLog -----------------------------
(***************************************************************************)
(* The sql query store of the browser: the log of the queries the user has *)
(* run and of those that are shared with the user's groups, the star of a  *)
(* query, and the query that a run adds.                                   *)
(*                                                                         *)
(* A load empties the log; what its own list answers is added unseen, then *)
(* the lists of the groups, without what is found.  A star is sent if it   *)
(* differs from the one the object of the query came with.  Only the load  *)
(* and the runs can be cancelled, a run by a token that is never renewed.  *)
(* The privacy of a query is toggled in the same way and left out.         *)
(***************************************************************************)
EXTENDS Naturals, Sequences, FiniteSets, SequencesExt

CONSTANTS
    LogQuery, Unrun,    \* queries of the user, and one that is yet to be run
    MaxLogRequests      \* bound: requests under way

SqlQueryLogAssumption == Unrun \in LogQuery /\ MaxLogRequests \in Nat

VARIABLES
    logUser,
    stored,             \* the star of each query on the server
    sqlQueries,         \* the objects of each query in the log, the oldest first
    logLoaded,          \* note of the model: a load has been answered since the log was emptied
    cancelled,          \* the token of the runs
    logRequests,
    upset               \* note of the model: a load overlapped with other requests,
                        \* clicks on a star overlapped, or a request failed

logVars == <<logUser, stored, sqlQueries, logLoaded, cancelled, logRequests, upset>>

Star == {"none", "plain", "star"}       \* "none": not stored
Listing == [LogQuery -> Star]
Object == [isFavorite : Star, pristine : Star]
LogKind == {"own", "shared", "update", "run"}
LogRequest == [kind : LogKind, query : LogQuery, isFavorite : Star, served : BOOLEAN, answer : Listing]

\* Bound: objects of a query in the log.
MaxObjects == 2

LogTypeOK ==
    /\ logUser \in BOOLEAN /\ logLoaded \in BOOLEAN /\ cancelled \in BOOLEAN /\ upset \in BOOLEAN
    /\ stored \in Listing
    /\ \A q \in LogQuery : /\ Len(sqlQueries[q]) <= MaxObjects
                           /\ ToSet(sqlQueries[q]) \subseteq Object
    /\ \A r \in logRequests : /\ r.kind \in LogKind /\ r.query \in LogQuery
                              /\ r.isFavorite \in Star /\ r.answer \in Listing

Empty == [q \in LogQuery |-> <<>>]

LogInit ==
    /\ logUser = FALSE
    /\ stored \in {s \in Listing : \A q \in LogQuery : s[q] = "none" <=> q = Unrun}
    /\ sqlQueries = Empty /\ logLoaded = FALSE /\ cancelled = FALSE /\ logRequests = {}
    /\ upset = FALSE

-----------------------------------------------------------------------------
Fresh(star) == [isFavorite |-> star, pristine |-> star]
Pushed(q, star) == IF Len(sqlQueries[q]) = MaxObjects THEN sqlQueries[q]
                   ELSE Append(sqlQueries[q], Fresh(star))

Sent(kind, q, star) ==
    [kind |-> kind, query |-> q, isFavorite |-> star, served |-> FALSE, answer |-> [p \in LogQuery |-> "none"]]
Loading == \E r \in logRequests : r.kind = "own"
\* Bound: the user goes on only while nothing is listed twice.
MayAsk == logUser /\ Cardinality(logRequests) < MaxLogRequests /\ \A q \in LogQuery : Len(sqlQueries[q]) <= 1

(* The user. *)

\* The groups are known some time after the login, and the log is read then.
LoadSqlQueries ==
    /\ MayAsk
    /\ sqlQueries' = Empty /\ logLoaded' = FALSE
    /\ logRequests' = logRequests \cup {Sent("own", Unrun, "none")}
    /\ upset' = (logRequests # {})
    /\ UNCHANGED <<logUser, stored, cancelled>>

LogLogin ==
    /\ ~logUser /\ logUser' = TRUE
    /\ UNCHANGED <<stored, sqlQueries, logLoaded, cancelled, logRequests, upset>>

\* A run that is cancelled may have reached the server.
LogLogout ==
    /\ logUser /\ logUser' = FALSE
    /\ \E run \in SUBSET {r.query : r \in {c \in logRequests : c.kind = "run" /\ ~c.served}} :
           stored' = [q \in LogQuery |-> IF q \in run THEN "plain" ELSE stored[q]]
    /\ sqlQueries' = Empty /\ logLoaded' = FALSE
    /\ logRequests' = {r \in logRequests : r.kind \in {"shared", "update"}}
    /\ cancelled' = TRUE
    /\ UNCHANGED upset

LogSessionLost ==
    /\ logUser /\ logUser' = FALSE
    /\ UNCHANGED <<stored, sqlQueries, logLoaded, cancelled, logRequests, upset>>

\* A mutant: what is dirty is what differs from a query without a star.
DirtyIfStarred(object) == object.isFavorite # "plain"
IsDirty(object) == object.isFavorite # object.pristine

ToggleIsFavorite(q) ==
    \E i \in DOMAIN sqlQueries[q] :
        LET toggled == [sqlQueries[q][i] EXCEPT !.isFavorite = IF @ = "star" THEN "plain" ELSE "star"] IN
        /\ MayAsk
        /\ sqlQueries' = [sqlQueries EXCEPT ![q][i] = toggled]
        /\ logRequests' = IF IsDirty(toggled) THEN logRequests \cup {Sent("update", q, toggled.isFavorite)}
                          ELSE logRequests
        /\ upset' = (upset \/ Loading \/ \E r \in logRequests : r.kind = "update" /\ r.query = q)
        /\ UNCHANGED <<logUser, stored, logLoaded, cancelled>>

\* With the cancelled token a run fails before it is sent.
RunQuery(q) ==
    /\ MayAsk /\ stored[q] = "none"
    /\ logRequests' = IF cancelled THEN logRequests ELSE logRequests \cup {Sent("run", q, "plain")}
    /\ upset' = (upset \/ Loading)
    /\ UNCHANGED <<logUser, stored, sqlQueries, logLoaded, cancelled>>

-----------------------------------------------------------------------------
(* The server, and the answers. *)

ServeLog(r) ==
    /\ ~r.served
    /\ stored' = IF r.kind \in {"update", "run"} THEN [stored EXCEPT ![r.query] = r.isFavorite] ELSE stored
    /\ logRequests' = (logRequests \ {r}) \cup {[r EXCEPT !.served = TRUE, !.answer = stored']}
    /\ UNCHANGED <<sqlQueries, logLoaded, upset>>

Answered(r, kind) == r.served /\ r.kind = kind

\* The lists of the groups, if there are any, are asked for next.
OwnAnswered(r) ==
    /\ Answered(r, "own")
    /\ sqlQueries' = [q \in LogQuery |-> IF r.answer[q] = "none" THEN sqlQueries[q]
                                         ELSE Pushed(q, r.answer[q])]
    /\ logLoaded' = TRUE
    /\ \E shared \in SUBSET {Sent("shared", Unrun, "none")} : logRequests' = (logRequests \ {r}) \cup shared
    /\ UNCHANGED <<stored, upset>>

NotFoundOf(queries) == {q \in queries : sqlQueries[q] = <<>>}

\* A query that was just run is private.
SharedAnswered(r, queries) ==
    /\ Answered(r, "shared")
    /\ queries \subseteq {q \in LogQuery \ {Unrun} : r.answer[q] # "none"}
    /\ sqlQueries' = [q \in LogQuery |-> IF q \in NotFoundOf(queries) THEN Pushed(q, r.answer[q])
                                         ELSE sqlQueries[q]]
    /\ logRequests' = logRequests \ {r}
    /\ UNCHANGED <<stored, logLoaded, upset>>

\* The object that is found first is replaced.
UpdateAnswered(r) ==
    /\ Answered(r, "update")
    /\ sqlQueries' = [sqlQueries EXCEPT ![r.query] =
           Append(IF @ = <<>> THEN @ ELSE Tail(@), Fresh(r.isFavorite))]
    /\ logRequests' = logRequests \ {r}
    /\ UNCHANGED <<stored, logLoaded, upset>>

RunAnswered(r) ==
    /\ Answered(r, "run")
    /\ sqlQueries' = [sqlQueries EXCEPT ![r.query] = Pushed(r.query, "plain")]
    /\ logRequests' = logRequests \ {r}
    /\ UNCHANGED <<stored, logLoaded, upset>>

LogRequestFails(r) ==
    /\ logRequests' = logRequests \ {r}
    /\ upset' = (upset \/ r.kind \in {"update", "run"})
    /\ UNCHANGED <<stored, sqlQueries, logLoaded>>

LogAnswered ==
    /\ \E r \in logRequests :
           \/ ServeLog(r) \/ OwnAnswered(r) \/ UpdateAnswered(r) \/ RunAnswered(r) \/ LogRequestFails(r)
           \/ \E queries \in SUBSET LogQuery : SharedAnswered(r, queries)
    /\ UNCHANGED <<logUser, cancelled>>

LogNext ==
    \/ LogLogin
    \/ LogLogout
    \/ LogSessionLost
    \/ LoadSqlQueries
    \/ \E q \in LogQuery : ToggleIsFavorite(q) \/ RunQuery(q)
    \/ LogAnswered

-----------------------------------------------------------------------------
(* No query is in the log twice: neither one that is in the user's list    *)
(* and in a group's, nor one that was just run or starred, unless the log  *)
(* was read while something else was under way.                            *)
NoSqlQueryTwice ==
    ~upset => \A q \in LogQuery : Len(sqlQueries[q]) <= 1

(* Once all is answered, the log lists what the server holds, and shows    *)
(* the stars the server holds.                                             *)
LogIsRight ==
    ~upset /\ logLoaded /\ logRequests = {} =>
        \A q \in LogQuery :
            IF stored[q] = "none" THEN sqlQueries[q] = <<>>
            ELSE sqlQueries[q] = <<Fresh(stored[q])>>
=============================================================================
