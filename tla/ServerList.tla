----------------------------- MODULE ServerList -----------------------------
(***************************************************************************)
(* The list of database servers of the browser: filled by the list of the  *)
(* user's servers and by every group that is read, changed by the form of  *)
(* a server.                                                               *)
(*                                                                         *)
(* A logout withdraws all of these requests (a group that was joined or    *)
(* saved is not among them), and the handlers of the withdrawn ones run in *)
(* the state of the store that is new.  A session that is lost withdraws   *)
(* nothing; and a login does not load the list while a load is under way.  *)
(* Other users change nothing, two requests that agree in all are one.     *)
(***************************************************************************)
EXTENDS Naturals, FiniteSets

CONSTANTS
    DbServer,
    MaxServerRequests   \* bound: requests under way

ServerListAssumption == MaxServerRequests \in Nat /\ DbServer # {}

VARIABLES
    serverUser,         \* logged in
    rows,               \* the servers that are stored
    dbServers,          \* objects of the store for each server
    listState, saveState,
    tempDbServer,       \* the form is open
    serverRequests,
    tangled             \* note of the model: what has overlapped, failed halfway, or was left behind

serverVars == <<serverUser, rows, dbServers, listState, saveState, tempDbServer, serverRequests, tangled>>

State == {"none", "loading", "success", "error"}
ServerKind == {"list", "group", "create", "update", "remove"}
Reads == {"list", "group"}
Saves == {"create", "update"}
ServerRequest == [kind : ServerKind, server : DbServer, served : BOOLEAN, answer : SUBSET DbServer]

\* Bound: objects of a server.
MaxCopies == 2

ServerTypeOK ==
    /\ serverUser \in BOOLEAN /\ tempDbServer \in BOOLEAN
    /\ rows \subseteq DbServer
    /\ dbServers \in [DbServer -> 0..MaxCopies]
    /\ listState \in State /\ saveState \in State
    /\ serverRequests \subseteq ServerRequest
    /\ tangled \subseteq {"create", "other"}

ServerInit ==
    /\ serverUser = FALSE /\ tempDbServer = FALSE
    /\ rows \in SUBSET DbServer
    /\ dbServers = [s \in DbServer |-> 0]
    /\ listState = "none" /\ saveState = "none"
    /\ serverRequests = {} /\ tangled = {}

-----------------------------------------------------------------------------
Sent(kind, s) == [kind |-> kind, server |-> s, served |-> FALSE, answer |-> {}]
AnyServer == CHOOSE s \in DbServer : TRUE
UnderWay(kinds) == \E r \in serverRequests : r.kind \in kinds
AtMost(n) == IF n > MaxCopies THEN MaxCopies ELSE n

\* What a request of the kind may upset by being under way together with others.
Tangles(kind) ==
    {cause \in {"create", "other"} :
        IF cause = "create"
        THEN \E r \in serverRequests : {kind, r.kind} \in {{"create", k} : k \in Reads}
        ELSE \E r \in serverRequests : ~({kind, r.kind} \subseteq Reads)}

Asks(kind, s) ==
    /\ serverRequests' = serverRequests \cup {Sent(kind, s)}
    /\ tangled' = tangled \cup Tangles(kind)

\* Bound: the user goes on while few requests are under way, and nothing is tangled yet.
MayAsk == serverUser /\ Cardinality(serverRequests) < MaxServerRequests /\ tangled = {}

(* The user. *)

ServerLogin ==
    /\ ~serverUser /\ serverUser' = TRUE
    /\ Cardinality(serverRequests) < MaxServerRequests
    /\ IF listState = "loading" THEN UNCHANGED <<listState, serverRequests, tangled>>
       ELSE listState' = "loading" /\ Asks("list", AnyServer)
    /\ UNCHANGED <<rows, dbServers, saveState, tempDbServer>>

ReadGroup ==
    /\ MayAsk /\ Asks("group", AnyServer)
    /\ UNCHANGED <<serverUser, rows, dbServers, listState, saveState, tempDbServer>>

\* The form of a new server, or of one that is listed.
EditDbServer ==
    /\ serverUser /\ tempDbServer' = ~tempDbServer
    /\ UNCHANGED <<serverUser, rows, dbServers, listState, saveState, serverRequests, tangled>>

Save(kind, s) ==
    /\ MayAsk /\ tempDbServer
    /\ kind = "update" => dbServers[s] > 0
    /\ kind = "create" => s \notin rows /\ dbServers[s] = 0 /\ Sent(kind, s) \notin serverRequests
    /\ saveState' = "loading"
    /\ Asks(kind, s)
    /\ UNCHANGED <<serverUser, rows, dbServers, listState, tempDbServer>>

Remove(s) ==
    /\ MayAsk /\ tempDbServer /\ dbServers[s] > 0
    /\ Asks("remove", s)
    /\ tempDbServer' = FALSE
    /\ UNCHANGED <<serverUser, rows, dbServers, listState, saveState>>

\* What is withdrawn may have been served. A group is read anew, or by the request of a form.
ServerLogout ==
    /\ serverUser /\ serverUser' = FALSE
    /\ dbServers' = [s \in DbServer |-> 0]
    /\ tempDbServer' = FALSE
    /\ listState' = IF UnderWay({"list"}) THEN "error" ELSE "none"
    /\ saveState' = IF UnderWay(Saves) THEN "error" ELSE "none"
    /\ \E kept \in SUBSET {r \in serverRequests : r.kind = "group"} : serverRequests' = kept
    /\ tangled' = IF serverRequests' = {} THEN {} ELSE tangled \cup {"other"}
    /\ UNCHANGED rows

ServerSessionLost ==
    /\ serverUser /\ serverUser' = FALSE
    /\ tangled' = tangled \cup (IF serverRequests = {} THEN {} ELSE {"other"})
    /\ UNCHANGED <<rows, dbServers, listState, saveState, tempDbServer, serverRequests>>

-----------------------------------------------------------------------------
(* The server, and the answers. *)

ServeServers(r) ==
    /\ ~r.served
    /\ rows' = IF r.kind = "create" THEN rows \cup {r.server}
               ELSE IF r.kind = "remove" THEN rows \ {r.server} ELSE rows
    /\ \E listed \in (IF r.kind = "group" THEN SUBSET rows' ELSE {rows'}) :
           serverRequests' = (serverRequests \ {r}) \cup {[r EXCEPT !.served = TRUE, !.answer = listed]}
    /\ UNCHANGED <<dbServers, listState, saveState, tempDbServer, tangled>>

Answered(r, kinds) == r.served /\ r.kind \in kinds /\ serverRequests' = serverRequests \ {r}

\* A mutant: the old objects stay.
AddedBesides(s) == dbServers[s] + 1
Added(s) == IF dbServers[s] = 0 THEN 1 ELSE dbServers[s]

\* The object that is found of a server that is listed is replaced.
ServersListed(r) ==
    /\ Answered(r, Reads)
    /\ dbServers' = [s \in DbServer |-> IF s \in r.answer THEN AtMost(Added(s)) ELSE dbServers[s]]
    /\ listState' = IF r.kind = "list" THEN "success" ELSE listState
    /\ UNCHANGED <<rows, saveState, tempDbServer, tangled>>

\* The form that is open is closed by a save that succeeds.
Saved ==
    /\ saveState' = "success"
    /\ tempDbServer' = (tempDbServer /\ saveState = "success")

ServerCreated(r) ==
    /\ Answered(r, {"create"})
    /\ dbServers' = [dbServers EXCEPT ![r.server] = AtMost(@ + 1)]
    /\ Saved
    /\ UNCHANGED <<rows, listState, tangled>>

\* A server that is not listed any more leaves the save waiting.
ServerUpdated(r) ==
    /\ Answered(r, {"update"})
    /\ IF dbServers[r.server] = 0 THEN UNCHANGED <<saveState, tempDbServer>> ELSE Saved
    /\ UNCHANGED <<rows, dbServers, listState, tangled>>

\* A mutant: an object is taken off although none is left.
RemovedBlindly(s) == dbServers[s] - 1
Removed(s) == IF dbServers[s] = 0 THEN 0 ELSE dbServers[s] - 1

ServerRemoved(r) ==
    /\ Answered(r, {"remove"})
    /\ dbServers' = [dbServers EXCEPT ![r.server] = Removed(r.server)]
    /\ UNCHANGED <<rows, listState, saveState, tempDbServer, tangled>>

\* A failed request is noted if the server has served it.
ServerRequestFails(r) ==
    /\ serverRequests' = serverRequests \ {r}
    /\ listState' = IF r.kind = "list" THEN "error" ELSE listState
    /\ saveState' = IF r.kind \in Saves THEN "error" ELSE saveState
    /\ tangled' = tangled \cup (IF r.served \/ r.kind \in Reads THEN {"other"} ELSE {})
    /\ UNCHANGED <<rows, dbServers, tempDbServer>>

ServersAnswered(kinds) ==
    /\ \E r \in serverRequests :
           /\ r.kind \in kinds
           /\ \/ ServeServers(r) \/ ServersListed(r) \/ ServerCreated(r)
              \/ ServerUpdated(r) \/ ServerRemoved(r) \/ ServerRequestFails(r)
    /\ UNCHANGED serverUser

ServerNext ==
    \/ ServerLogin
    \/ ServerLogout
    \/ ServerSessionLost
    \/ ReadGroup
    \/ EditDbServer
    \/ \E s \in DbServer : Remove(s) \/ \E kind \in Saves : Save(kind, s)
    \/ ServersAnswered(ServerKind)

-----------------------------------------------------------------------------
(* No server is listed twice, though the list and every group that is read *)
(* bring the same servers, in any order and after any logout: only a       *)
(* server that was created meanwhile is.                                   *)
NoServerTwice == "create" \notin tangled => \A s \in DbServer : dbServers[s] <= 1

(* Once all is answered, the list holds the servers that are stored.       *)
ServersRight ==
    tangled = {} /\ serverRequests = {} /\ listState = "success" =>
        \A s \in DbServer : dbServers[s] = IF s \in rows THEN 1 ELSE 0

\* The list that is loading arrives or fails, whoever has asked for it.
ListEnds == listState = "loading" ~> listState # "loading"

(* A save that is waited for ends, unless its server is gone from the list *)
(* by then.                                                                *)
SaveEnds ==
    saveState = "loading" ~>
        saveState # "loading" \/ \A r \in serverRequests : r.kind \notin Saves
=============================================================================
