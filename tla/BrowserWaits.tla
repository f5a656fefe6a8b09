---------------------------- MODULE BrowserWaits ----------------------------
(***************************************************************************)
(* The parts of a browser tab that show that something is waited for: the  *)
(* batches of schema queries, the forms of the session, the list of users  *)
(* and the list of database servers, with the fairness under which what is *)
(* waited for ends.  As in BrowserTab the parts share no variable, and a   *)
(* behaviour is one of one part, `part', while the others rest.            *)
(*                                                                         *)
(* Fair are the answers: the HTTP client rejects a request that gets none  *)
(* (no timeout is configured, so this rests on the network stack of the    *)
(* browser to give up); and the timers of the browser, which run.  Nothing *)
(* is assumed of the user, nor of the order of answers.                    *)
(***************************************************************************)
EXTENDS Naturals

CONSTANTS
    Query, Default, Unborn, BatchSize, MaxSchemaRequests,
    MaxForms,
    Person, NoRole, MaxUserRequests,
    DbServer, MaxServerRequests

VARIABLES
    part,
    schemaUser, listing, schemaQueries, drafts, loadedSchemaQueries, schemaRequests, disturbed,
    loginState, reaction, passwordState, resendState, forms, resendTimers,
    roles, shown, reloadState, userRequests, reloadTimers, overtaken,
    serverUser, rows, dbServers, listState, saveState, tempDbServer, serverRequests, tangled

Batches == INSTANCE SchemaBatches
Form == INSTANCE LoginForm
Users == INSTANCE UserLists
Servers == INSTANCE ServerList

ASSUME WaitsAssumption ==
    /\ Batches!SchemaBatchesAssumption /\ Form!LoginFormAssumption
    /\ Users!UserListsAssumption /\ Servers!ServerListAssumption

schemaVars == <<schemaUser, listing, schemaQueries, drafts, loadedSchemaQueries, schemaRequests,
                disturbed>>
formVars == <<loginState, reaction, passwordState, resendState, forms, resendTimers>>
userVars == <<roles, shown, reloadState, userRequests, reloadTimers, overtaken>>
serverVars == <<serverUser, rows, dbServers, listState, saveState, tempDbServer, serverRequests,
                tangled>>
waitVars == <<part, schemaVars, formVars, userVars, serverVars>>

WaitsTypeOK ==
    CASE part = "batches" -> Batches!SchemaTypeOK
      [] part = "forms" -> Form!FormTypeOK
      [] part = "users" -> Users!UserTypeOK
      [] part = "servers" -> Servers!ServerTypeOK

WaitsInit ==
    /\ part \in {"batches", "forms", "users", "servers"}
    /\ Batches!SchemaInit /\ Form!FormInit /\ Users!UserInit /\ Servers!ServerInit
    /\ part # "servers" => rows = {}

InBatches == part = "batches" /\ UNCHANGED <<part, formVars, userVars, serverVars>>
InForms == part = "forms" /\ UNCHANGED <<part, schemaVars, userVars, serverVars>>
InUsers == part = "users" /\ UNCHANGED <<part, schemaVars, formVars, serverVars>>
InServers == part = "servers" /\ UNCHANGED <<part, schemaVars, formVars, userVars>>

WaitsNext ==
    \/ InBatches /\ Batches!SchemaNext
    \/ InForms /\ Form!FormNext
    \/ InUsers /\ Users!UserNext
    \/ InServers /\ Servers!ServerNext

Fairness ==
    /\ WF_waitVars(InBatches /\ Batches!SchemaAnswered({"batch"}))
    /\ WF_waitVars(InForms /\ Form!LoginEnds)
    /\ WF_waitVars(InForms /\ Form!ResendEnds)
    /\ WF_waitVars(InForms /\ Form!ResendTimeout)
    /\ WF_waitVars(InForms /\ Form!LoginReaction)
    /\ WF_waitVars(InUsers /\ Users!UserAnswered(Users!Loads))
    /\ WF_waitVars(InUsers /\ Users!ReloadTimeout)
    /\ WF_waitVars(InServers /\ Servers!ServersAnswered({"list"}))
    /\ WF_waitVars(InServers /\ Servers!ServersAnswered(Servers!Saves))

WaitsSpec == WaitsInit /\ [][WaitsNext]_waitVars /\ Fairness

-----------------------------------------------------------------------------
(* What the page shows as under way does not stay so: the card of a batch, *)
(* a login or a deletion, the message of a failed or successful one, the   *)
(* state of a link sent again, the icon of a reload, the list of servers   *)
(* and a save, each with the exceptions its module names.                  *)
WaitingEnds ==
    /\ Batches!BatchEnds
    /\ Form!LoginWaitEnds /\ Form!MessageGoes /\ Form!ResendGoes
    /\ Users!ReloadGoes
    /\ Servers!ListEnds /\ Servers!SaveEnds

(* Reading the schema queries by batches misses none, whatever is created  *)
(* meanwhile, and holds none twice, whatever is destroyed: an index of     *)
(* what the server lists stays the index of what is held.  This is until a *)
(* batch comes for a state that is gone, or a save for an object that was  *)
(* replaced.                                                               *)
NothingSkipped == part = "batches" => Batches!NothingSkipped /\ Batches!NoQueryTwice

(* The lists of servers and of users are those of the database once all is *)
(* answered, and hold nothing twice, if the requests did not overlap.      *)
ListsRight ==
    /\ part = "servers" => Servers!NoServerTwice /\ Servers!ServersRight
    /\ part = "users" => Users!UsersRight
=============================================================================
