----------------------------- MODULE BrowserTab -----------------------------
(***************************************************************************)
(* The parts of one browser tab next to each other: its session and what   *)
(* its pages hold and show.                                                *)
(*                                                                         *)
(* The parts share no variable: what a login, a logout or the end of the   *)
(* session does to a part is a step of that part.  A behaviour of the tab  *)
(* interleaves behaviours of its parts, so that a property of one part     *)
(* holds in the tab if it holds of the part alone.  A behaviour here is of *)
(* one part, `part', and the others rest.                                  *)
(***************************************************************************)
EXTENDS BrowserSession

CONSTANTS
    Server, NoServer, Db, NoDb, Databases, InitDb, MaxBenchRequests,
    Base, NoBase, MaxTabs, MaxReloads,
    MaxRuns,
    Connection, Incomplete, Saved, Catalog, NoCatalog, DatabasesOf, MaxFormRequests,
    Group, NoGroup, MaxGroupRequests,
    LogQuery, Unrun, MaxLogRequests,
    Scope, Entry, NoEntry, NoScope,
    MaxCopyTimers,
    LoadedRows, Threshold, PageRows, Lengths,
    Schemas, PrimaryKey,
    ColumnPath, PrimaryConstraint, ReferenceConstraint, NoConstraint, MaxStructureRows,
    MaxColumns, MaxRows, MaxChars

VARIABLES
    part,
    bench, benchRequests, strayed, closedOnce,
    objects, order, activeBase, fetches, astray,
    requestState, queries, results, runs, started, overlapped,
    typed, initDb, testConnection, testState, validConnection, tested, dbRequestState, databases,
    tableRequestState, tables, tablesLoaded, formRequests, passwordPending, formCrossed,
    groupUser, joinedGroups, publicGroups, activeGroup, loadedOnce, groupRequests, overtaken,
    logUser, stored, sqlQueries, logLoaded, cancelled, logRequests, upset,
    previewQueries, previewSelectedQueries, hoverTimeout, pointer, filter, outlived,
    copyState, copyTimers,
    length, view, scrollTop, event, lost,
    foreign, references, isShown, database, mark, hovered, left,
    structureRows, columns,
    result, displayMode

Bench == INSTANCE Workbench
Tabs == INSTANCE Editors
Runs == INSTANCE EditorRuns
Form == INSTANCE ServerForm WITH crossed <- formCrossed
Groups == INSTANCE GroupLists
Log == INSTANCE SqlQueryLog
Hover == INSTANCE Previews
Copy == INSTANCE CopyButtons WITH button <- IF part = "copied query" THEN "query" ELSE "result"
Rows == INSTANCE ResultTable
Tree == INSTANCE SchemaTree
Structure == INSTANCE FullDatabase
Text == INSTANCE ResultText

ASSUME TabAssumption ==
    /\ Bench!WorkbenchAssumption /\ Tabs!EditorsAssumption /\ Runs!EditorRunsAssumption
    /\ Form!ServerFormAssumption
    /\ Groups!GroupListsAssumption /\ Log!SqlQueryLogAssumption /\ Hover!PreviewsAssumption
    /\ Copy!CopyButtonsAssumption
    /\ Rows!TableAssumption /\ Tree!TreeAssumption /\ Structure!FullDatabaseAssumption
    /\ Text!TextAssumption

Part == {"session", "workbench", "editors", "runs", "server form", "groups", "log", "previews",
         "copied result", "copied query", "table", "tree", "structure", "text"}

benchVars == <<bench, benchRequests, strayed, closedOnce>>
editorVars == <<objects, order, activeBase, fetches, astray>>
runVars == <<requestState, queries, results, runs, started, overlapped>>
serverFormVars == <<typed, initDb, testConnection, testState, validConnection, tested, dbRequestState,
                    databases, tableRequestState, tables, tablesLoaded, formRequests, passwordPending,
                    formCrossed>>
groupVars == <<groupUser, joinedGroups, publicGroups, activeGroup, loadedOnce, groupRequests, overtaken>>
logVars == <<logUser, stored, sqlQueries, logLoaded, cancelled, logRequests, upset>>
previewVars == <<previewQueries, previewSelectedQueries, hoverTimeout, pointer, filter, outlived>>
copyVars == <<copyState, copyTimers>>
tableVars == <<length, view, scrollTop, event, lost>>
treeVars == <<foreign, references, isShown, database, mark, hovered, left>>
structureVars == <<structureRows, columns>>
textVars == <<result, displayMode>>
tabVars == <<part, vars, benchVars, editorVars, runVars, serverFormVars, groupVars, logVars,
             previewVars, copyVars, tableVars, treeVars, structureVars, textVars>>

TabTypeOK ==
    CASE part = "session" -> TypeOK
      [] part = "workbench" -> Bench!BenchTypeOK
      [] part = "editors" -> Tabs!EditorTypeOK
      [] part = "runs" -> Runs!RunTypeOK
      [] part = "server form" -> Form!ServerFormTypeOK
      [] part = "groups" -> Groups!GroupTypeOK
      [] part = "log" -> Log!LogTypeOK
      [] part = "previews" -> Hover!PreviewTypeOK
      [] part \in {"copied result", "copied query"} -> Copy!CopyTypeOK
      [] part = "table" -> Rows!TableTypeOK
      [] part = "tree" -> Tree!TreeTypeOK
      [] part = "structure" -> Structure!StructureTypeOK
      [] part = "text" -> Text!TextTypeOK

TabInit ==
    /\ part \in Part
    /\ Init /\ Bench!BenchInit /\ Tabs!EditorInit /\ Runs!RunInit /\ Form!ServerFormInit
    /\ Groups!GroupInit /\ Log!LogInit /\ Hover!PreviewInit /\ Copy!CopyInit /\ Rows!TableInit
    /\ Tree!TreeInit /\ Structure!StructureInit /\ Text!TextInit
    /\ part # "server form" => initDb = NoCatalog /\ ~passwordPending
    /\ part # "log" => \A q \in LogQuery : stored[q] # "star"

\* The parts other than p rest.
In(ps) ==
    /\ part \in ps /\ UNCHANGED part
    /\ IF "session" \in ps THEN TRUE ELSE UNCHANGED vars
    /\ IF "workbench" \in ps THEN TRUE ELSE UNCHANGED benchVars
    /\ IF "editors" \in ps THEN TRUE ELSE UNCHANGED editorVars
    /\ IF "runs" \in ps THEN TRUE ELSE UNCHANGED runVars
    /\ IF "server form" \in ps THEN TRUE ELSE UNCHANGED serverFormVars
    /\ IF "groups" \in ps THEN TRUE ELSE UNCHANGED groupVars
    /\ IF "log" \in ps THEN TRUE ELSE UNCHANGED logVars
    /\ IF "previews" \in ps THEN TRUE ELSE UNCHANGED previewVars
    /\ IF "copied result" \in ps THEN TRUE ELSE UNCHANGED copyVars
    /\ IF "table" \in ps THEN TRUE ELSE UNCHANGED tableVars
    /\ IF "tree" \in ps THEN TRUE ELSE UNCHANGED treeVars
    /\ IF "structure" \in ps THEN TRUE ELSE UNCHANGED structureVars
    /\ IF "text" \in ps THEN TRUE ELSE UNCHANGED textVars

TabNext ==
    \/ In({"session"}) /\ Next
    \/ In({"workbench"}) /\ Bench!BenchNext
    \/ In({"editors"}) /\ Tabs!EditorNext
    \/ In({"runs"}) /\ Runs!RunNext
    \/ In({"server form"}) /\ Form!ServerFormNext
    \/ In({"groups"}) /\ Groups!GroupNext
    \/ In({"log"}) /\ Log!LogNext
    \/ In({"previews"}) /\ Hover!PreviewNext
    \/ In({"copied result", "copied query"}) /\ Copy!CopyNext
    \/ In({"table"}) /\ Rows!TableNext
    \/ In({"tree"}) /\ Tree!TreeNext
    \/ In({"structure"}) /\ Structure!StructureNext
    \/ In({"text"}) /\ Text!TextNext

TabSpec == TabInit /\ [][TabNext]_tabVars

-----------------------------------------------------------------------------
(* The workbench shows the server of its path, until an answer for another *)
(* server comes in between, or a list of databases fails; and the active   *)
(* database of the server it shows is held, while that server stays open.  *)
(* Which of its databases is active is not said: the last answer decides,  *)
(* not the path.                                                           *)
WorkbenchAgrees == part = "workbench" => Bench!RouteIsActive /\ Bench!ActiveIsHeld

(* The one tab that is marked as active is the editor that is shown,       *)
(* through any sequence of opening, closing and loading databases, until a *)
(* reload has left the tabs with the database object it replaced; and what *)
(* an editor shows as the outcome is that of its last run, unless runs     *)
(* overlapped.                                                             *)
EditorsAgree ==
    /\ part = "editors" => Tabs!ActiveTabIsRendered
    /\ part = "runs" => Runs!RunIsShown

(* The result of the connection test, the databases and the tables that    *)
(* the form of a server shows are about what is typed there, unless        *)
(* answers of overlapping requests came in the other order; of the tables  *)
(* this is said while the initial database is one that is listed, or a     *)
(* table goes with the server.                                             *)
FormAgrees == part = "server form" => Form!FormIsCurrent

(* No group and no query of the log is listed twice, and a star of the log *)
(* is the star of the server, whatever order answers come in, unless       *)
(* requests about the same thing overlapped.                               *)
ListsAgree ==
    /\ part = "groups" => Groups!NoGroupTwice
    /\ part = "log" => Log!NoSqlQueryTwice /\ Log!LogIsRight

(* Nothing that is shown only for a while stays for ever: a preview that   *)
(* the pointer has left, and the icon of a copy, have a timer that will    *)
(* end them; and the filter of the log never names a database without its  *)
(* server.                                                                 *)
ShortLivedWatched ==
    /\ part = "previews" => Hover!PreviewWatched /\ Hover!FilterIsWhole
    /\ part \in {"copied result", "copied query"} => Copy!CopyWatched

(* Scrolling always comes to rest where rows are rendered, and the bars of *)
(* a copied result stand below each other.                                 *)
ResultsReadable ==
    /\ part = "table" => Rows!RowsInSight
    /\ part = "text" => Text!BarsAligned

(* Every column that the schema query returns stands once in the tree,     *)
(* with all its constraints; arrows connect a foreign key with the column  *)
(* it refers to, whatever is folded, and no mark survives the mouse.       *)
TreeAgrees ==
    /\ part = "tree" => Tree!LinksRight
    /\ part = "structure" => Structure!StructureComplete
=============================================================================
