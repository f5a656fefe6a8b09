# Verification of db-sql

db-sql is a web application to query databases from the browser. A Rails API
(`app/api`, `app/models`) stores users, the connections ("db servers") they own
or share in groups, and a log of queries; it opens the connections and runs the
queries. A React/MobX client (`app/javascript`) keeps its own copy of all this
in stores that are filled by asynchronous requests. The passwords of the
connections are stored encrypted, under keys the server does not keep.

This directory holds TLA+ modules of the parts where the order of events
matters, TLC configurations that check them on small instances, and proofs that
TLAPS checks for every size.

    tlc -config MCGroupKeys.cfg MCGroupKeys      # one run
    tlapm GroupKeysProofs.tla                    # the proofs of one module

## 1. Inventory

| component | state | operations | what must hold | modelled |
|---|---|---|---|---|
| Group keys (`models/group.rb`, `group_member.rb`, `user.rb`, `resources/groups.rb`) | RSA pair of a user; `is_private`, `public_crypto_key` of a group; `crypto_key_encrypted`, `is_outdated`, `is_admin` of a member; `password_encrypted` of a server | sign up, change and reset of a password, membership requests, change of privacy, forced new key, update of outdated members | the members of a private group agree on one key, which opens its servers; `is_outdated` is exact; no group loses its admins | `GroupKeys` |
| Accounts and login tokens (`user.rb`, `login_token.rb`, `login.rb`, `users.rb`, `api.rb`) | password, activation, tokens, own servers | login, logout, sign up, activation, change, reset, deletion, clean-up | what is stored can be decrypted with the key of whoever is logged in, but for three ways that keys go astray; nothing outlives its account | `Accounts` |
| Mailed links (`user.rb`, `users.rb`) | digests of one activation and one reset link per user | mails, activation, reset, change of password | a used link is dead, an old one is void, the last one mailed is the one accepted unless mails overlapped | `MailLinks` |
| Query execution (`db_server.rb`, `resources/db_servers.rb`) | the connection of a request, the results, two counters of the server | `query`, `multi_query`, `raw_query` | results match statements, errors are the statement's own, counters lose and invent nothing | `RawResults`, `QueryRuns` |
| Query log (`sql_query.rb`, `resources/sql_queries.rb`) | rows per user and server, favourites | save with a cap, mark, delete with the server | the cap holds, favourites stay, a row tells what happened | `QueryRuns` |
| Schema queries (`database_schema_query.rb`, `resources/database_schema_queries.rb`) | per database type a default; privacy; references from servers | create, update, delete, make default | one default; who depends on a query can read it | `SchemaQueries` |
| Browser session (`stores/session_store.ts`, `views`) | user, two headers, local storage, states of forms | login, logout, reload, change of password, 401 | the browser never mixes two users or two keys; what is shown as waiting ends | `BrowserSession`, `LoginForm` |
| Workbench (`db_server_store.ts`, `Workbench.tsx`, `Database.ts`, `QueryEditor.ts`) | open servers and databases, the active ones, tabs, editors and their results | open, close, reload, add and close tabs, run | the server of the path is the active one and its active database is held; the tab marked active is the editor shown; results are those of the last run | `Workbench`, `Editors`, `EditorRuns` |
| Lists of the browser (`db_server_store.ts`, `group_store.ts`, `sql_query_store.ts`, `schema_query_store.ts`, `user_store.ts`) | copies of rows, requests under way | load, refresh, create, save, delete, join, leave, star | nothing is listed twice or missed, whatever order answers come in; a list that loads arrives | `ServerList`, `GroupLists`, `SqlQueryLog`, `SchemaBatches`, `UserLists` |
| Form of a server (`TempDbServer.ts`, `TempDbServer.tsx`) | what is typed, the test, databases and tables of the connection | type, test, choose a database, save | what the form shows is about what is typed | `ServerForm`, `ServerList` |
| View state (`view_state_store.ts`, `SqlResult`, `DatabaseSchemaTree`, `Result.ts`) | previews, copy icons, scroll window, folded items, marks | hover, copy, scroll, fold | what is shown for a while goes; rows are in sight; arrows connect what belongs together | `Previews`, `CopyButtons`, `ResultTable`, `ResultText`, `SchemaTree` |
| Database structure (`db_server.rb`) | none | `full_database` | each column once, with all its constraints | `FullDatabase` |
| Concurrent group requests | the rows a request has loaded | the requests of `GroupKeys`, statement by statement | no stale public key is sealed to | no |
| Statement splitting, graphs, layout, mails, seeds | none of their own | conversions and presentation | – | no |

Components talk in three ways. The browser calls the API with two headers,
`Authorization` (a login token) and `Crypto-Key` (derived from the login
password, which the server derives at login and forgets). Requests to the API
run on the threads of puma (`config/puma.rb`) and share nothing but the rows of
PostgreSQL, read committed. In the browser all code runs on one thread, and
what interleaves are the answers of requests, the timers and the delayed
reactions of MobX.

What is hard here: keys that exist only in encrypted copies and have to be
renewed together; requests that load rows, decide in memory and write later;
Rails writing only the columns that differ from what it had loaded; operations
that fail half-way because of a foreign key; a connection that is reused with
unread results; and answers that arrive in another order than they were asked
for. `PROJECT.json` lists each of these with its line ("hazards") and names the
properties that watch it.

## 2. The modules

### GroupKeys: the key of a group

A public group has its key in a column. A private group has it only in the rows
of its members, each sealed to that member's RSA pair, whose private half is
encrypted under a key of the login password. `wrapped[g][u]` is
`crypto_key_encrypted` as the key and the pair it is sealed to; `account[u]` is
the generation of the pair and the password the private half is encrypted
under; `servers[s].key` is the key the stored password is encrypted under. A key
is recovered if and only if pair and password match: a wrong key is a failure,
never another plaintext.

Each API request is one action and does all that its handler does:
`SignUp`/`LegacyLogin` (`create_key_pairs`), `ReplaceKeypair` under change and
reset of a password (`update_key_pairs!`, with the flags it sets),
`CreateGroup`, `AddUser`, `RemoveUser` (which also destroys an emptied group,
and fails at a foreign key), `SetAdminPermission`, the change of privacy and
the forced new key (`recrypt!`, `force_new_crypto_key!`),
`UpdateOutdatedMembers`, and the requests about the servers of a group. Guards
are the policies (`group_policy.rb`) and every exception of the handler.
Identifiers of destroyed rows are recycled, which only makes the sets smaller.

### Accounts: tokens, own servers and their key

A request is a thread (`request[r]`): it authenticates in one step and writes in
a later one, and others run in between. A login inserts a token and hands out
the key of the password it compared; `change_password!` re-encrypts the servers
it finds, destroys the tokens it finds and logs in again; a reset gives the
stored passwords up; a deletion takes the rows along.

A new password may be blank (`Blank` in `NewPassword`): `has_secure_password`
takes no notice of it and no validation refuses it, so that the login stays
while the servers go under a key derived from the empty string
(`SetPassword`, `RecryptServers`). A token row holds what its client sends as
`Crypto-Key`: after a change of the password the browser takes the new token and
keeps the key of before (`header` of a request, `crypto_key` of a token).
`astray` in a row or a request says that it owes its key to a request that a
change of the password overtook, to a session that changed the password itself,
or to a blank new password: a note of the model, which guards nothing and is
inherited by what is written from such a row.

### MailLinks: activation and reset links

Links are numbered as they are made. A row keeps the digest of one link of
each kind; a request remembers the reset digest of the row it loaded (`seen`),
because Rails clears the column only if it was set then. The digest of a new
link is committed in one step (`SignUp`, `ResetActivationDigest`,
`RequestPasswordReset`) and mailed in a later one (`Mail`), or never (`Abort`).
`used`, `fresh`, `sent` and `mixed` are notes of the model; `mixed` has the users
whose last activation link was committed while another was still to be mailed,
or was not delivered.

### RawResults: single-row results

`exec_raw_query` reads libpq's single row mode in a loop that opens a list at
each empty result, appends rows, stops at the limit and pops a trailing list.
`Stream` is what the server sends for a text (external: PostgreSQL and the pg
gem), `PsqlRead` is the loop, and `PairsCommandsWithRows` compares it with the
reference: each command that returned rows, paired with them, cut at the limit.

### QueryRuns: execution and log

All requests run on one server. A request opens a connection (`none`), reuses
it (`open`), may leave unread rows in it (`unread`) or lose it (`lost`). A
statement takes up to three steps, between which other requests count, the
server is deleted or the request stops: it is counted (`CountQuery`), executed
(`MultiQueryStatement`, `QueryStatement`, `RawQueryStatement`), and its error is
counted (`CountError`, not in `query`); `MultiQuerySkip` is a turn of the loop
that sends nothing. Then one row of the log is saved:
`Insert`, `Trim` (the `after_create` that loads the rows beyond the cap) and
`Commit` (which destroys them by id) are the statements of one transaction.
`MarkLoad`/`MarkWrite` are the `PUT` of a favourite, `DeleteServer` and `Crash`
may come at any moment. Asking a connection whether it is alive runs `SELECT 1`
in the version of the pg gem the lock file names, and that discards what was
unread (external); the property `ErrorsAreOwn` depends on it, and its mutant
leaves the question out.

### SchemaQueries: defaults and privacy

One database type; the three do not touch each other. A request loads a query
(with its servers, which is why the owners it knows may be outdated while the
count of references is fresh) and writes it later. `make_default!` is split at
its statements: `ReadDefault`, `Demote`, `Validate`, `Promote`, `Commit`. The
rows it has updated stay locked (`Held`, `Locked`); when there was no default
to demote, the query cache of the request answers the validation with what
`ReadDefault` saw. An update of a row that was deleted meanwhile does nothing.
`overtaken` (another request has written the query this one is about) and
`spoilt` are notes of the model. The form of a server offers what its user can
see, so `UpdateServerLoad` chooses from that; the API does not check the id
again.

### SharedSecret: what GroupKeys promises

The abstract specification of a group's key, without keys: who of a private
group can recover it (`holders`), who waits for it (`waiting`), and which
servers have a password under it (`secrets`). A member comes to hold the key
only while somebody holds it, unless every password is given up at the same
time; a password is stored or made public only where somebody holds the key.
`GroupKeys` maps to it by what *can be recovered* with any header (`Holders`,
`Waiting`, `Secrets`), not by flags; `SharesSecret` is `Secret!Spec`. One
request may be a step of several groups, so that `SharedSecret!Next` lets every
group go a step or rest.

### BrowserSession

The record `browser` has what `SessionStore` keeps: the user, the two headers,
the entry of the local storage, the path and the page to return to. Tokens are
rows of the server. Every call and every `.then`/`.catch` is an action; answers
come in any order and each call may fail with 401, another error or no answer.
The API behind it is as small as the browser can tell (`Serve`). `crossed`
notes that an answer of an earlier session was taken over.

### BrowserTab and BrowserWaits: the parts of a browser tab

The rest of the client is modelled in parts, each a module with its own `Init`,
`Next`, type invariant and properties. The parts share no variable: what a
login or a logout does to a part is an action of that part (`LogLogout`,
`GroupSessionLost` and so on), because each store has its own `cleanup`. So a
property of a part holds in the tab if it holds of the part, and one behaviour
of `BrowserTab` or `BrowserWaits` is of one `part`, chosen at the start, while
the others rest.

| part | code | actions |
|---|---|---|
| `Workbench` | `db_server_store.ts` 120–450, `Workbench.tsx` | navigation, closing, reloading, the four answers; the reactions `dbIndexLoader`, `currentDbLoader` and `tableDisposer` are part of every action, in the order MobX runs them |
| `Editors` | `Database.ts`, `QueryEditor.ts`, the tabs | opening, adding, clicking, closing tabs; the placeholder, the loaded and the reloaded database object |
| `EditorRuns` | `QueryEditor.ts` 139–207 | runs by button and keyboard, their answers, the copy made by a reload |
| `ServerForm` | `TempDbServer.ts` | typing, the debounced test, its answer, lists of databases and tables; an initial database that is not listed has none read and leaves those of the former one |
| `ServerList` | `db_server_store.ts` 450–597 | list, groups, save, remove, with the states the page shows |
| `GroupLists` | `group_store.ts` | the two lists, membership, the group shown |
| `SqlQueryLog` | `sql_query_store.ts`, `SqlQuery.ts` | own and shared queries, stars, runs |
| `SchemaBatches` | `schema_query_store.ts` | batches by offset, refresh, edition; an answer that replaces the object of a query (a save, the default query, a batch with it) leaves the requests for the old object behind (`Replaced`) |
| `UserLists`, `LoginForm` | `user_store.ts`, `session_store.ts` | the list of an administrator; the states of forms, their timers and the delayed reaction |
| `Previews`, `CopyButtons` | `view_state_store.ts`, `SqlQuery.ts`, `Result.ts` | hovering, the one timer, filters; icons and their timers |
| `ResultTable`, `ResultText` | `ResultTable.tsx`, `Result.ts` | scrolling and the window of rows; widths of the cells of copied texts |
| `SchemaTree`, `FullDatabase` | `DatabaseSchemaTree`, `DbColumn.ts`; `db_server.rb` 418–446 | folding, marks, arrows; the structure built row by row |

Many of these stores go wrong when two requests about one thing overlap. Each
part has a note (`strayed`, `astray`, `overlapped`, `crossed`, `overtaken`, `upset`,
`tangled`, `disturbed`, `outlived`, `lost`, `left`) which becomes true exactly
then; properties hold until then, or, where the store recovers, again when the
next list has been read. The note guards nothing but a bound: after it the user
of some parts does no more, so that the state space stays small. Section 5
lists what goes wrong under each note.

## 3. The runs

All instances use model values; symmetry is over sets whose members no
definition distinguishes, and the one run that checks liveness, `browser_waits`,
uses none. Deadlock is checked where the system cannot stop; `query_runs`
disables it because each request of that module serves one call and all of
them may be done, the two browser runs because the bounds on the requests of a
part can bring its user to an end.

| run | instance | shows |
|---|---|---|
| `group_keys` | 3 users, 1 group, 2 servers, 2 keys, 2 key pairs per account | `KeyAgreement`, `OutdatedFlagExact`, `PublicPasswordsReadable`; no step leaves a private group without admin (`AdminsKept`), gives up one password and keeps another (`BlankingIsComplete`) or rekeys servers and misses a member (`RekeyReachesMembers`); every request is a step of `SharedSecret` (`SharesSecret`) |
| `forced_key_public_group` | 2 users, 1 group, 1 server, 2 passwords, 2 keys, 2 key pairs | finding: `GroupKeyOpensServers` fails in a public group |
| `password_change_of_member` | as `forced_key_public_group` | finding: a member of a group cannot change the password |
| `accounts` | 1 user, 2 passwords and a blank one, 2 servers, 2 tokens, 2 requests at a time | `KeysFollowPassword`: keys go astray in the three ways above and no other; `NoOrphans` |
| `accounts_stale_key` | the same, no blank password | finding: a request that a new password overtook stores a password under the old key |
| `mail_links` | 2 users, 4 links, 2 requests at a time | `UsedLinkIsDead`, `PendingLinkIsFresh`; `LastMailActivates`: the link in the last activation mail is the one accepted, unless two were under way together or one was not delivered |
| `query_runs` | 1 user, 3 requests, a cap of 1 with 1 row at the start, 1 fault, PostgreSQL and MySQL | `ResultsMatchStatements`, `ErrorsAreOwn`, `CountersExact`, `LogTellsResults`, `CapExceededOnlyByOverlap`, `FavouriteLossNeedsRace`; `RawResultsRight`: the loop on every text (`AnyText`) of up to 3 commands of 0–3 rows or failing, with limits 1 and 2 |
| `favorites_kept` | the same | finding: a favourite can be trimmed |
| `schema_queries` | 2 users (1 administrator), 3 queries, 1 server, 2 requests at a time | `OneDefault`, `ReadersLostByRace`, the foreign key (in `TypeOK`) |
| `second_default` | the same | finding: two defaults |
| `browser_tab` | 2 users, 2 tokens, 2 requests; each part with 2 of what it lists (servers, databases, connections, catalogs, queries of the log, scopes, entries), but 1 group, and 2 requests, 3 timers, 3 runs | `SessionIsWhole`, `IdentityAgrees`; `WorkbenchAgrees`, `EditorsAgree`, `FormAgrees`, `ListsAgree`, `ShortLivedWatched`, `ResultsReadable`, `TreeAgrees`, each about one or two parts |
| `browser_waits` | 3 schema queries in batches of 1, 2 forms, 1 user, 2 servers, 2 requests each | `NothingSkipped`, `ListsRight`, and under fairness `WaitingEnds` |

Why the bounds are enough for what they ask:

- *group_keys*: a third user gives a group an up-to-date member, an outdated one
  and a newcomer at once; a second server separates "every server" from "the
  server"; a second key and pair give each secret a stale copy. Groups share no
  row but the accounts, and each handler treats them one by one.
- *accounts*: what one user stores depends on no other user; two requests make
  every pair of load and write overlap, and the sequences are not bounded. Two
  passwords are an old and a new one; the key of the empty string differs from
  both.
- *mail_links*: two links of each kind are needed for an old and a new one;
  the second user shows that a link does not move between rows; two requests
  suffice for mails that overtake each other. `MaxLinks` is the only bound.
- *query_runs*: the one batch holds a truncated statement, a blank one and a
  failing one; texts of several commands are the subject of `RawResultsRight`.
  Three requests count on one server, and any of them may stop between counting,
  running and counting an error (1.5 million states). The cap counts per user and server, so
  that one user is enough; three overlapping saves exceed the cap by two. The
  cap of 100 is a constant of the module. `MaxFaults` bounds refused and lost
  connections and crashes together.
- *schema_queries*: the default, the query that is being promoted and a
  competitor are three queries; two requests at a time can follow each other in
  any number, so that a third administrator's request is one of them again. The
  counterexample of `second_default` has three calls on two threads.

- *browser_tab*: two requests of a part are enough for answers to change places
  and for one to be late; a third only repeats what two do, because no handler
  looks at more than the list it finds and its own request. Two databases, tabs,
  or queries tell the one meant from another; the lists of groups are indexed by
  group, and one group comes and goes in both. Of the two connections of the form
  one lists both catalogs and the other only the first, so that a database can be
  typed that is not listed. The table has 30 rows for a
  window of 12, a threshold of 2 and a page of 2 rows; a result of 3 rows fits
  in it, and one of 13 rows ends in the first half of a window that was kept, so
  that both ends of the window and of the table and the cases of `lost` are met.
  Three timers of a copy end in their order. Three rows of a structure let two
  of one column stand apart.
- *browser_waits*: batches of one query make the offset count; two requests as
  above.

Fairness is stated in `BrowserWaits` only. Weakly fair are the answers (of
`{"batch"}`, of the forms, of the lists and saves) and the timers
(`ResendTimeout`, `ReloadTimeout`, `LoginReaction`). The code justifies it so: a
request that was sent is answered or rejected by axios (no `timeout` is
configured in `api/base.ts`, so that this rests on the network stack to give
up on a connection), and `setTimeout` runs. Nothing is assumed of the user:
no form must be submitted, no page visited, nothing be asked again. `WaitingEnds`
names what does *not* end: a second equal message within the five seconds, a
change of the password, a save whose server has gone from the list.
All other specifications are without fairness, since a request may stop
(`Abort`, `Fail`, `Crash`) at every step and their properties are safety.

## 4. What is proved

Each theorem holds for all sets of users, rows, keys and requests; the
assumptions are the ones named in the modules (values such as `NoKey` are not
members of the sets, bounds are numbers, `Request` is finite where rows are
numbered, the window of the table is even and longer than twice its threshold, a
list of an administrator or of servers is about at least one).

| theorem | states | along |
|---|---|---|
| `GroupKeysProofs`: `TypeCorrect`, `KeyAgreementAlways`, `OutdatedFlagAlways`, `PublicPasswordsAlways`, `AdminsKeptAlways`, `BlankingIsCompleteAlways`, `RekeyReachesMembersAlways` | the four invariants and three action properties of `group_keys` | `IInv`: types, that dead groups have no rows, `KeyAgreement`, and that a member is outdated exactly when its row is sealed to an older pair. Agreement alone is not inductive: `update_outdated_members` seals whatever the visitor recovers, which is the group's key only if the flag of the visitor is exact. The action properties go by what a step does to servers: it keeps them, blanks them with the flags (`ForcedKey`) or seals a key to all members (`Rekeyed`). |
| `AccountsProofs`: `TypeCorrect`, `NoOrphansAlways`, `KeysAlways` | the three invariants of `accounts`; of keys, that they go astray in the three ways only | `KInv` adds that a request which is not `astray` carries the key of the password as it is now (`PendingFresh`): every write happens after a check that may be outdated, the change of the password marks all it overtakes and the session that made it, and a blank new password marks the servers and leaves everything else as it was. |
| `MailLinksProofs`: `TypeCorrect`, `UsedLinkIsDeadAlways`, `PendingLinkIsFreshAlways`, `LastMailActivatesAlways` | the four properties of `mail_links` | no two rows hold one link (`LinksPrivate`), a request that accepted a link keeps it from the other rows (`RequestsPrivate`), and only links that were made are used (`UsedWereMade`). A pending link stays fresh because the link that a request saw is in no other row (`SeenPrivate`). For activation links (`MInv`): of a user who is not `mixed`, the link in the row is the one on its way, if any is, and the last one mailed otherwise (`LastIsOnItsWay`). |
| `QueryRunsProofs`: `RowIdsAlways`, `FavouriteLossNeedsRaceAlways`, `CapExceededOnlyByOverlapAlways` | rows of the log have ids of their own, also those about to be committed; trimming chooses a favourite only above the cap; how far overlapping saves exceed the cap | `RowIds`; then a count: if a favourite is among the victims, the rows before it in the order are favourites too, and with it they are more than the cap. For the cap (`CapInv`): a trimming keeps at most the cap, since the rows kept have different ranks below it (`TrimmedToCap`); a transaction that is alone, and the first of those that overlap, leaves what its trimming kept (`Trimmed`), and each further one that ends adds one row at most, so that the bound counts the overlapped requests that are over (`CapHolds`). |
| `QueryRunsProofs`: `LoopKeepsPromise`, `RawResultsRightAlways` | the loop over single-row results pairs each command with its rows, for every text and limit | the loop and the reference are both folds, over the stream and over the commands. Each is unfolded to the recursive function the library's definition chooses, and compared prefix by prefix. A text is cut at the command where reading ends, because it fails or reaches the limit: what lies before is read whole, what lies behind stays unread. |
| `QueryRunsProofs`: `LogTellsResultsAlways`, `ErrorsAreOwnAlways`, `ResultsMatchStatementsAlways` | the row of a request tells its results; an error is the statement's own; results are those of the statements, in order | `TellInv`: each result so far is that of its own statement, its error that statement's own (`Told`), what was skipped came after an error (`SkipsRight`), and what `multi_query` answers is complete, the errors being the places of the failed ones (`Complete`, `Matches`); a row belongs to one request (`OwnRow`). |
| `QueryRunsProofs`: `CountersExactAlways`, `TypeCorrect` | the counters of the server are the sums over all requests, but for a statement too many or an error too few of each request that stopped; types of `query_runs` | `CountInv`: the sum of a function over a finite set changes by what one of its values changes by (the fold unfolded as above), and so does the number of requests in a phase; each step changes one request, and moves a count from the counter to the phase or on to the results (`InStep`, `CountsFollow`). The ids stay in range because each belongs to a request that inserted (`Numbered`). |
| `GroupKeysProofs`: `SharedSecretImplemented` | `GroupKeys` implements `SharedSecret`, the refinement mapping of `group_keys` | the invariant turns what can be recovered into flags (`Mapped`); then each request maps to one step per group: a reset to `Lose`, an update of outdated members to `Refresh`, a change of privacy to `Close`, `Open` or `Rekey`. |
| `BrowserTabProofs`: `SessionTypesAlways`, `SessionWhole`, `IdentityAgreesAlways` | types of the session; user, headers and local storage of a browser exist together or not at all, and are those of one person | `SessionInv`: wholeness is inductive only with what is under way (`Brings`): an answer that logs in brings a token, and only the early return of `reloadUser` keeps a late answer from reviving a session. `IdInv`: until `crossed`, what is shown (`Current`) and what is stored (`Kept`) agree with the tokens the server has issued, and an answer under way brings its own user's token (`Granted`). |
| `BrowserTabProofs`: `ShortLivedWatchedAlways` | previews and icons of copies have a timer | `PreviewWatched` is inductive with the types (`PreviewsInv`). For copies the timers end in their order, so that an icon is that of the last one (`CopyInv`). |
| `BrowserTabProofs`: `FormAgreesAlways` | what the form of a server shows is about what is typed; tables, if the initial database is listed | `FormInv`: at most one request of a kind is under way unless two have `crossed` (`OneOfAKind`), the states tell of what is under way (`StatesFit`), and once the last thing typed was sent to be tested (`Settled`), each request is about it, or there is none and what is shown is (`TestCurrent`, `ListCurrent`, `TablesCurrent`). |
| `BrowserTabProofs`: `ListsAgreeAlways` | nothing is listed twice, stars are those of the server | `GroupsInv`: both lists together hold one object of a group. `LogInv`: the query that is yet to be run is nowhere (`Unstored`), and until requests overlap a load is alone under way with empty lists, a run finds no update of its query, and once loaded every query is shown right (`Calm`). |
| `BrowserTabProofs`: `ResultsReadableAlways` | rows are in sight; bars of a copied text are aligned | `TableInv`: the window begins at the first row or leaves more than half of itself for rows, the position is in sight unless an event is to come, and so is the position a scroll back will go to. That a moved window has the position in sight needs the division of `RowAt` bounded on both sides. A copied text is right for every result (`BarsAligned` of any rows). |
| `BrowserTabProofs`: `TreeAgreesAlways` | each column of a schema query stands once in the answer, with its constraints; arrows and marks of the tree are right | `StructureInv`: the columns have different paths, one for each path that rows name, with the constraints of those rows. A column is found by the names on its path: names and positions are enumerated in order, each once (`Enumerated`, `NamesOnce`), so that a path has one place (`PlacedOnce`). `TreeInv`: the column under the mouse is drawn and marks are a function of it (`MarkFor`); whatever is folded, something is drawn of both ends of a link (`LinkDrawn`), and the first marked column of what is drawn tells its mark. |
| `WorkbenchProofs`: `WorkbenchAgreesAlways` | the server of the path is the active one; its active database is held | `BenchInv`: a server with an active database has a map (`MapsKept`), that database is held (`ActiveHeld`), the name in the path was seen by the reaction that loads it (`NameSeen`), and nothing is left to be sent; each handler is followed through the reactions it sets off. |
| `WorkbenchProofs`: `EditorsAgreeAlways` | the tab marked active is the editor shown; the outcome is that of the last run | `EditorsInv`: in each database object ids are distinct, no tab is closed, the active id is that of a tab (`Sound`), and its editors belong to it, or all of them to the one it replaced, which has the same active id (`Homes`). The row of tabs is `FlattenSeq` of the objects, again unfolded to the function it chooses. `RunsInv` for the outcome. |
| `WorkbenchProofs`: `TabTypesAlways` | the types of all parts of a tab | the invariants of the parts (`PartInv`, `EditorPartInv`) contain them, with three additions. A group that is read again takes the least number that no object of it has (`New`): that there is one is a count, since each request adds at most one object of a group (`GroupsTyped`: the objects of a group and the requests are together at most two more than `MaxGroupRequests`). A window begins within the longest result (`TableBounded`). The objects of the editors stay a function of the databases (`IsTable`). |
| `BrowserWaitsProofs`: `WaitsTypesAlways` | the types of the lists and forms that wait | `WaitsInv`, of the invariants below and `FormInv`: the timers of a form are no more than the forms that were sent. |
| `BrowserWaitsProofs`: `NothingSkippedAlways` | reading by batches skips nothing and brings nothing twice | `BatchesInv`: the first queries of the listing, as many as are loaded, are held or coming in an answer (`FirstHeld`), the others are not (`RestNotHeld`), each as long as nothing was destroyed or created; a batch under way begins behind what is loaded (`InTurn`). |
| `BrowserWaitsProofs`: `ListsRightAlways` | lists of servers and users are those of the database, once all is answered | `UsersInv`: while a request is the only one, the list is behind the server by that request (`Behind`). `ServersInv`: until requests are `tangled` only reads overlap, an answer under way is part of what the server holds (`OneAtATime`), and a server that is being created is not listed (`Apart`). |
| `SchemaQueriesProofs`: `TypeCorrect`, `OneDefaultAlways`, `ReadersLostByRaceAlways` | the foreign key and the types; exactly one default; readers lose a query only by a race | two requests that have both passed the check would have demoted one row, which is locked by the first (`Exclusive`, `ChosenIn`); what is promoted was no default (`FreshIn`) and still exists at the commit (`PromotedIn`). For readers (`ReadInv`): what a request saw of its query before it writes is so still, unless it is marked as overtaken (`Reads`), and a new default was found public (`PublicIn`). |

In `BrowserTabProofs`, `WorkbenchProofs` (which extends it) and `BrowserWaitsProofs` a
step of the tab is shown to be a step of the part it is about or to leave its
variables alone, so that each part is argued on its own.

Nothing here is an induction rule of the library, since those take an operator as a
parameter. Where a proof is by induction (prefixes of a sequence, members of a
finite set), it takes the least counterexample instead: `NatLessThanWellFounded`
with the minimum of a well-founded relation needs sets only.

Only model-checked: `WaitingEnds`, which rests on fairness and stays with TLC. Every
other property of a passing run is stated by a theorem.

The proofs changed the model in one place. For a table whose next result is shorter, the
property `RowsInSight` had held of `ResultTable` only because its bounds were small:
with the code's numbers, a query that is run again and returns a result that ends
in the first half of the kept window, scrolled before the event of the jump to the
top is handled, gives a page without rows. The note `lost` names that case, and the
bounds of the run now reach it.

## 5. What the runs found

- `force_new_crypto_key!` of a public group re-encrypts the servers under a new
  key, but `crypto_key` of a public group still returns `public_crypto_key`: the
  servers of the group cannot be opened (`group.rb:103`).
- `update_key_pairs!` calls `member.secret`, which no class defines: a member of
  a group cannot change the password (`user.rb:285`).
- A login or a `POST /db_servers` that authenticated before a change of the
  password and writes after it leaves a token or a password with the old key
  (`user.rb:102`).
- A row that is marked as a favourite while a save trims the log is destroyed
  (`sql_query.rb:83`).
- `only_one_default_by_db_type` accepts a query that is already the default; if
  it loses the flag while the promotion waits for its row, there are two
  defaults (`database_schema_query.rb:135`).

Seen while modelling, part of the modules, without a run of their own.

On the server: a blank new password is accepted, the login stays and the servers
are stored under the key of the empty string (`user.rb:108`, `134`;
`KeyOfLoginPassword` fails with one request at a time if `NewPassword` has `Blank`);
the digest of an activation link is committed before the link is mailed, so that of
two resends the first to commit can be the last to mail, and the link of the last
mail is refused, unlike `user_api_spec.rb:264` has it of requests that do not
overlap (`users.rb:83`, `84`; users of whom that is so are `mixed`); renaming a private group rekeys it, because an absent parameter
differs from `is_private` (`groups.rb:150`); when the last member is removed and
the log still holds a server, the group stays without members (`group.rb:193`);
two concurrent requests can use one reset link twice (`user.rb:131`); with
`default_sql_limit` 0 every PostgreSQL statement fails (`db_server.rb:268`);
`raw_query` reports `limit_reached` of the first result only, and counts but does
not log a statement whose connection fails (`db_servers.rb:371`); a request that
stops between its counts leaves a statement counted that was not run, or an error
not counted (`db_servers.rb:302`, `324`); with a hundred
favourites a new row of the log is destroyed by its own save (`sql_query.rb:77`); a
private query can become the default when it is hidden between the load and the
promotion (`database_schema_query.rb:169`). The schema query for PostgreSQL gives
the constraints of a column on rows of their own, in no order of theirs, and
`full_database` takes `is_primary` from the first: a column that is both primary
and foreign key may not be shown as primary (`db_server.rb:396`), and unique
constraints count as primary.

In the browser, under the note of the part:

- *session* (`BrowserSession`): after a change of the password the new token is not
  put into the local storage, and the old `Crypto-Key` header stays, so that what
  the session stores next is under the old key and the next change of the password
  fails on it (`session_store.ts:366`; in `Accounts`, `KeyOfLoginPassword` fails so
  with one request at a time and no blank password); a reset leaves the login form waiting (253);
  `reloadUser` merges before it looks whether there is a session (271). *Forms*:
  a second equal failure of a login within five seconds stays (103).
- *workbench* (no note: no property speaks of it): with two databases of one server
  asked for and the second in the path, the answer for the first, coming last,
  makes it the active one, and nothing puts the second back
  (`db_server_store.ts:271`).
- *workbench* (`strayed`, `closedOnce`): a late answer of `loadDatabase` takes the
  active server (`db_server_store.ts:272`) and replaces a placeholder together
  with what was typed into it; the failed list of databases of another server
  clears the active one (252); a server whose database answers before its list
  shows no database (270); a reload that fails keeps loading (305); a login while
  the stores of a lost session are loading loads nothing (174).
- *editors* (`astray`, `overlapped`): copied editors keep the database object that
  was replaced, so that after a reload tabs act on it and two can look active
  (`Database.ts:60`); closing a tab sets the active id to an index (149); cancel
  cancels a token no request has (`QueryEditor.ts:168`), and after runs that
  overlap results stand beside statements of another run; a raw run counts each of
  its results in the browser and one on the server (150); `cleanup` cancels the
  token of the store for good (`sql_query_store.ts:161`).
- *lists* (`overtaken`, `upset`, `tangled`, `disturbed`): two refreshes, or a run answered during
  one, list a query twice (`sql_query_store.ts:117`); a second click on a star is
  not sent (`SqlQuery.ts:95`); a refresh of groups restores the group that was shown
  when it was asked for (`group_store.ts:340`); a saved server that was removed
  leaves its save waiting (`db_server_store.ts:465`), and a late save closes
  whatever form is open (`TempDbServer.tsx:50`); destroying a schema query does not
  count down `loaded`, and late batches survive a logout; a save that is under way
  while a batch, the default query or another save replaces its object adds the
  query a second time (`schema_query_store.ts:208`); two timers of a reload of
  users overlap (`user_store.ts:143`); `remove` looks the group up by
  `connection.id` (`db_server_store.ts:507`).
- *form of a server* (`crossed`): of overlapping tests the last answer wins
  (`TempDbServer.ts:135`), and the stored password overwrites what was typed (95).
  Without any overlap, an initial database that is not listed, as a connection
  string can bring it, leaves the tables of the former one, shown as read (151).
- *view* (`outlived`, `lost`, `left`): a preview in another scope takes the only timer
  (`view_state_store.ts:135`); a log entry compares a method with itself
  (`SqlQueryActions.tsx:62`); `resetScrollState` keeps the row of the window (191);
  a filter or reload under the mouse leaves marks (`ColumnItem.tsx:31`).

Read, but outside the modules: a graph of an empty result reads the keys of a row
that is not there (`LineGraph.tsx:88`), its colours are deleted by position and set
by column (`LineGraphConfig.tsx:81`, `LineGraph.ts:28`); `DbServer` needs the default
schema query to be loaded (`DbServer.ts:98`); `findOrLoad`, `replaceQuery`,
`setDefaultQueryActive` and `loadSchemaQuery` are not called;
`onComponentWillUnmount` of `QueryIndex` is never called either, so that its
listeners stay; the root store registers `dbServer` twice and `statusStore` never
(`root_store.ts:46`).

## 6. Not modelled

- The requests about groups statement by statement. `GroupKeys` takes each as one
  transaction; three hazards are listed that need more (`group.rb:77`,
  `group_policy.rb:43`, and the rows `load_group` keeps, `groups.rb:10`). The
  handlers load and write rows of several users, so that this is a second model
  of all of them.
- Passwords in the browser: `BrowserSession` tells persons apart, not keys; what the
  kept `Crypto-Key` header (`session_store.ts:366`) does is part of `Accounts`.
- Conversions without state: the grammar that splits statements (generated by
  antlr), a connection string that is pasted into the form, entities, colours and
  axes of graphs. The execution-state filter of the log and the members listed in
  a group's page have handlers of one assignment each.
- Layout, routing beyond the paths of the workbench and the session, mails, seeds,
  metadata and configuration.
- Cryptography beyond "the right key opens, any other fails".
- Schema queries of several database types at once, their text and name, and
  the methods `clone` and `force_destroy!`, which no endpoint calls; the privacy
  flag of a row of the log.

## 7. What could come next

`GroupRequests`, the requests of `GroupKeys` in steps with `GroupKeys` as the
abstract specification they implement while no request is overtaken; the state of
a graph across runs of its query.
