--------------------------- MODULE SchemaBatches ----------------------------
(***************************************************************************)
(* The schema query store of the browser: the queries of one type of       *)
(* database, read in batches by their offset in the server's listing       *)
(* (default first, then the user's own from the newest, then others').     *)
(*                                                                         *)
(* No request carries a cancel token.  An answer that arrives after the    *)
(* store was renewed (refresh, logout) is added to the new state: `here'   *)
(* tells whether the state, or the query object, that a request was sent   *)
(* for is still the store's.  Two such requests that agree in everything   *)
(* are one.  Changes by other authors, the type of database and the query  *)
(* that are selected, the counts shown beside the batches and what a form  *)
(* shows while it waits are left out.                                      *)
(***************************************************************************)
EXTENDS Naturals, Sequences, FiniteSets, SequencesExt

CONSTANTS
    Query, Default, Unborn, \* schema queries, the default one and one yet to be created
    BatchSize,
    MaxSchemaRequests       \* bound: requests under way

SchemaBatchesAssumption ==
    /\ Default \in Query /\ Unborn \in Query \ {Default}
    /\ BatchSize \in Nat \ {0} /\ MaxSchemaRequests \in Nat /\ IsFiniteSet(Query)

VARIABLES
    schemaUser,         \* logged in
    listing,            \* the server's listing for the user
    schemaQueries,      \* objects of the store for each query
    drafts,             \* a query that is not stored yet
    loadedSchemaQueries,
    schemaRequests,
    disturbed           \* note of the model: what has upset the offsets of the batches

schemaVars == <<schemaUser, listing, schemaQueries, drafts, loadedSchemaQueries, schemaRequests, disturbed>>

REST == {"none", "requested", "success", "error"}

\* "created" and "destroyed" are served, and not answered yet.
Kind == {"batch", "default", "save", "create", "created", "destroy", "destroyed"}
Request == [kind : Kind, offset : Nat, query : Query, here : BOOLEAN]
Cause == {"late", "created", "destroyed"}

\* Bound: copies of a query in the store.
MaxCopies == 2

NewState == [loaded |-> 0, state |-> "none"]

SchemaTypeOK ==
    /\ schemaUser \in BOOLEAN
    /\ IsInjective(listing) /\ ToSet(listing) \subseteq Query
    /\ schemaQueries \in [Query -> 0..MaxCopies]
    /\ drafts \in BOOLEAN
    /\ loadedSchemaQueries \in [loaded : Nat, state : REST]
    /\ schemaRequests \subseteq Request
    /\ disturbed \subseteq Cause

Sent(kind, offset, q) == [kind |-> kind, offset |-> offset, query |-> q, here |-> TRUE]

\* The default queries are read when the page is loaded, before any login.
SchemaInit ==
    /\ schemaUser = FALSE
    /\ listing = <<Default>> \o SetToSeq(Query \ {Default, Unborn})
    /\ schemaQueries = [q \in Query |-> 0]
    /\ drafts = FALSE
    /\ loadedSchemaQueries = NewState
    /\ schemaRequests = {Sent("default", 0, Default)}
    /\ disturbed = {}

-----------------------------------------------------------------------------
Batch(offset) == SubSeq(listing, offset + 1, Min({offset + BatchSize, Len(listing)}))
AtMost(n) == IF n > MaxCopies THEN MaxCopies ELSE n
Add(q) == [schemaQueries EXCEPT ![q] = AtMost(@ + 1)]
Dropped(q) == [schemaQueries EXCEPT ![q] = IF @ = 0 THEN 0 ELSE @ - 1]

\* A mutant: the default query is added like the others.
WithBatchBesides(data) ==
    [q \in Query |-> AtMost(schemaQueries[q] + (IF q \in ToSet(data) THEN 1 ELSE 0))]

\* A default query replaces the one found, the others are added unseen.
WithBatch(data) ==
    [q \in Query |-> IF q \notin ToSet(data) THEN schemaQueries[q]
                     ELSE IF q = Default /\ schemaQueries[q] > 0 THEN schemaQueries[q]
                     ELSE AtMost(schemaQueries[q] + 1)]

Keeping(state) == loadedSchemaQueries' = [loadedSchemaQueries EXCEPT !.state = state]
Late(requests) == {[r EXCEPT !.here = FALSE] : r \in requests}

\* The object of q is a new one: what was sent for the old one finds it no more.
Replaced(requests, q) ==
    {IF r.kind \in {"save", "destroy", "destroyed"} /\ r.query = q THEN [r EXCEPT !.here = FALSE] ELSE r
        : r \in requests}
Disturbs(cause, happens) == disturbed' = disturbed \cup (IF happens THEN {cause} ELSE {})

\* Bound: the user goes on only while few requests are under way, and little is disturbed.
Bound ==
    /\ Cardinality(schemaRequests') <= MaxSchemaRequests
    /\ Cardinality(disturbed) <= 1 /\ \A q \in Query : schemaQueries[q] <= 1
MayAsk == schemaUser /\ Bound

MayLoad(loaded) == loaded.state # "requested"

(* The next batch, unless one is under way: the offset is the number of    *)
(* queries loaded so far.                                                  *)
NextBatch(loaded, requests) ==
    /\ loadedSchemaQueries' = [loaded EXCEPT !.state = "requested"]
    /\ schemaRequests' = IF MayLoad(loaded)
                         THEN requests \cup {Sent("batch", loaded.loaded, Default)} ELSE requests

LoadNextBatch ==
    /\ MayLoad(loadedSchemaQueries)
    /\ NextBatch(loadedSchemaQueries, schemaRequests) /\ MayAsk
    /\ UNCHANGED <<schemaUser, listing, schemaQueries, drafts, disturbed>>

Renewed ==
    /\ schemaQueries' = [q \in Query |-> 0]
    /\ drafts' = FALSE

SchemaRefresh ==
    /\ Renewed
    /\ NextBatch(NewState, Late(schemaRequests) \cup {Sent("default", 0, Default)})
    /\ MayAsk
    /\ UNCHANGED <<schemaUser, listing, disturbed>>

\* At a login the store may hold what a session that was lost has left.
SchemaLogin ==
    /\ ~schemaUser /\ schemaUser' = TRUE
    /\ NextBatch(loadedSchemaQueries, schemaRequests)
    /\ Bound
    /\ UNCHANGED <<listing, schemaQueries, drafts, disturbed>>

SchemaLogout ==
    /\ schemaUser /\ schemaUser' = FALSE
    /\ Renewed
    /\ loadedSchemaQueries' = NewState
    /\ schemaRequests' = Late(schemaRequests)
    /\ UNCHANGED <<listing, disturbed>>

SchemaSessionLost ==
    /\ schemaUser /\ schemaUser' = FALSE
    /\ UNCHANGED <<listing, schemaQueries, drafts, loadedSchemaQueries, schemaRequests, disturbed>>

\* A draft is added; discarding it needs no request.
AddEmptySchemaQuery ==
    /\ drafts' = ~drafts
    /\ UNCHANGED <<schemaUser, listing, schemaQueries, loadedSchemaQueries, schemaRequests,
                  disturbed>>
    /\ MayAsk

\* Default queries are neither created nor destroyed here.
Edit(kind, q) ==
    /\ \/ kind = "save" /\ schemaQueries[q] > 0
       \/ kind = "destroy" /\ schemaQueries[q] > 0 /\ q # Default
       \/ kind = "create" /\ drafts /\ q \notin ToSet(listing) /\ q # Default
    /\ schemaRequests' = schemaRequests \cup {Sent(kind, 0, q)} /\ MayAsk
    /\ UNCHANGED <<schemaUser, listing, schemaQueries, drafts, loadedSchemaQueries, disturbed>>

\* The server: a new query is the newest of its author, who has none before it.
Serve(r) ==
    /\ \/ /\ r.kind = "create" /\ r.query \notin ToSet(listing)
          /\ listing' = InsertAt(listing, 2, r.query)
          /\ Disturbs("created", TRUE)
       \/ /\ r.kind = "destroy"
          /\ \E i \in DOMAIN listing : listing[i] = r.query /\ listing' = RemoveAt(listing, i)
          /\ Disturbs("destroyed", TRUE)
    /\ schemaRequests' = (schemaRequests \ {r}) \cup
           {[r EXCEPT !.kind = IF @ = "create" THEN "created" ELSE "destroyed"]}
    /\ UNCHANGED <<schemaQueries, drafts, loadedSchemaQueries>>

BatchAnswered(r) ==
    /\ r.kind = "batch"
    /\ \/ /\ schemaQueries' = WithBatch(Batch(r.offset))
          /\ loadedSchemaQueries' = [loadedSchemaQueries EXCEPT
                 !.loaded = @ + Len(Batch(r.offset)), !.state = "success"]
          /\ schemaRequests' = IF Default \in ToSet(Batch(r.offset))
                               THEN Replaced(schemaRequests \ {r}, Default) ELSE schemaRequests \ {r}
       \/ Keeping("error") /\ schemaRequests' = schemaRequests \ {r} /\ UNCHANGED schemaQueries
    /\ Disturbs("late", ~r.here)
    /\ UNCHANGED <<listing, drafts>>

DefaultAnswered(r) ==
    /\ r.kind = "default"
    /\ schemaQueries' = [schemaQueries EXCEPT ![Default] = IF @ = 0 THEN 1 ELSE @]
    /\ schemaRequests' = Replaced(schemaRequests \ {r}, Default)
    /\ UNCHANGED <<listing, drafts, loadedSchemaQueries, disturbed>>

\* The object that was saved is replaced if it is still there; if not, one more is added.
SaveAnswered(r) ==
    LET found == r.kind = "save" /\ r.here /\ schemaQueries[r.query] > 0 IN
    /\ r.kind \in {"save", "created"}
    /\ schemaQueries' = IF found THEN schemaQueries ELSE Add(r.query)
    /\ schemaRequests' = IF found THEN Replaced(schemaRequests \ {r}, r.query) ELSE schemaRequests \ {r}
    /\ drafts' = (drafts /\ ~(r.kind = "created" /\ r.here))
    /\ Disturbs("late", r.kind = "save" /\ ~found)
    /\ UNCHANGED <<listing, loadedSchemaQueries>>

DestroyAnswered(r) ==
    /\ r.kind = "destroyed"
    /\ schemaQueries' = IF r.here THEN Dropped(r.query) ELSE schemaQueries
    /\ schemaRequests' = schemaRequests \ {r}
    /\ UNCHANGED <<listing, drafts, loadedSchemaQueries, disturbed>>

SchemaRefused(r) ==
    /\ r.kind \in {"default", "save", "create", "destroy"}
    /\ schemaRequests' = schemaRequests \ {r}
    /\ UNCHANGED <<listing, schemaQueries, drafts, loadedSchemaQueries, disturbed>>

SchemaAnswered(kinds) ==
    /\ \E r \in schemaRequests :
           /\ r.kind \in kinds
           /\ \/ Serve(r) \/ BatchAnswered(r) \/ DefaultAnswered(r)
              \/ SaveAnswered(r) \/ DestroyAnswered(r) \/ SchemaRefused(r)
    /\ UNCHANGED schemaUser

SchemaNext ==
    \/ LoadNextBatch
    \/ SchemaRefresh
    \/ SchemaLogin
    \/ SchemaLogout
    \/ SchemaSessionLost
    \/ AddEmptySchemaQuery
    \/ \E kind \in {"save", "create", "destroy"}, q \in Query : Edit(kind, q)
    \/ SchemaAnswered(Kind)

-----------------------------------------------------------------------------
(* What counts as loaded is in the store: with n queries loaded, the next  *)
(* batch starts behind the first n of the server's listing, and each of    *)
(* these is held, or about to be added.  A destroyed query moves the       *)
(* listing up, and a batch that is late counts into a state that did not   *)
(* ask.                                                                    *)
NothingSkipped ==
    disturbed \subseteq {"created"} =>
        \A i \in 1..Len(listing) : i <= loadedSchemaQueries.loaded =>
            \/ schemaQueries[listing[i]] > 0
            \/ \E r \in schemaRequests : r.kind = "created" /\ r.query = listing[i]

(* No query is held twice, though the default one comes with its own       *)
(* request and with the batch.  A created query moves the listing down,    *)
(* and a save that is late (the query it was sent for has been replaced    *)
(* meanwhile, by another save or as the default query of a batch) adds the *)
(* query once more, as a late batch does.                                  *)
NoQueryTwice ==
    disturbed \subseteq {"destroyed"} => \A q \in Query : schemaQueries[q] <= 1

(* A batch that was asked for is answered or fails, and the spinning card  *)
(* of the page stops.                                                      *)
BatchEnds == loadedSchemaQueries.state = "requested" ~> loadedSchemaQueries.state # "requested"
=============================================================================
