------------------------------ MODULE Previews ------------------------------
(***************************************************************************)
(* The view state of the browser: which query of a database's history is   *)
(* shown beside its editor (hovered with the control key, or selected by a *)
(* click), and the filter of the query log.                                *)
(*                                                                         *)
(* A preview outlives the pointer by 800 ms.  One timer serves every scope *)
(* (server and database), and a preview of another scope clears it.        *)
(***************************************************************************)
CONSTANTS
    Scope,
    Entry,              \* the queries of each scope
    NoEntry, NoScope

PreviewsAssumption == NoScope \notin Scope /\ NoEntry \notin Entry

VARIABLES
    previewQueries, previewSelectedQueries,
    hoverTimeout,       \* the scope whose preview the timer will end
    pointer,            \* where the pointer is: on a label or a preview of a query
    filter,             \* of the query log: a server and a database of it
    outlived            \* note of the model: scopes that have lost the timer to another one

previewVars == <<previewQueries, previewSelectedQueries, hoverTimeout, pointer, filter,
                 outlived>>

Away == [on |-> "page", scope |-> NoScope, entry |-> NoEntry]

\* The scopes of the pages serve as the databases of the filter, each the only one of its server.
PreviewTypeOK ==
    /\ \A s \in Scope : previewQueries[s] \in Entry \cup {NoEntry}
    /\ \A s \in Scope : previewSelectedQueries[s] \in Entry \cup {NoEntry}
    /\ hoverTimeout \in Scope \cup {NoScope}
    /\ pointer = Away \/ (pointer.on \in {"label", "preview"} /\ pointer.entry \in Entry)
    /\ filter \in [server : Scope \cup {NoScope}, name : Scope \cup {NoScope}]
    /\ outlived \subseteq Scope

NoPreviews == [s \in Scope |-> NoEntry]
NoFilter == [server |-> NoScope, name |-> NoScope]

PreviewInit ==
    /\ previewQueries = NoPreviews /\ previewSelectedQueries = NoPreviews
    /\ hoverTimeout = NoScope /\ pointer = Away /\ filter = NoFilter
    /\ outlived = {}

-----------------------------------------------------------------------------
(* Previews. *)

At(on, s, e) == [on |-> on, scope |-> s, entry |-> e]

\* The query whose preview is rendered in a scope.
ActiveQuery(s) == IF previewQueries[s] # NoEntry THEN previewQueries[s] ELSE previewSelectedQueries[s]

\* The timer is cleared, or set anew: the preview of another scope it was for stays.
TimerFor(s, timer) ==
    /\ hoverTimeout' = timer
    /\ outlived' = (outlived \cup {hoverTimeout}) \ {s, NoScope}

SetPreviewQuery(s, e) ==
    /\ previewQueries' = [previewQueries EXCEPT ![s] = e]
    /\ TimerFor(s, NoScope)

\* Only with the control key does a label show its query.
HoverLabel(s, e) ==
    /\ pointer \in {Away, At("label", s, e)} /\ pointer' = At("label", s, e)
    /\ \/ SetPreviewQuery(s, e)
       \/ UNCHANGED <<previewQueries, hoverTimeout, outlived>>
    /\ UNCHANGED <<previewSelectedQueries, filter>>

HoverPreview(s) ==
    /\ pointer = Away /\ ActiveQuery(s) # NoEntry
    /\ pointer' = At("preview", s, ActiveQuery(s))
    /\ IF previewQueries[s] = ActiveQuery(s)
       THEN TimerFor(s, NoScope)
       ELSE UNCHANGED <<hoverTimeout, outlived>>
    /\ UNCHANGED <<previewQueries, previewSelectedQueries, filter>>

\* A mutant: leaving a label ends the preview only if no query is selected.
UnsetUnlessSelected(s, e) == previewQueries[s] = e /\ previewSelectedQueries[s] = NoEntry
Unset(s, e) == previewQueries[s] = e

Leave ==
    LET s == pointer.scope IN
    /\ pointer # Away /\ pointer' = Away
    /\ IF Unset(s, pointer.entry)
       THEN TimerFor(s, s)
       ELSE UNCHANGED <<hoverTimeout, outlived>>
    /\ UNCHANGED <<previewQueries, previewSelectedQueries, filter>>

ToggleSelectedQuery ==
    /\ pointer.on = "label"
    /\ previewSelectedQueries' = [previewSelectedQueries EXCEPT ![pointer.scope] =
           IF @ = pointer.entry THEN NoEntry ELSE pointer.entry]
    /\ UNCHANGED <<previewQueries, hoverTimeout, pointer, filter, outlived>>

\* A preview that goes away under the pointer is never left.
HoverTimeout ==
    /\ hoverTimeout # NoScope /\ hoverTimeout' = NoScope
    /\ previewQueries' = [previewQueries EXCEPT ![hoverTimeout] = NoEntry]
    /\ pointer' = IF pointer.on = "preview" /\ pointer.scope = hoverTimeout
                     /\ previewSelectedQueries[hoverTimeout] # pointer.entry THEN Away ELSE pointer
    /\ UNCHANGED <<previewSelectedQueries, filter, outlived>>

(* The filter of the query log. *)

SetDbServerId(s) ==
    /\ filter' = IF s = filter.server THEN filter ELSE [server |-> s, name |-> NoScope]
    /\ UNCHANGED <<previewQueries, previewSelectedQueries, hoverTimeout, pointer, outlived>>

\* The databases of the server that is chosen are offered.
SetDbName(s) ==
    /\ filter.server # NoScope /\ s \in {filter.server, NoScope}
    /\ filter' = [filter EXCEPT !.name = s]
    /\ UNCHANGED <<previewQueries, previewSelectedQueries, hoverTimeout, pointer, outlived>>

PreviewCleanup ==
    /\ previewQueries' = NoPreviews /\ previewSelectedQueries' = NoPreviews
    /\ hoverTimeout' = NoScope /\ pointer' = Away /\ filter' = NoFilter
    /\ outlived' = {}

PreviewNext ==
    \/ \E s \in Scope, e \in Entry : HoverLabel(s, e)
    \/ \E s \in Scope : HoverPreview(s)
    \/ Leave
    \/ ToggleSelectedQuery
    \/ HoverTimeout
    \/ \E s \in Scope \cup {NoScope} : SetDbServerId(s) \/ SetDbName(s)
    \/ PreviewCleanup

-----------------------------------------------------------------------------
(* A preview is under the pointer, or the timer will end it, unless the    *)
(* timer has been taken by the preview of another scope.                   *)
PreviewWatched ==
    \A s \in Scope : previewQueries[s] # NoEntry =>
        \/ hoverTimeout = s \/ s \in outlived
        \/ pointer.scope = s /\ pointer.entry = previewQueries[s]

\* The log is never filtered by a database of another server.
FilterIsWhole == filter.name # NoScope => filter.server = filter.name
=============================================================================
