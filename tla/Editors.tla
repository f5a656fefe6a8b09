------------------------------ MODULE Editors -------------------------------
(***************************************************************************)
(* The query editors of a database server that is open: a tab for every    *)
(* editor of every loaded database, one of which is active.                *)
(*                                                                         *)
(* A database is an object that holds its editors and the id of the active *)
(* one; a load and a reload put a new object in its place.  An editor acts *)
(* on the object it was made for (`home').  A reload copies the editors,   *)
(* and the copies keep the object that is replaced as their home.  Objects *)
(* of a database are numbered, the last is the one in place.  The text of  *)
(* an editor and a query of the log that waits for its database to be      *)
(* loaded are left out; runs are in EditorRuns.                            *)
(***************************************************************************)
EXTENDS Naturals, FiniteSets, SequencesExt

CONSTANTS
    Base, NoBase,           \* databases
    MaxTabs, MaxReloads     \* bounds: editors of a database, reloads of one

EditorsAssumption ==
    /\ NoBase \notin Base
    /\ MaxTabs \in Nat /\ MaxReloads \in Nat

VARIABLES
    objects,                \* of each database, <<>> if it is not loaded
    order,                  \* of the loaded databases: first opened, first shown
    activeBase,
    fetches,                \* requests for a database under way
    astray                  \* note of the model: an editor acted on an object that is
                            \* not in place, or a close left the id of no editor

editorVars == <<objects, order, activeBase, fetches, astray>>

Id == 1..(MaxTabs + 1)
Number == 1..(MaxReloads + 1)
Editor == [id : Id, home : Number, isClosed : BOOLEAN]
Object == [editors : Seq(Editor), activeQueryId : 0..(MaxTabs + 1)]
Fetch == [kind : {"load", "reload"}, base : Base]

EditorTypeOK ==
    /\ objects \in [Base -> Seq(Object)]
    /\ order \in Seq(Base) /\ ToSet(order) = {b \in Base : objects[b] # <<>>} /\ IsInjective(order)
    /\ activeBase \in Base \cup {NoBase}
    /\ fetches \subseteq Fetch
    /\ astray \in BOOLEAN

EditorInit ==
    /\ objects = [b \in Base |-> <<>>] /\ order = <<>>
    /\ activeBase = NoBase /\ fetches = {} /\ astray = FALSE

-----------------------------------------------------------------------------
NewEditor(n, home) == [id |-> n, home |-> home, isClosed |-> FALSE]
NewObject == [editors |-> <<NewEditor(1, 1)>>, activeQueryId |-> 1]

Loaded == ToSet(order)
Place(b) == Len(objects[b])
Tabs(b) == Last(objects[b]).editors

\* A tab is the database and the position of its editor; the tabs of all databases stand in a row.
Row == FlattenSeq([n \in DOMAIN order |->
           [j \in DOMAIN Tabs(order[n]) |-> [base |-> order[n], at |-> j]]])
EditorAt(t) == Tabs(t.base)[t.at]

IsActive(t) ==
    LET e == EditorAt(t) IN
    activeBase = t.base /\ ~e.isClosed /\ e.id = objects[t.base][e.home].activeQueryId
ActiveTabs == {t \in ToSet(Row) : IsActive(t)}

\* The editor that is shown below the tabs: the active query of the database in place.
Rendered == {t \in ToSet(Row) : t.base = activeBase /\ EditorAt(t).id = Last(objects[t.base]).activeQueryId}

NextQueryId(object) == 1 + Max({0} \cup {e.id : e \in ToSet(object.editors)})
WithQuery(object, home) ==
    [editors |-> Append(object.editors, NewEditor(NextQueryId(object), home)),
     activeQueryId |-> NextQueryId(object)]
HasRoom(object) == Len(object.editors) < MaxTabs /\ NextQueryId(object) \in Id

-----------------------------------------------------------------------------
(* The user, until an editor has acted on an object that is not in place. *)

\* A database that is not loaded is shown as an empty one meanwhile.
OpenBase(b) ==
    /\ ~astray /\ b \notin Loaded /\ activeBase' = b
    /\ objects' = [objects EXCEPT ![b] = <<NewObject>>]
    /\ order' = Append(order, b)
    /\ fetches' = fetches \cup {[kind |-> "load", base |-> b]}
    /\ UNCHANGED astray

\* From the tree, a database without editors gets one; by the history of the browser it does not.
GoTo(b, fromTree) ==
    /\ ~astray /\ b \in Loaded /\ activeBase' = b
    /\ objects' = IF fromTree /\ Tabs(b) = <<>>
                  THEN [objects EXCEPT ![b][Place(b)] = WithQuery(@, Place(b))] ELSE objects
    /\ UNCHANGED <<order, fetches, astray>>

SetActive(objs, t) ==
    LET e == EditorAt(t) IN [objs EXCEPT ![t.base][e.home].activeQueryId = e.id]
IsOfPlace(t) == EditorAt(t).home = Place(t.base)

\* Among copies the object in place does not learn of another active editor, nor they of its own.
HasCopies(b) == \E j \in DOMAIN Tabs(b) : Tabs(b)[j].home # Place(b)
StraysTo(b, id) == HasCopies(b) /\ id # Last(objects[b]).activeQueryId

ClickTab(t) ==
    /\ ~astray /\ activeBase' = t.base
    /\ objects' = SetActive(objects, t)
    /\ astray' = StraysTo(t.base, EditorAt(t).id)
    /\ UNCHANGED <<order, fetches>>

\* The button adds to the home of the active editor; a query of the log is shown in the object in place.
AddQuery(b, n) ==
    /\ ~astray /\ HasRoom(objects[b][n])
    /\ objects' = [objects EXCEPT ![b][n] = WithQuery(@, n)]
    /\ activeBase' = b
    /\ astray' = StraysTo(b, NextQueryId(objects[b][n]))
    /\ UNCHANGED <<order, fetches>>

NewTab == \E t \in ActiveTabs : AddQuery(t.base, EditorAt(t).home)
ShowInEditor(b) == b \in Loaded /\ AddQuery(b, Place(b))

(* The tab before the one that is closed comes next. A mutant: the one     *)
(* that is closed.                                                         *)
NextTabItself(i) == i
NextTab(i) == IF i > 1 THEN i - 1 ELSE 2

\* The database takes the index before the removed editor as the id of its active one.
RemovedFrom(object, at) ==
    [editors |-> RemoveAt(object.editors, at),
     activeQueryId |-> IF at > 1 THEN at - 2 ELSE object.activeQueryId]

\* A copy is not in the list of its home: it is closed and stays.
Closed(t) ==
    IF IsOfPlace(t) THEN [objects EXCEPT ![t.base][Place(t.base)] = RemovedFrom(@, t.at)]
    ELSE [objects EXCEPT ![t.base][Place(t.base)].editors[t.at].isClosed = TRUE]

\* Only the active tab has the button; with the last tab the server is closed.
CloseTab(i) ==
    LET t == Row[i]
        next == Row[NextTab(i)] IN
    /\ ~astray /\ t \in ActiveTabs
    /\ IF Len(Row) = 1
       THEN /\ objects' = [b \in Base |-> <<>>] /\ order' = <<>>
            /\ activeBase' = NoBase /\ fetches' = {} /\ UNCHANGED astray
       ELSE /\ objects' = SetActive(Closed(t), next)
            /\ activeBase' = next.base
            /\ astray' = \/ HasCopies(t.base) \/ StraysTo(next.base, EditorAt(next).id)
                         \/ next.base # t.base /\ Len(Tabs(t.base)) > 1
            /\ UNCHANGED <<order, fetches>>

\* Bound: one request for a database at a time.
ReloadBase(b) ==
    /\ ~astray /\ b \in Loaded /\ Place(b) <= MaxReloads
    /\ \A f \in fetches : f.base # b
    /\ fetches' = fetches \cup {[kind |-> "reload", base |-> b]}
    /\ UNCHANGED <<objects, order, activeBase, astray>>

-----------------------------------------------------------------------------
(* The answers. *)

\* What was opened or run in the empty database is gone; the database is shown.
BaseLoaded(f) ==
    /\ f.kind = "load"
    /\ objects' = [objects EXCEPT ![f.base] = <<NewObject>>]
    /\ activeBase' = f.base
    /\ fetches' = fetches \ {f}
    /\ UNCHANGED <<order, astray>>

\* The copies are of the object that is replaced.
CopyFrom(object, home) ==
    [object EXCEPT !.editors = [j \in DOMAIN @ |-> NewEditor(@[j].id, home)]]

BaseReloaded(f) ==
    /\ f.kind = "reload"
    /\ objects' = [objects EXCEPT ![f.base] = Append(@, CopyFrom(Last(@), Len(@)))]
    /\ fetches' = fetches \ {f}
    /\ UNCHANGED <<order, activeBase, astray>>

FetchFailed(f) ==
    /\ fetches' = fetches \ {f}
    /\ UNCHANGED <<objects, order, activeBase, astray>>

EditorNext ==
    \/ \E b \in Base : OpenBase(b) \/ ReloadBase(b) \/ ShowInEditor(b)
    \/ \E b \in Base, fromTree \in BOOLEAN : GoTo(b, fromTree)
    \/ \E i \in DOMAIN Row : CloseTab(i)
    \/ \E t \in ToSet(Row) : ClickTab(t)
    \/ NewTab
    \/ \E f \in fetches : BaseLoaded(f) \/ BaseReloaded(f) \/ FetchFailed(f)

-----------------------------------------------------------------------------
(* Of the tabs of a database that has editors, the one that is rendered is *)
(* marked as the active one, and no other, whichever tab was closed, added *)
(* or clicked before: until an editor acts on an object that was replaced, *)
(* or the first tab of a later database is closed while it has others.     *)
ActiveTabIsRendered ==
    ~astray =>
        /\ ActiveTabs = Rendered /\ Cardinality(ActiveTabs) <= 1
        /\ activeBase \in Loaded => (Tabs(activeBase) = <<>> \/ ActiveTabs # {})
=============================================================================
