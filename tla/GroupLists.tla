----------------------------- MODULE GroupLists -----------------------------
(***************************************************************************)
(* The group store of the browser: the groups the user has joined and the  *)
(* public ones, filled by requests whose answers arrive in any order.      *)
(*                                                                         *)
(* A group of the store is an object, made anew from every answer; a       *)
(* request keeps the object it was sent for, which the lists may have      *)
(* replaced when the answer arrives.  Objects of a group are told apart by *)
(* a number.  Only the two loads carry the cancel token.  Two requests     *)
(* under way that agree in everything are one.                             *)
(*                                                                         *)
(* Other users join, open, close and delete groups at any time, so that an *)
(* answer may list any of them as joined or as public.  Names, members and *)
(* servers of a group, filters, the folding of the dashboard and the order *)
(* of the lists are left out.                                              *)
(***************************************************************************)
EXTENDS Naturals, FiniteSets

CONSTANTS
    Group, NoGroup,
    MaxGroupRequests    \* bound: requests under way

GroupListsAssumption == NoGroup \notin Group /\ MaxGroupRequests \in Nat

VARIABLES
    groupUser,      \* logged in
    joinedGroups, publicGroups, activeGroup,
    loadedOnce,     \* loads of this login that have succeeded
    groupRequests,
    overtaken       \* note of the model: an answer found its object replaced, or its group listed

groupVars == <<groupUser, joinedGroups, publicGroups, activeGroup, loadedOnce,
               groupRequests, overtaken>>

Object == [group : Group, number : 1..(2 * MaxGroupRequests + 2)]
NoObject == [group |-> NoGroup, number |-> 0]
Load == {"groups", "public"}
Kind == Load \cup {"create", "save", "destroy", "join", "leave", "reload", "rekey"}
\* A refresh keeps the group that is shown when it is asked for.
Shown == [group : Group \cup {NoGroup}, number : {0}]
Request == [kind : Kind, object : Object \cup Shown, refresh : BOOLEAN]

GroupTypeOK ==
    /\ groupUser \in BOOLEAN
    /\ joinedGroups \subseteq Object /\ publicGroups \subseteq Object
    /\ activeGroup \in [Load -> Group \cup {NoGroup}]
    /\ loadedOnce \subseteq Load
    /\ groupRequests \subseteq Request
    /\ overtaken \in BOOLEAN

GroupInit ==
    /\ groupUser = FALSE
    /\ joinedGroups = {} /\ publicGroups = {}
    /\ activeGroup = [list \in Load |-> NoGroup]
    /\ loadedOnce = {}
    /\ groupRequests = {}
    /\ overtaken = FALSE

-----------------------------------------------------------------------------
Objects == joinedGroups \cup publicGroups
Found(g) == {o \in Objects : o.group = g}
Held(g) == Found(g) \cup {o \in {r.object : r \in groupRequests} : o.group = g}

\* A new object for the group.
New(g) == [group |-> g, number |->
               CHOOSE n \in 1..(Cardinality(Held(g)) + 1) :
                   /\ [group |-> g, number |-> n] \notin Held(g)
                   /\ \A m \in 1..(n - 1) : [group |-> g, number |-> m] \in Held(g)]

\* `find' returns one object of each group, if there is one.
Finds(groups) ==
    {old \in SUBSET {o \in Objects : o.group \in groups} :
        \A g \in groups : Cardinality(old \cap Found(g)) = IF Found(g) = {} THEN 0 ELSE 1}

Initialized == loadedOnce = Load
Sent(kind, o, refresh) ==
    [kind |-> kind, object |-> o, refresh |-> refresh]
\* Bound: the user goes on only until an object was overtaken.
MayAsk == groupUser /\ ~overtaken /\ Cardinality(groupRequests) < MaxGroupRequests
Ask(kind, o, refresh) ==
    /\ MayAsk
    /\ groupRequests' = groupRequests \cup {Sent(kind, o, refresh)}

-----------------------------------------------------------------------------
(* The user. *)

\* Bound: answers of few requests of an earlier login are still to come.
GroupLogin ==
    /\ ~overtaken /\ Cardinality(groupRequests) < MaxGroupRequests
    /\ ~groupUser /\ groupUser' = TRUE
    /\ groupRequests' = groupRequests \cup {Sent(kind, NoObject, FALSE) : kind \in Load}
    /\ UNCHANGED <<joinedGroups, publicGroups, activeGroup, loadedOnce, overtaken>>

\* The store is emptied and the loads are withdrawn; other answers are still to come.
GroupLogout ==
    /\ ~overtaken /\ groupUser /\ groupUser' = FALSE
    /\ joinedGroups' = {} /\ publicGroups' = {}
    /\ activeGroup' = [list \in Load |-> NoGroup]
    /\ loadedOnce' = {}
    /\ groupRequests' = {r \in groupRequests : r.kind \notin Load}
    /\ UNCHANGED overtaken

\* A token that has expired, or a deleted account, leaves the store as it is.
GroupSessionLost ==
    /\ ~overtaken /\ groupUser /\ groupUser' = FALSE
    /\ loadedOnce' = {}
    /\ UNCHANGED <<joinedGroups, publicGroups, activeGroup, groupRequests, overtaken>>

SetActiveGroup(list, o) ==
    /\ ~overtaken /\ o \in Objects
    /\ activeGroup' = [activeGroup EXCEPT ![list] = o.group]
    /\ UNCHANGED <<groupUser, joinedGroups, publicGroups, loadedOnce, groupRequests,
                   overtaken>>

\* The id of a group to be created is one the store does not know.
AskForGroups ==
    /\ \/ \E kind \in Load : Ask(kind, [group |-> activeGroup[kind], number |-> 0], TRUE)
       \/ \E g \in Group : Found(g) = {} /\ Ask("create", New(g), FALSE)
       \/ \E o \in joinedGroups, kind \in {"save", "destroy", "leave", "rekey"} : Ask(kind, o, FALSE)
       \/ \E o \in publicGroups : Ask("join", o, FALSE)
    /\ UNCHANGED <<groupUser, joinedGroups, publicGroups, activeGroup, loadedOnce, overtaken>>

-----------------------------------------------------------------------------
(* The answers. *)

\* The groups of an answer replace the objects found of them.
Replace(joined, public, old) ==
    /\ joinedGroups' = (joinedGroups \ old) \cup {New(g) : g \in joined}
    /\ publicGroups' = (publicGroups \ old) \cup {New(g) : g \in public}

Show(list, g) == activeGroup' = [activeGroup EXCEPT ![list] = g]

(* The groups that the server no longer lists stay.  At a login the first  *)
(* joined group is shown, after a refresh the one that was when it was     *)
(* asked for.                                                              *)
ListAnswered(r, listed) ==
    /\ r.kind \in Load
    /\ \E old \in Finds(listed) :
           IF r.kind = "groups" THEN Replace(listed, {}, old) ELSE Replace({}, listed, old)
    /\ IF r.refresh THEN Show(r.kind, r.object.group)
       ELSE IF r.kind = "public" \/ joinedGroups' = {} THEN UNCHANGED activeGroup
       ELSE \E o \in joinedGroups' : Show("groups", o.group)
    /\ loadedOnce' = IF r.refresh THEN loadedOnce ELSE loadedOnce \cup {r.kind}
    /\ groupRequests' = groupRequests \ {r}
    /\ UNCHANGED overtaken

\* The object of the request is removed and a new one added, without a look at the list.
GroupAnswered(r) ==
    LET added == New(r.object.group) IN
    /\ r.kind \in {"create", "save"}
    /\ joinedGroups' = (joinedGroups \ {r.object}) \cup {added}
    /\ Show("groups", added.group)
    /\ overtaken' = (overtaken \/ \E o \in Found(added.group) : o \notin {r.object} \cap joinedGroups)
    /\ groupRequests' = groupRequests \ {r}
    /\ UNCHANGED <<publicGroups, loadedOnce>>

GroupReread(r, listed) ==
    /\ r.kind \in {"reload", "rekey"} /\ listed \in SUBSET {r.object.group}
    /\ \E old \in Finds({r.object.group}) : Replace(listed, {r.object.group} \ listed, old)
    /\ IF r.kind = "rekey" THEN UNCHANGED activeGroup
       ELSE Show(IF listed # {} THEN "groups" ELSE "public", r.object.group)
    /\ groupRequests' = groupRequests \ {r}
    /\ UNCHANGED <<loadedOnce, overtaken>>

GroupDestroyed(r) ==
    /\ r.kind = "destroy"
    /\ joinedGroups' = joinedGroups \ {r.object}
    /\ Show("groups", NoGroup)
    /\ groupRequests' = groupRequests \ {r}
    /\ UNCHANGED <<publicGroups, loadedOnce, overtaken>>

\* Joining and leaving remove the object; the group is read again, unless the store has it as private.
MembershipAnswered(r, public) ==
    /\ r.kind \in {"join", "leave"}
    /\ IF r.kind = "join"
       THEN publicGroups' = publicGroups \ {r.object} /\ UNCHANGED joinedGroups
       ELSE joinedGroups' = joinedGroups \ {r.object} /\ UNCHANGED publicGroups
    /\ groupRequests' = (groupRequests \ {r}) \cup
           (IF public THEN {Sent("reload", r.object, FALSE)} ELSE {})
    /\ UNCHANGED <<activeGroup, loadedOnce, overtaken>>

GroupRefused(r) ==
    /\ groupRequests' = groupRequests \ {r}
    /\ UNCHANGED <<joinedGroups, publicGroups, activeGroup, loadedOnce, overtaken>>

GroupsAnswered ==
    /\ \E r \in groupRequests :
           \/ \E listed \in SUBSET Group : ListAnswered(r, listed) \/ GroupReread(r, listed)
           \/ GroupAnswered(r)
           \/ GroupDestroyed(r)
           \/ \E public \in BOOLEAN : MembershipAnswered(r, public)
           \/ GroupRefused(r)
    /\ UNCHANGED groupUser

GroupNext ==
    \/ GroupLogin
    \/ GroupLogout
    \/ GroupSessionLost
    \/ \E list \in Load, o \in Objects : SetActiveGroup(list, o)
    \/ AskForGroups
    \/ GroupsAnswered

-----------------------------------------------------------------------------
(* No group is listed twice, whatever order loads, joins and leaves are    *)
(* answered in, unless a created or saved group was added while another    *)
(* object of it was listed.                                                *)
NoGroupTwice ==
    ~overtaken => \A o, p \in Objects : o.group = p.group => o = p
=============================================================================
