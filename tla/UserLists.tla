----------------------------- MODULE UserLists ------------------------------
(***************************************************************************)
(* The user store of the browser: the list of all users an admin sees, the *)
(* role that is set and the user that is deleted in it, and the icon that  *)
(* tells how a reload went, which a timer takes back after two seconds.    *)
(*                                                                         *)
(* An update is two requests in a row: the change, then the user as the    *)
(* server holds it by then.  A logout cancels what is under way; a session *)
(* that is lost cancels nothing, and is left out with the columns the list *)
(* is sorted by.                                                           *)
(***************************************************************************)
EXTENDS Naturals, FiniteSets

CONSTANTS
    Person,
    NoRole,
    MaxUserRequests     \* bound: requests under way and timers

UserListsAssumption == MaxUserRequests \in Nat /\ Person # {}

VARIABLES
    roles,              \* the role of each user on the server, NoRole of one deleted
    shown,              \* the role of each user in the list, NoRole of one that is not there
    reloadState,
    userRequests,
    reloadTimers,       \* timers that will take reloadState back
    overtaken           \* note of the model: requests overlapped, or one failed halfway

userVars == <<roles, shown, reloadState, userRequests, reloadTimers, overtaken>>

Role == {"admin", "user"}
Roles == [Person -> Role \cup {NoRole}]
ReloadState == {"none", "loading", "success", "error"}

\* "loaded", "updated" (the change is stored), "read" and "deleted" are served, not yet answered.
UserKind == {"load", "loaded", "update", "updated", "read", "delete", "deleted"}

UserTypeOK ==
    /\ roles \in Roles /\ shown \in Roles
    /\ reloadState \in ReloadState
    /\ \A r \in userRequests :
           /\ r.kind \in UserKind /\ r.person \in Person
           /\ r.role \in Role \cup {NoRole} /\ r.answer \in Roles /\ r.copy \in 1..MaxUserRequests
    /\ reloadTimers \in 0..MaxUserRequests
    /\ overtaken \in BOOLEAN

Nobody == [p \in Person |-> NoRole]

UserInit ==
    /\ roles = [p \in Person |-> "user"]
    /\ shown = Nobody
    /\ reloadState = "none" /\ userRequests = {} /\ reloadTimers = 0
    /\ overtaken = FALSE

-----------------------------------------------------------------------------
UserAsks(kind, p, role) ==
    /\ Cardinality(userRequests) + reloadTimers < MaxUserRequests
    /\ \E copy \in 1..MaxUserRequests :
           /\ \A r \in userRequests : r.copy # copy
           /\ \A c \in 1..(copy - 1) : \E r \in userRequests : r.copy = c
           /\ userRequests' = userRequests \cup
                  {[kind |-> kind, person |-> p, role |-> role, answer |-> Nobody, copy |-> copy]}

Served(r, kind) == userRequests' = (userRequests \ {r}) \cup {[r EXCEPT !.kind = kind, !.answer = roles]}
Done(r) == userRequests' = userRequests \ {r}

\* A reload that nothing else is under way with shows what the server holds again.
LoadUsers ==
    /\ UserAsks("load", CHOOSE p \in Person : TRUE, NoRole)
    /\ reloadState' = "loading"
    /\ overtaken' = (userRequests # {})
    /\ UNCHANGED <<roles, shown, reloadTimers>>

UpdateUser(p, role) ==
    /\ shown[p] # NoRole
    /\ UserAsks("update", p, role)
    /\ overtaken' = (overtaken \/ userRequests # {})
    /\ UNCHANGED <<roles, shown, reloadState, reloadTimers>>

DeleteUser(p) ==
    /\ shown[p] # NoRole
    /\ UserAsks("delete", p, NoRole)
    /\ overtaken' = (overtaken \/ userRequests # {})
    /\ UNCHANGED <<roles, shown, reloadState, reloadTimers>>

\* The loads that are cancelled end as failed ones, in the state of the store that is new.
UserLogout ==
    LET loads == Cardinality({r \in userRequests : r.kind \in {"load", "loaded"}}) IN
    /\ shown' = Nobody
    /\ userRequests' = {}
    /\ reloadState' = IF loads > 0 THEN "error" ELSE "none"
    /\ reloadTimers' = reloadTimers + loads
    /\ UNCHANGED <<roles, overtaken>>

-----------------------------------------------------------------------------
(* The server, and the answers. *)

ServeUser(r) ==
    /\ \/ r.kind = "load" /\ Served(r, "loaded") /\ UNCHANGED roles
       \/ /\ r.kind = "update" /\ roles[r.person] # NoRole
          /\ roles' = [roles EXCEPT ![r.person] = r.role]
          /\ Served(r, "updated")
       \/ r.kind = "updated" /\ roles[r.person] # NoRole /\ Served(r, "read") /\ UNCHANGED roles
       \/ /\ r.kind = "delete"
          /\ roles' = [roles EXCEPT ![r.person] = NoRole]
          /\ Served(r, "deleted")
    /\ UNCHANGED <<shown, reloadState, reloadTimers, overtaken>>

UsersLoaded(r) ==
    /\ r.kind = "loaded"
    /\ shown' = r.answer /\ reloadState' = "success"
    /\ reloadTimers' = reloadTimers + 1
    /\ Done(r)
    /\ UNCHANGED <<roles, overtaken>>

LoadFailed(r) ==
    /\ r.kind \in {"load", "loaded"}
    /\ shown' = Nobody /\ reloadState' = "error"
    /\ reloadTimers' = reloadTimers + 1
    /\ Done(r)
    /\ UNCHANGED <<roles, overtaken>>

\* A user that is no longer listed is not added.
UserReplaced(list, p, role) == IF list[p] = NoRole THEN list ELSE [list EXCEPT ![p] = role]

UserRead(r) ==
    /\ r.kind = "read"
    /\ shown' = UserReplaced(shown, r.person, r.answer[r.person])
    /\ Done(r)
    /\ UNCHANGED <<roles, reloadState, reloadTimers, overtaken>>

UserDeleted(r) ==
    /\ r.kind = "deleted"
    /\ shown' = [shown EXCEPT ![r.person] = NoRole]
    /\ Done(r)
    /\ UNCHANGED <<roles, reloadState, reloadTimers, overtaken>>

\* The failure of a change, or of its second half, is only logged.
ChangeFailed(r) ==
    /\ r.kind \notin {"load", "loaded"}
    /\ Done(r)
    /\ overtaken' = (overtaken \/ r.kind \in {"updated", "read", "deleted"} \/ roles[r.person] = NoRole)
    /\ UNCHANGED <<roles, shown, reloadState, reloadTimers>>

ReloadTimeout ==
    /\ reloadTimers > 0 /\ reloadTimers' = reloadTimers - 1
    /\ reloadState' = "none"
    /\ UNCHANGED <<roles, shown, userRequests, overtaken>>

UserAnswered(kinds) ==
    \E r \in userRequests :
        /\ r.kind \in kinds
        /\ \/ ServeUser(r) \/ UsersLoaded(r) \/ LoadFailed(r)
           \/ UserRead(r) \/ UserDeleted(r) \/ ChangeFailed(r)

Loads == {"load", "loaded"}

UserNext ==
    \/ LoadUsers
    \/ \E p \in Person, role \in Role : UpdateUser(p, role)
    \/ \E p \in Person : DeleteUser(p)
    \/ UserLogout
    \/ UserAnswered(UserKind)
    \/ ReloadTimeout

-----------------------------------------------------------------------------
(* The list of an admin shows every user as the server holds it once all   *)
(* is answered, if the requests did not overlap and none failed halfway:   *)
(* an update that is answered late neither adds a user nor an old role.    *)
UsersRight ==
    userRequests = {} /\ ~overtaken => shown \in {roles, Nobody}

(* The icon of a reload goes back to its usual form, however many reloads  *)
(* were asked for.                                                         *)
ReloadGoes == reloadState # "none" ~> reloadState = "none"
=============================================================================
