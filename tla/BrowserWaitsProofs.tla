-------------------------- MODULE BrowserWaitsProofs --------------------------
(***************************************************************************)
(* Proofs about the parts of a browser tab that show what is waited for,   *)
(* for any number of queries, batches, users, servers and requests: the    *)
(* inductive invariant of each part, named <Part>Inv, and what follows of  *)
(* the tab.  Parts and tab are related as in BrowserTabProofs.             *)
(***************************************************************************)
EXTENDS BrowserWaits, Integers, Sequences, FiniteSetTheorems, SequenceTheorems, TLAPS

-----------------------------------------------------------------------------
(* The forms of the session                                                *)

\* Every request that is pending for a link may start one more timer.
FormInv ==
    /\ Form!FormTypeOK
    /\ resendTimers + forms["resend"] <= MaxForms

LEMMA FormStarts == Form!FormInit => FormInv
BY WaitsAssumption DEF FormInv, Form!FormInit, Form!FormTypeOK, Form!Form, Form!LoginRequestState,
       Form!ApiRequestState, Form!LoginFormAssumption

\* What a form that is sent, or answered, does to the requests.
LEMMA FormsCounted ==
    ASSUME FormInv, NEW form \in Form!Form
    PROVE  /\ Form!Asked(form) => forms' \in [Form!Form -> 0..MaxForms] /\ forms'[form] = forms[form] + 1
           /\ Form!FormAnswered(form) => forms' \in [Form!Form -> 0..MaxForms] /\ forms'[form] = forms[form] - 1
           /\ Form!Asked(form) \/ Form!FormAnswered(form) =>
                  \A other \in Form!Form \ {form} : forms'[other] = forms[other]
<1>1. /\ MaxForms \in Nat /\ forms \in [Form!Form -> 0..MaxForms]
      /\ \A f \in Form!Form : forms[f] \in Nat /\ forms[f] <= MaxForms
    BY WaitsAssumption DEF FormInv, Form!FormTypeOK, Form!LoginFormAssumption
<1>2. ASSUME Form!Asked(form)
      PROVE  forms' = [forms EXCEPT ![form] = @ + 1] /\ forms[form] + 1 <= MaxForms
    BY <1>1, <1>2 DEF Form!Asked, Form!Form
<1>3. ASSUME Form!FormAnswered(form)
      PROVE  forms' = [forms EXCEPT ![form] = @ - 1] /\ forms[form] > 0
    BY <1>3 DEF Form!FormAnswered
<1>4. QED BY <1>1, <1>2, <1>3

LEMMA FormStep ==
    ASSUME FormInv, Form!FormNext
    PROVE  FormInv'
<1>1. /\ MaxForms \in Nat /\ Form!FormTypeOK /\ resendTimers + forms["resend"] <= MaxForms
      /\ {"login", "password", "delete", "resend"} \subseteq Form!Form
      /\ resendTimers \in Nat /\ forms["resend"] \in Nat
    BY WaitsAssumption DEF FormInv, Form!FormTypeOK, Form!LoginFormAssumption, Form!Form
<1>2. ASSUME NEW state \in Form!LoginRequestState, Form!SetLoginState(state)
      PROVE  loginState' \in Form!LoginRequestState /\ reaction' \in [seen : Form!LoginRequestState, scheduled : BOOLEAN]
    BY <1>1, <1>2 DEF Form!SetLoginState, Form!FormTypeOK
<1>3. {"waiting", "success", "expired", "error"} \subseteq Form!LoginRequestState
    BY DEF Form!LoginRequestState, Form!ApiRequestState
<1>4. ASSUME Form!SubmitLogin PROVE FormInv'
    <2>1. PICK form \in {"login", "delete"} : Form!Asked(form)
        BY <1>4 DEF Form!SubmitLogin
    <2>2. forms' \in [Form!Form -> 0..MaxForms] /\ forms'["resend"] = forms["resend"]
        BY <1>1, <2>1, FormsCounted
    <2>3. QED BY <1>1, <1>2, <1>3, <1>4, <2>2 DEF Form!SubmitLogin, FormInv, Form!FormTypeOK
<1>5. ASSUME Form!SubmitPassword PROVE FormInv'
    <2>1. passwordState' = "none" /\ UNCHANGED <<resendState, resendTimers>>
        BY <1>5 DEF Form!SubmitPassword
    <2>2. CASE Form!Asked("password") /\ Form!SetLoginState("waiting")
        <3>1. forms' \in [Form!Form -> 0..MaxForms] /\ forms'["resend"] = forms["resend"]
            BY <1>1, <2>2, FormsCounted
        <3>2. QED BY <1>1, <1>2, <1>3, <2>1, <2>2, <3>1 DEF FormInv, Form!FormTypeOK, Form!ApiRequestState
    <2>3. CASE UNCHANGED <<loginState, reaction, forms>>
        BY <1>1, <2>1, <2>3 DEF FormInv, Form!FormTypeOK, Form!ApiRequestState
    <2>4. QED BY <1>5, <2>2, <2>3 DEF Form!SubmitPassword
<1>6. ASSUME Form!SubmitResend PROVE FormInv'
    <2>1. forms' \in [Form!Form -> 0..MaxForms] /\ forms'["resend"] = forms["resend"] + 1
        BY <1>1, <1>6, FormsCounted DEF Form!SubmitResend
    <2>2. QED BY <1>1, <1>6, <2>1 DEF Form!SubmitResend, FormInv, Form!FormTypeOK, Form!ApiRequestState
<1>7. ASSUME Form!LoginEnds PROVE FormInv'
    <2>1. PICK form \in {"login", "delete"} : Form!FormAnswered(form)
        BY <1>7 DEF Form!LoginEnds
    <2>2. forms' \in [Form!Form -> 0..MaxForms] /\ forms'["resend"] = forms["resend"]
        BY <1>1, <2>1, FormsCounted
    <2>3. PICK state \in {"success", "expired", "error"} : Form!SetLoginState(state)
        BY <1>7 DEF Form!LoginEnds
    <2>4. QED BY <1>1, <1>2, <1>3, <1>7, <2>2, <2>3 DEF Form!LoginEnds, FormInv, Form!FormTypeOK
<1>8. ASSUME Form!PasswordEnds PROVE FormInv'
    <2>1. forms' \in [Form!Form -> 0..MaxForms] /\ forms'["resend"] = forms["resend"]
        BY <1>1, <1>8, FormsCounted DEF Form!PasswordEnds
    <2>2. QED BY <1>1, <1>8, <2>1 DEF Form!PasswordEnds, FormInv, Form!FormTypeOK, Form!ApiRequestState
<1>9. ASSUME Form!ResendEnds PROVE FormInv'
    <2>1. /\ forms' \in [Form!Form -> 0..MaxForms] /\ forms'["resend"] = forms["resend"] - 1
          /\ resendTimers' \in {resendTimers, resendTimers + 1} /\ resendState' \in Form!ApiRequestState
          /\ UNCHANGED <<loginState, reaction, passwordState>>
        BY <1>1, <1>9, FormsCounted DEF Form!ResendEnds, Form!ApiRequestState
    <2>2. forms'["resend"] \in Nat
        BY <1>1, <2>1
    <2>3. resendTimers' \in 0..MaxForms /\ resendTimers' + forms'["resend"] <= MaxForms
        BY <1>1, <2>1, <2>2
    <2>4. QED BY <1>1, <2>1, <2>3 DEF FormInv, Form!FormTypeOK
<1>10. ASSUME Form!ResendTimeout PROVE FormInv'
    BY <1>1, <1>10 DEF Form!ResendTimeout, FormInv, Form!FormTypeOK, Form!ApiRequestState
<1>11. ASSUME Form!LoginReaction PROVE FormInv'
    <2>1. /\ loginState' \in Form!LoginRequestState
          /\ reaction' \in [seen : Form!LoginRequestState, scheduled : BOOLEAN]
        <3>1. loginState \in Form!LoginRequestState /\ "none" \in Form!LoginRequestState
            BY <1>1 DEF Form!FormTypeOK, Form!LoginRequestState, Form!ApiRequestState
        <3>2. /\ loginState' \in {"none", loginState}
              /\ \E again \in BOOLEAN : reaction' = [seen |-> loginState, scheduled |-> again]
            BY <1>11 DEF Form!LoginReaction
        <3>3. QED BY <3>1, <3>2
    <2>2. QED BY <1>1, <1>11, <2>1 DEF Form!LoginReaction, FormInv, Form!FormTypeOK
<1>12. QED BY <1>4, <1>5, <1>6, <1>7, <1>8, <1>9, <1>10, <1>11 DEF Form!FormNext, Form!FormSettles

-----------------------------------------------------------------------------
(* The list of users                                                       *)

UserRequest == [kind : Users!UserKind, person : Person, role : Users!Role \cup {NoRole},
                answer : Users!Roles, copy : 1..MaxUserRequests]

UsersTyped ==
    /\ roles \in Users!Roles /\ shown \in Users!Roles
    /\ reloadState \in Users!ReloadState
    /\ userRequests \subseteq UserRequest /\ IsFiniteSet(userRequests)
    /\ reloadTimers \in Nat /\ Cardinality(userRequests) + reloadTimers <= MaxUserRequests
    /\ overtaken \in BOOLEAN

\* How far the list is behind the server while a request is the only one.
Behind(r) ==
    /\ r.kind \in {"update", "delete"} => shown = roles /\ shown[r.person] # NoRole
    /\ r.kind = "loaded" => r.answer = roles
    /\ r.kind = "updated" => shown[r.person] # NoRole /\ \A p \in Person \ {r.person} : roles[p] = shown[p]
    /\ r.kind = "read" => /\ r.answer = roles /\ shown[r.person] # NoRole
                          /\ \A p \in Person \ {r.person} : roles[p] = shown[p]
    /\ r.kind = "deleted" => /\ roles[r.person] = NoRole
                             /\ \A p \in Person \ {r.person} : roles[p] = shown[p]

UsersInv ==
    /\ UsersTyped
    /\ ~overtaken =>
           /\ \A r, s \in userRequests : r = s
           /\ userRequests = {} => shown \in {roles, Users!Nobody}
           /\ \A r \in userRequests : Behind(r)

LEMMA UsersStart == Users!UserInit => UsersInv
<1> SUFFICES ASSUME Users!UserInit PROVE UsersInv
    OBVIOUS
<1>1. IsFiniteSet(userRequests) /\ Cardinality(userRequests) = 0
    BY FS_EmptySet DEF Users!UserInit
<1>2. roles \in Users!Roles /\ shown \in Users!Roles /\ shown = Users!Nobody
    BY DEF Users!UserInit, Users!Roles, Users!Role, Users!Nobody
<1>3. /\ userRequests = {} /\ reloadTimers = 0 /\ MaxUserRequests \in Nat
      /\ reloadState \in Users!ReloadState /\ overtaken = FALSE
    BY WaitsAssumption DEF Users!UserInit, Users!ReloadState, Users!UserListsAssumption
<1>4. Cardinality(userRequests) + reloadTimers <= MaxUserRequests
    BY <1>1, <1>3
<1>5. userRequests \subseteq UserRequest
    BY <1>3
<1>6. UsersTyped
    BY <1>1, <1>2, <1>3, <1>4, <1>5 DEF UsersTyped
<1>7. QED BY <1>2, <1>3, <1>6 DEF UsersInv

\* What is asked for takes one of the places that are left.
LEMMA UsersAsked ==
    ASSUME UsersInv, NEW kind \in Users!UserKind, NEW p \in Person, NEW role \in Users!Role \cup {NoRole},
           Users!UserAsks(kind, p, role)
    PROVE  /\ userRequests' \subseteq UserRequest /\ IsFiniteSet(userRequests')
           /\ Cardinality(userRequests') + reloadTimers <= MaxUserRequests
           /\ \E r \in userRequests' : /\ r.kind = kind /\ r.person = p
                                       /\ userRequests' = userRequests \cup {r}
<1>1. Cardinality(userRequests) + reloadTimers < MaxUserRequests
    BY DEF Users!UserAsks, Users!Cardinality, Cardinality
<1>2. PICK copy \in 1..MaxUserRequests :
          userRequests' = userRequests \cup
              {[kind |-> kind, person |-> p, role |-> role, answer |-> Users!Nobody, copy |-> copy]}
    BY DEF Users!UserAsks
<1> DEFINE r == [kind |-> kind, person |-> p, role |-> role, answer |-> Users!Nobody, copy |-> copy]
<1>3. r \in UserRequest
    BY DEF UserRequest, Users!Nobody, Users!Roles
<1>4. /\ IsFiniteSet(userRequests') /\ Cardinality(userRequests') \in Nat
      /\ Cardinality(userRequests') <= Cardinality(userRequests) + 1
    <2>1. IsFiniteSet(userRequests) /\ Cardinality(userRequests) \in Nat
        BY FS_CardinalityType DEF UsersInv, UsersTyped
    <2> HIDE DEF r
    <2>2. userRequests' = userRequests \cup {r}
        BY <1>2 DEF r
    <2>3. /\ IsFiniteSet(userRequests \cup {r})
          /\ Cardinality(userRequests \cup {r}) \in {Cardinality(userRequests), Cardinality(userRequests) + 1}
        BY <2>1, FS_AddElement
    <2>4. QED BY <2>1, <2>2, <2>3
<1>5. reloadTimers \in Nat /\ MaxUserRequests \in Nat /\ Cardinality(userRequests) \in Nat
    BY WaitsAssumption, FS_CardinalityType DEF UsersInv, UsersTyped, Users!UserListsAssumption
<1>6. QED BY <1>1, <1>2, <1>3, <1>4, <1>5 DEF UsersInv, UsersTyped

\* A request that is done, or served, leaves no more of them.
LEMMA UsersFewer ==
    ASSUME UsersInv, NEW r \in userRequests
    PROVE  /\ Users!Done(r) => /\ userRequests' \subseteq UserRequest /\ IsFiniteSet(userRequests')
                               /\ Cardinality(userRequests') = Cardinality(userRequests) - 1
           /\ \A kind \in Users!UserKind : Users!Served(r, kind) =>
                  /\ userRequests' \subseteq UserRequest /\ IsFiniteSet(userRequests')
                  /\ Cardinality(userRequests') <= Cardinality(userRequests)
                  /\ \E s \in UserRequest : /\ s.kind = kind /\ s.person = r.person /\ s.role = r.role
                                            /\ s.answer = roles
                                            /\ userRequests' = (userRequests \ {r}) \cup {s}
<1>1. /\ IsFiniteSet(userRequests) /\ userRequests \subseteq UserRequest /\ roles \in Users!Roles
      /\ Cardinality(userRequests) \in Nat
    BY FS_CardinalityType DEF UsersInv, UsersTyped
<1>2. /\ IsFiniteSet(userRequests \ {r})
      /\ Cardinality(userRequests \ {r}) = Cardinality(userRequests) - 1
    BY <1>1, FS_RemoveElement
<1>3. Users!Done(r) => /\ userRequests' \subseteq UserRequest /\ IsFiniteSet(userRequests')
                       /\ Cardinality(userRequests') = Cardinality(userRequests) - 1
    BY <1>1, <1>2 DEF Users!Done
<1>4. ASSUME NEW kind \in Users!UserKind, Users!Served(r, kind)
      PROVE  /\ userRequests' \subseteq UserRequest /\ IsFiniteSet(userRequests')
             /\ Cardinality(userRequests') <= Cardinality(userRequests)
             /\ \E s \in UserRequest : /\ s.kind = kind /\ s.person = r.person /\ s.role = r.role
                                       /\ s.answer = roles
                                       /\ userRequests' = (userRequests \ {r}) \cup {s}
    <2> DEFINE s == [r EXCEPT !.kind = kind, !.answer = roles]
    <2>1. s \in UserRequest /\ s.kind = kind /\ s.person = r.person /\ s.role = r.role /\ s.answer = roles
        BY <1>1 DEF UserRequest
    <2>2. userRequests' = (userRequests \ {r}) \cup {s}
        BY <1>4 DEF Users!Served
    <2> HIDE DEF s
    <2> DEFINE others == userRequests \ {r}
    <2>3. IsFiniteSet(others) /\ others \subseteq UserRequest
          /\ Cardinality(others) = Cardinality(userRequests) - 1
        BY <1>1, <1>2
    <2> HIDE DEF others
    <2>4. /\ IsFiniteSet(others \cup {s})
          /\ Cardinality(others \cup {s}) = IF s \in others THEN Cardinality(others)
                                                             ELSE Cardinality(others) + 1
        BY <2>3, FS_AddElement
    <2>5. userRequests' = others \cup {s}
        BY <2>2 DEF others
    <2>6. Cardinality(userRequests') <= Cardinality(userRequests)
        BY <1>1, <2>3, <2>4, <2>5
    <2>7. IsFiniteSet(userRequests') /\ userRequests' \subseteq UserRequest
        BY <2>1, <2>3, <2>4, <2>5
    <2>8. QED BY <2>1, <2>2, <2>6, <2>7
<1>5. QED BY <1>3, <1>4

LEMMA UsersAskedStep ==
    ASSUME UsersInv,
           \/ Users!LoadUsers
           \/ \E p \in Person, role \in Users!Role : Users!UpdateUser(p, role)
           \/ \E p \in Person : Users!DeleteUser(p)
    PROVE  UsersInv'
<1> USE DEF Users!UserKind, Users!Role
<1>1. ASSUME Users!LoadUsers PROVE UsersInv'
    <2>1. (CHOOSE p \in Person : TRUE) \in Person
        BY WaitsAssumption DEF Users!UserListsAssumption
    <2>2. PICK r \in userRequests' : r.kind = "load" /\ userRequests' = userRequests \cup {r}
        BY <1>1, <2>1, UsersAsked DEF Users!LoadUsers
    <2>3. UsersTyped'
        BY <1>1, <2>1, UsersAsked DEF Users!LoadUsers, UsersInv, UsersTyped, Users!ReloadState
    <2>4. overtaken' = (userRequests # {})
        BY <1>1 DEF Users!LoadUsers
    <2>5. QED BY <2>2, <2>3, <2>4 DEF UsersInv, Behind
<1>2. ASSUME NEW kind \in {"update", "delete"}, NEW p \in Person, NEW role \in Users!Role \cup {NoRole},
             shown[p] # NoRole, Users!UserAsks(kind, p, role),
             overtaken' = (overtaken \/ userRequests # {}),
             UNCHANGED <<roles, shown, reloadState, reloadTimers>>
      PROVE  UsersInv'
    <2>1. PICK r \in userRequests' : r.kind = kind /\ r.person = p /\ userRequests' = userRequests \cup {r}
        BY <1>2, UsersAsked
    <2>2. UsersTyped'
        BY <1>2, UsersAsked DEF UsersInv, UsersTyped
    <2>3. ~overtaken' => userRequests = {} /\ shown = roles
        BY <1>2 DEF UsersInv, Users!Nobody
    <2>4. ~overtaken' => Behind(r)'
        BY <1>2, <2>1, <2>3 DEF Behind
    <2>5. QED BY <2>1, <2>2, <2>3, <2>4 DEF UsersInv
<1>3. QED BY <1>1, <1>2 DEF Users!UpdateUser, Users!DeleteUser

LEMMA UsersServed ==
    ASSUME UsersInv, NEW r \in userRequests, Users!ServeUser(r)
    PROVE  UsersInv'
<1> USE DEF Users!UserKind
<1>1. /\ r \in UserRequest /\ r.person \in Person /\ r.role \in Users!Role \cup {NoRole}
      /\ roles \in Users!Roles /\ shown \in Users!Roles
    BY DEF UsersInv, UsersTyped, UserRequest
<1>2. UNCHANGED <<shown, reloadState, reloadTimers, overtaken>>
    BY DEF Users!ServeUser
<1>3. ~overtaken => Behind(r)
    BY DEF UsersInv
<1>4. ASSUME NEW kind \in {"loaded", "updated", "read", "deleted"}, Users!Served(r, kind), roles' \in Users!Roles,
             ~overtaken => \A s \in UserRequest :
                 s.kind = kind /\ s.person = r.person /\ s.role = r.role /\ s.answer = roles => Behind(s)'
      PROVE  UsersInv'
    <2>1. PICK s \in UserRequest : /\ s.kind = kind /\ s.person = r.person /\ s.role = r.role /\ s.answer = roles
                                   /\ userRequests' = (userRequests \ {r}) \cup {s}
        BY <1>4, UsersFewer
    <2>2. /\ userRequests' \subseteq UserRequest /\ IsFiniteSet(userRequests')
          /\ Cardinality(userRequests') <= Cardinality(userRequests)
        BY <1>4, UsersFewer
    <2>3. UsersTyped'
        <3>1. /\ reloadTimers \in Nat /\ Cardinality(userRequests) + reloadTimers <= MaxUserRequests
              /\ Cardinality(userRequests) \in Nat /\ Cardinality(userRequests') \in Nat /\ MaxUserRequests \in Nat
            BY <2>2, FS_CardinalityType, WaitsAssumption DEF UsersInv, UsersTyped, Users!UserListsAssumption
        <3>2. QED BY <1>2, <1>4, <2>2, <3>1 DEF UsersInv, UsersTyped
    <2>4. ~overtaken => Behind(s)' /\ userRequests' = {s}
        BY <1>4, <2>1 DEF UsersInv
    <2>5. QED BY <1>2, <2>3, <2>4 DEF UsersInv
<1>5. CASE r.kind = "load" /\ Users!Served(r, "loaded") /\ UNCHANGED roles
    BY <1>1, <1>4, <1>5 DEF Behind
<1>6. CASE /\ r.kind = "update" /\ roles[r.person] # NoRole
           /\ roles' = [roles EXCEPT ![r.person] = r.role]
           /\ Users!Served(r, "updated")
    <2>1. roles' \in Users!Roles
        BY <1>1, <1>6 DEF Users!Roles
    <2>2. ~overtaken => shown = roles /\ shown[r.person] # NoRole
        BY <1>3, <1>6 DEF Behind
    <2>3. QED BY <1>1, <1>2, <1>4, <1>6, <2>1, <2>2 DEF Behind, Users!Roles
<1>7. CASE r.kind = "updated" /\ roles[r.person] # NoRole /\ Users!Served(r, "read") /\ UNCHANGED roles
    <2>1. ~overtaken => shown[r.person] # NoRole /\ \A p \in Person \ {r.person} : roles[p] = shown[p]
        BY <1>3, <1>7 DEF Behind
    <2>2. QED BY <1>1, <1>2, <1>4, <1>7, <2>1 DEF Behind
<1>8. CASE /\ r.kind = "delete"
           /\ roles' = [roles EXCEPT ![r.person] = NoRole]
           /\ Users!Served(r, "deleted")
    <2>1. roles' \in Users!Roles
        BY <1>1, <1>8 DEF Users!Roles
    <2>2. ~overtaken => shown = roles
        BY <1>3, <1>8 DEF Behind
    <2>3. QED BY <1>1, <1>2, <1>4, <1>8, <2>1, <2>2 DEF Behind, Users!Roles
<1>9. QED BY <1>5, <1>6, <1>7, <1>8 DEF Users!ServeUser

LEMMA UsersAnsweredStep ==
    ASSUME UsersInv, NEW r \in userRequests,
           Users!UsersLoaded(r) \/ Users!LoadFailed(r) \/ Users!UserRead(r) \/ Users!UserDeleted(r) \/ Users!ChangeFailed(r)
    PROVE  UsersInv'
<1> USE DEF Users!UserKind
<1>1. /\ r \in UserRequest /\ r.person \in Person /\ r.answer \in Users!Roles
      /\ roles \in Users!Roles /\ shown \in Users!Roles /\ Users!Nobody \in Users!Roles
    BY DEF UsersInv, UsersTyped, UserRequest, Users!Roles, Users!Nobody
<1>2. Users!Done(r)
    BY DEF Users!UsersLoaded, Users!LoadFailed, Users!UserRead, Users!UserDeleted, Users!ChangeFailed
<1>3. /\ userRequests' \subseteq UserRequest /\ IsFiniteSet(userRequests')
      /\ Cardinality(userRequests') = Cardinality(userRequests) - 1
    BY <1>2, UsersFewer
<1>4. /\ reloadTimers \in Nat /\ Cardinality(userRequests) + reloadTimers <= MaxUserRequests
      /\ Cardinality(userRequests) \in Nat /\ MaxUserRequests \in Nat
    BY FS_CardinalityType, WaitsAssumption DEF UsersInv, UsersTyped, Users!UserListsAssumption
<1>5. ASSUME shown' \in Users!Roles, reloadState' \in Users!ReloadState, roles' = roles,
             reloadTimers' \in {reloadTimers, reloadTimers + 1}, overtaken' \in BOOLEAN,
             ~overtaken' => ~overtaken /\ shown' \in {roles, Users!Nobody}
      PROVE  UsersInv'
    <2>1. UsersTyped'
        BY <1>1, <1>3, <1>4, <1>5 DEF UsersTyped
    <2>2. ~overtaken => userRequests' = {}
        BY <1>2 DEF UsersInv, Users!Done
    <2>3. QED BY <1>5, <2>1, <2>2 DEF UsersInv, Users!Nobody
<1>6. ~overtaken => Behind(r)
    BY DEF UsersInv
<1>7. reloadState \in Users!ReloadState /\ overtaken \in BOOLEAN /\ {"success", "error"} \subseteq Users!ReloadState
    BY DEF UsersInv, UsersTyped, Users!ReloadState
<1>8. CASE Users!UsersLoaded(r)
    BY <1>1, <1>5, <1>6, <1>7, <1>8 DEF Users!UsersLoaded, Behind
<1>9. CASE Users!LoadFailed(r)
    BY <1>1, <1>5, <1>7, <1>9 DEF Users!LoadFailed
<1>10. CASE Users!UserRead(r)
    <2>1. shown' = Users!UserReplaced(shown, r.person, r.answer[r.person])
        BY <1>10 DEF Users!UserRead
    <2>2. shown' \in Users!Roles
        BY <1>1, <2>1 DEF Users!UserReplaced, Users!Roles
    <2>3. ASSUME ~overtaken PROVE shown' = roles
        <3>1. /\ r.answer = roles /\ shown[r.person] # NoRole
              /\ \A p \in Person \ {r.person} : roles[p] = shown[p]
            BY <1>6, <1>10, <2>3 DEF Behind, Users!UserRead
        <3>2. shown' = [shown EXCEPT ![r.person] = roles[r.person]]
            BY <2>1, <3>1 DEF Users!UserReplaced
        <3>3. QED BY <1>1, <3>1, <3>2 DEF Users!Roles
    <2>4. QED BY <1>5, <1>7, <1>10, <2>2, <2>3 DEF Users!UserRead
<1>11. CASE Users!UserDeleted(r)
    <2>1. shown' = [shown EXCEPT ![r.person] = NoRole]
        BY <1>11 DEF Users!UserDeleted
    <2>2. shown' \in Users!Roles
        BY <1>1, <2>1 DEF Users!Roles
    <2>3. ASSUME ~overtaken PROVE shown' = roles
        <3>1. roles[r.person] = NoRole /\ \A p \in Person \ {r.person} : roles[p] = shown[p]
            BY <1>6, <1>11, <2>3 DEF Behind, Users!UserDeleted
        <3>2. QED BY <1>1, <2>1, <3>1 DEF Users!Roles
    <2>4. QED BY <1>5, <1>7, <1>11, <2>2, <2>3 DEF Users!UserDeleted
<1>12. CASE Users!ChangeFailed(r)
    <2>1. ~overtaken' => ~overtaken /\ r.kind \in {"update", "delete"}
        BY <1>1, <1>12 DEF Users!ChangeFailed, UserRequest
    <2>2. ~overtaken' => shown = roles
        BY <1>6, <2>1 DEF Behind
    <2>3. QED BY <1>1, <1>5, <1>7, <1>12, <2>1, <2>2 DEF Users!ChangeFailed
<1>13. QED BY <1>8, <1>9, <1>10, <1>11, <1>12

LEMMA UsersStep ==
    ASSUME UsersInv, Users!UserNext
    PROVE  UsersInv'
<1>1. ASSUME Users!UserLogout PROVE UsersInv'
    <2> DEFINE ending == {r \in userRequests : r.kind \in {"load", "loaded"}}
    <2>1. /\ shown' = Users!Nobody /\ userRequests' = {} /\ UNCHANGED <<roles, overtaken>>
          /\ reloadTimers' = reloadTimers + Cardinality(ending)
          /\ reloadState' \in {"error", "none"}
        BY <1>1 DEF Users!UserLogout, Users!Cardinality, Cardinality
    <2>2. /\ Cardinality(ending) \in Nat /\ Cardinality(ending) <= Cardinality(userRequests)
          /\ Cardinality(userRequests) \in Nat
        BY FS_Subset, FS_CardinalityType DEF UsersInv, UsersTyped
    <2> HIDE DEF ending
    <2>3. /\ IsFiniteSet({}) /\ Cardinality({}) = 0 /\ Users!Nobody \in Users!Roles
          /\ reloadTimers \in Nat /\ Cardinality(userRequests) + reloadTimers <= MaxUserRequests
          /\ MaxUserRequests \in Nat
        BY FS_EmptySet, WaitsAssumption DEF UsersInv, UsersTyped, Users!UserListsAssumption, Users!Nobody, Users!Roles
    <2>4. UsersTyped'
        BY <2>1, <2>2, <2>3 DEF UsersInv, UsersTyped, Users!ReloadState
    <2>5. QED BY <2>1, <2>4 DEF UsersInv, Users!Nobody
<1>2. ASSUME Users!ReloadTimeout PROVE UsersInv'
    <2>1. UsersTyped'
        BY <1>2, FS_CardinalityType, WaitsAssumption
           DEF Users!ReloadTimeout, UsersInv, UsersTyped, Users!ReloadState, Users!UserListsAssumption
    <2>2. QED BY <1>2, <2>1 DEF Users!ReloadTimeout, UsersInv, Users!Nobody, Behind
<1>3. ASSUME Users!UserAnswered(Users!UserKind) PROVE UsersInv'
    BY <1>3, UsersServed, UsersAnsweredStep DEF Users!UserAnswered
<1>4. QED BY <1>1, <1>2, <1>3, UsersAskedStep DEF Users!UserNext

-----------------------------------------------------------------------------
(* The list of database servers                                            *)

ServersTyped ==
    /\ Servers!ServerTypeOK
    /\ \A r \in serverRequests : ~r.served => r.answer = {}

\* A server that is being created is nowhere in the list, and no list is on its way.
Apart ==
    "create" \notin tangled =>
        /\ \A s \in DbServer : dbServers[s] <= 1
        /\ \A r \in serverRequests : r.kind = "create" =>
               /\ dbServers[r.server] = 0
               /\ \A q \in serverRequests :
                      /\ q.kind \notin Servers!Reads
                      /\ q.kind = "create" => q = r \/ q.server # r.server

\* Changes come one at a time: then what the list lacks, or has too much, is the one under way.
Creating(s) == \E r \in serverRequests : r.kind = "create" /\ r.served /\ r.server = s
Removing(s) == \E r \in serverRequests : r.kind = "remove" /\ r.served /\ r.server = s

OneAtATime ==
    tangled = {} =>
        /\ \A r, q \in serverRequests : r = q \/ (r.kind \in Servers!Reads /\ q.kind \in Servers!Reads)
        /\ \A r \in serverRequests :
               /\ r.kind \in Servers!Reads /\ r.served => r.answer \subseteq rows /\ (r.kind = "list" => r.answer = rows)
               /\ r.kind = "remove" => dbServers[r.server] = 1
               /\ r.kind = "create" /\ r.served => r.server \in rows
               /\ r.kind = "remove" /\ r.served => r.server \notin rows
        /\ \A s \in DbServer : dbServers[s] = 1 => s \in rows \/ Removing(s)
        /\ listState = "success" => \A s \in rows : dbServers[s] = 1 \/ Creating(s)

ServersInv == ServersTyped /\ Apart /\ OneAtATime

LEMMA ServersStart == Servers!ServerInit => ServersInv
<1> SUFFICES ASSUME Servers!ServerInit PROVE ServersInv
    OBVIOUS
<1>1. dbServers \in [DbServer -> 0..Servers!MaxCopies] /\ \A s \in DbServer : dbServers[s] = 0
    BY DEF Servers!ServerInit, Servers!MaxCopies
<1>2. ServersTyped
    BY <1>1 DEF Servers!ServerInit, ServersTyped, Servers!ServerTypeOK, Servers!State
<1>3. Apart /\ OneAtATime
    BY <1>1 DEF Servers!ServerInit, Apart, OneAtATime
<1>4. QED BY <1>2, <1>3 DEF ServersInv

\* What is asked for is not served yet, and tangles with what is under way already.
LEMMA ServersAsked ==
    ASSUME ServersInv, NEW kind \in Servers!ServerKind, NEW s \in DbServer, Servers!Asks(kind, s)
    PROVE  /\ serverRequests' = serverRequests \cup {Servers!Sent(kind, s)}
           /\ Servers!Sent(kind, s) \in Servers!ServerRequest
           /\ tangled \subseteq tangled' /\ tangled' \subseteq {"create", "other"}
           /\ tangled' = {} => \A r \in serverRequests : r.kind \in Servers!Reads /\ kind \in Servers!Reads
           /\ "create" \notin tangled' /\ kind \in Servers!Reads => \A r \in serverRequests : r.kind # "create"
           /\ "create" \notin tangled' /\ kind = "create" => \A r \in serverRequests : r.kind \notin Servers!Reads
<1>1. tangled \subseteq {"create", "other"}
    BY DEF ServersInv, ServersTyped, Servers!ServerTypeOK
<1>2. QED BY <1>1 DEF Servers!Asks, Servers!Tangles, Servers!Sent, Servers!ServerRequest, Servers!Reads, Servers!ServerKind

LEMMA AServer == Servers!AnyServer \in DbServer
BY WaitsAssumption DEF Servers!AnyServer, Servers!ServerListAssumption

\* Asking for anything keeps what is known, if what is asked for is alone or one of the reads.
LEMMA ServersAskedStep ==
    ASSUME ServersInv, NEW kind \in Servers!ServerKind, NEW s \in DbServer, Servers!Asks(kind, s),
           serverUser' \in BOOLEAN, tempDbServer' \in BOOLEAN, saveState' \in Servers!State,
           listState' \in {listState, "loading"}, rows' = rows, dbServers' = dbServers,
           kind = "create" => s \notin rows /\ dbServers[s] = 0 /\ Servers!Sent(kind, s) \notin serverRequests /\ tangled = {},
           kind = "remove" => tangled = {} /\ dbServers[s] > 0
    PROVE  ServersInv'
<1> DEFINE new == Servers!Sent(kind, s)
<1>1. /\ serverRequests' = serverRequests \cup {new} /\ new \in Servers!ServerRequest
      /\ new.kind = kind /\ new.server = s /\ new.served = FALSE /\ new.answer = {}
      /\ tangled \subseteq tangled' /\ tangled' \subseteq {"create", "other"}
      /\ tangled' = {} => \A r \in serverRequests : r.kind \in Servers!Reads /\ kind \in Servers!Reads
      /\ "create" \notin tangled' /\ kind \in Servers!Reads => \A r \in serverRequests : r.kind # "create"
      /\ "create" \notin tangled' /\ kind = "create" => \A r \in serverRequests : r.kind \notin Servers!Reads
    BY ServersAsked DEF Servers!Sent
<1> HIDE DEF new
<1>2. ServersTyped'
    BY <1>1 DEF ServersInv, ServersTyped, Servers!ServerTypeOK, Servers!State
<1>3. Apart'
    <2> SUFFICES ASSUME "create" \notin tangled' PROVE
            /\ \A t \in DbServer : dbServers[t] <= 1
            /\ \A r \in serverRequests' : r.kind = "create" =>
                   /\ dbServers[r.server] = 0
                   /\ \A q \in serverRequests' :
                          /\ q.kind \notin Servers!Reads
                          /\ q.kind = "create" => q = r \/ q.server # r.server
        BY DEF Apart
    <2>1. "create" \notin tangled
        BY <1>1
    <2>2. ASSUME kind = "create", NEW q \in serverRequests, q.kind = "create" PROVE q.server # s
        <3>1. q.served => q.server \in rows
            BY <2>2 DEF ServersInv, OneAtATime
        <3>2. ASSUME ~q.served, q.server = s PROVE FALSE
            <4>1. q \in Servers!ServerRequest /\ q.answer = {}
                BY <3>2 DEF ServersInv, ServersTyped, Servers!ServerTypeOK
            <4>2. q = Servers!Sent(kind, s)
                BY <2>2, <3>2, <4>1 DEF Servers!Sent, Servers!ServerRequest
            <4>3. QED BY <2>2, <4>2
        <3>3. QED BY <2>2, <3>1, <3>2
    <2>3. QED BY <1>1, <2>1, <2>2 DEF ServersInv, Apart, Servers!Reads
<1>4. OneAtATime'
    <2> SUFFICES ASSUME tangled' = {} PROVE OneAtATime'
        BY DEF OneAtATime
    <2>1. tangled = {} /\ \A t \in DbServer : dbServers[t] <= 1
        BY <1>1 DEF ServersInv, Apart
    <2>2. dbServers[s] \in Nat
        BY DEF ServersInv, ServersTyped, Servers!ServerTypeOK, Servers!MaxCopies
    <2>3. \A t : (Creating(t) => Creating(t)') /\ (Removing(t) => Removing(t)')
        BY <1>1 DEF Creating, Removing
    <2>4. QED BY <1>1, <2>1, <2>2, <2>3 DEF ServersInv, OneAtATime, Servers!State
<1>5. QED BY <1>2, <1>3, <1>4 DEF ServersInv

\* The steps of the user that ask for something.
LEMMA ServersUserStep ==
    ASSUME ServersInv,
           \/ Servers!ServerLogin \/ Servers!ReadGroup \/ Servers!EditDbServer \/ Servers!ServerSessionLost
           \/ \E s \in DbServer : Servers!Remove(s) \/ \E kind \in Servers!Saves : Servers!Save(kind, s)
    PROVE  ServersInv'
<1>1. /\ serverUser \in BOOLEAN /\ tempDbServer \in BOOLEAN /\ saveState \in Servers!State /\ listState \in Servers!State
      /\ {"list", "group", "create", "update", "remove"} \subseteq Servers!ServerKind
      /\ "loading" \in Servers!State /\ serverRequests \subseteq Servers!ServerRequest
      /\ tangled \subseteq {"create", "other"}
    BY DEF ServersInv, ServersTyped, Servers!ServerTypeOK, Servers!ServerKind, Servers!State
<1>2. ASSUME serverUser' \in BOOLEAN, tempDbServer' \in BOOLEAN,
             UNCHANGED <<rows, dbServers, listState, saveState, serverRequests>>,
             tangled' \subseteq {"create", "other"}, tangled \subseteq tangled'
      PROVE  ServersInv'
    <2>1. ServersTyped'
        BY <1>2 DEF ServersInv, ServersTyped, Servers!ServerTypeOK
    <2>2. Apart'
        BY <1>2 DEF ServersInv, Apart
    <2>3. OneAtATime'
        <3>1. \A t : (Creating(t)' <=> Creating(t)) /\ (Removing(t)' <=> Removing(t))
            BY <1>2 DEF Creating, Removing
        <3>2. QED BY <1>2, <3>1 DEF ServersInv, OneAtATime
    <2>4. QED BY <2>1, <2>2, <2>3 DEF ServersInv
<1>3. CASE Servers!ServerLogin
    <2>1. CASE listState = "loading"
        BY <1>1, <1>2, <1>3, <2>1 DEF Servers!ServerLogin
    <2>2. CASE listState # "loading"
        BY <1>1, <1>3, <2>2, AServer, ServersAskedStep DEF Servers!ServerLogin
    <2>3. QED BY <2>1, <2>2
<1>4. CASE Servers!ReadGroup
    BY <1>1, <1>4, AServer, ServersAskedStep DEF Servers!ReadGroup
<1>5. CASE Servers!EditDbServer
    BY <1>1, <1>2, <1>5 DEF Servers!EditDbServer
<1>6. CASE Servers!ServerSessionLost
    BY <1>1, <1>2, <1>6 DEF Servers!ServerSessionLost
<1>7. ASSUME NEW s \in DbServer, Servers!Remove(s) PROVE ServersInv'
    BY <1>1, <1>7, ServersAskedStep DEF Servers!Remove, Servers!MayAsk
<1>8. ASSUME NEW s \in DbServer, NEW kind \in Servers!Saves, Servers!Save(kind, s) PROVE ServersInv'
    BY <1>1, <1>8, ServersAskedStep DEF Servers!Save, Servers!MayAsk, Servers!Saves
<1>9. QED BY <1>3, <1>4, <1>5, <1>6, <1>7, <1>8

LEMMA ServersLogoutStep ==
    ASSUME ServersInv, Servers!ServerLogout
    PROVE  ServersInv'
<1>1. /\ serverUser' = FALSE /\ tempDbServer' = FALSE /\ rows' = rows
      /\ dbServers' = [s \in DbServer |-> 0]
      /\ listState' \in {"error", "none"} /\ saveState' \in {"error", "none"}
      /\ serverRequests' \subseteq serverRequests /\ \A r \in serverRequests' : r.kind = "group"
      /\ tangled' \subseteq tangled \cup {"other"}
      /\ tangled' = {} => serverRequests' = {}
    BY DEF Servers!ServerLogout
<1>2. dbServers' \in [DbServer -> 0..Servers!MaxCopies] /\ \A s \in DbServer : dbServers'[s] = 0
    BY <1>1 DEF Servers!MaxCopies
<1>3. ServersTyped'
    BY <1>1, <1>2 DEF ServersInv, ServersTyped, Servers!ServerTypeOK, Servers!State
<1>4. Apart'
    BY <1>1, <1>2 DEF Apart
<1>5. OneAtATime'
    BY <1>1, <1>2 DEF OneAtATime
<1>6. QED BY <1>3, <1>4, <1>5 DEF ServersInv

\* The answer of the server.
LEMMA ServersServed ==
    ASSUME ServersInv, NEW r \in serverRequests, Servers!ServeServers(r), UNCHANGED serverUser
    PROVE  ServersInv'
<1>1. /\ ~r.served /\ r \in Servers!ServerRequest /\ r.kind \in Servers!ServerKind /\ r.server \in DbServer
      /\ rows' = IF r.kind = "create" THEN rows \cup {r.server}
                 ELSE IF r.kind = "remove" THEN rows \ {r.server} ELSE rows
      /\ UNCHANGED <<dbServers, listState, saveState, tempDbServer, tangled, serverUser>>
    BY DEF Servers!ServeServers, ServersInv, ServersTyped, Servers!ServerTypeOK, Servers!ServerRequest
<1>2. PICK listed \in SUBSET rows' :
          /\ r.kind # "group" => listed = rows'
          /\ serverRequests' = (serverRequests \ {r}) \cup {[r EXCEPT !.served = TRUE, !.answer = listed]}
    BY DEF Servers!ServeServers
<1> DEFINE s == [r EXCEPT !.served = TRUE, !.answer = listed]
<1>3. rows' \subseteq DbServer
    BY <1>1 DEF ServersInv, ServersTyped, Servers!ServerTypeOK
<1>4. /\ s \in Servers!ServerRequest /\ s.served /\ s.answer = listed /\ s.kind = r.kind /\ s.server = r.server
      /\ serverRequests' = (serverRequests \ {r}) \cup {s}
    BY <1>1, <1>2, <1>3 DEF Servers!ServerRequest
<1> HIDE DEF s
<1>5. ServersTyped'
    BY <1>1, <1>3, <1>4 DEF ServersInv, ServersTyped, Servers!ServerTypeOK
<1>6. Apart'
    BY <1>1, <1>4 DEF ServersInv, Apart
<1>7. ASSUME tangled = {} PROVE OneAtATime'
    <2>1. /\ \A t \in DbServer : dbServers[t] <= 1
          /\ \A q \in serverRequests : q = r \/ (r.kind \in Servers!Reads /\ q.kind \in Servers!Reads)
          /\ r.kind = "remove" => dbServers[r.server] = 1
          /\ r.kind = "create" => dbServers[r.server] = 0
        BY <1>7 DEF ServersInv, Apart, OneAtATime
    <2>2. CASE r.kind \in Servers!Reads
        <3>1. rows' = rows /\ listed \subseteq rows /\ (r.kind = "list" => listed = rows)
            BY <1>1, <1>2, <2>2 DEF Servers!Reads
        <3>2. \A t : (Creating(t)' <=> Creating(t)) /\ (Removing(t)' <=> Removing(t))
            BY <1>1, <1>4, <2>2 DEF Creating, Removing, Servers!Reads
        <3>3. QED BY <1>1, <1>4, <1>7, <2>1, <2>2, <3>1, <3>2 DEF ServersInv, OneAtATime
    <2>3. CASE r.kind \notin Servers!Reads
        <3>1. serverRequests = {r} /\ serverRequests' = {s}
            BY <1>4, <2>1, <2>3
        <3>2. \A t : ~Creating(t) /\ ~Removing(t)
            BY <1>1, <3>1 DEF Creating, Removing
        <3>3. \A t : /\ Creating(t)' <=> r.kind = "create" /\ t = r.server
                     /\ Removing(t)' <=> r.kind = "remove" /\ t = r.server
            BY <1>4, <3>1 DEF Creating, Removing
        <3>4. /\ \A t \in DbServer : dbServers[t] = 1 => t \in rows
              /\ listState = "success" => \A t \in rows : dbServers[t] = 1
            BY <1>7, <3>2 DEF ServersInv, OneAtATime
        <3>5. QED BY <1>1, <1>4, <2>1, <2>3, <3>1, <3>3, <3>4 DEF OneAtATime
    <2>4. QED BY <2>2, <2>3
<1>8. QED BY <1>1, <1>5, <1>6, <1>7 DEF ServersInv, OneAtATime

\* What a request that is alone, and over, leaves to be held.
LEMMA ServersAlone ==
    ASSUME ServersInv, tangled = {}, NEW r \in serverRequests, r.kind \notin Servers!Reads
    PROVE  /\ serverRequests = {r}
           /\ \A t : /\ Creating(t) <=> r.kind = "create" /\ r.served /\ t = r.server
                     /\ Removing(t) <=> r.kind = "remove" /\ r.served /\ t = r.server
           /\ r.kind = "create" => dbServers[r.server] = 0
           /\ r.kind = "remove" => dbServers[r.server] = 1
<1>1. serverRequests = {r}
    BY DEF ServersInv, OneAtATime
<1>2. QED BY <1>1 DEF ServersInv, OneAtATime, Apart, Creating, Removing

LEMMA ServersAnsweredStep ==
    ASSUME ServersInv, NEW r \in serverRequests, UNCHANGED serverUser,
           \/ Servers!ServersListed(r) \/ Servers!ServerCreated(r) \/ Servers!ServerUpdated(r)
           \/ Servers!ServerRemoved(r) \/ Servers!ServerRequestFails(r)
    PROVE  ServersInv'
<1>1. /\ r \in Servers!ServerRequest /\ r.kind \in Servers!ServerKind /\ r.server \in DbServer
      /\ r.answer \subseteq DbServer
      /\ serverRequests \subseteq Servers!ServerRequest
      /\ serverUser \in BOOLEAN /\ tempDbServer \in BOOLEAN /\ listState \in Servers!State /\ saveState \in Servers!State
      /\ rows \subseteq DbServer /\ tangled \subseteq {"create", "other"}
      /\ \A q \in serverRequests : ~q.served => q.answer = {}
      /\ \A t \in DbServer : dbServers[t] \in {0, 1, 2}
      /\ dbServers \in [DbServer -> {0, 1, 2}]
      /\ "success" \in Servers!State /\ "error" \in Servers!State
    BY DEF ServersInv, ServersTyped, Servers!ServerTypeOK, Servers!ServerRequest, Servers!MaxCopies, Servers!State
<1>2. rows' = rows /\ serverRequests' = serverRequests \ {r} /\ serverUser' = serverUser
    BY DEF Servers!ServersListed, Servers!ServerCreated, Servers!ServerUpdated, Servers!ServerRemoved,
           Servers!ServerRequestFails, Servers!Answered
<1>3. ASSUME dbServers' \in [DbServer -> {0, 1, 2}], tempDbServer' \in BOOLEAN,
             listState' \in Servers!State, saveState' \in Servers!State, tangled' \subseteq {"create", "other"}
      PROVE  ServersTyped'
    BY <1>1, <1>2, <1>3 DEF ServersTyped, Servers!ServerTypeOK, Servers!MaxCopies
<1>4. CASE Servers!ServersListed(r)
    <2>1. /\ r.served /\ r.kind \in Servers!Reads
          /\ dbServers' = [t \in DbServer |-> IF t \in r.answer THEN Servers!AtMost(Servers!Added(t)) ELSE dbServers[t]]
          /\ listState' = IF r.kind = "list" THEN "success" ELSE listState
          /\ UNCHANGED <<saveState, tempDbServer, tangled>>
        BY <1>4 DEF Servers!ServersListed, Servers!Answered
    <2>2. \A t \in DbServer : dbServers'[t] = IF t \in r.answer /\ dbServers[t] = 0 THEN 1 ELSE dbServers[t]
        BY <1>1, <2>1 DEF Servers!AtMost, Servers!Added, Servers!MaxCopies
    <2>3. ServersTyped'
        BY <1>1, <1>3, <2>1, <2>2
    <2>4. Apart'
        <3> SUFFICES ASSUME "create" \notin tangled PROVE Apart'
            BY <2>1 DEF Apart
        <3>1. \A q \in serverRequests : q.kind # "create"
            BY <2>1 DEF ServersInv, Apart
        <3>2. QED BY <1>1, <1>2, <2>1, <2>2, <3>1 DEF ServersInv, Apart
    <2>5. OneAtATime'
        <3> SUFFICES ASSUME tangled = {} PROVE OneAtATime'
            BY <2>1 DEF OneAtATime
        <3>1. /\ \A q \in serverRequests : q.kind \in Servers!Reads
              /\ r.answer \subseteq rows /\ (r.kind = "list" => r.answer = rows)
            BY <2>1 DEF ServersInv, OneAtATime
        <3>2. \A t : ~Creating(t) /\ ~Removing(t)
            BY <3>1 DEF Creating, Removing, Servers!Reads
        <3>3. /\ \A t \in DbServer : dbServers[t] <= 1 /\ (dbServers[t] = 1 => t \in rows)
              /\ listState = "success" => \A t \in rows : dbServers[t] = 1
            BY <3>2 DEF ServersInv, OneAtATime, Apart
        <3>4. \A t \in DbServer : dbServers'[t] = 1 => t \in rows
            BY <1>1, <2>2, <3>1, <3>3
        <3>5. listState' = "success" => \A t \in rows : dbServers'[t] = 1
            BY <1>1, <2>1, <2>2, <3>1, <3>3
        <3>6. \A q \in serverRequests : /\ q.kind \in Servers!Reads /\ q.kind # "remove" /\ q.kind # "create"
                                        /\ q.served => q.answer \subseteq rows /\ (q.kind = "list" => q.answer = rows)
            BY <3>1 DEF ServersInv, OneAtATime, Servers!Reads
        <3>7. QED BY <1>2, <2>1, <3>4, <3>5, <3>6 DEF OneAtATime
    <2>6. QED BY <2>3, <2>4, <2>5 DEF ServersInv
<1>5. CASE Servers!ServerCreated(r)
    <2>1. /\ r.served /\ r.kind = "create"
          /\ dbServers' = [dbServers EXCEPT ![r.server] = Servers!AtMost(@ + 1)]
          /\ saveState' = "success" /\ tempDbServer' \in {tempDbServer, FALSE}
          /\ UNCHANGED <<listState, tangled>>
        BY <1>1, <1>5 DEF Servers!ServerCreated, Servers!Answered, Servers!Saved
    <2>2. /\ \A t \in DbServer \ {r.server} : dbServers'[t] = dbServers[t]
          /\ dbServers[r.server] = 0 => dbServers'[r.server] = 1
          /\ dbServers' \in [DbServer -> {0, 1, 2}]
        BY <1>1, <2>1 DEF Servers!AtMost, Servers!MaxCopies
    <2>3. ServersTyped'
        BY <1>1, <1>3, <2>1, <2>2
    <2>4. Apart'
        BY <1>1, <1>2, <2>1, <2>2 DEF ServersInv, Apart
    <2>5. OneAtATime'
        <3> SUFFICES ASSUME tangled = {} PROVE OneAtATime'
            BY <2>1 DEF OneAtATime
        <3>1. r.kind \notin Servers!Reads
            BY <2>1 DEF Servers!Reads
        <3>2. /\ serverRequests' = {} /\ dbServers'[r.server] = 1 /\ r.server \in rows
              /\ \A t : ~Removing(t) /\ (Creating(t) => t = r.server)
            BY <1>2, <2>1, <2>2, <3>1, ServersAlone DEF ServersInv, OneAtATime
        <3>3. QED BY <1>1, <1>2, <2>1, <2>2, <3>2 DEF ServersInv, OneAtATime
    <2>6. QED BY <2>3, <2>4, <2>5 DEF ServersInv
<1>6. CASE Servers!ServerUpdated(r)
    <2>1. /\ r.kind = "update" /\ UNCHANGED <<dbServers, listState, tangled>>
          /\ saveState' \in {saveState, "success"} /\ tempDbServer' \in {tempDbServer, FALSE}
        BY <1>1, <1>6 DEF Servers!ServerUpdated, Servers!Answered, Servers!Saved
    <2>2. ServersTyped'
        BY <1>1, <1>3, <2>1
    <2>3. Apart'
        BY <1>2, <2>1 DEF ServersInv, Apart
    <2>4. OneAtATime'
        <3> SUFFICES ASSUME tangled = {} PROVE OneAtATime'
            BY <2>1 DEF OneAtATime
        <3>1. r.kind \notin Servers!Reads
            BY <2>1 DEF Servers!Reads
        <3>2. serverRequests' = {} /\ \A t : ~Removing(t) /\ ~Creating(t)
            BY <1>2, <2>1, <3>1, ServersAlone
        <3>3. QED BY <1>2, <2>1, <3>2 DEF ServersInv, OneAtATime
    <2>5. QED BY <2>2, <2>3, <2>4 DEF ServersInv
<1>7. CASE Servers!ServerRemoved(r)
    <2>1. /\ r.served /\ r.kind = "remove"
          /\ dbServers' = [dbServers EXCEPT ![r.server] = Servers!Removed(r.server)]
          /\ UNCHANGED <<listState, saveState, tempDbServer, tangled>>
        BY <1>7 DEF Servers!ServerRemoved, Servers!Answered
    <2>2. /\ \A t \in DbServer \ {r.server} : dbServers'[t] = dbServers[t]
          /\ dbServers'[r.server] = IF dbServers[r.server] = 0 THEN 0 ELSE dbServers[r.server] - 1
          /\ dbServers' \in [DbServer -> {0, 1, 2}]
        BY <1>1, <2>1 DEF Servers!Removed
    <2>3. ServersTyped'
        BY <1>1, <1>3, <2>1, <2>2
    <2>4. Apart'
        BY <1>1, <1>2, <2>1, <2>2 DEF ServersInv, Apart
    <2>5. OneAtATime'
        <3> SUFFICES ASSUME tangled = {} PROVE OneAtATime'
            BY <2>1 DEF OneAtATime
        <3>1. r.kind \notin Servers!Reads
            BY <2>1 DEF Servers!Reads
        <3>2. /\ serverRequests' = {} /\ dbServers'[r.server] = 0 /\ r.server \notin rows
              /\ \A t : ~Creating(t) /\ (Removing(t) => t = r.server)
            BY <1>2, <2>1, <2>2, <3>1, ServersAlone DEF ServersInv, OneAtATime
        <3>3. QED BY <1>1, <1>2, <2>1, <2>2, <3>2 DEF ServersInv, OneAtATime
    <2>6. QED BY <2>3, <2>4, <2>5 DEF ServersInv
<1>8. CASE Servers!ServerRequestFails(r)
    <2>1. /\ listState' = IF r.kind = "list" THEN "error" ELSE listState
          /\ saveState' \in {saveState, "error"}
          /\ tangled' = tangled \cup (IF r.served \/ r.kind \in Servers!Reads THEN {"other"} ELSE {})
          /\ UNCHANGED <<dbServers, tempDbServer>>
        BY <1>8 DEF Servers!ServerRequestFails
    <2>2. ServersTyped'
        BY <1>1, <1>3, <2>1
    <2>3. Apart'
        BY <1>2, <2>1 DEF ServersInv, Apart
    <2>4. OneAtATime'
        <3> SUFFICES ASSUME tangled' = {} PROVE OneAtATime'
            BY DEF OneAtATime
        <3>1. tangled = {} /\ ~r.served /\ r.kind \notin Servers!Reads /\ r.kind # "list"
            BY <2>1 DEF Servers!Reads
        <3>2. serverRequests' = {} /\ \A t : ~Removing(t) /\ ~Creating(t)
            BY <1>2, <3>1, ServersAlone
        <3>3. QED BY <1>2, <2>1, <3>1, <3>2 DEF ServersInv, OneAtATime
    <2>5. QED BY <2>2, <2>3, <2>4 DEF ServersInv
<1>9. QED BY <1>4, <1>5, <1>6, <1>7, <1>8

LEMMA ServersStep ==
    ASSUME ServersInv, Servers!ServerNext
    PROVE  ServersInv'
<1>1. ASSUME Servers!ServersAnswered(Servers!ServerKind) PROVE ServersInv'
    BY <1>1, ServersServed, ServersAnsweredStep DEF Servers!ServersAnswered
<1>2. QED BY <1>1, ServersUserStep, ServersLogoutStep DEF Servers!ServerNext

LEMMA ServersKept == ServersInv => Servers!NoServerTwice /\ Servers!ServersRight
<1> SUFFICES ASSUME ServersInv PROVE Servers!NoServerTwice /\ Servers!ServersRight
    OBVIOUS
<1>1. Servers!NoServerTwice
    BY DEF ServersInv, Apart, Servers!NoServerTwice
<1>2. ASSUME tangled = {}, serverRequests = {}, listState = "success", NEW s \in DbServer
      PROVE  dbServers[s] = IF s \in rows THEN 1 ELSE 0
    <2>1. dbServers[s] \in {0, 1}
        BY <1>2 DEF ServersInv, ServersTyped, Servers!ServerTypeOK, Servers!MaxCopies, Apart
    <2>2. ~Creating(s) /\ ~Removing(s)
        BY <1>2 DEF Creating, Removing
    <2>3. QED BY <1>2, <2>1, <2>2 DEF ServersInv, OneAtATime
<1>3. QED BY <1>1, <1>2 DEF Servers!ServersRight

-----------------------------------------------------------------------------
(* The batches of schema queries                                           *)

BatchesTyped ==
    /\ schemaUser \in BOOLEAN /\ drafts \in BOOLEAN
    /\ listing \in Seq(Query) /\ Len(listing) > 0 /\ listing[1] = Default
    /\ \A i, j \in 1..Len(listing) : listing[i] = listing[j] => i = j
    /\ schemaQueries \in [Query -> 0..Batches!MaxCopies]
    /\ loadedSchemaQueries \in [loaded : Nat, state : Batches!REST]
    /\ schemaRequests \subseteq Batches!Request
    /\ \A r \in schemaRequests :
           r.kind \in {"create", "created", "destroy", "destroyed"} => r.query # Default
    /\ disturbed \subseteq Batches!Cause

\* What is served and not answered yet is noted.
Noted ==
    \A r \in schemaRequests :
        /\ r.kind = "created" => "created" \in disturbed
        /\ r.kind = "destroyed" => "destroyed" \in disturbed

\* A batch that is under way is the one the store waits for, and begins behind what is loaded.
InTurn ==
    "late" \notin disturbed =>
        \A r \in schemaRequests :
            r.kind = "batch" /\ r.here =>
                /\ r.offset = loadedSchemaQueries.loaded /\ r.query = Default
                /\ loadedSchemaQueries.state = "requested"

\* The first queries of the listing are held: as many as are loaded.
Coming(q) == \E r \in schemaRequests : r.kind = "created" /\ r.query = q

FirstHeld ==
    disturbed \subseteq {"created"} =>
        \A q \in Query, i \in 1..Len(listing) :
            listing[i] = q /\ i <= loadedSchemaQueries.loaded => schemaQueries[q] > 0 \/ Coming(q)

\* The rest is not held, but for the default query, and nothing is held twice.
RestNotHeld ==
    disturbed \subseteq {"destroyed"} =>
        /\ \A q \in Query : schemaQueries[q] <= 1
        /\ \A i \in 1..Len(listing) :
               i > loadedSchemaQueries.loaded /\ listing[i] # Default => schemaQueries[listing[i]] = 0

BatchesInv == BatchesTyped /\ Noted /\ InTurn /\ FirstHeld /\ RestNotHeld

LEMMA BatchesStart == Batches!SchemaInit => BatchesInv
<1> SUFFICES ASSUME Batches!SchemaInit PROVE BatchesInv
    OBVIOUS
<1> DEFINE Others == Query \ {Default, Unborn}
           rest == Batches!SetToSeq(Others)
           n == Cardinality(Others)
<1>1. /\ Default \in Query /\ Unborn \in Query /\ Unborn # Default /\ IsFiniteSet(Query)
      /\ Default \notin Others /\ Others \subseteq Query
    BY WaitsAssumption DEF Batches!SchemaBatchesAssumption, Batches!IsFiniteSet, IsFiniteSet
<1>2. n \in Nat /\ \E f \in [1..n -> Others] : \A a, b \in 1..n : f[a] = f[b] => a = b
    <2>1. IsFiniteSet(Others)
        BY <1>1, FS_Subset
    <2>2. n \in Nat /\ ExistsBijection(1..n, Others)
        BY <2>1, FS_CardinalityType
    <2>3. PICK g \in Bijection(1..n, Others) : TRUE
        BY <2>2 DEF ExistsBijection
    <2>4. g \in [1..n -> Others] /\ \A a, b \in 1..n : g[a] = g[b] => a = b
        BY <2>3 DEF Bijection, Injection, IsInjective
    <2>5. QED BY <2>2, <2>4
<1> HIDE DEF n, Others
<1>3. rest \in [1..n -> Others] /\ \A a, b \in 1..n : rest[a] = rest[b] => a = b
    <2>1. rest = CHOOSE f \in [1..n -> Others] : \A a, b \in DOMAIN f : f[a] = f[b] => a = b
        BY DEF Batches!SetToSeq, Batches!IsInjective, Batches!Cardinality, Cardinality, n
    <2>2. \E f \in [1..n -> Others] : \A a, b \in DOMAIN f : f[a] = f[b] => a = b
        BY <1>2
    <2>3. rest \in [1..n -> Others] /\ \A a, b \in DOMAIN rest : rest[a] = rest[b] => a = b
        <3> HIDE DEF rest
        <3>1. QED BY <2>1, <2>2
    <2> HIDE DEF rest
    <2>4. QED BY <2>3
<1>4. listing = <<Default>> \o rest
    BY DEF Batches!SchemaInit, Others
<1> HIDE DEF rest
<1>5. rest \in Seq(Query) /\ Len(rest) = n
    BY <1>1, <1>2, <1>3
<1>6. /\ listing \in Seq(Query) /\ Len(listing) = n + 1 /\ listing[1] = Default
      /\ \A i \in 1..n : listing[i + 1] = rest[i]
    <2>1. <<Default>> \in Seq(Query) /\ Len(<<Default>>) = 1 /\ <<Default>>[1] = Default
        BY <1>1
    <2>2. /\ listing \in Seq(Query) /\ Len(listing) = n + 1
          /\ \A i \in 1..(n + 1) : listing[i] = IF i <= 1 THEN <<Default>>[i] ELSE rest[i - 1]
        BY <1>2, <1>4, <1>5, <2>1, ConcatProperties
    <2>3. QED BY <1>2, <2>1, <2>2
<1>7. \A i, j \in 1..Len(listing) : listing[i] = listing[j] => i = j
    <2>1. \A i \in 2..(n + 1) : i - 1 \in 1..n /\ listing[i] = rest[i - 1] /\ listing[i] # Default
        <3> SUFFICES ASSUME NEW i \in 2..(n + 1)
                     PROVE  i - 1 \in 1..n /\ listing[i] = rest[i - 1] /\ listing[i] # Default
            OBVIOUS
        <3>1. i - 1 \in 1..n /\ (i - 1) + 1 = i
            BY <1>2
        <3>2. listing[(i - 1) + 1] = rest[i - 1] /\ rest[i - 1] \in Others
            BY <1>3, <1>6, <3>1
        <3>3. QED BY <1>1, <3>1, <3>2
    <2>2. ASSUME NEW i \in 2..(n + 1), NEW j \in 2..(n + 1), listing[i] = listing[j] PROVE i = j
        <3>1. i - 1 = j - 1
            BY <1>3, <2>1, <2>2
        <3>2. QED BY <3>1, <1>2
    <2>3. \A i \in 1..(n + 1) : i = 1 \/ i \in 2..(n + 1)
        BY <1>2
    <2>4. QED BY <1>6, <2>1, <2>2, <2>3
<1>8. /\ schemaQueries \in [Query -> 0..Batches!MaxCopies]
      /\ \A q \in Query : schemaQueries[q] = 0
    BY DEF Batches!SchemaInit, Batches!MaxCopies
<1>9. /\ schemaUser = FALSE /\ drafts = FALSE /\ disturbed = {}
      /\ loadedSchemaQueries = [loaded |-> 0, state |-> "none"]
      /\ schemaRequests = {Batches!Sent("default", 0, Default)}
    BY DEF Batches!SchemaInit, Batches!NewState
<1>10. Batches!Sent("default", 0, Default) \in Batches!Request /\ Batches!Sent("default", 0, Default).kind = "default"
    BY <1>1 DEF Batches!Sent, Batches!Request, Batches!Kind
<1>11. BatchesTyped
    <2>1. loadedSchemaQueries \in [loaded : Nat, state : Batches!REST]
        BY <1>9 DEF Batches!REST
    <2>2. Len(listing) > 0
        BY <1>2, <1>6
    <2>3. /\ schemaRequests \subseteq Batches!Request
          /\ \A r \in schemaRequests :
                 r.kind \in {"create", "created", "destroy", "destroyed"} => r.query # Default
        BY <1>9, <1>10
    <2>4. QED BY <1>6, <1>7, <1>8, <1>9, <2>1, <2>2, <2>3 DEF BatchesTyped
<1>12. Noted /\ InTurn
    BY <1>9, <1>10 DEF Noted, InTurn
<1>13. FirstHeld /\ RestNotHeld
    <2>1. \A i \in 1..Len(listing) : listing[i] \in Query
        BY <1>6
    <2>2. QED BY <1>8, <1>9, <2>1 DEF FirstHeld, RestNotHeld
<1>14. QED BY <1>11, <1>12, <1>13 DEF BatchesInv

\* A query that comes second moves those behind it down by one.
LEMMA InsertedSecond ==
    ASSUME NEW S, NEW s \in Seq(S), Len(s) > 0, NEW e \in S
    PROVE  /\ Batches!InsertAt(s, 2, e) \in Seq(S) /\ Len(Batches!InsertAt(s, 2, e)) = Len(s) + 1
           /\ \A i \in 1..(Len(s) + 1) :
                  Batches!InsertAt(s, 2, e)[i] = IF i = 1 THEN s[1] ELSE IF i = 2 THEN e ELSE s[i - 1]
<1> DEFINE t == SubSeq(s, 1, 1)
           u == SubSeq(s, 2, Len(s))
<1>1. /\ t \in Seq(S) /\ Len(t) = 1 /\ t[1] = s[1]
      /\ u \in Seq(S) /\ Len(u) = Len(s) - 1 /\ \A i \in 1..(Len(s) - 1) : u[i] = s[i + 1]
    <2>1. \A i \in 1..Len(s) : s[i] \in S
        OBVIOUS
    <2>2. /\ SubSeq(s, 1, 1) \in Seq(S) /\ Len(SubSeq(s, 1, 1)) = 1
          /\ \A i \in 1..1 : SubSeq(s, 1, 1)[i] = s[1 + i - 1]
        BY <2>1, SubSeqProperties
    <2>3. /\ u \in Seq(S)
          /\ Len(u) = IF 2 <= Len(s) THEN Len(s) - 2 + 1 ELSE 0
          /\ \A i \in 1..(Len(s) - 2 + 1) : u[i] = s[2 + i - 1]
        BY <2>1, SubSeqProperties
    <2>4. Len(s) \in Nat
        OBVIOUS
    <2>5. t \in Seq(S) /\ Len(t) = 1 /\ t[1] = s[1]
        BY <2>2
    <2> HIDE DEF t, u
    <2>6. u \in Seq(S) /\ Len(u) = Len(s) - 1
        <3> DEFINE n == Len(s)
        <3>1. n \in Nat /\ n > 0 /\ Len(u) = IF 2 <= n THEN n - 2 + 1 ELSE 0
            BY <2>3, <2>4
        <3> HIDE DEF n
        <3>2. Len(u) = n - 1
            BY <3>1
        <3>3. QED BY <2>3, <3>2 DEF n
    <2>7. ASSUME NEW i \in 1..(Len(s) - 1) PROVE u[i] = s[i + 1]
        <3>1. i \in 1..(Len(s) - 2 + 1) /\ 2 + i - 1 = i + 1
            BY <2>4
        <3>2. QED BY <2>3, <3>1
    <2>8. QED BY <2>5, <2>6, <2>7
<1>2. Batches!InsertAt(s, 2, e) = t \o <<e>> \o u
    BY DEF Batches!InsertAt
<1> HIDE DEF t, u
<1>3. t \o <<e>> \in Seq(S) /\ Len(t \o <<e>>) = 2 /\ (t \o <<e>>)[1] = s[1] /\ (t \o <<e>>)[2] = e
    <2>1. <<e>> \in Seq(S) /\ Len(<<e>>) = 1 /\ <<e>>[1] = e
        OBVIOUS
    <2>2. /\ t \o <<e>> \in Seq(S) /\ Len(t \o <<e>>) = Len(t) + Len(<<e>>)
          /\ \A i \in 1..(Len(t) + Len(<<e>>)) :
                 (t \o <<e>>)[i] = IF i <= Len(t) THEN t[i] ELSE <<e>>[i - Len(t)]
        BY <1>1, <2>1, ConcatProperties
    <2> DEFINE o == <<e>>
    <2> HIDE DEF o
    <2>3. /\ t \o o \in Seq(S) /\ Len(t \o o) = 2 /\ (t \o o)[1] = t[1] /\ (t \o o)[2] = o[1]
        <3>1. /\ t \o o \in Seq(S) /\ Len(t \o o) = Len(t) + Len(o) /\ Len(t) = 1 /\ Len(o) = 1
              /\ \A i \in 1..(Len(t) + Len(o)) : (t \o o)[i] = IF i <= Len(t) THEN t[i] ELSE o[i - Len(t)]
            BY <1>1, <2>1, <2>2 DEF o
        <3>2. \A i \in 1..2 : (t \o o)[i] = IF i <= 1 THEN t[i] ELSE o[i - 1]
            BY <3>1
        <3>3. QED BY <3>1, <3>2
    <2>4. QED BY <1>1, <2>1, <2>3 DEF o
<1>4. /\ (t \o <<e>>) \o u \in Seq(S) /\ Len((t \o <<e>>) \o u) = Len(s) + 1
      /\ \A i \in 1..(Len(s) + 1) : ((t \o <<e>>) \o u)[i] = IF i <= 2 THEN (t \o <<e>>)[i] ELSE u[i - 2]
    BY <1>1, <1>3, ConcatProperties
<1> DEFINE v == (t \o <<e>>) \o u
           w == t \o <<e>>
<1>5. /\ v \in Seq(S) /\ Len(v) = Len(s) + 1 /\ w[1] = s[1] /\ w[2] = e
      /\ \A i \in 1..(Len(s) + 1) : v[i] = IF i <= 2 THEN w[i] ELSE u[i - 2]
    BY <1>3, <1>4
<1>6. Batches!InsertAt(s, 2, e) = v
    BY <1>2
<1> HIDE DEF v, w
<1>7. ASSUME NEW i \in 1..(Len(s) + 1)
      PROVE  v[i] = IF i = 1 THEN s[1] ELSE IF i = 2 THEN e ELSE s[i - 1]
    <2>1. Len(s) \in Nat
        OBVIOUS
    <2>2. CASE i <= 2
        BY <1>5, <2>1, <2>2
    <2>3. CASE ~(i <= 2)
        <3>1. i - 2 \in 1..(Len(s) - 1) /\ (i - 2) + 1 = i - 1
            BY <2>1, <2>3
        <3>2. v[i] = u[i - 2]
            BY <1>5, <2>3
        <3>3. u[i - 2] = s[i - 1]
            BY <1>1, <3>1
        <3>4. i # 1 /\ i # 2
            BY <2>1, <2>3
        <3>5. QED BY <3>2, <3>3, <3>4
    <2>4. QED BY <2>2, <2>3
<1>8. QED BY <1>5, <1>6, <1>7

\* A query that is taken away moves those behind it up by one.
LEMMA RemovedFrom ==
    ASSUME NEW S, NEW s \in Seq(S), NEW k \in 1..Len(s)
    PROVE  /\ Batches!RemoveAt(s, k) \in Seq(S) /\ Len(Batches!RemoveAt(s, k)) = Len(s) - 1
           /\ \A i \in 1..(Len(s) - 1) : Batches!RemoveAt(s, k)[i] = IF i < k THEN s[i] ELSE s[i + 1]
<1> DEFINE t == SubSeq(s, 1, k - 1)
           u == SubSeq(s, k + 1, Len(s))
<1>1. /\ t \in Seq(S) /\ Len(t) = k - 1 /\ \A i \in 1..(k - 1) : t[i] = s[i]
      /\ u \in Seq(S) /\ Len(u) = Len(s) - k /\ \A i \in 1..(Len(s) - k) : u[i] = s[k + i]
    <2>1. \A i \in 1..Len(s) : s[i] \in S
        OBVIOUS
    <2>2. /\ SubSeq(s, 1, k - 1) \in Seq(S)
          /\ Len(SubSeq(s, 1, k - 1)) = IF 1 <= k - 1 THEN k - 1 - 1 + 1 ELSE 0
          /\ \A i \in 1..(k - 1 - 1 + 1) : SubSeq(s, 1, k - 1)[i] = s[1 + i - 1]
        BY <2>1, SubSeqProperties
    <2>3. /\ SubSeq(s, k + 1, Len(s)) \in Seq(S)
          /\ Len(SubSeq(s, k + 1, Len(s))) = IF k + 1 <= Len(s) THEN Len(s) - (k + 1) + 1 ELSE 0
          /\ \A i \in 1..(Len(s) - (k + 1) + 1) : SubSeq(s, k + 1, Len(s))[i] = s[k + 1 + i - 1]
        BY <2>1, SubSeqProperties
    <2>4. QED BY <2>2, <2>3
<1>2. Batches!RemoveAt(s, k) = t \o u
    BY DEF Batches!RemoveAt
<1> HIDE DEF t, u
<1>3. /\ t \o u \in Seq(S) /\ Len(t \o u) = Len(t) + Len(u)
      /\ \A i \in 1..(Len(t) + Len(u)) : (t \o u)[i] = IF i <= Len(t) THEN t[i] ELSE u[i - Len(t)]
    BY <1>1, ConcatProperties
<1>4. Len(t) + Len(u) = Len(s) - 1
    BY <1>1
<1>5. ASSUME NEW i \in 1..(Len(s) - 1) PROVE (t \o u)[i] = IF i < k THEN s[i] ELSE s[i + 1]
    <2>1. CASE i < k
        BY <1>1, <1>3, <1>4, <2>1
    <2>2. CASE ~(i < k)
        <3>1. i - Len(t) \in 1..(Len(s) - k) /\ k + (i - Len(t)) = i + 1 /\ ~(i <= Len(t))
            BY <1>1, <2>2
        <3>2. QED BY <1>1, <1>3, <1>4, <2>2, <3>1
    <2>3. QED BY <2>1, <2>2
<1>6. QED BY <1>2, <1>3, <1>4, <1>5

\* A batch: what is listed behind the offset, up to its size or to the end.
LEMMA BatchIs ==
    ASSUME BatchesTyped, NEW offset \in Nat
    PROVE  \E n \in Nat :
              /\ Len(Batches!Batch(offset)) = n
              /\ \A q \in Query : q \in Batches!ToSet(Batches!Batch(offset))
                                  <=> \E i \in 1..Len(listing) : offset < i /\ i <= offset + n /\ listing[i] = q
<1> DEFINE upto == Batches!Min({offset + BatchSize, Len(listing)})
           n == IF offset + 1 <= upto THEN upto - offset ELSE 0
<1>1. BatchSize \in Nat /\ listing \in Seq(Query) /\ Len(listing) \in Nat
    BY WaitsAssumption DEF Batches!SchemaBatchesAssumption, BatchesTyped
<1>2. upto \in {offset + BatchSize, Len(listing)} /\ upto <= offset + BatchSize /\ upto <= Len(listing)
    <2>1. offset + BatchSize \in Nat
        BY <1>1
    <2>2. \E x \in {offset + BatchSize, Len(listing)} : \A y \in {offset + BatchSize, Len(listing)} : x <= y
        BY <1>1, <2>1
    <2>3. QED BY <2>2 DEF Batches!Min
<1>3. upto \in Nat /\ upto <= Len(listing)
    BY <1>1, <1>2
<1>4. Batches!Batch(offset) = SubSeq(listing, offset + 1, upto)
    BY DEF Batches!Batch
<1> HIDE DEF upto
<1>5. n \in Nat /\ (n > 0 => offset + n = upto)
    BY <1>3
<1>6. /\ SubSeq(listing, offset + 1, upto) \in Seq(Query) /\ Len(SubSeq(listing, offset + 1, upto)) = n
      /\ \A i \in 1..n : SubSeq(listing, offset + 1, upto)[i] = listing[offset + i]
    <2>1. \A i \in (offset + 1)..upto : listing[i] \in Query
        BY <1>1, <1>3
    <2>2. /\ SubSeq(listing, offset + 1, upto) \in Seq(Query)
          /\ Len(SubSeq(listing, offset + 1, upto)) = IF offset + 1 <= upto THEN upto - (offset + 1) + 1 ELSE 0
          /\ \A i \in 1..(upto - (offset + 1) + 1) : SubSeq(listing, offset + 1, upto)[i] = listing[offset + 1 + i - 1]
        BY <1>3, <2>1, SubSeqProperties
    <2>3. \A i \in 1..n : i \in 1..(upto - (offset + 1) + 1) /\ offset + 1 + i - 1 = offset + i
        BY <1>3
    <2>4. QED BY <1>3, <2>2, <2>3
<1> HIDE DEF n
<1>7. ASSUME NEW q \in Query
      PROVE  q \in Batches!ToSet(Batches!Batch(offset))
             <=> \E i \in 1..Len(listing) : offset < i /\ i <= offset + n /\ listing[i] = q
    <2>1. q \in Batches!ToSet(Batches!Batch(offset)) <=> \E i \in 1..n : listing[offset + i] = q
        <3> DEFINE b == SubSeq(listing, offset + 1, upto)
        <3>1. b \in Seq(Query) /\ Len(b) = n /\ \A i \in 1..n : b[i] = listing[offset + i]
            BY <1>6
        <3>2. Batches!Batch(offset) = b
            BY <1>4
        <3> HIDE DEF b
        <3>3. DOMAIN b = 1..n
            BY <3>1
        <3>4. QED BY <3>1, <3>2, <3>3 DEF Batches!ToSet
    <2>2. \A i \in 1..n : offset + i \in 1..Len(listing) /\ offset < offset + i /\ offset + i <= offset + n
        BY <1>1, <1>3, <1>5
    <2>3. \A i \in 1..Len(listing) :
              offset < i /\ i <= offset + n => i - offset \in 1..n /\ offset + (i - offset) = i
        BY <1>1, <1>5
    <2>4. QED BY <2>1, <2>2, <2>3
<1>8. QED BY <1>4, <1>5, <1>6, <1>7

\* The steps that leave what is listed: they may disturb, lose what is held, or ask for the next batch.
LEMMA BatchesUserStep ==
    ASSUME BatchesInv,
           \/ Batches!LoadNextBatch \/ Batches!SchemaRefresh \/ Batches!SchemaLogin \/ Batches!SchemaLogout
           \/ Batches!SchemaSessionLost \/ Batches!AddEmptySchemaQuery
           \/ \E kind \in {"save", "create", "destroy"}, q \in Query : Batches!Edit(kind, q)
    PROVE  BatchesInv'
<1>1. /\ BatchesTyped /\ Noted /\ InTurn /\ FirstHeld /\ RestNotHeld /\ Default \in Query
      /\ listing \in Seq(Query) /\ \A i \in 1..Len(listing) : listing[i] \in Query
    BY WaitsAssumption DEF BatchesInv, BatchesTyped, Batches!SchemaBatchesAssumption
<1>2. ASSUME NEW q \in Query, NEW offset \in Nat, NEW kind \in Batches!Kind
      PROVE  /\ Batches!Sent(kind, offset, q) \in Batches!Request
             /\ Batches!Sent(kind, offset, q).kind = kind /\ Batches!Sent(kind, offset, q).query = q
             /\ Batches!Sent(kind, offset, q).offset = offset
    BY DEF Batches!Sent, Batches!Request
<1>3. ASSUME UNCHANGED <<listing, schemaQueries, loadedSchemaQueries, disturbed>>,
             schemaUser' \in BOOLEAN, drafts' \in BOOLEAN, schemaRequests \subseteq schemaRequests',
             \A r \in schemaRequests' \ schemaRequests :
                 /\ r \in Batches!Request /\ r.kind \in {"save", "create", "destroy"}
                 /\ r.kind \in {"create", "destroy"} => r.query # Default
      PROVE  BatchesInv'
    <2>1. BatchesTyped'
        BY <1>1, <1>3 DEF BatchesTyped
    <2>2. Noted' /\ InTurn'
        BY <1>1, <1>3 DEF Noted, InTurn
    <2>3. FirstHeld' /\ RestNotHeld'
        <3>1. \A q : Coming(q)' <=> Coming(q)
            BY <1>3 DEF Coming
        <3>2. QED BY <1>1, <1>3, <3>1 DEF FirstHeld, RestNotHeld
    <2>4. QED BY <2>1, <2>2, <2>3 DEF BatchesInv
<1>4. ASSUME UNCHANGED <<listing, schemaQueries, drafts, disturbed>>, schemaUser' \in BOOLEAN,
             Batches!NextBatch(loadedSchemaQueries, schemaRequests)
      PROVE  BatchesInv'
    <2> DEFINE new == Batches!Sent("batch", loadedSchemaQueries.loaded, Default)
    <2>1. /\ loadedSchemaQueries' = [loadedSchemaQueries EXCEPT !.state = "requested"]
          /\ schemaRequests' \in {schemaRequests, schemaRequests \cup {new}}
          /\ loadedSchemaQueries.state = "requested" => schemaRequests' = schemaRequests
          /\ loadedSchemaQueries.state # "requested" => schemaRequests' = schemaRequests \cup {new}
        BY <1>4 DEF Batches!NextBatch, Batches!MayLoad
    <2>2. loadedSchemaQueries \in [loaded : Nat, state : Batches!REST] /\ "batch" \in Batches!Kind
        BY <1>1 DEF BatchesTyped, Batches!Kind
    <2>3. /\ new \in Batches!Request /\ new.kind = "batch" /\ new.query = Default
          /\ new.offset = loadedSchemaQueries.loaded
        BY <1>1, <1>2, <2>2
    <2> HIDE DEF new
    <2>4. /\ loadedSchemaQueries' \in [loaded : Nat, state : Batches!REST]
          /\ loadedSchemaQueries'.loaded = loadedSchemaQueries.loaded /\ loadedSchemaQueries'.state = "requested"
        BY <2>1, <2>2 DEF Batches!REST
    <2>5. BatchesTyped'
        BY <1>1, <1>4, <2>1, <2>3, <2>4 DEF BatchesTyped
    <2>6. Noted'
        BY <1>1, <1>4, <2>1, <2>3 DEF Noted
    <2>7. InTurn'
        BY <1>1, <1>4, <2>1, <2>3, <2>4 DEF InTurn
    <2>8. FirstHeld' /\ RestNotHeld'
        <3>1. \A q : Coming(q)' <=> Coming(q)
            BY <2>1, <2>3 DEF Coming
        <3>2. QED BY <1>1, <1>4, <2>4, <3>1 DEF FirstHeld, RestNotHeld
    <2>9. QED BY <2>5, <2>6, <2>7, <2>8 DEF BatchesInv
<1>5. ASSUME NEW r \in Batches!Request
      PROVE  /\ [r EXCEPT !.here = FALSE] \in Batches!Request /\ [r EXCEPT !.here = FALSE].kind = r.kind
             /\ [r EXCEPT !.here = FALSE].query = r.query /\ ~[r EXCEPT !.here = FALSE].here
    BY DEF Batches!Request
<1>6. /\ Batches!Late(schemaRequests) \subseteq Batches!Request
      /\ \A r \in Batches!Late(schemaRequests) :
             ~r.here /\ \E s \in schemaRequests : r.kind = s.kind /\ r.query = s.query
    <2>1. schemaRequests \subseteq Batches!Request
        BY <1>1 DEF BatchesTyped
    <2>2. SUFFICES ASSUME NEW r \in Batches!Late(schemaRequests)
                   PROVE  /\ r \in Batches!Request /\ ~r.here
                          /\ \E s \in schemaRequests : r.kind = s.kind /\ r.query = s.query
        OBVIOUS
    <2>3. PICK s \in schemaRequests : r = [s EXCEPT !.here = FALSE]
        BY DEF Batches!Late
    <2>4. QED BY <1>5, <2>1, <2>3
<1>7. ASSUME UNCHANGED <<listing, disturbed>>, schemaUser' \in BOOLEAN, Batches!Renewed,
             loadedSchemaQueries' \in [loaded : {0}, state : Batches!REST],
             \A r \in schemaRequests' \ Batches!Late(schemaRequests) :
                 /\ r \in Batches!Request /\ r.kind \in {"batch", "default"}
                 /\ r.kind = "batch" => /\ r.offset = 0 /\ r.query = Default
                                        /\ loadedSchemaQueries'.state = "requested"
      PROVE  BatchesInv'
    <2>1. /\ schemaQueries' \in [Query -> 0..Batches!MaxCopies] /\ drafts' = FALSE
          /\ \A q \in Query : schemaQueries'[q] = 0
        BY <1>7 DEF Batches!Renewed, Batches!MaxCopies
    <2>2. BatchesTyped'
        <3>1. /\ schemaRequests' \subseteq Batches!Request
              /\ \A r \in schemaRequests' :
                     r.kind \in {"create", "created", "destroy", "destroyed"} => r.query # Default
            BY <1>1, <1>6, <1>7 DEF BatchesTyped
        <3>2. loadedSchemaQueries' \in [loaded : Nat, state : Batches!REST]
            BY <1>7
        <3>3. QED BY <1>1, <1>7, <2>1, <3>1, <3>2 DEF BatchesTyped
    <2>3. Noted' /\ InTurn'
        BY <1>1, <1>6, <1>7 DEF Noted, InTurn
    <2>4. FirstHeld' /\ RestNotHeld'
        BY <1>1, <1>7, <2>1 DEF FirstHeld, RestNotHeld
    <2>5. QED BY <2>2, <2>3, <2>4 DEF BatchesInv
<1>8. schemaUser \in BOOLEAN /\ drafts \in BOOLEAN
    BY <1>1 DEF BatchesTyped
<1>9. CASE Batches!LoadNextBatch
    BY <1>4, <1>8, <1>9 DEF Batches!LoadNextBatch
<1>10. CASE Batches!SchemaRefresh
    <2> DEFINE batch == Batches!Sent("batch", Batches!NewState.loaded, Default)
               default == Batches!Sent("default", 0, Default)
    <2>1. /\ Batches!Renewed /\ UNCHANGED <<schemaUser, listing, disturbed>>
          /\ loadedSchemaQueries' = [Batches!NewState EXCEPT !.state = "requested"]
          /\ schemaRequests' = Batches!Late(schemaRequests) \cup {default, batch}
        BY <1>10 DEF Batches!SchemaRefresh, Batches!NextBatch, Batches!MayLoad, Batches!NewState
    <2>2. Batches!NewState.loaded = 0 /\ "batch" \in Batches!Kind /\ "default" \in Batches!Kind
        BY DEF Batches!NewState, Batches!Kind
    <2>3. /\ loadedSchemaQueries' \in [loaded : {0}, state : Batches!REST]
          /\ loadedSchemaQueries'.state = "requested"
        BY <2>1 DEF Batches!NewState, Batches!REST
    <2>4. /\ {default, batch} \subseteq Batches!Request /\ default.kind = "default" /\ batch.kind = "batch"
          /\ batch.offset = 0 /\ batch.query = Default
        BY <1>1, <1>2, <2>2
    <2> HIDE DEF default, batch
    <2>5. QED BY <1>7, <1>8, <2>1, <2>3, <2>4
<1>11. CASE Batches!SchemaLogin
    BY <1>4, <1>11 DEF Batches!SchemaLogin
<1>12. CASE Batches!SchemaLogout
    <2>1. loadedSchemaQueries' \in [loaded : {0}, state : Batches!REST]
        BY <1>12 DEF Batches!SchemaLogout, Batches!NewState, Batches!REST
    <2>2. schemaRequests' = Batches!Late(schemaRequests)
        BY <1>12 DEF Batches!SchemaLogout
    <2>3. QED BY <1>7, <1>12, <2>1, <2>2 DEF Batches!SchemaLogout
<1>13. CASE Batches!SchemaSessionLost
    <2>1. schemaRequests' = schemaRequests
        BY <1>13 DEF Batches!SchemaSessionLost
    <2>2. QED BY <1>3, <1>8, <1>13, <2>1 DEF Batches!SchemaSessionLost
<1>14. CASE Batches!AddEmptySchemaQuery
    <2>1. schemaRequests' = schemaRequests
        BY <1>14 DEF Batches!AddEmptySchemaQuery
    <2>2. QED BY <1>3, <1>8, <1>14, <2>1 DEF Batches!AddEmptySchemaQuery
<1>15. ASSUME NEW kind \in {"save", "create", "destroy"}, NEW q \in Query, Batches!Edit(kind, q) PROVE BatchesInv'
    <2>1. /\ schemaRequests' = schemaRequests \cup {Batches!Sent(kind, 0, q)}
          /\ kind \in {"create", "destroy"} => q # Default
          /\ UNCHANGED <<schemaUser, listing, schemaQueries, drafts, loadedSchemaQueries, disturbed>>
        BY <1>15 DEF Batches!Edit
    <2>2. kind \in Batches!Kind
        BY DEF Batches!Kind
    <2>3. QED BY <1>2, <1>3, <1>8, <2>1, <2>2
<1>16. QED BY <1>9, <1>10, <1>11, <1>12, <1>13, <1>14, <1>15

\* What the server does to the listing.
LEMMA BatchesServed ==
    ASSUME BatchesInv, NEW r \in schemaRequests, Batches!Serve(r), UNCHANGED schemaUser
    PROVE  BatchesInv'
<1>1. /\ BatchesTyped /\ Noted /\ InTurn /\ FirstHeld /\ RestNotHeld
      /\ listing \in Seq(Query) /\ Len(listing) > 0 /\ listing[1] = Default /\ Len(listing) \in Nat
      /\ \A i \in 1..Len(listing) : listing[i] \in Query
      /\ \A i, j \in 1..Len(listing) : listing[i] = listing[j] => i = j
      /\ r \in Batches!Request /\ r.query \in Query /\ loadedSchemaQueries.loaded \in Nat
    BY DEF BatchesInv, BatchesTyped, Batches!Request
<1>2. UNCHANGED <<schemaQueries, drafts, loadedSchemaQueries>>
    BY DEF Batches!Serve
<1> DEFINE s == [r EXCEPT !.kind = IF @ = "create" THEN "created" ELSE "destroyed"]
<1>3. /\ s \in Batches!Request /\ s.query = r.query
      /\ s.kind = IF r.kind = "create" THEN "created" ELSE "destroyed"
      /\ schemaRequests' = (schemaRequests \ {r}) \cup {s}
    BY <1>1 DEF Batches!Serve, Batches!Request, Batches!Kind
<1> HIDE DEF s
<1>4. \A q : Coming(q) => Coming(q)' \/ r.kind = "created"
    BY <1>3 DEF Coming
<1>5. CASE /\ r.kind = "create" /\ r.query \notin Batches!ToSet(listing)
           /\ listing' = Batches!InsertAt(listing, 2, r.query)
           /\ Batches!Disturbs("created", TRUE)
    <2> DEFINE n == Len(listing)
    <2>1. /\ listing' \in Seq(Query) /\ Len(listing') = n + 1
          /\ \A i \in 1..(n + 1) :
                 listing'[i] = IF i = 1 THEN listing[1] ELSE IF i = 2 THEN r.query ELSE listing[i - 1]
        BY <1>1, <1>5, InsertedSecond
    <2>2. \A i \in 1..n : listing[i] # r.query
        BY <1>1, <1>5 DEF Batches!ToSet
    <2>3. n \in Nat /\ n > 0
        BY <1>1
    <2>4. disturbed' = disturbed \cup {"created"} /\ r.query # Default
        BY <1>1, <1>5 DEF Batches!Disturbs, BatchesTyped
    <2> HIDE DEF n
    <2>5. ASSUME NEW i \in 1..(n + 1), NEW j \in 1..(n + 1), listing'[i] = listing'[j] PROVE i = j
        <3>1. \A k \in 1..(n + 1) : k = 1 \/ k = 2 \/ k - 1 \in 2..n
            BY <2>3
        <3>2. /\ \A k \in 1..(n + 1) : k = 2 => listing'[k] = r.query
              /\ \A k \in 1..(n + 1) : k = 1 => listing'[k] = listing[1]
              /\ \A k \in 1..(n + 1) : k - 1 \in 2..n => listing'[k] = listing[k - 1]
            BY <2>1, <2>3
        <3>3. /\ 1 \in 1..n /\ \A k \in 2..n : k \in 1..n /\ listing[k] # listing[1]
              /\ \A k, l \in 2..n : listing[k] = listing[l] => k = l
            BY <1>1, <2>3 DEF n
        <3>4. QED BY <2>2, <2>5, <3>1, <3>2, <3>3, <2>3
    <2>6. BatchesTyped'
        <3>1. Len(listing') > 0 /\ listing'[1] = Default
            BY <1>1, <2>1, <2>3
        <3>2. disturbed' \subseteq Batches!Cause
            BY <1>1, <2>4 DEF BatchesTyped, Batches!Cause
        <3>3. QED BY <1>1, <1>2, <1>3, <2>1, <2>4, <2>5, <3>1, <3>2 DEF BatchesTyped
    <2>7. Noted' /\ InTurn'
        BY <1>1, <1>2, <1>3, <1>5, <2>4 DEF Noted, InTurn
    <2>8. FirstHeld'
        <3> SUFFICES ASSUME disturbed' \subseteq {"created"}, NEW q \in Query, NEW i \in 1..(n + 1),
                            listing'[i] = q, i <= loadedSchemaQueries.loaded
                     PROVE  schemaQueries[q] > 0 \/ Coming(q)'
            BY <1>2, <2>1 DEF FirstHeld
        <3>1. \A k \in 1..n :
                  k <= loadedSchemaQueries.loaded /\ listing[k] = q => schemaQueries[q] > 0 \/ Coming(q)
            BY <1>1, <2>4 DEF FirstHeld, n
        <3>2. Coming(r.query)'
            BY <1>3, <1>5 DEF Coming
        <3>3. CASE i = 1
            BY <1>4, <1>5, <2>1, <2>3, <3>1, <3>3
        <3>4. CASE i = 2
            BY <2>1, <3>2, <3>4
        <3>5. CASE i - 1 \in 2..n
            <4>1. listing'[i] = listing[i - 1] /\ i - 1 \in 1..n /\ i - 1 <= loadedSchemaQueries.loaded
                BY <1>1, <2>1, <2>3, <3>5
            <4>2. QED BY <1>4, <1>5, <3>1, <4>1
        <3>6. QED BY <2>3, <3>3, <3>4, <3>5
    <2>9. RestNotHeld'
        BY <2>4 DEF RestNotHeld
    <2>10. QED BY <2>6, <2>7, <2>8, <2>9 DEF BatchesInv
<1>6. CASE /\ r.kind = "destroy"
           /\ \E i \in DOMAIN listing : listing[i] = r.query /\ listing' = Batches!RemoveAt(listing, i)
           /\ Batches!Disturbs("destroyed", TRUE)
    <2> DEFINE n == Len(listing)
    <2>1. PICK k \in 1..n : listing[k] = r.query /\ listing' = Batches!RemoveAt(listing, k)
        BY <1>1, <1>6
    <2>2. /\ listing' \in Seq(Query) /\ Len(listing') = n - 1
          /\ \A i \in 1..(n - 1) : listing'[i] = IF i < k THEN listing[i] ELSE listing[i + 1]
        BY <1>1, <2>1, RemovedFrom
    <2>3. n \in Nat /\ k # 1 /\ disturbed' = disturbed \cup {"destroyed"}
        BY <1>1, <1>6, <2>1 DEF Batches!Disturbs, BatchesTyped
    <2> HIDE DEF n
    <2>4. \A i \in 1..(n - 1) : /\ i \in 1..n /\ i + 1 \in 1..n
                                /\ listing'[i] = listing[i] \/ listing'[i] = listing[i + 1]
        BY <2>2, <2>3
    <2>5. ASSUME NEW i \in 1..(n - 1), NEW j \in 1..(n - 1), listing'[i] = listing'[j] PROVE i = j
        <3>1. \A a, b \in 1..n : listing[a] = listing[b] => a = b
            BY <1>1 DEF n
        <3> DEFINE P(a) == IF a < k THEN a ELSE a + 1
        <3>2. P(i) \in 1..n /\ P(j) \in 1..n /\ listing'[i] = listing[P(i)] /\ listing'[j] = listing[P(j)]
            BY <2>2, <2>3, <2>4
        <3>3. P(i) = P(j)
            BY <2>5, <3>1, <3>2
        <3>4. QED BY <2>3, <3>3
    <2>6. BatchesTyped'
        <3>1. Len(listing') > 0 /\ listing'[1] = Default
            BY <1>1, <2>1, <2>2, <2>3
        <3>2. disturbed' \subseteq Batches!Cause
            BY <1>1, <2>3 DEF BatchesTyped, Batches!Cause
        <3>3. s.kind = "destroyed" /\ r.query # Default
            BY <1>1, <1>3, <1>6 DEF BatchesTyped
        <3>4. QED BY <1>1, <1>2, <1>3, <2>2, <2>5, <3>1, <3>2, <3>3 DEF BatchesTyped
    <2>7. Noted' /\ InTurn'
        BY <1>1, <1>2, <1>3, <1>6, <2>3 DEF Noted, InTurn
    <2>8. FirstHeld'
        BY <2>3 DEF FirstHeld
    <2>9. RestNotHeld'
        <3> SUFFICES ASSUME disturbed' \subseteq {"destroyed"}
                     PROVE  /\ \A q \in Query : schemaQueries[q] <= 1
                            /\ \A i \in 1..(n - 1) :
                                   i > loadedSchemaQueries.loaded /\ listing'[i] # Default => schemaQueries[listing'[i]] = 0
            BY <1>2, <2>2 DEF RestNotHeld
        <3>1. /\ \A q \in Query : schemaQueries[q] <= 1
              /\ \A i \in 1..n :
                     i > loadedSchemaQueries.loaded /\ listing[i] # Default => schemaQueries[listing[i]] = 0
            BY <1>1, <2>3 DEF RestNotHeld, n
        <3>2. \A i \in 1..(n - 1) : i > loadedSchemaQueries.loaded => i + 1 > loadedSchemaQueries.loaded
            BY <1>1
        <3>3. QED BY <2>4, <3>1, <3>2
    <2>10. QED BY <2>6, <2>7, <2>8, <2>9 DEF BatchesInv
<1>7. QED BY <1>5, <1>6 DEF Batches!Serve

\* Requests whose object was replaced are the same requests, but no longer for what is there.
LEMMA BatchesReplaced ==
    ASSUME NEW R, R \subseteq Batches!Request, NEW q \in Query
    PROVE  /\ \A s \in Batches!Replaced(R, q) :
                  /\ s \in Batches!Request
                  /\ \E t \in R : /\ s.kind = t.kind /\ s.query = t.query /\ s.offset = t.offset
                                  /\ s.kind \notin {"save", "destroy", "destroyed"} => s = t
           /\ \A t \in R : t.kind \notin {"save", "destroy", "destroyed"} => t \in Batches!Replaced(R, q)
<1>1. ASSUME NEW t \in Batches!Request
      PROVE  LET late == [t EXCEPT !.here = FALSE] IN
             late \in Batches!Request /\ late.kind = t.kind /\ late.query = t.query /\ late.offset = t.offset
    BY DEF Batches!Request
<1>2. ASSUME NEW s \in Batches!Replaced(R, q)
      PROVE  \E t \in R : /\ s \in {t, [t EXCEPT !.here = FALSE]}
                          /\ s # t => t.kind \in {"save", "destroy", "destroyed"}
    BY DEF Batches!Replaced
<1>3. ASSUME NEW s \in Batches!Replaced(R, q)
      PROVE  /\ s \in Batches!Request
             /\ \E t \in R : /\ s.kind = t.kind /\ s.query = t.query /\ s.offset = t.offset
                             /\ s.kind \notin {"save", "destroy", "destroyed"} => s = t
    <2>1. PICK t \in R : /\ s \in {t, [t EXCEPT !.here = FALSE]}
                         /\ s # t => t.kind \in {"save", "destroy", "destroyed"}
        BY <1>2
    <2>2. /\ s \in Batches!Request /\ s.kind = t.kind /\ s.query = t.query /\ s.offset = t.offset
          /\ s.kind \notin {"save", "destroy", "destroyed"} => s = t
        BY <1>1, <2>1
    <2>3. QED BY <2>2
<1>4. ASSUME NEW t \in R, t.kind \notin {"save", "destroy", "destroyed"}
      PROVE  t \in Batches!Replaced(R, q)
    BY <1>4 DEF Batches!Replaced
<1>5. QED BY <1>3, <1>4

\* A batch that is answered: what is loaded grows by what it brings.
LEMMA BatchesBatchAnswered ==
    ASSUME BatchesInv, NEW r \in schemaRequests, Batches!BatchAnswered(r), UNCHANGED schemaUser
    PROVE  BatchesInv'
<1>1. /\ BatchesTyped /\ Noted /\ InTurn /\ FirstHeld /\ RestNotHeld
      /\ listing \in Seq(Query) /\ \A i \in 1..Len(listing) : listing[i] \in Query
      /\ \A i, j \in 1..Len(listing) : listing[i] = listing[j] => i = j
      /\ loadedSchemaQueries \in [loaded : Nat, state : Batches!REST] /\ loadedSchemaQueries.loaded \in Nat
      /\ schemaQueries \in [Query -> {0, 1, 2}] /\ \A q \in Query : schemaQueries[q] \in {0, 1, 2}
      /\ r \in Batches!Request /\ r.offset \in Nat /\ r.here \in BOOLEAN
      /\ schemaRequests \ {r} \subseteq Batches!Request /\ Default \in Query
    BY WaitsAssumption DEF BatchesInv, BatchesTyped, Batches!Request, Batches!MaxCopies,
                           Batches!SchemaBatchesAssumption
<1>2. /\ r.kind = "batch" /\ UNCHANGED <<listing, drafts>>
      /\ schemaRequests' \in {schemaRequests \ {r}, Batches!Replaced(schemaRequests \ {r}, Default)}
      /\ disturbed' = disturbed \cup (IF ~r.here THEN {"late"} ELSE {})
    BY DEF Batches!BatchAnswered, Batches!Disturbs
<1>0. /\ \A s \in schemaRequests' :
             /\ s \in Batches!Request
             /\ \E t \in schemaRequests \ {r} :
                    /\ s.kind = t.kind /\ s.query = t.query /\ s.offset = t.offset
                    /\ s.kind \notin {"save", "destroy", "destroyed"} => s = t
      /\ \A t \in schemaRequests \ {r} :
             t.kind \notin {"save", "destroy", "destroyed"} => t \in schemaRequests'
    <2>1. CASE schemaRequests' = schemaRequests \ {r}
        BY <1>1, <2>1
    <2>2. CASE schemaRequests' = Batches!Replaced(schemaRequests \ {r}, Default)
        BY <1>1, <2>2, BatchesReplaced
    <2>3. QED BY <1>2, <2>1, <2>2
<1>3. disturbed' \subseteq Batches!Cause /\ disturbed \subseteq disturbed'
    BY <1>1, <1>2 DEF BatchesTyped, Batches!Cause
<1>4. "late" \notin disturbed' => /\ r.here /\ r.offset = loadedSchemaQueries.loaded
                                  /\ \A s \in schemaRequests' : ~(s.kind = "batch" /\ s.here)
    <2> SUFFICES ASSUME "late" \notin disturbed'
                 PROVE  /\ r.here /\ r.offset = loadedSchemaQueries.loaded
                        /\ \A s \in schemaRequests' : ~(s.kind = "batch" /\ s.here)
        OBVIOUS
    <2>1. r.here /\ r.offset = loadedSchemaQueries.loaded
        BY <1>1, <1>2 DEF InTurn
    <2>2. ASSUME NEW s \in schemaRequests, s.kind = "batch", s.here PROVE s = r
        <3>1. s \in Batches!Request /\ s.offset = r.offset /\ s.query = r.query /\ s.kind = r.kind /\ s.here = r.here
            BY <1>1, <1>2, <2>1, <2>2 DEF InTurn, BatchesTyped, Batches!Request
        <3>2. QED BY <1>1, <3>1 DEF Batches!Request
    <2>3. \A s \in schemaRequests' : s.kind = "batch" => s \in schemaRequests /\ s # r
        BY <1>0
    <2>4. QED BY <2>1, <2>2, <2>3
<1>5. \A q : Coming(q)' <=> Coming(q)
    BY <1>0, <1>2 DEF Coming
<1>6. ASSUME schemaQueries' \in [Query -> {0, 1, 2}],
             loadedSchemaQueries' \in [loaded : Nat, state : Batches!REST]
      PROVE  BatchesTyped' /\ Noted' /\ InTurn'
    <2>1. BatchesTyped'
        BY <1>0, <1>1, <1>2, <1>3, <1>6 DEF BatchesTyped, Batches!MaxCopies
    <2>2. Noted'
        BY <1>0, <1>1, <1>3 DEF Noted
    <2>3. InTurn'
        BY <1>4 DEF InTurn
    <2>4. QED BY <2>1, <2>2, <2>3
<1>7. CASE Batches!Keeping("error") /\ UNCHANGED schemaQueries
    <2>1. /\ loadedSchemaQueries' \in [loaded : Nat, state : Batches!REST]
          /\ loadedSchemaQueries'.loaded = loadedSchemaQueries.loaded
        BY <1>1, <1>7 DEF Batches!Keeping, Batches!REST
    <2>2. FirstHeld' /\ RestNotHeld'
        BY <1>1, <1>2, <1>3, <1>5, <1>7, <2>1 DEF FirstHeld, RestNotHeld
    <2>3. QED BY <1>1, <1>6, <1>7, <2>1, <2>2 DEF BatchesInv
<1>8. CASE /\ schemaQueries' = Batches!WithBatch(Batches!Batch(r.offset))
           /\ loadedSchemaQueries' = [loadedSchemaQueries EXCEPT
                  !.loaded = @ + Len(Batches!Batch(r.offset)), !.state = "success"]
    <2> DEFINE data == Batches!ToSet(Batches!Batch(r.offset))
    <2>1. PICK n \in Nat :
              /\ Len(Batches!Batch(r.offset)) = n
              /\ \A q \in Query : q \in data
                                  <=> \E i \in 1..Len(listing) : r.offset < i /\ i <= r.offset + n /\ listing[i] = q
        BY <1>1, BatchIs
    <2>2. \A q \in Query : schemaQueries'[q] = IF q \notin data THEN schemaQueries[q]
                                               ELSE IF q = Default /\ schemaQueries[q] > 0 THEN schemaQueries[q]
                                               ELSE Batches!AtMost(schemaQueries[q] + 1)
        BY <1>8 DEF Batches!WithBatch
    <2>3. \A q \in Query : Batches!AtMost(schemaQueries[q] + 1) = IF schemaQueries[q] = 0 THEN 1 ELSE 2
        BY <1>1 DEF Batches!AtMost, Batches!MaxCopies
    <2>4. schemaQueries' \in [Query -> {0, 1, 2}]
        <3>1. schemaQueries' = [q \in Query |-> schemaQueries'[q]]
            BY <1>8 DEF Batches!WithBatch
        <3>2. \A q \in Query : schemaQueries'[q] \in {0, 1, 2}
            BY <1>1, <2>2, <2>3
        <3>3. QED BY <3>1, <3>2
    <2>5. /\ loadedSchemaQueries' \in [loaded : Nat, state : Batches!REST]
          /\ loadedSchemaQueries'.loaded = loadedSchemaQueries.loaded + n
        <3>1. loadedSchemaQueries' = [loaded |-> loadedSchemaQueries.loaded + n, state |-> "success"]
            BY <1>1, <1>8, <2>1
        <3>2. loadedSchemaQueries.loaded + n \in Nat
            BY <1>1
        <3>3. QED BY <3>1, <3>2 DEF Batches!REST
    <2> HIDE DEF data
    <2>6. FirstHeld'
        <3> SUFFICES ASSUME disturbed' \subseteq {"created"}, NEW q \in Query, NEW i \in 1..Len(listing),
                            listing[i] = q, i <= loadedSchemaQueries.loaded + n
                     PROVE  schemaQueries'[q] > 0 \/ Coming(q)'
            BY <1>2, <2>5 DEF FirstHeld
        <3>1. r.offset = loadedSchemaQueries.loaded
            BY <1>4
        <3>2. CASE i <= loadedSchemaQueries.loaded
            <4>1. schemaQueries[q] > 0 \/ Coming(q)
                BY <1>1, <1>3, <3>2 DEF FirstHeld
            <4>2. schemaQueries[q] > 0 => schemaQueries'[q] > 0
                BY <1>1, <2>2, <2>3
            <4>3. QED BY <1>5, <4>1, <4>2
        <3>3. CASE ~(i <= loadedSchemaQueries.loaded)
            <4>1. q \in data
                BY <1>1, <2>1, <3>1, <3>3
            <4>2. QED BY <1>1, <2>2, <2>3, <4>1
        <3>4. QED BY <3>2, <3>3
    <2>7. RestNotHeld'
        <3> SUFFICES ASSUME disturbed' \subseteq {"destroyed"}
                     PROVE  /\ \A q \in Query : schemaQueries'[q] <= 1
                            /\ \A i \in 1..Len(listing) :
                                   i > loadedSchemaQueries.loaded + n /\ listing[i] # Default
                                   => schemaQueries'[listing[i]] = 0
            BY <1>2, <2>5 DEF RestNotHeld
        <3>1. r.offset = loadedSchemaQueries.loaded
            BY <1>4
        <3>2. /\ \A q \in Query : schemaQueries[q] <= 1
              /\ \A i \in 1..Len(listing) :
                     i > loadedSchemaQueries.loaded /\ listing[i] # Default => schemaQueries[listing[i]] = 0
            BY <1>1, <1>3 DEF RestNotHeld
        <3>3. ASSUME NEW q \in Query, q \in data, q # Default PROVE schemaQueries[q] = 0
            <4>1. PICK i \in 1..Len(listing) : r.offset < i /\ listing[i] = q
                BY <2>1, <3>3
            <4>2. i > loadedSchemaQueries.loaded
                BY <1>1, <3>1, <4>1
            <4>3. QED BY <3>2, <3>3, <4>1, <4>2
        <3>4. \A q \in Query : schemaQueries'[q] <= 1
            BY <1>1, <2>2, <2>3, <3>2, <3>3
        <3>5. ASSUME NEW i \in 1..Len(listing), i > loadedSchemaQueries.loaded + n, listing[i] # Default
              PROVE  schemaQueries'[listing[i]] = 0
            <4>1. i > loadedSchemaQueries.loaded /\ ~(i <= r.offset + n)
                BY <1>1, <2>1, <3>1, <3>5
            <4>2. listing[i] \notin data
                BY <1>1, <2>1, <4>1
            <4>3. QED BY <1>1, <2>2, <3>2, <3>5, <4>1, <4>2
        <3>6. QED BY <3>4, <3>5
    <2>8. QED BY <1>6, <2>4, <2>5, <2>6, <2>7 DEF BatchesInv
<1>9. QED BY <1>7, <1>8 DEF Batches!BatchAnswered

\* The other answers: a query is added or dropped, or an object replaced.
LEMMA BatchesAnsweredStep ==
    ASSUME BatchesInv, NEW r \in schemaRequests, UNCHANGED schemaUser,
           \/ Batches!DefaultAnswered(r) \/ Batches!SaveAnswered(r) \/ Batches!DestroyAnswered(r)
           \/ Batches!SchemaRefused(r)
    PROVE  BatchesInv'
<1>1. /\ BatchesTyped /\ Noted /\ InTurn /\ FirstHeld /\ RestNotHeld
      /\ listing \in Seq(Query) /\ \A i \in 1..Len(listing) : listing[i] \in Query
      /\ schemaQueries \in [Query -> {0, 1, 2}] /\ \A q \in Query : schemaQueries[q] \in {0, 1, 2}
      /\ schemaRequests \subseteq Batches!Request /\ r.query \in Query /\ Default \in Query
      /\ drafts \in BOOLEAN
    BY WaitsAssumption DEF BatchesInv, BatchesTyped, Batches!Request, Batches!MaxCopies, Batches!SchemaBatchesAssumption
<1>2. listing' = listing /\ loadedSchemaQueries' = loadedSchemaQueries
    BY DEF Batches!DefaultAnswered, Batches!SaveAnswered, Batches!DestroyAnswered, Batches!SchemaRefused
<1>3. /\ \A s \in schemaRequests' :
             /\ s \in Batches!Request
             /\ \E q \in schemaRequests \ {r} :
                    /\ s.kind = q.kind /\ s.query = q.query /\ s.offset = q.offset
                    /\ s.kind \notin {"save", "destroy", "destroyed"} => s = q
      /\ \A q \in schemaRequests \ {r} :
             q.kind \notin {"save", "destroy", "destroyed"} => q \in schemaRequests'
    <2>1. \/ schemaRequests' = schemaRequests \ {r}
          \/ \E q \in Query : schemaRequests' = Batches!Replaced(schemaRequests \ {r}, q)
        BY <1>1 DEF Batches!DefaultAnswered, Batches!SaveAnswered, Batches!DestroyAnswered, Batches!SchemaRefused
    <2>2. CASE schemaRequests' = schemaRequests \ {r}
        BY <1>1, <2>2
    <2>3. ASSUME NEW q \in Query, schemaRequests' = Batches!Replaced(schemaRequests \ {r}, q)
          PROVE  /\ \A s \in schemaRequests' :
                        /\ s \in Batches!Request
                        /\ \E t \in schemaRequests \ {r} :
                               /\ s.kind = t.kind /\ s.query = t.query /\ s.offset = t.offset
                               /\ s.kind \notin {"save", "destroy", "destroyed"} => s = t
                 /\ \A t \in schemaRequests \ {r} :
                        t.kind \notin {"save", "destroy", "destroyed"} => t \in schemaRequests'
        <3>1. schemaRequests \ {r} \subseteq Batches!Request
            BY <1>1
        <3>2. QED BY <2>3, <3>1, BatchesReplaced
    <2>4. QED BY <2>1, <2>2, <2>3
<1>4. \A q \in schemaRequests : q.kind = "created" /\ q # r => q \in schemaRequests'
    BY <1>3
<1>5. ASSUME disturbed' \subseteq Batches!Cause, disturbed \subseteq disturbed', drafts' \in BOOLEAN,
             schemaQueries' \in [Query -> {0, 1, 2}],
             disturbed' \subseteq {"created"} =>
                 /\ \A q \in Query : schemaQueries[q] > 0 => schemaQueries'[q] > 0
                 /\ r.kind = "created" => schemaQueries'[r.query] > 0,
             disturbed' \subseteq {"destroyed"} =>
                 \A q \in Query : \/ schemaQueries'[q] <= schemaQueries[q]
                                  \/ q = Default /\ schemaQueries'[q] <= 1
      PROVE  BatchesInv'
    <2>1. BatchesTyped'
        BY <1>1, <1>2, <1>3, <1>5 DEF BatchesTyped, Batches!MaxCopies
    <2>2. Noted'
        BY <1>1, <1>3, <1>5 DEF Noted
    <2>3. InTurn'
        BY <1>1, <1>2, <1>3, <1>5 DEF InTurn
    <2>4. FirstHeld'
        <3> SUFFICES ASSUME disturbed' \subseteq {"created"}, NEW q \in Query, NEW i \in 1..Len(listing),
                            listing[i] = q, i <= loadedSchemaQueries.loaded
                     PROVE  schemaQueries'[q] > 0 \/ Coming(q)'
            BY <1>2 DEF FirstHeld
        <3>1. schemaQueries[q] > 0 \/ Coming(q)
            BY <1>1, <1>5 DEF FirstHeld
        <3>2. Coming(q) => Coming(q)' \/ (r.kind = "created" /\ r.query = q)
            BY <1>4 DEF Coming
        <3>3. QED BY <1>5, <3>1, <3>2
    <2>5. RestNotHeld'
        <3> SUFFICES ASSUME disturbed' \subseteq {"destroyed"}
                     PROVE  /\ \A q \in Query : schemaQueries'[q] <= 1
                            /\ \A i \in 1..Len(listing) :
                                   i > loadedSchemaQueries.loaded /\ listing[i] # Default => schemaQueries'[listing[i]] = 0
            BY <1>2 DEF RestNotHeld
        <3>1. /\ \A q \in Query : schemaQueries[q] <= 1
              /\ \A i \in 1..Len(listing) :
                     i > loadedSchemaQueries.loaded /\ listing[i] # Default => schemaQueries[listing[i]] = 0
            BY <1>1, <1>5 DEF RestNotHeld
        <3>2. \A q \in Query : schemaQueries'[q] \in {0, 1, 2}
            BY <1>5
        <3>3. QED BY <1>1, <1>5, <3>1, <3>2
    <2>6. QED BY <2>1, <2>2, <2>3, <2>4, <2>5 DEF BatchesInv
<1>6. \A q \in Query : Batches!AtMost(schemaQueries[q] + 1) = IF schemaQueries[q] = 0 THEN 1 ELSE 2
    BY <1>1 DEF Batches!AtMost, Batches!MaxCopies
<1>7. disturbed \subseteq Batches!Cause /\ "late" \in Batches!Cause
    BY <1>1 DEF BatchesTyped, Batches!Cause
<1>8. CASE Batches!DefaultAnswered(r)
    <2>1. /\ schemaQueries' = [schemaQueries EXCEPT ![Default] = IF @ = 0 THEN 1 ELSE @]
          /\ disturbed' = disturbed /\ drafts' = drafts /\ r.kind = "default"
        BY <1>8 DEF Batches!DefaultAnswered
    <2>2. /\ \A q \in Query \ {Default} : schemaQueries'[q] = schemaQueries[q]
          /\ schemaQueries'[Default] = IF schemaQueries[Default] = 0 THEN 1 ELSE schemaQueries[Default]
          /\ schemaQueries' \in [Query -> {0, 1, 2}]
        BY <1>1, <2>1
    <2>3. \A q \in Query : \/ schemaQueries'[q] <= schemaQueries[q]
                           \/ q = Default /\ schemaQueries'[q] <= 1
        BY <1>1, <2>2
    <2>4. \A q \in Query : schemaQueries[q] > 0 => schemaQueries'[q] > 0
        BY <1>1, <2>2
    <2>5. QED BY <1>1, <1>5, <1>7, <2>1, <2>2, <2>3, <2>4
<1>9. CASE Batches!SaveAnswered(r)
    <2> DEFINE replaced == r.kind = "save" /\ r.here /\ schemaQueries[r.query] > 0
    <2>1. /\ r.kind \in {"save", "created"}
          /\ schemaQueries' = IF replaced THEN schemaQueries ELSE Batches!Add(r.query)
          /\ disturbed' = disturbed \cup (IF r.kind = "save" /\ ~replaced THEN {"late"} ELSE {})
          /\ drafts' \in BOOLEAN
        BY <1>1, <1>9 DEF Batches!SaveAnswered, Batches!Disturbs
    <2>2. /\ \A q \in Query \ {r.query} : schemaQueries'[q] = schemaQueries[q]
          /\ replaced => schemaQueries' = schemaQueries
          /\ ~replaced => schemaQueries'[r.query] = Batches!AtMost(schemaQueries[r.query] + 1)
          /\ schemaQueries' \in [Query -> {0, 1, 2}]
        BY <1>1, <1>6, <2>1 DEF Batches!Add
    <2>3. disturbed' \subseteq {"destroyed"} => replaced
        BY <1>1, <2>1 DEF Noted
    <2> HIDE DEF replaced
    <2>4. \A q \in Query : schemaQueries[q] > 0 => schemaQueries'[q] > 0
        BY <1>1, <1>6, <2>2
    <2>5. r.kind = "created" => schemaQueries'[r.query] > 0
        BY <1>1, <1>6, <2>2 DEF replaced
    <2>6. disturbed' \subseteq {"destroyed"} => \A q \in Query : schemaQueries'[q] <= schemaQueries[q]
        BY <1>1, <2>2, <2>3
    <2>7. disturbed' \subseteq Batches!Cause /\ disturbed \subseteq disturbed'
        BY <1>7, <2>1
    <2>8. QED BY <1>5, <2>1, <2>2, <2>4, <2>5, <2>6, <2>7
<1>10. CASE Batches!DestroyAnswered(r)
    <2>1. /\ r.kind = "destroyed" /\ disturbed' = disturbed /\ drafts' = drafts
          /\ schemaQueries' = IF r.here THEN Batches!Dropped(r.query) ELSE schemaQueries
        BY <1>10 DEF Batches!DestroyAnswered
    <2>2. /\ schemaQueries' \in [Query -> {0, 1, 2}]
          /\ \A q \in Query : schemaQueries'[q] <= schemaQueries[q]
        BY <1>1, <2>1 DEF Batches!Dropped
    <2>3. ~(disturbed' \subseteq {"created"})
        BY <1>1, <2>1 DEF Noted
    <2>4. QED BY <1>1, <1>5, <1>7, <2>1, <2>2, <2>3
<1>11. CASE Batches!SchemaRefused(r)
    <2>1. /\ r.kind # "created"
          /\ UNCHANGED <<schemaQueries, drafts, disturbed>>
        BY <1>11 DEF Batches!SchemaRefused
    <2>2. \A q \in Query : schemaQueries'[q] <= schemaQueries[q]
        BY <1>1, <2>1
    <2>3. QED BY <1>1, <1>5, <1>7, <2>1, <2>2
<1>12. QED BY <1>8, <1>9, <1>10, <1>11

LEMMA BatchesStep ==
    ASSUME BatchesInv, Batches!SchemaNext
    PROVE  BatchesInv'
<1>1. ASSUME Batches!SchemaAnswered(Batches!Kind) PROVE BatchesInv'
    BY <1>1, BatchesServed, BatchesBatchAnswered, BatchesAnsweredStep DEF Batches!SchemaAnswered
<1>2. QED BY <1>1, BatchesUserStep DEF Batches!SchemaNext

LEMMA BatchesKept == BatchesInv => Batches!NothingSkipped /\ Batches!NoQueryTwice
<1> SUFFICES ASSUME BatchesInv PROVE Batches!NothingSkipped /\ Batches!NoQueryTwice
    OBVIOUS
<1>1. \A i \in 1..Len(listing) : listing[i] \in Query
    BY DEF BatchesInv, BatchesTyped
<1>2. QED BY <1>1 DEF BatchesInv, FirstHeld, Coming, RestNotHeld, Batches!NothingSkipped, Batches!NoQueryTwice

-----------------------------------------------------------------------------
(* The parts in the tab                                                    *)

WaitsInv ==
    /\ part \in {"batches", "forms", "users", "servers"}
    /\ part = "batches" => BatchesInv
    /\ part = "forms" => FormInv
    /\ part = "users" => UsersInv
    /\ part = "servers" => ServersInv

LEMMA WaitsStart == WaitsInit => WaitsInv
BY BatchesStart, FormStarts, UsersStart, ServersStart DEF WaitsInit, WaitsInv

\* Nothing of the part that is played changes while the tab rests.
LEMMA WaitsRest == WaitsInv /\ UNCHANGED waitVars => WaitsInv'
<1> SUFFICES ASSUME WaitsInv, UNCHANGED waitVars PROVE WaitsInv'
    OBVIOUS
<1>1. part' = part /\ UNCHANGED schemaVars /\ UNCHANGED formVars /\ UNCHANGED userVars /\ UNCHANGED serverVars
    BY DEF waitVars
<1>2. ASSUME BatchesInv PROVE BatchesInv'
    BY <1>1, <1>2 DEF schemaVars, BatchesInv, BatchesTyped, Noted, InTurn, FirstHeld, RestNotHeld, Coming
<1>3. ASSUME FormInv PROVE FormInv'
    BY <1>1, <1>3 DEF formVars, FormInv, Form!FormTypeOK
<1>4. ASSUME UsersInv PROVE UsersInv'
    BY <1>1, <1>4 DEF userVars, UsersInv, UsersTyped, Behind
<1>5. ASSUME ServersInv PROVE ServersInv'
    BY <1>1, <1>5 DEF serverVars, ServersInv, ServersTyped, Servers!ServerTypeOK, Apart, OneAtATime, Creating, Removing
<1>6. QED BY <1>1, <1>2, <1>3, <1>4, <1>5 DEF WaitsInv

LEMMA WaitsStep == WaitsInv /\ [WaitsNext]_waitVars => WaitsInv'
<1> SUFFICES ASSUME WaitsInv, [WaitsNext]_waitVars PROVE WaitsInv'
    OBVIOUS
<1>1. CASE InBatches /\ Batches!SchemaNext
    BY <1>1, BatchesStep DEF InBatches, WaitsInv
<1>2. CASE InForms /\ Form!FormNext
    BY <1>2, FormStep DEF InForms, WaitsInv
<1>3. CASE InUsers /\ Users!UserNext
    BY <1>3, UsersStep DEF InUsers, WaitsInv
<1>4. CASE InServers /\ Servers!ServerNext
    BY <1>4, ServersStep DEF InServers, WaitsInv
<1>5. QED BY <1>1, <1>2, <1>3, <1>4, WaitsRest DEF WaitsNext

LEMMA WaitsAlways == WaitsSpec => []WaitsInv
BY WaitsStart, WaitsStep, PTL DEF WaitsSpec

(* Every variable of the parts has its type: no count of objects, pending  *)
(* forms or timers leaves its range, however many requests overlap.        *)
THEOREM WaitsTypesAlways == WaitsSpec => []WaitsTypeOK
<1>1. ASSUME BatchesInv PROVE Batches!SchemaTypeOK
    <2>1. /\ listing \in Seq(Query) /\ DOMAIN listing = 1..Len(listing)
          /\ \A i \in 1..Len(listing) : listing[i] \in Query
        BY <1>1 DEF BatchesInv, BatchesTyped
    <2>2. QED BY <1>1, <2>1 DEF BatchesInv, BatchesTyped, Batches!SchemaTypeOK, Batches!IsInjective, Batches!ToSet
<1>2. ASSUME UsersInv PROVE Users!UserTypeOK
    <2>1. reloadTimers \in 0..MaxUserRequests
        BY <1>2, FS_CardinalityType, WaitsAssumption DEF UsersInv, UsersTyped, Users!UserListsAssumption
    <2>2. QED BY <1>2, <2>1 DEF UsersInv, UsersTyped, UserRequest, Users!UserTypeOK
<1>3. WaitsInv => WaitsTypeOK
    BY <1>1, <1>2 DEF WaitsInv, WaitsTypeOK, FormInv, ServersInv, ServersTyped
<1>4. QED BY <1>3, WaitsAlways, PTL

(* Reading the schema queries by batches misses none, with batches of any  *)
(* size and whatever is created meanwhile, and holds none twice, whatever  *)
(* is destroyed meanwhile, until a batch comes for a state that is gone or *)
(* a save for an object that was replaced.                                 *)
THEOREM NothingSkippedAlways == WaitsSpec => []NothingSkipped
<1>1. WaitsInv => NothingSkipped
    BY BatchesKept DEF WaitsInv, NothingSkipped
<1>2. QED BY <1>1, WaitsAlways, PTL

(* The lists of servers and of users are those of the database once all is *)
(* answered, for any number of them, if the requests did not overlap; and  *)
(* no server is listed twice whatever order lists and groups arrive in.    *)
THEOREM ListsRightAlways == WaitsSpec => []ListsRight
<1>1. UsersInv => Users!UsersRight
    BY DEF UsersInv, Users!UsersRight
<1>2. WaitsInv => ListsRight
    BY <1>1, ServersKept DEF WaitsInv, ListsRight
<1>3. QED BY <1>2, WaitsAlways, PTL
=============================================================================
