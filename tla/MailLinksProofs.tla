-------------------------- MODULE MailLinksProofs ---------------------------
(***************************************************************************)
(* Proofs about MailLinks, for any sets of users and of threads: a reset   *)
(* link that was used is dead, a pending one is younger than the password, *)
(* and the last activation link that was mailed activates.                 *)
(***************************************************************************)
EXTENDS MailLinks, TLAPS

(* A link belongs to the user it was made for: no two rows hold the same  *)
(* one, and a request that accepted a link keeps it from the other rows.   *)
LinksPrivate ==
    \A u, v \in User : u # v =>
        \/ account[u].reset = NoLink
        \/ account[u].reset # account[v].reset

RequestsPrivate ==
    \A r \in Request : request[r].kind = "reset" =>
        /\ request[r].user \in User
        /\ request[r].link \in 1..made
        /\ \A u \in User : u # request[r].user => account[u].reset # request[r].link

(* Only links that were made are used or held.                             *)
UsedWereMade == \A l \in Link : l > made => used[l] = 0

Typed ==
    /\ account \in [User -> Account]
    /\ request \in [Request -> RequestState]
    /\ made \in 0..MaxLinks
    /\ used \in [Link -> Nat]
    /\ \A u \in User : account[u].reset <= made

IInv == Typed /\ LinksPrivate /\ RequestsPrivate /\ UsedWereMade /\ UsedLinkIsDead

(* The rows after a step that clears or keeps the reset link of each user. *)
LEMMA ClearedOrKept ==
    ASSUME IInv, account' \in [User -> Account], UNCHANGED <<made, used>>,
           \A u \in User : account'[u].reset \in {NoLink, account[u].reset},
           request' \in [Request -> RequestState],
           \A r \in Request : request'[r].kind = "reset" => request'[r] = request[r]
    PROVE  IInv'
<1> USE MailLinksAssumption
<1>1. Typed'
  BY DEF IInv, Typed, NoLink
<1>2. LinksPrivate'
  BY DEF IInv, LinksPrivate
<1>3. RequestsPrivate'
  <2> SUFFICES ASSUME NEW r \in Request, request'[r].kind = "reset"
               PROVE  /\ request[r].user \in User
                      /\ request[r].link \in 1..made
                      /\ \A u \in User : u # request[r].user => account'[u].reset # request[r].link
    BY DEF RequestsPrivate
  <2>1. /\ request[r].user \in User
        /\ request[r].link \in 1..made
        /\ \A u \in User : u # request[r].user => account[u].reset # request[r].link
    BY DEF IInv, RequestsPrivate
  <2>2. request[r].link # NoLink
    BY <2>1 DEF NoLink, IInv, Typed
  <2> QED BY <2>1, <2>2
<1>4. UsedWereMade' /\ UsedLinkIsDead'
  BY DEF IInv, UsedWereMade, UsedLinkIsDead
<1> QED BY <1>1, <1>2, <1>3, <1>4 DEF IInv

(* A new link: the request that made it is about to mail it.               *)
LEMMA LinkToMail ==
    ASSUME IInv, NEW r \in Request, NEW u \in User \cup {NoUser}, NEW kind \in Mailing,
           NewLink(r, kind, u)
    PROVE  /\ made \in Nat /\ made' = made + 1 /\ made' \in Link
           /\ UNCHANGED <<mailed, sent, used>>
           /\ request' \in [Request -> RequestState]
           /\ \A x \in Request : x # r => request'[x] = request[x]
           /\ request'[r] = [kind |-> kind, user |-> u, link |-> made', seen |-> NoLink]
           /\ \A x \in Request : request'[x].kind = "reset" => request'[x] = request[x]
<1> USE MailLinksAssumption
<1>1. made \in Nat /\ made' = made + 1 /\ made' \in Link /\ UNCHANGED <<mailed, sent, used>>
  BY DEF IInv, Typed, NewLink, Link
<1>2. /\ request \in [Request -> RequestState]
      /\ request' = [request EXCEPT ![r] =
            [kind |-> kind, user |-> u, link |-> made', seen |-> NoLink]]
  BY DEF NewLink, IInv, Typed
<1>3. [kind |-> kind, user |-> u, link |-> made', seen |-> NoLink] \in RequestState
  BY <1>1 DEF RequestState, Kind
<1>4. kind # "reset"
  BY DEF Mailing
<1> QED BY <1>1, <1>2, <1>3, <1>4

(* The rows after a new link was made, to be the reset link of one user or *)
(* of none.                                                                *)
LEMMA LinkMade ==
    ASSUME IInv, account' \in [User -> Account], made' = made + 1, made' \in Link, UNCHANGED used,
           NEW u \in User \cup {NoUser},
           \A v \in User : account'[v].reset \in {NoLink, account[v].reset}
                           \/ (v = u /\ account'[v].reset = made'),
           request' \in [Request -> RequestState],
           \A r \in Request : request'[r].kind = "reset" => request'[r] = request[r]
    PROVE  IInv'
<1> USE MailLinksAssumption
<1>1. /\ made \in Nat /\ made' = made + 1 /\ made' \in 0..MaxLinks /\ NoLink = 0
      /\ \A v \in User : account[v].reset \in Nat /\ account[v].reset <= made
  BY DEF IInv, Typed, Account, Link, NoLink
<1>2. Typed'
  BY <1>1 DEF IInv, Typed
<1>3. LinksPrivate'
  BY <1>1 DEF IInv, LinksPrivate
<1>4. RequestsPrivate'
  <2> SUFFICES ASSUME NEW r \in Request, request'[r].kind = "reset"
               PROVE  /\ request[r].user \in User
                      /\ request[r].link \in 1..made'
                      /\ \A v \in User : v # request[r].user => account'[v].reset # request[r].link
    BY DEF RequestsPrivate
  <2>1. /\ request[r].user \in User
        /\ request[r].link \in 1..made
        /\ \A v \in User : v # request[r].user => account[v].reset # request[r].link
    BY DEF IInv, RequestsPrivate
  <2> QED BY <1>1, <2>1
<1>5. UsedWereMade'
  BY <1>1 DEF IInv, UsedWereMade, Link
<1>6. UsedLinkIsDead'
  <2> SUFFICES ASSUME NEW v \in User, account'[v].reset # NoLink
               PROVE  used[account'[v].reset] = 0
    BY DEF UsedLinkIsDead
  <2>1. CASE account'[v].reset = account[v].reset
    BY <2>1 DEF IInv, UsedLinkIsDead
  <2>2. CASE account'[v].reset = made'
    BY <2>2, <1>1 DEF IInv, UsedWereMade, Link
  <2> QED BY <2>1, <2>2
<1> QED BY <1>2, <1>3, <1>4, <1>5, <1>6 DEF IInv

(* What the steps leave that answer a request and write no link.           *)
LEMMA Answered ==
    ASSUME NEW r \in Request, ActivateCommit(r) \/ Mail(r) \/ Abort(r)
    PROVE  Answer(r) /\ made' = made /\ used' = used /\ fresh' = fresh
<1>1. CASE ActivateCommit(r)
  BY <1>1 DEF ActivateCommit
<1>2. CASE Mail(r)
  BY <1>2 DEF Mail
<1>3. CASE Abort(r)
  BY <1>3 DEF Abort
<1> QED BY <1>1, <1>2, <1>3

LEMMA IInvStep ==
    ASSUME IInv, [Next]_vars
    PROVE  IInv'
<1> USE MailLinksAssumption
<1> account \in [User -> Account] /\ request \in [Request -> RequestState]
  BY DEF IInv, Typed
<1>1. ASSUME NEW r \in Request, Answer(r)
      PROVE  /\ request' \in [Request -> RequestState]
             /\ \A x \in Request : request'[x].kind = "reset" => request'[x] = request[x]
  BY <1>1 DEF Answer, Idle, RequestState, Kind
<1>2. ASSUME NEW r \in Request, NEW u \in User, NEW kind \in Kind \ {"reset"},
             NEW link \in Link \cup {NoLink}, Load(r, kind, u, link)
      PROVE  IInv'
  <2>1. request' = [request EXCEPT ![r] =
            [kind |-> kind, user |-> u, link |-> link, seen |-> account[u].reset]]
    BY <1>2 DEF Load
  <2>2. account[u].reset \in Link \cup {NoLink}
    BY DEF Account
  <2>3. request' \in [Request -> RequestState]
    BY <2>1, <2>2, <1>2 DEF RequestState
  <2>4. \A x \in Request : request'[x].kind = "reset" => request'[x] = request[x]
    BY <2>1, <1>2
  <2> QED BY <2>3, <2>4, <1>2, ClearedOrKept DEF Load
<1>3. ASSUME NEW r \in Request, NEW u \in User, NEW link \in Link, ResetPassword(r, u, link)
      PROVE  IInv'
  <2>1. /\ request' = [request EXCEPT ![r] =
            [kind |-> "reset", user |-> u, link |-> link, seen |-> account[u].reset]]
        /\ UNCHANGED <<account, made, used>>
        /\ account[u].reset = link
    BY <1>3 DEF ResetPassword, Load, pending_password_reset_request
  <2>2. Typed'
    BY <2>1 DEF IInv, Typed, RequestState, Kind, Account
  <2>3. RequestsPrivate'
    <3> SUFFICES ASSUME NEW x \in Request, request'[x].kind = "reset"
                 PROVE  /\ request'[x].user \in User
                        /\ request'[x].link \in 1..made
                        /\ \A v \in User : v # request'[x].user => account[v].reset # request'[x].link
      BY <2>1 DEF RequestsPrivate
    <3>1. CASE x = r
      <4>1. request'[x].user = u /\ request'[x].link = link
        BY <2>1, <3>1
      <4>2. link \in 1..made
        BY <2>1 DEF IInv, Typed, Link
      <4>3. link # NoLink
        BY DEF Link, NoLink
      <4> QED BY <2>1, <4>1, <4>2, <4>3 DEF IInv, LinksPrivate
    <3>2. CASE x # r
      BY <2>1, <3>2 DEF IInv, RequestsPrivate
    <3> QED BY <3>1, <3>2
  <2> QED BY <2>1, <2>2, <2>3 DEF IInv, LinksPrivate, UsedWereMade, UsedLinkIsDead
<1>4. ASSUME NEW r \in Request, ResetPasswordCommit(r) PROVE IInv'
  <2> DEFINE q == request[r]
  <2>1. /\ q.kind = "reset"
        /\ account' = [account EXCEPT ![q.user].reset = NoLink, ![q.user].outdated = FALSE]
        /\ used' = [used EXCEPT ![q.link] = @ + 1]
        /\ Answer(r)
        /\ UNCHANGED made
    BY <1>4 DEF ResetPasswordCommit
  <2>2. /\ q.user \in User
        /\ q.link \in Link
        /\ q.link <= made
        /\ \A u \in User : u # q.user => account[u].reset # q.link
    BY <2>1 DEF IInv, RequestsPrivate, Typed, Link
  <2> HIDE DEF q
  <2>3. /\ account' \in [User -> Account]
        /\ \A u \in User : account'[u].reset = IF u = q.user THEN NoLink ELSE account[u].reset
    BY <2>1, <2>2 DEF Account
  <2>4. Typed'
    BY <2>1, <2>2, <2>3, <1>1 DEF IInv, Typed, NoLink
  <2>5. LinksPrivate'
    BY <2>3 DEF IInv, LinksPrivate
  <2>6. RequestsPrivate'
    <3> SUFFICES ASSUME NEW x \in Request, request'[x].kind = "reset"
                 PROVE  /\ request'[x].user \in User
                        /\ request'[x].link \in 1..made
                        /\ \A v \in User : v # request'[x].user => account'[v].reset # request'[x].link
      BY <2>1 DEF RequestsPrivate
    <3>1. request'[x] = request[x]
      BY <2>1, <1>1
    <3>2. /\ request[x].user \in User
          /\ request[x].link \in 1..made
          /\ \A v \in User : v # request[x].user => account[v].reset # request[x].link
      BY <3>1 DEF IInv, RequestsPrivate
    <3>3. request[x].link # NoLink
      BY <3>2 DEF NoLink, IInv, Typed
    <3> QED BY <2>3, <3>1, <3>2, <3>3
  <2>7. UsedWereMade'
    BY <2>1, <2>2 DEF IInv, Typed, UsedWereMade, Link
  <2>8. UsedLinkIsDead'
    BY <2>1, <2>2, <2>3 DEF IInv, UsedLinkIsDead, Typed, Account, NoLink
  <2> QED BY <2>4, <2>5, <2>6, <2>7, <2>8 DEF IInv
<1>5. ASSUME NEW r \in Request, ChangePasswordCommit(r) PROVE IInv'
  <2>1. \/ account' = account
        \/ account' = [account EXCEPT ![request[r].user].reset = NoLink,
                                      ![request[r].user].outdated = FALSE]
    BY <1>5 DEF ChangePasswordCommit
  <2>3. account' \in [User -> Account]
        /\ \A u \in User : account'[u].reset \in {NoLink, account[u].reset}
    BY <2>1 DEF Account
  <2>2. Answer(r) /\ UNCHANGED <<made, used>>
    BY <1>5 DEF ChangePasswordCommit
  <2> QED BY <2>2, <2>3, <1>1, ClearedOrKept
<1>6. ASSUME NEW r \in Request,
             ResetActivationDigest(r) \/ ActivateCommit(r) \/ Mail(r) \/ Abort(r)
      PROVE  IInv'
  <2>1. CASE ResetActivationDigest(r)
    <3> DEFINE w == request[r].user
    <3>1. /\ NewLink(r, "mail_activation", w) /\ w \in User \cup {NoUser}
          /\ account' = [account EXCEPT ![w].activation = made']
      BY <2>1 DEF ResetActivationDigest, NewActivationLink, RequestState
    <3> HIDE DEF w
    <3>2. "mail_activation" \in Mailing
      BY DEF Mailing
    <3>3. /\ made' = made + 1 /\ made' \in Link /\ UNCHANGED used
          /\ request' \in [Request -> RequestState]
          /\ \A x \in Request : request'[x].kind = "reset" => request'[x] = request[x]
      BY <3>1, <3>2, LinkToMail
    <3>4. account' \in [User -> Account]
          /\ \A u \in User : account'[u].reset = account[u].reset
      BY <3>1, <3>3 DEF Account
    <3> QED BY <3>1, <3>3, <3>4, LinkMade
  <2>2. CASE ActivateCommit(r) \/ Mail(r) \/ Abort(r)
    <3>1. account' \in [User -> Account]
          /\ \A u \in User : account'[u].reset = account[u].reset
      <4>1. CASE ActivateCommit(r)
        BY <4>1 DEF ActivateCommit, Account
      <4>2. CASE Mail(r) \/ Abort(r)
        BY <4>2 DEF Mail, Abort
      <4> QED BY <2>2, <4>1, <4>2
    <3>2. Answer(r) /\ UNCHANGED <<made, used>>
      BY <2>2, Answered
    <3> QED BY <3>1, <3>2, <1>1, ClearedOrKept
  <2> QED BY <1>6, <2>1, <2>2
<1>7. ASSUME NEW r \in Request, NEW u \in User, SignUp(r, u) \/ RequestPasswordReset(r, u)
      PROVE  IInv'
  <2>1. PICK kind \in Mailing :
        /\ NewLink(r, kind, u)
        /\ \/ account' = [account EXCEPT ![u] =
                [NoAccount EXCEPT !.exists = TRUE, !.activation = made']]
           \/ account' = [account EXCEPT ![u].reset = made', ![u].outdated = FALSE]
    BY <1>7 DEF SignUp, RequestPasswordReset, NewActivationLink, Mailing
  <2>2. /\ made' = made + 1 /\ made' \in Link /\ UNCHANGED used
        /\ request' \in [Request -> RequestState]
        /\ \A x \in Request : request'[x].kind = "reset" => request'[x] = request[x]
    BY <2>1, LinkToMail
  <2>3. /\ account' \in [User -> Account]
        /\ \A v \in User : account'[v].reset \in {NoLink, account[v].reset}
                            \/ (v = u /\ account'[v].reset = made')
    <3>1. CASE account' = [account EXCEPT ![u] =
                [NoAccount EXCEPT !.exists = TRUE, !.activation = made']]
      BY <2>2, <3>1 DEF Account, NoAccount
    <3>2. CASE account' = [account EXCEPT ![u].reset = made', ![u].outdated = FALSE]
      BY <2>2, <3>2 DEF Account
    <3> QED BY <2>1, <3>1, <3>2
  <2> QED BY <2>2, <2>3, LinkMade
<1>8. ASSUME NEW u \in User, ResetLinkOutdated(u) PROVE IInv'
  <2>1. account' \in [User -> Account]
        /\ \A v \in User : account'[v].reset = account[v].reset
    BY <1>8 DEF ResetLinkOutdated, Account
  <2>2. UNCHANGED <<request, made, used>>
    BY <1>8 DEF ResetLinkOutdated
  <2> QED BY <2>1, <2>2, ClearedOrKept
<1>10. CASE UNCHANGED vars
  BY <1>10, ClearedOrKept DEF vars
<1>11. CASE Next
  BY <1>11, <1>2, <1>3, <1>4, <1>5, <1>6, <1>7, <1>8
     DEF Next, ResendActivationLink, Activate, ChangePassword, Kind
<1> QED BY <1>10, <1>11

(* However requests interleave, a reset link that was used is not in the   *)
(* row of any user: no request that begins later can use it again          *)
(* (User#reset_password).                                                  *)
THEOREM UsedLinkIsDeadAlways == Spec => []UsedLinkIsDead
<1>1. Init => IInv
  BY MailLinksAssumption DEF Init, IInv, Typed, LinksPrivate, RequestsPrivate,
     UsedWereMade, UsedLinkIsDead, Account, NoAccount, RequestState, Idle, Kind, Link, NoLink
<1>2. IInv /\ [Next]_vars => IInv'
  BY IInvStep
<1>3. IInv => UsedLinkIsDead
  BY DEF IInv
<1> QED BY <1>1, <1>2, <1>3, PTL DEF Spec

-----------------------------------------------------------------------------
(* The pending link is fresh: a request takes from fresh the link that it  *)
(* saw in its own row, which is in no other row, and leaves its own row    *)
(* without a link, unless it saw none.                                     *)
SeenPrivate ==
    \A r \in Request : request[r].kind # "idle" =>
        /\ request[r].user \in User
        /\ request[r].seen \in 0..made
        /\ \A u \in User : u # request[r].user =>
              account[u].reset = NoLink \/ account[u].reset # request[r].seen

FInv == IInv /\ fresh \subseteq 1..made /\ SeenPrivate /\ PendingLinkIsFresh

(* No request sees the new reset link of a row, and what the others see is *)
(* no link of another row.                                                 *)
LEMMA SeenKept ==
    ASSUME FInv, made' \in Nat, made' >= made,
           \A u \in User : account'[u].reset \in {NoLink, account[u].reset}
                           \/ account'[u].reset > made,
           \A r \in Request : request'[r].kind # "idle" =>
                \/ request'[r] = request[r]
                \/ request'[r].user \in User /\ request'[r].seen = NoLink
    PROVE  SeenPrivate'
<1> SUFFICES ASSUME NEW r \in Request, request'[r].kind # "idle"
             PROVE  /\ request'[r].user \in User
                    /\ request'[r].seen \in 0..made'
                    /\ \A u \in User : u # request'[r].user =>
                          account'[u].reset = NoLink \/ account'[u].reset # request'[r].seen
  BY DEF SeenPrivate
<1>1. CASE request'[r] = request[r]
  <2>1. /\ request[r].user \in User
        /\ request[r].seen \in 0..made
        /\ \A u \in User : u # request[r].user =>
              account[u].reset = NoLink \/ account[u].reset # request[r].seen
    BY <1>1 DEF FInv, SeenPrivate
  <2>2. made \in Nat
    BY DEF FInv, IInv, Typed
  <2> QED BY <1>1, <2>1, <2>2
<1>2. CASE request'[r].user \in User /\ request'[r].seen = NoLink
  BY <1>2 DEF NoLink
<1> QED BY <1>1, <1>2

LEMMA FInvLoad ==
    ASSUME FInv, IInv', NEW r \in Request, NEW u \in User, NEW kind \in Kind,
           NEW link \in Link \cup {NoLink}, Load(r, kind, u, link)
    PROVE  FInv'
<1>1. /\ request' = [request EXCEPT ![r] =
            [kind |-> kind, user |-> u, link |-> link, seen |-> account[u].reset]]
      /\ UNCHANGED <<account, made, fresh>>
  BY DEF Load
<1>2. SeenPrivate'
  <2> SUFFICES ASSUME NEW x \in Request, request'[x].kind # "idle"
               PROVE  /\ request'[x].user \in User
                      /\ request'[x].seen \in 0..made
                      /\ \A v \in User : v # request'[x].user =>
                            account[v].reset = NoLink \/ account[v].reset # request'[x].seen
    BY <1>1 DEF SeenPrivate
  <2>1. CASE x = r
    <3>1. request \in [Request -> RequestState]
      BY DEF FInv, IInv, Typed
    <3>2. request'[x].user = u /\ request'[x].seen = account[u].reset
      BY <1>1, <2>1, <3>1
    <3>3. account[u].reset \in 0..made
      BY DEF FInv, IInv, Typed, Account, Link, NoLink
    <3> QED BY <3>2, <3>3 DEF FInv, IInv, LinksPrivate
  <2>2. CASE x # r
    BY <1>1, <2>2 DEF FInv, SeenPrivate, IInv, Typed
  <2> QED BY <2>1, <2>2
<1> QED BY <1>1, <1>2 DEF FInv, PendingLinkIsFresh

(* A new link: it may become the reset link of a row, and is then fresh.   *)
LEMMA FInvMade ==
    ASSUME FInv, IInv', NEW r \in Request, NEW w \in User, NEW kind \in Mailing,
           NewLink(r, kind, w),
           \A u \in User : account'[u].reset \in {NoLink, account[u].reset}
                           \/ (account'[u].reset = made' /\ made' \in fresh'),
           fresh' \in {fresh, fresh \cup {made'}}
    PROVE  FInv'
<1>1. /\ made \in Nat /\ made' = made + 1
      /\ \A x \in Request : x # r => request'[x] = request[x]
      /\ request'[r].user = w /\ request'[r].seen = NoLink
  <2>1. w \in User \cup {NoUser} /\ IInv
    BY DEF FInv
  <2>2. /\ made \in Nat /\ made' = made + 1
        /\ \A x \in Request : x # r => request'[x] = request[x]
        /\ request'[r] = [kind |-> kind, user |-> w, link |-> made', seen |-> NoLink]
    BY <2>1, LinkToMail
  <2> QED BY <2>2
<1>2. fresh' \subseteq 1..made'
  BY <1>1 DEF FInv
<1>3. \A x \in Request :
         \/ request'[x] = request[x]
         \/ request'[x].user \in User /\ request'[x].seen = NoLink
  BY <1>1
<1>4. SeenPrivate'
  BY <1>1, <1>3, SeenKept
<1>5. PendingLinkIsFresh'
  BY DEF FInv, PendingLinkIsFresh
<1> QED BY <1>2, <1>4, <1>5 DEF FInv

(* A step that makes no link and begins no request.                        *)
LEMMA FInvEnds ==
    ASSUME FInv, IInv', UNCHANGED made,
           \A r \in Request : request'[r].kind # "idle" => request'[r] = request[r],
           \A u \in User : account'[u].reset \in {NoLink, account[u].reset},
           fresh' \subseteq fresh,
           PendingLinkIsFresh'
    PROVE  FInv'
<1>1. made \in Nat
  BY DEF FInv, IInv, Typed
<1>2. SeenPrivate'
  BY <1>1, SeenKept
<1> QED BY <1>2 DEF FInv

LEMMA FInvStep ==
    ASSUME FInv, [Next]_vars
    PROVE  FInv'
<1> USE MailLinksAssumption
<1>i. IInv'
  BY IInvStep DEF FInv
<1>t. /\ account \in [User -> Account] /\ request \in [Request -> RequestState]
      /\ made \in Nat
  BY DEF FInv, IInv, Typed
<1>1. ASSUME NEW r \in Request, Answer(r)
      PROVE  \A x \in Request : request'[x].kind # "idle" => request'[x] = request[x]
  BY <1>1, <1>t DEF Answer, Idle
<1>2. ASSUME NEW r \in Request, NEW u \in User,
             \/ ResendActivationLink(r, u) \/ ChangePassword(r, u)
             \/ \E link \in Link : Activate(r, u, link) \/ ResetPassword(r, u, link)
      PROVE  FInv'
  BY <1>2, <1>i, FInvLoad DEF ResendActivationLink, ChangePassword, Activate, ResetPassword, Kind
<1>3. ASSUME NEW r \in Request, NEW u \in User, SignUp(r, u) PROVE FInv'
  <2>1. /\ NewLink(r, "mail_activation", u) /\ UNCHANGED fresh
        /\ account' = [account EXCEPT ![u] =
                [NoAccount EXCEPT !.exists = TRUE, !.activation = made']]
    BY <1>3 DEF SignUp, NewActivationLink
  <2>2. \A v \in User : account'[v].reset \in {NoLink, account[v].reset}
    BY <2>1, <1>t DEF NoAccount
  <2>3. "mail_activation" \in Mailing
    BY DEF Mailing
  <2> QED BY <2>1, <2>2, <2>3, <1>i, FInvMade
<1>4. ASSUME NEW r \in Request, NEW u \in User, RequestPasswordReset(r, u) PROVE FInv'
  <2>1. /\ NewLink(r, "mail_reset", u)
        /\ account' = [account EXCEPT ![u].reset = made', ![u].outdated = FALSE]
        /\ fresh' = fresh \cup {made'}
    BY <1>4 DEF RequestPasswordReset
  <2>2. \A v \in User : account'[v].reset \in {account[v].reset, made'}
    BY <2>1, <1>t DEF Account
  <2>3. "mail_reset" \in Mailing
    BY DEF Mailing
  <2> QED BY <2>1, <2>2, <2>3, <1>i, FInvMade
<1>5. ASSUME NEW r \in Request, ResetActivationDigest(r) PROVE FInv'
  <2> DEFINE w == request[r].user
  <2>1. /\ request[r].kind = "resend" /\ NewLink(r, "mail_activation", w) /\ UNCHANGED fresh
        /\ account' = [account EXCEPT ![w].activation = made']
    BY <1>5 DEF ResetActivationDigest, NewActivationLink
  <2>2. w \in User
    BY <2>1 DEF FInv, SeenPrivate
  <2> HIDE DEF w
  <2>3. \A v \in User : account'[v].reset = account[v].reset
    BY <2>1, <2>2, <1>t DEF Account
  <2>4. "mail_activation" \in Mailing
    BY DEF Mailing
  <2> QED BY <2>1, <2>2, <2>3, <2>4, <1>i, FInvMade
<1>6. ASSUME NEW r \in Request, ResetPasswordCommit(r) \/ ChangePasswordCommit(r) PROVE FInv'
  <2> DEFINE q == request[r]
  <2>1. /\ q.kind # "idle"
        /\ account' = IF q.kind = "change" /\ q.seen = NoLink THEN account
                      ELSE [account EXCEPT ![q.user].reset = NoLink, ![q.user].outdated = FALSE]
        /\ fresh' = fresh \ {q.seen}
        /\ Answer(r)
        /\ UNCHANGED made
    BY <1>6 DEF ResetPasswordCommit, ChangePasswordCommit, PasswordChanged
  <2>2. /\ q.user \in User
        /\ \A u \in User : u # q.user => account[u].reset = NoLink \/ account[u].reset # q.seen
    BY <2>1 DEF FInv, SeenPrivate
  <2> HIDE DEF q
  <2>3. \A u \in User :
            account'[u].reset = IF u = q.user /\ ~(q.kind = "change" /\ q.seen = NoLink) THEN NoLink
                                ELSE account[u].reset
    BY <2>1, <2>2, <1>t DEF Account
  <2>4. PendingLinkIsFresh'
    <3> SUFFICES ASSUME NEW u \in User, account'[u].reset # NoLink
                 PROVE  account'[u].reset \in fresh'
      BY DEF PendingLinkIsFresh
    <3>1. account'[u].reset = account[u].reset /\ account[u].reset # q.seen
      BY <2>2, <2>3
    <3>2. account[u].reset \in fresh
      BY <3>1 DEF FInv, PendingLinkIsFresh
    <3> QED BY <2>1, <3>1, <3>2
  <2> QED BY <2>1, <2>3, <2>4, <1>1, <1>i, FInvEnds
<1>7. ASSUME NEW r \in Request, ActivateCommit(r) \/ Mail(r) \/ Abort(r) PROVE FInv'
  <2>1. Answer(r) /\ UNCHANGED <<made, fresh>>
    BY <1>7, Answered
  <2>2. \A u \in User : account'[u].reset = account[u].reset
    BY <1>7, <1>t DEF ActivateCommit, Mail, Abort, Account
  <2>3. PendingLinkIsFresh'
    BY <2>1, <2>2 DEF FInv, PendingLinkIsFresh
  <2> QED BY <2>1, <2>2, <2>3, <1>1, <1>i, FInvEnds
<1>8. ASSUME NEW u \in User, ResetLinkOutdated(u) PROVE FInv'
  <2>1. UNCHANGED <<request, made, fresh>>
    BY <1>8 DEF ResetLinkOutdated
  <2>2. \A v \in User : account'[v].reset = account[v].reset
    BY <1>8, <1>t DEF ResetLinkOutdated, Account
  <2>3. PendingLinkIsFresh'
    BY <2>1, <2>2 DEF FInv, PendingLinkIsFresh
  <2> QED BY <2>1, <2>2, <2>3, <1>i, FInvEnds
<1>9. CASE UNCHANGED vars
  BY <1>9, <1>i DEF vars, FInv, SeenPrivate, PendingLinkIsFresh
<1>10. CASE Next
  BY <1>10, <1>2, <1>3, <1>4, <1>5, <1>6, <1>7, <1>8 DEF Next
<1> QED BY <1>9, <1>10

LEMMA FInvInit == Init => FInv
<1> SUFFICES ASSUME Init PROVE FInv
  OBVIOUS
<1>1. IInv
  BY MailLinksAssumption DEF Init, IInv, Typed, LinksPrivate, RequestsPrivate,
     UsedWereMade, UsedLinkIsDead, Account, NoAccount, RequestState, Idle, Kind, Link, NoLink
<1>2. SeenPrivate /\ PendingLinkIsFresh /\ fresh \subseteq 1..made
  BY DEF Init, SeenPrivate, PendingLinkIsFresh, NoAccount, Idle, Link, NoLink
<1> QED BY <1>1, <1>2 DEF FInv

(* A change of the password leaves no reset link pending that was made     *)
(* before its request began (change_password!, User#reset_password).       *)
THEOREM PendingLinkIsFreshAlways == Spec => []PendingLinkIsFresh
<1>1. FInv /\ [Next]_vars => FInv'
  BY FInvStep
<1>2. FInv => PendingLinkIsFresh
  BY DEF FInv
<1> QED BY FInvInit, <1>1, <1>2, PTL DEF Spec

-----------------------------------------------------------------------------
(* The last activation link: of a user whose mails did not mix, at most    *)
(* one request has a link to mail, which is the one in the row, and if     *)
(* none has, the last mail carried the one in the row.                     *)
LastIsOnItsWay ==
    \A u \in User : account[u].exists /\ u \notin mixed =>
        /\ \A r \in Request : Owes(r, u) => request[r].link = account[u].activation
        /\ \A r, q \in Request : Owes(r, u) /\ Owes(q, u) => r = q
        /\ (\A r \in Request : ~Owes(r, u)) => sent[u] = account[u].activation

MailTyped ==
    /\ mailed \subseteq 1..made
    /\ sent \in [User -> mailed \cup {NoLink}]
    /\ mixed \subseteq User
    /\ \A u \in User : account[u].activation <= made
    /\ \A r \in Request : request[r].kind \in Mailing => request[r].link \in 1..made

MInv == FInv /\ MailTyped /\ LastIsOnItsWay

(* A step that neither makes a link nor mails one.                         *)
LEMMA MInvQuiet ==
    ASSUME MInv, FInv', UNCHANGED <<made, mailed, sent, mixed>>,
           \A u \in User : /\ account'[u].activation = account[u].activation
                           /\ account'[u].exists = account[u].exists,
           \A r \in Request : request[r].kind \in Mailing \/ request'[r].kind \in Mailing
                              => request'[r] = request[r]
    PROVE  MInv'
<1>1. MailTyped'
  BY DEF MInv, MailTyped
<1>2. \A r \in Request, u \in User : Owes(r, u)' <=> Owes(r, u)
  BY DEF Owes, Mailing
<1>3. \A r \in Request, u \in User : Owes(r, u) => request'[r] = request[r]
  BY DEF Owes, Mailing
<1>4. LastIsOnItsWay'
  BY <1>2, <1>3 DEF MInv, LastIsOnItsWay
<1> QED BY <1>1, <1>4 DEF MInv

(* A new activation link.                                                  *)
LEMMA MInvActivationLink ==
    ASSUME MInv, FInv', NEW r \in Request, NEW w \in User,
           request[r].kind \notin Mailing, NewActivationLink(r, w),
           account'[w].activation = made',
           \A u \in User : u # w => account'[u] = account[u]
    PROVE  MInv'
<1>1. NewLink(r, "mail_activation", w) /\ "mail_activation" \in Mailing
  BY DEF NewActivationLink, Mailing
<1>2. /\ made \in Nat /\ made' = made + 1
      /\ mailed' = mailed /\ sent' = sent
      /\ \A x \in Request : x # r => request'[x] = request[x]
      /\ request'[r] = [kind |-> "mail_activation", user |-> w, link |-> made', seen |-> NoLink]
  <2>1. w \in User \cup {NoUser} /\ IInv
    BY DEF MInv, FInv
  <2>2. /\ made \in Nat /\ made' = made + 1 /\ UNCHANGED <<mailed, sent, used>>
        /\ \A x \in Request : x # r => request'[x] = request[x]
        /\ request'[r] = [kind |-> "mail_activation", user |-> w, link |-> made', seen |-> NoLink]
    BY <1>1, <2>1, LinkToMail
  <2> QED BY <2>2
<1>3. mixed' = IF \E q \in Request : Owes(q, w) THEN mixed \cup {w} ELSE mixed \ {w}
  BY DEF NewActivationLink
<1>4. /\ \A x \in Request, u \in User : x # r => (Owes(x, u)' <=> Owes(x, u))
      /\ \A u \in User : ~Owes(r, u) /\ (Owes(r, u)' <=> u = w)
  BY <1>2 DEF Owes, Mailing
<1>5. MailTyped'
  <2>1. \A u \in User : account'[u].activation <= made'
    <3> SUFFICES ASSUME NEW u \in User, u # w PROVE account[u].activation <= made'
      BY <1>2
    <3>1. account[u].activation <= made /\ account[u].activation \in Nat
      BY DEF MInv, MailTyped, FInv, IInv, Typed, Account, Link, NoLink
    <3> QED BY <3>1, <1>2
  <2>2. \A x \in Request : request'[x].kind \in Mailing => request'[x].link \in 1..made'
    BY <1>2 DEF MInv, MailTyped
  <2>3. mailed' \subseteq 1..made' /\ sent' \in [User -> mailed' \cup {NoLink}]
    BY <1>2 DEF MInv, MailTyped
  <2>4. mixed' \subseteq User
    BY <1>3 DEF MInv, MailTyped
  <2> QED BY <2>1, <2>2, <2>3, <2>4 DEF MailTyped
<1>6. LastIsOnItsWay'
  <2> SUFFICES ASSUME NEW u \in User, account'[u].exists, u \notin mixed'
               PROVE  /\ \A x \in Request : Owes(x, u)' => request'[x].link = account'[u].activation
                      /\ \A x, q \in Request : Owes(x, u)' /\ Owes(q, u)' => x = q
                      /\ (\A x \in Request : ~Owes(x, u)') => sent'[u] = account'[u].activation
    BY DEF LastIsOnItsWay
  <2>1. CASE u = w
    <3>1. \A x \in Request : Owes(x, u)' <=> x = r
      BY <1>3, <1>4, <2>1 DEF MInv, MailTyped
    <3> QED BY <1>2, <2>1, <3>1
  <2>2. CASE u # w
    <3>1. u \notin mixed /\ account'[u] = account[u]
      BY <1>3, <2>2
    <3>2. \A x \in Request : Owes(x, u)' <=> Owes(x, u)
      BY <1>4, <2>2
    <3>3. \A x \in Request : Owes(x, u)' => x # r
      BY <1>4, <2>2
    <3> QED BY <1>2, <3>1, <3>2, <3>3 DEF MInv, LastIsOnItsWay
  <2> QED BY <2>1, <2>2
<1> QED BY <1>5, <1>6 DEF MInv

(* A mail is delivered, or not.                                            *)
LEMMA MInvMail ==
    ASSUME MInv, FInv', NEW r \in Request, request[r].kind \in Mailing, Mail(r) \/ Abort(r)
    PROVE  MInv'
<1> DEFINE q == request[r]
<1>t. /\ request \in [Request -> RequestState] /\ q.user \in User /\ q.link \in 1..made
      /\ sent \in [User -> mailed \cup {NoLink}] /\ mailed \subseteq 1..made
  BY DEF MInv, MailTyped, FInv, IInv, Typed, SeenPrivate, Mailing
<1>1. /\ \A x \in Request : x # r => request'[x] = request[x]
      /\ request'[r].kind = "idle" /\ made' = made
  BY <1>t, Answered DEF Answer, Idle
<1>2. account' = account
  BY DEF Mail, Abort
<1>3. \A x \in Request, u \in User : Owes(x, u)' <=> x # r /\ Owes(x, u)
  BY <1>1 DEF Owes
<1> HIDE DEF q
<1>4. CASE Mail(r)
  <2>1. /\ mailed' = mailed \cup {q.link} /\ mixed' = mixed
        /\ sent' = IF q.kind = "mail_activation" THEN [sent EXCEPT ![q.user] = q.link] ELSE sent
    BY <1>4 DEF Mail, q
  <2>2. MailTyped'
    <3>1. mailed' \subseteq 1..made' /\ sent' \in [User -> mailed' \cup {NoLink}]
      BY <1>t, <1>1, <2>1
    <3>2. \A x \in Request : request'[x].kind \in Mailing => request'[x].link \in 1..made'
      BY <1>1 DEF MInv, MailTyped, Mailing
    <3> QED BY <1>1, <1>2, <2>1, <3>1, <3>2 DEF MInv, MailTyped
  <2>3. LastIsOnItsWay'
    <3> SUFFICES ASSUME NEW u \in User, account[u].exists, u \notin mixed
                 PROVE  /\ \A x \in Request : Owes(x, u)' => request'[x].link = account[u].activation
                        /\ \A x, y \in Request : Owes(x, u)' /\ Owes(y, u)' => x = y
                        /\ (\A x \in Request : ~Owes(x, u)') => sent'[u] = account[u].activation
      BY <1>2, <2>1 DEF LastIsOnItsWay
    <3>1. /\ \A x \in Request : Owes(x, u) => request[x].link = account[u].activation
          /\ \A x, y \in Request : Owes(x, u) /\ Owes(y, u) => x = y
          /\ (\A x \in Request : ~Owes(x, u)) => sent[u] = account[u].activation
      BY DEF MInv, LastIsOnItsWay
    <3>2. CASE Owes(r, u)
      BY <1>t, <1>1, <1>3, <2>1, <3>1, <3>2 DEF Owes, q
    <3>3. CASE ~Owes(r, u)
      <4>1. sent'[u] = sent[u]
        BY <1>t, <2>1, <3>3 DEF Owes, q
      <4> QED BY <1>1, <1>3, <3>1, <3>3, <4>1
    <3> QED BY <3>2, <3>3
  <2> QED BY <2>2, <2>3 DEF MInv
<1>5. CASE Abort(r)
  <2>1. /\ mailed' = mailed /\ sent' = sent /\ mixed' = mixed \cup {u \in User : Owes(r, u)}
    BY <1>5 DEF Abort
  <2>2. MailTyped'
    <3>1. \A x \in Request : request'[x].kind \in Mailing => request'[x].link \in 1..made'
      BY <1>1 DEF MInv, MailTyped, Mailing
    <3> QED BY <1>1, <1>2, <2>1, <3>1 DEF MInv, MailTyped
  <2>3. LastIsOnItsWay'
    <3> SUFFICES ASSUME NEW u \in User, account[u].exists, u \notin mixed, ~Owes(r, u)
                 PROVE  /\ \A x \in Request : Owes(x, u)' => request'[x].link = account[u].activation
                        /\ \A x, y \in Request : Owes(x, u)' /\ Owes(y, u)' => x = y
                        /\ (\A x \in Request : ~Owes(x, u)') => sent[u] = account[u].activation
      BY <1>2, <2>1 DEF LastIsOnItsWay
    <3> QED BY <1>1, <1>3 DEF MInv, LastIsOnItsWay
  <2> QED BY <2>2, <2>3 DEF MInv
<1> QED BY <1>4, <1>5

LEMMA MInvStep ==
    ASSUME MInv, [Next]_vars
    PROVE  MInv'
<1>f. FInv'
  BY FInvStep DEF MInv
<1>t. account \in [User -> Account] /\ request \in [Request -> RequestState]
  BY DEF MInv, FInv, IInv, Typed
<1>1. ASSUME NEW r \in Request, Answer(r), request[r].kind \notin Mailing
      PROVE  \A x \in Request : request[x].kind \in Mailing \/ request'[x].kind \in Mailing
                                => request'[x] = request[x]
  BY <1>1, <1>t DEF Answer, Idle, Mailing
<1>2. ASSUME NEW r \in Request, NEW u \in User, NEW kind \in Kind \ Mailing, NEW link,
             Load(r, kind, u, link)
      PROVE  MInv'
  <2>1. /\ request[r].kind = "idle" /\ UNCHANGED <<account, made, mailed, sent, mixed>>
        /\ request' = [request EXCEPT ![r] =
              [kind |-> kind, user |-> u, link |-> link, seen |-> account[u].reset]]
    BY <1>2 DEF Load
  <2>2. \A x \in Request : request[x].kind \in Mailing \/ request'[x].kind \in Mailing
                            => request'[x] = request[x]
    BY <2>1, <1>t, <1>2 DEF Mailing
  <2> QED BY <2>1, <2>2, <1>f, MInvQuiet
<1>3. ASSUME NEW r \in Request, NEW u \in User,
             \/ ResendActivationLink(r, u) \/ ChangePassword(r, u)
             \/ \E link \in Link : Activate(r, u, link) \/ ResetPassword(r, u, link)
      PROVE  MInv'
  <2>1. {"resend", "change", "activate", "reset"} \subseteq Kind \ Mailing
    BY DEF Kind, Mailing
  <2> QED BY <1>3, <2>1, <1>2 DEF ResendActivationLink, ChangePassword, Activate, ResetPassword
<1>4. ASSUME NEW r \in Request, NEW u \in User, SignUp(r, u) PROVE MInv'
  <2>1. /\ request[r].kind = "idle" /\ NewActivationLink(r, u)
        /\ account' = [account EXCEPT ![u] =
                [NoAccount EXCEPT !.exists = TRUE, !.activation = made']]
    BY <1>4 DEF SignUp
  <2>2. account'[u].activation = made' /\ \A v \in User : v # u => account'[v] = account[v]
    BY <2>1, <1>t DEF NoAccount
  <2>3. request[r].kind \notin Mailing
    BY <2>1 DEF Mailing
  <2> QED BY <2>1, <2>2, <2>3, <1>f, MInvActivationLink
<1>5. ASSUME NEW r \in Request, ResetActivationDigest(r) PROVE MInv'
  <2> DEFINE w == request[r].user
  <2>1. /\ request[r].kind = "resend" /\ NewActivationLink(r, w)
        /\ account' = [account EXCEPT ![w].activation = made']
    BY <1>5 DEF ResetActivationDigest
  <2>2. w \in User
    BY <2>1 DEF MInv, FInv, SeenPrivate
  <2>3. request[r].kind \notin Mailing
    BY <2>1 DEF Mailing
  <2> HIDE DEF w
  <2>4. account'[w].activation = made' /\ \A v \in User : v # w => account'[v] = account[v]
    BY <2>1, <2>2, <1>t DEF Account
  <2> QED BY <2>1, <2>2, <2>3, <2>4, <1>f, MInvActivationLink
<1>6. ASSUME NEW r \in Request, NEW u \in User, RequestPasswordReset(r, u) PROVE MInv'
  <2>1. /\ request[r].kind = "idle" /\ NewLink(r, "mail_reset", u) /\ mixed' = mixed
        /\ account' = [account EXCEPT ![u].reset = made', ![u].outdated = FALSE]
    BY <1>6 DEF RequestPasswordReset
  <2>2. /\ made \in Nat /\ made' = made + 1 /\ mailed' = mailed /\ sent' = sent
        /\ \A x \in Request : x # r => request'[x] = request[x]
        /\ request'[r] = [kind |-> "mail_reset", user |-> u, link |-> made', seen |-> NoLink]
    <3>1. u \in User \cup {NoUser} /\ IInv /\ "mail_reset" \in Mailing
      BY DEF MInv, FInv, Mailing
    <3>2. /\ made \in Nat /\ made' = made + 1 /\ UNCHANGED <<mailed, sent, used>>
          /\ \A x \in Request : x # r => request'[x] = request[x]
          /\ request'[r] = [kind |-> "mail_reset", user |-> u, link |-> made', seen |-> NoLink]
      BY <2>1, <3>1, LinkToMail
    <3> QED BY <3>2
  <2>3. \A v \in User : /\ account'[v].activation = account[v].activation
                        /\ account'[v].exists = account[v].exists
    BY <2>1, <1>t DEF Account
  <2>4. MailTyped'
    <3>1. \A v \in User : account[v].activation <= made /\ account[v].activation \in Nat
      BY DEF MInv, MailTyped, FInv, IInv, Typed, Account, Link, NoLink
    <3>2. \A v \in User : account'[v].activation <= made'
      BY <2>2, <2>3, <3>1
    <3>3. \A x \in Request : request'[x].kind \in Mailing => request'[x].link \in 1..made'
      BY <2>2 DEF MInv, MailTyped
    <3>4. mailed' \subseteq 1..made' /\ sent' \in [User -> mailed' \cup {NoLink}] /\ mixed' \subseteq User
      BY <2>1, <2>2 DEF MInv, MailTyped
    <3> QED BY <3>2, <3>3, <3>4 DEF MailTyped
  <2>5. \A x \in Request, v \in User : Owes(x, v)' <=> Owes(x, v)
    BY <2>1, <2>2 DEF Owes
  <2>6. \A x \in Request, v \in User : Owes(x, v) => request'[x] = request[x]
    BY <2>1, <2>2 DEF Owes
  <2>7. LastIsOnItsWay'
    <3> SUFFICES ASSUME NEW v \in User, account[v].exists, v \notin mixed
                 PROVE  /\ \A x \in Request : Owes(x, v)' => request'[x].link = account[v].activation
                        /\ \A x, q \in Request : Owes(x, v)' /\ Owes(q, v)' => x = q
                        /\ (\A x \in Request : ~Owes(x, v)') => sent[v] = account[v].activation
      BY <2>1, <2>2, <2>3 DEF LastIsOnItsWay
    <3> QED BY <2>5, <2>6 DEF MInv, LastIsOnItsWay
  <2> QED BY <2>4, <2>7, <1>f DEF MInv
<1>7. ASSUME NEW r \in Request, ResetPasswordCommit(r) \/ ChangePasswordCommit(r) \/ ActivateCommit(r)
      PROVE  MInv'
  <2>1. /\ Answer(r) /\ request[r].kind \notin Mailing /\ UNCHANGED <<made, mailed, sent, mixed>>
    BY <1>7 DEF ResetPasswordCommit, ChangePasswordCommit, ActivateCommit, Mailing
  <2>2. \A u \in User : /\ account'[u].activation = account[u].activation
                        /\ account'[u].exists = account[u].exists
    BY <1>7, <1>t DEF ResetPasswordCommit, ChangePasswordCommit, ActivateCommit, Account
  <2> QED BY <2>1, <2>2, <1>1, <1>f, MInvQuiet
<1>8. ASSUME NEW r \in Request, Mail(r) \/ Abort(r) PROVE MInv'
  <2>1. CASE request[r].kind \in Mailing
    BY <1>8, <2>1, <1>f, MInvMail
  <2>2. CASE request[r].kind \notin Mailing
    <3>1. Abort(r) /\ \A u \in User : ~Owes(r, u)
      BY <1>8, <2>2 DEF Mail, Owes, Mailing
    <3>2. mixed \subseteq User
      BY DEF MInv, MailTyped
    <3>3. Answer(r) /\ UNCHANGED <<account, made, mailed, sent, mixed>>
      BY <3>1, <3>2 DEF Abort
    <3> QED BY <2>2, <3>3, <1>1, <1>f, MInvQuiet
  <2> QED BY <2>1, <2>2
<1>9. ASSUME NEW u \in User, ResetLinkOutdated(u) PROVE MInv'
  <2>1. UNCHANGED <<request, made, mailed, sent, mixed>>
    BY <1>9 DEF ResetLinkOutdated
  <2>2. \A v \in User : /\ account'[v].activation = account[v].activation
                        /\ account'[v].exists = account[v].exists
    BY <1>9, <1>t DEF ResetLinkOutdated, Account
  <2> QED BY <2>1, <2>2, <1>f, MInvQuiet
<1>10. CASE UNCHANGED vars
  BY <1>10, <1>f, MInvQuiet DEF vars
<1>11. CASE Next
  BY <1>11, <1>3, <1>4, <1>5, <1>6, <1>7, <1>8, <1>9 DEF Next
<1> QED BY <1>10, <1>11

LEMMA MInvAlways == Spec => []MInv
<1>1. Init => MInv
  <2> SUFFICES ASSUME Init PROVE MInv
    OBVIOUS
  <2>1. FInv
    BY FInvInit
  <2>2. MailTyped /\ LastIsOnItsWay
    BY DEF Init, MailTyped, LastIsOnItsWay, NoAccount, Idle, Mailing, Link, NoLink
  <2> QED BY <2>1, <2>2 DEF MInv
<1>2. MInv /\ [Next]_vars => MInv'
  BY MInvStep
<1> QED BY <1>1, <1>2, PTL DEF Spec

(* The rows and the requests stay well typed, no row holds a link that was *)
(* not made, and no link is mailed that was not.                           *)
THEOREM TypeCorrect == Spec => []TypeOK
<1>1. MInv => TypeOK
  BY DEF MInv, FInv, MailTyped, IInv, Typed, TypeOK
<1> QED BY <1>1, MInvAlways, PTL

(* The link in the last mail to a user is the one that is accepted, unless *)
(* one is on its way, or the last ones were on their way together, or were *)
(* not delivered (reset_activation_digest, deliver_now).                   *)
THEOREM LastMailActivatesAlways == Spec => []LastMailActivates
<1>1. MInv => LastMailActivates
  BY DEF MInv, LastIsOnItsWay, LastMailActivates
<1> QED BY <1>1, MInvAlways, PTL

=============================================================================
