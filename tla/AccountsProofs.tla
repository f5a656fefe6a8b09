--------------------------- MODULE AccountsProofs ---------------------------
(***************************************************************************)
(* Proofs about Accounts, for any sets of users, passwords, servers,       *)
(* tokens and threads.                                                     *)
(***************************************************************************)
EXTENDS Accounts, TLAPS

(* The requests in progress name existing things and carry what their kind *)
(* needs.                                                                  *)
RequestTyped ==
    \A r \in Request :
        /\ request[r].kind # "idle" => request[r].user \in User
        /\ request[r].kind \in {"change", "reset"} => request[r].new \in NewPassword
        /\ request[r].kind \in {"create", "update"} => request[r].server \in Server

RowsTyped ==
    /\ account \in [User -> Account]
    /\ tokens \in [Token -> TokenRow]
    /\ servers \in [Server -> ServerRow]
    /\ \A u \in User : account[u].exists <=> account[u].password # NoPassword

LEMMA TypeParts == TypeOK <=> RowsTyped /\ request \in [Request -> RequestState] /\ RequestTyped
  BY DEF TypeOK, RowsTyped, RequestTyped

LEMMA TypePartsNext ==
    TypeOK' <=> RowsTyped' /\ (request \in [Request -> RequestState])' /\ RequestTyped'
  BY DEF TypeOK, RowsTyped, RequestTyped

(* A request that begins or ends keeps the table of requests typed.        *)
LEMMA BeginTyped ==
    ASSUME request \in [Request -> RequestState], RequestTyped, NEW r \in Request,
           NEW q \in RequestState, q.kind # "idle" => q.user \in User,
           q.kind \in {"change", "reset"} => q.new \in NewPassword,
           q.kind \in {"create", "update"} => q.server \in Server,
           Begin(r, q)
    PROVE  (request \in [Request -> RequestState])' /\ RequestTyped'
<1>1. request' \in [Request -> RequestState]
  BY DEF Begin
<1>2. \A x \in Request : request'[x] = IF x = r THEN q ELSE request[x]
  BY DEF Begin
<1> QED BY <1>1, <1>2 DEF RequestTyped

(* What a request holds when it begins.                                    *)
LEMMA PendingTyped ==
    ASSUME NEW kind \in Kind, NEW u \in User, NEW header \in Password \cup {NoPassword},
           NEW s \in Server \cup {NoServer}, NEW astray \in BOOLEAN,
           kind \in {"create", "update"} => s \in Server
    PROVE  LET q == Pending(kind, u, header, s, astray)
           IN  /\ q \in RequestState
               /\ q.kind = kind /\ q.user = u /\ q.server = s /\ q.header = header
               /\ q.astray = astray
BY DEF Pending, RequestState

LEMMA EndTyped ==
    ASSUME request \in [Request -> RequestState], RequestTyped, NEW r \in Request, End(r)
    PROVE  (request \in [Request -> RequestState])' /\ RequestTyped'
<1>1. request' \in [Request -> RequestState]
  BY DEF End, RequestState, Idle, Kind
<1>2. \A x \in Request : request'[x] = IF x = r THEN Idle ELSE request[x]
  BY DEF End
<1> QED BY <1>1, <1>2 DEF RequestTyped, Idle

LEMMA OvertakeTyped ==
    ASSUME request \in [Request -> RequestState], RequestTyped, NEW r \in Request,
           NEW u \in User, NEW new, NEW q \in RequestState, Overtake(r, u, new, q),
           q.kind # "idle" => q.user \in User,
           q.kind \notin {"change", "reset", "create", "update"}
    PROVE  (request \in [Request -> RequestState])' /\ RequestTyped'
<1>1. \A x \in Request : request'[x] \in RequestState
  <2> TAKE x \in Request
  <2>1. CASE request'[x] = q
    BY <2>1
  <2>2. CASE request'[x] = request[x]
    BY <2>2
  <2>3. CASE request'[x] = [request[x] EXCEPT !.astray = TRUE]
    BY <2>3 DEF RequestState
  <2> QED BY <2>1, <2>2, <2>3 DEF Overtake
<1>2. request' \in [Request -> RequestState]
  BY <1>1 DEF Overtake
<1>3. \A x \in Request :
        \/ request'[x] = q
        \/ /\ request'[x].kind = request[x].kind
           /\ request'[x].user = request[x].user
           /\ request'[x].new = request[x].new
           /\ request'[x].server = request[x].server
  BY DEF Overtake, RequestState
<1>4. RequestTyped'
  <2> SUFFICES ASSUME NEW x \in Request
               PROVE  /\ request'[x].kind # "idle" => request'[x].user \in User
                      /\ request'[x].kind \in {"change", "reset"} => request'[x].new \in NewPassword
                      /\ request'[x].kind \in {"create", "update"} => request'[x].server \in Server
    BY DEF RequestTyped
  <2>1. CASE request'[x] = q
    BY <2>1
  <2>2. CASE request'[x] # q
    BY <2>2, <1>3 DEF RequestTyped
  <2> QED BY <2>1, <2>2
<1> QED BY <1>2, <1>4

(* A server whose password is encrypted once more.                         *)
LEMMA RowTyped ==
    ASSUME NEW row \in ServerRow, NEW new \in NewPassword, NEW astray \in BOOLEAN
    PROVE  /\ [row EXCEPT !.key = new, !.astray = astray] \in ServerRow
           /\ [row EXCEPT !.key = new, !.blanked = TRUE, !.astray = astray] \in ServerRow
BY AccountsAssumption DEF ServerRow

LEMMA TypeInit == Init => TypeOK
<1> USE AccountsAssumption
<1>1. Init => RowsTyped
  BY DEF Init, RowsTyped, Account, NoAccount, TokenRow, NoTokenRow, ServerRow, NoServerRow
<1>2. Init => request \in [Request -> RequestState] /\ RequestTyped
  BY DEF Init, RequestTyped, RequestState, Idle, Kind
<1> QED BY <1>1, <1>2, TypeParts

LEMMA TypeStep ==
    ASSUME TypeOK, [Next]_vars
    PROVE  TypeOK'
<1> USE AccountsAssumption
<1> RowsTyped /\ request \in [Request -> RequestState] /\ RequestTyped
  BY TypeParts
<1> DEFINE RequestsTyped == request \in [Request -> RequestState] /\ RequestTyped
<1> SUFFICES RowsTyped' /\ RequestsTyped'
  BY TypePartsNext
<1>1. CASE Clock \/ Short
  <2>1. ASSUME NEW u \in User, ActivationLapses(u) \/ Activate(u)
        PROVE  RowsTyped' /\ RequestsTyped'
    <3>1. account' = [account EXCEPT ![u].lapsed = TRUE]
          \/ account' = [account EXCEPT ![u].activated = TRUE]
      BY <2>1 DEF ActivationLapses, Activate
    <3>3. \A x \in User : account'[x].exists = account[x].exists
                          /\ account'[x].password = account[x].password
      BY <3>1 DEF RowsTyped, Account
    <3>4. account' \in [User -> Account]
      <4>1. CASE account' = [account EXCEPT ![u].lapsed = TRUE]
        BY <4>1 DEF RowsTyped, Account
      <4>2. CASE account' = [account EXCEPT ![u].activated = TRUE]
        BY <4>2 DEF RowsTyped, Account
      <4> QED BY <3>1, <4>1, <4>2
    <3>2. UNCHANGED <<tokens, servers, request>> /\ account[u].exists
      BY <2>1 DEF ActivationLapses, Activate
    <3> QED BY <3>2, <3>3, <3>4 DEF RowsTyped, RequestTyped
  <2>2. ASSUME NEW t \in Token, TokenExpires(t) \/ Logout(t) \/ ExpiredTokenShown(t)
        PROVE  RowsTyped' /\ RequestsTyped'
    <3>1. PICK f \in TokenRow : tokens' = [tokens EXCEPT ![t] = f]
      BY <2>2 DEF TokenExpires, Logout, ExpiredTokenShown, RowsTyped, TokenRow, NoTokenRow
    <3>2. UNCHANGED <<account, servers, request>>
      BY <2>2 DEF TokenExpires, Logout, ExpiredTokenShown
    <3> QED BY <3>1, <3>2 DEF RowsTyped, RequestTyped
  <2>3. CASE \E t \in Token, u \in User, s \in Server : DeleteDbServer(t, u, s)
    BY <2>3 DEF DeleteDbServer, RowsTyped, RequestTyped, ServerRow, NoServerRow
  <2> QED BY <1>1, <2>1, <2>2, <2>3 DEF Clock, Short
<1>2. CASE Read
  <2>1. PICK r \in Request, u \in User :
            \/ \E p \in Password : SignUp(r, u, p) \/ Login(r, u, p)
            \/ \E new \in NewPassword : ResetPassword(r, u, new)
            \/ \E t \in Token :
                \/ \E old \in Password, new \in NewPassword : ChangePassword(r, t, u, old, new)
                \/ \E p \in Password : DeleteUser(r, t, u, p)
                \/ \E s \in Server :
                    \/ CreateDbServer(r, t, u, s)
                    \/ UpdateDbServer(r, t, u, s)
    BY <1>2 DEF Read
  <2>2. ASSUME NEW kind \in Kind \ {"change", "reset"}, NEW header \in Password \cup {NoPassword},
               NEW s \in Server \cup {NoServer}, NEW astray \in BOOLEAN,
               kind \in {"create", "update"} => s \in Server,
               Begin(r, Pending(kind, u, header, s, astray))
        PROVE  RequestsTyped'
    BY <2>2, PendingTyped, BeginTyped
  <2>3. ASSUME NEW kind \in {"change", "reset"}, NEW header \in Password \cup {NoPassword},
               NEW old \in Password \cup {NoPassword}, NEW new \in NewPassword, NEW p,
               p = Pending(kind, u, header, NoServer, FALSE),
               Begin(r, [p EXCEPT !.old = old, !.new = new]) \/ Begin(r, [p EXCEPT !.new = new])
        PROVE  RequestsTyped'
    <3>1. p \in RequestState /\ p.kind = kind /\ p.user = u
      BY <2>3 DEF Pending, RequestState, Kind
    <3>2. CASE Begin(r, [p EXCEPT !.old = old, !.new = new])
      <4> DEFINE q == [p EXCEPT !.old = old, !.new = new]
      <4>1. q \in RequestState /\ q.kind = kind /\ q.user = u /\ q.new = new
        BY <2>3, <3>1 DEF RequestState
      <4> HIDE DEF q
      <4>2. Begin(r, q)
        BY <3>2 DEF q
      <4> QED BY <2>3, <4>1, <4>2, BeginTyped
    <3>3. CASE Begin(r, [p EXCEPT !.new = new])
      <4> DEFINE q == [p EXCEPT !.new = new]
      <4>1. q \in RequestState /\ q.kind = kind /\ q.user = u /\ q.new = new
        BY <2>3, <3>1 DEF RequestState
      <4> HIDE DEF q
      <4>2. Begin(r, q)
        BY <3>3 DEF q
      <4> QED BY <2>3, <4>1, <4>2, BeginTyped
    <3> QED BY <2>3, <3>2, <3>3
  <2>4. tokens \in [Token -> TokenRow]
    BY DEF RowsTyped
  <2>5. ASSUME NEW p \in Password, SignUp(r, u, p) PROVE RowsTyped' /\ RequestsTyped'
    <3>1. RowsTyped'
      BY <2>5 DEF SignUp, RowsTyped, Account
    <3> QED BY <2>5, <2>2, <3>1 DEF SignUp, Kind
  <2>6. ASSUME NEW p \in Password, Login(r, u, p) PROVE RowsTyped' /\ RequestsTyped'
    <3>1. RowsTyped'
      BY <2>6 DEF Login, RowsTyped
    <3> QED BY <2>6, <2>2, <3>1 DEF Login, Kind
  <2>7. ASSUME NEW new \in NewPassword, ResetPassword(r, u, new) PROVE RowsTyped' /\ RequestsTyped'
    <3>1. RowsTyped'
      BY <2>7 DEF ResetPassword, RowsTyped
    <3>2. Begin(r, [Pending("reset", u, NoPassword, NoServer, FALSE) EXCEPT !.new = new])
      BY <2>7 DEF ResetPassword
    <3> QED BY <2>3, <3>1, <3>2
  <2>8. ASSUME NEW t \in Token, NEW old \in Password, NEW new \in NewPassword,
               ChangePassword(r, t, u, old, new)
        PROVE  RowsTyped' /\ RequestsTyped'
    <3>1. RowsTyped'
      BY <2>8 DEF ChangePassword, RowsTyped
    <3>2. tokens[t].crypto_key \in Password \cup {NoPassword}
      BY <2>4 DEF TokenRow
    <3>3. Begin(r, [Pending("change", u, tokens[t].crypto_key, NoServer, FALSE)
                      EXCEPT !.old = old, !.new = new])
      BY <2>8 DEF ChangePassword
    <3> QED BY <2>3, <3>1, <3>2, <3>3
  <2>9. ASSUME NEW t \in Token, NEW p \in Password, DeleteUser(r, t, u, p)
        PROVE  RowsTyped' /\ RequestsTyped'
    <3>1. RowsTyped'
      BY <2>9 DEF DeleteUser, RowsTyped
    <3> QED BY <2>9, <2>2, <3>1 DEF DeleteUser, Kind
  <2>10. ASSUME NEW t \in Token, NEW s \in Server,
                CreateDbServer(r, t, u, s) \/ UpdateDbServer(r, t, u, s)
         PROVE  RowsTyped' /\ RequestsTyped'
    <3>1. RowsTyped'
      BY <2>10 DEF CreateDbServer, UpdateDbServer, RowsTyped
    <3>2. tokens[t].crypto_key \in Password \cup {NoPassword} /\ tokens[t].astray \in BOOLEAN
      BY <2>4 DEF TokenRow
    <3> QED BY <2>10, <2>2, <3>1, <3>2 DEF CreateDbServer, UpdateDbServer, Kind
  <2> QED BY <2>1, <2>5, <2>6, <2>7, <2>8, <2>9, <2>10
<1>3. CASE Write
  <2>1. PICK r \in Request :
            \/ \E t \in Token : LoginToken(r, t)
            \/ ChangePasswordCommit(r) \/ ResetPasswordCommit(r)
            \/ DeleteUserCommit(r) \/ WriteDbServer(r) \/ Abort(r)
    BY <1>3 DEF Write
  <2>2. request[r] \in RequestState
    OBVIOUS
  <2>3. ASSUME NEW t \in Token, LoginToken(r, t) PROVE RowsTyped' /\ RequestsTyped'
    <3>1. RowsTyped'
      BY <2>2, <2>3 DEF LoginToken, RowsTyped, TokenRow, RequestState
    <3> QED BY <2>3, <3>1, EndTyped DEF LoginToken
  <2>4. CASE ChangePasswordCommit(r)
    <3>1. request[r].user \in User /\ request[r].new \in NewPassword
      BY <2>4 DEF ChangePasswordCommit, RequestTyped
    <3>4. SetPassword(request[r].user, request[r].new) /\ account[request[r].user].exists
      BY <2>4 DEF ChangePasswordCommit
    <3>5. account' \in [User -> Account]
      BY <3>1, <3>4 DEF SetPassword, RowsTyped, Account
    <3>6. \A u \in User : account'[u].exists <=> account'[u].password # NoPassword
      <4> DEFINE new == request[r].new
      <4>1. new # NoPassword
        BY <3>1
      <4> HIDE DEF new
      <4>2. CASE new = Blank
        BY <3>4, <4>2 DEF SetPassword, RowsTyped, new
      <4>3. CASE new # Blank
        BY <3>1, <3>4, <4>1, <4>3 DEF SetPassword, RowsTyped, Account, new
      <4> QED BY <4>2, <4>3
    <3>7. servers' \in [Server -> ServerRow]
      <4>1. (request[r].new = Blank) \in BOOLEAN /\ servers \in [Server -> ServerRow]
        BY DEF RowsTyped
      <4> QED BY <2>4, <3>1, <4>1, RowTyped DEF ChangePasswordCommit, RecryptServers
    <3>8. tokens' \in [Token -> TokenRow]
      BY <2>4 DEF ChangePasswordCommit, DestroyTokens, RowsTyped, TokenRow, NoTokenRow
    <3>2. RowsTyped'
      BY <3>5, <3>6, <3>7, <3>8 DEF RowsTyped
    <3> DEFINE q == Relogin(request[r])
    <3>3. Overtake(r, request[r].user, request[r].new, q)
      BY <2>4 DEF ChangePasswordCommit
    <3>9. q \in RequestState /\ q.kind = "relogin" /\ q.user = request[r].user
      BY <2>2 DEF Relogin, RequestState, Kind
    <3> HIDE DEF q
    <3> QED BY <3>1, <3>2, <3>3, <3>9, OvertakeTyped
  <2>5. CASE ResetPasswordCommit(r)
    <3>1. request[r].user \in User /\ request[r].new \in NewPassword
      BY <2>5 DEF ResetPasswordCommit, RequestTyped
    <3>4. SetPassword(request[r].user, request[r].new) /\ account[request[r].user].exists
      BY <2>5 DEF ResetPasswordCommit
    <3>5. account' \in [User -> Account]
      BY <3>1, <3>4 DEF SetPassword, RowsTyped, Account
    <3>6. \A u \in User : account'[u].exists <=> account'[u].password # NoPassword
      <4> DEFINE new == request[r].new
      <4>1. new # NoPassword
        BY <3>1
      <4> HIDE DEF new
      <4>2. CASE new = Blank
        BY <3>4, <4>2 DEF SetPassword, RowsTyped, new
      <4>3. CASE new # Blank
        BY <3>1, <3>4, <4>1, <4>3 DEF SetPassword, RowsTyped, Account, new
      <4> QED BY <4>2, <4>3
    <3>7. servers' \in [Server -> ServerRow]
      <4>1. (request[r].new = Blank) \in BOOLEAN /\ servers \in [Server -> ServerRow]
        BY DEF RowsTyped
      <4> QED BY <2>5, <3>1, <4>1, RowTyped DEF ResetPasswordCommit
    <3>8. tokens' \in [Token -> TokenRow]
      BY <2>5 DEF ResetPasswordCommit, DestroyTokens, RowsTyped, TokenRow, NoTokenRow
    <3>2. RowsTyped'
      BY <3>5, <3>6, <3>7, <3>8 DEF RowsTyped
    <3>3. Idle \in RequestState /\ Idle.kind = "idle"
      BY DEF Idle, RequestState, Kind
    <3>9. Overtake(r, request[r].user, request[r].new, Idle)
      BY <2>5 DEF ResetPasswordCommit
    <3> QED BY <3>1, <3>2, <3>3, <3>9, OvertakeTyped
  <2>6. CASE DeleteUserCommit(r)
    <3>1. request[r].user \in User
      BY <2>6 DEF DeleteUserCommit, RequestTyped
    <3>2. RowsTyped'
      BY <2>6, <3>1 DEF DeleteUserCommit, DestroyTokens, RowsTyped, Account, NoAccount,
         ServerRow, NoServerRow, TokenRow, NoTokenRow
    <3> QED BY <2>6, <3>2, EndTyped DEF DeleteUserCommit
  <2>7. CASE WriteDbServer(r)
    <3>1. request[r].user \in User /\ request[r].server \in Server
      BY <2>7 DEF WriteDbServer, RequestTyped
    <3>2. RowsTyped'
      BY <2>2, <2>7, <3>1 DEF WriteDbServer, RowsTyped, ServerRow, RequestState
    <3> QED BY <2>7, <3>2, EndTyped DEF WriteDbServer
  <2>8. CASE Abort(r)
    BY <2>8, EndTyped DEF Abort, RowsTyped
  <2> QED BY <2>1, <2>3, <2>4, <2>5, <2>6, <2>7, <2>8
<1>4. CASE UNCHANGED vars
  BY <1>4 DEF vars, RowsTyped, RequestTyped
<1> QED BY <1>1, <1>2, <1>3, <1>4 DEF Next

(* The rows of every reachable state are typed, and so are the requests in *)
(* progress (db/schema.rb and the parameters of the endpoints).            *)
THEOREM TypeCorrect == Spec => []TypeOK
<1>1. Init => TypeOK
  BY TypeInit
<1>2. TypeOK /\ [Next]_vars => TypeOK'
  BY TypeStep
<1> QED BY <1>1, <1>2, PTL DEF Spec

-----------------------------------------------------------------------------
(* Nothing outlives its account.                                           *)

(* What an action does to one table, as far as ownership goes.             *)
LEMMA OrphansStep ==
    ASSUME TypeOK, NoOrphans, [Next]_vars
    PROVE  NoOrphans'
<1> USE AccountsAssumption
<1> RowsTyped /\ request \in [Request -> RequestState] /\ RequestTyped
  BY TypeParts
(* No row changes hands.                                                   *)
<1>1. ASSUME UNCHANGED <<tokens, servers>>, \A u \in User : account[u].exists => account'[u].exists
      PROVE  NoOrphans'
  BY <1>1 DEF NoOrphans, RowsTyped, TokenRow, ServerRow
<1>2. CASE Clock \/ Short
  <2>1. ASSUME NEW u \in User, ActivationLapses(u) \/ Activate(u) PROVE NoOrphans'
    BY <2>1, <1>1 DEF ActivationLapses, Activate, RowsTyped, Account
  <2>2. ASSUME NEW t \in Token, TokenExpires(t) \/ Logout(t) \/ ExpiredTokenShown(t)
        PROVE  NoOrphans'
    <3>1. \A x \in Token : tokens'[x].user \in {NoUser, tokens[x].user}
      BY <2>2 DEF TokenExpires, Logout, ExpiredTokenShown, RowsTyped, TokenRow, NoTokenRow
    <3>2. UNCHANGED <<account, servers>>
      BY <2>2 DEF TokenExpires, Logout, ExpiredTokenShown
    <3> QED BY <3>1, <3>2 DEF NoOrphans
  <2>3. ASSUME NEW t \in Token, NEW u \in User, NEW s \in Server, DeleteDbServer(t, u, s)
        PROVE  NoOrphans'
    BY <2>3 DEF DeleteDbServer, NoOrphans, RowsTyped, NoServerRow
  <2> QED BY <1>2, <2>1, <2>2, <2>3 DEF Clock, Short
<1>3. CASE Read
  <2>1. ASSUME NEW r \in Request, NEW u \in User, NEW p \in Password, SignUp(r, u, p)
        PROVE  NoOrphans'
    BY <2>1, <1>1 DEF SignUp, RowsTyped, Account
  <2>2. ASSUME NEW r \in Request, NEW u \in User, NEW p, Login(r, u, p) \/ ResetPassword(r, u, p)
        PROVE  NoOrphans'
    BY <2>2, <1>1 DEF Login, ResetPassword
  <2>3. ASSUME NEW r \in Request, NEW t \in Token, NEW u \in User, NEW p, NEW new,
               ChangePassword(r, t, u, p, new) \/ DeleteUser(r, t, u, p)
        PROVE  NoOrphans'
    BY <2>3, <1>1 DEF ChangePassword, DeleteUser
  <2>4. ASSUME NEW r \in Request, NEW t \in Token, NEW u \in User, NEW s \in Server,
               CreateDbServer(r, t, u, s) \/ UpdateDbServer(r, t, u, s)
        PROVE  NoOrphans'
    BY <2>4, <1>1 DEF CreateDbServer, UpdateDbServer
  <2> QED BY <1>3, <2>1, <2>2, <2>3, <2>4 DEF Read
<1>4. CASE Write
  <2>1. PICK r \in Request :
            \/ \E t \in Token : LoginToken(r, t)
            \/ ChangePasswordCommit(r) \/ ResetPasswordCommit(r)
            \/ DeleteUserCommit(r) \/ WriteDbServer(r) \/ Abort(r)
    BY <1>4 DEF Write
  <2>2. ASSUME NEW t \in Token, LoginToken(r, t) PROVE NoOrphans'
    <3>1. UNCHANGED <<account, servers>> /\ account[request[r].user].exists
      BY <2>2 DEF LoginToken
    <3>2. \A x \in Token : tokens'[x].user \in {request[r].user, tokens[x].user}
      BY <2>2 DEF LoginToken, RowsTyped
    <3> QED BY <3>1, <3>2 DEF NoOrphans
  <2>3. CASE ChangePasswordCommit(r) \/ ResetPasswordCommit(r)
    <3>1. \A t \in Token : tokens'[t].user \in {NoUser, tokens[t].user}
      <4>1. DestroyTokens(request[r].user)
        BY <2>3 DEF ChangePasswordCommit, ResetPasswordCommit
      <4> QED BY <4>1 DEF DestroyTokens, NoTokenRow
    <3>2. \A s \in Server : servers'[s].owner = servers[s].owner
      <4>1. CASE ChangePasswordCommit(r)
        <5>1. RecryptServers(request[r].user, request[r].old, request[r].new)
          BY <4>1 DEF ChangePasswordCommit
        <5> QED BY <5>1 DEF RecryptServers, RowsTyped, ServerRow
      <4>2. CASE ResetPasswordCommit(r)
        BY <4>2 DEF ResetPasswordCommit, RowsTyped, ServerRow
      <4> QED BY <2>3, <4>1, <4>2
    <3>3. \A u \in User : account'[u].exists = account[u].exists
      <4>1. SetPassword(request[r].user, request[r].new)
        BY <2>3 DEF ChangePasswordCommit, ResetPasswordCommit
      <4> QED BY <4>1 DEF SetPassword, RowsTyped, Account
    <3>4. \A t \in Token : tokens'[t].user # NoUser => account'[tokens'[t].user].exists
      BY <3>1, <3>3 DEF NoOrphans, RowsTyped, TokenRow
    <3>5. \A s \in Server : servers'[s].owner # NoUser => account'[servers'[s].owner].exists
      BY <3>2, <3>3 DEF NoOrphans, RowsTyped, ServerRow
    <3> QED BY <3>4, <3>5 DEF NoOrphans
  <2>4. CASE DeleteUserCommit(r)
    <3> DEFINE u == request[r].user
    <3>1. \A x \in User : x # u => account'[x] = account[x]
      BY <2>4 DEF DeleteUserCommit, RowsTyped
    <3>2. \A t \in Token : tokens'[t] = IF tokens[t].user = u THEN NoTokenRow ELSE tokens[t]
      BY <2>4 DEF DeleteUserCommit, DestroyTokens
    <3>3. \A s \in Server : servers'[s] = IF servers[s].owner = u THEN NoServerRow ELSE servers[s]
      BY <2>4 DEF DeleteUserCommit
    <3> HIDE DEF u
    <3>4. \A t \in Token : tokens'[t].user # NoUser => account'[tokens'[t].user].exists
      BY <3>1, <3>2 DEF NoOrphans, RowsTyped, TokenRow, NoTokenRow
    <3>5. \A s \in Server : servers'[s].owner # NoUser => account'[servers'[s].owner].exists
      BY <3>1, <3>3 DEF NoOrphans, RowsTyped, ServerRow, NoServerRow
    <3> QED BY <3>4, <3>5 DEF NoOrphans
  <2>5. CASE WriteDbServer(r)
    <3>1. UNCHANGED <<account, tokens>> /\ request[r].server \in Server
      BY <2>5 DEF WriteDbServer, RequestTyped
    <3>2. account[request[r].user].exists
      BY <2>5, <3>1 DEF WriteDbServer, NoOrphans, RequestTyped
    <3>3. \A s \in Server : servers'[s].owner \in {request[r].user, servers[s].owner}
      BY <2>5, <3>1 DEF WriteDbServer, RowsTyped
    <3> QED BY <3>1, <3>2, <3>3 DEF NoOrphans
  <2>6. CASE Abort(r)
    BY <2>6, <1>1 DEF Abort
  <2> QED BY <2>1, <2>2, <2>3, <2>4, <2>5, <2>6
<1>5. CASE UNCHANGED vars
  BY <1>5, <1>1 DEF vars
<1> QED BY <1>2, <1>3, <1>4, <1>5 DEF Next

(* However many requests run at once, deleting an account leaves no token  *)
(* and no server of it behind (User#destroy and the foreign keys that      *)
(* refuse the rows of late requests).                                      *)
THEOREM NoOrphansAlways == Spec => []NoOrphans
<1>1. Init => NoOrphans
  BY DEF Init, NoOrphans, NoTokenRow, NoServerRow
<1>2. TypeOK /\ NoOrphans /\ [Next]_vars => NoOrphans'
  BY OrphansStep
<1> QED BY <1>1, <1>2, TypeCorrect, PTL DEF Spec

-----------------------------------------------------------------------------
(* One key per user.                                                       *)

(* What a request will write whose key did not go astray.                  *)
FreshRequest(r) ==
    LET q == request[r]
    IN  /\ q.kind \in {"login", "relogin", "create", "update"}
        /\ ~q.astray
        /\ account[q.user].exists
        => q.header = account[q.user].password

PendingFresh == \A r \in Request : FreshRequest(r)

KInv == TypeOK /\ NoOrphans /\ KeysFollowPassword /\ PendingFresh

(* The accounts after a step that changes no password and brings no user   *)
(* back that something refers to.                                          *)
Kept(v) == account'[v].exists => account[v].exists /\ account'[v].password = account[v].password

(* A step of one request leaves the others right.                          *)
LEMMA OneRequestFresh ==
    ASSUME PendingFresh, TypeOK, NEW r \in Request,
           \A x \in Request : x # r =>
                \/ request'[x].astray
                \/ request'[x] = request[x] /\ (request[x].kind # "idle" => Kept(request[x].user)),
           FreshRequest(r)'
    PROVE  PendingFresh'
<1> SUFFICES ASSUME NEW x \in Request, x # r PROVE FreshRequest(x)'
  BY DEF PendingFresh
<1>1. CASE request'[x].astray
  BY <1>1 DEF FreshRequest
<1>2. CASE request'[x] = request[x] /\ (request[x].kind # "idle" => Kept(request[x].user))
  BY <1>2 DEF FreshRequest, PendingFresh, Kept
<1> QED BY <1>1, <1>2

LEMMA BeginFresh ==
    ASSUME PendingFresh, TypeOK, NEW r \in Request, NEW q, Begin(r, q),
           \A x \in Request : request[x].kind # "idle" => Kept(request[x].user),
           q.kind \in {"login", "relogin", "create", "update"} /\ ~q.astray
              => q.header = account'[q.user].password
    PROVE  PendingFresh'
<1>1. request'[r] = q
  BY DEF Begin, TypeOK
<1>2. \A x \in Request : x # r => request'[x] = request[x]
  BY DEF Begin, TypeOK
<1>3. FreshRequest(r)'
  BY <1>1 DEF FreshRequest
<1> QED BY <1>2, <1>3, OneRequestFresh

LEMMA EndFresh ==
    ASSUME PendingFresh, TypeOK, NEW r \in Request, End(r),
           \A x \in Request : request[x].kind # "idle" => Kept(request[x].user)
    PROVE  PendingFresh'
<1>1. request'[r] = Idle
  BY DEF End, TypeOK
<1>2. \A x \in Request : x # r => request'[x] = request[x]
  BY DEF End, TypeOK
<1>3. FreshRequest(r)'
  BY <1>1 DEF FreshRequest, Idle
<1> QED BY <1>2, <1>3, OneRequestFresh

(* A commit of a new password marks every other request of the user.       *)
LEMMA OvertakeFresh ==
    ASSUME PendingFresh, TypeOK, NEW r \in Request, NEW u \in User, NEW new, NEW q,
           Overtake(r, u, new, q), q.kind = "idle" \/ q.astray,
           \A v \in User : v # u \/ new = Blank => Kept(v)
    PROVE  PendingFresh'
<1>1. request'[r] = q
  BY DEF Overtake
<1>2. \A x \in Request : x # r =>
            request'[x] = IF request[x].user = u /\ new # Blank
                          THEN [request[x] EXCEPT !.astray = TRUE] ELSE request[x]
  BY DEF Overtake
<1>3. FreshRequest(r)'
  BY <1>1 DEF FreshRequest
<1>4. \A x \in Request : x # r /\ request[x].user = u /\ new # Blank => request'[x].astray
  <2> TAKE x \in Request
  <2>1. request[x] \in RequestState
    BY DEF TypeOK
  <2> QED BY <1>2, <2>1 DEF RequestState
<1>5. \A x \in Request : x # r /\ ~(request[x].user = u /\ new # Blank) =>
            request'[x] = request[x] /\ (request[x].kind # "idle" => Kept(request[x].user))
  BY <1>2 DEF TypeOK
<1> QED BY <1>3, <1>4, <1>5, OneRequestFresh

(* What KeysFollowPassword says of the two tables, after a step.           *)
LEMMA KeysInTables ==
    ASSUME RowsTyped, NoOrphans, KeysFollowPassword,
           \A t \in Token :
              \/ tokens'[t].user = NoUser \/ tokens'[t].astray
              \/ tokens'[t].crypto_key = account'[tokens'[t].user].password
              \/ tokens'[t] = tokens[t] /\ Kept(tokens[t].user) /\ account'[tokens[t].user].exists,
           \A s \in Server :
              \/ servers'[s].owner = NoUser \/ servers'[s].astray
              \/ servers'[s].key = account'[servers'[s].owner].password
              \/ servers'[s] = servers[s] /\ Kept(servers[s].owner) /\ account'[servers[s].owner].exists
    PROVE  KeysFollowPassword'
BY DEF KeysFollowPassword, Kept

LEMMA KeysStep ==
    ASSUME KInv, [Next]_vars
    PROVE  KeysFollowPassword' /\ PendingFresh'
<1> USE AccountsAssumption
<1> RowsTyped /\ request \in [Request -> RequestState] /\ RequestTyped
  BY TypeParts DEF KInv
<1> TypeOK /\ NoOrphans /\ KeysFollowPassword /\ PendingFresh
  BY DEF KInv
<1> DEFINE SamePasswords == \A u \in User : /\ account'[u].exists = account[u].exists
                                            /\ account'[u].password = account[u].password
(* Steps that write no password.                                           *)
<1>1. ASSUME SamePasswords,
             \A t \in Token : \/ tokens'[t].user = NoUser
                              \/ tokens'[t] = tokens[t]
                              \/ tokens'[t].astray
                              \/ tokens'[t].crypto_key = account[tokens'[t].user].password
                                 /\ tokens'[t].user \in User,
             \A s \in Server : \/ servers'[s].owner = NoUser
                               \/ servers'[s] = servers[s]
                               \/ servers'[s].astray
                               \/ servers'[s].key = account[servers'[s].owner].password
                                  /\ servers'[s].owner \in User
      PROVE  KeysFollowPassword'
  <2>1. \A t \in Token : tokens[t].user # NoUser =>
            Kept(tokens[t].user) /\ account'[tokens[t].user].exists
    BY <1>1 DEF Kept, NoOrphans, RowsTyped, TokenRow
  <2>2. \A s \in Server : servers[s].owner # NoUser =>
            Kept(servers[s].owner) /\ account'[servers[s].owner].exists
    BY <1>1 DEF Kept, NoOrphans, RowsTyped, ServerRow
  <2> QED BY <1>1, <2>1, <2>2, KeysInTables
<1>2. SamePasswords => \A x \in Request : request[x].kind # "idle" => Kept(request[x].user)
  BY DEF Kept, RequestTyped
<1>3. SamePasswords /\ UNCHANGED request => PendingFresh'
  BY DEF PendingFresh, FreshRequest, RequestTyped
<1>4. CASE Clock \/ Short
  <2>1. ASSUME NEW u \in User, ActivationLapses(u) \/ Activate(u)
        PROVE  KeysFollowPassword' /\ PendingFresh'
    <3>1. account' = [account EXCEPT ![u].lapsed = TRUE]
          \/ account' = [account EXCEPT ![u].activated = TRUE]
      BY <2>1 DEF ActivationLapses, Activate
    <3>2. SamePasswords
      BY <3>1 DEF RowsTyped, Account
    <3>3. UNCHANGED <<tokens, servers, request>>
      BY <2>1 DEF ActivationLapses, Activate
    <3> QED BY <3>2, <3>3, <1>1, <1>3
  <2>2. ASSUME NEW t \in Token, TokenExpires(t) PROVE KeysFollowPassword' /\ PendingFresh'
    <3>1. UNCHANGED <<account, servers, request>>
      BY <2>2 DEF TokenExpires
    <3>2. \A x \in Token : tokens'[x].user = tokens[x].user
                           /\ tokens'[x].crypto_key = tokens[x].crypto_key
                           /\ tokens'[x].astray = tokens[x].astray
      BY <2>2 DEF TokenExpires, RowsTyped, TokenRow
    <3> QED BY <3>1, <3>2, <1>3 DEF KeysFollowPassword
  <2>3. ASSUME NEW t \in Token, Logout(t) \/ ExpiredTokenShown(t)
        PROVE  KeysFollowPassword' /\ PendingFresh'
    <3>1. UNCHANGED <<account, servers, request>>
          /\ tokens' = [tokens EXCEPT ![t] = NoTokenRow]
      BY <2>3 DEF Logout, ExpiredTokenShown
    <3>2. \A x \in Token : tokens'[x].user = NoUser \/ tokens'[x] = tokens[x]
      BY <3>1 DEF RowsTyped, NoTokenRow
    <3> QED BY <3>1, <3>2, <1>1, <1>3
  <2>4. ASSUME NEW t \in Token, NEW u \in User, NEW s \in Server, DeleteDbServer(t, u, s)
        PROVE  KeysFollowPassword' /\ PendingFresh'
    <3>1. UNCHANGED <<account, tokens, request>>
          /\ servers' = [servers EXCEPT ![s] = NoServerRow]
      BY <2>4 DEF DeleteDbServer
    <3>2. \A x \in Server : servers'[x].owner = NoUser \/ servers'[x] = servers[x]
      BY <3>1 DEF RowsTyped, NoServerRow
    <3> QED BY <3>1, <3>2, <1>1, <1>3
  <2> QED BY <1>4, <2>1, <2>2, <2>3, <2>4 DEF Clock, Short
<1>5. CASE Read
  <2>1. ASSUME NEW r \in Request, NEW u \in User, NEW p \in Password, SignUp(r, u, p)
        PROVE  KeysFollowPassword' /\ PendingFresh'
    <3>1. /\ ~account[u].exists
          /\ \A q \in Request : request[q].user # u
          /\ account' = [account EXCEPT ![u] = [exists |-> TRUE, password |-> p,
                                                activated |-> FALSE, lapsed |-> FALSE]]
          /\ UNCHANGED <<tokens, servers>>
          /\ Begin(r, Pending("login", u, p, NoServer, FALSE))
      BY <2>1 DEF SignUp
    <3>2. account'[u].password = p /\ \A v \in User : v # u => account'[v] = account[v]
      BY <3>1 DEF RowsTyped
    <3>3. \A x \in Request : request[x].kind # "idle" => Kept(request[x].user)
      BY <3>1, <3>2 DEF RequestTyped, Kept
    <3>4. PendingFresh'
      BY <3>1, <3>2, <3>3, BeginFresh DEF Pending
    <3>5. \A t \in Token : tokens[t].user # NoUser =>
            Kept(tokens[t].user) /\ account'[tokens[t].user].exists
      BY <3>1, <3>2 DEF Kept, NoOrphans, RowsTyped, TokenRow
    <3>6. \A s \in Server : servers[s].owner # NoUser =>
            Kept(servers[s].owner) /\ account'[servers[s].owner].exists
      BY <3>1, <3>2 DEF Kept, NoOrphans, RowsTyped, ServerRow
    <3> QED BY <3>1, <3>4, <3>5, <3>6, KeysInTables
  <2>2. ASSUME UNCHANGED <<account, tokens, servers>>, NEW r \in Request, NEW q, Begin(r, q),
               q.kind \in {"login", "relogin", "create", "update"} /\ ~q.astray
                  => q.header = account[q.user].password
        PROVE  KeysFollowPassword' /\ PendingFresh'
    BY <2>2, <1>1, <1>2, BeginFresh
  <2>3. ASSUME NEW r \in Request, NEW u \in User, NEW p \in Password, Login(r, u, p)
        PROVE  KeysFollowPassword' /\ PendingFresh'
    <3> DEFINE q == Pending("login", u, p, NoServer, FALSE)
    <3>1. UNCHANGED <<account, tokens, servers>> /\ Begin(r, q) /\ p = account[u].password
      BY <2>3 DEF Login
    <3>2. q.header = p /\ q.user = u
      BY DEF Pending
    <3> HIDE DEF q
    <3> QED BY <3>1, <3>2, <2>2
  <2>4. ASSUME NEW r \in Request, NEW kind \in {"reset", "change", "delete"}, NEW q,
               q.kind = kind, Begin(r, q), UNCHANGED <<account, tokens, servers>>
        PROVE  KeysFollowPassword' /\ PendingFresh'
    BY <2>4, <2>2
  <2>5. ASSUME NEW r \in Request, NEW u \in User, NEW new, ResetPassword(r, u, new)
        PROVE  KeysFollowPassword' /\ PendingFresh'
    <3> DEFINE q == [Pending("reset", u, NoPassword, NoServer, FALSE) EXCEPT !.new = new]
    <3>1. q.kind = "reset"
      BY DEF Pending
    <3>2. Begin(r, q) /\ UNCHANGED <<account, tokens, servers>>
      BY <2>5 DEF ResetPassword
    <3> HIDE DEF q
    <3> QED BY <3>1, <3>2, <2>4
  <2>7. ASSUME NEW r \in Request, NEW t \in Token, NEW u \in User, NEW p, NEW new,
               ChangePassword(r, t, u, p, new) \/ DeleteUser(r, t, u, p)
        PROVE  KeysFollowPassword' /\ PendingFresh'
    <3>2. CASE ChangePassword(r, t, u, p, new)
      <4> DEFINE q == [Pending("change", u, tokens[t].crypto_key, NoServer, FALSE)
                          EXCEPT !.old = p, !.new = new]
      <4>1. q.kind = "change"
        BY DEF Pending
      <4>2. Begin(r, q) /\ UNCHANGED <<account, tokens, servers>>
        BY <3>2 DEF ChangePassword
      <4> HIDE DEF q
      <4> QED BY <4>1, <4>2, <2>4
    <3>3. CASE DeleteUser(r, t, u, p)
      <4> DEFINE q == Pending("delete", u, p, NoServer, FALSE)
      <4>1. q.kind = "delete"
        BY DEF Pending
      <4>2. Begin(r, q) /\ UNCHANGED <<account, tokens, servers>>
        BY <3>3 DEF DeleteUser
      <4> HIDE DEF q
      <4> QED BY <4>1, <4>2, <2>4
    <3> QED BY <2>7, <3>2, <3>3
  <2>6. ASSUME NEW r \in Request, NEW t \in Token, NEW u \in User, NEW s \in Server,
               CreateDbServer(r, t, u, s) \/ UpdateDbServer(r, t, u, s)
        PROVE  KeysFollowPassword' /\ PendingFresh'
    <3>1. PICK kind \in {"create", "update"} :
            /\ UNCHANGED <<account, tokens, servers>>
            /\ tokens[t].user = u
            /\ Begin(r, Pending(kind, u, tokens[t].crypto_key, s, tokens[t].astray))
      BY <2>6 DEF CreateDbServer, UpdateDbServer, authenticate
    <3> DEFINE q == Pending(kind, u, tokens[t].crypto_key, s, tokens[t].astray)
    <3>2. u # NoUser
      OBVIOUS
    <3>3. /\ tokens[t].astray \in BOOLEAN
          /\ ~tokens[t].astray => tokens[t].crypto_key = account[u].password
      BY <3>1, <3>2 DEF KeysFollowPassword, RowsTyped, TokenRow
    <3>4. q.user = u /\ q.header = tokens[t].crypto_key /\ q.astray = tokens[t].astray
      BY DEF Pending
    <3>5. Begin(r, q)
      BY <3>1
    <3> HIDE DEF q
    <3>6. ~q.astray => q.header = account[q.user].password
      BY <3>3, <3>4
    <3> QED BY <3>1, <3>5, <3>6, <2>2
  <2> QED BY <1>5, <2>1, <2>3, <2>5, <2>6, <2>7 DEF Read
<1>6. CASE Write
  <2>1. PICK r \in Request :
            \/ \E t \in Token : LoginToken(r, t)
            \/ ChangePasswordCommit(r) \/ ResetPasswordCommit(r)
            \/ DeleteUserCommit(r) \/ WriteDbServer(r) \/ Abort(r)
    BY <1>6 DEF Write
  <2>2. ASSUME NEW t \in Token, LoginToken(r, t) PROVE KeysFollowPassword' /\ PendingFresh'
    <3>1. /\ UNCHANGED <<account, servers>>
          /\ End(r)
          /\ request[r].kind \in {"login", "relogin"}
          /\ account[request[r].user].exists
          /\ tokens' = [tokens EXCEPT ![t] = [user |-> request[r].user,
                            crypto_key |-> request[r].header, expired |-> FALSE,
                            astray |-> request[r].astray]]
      BY <2>2 DEF LoginToken
    <3>2. request[r].user \in User
      BY <3>1 DEF RequestTyped
    <3>3. \/ request[r].astray
          \/ request[r].header = account[request[r].user].password
      BY <3>1 DEF PendingFresh, FreshRequest
    <3>4. \A x \in Token : \/ tokens'[x] = tokens[x]
                           \/ tokens'[x].astray
                           \/ tokens'[x].crypto_key = account[tokens'[x].user].password
                              /\ tokens'[x].user \in User
      BY <3>1, <3>2, <3>3 DEF RowsTyped
    <3> QED BY <3>1, <3>4, <1>1, <1>2, EndFresh
  <2>3. ASSUME NEW u \in User, NEW new, NEW q, q.kind = "idle" \/ q.astray,
               SetPassword(u, new), DestroyTokens(u), Overtake(r, u, new, q),
               \A s \in Server :
                  \/ /\ servers[s].owner = u /\ servers'[s].owner = u
                     /\ servers'[s].key = new /\ (new = Blank => servers'[s].astray)
                  \/ servers[s].owner # u /\ servers'[s] = servers[s]
        PROVE  KeysFollowPassword' /\ PendingFresh'
    <3>1. /\ \A v \in User : v # u => account'[v] = account[v]
          /\ \A v \in User : account'[v].exists = account[v].exists
          /\ IF new = Blank THEN account' = account ELSE account'[u].password = new
      BY <2>3 DEF SetPassword, RowsTyped, Account
    <3>2. \A v \in User : v # u \/ new = Blank => Kept(v)
      BY <3>1 DEF Kept
    <3>3. PendingFresh'
      BY <2>3, <3>2, OvertakeFresh
    <3>4. \A t \in Token : \/ tokens'[t].user = NoUser
                           \/ /\ tokens'[t] = tokens[t]
                              /\ Kept(tokens[t].user) /\ account'[tokens[t].user].exists
      <4>1. \A t \in Token : tokens'[t] = IF tokens[t].user = u THEN NoTokenRow ELSE tokens[t]
        BY <2>3 DEF DestroyTokens
      <4> QED BY <4>1, <3>1, <3>2 DEF NoOrphans, RowsTyped, TokenRow, NoTokenRow
    <3>5. \A s \in Server : \/ servers'[s].owner = NoUser \/ servers'[s].astray
                            \/ servers'[s].key = account'[servers'[s].owner].password
                            \/ /\ servers'[s] = servers[s]
                               /\ Kept(servers[s].owner) /\ account'[servers[s].owner].exists
      <4> SUFFICES ASSUME NEW s \in Server, servers'[s].owner # NoUser, ~servers'[s].astray
                   PROVE  \/ servers'[s].key = account'[servers'[s].owner].password
                          \/ /\ servers'[s] = servers[s]
                             /\ Kept(servers[s].owner) /\ account'[servers[s].owner].exists
        OBVIOUS
      <4>1. CASE servers[s].owner = u
        BY <4>1, <2>3, <3>1
      <4>2. CASE servers[s].owner # u
        BY <4>2, <2>3, <3>1, <3>2 DEF NoOrphans, RowsTyped, ServerRow
      <4> QED BY <4>1, <4>2
    <3> QED BY <3>3, <3>4, <3>5, KeysInTables
  <2>4. CASE ChangePasswordCommit(r)
    <3> DEFINE u == request[r].user
               new == request[r].new
               q == Relogin(request[r])
    <3>1. /\ u \in User
          /\ SetPassword(u, new) /\ DestroyTokens(u) /\ Overtake(r, u, new, q)
          /\ RecryptServers(u, request[r].old, new)
      BY <2>4 DEF ChangePasswordCommit, RequestTyped
    <3>2. q.astray
      BY DEF Relogin, RequestState
    <3> HIDE DEF u, new, q
    <3>3. \A s \in Server :
             \/ /\ servers[s].owner = u /\ servers'[s].owner = u
                /\ servers'[s].key = new /\ (new = Blank => servers'[s].astray)
             \/ servers[s].owner # u /\ servers'[s] = servers[s]
      BY <3>1 DEF RecryptServers, RowsTyped, ServerRow
    <3>4. KeysFollowPassword'
      BY <3>1, <3>2, <3>3, <2>3
    <3>5. PendingFresh'
      BY <3>1, <3>2, <3>3, <2>3
    <3> QED BY <3>4, <3>5
  <2>5. CASE ResetPasswordCommit(r)
    <3> DEFINE u == request[r].user
               new == request[r].new
    <3>1. /\ u \in User
          /\ SetPassword(u, new) /\ DestroyTokens(u) /\ Overtake(r, u, new, Idle)
          /\ servers' = [s \in Server |->
                IF servers[s].owner = u
                THEN [servers[s] EXCEPT !.key = new, !.blanked = TRUE, !.astray = (new = Blank)]
                ELSE servers[s]]
      BY <2>5 DEF ResetPasswordCommit, RequestTyped
    <3>2. Idle.kind = "idle"
      BY DEF Idle
    <3> HIDE DEF u, new
    <3>3. \A s \in Server :
             \/ /\ servers[s].owner = u /\ servers'[s].owner = u
                /\ servers'[s].key = new /\ (new = Blank => servers'[s].astray)
             \/ servers[s].owner # u /\ servers'[s] = servers[s]
      BY <3>1 DEF RowsTyped, ServerRow
    <3>4. KeysFollowPassword'
      BY <3>1, <3>2, <3>3, <2>3
    <3>5. PendingFresh'
      BY <3>1, <3>2, <3>3, <2>3
    <3> QED BY <3>4, <3>5
  <2>6. CASE DeleteUserCommit(r)
    <3> DEFINE u == request[r].user
    <3>1. /\ account' = [account EXCEPT ![u] = NoAccount]
          /\ DestroyTokens(u)
          /\ servers' = [s \in Server |->
                          IF servers[s].owner = u THEN NoServerRow ELSE servers[s]]
          /\ End(r)
          /\ u \in User
      BY <2>6 DEF DeleteUserCommit, RequestTyped
    <3> HIDE DEF u
    <3>2. ~account'[u].exists /\ \A x \in User : x # u => account'[x] = account[x]
      BY <3>1 DEF RowsTyped, NoAccount
    <3>3. \A x \in User : Kept(x)
      BY <3>2 DEF Kept
    <3>4. \A t \in Token : \/ tokens'[t].user = NoUser
                           \/ tokens'[t] = tokens[t] /\ account'[tokens[t].user].exists
                              /\ Kept(tokens[t].user)
      <4>1. \A t \in Token : tokens'[t] = IF tokens[t].user = u THEN NoTokenRow ELSE tokens[t]
        BY <3>1 DEF DestroyTokens
      <4> QED BY <4>1, <3>2, <3>3 DEF NoOrphans, RowsTyped, TokenRow, NoTokenRow
    <3>5. \A s \in Server : \/ servers'[s].owner = NoUser
                            \/ servers'[s] = servers[s] /\ account'[servers[s].owner].exists
                               /\ Kept(servers[s].owner)
      BY <3>1, <3>2, <3>3 DEF NoOrphans, RowsTyped, ServerRow, NoServerRow
    <3>6. \A x \in Request : request[x].kind # "idle" => Kept(request[x].user)
      BY <3>3 DEF RequestTyped
    <3>7. PendingFresh'
      BY <3>1, <3>6, EndFresh
    <3> QED BY <3>4, <3>5, <3>7, KeysInTables
  <2>7. CASE WriteDbServer(r)
    <3>1. /\ UNCHANGED <<account, tokens>>
          /\ End(r)
          /\ request[r].kind \in {"create", "update"}
          /\ servers' = [servers EXCEPT ![request[r].server] =
                [owner |-> request[r].user, key |-> request[r].header, blanked |-> FALSE,
                 astray |-> request[r].astray]]
      BY <2>7 DEF WriteDbServer
    <3>2. request[r].user \in User /\ account[request[r].user].exists
      BY <2>7 DEF WriteDbServer, NoOrphans, RequestTyped
    <3>3. request[r].astray \/ request[r].header = account[request[r].user].password
      BY <3>1, <3>2 DEF PendingFresh, FreshRequest
    <3>4. \A s \in Server : \/ servers'[s] = servers[s]
                            \/ servers'[s].astray
                            \/ servers'[s].key = account[servers'[s].owner].password
                               /\ servers'[s].owner \in User
      BY <3>1, <3>2, <3>3 DEF RowsTyped
    <3> QED BY <3>1, <3>4, <1>1, <1>2, EndFresh
  <2>8. CASE Abort(r)
    BY <2>8, <1>1, <1>2, EndFresh DEF Abort
  <2> QED BY <2>1, <2>2, <2>4, <2>5, <2>6, <2>7, <2>8
<1>7. CASE UNCHANGED vars
  BY <1>7, <1>1, <1>3 DEF vars
<1> QED BY <1>4, <1>5, <1>6, <1>7 DEF Next

(* However many requests run at once, every token's holder and the next    *)
(* login have the key of everything the user has stored, but for what is   *)
(* written with a key that a change of the password overtook, that a       *)
(* session kept over its own change, or that derives from a blank new      *)
(* password (change_password!, reset_password, setNewPassword and the      *)
(* endpoints of db_servers.rb taken together).                             *)
THEOREM KeysAlways == Spec => []KeysFollowPassword
<1>1. Init => KInv
  <2>1. Init => NoOrphans /\ KeysFollowPassword /\ PendingFresh
    BY DEF Init, NoOrphans, KeysFollowPassword, PendingFresh, FreshRequest, NoTokenRow,
       NoServerRow, Idle
  <2> QED BY <2>1, TypeInit DEF KInv
<1>2. KInv /\ [Next]_vars => KInv'
  BY TypeStep, OrphansStep, KeysStep DEF KInv
<1>3. KInv => KeysFollowPassword
  BY DEF KInv
<1> QED BY <1>1, <1>2, <1>3, PTL DEF Spec

=============================================================================
