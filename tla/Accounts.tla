------------------------------ MODULE Accounts ------------------------------
(***************************************************************************)
(* Accounts, login tokens and the database servers a user owns.            *)
(*                                                                         *)
(* The password of an own server is encrypted under the key derived from   *)
(* the owner's login password.  The API hands that key out together with a *)
(* login token and forgets it; a client sends both back with every request *)
(* (headers Authorization and Crypto-Key).  A change of the login password *)
(* re-encrypts the servers, a reset has to give their passwords up.        *)
(*                                                                         *)
(* A request runs on one of the threads of the web server (Request).  It   *)
(* reads first, that is it finds the token and the user and compares       *)
(* passwords, and writes later; in between other requests run.  One thread *)
(* is the server as the tests of the repository drive it.                  *)
(*                                                                         *)
(* Keys are named by the password they derive from.  A new password may be *)
(* sent blank: has_secure_password then keeps the old one, and no          *)
(* validation refuses it, while the key is derived from what was sent.     *)
(* The links of mails are abstract here: a request that needs one has it.  *)
(* Memberships in groups are the subject of GroupKeys.                     *)
(***************************************************************************)
EXTENDS Naturals

CONSTANTS
    User, Server, Token,    \* rows
    Password,               \* login passwords that pass validation, and their keys
    Blank,                  \* the empty password, and the key derived from it
    NewPassword,            \* what is sent as a new password
    Request,                \* threads of the web server
    NoUser, NoPassword, NoServer

ASSUME AccountsAssumption ==
    /\ NoUser \notin User
    /\ Blank \notin Password
    /\ NewPassword \subseteq Password \cup {Blank}
    /\ NoPassword \notin Password \cup {Blank}
    /\ NoServer \notin Server

VARIABLES
    account,    \* users: password, activated_at set, activation period over
    tokens,     \* login_tokens, each with the crypto_key that its client sends along
    servers,    \* db_servers owned by a user: key of the password, placeholder or not
    request     \* what each thread has read so far
                \* `astray' in a row or a request is a note of the model: it owes its key
                \* to a request that a change of the password overtook, to a session that
                \* changed the password itself, or to a blank new password

vars == <<account, tokens, servers, request>>

Account == [exists : BOOLEAN, password : Password \cup {NoPassword},
            activated : BOOLEAN, lapsed : BOOLEAN]
NoAccount == [exists |-> FALSE, password |-> NoPassword,
              activated |-> FALSE, lapsed |-> FALSE]

TokenRow == [user : User \cup {NoUser}, crypto_key : Password \cup {NoPassword},
             expired : BOOLEAN, astray : BOOLEAN]
NoTokenRow == [user |-> NoUser, crypto_key |-> NoPassword, expired |-> FALSE,
               astray |-> FALSE]

ServerRow == [owner : User \cup {NoUser}, key : Password \cup {Blank, NoPassword},
              blanked : BOOLEAN, astray : BOOLEAN]
NoServerRow == [owner |-> NoUser, key |-> NoPassword, blanked |-> FALSE, astray |-> FALSE]

(* "login" has authenticated and will insert its token, "change" has       *)
(* compared the old password, "relogin" follows the committed change,      *)
(* "reset" has accepted the link, "create" and "update" carry a password   *)
(* to a server, "delete" has compared the login password.  header is the   *)
(* Crypto-Key that the client goes on to send.                             *)
Kind == {"idle", "login", "change", "relogin", "reset", "create", "update", "delete"}
RequestState == [kind : Kind, user : User \cup {NoUser}, header : Password \cup {NoPassword},
                 old : Password \cup {NoPassword}, new : NewPassword \cup {NoPassword},
                 server : Server \cup {NoServer}, astray : BOOLEAN]
Idle == [kind |-> "idle", user |-> NoUser, header |-> NoPassword, old |-> NoPassword,
         new |-> NoPassword, server |-> NoServer, astray |-> FALSE]

TypeOK ==
    /\ account \in [User -> Account]
    /\ tokens \in [Token -> TokenRow]
    /\ servers \in [Server -> ServerRow]
    /\ request \in [Request -> RequestState]
    /\ \A u \in User : account[u].exists <=> account[u].password # NoPassword
    /\ \A r \in Request :
        LET q == request[r]
        IN  /\ q.kind # "idle" => q.user \in User
            /\ q.kind \in {"change", "reset"} => q.new \in NewPassword
            /\ q.kind \in {"create", "update"} => q.server \in Server

Init ==
    /\ account = [u \in User |-> NoAccount]
    /\ tokens = [t \in Token |-> NoTokenRow]
    /\ servers = [s \in Server |-> NoServerRow]
    /\ request = [r \in Request |-> Idle]

-----------------------------------------------------------------------------
(* Who may act.                                                            *)

activation_expired(u) == ~account[u].activated /\ account[u].lapsed

(* API#authenticate, for a token that is found and not expired             *)
authenticate(t, u) ==
    /\ tokens[t].user = u
    /\ ~tokens[t].expired
    /\ ~activation_expired(u)

IsIdle(r) == request[r].kind = "idle"

(* Mutated form: the server a request is about gets lost.                  *)
PendingWithoutServer(kind, u, header, s, astray) ==
    [kind |-> kind, user |-> u, header |-> header, old |-> NoPassword, new |-> NoPassword,
     server |-> NoServer, astray |-> astray]

(* What a request holds between reading and writing.                       *)
Pending(kind, u, header, s, astray) ==
    [kind |-> kind, user |-> u, header |-> header, old |-> NoPassword, new |-> NoPassword,
     server |-> s, astray |-> astray]

Begin(r, q) == request' = [request EXCEPT ![r] = q]

End(r) == request' = [request EXCEPT ![r] = Idle]

(* has_secure_password: password= takes no notice of an empty string.      *)
SetPassword(u, new) ==
    account' = IF new = Blank THEN account ELSE [account EXCEPT ![u].password = new]

(* r commits a new password of u, next it is in state q; the other         *)
(* requests hold the password or the key of before, unless it stays.       *)
Overtake(r, u, new, q) ==
    request' = [x \in Request |->
        IF x = r THEN q
        ELSE IF request[x].user = u /\ new # Blank THEN [request[x] EXCEPT !.astray = TRUE]
        ELSE request[x]]

(* Time: the activation period (7 days) and the life of a token (14 days)  *)
(* end at any moment.                                                      *)
ActivationLapses(u) ==
    /\ account[u].exists /\ ~account[u].lapsed
    /\ account' = [account EXCEPT ![u].lapsed = TRUE]
    /\ UNCHANGED <<tokens, servers, request>>

TokenExpires(t) ==
    /\ tokens[t].user # NoUser /\ ~tokens[t].expired
    /\ tokens' = [tokens EXCEPT ![t].expired = TRUE]
    /\ UNCHANGED <<account, servers, request>>

(* An expired token is destroyed by the request that shows it (401).       *)
ExpiredTokenShown(t) ==
    /\ tokens[t].expired
    /\ tokens' = [tokens EXCEPT ![t] = NoTokenRow]
    /\ UNCHANGED <<account, servers, request>>

(* A request fails between its steps: a mail that is not delivered, an     *)
(* exception that rolls its transaction back, a restart.                   *)
Abort(r) ==
    /\ ~IsIdle(r)
    /\ End(r)
    /\ UNCHANGED <<account, tokens, servers>>

-----------------------------------------------------------------------------
(* Sign up, login and logout.                                              *)

(* POST /users: the row is committed before the mail is sent and the token *)
(* made.  Identifiers are UUIDs: none is reused that a request still holds. *)
SignUp(r, u, p) ==
    /\ IsIdle(r)
    /\ ~account[u].exists
    /\ \A q \in Request : request[q].user # u
    /\ account' = [account EXCEPT ![u] = [exists |-> TRUE, password |-> p,
                                          activated |-> FALSE, lapsed |-> FALSE]]
    /\ Begin(r, Pending("login", u, p, NoServer, FALSE))
    /\ UNCHANGED <<tokens, servers>>

(* PUT /users/:id/activate                                                 *)
Activate(u) ==
    /\ account[u].exists /\ ~account[u].activated
    /\ account' = [account EXCEPT ![u].activated = TRUE]
    /\ UNCHANGED <<tokens, servers, request>>

(* POST /login                                                             *)
Login(r, u, p) ==
    /\ IsIdle(r)
    /\ account[u].exists /\ account[u].password = p
    /\ ~activation_expired(u)
    /\ Begin(r, Pending("login", u, p, NoServer, FALSE))
    /\ UNCHANGED <<account, tokens, servers>>

(* login_tokens << token: the foreign key needs the user.  After a change  *)
(* the user was reloaded and authenticates with the new password, and the  *)
(* browser takes the token but no key from the answer (setNewPassword).    *)
LoginToken(r, t) ==
    LET q == request[r]
    IN  /\ q.kind \in {"login", "relogin"}
        /\ account[q.user].exists
        /\ q.kind = "relogin" => account[q.user].password = q.new
        /\ tokens[t].user = NoUser
        /\ tokens' = [tokens EXCEPT ![t] = [user |-> q.user, crypto_key |-> q.header,
                            expired |-> FALSE, astray |-> q.astray]]
        /\ End(r)
        /\ UNCHANGED <<account, servers>>

(* POST /logout, and POST /users, /users/reset_password and                *)
(* /users/resend_activation_link, which log out an existing session first. *)
Logout(t) ==
    /\ tokens[t].user # NoUser
    /\ tokens' = [tokens EXCEPT ![t] = NoTokenRow]
    /\ UNCHANGED <<account, servers, request>>

-----------------------------------------------------------------------------
(* Passwords.                                                              *)

DestroyTokens(u) ==
    tokens' = [t \in Token |-> IF tokens[t].user = u THEN NoTokenRow ELSE tokens[t]]

(* PUT /users/current/password                                             *)
ChangePassword(r, t, u, old, new) ==
    /\ IsIdle(r)
    /\ authenticate(t, u)
    /\ account[u].password = old
    /\ Begin(r, [Pending("change", u, tokens[t].crypto_key, NoServer, FALSE)
                    EXCEPT !.old = old, !.new = new])
    /\ UNCHANGED <<account, tokens, servers>>

(* DbServer#recrypt! of every server of the user; one that the old key     *)
(* does not decrypt raises.                                                *)
RecryptServers(u, old, new) ==
    /\ \A s \in Server : servers[s].owner = u => servers[s].key = old
    /\ servers' = [s \in Server |->
            IF servers[s].owner = u THEN [servers[s] EXCEPT !.key = new, !.astray = (new = Blank)]
                                    ELSE servers[s]]

Relogin(q) == [q EXCEPT !.kind = "relogin", !.astray = TRUE]

(* Mutated form: the sessions of before go on.                             *)
ChangePasswordKeepingTokens(r) ==
    LET q == request[r]
    IN  /\ q.kind = "change"
        /\ account[q.user].exists
        /\ SetPassword(q.user, q.new)
        /\ RecryptServers(q.user, q.old, q.new)
        /\ tokens' = tokens
        /\ Overtake(r, q.user, q.new, Relogin(q))

(* User#change_password!, one transaction                                  *)
ChangePasswordCommit(r) ==
    LET q == request[r]
    IN  /\ q.kind = "change"
        /\ account[q.user].exists
        /\ SetPassword(q.user, q.new)
        /\ RecryptServers(q.user, q.old, q.new)
        /\ DestroyTokens(q.user)
        /\ Overtake(r, q.user, q.new, Relogin(q))

(* POST /users/:id/reset_password                                          *)
ResetPassword(r, u, new) ==
    /\ IsIdle(r)
    /\ account[u].exists
    /\ Begin(r, [Pending("reset", u, NoPassword, NoServer, FALSE) EXCEPT !.new = new])
    /\ UNCHANGED <<account, tokens, servers>>

(* User#reset_password, one transaction: reset_crypto_key stores the       *)
(* placeholder under the new key.                                          *)
ResetPasswordCommit(r) ==
    LET q == request[r]
    IN  /\ q.kind = "reset"
        /\ account[q.user].exists
        /\ SetPassword(q.user, q.new)
        /\ servers' = [s \in Server |->
                IF servers[s].owner = q.user
                THEN [servers[s] EXCEPT !.key = q.new, !.blanked = TRUE, !.astray = (q.new = Blank)]
                ELSE servers[s]]
        /\ DestroyTokens(q.user)
        /\ Overtake(r, q.user, q.new, Idle)

(* DELETE /users/current                                                   *)
DeleteUser(r, t, u, p) ==
    /\ IsIdle(r)
    /\ authenticate(t, u)
    /\ account[u].password = p
    /\ Begin(r, Pending("delete", u, p, NoServer, FALSE))
    /\ UNCHANGED <<account, tokens, servers>>

(* Mutated form: the database servers are left behind.                     *)
DeleteUserKeepingServers(r) ==
    LET u == request[r].user
    IN  /\ request[r].kind = "delete"
        /\ account' = [account EXCEPT ![u] = NoAccount]
        /\ DestroyTokens(u)
        /\ servers' = servers
        /\ End(r)

(* User#destroy with its dependent rows                                    *)
DeleteUserCommit(r) ==
    LET u == request[r].user
    IN  /\ request[r].kind = "delete"
        /\ account' = [account EXCEPT ![u] = NoAccount]
        /\ DestroyTokens(u)
        /\ servers' = [s \in Server |->
                        IF servers[s].owner = u THEN NoServerRow ELSE servers[s]]
        /\ End(r)

-----------------------------------------------------------------------------
(* Own database servers.  The Crypto-Key header is taken as it comes; the  *)
(* browser sends the key that came with the login of its session.          *)

(* POST /db_servers with owner_type user                                   *)
CreateDbServer(r, t, u, s) ==
    /\ IsIdle(r)
    /\ authenticate(t, u)
    /\ servers[s].owner = NoUser
    /\ \A q \in Request : request[q].server # s
    /\ Begin(r, Pending("create", u, tokens[t].crypto_key, s, tokens[t].astray))
    /\ UNCHANGED <<account, tokens, servers>>

(* PUT /db_servers/:id with a password                                     *)
UpdateDbServer(r, t, u, s) ==
    /\ IsIdle(r)
    /\ authenticate(t, u)
    /\ servers[s].owner = u
    /\ Begin(r, Pending("update", u, tokens[t].crypto_key, s, tokens[t].astray))
    /\ UNCHANGED <<account, tokens, servers>>

(* The row is written: the insertion needs its user, an update of a row    *)
(* that is gone changes nothing.                                           *)
WriteDbServer(r) ==
    LET q == request[r]
    IN  /\ \/ q.kind = "create" /\ account[q.user].exists
           \/ q.kind = "update" /\ servers[q.server].owner = q.user
        /\ servers' = [servers EXCEPT ![q.server] =
                        [owner |-> q.user, key |-> q.header, blanked |-> FALSE,
                         astray |-> q.astray]]
        /\ End(r)
        /\ UNCHANGED <<account, tokens>>

(* DELETE /db_servers/:id.  An identifier some request holds is not reused *)
(* (CreateDbServer).                                                       *)
DeleteDbServer(t, u, s) ==
    /\ authenticate(t, u)
    /\ servers[s].owner = u
    /\ servers' = [servers EXCEPT ![s] = NoServerRow]
    /\ UNCHANGED <<account, tokens, request>>

-----------------------------------------------------------------------------
Clock ==
    \/ \E u \in User : ActivationLapses(u)
    \/ \E t \in Token : TokenExpires(t)

Read ==
    \E r \in Request, u \in User :
        \/ \E p \in Password : SignUp(r, u, p) \/ Login(r, u, p)
        \/ \E new \in NewPassword : ResetPassword(r, u, new)
        \/ \E t \in Token :
              \/ \E old \in Password, new \in NewPassword : ChangePassword(r, t, u, old, new)
              \/ \E p \in Password : DeleteUser(r, t, u, p)
              \/ \E s \in Server :
                    \/ CreateDbServer(r, t, u, s)
                    \/ UpdateDbServer(r, t, u, s)

Write ==
    \E r \in Request :
        \/ \E t \in Token : LoginToken(r, t)
        \/ ChangePasswordCommit(r)
        \/ ResetPasswordCommit(r)
        \/ DeleteUserCommit(r)
        \/ WriteDbServer(r)
        \/ Abort(r)

(* Requests whose writes follow at once                                    *)
Short ==
    \/ \E u \in User : Activate(u)
    \/ \E t \in Token : Logout(t) \/ ExpiredTokenShown(t)
    \/ \E t \in Token, u \in User, s \in Server : DeleteDbServer(t, u, s)

Next == Clock \/ Read \/ Write \/ Short

Spec == Init /\ [][Next]_vars

-----------------------------------------------------------------------------
(* Properties.                                                             *)

(* One key per user: whoever holds a token of the user and the next one to *)
(* log in have the key of every password the user has stored, so nothing   *)
(* is lost and the password can always be changed.  Keys go astray in      *)
(* three ways only, and from there to what is written with them: requests  *)
(* that were on their way when the password changed hold the key of        *)
(* before; a session that changes the password keeps the key of before     *)
(* (setNewPassword); a blank new password re-encrypts the servers and      *)
(* leaves the login as it is.  Every other session is ended by a change    *)
(* and every server it finds is renewed (change_password!,                 *)
(* reset_password).                                                        *)
KeysFollowPassword ==
    /\ \A t \in Token : tokens[t].user # NoUser /\ ~tokens[t].astray =>
            tokens[t].crypto_key = account[tokens[t].user].password
    /\ \A s \in Server : servers[s].owner # NoUser /\ ~servers[s].astray =>
            servers[s].key = account[servers[s].owner].password

(* Nothing outlives its account: a token would log nobody in and a stored  *)
(* password could not be decrypted by anybody (dependent rows of user.rb,  *)
(* whatever requests of that user are still running).                      *)
NoOrphans ==
    /\ \A t \in Token : tokens[t].user # NoUser => account[tokens[t].user].exists
    /\ \A s \in Server : servers[s].owner # NoUser => account[servers[s].owner].exists

(* docs/security_concepts.md has the key that encrypts the passwords of    *)
(* database servers "generated from the password of the users db-sql       *)
(* login", without exception.                                              *)
KeyOfLoginPassword ==
    \A s \in Server : servers[s].owner # NoUser =>
        servers[s].key = account[servers[s].owner].password

=============================================================================
