--------------------------- MODULE BrowserSession ---------------------------
(***************************************************************************)
(* The session of one browser tab: the session store, the API client whose *)
(* default headers it sets, the local storage, the router, and the forms   *)
(* that submit to it (login, signup, links of mails, passwords, deletion). *)
(* What a form shows while it waits is the subject of LoginForm.           *)
(*                                                                         *)
(* The tab never waits: every call returns at once and its answer is       *)
(* handled when it arrives, whatever the tab has become meanwhile.  A      *)
(* request is sent with the headers of that moment, served by the server   *)
(* (Serve) and answered (the actions named ...Answered); requests overtake *)
(* each other freely.  Only the requests of the other stores ("load")      *)
(* carry the cancel token of the root store, so only they are withdrawn.   *)
(*                                                                         *)
(* A key is named by the user whose password it derives from.  Pages that  *)
(* need a login are all "dashboard"; the page of a mail's link is named by *)
(* the user in its path.  Two pending requests that agree in everything    *)
(* are one.                                                                *)
(***************************************************************************)
EXTENDS Naturals, FiniteSets

CONSTANTS
    User, NoUser,
    MaxToken,       \* bound: logins the server grants
    MaxRequests     \* bound: a form is submitted only below this number of pending requests

ASSUME SessionAssumption ==
    /\ NoUser \notin User
    /\ {"login", "dashboard"} \cap User = {}
    /\ MaxToken \in Nat /\ MaxRequests \in Nat

VARIABLES
    browser,        \* user, headers, local storage and route of the tab
    requests,       \* requests on their way
    tokens,         \* the server's login tokens: owner of each
    issued,
    crossed         \* note of the model: an answer of another session was taken over

vars == <<browser, requests, tokens, issued, crossed>>

Token == 1..MaxToken
NoToken == 0
Path == {"login", "dashboard"} \cup User

Stored == [id : User, token : Token, crypto_key : User \cup {NoUser}]
NoStorage == [id |-> NoUser, token |-> NoToken, crypto_key |-> NoUser]

Kind == {"login", "signup", "user", "load", "logout", "leave", "password",
         "resend", "forgot", "delete", "reset"}
Answer == {"sent", "ok", "unauthorized", "forbidden", "failed"}
Request == [kind : Kind, of : User \cup {NoUser}, token : Token \cup {NoToken},
            answer : Answer, given : Token \cup {NoToken}]

NewTab(storage, route) ==
    [user |-> NoUser, Authorization |-> NoToken, CryptoKey |-> NoUser,
     storage |-> storage, route |-> route, out |-> {}]

TypeOK ==
    /\ browser \in [user : User \cup {NoUser}, Authorization : Token \cup {NoToken},
                    CryptoKey : User \cup {NoUser}, storage : Stored \cup {NoStorage},
                    route : Path, out : {{}}]
    /\ requests \subseteq Request
    /\ tokens \in [Token -> User \cup {NoUser}]
    /\ issued \in 0..MaxToken
    /\ crossed \in BOOLEAN

Init ==
    /\ browser = NewTab(NoStorage, "login")
    /\ requests = {}
    /\ tokens = [t \in Token |-> NoUser]
    /\ issued = 0
    /\ crossed = FALSE

-----------------------------------------------------------------------------
(* What the store does to a tab b.  The requests it sends gather in b.out. *)

LoggedIn(b) == b.user # NoUser

Send(b, kind, of) ==
    [b EXCEPT !.out = @ \cup
        {[kind |-> kind, of |-> of, token |-> b.Authorization,
          answer |-> "sent", given |-> NoToken]}]

\* A page below /users/:id is for that user; logged out, only the login page and links are.
Authorize(b, path) ==
    IF LoggedIn(b) THEN path \in User => path = b.user ELSE path # "dashboard"

(* A user who is logged in leaves the login page for the page before it or *)
(* the dashboard, and a link that has been used already: `stay' tells      *)
(* whether this one still has a purpose.                                   *)
NavigateToNext(b, stay) ==
    IF LoggedIn(b) /\ (b.route = "login" \/ (b.route \in User /\ ~stay))
    THEN [b EXCEPT !.route = "dashboard"]
    ELSE b

\* history.push and onRouteChange
GoTo(b, path, stay) ==
    LET there == [b EXCEPT !.route = path] IN
    IF Authorize(b, path) THEN NavigateToNext(there, stay)
    ELSE IF LoggedIn(b) THEN Send([there EXCEPT !.storage = NoStorage], "leave", NoUser)
    ELSE [there EXCEPT !.route = "login"]

\* A mutant: the key stays in the storage.
WithHeadersWithoutKey(b, login) == [b EXCEPT !.user = login.id, !.Authorization = login.token]
WithHeaders(b, login) ==
    [b EXCEPT !.user = login.id, !.Authorization = login.token, !.CryptoKey = login.crypto_key]

SetCurrentUser(b, login, stay) ==
    LET known == WithHeaders(b, login)
        kept == [known EXCEPT !.storage = login]
    IN IF Authorize(known, b.route)
       THEN NavigateToNext(Send(Send(kept, "user", NoUser), "load", NoUser), stay)
       ELSE Send(known, "leave", NoUser)

ResetAuthorization(b, redirect) ==
    LET out == [b EXCEPT !.user = NoUser, !.Authorization = NoToken,
                         !.CryptoKey = NoUser, !.storage = NoStorage]
    IN IF redirect THEN GoTo(out, "login", TRUE) ELSE out

\* The interceptor of the API client: any 401 ends the session of the tab.
Intercept(b, r) ==
    IF r.answer = "unauthorized" THEN ResetAuthorization(b, TRUE) ELSE b

-----------------------------------------------------------------------------
(* Bookkeeping of one step. *)

\* The tab becomes b after the request r was answered.
Becomes(b, rest) ==
    /\ browser' = [b EXCEPT !.out = {}]
    /\ requests' = rest \cup b.out

KeepServer == UNCHANGED <<tokens, issued>>
Free == Cardinality(requests) < MaxRequests

Answered(kind, r) ==
    /\ r \in requests /\ r.kind = kind /\ r.answer # "sent"
    /\ KeepServer

\* `crossed' notes an answer that belongs to another session than the one it is applied to.
TakesOver(r) ==
    crossed' = (crossed \/ r.of # browser.user \/ browser.storage.id \notin {r.of, NoUser})

-----------------------------------------------------------------------------
(* The forms. *)

Submit(kind, of) ==
    /\ Free
    /\ Becomes(Send(browser, kind, of), requests)
    /\ KeepServer /\ UNCHANGED crossed

Login(u) == browser.route = "login" /\ Submit("login", u)
Signup(u) == browser.route = "login" /\ Submit("signup", u)
ForgotPassword == browser.route = "login" /\ Submit("forgot", NoUser)
ResendActivationLink == (LoggedIn(browser) \/ browser.route = "login") /\ Submit("resend", NoUser)
SetNewPassword == LoggedIn(browser) /\ browser.route = "dashboard" /\ Submit("password", NoUser)
DeleteAccount == LoggedIn(browser) /\ browser.route = "dashboard" /\ Submit("delete", NoUser)
Logout == LoggedIn(browser) /\ Submit("logout", NoUser)
Load == LoggedIn(browser) /\ Submit("load", NoUser)

\* The form behind a reset link forgets the stored session before it asks.
ResetPassword ==
    /\ browser.route \in User /\ Free
    /\ Becomes(Send([browser EXCEPT !.storage = NoStorage], "reset", browser.route), requests)
    /\ KeepServer /\ UNCHANGED crossed

\* The activation of the account was answered: its owner is read again.
Activated ==
    /\ browser.route \in User /\ browser.route = browser.user
    /\ Submit("user", NoUser)

Visit(path, stay) ==
    /\ Free
    /\ Becomes(GoTo(browser, path, stay), requests)
    /\ KeepServer /\ UNCHANGED crossed

(* The page is loaded anew, from the storage: all answers are lost.  What  *)
(* the server makes of the requests shows only in tokens that end.  The    *)
(* router opens the page without a user first.                             *)
PageLoad(path, stay) ==
    LET tab == GoTo(NewTab(browser.storage, path), path, stay) IN
    /\ Becomes(IF tab.storage = NoStorage THEN tab
                ELSE SetCurrentUser(tab, tab.storage, stay), {})
    /\ KeepServer /\ UNCHANGED crossed

-----------------------------------------------------------------------------
(* The server serves a request with the headers it was sent with. *)

Owner(r) == IF r.token = NoToken THEN NoUser ELSE tokens[r.token]
Without(u) == [t \in Token |-> IF tokens[t] = u THEN NoUser ELSE tokens[t]]
Ended(r) == [t \in Token |-> IF t = r.token THEN NoUser ELSE tokens[t]]

Respond(r, answer, of, given, kept) ==
    /\ requests' = (requests \ {r}) \cup {[r EXCEPT !.answer = answer, !.of = of, !.given = given]}
    /\ tokens' = IF given = NoToken THEN kept ELSE [kept EXCEPT ![given] = of]
    /\ issued' = IF given = NoToken THEN issued ELSE given

\* A login, a signup and a changed password are answered with a new token.
Grant(r, of, kept) == issued < MaxToken /\ Respond(r, "ok", of, issued + 1, kept)
Refuse(r, answer) == Respond(r, answer, r.of, NoToken, tokens)

ServeLogin(r) ==
    /\ r.kind = "login"
    /\ \/ Grant(r, r.of, tokens)
       \/ \E answer \in {"unauthorized", "forbidden", "failed"} : Refuse(r, answer)

ServeSignup(r) ==
    /\ r.kind = "signup"
    /\ \/ Grant(r, r.of, Ended(r))
       \/ Respond(r, "failed", r.of, NoToken, Ended(r))

\* Requests for links in mails first log the sender out.
ServeMail(r) ==
    /\ r.kind \in {"resend", "forgot"}
    /\ \E answer \in {"ok", "failed"} : Respond(r, answer, NoUser, NoToken, Ended(r))

ServeReset(r) ==
    /\ r.kind = "reset"
    /\ \/ Respond(r, "ok", r.of, NoToken, Without(r.of))
       \/ Refuse(r, "failed")

ServeAuthenticated(r) ==
    /\ r.kind \in {"user", "load", "logout", "leave", "password", "delete"}
    /\ \/ Owner(r) = NoUser /\ Refuse(r, "unauthorized")
       \/ Refuse(r, "failed")
       \/ /\ Owner(r) # NoUser
          /\ \/ r.kind \in {"user", "load"} /\ Respond(r, "ok", Owner(r), NoToken, tokens)
             \/ r.kind \in {"logout", "leave"} /\ Respond(r, "ok", Owner(r), NoToken, Ended(r))
             \/ r.kind = "password" /\ Grant(r, Owner(r), Without(Owner(r)))
             \/ r.kind = "delete" /\ Respond(r, "ok", Owner(r), NoToken, Without(Owner(r)))

Serve(r) ==
    /\ r \in requests /\ r.answer = "sent"
    /\ ServeLogin(r) \/ ServeSignup(r) \/ ServeMail(r) \/ ServeReset(r) \/ ServeAuthenticated(r)
    /\ UNCHANGED <<browser, crossed>>

\* A token expires, or its user logs out elsewhere.
Expire(t) ==
    /\ tokens[t] # NoUser
    /\ tokens' = [tokens EXCEPT ![t] = NoUser]
    /\ UNCHANGED <<browser, requests, issued, crossed>>

-----------------------------------------------------------------------------
(* The answers. *)

\* A mutant: the header the login was sent with is kept.
NewLoginWithSentToken(r) == [id |-> r.of, token |-> r.token, crypto_key |-> r.of]
NewLogin(r) == [id |-> r.of, token |-> r.given, crypto_key |-> r.of]
Rest(r) == requests \ {r}

\* A login replaces what was mixed up, when it replaces the stored session too.
EndsCrossing(r) == crossed' = (crossed /\ browser'.storage # NewLogin(r))

\* Login and Signup hand the answer to the store.
LoginAnswered(r, stay) ==
    /\ Answered("login", r) \/ Answered("signup", r)
    /\ IF r.answer = "ok"
       THEN Becomes(SetCurrentUser(browser, NewLogin(r), stay), Rest(r)) /\ EndsCrossing(r)
       ELSE Becomes(Intercept(browser, r), Rest(r)) /\ UNCHANGED crossed

\* A mutant: the answer is taken over although the storage has been emptied.
ReloadedAnyway(b, r) == [b EXCEPT !.storage.id = r.of, !.user = r.of]

(* The user just read is merged into what the storage holds now, which may *)
(* be another session than the one that asked, or none.                    *)
Reloaded(b, r) ==
    IF b.storage = NoStorage THEN b
    ELSE [b EXCEPT !.storage.id = r.of, !.user = r.of]

UserAnswered(r) ==
    /\ Answered("user", r)
    /\ IF r.answer = "ok"
       THEN Becomes(Reloaded(browser, r), Rest(r)) /\ TakesOver(r)
       ELSE /\ Becomes(ResetAuthorization(Intercept(browser, r), FALSE), Rest(r))
            /\ UNCHANGED crossed

\* Only the header of the token is renewed: neither the key nor the storage.
PasswordAnswered(r) ==
    /\ Answered("password", r)
    /\ IF r.answer = "ok"
       THEN /\ Becomes([browser EXCEPT !.Authorization = r.given, !.user = r.of], Rest(r))
            /\ TakesOver(r)
       ELSE Becomes(Intercept(browser, r), Rest(r)) /\ UNCHANGED crossed

(* Whatever the server answered, the tab ends its session, withdraws the   *)
(* requests of the stores and empties them.                                *)
LogoutAnswered(r) ==
    /\ Answered("logout", r) \/ Answered("leave", r)
    /\ Becomes(ResetAuthorization(Intercept(browser, r), r.kind = "logout"),
               {q \in Rest(r) : q.kind # "load"})
    /\ UNCHANGED crossed

\* The stores keep what they hold: cleanup is not called.
DeleteAnswered(r) ==
    /\ Answered("delete", r)
    /\ Becomes(IF r.answer = "ok" THEN ResetAuthorization(browser, TRUE)
               ELSE Intercept(browser, r), Rest(r))
    /\ UNCHANGED crossed

ResetAnswered(r, stay) ==
    /\ Answered("reset", r)
    /\ Becomes(IF r.answer = "ok" THEN GoTo(browser, "login", stay) ELSE browser, Rest(r))
    /\ UNCHANGED crossed

\* The answer is of no concern here, unless the token has ended.
OtherAnswered(r) ==
    /\ \E kind \in {"load", "forgot", "resend"} : Answered(kind, r)
    /\ Becomes(Intercept(browser, r), Rest(r))
    /\ UNCHANGED crossed

-----------------------------------------------------------------------------
AnswerArrives(r) ==
    \/ \E stay \in BOOLEAN : LoginAnswered(r, stay) \/ ResetAnswered(r, stay)
    \/ UserAnswered(r)
    \/ PasswordAnswered(r)
    \/ LogoutAnswered(r)
    \/ DeleteAnswered(r)
    \/ OtherAnswered(r)

UserActs ==
    \/ \E u \in User : Login(u) \/ Signup(u)
    \/ ForgotPassword
    \/ ResendActivationLink
    \/ SetNewPassword
    \/ DeleteAccount
    \/ Logout
    \/ Load
    \/ ResetPassword
    \/ Activated
    \/ \E path \in Path, stay \in BOOLEAN : Visit(path, stay) \/ PageLoad(path, stay)

Next ==
    \/ UserActs
    \/ \E r \in requests : Serve(r) \/ AnswerArrives(r)
    \/ \E t \in Token : Expire(t)

Spec == Init /\ [][Next]_vars

-----------------------------------------------------------------------------
(* Without a user the tab holds neither token, nor key, nor a stored       *)
(* session that the next page load would take up, whatever answer of an    *)
(* earlier session is still to come; with one it sends a token             *)
(* (resetAuthorization, and the early return of reloadUser).               *)
SessionIsWhole ==
    IF LoggedIn(browser) THEN browser.Authorization # NoToken
    ELSE /\ browser.Authorization = NoToken /\ browser.CryptoKey = NoUser
         /\ browser.storage = NoStorage

(* The user shown, the token and the key that requests carry belong to one *)
(* person, and so do the parts of the session kept for the next page load, *)
(* unless the answer of another session was taken over since the login.    *)
IdentityAgrees ==
    ~crossed =>
        /\ LoggedIn(browser) =>
               /\ browser.CryptoKey = browser.user
               /\ tokens[browser.Authorization] \in {browser.user, NoUser}
        /\ browser.storage # NoStorage =>
               /\ browser.storage.crypto_key = browser.storage.id
               /\ tokens[browser.storage.token] \in {browser.storage.id, NoUser}
=============================================================================
