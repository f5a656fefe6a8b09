-------------------------- MODULE BrowserTabProofs --------------------------
(***************************************************************************)
(* Proofs about the session of a browser tab and the parts next to it, for *)
(* any number of requests, tabs, scopes and rows: what each of its pages   *)
(* shows follows from an inductive invariant of that part, <Part>Inv.      *)
(*                                                                         *)
(* A step of the tab is a step of the part that is played or leaves it as  *)
(* it was (<Part>InTab), so that the invariant of a part holds in the tab  *)
(* (PartInv); the theorems about the properties of the tab come last.      *)
(***************************************************************************)
EXTENDS BrowserTab, Integers, Sequences, FiniteSetTheorems, SequenceTheorems,
        WellFoundedInduction, TLAPS

-----------------------------------------------------------------------------
(* The session of the tab                                                  *)
(*                                                                         *)
(* A tab without a user keeps nothing of a session, whatever order answers *)
(* come in.  SessionInv says what a tab may look like (AnyTab, Whole) and  *)
(* what an answer brings with it (Brings): a login, a signup and a new     *)
(* password bring an owner and a token, a user that was read has an id.    *)

Person == User \cup {NoUser}
AnyToken == Token \cup {NoToken}
AnyStorage == [id : Person, token : AnyToken, crypto_key : Person]

(* A tab of which the requests it is about to send are not yet gathered.   *)
AnyTab == [user : Person, Authorization : AnyToken, CryptoKey : Person,
           storage : AnyStorage, route : Path, out : SUBSET Request]

StorageWhole(s) == s = NoStorage \/ (s.id # NoUser /\ s.token # NoToken)

Whole(b) ==
    /\ StorageWhole(b.storage)
    /\ IF b.user # NoUser THEN b.Authorization # NoToken
       ELSE b.Authorization = NoToken /\ b.CryptoKey = NoUser /\ b.storage = NoStorage

Brings(r) ==
    /\ r.kind \in {"login", "signup"} => r.of # NoUser
    /\ r.kind \in {"user", "password"} /\ r.answer = "ok" => r.of # NoUser
    /\ r.kind \in {"login", "signup", "password"} /\ r.answer = "ok" => r.given # NoToken

Sendable(b) == b \in AnyTab /\ \A r \in b.out : Brings(r) /\ r.answer = "sent"

SessionInv ==
    /\ Sendable(browser) /\ browser.out = {} /\ Whole(browser)
    /\ requests \subseteq Request /\ \A r \in requests : Brings(r)
    /\ tokens \in [Token -> Person]
    /\ issued \in 0..MaxToken
    /\ crossed \in BOOLEAN

-----------------------------------------------------------------------------
(* What the store does to a tab.                                           *)

LEMMA NoTokenIsNone == NoToken \notin Token /\ \A t \in Token : t # NoToken
  BY DEF NoToken, Token

LEMMA NoStorageType == NoStorage \in AnyStorage /\ NoStorage \notin Stored
<1>1. NoStorage.id = NoUser /\ NoStorage \in AnyStorage
  BY DEF NoStorage, AnyStorage, Person, AnyToken
<1>2. \A s \in Stored : s.id # NoUser
  BY SessionAssumption DEF Stored
<1> QED BY <1>1, <1>2

LEMMA StoredIsWhole ==
    ASSUME NEW s \in AnyStorage
    PROVE  StorageWhole(s) <=> s \in Stored \cup {NoStorage}
<1>1. ASSUME s \in Stored PROVE s.id # NoUser /\ s.token # NoToken
  BY <1>1, SessionAssumption, NoTokenIsNone DEF Stored
<1>2. ASSUME s.id # NoUser, s.token # NoToken PROVE s \in Stored
  BY <1>2 DEF Stored, AnyStorage, Person, AnyToken
<1> QED BY <1>1, <1>2 DEF StorageWhole

LEMMA SendType ==
    ASSUME NEW b, Sendable(b), NEW k \in Kind, NEW of \in Person,
           k \in {"login", "signup"} => of # NoUser
    PROVE  /\ Sendable(Send(b, k, of))
           /\ Whole(b) => Whole(Send(b, k, of))
           /\ Send(b, k, of).route = b.route /\ Send(b, k, of).user = b.user
           /\ Send(b, k, of).storage = b.storage
<1> DEFINE r == [kind |-> k, of |-> of, token |-> b.Authorization,
                 answer |-> "sent", given |-> NoToken]
<1>1. b \in AnyTab
  BY DEF Sendable
<1>2. r \in Request /\ Brings(r) /\ r.answer = "sent"
  BY <1>1 DEF AnyTab, Request, Person, AnyToken, Answer, Brings
<1>3. Send(b, k, of) = [b EXCEPT !.out = @ \cup {r}]
  BY DEF Send
<1> HIDE DEF r
<1>4. Send(b, k, of) \in AnyTab /\ Send(b, k, of).out = b.out \cup {r}
  BY <1>1, <1>2, <1>3 DEF AnyTab
<1>5. \A q \in Send(b, k, of).out : Brings(q) /\ q.answer = "sent"
  BY <1>2, <1>4 DEF Sendable
<1>6. /\ Send(b, k, of).user = b.user /\ Send(b, k, of).Authorization = b.Authorization
      /\ Send(b, k, of).CryptoKey = b.CryptoKey /\ Send(b, k, of).storage = b.storage
      /\ Send(b, k, of).route = b.route
  BY <1>1, <1>3 DEF AnyTab
<1>7. Whole(b) => Whole(Send(b, k, of))
  BY <1>6 DEF Whole
<1> QED BY <1>4, <1>5, <1>6, <1>7 DEF Sendable

(* A tab of which fields other than `out' were set.                        *)
LEMMA Reset ==
    ASSUME NEW b, Sendable(b), NEW c \in AnyTab, c.out = b.out
    PROVE  Sendable(c)
  BY DEF Sendable

LEMMA NavigateType ==
    ASSUME NEW b, Sendable(b), Whole(b), NEW stay
    PROVE  /\ Sendable(NavigateToNext(b, stay)) /\ Whole(NavigateToNext(b, stay))
           /\ NavigateToNext(b, stay).storage = b.storage
           /\ NavigateToNext(b, stay).user = b.user
<1> DEFINE c == [b EXCEPT !.route = "dashboard"]
<1>1. b \in AnyTab
  BY DEF Sendable
<1>2. c \in AnyTab /\ c.out = b.out
  BY <1>1 DEF AnyTab, Path
<1>3. /\ c.user = b.user /\ c.Authorization = b.Authorization
      /\ c.CryptoKey = b.CryptoKey /\ c.storage = b.storage
  BY <1>1 DEF AnyTab
<1>4. NavigateToNext(b, stay) \in {b, c}
  BY DEF NavigateToNext
<1> HIDE DEF c
<1>5. Sendable(c)
  BY <1>2, Reset
<1>6. Whole(c)
  BY <1>3 DEF Whole
<1> QED BY <1>3, <1>4, <1>5, <1>6

LEMMA GoToType ==
    ASSUME NEW b, Sendable(b), Whole(b), NEW path \in Path, NEW stay
    PROVE  Sendable(GoTo(b, path, stay)) /\ Whole(GoTo(b, path, stay))
<1> DEFINE there == [b EXCEPT !.route = path]
           emptied == [there EXCEPT !.storage = NoStorage]
           home == [there EXCEPT !.route = "login"]
<1>1. b \in AnyTab
  BY DEF Sendable
<1>2. there \in AnyTab /\ there.out = b.out
  BY <1>1 DEF AnyTab
<1>3. /\ there.user = b.user /\ there.Authorization = b.Authorization
      /\ there.CryptoKey = b.CryptoKey /\ there.storage = b.storage
  BY <1>1 DEF AnyTab
<1>4. Sendable(there) /\ Whole(there)
  BY <1>2, <1>3, Reset DEF Whole
<1> HIDE DEF there
<1>5. CASE Authorize(b, path)
  <2>1. GoTo(b, path, stay) = NavigateToNext(there, stay)
    BY <1>5 DEF GoTo, there
  <2> QED BY <1>4, <2>1, NavigateType
<1>6. CASE ~Authorize(b, path) /\ LoggedIn(b)
  <2>1. emptied \in AnyTab /\ emptied.out = there.out
    BY <1>2, NoStorageType DEF AnyTab
  <2>2. /\ emptied.user = there.user /\ emptied.Authorization = there.Authorization
        /\ emptied.CryptoKey = there.CryptoKey /\ emptied.storage = NoStorage
    BY <1>2 DEF AnyTab
  <2>3. GoTo(b, path, stay) = Send(emptied, "leave", NoUser)
    BY <1>6 DEF GoTo, there
  <2> HIDE DEF emptied
  <2>4. Sendable(emptied) /\ Whole(emptied)
    BY <1>3, <1>4, <1>6, <2>1, <2>2, Reset DEF Whole, StorageWhole, LoggedIn
  <2> QED BY <2>3, <2>4, SendType DEF Kind, Person
<1>7. CASE ~Authorize(b, path) /\ ~LoggedIn(b)
  <2>1. home \in AnyTab /\ home.out = there.out
    BY <1>2 DEF AnyTab, Path
  <2>2. /\ home.user = there.user /\ home.Authorization = there.Authorization
        /\ home.CryptoKey = there.CryptoKey /\ home.storage = there.storage
    BY <1>2 DEF AnyTab
  <2>3. GoTo(b, path, stay) = home
    BY <1>7 DEF GoTo, there
  <2> HIDE DEF home
  <2> QED BY <1>4, <2>1, <2>2, <2>3, Reset DEF Whole
<1> QED BY <1>5, <1>6, <1>7

(* A session that can be taken up: it has a user and a token.              *)
LEMMA SetCurrentUserType ==
    ASSUME NEW b, Sendable(b), StorageWhole(b.storage),
           NEW login \in AnyStorage, login.id # NoUser, login.token # NoToken, NEW stay
    PROVE  Sendable(SetCurrentUser(b, login, stay)) /\ Whole(SetCurrentUser(b, login, stay))
<1> DEFINE known == WithHeaders(b, login)
           kept == [known EXCEPT !.storage = login]
           read == Send(kept, "user", NoUser)
           loading == Send(read, "load", NoUser)
<1>1. b \in AnyTab
  BY DEF Sendable
<1>2. known \in AnyTab /\ known.out = b.out
  BY <1>1 DEF WithHeaders, AnyTab, AnyStorage
<1>3. /\ known.user = login.id /\ known.Authorization = login.token
      /\ known.storage = b.storage
  BY <1>1 DEF WithHeaders, AnyTab
<1>4. Sendable(known) /\ Whole(known)
  BY <1>2, <1>3, Reset DEF Whole
<1> HIDE DEF known
<1>5. kept \in AnyTab /\ kept.out = known.out
  BY <1>2 DEF AnyTab
<1>6. kept.user = known.user /\ kept.Authorization = known.Authorization /\ kept.storage = login
  BY <1>2 DEF AnyTab
<1>7. Sendable(kept) /\ Whole(kept)
  BY <1>3, <1>4, <1>5, <1>6, Reset DEF Whole, StorageWhole
<1>8. SetCurrentUser(b, login, stay) = IF Authorize(known, b.route) THEN NavigateToNext(loading, stay)
                                       ELSE Send(known, "leave", NoUser)
  BY DEF SetCurrentUser, known
<1> HIDE DEF kept
<1>9. Sendable(read) /\ Whole(read)
  BY <1>7, SendType DEF Kind, Person
<1> HIDE DEF read
<1>10. Sendable(loading) /\ Whole(loading)
  BY <1>9, SendType DEF Kind, Person
<1> HIDE DEF loading
<1>11. Sendable(NavigateToNext(loading, stay)) /\ Whole(NavigateToNext(loading, stay))
  BY <1>10, NavigateType
<1>12. Sendable(Send(known, "leave", NoUser)) /\ Whole(Send(known, "leave", NoUser))
  BY <1>4, SendType DEF Kind, Person
<1> QED BY <1>8, <1>11, <1>12

LEMMA ResetType ==
    ASSUME NEW b, Sendable(b), NEW redirect \in BOOLEAN
    PROVE  Sendable(ResetAuthorization(b, redirect)) /\ Whole(ResetAuthorization(b, redirect))
<1> DEFINE out == [b EXCEPT !.user = NoUser, !.Authorization = NoToken,
                            !.CryptoKey = NoUser, !.storage = NoStorage]
<1>1. b \in AnyTab
  BY DEF Sendable
<1>2. out \in AnyTab /\ out.out = b.out
  BY <1>1, NoStorageType DEF AnyTab, Person, AnyToken
<1>3. /\ out.user = NoUser /\ out.Authorization = NoToken
      /\ out.CryptoKey = NoUser /\ out.storage = NoStorage
  BY <1>1 DEF AnyTab
<1>4. ResetAuthorization(b, redirect) = IF redirect THEN GoTo(out, "login", TRUE) ELSE out
  BY DEF ResetAuthorization
<1> HIDE DEF out
<1>5. Sendable(out) /\ Whole(out)
  BY <1>2, <1>3, Reset DEF Whole, StorageWhole
<1>6. Sendable(GoTo(out, "login", TRUE)) /\ Whole(GoTo(out, "login", TRUE))
  BY <1>5, GoToType DEF Path
<1> QED BY <1>4, <1>5, <1>6

LEMMA InterceptType ==
    ASSUME NEW b, Sendable(b), Whole(b), NEW r
    PROVE  Sendable(Intercept(b, r)) /\ Whole(Intercept(b, r))
  BY ResetType DEF Intercept

-----------------------------------------------------------------------------
(* The steps of the tab: it becomes b, and its requests go out.            *)

ServerKept == tokens' = tokens /\ issued' = issued /\ crossed' \in BOOLEAN

LEMMA BecomesInv ==
    ASSUME SessionInv, NEW b, Sendable(b), Whole(b), NEW rest \in SUBSET Request,
           \A r \in rest : Brings(r), Becomes(b, rest), ServerKept
    PROVE  SessionInv'
<1> DEFINE c == [b EXCEPT !.out = {}]
<1>1. b \in AnyTab /\ b.out \subseteq Request
  BY DEF Sendable, AnyTab
<1>2. c \in AnyTab /\ c.out = {}
  BY <1>1 DEF AnyTab
<1>3. /\ c.user = b.user /\ c.Authorization = b.Authorization
      /\ c.CryptoKey = b.CryptoKey /\ c.storage = b.storage
  BY <1>1 DEF AnyTab
<1>4. browser' = c /\ requests' = rest \cup b.out
  BY DEF Becomes
<1> HIDE DEF c
<1>5. Sendable(c) /\ Whole(c)
  BY <1>2, <1>3 DEF Sendable, Whole
<1>6. (Sendable(browser) /\ browser.out = {} /\ Whole(browser))'
  BY <1>2, <1>4, <1>5 DEF Sendable, Whole
<1>7. requests' \subseteq Request /\ \A r \in requests' : Brings(r)
  BY <1>1, <1>4 DEF Sendable
<1>8. (\A r \in requests : Brings(r))'
  BY <1>7 DEF Brings
<1> QED BY <1>6, <1>7, <1>8 DEF SessionInv, ServerKept

LEMMA SubmitInv ==
    ASSUME SessionInv, NEW kind \in Kind, NEW of \in Person,
           kind \in {"login", "signup"} => of # NoUser, Submit(kind, of)
    PROVE  SessionInv'
<1>1. Sendable(browser) /\ Whole(browser) /\ requests \in SUBSET Request
      /\ \A r \in requests : Brings(r)
  BY DEF SessionInv
<1>2. Sendable(Send(browser, kind, of)) /\ Whole(Send(browser, kind, of))
  BY <1>1, SendType
<1>3. Becomes(Send(browser, kind, of), requests) /\ ServerKept
  BY DEF Submit, KeepServer, ServerKept, SessionInv
<1> QED BY <1>1, <1>2, <1>3, BecomesInv

LEMMA ResetPasswordInv ==
    ASSUME SessionInv, ResetPassword PROVE SessionInv'
<1> DEFINE b == [browser EXCEPT !.storage = NoStorage]
<1>1. browser \in AnyTab /\ Whole(browser) /\ Sendable(browser)
      /\ requests \in SUBSET Request /\ \A r \in requests : Brings(r)
  BY DEF SessionInv, Sendable
<1>2. b \in AnyTab /\ b.out = browser.out
  BY <1>1, NoStorageType DEF AnyTab
<1>3. /\ b.user = browser.user /\ b.Authorization = browser.Authorization
      /\ b.CryptoKey = browser.CryptoKey /\ b.storage = NoStorage
  BY <1>1 DEF AnyTab
<1>4. browser.route \in Person
  BY DEF ResetPassword, Person
<1>5. Becomes(Send(b, "reset", browser.route), requests) /\ ServerKept
  BY DEF ResetPassword, KeepServer, ServerKept, SessionInv
<1> HIDE DEF b
<1>6. Sendable(b) /\ Whole(b)
  BY <1>1, <1>2, <1>3, Reset DEF Whole, StorageWhole
<1>7. Sendable(Send(b, "reset", browser.route)) /\ Whole(Send(b, "reset", browser.route))
  BY <1>4, <1>6, SendType DEF Kind
<1> QED BY <1>1, <1>5, <1>7, BecomesInv

LEMMA VisitInv ==
    ASSUME SessionInv, NEW path \in Path, NEW stay \in BOOLEAN, Visit(path, stay) PROVE SessionInv'
<1>1. Sendable(browser) /\ Whole(browser) /\ requests \in SUBSET Request
      /\ \A r \in requests : Brings(r)
  BY DEF SessionInv
<1>2. Sendable(GoTo(browser, path, stay)) /\ Whole(GoTo(browser, path, stay))
  BY <1>1, GoToType
<1>3. Becomes(GoTo(browser, path, stay), requests) /\ ServerKept
  BY DEF Visit, KeepServer, ServerKept, SessionInv
<1> QED BY <1>1, <1>2, <1>3, BecomesInv

(* A new page has no user yet, and what is stored waits for it: the router *)
(* opens the page asked for, or the login page.                            *)
LEMMA NewTabType ==
    ASSUME NEW s \in AnyStorage, NEW path \in Path, NEW stay \in BOOLEAN
    PROVE  LET tab == GoTo(NewTab(s, path), path, stay)
           IN  Sendable(tab) /\ tab.storage = s /\ (s = NoStorage => Whole(tab))
<1> DEFINE b == NewTab(s, path)
           there == [b EXCEPT !.route = path]
           home == [there EXCEPT !.route = "login"]
<1>1. b \in AnyTab
  BY DEF NewTab, AnyTab, Person, AnyToken
<1>2. /\ b.user = NoUser /\ b.Authorization = NoToken /\ b.CryptoKey = NoUser
      /\ b.storage = s /\ b.out = {}
  BY DEF NewTab
<1> HIDE DEF b
<1>3. there \in AnyTab
  BY <1>1 DEF AnyTab
<1>4. /\ there.user = NoUser /\ there.Authorization = NoToken /\ there.CryptoKey = NoUser
      /\ there.storage = s /\ there.out = {}
  BY <1>1, <1>2 DEF AnyTab
<1>5. GoTo(b, path, stay) = IF Authorize(b, path) THEN NavigateToNext(there, stay) ELSE home
  BY <1>2 DEF GoTo, LoggedIn
<1> HIDE DEF there
<1>6. home \in AnyTab
  BY <1>3 DEF AnyTab, Path
<1>7. /\ home.user = NoUser /\ home.Authorization = NoToken /\ home.CryptoKey = NoUser
      /\ home.storage = s /\ home.out = {}
  BY <1>3, <1>4 DEF AnyTab
<1> HIDE DEF home
<1>8. NavigateToNext(there, stay) = there
  BY <1>4 DEF NavigateToNext, LoggedIn
<1>9. ASSUME NEW c \in {there, home}
      PROVE  Sendable(c) /\ c.storage = s /\ (s = NoStorage => Whole(c))
  BY <1>3, <1>4, <1>6, <1>7 DEF Sendable, Whole, StorageWhole
<1>10. GoTo(b, path, stay) \in {there, home}
  BY <1>5, <1>8
<1>11. /\ Sendable(GoTo(b, path, stay)) /\ GoTo(b, path, stay).storage = s
       /\ s = NoStorage => Whole(GoTo(b, path, stay))
  BY <1>9, <1>10
<1> QED BY <1>11 DEF b

LEMMA PageLoadInv ==
    ASSUME SessionInv, NEW path \in Path, NEW stay \in BOOLEAN, PageLoad(path, stay) PROVE SessionInv'
<1> DEFINE s == browser.storage
           tab == GoTo(NewTab(s, path), path, stay)
           b == IF tab.storage = NoStorage THEN tab ELSE SetCurrentUser(tab, tab.storage, stay)
<1>1. s \in AnyStorage /\ StorageWhole(s)
  BY DEF SessionInv, Sendable, AnyTab, Whole
<1>2. Becomes(b, {}) /\ ServerKept
  BY DEF PageLoad, KeepServer, ServerKept, SessionInv
<1> HIDE DEF s
<1>3. Sendable(tab) /\ tab.storage = s /\ (s = NoStorage => Whole(tab))
  BY <1>1, NewTabType
<1> HIDE DEF tab
<1>4. ASSUME s # NoStorage PROVE s.id # NoUser /\ s.token # NoToken
  BY <1>1, <1>4 DEF StorageWhole
<1>5. ASSUME s # NoStorage
      PROVE  Sendable(SetCurrentUser(tab, s, stay)) /\ Whole(SetCurrentUser(tab, s, stay))
  BY <1>1, <1>3, <1>4, <1>5, SetCurrentUserType
<1>6. Sendable(b) /\ Whole(b)
  BY <1>3, <1>5
<1> HIDE DEF b
<1> QED BY <1>2, <1>6, BecomesInv

LEMMA UserActsInv ==
    ASSUME SessionInv, UserActs PROVE SessionInv'
<1>1. ASSUME NEW u \in User, Login(u) \/ Signup(u) PROVE SessionInv'
  <2>1. u \in Person /\ u # NoUser
    BY SessionAssumption DEF Person
  <2>2. Submit("login", u) \/ Submit("signup", u)
    BY <1>1 DEF Login, Signup
  <2> QED BY <2>1, <2>2, SubmitInv DEF Kind
<1>2. ASSUME NEW kind \in {"forgot", "resend", "password", "delete", "logout", "load", "user"},
             Submit(kind, NoUser)
      PROVE  SessionInv'
  BY <1>2, SubmitInv DEF Kind, Person
<1>3. CASE ForgotPassword \/ ResendActivationLink \/ SetNewPassword \/ DeleteAccount
           \/ Logout \/ Load \/ Activated
  BY <1>2, <1>3 DEF ForgotPassword, ResendActivationLink, SetNewPassword, DeleteAccount,
                    Logout, Load, Activated
<1> QED BY <1>1, <1>3, ResetPasswordInv, VisitInv, PageLoadInv DEF UserActs

-----------------------------------------------------------------------------
(* The server: what it answers brings what the tab takes over.             *)

LEMMA RespondInv ==
    ASSUME SessionInv, NEW r \in requests, UNCHANGED <<browser, crossed>>,
           NEW answer \in Answer, NEW of \in Person, NEW given \in AnyToken,
           NEW kept \in [Token -> Person], given # NoToken => given \in Token,
           r.kind \in {"login", "signup"} => of # NoUser,
           r.kind \in {"user", "password"} /\ answer = "ok" => of # NoUser,
           r.kind \in {"login", "signup", "password"} /\ answer = "ok" => given # NoToken,
           Respond(r, answer, of, given, kept)
    PROVE  SessionInv'
<1> DEFINE q == [r EXCEPT !.answer = answer, !.of = of, !.given = given]
<1>1. r \in Request /\ requests \subseteq Request /\ \A p \in requests : Brings(p)
  BY DEF SessionInv
<1>2. q \in Request
  BY <1>1 DEF Request, Person, AnyToken
<1>3. q.kind = r.kind /\ q.answer = answer /\ q.of = of /\ q.given = given
  BY <1>1 DEF Request
<1>4. requests' = (requests \ {r}) \cup {q}
  BY DEF Respond
<1> HIDE DEF q
<1>5. Brings(q)
  BY <1>3 DEF Brings
<1>6. requests' \subseteq Request /\ \A p \in requests' : Brings(p)
  BY <1>1, <1>2, <1>4, <1>5
<1>7. (\A p \in requests : Brings(p))'
  BY <1>6 DEF Brings
<1>8. tokens' \in [Token -> Person]
  BY DEF Respond
<1>9. issued' \in 0..MaxToken
  BY DEF Respond, SessionInv, Token
<1>10. browser' = browser /\ crossed' \in BOOLEAN
  BY DEF SessionInv
<1>11. (Sendable(browser) /\ browser.out = {} /\ Whole(browser))'
  BY <1>10 DEF SessionInv, Sendable, Whole
<1> QED BY <1>6, <1>7, <1>8, <1>9, <1>10, <1>11 DEF SessionInv

LEMMA GrantInv ==
    ASSUME SessionInv, NEW r \in requests, UNCHANGED <<browser, crossed>>,
           NEW of \in Person, of # NoUser, NEW kept \in [Token -> Person], Grant(r, of, kept)
    PROVE  SessionInv'
<1>1. issued + 1 \in Token /\ issued + 1 # NoToken
  BY SessionAssumption DEF Grant, SessionInv, Token, NoToken
<1>2. Respond(r, "ok", of, issued + 1, kept)
  BY DEF Grant
<1> QED BY <1>1, <1>2, RespondInv DEF Answer, AnyToken

LEMMA RefuseInv ==
    ASSUME SessionInv, NEW r \in requests, UNCHANGED <<browser, crossed>>,
           NEW answer \in {"unauthorized", "forbidden", "failed"}, Refuse(r, answer)
    PROVE  SessionInv'
<1>1. r.of \in Person /\ (r.kind \in {"login", "signup"} => r.of # NoUser)
  BY DEF SessionInv, Request, Person, Brings
<1>2. tokens \in [Token -> Person] /\ NoToken \in AnyToken /\ answer \in Answer /\ answer # "ok"
  BY DEF SessionInv, AnyToken, Answer
<1>3. Respond(r, answer, r.of, NoToken, tokens)
  BY DEF Refuse
<1> QED BY <1>1, <1>2, <1>3, RespondInv

LEMMA ServeInv ==
    ASSUME SessionInv, NEW r \in requests, Serve(r) PROVE SessionInv'
<1>1. UNCHANGED <<browser, crossed>>
  BY DEF Serve
<1>2. r.of \in Person /\ (r.kind \in {"login", "signup"} => r.of # NoUser)
  BY DEF SessionInv, Request, Person, Brings
<1>3. tokens \in [Token -> Person] /\ Ended(r) \in [Token -> Person] /\ NoUser \in Person
      /\ \A u : Without(u) \in [Token -> Person]
  BY DEF SessionInv, Ended, Without, Person
<1>4. Owner(r) \in Person
  BY <1>3, NoTokenIsNone DEF Owner, SessionInv, Request, Person
<1>5. NoToken \in AnyToken /\ {"ok", "failed"} \subseteq Answer
  BY DEF AnyToken, Answer
<1>6. CASE ServeLogin(r)
  BY <1>1, <1>2, <1>3, <1>6, GrantInv, RefuseInv DEF ServeLogin
<1>7. CASE ServeSignup(r)
  <2>1. r.kind = "signup" /\ r.of # NoUser
    BY <1>2, <1>7 DEF ServeSignup
  <2>2. CASE Grant(r, r.of, Ended(r))
    BY <1>1, <1>2, <1>3, <2>1, <2>2, GrantInv
  <2>3. CASE Respond(r, "failed", r.of, NoToken, Ended(r))
    BY <1>1, <1>2, <1>3, <1>5, <2>1, <2>3, RespondInv
  <2> QED BY <1>7, <2>2, <2>3 DEF ServeSignup
<1>8. CASE ServeMail(r)
  <2>1. PICK answer \in {"ok", "failed"} : Respond(r, answer, NoUser, NoToken, Ended(r))
    BY <1>8 DEF ServeMail
  <2>2. r.kind \in {"resend", "forgot"}
    BY <1>8 DEF ServeMail
  <2> QED BY <1>1, <1>3, <1>5, <2>1, <2>2, RespondInv
<1>9. CASE ServeReset(r)
  <2>1. r.kind = "reset"
    BY <1>9 DEF ServeReset
  <2>2. CASE Respond(r, "ok", r.of, NoToken, Without(r.of))
    BY <1>1, <1>2, <1>3, <1>5, <2>1, <2>2, RespondInv
  <2>3. CASE Refuse(r, "failed")
    BY <1>1, <2>3, RefuseInv
  <2> QED BY <1>9, <2>2, <2>3 DEF ServeReset
<1>10. CASE ServeAuthenticated(r)
  <2>1. r.kind \in {"user", "load", "logout", "leave", "password", "delete"}
    BY <1>10 DEF ServeAuthenticated
  <2>2. CASE \E answer \in {"unauthorized", "failed"} : Refuse(r, answer)
    BY <1>1, <2>2, RefuseInv
  <2>3. ASSUME Owner(r) # NoUser, r.kind # "password",
               NEW kept \in [Token -> Person], Respond(r, "ok", Owner(r), NoToken, kept)
        PROVE  SessionInv'
    BY <1>1, <1>4, <1>5, <2>1, <2>3, RespondInv
  <2>4. CASE Owner(r) # NoUser /\ r.kind = "password" /\ Grant(r, Owner(r), Without(Owner(r)))
    BY <1>1, <1>3, <1>4, <2>4, GrantInv
  <2> QED BY <1>3, <1>10, <2>2, <2>3, <2>4 DEF ServeAuthenticated
<1> QED BY <1>6, <1>7, <1>8, <1>9, <1>10 DEF Serve

LEMMA ExpireInv ==
    ASSUME SessionInv, NEW t \in Token, Expire(t) PROVE SessionInv'
<1>1. UNCHANGED <<browser, requests, issued, crossed>>
  BY DEF Expire
<1>2. tokens' \in [Token -> Person]
  BY DEF Expire, SessionInv, Person
<1>3. (Sendable(browser) /\ browser.out = {} /\ Whole(browser))'
  BY <1>1 DEF SessionInv, Sendable, Whole
<1>4. (requests \subseteq Request /\ \A r \in requests : Brings(r))'
  BY <1>1 DEF SessionInv, Brings
<1> QED BY <1>1, <1>2, <1>3, <1>4 DEF SessionInv

-----------------------------------------------------------------------------
(* The answers.                                                            *)

(* Every answer makes the tab whole again: b is what it becomes.           *)
LEMMA AnsweredInv ==
    ASSUME SessionInv, NEW r \in requests, KeepServer, NEW b, Sendable(b), Whole(b),
           NEW rest \in SUBSET Rest(r), Becomes(b, rest), crossed' \in BOOLEAN
    PROVE  SessionInv'
<1>1. rest \in SUBSET Request /\ \A q \in rest : Brings(q)
  BY DEF SessionInv, Rest
<1>2. ServerKept
  BY DEF KeepServer, ServerKept
<1> QED BY <1>1, <1>2, BecomesInv

LEMMA LoginAnsweredInv ==
    ASSUME SessionInv, NEW r \in requests, NEW stay \in BOOLEAN, LoginAnswered(r, stay) PROVE SessionInv'
<1>1. Sendable(browser) /\ Whole(browser) /\ r \in Request /\ Brings(r) /\ crossed \in BOOLEAN
  BY DEF SessionInv
<1>2. KeepServer /\ r.kind \in {"login", "signup"} /\ Rest(r) \in SUBSET Rest(r)
  BY DEF LoginAnswered, Answered
<1>3. CASE r.answer = "ok"
  <2>1. r.of # NoUser /\ r.given # NoToken
    BY <1>1, <1>2, <1>3 DEF Brings
  <2>2. /\ NewLogin(r) \in AnyStorage /\ NewLogin(r).id # NoUser
        /\ NewLogin(r).token # NoToken
    BY <1>1, <2>1 DEF NewLogin, AnyStorage, Request, Person, AnyToken
  <2>3. /\ Sendable(SetCurrentUser(browser, NewLogin(r), stay))
        /\ Whole(SetCurrentUser(browser, NewLogin(r), stay))
    BY <1>1, <2>2, SetCurrentUserType DEF Whole
  <2>4. Becomes(SetCurrentUser(browser, NewLogin(r), stay), Rest(r)) /\ crossed' \in BOOLEAN
    BY <1>1, <1>3 DEF LoginAnswered, EndsCrossing
  <2> QED BY <1>2, <2>3, <2>4, AnsweredInv
<1>4. CASE r.answer # "ok"
  <2>1. Becomes(Intercept(browser, r), Rest(r)) /\ crossed' \in BOOLEAN
    BY <1>1, <1>4 DEF LoginAnswered
  <2> QED BY <1>1, <1>2, <2>1, InterceptType, AnsweredInv
<1> QED BY <1>3, <1>4

(* The user in the storage is replaced only if one is stored.              *)
LEMMA ReloadedType ==
    ASSUME NEW b, Sendable(b), Whole(b), NEW r \in Request, r.of # NoUser
    PROVE  Sendable(Reloaded(b, r)) /\ Whole(Reloaded(b, r))
<1> DEFINE c == [b EXCEPT !.storage.id = r.of, !.user = r.of]
<1>1. b \in AnyTab /\ r.of \in Person
  BY DEF Sendable, Request, Person
<1>2. c.storage = [b.storage EXCEPT !.id = r.of] /\ c.user = r.of /\ c.out = b.out
      /\ c.Authorization = b.Authorization /\ c.CryptoKey = b.CryptoKey
  BY <1>1 DEF AnyTab
<1>3. [b.storage EXCEPT !.id = r.of] \in AnyStorage
  BY <1>1 DEF AnyTab, AnyStorage
<1>4. c \in AnyTab
  BY <1>1, <1>3 DEF AnyTab
<1>5. c.storage.id = r.of /\ c.storage.token = b.storage.token
  BY <1>1, <1>2 DEF AnyTab, AnyStorage
<1>6. Reloaded(b, r) = IF b.storage = NoStorage THEN b ELSE c
  BY DEF Reloaded
<1> HIDE DEF c
<1>7. Sendable(c)
  BY <1>2, <1>4, Reset
<1>8. ASSUME b.storage # NoStorage PROVE Whole(c)
  <2>1. b.user # NoUser /\ b.storage.token # NoToken /\ b.Authorization # NoToken
    BY <1>8 DEF Whole, StorageWhole
  <2> QED BY <1>2, <1>5, <2>1 DEF Whole, StorageWhole
<1> QED BY <1>6, <1>7, <1>8

LEMMA UserAnsweredInv ==
    ASSUME SessionInv, NEW r \in requests, UserAnswered(r) PROVE SessionInv'
<1>1. Sendable(browser) /\ Whole(browser) /\ r \in Request /\ Brings(r) /\ crossed \in BOOLEAN
  BY DEF SessionInv
<1>2. KeepServer /\ r.kind = "user" /\ Rest(r) \in SUBSET Rest(r)
  BY DEF UserAnswered, Answered
<1>3. CASE r.answer = "ok"
  <2>1. r.of # NoUser
    BY <1>1, <1>2, <1>3 DEF Brings
  <2>2. Becomes(Reloaded(browser, r), Rest(r)) /\ crossed' \in BOOLEAN
    BY <1>1, <1>3 DEF UserAnswered, TakesOver
  <2> QED BY <1>1, <1>2, <2>1, <2>2, ReloadedType, AnsweredInv
<1>4. CASE r.answer # "ok"
  <2>1. Becomes(ResetAuthorization(Intercept(browser, r), FALSE), Rest(r))
        /\ crossed' \in BOOLEAN
    BY <1>1, <1>4 DEF UserAnswered
  <2>2. Sendable(Intercept(browser, r))
    BY <1>1, InterceptType
  <2>3. /\ Sendable(ResetAuthorization(Intercept(browser, r), FALSE))
        /\ Whole(ResetAuthorization(Intercept(browser, r), FALSE))
    BY <2>2, ResetType
  <2> QED BY <1>2, <2>1, <2>3, AnsweredInv
<1> QED BY <1>3, <1>4

LEMMA PasswordAnsweredInv ==
    ASSUME SessionInv, NEW r \in requests, PasswordAnswered(r) PROVE SessionInv'
<1> DEFINE c == [browser EXCEPT !.Authorization = r.given, !.user = r.of]
<1>1. Sendable(browser) /\ Whole(browser) /\ r \in Request /\ Brings(r) /\ crossed \in BOOLEAN
  BY DEF SessionInv
<1>2. KeepServer /\ r.kind = "password" /\ Rest(r) \in SUBSET Rest(r)
  BY DEF PasswordAnswered, Answered
<1>3. CASE r.answer = "ok"
  <2>1. r.of # NoUser /\ r.given # NoToken /\ r.of \in Person /\ r.given \in AnyToken
    BY <1>1, <1>2, <1>3 DEF Brings, Request, Person, AnyToken
  <2>2. browser \in AnyTab
    BY <1>1 DEF Sendable
  <2>3. c \in AnyTab /\ c.out = browser.out
    BY <2>1, <2>2 DEF AnyTab
  <2>4. c.user = r.of /\ c.Authorization = r.given /\ c.storage = browser.storage
    BY <2>2 DEF AnyTab
  <2>5. Becomes(c, Rest(r)) /\ crossed' \in BOOLEAN
    BY <1>1, <1>3 DEF PasswordAnswered, TakesOver
  <2> HIDE DEF c
  <2>6. Sendable(c) /\ Whole(c)
    BY <1>1, <2>1, <2>3, <2>4, Reset DEF Whole
  <2> QED BY <1>2, <2>5, <2>6, AnsweredInv
<1>4. CASE r.answer # "ok"
  <2>1. Becomes(Intercept(browser, r), Rest(r)) /\ crossed' \in BOOLEAN
    BY <1>1, <1>4 DEF PasswordAnswered
  <2> QED BY <1>1, <1>2, <2>1, InterceptType, AnsweredInv
<1> QED BY <1>3, <1>4

LEMMA LogoutAnsweredInv ==
    ASSUME SessionInv, NEW r \in requests, LogoutAnswered(r) PROVE SessionInv'
<1> DEFINE b == ResetAuthorization(Intercept(browser, r), r.kind = "logout")
           rest == {q \in Rest(r) : q.kind # "load"}
<1>1. Sendable(browser) /\ Whole(browser) /\ crossed \in BOOLEAN
  BY DEF SessionInv
<1>2. KeepServer /\ Becomes(b, rest) /\ crossed' \in BOOLEAN
  BY <1>1 DEF LogoutAnswered, Answered
<1>3. Sendable(Intercept(browser, r)) /\ (r.kind = "logout") \in BOOLEAN
  BY <1>1, InterceptType
<1>4. Sendable(b) /\ Whole(b)
  BY <1>3, ResetType
<1>5. rest \in SUBSET Rest(r)
  OBVIOUS
<1> HIDE DEF b, rest
<1> QED BY <1>2, <1>4, <1>5, AnsweredInv

LEMMA DeleteAnsweredInv ==
    ASSUME SessionInv, NEW r \in requests, DeleteAnswered(r) PROVE SessionInv'
<1>1. Sendable(browser) /\ Whole(browser) /\ crossed \in BOOLEAN
  BY DEF SessionInv
<1>2. KeepServer /\ crossed' \in BOOLEAN /\ Rest(r) \in SUBSET Rest(r)
  BY <1>1 DEF DeleteAnswered, Answered
<1>3. \/ Becomes(ResetAuthorization(browser, TRUE), Rest(r))
      \/ Becomes(Intercept(browser, r), Rest(r))
  BY DEF DeleteAnswered
<1>4. Sendable(ResetAuthorization(browser, TRUE)) /\ Whole(ResetAuthorization(browser, TRUE))
  BY <1>1, ResetType
<1>5. Sendable(Intercept(browser, r)) /\ Whole(Intercept(browser, r))
  BY <1>1, InterceptType
<1> QED BY <1>2, <1>3, <1>4, <1>5, AnsweredInv

LEMMA ResetAnsweredInv ==
    ASSUME SessionInv, NEW r \in requests, NEW stay \in BOOLEAN, ResetAnswered(r, stay) PROVE SessionInv'
<1>1. Sendable(browser) /\ Whole(browser) /\ crossed \in BOOLEAN /\ "login" \in Path
  BY DEF SessionInv, Path
<1>2. KeepServer /\ crossed' \in BOOLEAN /\ Rest(r) \in SUBSET Rest(r)
  BY <1>1 DEF ResetAnswered, Answered
<1>3. Becomes(GoTo(browser, "login", stay), Rest(r)) \/ Becomes(browser, Rest(r))
  BY DEF ResetAnswered
<1>4. Sendable(GoTo(browser, "login", stay)) /\ Whole(GoTo(browser, "login", stay))
  BY <1>1, GoToType
<1> QED BY <1>1, <1>2, <1>3, <1>4, AnsweredInv

LEMMA OtherAnsweredInv ==
    ASSUME SessionInv, NEW r \in requests, OtherAnswered(r) PROVE SessionInv'
<1>1. Sendable(browser) /\ Whole(browser) /\ crossed \in BOOLEAN
  BY DEF SessionInv
<1>2. KeepServer /\ crossed' \in BOOLEAN /\ Rest(r) \in SUBSET Rest(r)
      /\ Becomes(Intercept(browser, r), Rest(r))
  BY <1>1 DEF OtherAnswered, Answered
<1>3. Sendable(Intercept(browser, r)) /\ Whole(Intercept(browser, r))
  BY <1>1, InterceptType
<1> QED BY <1>2, <1>3, AnsweredInv

LEMMA AnswerArrivesInv ==
    ASSUME SessionInv, NEW r \in requests, AnswerArrives(r) PROVE SessionInv'
  BY LoginAnsweredInv, UserAnsweredInv, PasswordAnsweredInv, LogoutAnsweredInv,
     DeleteAnsweredInv, ResetAnsweredInv, OtherAnsweredInv DEF AnswerArrives

-----------------------------------------------------------------------------
LEMMA SessionStarts == Init => SessionInv
<1> SUFFICES ASSUME Init PROVE SessionInv
  OBVIOUS
<1>1. browser \in AnyTab /\ browser.out = {}
  BY NoStorageType DEF Init, NewTab, AnyTab, Path, Person, AnyToken
<1>2. Whole(browser)
  BY DEF Init, NewTab, Whole, StorageWhole
<1>3. tokens \in [Token -> Person]
  BY DEF Init, Person
<1>4. requests = {} /\ crossed \in BOOLEAN
  BY DEF Init
<1>5. issued \in 0..MaxToken
  BY SessionAssumption DEF Init
<1> QED BY <1>1, <1>2, <1>3, <1>4, <1>5 DEF SessionInv, Sendable

LEMMA StepInv == SessionInv /\ [Next]_vars => SessionInv'
<1> SUFFICES ASSUME SessionInv, [Next]_vars PROVE SessionInv'
  OBVIOUS
<1>1. CASE UserActs
  BY <1>1, UserActsInv
<1>2. CASE \E r \in requests : Serve(r) \/ AnswerArrives(r)
  BY <1>2, ServeInv, AnswerArrivesInv
<1>3. CASE \E t \in Token : Expire(t)
  BY <1>3, ExpireInv
<1>4. CASE UNCHANGED vars
  <2>1. UNCHANGED <<browser, requests, tokens, issued, crossed>>
    BY <1>4 DEF vars
  <2>2. (Sendable(browser) /\ browser.out = {} /\ Whole(browser))'
    BY <2>1 DEF SessionInv, Sendable, Whole
  <2>3. (requests \subseteq Request /\ \A r \in requests : Brings(r))'
    BY <2>1 DEF SessionInv, Brings
  <2> QED BY <2>1, <2>2, <2>3 DEF SessionInv
<1> QED BY <1>1, <1>2, <1>3, <1>4 DEF Next

LEMMA SessionInvariant == Spec => []SessionInv
  BY SessionStarts, StepInv, PTL DEF Spec

LEMMA InvType == SessionInv => TypeOK
<1> SUFFICES ASSUME SessionInv PROVE TypeOK
  OBVIOUS
<1>1. browser \in AnyTab /\ browser.out = {} /\ StorageWhole(browser.storage)
  BY DEF SessionInv, Sendable, Whole
<1>2. browser.storage \in Stored \cup {NoStorage}
  BY <1>1, StoredIsWhole DEF AnyTab
<1>3. browser \in [user : Person, Authorization : AnyToken, CryptoKey : Person,
                   storage : Stored \cup {NoStorage}, route : Path, out : {{}}]
  BY <1>1, <1>2 DEF AnyTab
<1> QED BY <1>3 DEF SessionInv, TypeOK, Person, AnyToken

(* The state of the tab, of the requests and of the server's tokens keeps  *)
(* its type: what is stored is a whole session or nothing (setCurrentUser, *)
(* resetAuthorization, reloadUser).                                        *)
THEOREM SessionTypesAlways == Spec => []TypeOK
  BY SessionInvariant, InvType, PTL

(* Without a user the tab keeps neither token, nor key, nor a stored       *)
(* session, in whatever order the answers of its sessions arrive; with one *)
(* it sends a token (resetAuthorization, the early return of reloadUser).  *)
THEOREM SessionWhole == Spec => []SessionIsWhole
<1>1. SessionInv => SessionIsWhole
  BY DEF SessionInv, Whole, SessionIsWhole, LoggedIn
<1> QED BY <1>1, SessionInvariant, PTL

-----------------------------------------------------------------------------
(* Whose session it is.  Until the answer of another session is taken      *)
(* over, the parts of the session agree, shown (Current) and stored        *)
(* (Kept), with the tokens that the server has issued; and an answer that  *)
(* is on its way brings its own user's token (Granted).                    *)

OneSession(s) ==
    /\ s.crypto_key = s.id
    /\ s.token \in 1..issued /\ tokens[s.token] \in {s.id, NoUser}

Current(b) ==
    /\ b.CryptoKey = b.user
    /\ b.user # NoUser =>
           b.Authorization \in 1..issued /\ tokens[b.Authorization] \in {b.user, NoUser}

Kept(b) == b.storage # NoStorage => OneSession(b.storage)

Granted(r) ==
    r.kind \in {"login", "signup", "password"} /\ r.answer = "ok" =>
        r.given \in 1..issued /\ tokens[r.given] \in {r.of, NoUser}

IdInv ==
    /\ ~crossed => Current(browser) /\ Kept(browser)
    /\ \A r \in requests : Granted(r)

(* What a tab c has in common with a tab b.                                *)
SameSession(c, b) == /\ c.user = b.user /\ c.Authorization = b.Authorization
                     /\ c.CryptoKey = b.CryptoKey

LEMMA SameSessionCurrent ==
    ASSUME NEW b, NEW c, SameSession(c, b), Current(b) PROVE Current(c)
  BY DEF SameSession, Current

LEMMA SendSame ==
    ASSUME NEW b \in AnyTab, NEW k, NEW of
    PROVE  SameSession(Send(b, k, of), b) /\ Send(b, k, of).storage = b.storage
<1> DEFINE r == [kind |-> k, of |-> of, token |-> b.Authorization,
                 answer |-> "sent", given |-> NoToken]
<1>1. Send(b, k, of) = [b EXCEPT !.out = @ \cup {r}]
  BY DEF Send
<1> HIDE DEF r
<1> QED BY <1>1 DEF AnyTab, SameSession

LEMMA NavigateSame ==
    ASSUME NEW b \in AnyTab, NEW stay
    PROVE  SameSession(NavigateToNext(b, stay), b) /\ NavigateToNext(b, stay).storage = b.storage
<1> DEFINE c == [b EXCEPT !.route = "dashboard"]
<1>1. SameSession(c, b) /\ c.storage = b.storage
  BY DEF AnyTab, SameSession
<1>2. NavigateToNext(b, stay) \in {b, c}
  BY DEF NavigateToNext
<1> QED BY <1>1, <1>2 DEF SameSession

(* Going elsewhere may drop what is stored.                                *)
LEMMA GoToSame ==
    ASSUME NEW b \in AnyTab, NEW path \in Path, NEW stay
    PROVE  /\ SameSession(GoTo(b, path, stay), b)
           /\ GoTo(b, path, stay).storage \in {b.storage, NoStorage}
<1> DEFINE there == [b EXCEPT !.route = path]
           emptied == [there EXCEPT !.storage = NoStorage]
           home == [there EXCEPT !.route = "login"]
<1>1. there \in AnyTab /\ SameSession(there, b) /\ there.storage = b.storage
  BY DEF AnyTab, SameSession
<1>2. GoTo(b, path, stay) \in {NavigateToNext(there, stay), Send(emptied, "leave", NoUser), home}
  BY DEF GoTo
<1> HIDE DEF there
<1>3. emptied \in AnyTab /\ SameSession(emptied, there) /\ emptied.storage = NoStorage
  BY <1>1, NoStorageType DEF AnyTab, SameSession
<1>4. SameSession(home, there) /\ home.storage = there.storage
  BY <1>1 DEF AnyTab, SameSession
<1> HIDE DEF emptied, home
<1>5. /\ SameSession(NavigateToNext(there, stay), there)
      /\ NavigateToNext(there, stay).storage = there.storage
  BY <1>1, NavigateSame
<1>6. /\ SameSession(Send(emptied, "leave", NoUser), emptied)
      /\ Send(emptied, "leave", NoUser).storage = NoStorage
  BY <1>3, SendSame
<1> QED BY <1>1, <1>2, <1>3, <1>4, <1>5, <1>6 DEF SameSession

(* A login makes the tab its own; it is stored, unless the page is for     *)
(* another user.                                                           *)
LEMMA SetCurrentUserCurrent ==
    ASSUME NEW b \in AnyTab, NEW login \in AnyStorage, OneSession(login), NEW stay
    PROVE  /\ Current(SetCurrentUser(b, login, stay))
           /\ SetCurrentUser(b, login, stay).storage \in {login, b.storage}
<1> DEFINE known == WithHeaders(b, login)
           kept == [known EXCEPT !.storage = login]
           read == Send(kept, "user", NoUser)
           loading == Send(read, "load", NoUser)
           leaving == Send(known, "leave", NoUser)
<1>1. /\ known \in AnyTab /\ known.user = login.id /\ known.Authorization = login.token
      /\ known.CryptoKey = login.crypto_key /\ known.storage = b.storage
  BY DEF WithHeaders, AnyTab, AnyStorage
<1>2. Current(known)
  BY <1>1 DEF Current, OneSession
<1>3. SetCurrentUser(b, login, stay) \in {NavigateToNext(loading, stay), leaving}
  BY DEF SetCurrentUser
<1> HIDE DEF known
<1>4. kept \in AnyTab /\ SameSession(kept, known) /\ kept.storage = login
  BY <1>1 DEF AnyTab, SameSession
<1> HIDE DEF kept
<1>5. SameSession(read, kept) /\ read.storage = login
  BY <1>4, SendSame
<1>6. SameSession(leaving, known) /\ leaving.storage = b.storage
  BY <1>1, SendSame
<1>7. \A k, of : \A c \in {kept} : Send(c, k, of) = [c EXCEPT !.out = Send(c, k, of).out]
  BY <1>4 DEF Send, AnyTab
<1>8. SameSession(NavigateToNext(loading, stay), read) /\ NavigateToNext(loading, stay).storage = login
  <2>1. \A x : NavigateToNext(x, stay) \in {x, [x EXCEPT !.route = "dashboard"]}
    BY DEF NavigateToNext
  <2>2. /\ loading.user = read.user /\ loading.Authorization = read.Authorization
        /\ loading.CryptoKey = read.CryptoKey /\ loading.storage = read.storage
    BY <1>4 DEF Send, AnyTab
  <2>3. /\ [loading EXCEPT !.route = "dashboard"].user = loading.user
        /\ [loading EXCEPT !.route = "dashboard"].Authorization = loading.Authorization
        /\ [loading EXCEPT !.route = "dashboard"].CryptoKey = loading.CryptoKey
        /\ [loading EXCEPT !.route = "dashboard"].storage = loading.storage
    BY <1>4 DEF Send, AnyTab
  <2> HIDE DEF loading, read
  <2> QED BY <1>5, <2>1, <2>2, <2>3 DEF SameSession
<1> HIDE DEF read, loading, leaving
<1> QED BY <1>2, <1>3, <1>4, <1>5, <1>6, <1>8 DEF SameSession, Current

LEMMA ResetCurrent ==
    ASSUME NEW b \in AnyTab, NEW redirect \in BOOLEAN
    PROVE  /\ Current(ResetAuthorization(b, redirect))
           /\ ResetAuthorization(b, redirect).storage = NoStorage
<1> DEFINE out == [b EXCEPT !.user = NoUser, !.Authorization = NoToken,
                            !.CryptoKey = NoUser, !.storage = NoStorage]
<1>1. out \in AnyTab /\ out.user = NoUser /\ out.CryptoKey = NoUser /\ out.storage = NoStorage
  BY NoStorageType DEF AnyTab, Person, AnyToken
<1>2. ResetAuthorization(b, redirect) = IF redirect THEN GoTo(out, "login", TRUE) ELSE out
  BY DEF ResetAuthorization
<1> HIDE DEF out
<1>3. Current(out)
  BY <1>1 DEF Current
<1>4. /\ SameSession(GoTo(out, "login", TRUE), out)
      /\ GoTo(out, "login", TRUE).storage = NoStorage
  BY <1>1, GoToSame DEF Path
<1> QED BY <1>1, <1>2, <1>3, <1>4, SameSessionCurrent

LEMMA InterceptCurrent ==
    ASSUME NEW b \in AnyTab, Current(b), Kept(b), NEW r
    PROVE  Current(Intercept(b, r)) /\ Kept(Intercept(b, r))
  BY ResetCurrent DEF Intercept, Kept

-----------------------------------------------------------------------------
(* The tab becomes b, and agrees unless it is crossed.                     *)

LEMMA BecomesId ==
    ASSUME IdInv, NEW b, Sendable(b), ~crossed' => Current(b) /\ Kept(b),
           NEW rest \in SUBSET requests, Becomes(b, rest), KeepServer
    PROVE  IdInv'
<1> DEFINE c == [b EXCEPT !.out = {}]
<1>1. b \in AnyTab
  BY DEF Sendable
<1>2. /\ c.user = b.user /\ c.Authorization = b.Authorization
      /\ c.CryptoKey = b.CryptoKey /\ c.storage = b.storage
  BY <1>1 DEF AnyTab
<1>3. browser' = c /\ requests' = rest \cup b.out
  BY DEF Becomes
<1> HIDE DEF c
<1>4. tokens' = tokens /\ issued' = issued
  BY DEF KeepServer
<1>5. ASSUME ~crossed' PROVE Current(browser)' /\ Kept(browser)'
  BY <1>2, <1>3, <1>4, <1>5 DEF Current, Kept, OneSession
<1>6. \A r \in b.out : r.answer = "sent"
  BY DEF Sendable
<1>7. \A r \in requests' : Granted(r)
  BY <1>3, <1>6 DEF IdInv, Granted
<1>8. \A r \in requests' : Granted(r)'
  BY <1>4, <1>7 DEF Granted
<1> QED BY <1>5, <1>8 DEF IdInv

LEMMA TabOf ==
    ASSUME SessionInv
    PROVE  Sendable(browser) /\ browser \in AnyTab /\ Whole(browser) /\ requests \in SUBSET requests
  BY DEF SessionInv, Sendable

LEMMA SubmitId ==
    ASSUME SessionInv, IdInv, NEW kind \in Kind, NEW of \in Person,
           kind \in {"login", "signup"} => of # NoUser, Submit(kind, of)
    PROVE  IdInv'
<1> DEFINE b == Send(browser, kind, of)
<1>1. Sendable(b)
  BY TabOf, SendType
<1>2. SameSession(b, browser) /\ b.storage = browser.storage
  BY TabOf, SendSame
<1>3. Becomes(b, requests) /\ KeepServer /\ crossed' = crossed
  BY DEF Submit
<1> HIDE DEF b
<1>4. ~crossed' => Current(b) /\ Kept(b)
  BY <1>2, <1>3, SameSessionCurrent DEF IdInv, Kept
<1> QED BY <1>1, <1>3, <1>4, TabOf, BecomesId

LEMMA ResetPasswordId ==
    ASSUME SessionInv, IdInv, ResetPassword PROVE IdInv'
<1> DEFINE c == [browser EXCEPT !.storage = NoStorage]
           b == Send(c, "reset", browser.route)
<1>1. c \in AnyTab /\ SameSession(c, browser) /\ c.storage = NoStorage /\ c.out = browser.out
  BY TabOf, NoStorageType DEF AnyTab, SameSession
<1>2. Becomes(b, requests) /\ KeepServer /\ crossed' = crossed /\ browser.route \in Person
  BY DEF ResetPassword, Person
<1> HIDE DEF c
<1>3. Sendable(b)
  BY <1>1, <1>2, TabOf, Reset, SendType DEF Kind
<1>4. SameSession(b, c) /\ b.storage = NoStorage
  BY <1>1, SendSame
<1> HIDE DEF b
<1>5. ~crossed' => Current(b) /\ Kept(b)
  BY <1>1, <1>2, <1>4, SameSessionCurrent DEF IdInv, Kept
<1> QED BY <1>2, <1>3, <1>5, TabOf, BecomesId

LEMMA VisitId ==
    ASSUME SessionInv, IdInv, NEW path \in Path, NEW stay \in BOOLEAN, Visit(path, stay) PROVE IdInv'
<1> DEFINE b == GoTo(browser, path, stay)
<1>1. Sendable(b)
  BY TabOf, GoToType
<1>2. SameSession(b, browser) /\ b.storage \in {browser.storage, NoStorage}
  BY TabOf, GoToSame
<1>3. Becomes(b, requests) /\ KeepServer /\ crossed' = crossed
  BY DEF Visit
<1> HIDE DEF b
<1>4. ~crossed' => Current(b) /\ Kept(b)
  BY <1>2, <1>3, SameSessionCurrent DEF IdInv, Kept
<1> QED BY <1>1, <1>3, <1>4, TabOf, BecomesId

(* What is stored is taken up by a new page.                               *)
LEMMA PageLoadId ==
    ASSUME SessionInv, IdInv, NEW path \in Path, NEW stay \in BOOLEAN, PageLoad(path, stay)
    PROVE  IdInv'
<1> DEFINE s == browser.storage
           new == NewTab(s, path)
           tab == GoTo(new, path, stay)
           b == IF tab.storage = NoStorage THEN tab ELSE SetCurrentUser(tab, tab.storage, stay)
<1>1. s \in AnyStorage /\ StorageWhole(s)
  BY DEF SessionInv, Sendable, AnyTab, Whole
<1>2. Becomes(b, {}) /\ KeepServer /\ crossed' = crossed
  BY DEF PageLoad
<1>3. ~crossed => (s # NoStorage => OneSession(s))
  BY DEF IdInv, Kept
<1> HIDE DEF s
<1>4. Sendable(tab) /\ tab.storage = s
  BY <1>1, NewTabType
<1>5. new \in AnyTab /\ new.user = NoUser /\ new.CryptoKey = NoUser
  BY <1>1 DEF NewTab, AnyTab, Person, AnyToken
<1> HIDE DEF new
<1>6. Current(tab)
  <2>1. Current(new)
    BY <1>5 DEF Current
  <2> QED BY <1>5, <2>1, GoToSame, SameSessionCurrent
<1> HIDE DEF tab
<1>7. tab \in AnyTab
  BY <1>4 DEF Sendable
<1>8. ASSUME s # NoStorage
      PROVE  Sendable(SetCurrentUser(tab, s, stay))
  BY <1>1, <1>4, <1>8, SetCurrentUserType DEF StorageWhole
<1>9. ASSUME s # NoStorage, ~crossed
      PROVE  Current(SetCurrentUser(tab, s, stay)) /\ Kept(SetCurrentUser(tab, s, stay))
  BY <1>1, <1>3, <1>4, <1>7, <1>9, SetCurrentUserCurrent DEF Kept
<1>10. Sendable(b) /\ (~crossed => Current(b) /\ Kept(b))
  BY <1>4, <1>6, <1>8, <1>9 DEF Kept
<1> HIDE DEF b
<1>11. {} \in SUBSET requests
  OBVIOUS
<1> QED BY <1>2, <1>10, <1>11, BecomesId

LEMMA UserActsId ==
    ASSUME SessionInv, IdInv, UserActs PROVE IdInv'
<1>1. ASSUME NEW u \in User, Login(u) \/ Signup(u) PROVE IdInv'
  <2>1. u \in Person /\ u # NoUser
    BY SessionAssumption DEF Person
  <2>2. Submit("login", u) \/ Submit("signup", u)
    BY <1>1 DEF Login, Signup
  <2> QED BY <2>1, <2>2, SubmitId DEF Kind
<1>2. ASSUME NEW kind \in {"forgot", "resend", "password", "delete", "logout", "load", "user"},
             Submit(kind, NoUser)
      PROVE  IdInv'
  BY <1>2, SubmitId DEF Kind, Person
<1>3. CASE ForgotPassword \/ ResendActivationLink \/ SetNewPassword \/ DeleteAccount
           \/ Logout \/ Load \/ Activated
  BY <1>2, <1>3 DEF ForgotPassword, ResendActivationLink, SetNewPassword, DeleteAccount,
                    Logout, Load, Activated
<1> QED BY <1>1, <1>3, ResetPasswordId, VisitId, PageLoadId DEF UserActs

-----------------------------------------------------------------------------
(* The server ends tokens, and issues new ones to their owners.            *)

Fades == /\ issued' \in Nat /\ issued <= issued'
         /\ \A t \in 1..issued : tokens'[t] \in {tokens[t], NoUser}

LEMMA FadesKeeps ==
    ASSUME SessionInv, IdInv, Fades, browser' = browser, crossed' = crossed
    PROVE  /\ (~crossed => Current(browser) /\ Kept(browser))'
           /\ \A r \in requests : Granted(r)'
<1>1. \A t \in 1..issued : t \in 1..issued'
  BY DEF Fades, SessionInv
<1>2. ASSUME NEW t \in 1..issued, NEW u, tokens[t] \in {u, NoUser}
      PROVE  t \in 1..issued' /\ tokens'[t] \in {u, NoUser}
  BY <1>1, <1>2 DEF Fades
<1>3. \A s : OneSession(s) => OneSession(s)'
  BY <1>2 DEF OneSession
<1>4. ~crossed => Current(browser)' /\ Kept(browser)'
  BY <1>2, <1>3 DEF IdInv, Current, Kept
<1>5. \A r \in requests : Granted(r)'
  BY <1>2 DEF IdInv, Granted
<1> QED BY <1>4, <1>5

LEMMA RespondId ==
    ASSUME SessionInv, IdInv, NEW r \in requests, UNCHANGED <<browser, crossed>>,
           NEW answer, NEW of, NEW given, NEW kept \in [Token -> Person],
           \A t \in Token : kept[t] \in {tokens[t], NoUser},
           given = NoToken \/ (given = issued + 1 /\ given \in Token),
           r.kind \in {"login", "signup", "password"} /\ answer = "ok" => given # NoToken,
           Respond(r, answer, of, given, kept)
    PROVE  IdInv'
<1> DEFINE q == [r EXCEPT !.answer = answer, !.of = of, !.given = given]
<1>1. r \in Request /\ issued \in 0..MaxToken
  BY DEF SessionInv
<1>2. q.kind = r.kind /\ q.answer = answer /\ q.of = of /\ q.given = given
  BY <1>1 DEF Request
<1>3. requests' = (requests \ {r}) \cup {q}
  BY DEF Respond
<1> HIDE DEF q
<1>4. Fades /\ (given # NoToken => given \in 1..issued' /\ tokens'[given] = of)
  <2>1. CASE given = NoToken
    <3>1. tokens' = kept /\ issued' = issued
      BY <2>1 DEF Respond
    <3>2. \A t \in 1..issued : t \in Token
      BY <1>1, SessionAssumption DEF Token
    <3> QED BY <1>1, <2>1, <3>1, <3>2 DEF Fades
  <2>2. CASE given # NoToken
    <3>1. tokens' = [kept EXCEPT ![given] = of] /\ issued' = given
      BY <2>2 DEF Respond
    <3>2. given = issued + 1 /\ given \in Token
      BY <2>2
    <3>3. \A t \in 1..issued : t \in Token /\ t # given
      BY <1>1, <3>2, SessionAssumption DEF Token
    <3>4. \A t \in 1..issued : tokens'[t] = kept[t]
      BY <3>1, <3>3
    <3>5. issued' \in Nat /\ issued <= issued' /\ given \in 1..issued'
      BY <1>1, <3>1, <3>2
    <3>6. tokens'[given] = of
      BY <3>1, <3>2
    <3> QED BY <3>3, <3>4, <3>5, <3>6 DEF Fades
  <2> QED BY <2>1, <2>2
<1>5. /\ (~crossed => Current(browser) /\ Kept(browser))'
      /\ \A p \in requests : Granted(p)'
  BY <1>4, FadesKeeps
<1>6. Granted(q)'
  BY <1>2, <1>4 DEF Granted
<1> QED BY <1>3, <1>5, <1>6 DEF IdInv

LEMMA ServeId ==
    ASSUME SessionInv, IdInv, NEW r \in requests, Serve(r) PROVE IdInv'
<1> DEFINE Dims(kept) == kept \in [Token -> Person] /\ \A t \in Token : kept[t] \in {tokens[t], NoUser}
<1>1. UNCHANGED <<browser, crossed>> /\ tokens \in [Token -> Person]
  BY DEF Serve, SessionInv
<1>2. Dims(tokens) /\ Dims(Ended(r)) /\ \A u : Dims(Without(u))
  BY <1>1 DEF Ended, Without, Person
<1>3. ASSUME NEW of, NEW kept, Dims(kept), Grant(r, of, kept) PROVE IdInv'
  <2>1. issued + 1 \in Token /\ issued + 1 # NoToken
    BY <1>3, SessionAssumption DEF Grant, SessionInv, Token, NoToken
  <2>2. Respond(r, "ok", of, issued + 1, kept)
    BY <1>3 DEF Grant
  <2> QED BY <1>1, <1>3, <2>1, <2>2, RespondId
<1>4. ASSUME NEW answer, NEW of, NEW kept, Dims(kept), Respond(r, answer, of, NoToken, kept),
             answer = "ok" => r.kind \notin {"login", "signup", "password"}
      PROVE  IdInv'
  BY <1>1, <1>4, RespondId
<1>5. ASSUME NEW answer \in {"unauthorized", "forbidden", "failed"}, Refuse(r, answer) PROVE IdInv'
  BY <1>2, <1>4, <1>5 DEF Refuse
<1> HIDE DEF Dims
<1>6. CASE ServeLogin(r)
  BY <1>2, <1>3, <1>5, <1>6 DEF ServeLogin
<1>7. CASE ServeSignup(r)
  BY <1>2, <1>3, <1>4, <1>7 DEF ServeSignup
<1>8. CASE ServeMail(r)
  BY <1>2, <1>4, <1>8 DEF ServeMail
<1>9. CASE ServeReset(r)
  BY <1>2, <1>4, <1>5, <1>9 DEF ServeReset
<1>10. CASE ServeAuthenticated(r)
  <2>1. CASE \E answer \in {"unauthorized", "failed"} : Refuse(r, answer)
    BY <1>5, <2>1
  <2>2. CASE r.kind = "password" /\ Grant(r, Owner(r), Without(Owner(r)))
    BY <1>2, <1>3, <2>2
  <2>3. ASSUME NEW kept, Dims(kept), Respond(r, "ok", Owner(r), NoToken, kept),
               r.kind \in {"user", "load", "logout", "leave", "delete"}
        PROVE  IdInv'
    BY <1>4, <2>3
  <2> QED BY <1>2, <1>10, <2>1, <2>2, <2>3 DEF ServeAuthenticated
<1> QED BY <1>6, <1>7, <1>8, <1>9, <1>10 DEF Serve

LEMMA ExpireId ==
    ASSUME SessionInv, IdInv, NEW t \in Token, Expire(t) PROVE IdInv'
<1>1. UNCHANGED <<browser, requests, issued, crossed>> /\ tokens' = [tokens EXCEPT ![t] = NoUser]
  BY DEF Expire
<1>2. tokens \in [Token -> Person] /\ issued \in 0..MaxToken
  BY DEF SessionInv
<1>3. \A s \in 1..issued : s \in Token
  BY <1>2, SessionAssumption DEF Token
<1>4. Fades
  BY <1>1, <1>2, <1>3 DEF Fades
<1>5. /\ (~crossed => Current(browser) /\ Kept(browser))'
      /\ \A r \in requests : Granted(r)'
  BY <1>1, <1>4, FadesKeeps
<1> QED BY <1>1, <1>5 DEF IdInv

-----------------------------------------------------------------------------
(* The answers.                                                            *)

LEMMA InterceptId ==
    ASSUME SessionInv, IdInv, NEW r \in requests, Becomes(Intercept(browser, r), Rest(r)),
           KeepServer, crossed' = crossed
    PROVE  IdInv'
<1>1. Sendable(Intercept(browser, r))
  BY TabOf, InterceptType
<1>2. ~crossed' => Current(Intercept(browser, r)) /\ Kept(Intercept(browser, r))
  BY TabOf, InterceptCurrent DEF IdInv
<1> QED BY <1>1, <1>2, BecomesId DEF Rest

(* An answer that ends the session of the tab.                             *)
LEMMA ResetId ==
    ASSUME SessionInv, IdInv, NEW b, Sendable(b), NEW redirect \in BOOLEAN,
           NEW rest \in SUBSET requests, Becomes(ResetAuthorization(b, redirect), rest), KeepServer
    PROVE  IdInv'
<1>1. Sendable(ResetAuthorization(b, redirect))
  BY ResetType
<1>2. /\ Current(ResetAuthorization(b, redirect))
      /\ Kept(ResetAuthorization(b, redirect))
  BY ResetCurrent DEF Sendable, Kept
<1> QED BY <1>1, <1>2, BecomesId

LEMMA LoginAnsweredId ==
    ASSUME SessionInv, IdInv, NEW r \in requests, NEW stay \in BOOLEAN, LoginAnswered(r, stay)
    PROVE  IdInv'
<1>1. r \in Request /\ Brings(r) /\ Granted(r)
  BY DEF SessionInv, IdInv
<1>2. KeepServer /\ r.kind \in {"login", "signup"}
  BY DEF LoginAnswered, Answered
<1>3. CASE r.answer = "ok"
  <2> DEFINE login == NewLogin(r)
             b == SetCurrentUser(browser, login, stay)
  <2>1. r.of # NoUser /\ r.given # NoToken
    BY <1>1, <1>2, <1>3 DEF Brings
  <2>2. /\ login \in AnyStorage /\ login.id = r.of /\ login.token = r.given
        /\ login.crypto_key = r.of
    BY <1>1 DEF NewLogin, AnyStorage, Request, Person, AnyToken
  <2>3. Becomes(b, Rest(r)) /\ crossed' = (crossed /\ browser'.storage # login)
    BY <1>3 DEF LoginAnswered, EndsCrossing
  <2> HIDE DEF login
  <2>4. OneSession(login)
    BY <1>1, <1>2, <1>3, <2>2 DEF Granted, OneSession
  <2>5. Sendable(b)
    BY <2>1, <2>2, TabOf, SetCurrentUserType DEF Whole
  <2>6. Current(b) /\ b.storage \in {login, browser.storage}
    BY <2>2, <2>4, TabOf, SetCurrentUserCurrent
  <2> HIDE DEF b
  <2>7. browser'.storage = b.storage
    BY <2>3, <2>5 DEF Becomes, Sendable, AnyTab
  <2>8. ~crossed' => Kept(b)
    BY <2>3, <2>4, <2>6, <2>7 DEF IdInv, Kept
  <2> QED BY <1>2, <2>3, <2>5, <2>6, <2>8, BecomesId DEF Rest
<1>4. CASE r.answer # "ok"
  BY <1>2, <1>4, InterceptId DEF LoginAnswered
<1> QED BY <1>3, <1>4

LEMMA UserAnsweredId ==
    ASSUME SessionInv, IdInv, NEW r \in requests, UserAnswered(r) PROVE IdInv'
<1>1. r \in Request /\ Brings(r)
  BY DEF SessionInv
<1>2. KeepServer /\ r.kind = "user"
  BY DEF UserAnswered, Answered
<1>3. CASE r.answer = "ok"
  <2> DEFINE b == Reloaded(browser, r)
             c == [browser EXCEPT !.storage.id = r.of, !.user = r.of]
  <2>1. Becomes(b, Rest(r)) /\ TakesOver(r)
    BY <1>3 DEF UserAnswered
  <2>2. Sendable(b)
    BY <1>1, <1>2, <1>3, TabOf, ReloadedType DEF Brings
  <2>3. ASSUME ~crossed' PROVE Current(b) /\ Kept(b)
    <3>1. /\ ~crossed /\ r.of = browser.user /\ browser.storage.id \in {r.of, NoUser}
      BY <2>1, <2>3 DEF TakesOver, IdInv
    <3>2. Current(browser) /\ Kept(browser)
      BY <3>1 DEF IdInv
    <3>3. CASE browser.storage = NoStorage
      BY <3>2, <3>3 DEF Reloaded
    <3>4. CASE browser.storage # NoStorage
      <4>1. /\ c.storage = [browser.storage EXCEPT !.id = r.of] /\ c.user = r.of
            /\ c.Authorization = browser.Authorization /\ c.CryptoKey = browser.CryptoKey
        BY TabOf DEF AnyTab
      <4>2. browser.storage.id = r.of
        BY <3>1, <3>4, TabOf DEF Whole, StorageWhole
      <4>3. [browser.storage EXCEPT !.id = r.of] = browser.storage
        BY <4>2, TabOf DEF AnyTab, AnyStorage
      <4>4. b = c
        BY <3>4 DEF Reloaded
      <4> HIDE DEF b, c
      <4> QED BY <3>1, <3>2, <4>1, <4>3, <4>4 DEF Current, Kept
    <3> QED BY <3>3, <3>4
  <2> HIDE DEF b
  <2> QED BY <1>2, <2>1, <2>2, <2>3, BecomesId DEF Rest
<1>4. CASE r.answer # "ok"
  <2>1. Becomes(ResetAuthorization(Intercept(browser, r), FALSE), Rest(r))
    BY <1>4 DEF UserAnswered
  <2>2. Sendable(Intercept(browser, r))
    BY TabOf, InterceptType
  <2> QED BY <1>2, <2>1, <2>2, ResetId DEF Rest
<1> QED BY <1>3, <1>4

LEMMA PasswordAnsweredId ==
    ASSUME SessionInv, IdInv, NEW r \in requests, PasswordAnswered(r) PROVE IdInv'
<1>1. r \in Request /\ Brings(r) /\ Granted(r)
  BY DEF SessionInv, IdInv
<1>2. KeepServer /\ r.kind = "password"
  BY DEF PasswordAnswered, Answered
<1>3. CASE r.answer = "ok"
  <2> DEFINE c == [browser EXCEPT !.Authorization = r.given, !.user = r.of]
  <2>1. Becomes(c, Rest(r)) /\ TakesOver(r)
    BY <1>3 DEF PasswordAnswered
  <2>2. c \in AnyTab /\ c.out = browser.out
    BY <1>1, TabOf DEF AnyTab, Request, Person, AnyToken
  <2>3. /\ c.user = r.of /\ c.Authorization = r.given /\ c.CryptoKey = browser.CryptoKey
        /\ c.storage = browser.storage
    BY TabOf DEF AnyTab
  <2> HIDE DEF c
  <2>4. Sendable(c)
    BY <2>2, TabOf, Reset
  <2>5. ASSUME ~crossed' PROVE Current(c) /\ Kept(c)
    <3>1. ~crossed /\ r.of = browser.user
      BY <2>1, <2>5 DEF TakesOver, IdInv
    <3>2. r.given \in 1..issued /\ tokens[r.given] \in {r.of, NoUser}
      BY <1>1, <1>2, <1>3 DEF Granted
    <3> QED BY <2>3, <3>1, <3>2 DEF IdInv, Current, Kept
  <2> QED BY <1>2, <2>1, <2>4, <2>5, BecomesId DEF Rest
<1>4. CASE r.answer # "ok"
  BY <1>2, <1>4, InterceptId DEF PasswordAnswered
<1> QED BY <1>3, <1>4

LEMMA LogoutAnsweredId ==
    ASSUME SessionInv, IdInv, NEW r \in requests, LogoutAnswered(r) PROVE IdInv'
<1> DEFINE rest == {q \in Rest(r) : q.kind # "load"}
<1>1. /\ Becomes(ResetAuthorization(Intercept(browser, r), r.kind = "logout"), rest)
      /\ KeepServer
  BY DEF LogoutAnswered, Answered
<1>2. Sendable(Intercept(browser, r)) /\ (r.kind = "logout") \in BOOLEAN
  BY TabOf, InterceptType
<1>3. rest \in SUBSET requests
  BY DEF Rest
<1> HIDE DEF rest
<1> QED BY <1>1, <1>2, <1>3, ResetId

LEMMA OthersAnsweredId ==
    ASSUME SessionInv, IdInv, NEW r \in requests, NEW stay \in BOOLEAN,
           DeleteAnswered(r) \/ ResetAnswered(r, stay) \/ OtherAnswered(r)
    PROVE  IdInv'
<1>1. KeepServer /\ crossed' = crossed /\ Rest(r) \in SUBSET requests
  BY DEF DeleteAnswered, ResetAnswered, OtherAnswered, Answered, Rest
<1>2. CASE Becomes(Intercept(browser, r), Rest(r))
  BY <1>1, <1>2, InterceptId
<1>3. CASE Becomes(ResetAuthorization(browser, TRUE), Rest(r))
  BY <1>1, <1>3, TabOf, ResetId
<1>4. CASE Becomes(browser, Rest(r))
  BY <1>1, <1>4, TabOf, BecomesId DEF IdInv
<1>5. CASE Becomes(GoTo(browser, "login", stay), Rest(r))
  <2> DEFINE b == GoTo(browser, "login", stay)
  <2>1. "login" \in Path
    BY DEF Path
  <2>2. Sendable(b) /\ SameSession(b, browser) /\ b.storage \in {browser.storage, NoStorage}
    BY <2>1, TabOf, GoToType, GoToSame
  <2>3. Becomes(b, Rest(r))
    BY <1>5
  <2> HIDE DEF b
  <2>4. ~crossed' => Current(b) /\ Kept(b)
    BY <1>1, <2>2, SameSessionCurrent DEF IdInv, Kept
  <2> QED BY <1>1, <2>2, <2>3, <2>4, BecomesId
<1> QED BY <1>2, <1>3, <1>4, <1>5 DEF DeleteAnswered, ResetAnswered, OtherAnswered

LEMMA StepId == SessionInv /\ IdInv /\ [Next]_vars => IdInv'
<1> SUFFICES ASSUME SessionInv, IdInv, [Next]_vars PROVE IdInv'
  OBVIOUS
<1>1. CASE UserActs
  BY <1>1, UserActsId
<1>2. ASSUME NEW r \in requests, Serve(r) \/ AnswerArrives(r) PROVE IdInv'
  BY <1>2, ServeId, LoginAnsweredId, UserAnsweredId, PasswordAnsweredId, LogoutAnsweredId,
     OthersAnsweredId DEF AnswerArrives
<1>3. CASE \E t \in Token : Expire(t)
  BY <1>3, ExpireId
<1>4. CASE UNCHANGED vars
  <2>1. UNCHANGED <<browser, requests, tokens, issued, crossed>>
    BY <1>4 DEF vars
  <2>2. Fades
    BY <2>1 DEF Fades, SessionInv
  <2>3. /\ (~crossed => Current(browser) /\ Kept(browser))'
        /\ \A r \in requests : Granted(r)'
    BY <2>1, <2>2, FadesKeeps
  <2> QED BY <2>1, <2>3 DEF IdInv
<1> QED BY <1>1, <1>2, <1>3, <1>4 DEF Next

LEMMA InitId == Init => IdInv
  BY DEF Init, NewTab, IdInv, Current, Kept

(* The user shown, the token and the key that requests carry belong to one *)
(* person, and so do the parts of the stored session, however requests     *)
(* overtake each other, until the answer of another session is taken over  *)
(* (setCurrentUser, reloadUser, updatePassword of the session store).      *)
THEOREM IdentityAgreesAlways == Spec => []IdentityAgrees
<1>1. SessionInv /\ IdInv => IdentityAgrees
  BY DEF IdInv, IdentityAgrees, LoggedIn, Current, Kept, OneSession
<1>2. Init => SessionInv /\ IdInv
  BY SessionStarts, InitId
<1>3. SessionInv /\ IdInv /\ [Next]_vars => (SessionInv /\ IdInv)'
  BY StepInv, StepId
<1> QED BY <1>1, <1>2, <1>3, PTL DEF Spec

-----------------------------------------------------------------------------
(* Previews and the filter of the log                                      *)

PreviewsInv ==
    /\ previewQueries \in [Scope -> Entry \cup {NoEntry}]
    /\ previewSelectedQueries \in [Scope -> Entry \cup {NoEntry}]
    /\ hoverTimeout \in Scope \cup {NoScope}
    /\ pointer = Hover!Away \/ pointer \in [on : {"label", "preview"}, scope : Scope, entry : Entry]
    /\ filter \in [server : Scope \cup {NoScope}, name : Scope \cup {NoScope}]
    /\ outlived \subseteq Scope
    /\ Hover!PreviewWatched
    /\ Hover!FilterIsWhole

LEMMA PreviewsInit == TabInit => PreviewsInv
<1>1. TabInit => Hover!PreviewInit
    BY DEF TabInit
<1>2. Hover!PreviewInit => PreviewsInv
    BY DEF Hover!PreviewInit, PreviewsInv, Hover!PreviewWatched, Hover!FilterIsWhole,
           Hover!NoPreviews, Hover!NoFilter, Hover!Away
<1>3. QED BY <1>1, <1>2

LEMMA PreviewsStep ==
    ASSUME PreviewsInv, Hover!PreviewNext
    PROVE  PreviewsInv'
<1> USE DEF PreviewsInv, Hover!PreviewWatched, Hover!FilterIsWhole, Hover!TimerFor, Hover!At, Hover!Away
<1>0. NoScope \notin Scope /\ NoEntry \notin Entry
    BY TabAssumption DEF Hover!PreviewsAssumption
<1>1. ASSUME NEW s \in Scope, NEW e \in Entry, Hover!HoverLabel(s, e) PROVE PreviewsInv'
    BY <1>0, <1>1 DEF Hover!HoverLabel, Hover!SetPreviewQuery
<1>2. ASSUME NEW s \in Scope, Hover!HoverPreview(s) PROVE PreviewsInv'
    BY <1>0, <1>2 DEF Hover!HoverPreview, Hover!ActiveQuery
<1>3. ASSUME Hover!Leave PROVE PreviewsInv'
    BY <1>0, <1>3 DEF Hover!Leave, Hover!Unset
<1>4. ASSUME Hover!ToggleSelectedQuery PROVE PreviewsInv'
    BY <1>0, <1>4 DEF Hover!ToggleSelectedQuery
<1>5. ASSUME Hover!HoverTimeout PROVE PreviewsInv'
    BY <1>0, <1>5 DEF Hover!HoverTimeout
<1>6. ASSUME NEW s \in Scope \cup {NoScope}, Hover!SetDbServerId(s) \/ Hover!SetDbName(s) PROVE PreviewsInv'
    BY <1>0, <1>6 DEF Hover!SetDbServerId, Hover!SetDbName
<1>7. ASSUME Hover!PreviewCleanup PROVE PreviewsInv'
    BY <1>0, <1>7 DEF Hover!PreviewCleanup, Hover!NoPreviews, Hover!NoFilter
<1>8. QED BY <1>1, <1>2, <1>3, <1>4, <1>5, <1>6, <1>7 DEF Hover!PreviewNext

-----------------------------------------------------------------------------
(* The icons of copies                                                     *)

\* The icon shows the last copy, if its timer is still to come.
CopyInv ==
    /\ copyState \in Copy!CopyState
    /\ copyTimers \in Seq(Copy!CopyState \ {"ready"})
    /\ Len(copyTimers) <= MaxCopyTimers
    /\ copyState # "ready" => copyTimers # <<>> /\ copyTimers[Len(copyTimers)] = copyState

LEMMA CopyStep ==
    ASSUME CopyInv, Copy!CopyNext
    PROVE  CopyInv'
<1> DEFINE T == Copy!CopyState \ {"ready"}
<1>0. /\ MaxCopyTimers \in Nat /\ copyTimers \in Seq(T)
      /\ Len(copyTimers) \in Nat /\ Len(copyTimers) <= MaxCopyTimers
      /\ copyTimers # <<>> <=> Len(copyTimers) > 0
      /\ "ready" \in Copy!CopyState
    BY TabAssumption DEF Copy!CopyButtonsAssumption, CopyInv, Copy!CopyState
<1>1. ASSUME Copy!CopyTimeout PROVE CopyInv'
    <2> HIDE DEF T
    <2>1. /\ copyTimers # <<>> /\ copyTimers' = Tail(copyTimers)
          /\ copyState' \in {"ready", copyState}
          /\ copyState = Head(copyTimers) => copyState' = "ready"
        BY <1>1 DEF Copy!CopyTimeout, Copy!TakesBack
    <2>2. /\ Tail(copyTimers) \in Seq(T) /\ Len(Tail(copyTimers)) = Len(copyTimers) - 1
          /\ \A i \in 1..(Len(copyTimers) - 1) : Tail(copyTimers)[i] = copyTimers[i + 1]
        BY <1>0, <2>1
    <2>3. Len(copyTimers) = 1 => copyState' = "ready"
        BY <1>0, <2>1 DEF CopyInv
    <2>4. /\ copyState' \in Copy!CopyState
          /\ copyTimers' \in Seq(T) /\ Len(copyTimers') <= MaxCopyTimers
        BY <1>0, <2>1, <2>2 DEF CopyInv
    <2>5. ASSUME copyState' # "ready"
          PROVE  copyTimers' # <<>> /\ copyTimers'[Len(copyTimers')] = copyState'
        <3>1. /\ copyState = copyState' /\ copyTimers[Len(copyTimers)] = copyState
              /\ Len(copyTimers) > 1
            BY <2>1, <2>3, <2>5, <1>0 DEF CopyInv
        <3>2. Len(copyTimers) - 1 \in 1..(Len(copyTimers) - 1)
            BY <3>1, <1>0
        <3>3. copyTimers'[Len(copyTimers) - 1] = copyState /\ Len(copyTimers') = Len(copyTimers) - 1
            BY <3>1, <3>2, <2>1, <2>2, <1>0
        <3>4. copyTimers' # <<>>
            BY <3>1, <3>3, <1>0
        <3>5. QED BY <3>1, <3>3, <3>4
    <2>6. QED BY <2>4, <2>5 DEF CopyInv, T
<1>2. ASSUME NEW outcome \in T, Copy!OnCopy(outcome) PROVE CopyInv'
    <2>1. /\ Len(copyTimers) < MaxCopyTimers
          /\ copyTimers' = Append(copyTimers, outcome) /\ copyState' = outcome
          /\ outcome \in Copy!CopyState
        BY <1>2 DEF Copy!OnCopy
    <2> HIDE DEF T
    <2>2. /\ Append(copyTimers, outcome) \in Seq(T)
          /\ Len(Append(copyTimers, outcome)) = Len(copyTimers) + 1
          /\ Append(copyTimers, outcome)[Len(copyTimers) + 1] = outcome
        BY <1>0
    <2>3. Append(copyTimers, outcome) # <<>>
        BY <2>2, <1>0
    <2>4. QED BY <2>1, <2>2, <2>3, <1>0 DEF CopyInv, T
<1>3. QED BY <1>1, <1>2 DEF Copy!CopyNext

LEMMA CopyKept == CopyInv => Copy!CopyWatched
<1> SUFFICES ASSUME CopyInv, copyState # "ready" PROVE
        copyTimers # <<>> /\ \E i \in 1..Len(copyTimers) : copyTimers[i] = copyState
    BY DEF Copy!CopyWatched
<1>1. copyTimers # <<>> /\ copyTimers[Len(copyTimers)] = copyState
    BY DEF CopyInv
<1>2. Len(copyTimers) \in 1..Len(copyTimers)
    BY <1>1 DEF CopyInv
<1>3. QED BY <1>1, <1>2

-----------------------------------------------------------------------------
(* The form of a server                                                    *)

FormTyped ==
    /\ typed \in Form!Typed /\ tested \in Form!Typed /\ databases \in Form!Typed
    /\ initDb \in Catalog \cup {NoCatalog}
    /\ testConnection \in {"idle", "waiting", "called"}
    /\ testState \in Form!REST /\ dbRequestState \in Form!REST /\ tableRequestState \in Form!REST
    /\ validConnection \in {"yes", "no", "unknown"}
    /\ tables \in Form!Tables /\ tablesLoaded \in {"yes", "no", "unknown"}
    /\ formRequests \subseteq Form!FormRequest
    /\ passwordPending \in BOOLEAN
    /\ formCrossed \subseteq Form!FormKind

\* No second request is under way of a kind of which none has crossed another.
OneOfAKind == \A r, q \in formRequests : r.kind = q.kind /\ r.kind \notin formCrossed => r = q

\* The last thing that was typed has been sent to be tested, if it is enough for a connection.
Settled == testConnection # "called" /\ typed # Incomplete

\* What is under way tells of what is shown.
StatesFit ==
    /\ "test" \notin formCrossed =>
           \A r \in formRequests : r.kind = "test" => validConnection = "unknown"
    /\ "databases" \notin formCrossed =>
           \A r \in formRequests : r.kind = "databases" => dbRequestState = "requested"

TestCurrent ==
    "test" \notin formCrossed /\ Settled =>
        /\ \A r \in formRequests : r.kind = "test" => r.connection = typed
        /\ (\A r \in formRequests : r.kind # "test") => tested = typed

ListCurrent ==
    /\ "test" \notin formCrossed /\ "databases" \notin formCrossed
    /\ Settled /\ validConnection = "yes"
    => /\ \A r \in formRequests : r.kind = "databases" => r.connection = typed
       /\ (\A r \in formRequests : r.kind # "databases") /\ dbRequestState = "success" =>
              databases = typed

TablesCurrent ==
    formCrossed = {} /\ Settled /\ validConnection = "yes" /\ dbRequestState = "success" =>
        /\ \A r \in formRequests : r.kind = "tables" => r.connection = typed /\ r.db = initDb
        /\ \/ \E r \in formRequests : r.kind = "tables"
           \/ /\ tableRequestState = "success" /\ initDb \in Form!Listed(typed) =>
                     tables = [connection |-> typed, db |-> initDb]
              /\ tablesLoaded = "yes" => tables = [connection |-> typed, db |-> initDb]

FormInv == FormTyped /\ OneOfAKind /\ StatesFit /\ TestCurrent /\ ListCurrent /\ TablesCurrent

LEMMA FormKept == FormInv => Form!FormIsCurrent
BY DEF FormInv, Form!FormIsCurrent, TestCurrent, ListCurrent, TablesCurrent, Settled, FormTyped

\* What the requests are after one more was sent, besides those of R.
Sends(R, kind, db) ==
    /\ formRequests' \subseteq Form!FormRequest
    /\ formCrossed' \subseteq Form!FormKind /\ formCrossed \subseteq formCrossed'
    /\ OneOfAKind'
    /\ \A r \in formRequests' : r.kind # kind => r \in R
    /\ R \subseteq formRequests'
    /\ formCrossed' \subseteq formCrossed \cup {kind}
    /\ kind \notin formCrossed' => \A r \in formRequests' : r.kind = kind =>
                                      r.connection = typed' /\ r.db = db
    /\ \E r \in formRequests' : r.kind = kind

LEMMA AskedFor ==
    ASSUME FormTyped, OneOfAKind, typed' \in Form!Typed,
           NEW R, R \subseteq formRequests,
           NEW kind \in Form!FormKind, NEW db \in Catalog \cup {NoCatalog},
           Form!Asks(R, kind, db)
    PROVE  Sends(R, kind, db)
<1> DEFINE new == [kind |-> kind, connection |-> typed', db |-> db]
<1>1. /\ formRequests' = R \cup {new}
      /\ formCrossed' = IF {r \in R : r.kind = kind} = {} THEN formCrossed ELSE formCrossed \cup {kind}
    BY DEF Form!Asks, Form!Request, Form!Requests
<1>2. new \in Form!FormRequest /\ new.kind = kind /\ new.connection = typed' /\ new.db = db
    BY DEF Form!FormRequest
<1>3. kind \notin formCrossed' => \A r \in R : r.kind # kind
    BY <1>1
<1> HIDE DEF new
<1>4. \A r \in formRequests' : r \in R \/ r = new
    BY <1>1
<1>5. formCrossed \subseteq formCrossed'
    BY <1>1
<1>6. OneOfAKind'
    <2> SUFFICES ASSUME NEW r \in formRequests', NEW q \in formRequests',
                        r.kind = q.kind, r.kind \notin formCrossed'
                 PROVE  r = q
        BY DEF OneOfAKind
    <2>1. CASE r.kind = kind
        BY <2>1, <1>3, <1>4
    <2>2. CASE r.kind # kind
        BY <2>2, <1>2, <1>4, <1>5 DEF OneOfAKind
    <2>3. QED BY <2>1, <2>2
<1>7. QED BY <1>1, <1>2, <1>3, <1>4, <1>5, <1>6 DEF FormTyped, Sends

\* And after none was.
LEMMA AskedNothing ==
    ASSUME FormTyped, OneOfAKind, NEW R, R \subseteq formRequests, Form!Asking(R)
    PROVE  /\ formRequests' = R /\ formCrossed' = formCrossed
           /\ formRequests' \subseteq Form!FormRequest /\ formCrossed' \subseteq Form!FormKind
           /\ OneOfAKind'
BY DEF Form!Asking, FormTyped, OneOfAKind

\* The connection that is typed in is tested at once.
LEMMA AfterTest ==
    ASSUME FormInv, typed' \in Form!Typed, passwordPending' \in BOOLEAN,
           testConnection' \in {"idle", "waiting", "called"},
           UNCHANGED <<initDb, tested, dbRequestState, databases, tableRequestState, tables, tablesLoaded>>,
           Form!Test
    PROVE  FormInv'
<1>1. CASE typed' = Incomplete
    <2>1. Form!Asking(formRequests) /\ UNCHANGED <<testState, validConnection>>
        BY <1>1 DEF Form!Test
    <2>2. FormTyped' /\ OneOfAKind' /\ formRequests' = formRequests /\ formCrossed' = formCrossed
        BY <2>1, AskedNothing DEF FormInv, FormTyped
    <2>3. ~Settled'
        BY <1>1 DEF Settled
    <2>4. StatesFit'
        BY <2>1, <2>2 DEF FormInv, StatesFit
    <2>5. QED BY <2>2, <2>3, <2>4 DEF FormInv, TestCurrent, ListCurrent, TablesCurrent
<1>2. CASE typed' # Incomplete
    <2>1. /\ testState' = "requested" /\ validConnection' = "unknown"
          /\ Form!Asks(formRequests, "test", NoCatalog)
        BY <1>2 DEF Form!Test
    <2>2. Sends(formRequests, "test", NoCatalog)
        <3>1. "test" \in Form!FormKind /\ NoCatalog \in Catalog \cup {NoCatalog}
              /\ formRequests \subseteq formRequests
            BY DEF Form!FormKind
        <3>2. FormTyped /\ OneOfAKind
            BY DEF FormInv
        <3>3. QED BY <2>1, <3>1, <3>2, AskedFor
    <2>3. FormTyped'
        BY <2>1, <2>2 DEF Sends, FormInv, FormTyped, Form!REST
    <2>4. StatesFit'
        BY <2>1, <2>2 DEF Sends, FormInv, StatesFit
    <2>5. TestCurrent' /\ ListCurrent' /\ TablesCurrent'
        BY <2>1, <2>2 DEF Sends, TestCurrent, ListCurrent, TablesCurrent
    <2>6. QED BY <2>2, <2>3, <2>4, <2>5 DEF Sends, FormInv
<1>3. QED BY <1>1, <1>2

\* It is tested when the timer ends, or it is what was tested.
LEMMA AfterNoTest ==
    ASSUME FormInv, typed' \in Form!Typed, passwordPending' \in BOOLEAN,
           testConnection' \in {"idle", "waiting", "called"},
           UNCHANGED <<initDb, tested, dbRequestState, databases, tableRequestState, tables, tablesLoaded>>,
           Form!Asking(formRequests), UNCHANGED <<testState, validConnection>>,
           testConnection' = "called" \/ (typed' = typed /\ testConnection # "called")
    PROVE  FormInv'
<1>1. FormTyped' /\ OneOfAKind' /\ formRequests' = formRequests /\ formCrossed' = formCrossed
    BY AskedNothing DEF FormInv, FormTyped
<1>2. StatesFit'
    BY <1>1 DEF FormInv, StatesFit
<1>3. TestCurrent'
    BY <1>1 DEF FormInv, TestCurrent, Settled
<1>4. ListCurrent' /\ TablesCurrent'
    BY <1>1 DEF FormInv, ListCurrent, TablesCurrent, Settled
<1>5. QED BY <1>1, <1>2, <1>3, <1>4 DEF FormInv

LEMMA AfterCall ==
    ASSUME FormInv, typed' \in Form!Typed, passwordPending' \in BOOLEAN,
           UNCHANGED <<initDb, tested, dbRequestState, databases, tableRequestState, tables, tablesLoaded>>,
           Form!CallTest
    PROVE  FormInv'
<1>1. CASE testConnection = "idle"
    BY <1>1, AfterTest DEF Form!CallTest, Form!Called
<1>2. CASE testConnection # "idle"
    BY <1>2, AfterNoTest DEF Form!CallTest, Form!Called
<1>3. QED BY <1>1, <1>2

\* The tables of the initial database are asked for, if there is a list of databases.
LEMMA TablesAsked ==
    ASSUME FormTyped, OneOfAKind, NEW R, R \subseteq formRequests, NEW listed \in Form!Typed,
           UNCHANGED typed, initDb' \in Catalog \cup {NoCatalog}, Form!LoadTables(R, listed)
    PROVE  /\ formRequests' \subseteq Form!FormRequest
           /\ formCrossed' \subseteq Form!FormKind /\ formCrossed \subseteq formCrossed'
           /\ OneOfAKind'
           /\ \A r \in formRequests' : r.kind # "tables" => r \in R
           /\ \A r \in R : r \in formRequests'
           /\ tableRequestState' \in {tableRequestState, "requested"}
           /\ tablesLoaded' \in {"no", "unknown"}
           /\ formCrossed' \subseteq formCrossed \cup {"tables"}
           /\ "tables" \notin formCrossed' => \A r \in formRequests' : r.kind = "tables" =>
                                                  r.connection = typed /\ r.db = initDb'
           /\ \/ \E r \in formRequests' : r.kind = "tables"
              \/ initDb' \notin Form!Listed(listed) /\ tablesLoaded' = "no"
<1>1. CASE initDb' \notin Form!Listed(listed)
    <2>1. /\ formRequests' = R /\ tablesLoaded' = "no" /\ UNCHANGED tableRequestState
          /\ formCrossed' = formCrossed \cup {r.kind : r \in {r \in R : r.kind = "tables"}}
        BY <1>1 DEF Form!LoadTables, Form!Requests
    <2>2. formCrossed \subseteq formCrossed' /\ formCrossed' \subseteq formCrossed \cup {"tables"}
        BY <2>1
    <2>3. OneOfAKind'
        BY <2>1, <2>2 DEF OneOfAKind
    <2>4. "tables" \notin formCrossed' => \A r \in formRequests' : r.kind # "tables"
        BY <2>1
    <2>5. QED BY <1>1, <2>1, <2>2, <2>3, <2>4 DEF FormTyped, Form!FormKind
<1>2. CASE initDb' \in Form!Listed(listed)
    <2>1. /\ Form!Asks(R, "tables", initDb')
          /\ tablesLoaded' = "unknown" /\ tableRequestState' = "requested"
        BY <1>2 DEF Form!LoadTables
    <2>2. "tables" \in Form!FormKind /\ typed' \in Form!Typed
        BY DEF Form!FormKind, FormTyped
    <2>3. Sends(R, "tables", initDb')
        BY <2>1, <2>2, AskedFor
    <2>4. QED BY <2>1, <2>3 DEF Sends
<1>3. QED BY <1>1, <1>2

LEMMA FormStep ==
    ASSUME FormInv, Form!ServerFormNext
    PROVE  FormInv'
<1>0. /\ FormTyped /\ OneOfAKind /\ StatesFit /\ TestCurrent /\ ListCurrent /\ TablesCurrent
      /\ Incomplete \notin Connection /\ Saved \in Form!Typed
      /\ NoCatalog \notin Catalog
    BY TabAssumption DEF FormInv, Form!ServerFormAssumption, Form!Typed
<1>1. ASSUME NEW c \in Form!Typed, Form!TypeConnection(c) PROVE FormInv'
    BY <1>0, <1>1, AfterCall DEF Form!TypeConnection, FormTyped
<1>2. ASSUME NEW d \in Catalog \cup {NoCatalog}, Form!SetInitDb(d) PROVE FormInv'
    <2>1. /\ initDb' = d /\ UNCHANGED typed /\ Form!LoadTables(formRequests, databases)
          /\ UNCHANGED <<testConnection, testState, validConnection, tested, dbRequestState, databases,
                         tables, passwordPending>>
        BY <1>2 DEF Form!SetInitDb
    <2>2. /\ formRequests' \subseteq Form!FormRequest
          /\ formCrossed' \subseteq Form!FormKind /\ formCrossed \subseteq formCrossed'
          /\ OneOfAKind'
          /\ \A r \in formRequests' : r.kind # "tables" => r \in formRequests
          /\ \A r \in formRequests : r \in formRequests'
          /\ tableRequestState' \in {tableRequestState, "requested"}
          /\ tablesLoaded' \in {"no", "unknown"}
          /\ "tables" \notin formCrossed' => \A r \in formRequests' : r.kind = "tables" =>
                                                 r.connection = typed /\ r.db = d
          /\ \/ \E r \in formRequests' : r.kind = "tables"
             \/ d \notin Form!Listed(databases) /\ tablesLoaded' = "no"
        BY <1>0, <2>1, TablesAsked, ZenonT(60) DEF FormTyped
    <2>3. FormTyped'
        BY <1>0, <2>1, <2>2 DEF FormTyped, Form!REST
    <2>4. StatesFit'
        BY <1>0, <2>1, <2>2 DEF StatesFit
    <2>5. TestCurrent'
        BY <1>0, <2>1, <2>2 DEF TestCurrent, Settled
    <2>6. ListCurrent'
        BY <1>0, <2>1, <2>2 DEF ListCurrent, Settled
    <2>7. TablesCurrent'
        <3> SUFFICES ASSUME formCrossed' = {}, Settled, validConnection = "yes", dbRequestState = "success"
                     PROVE  /\ \A r \in formRequests' : r.kind = "tables" => r.connection = typed /\ r.db = d
                            /\ \/ \E r \in formRequests' : r.kind = "tables"
                               \/ d \notin Form!Listed(typed) /\ tablesLoaded' = "no"
            BY <2>1 DEF TablesCurrent, Settled
        <3>1. formCrossed = {}
            BY <2>2
        <3>2. \A r \in formRequests : r.kind # "databases"
            BY <1>0, <3>1 DEF StatesFit
        <3>3. databases = typed
            BY <1>0, <3>1, <3>2 DEF ListCurrent, Settled
        <3>4. QED BY <2>2, <3>3
    <2>8. QED BY <2>2, <2>3, <2>4, <2>5, <2>6, <2>7 DEF FormInv
<1>3. ASSUME Form!PressTest PROVE FormInv'
    BY <1>0, <1>3, AfterTest DEF Form!PressTest, FormTyped
<1>4. ASSUME Form!PasswordArrives PROVE FormInv'
    <2>1. /\ passwordPending' = FALSE /\ typed' \in Form!Typed
          /\ UNCHANGED <<initDb, tested, dbRequestState, databases, tableRequestState, tables, tablesLoaded>>
        BY <1>0, <1>4 DEF Form!PasswordArrives, FormTyped
    <2>2. CASE typed' = typed
        <3>1. Form!Asking(formRequests) /\ UNCHANGED <<testConnection, testState, validConnection>>
            BY <1>4, <2>2 DEF Form!PasswordArrives
        <3>2. testConnection' = "called" \/ testConnection # "called"
            BY <3>1
        <3>3. QED BY <1>0, <2>1, <2>2, <3>1, <3>2, AfterNoTest DEF FormTyped
    <2>3. CASE typed' # typed
        BY <1>0, <1>4, <2>1, <2>3, AfterCall DEF Form!PasswordArrives
    <2>4. QED BY <2>2, <2>3
<1>5. ASSUME Form!TestTimer PROVE FormInv'
    <2>1. CASE testConnection = "called"
        BY <1>0, <1>5, <2>1, AfterTest DEF Form!TestTimer, FormTyped
    <2>2. CASE testConnection # "called"
        BY <1>0, <1>5, <2>2, AfterNoTest DEF Form!TestTimer, FormTyped
    <2>3. QED BY <2>1, <2>2
<1>6. ASSUME NEW r \in formRequests, NEW valid \in {"yes", "no"}, NEW state \in {"success", "error"},
             Form!Tested(r, valid, state)
      PROVE  FormInv'
    <2>1. /\ r.kind = "test" /\ validConnection' = valid /\ testState' = state /\ tested' = r.connection
          /\ UNCHANGED <<typed, initDb, testConnection, databases, tables, tablesLoaded, passwordPending>>
        BY <1>6 DEF Form!Tested
    <2>2. r.connection \in Form!Typed
        BY <1>0 DEF FormTyped, Form!FormRequest
    <2>3. "test" \notin formCrossed => \A q \in formRequests \ {r} : q.kind # "test"
        BY <1>0, <2>1 DEF OneOfAKind
    <2>4. CASE valid = "yes" /\ validConnection # "yes"
        <3>1. /\ Form!Asks(formRequests \ {r}, "databases", NoCatalog) /\ dbRequestState' = "requested"
              /\ tableRequestState' \in {tableRequestState, "none"}
            BY <1>6, <2>4 DEF Form!Tested
        <3>2. Sends(formRequests \ {r}, "databases", NoCatalog)
            <4>1. /\ "databases" \in Form!FormKind /\ typed' \in Form!Typed
                  /\ NoCatalog \in Catalog \cup {NoCatalog} /\ formRequests \ {r} \subseteq formRequests
                BY <1>0, <2>1 DEF Form!FormKind, FormTyped
            <4>2. QED BY <1>0, <3>1, <4>1, AskedFor
        <3>3. FormTyped'
            BY <1>0, <2>1, <2>2, <3>1, <3>2 DEF Sends, FormTyped, Form!REST
        <3>4. StatesFit'
            BY <2>1, <2>3, <3>1, <3>2 DEF Sends, StatesFit
        <3>5. TestCurrent'
            BY <1>0, <2>1, <2>3, <3>2 DEF Sends, TestCurrent, Settled
        <3>6. ListCurrent' /\ TablesCurrent'
            BY <2>1, <3>1, <3>2 DEF Sends, ListCurrent, TablesCurrent
        <3>7. QED BY <3>2, <3>3, <3>4, <3>5, <3>6 DEF Sends, FormInv
    <2>5. CASE ~(valid = "yes" /\ validConnection # "yes")
        <3>1. Form!Asking(formRequests \ {r}) /\ UNCHANGED <<dbRequestState, tableRequestState>>
            BY <1>6, <2>5 DEF Form!Tested
        <3>2. /\ formRequests' = formRequests \ {r} /\ formCrossed' = formCrossed
              /\ formRequests' \subseteq Form!FormRequest /\ formCrossed' \subseteq Form!FormKind
              /\ OneOfAKind'
            BY <1>0, <3>1, AskedNothing
        <3>3. FormTyped'
            BY <1>0, <2>1, <2>2, <3>1, <3>2 DEF FormTyped, Form!REST
        <3>4. StatesFit'
            BY <1>0, <2>1, <2>3, <3>1, <3>2 DEF StatesFit
        <3>5. TestCurrent'
            BY <1>0, <2>1, <2>3, <3>2 DEF TestCurrent, Settled
        <3>6. "test" \notin formCrossed => validConnection' = "no"
            BY <1>0, <2>1, <2>5 DEF StatesFit
        <3>7. ListCurrent' /\ TablesCurrent'
            BY <2>1, <3>2, <3>6 DEF ListCurrent, TablesCurrent
        <3>8. QED BY <3>2, <3>3, <3>4, <3>5, <3>7 DEF FormInv
    <2>6. QED BY <2>4, <2>5
<1>7. ASSUME NEW r \in formRequests, Form!DatabasesListed(r) PROVE FormInv'
    <2>1. /\ r.kind = "databases" /\ databases' = r.connection /\ dbRequestState' = "success"
          /\ UNCHANGED <<typed, initDb, testConnection, testState, validConnection, tested, tables,
                         passwordPending>>
        BY <1>7 DEF Form!DatabasesListed
    <2>2. r.connection \in Form!Typed
        BY <1>0 DEF FormTyped, Form!FormRequest
    <2>3. "databases" \notin formCrossed => \A q \in formRequests \ {r} : q.kind # "databases"
        BY <1>0, <2>1 DEF OneOfAKind
    <2>4. CASE dbRequestState = "success"
        <3>1. Form!Asking(formRequests \ {r}) /\ UNCHANGED <<tableRequestState, tablesLoaded>>
            BY <1>7, <2>4 DEF Form!DatabasesListed
        <3>2. /\ formRequests' = formRequests \ {r} /\ formCrossed' = formCrossed
              /\ formRequests' \subseteq Form!FormRequest /\ formCrossed' \subseteq Form!FormKind
              /\ OneOfAKind'
            BY <1>0, <3>1, AskedNothing
        <3>3. "databases" \in formCrossed
            BY <1>0, <2>1, <2>4 DEF StatesFit
        <3>4. FormTyped'
            BY <1>0, <2>1, <2>2, <3>1, <3>2 DEF FormTyped, Form!REST
        <3>5. StatesFit' /\ TestCurrent'
            BY <1>0, <2>1, <3>2, <3>3 DEF StatesFit, TestCurrent, Settled
        <3>6. ListCurrent' /\ TablesCurrent'
            BY <3>2, <3>3 DEF ListCurrent, TablesCurrent
        <3>7. QED BY <3>2, <3>4, <3>5, <3>6 DEF FormInv
    <2>5. CASE dbRequestState # "success"
        <3>1. Form!LoadTables(formRequests \ {r}, r.connection)
            BY <1>7, <2>5 DEF Form!DatabasesListed
        <3>2. /\ formRequests' \subseteq Form!FormRequest
              /\ formCrossed' \subseteq Form!FormKind /\ formCrossed \subseteq formCrossed'
              /\ OneOfAKind'
              /\ \A q \in formRequests' : q.kind # "tables" => q \in formRequests \ {r}
              /\ \A q \in formRequests \ {r} : q \in formRequests'
              /\ tableRequestState' \in {tableRequestState, "requested"}
              /\ tablesLoaded' \in {"no", "unknown"}
              /\ "tables" \notin formCrossed' => \A q \in formRequests' : q.kind = "tables" =>
                                                     q.connection = typed /\ q.db = initDb'
              /\ \/ \E q \in formRequests' : q.kind = "tables"
                 \/ initDb' \notin Form!Listed(r.connection) /\ tablesLoaded' = "no"
            BY <1>0, <2>1, <2>2, <3>1, TablesAsked DEF FormTyped
        <3>3. FormTyped'
            BY <1>0, <2>1, <2>2, <3>2 DEF FormTyped, Form!REST
        <3>4. StatesFit'
            BY <1>0, <2>1, <2>3, <3>2 DEF StatesFit
        <3>5. TestCurrent'
            BY <1>0, <2>1, <3>2 DEF TestCurrent, Settled
        <3>6. ListCurrent'
            BY <1>0, <2>1, <2>3, <3>2 DEF ListCurrent, Settled
        <3>7. TablesCurrent'
            <4> SUFFICES ASSUME formCrossed' = {}, Settled, validConnection = "yes"
                         PROVE  /\ \A q \in formRequests' : q.kind = "tables" =>
                                       q.connection = typed /\ q.db = initDb'
                                /\ \/ \E q \in formRequests' : q.kind = "tables"
                                   \/ initDb' \notin Form!Listed(typed) /\ tablesLoaded' = "no"
                BY <2>1 DEF TablesCurrent, Settled
            <4>1. formCrossed = {}
                BY <3>2
            <4>2. r.connection = typed
                BY <1>0, <2>1, <4>1 DEF ListCurrent, Settled
            <4>3. QED BY <3>2, <4>2
        <3>8. QED BY <3>2, <3>3, <3>4, <3>5, <3>6, <3>7 DEF FormInv
    <2>6. QED BY <2>4, <2>5
<1>8. ASSUME NEW r \in formRequests, Form!DatabasesFailed(r) PROVE FormInv'
    <2>1. /\ r.kind = "databases" /\ databases' = Incomplete /\ dbRequestState' = "error"
          /\ tableRequestState' \in {tableRequestState, "none"}
          /\ Form!Asking(formRequests \ {r})
          /\ UNCHANGED <<typed, initDb, testConnection, testState, validConnection, tested, tables,
                         tablesLoaded, passwordPending>>
        BY <1>8 DEF Form!DatabasesFailed
    <2>2. /\ formRequests' = formRequests \ {r} /\ formCrossed' = formCrossed
          /\ formRequests' \subseteq Form!FormRequest /\ formCrossed' \subseteq Form!FormKind
          /\ OneOfAKind'
        BY <1>0, <2>1, AskedNothing
    <2>3. "databases" \notin formCrossed => \A q \in formRequests \ {r} : q.kind # "databases"
        BY <1>0, <2>1 DEF OneOfAKind
    <2>4. FormTyped'
        BY <1>0, <2>1, <2>2 DEF FormTyped, Form!REST, Form!Typed
    <2>5. StatesFit'
        BY <1>0, <2>1, <2>2, <2>3 DEF StatesFit
    <2>6. TestCurrent'
        BY <1>0, <2>1, <2>2 DEF TestCurrent, Settled
    <2>7. ListCurrent' /\ TablesCurrent'
        BY <1>0, <2>1, <2>2, <2>3 DEF ListCurrent, TablesCurrent, Settled
    <2>8. QED BY <2>2, <2>4, <2>5, <2>6, <2>7 DEF FormInv
<1>9. ASSUME NEW r \in formRequests, Form!TablesAnswered(r) PROVE FormInv'
    <2>1. /\ r.kind = "tables" /\ Form!Asking(formRequests \ {r})
          /\ \/ /\ tables' = [connection |-> r.connection, db |-> r.db]
                /\ tablesLoaded' = "yes" /\ tableRequestState' = "success"
             \/ /\ tables' = Form!NoTables
                /\ tablesLoaded' = "no" /\ tableRequestState' = "error"
          /\ UNCHANGED <<typed, initDb, testConnection, testState, validConnection, tested, dbRequestState,
                         databases, passwordPending>>
        BY <1>9 DEF Form!TablesAnswered
    <2>2. /\ formRequests' = formRequests \ {r} /\ formCrossed' = formCrossed
          /\ formRequests' \subseteq Form!FormRequest /\ formCrossed' \subseteq Form!FormKind
          /\ OneOfAKind'
        BY <1>0, <2>1, AskedNothing
    <2>3. "tables" \notin formCrossed => \A q \in formRequests \ {r} : q.kind # "tables"
        BY <1>0, <2>1 DEF OneOfAKind
    <2>4. tables' \in Form!Tables
        <3>1. r.connection \in Form!Typed /\ r.db \in Catalog \cup {NoCatalog}
            BY <1>0 DEF FormTyped, Form!FormRequest
        <3>2. QED BY <2>1, <3>1 DEF Form!Tables, Form!NoTables, Form!Typed
    <2>5. FormTyped'
        BY <1>0, <2>1, <2>2, <2>4 DEF FormTyped, Form!REST
    <2>6. StatesFit' /\ TestCurrent'
        BY <1>0, <2>1, <2>2 DEF StatesFit, TestCurrent, Settled
    <2>7. ListCurrent'
        BY <1>0, <2>1, <2>2 DEF ListCurrent, Settled
    <2>8. TablesCurrent'
        BY <1>0, <2>1, <2>2, <2>3 DEF TablesCurrent, Settled
    <2>9. QED BY <2>2, <2>5, <2>6, <2>7, <2>8 DEF FormInv
<1>10. ASSUME Form!FormAnswered(Form!FormKind) PROVE FormInv'
    BY <1>6, <1>7, <1>8, <1>9, <1>10 DEF Form!FormAnswered
<1>11. ASSUME Form!UserFills PROVE FormInv'
    BY <1>1, <1>2, <1>3, <1>11 DEF Form!UserFills
<1>12. QED BY <1>4, <1>5, <1>10, <1>11 DEF Form!ServerFormNext

-----------------------------------------------------------------------------
(* The query log                                                           *)

LogTyped ==
    /\ logUser \in BOOLEAN /\ logLoaded \in BOOLEAN /\ cancelled \in BOOLEAN /\ upset \in BOOLEAN
    /\ stored \in Log!Listing
    /\ sqlQueries \in [LogQuery -> Seq(Log!Object)]
    /\ \A q \in LogQuery : Len(sqlQueries[q]) <= 2
    /\ logRequests \subseteq Log!LogRequest

\* What the one query that is yet to be run leaves possible.
Unstored ==
    /\ \A q \in LogQuery : q # Unrun => stored[q] # "none"
    /\ \A r \in logRequests : ~r.served => r = Log!Sent(r.kind, r.query, r.isFavorite)
    /\ \A r \in logRequests : r.kind \in {"update", "run"} => r.isFavorite # "none"
    /\ \A r \in logRequests : r.kind = "run" => r.query = Unrun /\ r.isFavorite = "plain"
    /\ \A r, s \in logRequests : r.kind = "run" /\ s.kind = "run" => r = s
    /\ stored[Unrun] = "none" =>
           /\ sqlQueries[Unrun] = <<>>
           /\ \A r \in logRequests : /\ r.answer[Unrun] = "none"
                                     /\ r.kind = "update" => r.query # Unrun
                                     /\ r.kind = "run" => ~r.served

IsUpdate(r, q) == r.kind = "update" /\ r.query = q
Updating(q) == \E r \in logRequests : IsUpdate(r, q)
RunUnderWay == \E r \in logRequests : r.kind = "run"

Shows(q) == IF stored[q] = "none" THEN sqlQueries[q] = <<>>
            ELSE Len(sqlQueries[q]) = 1 /\ sqlQueries[q][1] = Log!Fresh(stored[q])

\* What a query of the log shows, or will show when its request has been answered.
ShownRight(q) ==
    IF Updating(q)
    THEN /\ stored[q] # "none" /\ Len(sqlQueries[q]) = 1
         /\ \A r \in logRequests : IsUpdate(r, q) /\ r.served => stored[q] = r.isFavorite
    ELSE (q = Unrun /\ RunUnderWay) \/ Shows(q)

\* A list of the user's own queries is under way alone, and so is a run or an update of a query.
AloneUnderWay ==
    /\ \A r \in logRequests : r.kind = "own" =>
           /\ logRequests = {r} /\ sqlQueries = Log!Empty /\ ~logLoaded
           /\ r.served => r.answer = stored
    /\ \A r, s \in logRequests : \A q \in LogQuery : IsUpdate(r, q) /\ IsUpdate(s, q) => r = s
    /\ RunUnderWay => sqlQueries[Unrun] = <<>> /\ ~Updating(Unrun)
    /\ \A r \in logRequests : r.kind = "run" => stored[Unrun] = IF r.served THEN "plain" ELSE "none"

Calm == ~upset =>
    /\ \A q \in LogQuery : Len(sqlQueries[q]) <= 1
    /\ AloneUnderWay
    /\ logLoaded => \A q \in LogQuery : ShownRight(q)

LogInv == LogTyped /\ Unstored /\ Calm

LEMMA OneLong ==
    ASSUME NEW S, NEW s \in Seq(S)
    PROVE  /\ s = <<>> <=> Len(s) = 0
           /\ Len(s) \in Nat /\ DOMAIN s = 1..Len(s)
           /\ Len(s) = 1 => s = <<s[1]>>
OBVIOUS

LEMMA LogKept == LogInv => Log!NoSqlQueryTwice /\ Log!LogIsRight
<1> SUFFICES ASSUME LogInv PROVE Log!NoSqlQueryTwice /\ Log!LogIsRight
    OBVIOUS
<1>1. Log!NoSqlQueryTwice
    BY DEF LogInv, Calm, Log!NoSqlQueryTwice
<1>2. ASSUME ~upset, logLoaded, logRequests = {}, NEW q \in LogQuery
      PROVE  IF stored[q] = "none" THEN sqlQueries[q] = <<>> ELSE sqlQueries[q] = <<Log!Fresh(stored[q])>>
    <2>1. ShownRight(q) /\ ~Updating(q) /\ ~RunUnderWay
        BY <1>2 DEF LogInv, Calm, Updating, RunUnderWay
    <2>2. Shows(q) /\ sqlQueries[q] \in Seq(Log!Object)
        BY <2>1 DEF ShownRight, LogInv, LogTyped
    <2>3. QED BY <2>2, OneLong DEF Shows
<1>3. QED BY <1>1, <1>2 DEF Log!LogIsRight

LEMMA EmptyLog ==
    /\ Log!Empty \in [LogQuery -> Seq(Log!Object)]
    /\ \A q \in LogQuery : Log!Empty[q] = <<>> /\ Len(Log!Empty[q]) = 0 /\ Len(Log!Empty[q]) <= 2
<1>1. <<>> \in Seq(Log!Object) /\ Len(<<>>) = 0
    BY EmptySeq
<1>2. QED BY <1>1 DEF Log!Empty

LEMMA LogStarts == Log!LogInit => LogInv
<1> SUFFICES ASSUME Log!LogInit PROVE LogInv
    OBVIOUS
<1>1. /\ logUser = FALSE /\ logLoaded = FALSE /\ cancelled = FALSE /\ upset = FALSE
      /\ stored \in Log!Listing /\ \A q \in LogQuery : stored[q] = "none" <=> q = Unrun
      /\ sqlQueries = Log!Empty /\ logRequests = {}
    BY DEF Log!LogInit
<1>2. \A q \in LogQuery : sqlQueries[q] = <<>> /\ Len(sqlQueries[q]) = 0
    BY <1>1 DEF Log!Empty
<1>3. Unrun \in LogQuery
    BY TabAssumption DEF Log!SqlQueryLogAssumption
<1>4. LogTyped
    BY <1>1, EmptyLog DEF LogTyped
<1>5. Unstored
    BY <1>1, <1>2, <1>3 DEF Unstored
<1>6. Calm
    BY <1>1, <1>2 DEF Calm, AloneUnderWay, RunUnderWay, Updating
<1>7. QED BY <1>4, <1>5, <1>6 DEF LogInv

LEMMA LogFacts ==
    ASSUME LogInv
    PROVE  /\ Unrun \in LogQuery
           /\ \A r \in logRequests : /\ r.kind \in Log!LogKind /\ r.query \in LogQuery
                                     /\ r.isFavorite \in Log!Star /\ r.served \in BOOLEAN
                                     /\ r.answer \in Log!Listing
           /\ \A q \in LogQuery : /\ stored[q] \in Log!Star
                                  /\ sqlQueries[q] \in Seq(Log!Object)
                                  /\ Len(sqlQueries[q]) \in Nat
                                  /\ sqlQueries[q] = <<>> <=> Len(sqlQueries[q]) = 0
BY TabAssumption DEF LogInv, LogTyped, Log!SqlQueryLogAssumption, Log!LogRequest, Log!Listing

\* A request that has just been sent.
IsSent(r, kind, q, star) ==
    /\ r \in Log!LogRequest /\ r = Log!Sent(kind, q, star)
    /\ r.kind = kind /\ r.query = q /\ r.isFavorite = star /\ r.served = FALSE
    /\ \A p \in LogQuery : r.answer[p] = "none"

LEMMA SentTyped ==
    ASSUME NEW kind \in Log!LogKind, NEW q \in LogQuery, NEW star \in Log!Star
    PROVE  IsSent(Log!Sent(kind, q, star), kind, q, star)
BY DEF IsSent, Log!Sent, Log!LogRequest, Log!Listing, Log!Star

LEMMA LogLoads ==
    ASSUME LogInv, Log!LoadSqlQueries
    PROVE  LogInv'
<1> DEFINE own == Log!Sent("own", Unrun, "none")
<1>0. LogTyped /\ Unstored /\ Calm
    BY DEF LogInv
<1>1. /\ sqlQueries' = Log!Empty /\ logLoaded' = FALSE /\ logRequests' = logRequests \cup {own}
      /\ upset' = (logRequests # {})
      /\ UNCHANGED <<logUser, stored, cancelled>>
    BY DEF Log!LoadSqlQueries
<1>2. /\ own \in Log!LogRequest /\ own.kind = "own" /\ own.query = Unrun /\ own.isFavorite = "none"
      /\ own.served = FALSE /\ \A p \in LogQuery : own.answer[p] = "none"
      /\ own = Log!Sent(own.kind, own.query, own.isFavorite)
    <2>1. "own" \in Log!LogKind /\ "none" \in Log!Star /\ Unrun \in LogQuery
        BY LogFacts DEF Log!LogKind, Log!Star
    <2>2. IsSent(own, "own", Unrun, "none")
        BY <2>1, SentTyped
    <2> HIDE DEF own
    <2>3. QED BY <2>2 DEF IsSent
<1> HIDE DEF own
<1>3. \A q \in LogQuery : sqlQueries'[q] = <<>> /\ Len(sqlQueries'[q]) = 0
    BY <1>1 DEF Log!Empty
<1>4. LogTyped'
    BY <1>0, <1>1, <1>2, EmptyLog DEF LogTyped
<1>5. Unstored'
    BY <1>0, <1>1, <1>2, <1>3, LogFacts DEF Unstored
<1>6. Calm'
    <2>1. CASE logRequests # {}
        BY <2>1, <1>1 DEF Calm
    <2>2. CASE logRequests = {}
        <3>1. logRequests' = {own}
            BY <1>1, <2>2
        <3>2. AloneUnderWay'
            BY <3>1, <1>1, <1>2 DEF AloneUnderWay, RunUnderWay, Updating, IsUpdate
        <3>3. QED BY <3>2, <1>1, <1>3 DEF Calm
    <2>3. QED BY <2>1, <2>2
<1>7. QED BY <1>4, <1>5, <1>6 DEF LogInv

LEMMA LogSessions ==
    ASSUME LogInv, Log!LogLogin \/ Log!LogSessionLost
    PROVE  LogInv'
<1>1. /\ logUser' \in BOOLEAN
      /\ UNCHANGED <<stored, sqlQueries, logLoaded, cancelled, logRequests, upset>>
    BY DEF Log!LogLogin, Log!LogSessionLost
<1>2. LogTyped'
    BY <1>1 DEF LogInv, LogTyped
<1>3. Unstored'
    BY <1>1 DEF LogInv, Unstored
<1>4. Calm'
    BY <1>1 DEF LogInv, Calm, AloneUnderWay, RunUnderWay, Updating, IsUpdate, ShownRight, Shows
<1>5. QED BY <1>2, <1>3, <1>4 DEF LogInv

LEMMA LogLogsOut ==
    ASSUME LogInv, Log!LogLogout
    PROVE  LogInv'
<1>0. LogTyped /\ Unstored /\ Calm
    BY DEF LogInv
<1>1. /\ sqlQueries' = Log!Empty /\ logLoaded' = FALSE /\ cancelled' = TRUE /\ logUser' = FALSE
      /\ logRequests' = {r \in logRequests : r.kind \in {"shared", "update"}}
      /\ UNCHANGED upset
    BY DEF Log!LogLogout
<1>2. PICK run : /\ run \subseteq {r.query : r \in {c \in logRequests : c.kind = "run" /\ ~c.served}}
                 /\ stored' = [q \in LogQuery |-> IF q \in run THEN "plain" ELSE stored[q]]
    BY DEF Log!LogLogout
<1>3. \A q \in LogQuery : sqlQueries'[q] = <<>> /\ Len(sqlQueries'[q]) = 0
    BY <1>1 DEF Log!Empty
<1>4. stored' \in Log!Listing /\ \A q \in LogQuery : stored'[q] = "none" => stored[q] = "none"
    BY <1>2, LogFacts DEF Log!Listing, Log!Star
<1>5. LogTyped'
    BY <1>0, <1>1, <1>4, EmptyLog DEF LogTyped
<1>6. Unstored'
    BY <1>0, <1>1, <1>3, <1>4, LogFacts DEF Unstored
<1>7. Calm'
    BY <1>0, <1>1, <1>3 DEF Calm, AloneUnderWay, RunUnderWay, Updating, IsUpdate
<1>8. QED BY <1>5, <1>6, <1>7 DEF LogInv

\* A click on the star of a query that is listed once, and not being updated, marks it as dirty.
LEMMA LogToggles ==
    ASSUME LogInv, NEW q \in LogQuery, Log!ToggleIsFavorite(q)
    PROVE  LogInv'
<1>0. LogTyped /\ Unstored /\ Calm
    BY DEF LogInv
<1>1. PICK i \in DOMAIN sqlQueries[q] :
          LET toggled == [sqlQueries[q][i] EXCEPT !.isFavorite = IF @ = "star" THEN "plain" ELSE "star"]
          IN  /\ sqlQueries' = [sqlQueries EXCEPT ![q][i] = toggled]
              /\ logRequests' = IF Log!IsDirty(toggled)
                                THEN logRequests \cup {Log!Sent("update", q, toggled.isFavorite)}
                                ELSE logRequests
              /\ upset' = (upset \/ Log!Loading \/ \E r \in logRequests : r.kind = "update" /\ r.query = q)
              /\ UNCHANGED <<logUser, stored, logLoaded, cancelled>>
    BY DEF Log!ToggleIsFavorite
<1> DEFINE object == sqlQueries[q][i]
           toggled == [object EXCEPT !.isFavorite = IF @ = "star" THEN "plain" ELSE "star"]
<1>2. /\ i \in 1..Len(sqlQueries[q]) /\ sqlQueries[q] \in Seq(Log!Object)
      /\ object \in Log!Object /\ sqlQueries[q] # <<>>
    BY <1>1, LogFacts, OneLong
<1>3. /\ toggled \in Log!Object /\ toggled.pristine = object.pristine
      /\ toggled.isFavorite = IF object.isFavorite = "star" THEN "plain" ELSE "star"
    BY <1>2 DEF Log!Object, Log!Star
<1> HIDE DEF toggled
<1>4. PICK new : new = Log!Sent("update", q, toggled.isFavorite)
    OBVIOUS
<1>5. IsSent(new, "update", q, toggled.isFavorite) /\ toggled.isFavorite # "none"
    <2>1. "update" \in Log!LogKind /\ toggled.isFavorite \in Log!Star /\ toggled.isFavorite # "none"
        BY <1>3 DEF Log!LogKind, Log!Star
    <2>2. QED BY <2>1, <1>4, SentTyped
<1>6. /\ \A p \in LogQuery : p # q => sqlQueries'[p] = sqlQueries[p]
      /\ sqlQueries'[q] \in Seq(Log!Object) /\ Len(sqlQueries'[q]) = Len(sqlQueries[q])
      /\ sqlQueries' \in [LogQuery -> Seq(Log!Object)]
    <2>1. sqlQueries' = [sqlQueries EXCEPT ![q] = [sqlQueries[q] EXCEPT ![i] = toggled]]
        BY <1>1 DEF toggled
    <2>2. /\ [sqlQueries[q] EXCEPT ![i] = toggled] \in Seq(Log!Object)
          /\ Len([sqlQueries[q] EXCEPT ![i] = toggled]) = Len(sqlQueries[q])
        BY <1>2, <1>3, ExceptSeq
    <2>3. QED BY <2>1, <2>2, <1>0 DEF LogTyped
<1>7. /\ logRequests' = (IF Log!IsDirty(toggled) THEN logRequests \cup {new} ELSE logRequests)
      /\ UNCHANGED <<logUser, stored, logLoaded, cancelled>>
    BY <1>1, <1>4 DEF toggled
<1>8. /\ upset' \in BOOLEAN
      /\ ~upset' => ~upset /\ ~Updating(q) /\ \A r \in logRequests : r.kind # "own"
    BY <1>0, <1>1 DEF LogTyped, Log!Loading, Updating, IsUpdate
<1>9. LogTyped'
    BY <1>0, <1>5, <1>6, <1>7, <1>8 DEF LogTyped, IsSent
<1>10. q = Unrun => stored[Unrun] # "none"
    BY <1>0, <1>2 DEF Unstored
<1>11. Unstored'
    <2>1. \A r \in logRequests' : r \in logRequests \/ r = new
        BY <1>7
    <2>2. /\ new.kind = "update" /\ new.query = q /\ new.isFavorite # "none"
          /\ new = Log!Sent(new.kind, new.query, new.isFavorite)
          /\ new.answer[Unrun] = "none"
        BY <1>5, LogFacts DEF IsSent
    <2>3. stored[Unrun] = "none" => sqlQueries'[Unrun] = sqlQueries[Unrun] /\ q # Unrun
        BY <1>6, <1>10, LogFacts
    <2>4. QED BY <1>0, <1>7, <2>1, <2>2, <2>3 DEF Unstored
<1>12. ASSUME ~upset' PROVE AloneUnderWay'
    <2>1. ~upset /\ ~Updating(q) /\ \A r \in logRequests : r.kind # "own"
        BY <1>8, <1>12
    <2>2. AloneUnderWay
        BY <1>0, <2>1 DEF Calm
    <2>3. q = Unrun => ~RunUnderWay
        BY <2>2, <1>2 DEF AloneUnderWay
    <2>4. \A r \in logRequests' : r \in logRequests \/ r = new
        BY <1>7
    <2>5. /\ \A r \in logRequests' : r.kind # "own"
          /\ \A r \in logRequests' : r.kind = "run" => r \in logRequests
          /\ RunUnderWay' => RunUnderWay
        BY <2>1, <2>4, <1>5 DEF IsSent, RunUnderWay
    <2>6. ASSUME NEW r \in logRequests', NEW s \in logRequests', NEW p \in LogQuery,
                 IsUpdate(r, p), IsUpdate(s, p)
          PROVE  r = s
        BY <2>1, <2>2, <2>4, <2>6, <1>5 DEF AloneUnderWay, IsUpdate, Updating, IsSent
    <2>7. RunUnderWay' => sqlQueries'[Unrun] = <<>> /\ ~Updating(Unrun)'
        BY <2>2, <2>3, <2>4, <2>5, <1>5, <1>6, LogFacts DEF AloneUnderWay, IsUpdate, Updating, IsSent
    <2>8. QED BY <2>2, <2>5, <2>6, <2>7, <1>7 DEF AloneUnderWay
<1>13. ASSUME ~upset', logLoaded, NEW p \in LogQuery PROVE ShownRight(p)'
    <2>1. ~upset /\ ~Updating(q) /\ ShownRight(p) /\ ShownRight(q)
        BY <1>0, <1>8, <1>13 DEF Calm
    <2>2. CASE p # q
        <3>1. Updating(p)' <=> Updating(p)
            BY <1>5, <1>7, <2>2 DEF Updating, IsUpdate, IsSent
        <3>2. RunUnderWay => RunUnderWay'
            BY <1>7 DEF RunUnderWay
        <3>3. \A r \in logRequests' : IsUpdate(r, p) => r \in logRequests
            BY <1>5, <1>7, <2>2 DEF IsUpdate, IsSent
        <3>4. /\ sqlQueries'[p] = sqlQueries[p] /\ stored' = stored
            BY <1>6, <1>7, <2>2
        <3>5. CASE Updating(p)
            BY <2>1, <3>1, <3>3, <3>4, <3>5 DEF ShownRight, IsUpdate
        <3>6. CASE ~Updating(p)
            BY <2>1, <3>1, <3>2, <3>4, <3>6 DEF ShownRight, Shows
        <3>7. QED BY <3>5, <3>6
    <2>3. CASE p = q
        <3>1. AloneUnderWay
            BY <1>0, <2>1 DEF Calm
        <3>2. ~(q = Unrun /\ RunUnderWay)
            BY <3>1, <1>2 DEF AloneUnderWay
        <3>3. Shows(q)
            BY <2>1, <3>2 DEF ShownRight
        <3>4. stored[q] # "none" /\ Len(sqlQueries[q]) = 1 /\ object = Log!Fresh(stored[q])
            BY <3>3, <1>2 DEF Shows
        <3>5. stored[q] \in Log!Star /\ object.isFavorite = stored[q] /\ object.pristine = stored[q]
            BY <3>4, LogFacts DEF Log!Fresh
        <3>6. Log!IsDirty(toggled)
            BY <3>4, <3>5, <1>3 DEF Log!IsDirty, Log!Star
        <3>7. logRequests' = logRequests \cup {new}
            BY <3>6, <1>7
        <3>8. \A r \in logRequests' : IsUpdate(r, q) => r.served = FALSE
            BY <3>7, <2>1, <1>5 DEF Updating, IsSent
        <3>9. Updating(q)'
            BY <3>7, <1>5 DEF Updating, IsSent, IsUpdate
        <3>10. stored' = stored /\ Len(sqlQueries'[q]) = 1
            BY <1>6, <1>7, <3>4
        <3>11. QED BY <2>3, <3>4, <3>8, <3>9, <3>10 DEF ShownRight, IsUpdate
    <2>4. QED BY <2>2, <2>3
<1>14. Calm'
    <2>1. ~upset' => \A p \in LogQuery : Len(sqlQueries'[p]) <= 1
        BY <1>0, <1>6, <1>8 DEF Calm
    <2>2. QED BY <2>1, <1>7, <1>12, <1>13 DEF Calm
<1>15. QED BY <1>9, <1>11, <1>14 DEF LogInv

LEMMA LogRuns ==
    ASSUME LogInv, NEW q \in LogQuery, Log!RunQuery(q)
    PROVE  LogInv'
<1>0. LogTyped /\ Unstored /\ Calm
    BY DEF LogInv
<1>1. /\ stored[q] = "none"
      /\ logRequests' = IF cancelled THEN logRequests ELSE logRequests \cup {Log!Sent("run", q, "plain")}
      /\ upset' = (upset \/ Log!Loading)
      /\ UNCHANGED <<logUser, stored, sqlQueries, logLoaded, cancelled>>
    BY DEF Log!RunQuery
<1>2. q = Unrun /\ Unrun \in LogQuery
    BY <1>0, <1>1 DEF Unstored
<1>3. PICK new : new = Log!Sent("run", Unrun, "plain")
    OBVIOUS
<1>4. IsSent(new, "run", Unrun, "plain")
    <2>1. "run" \in Log!LogKind /\ "plain" \in Log!Star
        BY DEF Log!LogKind, Log!Star
    <2>2. QED BY <2>1, <1>2, <1>3, SentTyped
<1>5. /\ \A r \in logRequests' : r \in logRequests \/ r = new
      /\ \A r \in logRequests : r \in logRequests'
    BY <1>1, <1>2, <1>3
<1>6. upset' \in BOOLEAN /\ (~upset' => ~upset /\ \A r \in logRequests : r.kind # "own")
    BY <1>0, <1>1 DEF LogTyped, Log!Loading
<1>7. LogTyped'
    BY <1>0, <1>1, <1>4, <1>5, <1>6 DEF LogTyped, IsSent
<1>8. \A r \in logRequests : r.kind = "run" => r = new
    BY <1>0, <1>1, <1>2, <1>3 DEF Unstored
<1>9. Unstored'
    BY <1>0, <1>1, <1>2, <1>4, <1>5, <1>8 DEF Unstored, IsSent
<1>10. ASSUME ~upset' PROVE AloneUnderWay'
    <2>1. ~upset /\ AloneUnderWay /\ \A r \in logRequests : r.kind # "own"
        BY <1>0, <1>6, <1>10 DEF Calm
    <2>2. \A r \in logRequests' : r.kind # "own"
        BY <2>1, <1>4, <1>5 DEF IsSent
    <2>3. \A r \in logRequests', p \in LogQuery : IsUpdate(r, p) => r \in logRequests
        BY <1>4, <1>5 DEF IsSent, IsUpdate
    <2>4. sqlQueries'[Unrun] = <<>> /\ ~Updating(Unrun)'
        BY <1>0, <1>1, <1>2, <2>3 DEF Unstored, Updating, IsUpdate
    <2>5. \A r \in logRequests' : r.kind = "run" => stored'[Unrun] = IF r.served THEN "plain" ELSE "none"
        BY <1>1, <1>2, <1>4, <1>5, <1>8 DEF IsSent
    <2>6. QED BY <2>1, <2>2, <2>3, <2>4, <2>5 DEF AloneUnderWay
<1>11. ASSUME ~upset', logLoaded, NEW p \in LogQuery PROVE ShownRight(p)'
    <2>1. ShownRight(p)
        BY <1>0, <1>6, <1>11 DEF Calm
    <2>2. \A r \in logRequests' : IsUpdate(r, p) <=> r \in logRequests /\ IsUpdate(r, p)
        BY <1>4, <1>5 DEF IsSent, IsUpdate
    <2>3. (Updating(p)' <=> Updating(p)) /\ (RunUnderWay => RunUnderWay')
        BY <2>2, <1>5 DEF Updating, RunUnderWay, IsUpdate
    <2>4. Shows(p)' <=> Shows(p)
        BY <1>1 DEF Shows
    <2>5. CASE Updating(p)
        BY <2>1, <2>2, <2>3, <2>5, <1>1 DEF ShownRight, IsUpdate
    <2>6. CASE ~Updating(p)
        BY <2>1, <2>3, <2>4, <2>6 DEF ShownRight
    <2>7. QED BY <2>5, <2>6
<1>12. Calm'
    BY <1>0, <1>1, <1>6, <1>10, <1>11 DEF Calm
<1>13. QED BY <1>7, <1>9, <1>12 DEF LogInv

\* The server answers with what it holds then.
LEMMA LogServes ==
    ASSUME LogInv, NEW r \in logRequests, Log!ServeLog(r), UNCHANGED <<logUser, cancelled>>
    PROVE  LogInv'
<1>0. LogTyped /\ Unstored /\ Calm
    BY DEF LogInv
<1>1. /\ ~r.served
      /\ stored' = IF r.kind \in {"update", "run"} THEN [stored EXCEPT ![r.query] = r.isFavorite] ELSE stored
      /\ logRequests' = (logRequests \ {r}) \cup {[r EXCEPT !.served = TRUE, !.answer = stored']}
      /\ UNCHANGED <<sqlQueries, logLoaded, upset>>
    BY DEF Log!ServeLog
<1>2. PICK new : new = [r EXCEPT !.served = TRUE, !.answer = stored']
    OBVIOUS
<1>3. /\ r \in Log!LogRequest /\ r.kind \in Log!LogKind /\ r.query \in LogQuery /\ r.isFavorite \in Log!Star
      /\ stored \in [LogQuery -> Log!Star] /\ Unrun \in LogQuery
    BY <1>0, LogFacts DEF LogTyped, Log!Listing
<1>4. stored' \in Log!Listing
    BY <1>1, <1>3 DEF Log!Listing
<1>5. /\ new \in Log!LogRequest /\ new.kind = r.kind /\ new.query = r.query /\ new.isFavorite = r.isFavorite
      /\ new.served = TRUE /\ new.answer = stored'
    BY <1>2, <1>3, <1>4 DEF Log!LogRequest
<1>6. /\ \A s \in logRequests' : s = new \/ (s \in logRequests /\ s # r)
      /\ new \in logRequests' /\ \A s \in logRequests : s # r => s \in logRequests'
    BY <1>1, <1>2
<1>7. LogTyped'
    BY <1>0, <1>1, <1>4, <1>5, <1>6 DEF LogTyped
<1>8. \A q \in LogQuery : stored'[q] = "none" => stored[q] = "none"
    BY <1>0, <1>1, <1>3 DEF Unstored
<1>9. stored'[Unrun] = "none" => r.kind # "run"
    BY <1>0, <1>1, <1>3 DEF Unstored
<1>10. Unstored'
    <2>1. /\ \A q \in LogQuery : q # Unrun => stored'[q] # "none"
          /\ \A s \in logRequests' : ~s.served => s = Log!Sent(s.kind, s.query, s.isFavorite)
          /\ \A s \in logRequests' : s.kind \in {"update", "run"} => s.isFavorite # "none"
          /\ \A s \in logRequests' : s.kind = "run" => s.query = Unrun /\ s.isFavorite = "plain"
        BY <1>0, <1>5, <1>6, <1>8 DEF Unstored
    <2>2. \A s, t \in logRequests' : s.kind = "run" /\ t.kind = "run" => s = t
        BY <1>0, <1>5, <1>6 DEF Unstored
    <2>3. stored'[Unrun] = "none" =>
              /\ sqlQueries'[Unrun] = <<>>
              /\ \A s \in logRequests' : /\ s.answer[Unrun] = "none"
                                         /\ s.kind = "update" => s.query # Unrun
                                         /\ s.kind = "run" => ~s.served
        <3> SUFFICES ASSUME stored'[Unrun] = "none"
                     PROVE  /\ sqlQueries'[Unrun] = <<>>
                            /\ \A s \in logRequests' : /\ s.answer[Unrun] = "none"
                                                       /\ s.kind = "update" => s.query # Unrun
                                                       /\ s.kind = "run" => ~s.served
            OBVIOUS
        <3>1. stored[Unrun] = "none" /\ r.kind # "run"
            BY <1>3, <1>8, <1>9
        <3>2. /\ sqlQueries[Unrun] = <<>>
              /\ \A s \in logRequests : /\ s.answer[Unrun] = "none"
                                        /\ s.kind = "update" => s.query # Unrun
                                        /\ s.kind = "run" => ~s.served
            BY <3>1, <1>0 DEF Unstored
        <3>3. new.answer[Unrun] = "none" /\ new.kind # "run" /\ (new.kind = "update" => new.query # Unrun)
            BY <3>1, <3>2, <1>5
        <3>4. QED BY <3>2, <3>3, <1>1, <1>6
    <2>4. QED BY <2>1, <2>2, <2>3 DEF Unstored
<1>11. /\ \A q \in LogQuery : Updating(q)' <=> Updating(q)
       /\ RunUnderWay' <=> RunUnderWay
       /\ \A s \in logRequests', q \in LogQuery : IsUpdate(s, q) => s = new \/ s \in logRequests
    BY <1>5, <1>6 DEF Updating, RunUnderWay, IsUpdate
<1>12. ASSUME ~upset PROVE AloneUnderWay'
    <2>1. AloneUnderWay
        BY <1>0, <1>12 DEF Calm
    <2>2. ASSUME NEW s \in logRequests', s.kind = "own"
          PROVE  /\ logRequests' = {s} /\ sqlQueries' = Log!Empty /\ ~logLoaded'
                 /\ s.served => s.answer = stored'
        <3>1. \E t \in logRequests : t.kind = "own"
            BY <2>2, <1>5, <1>6
        <3>2. logRequests = {r} /\ r.kind = "own" /\ sqlQueries = Log!Empty /\ ~logLoaded
            BY <2>1, <3>1 DEF AloneUnderWay
        <3>3. logRequests' = {new} /\ s = new
            BY <3>2, <2>2, <1>6
        <3>4. QED BY <3>2, <3>3, <1>1, <1>5
    <2>3. \A s, t \in logRequests' : \A q \in LogQuery : IsUpdate(s, q) /\ IsUpdate(t, q) => s = t
        <3> SUFFICES ASSUME NEW s \in logRequests', NEW t \in logRequests', NEW q \in LogQuery,
                            IsUpdate(s, q), IsUpdate(t, q)
                     PROVE  s = t
            OBVIOUS
        <3>1. s = new => IsUpdate(r, q)
            BY <1>5 DEF IsUpdate
        <3>2. t = new => IsUpdate(r, q)
            BY <1>5 DEF IsUpdate
        <3>3. QED BY <3>1, <3>2, <2>1, <1>6 DEF AloneUnderWay
    <2>4. RunUnderWay' => sqlQueries'[Unrun] = <<>> /\ ~Updating(Unrun)'
        BY <2>1, <1>1, <1>3, <1>11 DEF AloneUnderWay
    <2>5. ASSUME NEW s \in logRequests', s.kind = "run"
          PROVE  stored'[Unrun] = IF s.served THEN "plain" ELSE "none"
        <3>1. CASE r.kind = "run"
            BY <3>1, <2>5, <1>0, <1>1, <1>3, <1>5, <1>6 DEF Unstored
        <3>2. CASE r.kind # "run"
            <4>1. s \in logRequests /\ RunUnderWay
                BY <3>2, <2>5, <1>5, <1>6 DEF RunUnderWay
            <4>2. r.kind = "update" => r.query # Unrun
                BY <4>1, <2>1 DEF AloneUnderWay, Updating, IsUpdate
            <4>3. stored'[Unrun] = stored[Unrun]
                BY <4>2, <3>2, <1>1, <1>3
            <4>4. QED BY <4>1, <4>3, <2>1, <2>5 DEF AloneUnderWay
        <3>3. QED BY <3>1, <3>2
    <2>6. QED BY <2>2, <2>3, <2>4, <2>5 DEF AloneUnderWay
<1>13. ASSUME ~upset, logLoaded, NEW q \in LogQuery PROVE ShownRight(q)'
    <2>1. ShownRight(q) /\ AloneUnderWay
        BY <1>0, <1>13 DEF Calm
    <2>2. CASE Updating(q)
        <3>1. stored'[q] # "none" /\ Len(sqlQueries'[q]) = 1
            BY <2>1, <2>2, <1>1, <1>8 DEF ShownRight
        <3>2. ASSUME NEW s \in logRequests', IsUpdate(s, q), s.served PROVE stored'[q] = s.isFavorite
            <4>1. CASE s = new
                <5>1. r.kind = "update" /\ r.query = q
                    BY <4>1, <3>2, <1>5 DEF IsUpdate
                <5>2. QED BY <5>1, <4>1, <1>1, <1>3, <1>5
            <4>2. CASE s # new
                <5>1. s \in logRequests /\ s # r
                    BY <4>2, <1>6
                <5>2. ~IsUpdate(r, q)
                    BY <5>1, <3>2, <2>1 DEF AloneUnderWay
                <5>3. ~(r.kind = "run" /\ r.query = q)
                    BY <5>1, <3>2, <2>1, <1>0 DEF AloneUnderWay, RunUnderWay, Updating, Unstored
                <5>4. stored'[q] = stored[q]
                    BY <5>2, <5>3, <1>1, <1>3 DEF IsUpdate
                <5>5. QED BY <5>1, <5>4, <3>2, <2>1, <2>2 DEF ShownRight
            <4>3. QED BY <4>1, <4>2
        <3>3. QED BY <3>1, <3>2, <2>2, <1>11 DEF ShownRight
    <2>3. CASE ~Updating(q) /\ ~(q = Unrun /\ RunUnderWay)
        <3>1. ~(r.kind \in {"update", "run"} /\ r.query = q)
            BY <2>3, <1>0 DEF Updating, RunUnderWay, IsUpdate, Unstored
        <3>2. stored'[q] = stored[q]
            BY <3>1, <1>1, <1>3
        <3>3. Shows(q)'
            BY <3>2, <2>1, <2>3, <1>1 DEF ShownRight, Shows
        <3>4. QED BY <3>3, <2>3, <1>11 DEF ShownRight
    <2>4. CASE ~Updating(q) /\ q = Unrun /\ RunUnderWay
        BY <2>4, <1>11 DEF ShownRight
    <2>5. QED BY <2>2, <2>3, <2>4
<1>14. Calm'
    BY <1>0, <1>1, <1>12, <1>13 DEF Calm
<1>15. QED BY <1>7, <1>10, <1>14 DEF LogInv

\* What is pushed stands once, if nothing was listed.
LEMMA Pushes ==
    ASSUME LogInv, NEW q \in LogQuery, NEW star \in Log!Star
    PROVE  /\ Log!Pushed(q, star) \in Seq(Log!Object) /\ Len(Log!Pushed(q, star)) <= 2
           /\ sqlQueries[q] = <<>> => /\ Log!Pushed(q, star) = <<Log!Fresh(star)>>
                                      /\ Len(Log!Pushed(q, star)) = 1
                                      /\ Log!Pushed(q, star)[1] = Log!Fresh(star)
<1>1. /\ sqlQueries[q] \in Seq(Log!Object) /\ Len(sqlQueries[q]) \in Nat /\ Len(sqlQueries[q]) <= 2
      /\ Log!Fresh(star) \in Log!Object
    BY LogFacts DEF LogInv, LogTyped, Log!Object, Log!Fresh
<1>2. /\ Append(sqlQueries[q], Log!Fresh(star)) \in Seq(Log!Object)
      /\ Len(Append(sqlQueries[q], Log!Fresh(star))) = Len(sqlQueries[q]) + 1
    BY <1>1
<1>3. Log!Pushed(q, star) = IF Len(sqlQueries[q]) = 2 THEN sqlQueries[q]
                            ELSE Append(sqlQueries[q], Log!Fresh(star))
    BY DEF Log!Pushed, Log!MaxObjects
<1>4. sqlQueries[q] = <<>> => Log!Pushed(q, star) = <<Log!Fresh(star)>>
    BY <1>3
<1>5. Log!Pushed(q, star) \in Seq(Log!Object)
    BY <1>1, <1>2, <1>3
<1>6. Len(Log!Pushed(q, star)) <= 2
    <2>1. CASE Len(sqlQueries[q]) = 2
        BY <2>1, <1>1, <1>3
    <2>2. CASE Len(sqlQueries[q]) # 2
        <3>1. Len(Log!Pushed(q, star)) = Len(sqlQueries[q]) + 1
            BY <2>2, <1>2, <1>3
        <3>2. \A n \in Nat : n <= 2 /\ n # 2 => n + 1 <= 2
            OBVIOUS
        <3>3. QED BY <3>1, <3>2, <2>2, <1>1, Zenon
    <2>3. QED BY <2>1, <2>2
<1>7. ASSUME NEW x PROVE Len(<<x>>) = 1 /\ <<x>>[1] = x
    OBVIOUS
<1>8. QED BY <1>4, <1>5, <1>6, <1>7

LEMMA LogOwnAnswered ==
    ASSUME LogInv, NEW r \in logRequests, Log!OwnAnswered(r), UNCHANGED <<logUser, cancelled>>
    PROVE  LogInv'
<1>0. LogTyped /\ Unstored /\ Calm
    BY DEF LogInv
<1>1. /\ r.served /\ r.kind = "own" /\ logLoaded' = TRUE
      /\ sqlQueries' = [q \in LogQuery |-> IF r.answer[q] = "none" THEN sqlQueries[q]
                                           ELSE Log!Pushed(q, r.answer[q])]
      /\ UNCHANGED <<stored, upset>>
    BY DEF Log!OwnAnswered, Log!Answered
<1>2. PICK shared : /\ shared \subseteq {Log!Sent("shared", Unrun, "none")}
                    /\ logRequests' = (logRequests \ {r}) \cup shared
    BY DEF Log!OwnAnswered
<1>3. PICK new : new = Log!Sent("shared", Unrun, "none")
    OBVIOUS
<1>4. IsSent(new, "shared", Unrun, "none")
    <2>1. "shared" \in Log!LogKind /\ "none" \in Log!Star /\ Unrun \in LogQuery
        BY LogFacts DEF Log!LogKind, Log!Star
    <2>2. QED BY <2>1, <1>3, SentTyped
<1>5. \A s \in logRequests' : s = new \/ (s \in logRequests /\ s # r)
    BY <1>2, <1>3
<1>6. \A q \in LogQuery : /\ r.answer[q] \in Log!Star
                          /\ sqlQueries'[q] = IF r.answer[q] = "none" THEN sqlQueries[q]
                                              ELSE Log!Pushed(q, r.answer[q])
    BY <1>1, LogFacts DEF Log!Listing
<1>7. \A q \in LogQuery : sqlQueries'[q] \in Seq(Log!Object) /\ Len(sqlQueries'[q]) <= 2
    <2> TAKE q \in LogQuery
    <2>1. CASE r.answer[q] = "none"
        BY <2>1, <1>0, <1>6 DEF LogTyped
    <2>2. CASE r.answer[q] # "none"
        BY <2>2, <1>6, Pushes
    <2>3. QED BY <2>1, <2>2
<1>8. LogTyped'
    <2>1. sqlQueries' \in [LogQuery -> Seq(Log!Object)]
        BY <1>1, <1>6, <1>7
    <2>2. logRequests' \subseteq Log!LogRequest
        BY <1>0, <1>4, <1>5 DEF LogTyped, IsSent
    <2>3. QED BY <2>1, <2>2, <1>0, <1>1, <1>7 DEF LogTyped
<1>9. Unstored'
    <2>1. new.kind = "shared" /\ new = Log!Sent(new.kind, new.query, new.isFavorite) /\ new.answer[Unrun] = "none"
        BY <1>4, LogFacts DEF IsSent
    <2>2. stored[Unrun] = "none" => sqlQueries'[Unrun] = <<>>
        BY <1>0, <1>6, LogFacts DEF Unstored
    <2>3. QED BY <1>0, <1>1, <1>5, <2>1, <2>2 DEF Unstored
<1>10. ASSUME ~upset
       PROVE  /\ AloneUnderWay' /\ \A q \in LogQuery : ShownRight(q)' /\ Len(sqlQueries'[q]) <= 1
    <2>1. logRequests = {r} /\ sqlQueries = Log!Empty /\ r.answer = stored
        BY <1>0, <1>1, <1>10 DEF Calm, AloneUnderWay
    <2>2. \A s \in logRequests' : s = new /\ s.kind = "shared"
        BY <2>1, <1>4, <1>5 DEF IsSent
    <2>3. ~RunUnderWay' /\ \A q \in LogQuery : ~Updating(q)'
        BY <2>2 DEF RunUnderWay, Updating, IsUpdate
    <2>4. AloneUnderWay'
        BY <2>2, <2>3 DEF AloneUnderWay, IsUpdate
    <2>5. ASSUME NEW q \in LogQuery PROVE Shows(q)' /\ Len(sqlQueries'[q]) <= 1
        <3>1. sqlQueries[q] = <<>> /\ Len(sqlQueries[q]) = 0
            BY <2>1, EmptyLog
        <3>2. CASE stored[q] = "none"
            BY <3>1, <3>2, <2>1, <1>1, <1>6 DEF Shows
        <3>3. CASE stored[q] # "none"
            <4>1. /\ Len(Log!Pushed(q, r.answer[q])) = 1
                  /\ Log!Pushed(q, r.answer[q])[1] = Log!Fresh(r.answer[q])
                BY <3>1, <1>6, Pushes
            <4>2. r.answer[q] = stored[q] /\ stored' = stored
                BY <2>1, <1>1
            <4>3. sqlQueries'[q] = Log!Pushed(q, r.answer[q])
                BY <3>3, <4>2, <1>6
            <4>4. Len(sqlQueries'[q]) = 1 /\ sqlQueries'[q][1] = Log!Fresh(stored'[q]) /\ stored'[q] # "none"
                BY <3>3, <4>1, <4>2, <4>3
            <4>5. Shows(q)'
                BY <4>4 DEF Shows
            <4>6. QED BY <4>4, <4>5
        <3>4. QED BY <3>2, <3>3
    <2>6. QED BY <2>3, <2>4, <2>5 DEF ShownRight
<1>11. Calm'
    BY <1>1, <1>10 DEF Calm
<1>12. QED BY <1>8, <1>9, <1>11 DEF LogInv

LEMMA LogSharedAnswered ==
    ASSUME LogInv, NEW r \in logRequests, NEW some \in SUBSET LogQuery, Log!SharedAnswered(r, some),
           UNCHANGED <<logUser, cancelled>>
    PROVE  LogInv'
<1>0. LogTyped /\ Unstored /\ Calm
    BY DEF LogInv
<1>1. /\ r.served /\ r.kind = "shared" /\ logRequests' = logRequests \ {r}
      /\ some \subseteq {q \in LogQuery \ {Unrun} : r.answer[q] # "none"}
      /\ sqlQueries' = [q \in LogQuery |-> IF q \in Log!NotFoundOf(some) THEN Log!Pushed(q, r.answer[q])
                                           ELSE sqlQueries[q]]
      /\ UNCHANGED <<stored, logLoaded, upset>>
    BY DEF Log!SharedAnswered, Log!Answered
<1>2. \A q \in LogQuery :
          \/ sqlQueries'[q] = sqlQueries[q]
          \/ q # Unrun /\ sqlQueries[q] = <<>> /\ sqlQueries'[q] = Log!Pushed(q, r.answer[q])
    BY <1>1 DEF Log!NotFoundOf
<1>3. \A q \in LogQuery : /\ sqlQueries'[q] \in Seq(Log!Object)
                          /\ Len(sqlQueries'[q]) <= 2
                          /\ Len(sqlQueries'[q]) = Len(sqlQueries[q]) \/ Len(sqlQueries'[q]) = 1
    <2> TAKE q \in LogQuery
    <2>1. CASE sqlQueries'[q] = sqlQueries[q]
        BY <2>1, <1>0 DEF LogTyped
    <2>2. CASE sqlQueries[q] = <<>> /\ sqlQueries'[q] = Log!Pushed(q, r.answer[q])
        <3>1. r.answer[q] \in Log!Star
            BY LogFacts DEF Log!Listing
        <3>2. QED BY <2>2, <3>1, Pushes
    <2>3. QED BY <2>1, <2>2, <1>2
<1>4. LogTyped'
    <2>1. sqlQueries' \in [LogQuery -> Seq(Log!Object)]
        BY <1>1, <1>3
    <2>2. QED BY <2>1, <1>0, <1>1, <1>3 DEF LogTyped
<1>5. sqlQueries'[Unrun] = sqlQueries[Unrun]
    BY <1>2, LogFacts
<1>6. Unstored'
    BY <1>0, <1>1, <1>5 DEF Unstored
<1>7. /\ \A q \in LogQuery : Updating(q)' <=> Updating(q)
      /\ RunUnderWay' <=> RunUnderWay
    BY <1>1 DEF Updating, RunUnderWay, IsUpdate
<1>8. ASSUME ~upset PROVE AloneUnderWay'
    <2>1. AloneUnderWay
        BY <1>0, <1>8 DEF Calm
    <2>2. \A s \in logRequests : s.kind # "own"
        BY <2>1, <1>1 DEF AloneUnderWay
    <2>3. QED BY <2>1, <2>2, <1>1, <1>5, <1>7, LogFacts DEF AloneUnderWay
<1>9. ASSUME ~upset, logLoaded, NEW q \in LogQuery PROVE ShownRight(q)'
    <2>1. ShownRight(q) /\ AloneUnderWay
        BY <1>0, <1>9 DEF Calm
    <2>2. sqlQueries'[q] = sqlQueries[q]
        <3>1. q # Unrun => sqlQueries[q] # <<>>
            BY <2>1, <1>0, LogFacts DEF ShownRight, Shows, Unstored
        <3>2. QED BY <3>1, <1>2
    <2>3. \A s \in logRequests' : s \in logRequests
        BY <1>1
    <2>4. CASE Updating(q)
        BY <2>1, <2>2, <2>3, <2>4, <1>1, <1>7 DEF ShownRight, IsUpdate
    <2>5. CASE ~Updating(q)
        BY <2>1, <2>2, <2>5, <1>1, <1>7 DEF ShownRight, Shows
    <2>6. QED BY <2>4, <2>5
<1>10. Calm'
    <2>1. ASSUME ~upset, NEW q \in LogQuery PROVE Len(sqlQueries'[q]) <= 1
        <3>1. Len(sqlQueries[q]) <= 1
            BY <2>1, <1>0 DEF Calm
        <3>2. Len(sqlQueries'[q]) = Len(sqlQueries[q]) \/ Len(sqlQueries'[q]) = 1
            BY <1>3
        <3>3. CASE Len(sqlQueries'[q]) = Len(sqlQueries[q])
            BY <3>1, <3>3, Zenon
        <3>4. CASE Len(sqlQueries'[q]) = 1
            BY <3>4
        <3>5. QED BY <3>2, <3>3, <3>4
    <2>2. QED BY <2>1, <1>1, <1>8, <1>9 DEF Calm
<1>11. QED BY <1>4, <1>6, <1>10 DEF LogInv

LEMMA LogUpdateAnswered ==
    ASSUME LogInv, NEW r \in logRequests, Log!UpdateAnswered(r), UNCHANGED <<logUser, cancelled>>
    PROVE  LogInv'
<1> DEFINE q == r.query
           rest == IF sqlQueries[q] = <<>> THEN sqlQueries[q] ELSE Tail(sqlQueries[q])
           fresh == Log!Fresh(r.isFavorite)
<1>0. LogTyped /\ Unstored /\ Calm
    BY DEF LogInv
<1>1. /\ r.served /\ r.kind = "update" /\ logRequests' = logRequests \ {r}
      /\ sqlQueries' = [sqlQueries EXCEPT ![q] = Append(rest, fresh)]
      /\ UNCHANGED <<stored, logLoaded, upset>>
    BY DEF Log!UpdateAnswered, Log!Answered
<1>2. /\ q \in LogQuery /\ sqlQueries[q] \in Seq(Log!Object) /\ fresh \in Log!Object
      /\ Len(sqlQueries[q]) \in Nat /\ Len(sqlQueries[q]) <= 2
      /\ sqlQueries[q] = <<>> <=> Len(sqlQueries[q]) = 0
    BY <1>0, LogFacts DEF LogTyped, Log!Fresh, Log!Object
<1>3. /\ rest \in Seq(Log!Object) /\ Len(rest) \in Nat /\ Len(rest) <= 1
      /\ Len(sqlQueries[q]) <= 1 => Len(rest) = 0
    <2>1. CASE sqlQueries[q] = <<>>
        BY <2>1, <1>2
    <2>2. CASE sqlQueries[q] # <<>>
        <3> DEFINE list == sqlQueries[q]
        <3>1. list \in Seq(Log!Object) /\ list # <<>>
            BY <2>2, <1>2
        <3> HIDE DEF list
        <3>2. Tail(list) \in Seq(Log!Object) /\ Len(Tail(list)) = Len(list) - 1
            BY <3>1, HeadTailProperties
        <3>3. rest = Tail(list) /\ Len(list) \in Nat /\ Len(list) <= 2 /\ Len(list) # 0
            BY <2>2, <1>2 DEF list
        <3>4. Len(sqlQueries[q]) = Len(list)
            BY DEF list
        <3> HIDE DEF rest
        <3>5. /\ rest \in Seq(Log!Object) /\ Len(rest) = Len(list) - 1
            BY <3>2, <3>3
        <3>6. QED BY <3>3, <3>4, <3>5
    <2>3. QED BY <2>1, <2>2
<1> HIDE DEF rest
<1>4. /\ Append(rest, fresh) \in Seq(Log!Object)
      /\ Len(Append(rest, fresh)) = Len(rest) + 1
      /\ Append(rest, fresh)[Len(rest) + 1] = fresh
    BY <1>2, <1>3, AppendProperties
<1> HIDE DEF fresh
<1>5. /\ \A p \in LogQuery : p # q => sqlQueries'[p] = sqlQueries[p]
      /\ sqlQueries' \in [LogQuery -> Seq(Log!Object)] /\ sqlQueries'[q] = Append(rest, fresh)
    BY <1>0, <1>1, <1>2, <1>4 DEF LogTyped
<1>6. LogTyped'
    BY <1>0, <1>1, <1>3, <1>4, <1>5 DEF LogTyped
<1>7. q = Unrun => stored[Unrun] # "none"
    BY <1>0, <1>1 DEF Unstored
<1>8. Unstored'
    BY <1>0, <1>1, <1>5, <1>7, LogFacts DEF Unstored
<1>9. ASSUME ~upset PROVE AloneUnderWay'
    <2>1. AloneUnderWay
        BY <1>0, <1>9 DEF Calm
    <2>2. \A s \in logRequests : s.kind # "own"
        BY <2>1, <1>1 DEF AloneUnderWay
    <2>3. RunUnderWay => q # Unrun
        BY <2>1, <1>1 DEF AloneUnderWay, Updating, IsUpdate
    <2>4. (RunUnderWay' => RunUnderWay) /\ (Updating(Unrun)' => Updating(Unrun))
        BY <1>1 DEF RunUnderWay, Updating
    <2>5. RunUnderWay' => sqlQueries'[Unrun] = <<>> /\ ~Updating(Unrun)'
        BY <2>1, <2>3, <2>4, <1>5, LogFacts DEF AloneUnderWay
    <2>6. QED BY <2>1, <2>2, <2>5, <1>1 DEF AloneUnderWay
<1>10. ASSUME ~upset, logLoaded, NEW p \in LogQuery PROVE ShownRight(p)'
    <2>1. ShownRight(p) /\ ShownRight(q) /\ AloneUnderWay /\ Len(sqlQueries[q]) <= 1
        BY <1>0, <1>2, <1>10 DEF Calm
    <2>2. RunUnderWay => RunUnderWay'
        BY <1>1 DEF RunUnderWay
    <2>3. CASE p = q
        <3>1. IsUpdate(r, q)
            BY <1>1 DEF IsUpdate
        <3>2. ~Updating(q)'
            BY <3>1, <2>1, <1>1, <1>2 DEF Updating, AloneUnderWay
        <3>3. stored[q] # "none" /\ stored[q] = r.isFavorite
            BY <3>1, <2>1, <1>1 DEF ShownRight, Updating
        <3>4. Len(sqlQueries'[q]) = 1 /\ sqlQueries'[q][1] = fresh
            BY <2>1, <1>3, <1>4, <1>5
        <3>5. Shows(q)'
            BY <3>3, <3>4, <1>1 DEF Shows, fresh
        <3>6. QED BY <2>3, <3>2, <3>5 DEF ShownRight
    <2>4. CASE p # q
        <3>1. sqlQueries'[p] = sqlQueries[p] /\ \A s \in logRequests' : s \in logRequests
            BY <2>4, <1>1, <1>5
        <3>2. Updating(p)' <=> Updating(p)
            BY <2>4, <1>1 DEF Updating, IsUpdate
        <3>3. CASE Updating(p)
            BY <3>1, <3>2, <3>3, <2>1, <1>1 DEF ShownRight, IsUpdate
        <3>4. CASE ~Updating(p)
            BY <3>1, <3>2, <3>4, <2>1, <2>2, <1>1 DEF ShownRight, Shows
        <3>5. QED BY <3>3, <3>4
    <2>5. QED BY <2>3, <2>4
<1>11. Calm'
    <2>1. ~upset => \A p \in LogQuery : Len(sqlQueries'[p]) <= 1
        BY <1>0, <1>2, <1>3, <1>4, <1>5 DEF Calm
    <2>2. QED BY <2>1, <1>1, <1>9, <1>10 DEF Calm
<1>12. QED BY <1>6, <1>8, <1>11 DEF LogInv

LEMMA LogRunAnswered ==
    ASSUME LogInv, NEW r \in logRequests, Log!RunAnswered(r), UNCHANGED <<logUser, cancelled>>
    PROVE  LogInv'
<1>0. LogTyped /\ Unstored /\ Calm
    BY DEF LogInv
<1>1. /\ r.served /\ r.kind = "run" /\ logRequests' = logRequests \ {r} /\ r.query = Unrun
      /\ sqlQueries' = [sqlQueries EXCEPT ![Unrun] = Log!Pushed(Unrun, "plain")]
      /\ UNCHANGED <<stored, logLoaded, upset>>
    BY <1>0 DEF Log!RunAnswered, Log!Answered, Unstored
<1>2. /\ Log!Pushed(Unrun, "plain") \in Seq(Log!Object) /\ Len(Log!Pushed(Unrun, "plain")) <= 2
      /\ sqlQueries[Unrun] = <<>> => /\ Len(Log!Pushed(Unrun, "plain")) = 1
                                     /\ Log!Pushed(Unrun, "plain")[1] = Log!Fresh("plain")
    <2>1. Unrun \in LogQuery /\ "plain" \in Log!Star
        BY LogFacts DEF Log!Star
    <2>2. QED BY <2>1, Pushes
<1>3. /\ \A p \in LogQuery : p # Unrun => sqlQueries'[p] = sqlQueries[p]
      /\ sqlQueries' \in [LogQuery -> Seq(Log!Object)]
      /\ sqlQueries'[Unrun] = Log!Pushed(Unrun, "plain") /\ Unrun \in LogQuery
    BY <1>0, <1>1, <1>2, LogFacts DEF LogTyped
<1>4. LogTyped'
    BY <1>0, <1>1, <1>2, <1>3 DEF LogTyped
<1>5. stored[Unrun] # "none"
    BY <1>0, <1>1 DEF Unstored
<1>6. Unstored'
    BY <1>0, <1>1, <1>5 DEF Unstored
<1>7. ASSUME ~upset
      PROVE  /\ AloneUnderWay' /\ Len(sqlQueries'[Unrun]) = 1
             /\ sqlQueries'[Unrun][1] = Log!Fresh("plain") /\ stored[Unrun] = "plain"
             /\ ~RunUnderWay' /\ ~Updating(Unrun)'
    <2>1. AloneUnderWay
        BY <1>0, <1>7 DEF Calm
    <2>2. \A s \in logRequests : s.kind # "own"
        BY <2>1, <1>1 DEF AloneUnderWay
    <2>3. sqlQueries[Unrun] = <<>> /\ ~Updating(Unrun) /\ stored[Unrun] = "plain"
        BY <2>1, <1>1 DEF AloneUnderWay, RunUnderWay
    <2>4. ~RunUnderWay' /\ \A s \in logRequests' : s.kind # "run"
        BY <1>0, <1>1 DEF RunUnderWay, Unstored
    <2>5. ~Updating(Unrun)'
        BY <2>3, <1>1 DEF Updating
    <2>6. QED BY <2>1, <2>2, <2>3, <2>4, <2>5, <1>1, <1>2, <1>3 DEF AloneUnderWay
<1>8. ASSUME ~upset, logLoaded, NEW p \in LogQuery PROVE ShownRight(p)'
    <2>1. ShownRight(p)
        BY <1>0, <1>8 DEF Calm
    <2>2. CASE p = Unrun
        BY <2>2, <1>1, <1>7, <1>8 DEF ShownRight, Shows
    <2>3. CASE p # Unrun
        <3>1. sqlQueries'[p] = sqlQueries[p] /\ \A s \in logRequests' : s \in logRequests
            BY <2>3, <1>1, <1>3
        <3>2. Updating(p)' <=> Updating(p)
            BY <1>1 DEF Updating, IsUpdate
        <3>3. QED BY <3>1, <3>2, <2>1, <2>3, <1>1 DEF ShownRight, Shows, IsUpdate
    <2>4. QED BY <2>2, <2>3
<1>9. Calm'
    <2>1. ASSUME ~upset, NEW p \in LogQuery PROVE Len(sqlQueries'[p]) <= 1
        <3>1. CASE p = Unrun
            <4>1. Len(sqlQueries'[p]) = 1
                BY <2>1, <3>1, <1>7
            <4>2. QED BY <4>1
        <3>2. CASE p # Unrun
            BY <2>1, <3>2, <1>0, <1>3 DEF Calm
        <3>3. QED BY <3>1, <3>2
    <2>2. QED BY <2>1, <1>1, <1>7, <1>8 DEF Calm
<1>10. QED BY <1>4, <1>6, <1>9 DEF LogInv

LEMMA LogFails ==
    ASSUME LogInv, NEW r \in logRequests, Log!LogRequestFails(r), UNCHANGED <<logUser, cancelled>>
    PROVE  LogInv'
<1>0. LogTyped /\ Unstored /\ Calm
    BY DEF LogInv
<1>1. /\ logRequests' = logRequests \ {r} /\ upset' = (upset \/ r.kind \in {"update", "run"})
      /\ UNCHANGED <<stored, sqlQueries, logLoaded>>
    BY DEF Log!LogRequestFails
<1>2. upset' \in BOOLEAN /\ (~upset' => ~upset /\ r.kind # "update" /\ r.kind # "run")
    BY <1>0, <1>1 DEF LogTyped
<1>3. LogTyped'
    BY <1>0, <1>1, <1>2 DEF LogTyped
<1>4. Unstored'
    BY <1>0, <1>1 DEF Unstored
<1>5. ASSUME ~upset' PROVE AloneUnderWay' /\ \A q \in LogQuery : logLoaded => ShownRight(q)'
    <2>1. AloneUnderWay /\ \A q \in LogQuery : logLoaded => ShownRight(q)
        BY <1>0, <1>2, <1>5 DEF Calm
    <2>2. /\ \A q \in LogQuery : Updating(q)' <=> Updating(q)
          /\ RunUnderWay' <=> RunUnderWay
          /\ \A s \in logRequests' : s \in logRequests
        BY <1>1, <1>2, <1>5 DEF Updating, RunUnderWay, IsUpdate
    <2>3. AloneUnderWay'
        <3>1. ASSUME NEW s \in logRequests', s.kind = "own"
              PROVE  /\ logRequests' = {s} /\ sqlQueries' = Log!Empty /\ ~logLoaded'
                     /\ s.served => s.answer = stored'
            BY <3>1, <2>1, <2>2, <1>1 DEF AloneUnderWay
        <3>2. /\ \A s, t \in logRequests' : \A q \in LogQuery : IsUpdate(s, q)' /\ IsUpdate(t, q)' => s = t
              /\ \A s \in logRequests' : s.kind = "run" => stored'[Unrun] = IF s.served THEN "plain" ELSE "none"
            BY <2>1, <2>2, <1>1 DEF AloneUnderWay, IsUpdate
        <3>3. RunUnderWay' => sqlQueries'[Unrun] = <<>> /\ ~Updating(Unrun)'
            BY <2>1, <2>2, <1>1, LogFacts DEF AloneUnderWay
        <3>4. QED BY <3>1, <3>2, <3>3 DEF AloneUnderWay
    <2>4. ASSUME NEW q \in LogQuery, logLoaded PROVE ShownRight(q)'
        BY <2>1, <2>2, <2>4, <1>1 DEF ShownRight, Shows, IsUpdate
    <2>5. QED BY <2>3, <2>4
<1>6. Calm'
    BY <1>0, <1>1, <1>2, <1>5 DEF Calm
<1>7. QED BY <1>3, <1>4, <1>6 DEF LogInv

LEMMA LogStep ==
    ASSUME LogInv, Log!LogNext
    PROVE  LogInv'
<1>1. ASSUME NEW q \in LogQuery, Log!ToggleIsFavorite(q) \/ Log!RunQuery(q) PROVE LogInv'
    BY <1>1, LogToggles, LogRuns
<1>2. ASSUME Log!LogAnswered PROVE LogInv'
    BY <1>2, LogServes, LogOwnAnswered, LogSharedAnswered, LogUpdateAnswered, LogRunAnswered, LogFails
       DEF Log!LogAnswered
<1>3. QED BY <1>1, <1>2, LogLoads, LogSessions, LogLogsOut DEF Log!LogNext

-----------------------------------------------------------------------------
(* The lists of groups                                                     *)

\* A set of numbers that is not empty has a least one.
LEMMA Least ==
    ASSUME NEW T \in SUBSET Nat, T # {}
    PROVE  \E n \in T : \A m \in T : n <= m
<1>1. PICK n \in T : \A m \in T : ~(<<m, n>> \in OpToRel(<, Nat))
    <2>1. T \subseteq Nat
        OBVIOUS
    <2>2. QED BY <2>1, WFMin, NatLessThanWellFounded, Zenon
<1>2. \A m \in T : ~(m < n)
    BY <1>1, Zenon DEF OpToRel
<1>3. QED BY <1>2

\* The lists together hold one object of a group at most, and it is in one of them.
OneEach(joined, public) ==
    /\ joined \cap public = {}
    /\ \A o, p \in joined \cup public : o.group = p.group => o = p

GroupsInv == overtaken \in BOOLEAN /\ (~overtaken => OneEach(joinedGroups, publicGroups))

LEMMA GroupsInit == TabInit => GroupsInv
<1>1. TabInit => Groups!GroupInit
    BY DEF TabInit
<1>2. Groups!GroupInit => GroupsInv
    BY DEF Groups!GroupInit, GroupsInv, OneEach, Groups!Objects
<1>3. QED BY <1>1, <1>2

LEMMA SameCardinality == \A S : Groups!Cardinality(S) = Cardinality(S)
BY DEF Groups!Cardinality, Cardinality

\* What is found of a group is what is listed of it, if that is one object.
LEMMA FindsAll ==
    ASSUME OneEach(joinedGroups, publicGroups), NEW groups, NEW old \in Groups!Finds(groups)
    PROVE  \A o \in Groups!Objects : o.group \in groups => o \in old
<1> SUFFICES ASSUME NEW o \in Groups!Objects, o.group \in groups PROVE o \in old
    OBVIOUS
<1>1. Groups!Found(o.group) = {o}
    BY DEF OneEach, Groups!Found, Groups!Objects
<1>2. \A g \in groups : Cardinality(old \cap Groups!Found(g)) = IF Groups!Found(g) = {} THEN 0 ELSE 1
    BY SameCardinality DEF Groups!Finds
<1>3. Cardinality(old \cap {o}) = 1
    BY <1>1, <1>2
<1>4. old \cap {o} # {}
    BY <1>3, FS_EmptySet
<1>5. QED BY <1>4

\* So one object of each group is listed after an answer has replaced what it lists.
LEMMA ReplacesOnes ==
    ASSUME OneEach(joinedGroups, publicGroups), NEW joined, NEW public, joined \cap public = {},
           NEW old \in Groups!Finds(joined \cup public), Groups!Replace(joined, public, old)
    PROVE  OneEach(joinedGroups', publicGroups')
<1>1. ASSUME NEW g PROVE Groups!New(g).group = g
    BY DEF Groups!New
<1>2. /\ joinedGroups' = (joinedGroups \ old) \cup {Groups!New(g) : g \in joined}
      /\ publicGroups' = (publicGroups \ old) \cup {Groups!New(g) : g \in public}
    BY DEF Groups!Replace
<1>3. \A o \in Groups!Objects : o \notin old => o.group \notin joined \cup public
    BY FindsAll
<1>4. /\ \A o \in joinedGroups' : \/ o \in joinedGroups /\ o \notin old /\ o.group \notin joined \cup public
                                  \/ o.group \in joined /\ o = Groups!New(o.group)
      /\ \A o \in publicGroups' : \/ o \in publicGroups /\ o \notin old /\ o.group \notin joined \cup public
                                  \/ o.group \in public /\ o = Groups!New(o.group)
    BY <1>1, <1>2, <1>3 DEF Groups!Objects
<1>5. joinedGroups' \cap publicGroups' = {}
    BY <1>4 DEF OneEach
<1>6. \A o, p \in joinedGroups' \cup publicGroups' : o.group = p.group => o = p
    BY <1>4 DEF OneEach
<1>7. QED BY <1>5, <1>6 DEF OneEach

LEMMA GroupsStep ==
    ASSUME GroupsInv, Groups!GroupNext
    PROVE  GroupsInv'
<1>1. CASE UNCHANGED overtaken /\ joinedGroups' \subseteq joinedGroups /\ publicGroups' \subseteq publicGroups
    BY <1>1 DEF GroupsInv, OneEach
<1>2. CASE Groups!GroupLogin \/ Groups!GroupLogout \/ Groups!GroupSessionLost
    BY <1>1, <1>2 DEF Groups!GroupLogin, Groups!GroupLogout, Groups!GroupSessionLost
<1>3. ASSUME NEW list, NEW o, Groups!SetActiveGroup(list, o) PROVE GroupsInv'
    BY <1>1, <1>3 DEF Groups!SetActiveGroup
<1>4. CASE Groups!AskForGroups
    BY <1>1, <1>4 DEF Groups!AskForGroups
<1>5. ASSUME NEW r \in groupRequests, NEW listed \in SUBSET Group, Groups!ListAnswered(r, listed)
      PROVE  GroupsInv'
    <2>1. /\ overtaken' = overtaken
          /\ \E old \in Groups!Finds(listed) :
                 Groups!Replace(listed, {}, old) \/ Groups!Replace({}, listed, old)
        BY <1>5 DEF Groups!ListAnswered
    <2>2. listed \cup {} = listed /\ {} \cup listed = listed /\ listed \cap {} = {} /\ {} \cap listed = {}
        OBVIOUS
    <2>3. OneEach(joinedGroups, publicGroups) => OneEach(joinedGroups', publicGroups')
        BY <2>1, <2>2, ReplacesOnes
    <2>4. QED BY <2>1, <2>3 DEF GroupsInv
<1>6. ASSUME NEW r \in groupRequests, NEW listed \in SUBSET Group, Groups!GroupReread(r, listed)
      PROVE  GroupsInv'
    <2> DEFINE g == r.object.group
    <2>1. /\ overtaken' = overtaken /\ listed \subseteq {g}
          /\ \E old \in Groups!Finds({g}) : Groups!Replace(listed, {g} \ listed, old)
        BY <1>6 DEF Groups!GroupReread
    <2> HIDE DEF g
    <2>2. listed \cup ({g} \ listed) = {g} /\ listed \cap ({g} \ listed) = {}
        BY <2>1
    <2>3. OneEach(joinedGroups, publicGroups) => OneEach(joinedGroups', publicGroups')
        BY <2>1, <2>2, ReplacesOnes
    <2>4. QED BY <2>1, <2>3 DEF GroupsInv
<1>7. ASSUME NEW r \in groupRequests, Groups!GroupAnswered(r) PROVE GroupsInv'
    <2> DEFINE added == Groups!New(r.object.group)
    <2>1. /\ joinedGroups' = (joinedGroups \ {r.object}) \cup {added} /\ publicGroups' = publicGroups
          /\ overtaken' = (overtaken \/ \E o \in Groups!Found(added.group) : o \notin {r.object} \cap joinedGroups)
        BY <1>7 DEF Groups!GroupAnswered
    <2> HIDE DEF added
    <2>2. overtaken' \in BOOLEAN
        BY <2>1 DEF GroupsInv
    <2>3. ASSUME ~overtaken' PROVE OneEach(joinedGroups', publicGroups')
        <3>1. /\ OneEach(joinedGroups, publicGroups)
              /\ \A o \in Groups!Objects : o.group = added.group => o = r.object /\ o \in joinedGroups
            BY <2>1, <2>3 DEF GroupsInv, Groups!Found
        <3>2. /\ \A o \in joinedGroups' : o = added \/ (o \in joinedGroups /\ o # r.object)
              /\ publicGroups' = publicGroups
            BY <2>1
        <3>3. \A o \in publicGroups : o.group # added.group
            BY <3>1 DEF OneEach, Groups!Objects
        <3>4. \A o \in joinedGroups' : o = added \/ (o \in joinedGroups /\ o.group # added.group)
            BY <3>1, <3>2 DEF Groups!Objects
        <3>5. QED BY <3>1, <3>2, <3>3, <3>4 DEF OneEach
    <2>4. QED BY <2>2, <2>3 DEF GroupsInv
<1>8. ASSUME NEW r \in groupRequests,
             Groups!GroupDestroyed(r) \/ Groups!GroupRefused(r) \/ \E public \in BOOLEAN : Groups!MembershipAnswered(r, public)
      PROVE  GroupsInv'
    BY <1>1, <1>8 DEF Groups!GroupDestroyed, Groups!GroupRefused, Groups!MembershipAnswered
<1>9. CASE Groups!GroupsAnswered
    BY <1>5, <1>6, <1>7, <1>8, <1>9 DEF Groups!GroupsAnswered
<1>10. QED BY <1>2, <1>3, <1>4, <1>9 DEF Groups!GroupNext

-----------------------------------------------------------------------------
(* The types of the lists of groups: the numbers of their objects do not   *)
(* run out                                                                 *)

\* The requests that are not loads are about an object; there are as many objects of a
\* group as requests and two, so that their numbers do not run out.
GroupsTyped ==
    /\ Groups!GroupTypeOK
    /\ \A r \in groupRequests : r.kind \notin Groups!Load => r.object \in Groups!Object
    /\ IsFiniteSet(groupRequests)
    /\ MaxGroupRequests = 0 => groupRequests = {}
    /\ \A g \in Group : /\ IsFiniteSet(Groups!Found(g))
                        /\ Cardinality(Groups!Found(g)) + Cardinality(groupRequests) <= MaxGroupRequests + 2

GroupObject(g, n) == [group |-> g, number |-> n]

\* Numbers of a group that are all taken are no more than its objects.
LEMMA TakenNumbers ==
    ASSUME NEW g, NEW S, IsFiniteSet(S), NEW n \in Nat, \A m \in 1..n : GroupObject(g, m) \in S
    PROVE  n <= Cardinality(S)
<1> DEFINE f == [m \in 1..n |-> GroupObject(g, m)]
<1>1. f \in [1..n -> S]
    OBVIOUS
<1>2. \A a, b \in 1..n : f[a] = f[b] => a = b
    BY DEF GroupObject
<1>3. f \in Injection(1..n, S)
    BY <1>1, <1>2 DEF Injection, IsInjective
<1> HIDE DEF f
<1>4. Cardinality(1..n) <= Cardinality(S)
    BY <1>3, FS_Injection
<1>5. Cardinality(1..n) = n
    BY FS_Interval
<1>6. QED BY <1>4, <1>5

\* The least number that is not taken is found among one more than there are objects.
LEMMA FreeNumber ==
    ASSUME NEW g, NEW S, IsFiniteSet(S)
    PROVE  \E n \in 1..(Cardinality(S) + 1) :
               GroupObject(g, n) \notin S /\ \A m \in 1..(n - 1) : GroupObject(g, m) \in S
<1> DEFINE T == {n \in Nat : n >= 1 /\ GroupObject(g, n) \notin S}
           k == Cardinality(S)
<1>1. k \in Nat
    BY FS_CardinalityType
<1> HIDE DEF k
<1>2. \E n \in 1..(k + 1) : GroupObject(g, n) \notin S
    <2> SUFFICES ASSUME \A n \in 1..(k + 1) : GroupObject(g, n) \in S PROVE FALSE
        OBVIOUS
    <2>1. k + 1 \in Nat
        BY <1>1
    <2>2. k + 1 <= Cardinality(S)
        BY <2>1, TakenNumbers
    <2>3. QED BY <1>1, <2>2 DEF k
<1>3. T \in SUBSET Nat /\ T # {}
    BY <1>1, <1>2
<1>4. PICK n \in T : \A m \in T : n <= m
    BY <1>3, Least
<1>5. n \in 1..(k + 1)
    <2>1. PICK m \in 1..(k + 1) : GroupObject(g, m) \notin S
        BY <1>2
    <2>2. m \in T
        BY <1>1, <2>1
    <2>3. QED BY <1>1, <1>4, <2>2
<1>6. \A m \in 1..(n - 1) : GroupObject(g, m) \in S
    BY <1>4
<1>7. QED BY <1>4, <1>5, <1>6 DEF k

LEMMA HeldOf ==
    ASSUME GroupsTyped, NEW g \in Group
    PROVE  /\ IsFiniteSet(Groups!Held(g))
           /\ Cardinality(Groups!Held(g)) <= Cardinality(Groups!Found(g)) + Cardinality(groupRequests)
<1> DEFINE asked == {r.object : r \in groupRequests}
           ofGroup == {o \in asked : o.group = g}
           found == Groups!Found(g)
<1>1. /\ IsFiniteSet(groupRequests) /\ IsFiniteSet(found)
      /\ Cardinality(groupRequests) \in Nat /\ Cardinality(found) \in Nat
    BY FS_CardinalityType DEF GroupsTyped
<1>2. IsFiniteSet(asked) /\ Cardinality(asked) <= Cardinality(groupRequests)
    <2> DEFINE f == [r \in groupRequests |-> r.object]
    <2>1. f \in Surjection(groupRequests, asked)
        BY DEF Surjection
    <2> HIDE DEF f, asked
    <2>2. QED BY <1>1, <2>1, FS_Surjection
<1>3. IsFiniteSet(ofGroup) /\ Cardinality(ofGroup) <= Cardinality(asked)
    <2>1. ofGroup \in SUBSET asked
        OBVIOUS
    <2> HIDE DEF ofGroup, asked
    <2>2. QED BY <1>2, <2>1, FS_Subset
<1>4. Groups!Held(g) = found \cup ofGroup
    BY DEF Groups!Held
<1> HIDE DEF found, ofGroup, asked
<1>5. /\ Cardinality(asked) \in Nat /\ Cardinality(ofGroup) \in Nat
      /\ Cardinality(found \cap ofGroup) \in Nat
    <2>1. found \cap ofGroup \in SUBSET found
        OBVIOUS
    <2>2. QED BY <1>1, <1>2, <1>3, <2>1, FS_Subset, FS_CardinalityType
<1>6. /\ IsFiniteSet(found \cup ofGroup)
      /\ Cardinality(found \cup ofGroup) = Cardinality(found) + Cardinality(ofGroup) - Cardinality(found \cap ofGroup)
    BY <1>1, <1>3, FS_Union
<1>7. QED BY <1>1, <1>2, <1>3, <1>4, <1>5, <1>6 DEF found

\* A new object is none of those that are held, and has a number.
LEMMA NewNumbered ==
    ASSUME GroupsTyped, NEW g \in Group, MaxGroupRequests > 0
    PROVE  Groups!New(g) \in Groups!Object /\ Groups!New(g).group = g /\ Groups!New(g) \notin Groups!Held(g)
<1> DEFINE H == Groups!Held(g)
           Untaken(n) == GroupObject(g, n) \notin H /\ \A m \in 1..(n - 1) : GroupObject(g, m) \in H
           k == CHOOSE n \in 1..(Cardinality(H) + 1) : Untaken(n)
<1>1. /\ IsFiniteSet(H) /\ Cardinality(H) \in Nat
      /\ Cardinality(H) <= Cardinality(Groups!Found(g)) + Cardinality(groupRequests)
    BY HeldOf, FS_CardinalityType
<1>2. Groups!New(g) = GroupObject(g, k)
    BY SameCardinality DEF Groups!New, GroupObject
<1>3. k \in 1..(Cardinality(H) + 1) /\ Untaken(k)
    <2>1. \E n \in 1..(Cardinality(H) + 1) : Untaken(n)
        <3> HIDE DEF H
        <3>1. QED BY <1>1, FreeNumber
    <2> HIDE DEF H, Untaken
    <2>2. QED BY <2>1
<1> HIDE DEF H, k
<1>4. /\ Cardinality(Groups!Found(g)) + Cardinality(groupRequests) <= MaxGroupRequests + 2
      /\ Cardinality(Groups!Found(g)) \in Nat /\ Cardinality(groupRequests) \in Nat
    BY FS_CardinalityType DEF GroupsTyped
<1>5. MaxGroupRequests \in Nat
    BY TabAssumption DEF Groups!GroupListsAssumption
<1>6. k \in 1..(2 * MaxGroupRequests + 2)
    BY <1>1, <1>3, <1>4, <1>5
<1>7. QED BY <1>2, <1>3, <1>6 DEF GroupObject, Groups!Object, H

\* A set of objects of a group, with what is added to it.
LEMMA FoundBounded ==
    ASSUME NEW F, IsFiniteSet(F), NEW x, NEW G \in SUBSET (F \cup {x})
    PROVE  IsFiniteSet(G) /\ Cardinality(G) \in Nat /\ Cardinality(G) <= Cardinality(F) + 1
<1>1. /\ IsFiniteSet(F \cup {x}) /\ Cardinality(F \cup {x}) <= Cardinality(F) + 1
      /\ Cardinality(F) \in Nat /\ Cardinality(F \cup {x}) \in Nat
    BY FS_AddElement, FS_CardinalityType
<1>2. QED BY <1>1, FS_Subset, FS_CardinalityType

(* An answer adds at most one object of a group, and ends its request.     *)
LEMMA AnsweredTyped ==
    ASSUME GroupsTyped, NEW r \in groupRequests, groupRequests' = groupRequests \ {r},
           \A o \in Groups!Objects' : o \in Groups!Objects \/ (o.group \in Group /\ o = Groups!New(o.group)),
           groupUser' \in BOOLEAN, activeGroup' \in [Groups!Load -> Group \cup {NoGroup}],
           loadedOnce' \subseteq Groups!Load, overtaken' \in BOOLEAN
    PROVE  GroupsTyped'
<1>1. /\ Groups!GroupTypeOK /\ IsFiniteSet(groupRequests) /\ Cardinality(groupRequests) \in Nat
      /\ MaxGroupRequests \in Nat /\ MaxGroupRequests # 0
    BY FS_CardinalityType, TabAssumption DEF GroupsTyped, Groups!GroupListsAssumption
<1>2. IsFiniteSet(groupRequests') /\ Cardinality(groupRequests') = Cardinality(groupRequests) - 1
    BY <1>1, FS_RemoveElement
<1>3. joinedGroups' \subseteq Groups!Object /\ publicGroups' \subseteq Groups!Object
    <2>1. Groups!Objects' \subseteq Groups!Object
        BY <1>1, NewNumbered DEF Groups!Objects, Groups!GroupTypeOK
    <2>2. QED BY <2>1 DEF Groups!Objects
<1>4. Groups!GroupTypeOK'
    BY <1>1, <1>3 DEF Groups!GroupTypeOK
<1>5. ASSUME NEW g \in Group
      PROVE  /\ IsFiniteSet(Groups!Found(g)')
             /\ Cardinality(Groups!Found(g)') + Cardinality(groupRequests') <= MaxGroupRequests + 2
    <2> DEFINE F == Groups!Found(g)
               G == Groups!Found(g)'
    <2>1. IsFiniteSet(F) /\ Cardinality(F) + Cardinality(groupRequests) <= MaxGroupRequests + 2
        BY DEF GroupsTyped
    <2>2. G \subseteq F \cup {Groups!New(g)}
        BY DEF Groups!Found
    <2> HIDE DEF F, G
    <2>3. IsFiniteSet(G) /\ Cardinality(G) \in Nat /\ Cardinality(G) <= Cardinality(F) + 1 /\ Cardinality(F) \in Nat
        BY <2>1, <2>2, FoundBounded, FS_CardinalityType
    <2>4. Cardinality(G) + Cardinality(groupRequests') <= MaxGroupRequests + 2
        BY <1>1, <1>2, <2>1, <2>3
    <2>5. QED BY <2>3, <2>4 DEF G
<1>6. \A p \in groupRequests' : p.kind \notin Groups!Load => p.object \in Groups!Object
    BY DEF GroupsTyped
<1>7. MaxGroupRequests = 0 => groupRequests' = {}
    BY <1>1
<1>8. QED BY <1>2, <1>4, <1>5, <1>6, <1>7 DEF GroupsTyped

(* Steps that add no object: of the user, who asks while each group is     *)
(* listed once at most, and answers that only remove objects.              *)
LEMMA RemovedTyped ==
    ASSUME GroupsTyped, Groups!GroupTypeOK', Groups!Objects' \subseteq Groups!Objects,
           IsFiniteSet(groupRequests'),
           \/ Cardinality(groupRequests') <= Cardinality(groupRequests)
           \/ /\ OneEach(joinedGroups, publicGroups)
              /\ Cardinality(groupRequests') <= MaxGroupRequests + 1,
           \A p \in groupRequests' : p.kind \notin Groups!Load => p.object \in Groups!Object,
           MaxGroupRequests = 0 => groupRequests' = {}
    PROVE  GroupsTyped'
<1>1. /\ IsFiniteSet(groupRequests) /\ Cardinality(groupRequests) \in Nat
      /\ Cardinality(groupRequests') \in Nat /\ MaxGroupRequests \in Nat
    BY FS_CardinalityType, TabAssumption DEF GroupsTyped, Groups!GroupListsAssumption
<1>2. ASSUME NEW g \in Group
      PROVE  /\ IsFiniteSet(Groups!Found(g)')
             /\ Cardinality(Groups!Found(g)') + Cardinality(groupRequests') <= MaxGroupRequests + 2
    <2> DEFINE F == Groups!Found(g)
               G == Groups!Found(g)'
    <2>1. IsFiniteSet(F) /\ Cardinality(F) + Cardinality(groupRequests) <= MaxGroupRequests + 2
        BY DEF GroupsTyped
    <2>2. G \in SUBSET F
        BY DEF Groups!Found
    <2>3. ASSUME OneEach(joinedGroups, publicGroups) PROVE Cardinality(F) <= 1
        <3>1. \A o, p \in F : o = p
            BY <2>3 DEF OneEach, Groups!Found, Groups!Objects
        <3>2. F = {} \/ \E o : F = {o}
            BY <3>1
        <3> HIDE DEF F
        <3>3. QED BY <2>1, <3>2, FS_EmptySet, FS_Singleton
    <2> HIDE DEF F, G
    <2>4. IsFiniteSet(G) /\ Cardinality(G) \in Nat /\ Cardinality(G) <= Cardinality(F) /\ Cardinality(F) \in Nat
        BY <2>1, <2>2, FS_Subset, FS_CardinalityType
    <2>5. Cardinality(G) + Cardinality(groupRequests') <= MaxGroupRequests + 2
        BY <1>1, <2>1, <2>3, <2>4
    <2>6. QED BY <2>4, <2>5 DEF G
<1>3. QED BY <1>2 DEF GroupsTyped

LEMMA OneRequestMore ==
    ASSUME NEW S, IsFiniteSet(S), NEW x
    PROVE  /\ IsFiniteSet(S \cup {x}) /\ IsFiniteSet(S \ {x})
           /\ Cardinality(S \cup {x}) <= Cardinality(S) + 1 /\ Cardinality(S \ {x}) <= Cardinality(S)
           /\ x \in S => Cardinality(S \ {x}) = Cardinality(S) - 1
           /\ Cardinality(S) \in Nat /\ Cardinality(S \cup {x}) \in Nat /\ Cardinality(S \ {x}) \in Nat
<1>1. /\ IsFiniteSet(S \cup {x}) /\ Cardinality(S) \in Nat
      /\ Cardinality(S \cup {x}) = IF x \in S THEN Cardinality(S) ELSE Cardinality(S) + 1
    BY FS_AddElement, FS_CardinalityType
<1>2. /\ IsFiniteSet(S \ {x})
      /\ Cardinality(S \ {x}) = IF x \in S THEN Cardinality(S) - 1 ELSE Cardinality(S)
    BY FS_RemoveElement
<1>3. Cardinality(S \cup {x}) \in Nat /\ Cardinality(S \ {x}) \in Nat
    BY <1>1, <1>2, FS_CardinalityType
<1>4. QED BY <1>1, <1>2, <1>3

LEMMA UserTyped ==
    ASSUME GroupsTyped, GroupsInv,
           \/ Groups!GroupLogin \/ Groups!GroupLogout \/ Groups!GroupSessionLost \/ Groups!AskForGroups
           \/ \E list \in Groups!Load, o \in Groups!Objects : Groups!SetActiveGroup(list, o)
    PROVE  GroupsTyped'
<1>1. /\ Groups!GroupTypeOK /\ IsFiniteSet(groupRequests) /\ Cardinality(groupRequests) \in Nat
      /\ MaxGroupRequests \in Nat
    BY FS_CardinalityType, TabAssumption DEF GroupsTyped, Groups!GroupListsAssumption
<1>2. ASSUME Groups!GroupLogin PROVE GroupsTyped'
    <2> DEFINE a == Groups!Sent("groups", Groups!NoObject, FALSE)
               b == Groups!Sent("public", Groups!NoObject, FALSE)
    <2>1. /\ groupRequests' = (groupRequests \cup {a}) \cup {b}
          /\ UNCHANGED <<joinedGroups, publicGroups, activeGroup, loadedOnce, overtaken>> /\ groupUser' = TRUE
          /\ ~overtaken /\ Cardinality(groupRequests) < MaxGroupRequests
        BY <1>2, SameCardinality DEF Groups!GroupLogin, Groups!Load
    <2>2. a \in Groups!Request /\ b \in Groups!Request /\ a.kind \in Groups!Load /\ b.kind \in Groups!Load
        BY DEF Groups!Sent, Groups!Request, Groups!Kind, Groups!Load, Groups!NoObject, Groups!Shown
    <2> HIDE DEF a, b
    <2>3. IsFiniteSet(groupRequests \cup {a}) /\ Cardinality(groupRequests \cup {a}) <= Cardinality(groupRequests) + 1
          /\ Cardinality(groupRequests \cup {a}) \in Nat
        BY <1>1, OneRequestMore
    <2>4. IsFiniteSet(groupRequests') /\ Cardinality(groupRequests') <= Cardinality(groupRequests \cup {a}) + 1
          /\ Cardinality(groupRequests') \in Nat
        BY <2>1, <2>3, OneRequestMore
    <2>5. Groups!GroupTypeOK'
        BY <1>1, <2>1, <2>2 DEF Groups!GroupTypeOK
    <2>6. OneEach(joinedGroups, publicGroups) /\ Groups!Objects' = Groups!Objects
        BY <2>1 DEF GroupsInv, Groups!Objects
    <2>7. \A p \in groupRequests' : p.kind \notin Groups!Load => p.object \in Groups!Object
        BY <2>1, <2>2 DEF GroupsTyped
    <2>8. Cardinality(groupRequests') <= MaxGroupRequests + 1 /\ MaxGroupRequests # 0
        BY <1>1, <2>1, <2>3, <2>4
    <2>9. QED BY <2>4, <2>5, <2>6, <2>7, <2>8, RemovedTyped
<1>3. ASSUME Groups!GroupLogout PROVE GroupsTyped'
    <2>1. groupRequests' \in SUBSET groupRequests /\ Groups!Objects' = {}
        BY <1>3 DEF Groups!GroupLogout, Groups!Objects
    <2>2. IsFiniteSet(groupRequests') /\ Cardinality(groupRequests') <= Cardinality(groupRequests)
        BY <1>1, <2>1, FS_Subset
    <2>3. Groups!GroupTypeOK'
        BY <1>1, <1>3 DEF Groups!GroupLogout, Groups!GroupTypeOK
    <2>4. QED BY <2>1, <2>2, <2>3, RemovedTyped DEF GroupsTyped
<1>4. ASSUME Groups!GroupSessionLost PROVE GroupsTyped'
    <2>1. groupRequests' = groupRequests /\ Groups!Objects' = Groups!Objects
        BY <1>4 DEF Groups!GroupSessionLost, Groups!Objects
    <2>2. Groups!GroupTypeOK'
        BY <1>1, <1>4 DEF Groups!GroupSessionLost, Groups!GroupTypeOK
    <2>3. QED BY <1>1, <2>1, <2>2, RemovedTyped DEF GroupsTyped
<1>5. ASSUME NEW list \in Groups!Load, NEW o \in Groups!Objects, Groups!SetActiveGroup(list, o) PROVE GroupsTyped'
    <2>1. groupRequests' = groupRequests /\ Groups!Objects' = Groups!Objects
        BY <1>5 DEF Groups!SetActiveGroup, Groups!Objects
    <2>2. o.group \in Group
        BY <1>1 DEF Groups!GroupTypeOK, Groups!Objects, Groups!Object
    <2>3. Groups!GroupTypeOK'
        BY <1>1, <1>5, <2>2 DEF Groups!SetActiveGroup, Groups!GroupTypeOK
    <2>4. QED BY <1>1, <2>1, <2>3, RemovedTyped DEF GroupsTyped
<1>6. ASSUME Groups!AskForGroups PROVE GroupsTyped'
    <2>1. /\ UNCHANGED <<groupUser, joinedGroups, publicGroups, activeGroup, loadedOnce, overtaken>>
          /\ ~overtaken /\ Cardinality(groupRequests) < MaxGroupRequests
        BY <1>6, SameCardinality DEF Groups!AskForGroups, Groups!Ask, Groups!MayAsk
    <2>2. \E x \in Groups!Request : /\ groupRequests' = groupRequests \cup {x}
                                    /\ x.kind \notin Groups!Load => x.object \in Groups!Object
        <3>1. ASSUME NEW kind \in Groups!Kind, NEW o \in Groups!Object \cup Groups!Shown, NEW refresh \in BOOLEAN,
                     Groups!Ask(kind, o, refresh), kind \notin Groups!Load => o \in Groups!Object
              PROVE  \E x \in Groups!Request : /\ groupRequests' = groupRequests \cup {x}
                                               /\ x.kind \notin Groups!Load => x.object \in Groups!Object
            <4> DEFINE x == Groups!Sent(kind, o, refresh)
            <4>1. x \in Groups!Request /\ x.kind = kind /\ x.object = o
                BY <3>1 DEF Groups!Sent, Groups!Request
            <4>2. groupRequests' = groupRequests \cup {x}
                BY <3>1 DEF Groups!Ask
            <4> HIDE DEF x
            <4>3. QED BY <3>1, <4>1, <4>2
        <3>2. CASE \E kind \in Groups!Load : Groups!Ask(kind, [group |-> activeGroup[kind], number |-> 0], TRUE)
            <4>1. \A kind \in Groups!Load : [group |-> activeGroup[kind], number |-> 0] \in Groups!Shown
                BY <1>1 DEF Groups!GroupTypeOK, Groups!Shown
            <4>2. QED BY <3>1, <3>2, <4>1 DEF Groups!Kind
        <3>3. CASE \E g \in Group : Groups!Ask("create", Groups!New(g), FALSE)
            <4>1. \A g \in Group : Groups!New(g) \in Groups!Object
                BY <1>1, <2>1, NewNumbered
            <4>2. QED BY <3>1, <3>3, <4>1 DEF Groups!Kind, Groups!Load
        <3>4. CASE \E o \in joinedGroups, kind \in {"save", "destroy", "leave", "rekey"} : Groups!Ask(kind, o, FALSE)
            <4>1. joinedGroups \subseteq Groups!Object
                BY <1>1 DEF Groups!GroupTypeOK
            <4>2. QED BY <3>1, <3>4, <4>1 DEF Groups!Kind, Groups!Load
        <3>5. CASE \E o \in publicGroups : Groups!Ask("join", o, FALSE)
            <4>1. publicGroups \subseteq Groups!Object
                BY <1>1 DEF Groups!GroupTypeOK
            <4>2. QED BY <3>1, <3>5, <4>1 DEF Groups!Kind, Groups!Load
        <3>6. QED BY <1>6, <3>2, <3>3, <3>4, <3>5 DEF Groups!AskForGroups
    <2>3. PICK x \in Groups!Request : /\ groupRequests' = groupRequests \cup {x}
                                      /\ x.kind \notin Groups!Load => x.object \in Groups!Object
        BY <2>2
    <2>4. IsFiniteSet(groupRequests') /\ Cardinality(groupRequests') <= Cardinality(groupRequests) + 1
          /\ Cardinality(groupRequests') \in Nat
        BY <1>1, <2>3, OneRequestMore
    <2>5. Groups!GroupTypeOK'
        BY <1>1, <2>1, <2>3 DEF Groups!GroupTypeOK
    <2>6. OneEach(joinedGroups, publicGroups) /\ Groups!Objects' = Groups!Objects
        BY <2>1 DEF GroupsInv, Groups!Objects
    <2>7. \A p \in groupRequests' : p.kind \notin Groups!Load => p.object \in Groups!Object
        BY <2>3 DEF GroupsTyped
    <2>8. Cardinality(groupRequests') <= MaxGroupRequests + 1 /\ MaxGroupRequests # 0
        BY <1>1, <2>1, <2>4
    <2>9. QED BY <2>4, <2>5, <2>6, <2>7, <2>8, RemovedTyped
<1>7. QED BY <1>2, <1>3, <1>4, <1>5, <1>6

LEMMA AnswersTyped ==
    ASSUME GroupsTyped, GroupsInv, Groups!GroupsAnswered
    PROVE  GroupsTyped'
<1>1. /\ Groups!GroupTypeOK /\ IsFiniteSet(groupRequests) /\ groupUser' = groupUser
      /\ \A r \in groupRequests : r \in Groups!Request
    BY DEF GroupsTyped, Groups!GroupsAnswered, Groups!GroupTypeOK
<1>2. \A g : Groups!New(g).group = g
    BY DEF Groups!New
<1>3. ASSUME NEW joined \in SUBSET Group, NEW public \in SUBSET Group, NEW old, Groups!Replace(joined, public, old)
      PROVE  \A o \in Groups!Objects' : o \in Groups!Objects \/ (o.group \in Group /\ o = Groups!New(o.group))
    <2>1. /\ \A o \in joinedGroups' : o \in joinedGroups \/ \E g \in joined : o = Groups!New(g)
          /\ \A o \in publicGroups' : o \in publicGroups \/ \E g \in public : o = Groups!New(g)
        BY <1>3 DEF Groups!Replace
    <2>2. QED BY <1>2, <2>1 DEF Groups!Objects
<1>4. ASSUME NEW list \in Groups!Load, NEW g \in Group \cup {NoGroup}, Groups!Show(list, g)
      PROVE  activeGroup' \in [Groups!Load -> Group \cup {NoGroup}]
    BY <1>1, <1>4 DEF Groups!Show, Groups!GroupTypeOK
<1>5. ASSUME NEW r \in groupRequests, NEW listed \in SUBSET Group, Groups!ListAnswered(r, listed)
      PROVE  GroupsTyped'
    <2>1. /\ r.kind \in Groups!Load /\ groupRequests' = groupRequests \ {r} /\ overtaken' = overtaken
          /\ loadedOnce' \subseteq Groups!Load
          /\ \E old : Groups!Replace(listed, {}, old) \/ Groups!Replace({}, listed, old)
        BY <1>1, <1>5 DEF Groups!ListAnswered, Groups!GroupTypeOK
    <2>2. \A o \in Groups!Objects' : o \in Groups!Objects \/ (o.group \in Group /\ o = Groups!New(o.group))
        BY <1>3, <2>1
    <2>3. \A o \in joinedGroups' : o.group \in Group
        BY <1>1, <2>2 DEF Groups!Objects, Groups!GroupTypeOK, Groups!Object
    <2>4. r.object.group \in Group \cup {NoGroup}
        BY <1>1 DEF Groups!Request, Groups!Object, Groups!Shown
    <2>5. \/ UNCHANGED activeGroup
          \/ \E list \in Groups!Load, g \in Group \cup {NoGroup} : Groups!Show(list, g)
        <3>1. CASE r.refresh
            BY <1>5, <2>1, <2>4, <3>1 DEF Groups!ListAnswered
        <3>2. CASE ~r.refresh /\ (r.kind = "public" \/ joinedGroups' = {})
            BY <1>5, <3>2 DEF Groups!ListAnswered
        <3>3. CASE ~r.refresh /\ r.kind # "public" /\ joinedGroups' # {}
            <4>1. \E o \in joinedGroups' : Groups!Show("groups", o.group)
                BY <1>5, <3>3 DEF Groups!ListAnswered
            <4>2. QED BY <2>3, <4>1 DEF Groups!Load
        <3>4. QED BY <3>1, <3>2, <3>3
    <2>6. activeGroup' \in [Groups!Load -> Group \cup {NoGroup}]
        BY <1>1, <1>4, <2>5 DEF Groups!GroupTypeOK
    <2>7. QED BY <1>1, <2>1, <2>2, <2>6, AnsweredTyped DEF Groups!GroupTypeOK
<1>6. ASSUME NEW r \in groupRequests, NEW listed \in SUBSET Group, Groups!GroupReread(r, listed)
      PROVE  GroupsTyped'
    <2> DEFINE g == r.object.group
    <2>1. /\ r.kind \notin Groups!Load /\ groupRequests' = groupRequests \ {r} /\ UNCHANGED <<loadedOnce, overtaken>>
          /\ \E old : Groups!Replace(listed, {g} \ listed, old)
          /\ UNCHANGED activeGroup \/ \E list \in Groups!Load : Groups!Show(list, g)
        BY <1>6 DEF Groups!GroupReread, Groups!Load
    <2>2. g \in Group
        BY <2>1 DEF GroupsTyped, Groups!Object
    <2> HIDE DEF g
    <2>3. \A o \in Groups!Objects' : o \in Groups!Objects \/ (o.group \in Group /\ o = Groups!New(o.group))
        BY <1>3, <2>1, <2>2
    <2>4. activeGroup' \in [Groups!Load -> Group \cup {NoGroup}]
        BY <1>1, <1>4, <2>1, <2>2 DEF Groups!GroupTypeOK
    <2>5. QED BY <1>1, <2>1, <2>3, <2>4, AnsweredTyped DEF Groups!GroupTypeOK
<1>7. ASSUME NEW r \in groupRequests, Groups!GroupAnswered(r) PROVE GroupsTyped'
    <2> DEFINE g == r.object.group
    <2>1. /\ r.kind \notin Groups!Load /\ groupRequests' = groupRequests \ {r} /\ UNCHANGED <<publicGroups, loadedOnce>>
          /\ joinedGroups' = (joinedGroups \ {r.object}) \cup {Groups!New(g)}
          /\ Groups!Show("groups", Groups!New(g).group)
        BY <1>7 DEF Groups!GroupAnswered, Groups!Load
    <2>2. g \in Group
        BY <2>1 DEF GroupsTyped, Groups!Object
    <2>3. overtaken' \in BOOLEAN
        BY <1>1, <1>7 DEF Groups!GroupAnswered, Groups!GroupTypeOK
    <2> HIDE DEF g
    <2>4. \A o \in Groups!Objects' : o \in Groups!Objects \/ (o.group \in Group /\ o = Groups!New(o.group))
        BY <1>2, <2>1, <2>2 DEF Groups!Objects
    <2>5. activeGroup' \in [Groups!Load -> Group \cup {NoGroup}]
        BY <1>2, <1>4, <2>1, <2>2 DEF Groups!Load
    <2>6. QED BY <1>1, <2>1, <2>3, <2>4, <2>5, AnsweredTyped DEF Groups!GroupTypeOK
<1>8. ASSUME NEW r \in groupRequests, Groups!GroupDestroyed(r) PROVE GroupsTyped'
    <2>1. /\ groupRequests' = groupRequests \ {r} /\ UNCHANGED <<loadedOnce, overtaken>>
          /\ Groups!Objects' \subseteq Groups!Objects /\ Groups!Show("groups", NoGroup)
        BY <1>8 DEF Groups!GroupDestroyed, Groups!Objects
    <2>2. activeGroup' \in [Groups!Load -> Group \cup {NoGroup}]
        BY <1>4, <2>1 DEF Groups!Load
    <2>3. QED BY <1>1, <2>1, <2>2, AnsweredTyped DEF Groups!GroupTypeOK
<1>9. ASSUME NEW r \in groupRequests, NEW public \in BOOLEAN, Groups!MembershipAnswered(r, public)
      PROVE  GroupsTyped'
    <2> DEFINE again == Groups!Sent("reload", r.object, FALSE)
    <2>1. /\ r.kind \notin Groups!Load /\ UNCHANGED <<activeGroup, loadedOnce, overtaken>>
          /\ Groups!Objects' \subseteq Groups!Objects
          /\ joinedGroups' \subseteq joinedGroups /\ publicGroups' \subseteq publicGroups
          /\ groupRequests' = groupRequests \ {r} \/ groupRequests' = (groupRequests \ {r}) \cup {again}
        BY <1>9 DEF Groups!MembershipAnswered, Groups!Objects, Groups!Load
    <2>2. r.object \in Groups!Object
        BY <2>1 DEF GroupsTyped
    <2>3. again \in Groups!Request /\ again.object \in Groups!Object
        BY <2>2 DEF Groups!Sent, Groups!Request, Groups!Kind
    <2> HIDE DEF again
    <2>4. /\ IsFiniteSet(groupRequests \ {r}) /\ Cardinality(groupRequests \ {r}) = Cardinality(groupRequests) - 1
          /\ Cardinality(groupRequests) \in Nat
        BY <1>1, OneRequestMore
    <2>5. /\ IsFiniteSet((groupRequests \ {r}) \cup {again})
          /\ Cardinality((groupRequests \ {r}) \cup {again}) <= Cardinality(groupRequests \ {r}) + 1
          /\ Cardinality((groupRequests \ {r}) \cup {again}) \in Nat
        BY <2>4, OneRequestMore
    <2>6. IsFiniteSet(groupRequests') /\ Cardinality(groupRequests') <= Cardinality(groupRequests)
        <3>1. CASE groupRequests' = groupRequests \ {r}
            BY <2>4, <3>1, OneRequestMore
        <3>2. CASE groupRequests' = (groupRequests \ {r}) \cup {again}
            BY <2>4, <2>5, <3>2
        <3>3. QED BY <2>1, <3>1, <3>2
    <2>7. \A p \in groupRequests' : p.kind \notin Groups!Load => p.object \in Groups!Object
        BY <2>1, <2>3 DEF GroupsTyped
    <2>8. Groups!GroupTypeOK'
        BY <1>1, <2>1, <2>3 DEF Groups!GroupTypeOK
    <2>9. MaxGroupRequests = 0 => groupRequests' = {}
        BY DEF GroupsTyped
    <2>10. QED BY <2>1, <2>6, <2>7, <2>8, <2>9, RemovedTyped
<1>10. ASSUME NEW r \in groupRequests, Groups!GroupRefused(r) PROVE GroupsTyped'
    <2>1. /\ groupRequests' = groupRequests \ {r} /\ UNCHANGED <<activeGroup, loadedOnce, overtaken>>
          /\ Groups!Objects' = Groups!Objects
        BY <1>10 DEF Groups!GroupRefused, Groups!Objects
    <2>2. QED BY <1>1, <2>1, AnsweredTyped DEF Groups!GroupTypeOK
<1>11. QED BY <1>5, <1>6, <1>7, <1>8, <1>9, <1>10 DEF Groups!GroupsAnswered

LEMMA GroupsTypedStep ==
    ASSUME GroupsTyped, GroupsInv, Groups!GroupNext
    PROVE  GroupsTyped'
BY UserTyped, AnswersTyped DEF Groups!GroupNext

LEMMA GroupsTypedStart == Groups!GroupInit => GroupsTyped
<1> SUFFICES ASSUME Groups!GroupInit PROVE GroupsTyped
    OBVIOUS
<1>1. MaxGroupRequests \in Nat
    BY TabAssumption DEF Groups!GroupListsAssumption
<1>2. \A g : Groups!Found(g) = {}
    BY DEF Groups!GroupInit, Groups!Found, Groups!Objects
<1>3. Groups!GroupTypeOK /\ groupRequests = {}
    BY DEF Groups!GroupInit, Groups!GroupTypeOK
<1>4. \A g \in Group : /\ IsFiniteSet(Groups!Found(g))
                       /\ Cardinality(Groups!Found(g)) + Cardinality(groupRequests) <= MaxGroupRequests + 2
    <2>1. IsFiniteSet({}) /\ Cardinality({}) = 0
        BY FS_EmptySet
    <2>2. QED BY <1>1, <1>2, <1>3, <2>1
<1>5. QED BY <1>3, <1>4, FS_EmptySet DEF GroupsTyped

-----------------------------------------------------------------------------
(* The window of a long result                                             *)

LEMMA MaxOfTwo ==
    ASSUME NEW a \in Int, NEW b \in Int
    PROVE  Rows!Max({a, b}) = IF a <= b THEN b ELSE a
<1> DEFINE m == IF a <= b THEN b ELSE a
<1>1. m \in {a, b} /\ \A y \in {a, b} : m >= y
    OBVIOUS
<1>2. \A x \in {a, b} : (\A y \in {a, b} : x >= y) => x = m
    OBVIOUS
<1> HIDE DEF m
<1>3. (CHOOSE x \in {a, b} : \A y \in {a, b} : x >= y) = m
    BY <1>1, <1>2
<1>4. QED BY <1>3 DEF Rows!Max, m

LEMMA MinOfTwo ==
    ASSUME NEW a \in Int, NEW b \in Int
    PROVE  Rows!Min({a, b}) = IF a <= b THEN a ELSE b
<1> DEFINE m == IF a <= b THEN a ELSE b
<1>1. m \in {a, b} /\ \A y \in {a, b} : m <= y
    OBVIOUS
<1>2. \A x \in {a, b} : (\A y \in {a, b} : x <= y) => x = m
    OBVIOUS
<1> HIDE DEF m
<1>3. (CHOOSE x \in {a, b} : \A y \in {a, b} : x <= y) = m
    BY <1>1, <1>2
<1>4. QED BY <1>3 DEF Rows!Min, m

LEMMA Quotient ==
    ASSUME NEW a \in Nat, NEW b \in Nat \ {0}
    PROVE  /\ a \div b \in Nat
           /\ (a \div b) * b <= a /\ a < (a \div b) * b + b
OBVIOUS

\* The row at a position: that of the position before, or one further down if the window is not whole.
LEMMA Proportion ==
    ASSUME NEW s \in Nat, NEW n \in Nat, NEW D \in Nat \ {0}, NEW R \in Nat,
           R * D <= s * n, s * n < R * D + D, R < n, D <= n + 1, s <= n + 1
    PROVE  /\ s <= R + 1
           /\ D > n => R <= s
           /\ D <= n => R <= s + n - D
<1>1. s <= R + 1
    <2>1. SUFFICES ASSUME R + 2 <= s PROVE FALSE
        OBVIOUS
    <2>2. (R + 1) * D <= (R + 1) * (n + 1)
        OBVIOUS
    <2>3. R * D + D = (R + 1) * D
        OBVIOUS
    <2>4. s * n < (R + 1) * (n + 1)
        BY <2>2, <2>3
    <2>5. (R + 1) * (n + 1) <= (s - 1) * (n + 1)
        BY <2>1
    <2>6. (s - 1) * (n + 1) = s * n + s - (n + 1)
        OBVIOUS
    <2>7. QED BY <2>4, <2>5, <2>6
<1>2. ASSUME D > n PROVE R <= s
    <2>1. SUFFICES ASSUME s + 1 <= R PROVE FALSE
        OBVIOUS
    <2>2. D = n + 1
        BY <1>2
    <2>3. (s + 1) * n <= R * n
        BY <2>1
    <2>4. (s + 1) * n = s * n + n /\ R * D = R * n + R
        BY <2>2
    <2>5. R * n + R <= s * n
        BY <2>4
    <2>6. s * n + n + R <= s * n
        BY <2>3, <2>4, <2>5
    <2>7. QED BY <2>6, <2>1
<1>3. ASSUME D <= n PROVE R <= s + n - D
    <2>1. SUFFICES ASSUME s + n - D + 1 <= R PROVE FALSE
        OBVIOUS
    <2>2. PICK k \in Nat : n = D + k
        BY <1>3
    <2>3. s + k + 1 <= R /\ s + 1 <= D
        BY <2>1, <2>2
    <2>4. (s + k + 1) * D <= R * D
        BY <2>3
    <2>5. (s + k + 1) * D = s * D + k * D + D /\ s * n = s * D + s * k
        BY <2>2
    <2>6. s * k <= D * k
        BY <2>3
    <2>7. D * k = k * D
        OBVIOUS
    <2>8. s * D + k * D + D <= s * D + s * k
        BY <2>4, <2>5
    <2>9. QED BY <2>6, <2>7, <2>8
<1>4. QED BY <1>1, <1>2, <1>3

\* The rows that are rendered, and how far the table can be scrolled, without its heights.
RowsOf(row, n) == IF n - row <= 0 THEN 0 ELSE IF n - row <= LoadedRows THEN n - row ELSE LoadedRows
EndOf(row, n) == (IF row <= n THEN n ELSE row) + 1
InSight(s, row, n) == s + PageRows > row /\ s < row + 1 + RowsOf(row, n)
Limited(y, row, n) == IF y <= 0 \/ EndOf(row, n) <= PageRows THEN 0
                      ELSE IF y <= EndOf(row, n) - PageRows THEN y ELSE EndOf(row, n) - PageRows

TableInv ==
    /\ length \in Nat \ {0} /\ length \in Lengths
    /\ view \in [row : Nat, held : BOOLEAN, y : Int]
    /\ scrollTop \in Nat /\ (scrollTop = 0 \/ scrollTop + PageRows <= EndOf(view.row, length))
    /\ event \in BOOLEAN /\ lost \in BOOLEAN
    /\ ~lost =>
           /\ view.row = 0 \/ view.row + LoadedRows \div 2 + 1 <= length
           /\ ~event => InSight(scrollTop, view.row, length)
           /\ view.held => InSight(Limited(view.y, view.row, length), view.row, length)

LEMMA TableFacts ==
    /\ LoadedRows \in Nat \ {0} /\ LoadedRows \div 2 \in Nat
    /\ LoadedRows = (LoadedRows \div 2) + (LoadedRows \div 2) /\ LoadedRows \div 2 >= 1
    /\ Threshold \in Nat /\ 1 <= Threshold /\ Threshold <= LoadedRows \div 2
    /\ PageRows \in Nat \ {0} /\ PageRows <= LoadedRows /\ Lengths \subseteq Nat \ {0}
<1>1. Rows!TableAssumption
    BY TabAssumption
<1>2. LoadedRows \in Nat \ {0} /\ LoadedRows % 2 = 0
    BY <1>1 DEF Rows!TableAssumption
<1>3. LoadedRows \div 2 \in Nat /\ LoadedRows = (LoadedRows \div 2) + (LoadedRows \div 2)
    BY <1>2
<1>4. QED BY <1>1, <1>2, <1>3 DEF Rows!TableAssumption

LEMMA Heights ==
    ASSUME NEW v, v.row \in Nat, NEW n \in Nat
    PROVE  /\ Rows!Rows(v, n) = RowsOf(v.row, n)
           /\ Rows!ScrollHeight(v, n) = EndOf(v.row, n)
           /\ Rows!MaxScroll(v, n) = IF EndOf(v.row, n) <= PageRows THEN 0 ELSE EndOf(v.row, n) - PageRows
           /\ RowsOf(v.row, n) \in Nat /\ EndOf(v.row, n) \in Nat
<1> DEFINE w == v.row
<1>0. w \in Nat /\ n - w \in Int /\ LoadedRows \in Nat /\ n - LoadedRows - w \in Int /\ 0 \in Int
      /\ PageRows \in Nat /\ LoadedRows # 0
    BY TableFacts
<1> HIDE DEF w
<1>1. Rows!Min({n - w, LoadedRows}) = IF n - w <= LoadedRows THEN n - w ELSE LoadedRows
    BY <1>0, MinOfTwo
<1>2. Rows!Min({n - w, LoadedRows}) \in Int
    BY <1>0, <1>1
<1>3. Rows!Rows(v, n) = IF 0 <= Rows!Min({n - w, LoadedRows}) THEN Rows!Min({n - w, LoadedRows}) ELSE 0
    BY <1>0, <1>2, MaxOfTwo DEF Rows!Rows, w
<1>4. Rows!Rows(v, n) = RowsOf(w, n) /\ RowsOf(w, n) \in Nat /\ EndOf(w, n) \in Nat
    BY <1>0, <1>1, <1>3 DEF RowsOf, EndOf
<1>5. Rows!BottomSpacer(v, n) = IF 0 <= n - LoadedRows - w THEN n - LoadedRows - w ELSE 0
    BY <1>0, MaxOfTwo DEF Rows!BottomSpacer, w
<1>6. Rows!ScrollHeight(v, n) = w + 1 + RowsOf(w, n) + (IF 0 <= n - LoadedRows - w THEN n - LoadedRows - w ELSE 0)
    BY <1>4, <1>5 DEF Rows!ScrollHeight, Rows!Header, w
<1>7. Rows!ScrollHeight(v, n) = EndOf(w, n)
    BY <1>0, <1>6 DEF RowsOf, EndOf
<1>8. EndOf(w, n) - PageRows \in Int
    BY <1>0, <1>4
<1>9. Rows!MaxScroll(v, n) = IF 0 <= EndOf(w, n) - PageRows THEN EndOf(w, n) - PageRows ELSE 0
    BY <1>0, <1>7, <1>8, MaxOfTwo DEF Rows!MaxScroll
<1>10. QED BY <1>0, <1>4, <1>7, <1>9 DEF w

LEMMA TableStarts == TabInit => TableInv
<1> SUFFICES ASSUME TabInit PROVE TableInv
    OBVIOUS
<1>1. /\ length = Rows!Max(Lengths) /\ view = [row |-> 0, held |-> FALSE, y |-> 0]
      /\ scrollTop = 0 /\ event = FALSE /\ lost = FALSE
    <2>1. Rows!TableInit
        BY DEF TabInit
    <2>2. QED BY <2>1 DEF Rows!TableInit
<1>2. length \in Lengths
    <2>1. \E n \in Lengths : \A m \in Lengths : n >= m
        <3>1. PICK n \in Lengths : \A m \in Lengths : m <= n
            BY TabAssumption DEF Rows!TableAssumption
        <3>2. \A m \in Lengths : n >= m
            BY <3>1, TableFacts
        <3>3. QED BY <3>2
    <2>2. QED BY <1>1, <2>1 DEF Rows!Max
<1>3. view.row = 0 /\ view.held = FALSE /\ view \in [row : Nat, held : BOOLEAN, y : Int]
    BY <1>1
<1>4. length \in Nat \ {0} /\ PageRows \in Nat \ {0} /\ LoadedRows \in Nat \ {0}
    BY <1>2, TableFacts
<1>5. InSight(0, 0, length)
    BY <1>4 DEF InSight, RowsOf
<1>6. QED BY <1>1, <1>2, <1>3, <1>4, <1>5 DEF TableInv

LEMMA TableReset ==
    ASSUME TableInv, NEW n \in Lengths, Rows!ResetScrollState(n)
    PROVE  /\ view' \in [row : Nat, held : BOOLEAN, y : Int] /\ view'.row = view.row
           /\ RowsOf(view.row, n) > 0 => view'.held = FALSE
<1>1. view.row \in Nat /\ n \in Nat
    BY TableFacts DEF TableInv
<1>2. view' = IF RowsOf(view.row, n) > 0 THEN [view EXCEPT !.held = FALSE, !.y = 0] ELSE view
    BY <1>1, Heights DEF Rows!ResetScrollState
<1>3. view \in [row : Nat, held : BOOLEAN, y : Int]
    BY DEF TableInv
<1>4. CASE RowsOf(view.row, n) > 0
    <2>1. view' = [view EXCEPT !.held = FALSE, !.y = 0]
        BY <1>2, <1>4
    <2>2. view' = [row |-> view.row, held |-> FALSE, y |-> 0]
        BY <2>1, <1>3
    <2>3. QED BY <2>2, <1>1
<1>5. CASE ~(RowsOf(view.row, n) > 0)
    <2>1. view' = view
        BY <1>2, <1>5
    <2>2. QED BY <2>1, <1>3, <1>5
<1>6. QED BY <1>4, <1>5

\* Above how many rows the thresholds of the window lie.
Lower(row, n, dt) == IF RowsOf(row, n) <= Threshold + dt THEN RowsOf(row, n) ELSE Threshold + dt
Upper(row, n, dt) == IF RowsOf(row, n) - LoadedRows + Threshold + dt <= 0 THEN 0
                     ELSE RowsOf(row, n) - LoadedRows + Threshold + dt

LEMMA Thresholds ==
    ASSUME TableInv, NEW dt \in {0, -1}
    PROVE  /\ Rows!LowerThreshold(dt) = Lower(view.row, length, dt)
           /\ Rows!UpperThreshold(dt) = Upper(view.row, length, dt)
           /\ Lower(view.row, length, dt) \in Nat /\ Upper(view.row, length, dt) \in Nat
<1> DEFINE r == RowsOf(view.row, length)
<1>1. view.row \in Nat /\ length \in Nat
    BY DEF TableInv
<1>2. Rows!Rows(view, length) = r /\ r \in Nat
    BY <1>1, Heights
<1> HIDE DEF r
<1>3. /\ Threshold + dt \in Int /\ 0 <= Threshold + dt /\ r \in Int /\ 0 \in Int
      /\ r - LoadedRows + Threshold + dt \in Int
    BY <1>2, TableFacts
<1>4. Rows!LowerThreshold(dt) = IF r <= Threshold + dt THEN r ELSE Threshold + dt
    BY <1>2, <1>3, MinOfTwo DEF Rows!LowerThreshold
<1>5. Rows!UpperThreshold(dt) = IF 0 <= r - LoadedRows + Threshold + dt THEN r - LoadedRows + Threshold + dt ELSE 0
    BY <1>2, <1>3, MaxOfTwo DEF Rows!UpperThreshold
<1>6. QED BY <1>2, <1>3, <1>4, <1>5 DEF Lower, Upper, r

\* How the rows of the table are spread over its height.
Spread(row, n) == RowsOf(row, n) + 1 + (IF n <= LoadedRows THEN 0 ELSE n - LoadedRows)

LEMMA RowThere ==
    ASSUME TableInv
    PROVE  /\ Rows!RowAt \in Nat /\ Spread(view.row, length) \in Nat \ {0}
           /\ Rows!RowAt * Spread(view.row, length) <= scrollTop * length
           /\ scrollTop * length < Rows!RowAt * Spread(view.row, length) + Spread(view.row, length)
<1> DEFINE D == Spread(view.row, length)
<1>1. view.row \in Nat /\ length \in Nat /\ scrollTop \in Nat /\ LoadedRows \in Nat
    BY TableFacts DEF TableInv
<1>2. Rows!Rows(view, length) = RowsOf(view.row, length) /\ RowsOf(view.row, length) \in Nat
    BY <1>1, Heights
<1>3. Rows!Max({0, length - LoadedRows}) = IF 0 <= length - LoadedRows THEN length - LoadedRows ELSE 0
    BY <1>1, MaxOfTwo
<1>4. D \in Nat \ {0} /\ Rows!Rows(view, length) + 1 + Rows!Max({0, length - LoadedRows}) = D
    BY <1>1, <1>2, <1>3 DEF Spread
<1>5. scrollTop * length \in Nat
    BY <1>1
<1> HIDE DEF D
<1>6. Rows!RowAt = (scrollTop * length) \div D
    BY <1>4 DEF Rows!RowAt, Rows!Header
<1>7. QED BY <1>4, <1>5, <1>6, Quotient DEF D

\* The window is put around the position, if it was whole before or began in the first half.
LEMMA PutAround ==
    ASSUME NEW s \in Nat, NEW w \in Nat, NEW n \in Nat \ {0}, NEW R \in Nat,
           w + RowsOf(w, n) = n \/ RowsOf(w, n) = LoadedRows,
           \/ w = 0 \/ w + LoadedRows \div 2 + 1 <= n
           \/ RowsOf(w, n) = n \/ RowsOf(w, n) = LoadedRows,
           s = 0 \/ s + PageRows <= n + 1,
           R * Spread(w, n) <= s * n, s * n < R * Spread(w, n) + Spread(w, n), R < n,
           NEW row \in Nat, row = IF R <= LoadedRows \div 2 THEN 0 ELSE R - LoadedRows \div 2
    PROVE  /\ InSight(s, row, n)
           /\ InSight(Limited(s - Upper(w, n, -1), row, n), row, n)
           /\ InSight(Limited(s + Lower(w, n, -1), row, n), row, n)
           /\ InSight(Limited(s, row, n), row, n)
<1> DEFINE h == LoadedRows \div 2
           r == RowsOf(w, n)
           D == Spread(w, n)
<1>1. /\ h \in Nat /\ h >= 1 /\ LoadedRows = h + h /\ PageRows \in Nat \ {0}
      /\ Threshold \in Nat /\ 1 <= Threshold /\ Threshold <= h
    BY TableFacts
<1> HIDE DEF h
<1>2. r \in Nat /\ r <= n /\ r <= h + h /\ (w + r = n \/ r = h + h)
    BY <1>1 DEF RowsOf
<1>3. /\ n <= h + h => D = r + 1
      /\ n > h + h => D = r + 1 + (n - (h + h))
      /\ D \in Nat \ {0} /\ D <= n + 1
    BY <1>1, <1>2 DEF Spread
<1>4. w = 0 \/ w + h + 1 <= n \/ r = n \/ r = h + h
    BY <1>1 DEF h
<1>5. w = 0 => r = n \/ r = h + h
    BY <1>2
<1>6. s <= n + 1 /\ s * n < R * D + D /\ R * D <= s * n
    BY <1>1
<1> HIDE DEF D, r
<1>7. /\ s <= R + 1
      /\ D > n => R <= s
      /\ D <= n => R <= s + n - D
    BY <1>3, <1>6, Proportion
<1>8. r = n \/ r = h + h => D > n
    BY <1>1, <1>2, <1>3
<1>9. row = IF R <= h THEN 0 ELSE R - h
    BY DEF h
<1>10. /\ RowsOf(row, n) = IF n - row <= h + h THEN n - row ELSE h + h
       /\ EndOf(row, n) = n + 1 /\ row <= n
    BY <1>1, <1>9 DEF RowsOf, EndOf
<1>11. row = 0 \/ row + 1 <= s
    BY <1>1, <1>2, <1>3, <1>4, <1>5, <1>7, <1>8, <1>9
<1>12. ASSUME NEW t \in Nat, t <= n, t < s + h, row = 0 \/ t + PageRows > row PROVE InSight(t, row, n)
    <2>1. t + PageRows > row
        BY <1>12, <1>1
    <2>2. t < row + 1 + RowsOf(row, n)
        <3>1. CASE n - row <= h + h
            BY <3>1, <1>10, <1>12
        <3>2. CASE n - row > h + h
            <4>1. RowsOf(row, n) = h + h
                BY <3>2, <1>10, <1>1
            <4>2. t < R + 1 + h /\ R <= row + h
                BY <1>7, <1>9, <1>12, <1>1
            <4>3. QED BY <4>1, <4>2, <1>1
        <3>3. QED BY <3>1, <3>2, <1>1
    <2>3. QED BY <2>1, <2>2 DEF InSight
<1>13. ASSUME NEW y \in Int, y < s + h, row = 0 \/ y + PageRows > row
       PROVE  InSight(Limited(y, row, n), row, n)
    <2> DEFINE t == Limited(y, row, n)
    <2>1. t = IF y <= 0 \/ n + 1 <= PageRows THEN 0 ELSE IF y <= n + 1 - PageRows THEN y ELSE n + 1 - PageRows
        BY <1>1, <1>10 DEF Limited
    <2>2. t \in Nat /\ t <= n
        BY <2>1, <1>1
    <2>3. t < s + h
        BY <2>1, <1>1, <1>13
    <2>4. row = 0 \/ t + PageRows > row
        BY <2>1, <1>1, <1>10, <1>13
    <2> HIDE DEF t
    <2>5. InSight(t, row, n)
        BY <2>2, <2>3, <2>4, <1>12
    <2>6. QED BY <2>5 DEF t
<1>14. /\ Upper(w, n, -1) = IF r - (h + h) + Threshold - 1 <= 0 THEN 0 ELSE r - (h + h) + Threshold - 1
       /\ Lower(w, n, -1) = IF r <= Threshold - 1 THEN r ELSE Threshold - 1
    BY <1>1, <1>2 DEF Upper, Lower, r
<1>15. InSight(s, row, n)
    BY <1>1, <1>11, <1>12
<1>16. InSight(Limited(s, row, n), row, n)
    BY <1>1, <1>11, <1>13
<1>17. InSight(Limited(s + Lower(w, n, -1), row, n), row, n)
    <2>1. Lower(w, n, -1) \in Nat /\ Lower(w, n, -1) < h
        BY <1>1, <1>2, <1>14
    <2>2. QED BY <2>1, <1>1, <1>11, <1>13
<1>18. InSight(Limited(s - Upper(w, n, -1), row, n), row, n)
    <2> DEFINE y == s - Upper(w, n, -1)
    <2>1. y \in Int /\ y <= s
        BY <1>1, <1>2, <1>14
    <2>2. row = 0 \/ y + PageRows > row
        <3> DEFINE up == r - (h + h) + Threshold - 1
        <3>1. CASE up <= 0
            BY <3>1, <1>1, <1>11, <1>14
        <3>2. CASE up > 0 /\ (r = n \/ r = h + h)
            BY <3>2, <1>1, <1>2, <1>7, <1>8, <1>9, <1>14
        <3>3. CASE up > 0 /\ ~(r = n \/ r = h + h)
            BY <3>3, <1>1, <1>2, <1>3, <1>4, <1>5, <1>7, <1>9, <1>14
        <3>4. QED BY <3>1, <3>2, <3>3, <1>1, <1>2
    <2> HIDE DEF y
    <2>3. InSight(Limited(y, row, n), row, n)
        BY <2>1, <2>2, <1>1, <1>13
    <2>4. QED BY <2>3 DEF y
<1>19. QED BY <1>15, <1>16, <1>17, <1>18

LEMMA TableScrolls ==
    ASSUME TableInv, Rows!OnScroll
    PROVE  TableInv'
<1> DEFINE s == scrollTop
           w == view.row
           n == length
           R == Rows!RowAt
           row == IF R <= LoadedRows \div 2 THEN 0 ELSE R - LoadedRows \div 2
           needs == Rows!NeedsUpperExtend \/ Rows!NeedsLowestExtend \/ Rows!NeedsLowerExtend
<1>0. /\ s \in Nat /\ w \in Nat /\ n \in Nat \ {0} /\ n \in Lengths /\ event \in BOOLEAN /\ lost \in BOOLEAN
      /\ view \in [row : Nat, held : BOOLEAN, y : Int]
      /\ s = 0 \/ s + PageRows <= EndOf(w, n)
      /\ ~lost => w = 0 \/ w + LoadedRows \div 2 + 1 <= n
    BY DEF TableInv
<1>1. /\ event' = FALSE /\ length' = n /\ scrollTop' = s /\ view.held = FALSE
      /\ IF R < n /\ needs
         THEN /\ view' = [row |-> Rows!NewRow(R), held |-> TRUE, y |-> s - Rows!Dt]
              /\ lost' = (lost /\ Rows!Rows(view, n) < Rows!Min({n, LoadedRows}))
         ELSE UNCHANGED <<view, lost>>
    BY <1>0 DEF Rows!OnScroll
<1>2. /\ LoadedRows \in Nat \ {0} /\ LoadedRows \div 2 \in Nat /\ LoadedRows = (LoadedRows \div 2) + (LoadedRows \div 2)
      /\ LoadedRows \div 2 >= 1 /\ PageRows \in Nat \ {0}
    BY TableFacts
<1>3. /\ R \in Nat /\ R * Spread(w, n) <= s * n /\ s * n < R * Spread(w, n) + Spread(w, n)
      /\ Spread(w, n) \in Nat \ {0}
    BY RowThere
<1>4. /\ Rows!LowerThreshold(0) = Lower(w, n, 0) /\ Rows!UpperThreshold(0) = Upper(w, n, 0)
      /\ Rows!LowerThreshold(-1) = Lower(w, n, -1) /\ Rows!UpperThreshold(-1) = Upper(w, n, -1)
      /\ Lower(w, n, 0) \in Nat /\ Upper(w, n, 0) \in Nat /\ Lower(w, n, -1) \in Nat /\ Upper(w, n, -1) \in Nat
    BY Thresholds
<1>5. Rows!Rows(view, n) = RowsOf(w, n) /\ RowsOf(w, n) \in Nat
    BY <1>0, Heights
<1>6. Rows!NewRow(R) = row /\ row \in Nat
    <2>1. R - LoadedRows \div 2 \in Int /\ 0 \in Int
        BY <1>2, <1>3
    <2>2. Rows!NewRow(R) = IF 0 <= R - LoadedRows \div 2 THEN R - LoadedRows \div 2 ELSE 0
        BY <2>1, MaxOfTwo DEF Rows!NewRow
    <2>3. QED BY <2>2, <1>2, <1>3
<1>7. Rows!Dt \in {Upper(w, n, -1), -Lower(w, n, -1), 0}
    BY <1>4 DEF Rows!Dt
<1>8. Rows!Min({n, LoadedRows}) = IF n <= LoadedRows THEN n ELSE LoadedRows
    BY <1>0, <1>2, MinOfTwo
<1>9. CASE R < n /\ needs
    <2>1. /\ view' = [row |-> row, held |-> TRUE, y |-> s - Rows!Dt]
          /\ lost' = (lost /\ RowsOf(w, n) < (IF n <= LoadedRows THEN n ELSE LoadedRows))
        BY <1>1, <1>5, <1>6, <1>8, <1>9
    <2>2. s - Rows!Dt \in Int
        BY <1>0, <1>4, <1>7
    <2>3. view' \in [row : Nat, held : BOOLEAN, y : Int] /\ view'.row = row /\ view'.y = s - Rows!Dt
        BY <2>1, <2>2, <1>6
    <2>4. row = 0 \/ row + LoadedRows \div 2 + 1 <= n
        <3>1. R \in Nat /\ R < n /\ LoadedRows \div 2 \in Nat /\ n \in Nat
            BY <1>0, <1>2, <1>3, <1>9
        <3> HIDE DEF R, n
        <3>2. QED BY <3>1
    <2>5. row <= n /\ EndOf(row, n) = n + 1
        <3>1. row \in Nat /\ LoadedRows \div 2 \in Nat /\ n \in Nat
            BY <1>0, <1>2, <1>6
        <3> HIDE DEF row, n
        <3>2. row <= n
            BY <2>4, <3>1
        <3>3. QED BY <3>1, <3>2 DEF EndOf
    <2>6. ASSUME ~lost'
          PROVE  /\ InSight(s, row, n) /\ InSight(Limited(s - Rows!Dt, row, n), row, n)
                 /\ s = 0 \/ s + PageRows <= n + 1
        <3>1. \/ ~lost
              \/ RowsOf(w, n) >= (IF n <= LoadedRows THEN n ELSE LoadedRows)
            BY <2>1, <2>6, <1>0, <1>2, <1>5
        <3>2. \/ w = 0 \/ w + LoadedRows \div 2 + 1 <= n
              \/ RowsOf(w, n) = n \/ RowsOf(w, n) = LoadedRows
            BY <1>0, <1>2, <3>1 DEF RowsOf
        <3>3. (w + RowsOf(w, n) = n \/ RowsOf(w, n) = LoadedRows) /\ w <= n
            BY <1>0, <1>2, <3>2 DEF RowsOf
        <3>4. s = 0 \/ s + PageRows <= n + 1
            BY <1>0, <3>3 DEF EndOf
        <3>5. /\ InSight(s, row, n)
              /\ InSight(Limited(s - Upper(w, n, -1), row, n), row, n)
              /\ InSight(Limited(s + Lower(w, n, -1), row, n), row, n)
              /\ InSight(Limited(s, row, n), row, n)
            <4> HIDE DEF s, w, n, R
            <4>1. R < n
                BY <1>9
            <4> HIDE DEF row
            <4>2. row = IF R <= LoadedRows \div 2 THEN 0 ELSE R - LoadedRows \div 2
                BY DEF row
            <4>3. QED BY <1>0, <1>3, <1>6, <3>2, <3>3, <3>4, <4>1, <4>2, PutAround
        <3>6. InSight(Limited(s - Rows!Dt, row, n), row, n)
            <4>1. /\ s - (-Lower(w, n, -1)) = s + Lower(w, n, -1)
                  /\ s - 0 = s
                BY <1>0, <1>4
            <4>2. QED BY <4>1, <3>5, <1>7
        <3>7. QED BY <3>4, <3>5, <3>6
    <2>7. s = 0 \/ s + PageRows <= EndOf(row, n)
        <3>1. CASE w <= n
            BY <3>1, <1>0, <2>5 DEF EndOf
        <3>2. CASE w > n
            <4>1. Spread(w, n) = 1 + (IF n <= LoadedRows THEN 0 ELSE n - LoadedRows)
                BY <3>2, <1>0, <1>2 DEF Spread, RowsOf
            <4>2. ASSUME Spread(w, n) <= s PROVE FALSE
                <5>1. Spread(w, n) * n <= s * n
                    BY <4>2, <1>0, <1>3
                <5>2. (R + 1) * Spread(w, n) <= n * Spread(w, n)
                    BY <1>0, <1>3, <1>9
                <5>3. QED BY <5>1, <5>2, <1>0, <1>3
            <4>3. s < Spread(w, n)
                BY <4>2, <1>0, <1>3
            <4>4. s = 0 \/ s + PageRows <= n + 1
                BY <4>1, <4>3, <1>0, <1>2, TableFacts
            <4>5. QED BY <4>4, <2>5
        <3>3. QED BY <3>1, <3>2, <1>0
    <2>8. lost' \in BOOLEAN
        BY <2>1, <1>0
    <2> HIDE DEF row
    <2>9. QED BY <1>0, <1>1, <2>3, <2>4, <2>6, <2>7, <2>8 DEF TableInv
<1>10. CASE ~(R < n /\ needs)
    <2>1. view' = view /\ lost' = lost
        BY <1>1, <1>10
    <2>2. ASSUME ~lost PROVE InSight(s, w, n)
        <3>1. w <= n /\ (w = 0 \/ w + LoadedRows \div 2 + 1 <= n)
            BY <1>0, <1>2, <2>2
        <3>2. s = 0 \/ s + PageRows <= n + 1
            BY <1>0, <3>1 DEF EndOf
        <3>3. CASE ~needs
            <4>1. s >= w /\ s <= w + RowsOf(w, n) - Upper(w, n, 0)
                BY <3>3, <1>0, <1>4, <1>5 DEF Rows!NeedsUpperExtend, Rows!NeedsLowestExtend
            <4>2. QED BY <4>1, <1>0, <1>2, <1>4, <1>5 DEF InSight
        <3>4. CASE R >= n
            <4>1. n * Spread(w, n) <= R * Spread(w, n)
                BY <3>4, <1>0, <1>3
            <4>2. n * Spread(w, n) <= s * n
                BY <4>1, <1>0, <1>3
            <4>3. Spread(w, n) <= s
                BY <4>2, <1>0, <1>3
            <4>4. s + PageRows > w /\ s < w + 1 + RowsOf(w, n)
                BY <4>3, <3>1, <3>2, <1>0, <1>2 DEF Spread, RowsOf
            <4>5. QED BY <4>4 DEF InSight
        <3>5. QED BY <3>3, <3>4, <1>0, <1>3, <1>10
    <2>3. QED BY <1>0, <1>1, <2>1, <2>2 DEF TableInv
<1>11. QED BY <1>9, <1>10

LEMMA TableStep ==
    ASSUME TableInv, Rows!TableNext
    PROVE  TableInv'
<1>0. /\ scrollTop \in Nat /\ view.row \in Nat /\ length \in Nat \ {0} /\ length \in Lengths
      /\ event \in BOOLEAN /\ lost \in BOOLEAN /\ view \in [row : Nat, held : BOOLEAN, y : Int]
      /\ LoadedRows \div 2 \in Nat /\ LoadedRows \div 2 >= 1 /\ PageRows \in Nat \ {0} /\ LoadedRows \in Nat \ {0}
      /\ LoadedRows = (LoadedRows \div 2) + (LoadedRows \div 2) /\ Lengths \subseteq Nat \ {0}
    BY TableFacts DEF TableInv
<1>1. /\ Rows!MaxScroll(view, length) = IF EndOf(view.row, length) <= PageRows THEN 0
                                       ELSE EndOf(view.row, length) - PageRows
      /\ EndOf(view.row, length) \in Nat
    BY <1>0, Heights
<1>2. ASSUME NEW s \in 0..Rows!MaxScroll(view, length), Rows!UserScrolls(s) PROVE TableInv'
    <2>1. scrollTop' = s /\ event' = TRUE /\ UNCHANGED <<length, view, lost>>
        BY <1>2 DEF Rows!UserScrolls
    <2>2. s \in Nat /\ (s = 0 \/ s + PageRows <= EndOf(view.row, length))
        BY <1>0, <1>1
    <2>3. QED BY <1>0, <2>1, <2>2 DEF TableInv
<1>3. CASE Rows!ScrollBack
    <2>1. /\ view.held /\ view' = [view EXCEPT !.held = FALSE] /\ UNCHANGED <<length, lost>>
          /\ scrollTop' = Rows!Max({0, Rows!Min({view.y, Rows!MaxScroll(view, length)})})
          /\ event' = (scrollTop' # scrollTop)
        BY <1>3 DEF Rows!ScrollBack, Rows!ScrollTo
    <2>2. view' \in [row : Nat, held : BOOLEAN, y : Int] /\ view'.row = view.row /\ view'.held = FALSE /\ view.y \in Int
        BY <1>0, <2>1
    <2>3. scrollTop' = Limited(view.y, view.row, length)
        <3> DEFINE m == Rows!MaxScroll(view, length)
        <3>1. m \in Int /\ m >= 0
            BY <1>0, <1>1
        <3> HIDE DEF m
        <3>2. Rows!Min({view.y, m}) = IF view.y <= m THEN view.y ELSE m
            BY <2>2, <3>1, MinOfTwo
        <3>3. Rows!Min({view.y, m}) \in Int
            BY <2>2, <3>1, <3>2
        <3>4. scrollTop' = IF 0 <= Rows!Min({view.y, m}) THEN Rows!Min({view.y, m}) ELSE 0
            BY <2>1, <3>3, MaxOfTwo DEF m
        <3>5. m = IF EndOf(view.row, length) <= PageRows THEN 0 ELSE EndOf(view.row, length) - PageRows
            BY <1>1 DEF m
        <3>6. QED BY <1>0, <1>1, <2>2, <3>1, <3>2, <3>4, <3>5 DEF Limited
    <2>4. scrollTop' \in Nat /\ (scrollTop' = 0 \/ scrollTop' + PageRows <= EndOf(view.row, length))
        BY <1>0, <1>1, <2>2, <2>3 DEF Limited
    <2>5. ~lost => InSight(scrollTop', view.row, length)
        BY <2>1, <2>3 DEF TableInv
    <2>6. event' \in BOOLEAN
        BY <2>1
    <2>7. ~lost => view.row = 0 \/ view.row + LoadedRows \div 2 + 1 <= length
        BY DEF TableInv
    <2>8. QED BY <1>0, <2>1, <2>2, <2>4, <2>5, <2>6, <2>7 DEF TableInv
<1>4. ASSUME NEW n \in Lengths, Rows!ShowTable(n) PROVE TableInv'
    <2>1. /\ length' = n /\ scrollTop' = 0 /\ event' = (event \/ scrollTop # 0)
          /\ Rows!ResetScrollState(n)
          /\ lost' = (lost \/ (view.row > 0 /\ RowsOf(view.row, n) <= LoadedRows \div 2))
        BY <1>0, <1>4, Heights DEF Rows!ShowTable
    <2>2. n \in Nat \ {0}
        BY <1>0
    <2>3. /\ view' \in [row : Nat, held : BOOLEAN, y : Int] /\ view'.row = view.row
          /\ RowsOf(view.row, n) > 0 => view'.held = FALSE
        BY <2>1, TableReset
    <2>4. ASSUME ~lost'
          PROVE  /\ view.row = 0 \/ view.row + LoadedRows \div 2 + 1 <= n
                 /\ RowsOf(view.row, n) > 0 /\ ~lost
        <3>1. ~lost /\ (view.row = 0 \/ RowsOf(view.row, n) > LoadedRows \div 2)
            <4>1. RowsOf(view.row, n) \in Nat
                BY <1>0, <2>2 DEF RowsOf
            <4>2. lost' = (lost \/ (view.row > 0 /\ RowsOf(view.row, n) <= LoadedRows \div 2))
                BY <2>1
            <4>3. ~(lost \/ (view.row > 0 /\ RowsOf(view.row, n) <= LoadedRows \div 2))
                BY <2>4, <4>2, Zenon
            <4>4. LoadedRows \div 2 \in Int /\ view.row \in Nat
                BY <1>0
            <4>5. QED BY <4>1, <4>3, <4>4
        <3>2. CASE view.row = 0
            BY <3>1, <3>2, <1>0, <2>2 DEF RowsOf
        <3>3. CASE RowsOf(view.row, n) > LoadedRows \div 2
            BY <3>1, <3>3, <1>0, <2>2 DEF RowsOf
        <3>4. QED BY <3>1, <3>2, <3>3
    <2>5. ASSUME ~lost', ~event' PROVE InSight(0, view.row, n)
        <3>1. InSight(0, view.row, length)
            BY <2>1, <2>4, <2>5 DEF TableInv
        <3>2. QED BY <3>1, <1>0, <2>2, <2>4, <2>5 DEF InSight, RowsOf
    <2>6. lost' \in BOOLEAN /\ event' \in BOOLEAN
        BY <1>0, <2>1
    <2>7. QED BY <2>1, <2>2, <2>3, <2>4, <2>5, <2>6 DEF TableInv
<1>5. CASE Rows!Reopen
    <2>1. /\ scrollTop' = 0 /\ event' = FALSE /\ lost' = (view.row > 0) /\ length' = length
          /\ Rows!ResetScrollState(length)
        BY <1>5 DEF Rows!Reopen
    <2>2. /\ view' \in [row : Nat, held : BOOLEAN, y : Int] /\ view'.row = view.row
          /\ RowsOf(view.row, length) > 0 => view'.held = FALSE
        BY <1>0, <2>1, TableReset
    <2>3. ASSUME ~lost' PROVE view.row = 0 /\ InSight(0, 0, length) /\ view'.held = FALSE
        <3>1. view.row = 0
            <4>1. lost' = (view.row > 0)
                BY <2>1
            <4>2. ~(view.row > 0)
                BY <2>3, <4>1, Zenon
            <4>3. QED BY <1>0, <4>2
        <3>2. RowsOf(0, length) > 0
            BY <1>0 DEF RowsOf
        <3>3. InSight(0, 0, length)
            BY <1>0, <3>2 DEF InSight, RowsOf
        <3>4. QED BY <2>2, <3>1, <3>2, <3>3
    <2>4. lost' \in BOOLEAN
        BY <2>1
    <2>5. QED BY <1>0, <2>1, <2>2, <2>3, <2>4 DEF TableInv
<1>6. QED BY <1>2, <1>3, <1>4, <1>5, TableScrolls DEF Rows!TableNext

LEMMA TableKept == TableInv => Rows!RowsInSight
<1> SUFFICES ASSUME TableInv, ~event, ~lost PROVE scrollTop + PageRows > view.row
                 /\ scrollTop < view.row + Rows!Header + Rows!Rows(view, length)
    BY DEF Rows!RowsInSight
<1>1. Rows!Rows(view, length) = RowsOf(view.row, length)
    BY Heights DEF TableInv
<1>2. InSight(scrollTop, view.row, length)
    BY DEF TableInv
<1>3. QED BY <1>1, <1>2 DEF InSight, Rows!Header

LEMMA LongestResult ==
    Rows!Max(Lengths) \in Nat \ {0} /\ \A n \in Lengths : n <= Rows!Max(Lengths)
<1>1. \E n \in Lengths : \A m \in Lengths : n >= m
    <2>1. PICK n \in Lengths : \A m \in Lengths : m <= n
        BY TabAssumption DEF Rows!TableAssumption
    <2>2. \A m \in Lengths : n >= m
        BY <2>1, TableFacts
    <2>3. QED BY <2>2
<1>2. Rows!Max(Lengths) \in Lengths /\ \A m \in Lengths : Rows!Max(Lengths) >= m
    BY <1>1 DEF Rows!Max
<1>3. QED BY <1>2, TableFacts

\* The window of a table begins within the longest result.
TableBounded == TableInv /\ view.row <= Rows!Max(Lengths)

LEMMA TableBoundedStart == TabInit => TableBounded
<1> SUFFICES ASSUME TabInit PROVE TableBounded
    OBVIOUS
<1>1. Rows!TableInit
    BY DEF TabInit
<1>2. view.row = 0
    BY <1>1 DEF Rows!TableInit
<1>3. QED BY <1>2, TableStarts, LongestResult DEF TableBounded

LEMMA WindowBounded ==
    ASSUME TableBounded, Rows!TableNext
    PROVE  view'.row <= Rows!Max(Lengths)
<1>0. TableInv /\ view.row \in Nat /\ view.row <= Rows!Max(Lengths) /\ length \in Lengths
      /\ view \in [row : Nat, held : BOOLEAN, y : Int]
    BY DEF TableBounded, TableInv
<1>1. ASSUME NEW s, Rows!UserScrolls(s) PROVE view' = view
    BY <1>1 DEF Rows!UserScrolls
<1>2. ASSUME Rows!ScrollBack PROVE view'.row = view.row
    BY <1>0, <1>2 DEF Rows!ScrollBack
<1>3. ASSUME Rows!OnScroll, view' # view PROVE view'.row <= Rows!Max(Lengths)
    <2> DEFINE R == Rows!RowAt
               half == LoadedRows \div 2
    <2>1. R < length /\ view'.row = Rows!NewRow(R)
        BY <1>3 DEF Rows!OnScroll
    <2>2. R \in Nat /\ half \in Nat /\ length \in Nat /\ Rows!Max(Lengths) \in Nat /\ length <= Rows!Max(Lengths)
        BY <1>0, RowThere, TableFacts, LongestResult
    <2>3. R - half \in Int /\ 0 \in Int
        BY <2>2
    <2>4. Rows!NewRow(R) = IF 0 <= R - half THEN R - half ELSE 0
        BY <2>3, MaxOfTwo DEF Rows!NewRow
    <2> HIDE DEF R, half
    <2>5. QED BY <2>1, <2>2, <2>4
<1>4. ASSUME NEW n \in Lengths, Rows!ResetScrollState(n) PROVE view'.row = view.row
    BY <1>0, <1>4, TableReset
<1>5. ASSUME NEW n \in Lengths, Rows!ShowTable(n) PROVE view'.row = view.row
    BY <1>4, <1>5 DEF Rows!ShowTable
<1>6. ASSUME Rows!Reopen PROVE view'.row = view.row
    BY <1>0, <1>4, <1>6 DEF Rows!Reopen
<1>7. QED BY <1>0, <1>1, <1>2, <1>3, <1>5, <1>6 DEF Rows!TableNext

LEMMA TableBoundedStep == TableBounded /\ Rows!TableNext => TableBounded'
<1> SUFFICES ASSUME TableBounded, Rows!TableNext PROVE TableBounded'
    OBVIOUS
<1>1. TableInv'
    BY TableStep DEF TableBounded
<1>2. QED BY <1>1, WindowBounded DEF TableBounded

LEMMA TableTyped == TableBounded => Rows!TableTypeOK
<1> SUFFICES ASSUME TableBounded PROVE Rows!TableTypeOK
    OBVIOUS
<1>1. /\ length \in Nat \ {0} /\ length \in Lengths /\ view \in [row : Nat, held : BOOLEAN, y : Int]
      /\ scrollTop \in Nat /\ (scrollTop = 0 \/ scrollTop + PageRows <= EndOf(view.row, length))
      /\ event \in BOOLEAN /\ lost \in BOOLEAN /\ view.row <= Rows!Max(Lengths)
    BY DEF TableBounded, TableInv
<1>2. /\ Rows!MaxScroll(view, length) = IF EndOf(view.row, length) <= PageRows THEN 0
                                       ELSE EndOf(view.row, length) - PageRows
      /\ EndOf(view.row, length) \in Nat
    BY <1>1, Heights
<1>3. scrollTop \in 0..Rows!MaxScroll(view, length)
    BY <1>1, <1>2, TableFacts
<1>4. view \in [row : 0..Rows!Max(Lengths), held : BOOLEAN, y : Int]
    BY <1>1, LongestResult
<1>5. QED BY <1>1, <1>3, <1>4 DEF Rows!TableTypeOK

-----------------------------------------------------------------------------
(* The texts of a result                                                   *)

LEMMA WiderOfTwo ==
    ASSUME NEW a \in Nat, NEW b \in Nat
    PROVE  Text!Pad(a, b) = IF a <= b THEN b ELSE a
<1> DEFINE m == IF a <= b THEN b ELSE a
<1>1. m \in {a, b} /\ \A y \in {a, b} : m >= y
    OBVIOUS
<1>2. \A x \in {a, b} : (\A y \in {a, b} : x >= y) => x = m
    OBVIOUS
<1> HIDE DEF m
<1>3. (CHOOSE x \in {a, b} : \A y \in {a, b} : x >= y) = m
    BY <1>1, <1>2
<1>4. QED BY <1>3 DEF Text!Pad, Text!Max, m

\* A bounded set of numbers has a greatest one: the least of its bounds.
LEMMA GreatestOf ==
    ASSUME NEW S \in SUBSET Nat, S # {}, NEW b \in Nat, \A x \in S : x <= b
    PROVE  Text!Max(S) \in S /\ \A x \in S : x <= Text!Max(S)
<1> DEFINE Bounds == {n \in Nat : \A x \in S : x <= n}
<1>1. PICK n \in Bounds : \A m \in Bounds : ~(<<m, n>> \in OpToRel(<, Nat))
    <2>1. Bounds \subseteq Nat /\ Bounds # {}
        OBVIOUS
    <2> HIDE DEF Bounds
    <2>2. QED BY <2>1, WFMin, NatLessThanWellFounded, Zenon
<1>2. \A m \in Bounds : ~(m < n)
    BY <1>1, Zenon DEF OpToRel
<1>3. n \in S
    <2>1. SUFFICES ASSUME n \notin S PROVE FALSE
        OBVIOUS
    <2>2. PICK x \in S : TRUE
        OBVIOUS
    <2>3. n - 1 \in Nat /\ n - 1 < n
        BY <2>1, <2>2
    <2>4. n - 1 \in Bounds
        BY <2>1, <2>3
    <2>5. QED BY <1>2, <2>3, <2>4
<1>4. \A x \in S : n >= x
    OBVIOUS
<1>5. Text!Max(S) \in S /\ \A x \in S : Text!Max(S) >= x
    BY <1>3, <1>4 DEF Text!Max
<1>6. QED BY <1>5

\* The parts of a result: its headers, and rows as long as they are.
IsResult(r, m, n) == r \in [1..(m + 1) -> [1..n -> 0..MaxChars]]

LEMMA LinesAlike ==
    ASSUME NEW m \in Nat \ {0}, NEW n \in Nat \ {0}, IsResult(result, m, n)
    PROVE  /\ Len(result) = m + 1 /\ DOMAIN result = 1..(m + 1)
           /\ Text!SqlHeader = Text!SqlDivider
           /\ \A i \in 1..(m + 1) : Text!SqlRow(i) = Text!SqlDivider
           /\ \A i \in 1..(m + 1) : Text!MarkdownRow(i) = Text!MarkdownDescriptor
<1>1. DOMAIN result = 1..(m + 1) /\ \A i \in 1..(m + 1) : result[i] \in [1..n -> 0..MaxChars]
    BY DEF IsResult
<1>2. Len(result) = m + 1
    BY DEF IsResult
<1>3. Text!Columns = 1..n
    <2>1. 1 \in 1..(m + 1)
        OBVIOUS
    <2>2. QED BY <1>1, <2>1 DEF Text!Columns, Text!Headers
<1>4. MaxChars \in Nat
    BY TabAssumption DEF Text!TextAssumption
<1>5. ASSUME NEW j \in 1..n
      PROVE  /\ Text!MaxCharsOf(j) \in Nat
             /\ \A i \in 1..(m + 1) : result[i][j] \in Nat /\ result[i][j] <= Text!MaxCharsOf(j)
    <2> DEFINE S == {result[i][j] : i \in DOMAIN result}
    <2>1. \A i \in 1..(m + 1) : result[i][j] \in 0..MaxChars
        BY <1>1
    <2>2. ASSUME NEW x \in S PROVE x \in Nat /\ x <= MaxChars
        <3>1. PICK i \in 1..(m + 1) : x = result[i][j]
            BY <1>1
        <3>2. x \in 0..MaxChars
            BY <2>1, <3>1
        <3>3. QED BY <1>4, <3>2
    <2>3. \A i \in 1..(m + 1) : result[i][j] \in S
        BY <1>1
    <2> HIDE DEF S
    <2>4. S \in SUBSET Nat /\ (\A x \in S : x <= MaxChars) /\ S # {}
        <3>1. 1 \in 1..(m + 1)
            OBVIOUS
        <3>2. QED BY <2>2, <2>3, <3>1
    <2>5. Text!Max(S) \in S /\ \A x \in S : x <= Text!Max(S)
        BY <1>4, <2>4, GreatestOf
    <2>6. Text!MaxCharsOf(j) = Text!Max(S)
        BY DEF Text!MaxCharsOf, S
    <2>7. QED BY <2>3, <2>4, <2>5, <2>6
<1>6. ASSUME NEW j \in 1..n, NEW i \in 1..(m + 1)
      PROVE  /\ Text!Pad(result[i][j], Text!MaxCharsOf(j)) = Text!MaxCharsOf(j)
             /\ Text!Centered(result[i][j], Text!MaxCharsOf(j)) = Text!MaxCharsOf(j)
    <2> DEFINE a == result[i][j]
               b == Text!MaxCharsOf(j)
    <2>1. a \in Nat /\ b \in Nat /\ a <= b
        BY <1>5
    <2> HIDE DEF a, b
    <2>2. Text!Pad(a, b) = b
        BY <2>1, WiderOfTwo
    <2>3. b \div 2 \in Nat /\ b \div 2 <= b
        BY <2>1
    <2>4. Text!Pad(a, b \div 2) = IF a <= b \div 2 THEN b \div 2 ELSE a
        BY <2>1, <2>3, WiderOfTwo
    <2>5. Text!Pad(a, b \div 2) \in Nat /\ Text!Pad(a, b \div 2) <= b
        BY <2>1, <2>3, <2>4
    <2>6. Text!Centered(a, b) = b
        BY <2>1, <2>5, WiderOfTwo DEF Text!Centered
    <2>7. QED BY <2>2, <2>6 DEF a, b
<1>7. Text!SqlHeader = Text!SqlDivider
    <2>1. \A j \in 1..n : Text!Bar(j) + Text!Centered(Text!Headers[j], Text!MaxCharsOf(j)) + 2
                          = (IF j > 1 THEN 2 ELSE 1) + Text!MaxCharsOf(j) + 1
        <3>1. 1 \in 1..(m + 1)
            OBVIOUS
        <3>2. QED BY <3>1, <1>5, <1>6 DEF Text!Bar, Text!Headers
    <2>2. QED BY <1>3, <2>1 DEF Text!SqlHeader, Text!SqlDivider
<1>8. ASSUME NEW i \in 1..(m + 1)
      PROVE  Text!SqlRow(i) = Text!SqlDivider /\ Text!MarkdownRow(i) = Text!MarkdownDescriptor
    <2>1. \A j \in 1..n : Text!Bar(j) + Text!Pad(result[i][j], Text!MaxCharsOf(j)) + 2
                          = (IF j > 1 THEN 2 ELSE 1) + Text!MaxCharsOf(j) + 1
        BY <1>5, <1>6 DEF Text!Bar
    <2>2. \A j \in 1..n : 2 + Text!Pad(result[i][j], Text!MaxCharsOf(j)) + 1 = 1 + Text!MaxCharsOf(j) + 2
        BY <1>5, <1>6
    <2>3. Text!SqlRow(i) = Text!SqlDivider
        BY <1>3, <2>1 DEF Text!SqlRow, Text!SqlDivider
    <2>4. Text!MarkdownRow(i) = Text!MarkdownDescriptor
        BY <1>3, <2>2 DEF Text!MarkdownRow, Text!MarkdownDescriptor
    <2>5. QED BY <2>3, <2>4
<1>9. QED BY <1>1, <1>2, <1>7, <1>8

\* Lines that are all alike, after two more of the kind.
LEMMA AllAlike ==
    ASSUME NEW x, NEW m \in Nat, NEW f, f = [i \in 1..m |-> x]
    PROVE  \A i \in DOMAIN (<<x, x>> \o f) : (<<x, x>> \o f)[i] = (<<x, x>> \o f)[1]
<1>1. f \in Seq({x}) /\ <<x, x>> \in Seq({x})
    OBVIOUS
<1>2. <<x, x>> \o f \in Seq({x})
    BY <1>1
<1>3. \A i \in DOMAIN (<<x, x>> \o f) : (<<x, x>> \o f)[i] = x
    BY <1>2
<1>4. 1 \in DOMAIN (<<x, x>> \o f)
    <2>1. Len(f) \in Nat
        BY <1>1
    <2>2. Len(<<x, x>> \o f) = 2 + Len(f)
        BY <1>1
    <2>3. QED BY <1>2, <2>1, <2>2
<1>5. QED BY <1>3, <1>4

TextInv == result \in Text!Results \cup {<<>>}

LEMMA TextStarts == TabInit => TextInv
<1>1. TabInit => Text!TextInit
    BY DEF TabInit
<1>2. QED BY <1>1 DEF Text!TextInit, TextInv

LEMMA TextStep ==
    ASSUME TextInv, Text!TextNext
    PROVE  TextInv'
BY DEF TextInv, Text!TextNext, Text!SetDisplayMode, Text!ShowResult

LEMMA TextKept == TextInv => Text!BarsAligned
<1> SUFFICES ASSUME TextInv, result # <<>>
             PROVE  \A i \in DOMAIN Text!ResultString : Text!ResultString[i] = Text!ResultString[1]
    BY DEF Text!BarsAligned
<1>1. PICK n \in 1..MaxColumns, m \in 1..MaxRows : IsResult(result, m, n)
    <2> DEFINE Of(n, m) == [1..(m + 1) -> Text!Widths(n)]
    <2>1. result \in UNION {Of(n, m) : n \in 1..MaxColumns, m \in 1..MaxRows}
        BY DEF TextInv, Text!Results
    <2> HIDE DEF Of
    <2>2. PICK n \in 1..MaxColumns, m \in 1..MaxRows : result \in Of(n, m)
        <3>1. PICK set \in {Of(n, m) : n \in 1..MaxColumns, m \in 1..MaxRows} : result \in set
            BY <2>1
        <3>2. PICK n \in 1..MaxColumns, m \in 1..MaxRows : set = Of(n, m)
            BY <3>1
        <3>3. QED BY <3>1, <3>2
    <2>3. IsResult(result, m, n)
        BY <2>2 DEF Of, Text!Widths, IsResult
    <2>4. QED BY <2>3
<1>2. n \in Nat \ {0} /\ m \in Nat \ {0}
    BY TabAssumption DEF Text!TextAssumption
<1>3. /\ Len(result) = m + 1 /\ DOMAIN result = 1..(m + 1)
      /\ Text!SqlHeader = Text!SqlDivider
      /\ \A i \in 1..(m + 1) : Text!SqlRow(i) = Text!SqlDivider
      /\ \A i \in 1..(m + 1) : Text!MarkdownRow(i) = Text!MarkdownDescriptor
    BY <1>1, <1>2, LinesAlike
<1>4. Len(result) - 1 = m /\ 1 \in 1..(m + 1) /\ \A i \in 1..m : i + 1 \in 1..(m + 1)
    BY <1>2, <1>3
<1>5. CASE displayMode = "markdown"
    <2> DEFINE x == Text!MarkdownDescriptor
               f == [i \in 1..(Len(result) - 1) |-> Text!MarkdownRow(i + 1)]
    <2>1. f = [i \in 1..m |-> x] /\ Text!MarkdownRow(1) = x
        BY <1>3, <1>4
    <2>2. Text!ResultString = <<x, x>> \o f
        BY <1>5, <2>1 DEF Text!ResultString, Text!MdString
    <2> HIDE DEF x, f
    <2>3. QED BY <1>2, <2>1, <2>2, AllAlike
<1>6. CASE displayMode # "markdown"
    <2> DEFINE x == Text!SqlDivider
               f == [i \in 1..(Len(result) - 1) |-> Text!SqlRow(i + 1)]
    <2>1. f = [i \in 1..m |-> x] /\ Text!SqlHeader = x
        BY <1>3, <1>4
    <2>2. Text!ResultString = <<x, x>> \o f
        BY <1>6, <2>1 DEF Text!ResultString, Text!SqlString
    <2> HIDE DEF x, f
    <2>3. QED BY <1>2, <2>1, <2>2, AllAlike
<1>7. QED BY <1>5, <1>6

-----------------------------------------------------------------------------
(* The tree of a database                                                  *)

\* A schema, a table and a column are paths of one, two and three numbers.
LEMMA Paths ==
    /\ \A c \in Tree!Column : /\ c = <<c[1], c[2], c[3]>> /\ c \in Seq(Nat) /\ Len(c) = 3
                              /\ c[1] \in DOMAIN Schemas /\ c[2] \in DOMAIN Schemas[c[1]]
                              /\ c[1] \in Nat /\ c[2] \in Nat /\ c[3] \in Nat
    /\ \A i \in Tree!Table : i = <<i[1], i[2]>> /\ i \in Seq(Nat) /\ Len(i) = 2
    /\ \A i \in Tree!Schema : i = <<i[1]>> /\ i \in Seq(Nat) /\ Len(i) = 1
    /\ \A c \in Tree!Column : <<c[1]>> \in Tree!Schema /\ <<c[1], c[2]>> \in Tree!Table
    /\ Tree!NoColumn \notin Tree!Column
<1>1. /\ DOMAIN Schemas = 1..Len(Schemas) /\ Len(Schemas) \in Nat
      /\ \A s \in DOMAIN Schemas : /\ DOMAIN Schemas[s] = 1..Len(Schemas[s]) /\ Len(Schemas[s]) \in Nat
                                   /\ \A t \in DOMAIN Schemas[s] : Schemas[s][t] \in Nat
    BY TabAssumption DEF Tree!TreeAssumption
<1>2. ASSUME NEW i \in Tree!Table
      PROVE  /\ i = <<i[1], i[2]>> /\ i \in Seq(Nat) /\ Len(i) = 2
             /\ i[1] \in DOMAIN Schemas /\ i[2] \in DOMAIN Schemas[i[1]]
    <2>0. PICK s \in DOMAIN Schemas : \E t \in DOMAIN Schemas[s] : i = <<s, t>>
        BY DEF Tree!Table
    <2>1. PICK t \in DOMAIN Schemas[s] : i = <<s, t>>
        BY <2>0
    <2>2. s \in Nat /\ t \in Nat
        BY <1>1
    <2>3. QED BY <2>1, <2>2
<1>3. ASSUME NEW c \in Tree!Column
      PROVE  /\ c = <<c[1], c[2], c[3]>> /\ c \in Seq(Nat) /\ Len(c) = 3
             /\ c[1] \in DOMAIN Schemas /\ c[2] \in DOMAIN Schemas[c[1]]
             /\ c[1] \in Nat /\ c[2] \in Nat /\ c[3] \in Nat
    <2>0. PICK i \in Tree!Table : \E k \in 1..Schemas[i[1]][i[2]] : c = <<i[1], i[2], k>>
        BY DEF Tree!Column
    <2>1. PICK k \in 1..Schemas[i[1]][i[2]] : c = <<i[1], i[2], k>>
        BY <2>0
    <2>2. i[1] \in DOMAIN Schemas /\ i[2] \in DOMAIN Schemas[i[1]]
        BY <1>2
    <2>3. i[1] \in Nat /\ i[2] \in Nat /\ k \in Nat
        BY <1>1, <2>2
    <2>4. QED BY <2>1, <2>2, <2>3
<1>4. ASSUME NEW i \in Tree!Schema PROVE i = <<i[1]>> /\ i \in Seq(Nat) /\ Len(i) = 1
    <2>1. PICK s \in DOMAIN Schemas : i = <<s>>
        BY DEF Tree!Schema
    <2>2. s \in Nat
        BY <1>1
    <2>3. QED BY <2>1, <2>2
<1>5. ASSUME NEW c \in Tree!Column PROVE <<c[1]>> \in Tree!Schema /\ <<c[1], c[2]>> \in Tree!Table
    BY <1>3 DEF Tree!Schema, Tree!Table
<1>6. Tree!NoColumn \notin Tree!Column
    BY <1>3 DEF Tree!NoColumn
<1>7. QED BY <1>2, <1>3, <1>4, <1>5, <1>6

\* Two sequences begin alike if they agree at each position of the shorter one.
LEMMA SameBeginning ==
    ASSUME NEW S, NEW s \in Seq(S), NEW t \in Seq(S), Len(s) <= Len(t)
    PROVE  SubSeq(s, 1, Len(s)) = SubSeq(t, 1, Len(s)) <=> \A n \in 1..Len(s) : s[n] = t[n]
<1>1. Len(s) \in Nat /\ Len(t) \in Nat
    OBVIOUS
<1>2. /\ DOMAIN SubSeq(s, 1, Len(s)) = 1..Len(s) /\ DOMAIN SubSeq(t, 1, Len(s)) = 1..Len(s)
      /\ \A n \in 1..Len(s) : SubSeq(s, 1, Len(s))[n] = s[n] /\ SubSeq(t, 1, Len(s))[n] = t[n]
    BY <1>1
<1>3. SubSeq(s, 1, Len(s)) = SubSeq(t, 1, Len(s))
      <=> \A n \in 1..Len(s) : SubSeq(s, 1, Len(s))[n] = SubSeq(t, 1, Len(s))[n]
    <2>1. SubSeq(s, 1, Len(s)) \in Seq(S) /\ SubSeq(t, 1, Len(s)) \in Seq(S)
        BY <1>1
    <2>2. Len(SubSeq(s, 1, Len(s))) = Len(s) /\ Len(SubSeq(t, 1, Len(s))) = Len(s)
        BY <1>1
    <2>3. QED BY <2>1, <2>2, SeqEqual
<1>4. QED BY <1>2, <1>3

LEMMA PrefixIs ==
    ASSUME NEW s \in Seq(Nat), NEW t \in Seq(Nat), Len(s) <= Len(t)
    PROVE  Tree!IsPrefix(s, t) <=> \A n \in 1..Len(s) : s[n] = t[n]
BY SameBeginning DEF Tree!IsPrefix

\* The columns of an item.
LEMMA Below ==
    ASSUME NEW c \in Tree!Column
    PROVE  /\ \A i \in Tree!Column : c \in Tree!Columns(i) <=> i = c
           /\ \A i \in Tree!Table : c \in Tree!Columns(i) <=> i[1] = c[1] /\ i[2] = c[2]
           /\ \A i \in Tree!Schema : c \in Tree!Columns(i) <=> i[1] = c[1]
<1>1. ASSUME NEW i \in Seq(Nat), Len(i) <= 3
      PROVE  c \in Tree!Columns(i) <=> \A n \in 1..Len(i) : i[n] = c[n]
    BY <1>1, Paths, PrefixIs DEF Tree!Columns
<1>2. 1..3 = {1, 2, 3} /\ 1..2 = {1, 2} /\ 1..1 = {1}
    OBVIOUS
<1>3. ASSUME NEW i \in Tree!Column PROVE c \in Tree!Columns(i) <=> i = c
    <2>1. i \in Seq(Nat) /\ Len(i) = 3
        BY Paths
    <2>2. c \in Tree!Columns(i) <=> \A n \in 1..3 : i[n] = c[n]
        <3>1. Len(i) <= 3
            BY <2>1
        <3>2. c \in Tree!Columns(i) <=> \A n \in 1..Len(i) : i[n] = c[n]
            BY <1>1, <2>1, <3>1
        <3>3. QED BY <2>1, <3>2, Zenon
    <2>3. c \in Tree!Columns(i) <=> i[1] = c[1] /\ i[2] = c[2] /\ i[3] = c[3]
        BY <1>2, <2>2
    <2>4. i = <<i[1], i[2], i[3]>> /\ c = <<c[1], c[2], c[3]>>
        BY Paths
    <2>5. QED BY <2>3, <2>4
<1>4. ASSUME NEW i \in Tree!Table PROVE c \in Tree!Columns(i) <=> i[1] = c[1] /\ i[2] = c[2]
    <2>1. i \in Seq(Nat) /\ Len(i) = 2
        BY Paths
    <2>2. c \in Tree!Columns(i) <=> \A n \in 1..2 : i[n] = c[n]
        <3>1. Len(i) <= 3
            BY <2>1
        <3>2. c \in Tree!Columns(i) <=> \A n \in 1..Len(i) : i[n] = c[n]
            BY <1>1, <2>1, <3>1
        <3>3. QED BY <2>1, <3>2, Zenon
    <2>3. QED BY <1>2, <2>2
<1>5. ASSUME NEW i \in Tree!Schema PROVE c \in Tree!Columns(i) <=> i[1] = c[1]
    <2>1. i \in Seq(Nat) /\ Len(i) = 1
        BY Paths
    <2>2. c \in Tree!Columns(i) <=> \A n \in 1..1 : i[n] = c[n]
        <3>1. Len(i) <= 3
            BY <2>1
        <3>2. c \in Tree!Columns(i) <=> \A n \in 1..Len(i) : i[n] = c[n]
            BY <1>1, <2>1, <3>1
        <3>3. QED BY <2>1, <3>2, Zenon
    <2>3. QED BY <1>2, <2>2
<1>6. QED BY <1>3, <1>4, <1>5

-----------------------------------------------------------------------------
(* Which columns are marked while the mouse rests on h, and who tells of it *)
MarkFor(h, c) ==
    IF h = Tree!NoColumn THEN "none"
    ELSE IF references[h] # Tree!NoColumn
    THEN IF c = references[h] THEN "to" ELSE IF c = h THEN "from" ELSE "none"
    ELSE IF h \in PrimaryKey
    THEN IF c = h THEN "to" ELSE IF h \in foreign[c] THEN "from" ELSE "none"
    ELSE "none"

TreeInv ==
    /\ Tree!TreeTypeOK
    /\ references \in Tree!LinkForeignKeys(foreign)
    /\ hovered # Tree!NoColumn => hovered \in Tree!MenuItems
    /\ database = "loading" => hovered = Tree!NoColumn
    /\ ~left => \A c \in Tree!Column : mark[c] = MarkFor(hovered, c)

LEMMA TreeStarts == Tree!TreeInit => TreeInv
<1> SUFFICES ASSUME Tree!TreeInit PROVE TreeInv
    OBVIOUS
<1>1. Tree!TreeTypeOK
    BY DEF Tree!TreeInit, Tree!TreeTypeOK, Tree!Unmarked, Tree!Mark
<1>2. references \in Tree!LinkForeignKeys(foreign)
    BY DEF Tree!TreeInit, Tree!LinkForeignKeys
<1>3. QED BY <1>1, <1>2 DEF Tree!TreeInit, TreeInv, Tree!Unmarked, MarkFor

LEMMA TreeStep ==
    ASSUME TreeInv, Tree!TreeNext
    PROVE  TreeInv'
<1>0. /\ Tree!NoColumn \notin Tree!Column /\ PrimaryKey \subseteq Tree!Column
      /\ Tree!TreeTypeOK /\ references \in Tree!LinkForeignKeys(foreign)
    BY Paths, TabAssumption DEF Tree!TreeAssumption, TreeInv
<1>1. ASSUME NEW c \in Tree!Column, Tree!OnMouseOver(c) PROVE TreeInv'
    <2>1. /\ hovered = Tree!NoColumn /\ hovered' = c /\ database = "shown"
          /\ UNCHANGED <<foreign, references, isShown, database, left>>
          /\ c \in Tree!MenuItems
        BY <1>1 DEF Tree!OnMouseOver, Tree!MenuItems
    <2>2. Tree!MenuItems' = Tree!MenuItems
        BY <2>1 DEF Tree!MenuItems
    <2>3. mark' \in [Tree!Column -> Tree!Mark]
        BY <1>0, <1>1 DEF Tree!OnMouseOver, Tree!TreeTypeOK, Tree!Marked, Tree!ReferencedBy, Tree!Mark
    <2>4. ASSUME ~left', NEW d \in Tree!Column PROVE mark'[d] = MarkFor(c, d)
        <3>1. \A x \in Tree!Column : mark[x] = "none"
            BY <2>1, <2>4 DEF TreeInv, MarkFor
        <3>2. references[c] = Tree!NoColumn \/ references[c] \in Tree!Column
            BY <1>0 DEF Tree!TreeTypeOK
        <3>3. QED BY <1>0, <1>1, <3>1, <3>2 DEF Tree!OnMouseOver, Tree!TreeTypeOK, Tree!Marked,
                                                Tree!ReferencedBy, MarkFor
    <2>5. Tree!TreeTypeOK'
        BY <1>0, <2>1, <2>3 DEF Tree!TreeTypeOK
    <2>6. (references \in Tree!LinkForeignKeys(foreign))'
        BY <1>0, <2>1 DEF Tree!LinkForeignKeys
    <2>7. \A d \in Tree!Column : ~left' => mark'[d] = MarkFor(hovered, d)'
        BY <2>1, <2>4 DEF MarkFor
    <2>8. QED BY <2>1, <2>2, <2>5, <2>6, <2>7 DEF TreeInv
<1>2. ASSUME Tree!OnMouseOut PROVE TreeInv'
    <2>1. /\ hovered \in Tree!Column /\ hovered' = Tree!NoColumn
          /\ UNCHANGED <<foreign, references, isShown, database, left>>
        BY <1>0, <1>2 DEF Tree!OnMouseOut, Tree!TreeTypeOK
    <2>3. mark' \in [Tree!Column -> Tree!Mark]
        BY <1>0, <1>2 DEF Tree!OnMouseOut, Tree!UnmarkedBy, Tree!TreeTypeOK, Tree!Marked, Tree!ReferencedBy, Tree!Mark
    <2>4. ASSUME ~left', NEW d \in Tree!Column PROVE mark'[d] = "none"
        <3>1. \A x \in Tree!Column : mark[x] = MarkFor(hovered, x)
            BY <2>1, <2>4 DEF TreeInv
        <3>2. references[hovered] = Tree!NoColumn \/ references[hovered] \in Tree!Column
            BY <1>0, <2>1 DEF Tree!TreeTypeOK
        <3>3. QED BY <1>0, <1>2, <2>1, <3>1, <3>2 DEF Tree!OnMouseOut, Tree!UnmarkedBy, Tree!TreeTypeOK,
                                                Tree!Marked, Tree!ReferencedBy, MarkFor
    <2>5. Tree!TreeTypeOK'
        BY <1>0, <2>1, <2>3 DEF Tree!TreeTypeOK
    <2>6. (references \in Tree!LinkForeignKeys(foreign))'
        BY <1>0, <2>1 DEF Tree!LinkForeignKeys
    <2>8. QED BY <2>1, <2>4, <2>5, <2>6 DEF TreeInv, MarkFor
<1>3. ASSUME NEW i \in Tree!Schema \cup Tree!Table, Tree!ToggleShow(i) PROVE TreeInv'
    <2>1. /\ hovered = Tree!NoColumn /\ isShown' \subseteq Tree!Schema \cup Tree!Table
          /\ UNCHANGED <<foreign, references, database, mark, hovered, left>>
        BY <1>0, <1>3 DEF Tree!ToggleShow, Tree!TreeTypeOK
    <2>2. Tree!TreeTypeOK'
        BY <1>0, <2>1 DEF Tree!TreeTypeOK
    <2>3. (references \in Tree!LinkForeignKeys(foreign))'
        BY <1>0, <2>1 DEF Tree!LinkForeignKeys
    <2>4. QED BY <2>1, <2>2, <2>3 DEF TreeInv, MarkFor
<1>4. ASSUME Tree!Goes, database' \in {"hidden", "loading"},
             UNCHANGED <<foreign, references, isShown, mark>>
      PROVE  TreeInv'
    <2>1. Tree!TreeTypeOK'
        BY <1>0, <1>4 DEF Tree!TreeTypeOK, Tree!Goes
    <2>2. (references \in Tree!LinkForeignKeys(foreign))'
        BY <1>0, <1>4 DEF Tree!LinkForeignKeys
    <2>3. QED BY <1>4, <2>1, <2>2 DEF TreeInv, MarkFor, Tree!Goes
<1>5. ASSUME Tree!Show PROVE TreeInv'
    <2>0. hovered = Tree!NoColumn
        BY <1>5 DEF Tree!Show, Tree!MenuItems, TreeInv
    <2>1. Tree!TreeTypeOK'
        BY <1>0, <1>5 DEF Tree!TreeTypeOK, Tree!Show
    <2>2. (references \in Tree!LinkForeignKeys(foreign))'
        BY <1>0, <1>5 DEF Tree!LinkForeignKeys, Tree!Show
    <2>3. QED BY <1>5, <2>0, <2>1, <2>2 DEF TreeInv, MarkFor, Tree!Show
<1>6. ASSUME Tree!Load PROVE TreeInv'
    <2>0. hovered = Tree!NoColumn
        BY <1>6 DEF Tree!Load, Tree!MenuItems, TreeInv
    <2>1. PICK f \in Tree!Constraints : foreign' = f /\ references' \in Tree!LinkForeignKeys(f)
        BY <1>6 DEF Tree!Load
    <2>2. f \in [Tree!Column -> SUBSET Tree!Column]
        BY DEF Tree!Constraints
    <2>3. references' \in [Tree!Column -> Tree!Column \cup {Tree!NoColumn}]
        BY <2>1 DEF Tree!LinkForeignKeys
    <2>4. Tree!TreeTypeOK'
        BY <1>0, <1>6, <2>1, <2>2, <2>3 DEF Tree!TreeTypeOK, Tree!Load
    <2>5. (references \in Tree!LinkForeignKeys(foreign))'
        BY <2>1 DEF Tree!LinkForeignKeys
    <2>6. QED BY <1>6, <2>0, <2>4, <2>5 DEF TreeInv, MarkFor, Tree!Load
<1>7. ASSUME Tree!Reloaded PROVE TreeInv'
    <2>1. Tree!TreeTypeOK'
        BY <1>0, <1>7 DEF Tree!TreeTypeOK, Tree!Reloaded, Tree!Unmarked, Tree!Mark
    <2>2. (references \in Tree!LinkForeignKeys(foreign))'
        BY <1>0, <1>7 DEF Tree!LinkForeignKeys, Tree!Reloaded
    <2>3. QED BY <1>7, <2>1, <2>2 DEF TreeInv, MarkFor, Tree!Reloaded, Tree!Unmarked
<1>8. ASSUME Tree!Hide \/ Tree!ReloadDatabase PROVE TreeInv'
    BY <1>4, <1>8 DEF Tree!Hide, Tree!ReloadDatabase
<1>9. QED BY <1>1, <1>2, <1>3, <1>5, <1>6, <1>7, <1>8 DEF Tree!TreeNext

\* The first of some columns, in the order of the tree.
LEMMA FirstColumn ==
    ASSUME NEW S \in SUBSET Tree!Column, S # {}
    PROVE  \E c \in S : \A d \in S \ {c} : Tree!Before(c, d)
<1> DEFINE A == {c[1] : c \in S}
<1>1. PICK m \in A : \A x \in A : m <= x
    <2>1. A \in SUBSET Nat /\ A # {}
        BY Paths
    <2> HIDE DEF A
    <2>2. QED BY <2>1, Least
<1> DEFINE B == {c[2] : c \in {d \in S : d[1] = m}}
<1>2. PICK n \in B : \A x \in B : n <= x
    <2>1. B \in SUBSET Nat /\ B # {}
        BY Paths
    <2> HIDE DEF B
    <2>2. QED BY <2>1, Least
<1> DEFINE D == {d \in S : d[1] = m /\ d[2] = n}
           C == {c[3] : c \in D}
<1>3. PICK k \in C : \A x \in C : k <= x
    <2>0. D # {} /\ D \subseteq S
        OBVIOUS
    <2> HIDE DEF D
    <2>1. \A d \in D : d[3] \in Nat
        BY <2>0, Paths
    <2>2. C \in SUBSET Nat /\ C # {}
        BY <2>0, <2>1
    <2> HIDE DEF C
    <2>3. QED BY <2>2, Least
<1>4. PICK c \in S : c[1] = m /\ c[2] = n /\ c[3] = k
    OBVIOUS
<1>5. ASSUME NEW d \in S \ {c} PROVE Tree!Before(c, d)
    <2>1. /\ c = <<c[1], c[2], c[3]>> /\ d = <<d[1], d[2], d[3]>>
          /\ Len(c) = 3 /\ Len(d) = 3 /\ c \in Seq(Nat) /\ d \in Seq(Nat)
          /\ c[1] \in Nat /\ c[2] \in Nat /\ c[3] \in Nat /\ d[1] \in Nat /\ d[2] \in Nat /\ d[3] \in Nat
        BY Paths
    <2>2. d[1] \in A /\ (d[1] = m => d[2] \in B) /\ (d[1] = m /\ d[2] = n => d[3] \in C)
        OBVIOUS
    <2> HIDE DEF A, B, C
    <2>3. m <= d[1] /\ (d[1] = m => n <= d[2]) /\ (d[1] = m /\ d[2] = n => k <= d[3])
        BY <1>1, <1>2, <1>3, <2>2
    <2>4. \/ c[1] < d[1]
          \/ c[1] = d[1] /\ c[2] < d[2]
          \/ c[1] = d[1] /\ c[2] = d[2] /\ c[3] < d[3]
        <3>1. ~(c[1] = d[1] /\ c[2] = d[2] /\ c[3] = d[3])
            <4>1. SUFFICES ASSUME c[1] = d[1], c[2] = d[2], c[3] = d[3] PROVE c = d
                OBVIOUS
            <4>2. c = <<c[1], c[2], c[3]>> /\ d = <<d[1], d[2], d[3]>>
                BY <2>1
            <4>3. d = <<c[1], c[2], c[3]>>
                BY <4>1, <4>2, Zenon
            <4>4. QED BY <4>2, <4>3, Zenon
        <3>2. /\ c[1] \in Nat /\ c[2] \in Nat /\ c[3] \in Nat
              /\ d[1] \in Nat /\ d[2] \in Nat /\ d[3] \in Nat
            BY <2>1
        <3>3. c[1] <= d[1] /\ (d[1] = c[1] => c[2] <= d[2]) /\ (d[1] = c[1] /\ d[2] = c[2] => c[3] <= d[3])
            BY <1>4, <2>3
        <3>4. QED BY <3>1, <3>2, <3>3
    <2>5. DOMAIN c = 1..3 /\ DOMAIN d = 1..3
        BY <2>1
    <2>6. 1 \in DOMAIN c \cap DOMAIN d /\ 2 \in DOMAIN c \cap DOMAIN d /\ 3 \in DOMAIN c \cap DOMAIN d
        BY <2>5
    <2>7. 1..(1 - 1) = {} /\ 1..(2 - 1) = {1} /\ 1..(3 - 1) = {1, 2}
        OBVIOUS
    <2>8. CASE c[1] < d[1]
        BY <2>6, <2>7, <2>8 DEF Tree!Before
    <2>9. CASE c[1] = d[1] /\ c[2] < d[2]
        BY <2>6, <2>7, <2>9 DEF Tree!Before
    <2>10. CASE c[1] = d[1] /\ c[2] = d[2] /\ c[3] < d[3]
        BY <2>6, <2>7, <2>10 DEF Tree!Before
    <2>11. QED BY <2>4, <2>8, <2>9, <2>10
<1>6. QED BY <1>5

\* The mark of an item is that of one of its columns, and the only one if there is one.
LEMMA MarkOfColumn ==
    ASSUME NEW item
    PROVE  /\ Tree!MarkOf(item) # "none" =>
                  \E c \in Tree!Columns(item) : mark[c] = Tree!MarkOf(item)
           /\ \A d \in Tree!Columns(item) :
                  mark[d] # "none" /\ (\A c \in Tree!Columns(item) : mark[c] # "none" => c = d)
                  => Tree!MarkOf(item) = mark[d]
<1> DEFINE marked == {c \in Tree!Columns(item) : mark[c] # "none"}
           First(c) == \A d \in marked \ {c} : Tree!Before(c, d)
           first == CHOOSE c \in marked : First(c)
<1>1. Tree!MarkOf(item) = IF marked = {} THEN "none" ELSE mark[first]
    BY DEF Tree!MarkOf
<1>2. marked # {} => first \in marked
    <2>1. marked \in SUBSET Tree!Column
        BY DEF Tree!Columns
    <2>2. marked # {} => \E c \in marked : First(c)
        <3> HIDE DEF marked
        <3>1. QED BY <2>1, FirstColumn
    <2> HIDE DEF marked, First
    <2>3. QED BY <2>2
<1>3. QED
    <2> HIDE DEF first
    <2>1. QED BY <1>1, <1>2

\* The items that are drawn of the path of a column.
LEMMA ItemsOf ==
    ASSUME NEW d \in Tree!Column, NEW i \in Tree!MenuItems, d \in Tree!Columns(i)
    PROVE  i \in {<<d[1]>>, <<d[1], d[2]>>, d}
<1>1. i \in Tree!Schema \/ i \in Tree!Table \/ i \in Tree!Column
    BY DEF Tree!MenuItems
<1>2. CASE i \in Tree!Schema
    <2>1. i[1] = d[1] /\ i = <<i[1]>>
        BY <1>2, Below, Paths
    <2>2. QED BY <2>1
<1>3. CASE i \in Tree!Table
    <2>1. i[1] = d[1] /\ i[2] = d[2] /\ i = <<i[1], i[2]>>
        BY <1>3, Below, Paths
    <2>2. QED BY <2>1
<1>4. CASE i \in Tree!Column
    BY <1>4, Below
<1>5. QED BY <1>1, <1>2, <1>3, <1>4

LEMMA PathBefore ==
    ASSUME NEW d \in Tree!Column
    PROVE  /\ Tree!Before(<<d[1]>>, <<d[1], d[2]>>)
           /\ Tree!Before(<<d[1]>>, d)
           /\ Tree!Before(<<d[1], d[2]>>, d)
<1>1. d = <<d[1], d[2], d[3]>> /\ d \in Seq(Nat) /\ Len(d) = 3 /\ d[1] \in Nat /\ d[2] \in Nat
    BY Paths
<1> DEFINE s == <<d[1]>>
           t == <<d[1], d[2]>>
<1>2. /\ s \in Seq(Nat) /\ Len(s) = 1 /\ s[1] = d[1]
      /\ t \in Seq(Nat) /\ Len(t) = 2 /\ t[1] = d[1] /\ t[2] = d[2]
    BY <1>1
<1>3. 1..2 = {1, 2} /\ 1..1 = {1}
    OBVIOUS
<1> HIDE DEF s, t
<1>4. s # t /\ s # d /\ t # d
    <2>1. Len(s) # Len(t) /\ Len(s) # Len(d) /\ Len(t) # Len(d)
        BY <1>1, <1>2
    <2>2. QED BY <2>1, Zenon
<1>5. Tree!IsPrefix(s, t)
    BY <1>2, <1>3, PrefixIs
<1>6. Tree!IsPrefix(s, d)
    <2>1. d \in Seq(Nat) /\ Len(s) <= Len(d)
        BY <1>1, <1>2
    <2>2. \A n \in 1..Len(s) : s[n] = d[n]
        BY <1>2, <1>3
    <2>3. QED BY <1>2, <2>1, <2>2, PrefixIs
<1>7. Tree!IsPrefix(t, d)
    <2>1. d \in Seq(Nat) /\ Len(t) <= Len(d)
        BY <1>1, <1>2
    <2>2. \A n \in 1..Len(t) : t[n] = d[n]
        BY <1>2, <1>3
    <2>3. QED BY <1>2, <2>1, <2>2, PrefixIs
<1>8. Tree!Before(s, t) /\ Tree!Before(s, d) /\ Tree!Before(t, d)
    BY <1>4, <1>5, <1>6, <1>7 DEF Tree!Before, Tree!IsStrictPrefix
<1>9. QED BY <1>8 DEF s, t

\* If one column is referred to, the arrows end in the last item of its path that is drawn.
LEMMA LastTo ==
    ASSUME NEW d \in Tree!Column, \A c \in Tree!Column : mark[c] = "to" => c = d, Tree!Tos # {}
    PROVE  (CHOOSE i \in Tree!Tos : \A j \in Tree!Tos \ {i} : Tree!Before(j, i)) \in Tree!Tos
<1> DEFINE s == <<d[1]>>
           t == <<d[1], d[2]>>
           Last(i) == \A j \in Tree!Tos \ {i} : Tree!Before(j, i)
<1>1. ASSUME NEW i \in Tree!Tos PROVE i \in {s, t, d}
    <2>1. i \in Tree!MenuItems /\ Tree!MarkOf(i) = "to"
        BY DEF Tree!Tos
    <2>2. PICK c \in Tree!Columns(i) : mark[c] = "to"
        BY <2>1, MarkOfColumn
    <2>3. c \in Tree!Column
        BY DEF Tree!Columns
    <2>4. d \in Tree!Columns(i)
        BY <2>2, <2>3
    <2>5. QED BY <2>1, <2>4, ItemsOf
<1>2. Tree!Before(s, t) /\ Tree!Before(s, d) /\ Tree!Before(t, d)
    BY PathBefore
<1> HIDE DEF s, t
<1>3. \E i \in Tree!Tos : Last(i)
    <2>1. CASE d \in Tree!Tos
        BY <1>1, <1>2, <2>1
    <2>2. CASE d \notin Tree!Tos /\ t \in Tree!Tos
        BY <1>1, <1>2, <2>2
    <2>3. CASE d \notin Tree!Tos /\ t \notin Tree!Tos
        BY <1>1, <2>3
    <2>4. QED BY <2>1, <2>2, <2>3
<1> HIDE DEF Last
<1>4. (CHOOSE i \in Tree!Tos : Last(i)) \in Tree!Tos
    BY <1>3
<1>5. QED BY <1>4 DEF Last

\* While the marks are those of the mouse, an arrow leads to what is referred to.
LEMMA MarksRight ==
    ASSUME TreeInv, ~left, NEW c \in Tree!Column, NEW d \in Tree!Column, mark[d] = "to"
    PROVE  /\ mark[c] = "to" => c = d
           /\ mark[c] = "from" => d \in foreign[c]
<1>1. /\ mark[c] = MarkFor(hovered, c) /\ mark[d] = MarkFor(hovered, d)
      /\ hovered \in Tree!Column \cup {Tree!NoColumn}
      /\ references \in Tree!LinkForeignKeys(foreign)
    BY DEF TreeInv, Tree!TreeTypeOK
<1>2. hovered \in Tree!Column
    BY <1>1 DEF MarkFor
<1>3. references[hovered] # Tree!NoColumn => references[hovered] \in foreign[hovered]
    BY <1>1, <1>2 DEF Tree!LinkForeignKeys
<1>4. QED BY <1>1, <1>2, <1>3 DEF MarkFor

LEMMA ArrowsRight ==
    ASSUME TreeInv, ~left, NEW a \in Tree!Arrows
    PROVE  \E c \in Tree!Columns(a[1]), d \in Tree!Columns(a[2]) : d \in foreign[c]
<1> DEFINE last == CHOOSE i \in Tree!Tos : \A j \in Tree!Tos \ {i} : Tree!Before(j, i)
<1>1. Tree!Tos # {} /\ a[1] \in Tree!Froms /\ a[2] = last
    BY DEF Tree!Arrows
<1>2. PICK i \in Tree!Tos : TRUE
    BY <1>1
<1>3. PICK d \in Tree!Columns(i) : mark[d] = "to"
    BY MarkOfColumn DEF Tree!Tos
<1>4. d \in Tree!Column
    BY DEF Tree!Columns
<1>5. \A c \in Tree!Column : mark[c] = "to" => c = d
    BY <1>3, <1>4, MarksRight
<1>6. last \in Tree!Tos
    BY <1>1, <1>4, <1>5, LastTo
<1> HIDE DEF last
<1>7. PICK e \in Tree!Columns(a[2]) : mark[e] = "to"
    BY <1>1, <1>6, MarkOfColumn DEF Tree!Tos
<1>8. PICK c \in Tree!Columns(a[1]) : mark[c] = "from"
    BY <1>1, MarkOfColumn DEF Tree!Froms
<1>9. c \in Tree!Column /\ e \in Tree!Column
    BY DEF Tree!Columns
<1>10. e \in foreign[c]
    BY <1>7, <1>8, <1>9, MarksRight
<1>11. QED BY <1>10

LEMMA Beginnings ==
    ASSUME NEW x \in Seq(Nat), Len(x) >= 2
    PROVE  SubSeq(x, 1, 1) = <<x[1]>> /\ SubSeq(x, 1, 2) = <<x[1], x[2]>>
<1>1. Len(x) \in Nat /\ x[1] \in Nat /\ x[2] \in Nat
    OBVIOUS
<1>2. 1..2 = {1, 2} /\ 1..1 = {1}
    OBVIOUS
<1>3. /\ SubSeq(x, 1, 1) \in Seq(Nat) /\ Len(SubSeq(x, 1, 1)) = 1 /\ SubSeq(x, 1, 1)[1] = x[1]
      /\ SubSeq(x, 1, 2) \in Seq(Nat) /\ Len(SubSeq(x, 1, 2)) = 2
      /\ SubSeq(x, 1, 2)[1] = x[1] /\ SubSeq(x, 1, 2)[2] = x[2]
    BY <1>1, <1>2
<1>4. \A y \in Seq(Nat) : Len(y) = 1 => y = <<y[1]>>
    OBVIOUS
<1>5. \A y \in Seq(Nat) : Len(y) = 2 => y = <<y[1], y[2]>>
    OBVIOUS
<1> DEFINE y == SubSeq(x, 1, 1)
           z == SubSeq(x, 1, 2)
<1>6. /\ y \in Seq(Nat) /\ Len(y) = 1 /\ y[1] = x[1]
      /\ z \in Seq(Nat) /\ Len(z) = 2 /\ z[1] = x[1] /\ z[2] = x[2]
    BY <1>3
<1> HIDE DEF y, z
<1>7. y = <<x[1]>> /\ z = <<x[1], x[2]>>
    BY <1>4, <1>5, <1>6
<1>8. QED BY <1>7 DEF y, z

\* What is referred to is drawn, or the lowest item above it that is not above the other one.
LEMMA LinkDrawn ==
    ASSUME TreeInv, ~left, hovered # Tree!NoColumn,
           references[hovered] \notin {Tree!NoColumn, hovered}
    PROVE  Tree!Arrows # {}
<1> DEFINE h == hovered
           d == references[hovered]
<1>1. h \in Tree!Column /\ d \in Tree!Column /\ d # h /\ h \in Tree!MenuItems
    BY DEF TreeInv, Tree!TreeTypeOK
<1>2. ASSUME NEW c \in Tree!Column
      PROVE  mark[c] = IF c = d THEN "to" ELSE IF c = h THEN "from" ELSE "none"
    BY DEF TreeInv, MarkFor
<1>3. h \in Tree!Columns(h) /\ d \in Tree!Columns(d)
    BY <1>1, Below
<1> HIDE DEF h, d
<1>4. h \in Tree!Froms
    <2>1. \A c \in Tree!Columns(h) : c = h
        BY <1>1, Below DEF Tree!Columns
    <2>2. Tree!MarkOf(h) = "from"
        BY <1>1, <1>2, <1>3, <2>1, MarkOfColumn
    <2>3. QED BY <1>1, <2>2 DEF Tree!Froms
<1>5. ASSUME NEW i \in Tree!MenuItems, d \in Tree!Columns(i), h \notin Tree!Columns(i)
      PROVE  i \in Tree!Tos
    <2>1. \A c \in Tree!Columns(i) : mark[c] # "none" => c = d
        BY <1>2, <1>5 DEF Tree!Columns
    <2>2. Tree!MarkOf(i) = "to"
        BY <1>1, <1>2, <1>5, <2>1, MarkOfColumn
    <2>3. QED BY <2>2 DEF Tree!Tos
<1>6. /\ h = <<h[1], h[2], h[3]>> /\ Len(h) = 3 /\ h \in Seq(Nat)
      /\ d = <<d[1], d[2], d[3]>> /\ Len(d) = 3 /\ d \in Seq(Nat)
      /\ <<d[1]>> \in Tree!Schema /\ <<d[1], d[2]>> \in Tree!Table
    BY <1>1, Paths
<1>7. /\ database = "shown" /\ SubSeq(h, 1, 2) \in isShown
      /\ Tree!HasMultipleSchemas => SubSeq(h, 1, 1) \in isShown
    <2>1. h \notin Tree!Schema /\ h \notin Tree!Table
        <3>1. \A i \in Tree!Schema : Len(i) = 1
            BY Paths, Zenon
        <3>2. \A i \in Tree!Table : Len(i) = 2
            BY Paths, Zenon
        <3>3. Len(h) = 3
            BY <1>6
        <3>4. QED BY <3>1, <3>2, <3>3
    <2>2. QED BY <1>1, <2>1 DEF Tree!MenuItems
<1>8. /\ SubSeq(h, 1, 2) = <<h[1], h[2]>> /\ SubSeq(h, 1, 1) = <<h[1]>>
      /\ SubSeq(d, 1, 2) = <<d[1], d[2]>> /\ SubSeq(d, 1, 1) = <<d[1]>>
      /\ SubSeq(<<d[1], d[2]>>, 1, 1) = <<d[1]>>
    <2>0. h \in Seq(Nat) /\ Len(h) >= 2 /\ d \in Seq(Nat) /\ Len(d) >= 2
        BY <1>6
    <2>1. SubSeq(h, 1, 2) = <<h[1], h[2]>> /\ SubSeq(h, 1, 1) = <<h[1]>>
        BY <2>0, Beginnings, Zenon
    <2>2. SubSeq(d, 1, 2) = <<d[1], d[2]>> /\ SubSeq(d, 1, 1) = <<d[1]>>
        BY <2>0, Beginnings, Zenon
    <2> DEFINE t == <<d[1], d[2]>>
    <2>3. t \in Seq(Nat) /\ Len(t) = 2 /\ t[1] = d[1]
        BY <1>6, Paths
    <2> HIDE DEF t
    <2>4. SubSeq(t, 1, 1) = <<d[1]>>
        <3>1. Len(t) >= 2
            BY <2>3
        <3>2. QED BY <2>3, <3>1, Beginnings, Zenon
    <2>5. QED BY <2>1, <2>2, <2>4 DEF t
<1>9. Tree!Tos # {}
    <2>1. CASE h[1] = d[1] /\ h[2] = d[2]
        <3>1. d \in Tree!MenuItems
            BY <1>1, <1>7, <1>8, <2>1 DEF Tree!MenuItems
        <3>2. h \notin Tree!Columns(d)
            BY <1>1, Below
        <3>3. QED BY <1>3, <1>5, <3>1, <3>2
    <2>2. CASE h[1] = d[1] /\ h[2] # d[2]
        <3> DEFINE t == <<d[1], d[2]>>
        <3>1. t \in Tree!MenuItems
            BY <1>6, <1>7, <1>8, <2>2 DEF Tree!MenuItems
        <3>2. t[1] = d[1] /\ t[2] = d[2] /\ t \in Tree!Table
            BY <1>6
        <3> HIDE DEF t
        <3>3. d \in Tree!Columns(t) /\ h \notin Tree!Columns(t)
            BY <1>1, <2>2, <3>2, Below
        <3>4. QED BY <1>5, <3>1, <3>3
    <2>3. CASE h[1] # d[1]
        <3> DEFINE s == <<d[1]>>
        <3>1. Tree!HasMultipleSchemas
            <4>1. h[1] \in DOMAIN Schemas /\ d[1] \in DOMAIN Schemas
                BY <1>1, Paths
            <4>2. DOMAIN Schemas = 1..Len(Schemas) /\ Len(Schemas) \in Nat
                BY TabAssumption DEF Tree!TreeAssumption
            <4>3. QED BY <2>3, <4>1, <4>2 DEF Tree!HasMultipleSchemas
        <3>2. s \in Tree!MenuItems /\ s \in Tree!Schema /\ s[1] = d[1]
            BY <1>6, <1>7, <3>1 DEF Tree!MenuItems
        <3> HIDE DEF s
        <3>3. d \in Tree!Columns(s) /\ h \notin Tree!Columns(s)
            BY <1>1, <2>3, <3>2, Below
        <3>4. QED BY <1>5, <3>2, <3>3
    <2>4. QED BY <2>1, <2>2, <2>3
<1> DEFINE last == CHOOSE i \in Tree!Tos : \A j \in Tree!Tos \ {i} : Tree!Before(j, i)
<1>10. Tree!Arrows = Tree!Froms \X {last}
    BY <1>9 DEF Tree!Arrows
<1> HIDE DEF last
<1>11. <<h, last>> \in Tree!Arrows
    BY <1>4, <1>10
<1>12. QED BY <1>11

LEMMA TreeKept == TreeInv => Tree!LinksRight
BY ArrowsRight, LinkDrawn DEF Tree!LinksRight

-----------------------------------------------------------------------------
(* The structure of a database                                             *)

LEMMA CountIs == \A T : Structure!Count(T) = 1..Cardinality(T)
BY DEF Structure!Count, Structure!Cardinality, Cardinality

\* A set of positions is enumerated by Nth: each position once.
LEMMA Enumerated ==
    ASSUME NEW n \in Nat, NEW T \in SUBSET (1..n)
    PROVE  /\ Cardinality(T) \in Nat
           /\ \A k \in 1..Cardinality(T) :
                  Structure!Nth(T, k) \in T /\ Cardinality({j \in T : j <= Structure!Nth(T, k)}) = k
           /\ \A i \in T : /\ Cardinality({j \in T : j <= i}) \in 1..Cardinality(T)
                           /\ Structure!Nth(T, Cardinality({j \in T : j <= i})) = i
<1> DEFINE rank == [i \in T |-> Cardinality({j \in T : j <= i})]
<1>1. IsFiniteSet(T) /\ Cardinality(T) \in Nat
    <2>1. IsFiniteSet(1..n)
        BY FS_Interval
    <2>2. QED BY <2>1, FS_Subset, FS_CardinalityType
<1>2. ASSUME NEW i \in T PROVE rank[i] \in 1..Cardinality(T)
    <2> DEFINE L == {j \in T : j <= i}
    <2>1. IsFiniteSet(L) /\ Cardinality(L) <= Cardinality(T) /\ Cardinality(L) \in Nat
        <3>1. L \in SUBSET T
            OBVIOUS
        <3>2. QED BY <1>1, <3>1, FS_Subset, FS_CardinalityType
    <2>2. L # {}
        <3>1. i \in L
            OBVIOUS
        <3>2. QED BY <3>1
    <2>3. Cardinality(L) # 0
        BY <2>1, <2>2, FS_EmptySet
    <2>4. QED BY <1>1, <2>1, <2>3
<1>3. ASSUME NEW i \in T, NEW j \in T, i < j PROVE rank[i] < rank[j]
    <2> DEFINE L == {l \in T : l <= i}
               M == {l \in T : l <= j}
    <2>1. IsFiniteSet(M)
        <3>1. M \in SUBSET T
            OBVIOUS
        <3>2. QED BY <1>1, <3>1, FS_Subset
    <2>2. L \in SUBSET M /\ j \in M /\ j \notin L
        <3>1. i \in Nat /\ j \in Nat /\ \A l \in T : l \in Nat
            OBVIOUS
        <3>2. \A l \in L : l \in M
            BY <1>3, <3>1
        <3>3. j \in M /\ j \notin L
            BY <1>3, <3>1
        <3>4. QED BY <3>2, <3>3
    <2>3. IsFiniteSet(L) /\ Cardinality(L) <= Cardinality(M) /\ (Cardinality(M) = Cardinality(L) => M = L)
        BY <2>1, <2>2, FS_Subset
    <2>4. Cardinality(L) \in Nat /\ Cardinality(M) \in Nat
        BY <2>1, <2>3, FS_CardinalityType
    <2>5. Cardinality(L) < Cardinality(M)
        <3> HIDE DEF L, M
        <3>1. M # L
            BY <2>2
        <3>2. QED BY <2>3, <2>4, <3>1
    <2>6. QED BY <2>5
<1>4. rank \in [T -> 1..Cardinality(T)]
    BY <1>2
<1>5. \A i, j \in T : rank[i] = rank[j] => i = j
    <2> HIDE DEF rank
    <2>1. \A i \in T : rank[i] \in Nat
        BY <1>1, <1>2
    <2>2. QED BY <1>3, <2>1
<1> HIDE DEF rank
<1>6. rank \in Injection(T, 1..Cardinality(T))
    BY <1>4, <1>5 DEF Injection, IsInjective
<1>7. IsFiniteSet(1..Cardinality(T)) /\ Cardinality(1..Cardinality(T)) = Cardinality(T)
    BY <1>1, FS_Interval
<1>8. rank \in Surjection(T, 1..Cardinality(T))
    BY <1>6, <1>7, FS_Injection
<1>9. \A k \in 1..Cardinality(T) : \E i \in T : rank[i] = k
    BY <1>8 DEF Surjection
<1>10. \A i \in T : rank[i] = Cardinality({j \in T : j <= i})
    BY DEF rank
<1>11. ASSUME NEW k \in 1..Cardinality(T)
       PROVE  Structure!Nth(T, k) \in T /\ rank[Structure!Nth(T, k)] = k
    <2>1. \E i \in T : Structure!Cardinality({j \in T : j <= i}) = k
        BY <1>9, <1>10 DEF Structure!Cardinality, Cardinality
    <2>2. /\ Structure!Nth(T, k) \in T
          /\ Structure!Cardinality({j \in T : j <= Structure!Nth(T, k)}) = k
        BY <2>1 DEF Structure!Nth
    <2>3. QED BY <1>10, <2>2 DEF Structure!Cardinality, Cardinality
<1>12. ASSUME NEW i \in T PROVE Structure!Nth(T, rank[i]) = i
    BY <1>2, <1>5, <1>11
<1>13. QED BY <1>1, <1>2, <1>10, <1>11, <1>12

LEMMA NthOnce ==
    ASSUME NEW n \in Nat, NEW T \in SUBSET (1..n)
    PROVE  /\ \A k, l \in 1..Cardinality(T) : Structure!Nth(T, k) = Structure!Nth(T, l) => k = l
           /\ \A i \in T : \E k \in 1..Cardinality(T) : Structure!Nth(T, k) = i
<1> DEFINE Rank(i) == Cardinality({j \in T : j <= i})
<1>1. /\ \A k \in 1..Cardinality(T) : Rank(Structure!Nth(T, k)) = k
      /\ \A i \in T : Rank(i) \in 1..Cardinality(T) /\ Structure!Nth(T, Rank(i)) = i
    BY Enumerated
<1> HIDE DEF Rank
<1>2. QED BY <1>1

\* A position after all others comes last in the enumeration.
LEMMA Appended ==
    ASSUME NEW n \in Nat, NEW T \in SUBSET (1..n)
    PROVE  /\ Cardinality(T \cup {n + 1}) = Cardinality(T) + 1
           /\ \A k \in 1..Cardinality(T) : Structure!Nth(T \cup {n + 1}, k) = Structure!Nth(T, k)
           /\ Structure!Nth(T \cup {n + 1}, Cardinality(T) + 1) = n + 1
<1> DEFINE U == T \cup {n + 1}
<1>1. n + 1 \in Nat /\ U \in SUBSET (1..(n + 1)) /\ n + 1 \notin T
    OBVIOUS
<1>2. IsFiniteSet(T)
    <2>1. IsFiniteSet(1..n)
        BY FS_Interval
    <2>2. QED BY <2>1, FS_Subset
<1>3. Cardinality(U) = Cardinality(T) + 1 /\ Cardinality(T) \in Nat
    BY <1>1, <1>2, FS_AddElement, FS_CardinalityType
<1>4. ASSUME NEW k \in 1..Cardinality(T) PROVE Structure!Nth(U, k) = Structure!Nth(T, k)
    <2> DEFINE i == Structure!Nth(T, k)
    <2>1. i \in T /\ Cardinality({j \in T : j <= i}) = k
        BY Enumerated
    <2> HIDE DEF i
    <2>2. {j \in U : j <= i} = {j \in T : j <= i} /\ i \in U
        BY <2>1
    <2> HIDE DEF U
    <2>3. Structure!Nth(U, Cardinality({j \in U : j <= i})) = i
        BY <1>1, <2>2, Enumerated
    <2>4. QED BY <2>1, <2>2, <2>3 DEF i
<1>5. Structure!Nth(U, Cardinality(T) + 1) = n + 1
    <2>1. {j \in U : j <= n + 1} = U /\ n + 1 \in U
        <3>1. \A j \in U : j <= n + 1
            BY <1>1
        <3>2. QED BY <3>1
    <2> HIDE DEF U
    <2>2. Structure!Nth(U, Cardinality({j \in U : j <= n + 1})) = n + 1
        BY <1>1, <2>1, Enumerated
    <2>3. QED BY <1>3, <2>1, <2>2
<1>6. QED BY <1>3, <1>4, <1>5

LEMMA Prefixes ==
    ASSUME NEW t \in ColumnPath
    PROVE  /\ Structure!IsPrefix(<<>>, t)
           /\ \A a : Structure!IsPrefix(<<a>>, t) <=> t[1] = a
           /\ \A a, b : Structure!IsPrefix(<<a, b>>, t) <=> t[1] = a /\ t[2] = b
<1>1. PICK x, y, z : t = <<x, y, z>>
    BY TabAssumption DEF Structure!FullDatabaseAssumption
<1>2. ASSUME NEW a, NEW b
      PROVE  /\ Structure!IsPrefix(<<>>, t)
             /\ Structure!IsPrefix(<<a>>, t) <=> t[1] = a
             /\ Structure!IsPrefix(<<a, b>>, t) <=> t[1] = a /\ t[2] = b
    <2> DEFINE Names == {a, b, x, y, z}
    <2>1. Len(t) = 3 /\ t[1] = x /\ t[2] = y /\ t[3] = z
        BY <1>1
    <2>2. t \in Seq(Names) /\ <<a>> \in Seq(Names) /\ <<a, b>> \in Seq(Names)
        BY <1>1
    <2>3. Structure!IsPrefix(<<>>, t)
        BY <2>1 DEF Structure!IsPrefix
    <2>4. ASSUME NEW p \in Seq(Names), Len(p) <= 3
          PROVE  Structure!IsPrefix(p, t) <=> \A n \in 1..Len(p) : p[n] = t[n]
        BY <2>1, <2>2, <2>4, SameBeginning DEF Structure!IsPrefix
    <2>5. /\ Len(<<a>>) = 1 /\ <<a>>[1] = a /\ 1..1 = {1}
          /\ Len(<<a, b>>) = 2 /\ <<a, b>>[1] = a /\ <<a, b>>[2] = b /\ 1..2 = {1, 2}
        OBVIOUS
    <2> HIDE DEF Names
    <2>6. /\ Structure!IsPrefix(<<a>>, t) <=> \A n \in 1..1 : <<a>>[n] = t[n]
          /\ Structure!IsPrefix(<<a, b>>, t) <=> \A n \in 1..2 : <<a, b>>[n] = t[n]
        <3> DEFINE p == <<a>>
                   q == <<a, b>>
        <3>1. p \in Seq(Names) /\ Len(p) = 1 /\ q \in Seq(Names) /\ Len(q) = 2
            BY <2>2
        <3> HIDE DEF p, q
        <3>2. /\ Structure!IsPrefix(p, t) <=> \A n \in 1..1 : p[n] = t[n]
              /\ Structure!IsPrefix(q, t) <=> \A n \in 1..2 : q[n] = t[n]
            <4>1. /\ Structure!IsPrefix(p, t) <=> \A n \in 1..Len(p) : p[n] = t[n]
                  /\ Structure!IsPrefix(q, t) <=> \A n \in 1..Len(q) : q[n] = t[n]
                <5>1. Len(p) <= 3 /\ Len(q) <= 3
                    BY <3>1
                <5>2. QED BY <2>4, <3>1, <5>1, Zenon
            <4>2. 1..Len(p) = 1..1 /\ 1..Len(q) = 1..2
                BY <3>1
            <4>3. QED BY <4>1, <4>2, Zenon
        <3>3. QED BY <3>2 DEF p, q
    <2>7. QED BY <2>3, <2>5, <2>6
<1>3. QED BY <1>2

StructureInv ==
    /\ Structure!StructureTypeOK
    /\ \A i, j \in DOMAIN columns : columns[i].path = columns[j].path => i = j
    /\ \A path \in ColumnPath :
           Structure!RowsOf(path) = {} <=> \A i \in DOMAIN columns : columns[i].path # path
    /\ \A path \in ColumnPath : \A i \in DOMAIN columns :
           columns[i].path = path => columns[i].constraints = Structure!ConstraintsOf(path)
    /\ \A i \in DOMAIN columns :
           columns[i].is_primary => \E k \in DOMAIN columns[i].constraints :
                                        columns[i].constraints[k] \in PrimaryConstraint

LEMMA ColumnTyped ==
    ASSUME Structure!StructureTypeOK
    PROVE  /\ Len(columns) \in Nat /\ DOMAIN columns = 1..Len(columns)
           /\ \A i \in DOMAIN columns : /\ columns[i].path \in ColumnPath
                                        /\ columns[i].is_primary \in BOOLEAN
                                        /\ columns[i].constraints \in Seq(Structure!Constraint)
<1> DEFINE Column == [path : ColumnPath, is_primary : BOOLEAN, constraints : Seq(Structure!Constraint)]
<1>1. columns \in Seq(Column)
    BY DEF Structure!StructureTypeOK
<1>2. Len(columns) \in Nat /\ DOMAIN columns = 1..Len(columns) /\ \A i \in DOMAIN columns : columns[i] \in Column
    <2> HIDE DEF Column
    <2>1. QED BY <1>1
<1>3. QED BY <1>2

\* Each name below a prefix is listed once.
LEMMA NamesOnce ==
    ASSUME Structure!StructureTypeOK, NEW prefix
    PROVE  LET names == Structure!NamesBelow(prefix) IN
           /\ \A k, l \in DOMAIN names : names[k] = names[l] => k = l
           /\ \A i \in Structure!Below(prefix) :
                  \E k \in DOMAIN names : names[k] = Structure!NameAt(prefix, i)
<1> DEFINE firsts == Structure!FirstBelow(prefix)
           names == Structure!NamesBelow(prefix)
<1>1. Len(columns) \in Nat /\ DOMAIN columns = 1..Len(columns)
    BY ColumnTyped
<1>2. Structure!Below(prefix) \in SUBSET (1..Len(columns)) /\ firsts \subseteq Structure!Below(prefix)
    BY <1>1 DEF Structure!Below, Structure!FirstBelow
<1>3. DOMAIN names = 1..Cardinality(firsts)
    BY CountIs DEF Structure!NamesBelow
<1>4. \A k \in DOMAIN names : names[k] = Structure!NameAt(prefix, Structure!Nth(firsts, k))
    BY DEF Structure!NamesBelow
<1>5. \A i, j \in firsts : Structure!NameAt(prefix, i) = Structure!NameAt(prefix, j) => i = j
    <2> SUFFICES ASSUME NEW i \in firsts, NEW j \in firsts, i # j
                 PROVE  Structure!NameAt(prefix, i) # Structure!NameAt(prefix, j)
        OBVIOUS
    <2>1. i < j \/ j < i
        BY <1>2
    <2>2. QED BY <2>1 DEF Structure!FirstBelow
<1>6. ASSUME NEW i \in Structure!Below(prefix)
      PROVE  \E f \in firsts : Structure!NameAt(prefix, f) = Structure!NameAt(prefix, i)
    <2> DEFINE T == {j \in Structure!Below(prefix) :
                        Structure!NameAt(prefix, j) = Structure!NameAt(prefix, i)}
    <2>1. T \in SUBSET Nat /\ T # {}
        <3>1. i \in T
            OBVIOUS
        <3>2. QED BY <1>2, <3>1
    <2>2. PICK f \in T : \A m \in T : f <= m
        BY <2>1, Least
    <2>3. f \in firsts
        <3>1. ASSUME NEW j \in Structure!Below(prefix), j < f
              PROVE  Structure!NameAt(prefix, j) # Structure!NameAt(prefix, f)
            <4>1. j \in Nat /\ f \in Nat
                BY <1>2
            <4>2. j \notin T
                <5> HIDE DEF T
                <5>1. QED BY <2>2, <3>1, <4>1
            <4>3. QED BY <4>2
        <3>2. QED BY <3>1 DEF Structure!FirstBelow
    <2>4. QED BY <2>3
<1> HIDE DEF firsts, names
<1>7. firsts \in SUBSET (1..Len(columns))
    BY <1>2
<1>8. /\ \A k, l \in DOMAIN names : Structure!Nth(firsts, k) = Structure!Nth(firsts, l) => k = l
      /\ \A i \in firsts : \E k \in DOMAIN names : Structure!Nth(firsts, k) = i
    BY <1>1, <1>3, <1>7, NthOnce
<1>9. \A k \in DOMAIN names : Structure!Nth(firsts, k) \in firsts
    BY <1>1, <1>3, <1>7, Enumerated
<1>10. \A k, l \in DOMAIN names : names[k] = names[l] => k = l
    BY <1>4, <1>5, <1>8, <1>9
<1>11. ASSUME NEW i \in Structure!Below(prefix)
       PROVE  \E k \in DOMAIN names : names[k] = Structure!NameAt(prefix, i)
    <2>1. PICK f \in firsts : Structure!NameAt(prefix, f) = Structure!NameAt(prefix, i)
        BY <1>6
    <2>2. PICK k \in DOMAIN names : Structure!Nth(firsts, k) = f
        BY <1>8
    <2>3. QED BY <1>4, <2>1, <2>2
<1>12. QED BY <1>10, <1>11 DEF names

\* A place of a path: a schema, a table and a column with its names.
ColumnBelow(path, k) == columns[Structure!Nth(Structure!Below(<<path[1], path[2]>>), k)]
StandsAt(path, i, j, k) ==
    /\ i \in DOMAIN Structure!NamesBelow(<<>>) /\ Structure!NamesBelow(<<>>)[i] = path[1]
    /\ j \in DOMAIN Structure!NamesBelow(<<path[1]>>) /\ Structure!NamesBelow(<<path[1]>>)[j] = path[2]
    /\ k \in 1..Cardinality(Structure!Below(<<path[1], path[2]>>)) /\ ColumnBelow(path, k).path[3] = path[3]

LEMMA PlaceOf ==
    ASSUME NEW path \in ColumnPath
    PROVE  /\ \A place : place \in Structure!Places(path)
                         <=> \E i, j, k : place = <<i, j, k>> /\ StandsAt(path, i, j, k)
           /\ \A i, j, k : StandsAt(path, i, j, k) => Structure!At(<<i, j, k>>) = ColumnBelow(path, k)
<1> DEFINE schemaNames == Structure!NamesBelow(<<>>)
           tableNames == Structure!NamesBelow(<<path[1]>>)
           below == Structure!Below(<<path[1], path[2]>>)
           Fits(i, j, k) == /\ schemaNames[i] = path[1] /\ tableNames[j] = path[2]
                            /\ columns[Structure!Nth(below, k)].path[3] = path[3]
           answer == Structure!DbSchemas
<1>1. path = <<path[1], path[2], path[3]>>
    BY TabAssumption DEF Structure!FullDatabaseAssumption
<1>2. DOMAIN answer = DOMAIN schemaNames
      /\ \A i \in DOMAIN schemaNames : answer[i].name = schemaNames[i] /\ answer[i].tables = Structure!TablesOf(schemaNames[i])
    BY DEF Structure!DbSchemas
<1>3. /\ DOMAIN Structure!TablesOf(path[1]) = DOMAIN tableNames
      /\ \A j \in DOMAIN tableNames :
             /\ Structure!TablesOf(path[1])[j].name = tableNames[j]
             /\ Structure!TablesOf(path[1])[j].columns = Structure!ColumnsOf(<<path[1], tableNames[j]>>)
    BY DEF Structure!TablesOf
<1>4. /\ DOMAIN Structure!ColumnsOf(<<path[1], path[2]>>) = 1..Cardinality(below)
      /\ \A k \in 1..Cardinality(below) :
             Structure!ColumnsOf(<<path[1], path[2]>>)[k] = columns[Structure!Nth(below, k)]
    BY CountIs DEF Structure!ColumnsOf
<1> HIDE DEF schemaNames, tableNames, below
<1>5. ASSUME NEW i \in DOMAIN schemaNames, NEW j \in DOMAIN tableNames, NEW k \in 1..Cardinality(below), Fits(i, j, k)
      PROVE  /\ <<i, j, k>> \in Structure!Places(path)
             /\ Structure!At(<<i, j, k>>) = columns[Structure!Nth(below, k)]
    <2>1. i \in DOMAIN answer /\ answer[i].name = path[1] /\ answer[i].tables = Structure!TablesOf(path[1])
        BY <1>2, <1>5
    <2>2. /\ j \in DOMAIN answer[i].tables /\ answer[i].tables[j].name = path[2]
          /\ answer[i].tables[j].columns = Structure!ColumnsOf(<<path[1], path[2]>>)
        BY <1>3, <1>5, <2>1
    <2>3. /\ k \in DOMAIN answer[i].tables[j].columns
          /\ answer[i].tables[j].columns[k] = columns[Structure!Nth(below, k)]
          /\ answer[i].tables[j].columns[k].path[3] = path[3]
        BY <1>4, <1>5, <2>2
    <2> HIDE DEF answer
    <2>4. <<answer[i].name, answer[i].tables[j].name, answer[i].tables[j].columns[k].path[3]>> = path
        BY <1>1, <2>1, <2>2, <2>3
    <2>5. <<i, j, k>> \in Structure!Places(path)
        BY <2>1, <2>2, <2>3, <2>4 DEF Structure!Places, answer
    <2>6. Structure!At(<<i, j, k>>) = answer[i].tables[j].columns[k]
        BY DEF Structure!At, answer
    <2>7. QED BY <2>3, <2>5, <2>6
<1>6. ASSUME NEW place \in Structure!Places(path)
      PROVE  \E i \in DOMAIN schemaNames, j \in DOMAIN tableNames, k \in 1..Cardinality(below) :
                 place = <<i, j, k>> /\ Fits(i, j, k)
    <2>1. PICK i \in DOMAIN answer : \E j \in DOMAIN answer[i].tables : \E k \in DOMAIN answer[i].tables[j].columns :
              /\ place = <<i, j, k>>
              /\ <<answer[i].name, answer[i].tables[j].name, answer[i].tables[j].columns[k].path[3]>> = path
        <3>1. PICK i \in DOMAIN answer :
                  place \in UNION {{<<i, j, k>> : k \in {k \in DOMAIN answer[i].tables[j].columns :
                                <<answer[i].name, answer[i].tables[j].name,
                                  answer[i].tables[j].columns[k].path[3]>> = path}}
                            : j \in DOMAIN answer[i].tables}
            BY <1>6 DEF Structure!Places
        <3> HIDE DEF answer
        <3>2. PICK j \in DOMAIN answer[i].tables :
                  place \in {<<i, j, k>> : k \in {k \in DOMAIN answer[i].tables[j].columns :
                                <<answer[i].name, answer[i].tables[j].name,
                                  answer[i].tables[j].columns[k].path[3]>> = path}}
            BY <3>1
        <3>3. QED BY <3>2
    <2> HIDE DEF answer
    <2>2. PICK j \in DOMAIN answer[i].tables : \E k \in DOMAIN answer[i].tables[j].columns :
              /\ place = <<i, j, k>>
              /\ <<answer[i].name, answer[i].tables[j].name, answer[i].tables[j].columns[k].path[3]>> = path
        BY <2>1
    <2>3. PICK k \in DOMAIN answer[i].tables[j].columns :
              /\ place = <<i, j, k>>
              /\ <<answer[i].name, answer[i].tables[j].name, answer[i].tables[j].columns[k].path[3]>> = path
        BY <2>2
    <2>4. /\ answer[i].name = path[1] /\ answer[i].tables[j].name = path[2]
          /\ answer[i].tables[j].columns[k].path[3] = path[3]
        BY <1>1, <2>3
    <2>5. i \in DOMAIN schemaNames /\ schemaNames[i] = path[1] /\ answer[i].tables = Structure!TablesOf(path[1])
        BY <1>2, <2>4
    <2>6. /\ j \in DOMAIN tableNames /\ tableNames[j] = path[2]
          /\ answer[i].tables[j].columns = Structure!ColumnsOf(<<path[1], path[2]>>)
        <3> DEFINE ts == answer[i].tables
        <3>1. j \in DOMAIN ts /\ ts = Structure!TablesOf(path[1]) /\ ts[j].name = path[2]
            BY <2>4, <2>5
        <3> HIDE DEF ts
        <3>2. j \in DOMAIN tableNames
            BY <1>3, <3>1
        <3>3. tableNames[j] = path[2]
            <4>1. Structure!TablesOf(path[1])[j].name = tableNames[j]
                BY <1>3, <3>2
            <4>2. QED BY <3>1, <4>1
        <3>4. ts[j].columns = Structure!ColumnsOf(<<path[1], path[2]>>)
            <4>1. Structure!TablesOf(path[1])[j].columns = Structure!ColumnsOf(<<path[1], tableNames[j]>>)
                BY <1>3, <3>2
            <4>2. QED BY <3>1, <3>3, <4>1
        <3>5. QED BY <3>2, <3>3, <3>4 DEF ts
    <2>7. k \in 1..Cardinality(below) /\ columns[Structure!Nth(below, k)].path[3] = path[3]
        BY <1>4, <2>4, <2>6
    <2>8. QED BY <2>3, <2>5, <2>6, <2>7
<1>7. \A i, j, k : StandsAt(path, i, j, k)
          <=> i \in DOMAIN schemaNames /\ j \in DOMAIN tableNames /\ k \in 1..Cardinality(below) /\ Fits(i, j, k)
    BY DEF StandsAt, ColumnBelow, schemaNames, tableNames, below
<1>8. \A k : ColumnBelow(path, k) = columns[Structure!Nth(below, k)]
    BY DEF ColumnBelow, below
<1> HIDE DEF Fits
<1>9. QED BY <1>5, <1>6, <1>7, <1>8

\* A column that was built has one place, and another path has none.
LEMMA PlacedOnce ==
    ASSUME StructureInv, NEW c \in DOMAIN columns
    PROVE  \E place \in Structure!Places(columns[c].path) :
               /\ Structure!Places(columns[c].path) = {place}
               /\ Structure!At(place) = columns[c]
<1> DEFINE path == columns[c].path
           schemaNames == Structure!NamesBelow(<<>>)
           tableNames == Structure!NamesBelow(<<path[1]>>)
           below == Structure!Below(<<path[1], path[2]>>)
<1>1. Structure!StructureTypeOK /\ path \in ColumnPath /\ \A i \in DOMAIN columns : columns[i].path \in ColumnPath
    BY ColumnTyped DEF StructureInv
<1>2. Len(columns) \in Nat /\ below \in SUBSET (1..Len(columns)) /\ DOMAIN columns = 1..Len(columns)
    BY <1>1, ColumnTyped DEF Structure!Below
<1>3. PICK i \in DOMAIN schemaNames : /\ schemaNames[i] = path[1]
                                      /\ \A l \in DOMAIN schemaNames : schemaNames[l] = path[1] => l = i
    <2>1. c \in Structure!Below(<<>>)
        BY <1>1, Prefixes DEF Structure!Below
    <2>2. Structure!NameAt(<<>>, c) = path[1]
        BY DEF Structure!NameAt
    <2>3. QED BY <1>1, <2>1, <2>2, NamesOnce
<1>4. PICK j \in DOMAIN tableNames : /\ tableNames[j] = path[2]
                                     /\ \A l \in DOMAIN tableNames : tableNames[l] = path[2] => l = j
    <2>1. c \in Structure!Below(<<path[1]>>)
        BY <1>1, Prefixes DEF Structure!Below
    <2>2. Structure!NameAt(<<path[1]>>, c) = path[2]
        BY DEF Structure!NameAt
    <2>3. QED BY <1>1, <2>1, <2>2, NamesOnce
<1>5. ASSUME NEW d \in below, columns[d].path[3] = path[3] PROVE d = c
    <2>1. d \in DOMAIN columns /\ columns[d].path[1] = path[1] /\ columns[d].path[2] = path[2]
        BY <1>1, Prefixes DEF Structure!Below
    <2>2. columns[d].path = path
        <3>1. /\ columns[d].path = <<columns[d].path[1], columns[d].path[2], columns[d].path[3]>>
              /\ path = <<path[1], path[2], path[3]>>
            BY <1>1, <2>1, TabAssumption DEF Structure!FullDatabaseAssumption
        <3>2. QED BY <1>5, <2>1, <3>1
    <2>3. QED BY <2>1, <2>2 DEF StructureInv
<1>6. c \in below
    BY <1>1, Prefixes DEF Structure!Below
<1> HIDE DEF schemaNames, tableNames, below
<1>7. PICK k \in 1..Cardinality(below) : Structure!Nth(below, k) = c
    BY <1>2, <1>6, NthOnce
<1>8. ASSUME NEW l \in 1..Cardinality(below), columns[Structure!Nth(below, l)].path[3] = path[3] PROVE l = k
    <2>1. Structure!Nth(below, l) \in below
        BY <1>2, Enumerated
    <2>2. Structure!Nth(below, l) = c
        BY <1>5, <1>8, <2>1
    <2>3. QED BY <1>2, <1>7, <2>2, NthOnce
<1>9. \A l, m, n : StandsAt(path, l, m, n) <=> <<l, m, n>> = <<i, j, k>>
    <2>1. /\ k \in 1..Cardinality(below) /\ columns[Structure!Nth(below, k)].path[3] = path[3]
          /\ \A l \in 1..Cardinality(below) : columns[Structure!Nth(below, l)].path[3] = path[3] => l = k
        BY <1>7, <1>8
    <2>2. \A l, m, n : StandsAt(path, l, m, n)
              <=> /\ l \in DOMAIN schemaNames /\ schemaNames[l] = path[1]
                  /\ m \in DOMAIN tableNames /\ tableNames[m] = path[2]
                  /\ n \in 1..Cardinality(below) /\ columns[Structure!Nth(below, n)].path[3] = path[3]
        BY DEF StandsAt, ColumnBelow, schemaNames, tableNames, below
    <2> HIDE DEF path
    <2>3. \A l, m, n : StandsAt(path, l, m, n) <=> l = i /\ m = j /\ n = k
        BY <1>3, <1>4, <2>1, <2>2
    <2>4. QED BY <2>3
<1>10. ColumnBelow(path, k) = columns[c]
    BY <1>7 DEF ColumnBelow, below
<1> HIDE DEF path
<1>11. Structure!At(<<i, j, k>>) = columns[c]
    BY <1>1, <1>9, <1>10, PlaceOf
<1>12. \A place : place \in Structure!Places(path) <=> place = <<i, j, k>>
    BY <1>1, <1>9, PlaceOf
<1>13. Structure!Places(path) = {<<i, j, k>>}
    BY <1>12
<1>14. QED BY <1>11, <1>13 DEF path

LEMMA NotPlaced ==
    ASSUME Structure!StructureTypeOK, NEW path \in ColumnPath,
           \A i \in DOMAIN columns : columns[i].path # path
    PROVE  Structure!Places(path) = {}
<1> DEFINE below == Structure!Below(<<path[1], path[2]>>)
<1>1. /\ Len(columns) \in Nat /\ below \in SUBSET (1..Len(columns)) /\ DOMAIN columns = 1..Len(columns)
      /\ \A i \in DOMAIN columns : columns[i].path \in ColumnPath
    BY ColumnTyped DEF Structure!Below
<1>2. ASSUME NEW d \in below PROVE columns[d].path[3] # path[3]
    <2>1. d \in DOMAIN columns /\ columns[d].path[1] = path[1] /\ columns[d].path[2] = path[2]
        BY <1>1, Prefixes DEF Structure!Below
    <2>2. /\ columns[d].path = <<columns[d].path[1], columns[d].path[2], columns[d].path[3]>>
          /\ path = <<path[1], path[2], path[3]>>
        BY <1>1, <2>1, TabAssumption DEF Structure!FullDatabaseAssumption
    <2>3. columns[d].path # path
        BY <2>1
    <2>4. QED BY <2>1, <2>2, <2>3
<1>3. \A k \in 1..Cardinality(below) : Structure!Nth(below, k) \in below
    <2> HIDE DEF below
    <2>1. QED BY <1>1, Enumerated
<1>4. \A k \in 1..Cardinality(below) : columns[Structure!Nth(below, k)].path[3] # path[3]
    <2> HIDE DEF below
    <2>1. QED BY <1>2, <1>3
<1>5. \A place : place \notin Structure!Places(path)
    BY <1>4, PlaceOf DEF StandsAt, ColumnBelow
<1>6. QED BY <1>5

LEMMA StructureKept == StructureInv => Structure!StructureComplete
<1> SUFFICES ASSUME StructureInv, NEW path \in ColumnPath
             PROVE  IF Structure!RowsOf(path) = {} THEN Structure!Places(path) = {}
                    ELSE \E place \in Structure!Places(path) :
                             /\ Structure!Places(path) = {place}
                             /\ Structure!At(place).constraints = Structure!ConstraintsOf(path)
                             /\ Structure!At(place).is_primary =>
                                    \E k \in DOMAIN Structure!At(place).constraints :
                                        Structure!At(place).constraints[k] \in PrimaryConstraint
    BY DEF Structure!StructureComplete
<1>1. CASE Structure!RowsOf(path) = {}
    <2>1. Structure!StructureTypeOK /\ \A i \in DOMAIN columns : columns[i].path # path
        BY <1>1 DEF StructureInv
    <2>2. QED BY <1>1, <2>1, NotPlaced
<1>2. CASE Structure!RowsOf(path) # {}
    <2>1. PICK c \in DOMAIN columns : columns[c].path = path
        BY <1>2 DEF StructureInv
    <2>2. PICK place \in Structure!Places(path) :
              Structure!Places(path) = {place} /\ Structure!At(place) = columns[c]
        BY <2>1, PlacedOnce
    <2>3. /\ columns[c].constraints = Structure!ConstraintsOf(path)
          /\ columns[c].is_primary => \E k \in DOMAIN columns[c].constraints :
                                          columns[c].constraints[k] \in PrimaryConstraint
        BY <2>1 DEF StructureInv
    <2>4. QED BY <1>2, <2>2, <2>3
<1>3. QED BY <1>1, <1>2

\* The rows of a path that have a constraint.
Constrained(path) == {i \in Structure!RowsOf(path) : structureRows[i].constraint # NoConstraint}

LEMMA RowTyped ==
    ASSUME Structure!StructureTypeOK
    PROVE  /\ Len(structureRows) \in Nat /\ DOMAIN structureRows = 1..Len(structureRows)
           /\ \A i \in DOMAIN structureRows :
                  structureRows[i] \in Structure!Row /\ structureRows[i].path \in ColumnPath
<1>1. structureRows \in Seq(Structure!Row)
    BY DEF Structure!StructureTypeOK
<1>2. /\ Len(structureRows) \in Nat /\ DOMAIN structureRows = 1..Len(structureRows)
      /\ \A i \in DOMAIN structureRows : structureRows[i] \in Structure!Row
    BY <1>1
<1>3. \A row \in Structure!Row : row.path \in ColumnPath
    BY DEF Structure!Row
<1>4. QED BY <1>2, <1>3

LEMMA ConstraintsTyped ==
    ASSUME Structure!StructureTypeOK, NEW path
    PROVE  /\ Constrained(path) \in SUBSET (1..Len(structureRows))
           /\ Cardinality(Constrained(path)) \in Nat
           /\ Structure!ConstraintsOf(path)
              = [k \in 1..Cardinality(Constrained(path)) |->
                    structureRows[Structure!Nth(Constrained(path), k)].constraint]
           /\ Structure!ConstraintsOf(path) \in Seq(Structure!Constraint)
           /\ Len(Structure!ConstraintsOf(path)) = Cardinality(Constrained(path))
<1> DEFINE R == Constrained(path)
<1>1. Len(structureRows) \in Nat /\ R \in SUBSET (1..Len(structureRows)) /\ R \subseteq DOMAIN structureRows
    BY RowTyped DEF Constrained, Structure!RowsOf
<1>2. Structure!ConstraintsOf(path)
      = [k \in 1..Cardinality(R) |-> structureRows[Structure!Nth(R, k)].constraint]
    BY CountIs DEF Structure!ConstraintsOf, Constrained
<1>3. \A i \in R : structureRows[i].constraint \in Structure!Constraint
    BY <1>1, RowTyped DEF Constrained, Structure!Row
<1> HIDE DEF R
<1>4. Cardinality(R) \in Nat /\ \A k \in 1..Cardinality(R) : Structure!Nth(R, k) \in R
    BY <1>1, Enumerated
<1>5. Structure!ConstraintsOf(path) \in [1..Cardinality(R) -> Structure!Constraint]
    BY <1>2, <1>3, <1>4
<1>6. /\ Structure!ConstraintsOf(path) \in Seq(Structure!Constraint)
      /\ Len(Structure!ConstraintsOf(path)) = Cardinality(R)
    BY <1>4, <1>5
<1>7. QED BY <1>1, <1>2, <1>4, <1>6 DEF R

\* A row is one more of its own path, and its constraint comes after those before it.
LEMMA RowRead ==
    ASSUME Structure!StructureTypeOK, NEW row \in Structure!Row, Structure!ReadRow(row), NEW path
    PROVE  /\ path # row.path => /\ Structure!RowsOf(path)' = Structure!RowsOf(path)
                                 /\ Structure!ConstraintsOf(path)' = Structure!ConstraintsOf(path)
           /\ path = row.path => /\ Structure!RowsOf(path)' # {}
                                 /\ Structure!ConstraintsOf(path)'
                                    = Structure!ConstraintsOf(path) \o Structure!Constraints(row)
<1> DEFINE n == Len(structureRows)
           R == Constrained(path)
<1>1. /\ n \in Nat /\ DOMAIN structureRows = 1..n
      /\ DOMAIN structureRows' = 1..(n + 1)
      /\ \A i \in 1..n : structureRows'[i] = structureRows[i]
      /\ structureRows'[n + 1] = row
    BY RowTyped DEF Structure!ReadRow, Structure!StructureTypeOK
<1>2. Structure!RowsOf(path)' = IF path = row.path THEN Structure!RowsOf(path) \cup {n + 1}
                                ELSE Structure!RowsOf(path)
    BY <1>1 DEF Structure!RowsOf
<1>3. Constrained(path)' = IF path = row.path /\ row.constraint # NoConstraint THEN R \cup {n + 1} ELSE R
    BY <1>1, <1>2 DEF Constrained, Structure!RowsOf
<1>4. /\ R \in SUBSET (1..n) /\ Cardinality(R) \in Nat
      /\ Structure!ConstraintsOf(path)
         = [k \in 1..Cardinality(R) |-> structureRows[Structure!Nth(R, k)].constraint]
      /\ Structure!ConstraintsOf(path) \in Seq(Structure!Constraint)
      /\ Len(Structure!ConstraintsOf(path)) = Cardinality(R)
    BY ConstraintsTyped
<1>5. Structure!ConstraintsOf(path)'
      = [k \in 1..Cardinality(Constrained(path)') |->
            structureRows'[Structure!Nth(Constrained(path)', k)].constraint]
    BY CountIs DEF Structure!ConstraintsOf, Constrained
<1>6. \A k \in 1..Cardinality(R) : Structure!Nth(R, k) \in 1..n
    <2> HIDE DEF R
    <2>1. QED BY <1>1, <1>4, Enumerated
<1> HIDE DEF R, n
<1>7. CASE path # row.path \/ row.constraint = NoConstraint
    <2>1. Constrained(path)' = R
        BY <1>3, <1>7
    <2>2. Structure!ConstraintsOf(path)' = Structure!ConstraintsOf(path)
        BY <1>1, <1>4, <1>5, <1>6, <2>1
    <2>3. path = row.path => Structure!Constraints(row) = <<>>
        BY <1>7 DEF Structure!Constraints
    <2>4. Structure!ConstraintsOf(path) \o <<>> = Structure!ConstraintsOf(path)
        BY <1>4
    <2>5. path = row.path => Structure!RowsOf(path)' # {}
        BY <1>2
    <2>6. QED BY <1>2, <2>2, <2>3, <2>4, <2>5
<1>8. CASE path = row.path /\ row.constraint # NoConstraint
    <2>1. Constrained(path)' = R \cup {n + 1}
        BY <1>3, <1>8
    <2>2. /\ Cardinality(R \cup {n + 1}) = Cardinality(R) + 1
          /\ \A k \in 1..Cardinality(R) : Structure!Nth(R \cup {n + 1}, k) = Structure!Nth(R, k)
          /\ Structure!Nth(R \cup {n + 1}, Cardinality(R) + 1) = n + 1
        BY <1>1, <1>4, Appended
    <2> DEFINE C == Structure!ConstraintsOf(path)
    <2>3. /\ C \in Seq(Structure!Constraint) /\ Len(C) = Cardinality(R)
          /\ \A k \in 1..Cardinality(R) : C[k] = structureRows[Structure!Nth(R, k)].constraint
        BY <1>4
    <2>4. Structure!ConstraintsOf(path)'
          = [k \in 1..(Cardinality(R) + 1) |-> structureRows'[Structure!Nth(R \cup {n + 1}, k)].constraint]
        BY <1>5, <2>1, <2>2
    <2>5. \A k \in 1..(Cardinality(R) + 1) :
              structureRows'[Structure!Nth(R \cup {n + 1}, k)].constraint
              = IF k = Cardinality(R) + 1 THEN row.constraint ELSE C[k]
        <3> SUFFICES ASSUME NEW k \in 1..(Cardinality(R) + 1)
                     PROVE  structureRows'[Structure!Nth(R \cup {n + 1}, k)].constraint
                            = IF k = Cardinality(R) + 1 THEN row.constraint ELSE C[k]
            OBVIOUS
        <3> HIDE DEF C
        <3>1. CASE k = Cardinality(R) + 1
            BY <1>1, <2>2, <3>1
        <3>2. CASE k # Cardinality(R) + 1
            <4>1. k \in 1..Cardinality(R)
                BY <1>4, <3>2
            <4>2. /\ Structure!Nth(R \cup {n + 1}, k) = Structure!Nth(R, k)
                  /\ structureRows'[Structure!Nth(R, k)] = structureRows[Structure!Nth(R, k)]
                BY <1>1, <1>6, <2>2, <4>1
            <4>3. QED BY <2>3, <3>2, <4>1, <4>2
        <3>3. QED BY <3>1, <3>2
    <2> HIDE DEF C
    <2>6. C \o <<row.constraint>> = [k \in 1..(Cardinality(R) + 1) |->
                                        IF k = Cardinality(R) + 1 THEN row.constraint ELSE C[k]]
        BY <1>4, <2>3
    <2>7. Structure!ConstraintsOf(path)' = C \o <<row.constraint>>
        BY <2>4, <2>5, <2>6
    <2>8. Structure!Constraints(row) = <<row.constraint>>
        BY <1>8 DEF Structure!Constraints
    <2>9. Structure!RowsOf(path)' # {}
        BY <1>2, <1>8
    <2>10. QED BY <1>8, <2>7, <2>8, <2>9 DEF C
<1>9. QED BY <1>7, <1>8

LEMMA StructureStarts == Structure!StructureInit => StructureInv
<1> SUFFICES ASSUME Structure!StructureInit PROVE StructureInv
    OBVIOUS
<1>1. structureRows = <<>> /\ columns = <<>>
    BY DEF Structure!StructureInit
<1>2. DOMAIN structureRows = {} /\ DOMAIN columns = {}
    BY <1>1
<1>3. Structure!StructureTypeOK
    BY <1>1 DEF Structure!StructureTypeOK
<1>4. QED BY <1>2, <1>3 DEF StructureInv, Structure!RowsOf

LEMMA StructureStep == StructureInv /\ Structure!StructureNext => StructureInv'
<1> SUFFICES ASSUME StructureInv, NEW row \in Structure!Row, Structure!ReadRow(row) PROVE StructureInv'
    BY DEF Structure!StructureNext
<1> DEFINE Column == [path : ColumnPath, is_primary : BOOLEAN, constraints : Seq(Structure!Constraint)]
           c == Structure!Constraints(row)
<1>1. /\ Structure!StructureTypeOK /\ row.path \in ColumnPath
      /\ row.constraint \in Structure!Constraint \cup {NoConstraint}
    BY DEF StructureInv, Structure!Row
<1>2. /\ Len(columns) \in Nat /\ DOMAIN columns = 1..Len(columns)
      /\ columns \in Seq(Column)
      /\ \A i \in DOMAIN columns : /\ columns[i] \in Column /\ columns[i].path \in ColumnPath
                                   /\ columns[i].is_primary \in BOOLEAN
                                   /\ columns[i].constraints \in Seq(Structure!Constraint)
    <2>1. columns \in Seq(Column)
        BY <1>1 DEF Structure!StructureTypeOK
    <2>2. \A i \in DOMAIN columns : columns[i] \in Column
        <3> HIDE DEF Column
        <3>1. QED BY <2>1
    <2>3. QED BY <1>1, <2>1, <2>2, ColumnTyped
<1>3. c \in Seq(Structure!Constraint) /\ (row.constraint \in PrimaryConstraint => c = <<row.constraint>>)
    <2>1. NoConstraint \notin PrimaryConstraint
        BY TabAssumption DEF Structure!FullDatabaseAssumption
    <2>2. row.constraint # NoConstraint => <<row.constraint>> \in Seq(Structure!Constraint)
        BY <1>1
    <2>3. QED BY <2>1, <2>2 DEF Structure!Constraints
<1>4. structureRows' \in Seq(Structure!Row)
    BY <1>1 DEF Structure!ReadRow, Structure!StructureTypeOK
<1>5. columns' = Structure!WithRow(row)
    BY DEF Structure!ReadRow
<1>6. \A path : /\ path # row.path => /\ Structure!RowsOf(path)' = Structure!RowsOf(path)
                                      /\ Structure!ConstraintsOf(path)' = Structure!ConstraintsOf(path)
                /\ path = row.path => /\ Structure!RowsOf(path)' # {}
                                      /\ Structure!ConstraintsOf(path)' = Structure!ConstraintsOf(path) \o c
    BY <1>1, RowRead
<1> HIDE DEF c
<1>7. CASE \A i \in DOMAIN columns : columns[i].path # row.path
    <2> DEFINE new == Structure!NewColumn(row)
    <2>1. new.path = row.path /\ new.is_primary = (row.constraint \in PrimaryConstraint) /\ new.constraints = c
          /\ new \in Column
        BY <1>1, <1>3 DEF Structure!NewColumn, Structure!IsPrimary, c
    <2>2. columns' = Append(columns, new)
        BY <1>5, <1>7 DEF Structure!WithRow
    <2> HIDE DEF new
    <2>3. /\ DOMAIN columns' = 1..(Len(columns) + 1) /\ columns'[Len(columns) + 1] = new
          /\ \A i \in 1..Len(columns) : columns'[i] = columns[i]
          /\ columns' \in Seq(Column)
        <3> HIDE DEF Column
        <3>1. QED BY <1>2, <2>1, <2>2
    <2>4. Structure!StructureTypeOK'
        BY <1>4, <2>3 DEF Structure!StructureTypeOK
    <2>5. \A i \in DOMAIN columns' : i \in DOMAIN columns \/ i = Len(columns) + 1
        BY <1>2, <2>3
    <2>6. \A i \in DOMAIN columns : i \in DOMAIN columns' /\ columns'[i] = columns[i] /\ columns'[i].path # row.path
        BY <1>2, <1>7, <2>3
    <2>7. Len(columns) + 1 \in DOMAIN columns' /\ columns'[Len(columns) + 1].path = row.path
        BY <1>2, <2>1, <2>3
    <2>8. \A i, j \in DOMAIN columns' : columns'[i].path = columns'[j].path => i = j
        BY <2>5, <2>6, <2>7 DEF StructureInv
    <2>9. ASSUME NEW path \in ColumnPath
          PROVE  Structure!RowsOf(path)' = {} <=> \A i \in DOMAIN columns' : columns'[i].path # path
        <3>1. CASE path = row.path
            <4>1. Structure!RowsOf(path)' # {}
                BY <1>6, <3>1
            <4>2. QED BY <2>7, <3>1, <4>1
        <3>2. CASE path # row.path
            <4>1. Structure!RowsOf(path)' = Structure!RowsOf(path)
                BY <1>6, <3>2
            <4>2. Structure!RowsOf(path) = {} <=> \A i \in DOMAIN columns : columns[i].path # path
                BY DEF StructureInv
            <4>3. (\A i \in DOMAIN columns : columns[i].path # path)
                  <=> \A i \in DOMAIN columns' : columns'[i].path # path
                BY <2>5, <2>6, <2>7, <3>2
            <4>4. QED BY <4>1, <4>2, <4>3
        <3>3. QED BY <3>1, <3>2
    <2>10. Structure!ConstraintsOf(row.path) = <<>>
        <3>1. Structure!RowsOf(row.path) = {}
            BY <1>1, <1>7 DEF StructureInv
        <3>2. Constrained(row.path) = {}
            BY <3>1 DEF Constrained
        <3>3. Structure!ConstraintsOf(row.path) \in Seq(Structure!Constraint)
              /\ Len(Structure!ConstraintsOf(row.path)) = 0
            BY <1>1, <3>2, ConstraintsTyped, FS_EmptySet
        <3>4. QED BY <3>3
    <2>11. ASSUME NEW path \in ColumnPath, NEW i \in DOMAIN columns', columns'[i].path = path
           PROVE  columns'[i].constraints = Structure!ConstraintsOf(path)'
        <3>1. CASE i = Len(columns) + 1
            <4>1. path = row.path /\ columns'[i].constraints = c
                BY <2>1, <2>3, <2>7, <2>11, <3>1
            <4>2. Structure!ConstraintsOf(path)' = <<>> \o c
                BY <1>6, <2>10, <4>1
            <4>3. QED BY <1>3, <4>1, <4>2
        <3>2. CASE i \in DOMAIN columns
            <4>1. path # row.path /\ columns[i].path = path /\ columns'[i] = columns[i]
                BY <2>6, <2>11, <3>2
            <4>2. Structure!ConstraintsOf(path)' = Structure!ConstraintsOf(path)
                BY <1>6, <4>1
            <4>3. columns[i].constraints = Structure!ConstraintsOf(path)
                BY <3>2, <4>1 DEF StructureInv
            <4>4. QED BY <4>1, <4>2, <4>3
        <3>3. QED BY <2>5, <3>1, <3>2
    <2>12. ASSUME NEW i \in DOMAIN columns', columns'[i].is_primary
           PROVE  \E k \in DOMAIN columns'[i].constraints : columns'[i].constraints[k] \in PrimaryConstraint
        <3>1. CASE i = Len(columns) + 1
            <4>1. row.constraint \in PrimaryConstraint /\ columns'[i].constraints = c
                BY <2>1, <2>3, <2>12, <3>1
            <4>2. 1 \in DOMAIN c /\ c[1] \in PrimaryConstraint
                BY <1>3, <4>1
            <4>3. QED BY <4>1, <4>2
        <3>2. CASE i \in DOMAIN columns
            BY <2>6, <2>12, <3>2 DEF StructureInv
        <3>3. QED BY <2>5, <3>1, <3>2
    <2>13. QED BY <2>4, <2>8, <2>9, <2>11, <2>12 DEF StructureInv
<1>8. CASE \E i \in DOMAIN columns : columns[i].path = row.path
    <2>1. /\ DOMAIN columns' = DOMAIN columns
          /\ \A i \in DOMAIN columns :
                 columns'[i] = IF columns[i].path = row.path
                               THEN [columns[i] EXCEPT !.constraints = columns[i].constraints \o c] ELSE columns[i]
        BY <1>5, <1>8 DEF Structure!WithRow, c
    <2>2. \A i \in DOMAIN columns :
              /\ columns'[i].path = columns[i].path /\ columns'[i].is_primary = columns[i].is_primary
              /\ columns'[i].constraints = IF columns[i].path = row.path THEN columns[i].constraints \o c
                                           ELSE columns[i].constraints
        BY <1>2, <2>1
    <2>3. ASSUME NEW i \in DOMAIN columns PROVE columns'[i] \in Column
        <3>1. columns[i] \in Column
            BY <1>2
        <3>2. columns[i].constraints \o c \in Seq(Structure!Constraint)
            BY <1>2, <1>3
        <3>3. QED BY <2>1, <3>1, <3>2
    <2>4. Structure!StructureTypeOK'
        <3>1. columns' = [i \in 1..Len(columns) |-> columns'[i]]
            BY <1>2, <1>5, <1>8 DEF Structure!WithRow
        <3>2. columns' \in Seq(Column)
            <4> HIDE DEF Column
            <4>1. QED BY <1>2, <2>3, <3>1
        <3>3. QED BY <1>4, <3>2 DEF Structure!StructureTypeOK
    <2>5. \A i, j \in DOMAIN columns' : columns'[i].path = columns'[j].path => i = j
        BY <2>1, <2>2 DEF StructureInv
    <2>6. ASSUME NEW path \in ColumnPath
          PROVE  Structure!RowsOf(path)' = {} <=> \A i \in DOMAIN columns' : columns'[i].path # path
        BY <1>6, <1>8, <2>1, <2>2 DEF StructureInv
    <2>7. ASSUME NEW path \in ColumnPath, NEW i \in DOMAIN columns', columns'[i].path = path
          PROVE  columns'[i].constraints = Structure!ConstraintsOf(path)'
        <3>1. i \in DOMAIN columns /\ columns[i].path = path
            BY <2>1, <2>2, <2>7
        <3>2. columns[i].constraints = Structure!ConstraintsOf(path)
            BY <3>1 DEF StructureInv
        <3>3. CASE path = row.path
            <4>1. Structure!ConstraintsOf(path)' = Structure!ConstraintsOf(path) \o c
                BY <1>6, <3>3
            <4>2. columns'[i].constraints = columns[i].constraints \o c
                BY <2>2, <3>1, <3>3
            <4>3. QED BY <3>2, <4>1, <4>2
        <3>4. CASE path # row.path
            <4>1. Structure!ConstraintsOf(path)' = Structure!ConstraintsOf(path)
                BY <1>6, <3>4
            <4>2. columns'[i].constraints = columns[i].constraints
                BY <2>2, <3>1, <3>4
            <4>3. QED BY <3>2, <4>1, <4>2
        <3>5. QED BY <3>3, <3>4
    <2>8. ASSUME NEW i \in DOMAIN columns', columns'[i].is_primary
          PROVE  \E k \in DOMAIN columns'[i].constraints : columns'[i].constraints[k] \in PrimaryConstraint
        <3>1. i \in DOMAIN columns /\ columns[i].is_primary
            BY <2>1, <2>2, <2>8
        <3>2. PICK k \in DOMAIN columns[i].constraints : columns[i].constraints[k] \in PrimaryConstraint
            BY <3>1 DEF StructureInv
        <3> DEFINE C == columns[i].constraints
        <3>3. C \in Seq(Structure!Constraint)
            BY <1>2, <3>1
        <3>4. k \in DOMAIN C /\ C[k] \in PrimaryConstraint
            BY <3>2
        <3>5. columns'[i].constraints = C \o c \/ columns'[i].constraints = C
            BY <2>2, <3>1
        <3> HIDE DEF C
        <3>6. k \in DOMAIN (C \o c) /\ (C \o c)[k] = C[k]
            BY <1>3, <3>3, <3>4
        <3>7. QED BY <3>4, <3>5, <3>6
    <2>9. QED BY <2>4, <2>5, <2>6, <2>7, <2>8 DEF StructureInv
<1>9. QED BY <1>7, <1>8

-----------------------------------------------------------------------------
(* The parts in the tab                                                    *)

\* A step of the tab is one of the part that is played, and leaves the other parts as they are.
LEMMA PartStays == [TabNext]_tabVars => part' = part
BY DEF TabNext, In, tabVars

LEMMA PreviewsInTab ==
    ASSUME [TabNext]_tabVars, part = "previews"
    PROVE  Hover!PreviewNext \/ UNCHANGED previewVars
BY DEF TabNext, In, tabVars

LEMMA CopyInTab ==
    ASSUME [TabNext]_tabVars, part \in {"copied result", "copied query"}
    PROVE  Copy!CopyNext \/ UNCHANGED copyVars
BY DEF TabNext, In, tabVars

LEMMA FormInTab ==
    ASSUME [TabNext]_tabVars, part = "server form"
    PROVE  Form!ServerFormNext \/ UNCHANGED serverFormVars
BY DEF TabNext, In, tabVars

LEMMA LogInTab ==
    ASSUME [TabNext]_tabVars, part = "log"
    PROVE  Log!LogNext \/ UNCHANGED logVars
BY DEF TabNext, In, tabVars

LEMMA CopyInit == TabInit => CopyInv
<1>1. TabInit => Copy!CopyInit
    BY DEF TabInit
<1>2. Copy!CopyInit => CopyInv
    <2> SUFFICES ASSUME copyState = "ready", copyTimers = <<>> PROVE CopyInv
        BY DEF Copy!CopyInit
    <2>1. <<>> \in Seq(Copy!CopyState \ {"ready"}) /\ Len(<<>>) = 0
        OBVIOUS
    <2>2. QED BY <2>1, TabAssumption DEF CopyInv, Copy!CopyState, Copy!CopyButtonsAssumption
<1>3. QED BY <1>1, <1>2

LEMMA FormInit == TabInit => FormInv
<1>1. TabInit => Form!ServerFormInit
    BY DEF TabInit
<1>2. Form!ServerFormInit => FormInv
    <2> SUFFICES ASSUME Form!ServerFormInit PROVE FormInv
        OBVIOUS
    <2>1. FormTyped
        BY TabAssumption DEF Form!ServerFormInit, FormTyped, Form!Typed, Form!REST, Form!Tables, Form!NoTables
    <2>2. QED BY <2>1 DEF Form!ServerFormInit, FormInv, OneOfAKind, StatesFit, TestCurrent, ListCurrent,
                          TablesCurrent, Settled
<1>3. QED BY <1>1, <1>2

LEMMA GroupsInTab ==
    ASSUME [TabNext]_tabVars, part = "groups"
    PROVE  Groups!GroupNext \/ UNCHANGED groupVars
BY DEF TabNext, In, tabVars

LEMMA TableInTab ==
    ASSUME [TabNext]_tabVars, part = "table"
    PROVE  Rows!TableNext \/ UNCHANGED tableVars
BY DEF TabNext, In, tabVars

LEMMA TextInTab ==
    ASSUME [TabNext]_tabVars, part = "text"
    PROVE  Text!TextNext \/ UNCHANGED textVars
BY DEF TabNext, In, tabVars

LEMMA TreeInTab ==
    ASSUME [TabNext]_tabVars, part = "tree"
    PROVE  Tree!TreeNext \/ UNCHANGED treeVars
BY DEF TabNext, In, tabVars

LEMMA StructureInTab ==
    ASSUME [TabNext]_tabVars, part = "structure"
    PROVE  Structure!StructureNext \/ UNCHANGED structureVars
BY DEF TabNext, In, tabVars

LEMMA TreeRests == TreeInv /\ UNCHANGED treeVars => TreeInv'
<1> SUFFICES ASSUME TreeInv, UNCHANGED treeVars PROVE TreeInv'
    OBVIOUS
<1>1. UNCHANGED <<foreign, references, isShown, database, mark, hovered, left>>
    BY DEF treeVars
<1>2. Tree!TreeTypeOK'
    BY <1>1 DEF TreeInv, Tree!TreeTypeOK
<1>3. Tree!MenuItems' = Tree!MenuItems
    BY <1>1 DEF Tree!MenuItems
<1>4. \A c \in Tree!Column : MarkFor(hovered, c)' = MarkFor(hovered, c)
    BY <1>1 DEF MarkFor
<1>5. QED BY <1>1, <1>2, <1>3, <1>4 DEF TreeInv

LEMMA StructureRests == StructureInv /\ UNCHANGED structureVars => StructureInv'
<1> SUFFICES ASSUME StructureInv, UNCHANGED structureVars PROVE StructureInv'
    OBVIOUS
<1>1. structureRows' = structureRows /\ columns' = columns
    BY DEF structureVars
<1>2. Structure!StructureTypeOK'
    BY <1>1 DEF StructureInv, Structure!StructureTypeOK
<1>3. ASSUME NEW path
      PROVE  /\ Structure!RowsOf(path)' = Structure!RowsOf(path)
             /\ Structure!ConstraintsOf(path)' = Structure!ConstraintsOf(path)
    BY <1>1 DEF Structure!RowsOf, Structure!ConstraintsOf
<1>4. QED BY <1>1, <1>2, <1>3 DEF StructureInv

LEMMA TreesStartInTab == TabInit => TreeInv /\ StructureInv
<1>1. TabInit => Tree!TreeInit /\ Structure!StructureInit
    BY DEF TabInit
<1>2. QED BY <1>1, TreeStarts, StructureStarts

LEMMA LogStartsInTab == TabInit => LogInv
<1>1. TabInit => Log!LogInit
    BY DEF TabInit
<1>2. QED BY <1>1, LogStarts

LEMMA ModeTyped == TextInv /\ displayMode \in Text!Mode /\ Text!TextNext => displayMode' \in Text!Mode
BY DEF Text!TextNext, Text!SetDisplayMode, Text!ShowResult, Text!Mode

LEMMA LogTypes == LogInv => Log!LogTypeOK
<1> SUFFICES ASSUME LogTyped PROVE Log!LogTypeOK
    BY DEF LogInv
<1>1. ASSUME NEW q \in LogQuery
      PROVE  Len(sqlQueries[q]) <= Log!MaxObjects /\ Log!ToSet(sqlQueries[q]) \subseteq Log!Object
    <2>1. sqlQueries[q] \in Seq(Log!Object) /\ Len(sqlQueries[q]) <= 2
        BY DEF LogTyped
    <2>2. QED BY <2>1 DEF Log!MaxObjects, Log!ToSet
<1>2. ASSUME NEW r \in logRequests
      PROVE  /\ r.kind \in Log!LogKind /\ r.query \in LogQuery
             /\ r.isFavorite \in Log!Star /\ r.answer \in Log!Listing
    <2>1. r \in Log!LogRequest
        BY DEF LogTyped
    <2>2. QED BY <2>1 DEF Log!LogRequest
<1>3. /\ logUser \in BOOLEAN /\ logLoaded \in BOOLEAN /\ cancelled \in BOOLEAN /\ upset \in BOOLEAN
      /\ stored \in Log!Listing
    BY DEF LogTyped
<1>4. QED BY <1>1, <1>2, <1>3 DEF Log!LogTypeOK

LEMMA PreviewTypes == PreviewsInv => Hover!PreviewTypeOK
<1> SUFFICES ASSUME PreviewsInv PROVE Hover!PreviewTypeOK
    OBVIOUS
<1>1. pointer = Hover!Away \/ (pointer.on \in {"label", "preview"} /\ pointer.entry \in Entry)
    BY DEF PreviewsInv
<1>2. QED BY <1>1 DEF PreviewsInv, Hover!PreviewTypeOK

LEMMA CopyTypes == CopyInv => Copy!CopyTypeOK
<1> SUFFICES ASSUME CopyInv PROVE Copy!CopyTypeOK
    OBVIOUS
<1>1. (IF part = "copied query" THEN "query" ELSE "result") \in {"result", "query"}
    OBVIOUS
<1>2. /\ copyState \in Copy!CopyState /\ copyTimers \in Seq(Copy!CopyState \ {"ready"})
      /\ Len(copyTimers) <= MaxCopyTimers
    BY DEF CopyInv
<1>3. QED BY <1>1, <1>2 DEF Copy!CopyTypeOK

LEMMA FormTypes == FormInv => Form!ServerFormTypeOK
BY DEF FormInv, FormTyped, Form!ServerFormTypeOK

LEMMA SessionInTab ==
    ASSUME [TabNext]_tabVars, part = "session"
    PROVE  [Next]_vars
BY DEF TabNext, In, tabVars

\* What holds of the part that is played.
PartInv ==
    /\ part = "session" => SessionInv
    /\ part = "server form" => FormInv
    /\ part = "groups" => GroupsInv /\ GroupsTyped
    /\ part = "log" => LogInv
    /\ part = "previews" => PreviewsInv
    /\ part \in {"copied result", "copied query"} => CopyInv
    /\ part = "table" => TableBounded
    /\ part = "tree" => TreeInv
    /\ part = "structure" => StructureInv
    /\ part = "text" => TextInv /\ displayMode \in Text!Mode

LEMMA PartStarts == TabInit => PartInv
<1> SUFFICES ASSUME TabInit PROVE PartInv
    OBVIOUS
<1>1. SessionInv
    <2>1. Init
        BY DEF TabInit
    <2>2. QED BY <2>1, SessionStarts
<1>2. GroupsInv /\ GroupsTyped
    <2>1. Groups!GroupInit
        BY DEF TabInit
    <2>2. QED BY <2>1, GroupsInit, GroupsTypedStart
<1>3. part = "log" => LogInv
    BY LogStartsInTab
<1>4. TextInv /\ displayMode \in Text!Mode
    <2>1. Text!TextInit
        BY DEF TabInit
    <2>2. QED BY <2>1, TextStarts DEF Text!TextInit, Text!Mode
<1>5. QED BY <1>1, <1>2, <1>3, <1>4, FormInit, PreviewsInit, CopyInit, TableBoundedStart, TreesStartInTab
          DEF PartInv

\* A part that rests keeps what holds of it.
LEMMA PartRests ==
    /\ FormInv /\ UNCHANGED serverFormVars => FormInv'
    /\ GroupsInv /\ GroupsTyped /\ UNCHANGED groupVars => GroupsInv' /\ GroupsTyped'
    /\ LogInv /\ UNCHANGED logVars => LogInv'
    /\ PreviewsInv /\ UNCHANGED previewVars => PreviewsInv'
    /\ CopyInv /\ UNCHANGED copyVars => CopyInv'
    /\ TableBounded /\ UNCHANGED tableVars => TableBounded'
<1>1. FormInv /\ UNCHANGED serverFormVars => FormInv'
    BY ZenonT(60) DEF serverFormVars, FormInv, FormTyped, OneOfAKind, StatesFit, TestCurrent, ListCurrent,
                      TablesCurrent, Settled
<1>2. ASSUME GroupsInv, GroupsTyped, UNCHANGED groupVars PROVE GroupsInv' /\ GroupsTyped'
    <2>1. /\ groupUser' = groupUser /\ joinedGroups' = joinedGroups /\ publicGroups' = publicGroups
          /\ activeGroup' = activeGroup /\ loadedOnce' = loadedOnce /\ groupRequests' = groupRequests
          /\ overtaken' = overtaken
        BY <1>2 DEF groupVars
    <2>2. GroupsInv'
        BY <1>2, <2>1 DEF GroupsInv, OneEach
    <2>3. Groups!GroupTypeOK'
        BY <1>2, <2>1 DEF GroupsTyped, Groups!GroupTypeOK
    <2>4. \A g \in Group : Groups!Found(g)' = Groups!Found(g)
        BY <2>1 DEF Groups!Found, Groups!Objects
    <2>5. QED BY <1>2, <2>1, <2>2, <2>3, <2>4 DEF GroupsTyped
<1>3. LogInv /\ UNCHANGED logVars => LogInv'
    BY DEF logVars, LogInv, LogTyped, Unstored, Calm, AloneUnderWay, ShownRight, Shows, Updating,
           RunUnderWay, IsUpdate
<1>4. PreviewsInv /\ UNCHANGED previewVars => PreviewsInv'
    BY DEF previewVars, PreviewsInv, Hover!PreviewWatched, Hover!FilterIsWhole
<1>5. CopyInv /\ UNCHANGED copyVars => CopyInv'
    BY DEF copyVars, CopyInv
<1>6. TableBounded /\ UNCHANGED tableVars => TableBounded'
    BY DEF tableVars, TableBounded, TableInv
<1>7. QED BY <1>1, <1>2, <1>3, <1>4, <1>5, <1>6

LEMMA PartStep == PartInv /\ [TabNext]_tabVars => PartInv'
<1> SUFFICES ASSUME PartInv, [TabNext]_tabVars PROVE PartInv'
    OBVIOUS
<1>1. part' = part
    BY PartStays
<1>2. ASSUME part = "session" PROVE SessionInv'
    BY <1>2, SessionInTab, StepInv DEF PartInv
<1>3. ASSUME part = "server form" PROVE FormInv'
    BY <1>3, FormInTab, FormStep, PartRests DEF PartInv
<1>4. ASSUME part = "groups" PROVE GroupsInv' /\ GroupsTyped'
    <2>1. GroupsInv /\ GroupsTyped
        BY <1>4 DEF PartInv
    <2>2. QED BY <1>4, <2>1, GroupsInTab, GroupsStep, GroupsTypedStep, PartRests
<1>5. ASSUME part = "log" PROVE LogInv'
    BY <1>5, LogInTab, LogStep, PartRests DEF PartInv
<1>6. ASSUME part = "previews" PROVE PreviewsInv'
    BY <1>6, PreviewsInTab, PreviewsStep, PartRests DEF PartInv
<1>7. ASSUME part \in {"copied result", "copied query"} PROVE CopyInv'
    BY <1>7, CopyInTab, CopyStep, PartRests DEF PartInv
<1>8. ASSUME part = "table" PROVE TableBounded'
    BY <1>8, TableInTab, TableBoundedStep, PartRests DEF PartInv
<1>9. ASSUME part = "tree" PROVE TreeInv'
    BY <1>9, TreeInTab, TreeStep, TreeRests DEF PartInv
<1>10. ASSUME part = "structure" PROVE StructureInv'
    BY <1>10, StructureInTab, StructureStep, StructureRests DEF PartInv
<1>11. ASSUME part = "text" PROVE TextInv' /\ displayMode' \in Text!Mode
    <2>1. TextInv /\ displayMode \in Text!Mode
        BY <1>11 DEF PartInv
    <2>2. CASE UNCHANGED textVars
        BY <2>1, <2>2 DEF textVars, TextInv
    <2>3. QED BY <1>11, <2>1, <2>2, TextInTab, TextStep, ModeTyped
<1>12. (displayMode \in Text!Mode)' <=> displayMode' \in Text!Mode
    BY DEF Text!Mode
<1>13. QED BY <1>1, <1>2, <1>3, <1>4, <1>5, <1>6, <1>7, <1>8, <1>9, <1>10, <1>11, <1>12 DEF PartInv

LEMMA PartInvariant == TabSpec => []PartInv
BY PartStarts, PartStep, PTL DEF TabSpec

LEMMA PartTyped == PartInv /\ part \in Part \ {"workbench", "editors", "runs"} => TabTypeOK
<1> SUFFICES ASSUME PartInv, part \in Part \ {"workbench", "editors", "runs"} PROVE TabTypeOK
    OBVIOUS
<1>1. TextInv /\ displayMode \in Text!Mode => Text!TextTypeOK
    BY DEF TextInv, Text!TextTypeOK
<1>2. GroupsTyped => Groups!GroupTypeOK
    BY DEF GroupsTyped
<1>3. TreeInv => Tree!TreeTypeOK
    BY DEF TreeInv
<1>4. StructureInv => Structure!StructureTypeOK
    BY DEF StructureInv
<1>5. QED BY <1>1, <1>2, <1>3, <1>4, InvType, FormTypes, LogTypes, PreviewTypes, CopyTypes, TableTyped
          DEF PartInv, Part, TabTypeOK

(* No page of the tab is ever in a state that its types do not allow, but  *)
(* for the editor and its workbench, of which there is a module of its     *)
(* own.                                                                    *)
LEMMA PartTypesAlways == TabSpec => [](part \in Part \ {"workbench", "editors", "runs"} => TabTypeOK)
BY PartInvariant, PartTyped, PTL

(* Nothing that is shown for a while only stays for ever: a preview keeps  *)
(* the pointer or a timer, unless another scope took its timer, and the    *)
(* icon of a copy keeps a timer that takes it back.                        *)
THEOREM ShortLivedWatchedAlways == TabSpec => []ShortLivedWatched
<1>1. PartInv => ShortLivedWatched
    BY CopyKept DEF PartInv, PreviewsInv, ShortLivedWatched
<1>2. QED BY <1>1, PartInvariant, PTL

(* What the form of a server shows is about what is typed there, whatever  *)
(* order the answers come in, until requests of one kind overlapped; the   *)
(* tables are those of the initial database if that is listed.             *)
THEOREM FormAgreesAlways == TabSpec => []FormAgrees
<1>1. PartInv => FormAgrees
    BY FormKept DEF PartInv, FormAgrees
<1>2. QED BY <1>1, PartInvariant, PTL

(* No group and no query of the log is listed twice, and the log shows the *)
(* stars that the server holds, whatever order answers come in, until      *)
(* requests about the same thing overlapped.                               *)
THEOREM ListsAgreeAlways == TabSpec => []ListsAgree
<1>1. PartInv => ListsAgree
    <2>1. GroupsInv => Groups!NoGroupTwice
        BY DEF GroupsInv, OneEach, Groups!NoGroupTwice, Groups!Objects
    <2>2. QED BY <2>1, LogKept DEF PartInv, ListsAgree
<1>2. QED BY <1>1, PartInvariant, PTL

(* Scrolling through a long result always comes to rest where rows are     *)
(* rendered, unless the result was replaced by one that the scrolled       *)
(* window overshoots; and the bars of a copied result stand below each     *)
(* other, whatever its rows hold.                                          *)
THEOREM ResultsReadableAlways == TabSpec => []ResultsReadable
<1>1. PartInv => ResultsReadable
    BY TableKept, TextKept DEF PartInv, TableBounded, ResultsReadable
<1>2. QED BY <1>1, PartInvariant, PTL

(* Every column that the schema query returns stands once in the answer,   *)
(* with all its constraints in their order, whatever the order of the rows;*)
(* and in the tree, with any number of schemas, tables and columns, arrows *)
(* end at the column that is referred to, or at what it is folded into,    *)
(* and no mark outlives the mouse.                                         *)
THEOREM TreeAgreesAlways == TabSpec => []TreeAgrees
<1>1. PartInv => TreeAgrees
    BY TreeKept, StructureKept DEF PartInv, TreeAgrees
<1>2. QED BY <1>1, PartInvariant, PTL
=============================================================================
