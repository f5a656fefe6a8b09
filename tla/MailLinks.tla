----------------------------- MODULE MailLinks ------------------------------
(***************************************************************************)
(* The links that db-sql mails: to activate an account and to reset its    *)
(* password.  A row of users holds the digest of one link of each sort, so *)
(* that a new link replaces the one before.                                *)
(*                                                                         *)
(* A request loads the row of its user, decides on what it loaded, and     *)
(* writes later the columns whose value it changed (Rails writes no        *)
(* others).  The digest of a new link is committed before the link is      *)
(* mailed: between the two another request may make and mail a link of its *)
(* own, and the delivery may fail.  Request is the set of threads of the   *)
(* web server.                                                             *)
(***************************************************************************)
EXTENDS Naturals

CONSTANTS
    User,
    Request,
    NoUser,
    MaxLinks    \* bound on the links that are made in a behaviour

ASSUME MailLinksAssumption == NoUser \notin User /\ MaxLinks \in Nat

VARIABLES
    account,    \* users: activated_at, activation_digest, reset_password_digest and
                \* whether reset_password_mail_sent_at is more than a day ago
    request,    \* the row each thread has loaded, and the link it was given or has to mail
    made,       \* number of links made; links are numbered in that order
    mailed,     \* links that were delivered
    sent,       \* the activation link in the last mail to each user
    mixed,      \* note of the model: users whose last activation link was committed
                \* while another one was to be mailed, or whose mail failed
    used,       \* reset links that were used, with the number of uses
    fresh       \* reset links made since a request began that changed the password

vars == <<account, request, made, mailed, sent, mixed, used, fresh>>

Link == 1..MaxLinks
NoLink == 0

Account == [exists : BOOLEAN, activated : BOOLEAN, activation : Link \cup {NoLink},
            reset : Link \cup {NoLink}, outdated : BOOLEAN]
NoAccount == [exists |-> FALSE, activated |-> FALSE, activation |-> NoLink,
              reset |-> NoLink, outdated |-> FALSE]

Mailing == {"mail_activation", "mail_reset"}
Kind == {"idle", "resend", "activate", "reset", "change"} \cup Mailing
RequestState == [kind : Kind, user : User \cup {NoUser}, link : Link \cup {NoLink},
                 seen : Link \cup {NoLink}]
Idle == [kind |-> "idle", user |-> NoUser, link |-> NoLink, seen |-> NoLink]

TypeOK ==
    /\ account \in [User -> Account]
    /\ request \in [Request -> RequestState]
    /\ made \in 0..MaxLinks
    /\ mailed \subseteq 1..made /\ fresh \subseteq 1..made
    /\ sent \in [User -> mailed \cup {NoLink}]
    /\ mixed \subseteq User
    /\ used \in [Link -> Nat]
    /\ \A u \in User : account[u].reset <= made /\ account[u].activation <= made

Init ==
    /\ account = [u \in User |-> NoAccount]
    /\ request = [r \in Request |-> Idle]
    /\ made = 0 /\ mailed = {}
    /\ sent = [u \in User |-> NoLink] /\ mixed = {}
    /\ used = [l \in Link |-> 0]
    /\ fresh = {}

-----------------------------------------------------------------------------
Load(r, kind, u, link) ==
    /\ request[r].kind = "idle"
    /\ account[u].exists
    /\ request' = [request EXCEPT ![r] =
            [kind |-> kind, user |-> u, link |-> link, seen |-> account[u].reset]]
    /\ UNCHANGED <<account, made, mailed, sent, mixed, used, fresh>>

Answer(r) == request' = [request EXCEPT ![r] = Idle]

\* An activation link for u is committed and still to be mailed.
Owes(r, u) == request[r].kind = "mail_activation" /\ request[r].user = u

(* The request fails or finds nothing to do: a mail may not be delivered.  *)
Abort(r) ==
    /\ request[r].kind # "idle"
    /\ mixed' = mixed \cup {u \in User : Owes(r, u)}
    /\ Answer(r)
    /\ UNCHANGED <<account, made, mailed, sent, used, fresh>>

(* create_activation_digest, create_reset_password_digest: a random token, *)
(* which goes into a mail once its digest is in the row                    *)
NewLink(r, kind, u) ==
    /\ made < MaxLinks /\ made' = made + 1
    /\ request' = [request EXCEPT ![r] =
            [kind |-> kind, user |-> u, link |-> made', seen |-> NoLink]]
    /\ UNCHANGED <<mailed, sent, used>>

NewActivationLink(r, u) ==
    /\ NewLink(r, "mail_activation", u)
    /\ mixed' = IF \E q \in Request : Owes(q, u) THEN mixed \cup {u} ELSE mixed \ {u}
    /\ UNCHANGED fresh

(* deliver_now                                                             *)
Mail(r) ==
    LET q == request[r]
    IN  /\ q.kind \in Mailing
        /\ mailed' = mailed \cup {q.link}
        /\ sent' = IF q.kind = "mail_activation" THEN [sent EXCEPT ![q.user] = q.link] ELSE sent
        /\ Answer(r)
        /\ UNCHANGED <<account, made, mixed, used, fresh>>

(* POST /users                                                             *)
SignUp(r, u) ==
    /\ request[r].kind = "idle"
    /\ ~account[u].exists
    /\ NewActivationLink(r, u)
    /\ account' = [account EXCEPT ![u] =
            [NoAccount EXCEPT !.exists = TRUE, !.activation = made']]

(* POST /users/resend_activation_link, refused once activated              *)
ResendActivationLink(r, u) ==
    /\ ~account[u].activated
    /\ Load(r, "resend", u, NoLink)

(* Mutated form: the link is mailed and the digest stays.                  *)
ResetActivationDigestUnsaved(r) ==
    /\ request[r].kind = "resend"
    /\ NewActivationLink(r, request[r].user)
    /\ account' = account

ResetActivationDigest(r) ==
    /\ request[r].kind = "resend"
    /\ NewActivationLink(r, request[r].user)
    /\ account' = [account EXCEPT ![request[r].user].activation = made']

(* PUT /users/:id/activate with the link of a mail                         *)
Activate(r, u, link) ==
    /\ ~account[u].activated
    /\ link \in mailed /\ account[u].activation = link
    /\ Load(r, "activate", u, link)

ActivateCommit(r) ==
    /\ request[r].kind = "activate"
    /\ account' = [account EXCEPT ![request[r].user].activated = TRUE]
    /\ Answer(r)
    /\ UNCHANGED <<made, mailed, sent, mixed, used, fresh>>

(* Mutated form: the mail carries a token of its own, generated once more  *)
(* after the digest.                                                       *)
RequestPasswordResetMailingAnother(r, u) ==
    /\ request[r].kind = "idle"
    /\ account[u].exists
    /\ NewLink(r, "mail_reset", u)
    /\ account' = [account EXCEPT ![u].reset = made' + 1, ![u].outdated = FALSE]
    /\ fresh' = fresh \cup {made'}
    /\ UNCHANGED mixed

(* POST /users/reset_password: the new digest differs from whatever was    *)
(* loaded and is written, in the one statement of this request.            *)
RequestPasswordReset(r, u) ==
    /\ request[r].kind = "idle"
    /\ account[u].exists
    /\ NewLink(r, "mail_reset", u)
    /\ account' = [account EXCEPT ![u].reset = made', ![u].outdated = FALSE]
    /\ fresh' = fresh \cup {made'}
    /\ UNCHANGED mixed

(* PASSWORD_RESET_PERIOD, 1 day                                            *)
ResetLinkOutdated(u) ==
    /\ account[u].reset # NoLink /\ ~account[u].outdated
    /\ account' = [account EXCEPT ![u].outdated = TRUE]
    /\ UNCHANGED <<request, made, mailed, sent, mixed, used, fresh>>

(* password_reset_authenticated?                                           *)
pending_password_reset_request(u, link) ==
    account[u].reset # NoLink /\ ~account[u].outdated /\ account[u].reset = link

(* POST /users/:id/reset_password with the link of a mail                  *)
ResetPassword(r, u, link) ==
    /\ link \in mailed /\ pending_password_reset_request(u, link)
    /\ Load(r, "reset", u, link)

(* The link that was pending when this request began is one of the old     *)
(* password; earlier ones are in no row any more.                          *)
PasswordChanged(q) == fresh' = fresh \ {q.seen}

(* Mutated form: the digest is not cleared.                                *)
ResetPasswordKeepingDigest(r) ==
    LET q == request[r]
    IN  /\ q.kind = "reset"
        /\ account' = account
        /\ used' = [used EXCEPT ![q.link] = @ + 1]
        /\ PasswordChanged(q)
        /\ Answer(r)
        /\ UNCHANGED <<made, mailed, sent, mixed>>

(* User#reset_password: the loaded digest was there, so clearing it is a   *)
(* change and is written.                                                  *)
ResetPasswordCommit(r) ==
    LET q == request[r]
    IN  /\ q.kind = "reset"
        /\ account' = [account EXCEPT ![q.user].reset = NoLink, ![q.user].outdated = FALSE]
        /\ used' = [used EXCEPT ![q.link] = @ + 1]
        /\ PasswordChanged(q)
        /\ Answer(r)
        /\ UNCHANGED <<made, mailed, sent, mixed>>

(* PUT /users/current/password                                             *)
ChangePassword(r, u) == Load(r, "change", u, NoLink)

(* Mutated form: change_password! is only about the password.              *)
ChangePasswordKeepingDigest(r) ==
    LET q == request[r]
    IN  /\ q.kind = "change"
        /\ account' = account
        /\ PasswordChanged(q)
        /\ Answer(r)
        /\ UNCHANGED <<made, mailed, sent, mixed, used>>

(* User#change_password! clears the digest, unless none was loaded: then   *)
(* nothing changes and a digest written meanwhile stays.                   *)
ChangePasswordCommit(r) ==
    LET q == request[r]
    IN  /\ q.kind = "change"
        /\ account' = IF q.seen = NoLink THEN account
                      ELSE [account EXCEPT ![q.user].reset = NoLink, ![q.user].outdated = FALSE]
        /\ PasswordChanged(q)
        /\ Answer(r)
        /\ UNCHANGED <<made, mailed, sent, mixed, used>>

-----------------------------------------------------------------------------
Next ==
    \/ \E u \in User : ResetLinkOutdated(u)
    \/ \E r \in Request, u \in User :
        \/ SignUp(r, u)
        \/ RequestPasswordReset(r, u)
        \/ ResendActivationLink(r, u)
        \/ ChangePassword(r, u)
        \/ \E link \in Link : Activate(r, u, link) \/ ResetPassword(r, u, link)
    \/ \E r \in Request :
        \/ ResetActivationDigest(r)
        \/ Mail(r)
        \/ ActivateCommit(r)
        \/ ResetPasswordCommit(r)
        \/ ChangePasswordCommit(r)
        \/ Abort(r)

Spec == Init /\ [][Next]_vars

-----------------------------------------------------------------------------
(* Properties.                                                             *)

(* A link that was used is never again the one in the row: only a request  *)
(* that had accepted it before can still use it (reset_password clears the *)
(* digest it loaded, whatever else happens to the row).                    *)
UsedLinkIsDead ==
    \A u \in User : account[u].reset # NoLink => used[account[u].reset] = 0

(* Whoever changed the password need not fear the mails of before: a       *)
(* pending reset link was made after the request of the last change had    *)
(* loaded the row (change_password! and reset_password clear the digest,   *)
(* unless the row they loaded had none).                                   *)
PendingLinkIsFresh ==
    \A u \in User : account[u].reset # NoLink => account[u].reset \in fresh

(* The last activation link a user has got is the one that is accepted,    *)
(* however many were made, unless one is on its way, the last one was made *)
(* while another was on its way, or was not delivered.  (The digest is     *)
(* committed before the mail is sent, in reset_activation_digest and when  *)
(* a user signs up.)                                                       *)
LastMailActivates ==
    \A u \in User :
        account[u].exists /\ u \notin mixed /\ (\A r \in Request : ~Owes(r, u))
        => sent[u] = account[u].activation

=============================================================================
