------------------------------ MODULE LoginForm ------------------------------
(***************************************************************************)
(* What the forms of the session show while they wait and afterwards:      *)
(* loginState, passwordState and resendActivationLinkState of the session  *)
(* store, and the timers that take them back.                              *)
(*                                                                         *)
(* The store reacts to loginState with a delay of five seconds.  Such a    *)
(* reaction is scheduled by the first change and runs once for all that    *)
(* follow; it compares the value it reads then with the one it read the    *)
(* last time.  Timers and answers come in any order.                       *)
(***************************************************************************)
EXTENDS Naturals

CONSTANT MaxForms       \* bound: forms submitted and not answered

LoginFormAssumption == MaxForms \in Nat

VARIABLES
    loginState,
    reaction,           \* the value last read, and whether the reaction is scheduled
    passwordState, resendState,
    forms,              \* pending requests of each form
    resendTimers        \* timers that will take resendState back

formVars == <<loginState, reaction, passwordState, resendState, forms, resendTimers>>

ApiRequestState == {"none", "waiting", "error", "success"}
LoginRequestState == ApiRequestState \cup {"expired"}
Form == {"login", "password", "delete", "resend"}

FormTypeOK ==
    /\ loginState \in LoginRequestState
    /\ reaction \in [seen : LoginRequestState, scheduled : BOOLEAN]
    /\ passwordState \in ApiRequestState /\ resendState \in ApiRequestState
    /\ forms \in [Form -> 0..MaxForms]
    /\ resendTimers \in 0..MaxForms

FormInit ==
    /\ loginState = "none" /\ reaction = [seen |-> "none", scheduled |-> FALSE]
    /\ passwordState = "none" /\ resendState = "none"
    /\ forms = [form \in Form |-> 0]
    /\ resendTimers = 0

-----------------------------------------------------------------------------
SetLoginState(state) ==
    /\ loginState' = state
    /\ reaction' = [reaction EXCEPT !.scheduled = @ \/ state # loginState]

Asked(form) ==
    /\ forms["login"] + forms["password"] + forms["delete"] + forms["resend"] < MaxForms
    /\ forms' = [forms EXCEPT ![form] = @ + 1]
FormAnswered(form) == forms[form] > 0 /\ forms' = [forms EXCEPT ![form] = @ - 1]

(* The user. *)

SubmitLogin ==
    /\ \E form \in {"login", "delete"} : Asked(form)
    /\ SetLoginState("waiting")
    /\ UNCHANGED <<passwordState, resendState, resendTimers>>

\* Passwords that are not safe, or differ, are not sent.
SubmitPassword ==
    /\ passwordState' = "none"
    /\ \/ Asked("password") /\ SetLoginState("waiting")
       \/ UNCHANGED <<loginState, reaction, forms>>
    /\ UNCHANGED <<resendState, resendTimers>>

SubmitResend ==
    /\ Asked("resend") /\ resendTimers + forms["resend"] < MaxForms
    /\ resendState' = "waiting"
    /\ UNCHANGED <<loginState, reaction, passwordState, resendTimers>>

(* The answers. *)

LoginEnds ==
    /\ \/ FormAnswered("login") /\ \E state \in {"success", "expired", "error"} : SetLoginState(state)
       \/ FormAnswered("delete") /\ \E state \in {"success", "error"} : SetLoginState(state)
    /\ UNCHANGED <<passwordState, resendState, resendTimers>>

\* loginState is left waiting.
PasswordEnds ==
    /\ FormAnswered("password")
    /\ passwordState' \in {"success", "error"}
    /\ UNCHANGED <<loginState, reaction, resendState, resendTimers>>

\* Without any answer the message is lost at once: the handler of the error fails itself.
ResendEnds ==
    /\ FormAnswered("resend")
    /\ \/ resendState' \in {"success", "error"} /\ resendTimers' = resendTimers + 1
       \/ resendState' = "none" /\ UNCHANGED resendTimers
    /\ UNCHANGED <<loginState, reaction, passwordState>>

(* The timers. *)

ResendTimeout ==
    /\ resendTimers > 0 /\ resendTimers' = resendTimers - 1
    /\ resendState' = "none"
    /\ UNCHANGED <<loginState, reaction, passwordState, forms>>

\* A mutant: an error is one of the states that stay.
StaysWithError(state) == state \in {"none", "waiting", "expired", "error"}
Stays(state) == state \in {"none", "waiting", "expired"}

LoginReaction ==
    /\ reaction.scheduled
    /\ IF loginState # reaction.seen /\ ~Stays(loginState)
       THEN /\ loginState' = "none"
            /\ reaction' = [seen |-> loginState, scheduled |-> TRUE]
       ELSE /\ reaction' = [seen |-> loginState, scheduled |-> FALSE]
            /\ UNCHANGED loginState
    /\ UNCHANGED <<passwordState, resendState, forms, resendTimers>>

FormSettles == LoginEnds \/ PasswordEnds \/ ResendEnds \/ ResendTimeout \/ LoginReaction

FormNext ==
    \/ SubmitLogin
    \/ SubmitPassword
    \/ SubmitResend
    \/ FormSettles

-----------------------------------------------------------------------------
(* The message of a failed or successful login goes away, unless it is the *)
(* same as the last one the reaction has seen.                             *)
MessageGoes ==
    \A state \in {"error", "success"} :
        loginState = state /\ reaction.seen # state ~> loginState # state

\* A login and a deletion that are waited for end.
LoginWaitEnds ==
    loginState = "waiting" /\ forms["login"] + forms["delete"] > 0 ~> loginState # "waiting"

\* What is shown of a link that was sent again goes away.
ResendGoes == resendState # "none" ~> resendState = "none"
=============================================================================
