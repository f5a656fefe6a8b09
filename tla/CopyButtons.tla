---------------------------- MODULE CopyButtons -----------------------------
(***************************************************************************)
(* The button that copies a result, or a query of the log: its icon tells  *)
(* how the copy went, until a timer takes it back.  Timers run for equal   *)
(* times, so they end in the order they were set.  The timer of a result   *)
(* checks that the icon is the one it was set for; that of a query         *)
(* compares a method with itself, and always takes the icon back.          *)
(***************************************************************************)
EXTENDS Naturals, Sequences

CONSTANT MaxCopyTimers      \* bound: timers of a button

CopyButtonsAssumption == MaxCopyTimers \in Nat

VARIABLES button, copyState, copyTimers

copyVars == <<button, copyState, copyTimers>>

CopyState == {"ready", "error", "success"}

CopyTypeOK ==
    /\ button \in {"result", "query"}
    /\ copyState \in CopyState
    /\ copyTimers \in Seq(CopyState \ {"ready"}) /\ Len(copyTimers) <= MaxCopyTimers

CopyInit == button \in {"result", "query"} /\ copyState = "ready" /\ copyTimers = <<>>

OnCopy(outcome) ==
    /\ Len(copyTimers) < MaxCopyTimers
    /\ copyState' = outcome
    /\ copyTimers' = Append(copyTimers, outcome)
    /\ UNCHANGED button

TakesBack(before) == button = "result" => copyState = before

CopyTimeout ==
    /\ copyTimers # <<>> /\ copyTimers' = Tail(copyTimers)
    /\ copyState' = IF TakesBack(Head(copyTimers)) THEN "ready" ELSE copyState
    /\ UNCHANGED button

CopyNext == CopyTimeout \/ \E outcome \in CopyState \ {"ready"} : OnCopy(outcome)

-----------------------------------------------------------------------------
(* An icon that tells of a copy has a timer that will take it back: the    *)
(* one set by that copy is not wasted on another state of the icon.        *)
CopyWatched ==
    copyState # "ready" =>
        IF button = "result" THEN \E i \in 1..Len(copyTimers) : copyTimers[i] = copyState
        ELSE copyTimers # <<>>
=============================================================================
