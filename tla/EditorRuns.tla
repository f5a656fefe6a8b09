----------------------------- MODULE EditorRuns -----------------------------
(***************************************************************************)
(* The runs of one query editor, and what is shown below it: the results   *)
(* and, beside each of them, the statement it is of.                       *)
(*                                                                         *)
(* The button is disabled while a query runs; the keyboard runs it again   *)
(* all the same.  The token that an editor cancels when it is closed is    *)
(* not the one of its requests: nothing recalls a run.  A run is named by  *)
(* its number.  Whether it is raw or split into statements is a choice of  *)
(* the user here, though a long text suggests it; the text is left out.    *)
(***************************************************************************)
EXTENDS Naturals

CONSTANT MaxRuns        \* bound: runs of the user

EditorRunsAssumption == MaxRuns \in Nat \ {0}

VARIABLES
    requestState,
    queries,        \* the run whose statements are listed
    results,        \* the run whose results are shown
    runs,           \* under way
    started,        \* note of the model: the number of runs
    overlapped      \* note of the model: a run began while another was under way

runVars == <<requestState, queries, results, runs, started, overlapped>>

NoRun == 0
Run == 1..MaxRuns
ResultType == {"multi_query", "raw_query"}

RunTypeOK ==
    /\ requestState \in {"none", "requested", "success", "error"}
    /\ queries \in Run \cup {NoRun} /\ results \in Run \cup {NoRun}
    /\ runs \subseteq [number : 1..started, type : ResultType]
    /\ started \in 0..MaxRuns
    /\ overlapped \in BOOLEAN

NewEditor == requestState' = "none" /\ queries' = NoRun /\ results' = NoRun /\ runs' = {}

RunInit ==
    /\ requestState = "none" /\ queries = NoRun /\ results = NoRun /\ runs = {}
    /\ started = 0 /\ overlapped = FALSE

-----------------------------------------------------------------------------
\* A raw run lists no statements.
StartRun(type) ==
    /\ started < MaxRuns /\ started' = started + 1
    /\ requestState' = "requested"
    /\ queries' = IF type = "raw_query" THEN NoRun ELSE queries
    /\ runs' = runs \cup {[number |-> started', type |-> type]}
    /\ overlapped' = (overlapped \/ runs # {})
    /\ UNCHANGED results

RunAnswered(r) ==
    /\ queries' = IF r.type = "multi_query" THEN r.number ELSE queries
    /\ results' = r.number
    /\ requestState' = "success"
    /\ runs' = runs \ {r}
    /\ UNCHANGED <<started, overlapped>>

\* The results of the run before stay.
RunFailed(r) ==
    /\ requestState' = "error"
    /\ runs' = runs \ {r}
    /\ UNCHANGED <<queries, results, started, overlapped>>

\* The database is loaded again: a copy of the editor takes its place, and answers go to the old one.
CopyEditor ==
    /\ NewEditor /\ overlapped' = FALSE
    /\ UNCHANGED started

RunNext ==
    \/ \E type \in ResultType : StartRun(type)
    \/ \E r \in runs : RunAnswered(r) \/ RunFailed(r)
    \/ CopyEditor

-----------------------------------------------------------------------------
(* The button is free once nothing is under way; what an editor shows as   *)
(* the outcome is that of the last run, and the statements beside the      *)
(* results are the ones that gave them, if the runs did not overlap.       *)
RunIsShown ==
    /\ runs = {} => requestState # "requested"
    /\ ~overlapped =>
           /\ requestState = "requested" <=> runs # {}
           /\ requestState = "success" => results = started /\ queries \in {NoRun, results}
=============================================================================
