---------------------------- MODULE ResultTable -----------------------------
(***************************************************************************)
(* The table of a long result: only a window of rows is rendered, between  *)
(* two spacers, and scrolling near its border moves it.                    *)
(*                                                                         *)
(* The browser fires a scroll event after the position has changed; more   *)
(* scrolling before it is handled fires no second one.  After a move of    *)
(* the window the next event is answered by a scroll to a position noted   *)
(* with the move.  The state of the view outlives the component.           *)
(*                                                                         *)
(* Heights are counted in rows, all equally high, as high as the header.   *)
(***************************************************************************)
EXTENDS Integers, FiniteSetsExt

CONSTANTS
    LoadedRows, Threshold,      \* LOADED_ROWS and THRESHOLD
    PageRows,                   \* of the viewport
    Lengths                     \* of results

TableAssumption ==
    /\ LoadedRows \in Nat \ {0} /\ LoadedRows % 2 = 0
    /\ Threshold \in 1..(LoadedRows \div 2) /\ PageRows \in 1..LoadedRows
    /\ Lengths \subseteq Nat \ {0} /\ \E n \in Lengths : \A m \in Lengths : m <= n

VARIABLES
    length,
    view,           \* ResultTableState: first rendered row, preventNextScrollUpdate, y
    scrollTop,
    event,          \* a scroll event is to be handled
    lost            \* note of the model: a window was kept for a table that ends in its first
                    \* half or above it, or is opened at its first row, and no window with
                    \* all the rows it can have was moved since

tableVars == <<length, view, scrollTop, event, lost>>

Header == 1
Rows(v, n) == Max({0, Min({n - v.row, LoadedRows})})
BottomSpacer(v, n) == Max({0, n - LoadedRows - v.row})
ScrollHeight(v, n) == v.row + Header + Rows(v, n) + BottomSpacer(v, n)
MaxScroll(v, n) == Max({0, ScrollHeight(v, n) - PageRows})

TableTypeOK ==
    /\ length \in Lengths
    /\ view \in [row : 0..Max(Lengths), held : BOOLEAN, y : Int]
    /\ scrollTop \in 0..MaxScroll(view, length)
    /\ event \in BOOLEAN /\ lost \in BOOLEAN

TableInit ==
    /\ length = Max(Lengths)
    /\ view = [row |-> 0, held |-> FALSE, y |-> 0]
    /\ scrollTop = 0 /\ event = FALSE /\ lost = FALSE

-----------------------------------------------------------------------------
LowerThreshold(dt) == Min({Rows(view, length), Threshold + dt})
UpperThreshold(dt) == Max({0, Rows(view, length) - LoadedRows + Threshold + dt})

NeedsUpperExtend == scrollTop > view.row + Rows(view, length) - UpperThreshold(0)
NeedsLowestExtend == scrollTop < view.row
NeedsLowerExtend == scrollTop > LowerThreshold(0) /\ scrollTop < view.row + LowerThreshold(0)

\* The row at the position, as if the whole table were rendered.
RowAt == (scrollTop * length) \div (Rows(view, length) + Header + Max({0, length - LoadedRows}))

Dt == IF NeedsUpperExtend THEN UpperThreshold(-1)
      ELSE IF NeedsLowerExtend THEN -LowerThreshold(-1) ELSE 0

(* The window is put around the row. A mutant: it begins with the row.     *)
NewRowFirst(row) == row
NewRow(row) == Max({0, row - LoadedRows \div 2})

ScrollTo(y) ==
    /\ scrollTop' = Max({0, Min({y, MaxScroll(view, length)})})
    /\ event' = (scrollTop' # scrollTop)

-----------------------------------------------------------------------------
UserScrolls(s) ==
    /\ s # scrollTop
    /\ scrollTop' = s /\ event' = TRUE
    /\ UNCHANGED <<length, view, lost>>

ScrollBack ==
    /\ event /\ view.held
    /\ view' = [view EXCEPT !.held = FALSE]
    /\ ScrollTo(view.y)
    /\ UNCHANGED <<length, lost>>

OnScroll ==
    /\ event /\ ~view.held
    /\ IF RowAt < length /\ (NeedsUpperExtend \/ NeedsLowestExtend \/ NeedsLowerExtend)
       THEN /\ view' = [row |-> NewRow(RowAt), held |-> TRUE, y |-> scrollTop - Dt]
            /\ lost' = (lost /\ Rows(view, length) < Min({length, LoadedRows}))
       ELSE UNCHANGED <<view, lost>>
    /\ event' = FALSE
    /\ UNCHANGED <<length, scrollTop>>

\* The state is reset if a row is rendered at that moment, but not the first row of the window.
ResetScrollState(n) ==
    view' = IF Rows(view, n) > 0 THEN [view EXCEPT !.held = FALSE, !.y = 0] ELSE view

\* The query has run again.
ShowTable(n) ==
    /\ length' = n
    /\ ResetScrollState(n)
    /\ scrollTop' = 0 /\ event' = (event \/ scrollTop # 0)
    /\ lost' = (lost \/ (view.row > 0 /\ Rows(view, n) <= LoadedRows \div 2))

\* The component comes back after another mode of display, or another editor.
Reopen ==
    /\ ResetScrollState(length)
    /\ scrollTop' = 0 /\ event' = FALSE
    /\ lost' = (view.row > 0)
    /\ UNCHANGED length

TableNext ==
    \/ \E s \in 0..MaxScroll(view, length) : UserScrolls(s)
    \/ ScrollBack
    \/ OnScroll
    \/ \E n \in Lengths : ShowTable(n)
    \/ Reopen

-----------------------------------------------------------------------------
(* When the scroll event has been handled, rendered rows are in sight: the *)
(* window follows the scroll position over any jumps, up to the ends of    *)
(* the table and of the next result, unless the position was reset and the *)
(* window was not.                                                         *)
RowsInSight ==
    ~event /\ ~lost =>
        scrollTop + PageRows > view.row /\ scrollTop < view.row + Header + Rows(view, length)
=============================================================================
