----------------------------- MODULE ResultText -----------------------------
(***************************************************************************)
(* The texts of a result that are copied: a table in the way of a database *)
(* client, and one in Markdown.  A text is a sequence of lines and a line  *)
(* the sequence of the widths of its cells, frames included; what a cell   *)
(* says, and the side it stands on, is left out.                           *)
(***************************************************************************)
EXTENDS Naturals, Sequences, FiniteSetsExt

CONSTANTS MaxColumns, MaxRows, MaxChars         \* bounds: size of a result

TextAssumption == MaxColumns \in Nat /\ MaxRows \in Nat /\ MaxChars \in Nat

VARIABLES
    result,         \* the lengths of the headers and of the values of each row
    displayMode

textVars == <<result, displayMode>>

Mode == {"table", "sql", "markdown", "json"}
Widths(n) == [1..n -> 0..MaxChars]

Results == UNION {[1..(m + 1) -> Widths(n)] : n \in 1..MaxColumns, m \in 1..MaxRows}

TextTypeOK == result \in Results \cup {<<>>} /\ displayMode \in Mode

TextInit == result = <<>> /\ displayMode = "table"

-----------------------------------------------------------------------------
Headers == result[1]
Columns == DOMAIN Headers
MaxCharsOf(j) == Max({result[i][j] : i \in DOMAIN result})

\* padStart and padEnd
Pad(width, to) == Max({width, to})

\* A header stands in the middle of its column.
Centered(width, to) == Pad(Pad(width, to \div 2), to)

\* A cell stands between blanks, and after a bar unless it is the first one.
Bar(j) == IF j > 1 THEN 1 ELSE 0
SqlHeader == [j \in Columns |-> Bar(j) + Centered(Headers[j], MaxCharsOf(j)) + 2]
SqlDivider == [j \in Columns |-> (IF j > 1 THEN 2 ELSE 1) + MaxCharsOf(j) + 1]
SqlRow(i) == [j \in Columns |-> Bar(j) + Pad(result[i][j], MaxCharsOf(j)) + 2]
SqlString == <<SqlHeader, SqlDivider>> \o [i \in 1..(Len(result) - 1) |-> SqlRow(i + 1)]

\* The last cell is followed by a bar too, which is left out.
MarkdownRow(i) == [j \in Columns |-> 2 + Pad(result[i][j], MaxCharsOf(j)) + 1]
\* The colon of the alignment stands on one side or the other.
MarkdownDescriptor == [j \in Columns |-> 1 + MaxCharsOf(j) + 2]
MdString == <<MarkdownRow(1), MarkdownDescriptor>> \o [i \in 1..(Len(result) - 1) |-> MarkdownRow(i + 1)]

ResultString == IF displayMode = "markdown" THEN MdString ELSE SqlString

SetDisplayMode(mode) == displayMode' = mode /\ UNCHANGED result

\* Bound: the query has run once.
ShowResult(r) == result = <<>> /\ result' = r /\ displayMode' = "table"

TextNext ==
    \/ \E mode \in Mode : SetDisplayMode(mode)
    \/ \E r \in Results : ShowResult(r)

-----------------------------------------------------------------------------
(* The bars of a text stand below each other: its cells are as wide in     *)
(* every line, header and frame included, for columns of any length.       *)
BarsAligned ==
    result # <<>> /\ displayMode # "json" =>
        \A i \in DOMAIN ResultString : ResultString[i] = ResultString[1]
=============================================================================
