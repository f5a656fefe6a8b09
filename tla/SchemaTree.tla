----------------------------- MODULE SchemaTree -----------------------------
(***************************************************************************)
(* The tree of the databases of a server, for one database with its        *)
(* schemas, tables and columns: which items are drawn, which columns are   *)
(* marked while the mouse rests on one, and the arrows that are drawn      *)
(* between the items of foreign keys.                                      *)
(*                                                                         *)
(* An item is a schema, a table or a column, named by its path: the order  *)
(* of the tree is the order of the paths.                                  *)
(* A column has no constraint, or some that refer to columns of this       *)
(* database; with several the last one is its foreign column.              *)
(***************************************************************************)
EXTENDS Naturals, FiniteSetsExt, SequencesExt

CONSTANTS
    Schemas,            \* of each schema, of each of its tables: the number of columns
    PrimaryKey          \* columns

Schema == {<<s>> : s \in DOMAIN Schemas}
Table == UNION {{<<s, t>> : t \in DOMAIN Schemas[s]} : s \in DOMAIN Schemas}
Column == UNION {{<<i[1], i[2], c>> : c \in 1..Schemas[i[1]][i[2]]} : i \in Table}
NoColumn == <<>>

TreeAssumption ==
    /\ Schemas \in Seq(Seq(Nat))
    /\ PrimaryKey \subseteq Column

VARIABLES
    foreign,            \* of each column: the columns its constraints refer to
    references,         \* DbColumn.references
    isShown,            \* schemas and tables that are unfolded
    database,           \* "unloaded", "shown", "hidden" (folded or filtered) or "loading"
    mark,               \* of each column
    hovered,            \* the column under the mouse
    left                \* note of the model: a column went away under the mouse

treeVars == <<foreign, references, isShown, database, mark, hovered, left>>

Mark == {"from", "to", "none"}

TreeTypeOK ==
    /\ foreign \in [Column -> SUBSET Column]
    /\ references \in [Column -> Column \cup {NoColumn}]
    /\ isShown \subseteq Schema \cup Table
    /\ database \in {"unloaded", "shown", "hidden", "loading"}
    /\ mark \in [Column -> Mark]
    /\ hovered \in Column \cup {NoColumn}
    /\ left \in BOOLEAN

\* Bound: two constraints at most.
Constraints ==
    {[c \in Column |-> {d \in Column : <<c, d>> \in refs}] :
        refs \in UNION {kSubset(n, Column \X Column) : n \in 0..2}}

LinkForeignKeys(f) ==
    {r \in [Column -> Column \cup {NoColumn}] :
        \A c \in Column : IF f[c] = {} THEN r[c] = NoColumn ELSE r[c] \in f[c]}

Unmarked == [c \in Column |-> "none"]

TreeInit ==
    /\ foreign = [c \in Column |-> {}] /\ references = [c \in Column |-> NoColumn]
    /\ isShown = {} /\ database = "unloaded"
    /\ mark = Unmarked /\ hovered = NoColumn /\ left = FALSE

-----------------------------------------------------------------------------
(* What is drawn. *)

Columns(item) == {c \in Column : IsPrefix(item, c)}
HasMultipleSchemas == Len(Schemas) > 1

\* A schema of several, or a table, hides what is below it unless it is unfolded.
MenuItems ==
    IF database # "shown" THEN {}
    ELSE {i \in Schema : HasMultipleSchemas}
         \cup {i \in Table : HasMultipleSchemas => SubSeq(i, 1, 1) \in isShown}
         \cup {i \in Column : /\ SubSeq(i, 1, 2) \in isShown
                              /\ HasMultipleSchemas => SubSeq(i, 1, 1) \in isShown}

\* The order of the tree: an item comes after those it is below, and in the order of the names.
Before(i, j) ==
    \/ IsStrictPrefix(i, j)
    \/ \E n \in DOMAIN i \cap DOMAIN j :
           i[n] < j[n] /\ \A m \in 1..(n - 1) : i[m] = j[m]

\* A table and a schema take the mark of their first column that has one.
MarkOf(item) ==
    LET marked == {c \in Columns(item) : mark[c] # "none"} IN
    IF marked = {} THEN "none"
    ELSE mark[CHOOSE c \in marked : \A d \in marked \ {c} : Before(c, d)]

Tos == {i \in MenuItems : MarkOf(i) = "to"}
Froms == {i \in MenuItems : MarkOf(i) = "from" /\ (i \in Column \/ i \notin isShown)}
Arrows ==
    IF Tos = {} THEN {}
    ELSE Froms \X {CHOOSE i \in Tos : \A j \in Tos \ {i} : Before(j, i)}

-----------------------------------------------------------------------------
Marked(columns, m) == [c \in Column |-> IF c \in columns THEN m ELSE mark[c]]
ReferencedBy(d) == {c \in Column : d \in foreign[c]}

OnMouseOver(c) ==
    /\ hovered = NoColumn /\ c \in MenuItems \cap Column
    /\ hovered' = c
    /\ mark' = IF references[c] # NoColumn THEN [mark EXCEPT ![c] = "from", ![references[c]] = "to"]
               ELSE IF c \in PrimaryKey THEN [Marked(ReferencedBy(c), "from") EXCEPT ![c] = "to"]
               ELSE mark
    /\ UNCHANGED <<foreign, references, isShown, database, left>>

\* A mutant: the columns that refer to a primary key keep their mark.
UnmarkedOnlyBy(c) == [mark EXCEPT ![c] = "none"]
UnmarkedBy(c) == [Marked(ReferencedBy(c), "none") EXCEPT ![c] = "none"]

OnMouseOut ==
    /\ hovered # NoColumn
    /\ hovered' = NoColumn
    /\ mark' = IF references[hovered] # NoColumn
               THEN [mark EXCEPT ![hovered] = "none", ![references[hovered]] = "none"]
               ELSE IF hovered \in PrimaryKey THEN UnmarkedBy(hovered)
               ELSE mark
    /\ UNCHANGED <<foreign, references, isShown, database, left>>

\* A click on an item, for which the mouse has left the columns.
ToggleShow(item) ==
    /\ hovered = NoColumn /\ item \in MenuItems \ Column
    /\ isShown' = IF item \in isShown THEN isShown \ {item} ELSE isShown \cup {item}
    /\ UNCHANGED <<foreign, references, database, mark, hovered, left>>

\* Items that go away while the mouse rests on one are not left by it.
Goes ==
    /\ hovered' = NoColumn
    /\ left' = (left \/ hovered # NoColumn)

\* The filter is typed, or the database folded.
Hide ==
    /\ database = "shown" /\ database' = "hidden" /\ Goes
    /\ UNCHANGED <<foreign, references, isShown, mark>>

Show ==
    /\ database = "hidden" /\ database' = "shown"
    /\ UNCHANGED <<foreign, references, isShown, mark, hovered, left>>

ReloadDatabase ==
    /\ database = "shown" /\ database' = "loading" /\ Goes
    /\ UNCHANGED <<foreign, references, isShown, mark>>

Load ==
    /\ database = "unloaded" /\ database' = "shown"
    /\ \E f \in Constraints : foreign' = f /\ references' \in LinkForeignKeys(f)
    /\ UNCHANGED <<isShown, mark, hovered, left>>

\* New objects are put in place: folded and without marks. Bound: their constraints stay the same.
Reloaded ==
    /\ database = "loading" /\ database' = "shown"
    /\ isShown' = {} /\ mark' = Unmarked /\ left' = FALSE
    /\ UNCHANGED <<foreign, references, hovered>>

TreeNext ==
    \/ \E c \in Column : OnMouseOver(c)
    \/ OnMouseOut
    \/ \E i \in Schema \cup Table : ToggleShow(i)
    \/ Hide \/ Show \/ Load \/ ReloadDatabase \/ Reloaded

-----------------------------------------------------------------------------
(* An arrow leads from an item with a column to an item with a column that *)
(* it refers to, whatever is folded; and while the mouse rests on a column *)
(* that refers to another one there is an arrow.  Only a column that went  *)
(* away under the mouse leaves marks behind.                               *)
LinksRight ==
    ~left =>
        /\ \A a \in Arrows : \E c \in Columns(a[1]), d \in Columns(a[2]) : d \in foreign[c]
        /\ hovered # NoColumn /\ references[hovered] \notin {NoColumn, hovered} => Arrows # {}
=============================================================================
