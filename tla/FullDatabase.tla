---------------------------- MODULE FullDatabase ----------------------------
(***************************************************************************)
(* The structure of a database, built from the rows that its schema query  *)
(* returns: one row for each column and constraint, in any order, for      *)
(* users may write that query.  Hashes keep the order of insertion, so     *)
(* that schemas, tables and columns come in the order of their first rows. *)
(*                                                                         *)
(* A column is named by the path of its schema, its table and its own      *)
(* name.  As in the queries that come with the program, a row tells that   *)
(* its column is a primary key if its own constraint is one.  The other    *)
(* attributes of a column are left out: they are those of its first row.   *)
(***************************************************************************)
EXTENDS Naturals, FiniteSets, SequencesExt

CONSTANTS
    ColumnPath,                 \* <<schema, table, column>>
    PrimaryConstraint,
    ReferenceConstraint,
    NoConstraint,
    MaxStructureRows            \* bound: rows of the result

FullDatabaseAssumption ==
    /\ \A path \in ColumnPath : path = <<path[1], path[2], path[3]>>
    /\ PrimaryConstraint \cap ReferenceConstraint = {}
    /\ NoConstraint \notin PrimaryConstraint \cup ReferenceConstraint
    /\ MaxStructureRows \in Nat

VARIABLES
    structureRows,      \* the rows that were read
    columns             \* the columns built of them, in the order of insertion

structureVars == <<structureRows, columns>>

Constraint == PrimaryConstraint \cup ReferenceConstraint
Row == [path : ColumnPath, constraint : Constraint \cup {NoConstraint}]
IsPrimary(row) == row.constraint \in PrimaryConstraint

StructureTypeOK ==
    /\ structureRows \in Seq(Row)
    /\ columns \in Seq([path : ColumnPath, is_primary : BOOLEAN, constraints : Seq(Constraint)])

StructureInit == structureRows = <<>> /\ columns = <<>>

-----------------------------------------------------------------------------
Constraints(row) == IF row.constraint = NoConstraint THEN <<>> ELSE <<row.constraint>>
NewColumn(row) ==
    [path |-> row.path, is_primary |-> IsPrimary(row), constraints |-> Constraints(row)]

WithRow(row) ==
    IF \A i \in DOMAIN columns : columns[i].path # row.path THEN Append(columns, NewColumn(row))
    ELSE [i \in DOMAIN columns |->
             IF columns[i].path = row.path
             THEN [columns[i] EXCEPT !.constraints = @ \o Constraints(row)] ELSE columns[i]]

ReadRow(row) ==
    /\ Len(structureRows) < MaxStructureRows
    /\ structureRows' = Append(structureRows, row)
    /\ columns' = WithRow(row)

StructureNext == \E row \in Row : ReadRow(row)

\* The members of a set of positions, in their order.
Nth(places, k) == CHOOSE i \in places : Cardinality({j \in places : j <= i}) = k
Count(places) == 1..Cardinality(places)

\* The distinct names that follow the prefix of a path, each at the first column that has it.
Below(prefix) == {i \in DOMAIN columns : IsPrefix(prefix, columns[i].path)}
NameAt(prefix, i) == columns[i].path[Len(prefix) + 1]
FirstBelow(prefix) ==
    {i \in Below(prefix) : \A j \in Below(prefix) : j < i => NameAt(prefix, j) # NameAt(prefix, i)}
NamesBelow(prefix) ==
    LET firsts == FirstBelow(prefix) IN [k \in Count(firsts) |-> NameAt(prefix, Nth(firsts, k))]

\* The answer: the schemas with their tables with their columns.
ColumnsOf(table) == [k \in Count(Below(table)) |-> columns[Nth(Below(table), k)]]
TablesOf(schema) ==
    LET names == NamesBelow(<<schema>>) IN
    [i \in DOMAIN names |-> [name |-> names[i], columns |-> ColumnsOf(<<schema, names[i]>>)]]
DbSchemas ==
    LET names == NamesBelow(<<>>) IN
    [i \in DOMAIN names |-> [name |-> names[i], tables |-> TablesOf(names[i])]]

-----------------------------------------------------------------------------
\* Where a column is found in the answer.
Places(path) ==
    UNION {UNION {{<<i, j, k>> : k \in {k \in DOMAIN DbSchemas[i].tables[j].columns :
                       <<DbSchemas[i].name, DbSchemas[i].tables[j].name,
                         DbSchemas[i].tables[j].columns[k].path[3]>> = path}}
                   : j \in DOMAIN DbSchemas[i].tables}
           : i \in DOMAIN DbSchemas}
At(place) == DbSchemas[place[1]].tables[place[2]].columns[place[3]]
RowsOf(path) == {i \in DOMAIN structureRows : structureRows[i].path = path}
ConstraintsOf(path) ==
    LET rows == {i \in RowsOf(path) : structureRows[i].constraint # NoConstraint} IN
    [k \in Count(rows) |-> structureRows[Nth(rows, k)].constraint]

(* A column stands once in the structure, in its own schema and table      *)
(* though others have one of its name, with all the constraints of its     *)
(* rows in their order, and as a primary key only if one of them says so.  *)
(* (Not if and only if: what the rows after the first one say is lost.)    *)
StructureComplete ==
    \A path \in ColumnPath :
        IF RowsOf(path) = {} THEN Places(path) = {}
        ELSE \E place \in Places(path) :
                 /\ Places(path) = {place}
                 /\ At(place).constraints = ConstraintsOf(path)
                 /\ At(place).is_primary => \E k \in DOMAIN At(place).constraints :
                                                At(place).constraints[k] \in PrimaryConstraint
=============================================================================
