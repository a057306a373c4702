--------------------------- MODULE StorageEngine ---------------------------
(***************************************************************************)
(* The storage engine, hivedb::storage_engine                              *)
(* (src/src/storage_engine/storage_engine.cpp), with the serialisers of    *)
(* src/src/data_types: tables of rows in memory, and the three calls that  *)
(* take a statement the parser made.                                       *)
(*                                                                         *)
(* The bytes of a table are the values that were serialised into them, one *)
(* behind the other.  They are read by position: what is found there is a  *)
(* value again where one of that type begins, and otherwise whatever its   *)
(* bytes make.  Strings are shorter than 2^16 characters.                  *)
(*                                                                         *)
(* Behaviour that is undefined is the end of a behaviour of the module.    *)
(* How an expression is evaluated is a parameter: Evaluator says how.      *)
(***************************************************************************)
EXTENDS Statements, Integers, SequencesExt, FiniteSets

CONSTANTS
    typeNames,      \* text of a type -> data type, what fromString() knows
    Creates,        \* the statements: trees of the classes of parser.hpp
    Inserts,
    Selects,
    MaxRows,        \* bound: rows inserted into a table
    Evaluate(_, _, _),  \* execute() of a select, with a row and what is captured
    ColumnsOf(_),       \* retriveColumnsToBeFetched()
    UsesOperators(_)    \* whether there is a binary expression in it

VARIABLES
    tables,         \* name -> columns, data, rowSize
    captured,       \* see Evaluator
    result,         \* the last statement and what came of it
    asked           \* name -> the rows as they were asked for, and whether all
                    \* of them fit the columns (for properties)

vars == <<tables, captured, result, asked>>

DataTypes == {"integer", "real", "varchar"}

IsSequence(s) == s \in Seq(Range(s))

ASSUME StorageEngineAssumption ==
    /\ \A x \in DOMAIN typeNames : typeNames[x] \in DataTypes
    /\ \A e \in Creates : e.kind = "create" /\ IsSequence(e.tblColumns)
    /\ \A e \in Inserts : /\ e.kind = "insert" /\ IsSequence(e.columns) /\ IsSequence(e.values)
                         /\ \A v \in Range(e.values) : ~IsFailure(v)
    /\ \A e \in Selects : e.kind = "select" /\ IsSequence(ColumnsOf(e))
    /\ MaxRows \in Nat

\* What may be written, and what may be read.
CellValues == (UNION {Range(e.values) : e \in Inserts}) \cup {[int |-> 0]}
ReadValues == CellValues \cup {[float |-> <<"0">>], [unknown |-> "int"], [unknown |-> "float"],
                               Undefined}

PlainColumns(e) == \A i \in DOMAIN e.innerExpr :
                      e.innerExpr[i].kind = "literal" /\ e.innerExpr[i].isIdentifier

\* What a select of columns makes of a row: a single value is no list.
Answer(e, row) ==
    LET columns == ColumnsOf(e)
    IN  IF Len(columns) = 1 THEN row[columns[1]]
        ELSE [vector |-> [i \in DOMAIN columns |-> row[columns[i]]]]

\* Of the evaluation of a select it matters what it captures and how it may fail,
\* that it takes the columns from the row, and that only an operator is undefined
\* by itself (parser.hpp:92-124, 421-437, 539-590).
ASSUME EvaluatorAssumption ==
    \A e \in Selects : \A row \in [Range(ColumnsOf(e)) -> ReadValues], c \in Captures :
       LET r == Evaluate(e, row, c)
           defined == \A name \in DOMAIN row : ~IsFailure(row[name])
       IN  /\ r.captured \in Captures
           /\ \A v \in r.values : IsFailure(v) => v \in {Thrown, Undefined}
           /\ defined /\ PlainColumns(e) => r = Result({Answer(e, row)}, c)
           /\ defined /\ ~UsesOperators(e) => Undefined \notin r.values

\* findOffset(): sizeof(int), sizeof(float), and a length of two bytes with a
\* pointer.  The serialisers append as many bytes.
SizeOf(dt) == IF dt = "varchar" THEN 10 ELSE 4

TypeOf(v) == IF Is(v, "int") THEN "integer" ELSE IF Is(v, "float") THEN "real" ELSE "varchar"

\* The bytes of the first n of values or columns of these types.
SizeOfFirst(n, dts) ==
    LET bytes[k \in Nat] == IF k = 0 THEN 0 ELSE bytes[k - 1] + SizeOf(dts[k])
    IN  bytes[n]

\* The bytes of the first n values.
BytesOf(data, n) == SizeOfFirst(n, [i \in DOMAIN data |-> TypeOf(data[i])])

FirstIndex(s, x) == CHOOSE i \in DOMAIN s : s[i] = x /\ \A j \in 1 .. i - 1 : s[j] # x

Names(columns) == [i \in DOMAIN columns |-> columns[i].name]
Types(columns) == [i \in DOMAIN columns |-> columns[i].dt]

\* What the bytes of v make when they are read as another type of their size.
\* The bytes of 0 are those of 0.0.
Reinterpreted(v, dt) ==
    IF dt = "varchar" THEN Undefined
    ELSE IF dt = "real" /\ v = [int |-> 0] THEN [float |-> <<"0">>]
    ELSE [unknown |-> IF dt = "integer" THEN "int" ELSE "float"]

\* deserialize(): the value of type dt at a position.  Made of other bytes, a
\* number is any number, and a string is a pointer to anywhere.
ReadAt(data, position, dt) ==
    LET here == {i \in DOMAIN data : BytesOf(data, i - 1) = position}
    IN  IF position + SizeOf(dt) > BytesOf(data, Len(data)) THEN Undefined
        ELSE IF \E i \in here : TypeOf(data[i]) = dt THEN data[CHOOSE i \in here : TRUE]
        ELSE IF \E i \in here : TypeOf(data[i]) # "varchar"
             THEN Reinterpreted(data[CHOOSE i \in here : TRUE], dt)
        ELSE IF dt = "varchar" THEN Undefined
        ELSE [unknown |-> IF dt = "integer" THEN "int" ELSE "float"]

Init == /\ tables = <<>>
        /\ captured = "none"
        /\ result = [statement |-> Select(<<>>, <<>>), outcome |-> "none", rows |-> <<>>]
        /\ asked = <<>>

Running == result.outcome # "undefined"

Came(e, outcome, rows) ==
    result' = [statement |-> e, outcome |-> outcome, rows |-> rows]
-----------------------------------------------------------------------------
\* A mutation of Inserting: an entry of that name is replaced.
Replacing(map, name, entry) ==
    [x \in DOMAIN map \cup {name} |-> IF x = name THEN entry ELSE map[x]]

\* map.insert(): an entry of that name stays.
Inserting(map, name, entry) ==
    [x \in DOMAIN map \cup {name} |-> IF x \in DOMAIN map THEN map[x] ELSE entry]

NewTable(e) ==
    LET columns == [i \in DOMAIN e.tblColumns |->
                       [name |-> e.tblColumns[i].name, dt |-> typeNames[e.tblColumns[i].type]]]
    IN  [columns |-> columns, data |-> <<>>,
         rowSize |-> SizeOfFirst(Len(columns), Types(columns))]

createTable(e) ==
    /\ Running
    /\ \/ /\ \A i \in DOMAIN e.tblColumns : e.tblColumns[i].type \in DOMAIN typeNames
          /\ tables' = Inserting(tables, e.tblName, NewTable(e))
          /\ asked' = Inserting(asked, e.tblName,
                                [rows |-> <<>>, fits |-> IsInjective(Names(e.tblColumns))])
          /\ Came(e, "ok", <<>>)
       \/ /\ \E i \in DOMAIN e.tblColumns : e.tblColumns[i].type \notin DOMAIN typeNames
          /\ Came(e, "throw", <<>>)
          /\ UNCHANGED <<tables, asked>>
    /\ UNCHANGED captured
-----------------------------------------------------------------------------
IsGiven(e, name) == name \in Range(e.columns)

\* There is no value for some column that is given.
MissesValue(e, columns) ==
    \E i \in DOMAIN columns :
       IsGiven(e, columns[i].name) /\ FirstIndex(e.columns, columns[i].name) > Len(e.values)

\* A mutation of Cells: columns that are not given are passed over.
GivenCells(e, columns) ==
    LET given == SelectSeq(columns, LAMBDA c : IsGiven(e, c.name))
    IN  [i \in DOMAIN given |-> e.values[FirstIndex(e.columns, given[i].name)]]

\* What is serialised for a row: nothing compares the types with the columns',
\* and a column that is not given gets an integer.
Cells(e, columns) ==
    [i \in DOMAIN columns |-> IF IsGiven(e, columns[i].name)
                              THEN e.values[FirstIndex(e.columns, columns[i].name)]
                              ELSE [int |-> 0]]

\* The row a caller asks for, and whether its values have the columns' types.
AskedRow(e, columns) ==
    [name \in Range(Names(columns)) |->
        IF IsGiven(e, name) THEN e.values[FirstIndex(e.columns, name)]
        ELSE IF columns[FirstIndex(Names(columns), name)].dt = "real" THEN [float |-> <<"0">>]
        ELSE [int |-> 0]]

RowFits(e, columns) ==
    \A i \in DOMAIN columns :
       IF IsGiven(e, columns[i].name)
       THEN TypeOf(e.values[FirstIndex(e.columns, columns[i].name)]) = columns[i].dt
       ELSE columns[i].dt # "varchar"

Inserted(e, table) ==
    /\ Len(asked[e.tblName].rows) < MaxRows
    /\ \/ /\ ~MissesValue(e, table.columns)
          /\ tables' = [tables EXCEPT ![e.tblName].data = @ \o Cells(e, table.columns)]
          /\ asked' = [asked EXCEPT
                ![e.tblName] = [rows |-> Append(@.rows, AskedRow(e, table.columns)),
                                fits |-> @.fits /\ RowFits(e, table.columns)]]
          /\ Came(e, "ok", <<>>)
       \/ /\ MissesValue(e, table.columns)
          /\ Came(e, "undefined", <<>>)
          /\ UNCHANGED <<tables, asked>>

\* All columns are looked up before anything is written.
insertIntoTable(e) ==
    /\ Running
    /\ \/ /\ e.tblName \in DOMAIN tables
          /\ Range(e.columns) \subseteq Range(Names(tables[e.tblName].columns))
          /\ Inserted(e, tables[e.tblName])
       \/ /\ e.tblName \in DOMAIN tables =>
                ~(Range(e.columns) \subseteq Range(Names(tables[e.tblName].columns)))
          /\ Came(e, "throw", <<>>)
          /\ UNCHANGED <<tables, asked>>
    /\ UNCHANGED captured
-----------------------------------------------------------------------------
\* A mutation of Offset: the size of the column itself is added.
LateOffset(table, name) ==
    SizeOfFirst(FirstIndex(Names(table.columns), name), Types(table.columns))

\* Where a column lies in a row.
Offset(table, name) ==
    SizeOfFirst(FirstIndex(Names(table.columns), name) - 1, Types(table.columns))

ColumnType(table, name) == table.columns[FirstIndex(Names(table.columns), name)].dt

\* The rows fetch() finds: a step of rowSize at a time, to the end of the data.
RowCount(table) ==
    LET bytes == BytesOf(table.data, Len(table.data))
    IN  IF bytes = 0 THEN 0 ELSE (bytes + table.rowSize - 1) \div table.rowSize

Times(columns, name) == Cardinality({i \in DOMAIN columns : columns[i] = name})

\* fetch() and the subscript idx: a column that is named several times gets its
\* pointer as often for each row.
FetchedRow(table, columns, idx) ==
    [name \in Range(columns) |->
        LET row == idx \div Times(columns, name)
        IN  IF row >= RowCount(table) THEN Undefined
            ELSE ReadAt(table.data, row * table.rowSize + Offset(table, name),
                        ColumnType(table, name))]

\* The sequences of rows that may be printed, given the values each may have: a
\* failure is the last.
Runs(values) ==
    {run \in UNION {[1 .. n -> UNION Range(values)] : n \in DOMAIN values} :
        /\ \A i \in DOMAIN run : run[i] \in values[i]
        /\ \A i \in 1 .. Len(run) - 1 : ~IsFailure(run[i])
        /\ Len(run) < Len(values) => IsFailure(Last(run))}

Printed(e, run) ==
    IF IsFailure(Last(run)) THEN Came(e, Last(run).failure, Front(run))
                            ELSE Came(e, "ok", run)

\* maxIndex is the count of the column that the map happens to hold first; an
\* empty map has none.
Queried(e, table, columns) ==
    IF RowCount(table) = 0
    THEN Came(e, "undefined", <<>>) /\ UNCHANGED captured
    ELSE \E name \in Range(columns) :
            LET maxIndex == RowCount(table) * Times(columns, name)
                first == Evaluate(e, FetchedRow(table, columns, 0), captured)
                values == [i \in 1 .. maxIndex |->
                    Evaluate(e, FetchedRow(table, columns, i - 1), first.captured).values]
            IN  /\ captured' = first.captured
                /\ \E run \in Runs(values) : Printed(e, run)

\* The columns of a nested select are looked up in the table of the outer one.
queryDataFromTable(e) ==
    LET columns == ColumnsOf(e)
    IN  /\ Running
        /\ \/ /\ columns = <<>>
              /\ e.tblName \in DOMAIN tables \cup {<<>>}
              /\ LET r == Evaluate(e, <<>>, captured)
                 IN  /\ captured' = r.captured
                     /\ \E v \in r.values : Printed(e, <<v>>)
           \/ /\ columns # <<>>
              /\ e.tblName \in DOMAIN tables
              /\ Range(columns) \subseteq Range(Names(tables[e.tblName].columns))
              /\ Queried(e, tables[e.tblName], columns)
           \/ /\ IF columns = <<>> THEN e.tblName \notin DOMAIN tables \cup {<<>>}
                 ELSE e.tblName \in DOMAIN tables =>
                        ~(Range(columns) \subseteq Range(Names(tables[e.tblName].columns)))
              /\ Came(e, "throw", <<>>)
              /\ UNCHANGED captured
        /\ UNCHANGED <<tables, asked>>

\* The caller destroys the statement with the first binary expression.
destroyStatement == /\ Running
                    /\ captured \in BinaryOps
                    /\ captured' = "freed"
                    /\ UNCHANGED <<tables, result, asked>>
-----------------------------------------------------------------------------
Next == \/ \E e \in Creates : createTable(e)
        \/ \E e \in Inserts : insertIntoTable(e)
        \/ \E e \in Selects : queryDataFromTable(e)
        \/ destroyStatement

Spec == Init /\ [][Next]_vars
-----------------------------------------------------------------------------
TypeOK ==
    /\ DOMAIN tables = DOMAIN asked
    /\ captured \in Captures
    /\ result.outcome \in {"none", "ok", "throw", "undefined"}
    /\ \A name \in DOMAIN tables :
          LET t == tables[name]
          IN  /\ t.rowSize = SizeOfFirst(Len(t.columns), Types(t.columns))
              /\ Len(t.data) = Len(t.columns) * Len(asked[name].rows)

\* A statement changes a table only by a successful insert into it, which puts
\* one value per column behind what was there: a create does not replace a table,
\* and a statement that throws changes nothing (storage_engine.cpp:73-83,
\* 183-217).
OnlyInsertsAppend ==
    [][\A name \in DOMAIN tables :
          /\ name \in DOMAIN tables'
          /\ tables'[name].columns = tables[name].columns
          /\ IsPrefix(tables[name].data, tables'[name].data)
          /\ tables'[name].data # tables[name].data =>
                /\ result'.statement.kind = "insert"
                /\ result'.statement.tblName = name
                /\ result'.outcome = "ok"]_vars

\* A select of columns, each named once, of a table whose rows all fit, with rows
\* in it.
IsGoodQuery(e) ==
    /\ PlainColumns(e)
    /\ IsInjective(ColumnsOf(e))
    /\ e.tblName \in DOMAIN tables
    /\ Range(ColumnsOf(e)) \subseteq Range(Names(tables[e.tblName].columns))
    /\ asked[e.tblName].fits
    /\ asked[e.tblName].rows # <<>>

\* Such a select returns the rows that were inserted, in order, with the values
\* of the columns it names, although they are found by counting bytes
\* (storage_engine.cpp:48-68, 131-154).
SelectsReturnWhatWasInserted ==
    LET e == result.statement
    IN  result.outcome # "none" /\ e.kind = "select" =>
           (ColumnsOf(e) # <<>> /\ IsGoodQuery(e) =>
              /\ result.outcome = "ok"
              /\ result.rows = [i \in DOMAIN asked[e.tblName].rows |->
                                   Answer(e, asked[e.tblName].rows[i])])

\* What is undefined has one of five causes: an insert with too few values
\* (storage_engine.cpp:213), a query of an empty table (151), one that names a
\* column twice (54-61), one of a table with a row that does not fit (213-215),
\* or an operator, which may divide by zero or be read from freed memory
\* (parser.hpp:235-418).
UndefinedHasACause ==
    LET e == result.statement
    IN  result.outcome = "undefined" =>
           IF e.kind = "insert" THEN Len(e.values) < Len(e.columns)
           ELSE \/ UsesOperators(e)
                \/ asked[e.tblName].rows = <<>>
                \/ ~IsInjective(ColumnsOf(e))
                \/ ~asked[e.tblName].fits
=============================================================================
