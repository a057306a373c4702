----------------------------- MODULE Statements -----------------------------
(***************************************************************************)
(* What the parser makes and the evaluator and the storage engine take: a  *)
(* tree is a record per class of src/include/parser/parser.hpp, and a      *)
(* value one per type of exprs::values.  A name is the literal of its      *)
(* token; no table is <<>>.                                                *)
(***************************************************************************)
BinaryOps == {"add", "substract", "divide", "star"}
UnaryOps == {"substract", "bang"}

Unary(op, rhs) == [kind |-> "unary", op |-> op, rhs |-> rhs]
Binary(lhs, op, rhs) == [kind |-> "binary", lhs |-> lhs, op |-> op, rhs |-> rhs]
Grouping(e) == [kind |-> "grouping", expr |-> e]
Select(inner, table) == [kind |-> "select", innerExpr |-> inner, tblName |-> table]
Create(table, columns) == [kind |-> "create", tblName |-> table, tblColumns |-> columns]
Insert(table, columns, values) ==
    [kind |-> "insert", tblName |-> table, columns |-> columns, values |-> values]

\* What a value is told apart by: [int |-> n], [float |-> text],
\* [string |-> text], [vector |-> values], [unknown |-> "int" or "float"], or a
\* failure: an exception, or behaviour that is undefined.
Thrown == [failure |-> "throw"]
Undefined == [failure |-> "undefined"]

Is(v, field) == field \in DOMAIN v
IsFailure(v) == Is(v, "failure")

\* What an evaluation yields: the values there may be, and what the static
\* lambdas of binary_expr::solveExprs see after it (Evaluator).
Result(values, captured) == [values |-> values, captured |-> captured]

\* What they may see.
Captures == BinaryOps \cup {"none", "freed"}
=============================================================================
