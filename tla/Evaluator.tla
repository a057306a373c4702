----------------------------- MODULE Evaluator -----------------------------
(***************************************************************************)
(* The evaluation of expressions, execute() and solveExprs() of the        *)
(* classes of src/include/parser/parser.hpp.                               *)
(*                                                                         *)
(* The lambdas of binary_expr::solveExprs are static and capture this: all *)
(* binary expressions of the process are solved with the operator of the   *)
(* first one that ever was, and once that one is destroyed with whatever   *)
(* its memory holds.  captured is what the lambdas see: "none" before the  *)
(* first solving, then its operator, then "freed".  An evaluation is given *)
(* captured and yields what it becomes and, because of "freed", the set of *)
(* the values there may be.                                                *)
(*                                                                         *)
(* Integers are small enough not to overflow.  Arithmetic with a float is  *)
(* abstracted to its type.                                                 *)
(***************************************************************************)
EXTENDS Parser, Integers

NumberType(v) == IF Is(v, "unknown") THEN v.unknown
                 ELSE IF Is(v, "int") THEN "int" ELSE "float"

Fails(r) == \A v \in r.values : IsFailure(v)

\* The operators the lambdas may find; "none" is no operator at all.
SeenOps(captured) ==
    IF captured = "freed" THEN BinaryOps \cup {"none"} ELSE {captured}

\* The quotient of C++, which is cut off towards zero.
Quotient(a, b) ==
    LET Abs(n) == IF n < 0 THEN -n ELSE n
    IN  IF (a < 0) = (b < 0) THEN Abs(a) \div Abs(b) ELSE -(Abs(a) \div Abs(b))

Arithmetic(op, a, b) ==
    CASE op = "add" -> [int |-> a + b]
      [] op = "substract" -> [int |-> a - b]
      [] op = "star" -> [int |-> a * b]
      [] op = "divide" -> IF b = 0 THEN Undefined ELSE [int |-> Quotient(a, b)]
      [] op = "none" -> [int |-> a]

\* The operand on the right is cast to the type of the one on the left, to zero
\* if need be, and the result has that type.
InexactArithmetic(op, l, r) ==
    (IF op = "divide" /\ NumberType(l) = "int" THEN {Undefined} ELSE {})
    \cup {[unknown |-> NumberType(l)]}

\* Strings, and lists of several values, throw.  Lists of one value, which no
\* expression yields, are left undefined: the lambda for them keeps a reference
\* to a local variable of its first call.
Solve(op, l, r) ==
    LET lists == {v \in {l, r} : Is(v, "vector")}
    IN  IF IsFailure(l) THEN {l}
        ELSE IF IsFailure(r) THEN {r}
        ELSE IF Is(l, "string") \/ Is(r, "string") THEN {Thrown}
        ELSE IF lists # {}
             THEN {IF \E v \in lists : Len(v.vector) = 1 THEN Undefined ELSE Thrown}
        ELSE IF Is(l, "int") /\ Is(r, "int") THEN {Arithmetic(op, l.int, r.int)}
        ELSE InexactArithmetic(op, l, r)

\* Both operators of a unary_expr negate; it throws for what Solve throws for.
Negated(v) ==
    IF IsFailure(v) THEN v
    ELSE IF Is(v, "int") THEN [int |-> -v.int]
    ELSE IF Is(v, "string") THEN Thrown
    ELSE IF Is(v, "vector") THEN IF Len(v.vector) = 1 THEN Undefined ELSE Thrown
    ELSE [unknown |-> NumberType(v)]

RECURSIVE execute(_, _, _), executeAll(_, _, _)

\* The values of a select with several expressions: every combination.
Combinations(values, rest) ==
    {IF IsFailure(v) THEN v ELSE IF IsFailure(r) THEN r
     ELSE [vector |-> <<v>> \o r.vector] : v \in values, r \in rest}

\* One expression of several: a list of values is not one.
Single(v) == IF ~Is(v, "vector") THEN v
             ELSE IF Len(v.vector) = 1 THEN v.vector[1] ELSE Thrown

\* The operator the lambdas capture, if they have not yet.
Capture(captured, op) == IF captured = "none" THEN op ELSE captured

\* A mutation of Selected: one expression makes a list too.
ListSelected(es, row, captured) == executeAll(es, row, captured)

\* A select with one expression is that expression.
Selected(es, row, captured) ==
    IF Len(es) = 1 THEN execute(es[1], row, captured)
                   ELSE executeAll(es, row, captured)

\* row gives the columns their values; execute() without data has none, and an
\* identifier is then the string it is written as.
executeLiteral(e, row, captured) ==
    Result({IF e.isIdentifier /\ e.value.string \in DOMAIN row
            THEN row[e.value.string] ELSE e.value}, captured)

executeUnary(e, row, captured) ==
    LET r == execute(e.rhs, row, captured)
    IN  Result({Negated(v) : v \in r.values}, r.captured)

executeBinary(e, row, captured) ==
    LET l == execute(e.lhs, row, captured)
        r == execute(e.rhs, row, l.captured)
        now == Capture(r.captured, e.op)
    IN  IF Fails(l) THEN l
        ELSE IF Fails(r) THEN Result(r.values \cup {v \in l.values : IsFailure(v)}, r.captured)
        ELSE Result(UNION {Solve(op, a, b) : op \in SeenOps(now),
                                             a \in l.values, b \in r.values}, now)

\* A create or an insert is not executed this way: it throws.
execute(e, row, captured) ==
    CASE e.kind = "literal" -> executeLiteral(e, row, captured)
      [] e.kind = "grouping" -> execute(e.expr, row, captured)
      [] e.kind = "unary" -> executeUnary(e, row, captured)
      [] e.kind = "binary" -> executeBinary(e, row, captured)
      [] e.kind = "select" -> Selected(e.innerExpr, row, captured)
      [] e.kind \in {"create", "insert"} -> Result({Thrown}, captured)

executeAll(es, row, captured) ==
    IF es = <<>> THEN Result({[vector |-> <<>>]}, captured)
    ELSE LET e == execute(Head(es), row, captured)
             first == Result({Single(v) : v \in e.values}, e.captured)
             rest == executeAll(Tail(es), row, first.captured)
         IN  IF Fails(first) THEN first
             ELSE Result(Combinations(first.values, rest.values), rest.captured)

RECURSIVE retriveColumns(_)

\* The columns an expression names, in order, those of the selects in it too.
retriveColumns(e) ==
    CASE e.kind = "literal" -> IF e.isIdentifier THEN <<e.value.string>> ELSE <<>>
      [] e.kind = "grouping" -> retriveColumns(e.expr)
      [] e.kind = "unary" -> retriveColumns(e.rhs)
      [] e.kind = "binary" -> retriveColumns(e.lhs) \o retriveColumns(e.rhs)
      [] e.kind = "select" ->
            FlattenSeq([i \in DOMAIN e.innerExpr |-> retriveColumns(e.innerExpr[i])])

RECURSIVE HasOperators(_)

\* There is a binary expression in it.
HasOperators(e) ==
    CASE e.kind = "literal" -> FALSE
      [] e.kind = "grouping" -> HasOperators(e.expr)
      [] e.kind = "unary" -> HasOperators(e.rhs)
      [] e.kind = "binary" -> TRUE
      [] e.kind = "select" -> \E i \in DOMAIN e.innerExpr : HasOperators(e.innerExpr[i])
=============================================================================
