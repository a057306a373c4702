------------------------------- MODULE Parser -------------------------------
(***************************************************************************)
(* The parser, hivedb::parser (src/src/parser/parser.cpp): a recursive     *)
(* descent over the tokens ts, each rule an operator that is given the     *)
(* cursor (the index of the next token, from 1) and yields the tree it     *)
(* read and the cursor behind it, or how it threw.                         *)
(***************************************************************************)
EXTENDS Statements, Naturals, Sequences, SequencesExt

Read(tree, cursor) == [tree |-> tree, cursor |-> cursor]
IsRead(r) == "tree" \in DOMAIN r

\* "argument": std::invalid_argument.  "overrun": the name of the token for the
\* message of the exception is read behind the last token.
Threw(how) == [threw |-> how]

\* The type of current(), "none" once isDone().
TypeAt(ts, c) == IF c =< Len(ts) THEN ts[c].type ELSE "none"

\* consume() each of the types in turn.
Consumes(ts, c, types) == \A i \in DOMAIN types : TypeAt(ts, c + i - 1) = types[i]

InvalidToken(ts, c) == Threw(IF c =< Len(ts) THEN "argument" ELSE "overrun")

\* What std::stoi makes of a literal that fits an int.
Digit == [d \in {"0", "1", "2", "3", "4", "5", "6", "7", "8", "9"} |->
            CHOOSE n \in 0 .. 9 : ToString(n) = d]
stoi(text) == FoldLeft(LAMBDA n, d : 10 * n + Digit[d], 0, text)

\* The value of a token, by the type of the variant that holds it.
TokenValue(t) == CASE t.type = "integer" -> [int |-> stoi(t.literal)]
                   [] t.type = "real" -> [float |-> t.literal]
                   [] t.type \in {"string", "identifier"} -> [string |-> t.literal]

Literal(t) == [kind |-> "literal", value |-> TokenValue(t),
               isIdentifier |-> t.type = "identifier"]

\* The result of a rule inside a grouping_expr.
Grouped(r) == IF IsRead(r) THEN Read(Grouping(r.tree), r.cursor) ELSE r

\* A mutation of Closed: the parenthesis may be missing.
LazyClosed(ts, r) ==
    IF IsRead(r) /\ TypeAt(ts, r.cursor) = "parenthesesR"
    THEN Read(r.tree, r.cursor + 1) ELSE r

\* The result of a rule and the parenthesis that must follow.
Closed(ts, r) ==
    IF ~IsRead(r) THEN r
    ELSE IF TypeAt(ts, r.cursor) = "parenthesesR" THEN Read(r.tree, r.cursor + 1)
    ELSE Threw("argument")

\* A list whose first item is there, given the result of the rule for the rest.
Prepended(item, rest) ==
    IF IsRead(rest) THEN Read(<<item>> \o rest.tree, rest.cursor) ELSE rest

RECURSIVE binaryExpr(_, _), unaryExpr(_, _), primaryExpr(_, _), selectExpr(_, _),
          exprList(_, _), itemList(_, _, _), columnDefs(_, _)
-----------------------------------------------------------------------------
\* All operators bind alike, to the right.
binaryExpr(ts, c) ==
    LET l == unaryExpr(ts, c)
    IN  IF ~IsRead(l) \/ TypeAt(ts, l.cursor) \notin BinaryOps THEN l
        ELSE LET r == binaryExpr(ts, l.cursor + 1)
             IN  IF IsRead(r)
                 THEN Read(Binary(l.tree, ts[l.cursor].type, r.tree), r.cursor)
                 ELSE r

unaryExpr(ts, c) ==
    IF TypeAt(ts, c) \notin UnaryOps THEN primaryExpr(ts, c)
    ELSE LET r == unaryExpr(ts, c + 1)
         IN  IF IsRead(r) THEN Read(Unary(ts[c].type, r.tree), r.cursor) ELSE r

primaryExpr(ts, c) ==
    CASE TypeAt(ts, c) \in {"string", "identifier", "integer", "real"} ->
            Read(Literal(ts[c]), c + 1)
      [] Consumes(ts, c, <<"parenthesesL", "select">>) ->
            Grouped(Closed(ts, selectExpr(ts, c + 2)))
      [] TypeAt(ts, c) = "parenthesesL" /\ TypeAt(ts, c + 1) # "select" ->
            Grouped(Closed(ts, binaryExpr(ts, c + 1)))
      [] TypeAt(ts, c) = "select" -> Grouped(selectExpr(ts, c + 1))
      [] OTHER -> InvalidToken(ts, c)

\* The expressions between the commas of a select.
exprList(ts, c) ==
    LET e == binaryExpr(ts, c)
    IN  IF ~IsRead(e) THEN e
        ELSE IF TypeAt(ts, e.cursor) = "comma"
             THEN Prepended(e.tree, exprList(ts, e.cursor + 1))
        ELSE Read(<<e.tree>>, e.cursor)

\* A select that begins with a parenthesis ends with its partner: what follows
\* that one, other than FROM, is not read.
selectExpr(ts, c) ==
    LET e == binaryExpr(ts, c)
        inner == IF TypeAt(ts, c) = "parenthesesL" THEN Closed(ts, exprList(ts, c + 1))
                 ELSE IF IsRead(e) THEN Read(<<e.tree>>, e.cursor) ELSE e
    IN  IF ~IsRead(inner) THEN inner
        ELSE IF TypeAt(ts, inner.cursor) # "from"
             THEN Read(Select(inner.tree, <<>>), inner.cursor)
        ELSE IF Consumes(ts, inner.cursor, <<"from", "identifier">>)
             THEN Read(Select(inner.tree, ts[inner.cursor + 1].literal), inner.cursor + 2)
        ELSE Threw("argument")

\* The end of a pass of the loops over columns and values: the rest of the list
\* behind a comma, the end of it behind a parenthesis.
NextItem(ts, c, item, rest) ==
    CASE TypeAt(ts, c) = "comma" -> Prepended(item, rest)
      [] TypeAt(ts, c) = "parenthesesR" -> Read(<<item>>, c + 1)
      [] OTHER -> Threw("argument")

\* The columns and the values of an insert.  The loop also ends, without a
\* parenthesis, where the tokens end.
itemList(ts, c, types) ==
    CASE c > Len(ts) -> Read(<<>>, c)
      [] TypeAt(ts, c) \in types ->
            NextItem(ts, c + 1, TokenValue(ts[c]), itemList(ts, c + 2, types))
      [] OTHER -> Threw("argument")

\* Nothing compares the number of values with that of the columns.
insertExpr(ts, c) ==
    LET columns == itemList(ts, c + 3, {"identifier"})
        values == itemList(ts, columns.cursor + 2, {"string", "integer", "real"})
        names == [i \in DOMAIN columns.tree |-> columns.tree[i].string]
    IN  IF ~Consumes(ts, c, <<"into", "identifier", "parenthesesL">>) THEN Threw("argument")
        ELSE IF ~IsRead(columns) THEN columns
        ELSE IF ~Consumes(ts, columns.cursor, <<"values", "parenthesesL">>)
             THEN Threw("argument")
        ELSE IF ~IsRead(values) THEN values
        ELSE Read(Insert(ts[c + 1].literal, names, values.tree), values.cursor)

\* A mutation of columnDefs: NOT NULL is read and forgotten.
NullableColumnDefs(ts, c) ==
    LET negated == TypeAt(ts, c + 2) = "not"
        end == c + IF negated THEN 4 ELSE 2
    IN  CASE c > Len(ts) -> Read(<<>>, c)
          [] Consumes(ts, c, <<"identifier", "identifier">>)
             /\ (negated => TypeAt(ts, c + 3) = "null") ->
                NextItem(ts, end, [name |-> ts[c].literal, type |-> ts[c + 1].literal,
                                   can_be_null |-> FALSE], columnDefs(ts, end + 1))
          [] OTHER -> Threw("argument")

\* The columns of a create.  can_be_null is set where the statement says NOT NULL.
columnDefs(ts, c) ==
    LET negated == TypeAt(ts, c + 2) = "not"
        end == c + IF negated THEN 4 ELSE 2
    IN  CASE c > Len(ts) -> Read(<<>>, c)
          [] Consumes(ts, c, <<"identifier", "identifier">>)
             /\ (negated => TypeAt(ts, c + 3) = "null") ->
                NextItem(ts, end, [name |-> ts[c].literal, type |-> ts[c + 1].literal,
                                   can_be_null |-> negated], columnDefs(ts, end + 1))
          [] OTHER -> Threw("argument")

createExpr(ts, c) ==
    LET columns == columnDefs(ts, c + 3)
    IN  IF ~Consumes(ts, c, <<"table", "identifier", "parenthesesL">>) THEN Threw("argument")
        ELSE IF ~IsRead(columns) THEN columns
        ELSE Read(Create(ts[c + 1].literal, columns.tree), columns.cursor)

\* parse(): a statement; the tokens behind it are not looked at.
parse(ts) == CASE TypeAt(ts, 1) = "select" -> selectExpr(ts, 2)
               [] TypeAt(ts, 1) = "create" -> createExpr(ts, 2)
               [] TypeAt(ts, 1) = "insert" -> insertExpr(ts, 2)
               [] OTHER -> InvalidToken(ts, 1)
=============================================================================
