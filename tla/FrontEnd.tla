------------------------------ MODULE FrontEnd ------------------------------
(***************************************************************************)
(* The way of one statement through the front end, as the tests of         *)
(* src/tests/parser put it together: a lexer makes tokens of the text, a   *)
(* parser a tree of the tokens, and a select that names no column is       *)
(* executed.  A parser may also be built on tokens of another origin.      *)
(***************************************************************************)
EXTENDS Lexer, Evaluator, FiniteSets

CONSTANTS
    Texts,          \* texts a lexer is built on
    TokenLists,     \* tokens a parser is built on
    Statements      \* trees, each written down in full as a text

VARIABLES
    intended,       \* the tree the text was written for, if any
    parsed,         \* what parse() returned
    value           \* what execute() returned

vars == <<lexerVars, intended, parsed, value>>

NoTree == [kind |-> "none"]
NotParsed == Threw("not called")
NotExecuted == [failure |-> "not called"]

\* A token without the text of its keyword.
Bare(t) == Token(t.type, IF t.type \in ValueTypes THEN t.literal ELSE <<>>)
Sign(type) == Token(type, <<>>)
Name(text) == Token("identifier", text)

RECURSIVE Decimal(_)
Decimal(n) == IF n < 10 THEN <<ToString(n)>> ELSE Decimal(n \div 10) \o <<ToString(n % 10)>>

ValueToken(v) == IF Is(v, "int") THEN Token("integer", Decimal(v.int))
                 ELSE IF Is(v, "float") THEN Token("real", v.float)
                 ELSE Token("string", v.string)

-----------------------------------------------------------------------------
\* The ways to write a tree as tokens.  Each of the lists is given as the
\* sequence of its items, an item being a sequence of tokens.
Commas(items) == FlattenSeq([i \in DOMAIN items |-> items[i] \o <<Sign("comma")>>])
CommaList(items) == SubSeq(Commas(items), 1, Len(Commas(items)) - 1)
InParentheses(tokens) == <<Sign("parenthesesL")>> \o tokens \o <<Sign("parenthesesR")>>

CreateHead(e) == <<Sign("create"), Sign("table"), Name(e.tblName)>>
InsertHead(e) == <<Sign("insert"), Sign("into"), Name(e.tblName)>>
                 \o InParentheses(CommaList([i \in DOMAIN e.columns |-> <<Name(e.columns[i])>>]))
                 \o <<Sign("values")>>
Definitions(e) ==
    [i \in DOMAIN e.tblColumns |->
        <<Name(e.tblColumns[i].name), Name(e.tblColumns[i].type)>>
        \o IF e.tblColumns[i].can_be_null THEN <<Sign("not"), Sign("null")>> ELSE <<>>]
Values(e) == [i \in DOMAIN e.values |-> <<ValueToken(e.values[i])>>]

RECURSIVE Spellings(_, _), ListSpellings(_, _)

\* full: every select has its parentheses, so that nothing is left open.
Spellings(e, full) ==
    CASE e.kind = "literal" ->
            {<<IF e.isIdentifier THEN Name(e.value.string) ELSE ValueToken(e.value)>>}
      [] e.kind = "unary" -> {<<Sign(e.op)>> \o s : s \in Spellings(e.rhs, full)}
      [] e.kind = "binary" ->
            {l \o <<Sign(e.op)>> \o r : l \in Spellings(e.lhs, full), r \in Spellings(e.rhs, full)}
      [] e.kind = "grouping" ->
            {InParentheses(s) : s \in Spellings(e.expr, full)}
            \cup IF e.expr.kind = "select" /\ ~full THEN Spellings(e.expr, full) ELSE {}
      [] e.kind = "select" ->
            LET lists == ListSpellings(e.innerExpr, full)
                bodies == {InParentheses(s) : s \in lists}
                          \cup IF Len(e.innerExpr) = 1 /\ ~full THEN lists ELSE {}
                from == IF e.tblName = <<>> THEN <<>> ELSE <<Sign("from"), Name(e.tblName)>>
            IN  {<<Sign("select")>> \o b \o from : b \in bodies}
      [] e.kind = "create" -> {CreateHead(e) \o InParentheses(CommaList(Definitions(e)))}
      [] e.kind = "insert" -> {InsertHead(e) \o InParentheses(CommaList(Values(e)))}

ListSpellings(es, full) ==
    IF Len(es) = 1 THEN Spellings(es[1], full)
    ELSE {s \o <<Sign("comma")>> \o t :
            s \in Spellings(es[1], full), t \in ListSpellings(Tail(es), full)}

\* A create or an insert whose last list ends with the tokens.
Unfinished(e) ==
    CASE e.kind = "create" ->
            {CreateHead(e) \o <<Sign("parenthesesL")>> \o Commas(Definitions(e))}
      [] e.kind = "insert" ->
            {InsertHead(e) \o <<Sign("parenthesesL")>> \o Commas(Values(e))}
      [] OTHER -> {}

\* A token as text.
Written(t) ==
    CASE t.type = "string" -> <<Quote>> \o t.literal \o <<Quote>>
      [] t.type \in ValueTypes \ {"string"} -> t.literal
      [] t.type \in WordTypes ->
            CHOOSE w \in DOMAIN reservedKeywords : reservedKeywords[w] = t.type
      [] OTHER -> <<CHOOSE c \in Symbols : SymbolType[c] = t.type>>

\* A statement as text, with a blank behind each token.
TextOf(e) ==
    LET tokens == CHOOSE s \in Spellings(e, TRUE) : TRUE
    IN  FlattenSeq([i \in DOMAIN tokens |-> Written(tokens[i]) \o <<" ">>])
-----------------------------------------------------------------------------
Init == /\ \/ \E text \in Texts : LexerInit(text) /\ intended = NoTree
           \/ \E e \in Statements, end \in {<<>>, <<";">>} :
                 LexerInit(TextOf(e) \o end) /\ intended = e
           \/ \E tokens \in TokenLists :
                 /\ m_input = <<>>
                 /\ m_position = 0
                 /\ m_tokens = tokens
                 /\ scan = "done"
                 /\ intended = NoTree
        /\ parsed = NotParsed
        /\ value = NotExecuted

Lex == LexerNext /\ UNCHANGED <<intended, parsed, value>>

Parse == /\ scan = "done"
         /\ parsed = NotParsed
         /\ parsed' = parse(m_tokens)
         /\ UNCHANGED <<lexerVars, intended, value>>

\* The select is the first statement the process executes, and execute() is
\* called only for a select that names no columns (storage_engine.cpp:91-99).
Execute == /\ IsRead(parsed)
           /\ parsed.tree.kind = "select"
           /\ retriveColumns(parsed.tree) = <<>>
           /\ value = NotExecuted
           /\ value' \in execute(parsed.tree, <<>>, "none").values
           /\ UNCHANGED <<lexerVars, intended, parsed>>

Next == Lex \/ Parse \/ Execute

Spec == Init /\ [][Next]_vars
-----------------------------------------------------------------------------
\* What was written down is what is parsed: a statement in full parentheses
\* comes out of lexer and parser as the tree it was written for, with or without
\* a semicolon (parser.cpp:50-273).
RoundTrip ==
    intended # NoTree /\ parsed # NotParsed =>
       IsRead(parsed) /\ parsed.tree = intended

BareTokens(n) == [i \in 1 .. n |-> Bare(m_tokens[i])]

\* The tree the parser returns stands for the first tokens, as many as it moved
\* its cursor over, and for all of them: nothing is skipped, and a list that is
\* not closed is taken only where the tokens end.  No rule reads over a
\* semicolon, so that with one the parser never reads behind its tokens
\* (parser.cpp:13-48, 131, 143, 157, 178, 218).
ReadsItsTokens ==
    /\ IsRead(parsed) =>
          LET read == BareTokens(parsed.cursor - 1)
          IN  \/ read \in Spellings(parsed.tree, FALSE)
              \/ parsed.cursor > Len(m_tokens) /\ read \in Unfinished(parsed.tree)
    /\ parsed = Threw("overrun") => \A i \in DOMAIN m_tokens : m_tokens[i].type # "eof"

\* Integer arithmetic, every operator for itself.
RECURSIVE IsArithmetic(_), Operators(_), Meaning(_)
IsArithmetic(e) ==
    CASE e.kind = "literal" -> Is(e.value, "int")
      [] e.kind = "grouping" -> IsArithmetic(e.expr)
      [] e.kind = "unary" -> IsArithmetic(e.rhs)
      [] e.kind = "binary" -> IsArithmetic(e.lhs) /\ IsArithmetic(e.rhs)
      [] e.kind = "select" -> Len(e.innerExpr) = 1 /\ IsArithmetic(e.innerExpr[1])
      [] OTHER -> FALSE

Operators(e) ==
    CASE e.kind = "grouping" -> Operators(e.expr)
      [] e.kind = "unary" -> Operators(e.rhs)
      [] e.kind = "binary" -> {e.op} \cup Operators(e.lhs) \cup Operators(e.rhs)
      [] e.kind = "select" -> UNION {Operators(e.innerExpr[i]) : i \in DOMAIN e.innerExpr}
      [] OTHER -> {}

Meaning(e) ==
    CASE e.kind = "literal" -> e.value.int
      [] e.kind = "grouping" -> Meaning(e.expr)
      [] e.kind = "unary" -> -Meaning(e.rhs)
      [] e.kind = "select" -> Meaning(e.innerExpr[1])
      [] e.kind = "binary" ->
            LET l == Meaning(e.lhs)
                r == Meaning(e.rhs)
            IN  CASE e.op = "add" -> l + r
                  [] e.op = "substract" -> l - r
                  [] e.op = "star" -> l * r

\* An expression of integers that uses one operator, and does not divide, has its
\* arithmetic value although the operator is read through a captured pointer;
\* and a division is the only thing that may be undefined: no expression has a
\* list of one value, which the lambdas would compute with through a dangling
\* reference (parser.hpp:230-418, 542, 569).
EvaluatesLikeReference ==
    value # NotExecuted =>
       LET ops == Operators(parsed.tree)
       IN  /\ IsArithmetic(parsed.tree) /\ Cardinality(ops) =< 1 /\ "divide" \notin ops
              => value = [int |-> Meaning(parsed.tree)]
           /\ value = Undefined => "divide" \in ops
=============================================================================
