----------------------------- MODULE MCFrontEnd -----------------------------
EXTENDS FrontEnd

\* Keywords of one letter, and letters that are in none.
MCKeywords == <<"s">> :> "select" @@ <<"f">> :> "from" @@ <<"c">> :> "create" @@
              <<"t">> :> "table" @@ <<"n">> :> "not" @@ <<"u">> :> "null" @@
              <<"i">> :> "insert" @@ <<"o">> :> "into" @@ <<"v">> :> "values"
MCLetters == {"s", "f", "c", "t", "n", "u", "i", "o", "v", "a", "b"}

SeqsUpTo(S, n) == UNION {[1 .. k -> S] : k \in 0 .. n}

MCTexts == SeqsUpTo({"s", "a", "1", "\"", ".", " ", ";", "#"}, 5)

Num(n) == [kind |-> "literal", value |-> [int |-> n], isIdentifier |-> FALSE]
Word(w) == [kind |-> "literal", value |-> [string |-> w], isIdentifier |-> TRUE]
Text(w) == [kind |-> "literal", value |-> [string |-> w], isIdentifier |-> FALSE]

Atoms == {Num(7), Num(12), Word(<<"a", "b">>), Text(<<"s", "1">>)}
Operands == Atoms \cup {Unary(op, e) : op \in UnaryOps, e \in {Num(7), Word(<<"a">>)}}
            \cup {Grouping(Binary(Num(7), op, Num(2))) : op \in BinaryOps}
            \cup {Grouping(Select(<<Num(1)>>, t)) : t \in {<<>>, <<"b">>}}
            \cup {Grouping(Select(<<Num(1), Num(2)>>, <<>>))}
Chains == {Binary(l, op, r) : l \in Operands, op \in BinaryOps, r \in Operands}
LongChains == {Binary(Num(9), op, Binary(Num(4), op2, Num(n))) :
                 op \in BinaryOps, op2 \in BinaryOps, n \in {0, 1}}
Expressions == Operands \cup Chains \cup LongChains
MCStatements ==
    {Select(<<e>>, <<>>) : e \in Expressions}
    \cup {Select(<<e, Num(3)>>, <<"b">>) : e \in Operands}
    \cup {Create(<<"a">>, <<[name |-> <<"b">>, type |-> <<"a", "s">>, can_be_null |-> x],
                            [name |-> <<"a">>, type |-> <<"b">>, can_be_null |-> y]>>) :
             x \in BOOLEAN, y \in BOOLEAN}
    \cup {Insert(<<"a">>, cs, vs) : cs \in {<<<<"a">>>>, <<<<"b">>, <<"a">>>>},
             vs \in {<<[int |-> 5]>>, <<[int |-> 5], [string |-> <<"t">>]>>}}

One == Token("integer", <<"1">>)
MCTokens == {Sign(t) : t \in {"select", "parenthesesL", "parenthesesR", "substract",
                              "comma", "from", "eof"}} \cup {One, Name(<<"a">>)}
Openings == {<<Sign("insert"), Sign("into"), Name(<<"a">>), Sign("parenthesesL"),
               Name(<<"a">>), Sign("parenthesesR"), Sign("values"), Sign("parenthesesL")>>,
             <<Sign("create"), Sign("table"), Name(<<"a">>), Sign("parenthesesL")>>}
MCTokenLists ==
    {<<Sign("select")>> \o s : s \in SeqsUpTo(MCTokens, 5)} \cup SeqsUpTo(MCTokens, 2)
    \cup {o \o s : o \in Openings, s \in SeqsUpTo({Sign("comma"), Sign("parenthesesR"),
             Sign("not"), Sign("null"), Sign("eof"), Name(<<"b">>), One,
             Token("real", <<"1", ".", "5">>)}, 3)}
=============================================================================
