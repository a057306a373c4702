-------------------------- MODULE MCStorageEngine --------------------------
EXTENDS StorageEngine, Evaluator, TLC

MCTypeNames == <<"integer">> :> "integer" @@ <<"real">> :> "real" @@ <<"varchar">> :> "varchar"

T == <<"t">>
A == <<"a">>
B == <<"b">>
Column(name, type) == [name |-> name, type |-> <<type>>, can_be_null |-> FALSE]
Word(w) == [kind |-> "literal", value |-> [string |-> w], isIdentifier |-> TRUE]
Num(n) == [kind |-> "literal", value |-> [int |-> n], isIdentifier |-> FALSE]
Text == [string |-> <<"x">>]

MCCreates ==
    {Create(T, <<Column(A, p[1]), Column(B, p[2])>>) :
        p \in {<<"integer", "varchar">>, <<"varchar", "integer">>, <<"real", "varchar">>,
               <<"integer", "real">>, <<"varchar", "varchar">>}}
    \cup {Create(T, <<Column(A, "integer"), Column(A, "varchar")>>),
          Create(T, <<Column(A, "float")>>), Create(T, <<>>)}
MCInserts ==
    {Insert(T, <<A, B>>, <<x, y>>) : x \in {[int |-> 1], Text},
                                     y \in {[int |-> 2], [float |-> <<"5">>], Text}}
    \cup {Insert(T, <<B>>, <<Text>>), Insert(T, <<A>>, <<[int |-> 3]>>),
          Insert(T, <<B, A>>, <<[int |-> 4]>>), Insert(T, <<<<"c">>>>, <<Text>>)}
MCSelects ==
    {Select(<<Word(x), Word(y)>>, T) : x, y \in {A, B}}
    \cup {Select(<<e>>, T) : e \in {Word(A), Word(B), Word(<<"c">>), Num(1),
              Binary(Word(A), "substract", Num(1)),
              Grouping(Select(<<Word(B)>>, <<"u">>)), Unary("bang", Word(B))}}
    \cup {Select(<<Word(A), Word(A), Word(B)>>, T), Select(<<Word(A)>>, <<>>),
          Select(<<Binary(Num(6), "divide", Num(3))>>, <<>>)}
=============================================================================
