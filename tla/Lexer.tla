------------------------------- MODULE Lexer -------------------------------
(***************************************************************************)
(* The lexer, hivedb::lexer (src/src/parser/lexer.cpp): getTokens() runs   *)
(* over the text of a statement and makes tokens of it, one nextToken()    *)
(* per step.  A character is one of the constants below; the words in      *)
(* reservedKeywords may be as short as one letter, since only membership   *)
(* in the table matters.                                                   *)
(*                                                                         *)
(* m_nextPosition is always m_position + 1 and m_current is Char of        *)
(* m_position, so that m_position stands for the three of them.            *)
(***************************************************************************)
EXTENDS Naturals, Sequences, FiniteSetsExt

CONSTANTS
    Letters,            \* characters isLetter() accepts
    Digits,             \* characters isDigit() accepts
    Others,             \* characters that start no token
    reservedKeywords    \* text of a keyword -> its token type

VARIABLES
    m_input,            \* the text, and the terminating NUL of its buffer
    m_position,         \* index of the character being looked at, from 0
    m_tokens,           \* the tokens made so far
    scan                \* "scanning", "done", or "thrown": an exception left it

lexerVars == <<m_input, m_position, m_tokens, scan>>

SymbolType ==
    [c \in {"(", ")", "+", "-", "/", "*", ",", ".", "!", ";"} |->
        CASE c = "(" -> "parenthesesL" [] c = ")" -> "parenthesesR"
          [] c = "+" -> "add"          [] c = "-" -> "substract"
          [] c = "/" -> "divide"       [] c = "*" -> "star"
          [] c = "," -> "comma"        [] c = "." -> "dot"
          [] c = "!" -> "bang"         [] c = ";" -> "eof"]

Symbols == DOMAIN SymbolType
Blanks == {" ", "\n", "\r", "\t"}
Quote == "\""
NUL == "NUL"
Characters == Letters \cup Digits \cup Others \cup Symbols \cup Blanks \cup {Quote}

\* The token types that name a value, and those that are only a word or a sign.
ValueTypes == {"string", "identifier", "integer", "real"}
WordTypes == {reservedKeywords[w] : w \in DOMAIN reservedKeywords}
TokenTypes == ValueTypes \cup WordTypes \cup {SymbolType[c] : c \in Symbols}

Token(type, literal) == [type |-> type, literal |-> literal]

\* nextToken() tells the characters apart, and NUL is none of a statement's.
ASSUME LexerAssumption ==
    /\ \A w \in DOMAIN reservedKeywords : w # <<>> /\ w \in Seq(Letters)
    /\ Letters \cap Digits = {}
    /\ Others \cap (Letters \cup Digits) = {}
    /\ (Letters \cup Digits \cup Others) \cap (Symbols \cup Blanks \cup {Quote}) = {}
    /\ NUL \notin Characters

\* The character at an index of a text: NUL at the end and behind it.
At(text, i) == IF i < Len(text) THEN text[i + 1] ELSE NUL

\* What peek() and read() see.
Char(i) == At(m_input, i)

\* The bytes from index i to index j, as a view that does no check sees them.
View(i, j) ==
    [k \in 1 .. j + 1 - i |->
        IF i + k - 1 > Len(m_input) THEN "beyond the buffer" ELSE Char(i + k - 1)]

\* The last index of the longest run of characters of C that follows index i.
RunEnd(i, C) ==
    Max({j \in i .. Len(m_input) : \A k \in i + 1 .. j : Char(k) \in C})

\* The lexer when it is built; the constructor throws on an empty text.
LexerInit(text) == /\ m_input = text
                   /\ m_position = 0
                   /\ m_tokens = <<>>
                   /\ scan = IF text = <<>> THEN "thrown" ELSE "scanning"
-----------------------------------------------------------------------------
Looking(C) == scan = "scanning" /\ Char(m_position) \in C

\* Add a token and go on behind the character at index last.
AddToken(type, literal, last) ==
    /\ m_tokens' = Append(m_tokens, Token(type, literal))
    /\ m_position' = last + 1
    /\ UNCHANGED <<m_input, scan>>

addSymbol == /\ Looking(Symbols)
             /\ AddToken(SymbolType[Char(m_position)], <<>>, m_position)

skipBlank == /\ Looking(Blanks)
             /\ m_position' = m_position + 1
             /\ UNCHANGED <<m_input, m_tokens, scan>>

\* A mutation of addIdentifier: the table is asked for the first letter.
PrefixAddIdentifier ==
    /\ Looking(Letters)
    /\ LET last == RunEnd(m_position, Letters)
           word == View(m_position, last)
       IN  AddToken(IF SubSeq(word, 1, 1) \in DOMAIN reservedKeywords
                    THEN reservedKeywords[SubSeq(word, 1, 1)] ELSE "identifier",
                    word, last)

addIdentifier ==
    /\ Looking(Letters)
    /\ LET last == RunEnd(m_position, Letters)
           word == View(m_position, last)
       IN  AddToken(IF word \in DOMAIN reservedKeywords
                    THEN reservedKeywords[word] ELSE "identifier", word, last)

\* The test for a fraction looks at the last digit, not behind it, and fails.
addNumber ==
    /\ Looking(Digits)
    /\ LET last == RunEnd(m_position, Digits)
       IN  IF Char(last) = "." /\ Char(last + 1) \in Digits
           THEN LET end == RunEnd(last, Digits)
                IN  AddToken("real", View(m_position, end), end)
           ELSE AddToken("integer", View(m_position, last), last)

\* The end of the string that opens before index i: before the next quote that
\* is behind i, or the NUL when there is none.
StringEnd(i) ==
    LET quotes == {j \in i + 1 .. Len(m_input) : Char(j) = Quote}
    IN  IF quotes = {} THEN Len(m_input) ELSE Min(quotes) - 1

\* A mutation of parseString: the view begins at the opening quote and is as
\* long as before, one character behind the end of the string.
LongParseString ==
    /\ Looking({Quote})
    /\ LET last == StringEnd(m_position + 1)
       IN  AddToken("string", View(m_position + 1, last + 1), last + 1)

\* The quote is skipped, the text up to the next one taken, that one skipped.
parseString ==
    /\ Looking({Quote})
    /\ LET last == StringEnd(m_position + 1)
       IN  AddToken("string", View(m_position + 1, last), last + 1)

unknownCharacter == /\ Looking(Others)
                    /\ scan' = "thrown"
                    /\ UNCHANGED <<m_input, m_position, m_tokens>>

\* getTokens() returns.
endOfText == /\ Looking({NUL})
             /\ scan' = "done"
             /\ UNCHANGED <<m_input, m_position, m_tokens>>

LexerNext == \/ addSymbol
             \/ skipBlank
             \/ addIdentifier
             \/ addNumber
             \/ parseString
             \/ unknownCharacter
             \/ endOfText

\* A lexer for some text.
LexerSpec == (\E text \in Seq(Characters) : LexerInit(text)) /\ [][LexerNext]_lexerVars
-----------------------------------------------------------------------------
\* Types: in particular no literal is a view that ends behind the NUL of the
\* buffer, also where a string has no second quote (lexer.cpp:126-149).
LexerTypeOK ==
    /\ m_input \in Seq(Characters)
    /\ m_position \in 0 .. Len(m_input) + 2
    /\ m_tokens \in Seq([type : TokenTypes, literal : Seq(Characters \cup {NUL})])
    /\ scan \in {"scanning", "done", "thrown"}

\* What the lexer should make of a text.  A position is outside the strings if
\* the number of quotes before it is even.
OutsideStrings(text, i) == Cardinality({j \in 0 .. i - 1 : At(text, j) = Quote}) % 2 = 0

\* The positions at which the tokens begin.
TokenStarts(text) ==
    {i \in 0 .. Len(text) - 1 :
        /\ OutsideStrings(text, i)
        /\ \/ At(text, i) \in Symbols \cup {Quote}
           \/ At(text, i) \in Letters /\ (i = 0 \/ At(text, i - 1) \notin Letters)
           \/ At(text, i) \in Digits /\ (i = 0 \/ At(text, i - 1) \notin Digits)}

\* The characters of the token that begins at position i.
Extent(text, i) ==
    LET first == IF At(text, i) = Quote THEN i + 1 ELSE i
        C == CASE At(text, i) \in Letters -> Letters
               [] At(text, i) \in Digits -> Digits
               [] At(text, i) = Quote -> Characters \ {Quote}
               [] OTHER -> {}
        inside == {j \in first .. Len(text) - 1 : \A k \in first .. j : At(text, k) \in C}
    IN  [k \in 1 .. Cardinality(inside) |-> At(text, first + k - 1)]

ReferenceToken(text, i) ==
    Token(CASE At(text, i) \in Letters ->
                  IF Extent(text, i) \in DOMAIN reservedKeywords
                  THEN reservedKeywords[Extent(text, i)] ELSE "identifier"
            [] At(text, i) \in Digits -> "integer"
            [] At(text, i) = Quote -> "string"
            [] At(text, i) \in Symbols -> SymbolType[At(text, i)],
          Extent(text, i))

ReferenceTokens(text) ==
    LET starts == TokenStarts(text)
    IN  [k \in 1 .. Cardinality(starts) |->
            ReferenceToken(text, CHOOSE i \in starts :
                                    Cardinality({j \in starts : j < i}) = k - 1)]

\* Every string is closed, and none is empty.
StringsAreClosed(text) ==
    /\ OutsideStrings(text, Len(text))
    /\ \A i \in 0 .. Len(text) - 1 :
          At(text, i) = Quote /\ OutsideStrings(text, i) => At(text, i + 1) # Quote

\* Where a character outside the strings starts no token.
Strays(text) ==
    {i \in 0 .. Len(text) - 1 : OutsideStrings(text, i) /\ At(text, i) \in Others}

\* A text with closed strings is cut into the longest words and numbers, its
\* strings and its signs, each once and in order, without what is between them,
\* and refused only for a character outside the strings that starts none (lexer.cpp:56-181).
LexesLikeReference ==
    m_input # <<>> /\ StringsAreClosed(m_input) =>
       /\ scan = "done" => m_tokens = ReferenceTokens(m_input) /\ Strays(m_input) = {}
       /\ scan = "thrown" => m_position \in Strays(m_input)
=============================================================================
