CONSTANTS
    Letters <- MCLetters
    Digits = {"0", "1", "2", "3", "4", "5", "6", "7", "8", "9"}
    Others = {"#"}
    reservedKeywords <- MCKeywords
    Texts <- MCTexts
    TokenLists <- MCTokenLists
    Statements <- MCStatements

SPECIFICATION Spec
INVARIANTS
    LexerTypeOK
    LexesLikeReference
    RoundTrip
    ReadsItsTokens
    EvaluatesLikeReference

\* A statement is lexed, parsed and executed once.
CHECK_DEADLOCK FALSE
