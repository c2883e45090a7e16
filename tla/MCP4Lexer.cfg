SPECIFICATION LexerSpec
CONSTANTS
    Alnum <- MCAlnum
    Keywords <- MCKeywords
    Inputs <- MCInputs
    Literals <- MCLiterals
INVARIANTS
    LongestTokens
    RowsCounted
    EndAtEnd
    LiteralValue
PROPERTY
    CallsReturn
CHECK_DEADLOCK FALSE
