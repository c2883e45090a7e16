SPECIFICATION GrammarSpec
CONSTANTS
    CharSet <- MCCharSet
    ClassExprs <- MCClassExprs
    Members <- MCMembers
    WordChars <- MCWordChars
    MaxWord = 3
    Regexes <- MCRegexes
INVARIANTS
    Balanced
    ParsedAsMeant
CHECK_DEADLOCK FALSE
