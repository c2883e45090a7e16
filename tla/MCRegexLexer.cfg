SPECIFICATION SubsetSpec
CONSTANTS
    Chars = 2
    MaxInput = 4
    RegexLists <- MCRegexLists
    Automata <- MCAutomata
INVARIANTS
    TablesAligned
    TableExact
    LongestFirst
PROPERTY
    Compiles
CHECK_DEADLOCK FALSE
