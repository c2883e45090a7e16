SPECIFICATION StreamSpec
CONSTANTS
    Pieces <- MCPieces
    MaxPieces = 4
    Directed = {1, 7}
INVARIANTS
    TokensInOrder
    LinesAsDirected
PROPERTIES
    CompileReturns
CHECK_DEADLOCK FALSE
