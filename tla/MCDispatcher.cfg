SPECIFICATION DispatchSpec
CONSTANTS
    Ids = {1, 2}
    Messages <- MCMessages
    MaxOutput = 2
CONSTRAINT OutputBound
INVARIANTS
    DispatchTypeOK
    ContextBalanced
    ContextOfCaller
PROPERTY
    ImplementsPromise
CHECK_DEADLOCK FALSE
