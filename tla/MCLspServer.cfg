SPECIFICATION ServerSpec
CONSTANTS
    Ids = {1, 2}
    Messages <- MCMessages
    Junk = Junk
    MaxSent = 3
INVARIANTS
    ServerTypeOK
    DrainedOnReturn
    OneLateMessage
    RepliesInOrder
PROPERTIES
    PostsFrames
    EofEndsRun
    ExitEndsRunAtNextRead
    PostedIsHandled
