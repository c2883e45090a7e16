SPECIFICATION DocumentsSpec
CONSTANTS
    Bytes = {"a", "b", "lead", "lead4", "next"}
    Newline = "nl"
    ContinuationBytes = {"next"}
    FourByteLeads = {"lead4"}
    Files = {"main.p4"}
    Dirs = {"root"}
    Ancestors <- MCAncestors
    Tails = {"-a"}
    Includes = {""}
    MaxEntries = 0
    Texts <- MCTexts
    Insertions <- MCInsertions
    MaxLength = 5
    MaxLost = 1
INVARIANTS
    DocumentsTypeOK
    Synchronised
    PositionIndexExact
