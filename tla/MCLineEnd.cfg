SPECIFICATION DocumentsSpec
CONSTANTS
    Bytes = {"a", "b", "lead", "lead4", "next"}
    Newline = "nl"
    ContinuationBytes = {"next"}
    FourByteLeads = {"lead4"}
    Files = {"main.p4"}
    Dirs = {"root"}
    Ancestors <- MCAncestors
    Tails = {"-a"}
    Includes = {""}
    MaxEntries = 1
    Texts <- MCTexts
    Insertions <- MCInsertions
    MaxLength = 4
    MaxLost = 1
INVARIANT
    LongPositionIsLineEnd
