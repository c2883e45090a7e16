SPECIFICATION CommandsSpec
CONSTANTS
    Files = {"main.p4", "lib/core.p4"}
    Dirs = {"root", "lib"}
    Ancestors <- MCAncestors
    Tails = {"-a", "-b"}
    Includes = {"", "p4include"}
    MaxEntries = 2
INVARIANTS
    CommandsTypeOK
    OnlyListedCommands
PROPERTY
    CommandsStay
