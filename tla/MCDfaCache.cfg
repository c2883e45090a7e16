SPECIFICATION CacheSpec
CONSTANTS
    Servers <- MCServers
    Builds <- MCBuilds
    Size = 3
    MaxStarts = 4
INVARIANTS
    CacheTypeOK
    TablesOfBuild
    CompiledOnce
PROPERTY
    GetsReady
CHECK_DEADLOCK FALSE
