CONSTANTS
    c1 = c1  c2 = c2
    Client = {c1, c2}
    Tasks <- BuildAndOther
    NoSocket = NoSocket
    Nobody = Nobody
    MaxCrashes = 1
    MaxAborts = 1
    MaxOutput = 1
SPECIFICATION FairSpec
INVARIANTS
    TypeOK
    Transparent
    KeptIsClean
    DaemonUnderstands
    HintIsOfABuild
PROPERTIES
    AgentIsRelay
    RunsEnd
