CONSTANTS
    c1 = c1  c2 = c2  c3 = c3
    Run = {c1, c2, c3}
    Tasks <- OneLogin
    NoFile = NoFile
    Stale = Stale
    NoProgram = NoProgram
    Empty = Empty
    Mixture = Mixture
    MaxUpsets = 1
SPECIFICATION Spec
CHECK_DEADLOCK FALSE
INVARIANTS
    TypeOK
    AgentsCurrent
    AgentForNextTime
