CONSTANTS
    c1 = c1  c2 = c2  c3 = c3
    Run = {c1, c2}
    Tasks <- TwoPrograms
    NoFile = NoFile
    Stale = Stale
    NoProgram = NoProgram
    Empty = Empty
    Mixture = Mixture
    MaxUpsets = 0
SPECIFICATION Spec
CHECK_DEADLOCK FALSE
INVARIANTS
    RunsOwnProgram
