CONSTANTS
    letter = letter  exe1 = exe1  exe2 = exe2
    Letter = {letter}
    LineFeed = LineFeed
    Tag = Tag
    Executable = {exe1, exe2}
    NoExecutable = NoExecutable
    Running = Running
    Signal = Signal
    MaxBytes = 2
SPECIFICATION FairSpec
INVARIANTS
    TypeOK
    OutputComplete
    CodeIsCargos
    RunsWhatWasBuilt
PROPERTIES
    BuildEnds
