SPECIFICATION Spec
CONSTANTS
    Letter <- OneLetter
    Other <- OneOther
    ExitLine <- Exit
    MaxLine = 3
    MaxSuffix = 2
    MaxQuery = 1
    HistSize = 2
    Careful = FALSE
INVARIANTS PreviewNeverRuns
CHECK_DEADLOCK FALSE
