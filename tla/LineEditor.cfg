SPECIFICATION Spec
CONSTANTS
    Letter <- OneLetter
    Other <- OneOther
    ExitLine <- Exit
    MaxLine = 2
    MaxSuffix = 2
    MaxQuery = 1
    HistSize = 4
    Careful = TRUE
INVARIANTS TypeOK PreviewExact PreviewNeverRuns
PROPERTIES ActsAsPlain
CHECK_DEADLOCK FALSE
