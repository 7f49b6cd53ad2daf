SPECIFICATION LiveSpec
CONSTANTS
    s1 = s1
    s2 = s2
    n1 = n1
    n2 = n2
    n3 = n3
    Config = config
    None = none
    Session <- TwoSessions
    Node <- OneNode
    DupMayFail = TRUE
PROPERTIES FailedEditAddsNothing ShutdownCompletes RequestServed
CHECK_DEADLOCK FALSE
