SPECIFICATION Spec
CONSTANTS
    s1 = s1
    s2 = s2
    n1 = n1
    n2 = n2
    n3 = n3
    Config = config
    None = none
    Session <- OneSession
    Node <- TwoNodes
    DupMayFail = FALSE
INVARIANT EditReachesCandidate
CHECK_DEADLOCK FALSE
