SPECIFICATION Spec
CONSTANTS
    s1 = s1
    s2 = s2
    n1 = n1
    n2 = n2
    n3 = n3
    Config = config
    None = none
    Session <- TwoSessions
    Node <- ThreeNodes
    DupMayFail = FALSE
SYMMETRY Symmetry
INVARIANTS TypeOK PollSetExact CandidateExtendsRunning DiscardedStaysOut
PROPERTIES StoreRefined RunningGrowsFromCandidate
CHECK_DEADLOCK FALSE
