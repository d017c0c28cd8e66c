SPECIFICATION FairSpec
CONSTANTS
    n1 = n1
    n2 = n2
    c1 = c1
    c2 = c2
    None = None
    Names <- TwoNames
    Cells <- TwoCells
    MaxDisturbances = 4
INVARIANT TypeOK
PROPERTY ServedCopyKept AnswersFollowLabels
CHECK_DEADLOCK FALSE
