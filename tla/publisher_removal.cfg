SPECIFICATION RSpec
CONSTANTS
    n1 = n1
    n2 = n2
    c1 = c1
    sjc = sjc
    Absent = Absent
    Unlabelled = Unlabelled
    Names <- TwoNames
    Clusters <- OneCluster
    Topologies <- OneTopology
    Blank <- NoTopology
    Padded <- NoTopology
    Disturbances <- Contending
    Resync = FALSE
    MaxGeneration = 1
    MaxClock = 0
    MaxLag = 2
    MaxDisturbances = 4
SYMMETRY Interchangeable
INVARIANT TypeOK
PROPERTY GuardHonoured EmptyListNotBelieved NoBlindWrite KeepsPromise
CHECK_DEADLOCK FALSE
