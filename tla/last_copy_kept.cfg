SPECIFICATION FairSpec
CONSTANTS
    n1 = n1
    n2 = n2
    c1 = c1
    sjc = sjc
    Absent = Absent
    Unlabelled = Unlabelled
    Names <- OneName
    Clusters <- OneCluster
    Topologies <- OneTopology
    Blank <- NoTopology
    Padded <- NoTopology
    Disturbances <- Failing
    Resync = FALSE
    MaxGeneration = 1
    MaxClock = 0
    MaxLag = 2
    MaxDisturbances = 3
PROPERTY DeletedOnceAllowed
CHECK_DEADLOCK FALSE
