SPECIFICATION FairSpec
CONSTANTS
    n1 = n1
    n2 = n2
    c1 = c1
    sjc = sjc
    Absent = Absent
    Unlabelled = Unlabelled
    Names <- OneName
    Clusters <- OneCluster
    Topologies <- OneTopology
    Blank <- NoTopology
    Padded <- NoTopology
    Disturbances <- Creating
    Resync = FALSE
    MaxGeneration = 1
    MaxClock = 1
    MaxLag = 2
    MaxDisturbances = 1
PROPERTY StampSettles
CHECK_DEADLOCK FALSE
