SPECIFICATION SettledSpec
CONSTANTS
    n1 = n1
    n2 = n2
    c1 = c1
    sjc = sjc
    blank = blank
    Absent = Absent
    Unlabelled = Unlabelled
    Names <- TwoNames
    Clusters <- OneCluster
    Topologies <- WithBlank
    Blank <- JustBlank
    Padded <- NoTopology
    Disturbances <- Failing
    Resync = FALSE
    MaxGeneration = 1
    MaxClock = 0
    MaxLag = 2
    MaxDisturbances = 3
INVARIANT LateTypeOK NothingForgotten
PROPERTY LiveLocationsPublished RemovalsResolved
CHECK_DEADLOCK FALSE
