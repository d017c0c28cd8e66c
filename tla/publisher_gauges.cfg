SPECIFICATION ReadyFleetSpec
CONSTANTS
    n1 = n1
    n2 = n2
    c1 = c1
    sjc = sjc
    lax = lax
    blank = blank
    Absent = Absent
    Unlabelled = Unlabelled
    Names <- TwoNames
    Clusters <- OneCluster
    Topologies <- OneTopology
    Blank <- NoTopology
    Padded <- NoTopology
    Disturbances <- Refusing
    Resync = TRUE
    MaxGeneration = 1
    MaxClock = 0
    MaxLag = 1
    MaxDisturbances = 4
INVARIANT MetricsTypeOK NothingMisreported
PROPERTY FleetSettles RefusalsReported PublicationsReported NothingReportedOfNothing
CHECK_DEADLOCK FALSE
