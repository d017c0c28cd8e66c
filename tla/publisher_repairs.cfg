SPECIFICATION FairMSpec
CONSTANTS
    n1 = n1
    n2 = n2
    c1 = c1
    sjc = sjc
    lax = lax
    blank = blank
    Absent = Absent
    Unlabelled = Unlabelled
    Names <- OneName
    Clusters <- OneCluster
    Topologies <- WithLaxAndBlank
    Blank <- JustBlank
    Padded <- NoTopology
    Disturbances <- Repair
    Resync = FALSE
    MaxGeneration = 2
    MaxClock = 1
    MaxLag = 2
    MaxDisturbances = 3
INVARIANT FleetKnown NothingMisreported
PROPERTY LiveLocationsPublished StampTracksContent PublicationsReported
CHECK_DEADLOCK FALSE
