SPECIFICATION FairSpec
CONSTANTS
    gold = gold
    n1 = n1
    Absent = Absent
    Classes <- OneClass
    Names <- OneName
    Cities = {"code"}
    Disturbances <- Everyone
    MaxGeneration = 2
    MaxLag = 2
    MaxDisturbances = 2
PROPERTY NotFoundMeansAbsent
CHECK_DEADLOCK FALSE
