SPECIFICATION FairSpec
CONSTANTS
    gold = gold
    n1 = n1
    Absent = Absent
    Classes <- OneClass
    Names <- OneName
    Cities = {"empty", "code"}
    Disturbances <- Everyone
    MaxGeneration = 2
    MaxLag = 2
    MaxDisturbances = 4
INVARIANT TypeOK NoLocationForgotten NoAcceptanceForgotten
PROPERTY ReadinessSettles AcceptanceSettles ReadyGaugeSettles
CHECK_DEADLOCK FALSE
