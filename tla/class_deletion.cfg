SPECIFICATION FairSpec
CONSTANTS
    gold = gold
    silver = silver
    Absent = Absent
    Classes <- TwoClasses
    Names = {1, 2}
    Disturbances <- Everyone
    SampleSize = 1
    MaxLag = 2
    MaxDisturbances = 5
INVARIANT TypeOK NoClassForgotten
PROPERTY KnownNamesHonoured ClassesHeld DeletionsComplete BlockedDeletionsExplained BlockedDeletionsReported
CHECK_DEADLOCK FALSE
