SPECIFICATION Spec
CONSTANTS
    f1 = f1
    f2 = f2
    s1 = s1
    Flow <- Flow_
    Scratch <- Scratch_
    Families <- Families_
    MaxActive = 1
    Weight <- Weight_
    Cap = 2
    MaxParks = 2
    MaxFaults = 1
INVARIANTS StampMeansAnswered
CHECK_DEADLOCK FALSE
