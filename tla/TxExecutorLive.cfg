\* Two transactions, one slot; sends and height calls fail, but not for ever.
SPECIFICATION FairSpec
CONSTANTS
    t1 = t1
    t2 = t2
    Tx = {t1, t2}
    StartHeight = 1
    LastValid = 2
    MaxHeight = 3
    MaxLag = 0
    Faults = {"height", "send"}
    SimulateTries = 1
    Grace = 1
    SendRate = 1
    StatusLevel = "processed"
    HeightLevel = "processed"
PROPERTIES
    EverySettles
