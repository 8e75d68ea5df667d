\* The only failure are sends, which may fail for ever.
SPECIFICATION WeakFairSpec
CONSTANTS
    t1 = t1
    Tx = {t1}
    StartHeight = 1
    LastValid = 2
    MaxHeight = 5
    MaxLag = 1
    Faults = {"send"}
    SimulateTries = 1
    Grace = 2
    SendRate = 1
    StatusLevel = "processed"
    HeightLevel = "processed"
PROPERTIES
    EndsOnExpiry
