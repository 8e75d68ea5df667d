\* The only failure is a send whose answer is an error.
SPECIFICATION Spec
CONSTANTS
    t1 = t1
    Tx = {t1}
    StartHeight = 1
    LastValid = 3
    MaxHeight = 6
    MaxLag = 1
    Faults = {"send"}
    SimulateTries = 3
    Grace = 2
    SendRate = 1
    StatusLevel = "confirmed"
    HeightLevel = "confirmed"
INVARIANTS
    LandedNeverRejected
