\* Two transactions behind one throttler with a single slot; every fault,
\* lagging nodes, a connection at "confirmed".
SPECIFICATION Spec
CONSTANTS
    t1 = t1
    t2 = t2
    Tx = {t1, t2}
    StartHeight = 1
    LastValid = 2
    MaxHeight = 5
    MaxLag = 1
    Faults = {"simulate", "height", "send", "status", "fork"}
    SimulateTries = 2
    Grace = 2
    SendRate = 1
    StatusLevel = "confirmed"
    HeightLevel = "confirmed"
SYMMETRY Symmetry
INVARIANTS
    TypeOK
    ThrottlerConsistent
    SignatureMeansLanded
    ExpiredMeansNeverLands
    EarlyErrorMeansNotBroadcast
    AcknowledgedNeverSendError
PROPERTIES
    ImplementsOutcome
