\* createMultiple with three recipients, with and without keys of the caller.
SPECIFICATION FairSpec
CONSTANTS
    N = 3
    Variants = {"parallel", "ephemeral"}
    Durable = TRUE
INVARIANTS
    TypeOK
    PreparedFirst
    ThrownMeansNothingCreated
    OneResultEach
    ResultsAreRight
    OneAtATime
PROPERTIES
    CallEnds
