SPECIFICATION Spec
CONSTANTS
    FeeScale = 10
    Fee = 1
    MaxSafeTime = 100
    MaxTime = 6
    Ids <- MCIds
    Senders <- MCSenders
    Recipients <- MCRecipients
    Partners <- MCPartners
    Shapes <- MCShapes
    Prices <- MCPrices
    Rates = {2}
    TopupAmount = 2
    MaxDeposit = 5
    Queries <- MCQueries
    QueryTime = 2
INVARIANTS
    TypeOK
    BuiltIsAccepted
    GetIsRight
    UnlockedIsExact
PROPERTIES
    KeepsItsType
CHECK_DEADLOCK FALSE
