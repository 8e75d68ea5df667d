SPECIFICATION Spec
CONSTANTS
    FeeScale = 10
    MaxSafeTime = 100
    Calls = {1, 2}
    Operations <- MCOperations
    Config <- MCConfig
    BaseFee = 1
    ContractFee = 1
    Sender = "sender"
    Batch <- MCBatch
    Coins = {0, 1, 3}
    TotalFee = 1
    Retries = 2
INVARIANTS
    TypeOK
    AnswersAreRight
    ThrownMeansRefused
    FailingIsTold
    EnoughFunds
    CreatedAsAsked
PROPERTIES
    CallEnds
CHECK_DEADLOCK FALSE
