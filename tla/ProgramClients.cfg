\* An airdrop, a launchpad and a reward pool; the clock is bounded.
SPECIFICATION Spec
CONSTANTS
    OneInBasisPoints = 10
    Drops <- MCDrops
    Schedules <- MCSchedules
    Closable <- MCClosable
    MinUpdatePeriod = 2
    Offers <- MCOffers
    Depositors <- MCDepositors
    DepositArgs <- MCDepositArgs
    FundAmount = 4
    MaxFunds = 0
    FeeValues = {0, 1}
    FundBound = 2
    MaxTime = 4
INVARIANTS
    TypeOK
    AirdropCallsSucceed
    ClaimTakesAll
    VaultCoversClaims
    LaunchpadCallsSucceed
    CreditedToOwner
    FundingSucceeds
    SearchesFind
CHECK_DEADLOCK FALSE
