SPECIFICATION Spec
CONSTANTS
    Scale = 2
    Precision = 2
    Stakers = {"staker"}
    Nonces = {1}
    Amounts = {1, 3}
    Periods = {1, 2}
    MinDuration = 1
    MaxDuration = 2
    MaxWeight = 3
    PoolsBy = 2
    MaxTime = 5
INVARIANTS
    OnlySinceLastClaim
