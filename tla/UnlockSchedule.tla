--------------------------- MODULE UnlockSchedule ---------------------------
(***************************************************************************)
(* contractUtils.ts of the stream package: how much of a stream is         *)
(* unlocked at a time, and the kind of a stream, both recomputed by the    *)
(* client from the fields of the account; and the total that a creation    *)
(* takes, from common/utils.ts.  A definition that no other uses is a      *)
(* plausible slip in the definition that follows it.                       *)
(***************************************************************************)
EXTENDS Integers

CONSTANTS
    FeeScale,   \* FEE_MULTIPLIER
    MaxSafeTime \* MAX_SAFE_UNIX_TIME_VALUE

ASSUME ScheduleAssumption ==
    FeeScale \in Nat \ {0} /\ MaxSafeTime \in Nat

Least(a, b) == IF a < b THEN a ELSE b

(* calculateTotalAmountToDeposit; the fee in units of 1/FeeScale.          *)
TotalAmountToDeposit(amount, fee) == (amount * (fee + FeeScale)) \div FeeScale

(* decodeEndTime *)
EndTime(end) == IF end > MaxSafeTime THEN MaxSafeTime ELSE end

(* calculateUnlockedAmount *)
UnlockedFromCliff(s, t) ==
    IF t < s.cliff THEN 0
    ELSE IF t > EndTime(s.end) THEN s.deposited
    ELSE Least(((t - s.cliff) \div s.period) * s.amountPerPeriod + s.cliffAmount,
               s.deposited)

Unlocked(s, t) ==
    LET changed == s.lastRateChangeTime # 0
        saved == IF changed THEN s.fundsUnlockedAtLastRateChange ELSE s.cliffAmount
        since == IF changed THEN s.lastRateChangeTime ELSE s.cliff
    IN  IF t < s.cliff THEN 0
        ELSE IF t > EndTime(s.end) THEN s.deposited
        ELSE Least(((t - since) \div s.period) * s.amountPerPeriod + saved, s.deposited)

-----------------------------------------------------------------------------
(* A stream that is not aligned has no prices.                             *)
NoPrices == [minPrice |-> 0, maxPrice |-> 0, minPercentage |-> 0, maxPercentage |-> 0]

IsCliffClose(s) == s.cliffAmount >= s.deposited - 1

IsDynamicLock(p) ==
    /\ p.minPrice > 0 /\ p.maxPrice # 0
    /\ p.maxPrice - p.minPrice <= 1
    /\ p.minPercentage = 0 /\ p.maxPercentage = 100

IsVesting(s, p) == ~s.canTopup /\ ~IsCliffClose(s) /\ ~IsDynamicLock(p)

IsTokenLock(s, p) ==
    /\ ~s.canTopup /\ ~s.automaticWithdrawal
    /\ ~s.cancelableBySender /\ ~s.cancelableByRecipient
    /\ ~s.transferableBySender /\ ~s.transferableByRecipient
    /\ IsCliffClose(s) \/ IsDynamicLock(p)

(* buildStreamType *)
StreamTypeByCliff(s, p) ==
    CASE ~IsCliffClose(s) /\ ~IsDynamicLock(p) -> "vesting"
      [] IsTokenLock(s, p) -> "lock"
      [] OTHER -> "payment"

StreamType(s, p) ==
    CASE IsVesting(s, p) -> "vesting"
      [] ~IsVesting(s, p) /\ IsTokenLock(s, p) -> "lock"
      [] ~IsVesting(s, p) /\ ~IsTokenLock(s, p) -> "payment"
=============================================================================
