--------------------------- MODULE RewardAccrual ---------------------------
(***************************************************************************)
(* calcRewards of staking/solana/lib/rewards.ts: what a stake can claim,   *)
(* computed by the client from three accounts it has read, and the weight  *)
(* of a stake, from staking/solana/lib/stake-weight.ts.  BN divides        *)
(* towards zero.  A definition that no other uses is a plausible slip in   *)
(* the definition that follows it.                                         *)
(***************************************************************************)
EXTENDS Integers, Sequences, SequencesExt

CONSTANTS
    Scale,    \* SCALE_PRECISION_FACTOR
    Precision \* REWARD_AMOUNT_PRECISION_FACTOR

ASSUME RewardAssumption == {Scale, Precision} \subseteq Nat \ {0}

Quotient(a, b) == IF a >= 0 THEN a \div b ELSE -((-a) \div b)

(* calculateStakeWeight *)
WeightOfTheRest(minDuration, maxDuration, maxWeight, duration) ==
    IF maxDuration = minDuration THEN Scale
    ELSE Scale + Quotient((maxDuration - duration) * (maxWeight - Scale),
                          maxDuration - minDuration)

StakeWeight(minDuration, maxDuration, maxWeight, duration) ==
    IF maxDuration = minDuration THEN Scale
    ELSE LET normalized == Quotient((duration - minDuration) * Scale,
                                    maxDuration - minDuration)
             weight == Scale + Quotient(normalized * (maxWeight - Scale), Scale)
         IN  Max({weight, Scale})

(* The entry calcRewards starts from when no account exists for it.        *)
DefaultEntry(stake) ==
    [createdTs |-> stake.createdTs, accountedAmount |-> 0, claimedAmount |-> 0,
     lastAccountedTs |-> 0, lastRewardAmount |-> 0, lastRewardPeriod |-> 0]

-----------------------------------------------------------------------------
(* A segment is a span of time that ends at ts and is paid at one rate;    *)
(* step is the period by which lastAccountedTs advances.                   *)
Segment(ts, amount, period, step) ==
    [ts |-> ts, amount |-> amount, period |-> period, step |-> step]

Updated(updateTs, value, lastValue, stake) ==
    value # lastValue /\ updateTs > stake.createdTs /\ updateTs > stake.closedTs

NoUpdates(entry, stake, pool) == <<>>

(* The segments that end with an update of the pool.                       *)
Updates(entry, stake, pool) ==
    LET amount == entry.lastRewardAmount
        period == entry.lastRewardPeriod
        amountTs == pool.lastAmountUpdateTs
        periodTs == pool.lastPeriodUpdateTs
        amountUpdated == Updated(amountTs, pool.rewardAmount,
                                 pool.lastRewardAmount, stake)
        periodUpdated == Updated(periodTs, pool.rewardPeriod,
                                 pool.lastRewardPeriod, stake)
    IN  CASE amountUpdated /\ periodUpdated /\ amountTs < periodTs ->
               << Segment(amountTs, amount, period, pool.lastRewardPeriod),
                  Segment(periodTs, pool.rewardAmount, period, period) >>
          [] amountUpdated /\ periodUpdated /\ amountTs >= periodTs ->
               << Segment(periodTs, amount, period, pool.lastRewardPeriod),
                  Segment(amountTs, amount, pool.rewardPeriod, pool.rewardPeriod) >>
          [] amountUpdated /\ ~periodUpdated ->
               << Segment(amountTs, amount, period, period) >>
          [] periodUpdated /\ ~amountUpdated ->
               << Segment(periodTs, amount, period, period) >>
          [] OTHER -> <<>>

StakedTs(stake, pool) == Max({stake.createdTs, pool.createdTs})

ClaimableTs(stake, now) == IF stake.closedTs > 0 THEN stake.closedTs ELSE now

(* getAccountableAmount and getLastAccountedTs for one segment; a second   *)
(* of the past counts against lastAccountedTs, not against the amount.     *)
CountPartialPeriods(stake, stakedTs, acc, seg) ==
    LET from == IF acc.lastAccountedTs > 0 THEN acc.lastAccountedTs ELSE stakedTs
        passed == seg.ts - from
        periods == Quotient(passed + seg.period - 1, seg.period)
    IN  [accounted |-> acc.accounted
                + (periods * seg.amount * stake.effectiveAmount) \div Scale,
         lastAccountedTs |-> from + Quotient(passed, seg.step) * seg.step]

Count(stake, stakedTs, acc, seg) ==
    LET from == IF acc.lastAccountedTs > 0 THEN acc.lastAccountedTs ELSE stakedTs
        passed == seg.ts - from
        periods == IF passed < seg.period THEN 0 ELSE passed \div seg.period
    IN  [accounted |-> acc.accounted
                + (periods * seg.amount * stake.effectiveAmount) \div Scale,
         lastAccountedTs |-> from + Quotient(passed, seg.step) * seg.step]

(* A period of 0 makes BN throw, and the entry calcRewards makes up has    *)
(* one; an entry older than its stake is refused.                          *)
CalcThrows(entry, stake, pool) ==
    \/ entry.createdTs < stake.createdTs
    \/ entry.lastRewardPeriod = 0 /\ Updates(entry, stake, pool) # <<>>

(* What the updates of the pool leave to the entry, segment by segment.    *)
Tally(entry, stake, pool) ==
    FoldLeft(LAMBDA acc, seg : Count(stake, StakedTs(stake, pool), acc, seg),
             [accounted |-> entry.accountedAmount, lastAccountedTs |-> entry.lastAccountedTs],
             Updates(entry, stake, pool))

CalcRewards(entry, stake, pool, now) ==
    LET total == Count(stake, StakedTs(stake, pool), Tally(entry, stake, pool),
                       Segment(ClaimableTs(stake, now), pool.rewardAmount,
                               pool.rewardPeriod, pool.rewardPeriod))
    IN  Quotient(total.accounted - entry.claimedAmount * Precision, Precision)
=============================================================================
