------------------------------ MODULE Staking ------------------------------
(***************************************************************************)
(* SolanaStakingClient (staking/solana/client.ts) and the programs it      *)
(* calls.  One action per operation: an operation names some accounts, the *)
(* descriptor completes them, and the program accepts or refuses them.     *)
(* The programs are not part of the repository: what they store is what    *)
(* the descriptors say of each field.  They pay every period once, at the  *)
(* rate that holds when it ends; `ideal` keeps their accounts.  The client *)
(* recomputes them with calcRewards from what it reads.                    *)
(***************************************************************************)
EXTENDS StakingPrograms, RewardAccrual, AccountLayouts

CONSTANTS
    Stakers,
    Nonces,      \* of stake entries
    Amounts,     \* values of rewardAmount
    Periods,     \* values of rewardPeriod
    MinDuration, MaxDuration, MaxWeight,
    PoolsBy,     \* bound of the time without a reward pool
    MaxTime      \* bound of the clock

ASSUME StakingAssumption ==
    /\ Nonces \subseteq Nat
    /\ Amounts \cup Periods \subseteq Nat \ {0}
    /\ {MinDuration, MaxDuration, PoolsBy, MaxTime} \subseteq Nat \ {0}
    /\ MinDuration <= MaxDuration /\ MaxWeight \in Nat
    /\ PoolsBy <= MaxTime
    /\ Missing[1] \notin Stakers

Creator == <<"creator">>
StakeToken == <<"stake token">>
RewardToken == <<"reward token">>
Wallets == {<<s>> : s \in Stakers}
Durations == MinDuration..MaxDuration

VARIABLES
    now,
    accounts, \* address -> contents
    ideal     \* stake entry -> what its rewards should be

vars == <<now, accounts, ideal>>

PoolAddress == StakePoolPDA(StakeToken, Creator, 0)
RewardPoolAddress == RewardPoolPDA(PoolAddress, RewardToken, 0)

Exists(a) == a \in DOMAIN accounts
OfKind(prefix) == {a \in DOMAIN accounts : a[1] = prefix}
StakeEntries == OfKind("stake-entry")
RewardEntries == OfKind("reward-entry")
RewardPool == accounts[RewardPoolAddress]

(* The contents of accounts, without those the client never uses.          *)
StakePoolType ==
    [nonce : Nat, mint : {StakeToken}, creator : {Creator},
     authority : {Creator}, vault : {StakeVaultPDA(PoolAddress)},
     stakeMint : {StakeMintPDA(PoolAddress)}]

StakeEntryType ==
    [nonce : Nonces, stakePool : {PoolAddress}, payer : Wallets,
     authority : Wallets, duration : Durations, effectiveAmount : Nat,
     createdTs : 1..MaxTime, closedTs : 0..MaxTime]

RewardPoolType ==
    [nonce : Nat, stakePool : {PoolAddress}, mint : {RewardToken},
     authority : {Creator}, vault : {RewardVaultPDA(RewardPoolAddress)},
     rewardAmount : Amounts, rewardPeriod : Periods,
     lastRewardAmount : Amounts, lastRewardPeriod : Periods,
     lastAmountUpdateTs : 0..MaxTime, lastPeriodUpdateTs : 0..MaxTime,
     createdTs : 1..MaxTime]

RewardEntryType ==
    [rewardPool : {RewardPoolAddress}, stakeEntry : StakeEntries,
     createdTs : 1..MaxTime, accountedAmount : Nat, claimedAmount : Nat,
     lastAccountedTs : 0..MaxTime, lastRewardAmount : Amounts,
     lastRewardPeriod : Periods]

TypeOK ==
    /\ now \in 1..MaxTime
    /\ \A a \in DOMAIN accounts :
         accounts[a] \in CASE a[1] = "stake-pool"   -> StakePoolType
                           [] a[1] = "stake-entry"  -> StakeEntryType
                           [] a[1] = "reward-pool"  -> RewardPoolType
                           [] a[1] = "reward-entry" -> RewardEntryType
    /\ DOMAIN ideal = StakeEntries
    /\ \A a \in StakeEntries :
         ideal[a] \in [earned : Nat, running : Nat, from : 1..MaxTime, claimedTs : 0..MaxTime,
                       late : BOOLEAN, amountUpdates : Nat, periodUpdates : Nat]

Init ==
    /\ now = 1
    /\ accounts = <<>>
    /\ ideal = <<>>

-----------------------------------------------------------------------------
(* The accounts each operation of the client names, from its arguments.    *)
StakeAccounts(stakePool, mint, staker) ==
    [stakePool |-> stakePool, from |-> TokenAccount(mint, staker),
     to |-> TokenAccount(StakeMintPDA(stakePool), staker),
     authority |-> staker, payer |-> staker]

UnstakeAccounts(stakePool, mint, nonce, staker) ==
    [stakeEntry |-> StakeEntryPDA(stakePool, staker, nonce),
     to |-> TokenAccount(mint, staker),
     from |-> TokenAccount(StakeMintPDA(stakePool), staker),
     authority |-> staker]

CreateRewardEntryAccounts(stakePool, poolNonce, nonce, mint, staker) ==
    [payer |-> staker, authority |-> staker,
     stakeEntry |-> StakeEntryPDA(stakePool, staker, nonce),
     rewardPool |-> RewardPoolPDA(stakePool, mint, poolNonce)]

ClaimAccounts(stakePool, poolNonce, nonce, mint, staker) ==
    [stakeEntry |-> StakeEntryPDA(stakePool, staker, nonce),
     rewardPool |-> RewardPoolPDA(stakePool, mint, poolNonce),
     claimant |-> staker, to |-> TokenAccount(mint, staker)]

UpdateAccounts(rewardPool, stakePool, invoker) ==
    [stakePool |-> stakePool, authority |-> invoker, rewardPool |-> rewardPool]

Permitted(ix, addr, args, invoker) == Accepts(ix, addr, args, accounts, invoker)

-----------------------------------------------------------------------------
(* The periods that ended by time t belong to the stake.  What it has      *)
(* earned is rounded when the rate changes and when it is claimed.         *)
Accrued(i, t, amount, period) ==
    LET periods == (t - i.from) \div period IN
    [i EXCEPT !.running = @ + periods * amount, !.from = @ + periods * period]

Earned(i, stake) == i.earned + (i.running * stake.effectiveAmount) \div Scale

Rounded(i, stake) == [i EXCEPT !.earned = Earned(i, stake), !.running = 0]

AccruedAll(earlier, t, pool) ==
    [a \in DOMAIN ideal |->
        IF accounts[a].closedTs > 0 THEN earlier[a]
        ELSE Accrued(earlier[a], t, pool.rewardAmount, pool.rewardPeriod)]

RoundedAll == [a \in DOMAIN ideal |-> Rounded(ideal[a], accounts[a])]

Tick ==
    /\ now < IF Exists(RewardPoolAddress) THEN MaxTime ELSE PoolsBy
    /\ now' = now + 1
    /\ ideal' = IF Exists(RewardPoolAddress) THEN AccruedAll(ideal, now', RewardPool)
                ELSE ideal
    /\ UNCHANGED accounts

CreateStakePool ==
    LET given == [creator |-> Creator, mint |-> StakeToken]
        args == [nonce |-> 0]
        addr == Completed(CreateStakePoolIx, given, args, accounts)
    IN  /\ ~Exists(addr.stakePool)
        /\ Permitted(CreateStakePoolIx, addr, args, Creator)
        /\ accounts' = Stored(accounts, addr.stakePool,
              [nonce |-> args.nonce, mint |-> addr.mint, creator |-> addr.creator,
               authority |-> addr.creator, vault |-> addr.vault,
               stakeMint |-> addr.stakeMint])
        /\ UNCHANGED <<now, ideal>>

CreateRewardPool ==
    \E amount \in Amounts, period \in Periods :
        LET given == [creator |-> Creator, stakePool |-> PoolAddress,
                      mint |-> RewardToken]
            args == [nonce |-> 0]
            addr == Completed(CreateRewardPoolIx, given, args, accounts)
        IN  /\ Exists(PoolAddress) /\ ~Exists(addr.rewardPool)
            /\ Permitted(CreateRewardPoolIx, addr, args, Creator)
            /\ accounts' = Stored(accounts, addr.rewardPool,
                  [nonce |-> args.nonce, stakePool |-> addr.stakePool,
                   mint |-> addr.mint, authority |-> addr.creator,
                   vault |-> addr.vault, rewardAmount |-> amount,
                   rewardPeriod |-> period, lastRewardAmount |-> amount,
                   lastRewardPeriod |-> period, lastAmountUpdateTs |-> 0,
                   lastPeriodUpdateTs |-> 0, createdTs |-> now])
            /\ ideal' = [a \in DOMAIN ideal |-> [ideal[a] EXCEPT !.from = now]]
            /\ UNCHANGED now

StakeTokens(staker, nonce, duration) ==
    LET given == StakeAccounts(PoolAddress, StakeToken, staker)
        args == [nonce |-> nonce]
        addr == Completed(StakeIx, given, args, accounts)
    IN  /\ ~Exists(addr.stakeEntry)
        /\ Permitted(StakeIx, addr, args, staker)
        /\ accounts' = Stored(accounts, addr.stakeEntry,
              [nonce |-> nonce, stakePool |-> addr.stakePool, payer |-> addr.payer,
               authority |-> addr.authority, duration |-> duration,
               effectiveAmount |-> StakeWeight(MinDuration, MaxDuration, MaxWeight, duration),
               createdTs |-> now, closedTs |-> 0])
        /\ ideal' = Stored(ideal, addr.stakeEntry,
              [earned |-> 0, running |-> 0, from |-> now, claimedTs |-> 0, late |-> FALSE,
               amountUpdates |-> 0, periodUpdates |-> 0])
        /\ UNCHANGED now

(* A stake is locked for its duration.                                     *)
Unstake(staker, nonce) ==
    LET given == UnstakeAccounts(PoolAddress, StakeToken, nonce, staker)
        addr == Completed(UnstakeIx, given, <<>>, accounts)
        entry == addr.stakeEntry
    IN  /\ Exists(entry) /\ accounts[entry].closedTs = 0
        /\ now >= accounts[entry].createdTs + accounts[entry].duration
        /\ Permitted(UnstakeIx, addr, <<>>, staker)
        /\ accounts' = [accounts EXCEPT ![entry].closedTs = now]
        /\ UNCHANGED <<now, ideal>>

InStep(i) == [i EXCEPT !.late = @ \/ i.amountUpdates + i.periodUpdates > 0]

CreateRewardEntry(staker, nonce) ==
    LET given == CreateRewardEntryAccounts(PoolAddress, 0, nonce, RewardToken, staker)
        addr == Completed(CreateEntryIx, given, <<>>, accounts)
    IN  /\ Exists(addr.stakeEntry) /\ Exists(addr.rewardPool)
        /\ ~Exists(addr.rewardEntry)
        /\ Permitted(CreateEntryIx, addr, <<>>, staker)
        /\ accounts' = Stored(accounts, addr.rewardEntry,
              [rewardPool |-> addr.rewardPool, stakeEntry |-> addr.stakeEntry,
               createdTs |-> now, accountedAmount |-> 0, claimedAmount |-> 0,
               lastAccountedTs |-> 0, lastRewardAmount |-> RewardPool.rewardAmount,
               lastRewardPeriod |-> RewardPool.rewardPeriod])
        /\ ideal' = [ideal EXCEPT ![addr.stakeEntry] = InStep(@)]
        /\ UNCHANGED now

ClaimRewards(staker, nonce) ==
    LET given == ClaimAccounts(PoolAddress, 0, nonce, RewardToken, staker)
        addr == Completed(ClaimRewardsIx, given, <<>>, accounts)
        i == Rounded(ideal[addr.stakeEntry], accounts[addr.stakeEntry])
    IN  /\ Exists(addr.rewardEntry) /\ Permitted(ClaimRewardsIx, addr, <<>>, staker)
        /\ accounts' = [accounts EXCEPT ![addr.rewardEntry] =
              [@ EXCEPT !.accountedAmount = i.earned,
                        !.claimedAmount = i.earned \div Precision,
                        !.lastAccountedTs = i.from,
                        !.lastRewardAmount = RewardPool.rewardAmount,
                        !.lastRewardPeriod = RewardPool.rewardPeriod]]
        /\ ideal' = [ideal EXCEPT ![addr.stakeEntry] = [InStep(i) EXCEPT !.claimedTs = now]]
        /\ UNCHANGED now

(* updatePool: the amount, the period or both; the same parameter not      *)
(* again before the longest stake is over.                                 *)
TooSoon(updateTs) == updateTs > 0 /\ now < updateTs + MaxDuration

UpdateRewardPool ==
    \E amount \in Amounts, period \in Periods :
        LET old == RewardPool
            newAmount == amount # old.rewardAmount
            newPeriod == period # old.rewardPeriod
            pool == [old EXCEPT
                !.rewardAmount = amount, !.rewardPeriod = period,
                !.lastRewardAmount = IF newAmount THEN old.rewardAmount ELSE @,
                !.lastRewardPeriod = IF newPeriod THEN old.rewardPeriod ELSE @,
                !.lastAmountUpdateTs = IF newAmount THEN now ELSE @,
                !.lastPeriodUpdateTs = IF newPeriod THEN now ELSE @]
            counted == AccruedAll(RoundedAll, now, pool)
            addr == Completed(UpdatePoolIx, UpdateAccounts(RewardPoolAddress, PoolAddress, Creator),
                              <<>>, accounts)
        IN  /\ newAmount \/ newPeriod
            /\ newAmount => ~TooSoon(old.lastAmountUpdateTs)
            /\ newPeriod => ~TooSoon(old.lastPeriodUpdateTs)
            /\ Permitted(UpdatePoolIx, addr, <<>>, Creator)
            /\ accounts' = [accounts EXCEPT ![RewardPoolAddress] = pool]
            /\ ideal' = [a \in DOMAIN ideal |-> [counted[a] EXCEPT
                  !.amountUpdates = @ + IF newAmount THEN 1 ELSE 0,
                  !.periodUpdates = @ + IF newPeriod THEN 1 ELSE 0]]
            /\ UNCHANGED now

UpdatePool == Exists(RewardPoolAddress) /\ UpdateRewardPool

Next ==
    \/ Tick \/ CreateStakePool \/ CreateRewardPool \/ UpdatePool
    \/ \E s \in Wallets, n \in Nonces :
          \/ \E d \in Durations : StakeTokens(s, n, d)
          \/ Unstake(s, n) \/ CreateRewardEntry(s, n) \/ ClaimRewards(s, n)

Spec == Init /\ [][Next]_vars

-----------------------------------------------------------------------------
RewardEntryOf(stake) == RewardEntryPDA(RewardPoolAddress, stake)

(* What calcRewards makes of a stake, read from the chain.                 *)
EntryRead(a) == IF Exists(RewardEntryOf(a)) THEN accounts[RewardEntryOf(a)]
                ELSE DefaultEntry(accounts[a])
Throws(a) == CalcThrows(EntryRead(a), accounts[a], RewardPool)
Shown(a) == CalcRewards(EntryRead(a), accounts[a], RewardPool, now)

Owed(a) ==
    LET claimed == IF Exists(RewardEntryOf(a))
                   THEN accounts[RewardEntryOf(a)].claimedAmount ELSE 0
    IN  (Earned(ideal[a], accounts[a]) - claimed * Precision) \div Precision

(* The entry was created and last claimed before the updates since the     *)
(* stake: at most one of each parameter, not both at once, and none in the *)
(* second of the stake.                                                    *)
Followed(a) ==
    LET since(ts) == IF ts > accounts[a].createdTs THEN 1 ELSE 0
        amountTs == RewardPool.lastAmountUpdateTs
        periodTs == RewardPool.lastPeriodUpdateTs
    IN  /\ ~ideal[a].late
        /\ ideal[a].amountUpdates = since(amountTs)
        /\ ideal[a].periodUpdates = since(periodTs)
        /\ amountTs = periodTs => since(amountTs) = 0

(* calcRewards (rewards.ts:131-226) shows exactly what the pool owes, on   *)
(* either side of an update of the amount and of the period and in either  *)
(* order of the two, whenever the stake was made and last claimed; and for *)
(* a closed stake what it had earned when it was closed.                   *)
RewardsExact ==
    \A a \in StakeEntries :
        /\ Exists(RewardEntryOf(a)) /\ Followed(a)
        /\ accounts[a].closedTs > 0 =>
             ideal[a].amountUpdates + ideal[a].periodUpdates = 0
        => ~Throws(a) /\ Shown(a) = Owed(a)

(* README.md:233-238: the nonce of an entry is taken from the entry.  What *)
(* the searches return is enough to unstake every open stake and to claim  *)
(* from every reward entry: the addresses the client derives are those the *)
(* programs created, and the tokens move between accounts of their mints.  *)
NothingStranded ==
    /\ \A a \in StakeEntries :
         LET stake == accounts[a]
             pool == accounts[stake.stakePool]
             given == UnstakeAccounts(stake.stakePool, pool.mint, stake.nonce, stake.authority)
             addr == Completed(UnstakeIx, given, <<>>, accounts)
         IN  /\ addr.stakeEntry = a
             /\ Permitted(UnstakeIx, addr, <<>>, stake.authority)
             /\ addr.from = TokenAccount(addr.stakeMint, stake.authority)
             /\ addr.to = TokenAccount(addr.mint, stake.authority)
    /\ \A r \in RewardEntries :
         LET stake == accounts[accounts[r].stakeEntry]
             pool == accounts[accounts[r].rewardPool]
             given == ClaimAccounts(stake.stakePool, pool.nonce, stake.nonce, pool.mint,
                                    stake.authority)
             addr == Completed(ClaimRewardsIx, given, <<>>, accounts)
         IN  /\ addr.rewardEntry = r
             /\ Permitted(ClaimRewardsIx, addr, <<>>, stake.authority)
             /\ addr.to = TokenAccount(addr.mint, stake.authority)

(* searchStakePools, searchStakeEntries, searchRewardPools and             *)
(* searchRewardEntries find exactly the accounts that hold what is         *)
(* searched for.                                                           *)
Contents(prefix) == {accounts[a] : a \in OfKind(prefix)}

SearchesFind ==
    /\ SearchFinds(Contents("stake-pool"), StakePoolLayout, StakePoolOffsets,
                   {"mint", "creator"})
    /\ SearchFinds(Contents("stake-entry"), StakeEntryLayout, StakeEntryOffsets,
                   {"payer", "stakePool"})
    /\ SearchFinds(Contents("reward-pool"), RewardPoolLayout, RewardPoolOffsets,
                   {"stakePool", "mint"})
    /\ SearchFinds(Contents("reward-entry"), RewardEntryLayout, RewardEntryOffsets,
                   {"stakeEntry", "rewardPool"})

(* stake-weight.ts: no shorter stake of the pool would weigh more, and     *)
(* none weighs less than its amount or more than maxWeight.                *)
LongerWeighsMore ==
    \A a \in StakeEntries :
        LET weight(d) == StakeWeight(MinDuration, MaxDuration, MaxWeight, d) IN
        /\ \A d \in MinDuration..accounts[a].duration :
              weight(d) <= accounts[a].effectiveAmount
        /\ accounts[a].effectiveAmount \in Scale..Max({Scale, MaxWeight})

(* rewards.ts:65: amounts are counted from the seconds that passed since   *)
(* the last claim.  After a claim that no update followed nothing is shown *)
(* that the pool does not owe.                                             *)
OnlySinceLastClaim ==
    \A a \in StakeEntries :
        /\ Exists(RewardEntryOf(a)) /\ accounts[a].closedTs = 0
        /\ ideal[a].claimedTs > Max({RewardPool.lastAmountUpdateTs,
                                    RewardPool.lastPeriodUpdateTs})
        => Shown(a) <= Owed(a)
=============================================================================
