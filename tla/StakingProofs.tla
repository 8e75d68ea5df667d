---------------------------- MODULE StakingProofs ----------------------------
(***************************************************************************)
(* Proofs about Staking.                                                   *)
(***************************************************************************)
EXTENDS Staking, CommonTheorems

-----------------------------------------------------------------------------
(* The accounts that Anchor completes.                                     *)
(* createStakePool                                                         *)
LEMMA PoolCompleted ==
    ASSUME NEW accs, NEW creator, NEW mint, NEW nonce
    PROVE  LET addr == Completed(CreateStakePoolIx, [creator |-> creator, mint |-> mint], [nonce |-> nonce], accs)
           IN  /\ addr.stakePool = StakePoolPDA(mint, creator, nonce)
               /\ addr.vault = StakeVaultPDA(addr.stakePool)
               /\ addr.stakeMint = StakeMintPDA(addr.stakePool)
               /\ addr.mint = mint /\ addr.creator = creator
  <1> DEFINE given == [creator |-> creator, mint |-> mint]
             args == [nonce |-> nonce]
             addr == Completed(CreateStakePoolIx, given, args, accs)
  <1>1. DOMAIN given = {"creator", "mint"}
    BY DEF CreateStakePoolIx
  <1>2. \A name \in DOMAIN CreateStakePoolIx \ DOMAIN given :
          /\ CreateStakePoolIx[name].by \in Manners \ {"name"}
          /\ Needs(CreateStakePoolIx, given, args, name) \subseteq
               IF name \in {"stakePool"} THEN {"mint", "creator"} ELSE {"mint", "creator"} \cup {"stakePool"}
    BY <1>1 DEF CreateStakePoolIx, RewardEntrySeeds, Needs, Manners, Named, Signer, SignerOf, Seeds, FieldOf
  <1>3. PICK rank : Layered(rank, CreateStakePoolIx, given, args)
    <2>1. {"mint", "creator"} \subseteq DOMAIN given /\ {"mint", "creator"} \cup {"stakePool"} \subseteq DOMAIN CreateStakePoolIx
      BY <1>1 DEF CreateStakePoolIx
    <2>2. \A name \in DOMAIN CreateStakePoolIx \ DOMAIN given :
            /\ CreateStakePoolIx[name].by \in Manners \ {"name"}
            /\ Needs(CreateStakePoolIx, given, args, name) \subseteq DOMAIN CreateStakePoolIx
            /\ Needs(CreateStakePoolIx, given, args, name) \subseteq
                 DOMAIN given \cup (IF name \in {"stakePool"} THEN {} ELSE {"stakePool"})
      BY <1>2, <2>1
    <2> HIDE DEF given
    <2> QED
      BY <2>2, TwoLayers
  <1>4. {"creator", "mint", "stakePool", "vault", "stakeMint"} \subseteq DOMAIN CreateStakePoolIx
    BY DEF CreateStakePoolIx
  <1>5. \A name \in {"creator", "mint"} : addr[name] = given[name]
    BY <1>1, <1>3, <1>4, CompletedName
  <1>6. addr["stakePool"] = <<"stake-pool", addr["mint"], addr["creator"], nonce>>
    <2>1. CreateStakePoolIx["stakePool"] = Seeds("stake-pool", <<"mint", "creator", "nonce">>)
      BY DEF CreateStakePoolIx, RewardEntrySeeds
    <2>2. addr["stakePool"] = Seeded(CreateStakePoolIx["stakePool"], addr, args)
      BY <1>1, <1>3, <1>4, <2>1, CompletedName DEF Seeds
    <2> QED
      BY <2>1, <2>2, SeededByThree DEF Seed
  <1>7. addr["vault"] = <<"stake-vault", addr["stakePool"]>>
    <2>1. CreateStakePoolIx["vault"] = Seeds("stake-vault", <<"stakePool">>)
      BY DEF CreateStakePoolIx, RewardEntrySeeds
    <2>2. addr["vault"] = Seeded(CreateStakePoolIx["vault"], addr, args)
      BY <1>1, <1>3, <1>4, <2>1, CompletedName DEF Seeds
    <2> QED
      BY <2>1, <2>2, SeededByOne DEF Seed
  <1>8. addr["stakeMint"] = <<"stake-mint", addr["stakePool"]>>
    <2>1. CreateStakePoolIx["stakeMint"] = Seeds("stake-mint", <<"stakePool">>)
      BY DEF CreateStakePoolIx, RewardEntrySeeds
    <2>2. addr["stakeMint"] = Seeded(CreateStakePoolIx["stakeMint"], addr, args)
      BY <1>1, <1>3, <1>4, <2>1, CompletedName DEF Seeds
    <2> QED
      BY <2>1, <2>2, SeededByOne DEF Seed
  <1> QED
    BY <1>5, <1>6, <1>7, <1>8 DEF CreateStakePoolIx, StakePoolPDA, StakeVaultPDA, StakeMintPDA

(* createRewardPool                                                        *)
LEMMA RewardPoolCompleted ==
    ASSUME NEW accs, NEW creator, NEW stakePool, NEW mint, NEW nonce
    PROVE  LET addr == Completed(CreateRewardPoolIx, [creator |-> creator, stakePool |-> stakePool, mint |-> mint], [nonce |-> nonce], accs)
           IN  /\ addr.rewardPool = RewardPoolPDA(stakePool, mint, nonce)
               /\ addr.vault = RewardVaultPDA(addr.rewardPool)
               /\ addr.stakePool = stakePool /\ addr.mint = mint /\ addr.creator = creator
  <1> DEFINE given == [creator |-> creator, stakePool |-> stakePool, mint |-> mint]
             args == [nonce |-> nonce]
             addr == Completed(CreateRewardPoolIx, given, args, accs)
  <1>1. DOMAIN given = {"creator", "stakePool", "mint"}
    BY DEF CreateRewardPoolIx
  <1>2. \A name \in DOMAIN CreateRewardPoolIx \ DOMAIN given :
          /\ CreateRewardPoolIx[name].by \in Manners \ {"name"}
          /\ Needs(CreateRewardPoolIx, given, args, name) \subseteq
               IF name \in {"rewardPool"} THEN {"stakePool", "mint"} ELSE {"stakePool", "mint"} \cup {"rewardPool"}
    BY <1>1 DEF CreateRewardPoolIx, RewardEntrySeeds, Needs, Manners, Named, Signer, SignerOf, Seeds, FieldOf
  <1>3. PICK rank : Layered(rank, CreateRewardPoolIx, given, args)
    <2>1. {"stakePool", "mint"} \subseteq DOMAIN given /\ {"stakePool", "mint"} \cup {"rewardPool"} \subseteq DOMAIN CreateRewardPoolIx
      BY <1>1 DEF CreateRewardPoolIx
    <2>2. \A name \in DOMAIN CreateRewardPoolIx \ DOMAIN given :
            /\ CreateRewardPoolIx[name].by \in Manners \ {"name"}
            /\ Needs(CreateRewardPoolIx, given, args, name) \subseteq DOMAIN CreateRewardPoolIx
            /\ Needs(CreateRewardPoolIx, given, args, name) \subseteq
                 DOMAIN given \cup (IF name \in {"rewardPool"} THEN {} ELSE {"rewardPool"})
      BY <1>2, <2>1
    <2> HIDE DEF given
    <2> QED
      BY <2>2, TwoLayers
  <1>4. {"creator", "stakePool", "mint", "rewardPool", "vault"} \subseteq DOMAIN CreateRewardPoolIx
    BY DEF CreateRewardPoolIx
  <1>5. \A name \in {"creator", "stakePool", "mint"} : addr[name] = given[name]
    BY <1>1, <1>3, <1>4, CompletedName
  <1>6. addr["rewardPool"] = <<"reward-pool", addr["stakePool"], addr["mint"], nonce>>
    <2>1. CreateRewardPoolIx["rewardPool"] = Seeds("reward-pool", <<"stakePool", "mint", "nonce">>)
      BY DEF CreateRewardPoolIx, RewardEntrySeeds
    <2>2. addr["rewardPool"] = Seeded(CreateRewardPoolIx["rewardPool"], addr, args)
      BY <1>1, <1>3, <1>4, <2>1, CompletedName DEF Seeds
    <2> QED
      BY <2>1, <2>2, SeededByThree DEF Seed
  <1>7. addr["vault"] = <<"reward-vault", addr["rewardPool"]>>
    <2>1. CreateRewardPoolIx["vault"] = Seeds("reward-vault", <<"rewardPool">>)
      BY DEF CreateRewardPoolIx, RewardEntrySeeds
    <2>2. addr["vault"] = Seeded(CreateRewardPoolIx["vault"], addr, args)
      BY <1>1, <1>3, <1>4, <2>1, CompletedName DEF Seeds
    <2> QED
      BY <2>1, <2>2, SeededByOne DEF Seed
  <1> QED
    BY <1>5, <1>6, <1>7 DEF CreateRewardPoolIx, RewardPoolPDA, RewardVaultPDA

(* stake                                                                   *)
LEMMA StakeCompleted ==
    ASSUME NEW accs, NEW stakePool, NEW mint, NEW staker, NEW nonce
    PROVE  LET addr == Completed(StakeIx, StakeAccounts(stakePool, mint, staker), [nonce |-> nonce], accs)
           IN  /\ addr.stakePool = stakePool
               /\ addr.stakeEntry = StakeEntryPDA(stakePool, staker, nonce)
               /\ addr.authority = staker /\ addr.payer = staker
  <1> DEFINE given == StakeAccounts(stakePool, mint, staker)
             args == [nonce |-> nonce]
             addr == Completed(StakeIx, given, args, accs)
  <1>1. DOMAIN given = {"stakePool", "from", "to", "authority", "payer"}
    BY DEF StakeAccounts
  <1>2. \A name \in DOMAIN StakeIx \ DOMAIN given :
          /\ StakeIx[name].by \in Manners \ {"name"}
          /\ Needs(StakeIx, given, args, name) \subseteq
               IF name \in {} THEN {"stakePool", "authority"} ELSE {"stakePool", "authority"} \cup {}
    BY <1>1 DEF StakeIx, RewardEntrySeeds, Needs, Manners, Named, Signer, SignerOf, Seeds, FieldOf
  <1>3. PICK rank : Layered(rank, StakeIx, given, args)
    <2>1. {"stakePool", "authority"} \subseteq DOMAIN given /\ {"stakePool", "authority"} \cup {} \subseteq DOMAIN StakeIx
      BY <1>1 DEF StakeIx
    <2>2. \A name \in DOMAIN StakeIx \ DOMAIN given :
            /\ StakeIx[name].by \in Manners \ {"name"}
            /\ Needs(StakeIx, given, args, name) \subseteq DOMAIN StakeIx
            /\ Needs(StakeIx, given, args, name) \subseteq
                 DOMAIN given \cup (IF name \in {} THEN {} ELSE {})
      BY <1>2, <2>1
    <2> HIDE DEF given
    <2> QED
      BY <2>2, TwoLayers
  <1>4. {"stakePool", "authority", "payer", "stakeEntry"} \subseteq DOMAIN StakeIx
    BY DEF StakeIx
  <1>5. \A name \in {"stakePool", "authority", "payer"} : addr[name] = given[name]
    BY <1>1, <1>3, <1>4, CompletedName
  <1>6. addr["stakeEntry"] = <<"stake-entry", addr["stakePool"], addr["authority"], nonce>>
    <2>1. StakeIx["stakeEntry"] = Seeds("stake-entry", <<"stakePool", "authority", "nonce">>)
      BY DEF StakeIx, RewardEntrySeeds
    <2>2. addr["stakeEntry"] = Seeded(StakeIx["stakeEntry"], addr, args)
      BY <1>1, <1>3, <1>4, <2>1, CompletedName DEF Seeds
    <2> QED
      BY <2>1, <2>2, SeededByThree DEF Seed
  <1> QED
    BY <1>5, <1>6 DEF StakeAccounts, StakeEntryPDA

(* unstake                                                                 *)
LEMMA UnstakeCompleted ==
    ASSUME NEW accs, NEW stakePool, NEW mint, NEW nonce, NEW staker
    PROVE  LET addr == Completed(UnstakeIx, UnstakeAccounts(stakePool, mint, nonce, staker), <<>>, accs)
           IN  /\ addr.stakeEntry = StakeEntryPDA(stakePool, staker, nonce)
               /\ addr.to = TokenAccount(mint, staker)
               /\ addr.from = TokenAccount(StakeMintPDA(stakePool), staker)
               /\ addr.authority = staker
               /\ addr.stakePool = IF addr.stakeEntry \in DOMAIN accs THEN accs[addr.stakeEntry].stakePool ELSE Missing
               /\ addr.vault = IF addr.stakePool \in DOMAIN accs THEN accs[addr.stakePool].vault ELSE Missing
               /\ addr.mint = IF addr.stakePool \in DOMAIN accs THEN accs[addr.stakePool].mint ELSE Missing
               /\ addr.stakeMint = IF addr.stakePool \in DOMAIN accs THEN accs[addr.stakePool].stakeMint ELSE Missing
  <1> DEFINE given == UnstakeAccounts(stakePool, mint, nonce, staker)
             args == <<>>
             addr == Completed(UnstakeIx, given, args, accs)
  <1>1. DOMAIN given = {"stakeEntry", "to", "from", "authority"}
    BY DEF UnstakeAccounts
  <1>2. \A name \in DOMAIN UnstakeIx \ DOMAIN given :
          /\ UnstakeIx[name].by \in Manners \ {"name"}
          /\ Needs(UnstakeIx, given, args, name) \subseteq
               IF name \in {"stakePool"} THEN {"stakeEntry"} ELSE {"stakeEntry"} \cup {"stakePool"}
    BY <1>1 DEF UnstakeIx, RewardEntrySeeds, Needs, Manners, Named, Signer, SignerOf, Seeds, FieldOf
  <1>3. PICK rank : Layered(rank, UnstakeIx, given, args)
    <2>1. {"stakeEntry"} \subseteq DOMAIN given /\ {"stakeEntry"} \cup {"stakePool"} \subseteq DOMAIN UnstakeIx
      BY <1>1 DEF UnstakeIx
    <2>2. \A name \in DOMAIN UnstakeIx \ DOMAIN given :
            /\ UnstakeIx[name].by \in Manners \ {"name"}
            /\ Needs(UnstakeIx, given, args, name) \subseteq DOMAIN UnstakeIx
            /\ Needs(UnstakeIx, given, args, name) \subseteq
                 DOMAIN given \cup (IF name \in {"stakePool"} THEN {} ELSE {"stakePool"})
      BY <1>2, <2>1
    <2> HIDE DEF given
    <2> QED
      BY <2>2, TwoLayers
  <1>4. {"stakeEntry", "to", "from", "authority", "stakePool", "vault", "mint", "stakeMint"} \subseteq DOMAIN UnstakeIx
    BY DEF UnstakeIx
  <1>5. \A name \in {"stakeEntry", "to", "from", "authority"} : addr[name] = given[name]
    BY <1>1, <1>3, <1>4, CompletedName
  <1>6. /\ addr["stakePool"] = IF addr["stakeEntry"] \in DOMAIN accs THEN accs[addr["stakeEntry"]]["stakePool"] ELSE Missing
        /\ addr["vault"] = IF addr["stakePool"] \in DOMAIN accs THEN accs[addr["stakePool"]]["vault"] ELSE Missing
        /\ addr["mint"] = IF addr["stakePool"] \in DOMAIN accs THEN accs[addr["stakePool"]]["mint"] ELSE Missing
        /\ addr["stakeMint"] = IF addr["stakePool"] \in DOMAIN accs THEN accs[addr["stakePool"]]["stakeMint"] ELSE Missing
    BY <1>1, <1>3, <1>4, CompletedName DEF UnstakeIx, FieldOf
  <1> QED
    BY <1>5, <1>6 DEF UnstakeAccounts

(* createRewardEntry                                                       *)
LEMMA EntryCompleted ==
    ASSUME NEW accs, NEW stakePool, NEW poolNonce, NEW nonce, NEW mint, NEW staker
    PROVE  LET addr == Completed(CreateEntryIx, CreateRewardEntryAccounts(stakePool, poolNonce, nonce, mint, staker), <<>>, accs)
           IN  /\ addr.stakeEntry = StakeEntryPDA(stakePool, staker, nonce)
               /\ addr.rewardPool = RewardPoolPDA(stakePool, mint, poolNonce)
               /\ addr.rewardEntry = RewardEntryPDA(addr.rewardPool, addr.stakeEntry)
  <1> DEFINE given == CreateRewardEntryAccounts(stakePool, poolNonce, nonce, mint, staker)
             args == <<>>
             addr == Completed(CreateEntryIx, given, args, accs)
  <1>1. DOMAIN given = {"payer", "authority", "stakeEntry", "rewardPool"}
    BY DEF CreateRewardEntryAccounts
  <1>2. \A name \in DOMAIN CreateEntryIx \ DOMAIN given :
          /\ CreateEntryIx[name].by \in Manners \ {"name"}
          /\ Needs(CreateEntryIx, given, args, name) \subseteq
               IF name \in {} THEN {"stakeEntry", "rewardPool"} ELSE {"stakeEntry", "rewardPool"} \cup {}
    BY <1>1 DEF CreateEntryIx, RewardEntrySeeds, Needs, Manners, Named, Signer, SignerOf, Seeds, FieldOf
  <1>3. PICK rank : Layered(rank, CreateEntryIx, given, args)
    <2>1. {"stakeEntry", "rewardPool"} \subseteq DOMAIN given /\ {"stakeEntry", "rewardPool"} \cup {} \subseteq DOMAIN CreateEntryIx
      BY <1>1 DEF CreateEntryIx
    <2>2. \A name \in DOMAIN CreateEntryIx \ DOMAIN given :
            /\ CreateEntryIx[name].by \in Manners \ {"name"}
            /\ Needs(CreateEntryIx, given, args, name) \subseteq DOMAIN CreateEntryIx
            /\ Needs(CreateEntryIx, given, args, name) \subseteq
                 DOMAIN given \cup (IF name \in {} THEN {} ELSE {})
      BY <1>2, <2>1
    <2> HIDE DEF given
    <2> QED
      BY <2>2, TwoLayers
  <1>4. {"stakeEntry", "rewardPool", "rewardEntry"} \subseteq DOMAIN CreateEntryIx
    BY DEF CreateEntryIx
  <1>5. \A name \in {"stakeEntry", "rewardPool"} : addr[name] = given[name]
    BY <1>1, <1>3, <1>4, CompletedName
  <1>6. addr["rewardEntry"] = <<"reward-entry", addr["rewardPool"], addr["stakeEntry"]>>
    <2>1. CreateEntryIx["rewardEntry"] = Seeds("reward-entry", <<"rewardPool", "stakeEntry">>)
      BY DEF CreateEntryIx, RewardEntrySeeds
    <2>2. addr["rewardEntry"] = Seeded(CreateEntryIx["rewardEntry"], addr, args)
      BY <1>1, <1>3, <1>4, <2>1, CompletedName DEF Seeds
    <2> QED
      BY <2>1, <2>2, SeededByTwo DEF Seed
  <1> QED
    BY <1>5, <1>6 DEF CreateRewardEntryAccounts, RewardEntryPDA

(* claimRewards                                                            *)
LEMMA ClaimCompleted ==
    ASSUME NEW accs, NEW stakePool, NEW poolNonce, NEW nonce, NEW mint, NEW staker
    PROVE  LET addr == Completed(ClaimRewardsIx, ClaimAccounts(stakePool, poolNonce, nonce, mint, staker), <<>>, accs)
           IN  /\ addr.stakeEntry = StakeEntryPDA(stakePool, staker, nonce)
               /\ addr.rewardPool = RewardPoolPDA(stakePool, mint, poolNonce)
               /\ addr.rewardEntry = RewardEntryPDA(addr.rewardPool, addr.stakeEntry)
               /\ addr.claimant = staker /\ addr.to = TokenAccount(mint, staker)
               /\ addr.vault = IF addr.rewardPool \in DOMAIN accs THEN accs[addr.rewardPool].vault ELSE Missing
               /\ addr.mint = IF addr.rewardPool \in DOMAIN accs THEN accs[addr.rewardPool].mint ELSE Missing
  <1> DEFINE given == ClaimAccounts(stakePool, poolNonce, nonce, mint, staker)
             args == <<>>
             addr == Completed(ClaimRewardsIx, given, args, accs)
  <1>1. DOMAIN given = {"stakeEntry", "rewardPool", "claimant", "to"}
    BY DEF ClaimAccounts
  <1>2. \A name \in DOMAIN ClaimRewardsIx \ DOMAIN given :
          /\ ClaimRewardsIx[name].by \in Manners \ {"name"}
          /\ Needs(ClaimRewardsIx, given, args, name) \subseteq
               IF name \in {} THEN {"stakeEntry", "rewardPool"} ELSE {"stakeEntry", "rewardPool"} \cup {}
    BY <1>1 DEF ClaimRewardsIx, RewardEntrySeeds, Needs, Manners, Named, Signer, SignerOf, Seeds, FieldOf
  <1>3. PICK rank : Layered(rank, ClaimRewardsIx, given, args)
    <2>1. {"stakeEntry", "rewardPool"} \subseteq DOMAIN given /\ {"stakeEntry", "rewardPool"} \cup {} \subseteq DOMAIN ClaimRewardsIx
      BY <1>1 DEF ClaimRewardsIx
    <2>2. \A name \in DOMAIN ClaimRewardsIx \ DOMAIN given :
            /\ ClaimRewardsIx[name].by \in Manners \ {"name"}
            /\ Needs(ClaimRewardsIx, given, args, name) \subseteq DOMAIN ClaimRewardsIx
            /\ Needs(ClaimRewardsIx, given, args, name) \subseteq
                 DOMAIN given \cup (IF name \in {} THEN {} ELSE {})
      BY <1>2, <2>1
    <2> HIDE DEF given
    <2> QED
      BY <2>2, TwoLayers
  <1>4. {"stakeEntry", "rewardPool", "claimant", "to", "rewardEntry", "vault", "mint"} \subseteq DOMAIN ClaimRewardsIx
    BY DEF ClaimRewardsIx
  <1>5. \A name \in {"stakeEntry", "rewardPool", "claimant", "to"} : addr[name] = given[name]
    BY <1>1, <1>3, <1>4, CompletedName
  <1>6. addr["rewardEntry"] = <<"reward-entry", addr["rewardPool"], addr["stakeEntry"]>>
    <2>1. ClaimRewardsIx["rewardEntry"] = Seeds("reward-entry", <<"rewardPool", "stakeEntry">>)
      BY DEF ClaimRewardsIx, RewardEntrySeeds
    <2>2. addr["rewardEntry"] = Seeded(ClaimRewardsIx["rewardEntry"], addr, args)
      BY <1>1, <1>3, <1>4, <2>1, CompletedName DEF Seeds
    <2> QED
      BY <2>1, <2>2, SeededByTwo DEF Seed
  <1>7. /\ addr["vault"] = IF addr["rewardPool"] \in DOMAIN accs THEN accs[addr["rewardPool"]]["vault"] ELSE Missing
        /\ addr["mint"] = IF addr["rewardPool"] \in DOMAIN accs THEN accs[addr["rewardPool"]]["mint"] ELSE Missing
    BY <1>1, <1>3, <1>4, CompletedName DEF ClaimRewardsIx, FieldOf
  <1> QED
    BY <1>5, <1>6, <1>7 DEF ClaimAccounts, RewardEntryPDA

-----------------------------------------------------------------------------
(* The inductive invariant: where each account is, and what it holds.      *)
PoolInv(a) == a = PoolAddress /\ accounts[a] \in StakePoolType

StakeInv(a) ==
    LET s == accounts[a] IN
    /\ Exists(PoolAddress)
    /\ s \in StakeEntryType
    /\ a = StakeEntryPDA(PoolAddress, s.authority, s.nonce)
    /\ s.effectiveAmount = StakeWeight(MinDuration, MaxDuration, MaxWeight, s.duration)

RewardPoolInv(a) ==
    /\ Exists(PoolAddress)
    /\ a = RewardPoolAddress /\ accounts[a] \in RewardPoolType /\ accounts[a].nonce = 0

RewardEntryInv(a) ==
    /\ Exists(RewardPoolAddress)
    /\ accounts[a] \in RewardEntryType
    /\ a = RewardEntryPDA(RewardPoolAddress, accounts[a].stakeEntry)

AccountsInv ==
    /\ accounts = [a \in DOMAIN accounts |-> accounts[a]]
    /\ \A a \in DOMAIN accounts :
         PoolInv(a) \/ StakeInv(a) \/ RewardPoolInv(a) \/ RewardEntryInv(a)

(* What a stake has earned is known for every stake, up to the present.    *)
IdealType(t) ==
    [earned : Nat, running : Nat, from : 1..t, claimedTs : 0..MaxTime, late : BOOLEAN,
     amountUpdates : Nat, periodUpdates : Nat]

IdealInv == ideal \in [StakeEntries -> IdealType(now)]

StakingInv == now \in 1..MaxTime /\ AccountsInv /\ IdealInv
-----------------------------------------------------------------------------
(* The weight of a stake.                                                  *)
LEMMA MaxOfTwo ==
    ASSUME NEW a \in Int, NEW b \in Int
    PROVE  Max({a, b}) = IF a >= b THEN a ELSE b
  BY DEF Max
(* Longer is not less; from the scale up to the maximum.                   *)
Weight(d) == StakeWeight(MinDuration, MaxDuration, MaxWeight, d)

LEMMA Weights ==
    ASSUME NEW d \in Durations, NEW e \in Durations, d <= e
    PROVE  /\ Weight(e) \in Nat
           /\ Weight(d) <= Weight(e)
           /\ Weight(e) \in Scale..Max({Scale, MaxWeight})
  <1> DEFINE span == MaxDuration - MinDuration
             part(x) == (x - MinDuration) * Scale
             normalized(x) == part(x) \div span
             extra == MaxWeight - Scale
             rise(x) == Quotient(normalized(x) * extra, Scale)
  <1>1. /\ Scale \in Nat \ {0} /\ MaxWeight \in Nat /\ Durations = MinDuration..MaxDuration
        /\ MinDuration \in Nat /\ MaxDuration \in Nat /\ MinDuration <= MaxDuration
        /\ d \in Nat /\ e \in Nat
    BY RewardAssumption, StakingAssumption DEF Durations
  <1>2. CASE MaxDuration = MinDuration
    <2>1. \A x \in Durations : Weight(x) = Scale
      BY <1>2 DEF Weight, StakeWeight
    <2>2. Max({Scale, MaxWeight}) = IF Scale >= MaxWeight THEN Scale ELSE MaxWeight
      BY <1>1, MaxOfTwo
    <2> QED
      BY <1>1, <2>1, <2>2
  <1>3. CASE MaxDuration # MinDuration
    <2>1. span \in Nat \ {0} /\ extra \in Int
      BY <1>1, <1>3
    <2>2. \A x \in Durations : part(x) \in Nat /\ part(x) <= span * Scale
      <3> TAKE x \in Durations
      <3>1. x - MinDuration \in Nat /\ x - MinDuration <= span
        BY <1>1
      <3> QED
        BY <1>1, <2>1, <3>1, TimesMonotone
    <2>3. part(d) <= part(e)
      <3>1. d - MinDuration \in Nat /\ e - MinDuration \in Nat /\ d - MinDuration <= e - MinDuration
        BY <1>1
      <3> QED
        BY <1>1, <3>1, TimesMonotone
    <2>4. \A x \in Durations :
            Weight(x) = Max({Scale + Quotient(normalized(x) * extra, Scale), Scale})
      <3> TAKE x \in Durations
      <3>1. (x - MinDuration) * Scale >= 0
        BY <2>2
      <3> QED
        BY <1>3, <3>1 DEF Weight, StakeWeight, Quotient
    <2> HIDE DEF part, span, extra
    <2>5. \A x \in Durations : normalized(x) \in Nat /\ normalized(x) <= Scale
      <3> TAKE x \in Durations
      <3>1. normalized(x) \in Nat
        BY <2>1, <2>2, FloorOf
      <3>2. normalized(x) <= (Scale * span) \div span
        <4>1. Scale * span \in Nat /\ Scale * span = span * Scale
          BY <1>1, <2>1
        <4> QED
          BY <2>1, <2>2, <4>1, FloorMonotone
      <3>3. (Scale * span) \div span = Scale
        BY <1>1, <2>1, FloorOfMultiple
      <3> QED
        BY <3>1, <3>2, <3>3
    <2>6. normalized(d) <= normalized(e)
      BY <2>1, <2>2, <2>3, FloorMonotone
    <2> HIDE DEF normalized
    <2>7. CASE extra >= 0
      <3>1. extra \in Nat
        BY <2>1, <2>7
      <3>2. \A x \in Durations : /\ normalized(x) * extra \in Nat
                                 /\ normalized(x) * extra <= extra * Scale
        <4> TAKE x \in Durations
        <4>1. normalized(x) * extra \in Nat /\ normalized(x) * extra <= Scale * extra
          BY <1>1, <2>5, <3>1, TimesMonotone
        <4> QED
          BY <1>1, <3>1, <4>1
      <3>3. normalized(d) * extra <= normalized(e) * extra
        BY <2>5, <2>6, <3>1, TimesMonotone
      <3>4. \A x \in Durations : /\ rise(x) = (normalized(x) * extra) \div Scale
                                 /\ rise(x) \in Nat /\ rise(x) <= extra
        <4> TAKE x \in Durations
        <4>1. rise(x) = (normalized(x) * extra) \div Scale
          BY <3>2 DEF Quotient
        <4>2. extra * Scale \in Nat
          BY <1>1, <3>1
        <4>3. (normalized(x) * extra) \div Scale <= (extra * Scale) \div Scale
          BY <1>1, <3>2, <4>2, FloorMonotone
        <4>4. (extra * Scale) \div Scale = extra
          BY <1>1, <3>1, FloorOfMultiple
        <4>5. (normalized(x) * extra) \div Scale \in Nat
          BY <1>1, <3>2, FloorOf
        <4> HIDE DEF rise
        <4> QED
          BY <4>1, <4>3, <4>4, <4>5
      <3>5. rise(d) <= rise(e)
        <4>1. (normalized(d) * extra) \div Scale <= (normalized(e) * extra) \div Scale
          BY <1>1, <3>2, <3>3, FloorMonotone
        <4> HIDE DEF rise
        <4> QED
          BY <3>4, <4>1
      <3>6. \A x \in Durations : Weight(x) = Max({Scale + rise(x), Scale})
        BY <2>4
      <3> HIDE DEF rise
      <3>7. \A x \in Durations : Weight(x) = Scale + rise(x)
        <4> TAKE x \in Durations
        <4>1. rise(x) \in Nat /\ Scale + rise(x) \in Int /\ Scale \in Int /\ Scale + rise(x) >= Scale
          BY <1>1, <3>4
        <4>2. Max({Scale + rise(x), Scale}) = Scale + rise(x)
          BY <4>1, MaxOfTwo
        <4> QED
          BY <3>6, <4>2
      <3>8. Max({Scale, MaxWeight}) = MaxWeight
        BY <1>1, <2>7, MaxOfTwo DEF extra
      <3> QED
        BY <1>1, <3>4, <3>5, <3>7, <3>8 DEF extra
    <2>8. CASE extra < 0
      <3>1. -extra \in Nat
        BY <2>1, <2>8
      <3>2. \A x \in Durations : rise(x) \in Int /\ rise(x) <= 0
        <4> TAKE x \in Durations
        <4> DEFINE fall == normalized(x) * (-extra)
        <4>1. fall \in Nat /\ normalized(x) * extra = -fall
          BY <2>1, <2>5, <3>1
        <4>2. fall \div Scale \in Nat
          BY <1>1, <4>1, FloorOf
        <4> HIDE DEF fall
        <4>3. 0 \div Scale = 0
          BY <1>1
        <4>4. -(-fall) = fall
          BY <4>1
        <4>5. Quotient(-fall, Scale) = IF -fall >= 0 THEN (-fall) \div Scale ELSE -(fall \div Scale)
          BY <4>4 DEF Quotient
        <4>6. Quotient(-fall, Scale) \in Int /\ Quotient(-fall, Scale) <= 0
          <5>1. CASE fall = 0
            BY <4>3, <4>5, <5>1
          <5>2. CASE fall # 0
            BY <4>1, <4>2, <4>5, <5>2
          <5> QED
            BY <5>1, <5>2
        <4> QED
          BY <4>1, <4>6
      <3>3. \A x \in Durations : Weight(x) = Max({Scale + rise(x), Scale})
        BY <2>4
      <3> HIDE DEF rise
      <3>4. \A x \in Durations : Weight(x) = Scale
        <4> TAKE x \in Durations
        <4>1. rise(x) \in Int /\ Scale + rise(x) \in Int /\ Scale \in Int /\ Scale + rise(x) <= Scale
          BY <1>1, <3>2
        <4>2. Max({Scale + rise(x), Scale}) = Scale
          BY <4>1, MaxOfTwo
        <4> QED
          BY <3>3, <4>2
      <3>5. Max({Scale, MaxWeight}) = Scale
        BY <1>1, <2>8, MaxOfTwo DEF extra
      <3> QED
        BY <1>1, <3>4, <3>5
    <2> QED
      BY <2>1, <2>7, <2>8
  <1> QED
    BY <1>2, <1>3
-----------------------------------------------------------------------------
(* An address says what kind of account it is of.                          *)
LEMMA KindOf ==
    ASSUME AccountsInv, NEW a \in DOMAIN accounts
    PROVE  /\ a[1] \in {"stake-pool", "stake-entry", "reward-pool", "reward-entry"}
           /\ PoolInv(a) <=> a[1] = "stake-pool"
           /\ StakeInv(a) <=> a[1] = "stake-entry"
           /\ RewardPoolInv(a) <=> a[1] = "reward-pool"
           /\ RewardEntryInv(a) <=> a[1] = "reward-entry"
  <1>1. PoolInv(a) => a[1] = "stake-pool"
    BY DEF PoolInv, PoolAddress, StakePoolPDA
  <1>2. StakeInv(a) => a[1] = "stake-entry"
    BY DEF StakeInv, StakeEntryPDA
  <1>3. RewardPoolInv(a) => a[1] = "reward-pool"
    BY DEF RewardPoolInv, RewardPoolAddress, RewardPoolPDA
  <1>4. RewardEntryInv(a) => a[1] = "reward-entry"
    BY DEF RewardEntryInv, RewardEntryPDA
  <1>5. PoolInv(a) \/ StakeInv(a) \/ RewardPoolInv(a) \/ RewardEntryInv(a)
    BY DEF AccountsInv
  <1> QED
    BY <1>1, <1>2, <1>3, <1>4, <1>5

HasItsPlace(a) == PoolInv(a) \/ StakeInv(a) \/ RewardPoolInv(a) \/ RewardEntryInv(a)

(* An account that a step leaves alone.                                    *)
LEMMA KeptAccount ==
    ASSUME NEW a \in DOMAIN accounts, HasItsPlace(a),
           DOMAIN accounts \subseteq DOMAIN accounts', accounts'[a] = accounts[a]
    PROVE  HasItsPlace(a)'
  <1>1. PoolInv(a) => PoolInv(a)'
    BY DEF PoolInv, StakePoolType
  <1>2. StakeInv(a) => StakeInv(a)'
    BY DEF StakeInv, Exists, StakeEntryType
  <1>3. RewardPoolInv(a) => RewardPoolInv(a)'
    BY DEF RewardPoolInv, Exists, RewardPoolType
  <1>4. RewardEntryInv(a) => RewardEntryInv(a)'
    BY DEF RewardEntryInv, Exists, RewardEntryType, StakeEntries, OfKind
  <1> QED
    BY <1>1, <1>2, <1>3, <1>4 DEF HasItsPlace

(* A new account in its place.                                             *)
LEMMA NewAccount ==
    ASSUME AccountsInv, NEW address, NEW contents, address \notin DOMAIN accounts,
           accounts' = Stored(accounts, address, contents),
           HasItsPlace(address)'
    PROVE  /\ AccountsInv'
           /\ StakeEntries' = StakeEntries \cup (IF address[1] = "stake-entry" THEN {address} ELSE {})
  <1>1. /\ DOMAIN accounts' = DOMAIN accounts \cup {address}
        /\ accounts'[address] = contents
        /\ \A a \in DOMAIN accounts : accounts'[a] = accounts[a]
        /\ accounts' = [a \in DOMAIN accounts' |-> accounts'[a]]
    BY DEF Stored
  <1>2. \A a \in DOMAIN accounts : HasItsPlace(a)'
    BY <1>1, KeptAccount DEF AccountsInv, HasItsPlace
  <1> QED
    BY <1>1, <1>2 DEF AccountsInv, HasItsPlace, StakeEntries, OfKind
(* An account whose contents change in its place.                          *)
LEMMA ChangedAccount ==
    ASSUME AccountsInv, NEW address \in DOMAIN accounts, NEW contents,
           accounts' = [accounts EXCEPT ![address] = contents],
           HasItsPlace(address)'
    PROVE  AccountsInv' /\ StakeEntries' = StakeEntries
  <1>1. /\ DOMAIN accounts' = DOMAIN accounts
        /\ \A a \in DOMAIN accounts \ {address} : accounts'[a] = accounts[a]
        /\ accounts' = [a \in DOMAIN accounts' |-> accounts'[a]]
    BY DEF AccountsInv
  <1>2. \A a \in DOMAIN accounts \ {address} : HasItsPlace(a)'
    BY <1>1, KeptAccount DEF AccountsInv, HasItsPlace
  <1> QED
    BY <1>1, <1>2 DEF AccountsInv, HasItsPlace, StakeEntries, OfKind

(* The types of what a stake has earned.                                   *)
LEMMA IdealLater ==
    ASSUME NEW t \in Nat, NEW u \in Nat, t <= u
    PROVE  IdealType(t) \subseteq IdealType(u)
  BY DEF IdealType

LEMMA StakeIsTyped ==
    ASSUME AccountsInv, NEW a \in StakeEntries
    PROVE  StakeInv(a) /\ a \in DOMAIN accounts
  BY KindOf DEF StakeEntries, OfKind

LEMMA AccruedTyped ==
    ASSUME NEW t \in Nat, NEW u \in Nat, t <= u, NEW i \in IdealType(t),
           NEW amount \in Amounts, NEW period \in Periods
    PROVE  Accrued(i, u, amount, period) \in IdealType(u)
  <1> DEFINE periods == (u - i.from) \div period
  <1>1. /\ amount \in Nat /\ period \in Nat \ {0}
        /\ i.from \in Nat /\ 1 <= i.from /\ u - i.from \in Nat /\ i.running \in Nat
    BY StakingAssumption DEF IdealType
  <1>2. periods \in Nat /\ periods * period <= u - i.from
    BY <1>1, FloorOf
  <1> HIDE DEF periods
  <1>3. periods * period \in Nat
    BY <1>1, <1>2
  <1>4. i.from + periods * period \in 1..u
    BY <1>1, <1>2, <1>3
  <1>5. periods * amount \in Nat
    BY <1>1, <1>2
  <1>6. i.running + periods * amount \in Nat
    BY <1>1, <1>5
  <1>7. Accrued(i, u, amount, period) =
          [i EXCEPT !.running = i.running + periods * amount,
                    !.from = i.from + periods * period]
    BY DEF Accrued, periods
  <1>8. i \in IdealType(u)
    BY IdealLater
  <1> QED
    BY <1>4, <1>6, <1>7, <1>8 DEF IdealType

LEMMA EarnedTyped ==
    ASSUME NEW t \in Nat, NEW i \in IdealType(t), NEW stake, stake.effectiveAmount \in Nat
    PROVE  /\ Earned(i, stake) \in Nat /\ i.earned <= Earned(i, stake)
           /\ Rounded(i, stake) \in IdealType(t)
  <1>1. i.earned \in Nat /\ i.running \in Nat
    BY DEF IdealType
  <1>2. i.running * stake.effectiveAmount \in Nat
    BY <1>1
  <1>3. (i.running * stake.effectiveAmount) \div Scale \in Nat
    BY <1>2, FloorOf, RewardAssumption
  <1>4. Earned(i, stake) \in Nat /\ i.earned <= Earned(i, stake)
    BY <1>1, <1>3 DEF Earned
  <1>5. Rounded(i, stake) \in IdealType(t)
    <2> HIDE DEF Earned
    <2> QED
      BY <1>4 DEF Rounded, IdealType
  <1> QED
    BY <1>4, <1>5

LEMMA AccruedAllTyped ==
    ASSUME DOMAIN ideal = StakeEntries, NEW t \in Nat, NEW u \in Nat, t <= u,
           NEW earlier \in [StakeEntries -> IdealType(t)], NEW pool,
           pool.rewardAmount \in Amounts, pool.rewardPeriod \in Periods
    PROVE  AccruedAll(earlier, u, pool) \in [StakeEntries -> IdealType(u)]
  <1>1. ASSUME NEW a \in StakeEntries
        PROVE  /\ earlier[a] \in IdealType(u)
               /\ Accrued(earlier[a], u, pool.rewardAmount, pool.rewardPeriod) \in IdealType(u)
    <2>1. earlier[a] \in IdealType(t)
      OBVIOUS
    <2> QED
      BY <2>1, IdealLater, AccruedTyped
  <1> QED
    BY <1>1 DEF AccruedAll

LEMMA RoundedAllTyped ==
    ASSUME AccountsInv, IdealInv, now \in Nat
    PROVE  RoundedAll \in [StakeEntries -> IdealType(now)]
  <1>1. ASSUME NEW a \in StakeEntries PROVE Rounded(ideal[a], accounts[a]) \in IdealType(now)
    <2>1. accounts[a].effectiveAmount \in Nat /\ ideal[a] \in IdealType(now)
      BY StakeIsTyped DEF StakeInv, StakeEntryType, IdealInv
    <2> QED
      BY <2>1, EarnedTyped
  <1> QED
    BY <1>1 DEF RoundedAll, IdealInv
-----------------------------------------------------------------------------
(* Every action keeps the invariant.                                       *)
LEMMA RewardPoolTyped ==
    ASSUME AccountsInv, Exists(RewardPoolAddress)
    PROVE  /\ RewardPool \in RewardPoolType /\ RewardPool.nonce = 0 /\ Exists(PoolAddress)
           /\ RewardPool.rewardAmount \in Amounts /\ RewardPool.rewardPeriod \in Periods
  <1>1. RewardPoolAddress[1] = "reward-pool"
    BY DEF RewardPoolAddress, RewardPoolPDA
  <1>2. RewardPoolInv(RewardPoolAddress)
    BY <1>1, KindOf DEF Exists
  <1> QED
    BY <1>2 DEF RewardPoolInv, RewardPool, RewardPoolType

LEMMA TickKeeps ==
    ASSUME StakingInv, Tick
    PROVE  StakingInv'
  <1>1. now \in Nat /\ now' = now + 1 /\ now' \in 1..MaxTime
    BY StakingAssumption DEF StakingInv, Tick
  <1>2. AccountsInv'
    BY DEF StakingInv, Tick, AccountsInv, PoolInv, StakeInv, RewardPoolInv, RewardEntryInv,
           Exists, RewardEntryType, StakeEntries, OfKind
  <1>3. StakeEntries' = StakeEntries
    BY DEF Tick, StakeEntries, OfKind
  <1>4. ideal' \in [StakeEntries -> IdealType(now')]
    <2>1. CASE Exists(RewardPoolAddress)
      <3>1. AccruedAll(ideal, now', RewardPool) \in [StakeEntries -> IdealType(now')]
        <4>1. DOMAIN ideal = StakeEntries /\ ideal \in [StakeEntries -> IdealType(now)] /\ now <= now'
          BY <1>1 DEF StakingInv, IdealInv
        <4> QED
          BY <1>1, <2>1, <4>1, RewardPoolTyped, AccruedAllTyped DEF StakingInv
      <3> QED
        BY <2>1, <3>1 DEF Tick
    <2>2. CASE ~Exists(RewardPoolAddress)
      <3>1. ideal' = ideal /\ ideal \in [StakeEntries -> IdealType(now)]
        BY <2>2 DEF Tick, StakingInv, IdealInv
      <3>2. IdealType(now) \subseteq IdealType(now')
        BY <1>1, IdealLater
      <3> QED
        BY <3>1, <3>2
    <2> QED
      BY <2>1, <2>2
  <1> QED
    BY <1>1, <1>2, <1>3, <1>4 DEF StakingInv, IdealInv, IdealType

LEMMA CreateStakePoolKeeps ==
    ASSUME StakingInv, CreateStakePool
    PROVE  StakingInv'
  <1> DEFINE addr == Completed(CreateStakePoolIx, [creator |-> Creator, mint |-> StakeToken],
                               [nonce |-> 0], accounts)
             contents == [nonce |-> 0, mint |-> addr.mint, creator |-> addr.creator,
                          authority |-> addr.creator, vault |-> addr.vault,
                          stakeMint |-> addr.stakeMint]
  <1>1. /\ addr.stakePool = PoolAddress
        /\ addr.vault = StakeVaultPDA(PoolAddress) /\ addr.stakeMint = StakeMintPDA(PoolAddress)
        /\ addr.mint = StakeToken /\ addr.creator = Creator
    BY PoolCompleted DEF PoolAddress
  <1>2. /\ addr.stakePool \notin DOMAIN accounts
        /\ accounts' = Stored(accounts, addr.stakePool, contents)
        /\ now' = now /\ ideal' = ideal
    BY DEF CreateStakePool, Exists
  <1> HIDE DEF addr
  <1>3. HasItsPlace(PoolAddress)'
    <2>1. accounts'[PoolAddress] = contents
      BY <1>1, <1>2 DEF Stored
    <2>2. contents \in StakePoolType
      BY <1>1 DEF StakePoolType
    <2> QED
      BY <2>1, <2>2 DEF HasItsPlace, PoolInv, StakePoolType, PoolAddress
  <1>4. AccountsInv' /\ StakeEntries' = StakeEntries
    <2>1. PoolAddress[1] # "stake-entry"
      BY DEF PoolAddress, StakePoolPDA
    <2> QED
      BY <1>1, <1>2, <1>3, <2>1, NewAccount DEF StakingInv
  <1> QED
    BY <1>2, <1>4 DEF StakingInv, IdealInv, IdealType

LEMMA CreateRewardPoolKeeps ==
    ASSUME StakingInv, CreateRewardPool
    PROVE  StakingInv'
  <1> DEFINE addr == Completed(CreateRewardPoolIx, [creator |-> Creator, stakePool |-> PoolAddress,
                                                    mint |-> RewardToken],
                               [nonce |-> 0], accounts)
             contents(amount, period) ==
                  [nonce |-> 0, stakePool |-> addr.stakePool,
                   mint |-> addr.mint, authority |-> addr.creator,
                   vault |-> addr.vault, rewardAmount |-> amount,
                   rewardPeriod |-> period, lastRewardAmount |-> amount,
                   lastRewardPeriod |-> period, lastAmountUpdateTs |-> 0,
                   lastPeriodUpdateTs |-> 0, createdTs |-> now]
  <1>1. /\ addr.rewardPool = RewardPoolAddress
        /\ addr.vault = RewardVaultPDA(RewardPoolAddress)
        /\ addr.stakePool = PoolAddress /\ addr.mint = RewardToken /\ addr.creator = Creator
    BY RewardPoolCompleted DEF RewardPoolAddress
  <1>2. PICK amount \in Amounts, period \in Periods :
        /\ Exists(PoolAddress) /\ addr.rewardPool \notin DOMAIN accounts
        /\ accounts' = Stored(accounts, addr.rewardPool, contents(amount, period))
        /\ now' = now /\ ideal' = [a \in DOMAIN ideal |-> [ideal[a] EXCEPT !.from = now]]
    BY DEF CreateRewardPool, Exists
  <1> HIDE DEF addr
  <1>3. HasItsPlace(RewardPoolAddress)'
    <2>1. accounts'[RewardPoolAddress] = contents(amount, period) /\ Exists(PoolAddress)'
      BY <1>1, <1>2 DEF Stored, Exists
    <2>2. contents(amount, period) \in RewardPoolType /\ contents(amount, period).nonce = 0
      BY <1>1, <1>2, StakingAssumption DEF RewardPoolType, StakingInv
    <2> QED
      BY <2>1, <2>2 DEF HasItsPlace, RewardPoolInv, RewardPoolType, RewardPoolAddress, PoolAddress
  <1>4. AccountsInv' /\ StakeEntries' = StakeEntries
    <2>1. RewardPoolAddress[1] # "stake-entry"
      BY DEF RewardPoolAddress, RewardPoolPDA
    <2> QED
      BY <1>1, <1>2, <1>3, <2>1, NewAccount DEF StakingInv
  <1>5. ideal' \in [StakeEntries -> IdealType(now)]
    <2>1. \A a \in StakeEntries : [ideal[a] EXCEPT !.from = now] \in IdealType(now)
      BY DEF StakingInv, IdealInv, IdealType
    <2> QED
      BY <1>2, <2>1 DEF StakingInv, IdealInv
  <1> QED
    BY <1>2, <1>4, <1>5 DEF StakingInv, IdealInv, IdealType

LEMMA StakeTokensKeeps ==
    ASSUME StakingInv, NEW staker \in Wallets, NEW nonce \in Nonces, NEW duration \in Durations,
           StakeTokens(staker, nonce, duration)
    PROVE  StakingInv'
  <1> DEFINE given == StakeAccounts(PoolAddress, StakeToken, staker)
             addr == Completed(StakeIx, given, [nonce |-> nonce], accounts)
             contents == [nonce |-> nonce, stakePool |-> addr.stakePool, payer |-> addr.payer,
                          authority |-> addr.authority, duration |-> duration,
                          effectiveAmount |-> Weight(duration),
                          createdTs |-> now, closedTs |-> 0]
             first == [earned |-> 0, running |-> 0, from |-> now, claimedTs |-> 0, late |-> FALSE,
                       amountUpdates |-> 0, periodUpdates |-> 0]
             entry == StakeEntryPDA(PoolAddress, staker, nonce)
  <1>1. /\ addr.stakePool = PoolAddress /\ addr.stakeEntry = entry
        /\ addr.authority = staker /\ addr.payer = staker
    BY StakeCompleted
  <1>2. /\ addr.stakeEntry \notin DOMAIN accounts
        /\ Permitted(StakeIx, addr, [nonce |-> nonce], staker)
        /\ accounts' = Stored(accounts, addr.stakeEntry, contents)
        /\ ideal' = Stored(ideal, addr.stakeEntry, first)
        /\ now' = now
    BY DEF StakeTokens, Exists, Weight
  <1>3. Exists(PoolAddress)
    <2>1. /\ "vault" \in DOMAIN StakeIx
          /\ StakeIx["vault"].by = "relations" /\ StakeIx["vault"].of = {"stakePool"}
      BY DEF StakeIx, FieldOf
    <2>2. addr["stakePool"] \in DOMAIN accounts
      BY <1>2, <2>1 DEF Permitted, Accepts
    <2> QED
      BY <1>1, <2>2 DEF Exists
  <1> HIDE DEF addr, entry
  <1>4. HasItsPlace(entry)'
    <2>1. accounts'[entry] = contents /\ Exists(PoolAddress)'
      BY <1>1, <1>2, <1>3 DEF Stored, Exists
    <2>2. Weight(duration) \in Nat
      BY Weights DEF Durations
    <2>3. contents \in StakeEntryType
      BY <1>1, <2>2, StakingAssumption DEF StakeEntryType, StakingInv
    <2>4. entry = StakeEntryPDA(PoolAddress, contents.authority, contents.nonce)
      BY <1>1 DEF entry
    <2> QED
      BY <2>1, <2>3, <2>4 DEF HasItsPlace, StakeInv, StakeEntryType, Weight, PoolAddress
  <1>5. AccountsInv' /\ StakeEntries' = StakeEntries \cup {entry}
    <2>1. entry[1] = "stake-entry"
      BY DEF entry, StakeEntryPDA
    <2> QED
      BY <1>1, <1>2, <1>4, <2>1, NewAccount DEF StakingInv
  <1>6. ideal' \in [StakeEntries \cup {entry} -> IdealType(now)]
    <2>1. first \in IdealType(now)
      BY StakingAssumption DEF IdealType, StakingInv
    <2>2. DOMAIN ideal = StakeEntries /\ \A a \in StakeEntries : ideal[a] \in IdealType(now)
      BY DEF StakingInv, IdealInv
    <2> HIDE DEF first
    <2> QED
      BY <1>1, <1>2, <2>1, <2>2 DEF Stored
  <1> QED
    BY <1>2, <1>5, <1>6 DEF StakingInv, IdealInv, IdealType

LEMMA UnstakeKeeps ==
    ASSUME StakingInv, NEW staker \in Wallets, NEW nonce \in Nonces, Unstake(staker, nonce)
    PROVE  StakingInv'
  <1> DEFINE given == UnstakeAccounts(PoolAddress, StakeToken, nonce, staker)
             addr == Completed(UnstakeIx, given, <<>>, accounts)
             entry == StakeEntryPDA(PoolAddress, staker, nonce)
             contents == [accounts[entry] EXCEPT !.closedTs = now]
  <1>1. addr.stakeEntry = entry
    BY UnstakeCompleted
  <1>2. /\ entry \in DOMAIN accounts
        /\ accounts' = [accounts EXCEPT ![entry].closedTs = now]
        /\ now' = now /\ ideal' = ideal
    BY <1>1 DEF Unstake, Exists
  <1>3. entry[1] = "stake-entry"
    BY DEF StakeEntryPDA
  <1> HIDE DEF addr, entry
  <1>4. StakeInv(entry)
    BY <1>2, <1>3, KindOf DEF StakingInv
  <1>5. accounts' = [accounts EXCEPT ![entry] = contents]
    BY <1>2
  <1>6. HasItsPlace(entry)'
    <2>1. accounts'[entry] = contents /\ Exists(PoolAddress)'
      BY <1>2, <1>4 DEF StakeInv, Exists
    <2>2. contents \in StakeEntryType
      BY <1>4, StakingAssumption DEF StakeInv, StakeEntryType, StakingInv
    <2>3. /\ contents.authority = accounts[entry].authority /\ contents.nonce = accounts[entry].nonce
          /\ contents.effectiveAmount = accounts[entry].effectiveAmount
          /\ contents.duration = accounts[entry].duration
      BY <1>4 DEF StakeInv, StakeEntryType
    <2> HIDE DEF contents
    <2> QED
      BY <1>4, <2>1, <2>2, <2>3 DEF HasItsPlace, StakeInv, StakeEntryType, PoolAddress
  <1>7. AccountsInv' /\ StakeEntries' = StakeEntries
    BY <1>2, <1>5, <1>6, ChangedAccount DEF StakingInv
  <1> QED
    BY <1>2, <1>7 DEF StakingInv, IdealInv, IdealType

LEMMA CreateRewardEntryKeeps ==
    ASSUME StakingInv, NEW staker \in Wallets, NEW nonce \in Nonces, CreateRewardEntry(staker, nonce)
    PROVE  StakingInv'
  <1> DEFINE given == CreateRewardEntryAccounts(PoolAddress, 0, nonce, RewardToken, staker)
             addr == Completed(CreateEntryIx, given, <<>>, accounts)
             entry == StakeEntryPDA(PoolAddress, staker, nonce)
             address == RewardEntryPDA(RewardPoolAddress, entry)
             contents == [rewardPool |-> addr.rewardPool, stakeEntry |-> addr.stakeEntry,
                          createdTs |-> now, accountedAmount |-> 0, claimedAmount |-> 0,
                          lastAccountedTs |-> 0, lastRewardAmount |-> RewardPool.rewardAmount,
                          lastRewardPeriod |-> RewardPool.rewardPeriod]
  <1>1. /\ addr.stakeEntry = entry /\ addr.rewardPool = RewardPoolAddress
        /\ addr.rewardEntry = address
    BY EntryCompleted DEF RewardPoolAddress
  <1>2. /\ entry \in DOMAIN accounts /\ Exists(RewardPoolAddress)
        /\ addr.rewardEntry \notin DOMAIN accounts
        /\ accounts' = Stored(accounts, addr.rewardEntry, contents)
        /\ ideal' = [ideal EXCEPT ![entry] = InStep(@)]
        /\ now' = now
    BY <1>1 DEF CreateRewardEntry, Exists
  <1>3. entry[1] = "stake-entry" /\ address[1] = "reward-entry"
    BY DEF StakeEntryPDA, RewardEntryPDA
  <1>4. entry \in StakeEntries
    BY <1>2, <1>3 DEF StakeEntries, OfKind
  <1> HIDE DEF addr, entry
  <1>5. HasItsPlace(address)'
    <2>1. accounts'[address] = contents /\ Exists(RewardPoolAddress)' /\ entry \in StakeEntries'
      BY <1>1, <1>2, <1>4 DEF Stored, Exists, StakeEntries, OfKind
    <2>2. contents \in [rewardPool : {RewardPoolAddress}, stakeEntry : {entry},
                        createdTs : 1..MaxTime, accountedAmount : Nat, claimedAmount : Nat,
                        lastAccountedTs : 0..MaxTime, lastRewardAmount : Amounts,
                        lastRewardPeriod : Periods]
      BY <1>1, <1>2, RewardPoolTyped, StakingAssumption DEF StakingInv
    <2> QED
      BY <1>1, <2>1, <2>2
      DEF HasItsPlace, RewardEntryInv, RewardEntryType, RewardPoolAddress, PoolAddress
  <1>6. AccountsInv' /\ StakeEntries' = StakeEntries
    BY <1>1, <1>2, <1>3, <1>5, NewAccount DEF StakingInv
  <1>7. ideal' \in [StakeEntries -> IdealType(now)]
    <2>1. ideal[entry] \in IdealType(now) /\ DOMAIN ideal = StakeEntries
      BY <1>4 DEF StakingInv, IdealInv
    <2>2. InStep(ideal[entry]) \in IdealType(now)
      BY <2>1 DEF InStep, IdealType
    <2> QED
      BY <1>2, <1>4, <2>2 DEF StakingInv, IdealInv
  <1> QED
    BY <1>2, <1>6, <1>7 DEF StakingInv, IdealInv, IdealType

LEMMA ClaimRewardsKeeps ==
    ASSUME StakingInv, NEW staker \in Wallets, NEW nonce \in Nonces, ClaimRewards(staker, nonce)
    PROVE  StakingInv'
  <1> DEFINE given == ClaimAccounts(PoolAddress, 0, nonce, RewardToken, staker)
             addr == Completed(ClaimRewardsIx, given, <<>>, accounts)
             entry == StakeEntryPDA(PoolAddress, staker, nonce)
             address == RewardEntryPDA(RewardPoolAddress, entry)
             i == Rounded(ideal[entry], accounts[entry])
             contents == [accounts[address] EXCEPT
                              !.accountedAmount = i.earned,
                              !.claimedAmount = i.earned \div Precision,
                              !.lastAccountedTs = i.from,
                              !.lastRewardAmount = RewardPool.rewardAmount,
                              !.lastRewardPeriod = RewardPool.rewardPeriod]
  <1>1. addr.stakeEntry = entry /\ addr.rewardEntry = address
    BY ClaimCompleted DEF RewardPoolAddress
  <1>2. /\ address \in DOMAIN accounts
        /\ accounts' = [accounts EXCEPT ![address] = contents]
        /\ ideal' = [ideal EXCEPT ![entry] = [InStep(i) EXCEPT !.claimedTs = now]]
        /\ now' = now
    BY <1>1 DEF ClaimRewards, Exists
  <1>3. address[1] = "reward-entry"
    BY DEF RewardEntryPDA
  <1> HIDE DEF addr
  <1>4. RewardEntryInv(address)
    BY <1>2, <1>3, KindOf DEF StakingInv
  <1>5. accounts[address].stakeEntry = entry /\ entry \in StakeEntries
    <2>1. address = RewardEntryPDA(RewardPoolAddress, accounts[address].stakeEntry)
      BY <1>4 DEF RewardEntryInv
    <2> HIDE DEF entry
    <2>2. accounts[address].stakeEntry = entry
      BY <2>1 DEF RewardEntryPDA
    <2> QED
      BY <1>4, <2>2 DEF RewardEntryInv, RewardEntryType
  <1>6. i \in IdealType(now) /\ DOMAIN ideal = StakeEntries
    <2>1. ideal[entry] \in IdealType(now) /\ DOMAIN ideal = StakeEntries
      BY <1>5 DEF StakingInv, IdealInv
    <2>2. accounts[entry].effectiveAmount \in Nat /\ now \in Nat
      BY <1>5, StakeIsTyped, StakingAssumption DEF StakingInv, StakeInv, StakeEntryType
    <2> QED
      BY <2>1, <2>2, EarnedTyped
  <1> HIDE DEF entry, address, i
  <1>7. HasItsPlace(address)'
    <2>1. accounts'[address] = contents
      BY <1>2
    <2>2. Exists(RewardPoolAddress)' /\ StakeEntries' = StakeEntries
      BY <1>2, <1>4 DEF RewardEntryInv, Exists, StakeEntries, OfKind
    <2>3. /\ i.earned \in Nat /\ i.from \in 0..MaxTime /\ i.earned \div Precision \in Nat
      <3>1. i.earned \in Nat /\ i.from \in 1..now /\ now \in 1..MaxTime /\ Precision \in Nat \ {0}
        BY <1>6, RewardAssumption DEF IdealType, StakingInv
      <3>2. i.earned \div Precision \in Nat
        BY <3>1, FloorOf
      <3> QED
        BY <3>1, <3>2, StakingAssumption
    <2>4. RewardPool.rewardAmount \in Amounts /\ RewardPool.rewardPeriod \in Periods
      BY <1>4, RewardPoolTyped DEF RewardEntryInv, StakingInv
    <2>5. contents \in RewardEntryType /\ contents.stakeEntry = accounts[address].stakeEntry
      BY <1>4, <2>3, <2>4 DEF RewardEntryInv, RewardEntryType
    <2>6. RewardEntryInv(address)'
      <3> HIDE DEF contents
      <3>1. contents \in RewardEntryType'
        BY <2>2, <2>5 DEF RewardEntryType, RewardPoolAddress, PoolAddress
      <3> QED
        BY <1>4, <2>1, <2>2, <2>5, <3>1 DEF RewardEntryInv, RewardPoolAddress, PoolAddress
    <2> QED
      BY <2>6 DEF HasItsPlace
  <1>8. AccountsInv' /\ StakeEntries' = StakeEntries
    BY <1>2, <1>7, ChangedAccount DEF StakingInv
  <1>9. ideal' \in [StakeEntries -> IdealType(now)]
    <2>1. [InStep(i) EXCEPT !.claimedTs = now] \in IdealType(now)
      <3>1. InStep(i) \in IdealType(now)
        BY <1>6 DEF InStep, IdealType
      <3>2. now \in 0..MaxTime
        BY StakingAssumption DEF StakingInv
      <3> QED
        BY <3>1, <3>2 DEF IdealType
    <2>2. ideal' = [ideal EXCEPT ![entry] = [InStep(i) EXCEPT !.claimedTs = now]]
      BY <1>2, <1>5, <1>6 DEF i
    <2> QED
      BY <1>5, <2>1, <2>2 DEF StakingInv, IdealInv
  <1> QED
    BY <1>2, <1>8, <1>9 DEF StakingInv, IdealInv, IdealType

LEMMA UpdatePoolKeeps ==
    ASSUME StakingInv, UpdatePool
    PROVE  StakingInv'
  <1> DEFINE newAmount(amount) == amount # RewardPool.rewardAmount
             newPeriod(period) == period # RewardPool.rewardPeriod
             pool(amount, period) == [RewardPool EXCEPT
                !.rewardAmount = amount, !.rewardPeriod = period,
                !.lastRewardAmount = IF newAmount(amount) THEN RewardPool.rewardAmount ELSE @,
                !.lastRewardPeriod = IF newPeriod(period) THEN RewardPool.rewardPeriod ELSE @,
                !.lastAmountUpdateTs = IF newAmount(amount) THEN now ELSE @,
                !.lastPeriodUpdateTs = IF newPeriod(period) THEN now ELSE @]
             counted(amount, period) == AccruedAll(RoundedAll, now, pool(amount, period))
  <1>1. PICK amount \in Amounts, period \in Periods :
        /\ Exists(RewardPoolAddress)
        /\ accounts' = [accounts EXCEPT ![RewardPoolAddress] = pool(amount, period)]
        /\ ideal' = [a \in DOMAIN ideal |-> [counted(amount, period)[a] EXCEPT
                  !.amountUpdates = @ + IF newAmount(amount) THEN 1 ELSE 0,
                  !.periodUpdates = @ + IF newPeriod(period) THEN 1 ELSE 0]]
        /\ now' = now
    BY DEF UpdatePool, UpdateRewardPool
  <1>2. /\ RewardPool \in RewardPoolType /\ RewardPool.nonce = 0 /\ Exists(PoolAddress)
        /\ RewardPool.rewardAmount \in Amounts /\ RewardPool.rewardPeriod \in Periods
    BY <1>1, RewardPoolTyped DEF StakingInv
  <1>3. /\ pool(amount, period) \in RewardPoolType /\ pool(amount, period).nonce = 0
        /\ pool(amount, period).rewardAmount \in Amounts
        /\ pool(amount, period).rewardPeriod \in Periods
    <2>1. now \in 0..MaxTime
      BY StakingAssumption DEF StakingInv
    <2> QED
      BY <1>2, <2>1 DEF RewardPoolType
  <1> HIDE DEF pool
  <1>4. HasItsPlace(RewardPoolAddress)'
    <2>1. accounts'[RewardPoolAddress] = pool(amount, period) /\ Exists(PoolAddress)'
      BY <1>1, <1>2 DEF Exists
    <2> QED
      BY <1>3, <2>1 DEF HasItsPlace, RewardPoolInv, RewardPoolType, RewardPoolAddress, PoolAddress
  <1>5. AccountsInv' /\ StakeEntries' = StakeEntries
    BY <1>1, <1>4, ChangedAccount DEF StakingInv, Exists
  <1>6. counted(amount, period) \in [StakeEntries -> IdealType(now)]
    <2>1. now \in Nat /\ now <= now
      BY StakingAssumption DEF StakingInv
    <2> QED
      BY <1>3, <2>1, AccruedAllTyped, RoundedAllTyped DEF StakingInv, IdealInv
  <1> HIDE DEF counted, newAmount, newPeriod
  <1>7. ideal' \in [StakeEntries -> IdealType(now)]
    <2>1. ASSUME NEW i \in IdealType(now), NEW m \in 0..1, NEW n \in 0..1
          PROVE  [i EXCEPT !.amountUpdates = @ + m, !.periodUpdates = @ + n] \in IdealType(now)
      <3>1. i.amountUpdates + m \in Nat /\ i.periodUpdates + n \in Nat
        BY DEF IdealType
      <3> QED
        BY <3>1 DEF IdealType
    <2>2. DOMAIN ideal = StakeEntries
      BY DEF StakingInv, IdealInv
    <2>3. \A a \in StakeEntries : counted(amount, period)[a] \in IdealType(now)
      BY <1>6
    <2>4. \A a \in StakeEntries :
            [counted(amount, period)[a] EXCEPT
                  !.amountUpdates = @ + IF newAmount(amount) THEN 1 ELSE 0,
                  !.periodUpdates = @ + IF newPeriod(period) THEN 1 ELSE 0] \in IdealType(now)
      <3>1. /\ (IF newAmount(amount) THEN 1 ELSE 0) \in 0..1
            /\ (IF newPeriod(period) THEN 1 ELSE 0) \in 0..1
        OBVIOUS
      <3> QED
        BY <2>1, <2>3, <3>1
    <2> QED
      BY <1>1, <2>2, <2>4
  <1> QED
    BY <1>1, <1>5, <1>7 DEF StakingInv, IdealInv, IdealType

-----------------------------------------------------------------------------
LEMMA StakingInvHolds == Spec => []StakingInv
  <1>1. Init => StakingInv
    <2> SUFFICES ASSUME Init PROVE StakingInv
      OBVIOUS
    <2>1. now = 1 /\ accounts = <<>> /\ ideal = <<>>
      BY DEF Init
    <2>2. DOMAIN accounts = {} /\ StakeEntries = {}
      BY <2>1 DEF StakeEntries, OfKind
    <2>3. AccountsInv
      BY <2>1, <2>2 DEF AccountsInv
    <2>4. IdealInv
      BY <2>1, <2>2 DEF IdealInv
    <2> QED
      BY <2>1, <2>3, <2>4, StakingAssumption DEF StakingInv
  <1>2. StakingInv /\ [Next]_vars => StakingInv'
    <2> SUFFICES ASSUME StakingInv, [Next]_vars PROVE StakingInv'
      OBVIOUS
    <2>1. CASE Tick
      BY <2>1, TickKeeps
    <2>2. CASE CreateStakePool
      BY <2>2, CreateStakePoolKeeps
    <2>3. CASE CreateRewardPool
      BY <2>3, CreateRewardPoolKeeps
    <2>4. CASE UpdatePool
      BY <2>4, UpdatePoolKeeps
    <2>5. CASE \E s \in Wallets, n \in Nonces : \E d \in Durations : StakeTokens(s, n, d)
      BY <2>5, StakeTokensKeeps
    <2>6. CASE \E s \in Wallets, n \in Nonces : Unstake(s, n)
      BY <2>6, UnstakeKeeps
    <2>7. CASE \E s \in Wallets, n \in Nonces : CreateRewardEntry(s, n)
      BY <2>7, CreateRewardEntryKeeps
    <2>8. CASE \E s \in Wallets, n \in Nonces : ClaimRewards(s, n)
      BY <2>8, ClaimRewardsKeeps
    <2>9. CASE UNCHANGED vars
      BY <2>9 DEF vars, StakingInv, AccountsInv, IdealInv, IdealType, PoolInv, StakeInv,
                  RewardPoolInv, RewardEntryInv, Exists, RewardEntryType, StakeEntries, OfKind
    <2> QED
      BY <2>1, <2>2, <2>3, <2>4, <2>5, <2>6, <2>7, <2>8, <2>9 DEF Next
  <1> QED
    BY <1>1, <1>2, PTL DEF Spec

(* Every account is of the type of its kind, and every stake is accounted  *)
(* for.                                                                    *)
THEOREM StakingTypeCorrect == Spec => []TypeOK
  <1>1. StakingInv => TypeOK
    <2> SUFFICES ASSUME StakingInv PROVE TypeOK
      OBVIOUS
    <2>1. \A a \in DOMAIN accounts :
            accounts[a] \in CASE a[1] = "stake-pool"   -> StakePoolType
                              [] a[1] = "stake-entry"  -> StakeEntryType
                              [] a[1] = "reward-pool"  -> RewardPoolType
                              [] a[1] = "reward-entry" -> RewardEntryType
      BY KindOf DEF StakingInv, PoolInv, StakeInv, RewardPoolInv, RewardEntryInv
    <2>2. IdealType(now) \subseteq [earned : Nat, running : Nat, from : 1..MaxTime, claimedTs : 0..MaxTime,
                       late : BOOLEAN, amountUpdates : Nat, periodUpdates : Nat]
      BY StakingAssumption DEF IdealType, StakingInv
    <2>3. DOMAIN ideal = StakeEntries /\ \A a \in StakeEntries : ideal[a] \in IdealType(now)
      BY DEF StakingInv, IdealInv
    <2> QED
      BY <2>1, <2>2, <2>3 DEF TypeOK, StakingInv
  <1> QED
    BY <1>1, StakingInvHolds, PTL

(* calculateStakeWeight (stake-weight.ts) never lets a longer stake weigh  *)
(* less, and stays between the amount and maxWeight, for all durations and *)
(* weights, those that the scale does not divide included.                 *)
THEOREM WeightsCorrect == Spec => []LongerWeighsMore
  <1>1. StakingInv => LongerWeighsMore
    <2> SUFFICES ASSUME StakingInv, NEW a \in StakeEntries
                 PROVE  /\ \A d \in MinDuration..accounts[a].duration :
                             Weight(d) <= accounts[a].effectiveAmount
                        /\ accounts[a].effectiveAmount \in Scale..Max({Scale, MaxWeight})
      BY DEF LongerWeighsMore, Weight
    <2>1. accounts[a].duration \in Durations
          /\ accounts[a].effectiveAmount = Weight(accounts[a].duration)
      BY StakeIsTyped DEF StakingInv, StakeInv, StakeEntryType, Weight
    <2>2. \A d \in MinDuration..accounts[a].duration : d \in Durations /\ d <= accounts[a].duration
      BY <2>1, StakingAssumption DEF Durations
    <2>3. accounts[a].duration <= accounts[a].duration
      BY <2>1, StakingAssumption DEF Durations
    <2> QED
      BY <2>1, <2>2, <2>3, Weights
  <1> QED
    BY <1>1, StakingInvHolds, PTL

(* No account that exists is the one that could not be found.              *)
LEMMA NotMissing ==
    /\ \A m, s : TokenAccount(m, s) # Missing
    /\ \A w \in Wallets : w # Missing
    /\ \A m, c, n : StakePoolPDA(m, c, n) # Missing /\ StakeEntryPDA(m, c, n) # Missing
                    /\ RewardPoolPDA(m, c, n) # Missing
    /\ \A p : StakeVaultPDA(p) # Missing /\ StakeMintPDA(p) # Missing /\ RewardVaultPDA(p) # Missing
    /\ \A p, s : RewardEntryPDA(p, s) # Missing
    /\ StakeToken # Missing /\ RewardToken # Missing
  <1>1. \A w \in Wallets : w # Missing
    BY StakingAssumption DEF Wallets, Missing
  <1> QED
    BY <1>1 DEF TokenAccount, Missing, StakePoolPDA, StakeEntryPDA, RewardPoolPDA, StakeVaultPDA,
           StakeMintPDA, RewardVaultPDA, RewardEntryPDA, StakeToken, RewardToken

LEMMA CanUnstake ==
    ASSUME StakingInv, NEW a \in StakeEntries
    PROVE  LET stake == accounts[a]
               pool == accounts[stake.stakePool]
               given == UnstakeAccounts(stake.stakePool, pool.mint, stake.nonce, stake.authority)
               addr == Completed(UnstakeIx, given, <<>>, accounts)
           IN  /\ addr.stakeEntry = a
               /\ Permitted(UnstakeIx, addr, <<>>, stake.authority)
               /\ addr.from = TokenAccount(addr.stakeMint, stake.authority)
               /\ addr.to = TokenAccount(addr.mint, stake.authority)
  <1> DEFINE stake == accounts[a]
             pool == accounts[stake.stakePool]
             given == UnstakeAccounts(stake.stakePool, pool.mint, stake.nonce, stake.authority)
             addr == Completed(UnstakeIx, given, <<>>, accounts)
  <1>1. /\ a \in DOMAIN accounts /\ stake \in StakeEntryType
        /\ a = StakeEntryPDA(PoolAddress, stake.authority, stake.nonce)
        /\ PoolAddress \in DOMAIN accounts
    BY StakeIsTyped DEF StakingInv, StakeInv, Exists
  <1>2. stake.stakePool = PoolAddress /\ stake.authority \in Wallets
    BY <1>1 DEF StakeEntryType
  <1>3. pool \in StakePoolType
    <2>1. PoolAddress[1] = "stake-pool"
      BY DEF PoolAddress, StakePoolPDA
    <2> QED
      BY <1>1, <1>2, <2>1, KindOf DEF StakingInv, PoolInv
  <1>4. pool.mint = StakeToken /\ pool.vault = StakeVaultPDA(PoolAddress)
        /\ pool.stakeMint = StakeMintPDA(PoolAddress)
    BY <1>3 DEF StakePoolType
  <1>5. /\ addr.stakeEntry = StakeEntryPDA(stake.stakePool, stake.authority, stake.nonce)
        /\ addr.to = TokenAccount(pool.mint, stake.authority)
        /\ addr.from = TokenAccount(StakeMintPDA(stake.stakePool), stake.authority)
        /\ addr.authority = stake.authority
        /\ addr.stakePool = IF addr.stakeEntry \in DOMAIN accounts THEN accounts[addr.stakeEntry].stakePool ELSE Missing
        /\ addr.vault = IF addr.stakePool \in DOMAIN accounts THEN accounts[addr.stakePool].vault ELSE Missing
        /\ addr.mint = IF addr.stakePool \in DOMAIN accounts THEN accounts[addr.stakePool].mint ELSE Missing
        /\ addr.stakeMint = IF addr.stakePool \in DOMAIN accounts THEN accounts[addr.stakePool].stakeMint ELSE Missing
    BY UnstakeCompleted
  <1> HIDE DEF addr
  <1>6. addr.stakeEntry = a /\ addr.stakePool = PoolAddress
    BY <1>1, <1>2, <1>5
  <1>7. /\ addr.vault = pool.vault /\ addr.mint = pool.mint /\ addr.stakeMint = pool.stakeMint
    BY <1>1, <1>2, <1>5, <1>6
  <1>8. Permitted(UnstakeIx, addr, <<>>, stake.authority)
    <2>1. \A name \in DOMAIN UnstakeIx : addr[name] # Missing
      BY <1>1, <1>2, <1>4, <1>5, <1>6, <1>7, NotMissing DEF UnstakeIx, PoolAddress
    <2>2. \A name \in DOMAIN UnstakeIx : "signs" \in DOMAIN UnstakeIx[name] => name = "authority"
      BY DEF UnstakeIx, Named, Signer, FieldOf
    <2>3. \A name \in DOMAIN UnstakeIx : UnstakeIx[name].by \in {"name", "relations"}
      BY DEF UnstakeIx, Named, Signer, FieldOf
    <2>4. \A name \in DOMAIN UnstakeIx : UnstakeIx[name].by = "relations" =>
            \/ name = "stakePool" /\ UnstakeIx[name].of = {"stakeEntry"}
            \/ name \in {"vault", "mint", "stakeMint"} /\ UnstakeIx[name].of = {"stakePool"}
      BY DEF UnstakeIx, Named, Signer, FieldOf
    <2>5. /\ accounts[addr.stakeEntry].stakePool = addr.stakePool
          /\ accounts[addr.stakePool].vault = addr.vault
          /\ accounts[addr.stakePool].mint = addr.mint
          /\ accounts[addr.stakePool].stakeMint = addr.stakeMint
          /\ {addr.stakeEntry, addr.stakePool} \subseteq DOMAIN accounts
      BY <1>1, <1>2, <1>6, <1>7
    <2>6. ASSUME NEW name \in DOMAIN UnstakeIx, UnstakeIx[name].by = "relations",
                 NEW r \in UnstakeIx[name].of
          PROVE  addr[r] \in DOMAIN accounts /\ accounts[addr[r]][name] = addr[name]
      BY <2>4, <2>5, <2>6
    <2> QED
      BY <1>5, <2>1, <2>2, <2>3, <2>6 DEF Permitted, Accepts
  <1> QED
    BY <1>2, <1>4, <1>5, <1>6, <1>7, <1>8 DEF addr

LEMMA CanClaim ==
    ASSUME StakingInv, NEW r \in RewardEntries
    PROVE  LET stake == accounts[accounts[r].stakeEntry]
               pool == accounts[accounts[r].rewardPool]
               given == ClaimAccounts(stake.stakePool, pool.nonce, stake.nonce, pool.mint,
                                      stake.authority)
               addr == Completed(ClaimRewardsIx, given, <<>>, accounts)
           IN  /\ addr.rewardEntry = r
               /\ Permitted(ClaimRewardsIx, addr, <<>>, stake.authority)
               /\ addr.to = TokenAccount(addr.mint, stake.authority)
  <1> DEFINE entry == accounts[r].stakeEntry
             stake == accounts[entry]
             pool == accounts[accounts[r].rewardPool]
             given == ClaimAccounts(stake.stakePool, pool.nonce, stake.nonce, pool.mint,
                                    stake.authority)
             addr == Completed(ClaimRewardsIx, given, <<>>, accounts)
  <1>1. /\ r \in DOMAIN accounts /\ RewardEntryInv(r)
    BY KindOf DEF StakingInv, RewardEntries, OfKind
  <1>2. /\ RewardPoolAddress \in DOMAIN accounts /\ accounts[r].rewardPool = RewardPoolAddress
        /\ entry \in StakeEntries /\ r = RewardEntryPDA(RewardPoolAddress, entry)
    BY <1>1 DEF RewardEntryInv, RewardEntryType, Exists
  <1>3. /\ entry \in DOMAIN accounts /\ entry = StakeEntryPDA(PoolAddress, stake.authority, stake.nonce)
        /\ stake.stakePool = PoolAddress /\ stake.authority \in Wallets
    BY <1>2, StakeIsTyped DEF StakingInv, StakeInv, StakeEntryType
  <1>4. /\ pool.nonce = 0 /\ pool.mint = RewardToken /\ pool.vault = RewardVaultPDA(RewardPoolAddress)
    BY <1>2, RewardPoolTyped DEF StakingInv, RewardPool, RewardPoolType, Exists
  <1>5. /\ addr.stakeEntry = StakeEntryPDA(stake.stakePool, stake.authority, stake.nonce)
        /\ addr.rewardPool = RewardPoolPDA(stake.stakePool, pool.mint, pool.nonce)
        /\ addr.rewardEntry = RewardEntryPDA(addr.rewardPool, addr.stakeEntry)
        /\ addr.claimant = stake.authority /\ addr.to = TokenAccount(pool.mint, stake.authority)
        /\ addr.vault = IF addr.rewardPool \in DOMAIN accounts THEN accounts[addr.rewardPool].vault ELSE Missing
        /\ addr.mint = IF addr.rewardPool \in DOMAIN accounts THEN accounts[addr.rewardPool].mint ELSE Missing
    BY ClaimCompleted
  <1> HIDE DEF addr
  <1>6. addr.stakeEntry = entry /\ addr.rewardPool = RewardPoolAddress /\ addr.rewardEntry = r
    BY <1>2, <1>3, <1>4, <1>5 DEF RewardPoolAddress
  <1>7. addr.vault = pool.vault /\ addr.mint = pool.mint
    BY <1>2, <1>5, <1>6
  <1>8. Permitted(ClaimRewardsIx, addr, <<>>, stake.authority)
    <2>1. \A name \in DOMAIN ClaimRewardsIx : addr[name] # Missing
      <3>1. addr.stakeEntry # Missing
        BY <1>5, NotMissing
      <3>2. addr.rewardPool # Missing /\ addr.rewardEntry # Missing
        BY <1>5, NotMissing
      <3>3. addr.vault # Missing /\ addr.mint # Missing
        BY <1>4, <1>7, NotMissing
      <3>4. addr.to # Missing /\ addr.claimant # Missing
        BY <1>3, <1>5, NotMissing
      <3>5. DOMAIN ClaimRewardsIx = {"rewardPool", "stakeEntry", "rewardEntry", "vault", "to",
                                     "claimant", "mint"}
        BY DEF ClaimRewardsIx
      <3> QED
        BY <3>1, <3>2, <3>3, <3>4, <3>5
    <2>2. \A name \in DOMAIN ClaimRewardsIx :
            "signs" \in DOMAIN ClaimRewardsIx[name] => name = "claimant"
      BY DEF ClaimRewardsIx, RewardEntrySeeds, Named, Signer, Seeds, FieldOf
    <2>3. \A name \in DOMAIN ClaimRewardsIx :
            /\ ClaimRewardsIx[name].by \in {"name", "seeds", "relations"}
            /\ ClaimRewardsIx[name].by = "seeds" =>
                 name = "rewardEntry"
                 /\ ClaimRewardsIx[name] = Seeds("reward-entry", <<"rewardPool", "stakeEntry">>)
            /\ ClaimRewardsIx[name].by = "relations" =>
                 name \in {"vault", "mint"} /\ ClaimRewardsIx[name].of = {"rewardPool"}
      BY DEF ClaimRewardsIx, RewardEntrySeeds, Named, Signer, Seeds, FieldOf
    <2>4. addr.rewardEntry = Seeded(Seeds("reward-entry", <<"rewardPool", "stakeEntry">>), addr, <<>>)
      BY <1>5, SeededByTwo DEF Seed, RewardEntryPDA
    <2>5. /\ accounts[addr.rewardPool].vault = addr.vault
          /\ accounts[addr.rewardPool].mint = addr.mint
          /\ addr.rewardPool \in DOMAIN accounts
      BY <1>2, <1>6, <1>7
    <2>6. ASSUME NEW name \in DOMAIN ClaimRewardsIx, ClaimRewardsIx[name].by = "relations",
                 NEW s \in ClaimRewardsIx[name].of
          PROVE  addr[s] \in DOMAIN accounts /\ accounts[addr[s]][name] = addr[name]
      BY <2>3, <2>5, <2>6
    <2>7. \A name \in DOMAIN ClaimRewardsIx : ClaimRewardsIx[name].by = "seeds" =>
            addr[name] = Seeded(ClaimRewardsIx[name], addr, <<>>)
      BY <2>3, <2>4
    <2> QED
      BY <1>5, <2>1, <2>2, <2>3, <2>6, <2>7 DEF Permitted, Accepts
  <1> QED
    BY <1>4, <1>5, <1>6, <1>7, <1>8 DEF addr

(* Whatever was staked can be unstaked, and whatever entry exists claimed: *)
(* the addresses that StakingClient derives again from what it reads are   *)
(* those the programs created (README.md:233-238).                         *)
THEOREM NothingStrandedCorrect == Spec => []NothingStranded
  <1>1. StakingInv => NothingStranded
    <2> SUFFICES ASSUME StakingInv PROVE NothingStranded
      OBVIOUS
    <2> QED
      BY CanUnstake, CanClaim DEF NothingStranded
  <1> QED
    BY <1>1, StakingInvHolds, PTL

-----------------------------------------------------------------------------
(* The offsets of staking/solana/constants.ts.                             *)
LEMMA PoolFields ==
    \A key \in {"mint", "creator"} : FieldsAt(StakePoolLayout, StakePoolOffsets[key]) = {key}
  <1> DEFINE layout == StakePoolLayout
  <1>1. /\ DOMAIN layout = 1..4
        /\ layout[1] = <<"bump", 1>>
        /\ layout[2] = <<"nonce", 1>>
        /\ layout[3] = <<"mint", 32>>
        /\ layout[4] = <<"creator", 32>>
    BY DEF StakePoolLayout
  <1> HIDE DEF layout
  <1>2. IsLayout(layout)
    BY <1>1 DEF IsLayout
  <1>3. /\ StartIn(layout, 1) = 8
        /\ \A i \in 2..4 : StartIn(layout, i) = StartIn(layout, i - 1) + layout[i - 1][2]
    <2>1. 4 \in Nat /\ 4 >= 1
      OBVIOUS
    <2> QED
      BY <1>1, <1>2, <2>1, StartInNext DEF AnchorDiscriminatorOffset
  <1>4. /\ StartIn(layout, 2) = StartIn(layout, 1) + 1
        /\ StartIn(layout, 3) = StartIn(layout, 2) + 1
        /\ StartIn(layout, 4) = StartIn(layout, 3) + 32
    BY <1>1, <1>3
  <1>5. /\ StartIn(layout, 1) = 8
        /\ StartIn(layout, 2) = 9
        /\ StartIn(layout, 3) = 10
        /\ StartIn(layout, 4) = 42
    BY <1>3, <1>4
  <1>6. StakePoolOffsets["mint"] = 10 /\ StakePoolOffsets["creator"] = 42
    BY DEF StakePoolOffsets, AnchorDiscriminatorOffset
  <1>7. FieldsAt(layout, 10) = {"mint"} /\ FieldsAt(layout, 42) = {"creator"}
    BY <1>1, <1>5 DEF FieldsAt
  <1> QED
    BY <1>6, <1>7 DEF layout

LEMMA StakeFields ==
    \A key \in {"stakePool", "payer"} : FieldsAt(StakeEntryLayout, StakeEntryOffsets[key]) = {key}
  <1> DEFINE layout == StakeEntryLayout
  <1>1. /\ DOMAIN layout = 1..3
        /\ layout[1] = <<"nonce", 4>>
        /\ layout[2] = <<"stakePool", 32>>
        /\ layout[3] = <<"payer", 32>>
    BY DEF StakeEntryLayout
  <1> HIDE DEF layout
  <1>2. IsLayout(layout)
    BY <1>1 DEF IsLayout
  <1>3. /\ StartIn(layout, 1) = 8
        /\ \A i \in 2..3 : StartIn(layout, i) = StartIn(layout, i - 1) + layout[i - 1][2]
    <2>1. 3 \in Nat /\ 3 >= 1
      OBVIOUS
    <2> QED
      BY <1>1, <1>2, <2>1, StartInNext DEF AnchorDiscriminatorOffset
  <1>4. /\ StartIn(layout, 2) = StartIn(layout, 1) + 4
        /\ StartIn(layout, 3) = StartIn(layout, 2) + 32
    BY <1>1, <1>3
  <1>5. /\ StartIn(layout, 1) = 8
        /\ StartIn(layout, 2) = 12
        /\ StartIn(layout, 3) = 44
    BY <1>3, <1>4
  <1>6. StakeEntryOffsets["stakePool"] = 12 /\ StakeEntryOffsets["payer"] = 44
    BY DEF StakeEntryOffsets, AnchorDiscriminatorOffset
  <1>7. FieldsAt(layout, 12) = {"stakePool"} /\ FieldsAt(layout, 44) = {"payer"}
    BY <1>1, <1>5 DEF FieldsAt
  <1> QED
    BY <1>6, <1>7 DEF layout

LEMMA RewardPoolFields ==
    \A key \in {"stakePool", "mint"} : FieldsAt(RewardPoolLayout, RewardPoolOffsets[key]) = {key}
  <1> DEFINE layout == RewardPoolLayout
  <1>1. /\ DOMAIN layout = 1..4
        /\ layout[1] = <<"bump", 1>>
        /\ layout[2] = <<"nonce", 1>>
        /\ layout[3] = <<"stakePool", 32>>
        /\ layout[4] = <<"mint", 32>>
    BY DEF RewardPoolLayout
  <1> HIDE DEF layout
  <1>2. IsLayout(layout)
    BY <1>1 DEF IsLayout
  <1>3. /\ StartIn(layout, 1) = 8
        /\ \A i \in 2..4 : StartIn(layout, i) = StartIn(layout, i - 1) + layout[i - 1][2]
    <2>1. 4 \in Nat /\ 4 >= 1
      OBVIOUS
    <2> QED
      BY <1>1, <1>2, <2>1, StartInNext DEF AnchorDiscriminatorOffset
  <1>4. /\ StartIn(layout, 2) = StartIn(layout, 1) + 1
        /\ StartIn(layout, 3) = StartIn(layout, 2) + 1
        /\ StartIn(layout, 4) = StartIn(layout, 3) + 32
    BY <1>1, <1>3
  <1>5. /\ StartIn(layout, 1) = 8
        /\ StartIn(layout, 2) = 9
        /\ StartIn(layout, 3) = 10
        /\ StartIn(layout, 4) = 42
    BY <1>3, <1>4
  <1>6. RewardPoolOffsets["stakePool"] = 10 /\ RewardPoolOffsets["mint"] = 42
    BY DEF RewardPoolOffsets, AnchorDiscriminatorOffset
  <1>7. FieldsAt(layout, 10) = {"stakePool"} /\ FieldsAt(layout, 42) = {"mint"}
    BY <1>1, <1>5 DEF FieldsAt
  <1> QED
    BY <1>6, <1>7 DEF layout

LEMMA RewardEntryFields ==
    \A key \in {"rewardPool", "stakeEntry"} : FieldsAt(RewardEntryLayout, RewardEntryOffsets[key]) = {key}
  <1> DEFINE layout == RewardEntryLayout
  <1>1. /\ DOMAIN layout = 1..2
        /\ layout[1] = <<"rewardPool", 32>>
        /\ layout[2] = <<"stakeEntry", 32>>
    BY DEF RewardEntryLayout
  <1> HIDE DEF layout
  <1>2. IsLayout(layout)
    BY <1>1 DEF IsLayout
  <1>3. /\ StartIn(layout, 1) = 8
        /\ \A i \in 2..2 : StartIn(layout, i) = StartIn(layout, i - 1) + layout[i - 1][2]
    <2>1. 2 \in Nat /\ 2 >= 1
      OBVIOUS
    <2> QED
      BY <1>1, <1>2, <2>1, StartInNext DEF AnchorDiscriminatorOffset
  <1>4. /\ StartIn(layout, 2) = StartIn(layout, 1) + 32
    BY <1>1, <1>3
  <1>5. /\ StartIn(layout, 1) = 8
        /\ StartIn(layout, 2) = 40
    BY <1>3, <1>4
  <1>6. RewardEntryOffsets["rewardPool"] = 8 /\ RewardEntryOffsets["stakeEntry"] = 40
    BY DEF RewardEntryOffsets, AnchorDiscriminatorOffset
  <1>7. FieldsAt(layout, 8) = {"rewardPool"} /\ FieldsAt(layout, 40) = {"stakeEntry"}
    BY <1>1, <1>5 DEF FieldsAt
  <1> QED
    BY <1>6, <1>7 DEF layout

(* The searches find exactly what holds what is searched for, whatever the *)
(* accounts contain: every offset of staking/solana/constants.ts is where  *)
(* its field starts in the layout of the descriptor, and no other does.    *)
THEOREM SearchesCorrect == Spec => []SearchesFind
  <1>1. StakingInv => SearchesFind
    <2> SUFFICES ASSUME StakingInv PROVE SearchesFind
      OBVIOUS
    <2>1. \A c \in Contents("stake-pool") : {"mint", "creator"} \subseteq DOMAIN c
      BY KindOf DEF Contents, OfKind, StakingInv, PoolInv, StakePoolType
    <2>2. \A c \in Contents("stake-entry") : {"payer", "stakePool"} \subseteq DOMAIN c
      BY KindOf DEF Contents, OfKind, StakingInv, StakeInv, StakeEntryType
    <2>3. \A c \in Contents("reward-pool") : {"stakePool", "mint"} \subseteq DOMAIN c
      BY KindOf DEF Contents, OfKind, StakingInv, RewardPoolInv, RewardPoolType
    <2>4. \A c \in Contents("reward-entry") : {"stakeEntry", "rewardPool"} \subseteq DOMAIN c
      BY KindOf DEF Contents, OfKind, StakingInv, RewardEntryInv, RewardEntryType
    <2>5. SearchFinds(Contents("stake-pool"), StakePoolLayout, StakePoolOffsets, {"mint", "creator"})
      BY <2>1, PoolFields, FieldsFindThem
    <2>6. SearchFinds(Contents("stake-entry"), StakeEntryLayout, StakeEntryOffsets, {"payer", "stakePool"})
      BY <2>2, StakeFields, FieldsFindThem
    <2>7. SearchFinds(Contents("reward-pool"), RewardPoolLayout, RewardPoolOffsets, {"stakePool", "mint"})
      BY <2>3, RewardPoolFields, FieldsFindThem
    <2>8. SearchFinds(Contents("reward-entry"), RewardEntryLayout, RewardEntryOffsets, {"stakeEntry", "rewardPool"})
      BY <2>4, RewardEntryFields, FieldsFindThem
    <2> QED
      BY <2>5, <2>6, <2>7, <2>8 DEF SearchesFind
  <1> QED
    BY <1>1, StakingInvHolds, PTL

LEMMA TallyOfNone ==
    ASSUME NEW e, NEW s, NEW p, Updates(e, s, p) = <<>>
    PROVE  Tally(e, s, p) = [accounted |-> e.accountedAmount, lastAccountedTs |-> e.lastAccountedTs]
  <1> DEFINE base == [accounted |-> e.accountedAmount, lastAccountedTs |-> e.lastAccountedTs]
             sums == [T \in SUBSET (DOMAIN Updates(e, s, p)) |-> base]
             Iterates(iter) ==
                iter = [T \in SUBSET (DOMAIN Updates(e, s, p)) |->
                          IF T = {} THEN base
                          ELSE Count(s, StakedTs(s, p), iter[T \ {Max(T)}], Updates(e, s, p)[Max(T)])]
  <1>1. DOMAIN Updates(e, s, p) = {}
    OBVIOUS
  <1>2. Iterates(sums)
    BY <1>1
  <1>3. Tally(e, s, p) = (CHOOSE iter : Iterates(iter))[DOMAIN Updates(e, s, p)]
    BY DEF Tally, FoldLeft, MapThenFoldSet
  <1>4. Iterates(CHOOSE iter : Iterates(iter))
    BY <1>2
  <1> QED
    BY <1>1, <1>3, <1>4
LEMMA MaxOfSome == Max({1}) = 1 /\ Max({2}) = 2 /\ Max({1, 2}) = 2
  BY DEF Max

LEMMA TallyOfOne ==
    ASSUME NEW e, NEW s, NEW p, NEW first, Updates(e, s, p) = <<first>>
    PROVE  Tally(e, s, p) =
             Count(s, StakedTs(s, p),
                   [accounted |-> e.accountedAmount, lastAccountedTs |-> e.lastAccountedTs], first)
  <1> DEFINE base == [accounted |-> e.accountedAmount, lastAccountedTs |-> e.lastAccountedTs]
             updates == Updates(e, s, p)
             one == Count(s, StakedTs(s, p), base, first)
             sums == [T \in SUBSET (DOMAIN updates) |-> IF T = {} THEN base ELSE one]
             Iterates(iter) ==
                iter = [T \in SUBSET (DOMAIN updates) |->
                          IF T = {} THEN base
                          ELSE Count(s, StakedTs(s, p), iter[T \ {Max(T)}], updates[Max(T)])]
  <1>1. DOMAIN updates = {1} /\ updates[1] = first
    OBVIOUS
  <1>2. Max({1}) = 1
    BY MaxOfSome
  <1>3. Tally(e, s, p) = (CHOOSE iter : Iterates(iter))[DOMAIN updates]
    BY DEF Tally, FoldLeft, MapThenFoldSet
  <1> HIDE DEF updates
  <1>4. Iterates(sums)
    <2> HIDE DEF one, base
    <2>1. ASSUME NEW T \in SUBSET {1}
          PROVE  sums[T] = IF T = {} THEN base
                           ELSE Count(s, StakedTs(s, p), sums[T \ {Max(T)}], updates[Max(T)])
      <3>1. T = {} \/ T = {1}
        OBVIOUS
      <3>2. CASE T = {}
        BY <1>1, <3>2
      <3>3. CASE T = {1}
        <4>1. {1} \ {1} = {} /\ {1} # {} /\ {1} \in SUBSET (DOMAIN updates)
          BY <1>1
        <4> QED
          BY <1>1, <1>2, <3>3, <4>1 DEF one
      <3> QED
        BY <3>1, <3>2, <3>3
    <2> QED
      BY <1>1, <2>1
  <1>5. Iterates(CHOOSE iter : Iterates(iter))
    <2> HIDE DEF Iterates
    <2> QED
      BY <1>4
  <1> HIDE DEF base
  <1>6. ASSUME NEW iter, Iterates(iter) PROVE iter[{1}] = Count(s, StakedTs(s, p), base, first)
    <2>1. {1} # {} /\ {} \in SUBSET (DOMAIN updates) /\ {1} \in SUBSET (DOMAIN updates) /\ {1} \ {1} = {}
      BY <1>1
    <2>2. iter[{}] = base
      BY <1>6, <2>1
    <2> QED
      BY <1>1, <1>2, <1>6, <2>1, <2>2
  <1> HIDE DEF Iterates
  <1> QED
    BY <1>1, <1>3, <1>5, <1>6 DEF base

LEMMA TallyOfTwo ==
    ASSUME NEW e, NEW s, NEW p, NEW first, NEW second, Updates(e, s, p) = <<first, second>>
    PROVE  Tally(e, s, p) =
             Count(s, StakedTs(s, p),
                   Count(s, StakedTs(s, p),
                         [accounted |-> e.accountedAmount, lastAccountedTs |-> e.lastAccountedTs],
                         first),
                   second)
  <1> DEFINE base == [accounted |-> e.accountedAmount, lastAccountedTs |-> e.lastAccountedTs]
             updates == Updates(e, s, p)
             step(acc, seg) == Count(s, StakedTs(s, p), acc, seg)
             sums == [T \in SUBSET (DOMAIN updates) |->
                        IF T = {} THEN base
                        ELSE IF T = {1} THEN step(base, first)
                        ELSE IF T = {2} THEN step(base, second)
                        ELSE step(step(base, first), second)]
             Iterates(iter) ==
                iter = [T \in SUBSET (DOMAIN updates) |->
                          IF T = {} THEN base ELSE step(iter[T \ {Max(T)}], updates[Max(T)])]
  <1>1. DOMAIN updates = {1, 2} /\ updates[1] = first /\ updates[2] = second
    OBVIOUS
  <1>2. Max({1}) = 1 /\ Max({2}) = 2 /\ Max({1, 2}) = 2
    BY MaxOfSome
  <1>3. Tally(e, s, p) = (CHOOSE iter : Iterates(iter))[DOMAIN updates]
    BY DEF Tally, FoldLeft, MapThenFoldSet
  <1> HIDE DEF updates
  <1>4. /\ {1} \ {1} = {} /\ {2} \ {2} = {} /\ {1, 2} \ {2} = {1}
        /\ {} \in SUBSET (DOMAIN updates) /\ {1} \in SUBSET (DOMAIN updates)
        /\ {2} \in SUBSET (DOMAIN updates) /\ {1, 2} \in SUBSET (DOMAIN updates)
        /\ {1} # {} /\ {2} # {} /\ {1, 2} # {}
        /\ {1} # {2} /\ {1} # {1, 2} /\ {2} # {1, 2}
    BY <1>1
  <1> HIDE DEF base, step
  <1>5. Iterates(sums)
    <2>1. /\ sums[{}] = base /\ sums[{1}] = step(base, first)
          /\ sums[{2}] = step(base, second) /\ sums[{1, 2}] = step(step(base, first), second)
      BY <1>4
    <2> HIDE DEF sums
    <2>2. ASSUME NEW T \in SUBSET {1, 2}
          PROVE  sums[T] = IF T = {} THEN base ELSE step(sums[T \ {Max(T)}], updates[Max(T)])
      <3>1. T = {} \/ T = {1} \/ T = {2} \/ T = {1, 2}
        OBVIOUS
      <3>2. CASE T = {}
        BY <2>1, <3>2
      <3>3. CASE T = {1}
        BY <1>1, <1>2, <1>4, <2>1, <3>3
      <3>4. CASE T = {2}
        BY <1>1, <1>2, <1>4, <2>1, <3>4
      <3>5. CASE T = {1, 2}
        BY <1>1, <1>2, <1>4, <2>1, <3>5
      <3> QED
        BY <3>1, <3>2, <3>3, <3>4, <3>5
    <2> USE DEF sums
    <2> QED
      BY <1>1, <2>2
  <1>6. Iterates(CHOOSE iter : Iterates(iter))
    <2> HIDE DEF Iterates
    <2> QED
      BY <1>5
  <1>7. ASSUME NEW iter, Iterates(iter) PROVE iter[{1, 2}] = step(step(base, first), second)
    <2>1. iter[{}] = base
      BY <1>4, <1>7
    <2>2. iter[{1}] = step(base, first)
      BY <1>1, <1>2, <1>4, <1>7, <2>1
    <2> QED
      BY <1>1, <1>2, <1>4, <1>7, <2>2
  <1> HIDE DEF Iterates
  <1> QED
    BY <1>1, <1>3, <1>6, <1>7 DEF base, step

-----------------------------------------------------------------------------
(* What calcRewards counts.  A stake is followed when the segments that    *)
(* lie behind it add up to what it has earned before the rate last changed *)
(* or was claimed, and the periods since then to what is running.          *)
StakeNums(s) == s.createdTs \in Nat /\ s.closedTs \in Nat /\ s.effectiveAmount \in Nat

IdealNums(i) ==
    /\ i.earned \in Nat /\ i.running \in Nat /\ i.from \in Nat \ {0}
    /\ i.amountUpdates \in Nat /\ i.periodUpdates \in Nat

EntryNums(e) ==
    /\ e.createdTs \in Nat /\ e.accountedAmount \in Nat /\ e.claimedAmount \in Nat
    /\ e.lastAccountedTs \in Nat /\ e.lastRewardAmount \in Nat /\ e.lastRewardPeriod \in Nat

PoolNums(p) ==
    /\ p.createdTs \in Nat /\ p.lastAmountUpdateTs \in Nat /\ p.lastPeriodUpdateTs \in Nat
    /\ p.rewardAmount \in Nat /\ p.lastRewardAmount \in Nat
    /\ p.rewardPeriod \in Nat \ {0} /\ p.lastRewardPeriod \in Nat \ {0}

TallyFrom(acc, s, p) == IF acc.lastAccountedTs > 0 THEN acc.lastAccountedTs ELSE StakedTs(s, p)

Running(k, i, acc, s, p, t) ==
    /\ i.from = TallyFrom(acc, s, p) + k * p.rewardPeriod
    /\ i.running = k * p.rewardAmount
    /\ t < i.from + p.rewardPeriod
    /\ i.from <= t \/ k = 0

Follows(i, acc, s, p, t) ==
    /\ acc.accounted = i.earned
    /\ acc.lastAccountedTs \in Nat
    /\ \E k \in Nat : Running(k, i, acc, s, p, t)

CurrentSegment(p, t) == Segment(t, p.rewardAmount, p.rewardPeriod, p.rewardPeriod)

LEMMA WholePeriods ==
    ASSUME NEW k \in Nat, NEW d \in Nat \ {0}, NEW n \in Int,
           n < k * d + d, k * d <= n \/ k = 0
    PROVE  /\ (IF n < d THEN 0 ELSE n \div d) = k
           /\ n >= 0 => Quotient(n, d) = k
  <1>1. ASSUME n >= 0, k * d <= n PROVE n \div d = k
    <2> DEFINE q == n \div d
    <2>1. q \in Nat /\ q * d <= n /\ n < q * d + d
      BY <1>1, FloorOf
    <2> HIDE DEF q
    <2>2. k * d < (q + 1) * d /\ q * d < (k + 1) * d
      BY <1>1, <2>1
    <2>3. k < q + 1 /\ q < k + 1
      BY <2>1, <2>2
    <2> QED
      BY <2>1, <2>3 DEF q
  <1>2. k = 0 => k * d = 0 /\ n < d
    OBVIOUS
  <1>3. k # 0 => k * d >= d /\ n >= d /\ n >= 0
    OBVIOUS
  <1> QED
    BY <1>1, <1>2, <1>3 DEF Quotient

LEMMA StakedTsNat ==
    ASSUME NEW s, NEW p, StakeNums(s), PoolNums(p)
    PROVE  /\ StakedTs(s, p) \in Nat
           /\ StakedTs(s, p) = IF s.createdTs >= p.createdTs THEN s.createdTs ELSE p.createdTs
  BY MaxOfTwo DEF StakedTs, StakeNums, PoolNums

LEMMA CountsWhatIsRunning ==
    ASSUME NEW s, NEW i, NEW p, NEW acc, NEW t \in Nat,
           StakeNums(s), IdealNums(i), PoolNums(p), Follows(i, acc, s, p, t)
    PROVE  LET next == Count(s, StakedTs(s, p), acc, CurrentSegment(p, t))
           IN  /\ next.accounted = Earned(i, s)
               /\ i.from <= t => next.lastAccountedTs = i.from
  <1> DEFINE from == TallyFrom(acc, s, p)
             passed == t - from
             periods == IF passed < p.rewardPeriod THEN 0 ELSE passed \div p.rewardPeriod
  <1>1. PICK k \in Nat : Running(k, i, acc, s, p, t)
    BY DEF Follows
  <1>2. from \in Nat /\ passed \in Int
    BY StakedTsNat DEF Follows, TallyFrom
  <1>3. /\ i.from = from + k * p.rewardPeriod /\ i.running = k * p.rewardAmount
        /\ t < i.from + p.rewardPeriod /\ (i.from <= t \/ k = 0)
    BY <1>1 DEF Running
  <1>4. Count(s, StakedTs(s, p), acc, CurrentSegment(p, t)) =
          [accounted |-> acc.accounted + (periods * p.rewardAmount * s.effectiveAmount) \div Scale,
           lastAccountedTs |-> from + Quotient(passed, p.rewardPeriod) * p.rewardPeriod]
    BY DEF Count, CurrentSegment, Segment, TallyFrom
  <1> HIDE DEF from
  <1>5. k * p.rewardPeriod \in Nat
    BY DEF PoolNums
  <1>6. /\ passed < k * p.rewardPeriod + p.rewardPeriod
        /\ k * p.rewardPeriod <= passed \/ k = 0
    BY <1>2, <1>3, <1>5 DEF PoolNums
  <1>7. periods = k /\ (passed >= 0 => Quotient(passed, p.rewardPeriod) = k)
    BY <1>2, <1>6, WholePeriods DEF PoolNums
  <1>8. i.from <= t => passed >= 0
    BY <1>2, <1>3, <1>5 DEF PoolNums
  <1> HIDE DEF passed, periods
  <1> QED
    BY <1>3, <1>4, <1>7, <1>8 DEF Earned, Follows

Since(ts, s) == IF ts > s.createdTs THEN 1 ELSE 0

Unmoved(i) == i.amountUpdates = 0 /\ i.periodUpdates = 0

UpdatesFollowed(s, i, p) ==
    /\ i.amountUpdates = Since(p.lastAmountUpdateTs, s)
    /\ i.periodUpdates = Since(p.lastPeriodUpdateTs, s)
    /\ p.lastAmountUpdateTs = p.lastPeriodUpdateTs => Since(p.lastAmountUpdateTs, s) = 0

(* A period of 0 marks the entry that calcRewards makes up.                *)
Countable(s, i, e, p) ==
    /\ ~i.late
    /\ UpdatesFollowed(s, i, p)
    /\ s.closedTs > 0 \/ e.lastRewardPeriod = 0 => Unmoved(i)

LastRates(e, i, p) ==
    /\ e.lastRewardAmount = IF i.amountUpdates = 0 THEN p.rewardAmount ELSE p.lastRewardAmount
    /\ e.lastRewardPeriod = IF i.periodUpdates = 0 THEN p.rewardPeriod ELSE p.lastRewardPeriod

Noticed(s, i, p) ==
    /\ i.amountUpdates = 0 => p.lastAmountUpdateTs <= s.createdTs
    /\ i.periodUpdates = 0 => p.lastPeriodUpdateTs <= s.createdTs

Sound(t, s, i, e, p) ==
    /\ s.createdTs <= t /\ s.closedTs <= t /\ i.from <= t
    /\ Noticed(s, i, p)
    /\ e.createdTs >= s.createdTs /\ e.claimedAmount * Precision <= i.earned
    /\ Countable(s, i, e, p) =>
         /\ Follows(i, Tally(e, s, p), s, p, ClaimableTs(s, t))
         /\ e.lastRewardPeriod # 0 => LastRates(e, i, p)

PoolSound(t, p) ==
    /\ p.createdTs <= t /\ p.lastAmountUpdateTs <= t /\ p.lastPeriodUpdateTs <= t
    /\ p.lastAmountUpdateTs > 0 => p.rewardAmount # p.lastRewardAmount
    /\ p.lastPeriodUpdateTs > 0 => p.rewardPeriod # p.lastRewardPeriod

Nums(s, i, e, p) == StakeNums(s) /\ IdealNums(i) /\ EntryNums(e) /\ PoolNums(p)

LEMMA NothingToTally ==
    ASSUME NEW s, NEW i, NEW e, NEW p, Nums(s, i, e, p), Noticed(s, i, p), Unmoved(i)
    PROVE  /\ Updates(e, s, p) = <<>>
           /\ Tally(e, s, p) = [accounted |-> e.accountedAmount,
                                lastAccountedTs |-> e.lastAccountedTs]
  <1>1. /\ ~(p.lastAmountUpdateTs > s.createdTs)
        /\ ~(p.lastPeriodUpdateTs > s.createdTs)
    BY DEF Nums, StakeNums, PoolNums, Noticed, Unmoved
  <1>2. Updates(e, s, p) = <<>>
    BY <1>1 DEF Updates, Updated
  <1> QED
    BY <1>2, TallyOfNone

(* The pool after an update at t.                                          *)
UpdatedPool(p, q, t) ==
    /\ PoolNums(q) /\ q.createdTs = p.createdTs
    /\ \/ q.rewardAmount # p.rewardAmount
       \/ q.rewardPeriod # p.rewardPeriod
    /\ q.rewardAmount # p.rewardAmount =>
         q.lastRewardAmount = p.rewardAmount /\ q.lastAmountUpdateTs = t
    /\ q.rewardAmount = p.rewardAmount =>
         q.lastRewardAmount = p.lastRewardAmount /\ q.lastAmountUpdateTs = p.lastAmountUpdateTs
    /\ q.rewardPeriod # p.rewardPeriod =>
         q.lastRewardPeriod = p.rewardPeriod /\ q.lastPeriodUpdateTs = t
    /\ q.rewardPeriod = p.rewardPeriod =>
         q.lastRewardPeriod = p.lastRewardPeriod /\ q.lastPeriodUpdateTs = p.lastPeriodUpdateTs

UpdatesCounted(i, j, p, q) ==
    /\ j.amountUpdates = i.amountUpdates + (IF q.rewardAmount # p.rewardAmount THEN 1 ELSE 0)
    /\ j.periodUpdates = i.periodUpdates + (IF q.rewardPeriod # p.rewardPeriod THEN 1 ELSE 0)

(* Which update this is, if the stake can still be followed.               *)
LEMMA WhichUpdate ==
    ASSUME NEW t \in Nat, NEW s, NEW i, NEW j, NEW e, NEW p, NEW q,
           Nums(s, i, e, p), IdealNums(j), Sound(t, s, i, e, p), PoolSound(t, p),
           UpdatedPool(p, q, t), UpdatesCounted(i, j, p, q),
           UpdatesFollowed(s, j, q),
           s.closedTs > 0 \/ e.lastRewardPeriod = 0 => Unmoved(j)
    PROVE  /\ s.closedTs = 0 /\ e.lastRewardPeriod # 0 /\ t > s.createdTs
           /\ UpdatesFollowed(s, i, p)
           /\ \/ Unmoved(i) /\ q.rewardPeriod = p.rewardPeriod
              \/ Unmoved(i) /\ q.rewardAmount = p.rewardAmount
              \/ /\ i.amountUpdates = 1 /\ i.periodUpdates = 0
                 /\ q.rewardAmount = p.rewardAmount /\ q.rewardPeriod # p.rewardPeriod
              \/ /\ i.amountUpdates = 0 /\ i.periodUpdates = 1
                 /\ q.rewardAmount # p.rewardAmount /\ q.rewardPeriod = p.rewardPeriod
  <1> USE DEF Nums, StakeNums, IdealNums, EntryNums, PoolNums
  <1>1. ~Unmoved(j)
    BY DEF Unmoved, UpdatesCounted, UpdatedPool
  <1>2. s.closedTs = 0 /\ e.lastRewardPeriod # 0
    BY <1>1
  <1>3. t > s.createdTs /\ ~(q.rewardAmount # p.rewardAmount /\ q.rewardPeriod # p.rewardPeriod)
    BY DEF UpdatesFollowed, Since, UpdatesCounted, UpdatedPool, Sound
  <1>4. Noticed(s, i, p)
    BY DEF Sound
  <1>5. UpdatesFollowed(s, i, p)
    BY <1>3, <1>4 DEF UpdatesFollowed, Since, UpdatesCounted, UpdatedPool, Noticed
  <1>6. /\ q.rewardAmount # p.rewardAmount => i.amountUpdates = 0
        /\ q.rewardPeriod # p.rewardPeriod => i.periodUpdates = 0
        /\ i.amountUpdates \in {0, 1} /\ i.periodUpdates \in {0, 1}
    BY <1>5 DEF UpdatesFollowed, Since, UpdatesCounted
  <1> QED
    BY <1>2, <1>3, <1>5, <1>6 DEF Unmoved, UpdatedPool

LEMMA UpdatesExtended ==
    ASSUME NEW t \in Nat, NEW s, NEW i, NEW j, NEW e, NEW p, NEW q,
           Nums(s, i, e, p), IdealNums(j), Sound(t, s, i, e, p), PoolSound(t, p),
           UpdatedPool(p, q, t), UpdatesCounted(i, j, p, q),
           Countable(s, i, e, p), Countable(s, j, e, q)
    PROVE  \/ /\ Updates(e, s, p) = <<>>
              /\ Updates(e, s, q) = <<CurrentSegment(p, t)>>
           \/ \E seg : /\ Updates(e, s, p) = <<seg>>
                       /\ Updates(e, s, q) = <<seg, CurrentSegment(p, t)>>
  <1> USE DEF Nums, StakeNums, IdealNums, EntryNums, PoolNums
  <1>1. /\ s.closedTs = 0 /\ e.lastRewardPeriod # 0 /\ t > s.createdTs
        /\ UpdatesFollowed(s, i, p)
        /\ \/ Unmoved(i) /\ q.rewardPeriod = p.rewardPeriod
           \/ Unmoved(i) /\ q.rewardAmount = p.rewardAmount
           \/ /\ i.amountUpdates = 1 /\ i.periodUpdates = 0
              /\ q.rewardAmount = p.rewardAmount /\ q.rewardPeriod # p.rewardPeriod
           \/ /\ i.amountUpdates = 0 /\ i.periodUpdates = 1
              /\ q.rewardAmount # p.rewardAmount /\ q.rewardPeriod = p.rewardPeriod
    BY WhichUpdate DEF Countable
  <1>2. LastRates(e, i, p)
    BY <1>1 DEF Sound
  <1>3. Noticed(s, i, p)
    BY DEF Sound
  <1>4. CASE Unmoved(i)
    <2>1. Updates(e, s, p) = <<>>
      BY <1>3, <1>4, NothingToTally
    <2>2. e.lastRewardAmount = p.rewardAmount /\ e.lastRewardPeriod = p.rewardPeriod
      BY <1>2, <1>4 DEF LastRates, Unmoved
    <2>3. p.lastAmountUpdateTs <= s.createdTs /\ p.lastPeriodUpdateTs <= s.createdTs
      BY <1>3, <1>4 DEF Noticed, Unmoved
    <2>4. CASE q.rewardPeriod = p.rewardPeriod
      <3>1. /\ Updated(q.lastAmountUpdateTs, q.rewardAmount, q.lastRewardAmount, s)
            /\ ~Updated(q.lastPeriodUpdateTs, q.rewardPeriod, q.lastRewardPeriod, s)
            /\ q.lastAmountUpdateTs = t
        BY <1>1, <2>3, <2>4 DEF Updated, UpdatedPool
      <3>2. Updates(e, s, q) = <<Segment(t, e.lastRewardAmount, e.lastRewardPeriod, e.lastRewardPeriod)>>
        BY <3>1 DEF Updates
      <3> QED
        BY <2>1, <2>2, <3>2 DEF CurrentSegment
    <2>5. CASE q.rewardAmount = p.rewardAmount
      <3>1. /\ Updated(q.lastPeriodUpdateTs, q.rewardPeriod, q.lastRewardPeriod, s)
            /\ ~Updated(q.lastAmountUpdateTs, q.rewardAmount, q.lastRewardAmount, s)
            /\ q.lastPeriodUpdateTs = t
        BY <1>1, <2>3, <2>5 DEF Updated, UpdatedPool
      <3>2. Updates(e, s, q) = <<Segment(t, e.lastRewardAmount, e.lastRewardPeriod, e.lastRewardPeriod)>>
        BY <3>1 DEF Updates
      <3> QED
        BY <2>1, <2>2, <3>2 DEF CurrentSegment
    <2> QED
      BY <1>1, <1>4, <2>4, <2>5 DEF Unmoved
  <1>5. CASE i.amountUpdates = 1 /\ i.periodUpdates = 0
    <2>1. q.rewardAmount = p.rewardAmount /\ q.rewardPeriod # p.rewardPeriod
      BY <1>1, <1>5 DEF Unmoved
    <2>2. e.lastRewardAmount = p.lastRewardAmount /\ e.lastRewardPeriod = p.rewardPeriod
      BY <1>2, <1>5 DEF LastRates
    <2>3. p.lastPeriodUpdateTs <= s.createdTs /\ p.lastAmountUpdateTs > s.createdTs
      BY <1>1, <1>3, <1>5 DEF Noticed, UpdatesFollowed, Since
    <2>4. /\ Updated(p.lastAmountUpdateTs, p.rewardAmount, p.lastRewardAmount, s)
          /\ ~Updated(p.lastPeriodUpdateTs, p.rewardPeriod, p.lastRewardPeriod, s)
      BY <1>1, <2>3 DEF Updated, PoolSound
    <2>5. Updates(e, s, p) = <<Segment(p.lastAmountUpdateTs, e.lastRewardAmount,
                                       e.lastRewardPeriod, e.lastRewardPeriod)>>
      BY <2>4 DEF Updates
    <2>6. /\ q.lastAmountUpdateTs = p.lastAmountUpdateTs /\ q.lastPeriodUpdateTs = t
          /\ q.lastRewardAmount = p.lastRewardAmount /\ q.lastRewardPeriod = p.rewardPeriod
      BY <2>1 DEF UpdatedPool
    <2>7. q.lastAmountUpdateTs < q.lastPeriodUpdateTs
      <3>1. UpdatesFollowed(s, j, q)
        BY DEF Countable
      <3> QED
        BY <2>3, <2>6, <3>1 DEF PoolSound, UpdatesFollowed, Since
    <2>8. /\ Updated(q.lastAmountUpdateTs, q.rewardAmount, q.lastRewardAmount, s)
          /\ Updated(q.lastPeriodUpdateTs, q.rewardPeriod, q.lastRewardPeriod, s)
      BY <1>1, <2>1, <2>4, <2>6 DEF Updated
    <2>9. Updates(e, s, q) =
            << Segment(q.lastAmountUpdateTs, e.lastRewardAmount, e.lastRewardPeriod, q.lastRewardPeriod),
               Segment(q.lastPeriodUpdateTs, q.rewardAmount, e.lastRewardPeriod, e.lastRewardPeriod) >>
      <3>1. ~(q.lastAmountUpdateTs >= q.lastPeriodUpdateTs)
        BY <2>7 DEF UpdatedPool
      <3> QED
        BY <2>7, <2>8, <3>1 DEF Updates
    <2> QED
      BY <2>1, <2>2, <2>5, <2>6, <2>9 DEF CurrentSegment
  <1>6. CASE i.amountUpdates = 0 /\ i.periodUpdates = 1
    <2>1. q.rewardAmount # p.rewardAmount /\ q.rewardPeriod = p.rewardPeriod
      BY <1>1, <1>6 DEF Unmoved
    <2>2. e.lastRewardAmount = p.rewardAmount /\ e.lastRewardPeriod = p.lastRewardPeriod
      BY <1>2, <1>6 DEF LastRates
    <2>3. p.lastAmountUpdateTs <= s.createdTs /\ p.lastPeriodUpdateTs > s.createdTs
      BY <1>1, <1>3, <1>6 DEF Noticed, UpdatesFollowed, Since
    <2>4. /\ Updated(p.lastPeriodUpdateTs, p.rewardPeriod, p.lastRewardPeriod, s)
          /\ ~Updated(p.lastAmountUpdateTs, p.rewardAmount, p.lastRewardAmount, s)
      BY <1>1, <2>3 DEF Updated, PoolSound
    <2>5. Updates(e, s, p) = <<Segment(p.lastPeriodUpdateTs, e.lastRewardAmount,
                                       e.lastRewardPeriod, e.lastRewardPeriod)>>
      BY <2>4 DEF Updates
    <2>6. /\ q.lastPeriodUpdateTs = p.lastPeriodUpdateTs /\ q.lastAmountUpdateTs = t
          /\ q.lastRewardPeriod = p.lastRewardPeriod /\ q.lastRewardAmount = p.rewardAmount
      BY <2>1 DEF UpdatedPool
    <2>7. q.lastAmountUpdateTs >= q.lastPeriodUpdateTs
      BY <2>6 DEF PoolSound
    <2>8. /\ Updated(q.lastAmountUpdateTs, q.rewardAmount, q.lastRewardAmount, s)
          /\ Updated(q.lastPeriodUpdateTs, q.rewardPeriod, q.lastRewardPeriod, s)
      BY <1>1, <2>1, <2>4, <2>6 DEF Updated
    <2>9. Updates(e, s, q) =
            << Segment(q.lastPeriodUpdateTs, e.lastRewardAmount, e.lastRewardPeriod, q.lastRewardPeriod),
               Segment(q.lastAmountUpdateTs, e.lastRewardAmount, q.rewardPeriod, q.rewardPeriod) >>
      <3>1. ~(q.lastAmountUpdateTs < q.lastPeriodUpdateTs)
        BY <2>6, <2>7 
      <3> QED
        BY <2>7, <2>8, <3>1 DEF Updates
    <2> QED
      BY <2>1, <2>2, <2>5, <2>6, <2>9 DEF CurrentSegment
  <1> QED
    BY <1>1, <1>4, <1>5, <1>6

LEMMA TallyExtended ==
    ASSUME NEW t \in Nat, NEW s, NEW i, NEW j, NEW e, NEW p, NEW q,
           Nums(s, i, e, p), IdealNums(j), Sound(t, s, i, e, p), PoolSound(t, p),
           UpdatedPool(p, q, t), UpdatesCounted(i, j, p, q),
           Countable(s, i, e, p), Countable(s, j, e, q)
    PROVE  Tally(e, s, q) = Count(s, StakedTs(s, p), Tally(e, s, p), CurrentSegment(p, t))
  <1>1. StakedTs(s, q) = StakedTs(s, p)
    BY DEF StakedTs, UpdatedPool
  <1>2. CASE Updates(e, s, p) = <<>> /\ Updates(e, s, q) = <<CurrentSegment(p, t)>>
    BY <1>1, <1>2, TallyOfNone, TallyOfOne
  <1>3. ASSUME NEW seg, Updates(e, s, p) = <<seg>>,
               Updates(e, s, q) = <<seg, CurrentSegment(p, t)>>
        PROVE  Tally(e, s, q) = Count(s, StakedTs(s, p), Tally(e, s, p), CurrentSegment(p, t))
    <2> DEFINE base == [accounted |-> e.accountedAmount, lastAccountedTs |-> e.lastAccountedTs]
    <2>1. Tally(e, s, p) = Count(s, StakedTs(s, p), base, seg)
      BY <1>3, TallyOfOne
    <2>2. Tally(e, s, q) = Count(s, StakedTs(s, q), Count(s, StakedTs(s, q), base, seg),
                                 CurrentSegment(p, t))
      BY <1>3, TallyOfTwo
    <2> HIDE DEF base
    <2> QED
      BY <1>1, <2>1, <2>2
  <1> QED
    BY <1>2, <1>3, UpdatesExtended

LEMMA FloorIs ==
    ASSUME NEW n \in Nat, NEW d \in Nat \ {0}, NEW m, m = n \div d
    PROVE  m \in Nat /\ m * d \in Nat /\ m * d <= n /\ n < m * d + d
  BY FloorOf

-----------------------------------------------------------------------------
(* Each of these follows one stake through one action.                     *)
(* Time passes: j is i with the periods that ended by u.                   *)
LEMMA AccruedFollows ==
    ASSUME NEW t \in Nat, NEW u \in Nat, NEW s, NEW i, NEW j, NEW acc, NEW p, NEW m \in Nat,
           StakeNums(s), IdealNums(i), PoolNums(p), Follows(i, acc, s, p, t), i.from <= u,
           m = (u - i.from) \div p.rewardPeriod,
           j.earned = i.earned, j.running = i.running + m * p.rewardAmount,
           j.from = i.from + m * p.rewardPeriod
    PROVE  Follows(j, acc, s, p, u) /\ j.from <= u
  <1>1. PICK k \in Nat : Running(k, i, acc, s, p, t)
    BY DEF Follows
  <1>2. TallyFrom(acc, s, p) \in Nat
    BY StakedTsNat DEF Follows, TallyFrom
  <1>3. /\ p.rewardPeriod \in Nat \ {0} /\ p.rewardAmount \in Nat /\ u - i.from \in Nat
        /\ i.from \in Nat
    BY DEF PoolNums, IdealNums
  <1>4. m * p.rewardPeriod <= u - i.from /\ u - i.from < m * p.rewardPeriod + p.rewardPeriod
    BY <1>3, FloorOf
  <1>5. /\ (k + m) * p.rewardPeriod = k * p.rewardPeriod + m * p.rewardPeriod
        /\ (k + m) * p.rewardAmount = k * p.rewardAmount + m * p.rewardAmount
        /\ k * p.rewardPeriod \in Nat /\ m * p.rewardPeriod \in Nat
        /\ k * p.rewardAmount \in Nat /\ m * p.rewardAmount \in Nat
    BY <1>3
  <1>6. j.from <= u /\ u < j.from + p.rewardPeriod
    BY <1>3, <1>4, <1>5
  <1>7. Running(k + m, j, acc, s, p, u)
    BY <1>1, <1>2, <1>3, <1>5, <1>6 DEF Running
  <1>8. k + m \in Nat
    OBVIOUS
  <1> QED
    BY <1>6, <1>7, <1>8 DEF Follows

LEMMA SoundLater ==
    ASSUME NEW t \in Nat, NEW u \in Nat, u = t + 1, NEW s, NEW i, NEW j, NEW e, NEW p, Nums(s, i, e, p),
           Sound(t, s, i, e, p), j.late = i.late, j.earned = i.earned,
           j.amountUpdates = i.amountUpdates, j.periodUpdates = i.periodUpdates,
           s.closedTs > 0 => j.from = i.from /\ j.running = i.running,
           s.closedTs = 0 =>
             \E m \in Nat : /\ m = (u - i.from) \div p.rewardPeriod
                            /\ j.running = i.running + m * p.rewardAmount
                            /\ j.from = i.from + m * p.rewardPeriod
    PROVE  Sound(u, s, j, e, p)
  <1> USE DEF Nums
  <1>1. i.from <= t /\ i.from \in Nat /\ s.closedTs \in Nat /\ s.createdTs \in Nat
    BY DEF Sound, IdealNums, StakeNums
  <1>2. CASE s.closedTs > 0
    <2>1. /\ j.from <= u
          /\ Countable(s, i, e, p) =>
               Follows(j, Tally(e, s, p), s, p, ClaimableTs(s, u))
      <3>1. ClaimableTs(s, u) = ClaimableTs(s, t)
        BY <1>2 DEF ClaimableTs
      <3> QED
        BY <1>1, <1>2, <3>1 DEF Sound, Follows, Running
    <2>2. Countable(s, j, e, p) => Countable(s, i, e, p)
      BY DEF Countable, UpdatesFollowed, Unmoved
    <2> QED
      BY <1>1, <2>1, <2>2 DEF Sound, Noticed, LastRates
  <1>3. CASE s.closedTs = 0
    <2>1. PICK m \in Nat : /\ m = (u - i.from) \div p.rewardPeriod
                           /\ j.running = i.running + m * p.rewardAmount
                           /\ j.from = i.from + m * p.rewardPeriod
      BY <1>3
    <2>2. ClaimableTs(s, t) = t /\ ClaimableTs(s, u) = u
      BY <1>3 DEF ClaimableTs
    <2>3. Countable(s, i, e, p) => Follows(j, Tally(e, s, p), s, p, u)
      BY <1>1, <2>1, <2>2, AccruedFollows DEF Sound
    <2>4. j.from <= u
      <3>1. p.rewardPeriod \in Nat \ {0} /\ u - i.from \in Nat
        BY <1>1 DEF PoolNums
      <3>2. m * p.rewardPeriod <= u - i.from /\ m * p.rewardPeriod \in Nat
        BY <2>1, <3>1, FloorOf
      <3> QED
        BY <1>1, <2>1, <3>2
    <2>5. Countable(s, j, e, p) => Countable(s, i, e, p)
      BY DEF Countable, UpdatesFollowed, Unmoved
    <2> QED
      BY <1>1, <2>2, <2>3, <2>4, <2>5 DEF Sound, Noticed, LastRates
  <1> QED
    BY <1>1, <1>2, <1>3

(* A stake begins to earn, with its creation or with that of the pool.     *)
LEMMA SoundFromTheStart ==
    ASSUME NEW t \in Nat, NEW s, NEW i, NEW e, NEW p, Nums(s, i, e, p),
           s.createdTs <= t, s.closedTs <= t, StakedTs(s, p) = t, Unmoved(i), Noticed(s, i, p),
           i.earned = 0, i.running = 0, i.from = t,
           e.createdTs = s.createdTs, e.accountedAmount = 0, e.claimedAmount = 0,
           e.lastAccountedTs = 0, e.lastRewardPeriod = 0
    PROVE  Sound(t, s, i, e, p)
  <1>1. Tally(e, s, p) = [accounted |-> 0, lastAccountedTs |-> 0]
    BY NothingToTally
  <1>2. ClaimableTs(s, t) \in Nat /\ ClaimableTs(s, t) <= t
    BY DEF ClaimableTs, Nums, StakeNums
  <1>3. Running(0, i, Tally(e, s, p), s, p, ClaimableTs(s, t))
    BY <1>1, <1>2 DEF Running, TallyFrom, Nums, PoolNums
  <1>4. Follows(i, Tally(e, s, p), s, p, ClaimableTs(s, t))
    BY <1>1, <1>3 DEF Follows
  <1>5. e.createdTs >= s.createdTs /\ e.claimedAmount * Precision <= i.earned
    BY RewardAssumption DEF Nums, StakeNums
  <1> QED
    BY <1>4, <1>5 DEF Sound, Nums, IdealNums

(* The stake is closed.                                                    *)
LEMMA SoundClosed ==
    ASSUME NEW t \in Nat \ {0}, NEW s, NEW z, NEW i, NEW e, NEW p, Nums(s, i, e, p),
           Sound(t, s, i, e, p), s.closedTs = 0,
           z.closedTs = t, z.createdTs = s.createdTs, z.effectiveAmount = s.effectiveAmount
    PROVE  Sound(t, z, i, e, p)
  <1>1. Nums(z, i, e, p)
    BY DEF Nums, StakeNums
  <1>2. Noticed(z, i, p) /\ Noticed(s, i, p)
    BY DEF Sound, Noticed
  <1>3. ASSUME Countable(z, i, e, p)
        PROVE  /\ Follows(i, Tally(e, z, p), z, p, ClaimableTs(z, t))
               /\ e.lastRewardPeriod # 0 => LastRates(e, i, p)
    <2>1. Unmoved(i)
      BY <1>3 DEF Countable
    <2>2. Countable(s, i, e, p)
      BY <1>3, <2>1 DEF Countable, UpdatesFollowed, Since
    <2>3. Tally(e, z, p) = Tally(e, s, p)
      BY <1>1, <1>2, <2>1, NothingToTally
    <2>4. ClaimableTs(z, t) = t /\ ClaimableTs(s, t) = t
      BY DEF ClaimableTs
    <2>5. StakedTs(z, p) = StakedTs(s, p)
      BY DEF StakedTs
    <2> QED
      BY <2>2, <2>3, <2>4, <2>5 DEF Sound, Follows, Running, TallyFrom
  <1> QED
    BY <1>2, <1>3 DEF Sound

(* An entry is created for a stake that had none.                          *)
LEMMA SoundWithEntry ==
    ASSUME NEW t \in Nat, NEW s, NEW i, NEW j, NEW d, NEW e, NEW p,
           Nums(s, i, d, p), Nums(s, j, e, p), Sound(t, s, i, d, p),
           d.lastRewardPeriod = 0, d.accountedAmount = 0, d.lastAccountedTs = 0,
           e.createdTs = t, e.accountedAmount = 0, e.claimedAmount = 0, e.lastAccountedTs = 0,
           e.lastRewardAmount = p.rewardAmount, e.lastRewardPeriod = p.rewardPeriod,
           j.earned = i.earned, j.running = i.running, j.from = i.from,
           j.amountUpdates = i.amountUpdates, j.periodUpdates = i.periodUpdates,
           ~j.late => ~i.late /\ Unmoved(i)
    PROVE  Sound(t, s, j, e, p)
  <1>1. Noticed(s, i, p) /\ Noticed(s, j, p) /\ s.createdTs <= t /\ s.closedTs <= t /\ i.from <= t
    BY DEF Sound, Noticed
  <1>2. ASSUME Countable(s, j, e, p)
        PROVE  /\ Follows(j, Tally(e, s, p), s, p, ClaimableTs(s, t))
               /\ LastRates(e, j, p)
    <2>1. ~i.late /\ Unmoved(i) /\ Unmoved(j)
      BY <1>2 DEF Countable, Unmoved
    <2>2. UpdatesFollowed(s, i, p)
      BY <1>2 DEF Countable, UpdatesFollowed
    <2>3. Countable(s, i, d, p)
      BY <2>1, <2>2 DEF Countable
    <2>4. Tally(e, s, p) = Tally(d, s, p)
      BY <1>1, <2>1, NothingToTally
    <2>5. LastRates(e, j, p)
      BY <2>1 DEF LastRates, Unmoved
    <2> QED
      BY <2>3, <2>4, <2>5 DEF Sound, Follows, Running
  <1>3. e.createdTs >= s.createdTs /\ e.claimedAmount * Precision <= j.earned
    BY <1>1, RewardAssumption DEF Nums, StakeNums, IdealNums
  <1> QED
    BY <1>1, <1>2, <1>3 DEF Sound

(* Rewards are claimed.                                                    *)
LEMMA SoundClaimed ==
    ASSUME NEW t \in Nat, NEW s, NEW i, NEW j, NEW d, NEW e, NEW p,
           Nums(s, i, d, p), Nums(s, j, e, p), Sound(t, s, i, d, p), d.lastRewardPeriod # 0,
           e.createdTs = d.createdTs, e.accountedAmount = Earned(i, s),
           e.claimedAmount = Earned(i, s) \div Precision, e.lastAccountedTs = i.from,
           e.lastRewardAmount = p.rewardAmount, e.lastRewardPeriod = p.rewardPeriod,
           j.earned = Earned(i, s), j.running = 0, j.from = i.from,
           j.amountUpdates = i.amountUpdates, j.periodUpdates = i.periodUpdates,
           ~j.late => ~i.late /\ Unmoved(i)
    PROVE  Sound(t, s, j, e, p)
  <1>1. /\ Noticed(s, i, p) /\ Noticed(s, j, p) /\ s.createdTs <= t /\ s.closedTs <= t
        /\ i.from <= t /\ e.createdTs >= s.createdTs
    BY DEF Sound, Noticed
  <1>2. ASSUME Countable(s, j, e, p)
        PROVE  /\ Follows(j, Tally(e, s, p), s, p, ClaimableTs(s, t))
               /\ LastRates(e, j, p)
    <2>1. ~i.late /\ Unmoved(i) /\ Unmoved(j)
      BY <1>2 DEF Countable, Unmoved
    <2>2. UpdatesFollowed(s, i, p)
      BY <1>2 DEF Countable, UpdatesFollowed
    <2>3. Countable(s, i, d, p)
      BY <2>1, <2>2 DEF Countable
    <2>4. Tally(e, s, p) = [accounted |-> e.accountedAmount, lastAccountedTs |-> e.lastAccountedTs]
      BY <1>1, <2>1, NothingToTally
    <2>5. LastRates(e, j, p)
      BY <2>1 DEF LastRates, Unmoved
    <2>6. ClaimableTs(s, t) < i.from + p.rewardPeriod
      BY <2>3 DEF Sound, Follows, Running
    <2>7. Running(0, j, Tally(e, s, p), s, p, ClaimableTs(s, t))
      BY <2>4, <2>6 DEF Running, TallyFrom, Nums, IdealNums, PoolNums
    <2>8. Follows(j, Tally(e, s, p), s, p, ClaimableTs(s, t))
      BY <2>4, <2>7 DEF Follows, Nums, EntryNums
    <2> QED
      BY <2>5, <2>8
  <1>3. e.claimedAmount * Precision <= j.earned
    BY FloorOf, RewardAssumption DEF Nums, IdealNums
  <1> QED
    BY <1>1, <1>2, <1>3 DEF Sound

(* The pool is updated.                                                    *)
LEMMA SoundUpdated ==
    ASSUME NEW t \in Nat, NEW s, NEW i, NEW j, NEW e, NEW p, NEW q,
           Nums(s, i, e, p), IdealNums(j), Sound(t, s, i, e, p), PoolSound(t, p),
           UpdatedPool(p, q, t), UpdatesCounted(i, j, p, q), j.late = i.late,
           j.earned = Earned(i, s), i.earned <= Earned(i, s),
           s.closedTs > 0 => j.from = i.from,
           s.closedTs = 0 =>
             \E m \in Nat : /\ m = (t - i.from) \div q.rewardPeriod
                            /\ j.running = m * q.rewardAmount
                            /\ j.from = i.from + m * q.rewardPeriod
    PROVE  Sound(t, s, j, e, q)
  <1> DEFINE acc == Tally(e, s, p)
             next == Count(s, StakedTs(s, p), acc, CurrentSegment(p, t))
  <1>1. /\ Noticed(s, i, p) /\ s.createdTs <= t /\ s.closedTs <= t /\ i.from <= t
        /\ e.createdTs >= s.createdTs /\ e.claimedAmount * Precision <= i.earned
    BY DEF Sound
  <1>2. Noticed(s, j, q)
    BY <1>1 DEF Noticed, UpdatedPool, UpdatesCounted, Nums, IdealNums
  <1>3. e.claimedAmount * Precision <= j.earned
    BY <1>1, RewardAssumption DEF Nums, EntryNums, IdealNums
  <1>4. j.from <= t
    <2>1. CASE s.closedTs = 0
      <3>1. PICK m \in Nat : /\ m = (t - i.from) \div q.rewardPeriod
                             /\ j.from = i.from + m * q.rewardPeriod
        BY <2>1
      <3>2. q.rewardPeriod \in Nat \ {0} /\ t - i.from \in Nat /\ i.from \in Nat
        BY <1>1 DEF UpdatedPool, PoolNums, Nums, IdealNums
      <3>3. m * q.rewardPeriod <= t - i.from /\ m * q.rewardPeriod \in Nat
        BY <3>1, <3>2, FloorIs
      <3> QED
        BY <3>1, <3>2, <3>3
    <2> QED
      BY <1>1, <2>1 DEF Nums, StakeNums
  <1>5. ASSUME Countable(s, j, e, q)
        PROVE  /\ Follows(j, Tally(e, s, q), s, q, ClaimableTs(s, t))
               /\ LastRates(e, j, q)
    <2>1. /\ s.closedTs = 0 /\ e.lastRewardPeriod # 0
          /\ UpdatesFollowed(s, i, p)
          /\ \/ Unmoved(i) /\ q.rewardPeriod = p.rewardPeriod
             \/ Unmoved(i) /\ q.rewardAmount = p.rewardAmount
             \/ /\ i.amountUpdates = 1 /\ i.periodUpdates = 0
                /\ q.rewardAmount = p.rewardAmount /\ q.rewardPeriod # p.rewardPeriod
             \/ /\ i.amountUpdates = 0 /\ i.periodUpdates = 1
                /\ q.rewardAmount # p.rewardAmount /\ q.rewardPeriod = p.rewardPeriod
      BY <1>5, WhichUpdate DEF Countable
    <2>2. ~i.late
      BY <1>5 DEF Countable
    <2>3. Countable(s, i, e, p)
      BY <2>1, <2>2, <1>5 DEF Countable, Nums, StakeNums
    <2>4. Follows(i, acc, s, p, t) /\ LastRates(e, i, p)
      BY <2>1, <2>3 DEF Sound, ClaimableTs
    <2>5. next.accounted = Earned(i, s) /\ next.lastAccountedTs = i.from
      BY <1>1, <2>4, CountsWhatIsRunning DEF Nums
    <2>6. Tally(e, s, q) = next
      BY <1>5, <2>3, TallyExtended
    <2> HIDE DEF next, acc
    <2>7. LastRates(e, j, q)
      BY <2>1, <2>4 DEF LastRates, Unmoved, UpdatedPool, UpdatesCounted, Nums, IdealNums
    <2>8. PICK m \in Nat : /\ m = (t - i.from) \div q.rewardPeriod
                           /\ j.running = m * q.rewardAmount
                           /\ j.from = i.from + m * q.rewardPeriod
      BY <2>1
    <2>9. q.rewardPeriod \in Nat \ {0} /\ t - i.from \in Nat /\ i.from \in Nat \ {0}
      BY <1>1 DEF UpdatedPool, PoolNums, Nums, IdealNums
    <2>10. t - i.from < m * q.rewardPeriod + q.rewardPeriod /\ m * q.rewardPeriod \in Nat
      BY <2>8, <2>9, FloorIs
    <2>11. t < j.from + q.rewardPeriod
      BY <2>8, <2>9, <2>10
    <2>12. Running(m, j, Tally(e, s, q), s, q, t)
      BY <1>4, <2>5, <2>6, <2>8, <2>9, <2>11 DEF Running, TallyFrom
    <2>13. Follows(j, Tally(e, s, q), s, q, t)
      BY <2>5, <2>6, <2>9, <2>12 DEF Follows
    <2> QED
      BY <2>1, <2>7, <2>13 DEF ClaimableTs
  <1> QED
    BY <1>1, <1>2, <1>3, <1>4, <1>5 DEF Sound

(* What calcRewards shows of a stake that was followed.                    *)
LEMMA ShownIsOwed ==
    ASSUME NEW t \in Nat, NEW s, NEW i, NEW e, NEW p, Nums(s, i, e, p), Sound(t, s, i, e, p),
           Countable(s, i, e, p), e.lastRewardPeriod # 0, Earned(i, s) \in Nat,
           i.earned <= Earned(i, s)
    PROVE  /\ ~CalcThrows(e, s, p)
           /\ CalcRewards(e, s, p, t) = (Earned(i, s) - e.claimedAmount * Precision) \div Precision
  <1> DEFINE until == ClaimableTs(s, t)
             total == Count(s, StakedTs(s, p), Tally(e, s, p), CurrentSegment(p, until))
  <1>1. ~CalcThrows(e, s, p)
    BY DEF CalcThrows, Sound, Nums, EntryNums, StakeNums
  <1>2. until \in Nat /\ Follows(i, Tally(e, s, p), s, p, until)
    BY DEF Sound, ClaimableTs, Nums, StakeNums
  <1> HIDE DEF until
  <1>3. total.accounted = Earned(i, s)
    BY <1>2, CountsWhatIsRunning DEF Nums
  <1>4. CalcRewards(e, s, p, t) = Quotient(total.accounted - e.claimedAmount * Precision, Precision)
    BY DEF CalcRewards, CurrentSegment, until
  <1> HIDE DEF total
  <1>5. Earned(i, s) - e.claimedAmount * Precision >= 0
    BY RewardAssumption DEF Sound, Nums, EntryNums, IdealNums
  <1> QED
    BY <1>1, <1>3, <1>4, <1>5 DEF Quotient

-----------------------------------------------------------------------------
(* The inductive invariant of what is earned: until there is a reward pool *)
(* nothing is, and then every stake is sound.                              *)
Waiting(a) ==
    LET s == accounts[a]
        i == ideal[a]
    IN  s.createdTs <= now /\ s.closedTs <= now /\ Unmoved(i) /\ i.earned = 0 /\ i.running = 0

StakeSound(a) ==
    IF Exists(RewardPoolAddress)
    THEN Sound(now, accounts[a], ideal[a], EntryRead(a), RewardPool)
    ELSE Waiting(a)

EarnedInv ==
    /\ Exists(RewardPoolAddress) => PoolSound(now, RewardPool)
    /\ \A a \in StakeEntries : StakeSound(a)

NumsAll ==
    Exists(RewardPoolAddress) =>
      /\ PoolNums(RewardPool)
      /\ \A a \in StakeEntries :
           /\ Nums(accounts[a], ideal[a], EntryRead(a), RewardPool)
           /\ Exists(RewardEntryOf(a)) <=> EntryRead(a).lastRewardPeriod # 0

LEMMA EntriesOf ==
    ASSUME StakingInv, NEW a, Exists(RewardEntryOf(a))
    PROVE  /\ Exists(RewardPoolAddress) /\ a \in StakeEntries
           /\ accounts[RewardEntryOf(a)] \in RewardEntryType
  <1>1. RewardEntryOf(a)[1] = "reward-entry"
    BY DEF RewardEntryOf, RewardEntryPDA
  <1>2. RewardEntryInv(RewardEntryOf(a))
    BY <1>1, KindOf DEF StakingInv, Exists
  <1>3. accounts[RewardEntryOf(a)].stakeEntry = a
    <2> DEFINE e == accounts[RewardEntryOf(a)].stakeEntry
    <2>1. RewardEntryPDA(RewardPoolAddress, a) = RewardEntryPDA(RewardPoolAddress, e)
      BY <1>2 DEF RewardEntryInv, RewardEntryOf
    <2> HIDE DEF e
    <2>2. e = a
      BY <2>1 DEF RewardEntryPDA
    <2> QED
      BY <2>2 DEF e
  <1> QED
    BY <1>2, <1>3 DEF RewardEntryInv, RewardEntryType

LEMMA NumsHold == StakingInv => NumsAll
  <1> SUFFICES ASSUME StakingInv, Exists(RewardPoolAddress)
               PROVE  /\ PoolNums(RewardPool)
                      /\ \A a \in StakeEntries :
                           /\ Nums(accounts[a], ideal[a], EntryRead(a), RewardPool)
                           /\ Exists(RewardEntryOf(a)) <=> EntryRead(a).lastRewardPeriod # 0
    BY DEF NumsAll
  <1> USE StakingAssumption
  <1>1. PoolNums(RewardPool)
    BY RewardPoolTyped DEF StakingInv, RewardPoolType, PoolNums
  <1>2. ASSUME NEW a \in StakeEntries
        PROVE  /\ StakeNums(accounts[a]) /\ IdealNums(ideal[a]) /\ EntryNums(EntryRead(a))
               /\ Exists(RewardEntryOf(a)) <=> EntryRead(a).lastRewardPeriod # 0
    <2>1. StakeNums(accounts[a])
      <3>1. accounts[a] \in StakeEntryType
        BY StakeIsTyped DEF StakingInv, StakeInv
      <3>2. accounts[a].effectiveAmount \in Nat /\ accounts[a].createdTs \in 1..MaxTime
            /\ accounts[a].closedTs \in 0..MaxTime
        BY <3>1 DEF StakeEntryType
      <3> QED
        BY <3>2 DEF StakeNums
    <2>2. IdealNums(ideal[a])
      <3>1. ideal[a] \in IdealType(now)
        BY DEF StakingInv, IdealInv
      <3> QED
        BY <3>1 DEF IdealNums, IdealType, StakingInv
    <2>3. CASE Exists(RewardEntryOf(a))
      <3>1. EntryRead(a) = accounts[RewardEntryOf(a)] /\ EntryRead(a) \in RewardEntryType
        BY <2>3, EntriesOf DEF EntryRead
      <3>2. EntryNums(EntryRead(a)) /\ EntryRead(a).lastRewardPeriod # 0
        BY <3>1 DEF EntryNums, RewardEntryType
      <3> QED
        BY <2>1, <2>2, <2>3, <3>2
    <2>4. CASE ~Exists(RewardEntryOf(a))
      <3>1. EntryRead(a) = DefaultEntry(accounts[a])
        BY <2>4 DEF EntryRead
      <3>2. EntryNums(EntryRead(a)) /\ EntryRead(a).lastRewardPeriod = 0
        BY <2>1, <3>1 DEF EntryNums, DefaultEntry, StakeNums
      <3> QED
        BY <2>1, <2>2, <2>4, <3>2
    <2> QED
      BY <2>3, <2>4
  <1> QED
    BY <1>1, <1>2 DEF Nums

(* What a step does not touch.                                             *)
LEMMA EntryKept ==
    ASSUME NEW a, accounts'[a] = accounts[a],
           Exists(RewardEntryOf(a))' <=> Exists(RewardEntryOf(a)),
           Exists(RewardEntryOf(a)) => accounts'[RewardEntryOf(a)] = accounts[RewardEntryOf(a)]
    PROVE  EntryRead(a)' = EntryRead(a)
  BY DEF EntryRead, RewardEntryOf, RewardPoolAddress, PoolAddress

LEMMA SoundKept ==
    ASSUME NEW a, StakeSound(a), accounts'[a] = accounts[a], ideal'[a] = ideal[a], now' = now,
           Exists(RewardPoolAddress)' <=> Exists(RewardPoolAddress),
           Exists(RewardPoolAddress) => RewardPool' = RewardPool,
           Exists(RewardEntryOf(a))' <=> Exists(RewardEntryOf(a)),
           Exists(RewardEntryOf(a)) => accounts'[RewardEntryOf(a)] = accounts[RewardEntryOf(a)]
    PROVE  StakeSound(a)'
  <1>1. EntryRead(a)' = EntryRead(a)
    BY EntryKept
  <1>2. CASE Exists(RewardPoolAddress)
    <2>1. Sound(now, accounts[a], ideal[a], EntryRead(a), RewardPool)
      BY <1>2 DEF StakeSound
    <2>2. RewardPool' = RewardPool
      BY <1>2
    <2>3. Sound(now', accounts'[a], ideal'[a], EntryRead(a)', RewardPool')
      BY <1>1, <2>1, <2>2
    <2> QED
      BY <1>2, <2>3 DEF StakeSound
  <1>3. CASE ~Exists(RewardPoolAddress)
    BY <1>3 DEF StakeSound, Waiting
  <1> QED
    BY <1>2, <1>3

LEMMA NumsLater ==
    ASSUME StakingInv'
    PROVE  NumsAll'
  <1>1. StakingInv' => NumsAll'
    BY NumsHold, PTL
  <1> QED
    BY <1>1

-----------------------------------------------------------------------------
(* Every action keeps it.                                                  *)
LEMMA AccruedIs ==
    ASSUME NEW t, NEW i \in IdealType(t), NEW u, NEW amount, NEW period
    PROVE  LET m == (u - i.from) \div period
               j == Accrued(i, u, amount, period)
           IN  /\ j.running = i.running + m * amount /\ j.from = i.from + m * period
               /\ j.earned = i.earned /\ j.late = i.late
               /\ j.amountUpdates = i.amountUpdates /\ j.periodUpdates = i.periodUpdates
  BY DEF Accrued, IdealType

LEMMA PeriodsPassed ==
    ASSUME NEW t \in Nat, NEW u \in Nat, t <= u, NEW i \in IdealType(t), NEW period \in Periods
    PROVE  (u - i.from) \div period \in Nat
  <1>1. u - i.from \in Nat /\ period \in Nat \ {0}
    BY StakingAssumption DEF IdealType
  <1> QED
    BY <1>1, FloorOf

LEMMA TickSound ==
    ASSUME StakingInv, EarnedInv, Tick
    PROVE  EarnedInv'
  <1>1. now \in Nat /\ now' = now + 1 /\ accounts' = accounts
    BY StakingAssumption DEF Tick, StakingInv
  <1>2. /\ StakeEntries' = StakeEntries /\ RewardPool' = RewardPool
        /\ Exists(RewardPoolAddress)' <=> Exists(RewardPoolAddress)
    BY <1>1 DEF StakeEntries, OfKind, RewardPool, Exists, RewardPoolAddress, PoolAddress
  <1>3. \A a : EntryRead(a)' = EntryRead(a)
    <2> TAKE a
    <2> QED
      BY <1>1, EntryKept DEF Exists, RewardEntryOf, RewardPoolAddress, PoolAddress
  <1>4. CASE Exists(RewardPoolAddress)
    <2>1. /\ RewardPool.rewardAmount \in Amounts /\ RewardPool.rewardPeriod \in Periods
          /\ PoolSound(now, RewardPool)
      BY <1>4, RewardPoolTyped DEF StakingInv, EarnedInv
    <2>2. PoolSound(now', RewardPool')
      BY <1>1, <1>2, <1>4, <2>1, NumsHold DEF PoolSound, NumsAll, PoolNums
    <2>3. ASSUME NEW a \in StakeEntries PROVE StakeSound(a)'
      <3> DEFINE s == accounts[a]
                 i == ideal[a]
                 later == Accrued(i, now', RewardPool.rewardAmount, RewardPool.rewardPeriod)
                 m == (now' - i.from) \div RewardPool.rewardPeriod
      <3>1. i \in IdealType(now) /\ DOMAIN ideal = StakeEntries
        BY DEF StakingInv, IdealInv
      <3>2. /\ Nums(s, i, EntryRead(a), RewardPool)
            /\ Sound(now, s, i, EntryRead(a), RewardPool)
        BY <1>4, NumsHold DEF NumsAll, EarnedInv, StakeSound
      <3>3. ideal'[a] = IF s.closedTs > 0 THEN i ELSE later
        BY <1>1, <1>4, <3>1 DEF Tick, AccruedAll
      <3>4. m \in Nat
        <4>1. now' \in Nat /\ now <= now'
          BY <1>1
        <4> QED
          BY <1>1, <2>1, <3>1, <4>1, PeriodsPassed
      <3>5. /\ later.running = i.running + m * RewardPool.rewardAmount
            /\ later.from = i.from + m * RewardPool.rewardPeriod
            /\ later.earned = i.earned /\ later.late = i.late
            /\ later.amountUpdates = i.amountUpdates /\ later.periodUpdates = i.periodUpdates
        BY <3>1, AccruedIs
      <3> DEFINE j == ideal'[a]
      <3> HIDE DEF s, later
      <3>6. /\ j.late = i.late /\ j.earned = i.earned
            /\ j.amountUpdates = i.amountUpdates /\ j.periodUpdates = i.periodUpdates
            /\ s.closedTs > 0 => j.from = i.from /\ j.running = i.running
        BY <3>3, <3>5
      <3>7. s.closedTs = 0 => \E n \in Nat : /\ n = (now' - i.from) \div RewardPool.rewardPeriod
                                             /\ j.running = i.running + n * RewardPool.rewardAmount
                                             /\ j.from = i.from + n * RewardPool.rewardPeriod
        BY <3>3, <3>4, <3>5
      <3> HIDE DEF i, j, m
      <3>8. Sound(now', s, j, EntryRead(a), RewardPool)
        <4>1. now' \in Nat
          BY <1>1
        <4> QED
          BY <1>1, <4>1, <3>2, <3>6, <3>7, SoundLater
      <3> QED
        BY <1>1, <1>2, <1>3, <1>4, <3>8 DEF StakeSound, s, j
    <2> QED
      BY <1>2, <2>2, <2>3 DEF EarnedInv
  <1>5. CASE ~Exists(RewardPoolAddress)
    <2>1. ideal' = ideal
      BY <1>5 DEF Tick
    <2>2. ASSUME NEW a \in StakeEntries PROVE StakeSound(a)'
      <3>1. /\ Waiting(a) /\ accounts[a].createdTs \in Nat /\ accounts[a].closedTs \in Nat
        BY <1>5, StakeIsTyped, StakingAssumption
        DEF EarnedInv, StakeSound, StakingInv, StakeInv, StakeEntryType
      <3> QED
        BY <1>1, <1>2, <1>5, <2>1, <3>1 DEF StakeSound, Waiting
    <2> QED
      BY <1>2, <1>5, <2>2 DEF EarnedInv
  <1> QED
    BY <1>4, <1>5

(* An account is created that is neither a stake nor of one, nor the       *)
(* reward pool.                                                            *)
LEMMA OthersKept ==
    ASSUME EarnedInv, now' = now, NEW a \in StakeEntries, ideal'[a] = ideal[a],
           NEW address, NEW contents, address \notin DOMAIN accounts,
           accounts' = Stored(accounts, address, contents),
           address # RewardPoolAddress, address # RewardEntryOf(a)
    PROVE  StakeSound(a)'
  <1>1. /\ DOMAIN accounts' = DOMAIN accounts \cup {address}
        /\ \A x \in DOMAIN accounts : accounts'[x] = accounts[x]
    BY DEF Stored
  <1>2. accounts'[a] = accounts[a]
    BY <1>1 DEF StakeEntries, OfKind
  <1>3. /\ Exists(RewardPoolAddress)' <=> Exists(RewardPoolAddress)
        /\ Exists(RewardPoolAddress) => RewardPool' = RewardPool
    BY <1>1 DEF Exists, RewardPool, RewardPoolAddress, PoolAddress
  <1>4. /\ Exists(RewardEntryOf(a))' <=> Exists(RewardEntryOf(a))
        /\ Exists(RewardEntryOf(a)) => accounts'[RewardEntryOf(a)] = accounts[RewardEntryOf(a)]
    BY <1>1 DEF Exists, RewardEntryOf, RewardPoolAddress, PoolAddress
  <1>5. StakeSound(a)
    BY DEF EarnedInv
  <1> QED
    BY <1>2, <1>3, <1>4, <1>5, SoundKept

LEMMA PoolSoundKept ==
    ASSUME EarnedInv, now' = now,
           Exists(RewardPoolAddress)' <=> Exists(RewardPoolAddress),
           Exists(RewardPoolAddress) => RewardPool' = RewardPool
    PROVE  Exists(RewardPoolAddress)' => PoolSound(now', RewardPool')
  BY DEF EarnedInv

LEMMA CreateStakePoolSound ==
    ASSUME StakingInv, EarnedInv, CreateStakePool
    PROVE  EarnedInv'
  <1> DEFINE addr == Completed(CreateStakePoolIx, [creator |-> Creator, mint |-> StakeToken],
                               [nonce |-> 0], accounts)
             contents == [nonce |-> 0, mint |-> addr.mint, creator |-> addr.creator,
                          authority |-> addr.creator, vault |-> addr.vault,
                          stakeMint |-> addr.stakeMint]
  <1>1. addr.stakePool = PoolAddress
    BY PoolCompleted DEF PoolAddress
  <1>2. /\ addr.stakePool \notin DOMAIN accounts
        /\ accounts' = Stored(accounts, addr.stakePool, contents)
        /\ now' = now /\ ideal' = ideal
    BY DEF CreateStakePool, Exists
  <1> HIDE DEF addr, contents
  <1>3. /\ PoolAddress[1] = "stake-pool" /\ RewardPoolAddress[1] = "reward-pool"
        /\ \A a : RewardEntryOf(a)[1] = "reward-entry"
    BY DEF PoolAddress, StakePoolPDA, RewardPoolAddress, RewardPoolPDA, RewardEntryOf, RewardEntryPDA
  <1>4. StakeEntries' = StakeEntries
    BY <1>1, <1>2, <1>3 DEF StakeEntries, OfKind, Stored
  <1>5. \A a \in StakeEntries : StakeSound(a)'
    <2> TAKE a \in StakeEntries
    <2>1. PoolAddress # RewardPoolAddress /\ PoolAddress # RewardEntryOf(a)
      BY <1>3
    <2>2. ideal'[a] = ideal[a]
      BY <1>2
    <2> QED
      BY <1>1, <1>2, <2>1, <2>2, OthersKept
  <1>6. Exists(RewardPoolAddress)' => PoolSound(now', RewardPool')
    <2>1. /\ Exists(RewardPoolAddress)' <=> Exists(RewardPoolAddress)
          /\ Exists(RewardPoolAddress) => RewardPool' = RewardPool
      BY <1>1, <1>2, <1>3 DEF Exists, RewardPool, Stored, RewardPoolAddress, PoolAddress
    <2> QED
      BY <1>2, <2>1, PoolSoundKept
  <1> QED
    BY <1>4, <1>5, <1>6 DEF EarnedInv

LEMMA KindsApart ==
    /\ RewardPoolAddress[1] = "reward-pool"
    /\ \A p, s, n : StakeEntryPDA(p, s, n)[1] = "stake-entry"
    /\ \A a : RewardEntryOf(a)[1] = "reward-entry"
    /\ \A a, b : RewardEntryOf(a) = RewardEntryOf(b) => a = b
  BY DEF RewardPoolAddress, RewardPoolPDA, StakeEntryPDA, RewardEntryOf, RewardEntryPDA

(* The rewards that calcRewards starts from where there is no entry.       *)
LEMMA SoundOfNew ==
    ASSUME NEW a, StakingInv', Exists(RewardPoolAddress)', a \in StakeEntries',
           ~Exists(RewardEntryOf(a))',
           NEW t \in Nat, now' = t,
           accounts'[a].createdTs <= t, accounts'[a].closedTs <= t,
           StakedTs(accounts'[a], RewardPool') = t,
           RewardPool'.lastAmountUpdateTs <= accounts'[a].createdTs,
           RewardPool'.lastPeriodUpdateTs <= accounts'[a].createdTs,
           Unmoved(ideal'[a]), ideal'[a].earned = 0, ideal'[a].running = 0, ideal'[a].from = t
    PROVE  StakeSound(a)'
  <1> DEFINE s == accounts'[a]
             i == ideal'[a]
             e == EntryRead(a)'
             p == RewardPool'
  <1>1. Nums(s, i, e, p)
    BY NumsLater DEF NumsAll
  <1>2. e = DefaultEntry(s)
    BY DEF EntryRead
  <1>3. Noticed(s, i, p)
    BY DEF Noticed
  <1> HIDE DEF s, i, e, p
  <1>4. /\ e.createdTs = s.createdTs /\ e.accountedAmount = 0 /\ e.claimedAmount = 0
        /\ e.lastAccountedTs = 0 /\ e.lastRewardPeriod = 0
    BY <1>2 DEF DefaultEntry
  <1>5. /\ s.createdTs <= t /\ s.closedTs <= t /\ StakedTs(s, p) = t
        /\ Unmoved(i) /\ i.earned = 0 /\ i.running = 0 /\ i.from = t
    BY DEF s, i, p
  <1>6. Sound(t, s, i, e, p)
    BY <1>1, <1>3, <1>4, <1>5, SoundFromTheStart
  <1> QED
    BY <1>6 DEF StakeSound, s, i, e, p

LEMMA CreateRewardPoolSound ==
    ASSUME StakingInv, EarnedInv, CreateRewardPool
    PROVE  EarnedInv'
  <1> DEFINE addr == Completed(CreateRewardPoolIx, [creator |-> Creator, stakePool |-> PoolAddress,
                                                    mint |-> RewardToken],
                               [nonce |-> 0], accounts)
             contents(amount, period) ==
                  [nonce |-> 0, stakePool |-> addr.stakePool,
                   mint |-> addr.mint, authority |-> addr.creator,
                   vault |-> addr.vault, rewardAmount |-> amount,
                   rewardPeriod |-> period, lastRewardAmount |-> amount,
                   lastRewardPeriod |-> period, lastAmountUpdateTs |-> 0,
                   lastPeriodUpdateTs |-> 0, createdTs |-> now]
  <1>1. addr.rewardPool = RewardPoolAddress
    BY RewardPoolCompleted DEF RewardPoolAddress
  <1>2. PICK amount \in Amounts, period \in Periods :
        /\ addr.rewardPool \notin DOMAIN accounts
        /\ accounts' = Stored(accounts, addr.rewardPool, contents(amount, period))
        /\ now' = now /\ ideal' = [a \in DOMAIN ideal |-> [ideal[a] EXCEPT !.from = now]]
    BY DEF CreateRewardPool, Exists
  <1> DEFINE p == contents(amount, period)
  <1>3. p.createdTs = now /\ p.lastAmountUpdateTs = 0 /\ p.lastPeriodUpdateTs = 0
    OBVIOUS
  <1> HIDE DEF addr, contents, p
  <1>4. /\ ~Exists(RewardPoolAddress)
        /\ DOMAIN accounts' = DOMAIN accounts \cup {RewardPoolAddress}
        /\ accounts'[RewardPoolAddress] = p
        /\ \A x \in DOMAIN accounts : accounts'[x] = accounts[x]
    BY <1>1, <1>2 DEF Stored, p, Exists
  <1>5. StakingInv' /\ now \in Nat
    BY CreateRewardPoolKeeps, StakingAssumption DEF StakingInv
  <1>6. /\ StakeEntries' = StakeEntries /\ Exists(RewardPoolAddress)' /\ RewardPool' = p
    BY <1>4, KindsApart DEF StakeEntries, OfKind, RewardPool, Exists, RewardPoolAddress, PoolAddress
  <1>7. ASSUME NEW a \in StakeEntries PROVE StakeSound(a)'
    <2>1. Waiting(a) /\ a \in DOMAIN accounts
      BY <1>4 DEF EarnedInv, StakeSound, StakeEntries, OfKind
    <2>2. ~Exists(RewardEntryOf(a))'
      <3>1. RewardEntryOf(a) \notin DOMAIN accounts
        BY <1>4, EntriesOf DEF Exists
      <3>2. RewardEntryOf(a) # RewardPoolAddress
        BY KindsApart
      <3> QED
        BY <1>4, <3>1, <3>2 DEF Exists, RewardEntryOf, RewardPoolAddress, PoolAddress
    <2>3. ideal[a] \in IdealType(now) /\ ideal'[a] = [ideal[a] EXCEPT !.from = now]
      BY <1>2 DEF StakingInv, IdealInv
    <2>4. /\ ideal'[a].from = now /\ ideal'[a].earned = 0 /\ ideal'[a].running = 0
          /\ Unmoved(ideal'[a])
      BY <2>1, <2>3 DEF IdealType, Waiting, Unmoved
    <2>5. /\ accounts'[a] = accounts[a] /\ accounts[a].createdTs \in Nat
          /\ accounts[a].createdTs <= now /\ accounts[a].closedTs <= now
      BY <1>4, <2>1, StakeIsTyped, StakingAssumption
      DEF StakingInv, StakeInv, StakeEntryType, Waiting
    <2>6. StakedTs(accounts'[a], RewardPool') = now
      <3>1. StakeNums(accounts'[a]) /\ PoolNums(RewardPool')
        BY <1>5, <1>6, NumsLater DEF NumsAll, Nums
      <3> QED
        BY <1>3, <1>5, <1>6, <2>5, <3>1, StakedTsNat
    <2> QED
      BY <1>2, <1>3, <1>5, <1>6, <2>2, <2>4, <2>5, <2>6, SoundOfNew
  <1>8. PoolSound(now', RewardPool')
    BY <1>2, <1>3, <1>5, <1>6 DEF PoolSound
  <1> QED
    BY <1>6, <1>7, <1>8 DEF EarnedInv

LEMMA StakeTokensSound ==
    ASSUME StakingInv, EarnedInv, NEW staker \in Wallets, NEW nonce \in Nonces,
           NEW duration \in Durations, StakeTokens(staker, nonce, duration)
    PROVE  EarnedInv'
  <1> DEFINE given == StakeAccounts(PoolAddress, StakeToken, staker)
             addr == Completed(StakeIx, given, [nonce |-> nonce], accounts)
             contents == [nonce |-> nonce, stakePool |-> addr.stakePool, payer |-> addr.payer,
                          authority |-> addr.authority, duration |-> duration,
                          effectiveAmount |-> Weight(duration),
                          createdTs |-> now, closedTs |-> 0]
             first == [earned |-> 0, running |-> 0, from |-> now, claimedTs |-> 0, late |-> FALSE,
                       amountUpdates |-> 0, periodUpdates |-> 0]
             entry == StakeEntryPDA(PoolAddress, staker, nonce)
  <1>1. addr.stakeEntry = entry
    BY StakeCompleted
  <1>2. /\ addr.stakeEntry \notin DOMAIN accounts
        /\ accounts' = Stored(accounts, addr.stakeEntry, contents)
        /\ ideal' = Stored(ideal, addr.stakeEntry, first)
        /\ now' = now
    BY DEF StakeTokens, Exists, Weight
  <1>3. contents.createdTs = now /\ contents.closedTs = 0
    OBVIOUS
  <1>4. first.from = now /\ first.earned = 0 /\ first.running = 0 /\ Unmoved(first)
    BY DEF Unmoved
  <1>5. entry[1] = "stake-entry"
    BY KindsApart
  <1> HIDE DEF addr, contents, first, entry
  <1>6. /\ DOMAIN accounts' = DOMAIN accounts \cup {entry} /\ entry \notin DOMAIN accounts
        /\ accounts'[entry] = contents /\ ideal'[entry] = first
        /\ \A x \in DOMAIN accounts : accounts'[x] = accounts[x]
        /\ \A x \in StakeEntries : ideal'[x] = ideal[x]
    <2>1. entry \notin StakeEntries /\ DOMAIN ideal = StakeEntries
      BY <1>1, <1>2 DEF StakeEntries, OfKind, StakingInv, IdealInv
    <2> QED
      BY <1>1, <1>2, <2>1 DEF Stored
  <1>7. StakingInv' /\ now \in Nat
    BY StakeTokensKeeps, StakingAssumption DEF StakingInv
  <1>8. StakeEntries' = StakeEntries \cup {entry}
    BY <1>5, <1>6 DEF StakeEntries, OfKind
  <1>9. /\ Exists(RewardPoolAddress)' <=> Exists(RewardPoolAddress)
        /\ Exists(RewardPoolAddress) => RewardPool' = RewardPool
    BY <1>5, <1>6, KindsApart DEF Exists, RewardPool, RewardPoolAddress, PoolAddress
  <1>10. ASSUME NEW a \in StakeEntries PROVE StakeSound(a)'
    <2>1. entry # RewardPoolAddress /\ entry # RewardEntryOf(a)
      BY <1>5, KindsApart
    <2> QED
      BY <1>1, <1>2, <1>6, <2>1, OthersKept
  <1>11. StakeSound(entry)'
    <2>1. CASE Exists(RewardPoolAddress)
      <3>1. ~Exists(RewardEntryOf(entry))'
        <4>1. RewardEntryOf(entry) \notin DOMAIN accounts
          BY <1>6, EntriesOf DEF Exists, StakeEntries, OfKind
        <4>2. RewardEntryOf(entry) # entry
          BY <1>5, KindsApart
        <4> QED
          BY <1>6, <4>1, <4>2 DEF Exists, RewardEntryOf, RewardPoolAddress, PoolAddress
      <3>2. PoolSound(now, RewardPool')
        BY <1>9, <2>1 DEF EarnedInv
      <3>3. StakeNums(contents) /\ PoolNums(RewardPool')
        BY <1>6, <1>7, <1>8, <1>9, <2>1, NumsLater DEF NumsAll, Nums
      <3>4. StakedTs(contents, RewardPool') = now
        BY <1>3, <3>2, <3>3, StakedTsNat DEF PoolSound
      <3> QED
        BY <1>2, <1>3, <1>4, <1>6, <1>7, <1>8, <1>9, <2>1, <3>1, <3>2, <3>4, SoundOfNew
        DEF PoolSound
    <2>2. CASE ~Exists(RewardPoolAddress)
      <3>1. Waiting(entry)'
        BY <1>2, <1>3, <1>4, <1>6, <1>7 DEF Waiting
      <3> QED
        BY <1>9, <2>2, <3>1 DEF StakeSound
    <2> QED
      BY <2>1, <2>2
  <1>12. Exists(RewardPoolAddress)' => PoolSound(now', RewardPool')
    BY <1>2, <1>9, PoolSoundKept
  <1> QED
    BY <1>8, <1>10, <1>11, <1>12 DEF EarnedInv

LEMMA UnstakeSound ==
    ASSUME StakingInv, EarnedInv, NEW staker \in Wallets, NEW nonce \in Nonces,
           Unstake(staker, nonce)
    PROVE  EarnedInv'
  <1> DEFINE given == UnstakeAccounts(PoolAddress, StakeToken, nonce, staker)
             addr == Completed(UnstakeIx, given, <<>>, accounts)
             entry == StakeEntryPDA(PoolAddress, staker, nonce)
             closed == [accounts[entry] EXCEPT !.closedTs = now]
  <1>1. addr.stakeEntry = entry
    BY UnstakeCompleted
  <1>2. /\ entry \in DOMAIN accounts /\ accounts[entry].closedTs = 0
        /\ accounts' = [accounts EXCEPT ![entry] = closed]
        /\ now' = now /\ ideal' = ideal
    BY <1>1 DEF Unstake, Exists
  <1>3. entry[1] = "stake-entry"
    BY KindsApart
  <1> HIDE DEF addr, entry
  <1>4. entry \in StakeEntries /\ accounts[entry] \in StakeEntryType
    BY <1>2, <1>3, StakeIsTyped DEF StakeEntries, OfKind, StakingInv, StakeInv
  <1>5. /\ closed.closedTs = now /\ closed.createdTs = accounts[entry].createdTs
        /\ closed.effectiveAmount = accounts[entry].effectiveAmount
    BY <1>4 DEF StakeEntryType
  <1> HIDE DEF closed
  <1>6. /\ DOMAIN accounts' = DOMAIN accounts /\ accounts'[entry] = closed
        /\ \A x \in DOMAIN accounts \ {entry} : accounts'[x] = accounts[x]
    BY <1>2
  <1>7. StakeEntries' = StakeEntries
    BY <1>6 DEF StakeEntries, OfKind
  <1>8. /\ Exists(RewardPoolAddress)' <=> Exists(RewardPoolAddress)
        /\ Exists(RewardPoolAddress) => RewardPool' = RewardPool
    BY <1>3, <1>6, KindsApart DEF Exists, RewardPool, RewardPoolAddress, PoolAddress
  <1>9. ASSUME NEW a \in StakeEntries
        PROVE  /\ Exists(RewardEntryOf(a))' <=> Exists(RewardEntryOf(a))
               /\ Exists(RewardEntryOf(a)) => accounts'[RewardEntryOf(a)] = accounts[RewardEntryOf(a)]
    <2>1. RewardEntryOf(a) # entry
      BY <1>3, KindsApart
    <2> QED
      BY <1>6, <2>1 DEF Exists, RewardEntryOf, RewardPoolAddress, PoolAddress
  <1>10. ASSUME NEW a \in StakeEntries, a # entry PROVE StakeSound(a)'
    <2>1. accounts'[a] = accounts[a] /\ ideal'[a] = ideal[a] /\ StakeSound(a)
      BY <1>2, <1>6, <1>10 DEF StakeEntries, OfKind, EarnedInv
    <2> QED
      BY <1>2, <1>8, <1>9, <2>1, SoundKept
  <1>11. StakeSound(entry)'
    <2>1. now \in Nat \ {0} /\ StakeSound(entry)
      BY <1>4, StakingAssumption DEF StakingInv, EarnedInv
    <2>2. CASE Exists(RewardPoolAddress)
      <3>1. Nums(accounts[entry], ideal[entry], EntryRead(entry), RewardPool)
        BY <1>4, <2>2, NumsHold DEF NumsAll
      <3>2. Sound(now, closed, ideal[entry], EntryRead(entry), RewardPool)
        BY <1>2, <1>5, <2>1, <2>2, <3>1, SoundClosed DEF StakeSound
      <3>3. CASE Exists(RewardEntryOf(entry))
        <4>1. EntryRead(entry)' = EntryRead(entry)
          BY <1>4, <1>9, <3>3 DEF EntryRead, RewardEntryOf, RewardPoolAddress, PoolAddress
        <4> QED
          BY <1>2, <1>6, <1>8, <2>2, <3>2, <4>1 DEF StakeSound
      <3>4. CASE ~Exists(RewardEntryOf(entry))
        <4>1. EntryRead(entry)' = EntryRead(entry)
          <5>1. /\ EntryRead(entry) = DefaultEntry(accounts[entry])
                /\ EntryRead(entry)' = DefaultEntry(closed)
            BY <1>4, <1>6, <1>9, <3>4 DEF EntryRead
          <5> QED
            BY <1>5, <5>1 DEF DefaultEntry
        <4> QED
          BY <1>2, <1>6, <1>8, <2>2, <3>2, <4>1 DEF StakeSound
      <3> QED
        BY <3>3, <3>4
    <2>3. CASE ~Exists(RewardPoolAddress)
      <3>1. Waiting(entry)'
        BY <1>2, <1>5, <1>6, <2>1, <2>3 DEF Waiting, StakeSound
      <3> QED
        BY <1>8, <2>3, <3>1 DEF StakeSound
    <2> QED
      BY <2>2, <2>3
  <1>12. Exists(RewardPoolAddress)' => PoolSound(now', RewardPool')
    BY <1>2, <1>8, PoolSoundKept
  <1> QED
    BY <1>7, <1>10, <1>11, <1>12 DEF EarnedInv

(* Who is late is so for good.                                             *)
LEMMA InStepIs ==
    ASSUME NEW t, NEW i \in IdealType(t)
    PROVE  LET j == InStep(i) IN
           /\ j.earned = i.earned /\ j.running = i.running /\ j.from = i.from
           /\ j.amountUpdates = i.amountUpdates /\ j.periodUpdates = i.periodUpdates
           /\ ~j.late => ~i.late /\ Unmoved(i)
  <1> DEFINE j == InStep(i)
  <1>1. /\ j.earned = i.earned /\ j.running = i.running /\ j.from = i.from
        /\ j.amountUpdates = i.amountUpdates /\ j.periodUpdates = i.periodUpdates
    BY DEF InStep, IdealType
  <1>2. /\ j.late = (i.late \/ i.amountUpdates + i.periodUpdates > 0)
        /\ i.amountUpdates \in Nat /\ i.periodUpdates \in Nat
    BY DEF InStep, IdealType
  <1> HIDE DEF j
  <1>3. ~j.late => ~i.late /\ ~(i.amountUpdates + i.periodUpdates > 0)
    BY <1>2, Zenon
  <1>4. ~(i.amountUpdates + i.periodUpdates > 0) => Unmoved(i)
    BY <1>2 DEF Unmoved
  <1>5. ~j.late => ~i.late /\ Unmoved(i)
    BY <1>3, <1>4, Zenon
  <1> QED
    BY <1>1, <1>5 DEF j

LEMMA CreateRewardEntrySound ==
    ASSUME StakingInv, EarnedInv, NEW staker \in Wallets, NEW nonce \in Nonces,
           CreateRewardEntry(staker, nonce)
    PROVE  EarnedInv'
  <1> DEFINE given == CreateRewardEntryAccounts(PoolAddress, 0, nonce, RewardToken, staker)
             addr == Completed(CreateEntryIx, given, <<>>, accounts)
             entry == StakeEntryPDA(PoolAddress, staker, nonce)
             contents == [rewardPool |-> addr.rewardPool, stakeEntry |-> addr.stakeEntry,
                          createdTs |-> now, accountedAmount |-> 0, claimedAmount |-> 0,
                          lastAccountedTs |-> 0, lastRewardAmount |-> RewardPool.rewardAmount,
                          lastRewardPeriod |-> RewardPool.rewardPeriod]
  <1>1. /\ addr.stakeEntry = entry /\ addr.rewardPool = RewardPoolAddress
        /\ addr.rewardEntry = RewardEntryOf(entry)
    BY EntryCompleted DEF RewardPoolAddress, RewardEntryOf
  <1>2. /\ entry \in DOMAIN accounts /\ Exists(RewardPoolAddress)
        /\ RewardEntryOf(entry) \notin DOMAIN accounts
        /\ accounts' = Stored(accounts, RewardEntryOf(entry), contents)
        /\ ideal' = [ideal EXCEPT ![entry] = InStep(@)]
        /\ now' = now
    BY <1>1 DEF CreateRewardEntry, Exists
  <1>3. /\ contents.createdTs = now /\ contents.accountedAmount = 0 /\ contents.claimedAmount = 0
        /\ contents.lastAccountedTs = 0 /\ contents.lastRewardAmount = RewardPool.rewardAmount
        /\ contents.lastRewardPeriod = RewardPool.rewardPeriod
    OBVIOUS
  <1>4. entry[1] = "stake-entry"
    BY KindsApart
  <1> HIDE DEF addr, entry, contents
  <1>5. entry \in StakeEntries
    BY <1>2, <1>4 DEF StakeEntries, OfKind
  <1>6. /\ DOMAIN accounts' = DOMAIN accounts \cup {RewardEntryOf(entry)}
        /\ accounts'[RewardEntryOf(entry)] = contents
        /\ \A x \in DOMAIN accounts : accounts'[x] = accounts[x]
    BY <1>2 DEF Stored
  <1>7. StakeEntries' = StakeEntries
    BY <1>6, KindsApart DEF StakeEntries, OfKind
  <1>8. /\ Exists(RewardPoolAddress)' /\ RewardPool' = RewardPool
    BY <1>2, <1>6 DEF Exists, RewardPool, RewardPoolAddress, PoolAddress
  <1>9. StakingInv' /\ now \in Nat
    BY CreateRewardEntryKeeps, StakingAssumption DEF StakingInv
  <1>10. ASSUME NEW a \in StakeEntries, a # entry PROVE StakeSound(a)'
    <2>1. RewardEntryOf(entry) # RewardPoolAddress /\ RewardEntryOf(entry) # RewardEntryOf(a)
      BY <1>10, KindsApart
    <2>2. ideal'[a] = ideal[a]
      BY <1>2, <1>10 DEF StakingInv, IdealInv
    <2> QED
      BY <1>2, <2>1, <2>2, OthersKept
  <1>11. StakeSound(entry)'
    <2> DEFINE s == accounts[entry]
               i == ideal[entry]
               j == ideal'[entry]
               d == EntryRead(entry)
    <2>1. Nums(s, i, d, RewardPool) /\ Sound(now, s, i, d, RewardPool)
      BY <1>2, <1>5, NumsHold DEF NumsAll, EarnedInv, StakeSound
    <2>2. EntryRead(entry)' = contents
      BY <1>6 DEF EntryRead, Exists, RewardEntryOf, RewardPoolAddress, PoolAddress
    <2>3. accounts'[entry] = s
      BY <1>2, <1>6
    <2>4. Nums(s, j, contents, RewardPool)
      <3>1. Nums(accounts'[entry], ideal'[entry], EntryRead(entry)', RewardPool')
        BY <1>5, <1>7, <1>8, <1>9, NumsLater DEF NumsAll
      <3> QED
        BY <1>8, <2>2, <2>3, <3>1
    <2>5. d.lastRewardPeriod = 0 /\ d.accountedAmount = 0 /\ d.lastAccountedTs = 0
      BY <1>2 DEF EntryRead, DefaultEntry, Exists
    <2>6. i \in IdealType(now) /\ j = InStep(i)
      BY <1>2, <1>5 DEF StakingInv, IdealInv
    <2>7. /\ j.earned = i.earned /\ j.running = i.running /\ j.from = i.from
          /\ j.amountUpdates = i.amountUpdates /\ j.periodUpdates = i.periodUpdates
          /\ ~j.late => ~i.late /\ Unmoved(i)
      BY <2>6, InStepIs
    <2> HIDE DEF s, i, j, d
    <2>8. Sound(now, s, j, contents, RewardPool)
      BY <1>3, <1>9, <2>1, <2>4, <2>5, <2>7, SoundWithEntry
    <2> QED
      BY <1>2, <1>8, <2>2, <2>3, <2>8 DEF StakeSound, j
  <1>12. PoolSound(now', RewardPool')
    BY <1>2, <1>8 DEF EarnedInv
  <1> QED
    BY <1>7, <1>10, <1>11, <1>12 DEF EarnedInv

LEMMA ClaimRewardsSound ==
    ASSUME StakingInv, EarnedInv, NEW staker \in Wallets, NEW nonce \in Nonces,
           ClaimRewards(staker, nonce)
    PROVE  EarnedInv'
  <1> DEFINE given == ClaimAccounts(PoolAddress, 0, nonce, RewardToken, staker)
             addr == Completed(ClaimRewardsIx, given, <<>>, accounts)
             entry == StakeEntryPDA(PoolAddress, staker, nonce)
             s == accounts[entry]
             i == ideal[entry]
             r == Rounded(i, s)
             contents == [accounts[RewardEntryOf(entry)] EXCEPT
                              !.accountedAmount = r.earned,
                              !.claimedAmount = r.earned \div Precision,
                              !.lastAccountedTs = r.from,
                              !.lastRewardAmount = RewardPool.rewardAmount,
                              !.lastRewardPeriod = RewardPool.rewardPeriod]
  <1>1. addr.stakeEntry = entry /\ addr.rewardEntry = RewardEntryOf(entry)
    BY ClaimCompleted DEF RewardPoolAddress, RewardEntryOf
  <1>2. /\ Exists(RewardEntryOf(entry))
        /\ accounts' = [accounts EXCEPT ![RewardEntryOf(entry)] = contents]
        /\ ideal' = [ideal EXCEPT ![entry] = [InStep(r) EXCEPT !.claimedTs = now]]
        /\ now' = now
    BY <1>1 DEF ClaimRewards
  <1>3. /\ Exists(RewardPoolAddress) /\ entry \in StakeEntries
        /\ accounts[RewardEntryOf(entry)] \in RewardEntryType
    BY <1>2, EntriesOf
  <1>4. /\ contents.createdTs = accounts[RewardEntryOf(entry)].createdTs
        /\ contents.accountedAmount = r.earned /\ contents.claimedAmount = r.earned \div Precision
        /\ contents.lastAccountedTs = r.from
        /\ contents.lastRewardAmount = RewardPool.rewardAmount
        /\ contents.lastRewardPeriod = RewardPool.rewardPeriod
    BY <1>3 DEF RewardEntryType
  <1>5. entry[1] = "stake-entry"
    BY KindsApart
  <1>6. StakingInv' /\ now \in Nat
    BY ClaimRewardsKeeps, StakingAssumption DEF StakingInv
  <1> HIDE DEF addr, entry, contents
  <1>7. /\ DOMAIN accounts' = DOMAIN accounts
        /\ accounts'[RewardEntryOf(entry)] = contents
        /\ \A x \in DOMAIN accounts \ {RewardEntryOf(entry)} : accounts'[x] = accounts[x]
    BY <1>2 DEF Exists
  <1>8. StakeEntries' = StakeEntries
    BY <1>7 DEF StakeEntries, OfKind
  <1>9. Exists(RewardPoolAddress)' /\ RewardPool' = RewardPool
    <2>1. RewardPoolAddress # RewardEntryOf(entry)
      BY KindsApart
    <2> QED
      BY <1>3, <1>7, <2>1 DEF Exists, RewardPool, RewardPoolAddress, PoolAddress
  <1>10. ASSUME NEW a \in StakeEntries PROVE accounts'[a] = accounts[a] /\ a # RewardEntryOf(entry)
    BY <1>7, KindsApart DEF StakeEntries, OfKind
  <1>11. ASSUME NEW a \in StakeEntries, a # entry PROVE StakeSound(a)'
    <2>1. /\ Exists(RewardEntryOf(a))' <=> Exists(RewardEntryOf(a))
          /\ Exists(RewardEntryOf(a)) => accounts'[RewardEntryOf(a)] = accounts[RewardEntryOf(a)]
      <3>1. RewardEntryOf(a) # RewardEntryOf(entry)
        BY <1>11, KindsApart
      <3> QED
        BY <1>7, <3>1 DEF Exists, RewardEntryOf, RewardPoolAddress, PoolAddress
    <2>2. ideal'[a] = ideal[a] /\ StakeSound(a) /\ accounts'[a] = accounts[a]
      BY <1>2, <1>10, <1>11 DEF StakingInv, IdealInv, EarnedInv
    <2> QED
      BY <1>2, <1>3, <1>9, <2>1, <2>2, SoundKept
  <1>12. StakeSound(entry)'
    <2> DEFINE j == ideal'[entry]
               d == EntryRead(entry)
    <2>1. /\ Nums(s, i, d, RewardPool) /\ Sound(now, s, i, d, RewardPool)
          /\ d.lastRewardPeriod # 0
      BY <1>2, <1>3, NumsHold DEF NumsAll, EarnedInv, StakeSound
    <2>2. EntryRead(entry)' = contents /\ d = accounts[RewardEntryOf(entry)]
      BY <1>2, <1>7 DEF EntryRead, Exists, RewardEntryOf, RewardPoolAddress, PoolAddress
    <2>3. accounts'[entry] = s
      BY <1>3, <1>10
    <2>4. Nums(s, j, contents, RewardPool)
      <3>1. Nums(accounts'[entry], ideal'[entry], EntryRead(entry)', RewardPool')
        BY <1>3, <1>6, <1>8, <1>9, NumsLater DEF NumsAll
      <3> QED
        BY <1>9, <2>2, <2>3, <3>1
    <2>5. i \in IdealType(now) /\ j = [InStep(r) EXCEPT !.claimedTs = now]
      BY <1>2, <1>3 DEF StakingInv, IdealInv
    <2>6. /\ r.earned = Earned(i, s) /\ r.running = 0 /\ r.from = i.from /\ r.late = i.late
          /\ r.amountUpdates = i.amountUpdates /\ r.periodUpdates = i.periodUpdates
          /\ r \in IdealType(now)
      <3>1. i \in IdealType(now) /\ s.effectiveAmount \in Nat
        BY <2>1, <2>5 DEF Nums, StakeNums
      <3> HIDE DEF i, s
      <3>2. r \in IdealType(now)
        BY <1>6, <3>1, EarnedTyped
      <3>3. /\ r.earned = Earned(i, s) /\ r.running = 0 /\ r.from = i.from /\ r.late = i.late
            /\ r.amountUpdates = i.amountUpdates /\ r.periodUpdates = i.periodUpdates
        BY <3>1 DEF Rounded, IdealType
      <3> QED
        BY <3>2, <3>3
    <2> HIDE DEF i, s, r
    <2>7. /\ InStep(r).earned = r.earned /\ InStep(r).running = r.running
          /\ InStep(r).from = r.from /\ InStep(r).amountUpdates = r.amountUpdates
          /\ InStep(r).periodUpdates = r.periodUpdates
          /\ ~InStep(r).late => ~r.late /\ Unmoved(r)
      BY <2>6, InStepIs
    <2>8. /\ j.earned = InStep(r).earned /\ j.running = InStep(r).running
          /\ j.from = InStep(r).from /\ j.amountUpdates = InStep(r).amountUpdates
          /\ j.periodUpdates = InStep(r).periodUpdates /\ j.late = InStep(r).late
      <3>1. InStep(r) \in IdealType(now)
        BY <2>6 DEF InStep, IdealType
      <3> HIDE DEF j
      <3> QED
        BY <2>5, <3>1 DEF IdealType
    <2> HIDE DEF j
    <2>9. /\ j.earned = Earned(i, s) /\ j.running = 0 /\ j.from = i.from
          /\ j.amountUpdates = i.amountUpdates /\ j.periodUpdates = i.periodUpdates
      BY <2>6, <2>7, <2>8
    <2>10. ~j.late => ~i.late /\ Unmoved(i)
      <3>1. Unmoved(r) => Unmoved(i)
        BY <2>6 DEF Unmoved
      <3> QED
        BY <2>6, <2>7, <2>8, <3>1, Zenon
    <2>11. /\ contents.createdTs = d.createdTs /\ contents.accountedAmount = Earned(i, s)
           /\ contents.claimedAmount = Earned(i, s) \div Precision
           /\ contents.lastAccountedTs = i.from
           /\ contents.lastRewardAmount = RewardPool.rewardAmount
           /\ contents.lastRewardPeriod = RewardPool.rewardPeriod
      BY <1>4, <2>2, <2>6
    <2> HIDE DEF d
    <2>12. Sound(now, s, j, contents, RewardPool)
      BY <1>6, <2>1, <2>4, <2>9, <2>10, <2>11, SoundClaimed
    <2> QED
      BY <1>2, <1>9, <2>2, <2>3, <2>12 DEF StakeSound, j
  <1>13. PoolSound(now', RewardPool')
    BY <1>2, <1>3, <1>9 DEF EarnedInv
  <1> QED
    BY <1>8, <1>11, <1>12, <1>13 DEF EarnedInv

LEMMA UpdatePoolSound ==
    ASSUME StakingInv, EarnedInv, UpdatePool
    PROVE  EarnedInv'
  <1> DEFINE p == RewardPool
             newAmount(amount) == amount # p.rewardAmount
             newPeriod(period) == period # p.rewardPeriod
             pool(amount, period) == [p EXCEPT
                !.rewardAmount = amount, !.rewardPeriod = period,
                !.lastRewardAmount = IF newAmount(amount) THEN p.rewardAmount ELSE @,
                !.lastRewardPeriod = IF newPeriod(period) THEN p.rewardPeriod ELSE @,
                !.lastAmountUpdateTs = IF newAmount(amount) THEN now ELSE @,
                !.lastPeriodUpdateTs = IF newPeriod(period) THEN now ELSE @]
             counted(amount, period) == AccruedAll(RoundedAll, now, pool(amount, period))
  <1>1. PICK amount \in Amounts, period \in Periods :
        /\ Exists(RewardPoolAddress) /\ (newAmount(amount) \/ newPeriod(period))
        /\ accounts' = [accounts EXCEPT ![RewardPoolAddress] = pool(amount, period)]
        /\ ideal' = [a \in DOMAIN ideal |-> [counted(amount, period)[a] EXCEPT
                  !.amountUpdates = @ + IF newAmount(amount) THEN 1 ELSE 0,
                  !.periodUpdates = @ + IF newPeriod(period) THEN 1 ELSE 0]]
        /\ now' = now
    BY DEF UpdatePool, UpdateRewardPool
  <1>2. p \in RewardPoolType /\ PoolNums(p) /\ PoolSound(now, p)
    BY <1>1, RewardPoolTyped, NumsHold DEF StakingInv, NumsAll, EarnedInv
  <1> DEFINE q == pool(amount, period)
  <1>3. /\ q.createdTs = p.createdTs /\ q.rewardAmount = amount /\ q.rewardPeriod = period
        /\ q.lastRewardAmount = IF newAmount(amount) THEN p.rewardAmount ELSE p.lastRewardAmount
        /\ q.lastRewardPeriod = IF newPeriod(period) THEN p.rewardPeriod ELSE p.lastRewardPeriod
        /\ q.lastAmountUpdateTs = IF newAmount(amount) THEN now ELSE p.lastAmountUpdateTs
        /\ q.lastPeriodUpdateTs = IF newPeriod(period) THEN now ELSE p.lastPeriodUpdateTs
    BY <1>2 DEF RewardPoolType
  <1> HIDE DEF p, pool, q
  <1>4. /\ DOMAIN accounts' = DOMAIN accounts /\ accounts'[RewardPoolAddress] = q
        /\ \A x \in DOMAIN accounts \ {RewardPoolAddress} : accounts'[x] = accounts[x]
    BY <1>1 DEF Exists, q
  <1>5. /\ StakeEntries' = StakeEntries /\ Exists(RewardPoolAddress)' /\ RewardPool' = q
    BY <1>1, <1>4 DEF StakeEntries, OfKind, Exists, RewardPool, RewardPoolAddress, PoolAddress
  <1>6. StakingInv' /\ now \in Nat
    BY UpdatePoolKeeps, StakingAssumption DEF StakingInv
  <1>7. PoolNums(q)
    BY <1>5, <1>6, NumsLater DEF NumsAll
  <1>8. UpdatedPool(p, q, now)
    BY <1>1, <1>3, <1>7 DEF UpdatedPool
  <1>9. PoolSound(now, q)
    BY <1>2, <1>3, <1>6, <1>7 DEF PoolSound, PoolNums
  <1>10. ASSUME NEW a \in StakeEntries PROVE StakeSound(a)'
    <2> DEFINE s == accounts[a]
               i == ideal[a]
               j == ideal'[a]
               e == EntryRead(a)
               r == Rounded(i, s)
               c == IF s.closedTs > 0 THEN r ELSE Accrued(r, now, q.rewardAmount, q.rewardPeriod)
               m == (now - r.from) \div q.rewardPeriod
    <2>1. Nums(s, i, e, p) /\ Sound(now, s, i, e, p)
      BY <1>1, NumsHold DEF NumsAll, EarnedInv, StakeSound, p
    <2>2. i \in IdealType(now) /\ a \in DOMAIN ideal
      BY DEF StakingInv, IdealInv
    <2>3. j = [c EXCEPT !.amountUpdates = @ + IF newAmount(amount) THEN 1 ELSE 0,
                        !.periodUpdates = @ + IF newPeriod(period) THEN 1 ELSE 0]
      BY <1>1, <2>2 DEF AccruedAll, RoundedAll, q
    <2>4. accounts'[a] = s
      BY <1>4, KindsApart DEF StakeEntries, OfKind
    <2>5. EntryRead(a)' = e
      <3>1. RewardEntryOf(a) # RewardPoolAddress
        BY KindsApart
      <3>2. /\ Exists(RewardEntryOf(a))' <=> Exists(RewardEntryOf(a))
            /\ Exists(RewardEntryOf(a)) => accounts'[RewardEntryOf(a)] = accounts[RewardEntryOf(a)]
        BY <1>4, <3>1 DEF Exists, RewardEntryOf, RewardPoolAddress, PoolAddress
      <3> QED
        BY <2>4, <3>2, EntryKept
    <2>6. IdealNums(j)
      BY <1>5, <1>6, NumsLater DEF NumsAll, Nums
    <2> HIDE DEF s, i, j, e, c
    <2>7. /\ r.earned = Earned(i, s) /\ r.running = 0 /\ r.from = i.from /\ r.late = i.late
          /\ r.amountUpdates = i.amountUpdates /\ r.periodUpdates = i.periodUpdates
      BY <2>2 DEF Rounded, IdealType
    <2>8. r \in IdealType(now) /\ i.earned <= Earned(i, s)
      BY <1>6, <2>1, <2>2, EarnedTyped DEF Nums, StakeNums
    <2> HIDE DEF r
    <2>9. /\ c \in IdealType(now) /\ m \in Nat
          /\ c.earned = r.earned /\ c.late = r.late
          /\ c.amountUpdates = r.amountUpdates /\ c.periodUpdates = r.periodUpdates
          /\ s.closedTs > 0 => c.from = r.from
          /\ s.closedTs = 0 => c.running = r.running + m * q.rewardAmount
                               /\ c.from = r.from + m * q.rewardPeriod
      <3>1. q.rewardAmount \in Amounts /\ q.rewardPeriod \in Periods
        BY <1>3
      <3>2. m \in Nat
        BY <1>6, <2>8, <3>1, PeriodsPassed
      <3> DEFINE later == Accrued(r, now, q.rewardAmount, q.rewardPeriod)
      <3>3. later \in IdealType(now)
        BY <1>6, <2>8, <3>1, AccruedTyped
      <3>4. /\ later.running = r.running + m * q.rewardAmount
            /\ later.from = r.from + m * q.rewardPeriod
            /\ later.earned = r.earned /\ later.late = r.late
            /\ later.amountUpdates = r.amountUpdates /\ later.periodUpdates = r.periodUpdates
        BY <2>8, AccruedIs
      <3>5. c = IF s.closedTs > 0 THEN r ELSE later
        BY DEF c
      <3> HIDE DEF later, m
      <3>6. s.closedTs = 0 => ~(s.closedTs > 0)
        OBVIOUS
      <3> QED
        BY <2>8, <3>2, <3>3, <3>4, <3>5, <3>6
    <2>10. /\ j.earned = c.earned /\ j.running = c.running /\ j.from = c.from /\ j.late = c.late
           /\ j.amountUpdates = c.amountUpdates + (IF newAmount(amount) THEN 1 ELSE 0)
           /\ j.periodUpdates = c.periodUpdates + (IF newPeriod(period) THEN 1 ELSE 0)
      BY <2>3, <2>9 DEF IdealType
    <2>11. UpdatesCounted(i, j, p, q)
      BY <1>3, <2>7, <2>9, <2>10 DEF UpdatesCounted
    <2>12. s.closedTs = 0 => \E n \in Nat : /\ n = (now - i.from) \div q.rewardPeriod
                                            /\ j.running = n * q.rewardAmount
                                            /\ j.from = i.from + n * q.rewardPeriod
      <3>1. m = (now - i.from) \div q.rewardPeriod
        BY <2>7
      <3>2. m * q.rewardAmount \in Nat /\ 0 + m * q.rewardAmount = m * q.rewardAmount
        BY <1>7, <2>9 DEF PoolNums
      <3> HIDE DEF m
      <3> QED
        BY <2>7, <2>9, <2>10, <3>1, <3>2
    <2>13. /\ j.late = i.late /\ j.earned = Earned(i, s)
           /\ s.closedTs > 0 => j.from = i.from
      BY <2>7, <2>9, <2>10
    <2> HIDE DEF m
    <2>14. Sound(now, s, j, e, q)
      BY <1>2, <1>6, <1>8, <2>1, <2>6, <2>8, <2>11, <2>12, <2>13, SoundUpdated
    <2> QED
      BY <1>1, <1>5, <2>4, <2>5, <2>14 DEF StakeSound, j
  <1> QED
    BY <1>1, <1>5, <1>9, <1>10 DEF EarnedInv

LEMMA EarnedInvHolds == Spec => []EarnedInv
  <1>1. Init => EarnedInv
    <2> SUFFICES ASSUME Init PROVE EarnedInv
      OBVIOUS
    <2>1. DOMAIN accounts = {}
      BY DEF Init
    <2> QED
      BY <2>1 DEF EarnedInv, Exists, StakeEntries, OfKind
  <1>2. StakingInv /\ EarnedInv /\ [Next]_vars => EarnedInv'
    <2> SUFFICES ASSUME StakingInv, EarnedInv, [Next]_vars PROVE EarnedInv'
      OBVIOUS
    <2>1. CASE Tick
      BY <2>1, TickSound
    <2>2. CASE CreateStakePool
      BY <2>2, CreateStakePoolSound
    <2>3. CASE CreateRewardPool
      BY <2>3, CreateRewardPoolSound
    <2>4. CASE UpdatePool
      BY <2>4, UpdatePoolSound
    <2>5. CASE \E s \in Wallets, n \in Nonces : \E d \in Durations : StakeTokens(s, n, d)
      BY <2>5, StakeTokensSound
    <2>6. CASE \E s \in Wallets, n \in Nonces : Unstake(s, n)
      BY <2>6, UnstakeSound
    <2>7. CASE \E s \in Wallets, n \in Nonces : CreateRewardEntry(s, n)
      BY <2>7, CreateRewardEntrySound
    <2>8. CASE \E s \in Wallets, n \in Nonces : ClaimRewards(s, n)
      BY <2>8, ClaimRewardsSound
    <2>9. CASE UNCHANGED vars
      <3>1. now' = now /\ accounts' = accounts /\ ideal' = ideal
        BY <2>9 DEF vars
      <3>2. StakeEntries' = StakeEntries
        BY <3>1 DEF StakeEntries, OfKind
      <3>3. /\ Exists(RewardPoolAddress)' <=> Exists(RewardPoolAddress)
            /\ RewardPool' = RewardPool
        BY <3>1 DEF Exists, RewardPool, RewardPoolAddress, PoolAddress
      <3>4. \A a \in StakeEntries : StakeSound(a)'
        <4> TAKE a \in StakeEntries
        <4>1. Exists(RewardEntryOf(a))' <=> Exists(RewardEntryOf(a))
          BY <3>1 DEF Exists, RewardEntryOf, RewardPoolAddress, PoolAddress
        <4>2. StakeSound(a)
          BY DEF EarnedInv
        <4> QED
          BY <3>1, <3>3, <4>1, <4>2, SoundKept
      <3> QED
        BY <3>1, <3>2, <3>3, <3>4, PoolSoundKept DEF EarnedInv
    <2> QED
      BY <2>1, <2>2, <2>3, <2>4, <2>5, <2>6, <2>7, <2>8, <2>9 DEF Next
  <1> QED
    BY <1>1, <1>2, StakingInvHolds, PTL DEF Spec

(* calcRewards (rewards.ts:131-226) shows exactly what the pool owes,      *)
(* whatever the rates, the periods, the weights and the times of stake,    *)
(* claim and update: it counts each update of the amount and of the period *)
(* once and in their order, and rounds where the program rounds.           *)
THEOREM RewardsExactCorrect == Spec => []RewardsExact
  <1>1. StakingInv /\ EarnedInv => RewardsExact
    <2> SUFFICES ASSUME StakingInv, EarnedInv, NEW a \in StakeEntries,
                        Exists(RewardEntryOf(a)), Followed(a),
                        accounts[a].closedTs > 0 =>
                          ideal[a].amountUpdates + ideal[a].periodUpdates = 0
                 PROVE  ~Throws(a) /\ Shown(a) = Owed(a)
      BY DEF RewardsExact
    <2> DEFINE s == accounts[a]
               i == ideal[a]
               e == EntryRead(a)
    <2>1. Exists(RewardPoolAddress)
      BY EntriesOf
    <2>2. /\ Nums(s, i, e, RewardPool) /\ Sound(now, s, i, e, RewardPool)
          /\ e.lastRewardPeriod # 0
      BY <2>1, NumsHold DEF NumsAll, EarnedInv, StakeSound
    <2>3. s.closedTs > 0 => Unmoved(i)
      <3>1. i.amountUpdates \in Nat /\ i.periodUpdates \in Nat
        BY <2>2 DEF Nums, IdealNums
      <3> QED
        BY <3>1 DEF Unmoved
    <2>4. Countable(s, i, e, RewardPool)
      BY <2>2, <2>3 DEF Followed, Countable, UpdatesFollowed, Since
    <2>5. Earned(i, s) \in Nat /\ i.earned <= Earned(i, s) /\ now \in Nat
      <3>1. i \in IdealType(now) /\ now \in Nat
        BY StakingAssumption DEF StakingInv, IdealInv
      <3> QED
        BY <2>2, <3>1, EarnedTyped DEF Nums, StakeNums
    <2> HIDE DEF s, i
    <2>6. /\ ~CalcThrows(e, s, RewardPool)
          /\ CalcRewards(e, s, RewardPool, now) = (Earned(i, s) - e.claimedAmount * Precision) \div Precision
      BY <2>2, <2>4, <2>5, ShownIsOwed
    <2>7. e.claimedAmount = accounts[RewardEntryOf(a)].claimedAmount
      BY DEF EntryRead
    <2> QED
      BY <2>6, <2>7 DEF Throws, Shown, Owed, s, i
  <1> QED
    BY <1>1, StakingInvHolds, EarnedInvHolds, PTL
=============================================================================
