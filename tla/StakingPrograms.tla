-------------------------- MODULE StakingPrograms --------------------------
(***************************************************************************)
(* The instructions of the stake pool, reward pool and fee manager         *)
(* programs, as the descriptors of staking/solana list their accounts, and *)
(* the addresses that staking/solana/lib/derive-accounts.ts derives.       *)
(***************************************************************************)
EXTENDS AnchorAccounts

(* stake_pool.ts *)
CreateStakePoolIx ==
    [stakePool |-> Seeds("stake-pool", <<"mint", "creator", "nonce">>),
     mint      |-> Named,
     vault     |-> Seeds("stake-vault", <<"stakePool">>),
     stakeMint |-> Seeds("stake-mint", <<"stakePool">>),
     creator   |-> Signer]

StakeIx ==
    [stakePool  |-> Named,
     stakeEntry |-> Seeds("stake-entry", <<"stakePool", "authority", "nonce">>),
     from       |-> Named,
     vault      |-> FieldOf({"stakePool"}),
     to         |-> Named,
     payer      |-> Signer,
     authority  |-> Named,
     mint       |-> FieldOf({"stakePool"}),
     stakeMint  |-> FieldOf({"stakePool"})]

UnstakeIx ==
    [stakePool  |-> FieldOf({"stakeEntry"}),
     stakeEntry |-> Named,
     from       |-> Named,
     vault      |-> FieldOf({"stakePool"}),
     to         |-> Named,
     authority  |-> Signer,
     mint       |-> FieldOf({"stakePool"}),
     stakeMint  |-> FieldOf({"stakePool"})]

(* reward_pool.ts *)
CreateRewardPoolIx ==
    [stakePool  |-> Named,
     rewardPool |-> Seeds("reward-pool", <<"stakePool", "mint", "nonce">>),
     mint       |-> Named,
     vault      |-> Seeds("reward-vault", <<"rewardPool">>),
     creator    |-> Signer]

RewardEntrySeeds == Seeds("reward-entry", <<"rewardPool", "stakeEntry">>)

CreateEntryIx ==
    [stakePool   |-> FieldOf({"rewardPool", "stakeEntry"}),
     rewardPool  |-> Named,
     stakeEntry  |-> Named,
     rewardEntry |-> RewardEntrySeeds,
     payer       |-> Signer,
     authority   |-> Named]

ClaimRewardsIx ==
    [rewardPool  |-> Named,
     stakeEntry  |-> Named,
     rewardEntry |-> RewardEntrySeeds,
     vault       |-> FieldOf({"rewardPool"}),
     to          |-> Named,
     claimant    |-> Signer,
     mint        |-> FieldOf({"rewardPool"})]

UpdatePoolIx ==
    [authority  |-> SignerOf({"rewardPool"}),
     stakePool  |-> FieldOf({"rewardPool"}),
     rewardPool |-> Named]

FundPoolIx ==
    [funder                   |-> Signer,
     from                     |-> Named,
     vault                    |-> FieldOf({"rewardPool"}),
     mint                     |-> FieldOf({"rewardPool"}),
     rewardPool               |-> Named,
     streamflowTreasury       |-> Named,
     streamflowTreasuryTokens |-> TokensOf("streamflowTreasury"),
     config                   |-> Seeds("config", <<>>)]

(* The account of the fee value is optional.                               *)
FundPoolWithFeeIx ==
    [name \in DOMAIN FundPoolIx \cup {"feeValue"} |->
        IF name = "feeValue" THEN Seeds("fee-value", <<"funder">>) ELSE FundPoolIx[name]]

(* fee_manager.ts *)
FeeIx ==
    [feeValue  |-> Seeds("fee-value", <<"target">>),
     config    |-> Seeds("config", <<>>),
     authority |-> Signer,
     target    |-> Named]

-----------------------------------------------------------------------------
(* derive-accounts.ts *)
StakePoolWithSwappedSeeds(mint, authority, nonce) ==
    <<"stake-pool", authority, mint, nonce>>

StakePoolPDA(mint, authority, nonce) == <<"stake-pool", mint, authority, nonce>>
StakeVaultPDA(stakePool) == <<"stake-vault", stakePool>>
StakeMintPDA(stakePool) == <<"stake-mint", stakePool>>

StakeEntryWithoutNonce(stakePool, authority, nonce) ==
    <<"stake-entry", stakePool, authority, 0>>

StakeEntryPDA(stakePool, authority, nonce) ==
    <<"stake-entry", stakePool, authority, nonce>>
RewardPoolPDA(stakePool, mint, nonce) == <<"reward-pool", stakePool, mint, nonce>>
RewardVaultPDA(rewardPool) == <<"reward-vault", rewardPool>>
RewardEntryPDA(rewardPool, stakeEntry) == <<"reward-entry", rewardPool, stakeEntry>>
ConfigPDA == <<"config">>
FeeValuePDA(target) == <<"fee-value", target>>
=============================================================================
