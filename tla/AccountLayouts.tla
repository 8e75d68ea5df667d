--------------------------- MODULE AccountLayouts ---------------------------
(***************************************************************************)
(* Searches by the contents of accounts: an RPC node compares the bytes at *)
(* an offset, and the client takes that offset from constants of its own.  *)
(* A layout lists the fields of an account in order with their sizes, as   *)
(* far as a search reaches; a search of an offset where no field starts    *)
(* finds nothing.  A definition that nothing uses is a plausible slip in   *)
(* the definition that follows it.                                         *)
(***************************************************************************)
EXTENDS Naturals, Sequences

AnchorDiscriminatorOffset == 8

(* MerkleDistributor.layout                                                *)
MerkleDistributorLayout ==
    << <<"bump", 1>>, <<"version", 8>>, <<"root", 32>>, <<"mint", 32>>,
       <<"tokenVault", 32>>, <<"maxTotalClaim", 8>>, <<"maxNumNodes", 8>>,
       <<"unlockPeriod", 8>>, <<"totalAmountClaimed", 8>>, <<"numNodesClaimed", 8>>,
       <<"startTs", 8>>, <<"endTs", 8>>, <<"clawbackStartTs", 8>>,
       <<"clawbackReceiver", 32>>, <<"admin", 32>> >>

(* distributor/solana/constants.ts                                         *)
OffsetsWithoutRoot ==
    [mint |-> AnchorDiscriminatorOffset + 9, admin |-> AnchorDiscriminatorOffset + 169]

DistributorOffsets ==
    [mint |-> AnchorDiscriminatorOffset + 41, admin |-> AnchorDiscriminatorOffset + 201]

(* streamflow_launchpad.ts                                                 *)
LaunchpadLayout ==
    << <<"bump", 1>>, <<"nonce", 1>>, <<"filler", 6>>, <<"baseMint", 32>>,
       <<"quoteMint", 32>> >>

(* launchpad/solana/constants.ts                                           *)
LaunchpadOffsets ==
    [baseMint |-> AnchorDiscriminatorOffset + 8, quoteMint |-> AnchorDiscriminatorOffset + 32]

(* stake_pool.ts, reward_pool.ts                                           *)
StakePoolLayout == << <<"bump", 1>>, <<"nonce", 1>>, <<"mint", 32>>, <<"creator", 32>> >>
StakeEntryLayout == << <<"nonce", 4>>, <<"stakePool", 32>>, <<"payer", 32>> >>
RewardPoolLayout == << <<"bump", 1>>, <<"nonce", 1>>, <<"stakePool", 32>>, <<"mint", 32>> >>
RewardEntryLayout == << <<"rewardPool", 32>>, <<"stakeEntry", 32>> >>

(* staking/solana/constants.ts                                             *)
StakePoolOffsets ==
    [mint |-> AnchorDiscriminatorOffset + 2, creator |-> AnchorDiscriminatorOffset + 34]

OffsetsAfterByteNonce ==
    [stakePool |-> AnchorDiscriminatorOffset + 1, payer |-> AnchorDiscriminatorOffset + 33]

StakeEntryOffsets ==
    [stakePool |-> AnchorDiscriminatorOffset + 4, payer |-> AnchorDiscriminatorOffset + 36]
RewardPoolOffsets ==
    [stakePool |-> AnchorDiscriminatorOffset + 2, mint |-> AnchorDiscriminatorOffset + 34]
RewardEntryOffsets ==
    [rewardPool |-> AnchorDiscriminatorOffset, stakeEntry |-> AnchorDiscriminatorOffset + 32]

(* Where a field of an account starts.                                     *)
StartIn(layout, i) ==
    LET start[k \in 1..i] ==
            IF k = 1 THEN AnchorDiscriminatorOffset ELSE start[k - 1] + layout[k - 1][2]
    IN  start[i]

FieldsAt(layout, offset) ==
    {layout[i][1] : i \in {k \in DOMAIN layout : StartIn(layout, k) = offset}}

(* getFilters: a filter for every criterion that is given.  An account is  *)
(* found when all the filters match.                                       *)
Found(contents, layout, offsets, criteria) ==
    \A key \in DOMAIN criteria :
        \E field \in FieldsAt(layout, offsets[key]) \cap DOMAIN contents :
            contents[field] = criteria[key]

(* A search by what some account holds finds the accounts that hold it.    *)
SearchFinds(accs, layout, offsets, keys) ==
    \A a, b \in accs, searched \in SUBSET keys :
        Found(a, layout, offsets, [key \in searched |-> b[key]])
        <=> \A key \in searched : a[key] = b[key]
=============================================================================
