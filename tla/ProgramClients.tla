--------------------------- MODULE ProgramClients ---------------------------
(***************************************************************************)
(* The Solana clients of the distributor, the launchpad and the reward     *)
(* pool, which make their calls in the same way (ClientCalls).  A client   *)
(* is constructed for the program of its package.                          *)
(***************************************************************************)
EXTENDS ClientCalls, AccountLayouts

CONSTANTS
    OneInBasisPoints, Drops, Schedules, Closable, MinUpdatePeriod, \* see Airdrops
    Offers, Depositors, DepositArgs, FundAmount, MaxFunds,         \* see Launchpads
    FeeValues, FundBound                                           \* see RewardFunding

VARIABLES
    program,     \* "distributor", "launchpad" or "rewardPool"
    epoch, drop, \* see Airdrops
    paidFor      \* see Launchpads

callVars == <<now, accounts, tokens, call, disturbed>>
vars == <<program, callVars, epoch, drop, paidFor>>

Airdrop == INSTANCE Airdrops
Pads == INSTANCE Launchpads
Funding == INSTANCE RewardFunding

NoDrop == [mint |-> <<"none">>]

OfferFields ==
    {"price", "maxCap", "individualCap", "isMemoRequired", "depositingStart", "depositingEnd",
     "vestingStart", "receiver", "priceOracle", "oracleType"}

(* Amounts are natural numbers, and the addresses that are given are those *)
(* of wallets, mints and token accounts.                                   *)
ASSUME ProgramAssumption ==
    /\ MaxTime \in Nat \ {0} /\ OneInBasisPoints \in Nat \ {0} /\ MinUpdatePeriod \in Nat \ {0}
    /\ \A d \in Drops :
         /\ \A e \in {1, 2} : d.fees[e].max \in Nat /\ d.fees[e].rate \in 0..OneInBasisPoints - 1
         /\ IsFiniteSet(DOMAIN d.leaves)
         /\ \A r \in DOMAIN d.leaves : d.leaves[r].unlocked \in Nat /\ d.leaves[r].locked \in Nat
         /\ {d.mint, Airdrop!DistributorPDA(d.mint, Airdrop!Version), Missing}
              \cap DOMAIN d.leaves = {}
         /\ d.mint # Missing
    /\ \A s \in Schedules : {s.start, s.end, s.clawback} \subseteq Nat /\ s.period \in Nat \ {0}
    /\ \A o \in Offers :
         /\ o.price \in Nat \ {0}
         /\ {o.depositingStart, o.depositingEnd, o.vestingStart, o.individualCap, o.maxCap}
              \subseteq Nat
         /\ Missing \notin {o.receiver, o.priceOracle}
         /\ DOMAIN o = OfferFields
    /\ IsFiniteSet(Depositors) /\ {Missing, Pads!Unset} \cap Depositors = {}
    /\ \A a \in DepositArgs : a.amount \in Nat
    /\ FundAmount \in Nat
    /\ FeeValues \subseteq Nat

Init ==
    /\ program \in {"distributor", "launchpad", "rewardPool"}
    /\ IF program = "distributor" THEN Airdrop!Init ELSE epoch = 1 /\ drop = NoDrop
    /\ IF program = "launchpad" THEN Pads!Init ELSE paidFor = <<>>
    /\ program = "rewardPool" => Funding!Init

DistributorStep ==
    program = "distributor" /\ Airdrop!Next /\ UNCHANGED <<program, paidFor>>

LaunchpadStep ==
    program = "launchpad" /\ Pads!Next /\ UNCHANGED <<program, epoch, drop>>

FundingStep ==
    program = "rewardPool" /\ Funding!Next /\ UNCHANGED <<program, epoch, drop, paidFor>>

Next == DistributorStep \/ LaunchpadStep \/ FundingStep

Spec == Init /\ [][Next]_vars

-----------------------------------------------------------------------------
(* No account is overdrawn, and what a transaction needs first (a token    *)
(* account, wrapped SOL, a memo) comes before what it is for.              *)
TypeOK ==
    /\ now \in 1..MaxTime /\ disturbed \in BOOLEAN
    /\ \A a \in DOMAIN tokens : tokens[a] \in Nat
    /\ call.stage \in {"idle", "reading", "built"}
    /\ call.stage = "built" =>
         /\ call.ixs # <<>>
         /\ Last(call.ixs).op \notin {"createAta", "wrap", "memo"}

-----------------------------------------------------------------------------
(* The properties of the clients, see their modules: what the clients of   *)
(* the distributor, the launchpad and the reward pool build is accepted;   *)
(* a claim takes all there is and the airdrop can pay it; a deposit and    *)
(* its allocation belong to the owner they are for.                        *)
AirdropCallsSucceed == program = "distributor" => Airdrop!AirdropCallsSucceed
ClaimTakesAll == program = "distributor" => Airdrop!ClaimTakesAll
VaultCoversClaims == program = "distributor" => Airdrop!VaultCoversClaims
LaunchpadCallsSucceed == program = "launchpad" => Pads!LaunchpadCallsSucceed
CreditedToOwner == program = "launchpad" => Pads!CreditedToOwner
FundingSucceeds == program = "rewardPool" => Funding!FundingSucceeds

(* searchDistributors and searchLaunchpads: an account is found by what it *)
(* holds.  The search by quote mint is a property of its own.              *)
Contents(prefix) == {accounts[a] : a \in {b \in DOMAIN accounts : b[1] = prefix}}

SearchesFind ==
    /\ SearchFinds(Contents("MerkleDistributor"), MerkleDistributorLayout,
                   DistributorOffsets, {"mint", "admin"})
    /\ SearchFinds(Contents("launchpad"), LaunchpadLayout, LaunchpadOffsets, {"baseMint"})

(* launchpad/README.md:57: a launchpad can be searched by either mint.  It *)
(* cannot: at the offset of quoteMint the middle of baseMint is compared.  *)
QuoteMintSearchFinds ==
    SearchFinds(Contents("launchpad"), LaunchpadLayout, LaunchpadOffsets,
                {"baseMint", "quoteMint"})
=============================================================================
