------------------------ MODULE DistributorPrograms ------------------------
(***************************************************************************)
(* The instructions of the distributor program and of the aligned          *)
(* distributor program.  Those of the distributor program are generated:   *)
(* the client lists the keys of each instruction (distributor/solana/      *)
(* generated/instructions) and the program reads them by position, in the  *)
(* order of the generated interfaces.  Those of the aligned program are    *)
(* completed from its descriptor.  Programs, the event authority and the   *)
(* unchecked withdrawor, which come last or have a fixed address, are left *)
(* out.  A definition that nothing uses is a plausible slip in the         *)
(* definition that follows it.                                             *)
(***************************************************************************)
EXTENDS AnchorAccounts

(* utils.ts                                                                *)
DistributorPDA(mint, version) == <<"MerkleDistributor", mint, version>>

ClaimStatusPDA(distributor, claimant) == <<"ClaimStatus", claimant, distributor>>
AlignedDistributorPDA(distributor) == <<"aligned-distributor", distributor>>

-----------------------------------------------------------------------------
(* generated/instructions: the keys, and the names of the interfaces.      *)
NewDistributorKeys(a) ==
    << a.distributor, a.clawbackReceiver, a.mint, a.tokenVault, a.admin >>

NewClaimKeys(a) == << a.distributor, a.claimStatus, a.from, a.to, a.claimant, a.mint >>

ClaimLockedKeys(a) == << a.distributor, a.claimStatus, a.from, a.to, a.claimant, a.mint >>

CloseClaimKeysByName(a) == << a.distributor, a.adminOrClaimant, a.claimStatus, a.claimant >>

CloseClaimKeys(a) == << a.distributor, a.adminOrClaimant, a.claimant, a.claimStatus >>

ClawbackKeys(a) == << a.distributor, a.from, a.to, a.admin, a.mint >>

NewDistributorNames == << "distributor", "clawbackReceiver", "mint", "tokenVault", "admin" >>
NewClaimNames == << "distributor", "claimStatus", "from", "to", "claimant", "mint" >>
ClaimLockedNames == << "distributor", "claimStatus", "from", "to", "claimant", "mint" >>
CloseClaimNames == << "distributor", "adminOrClaimant", "claimant", "claimStatus" >>
ClawbackNames == << "distributor", "from", "to", "admin", "mint" >>

(* What the program requires of them.                                      *)
NewDistributorIx ==
    [distributor      |-> Seeds("MerkleDistributor", <<"mint", "version">>),
     clawbackReceiver |-> Named,
     mint             |-> Named,
     tokenVault       |-> TokensOf("distributor"),
     admin            |-> Signer]

ClaimIx ==
    [distributor |-> Named,
     claimStatus |-> Seeds("ClaimStatus", <<"claimant", "distributor">>),
     from        |-> TokensOf("distributor"),
     to          |-> TokensOf("claimant"),
     claimant    |-> Signer,
     mint        |-> FieldOf({"distributor"})]

CloseClaimIx ==
    [distributor     |-> Named,
     adminOrClaimant |-> Signer,
     claimant        |-> Named,
     claimStatus     |-> Seeds("ClaimStatus", <<"claimant", "distributor">>)]

ClawbackIx ==
    [distributor |-> Named,
     from        |-> TokensOf("distributor"),
     to          |-> Named,
     admin       |-> SignerOf({"distributor"}),
     mint        |-> FieldOf({"distributor"})]

-----------------------------------------------------------------------------
(* aligned_distributor.ts                                                  *)
AlignedNewDistributorIx ==
    [alignedDistributor |-> Seeds("aligned-distributor", <<"distributor">>),
     priceOracle        |-> Named,
     clawbackReceiver   |-> Named,
     mint               |-> Named,
     distributor        |-> Named,
     tokenVault         |-> Named,
     admin              |-> Signer]

AlignedClawbackIx ==
    [alignedDistributor |-> Seeds("aligned-distributor", <<"distributor">>),
     distributor        |-> Named,
     from               |-> Named,
     to                 |-> Named,
     admin              |-> Signer,
     mint               |-> Named]
=============================================================================
