------------------------- MODULE LaunchpadPrograms -------------------------
(***************************************************************************)
(* The instructions of the launchpad program, as its descriptor lists      *)
(* their accounts, and the addresses that lib/derive-accounts.ts of the    *)
(* launchpad derives.  A definition that nothing uses is a plausible slip  *)
(* in the definition that follows it.                                      *)
(***************************************************************************)
EXTENDS AnchorAccounts

LaunchpadPDA(baseMint, nonce) == <<"launchpad", baseMint, nonce>>

DepositByOwner(launchpad, owner) == <<"deposit", owner, launchpad>>

DepositPDA(launchpad, owner) == <<"deposit", launchpad, owner>>
VaultPDA(launchpad) == <<"vault", launchpad>>

(* streamflow_launchpad.ts *)
CreateLaunchpadIx ==
    [launchpad   |-> Seeds("launchpad", <<"baseMint", "nonce">>),
     vault       |-> Seeds("vault", <<"launchpad">>),
     baseMint    |-> Named,
     quoteMint   |-> Named,
     priceOracle |-> Named,
     authority   |-> Signer,
     receiver    |-> Named]

DepositIx ==
    [launchpad      |-> Named,
     depositAccount |-> Seeds("deposit", <<"launchpad", "owner">>),
     from           |-> Named,
     vault          |-> FieldOf({"launchpad"}),
     payer          |-> Signer,
     owner          |-> Named,
     baseMint       |-> FieldOf({"launchpad"}),
     quoteMint      |-> FieldOf({"launchpad"})]

ClaimDepositsIx ==
    [launchpad |-> Named,
     receiver  |-> FieldOf({"launchpad"}),
     vault     |-> FieldOf({"launchpad"}),
     authority |-> Signer,
     quoteMint |-> FieldOf({"launchpad"})]

(* The key of the stream signs too: the client creates it.                 *)
ClaimAllocatedVestedIx ==
    [launchpad      |-> FieldOf({"depositAccount"}),
     depositAccount |-> Named,
     from           |-> Seeds("ata", <<"launchpad", "baseMint">>),
     to             |-> Seeds("ata", <<"owner", "baseMint">>),
     payer          |-> Signer,
     owner          |-> FieldOf({"depositAccount"}),
     baseMint       |-> FieldOf({"launchpad"}),
     priceOracle    |-> FieldOf({"launchpad"}),
     authority      |-> FieldOf({"launchpad"}),
     proxyMetadata  |-> Seeds("contract", <<"streamMetadata">>),
     proxyTokens    |-> Seeds("ata", <<"proxyMetadata", "baseMint">>),
     streamMetadata |-> Named,
     escrowTokens   |-> Seeds("strm", <<"streamMetadata">>)]
=============================================================================
