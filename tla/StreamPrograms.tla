--------------------------- MODULE StreamPrograms ---------------------------
(***************************************************************************)
(* The instructions of the stream program and of the aligned unlocks       *)
(* program.  Instructions of the stream program are written by hand: the   *)
(* client lists its accounts (instructions.ts) and the program reads them  *)
(* by position (the names of timelockIDL.ts).  Those of the aligned        *)
(* program are completed from its descriptor.  The fee oracle, programs and *)
(* sysvars, which come last, are left out.                                 *)
(***************************************************************************)
EXTENDS AnchorAccounts

(* instructions.ts: the keys of each instruction, in order.                *)
CreateKeys(a) ==
    << a.sender, a.senderTokens, a.recipient, a.metadata, a.escrowTokens,
       a.recipientTokens, a.streamflowTreasury, a.streamflowTreasuryTokens,
       a.withdrawor, a.partner, a.partnerTokens, a.mint >>

CreateUncheckedKeys(a) ==
    << a.sender, a.senderTokens, a.metadata, a.escrowTokens, a.withdrawor, a.mint >>

WithdrawKeysSwapped(a) ==
    << a.authority, a.recipientTokens, a.recipient, a.metadata, a.escrowTokens,
       a.streamflowTreasury, a.streamflowTreasuryTokens, a.partner,
       a.partnerTokens, a.mint >>

WithdrawKeys(a) ==
    << a.authority, a.recipient, a.recipientTokens, a.metadata, a.escrowTokens,
       a.streamflowTreasury, a.streamflowTreasuryTokens, a.partner,
       a.partnerTokens, a.mint >>

CancelKeys(a) ==
    << a.authority, a.sender, a.senderTokens, a.recipient, a.recipientTokens,
       a.metadata, a.escrowTokens, a.streamflowTreasury,
       a.streamflowTreasuryTokens, a.partner, a.partnerTokens, a.mint >>

TransferKeys(a) ==
    << a.authority, a.newRecipient, a.newRecipientTokens, a.metadata, a.mint >>

TopupKeys(a) ==
    << a.sender, a.senderTokens, a.metadata, a.escrowTokens, a.streamflowTreasury,
       a.streamflowTreasuryTokens, a.withdrawor, a.partner, a.partnerTokens, a.mint >>

UpdateKeys(a) == << a.authority, a.metadata, a.withdrawor >>

(* timelockIDL.ts: the names by which the program reads them.  It has no   *)
(* entries for createUnchecked and update.                                 *)
CreateNames ==
    << "sender", "senderTokens", "recipient", "metadata", "escrowTokens",
       "recipientTokens", "streamflowTreasury", "streamflowTreasuryTokens",
       "withdrawor", "partner", "partnerTokens", "mint" >>

CreateUncheckedNames ==
    << "sender", "senderTokens", "metadata", "escrowTokens", "withdrawor", "mint" >>

WithdrawNames ==
    << "authority", "recipient", "recipientTokens", "metadata", "escrowTokens",
       "streamflowTreasury", "streamflowTreasuryTokens", "partner",
       "partnerTokens", "mint" >>

CancelNames ==
    << "authority", "sender", "senderTokens", "recipient", "recipientTokens",
       "metadata", "escrowTokens", "streamflowTreasury",
       "streamflowTreasuryTokens", "partner", "partnerTokens", "mint" >>

TransferNames == << "authority", "newRecipient", "newRecipientTokens", "metadata", "mint" >>

TopupNames ==
    << "sender", "senderTokens", "metadata", "escrowTokens", "streamflowTreasury",
       "streamflowTreasuryTokens", "withdrawor", "partner", "partnerTokens", "mint" >>

UpdateNames == << "authority", "metadata", "withdrawor" >>

-----------------------------------------------------------------------------
(* streamLayout: the fields of a stream account and their sizes, and the   *)
(* field that a search by offset compares.                                 *)
StreamLayout ==
    << <<"magic", 8>>, <<"version", 1>>, <<"createdAt", 8>>, <<"withdrawn", 8>>,
       <<"canceledAt", 8>>, <<"end", 8>>, <<"lastWithdrawnAt", 8>>,
       <<"sender", 32>>, <<"senderTokens", 32>>, <<"recipient", 32>>,
       <<"recipientTokens", 32>>, <<"mint", 32>>, <<"escrowTokens", 32>>,
       <<"streamflowTreasury", 32>>, <<"streamflowTreasuryTokens", 32>>,
       <<"streamflowFee", 20>>, <<"partner", 32>>, <<"partnerTokens", 32>>,
       <<"partnerFee", 20>>, <<"start", 8>>, <<"deposited", 8>>, <<"period", 8>>,
       <<"amountPerPeriod", 8>>, <<"cliff", 8>>, <<"cliffAmount", 8>>,
       <<"flags", 6>>, <<"name", 64>>, <<"withdrawFrequency", 8>>, <<"ghost", 4>>,
       <<"pausable", 1>>, <<"canUpdateRate", 1>>, <<"padding", 130>>, <<"closed", 1>> >>

StartOf[i \in 1..Len(StreamLayout)] ==
    IF i = 1 THEN 0 ELSE StartOf[i - 1] + StreamLayout[i - 1][2]

FieldAt(offset) ==
    StreamLayout[CHOOSE i \in DOMAIN StreamLayout : StartOf[i] = offset][1]

OffsetSender == 49
OffsetRecipient == 113

-----------------------------------------------------------------------------
(* streamflow_aligned_unlocks.ts *)
ProxySeeds == Seeds("contract", <<"streamMetadata">>)

AlignedCreateIx ==
    [payer           |-> Signer,
     sender          |-> Signer,
     senderTokens    |-> TokensOf("sender"),
     recipient       |-> Named,
     recipientTokens |-> TokensOf("recipient"),
     proxyMetadata   |-> ProxySeeds,
     proxyTokens     |-> TokensOf("proxyMetadata"),
     streamMetadata  |-> Named,
     escrowTokens    |-> Named,
     withdrawor      |-> Named,
     partner         |-> Named,
     mint            |-> Named,
     feeOracle       |-> Named,
     priceOracle     |-> Named]

AlignedCancelIx ==
    [sender                   |-> Signer,
     senderTokens             |-> TokensOf("sender"),
     recipient                |-> Named,
     recipientTokens          |-> TokensOf("recipient"),
     proxyMetadata            |-> ProxySeeds,
     proxyTokens              |-> TokensOf("proxyMetadata"),
     streamMetadata           |-> Named,
     escrowTokens             |-> Named,
     streamflowTreasury       |-> Named,
     streamflowTreasuryTokens |-> TokensOf("streamflowTreasury"),
     partner                  |-> Named,
     partnerTokens            |-> TokensOf("partner"),
     mint                     |-> Named]

(* updateAmount, which the client does not call.                           *)
AlignedUpdateIx ==
    [authority      |-> Signer,
     proxyMetadata  |-> ProxySeeds,
     streamMetadata |-> Named,
     withdrawor     |-> Named,
     priceOracle    |-> FieldOf({"proxyMetadata"})]
=============================================================================
