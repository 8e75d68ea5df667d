---------------------------- MODULE StreamChain ----------------------------
(***************************************************************************)
(* The stream program and the aligned unlocks program, as the clients see  *)
(* them.  They are not part of the repository: they take their accounts by *)
(* the names of the descriptors, refuse those that disagree with the       *)
(* stream, and count what is unlocked one period after the other.  A       *)
(* transaction is a list of instructions: all of them take effect or none. *)
(***************************************************************************)
EXTENDS StreamPrograms, UnlockSchedule, SequencesExt

CONSTANT MaxTime \* bound of the clock

ASSUME ChainAssumption == MaxTime \in Nat \ {0}

Treasury == <<"treasury">>
Withdrawor == <<"withdrawor">>
Mint == <<"mint">>

VARIABLES
    now,
    streams, \* metadata account -> contents
    proxies, \* address -> contents of an aligned contract
    tokens   \* the associated token accounts that exist

Tokens(owner) == TokenAccount(Mint, owner)

IsAlignedByEscrow(id, sender) == sender = EscrowPDA(id)
IsAlignedUnlock(id, sender) == sender = ContractPDA(id)

-----------------------------------------------------------------------------
(* Instructions, as the programs execute them.  A transaction starts with  *)
(* no wrapped tokens; what it spends of the native token it must wrap.     *)
Chain == [ok |-> TRUE, streams |-> streams, proxies |-> proxies, tokens |-> tokens,
          wrapped |-> 0, allocated |-> {}]

CreateAta(owner) == [op |-> "createAta", owner |-> owner]

EndOf(since, saved, deposited, rate, period) ==
    since + ((deposited - saved + rate - 1) \div rate) * period

(* A new stream; accrued and nextUnlock are the accounts of the program.   *)
NewStream(a, shape, recipient, partner) ==
    Merged(shape,
    [sender |-> a.sender, senderTokens |-> a.senderTokens,
     recipient |-> recipient, recipientTokens |-> Tokens(recipient),
     mint |-> a.mint, escrowTokens |-> a.escrowTokens,
     streamflowTreasury |-> Treasury, partner |-> partner,
     end |-> EndOf(shape.cliff, shape.cliffAmount, shape.deposited,
                   shape.amountPerPeriod, shape.period),
     canceledAt |-> 0, withdrawn |-> 0,
     lastRateChangeTime |-> 0, fundsUnlockedAtLastRateChange |-> 0,
     accrued |-> IF now >= shape.cliff THEN shape.cliffAmount ELSE 0,
     nextUnlock |-> shape.cliff + IF now >= shape.cliff THEN shape.period ELSE 0])

NewProxy(a, prices) ==
    Merged(prices, [sender |-> a.sender, stream |-> a.streamMetadata,
                    priceOracle |-> a.priceOracle, streamCanceledTime |-> 0])

(* The stream an instruction names, with the accounts it names.            *)
Names(c, a, metadata, fields) ==
    /\ metadata \in DOMAIN c.streams
    /\ c.streams[metadata].canceledAt = 0
    /\ \A f \in fields : a[f] = c.streams[metadata][f]

FeeTokensExist(c, a) ==
    /\ a.streamflowTreasury = Treasury
    /\ a.streamflowTreasuryTokens = Tokens(Treasury)
    /\ a.partnerTokens = Tokens(a.partner)
    /\ {a.streamflowTreasuryTokens, a.partnerTokens} \subseteq c.tokens

(* Program conditions of each instruction.                                 *)
Allowed(c, ix, invoker) ==
    CASE ix.op = "createAta" -> Tokens(ix.owner) \notin c.tokens
      [] ix.op = "wrap" -> Tokens(ix.owner) \in c.tokens
      [] ix.op = "createAccount" -> ix.id \notin DOMAIN c.streams \cup c.allocated
      [] ix.op = "create" ->
           LET a == ix.accounts IN
           /\ a.sender = invoker /\ a.senderTokens = Tokens(a.sender)
           /\ a.senderTokens \in c.tokens
           /\ a.recipientTokens = Tokens(a.recipient)
           /\ a.escrowTokens = EscrowPDA(a.metadata)
           /\ a.metadata \notin DOMAIN c.streams
           /\ FeeTokensExist(c, a)
           /\ c.wrapped >= ix.data.spends
      [] ix.op = "createUnchecked" ->
           LET a == ix.accounts IN
           /\ a.sender = invoker /\ a.senderTokens = Tokens(a.sender)
           /\ a.senderTokens \in c.tokens
           /\ a.escrowTokens = EscrowPDA(a.metadata)
           /\ a.metadata \in c.allocated
           /\ c.wrapped >= ix.data.spends
      [] ix.op = "createAligned" ->
           LET a == ix.accounts IN
           /\ Accepts(AlignedCreateIx, a, <<>>, <<>>, invoker)
           /\ {a.senderTokens, a.recipientTokens} \subseteq c.tokens
           /\ a.escrowTokens = EscrowPDA(a.streamMetadata)
           /\ a.streamMetadata \notin DOMAIN c.streams
      [] ix.op = "withdraw" ->
           LET a == ix.accounts IN
           /\ a.authority = invoker
           /\ Names(c, a, a.metadata, {"recipient", "recipientTokens", "escrowTokens", "partner", "mint"})
           /\ a.recipientTokens \in c.tokens /\ FeeTokensExist(c, a)
      [] ix.op = "cancel" ->
           LET a == ix.accounts IN
           /\ a.authority = invoker
           /\ Names(c, a, a.metadata, {"sender", "senderTokens", "recipient", "recipientTokens",
                                       "escrowTokens", "partner", "mint"})
           /\ \/ invoker = a.sender /\ c.streams[a.metadata].cancelableBySender
              \/ invoker = a.recipient /\ c.streams[a.metadata].cancelableByRecipient
           /\ {a.senderTokens, a.recipientTokens} \subseteq c.tokens
           /\ FeeTokensExist(c, a)
      [] ix.op = "cancelAligned" ->
           LET a == ix.accounts IN
           /\ Accepts(AlignedCancelIx, a, <<>>, <<>>, invoker)
           /\ Names(c, a, a.streamMetadata, {"recipient", "escrowTokens", "partner", "mint"})
           /\ a.proxyMetadata \in DOMAIN c.proxies
           /\ c.proxies[a.proxyMetadata].sender = a.sender
           /\ c.streams[a.streamMetadata].cancelableBySender
           /\ {a.senderTokens, a.recipientTokens, a.proxyTokens} \subseteq c.tokens
           /\ FeeTokensExist(c, a)
      [] ix.op = "transfer" ->
           LET a == ix.accounts IN
           /\ a.authority = invoker
           /\ Names(c, a, a.metadata, {"mint"})
           /\ \/ invoker = c.streams[a.metadata].sender
                    /\ c.streams[a.metadata].transferableBySender
              \/ invoker = c.streams[a.metadata].recipient
                    /\ c.streams[a.metadata].transferableByRecipient
           /\ a.newRecipientTokens = Tokens(a.newRecipient)
      [] ix.op = "topup" ->
           LET a == ix.accounts IN
           /\ a.sender = invoker
           /\ Names(c, a, a.metadata, {"sender", "senderTokens", "escrowTokens", "partner", "mint"})
           /\ c.streams[a.metadata].canTopup /\ now <= c.streams[a.metadata].end
           /\ a.senderTokens \in c.tokens /\ FeeTokensExist(c, a)
           /\ c.wrapped >= ix.data.spends
      [] ix.op = "update" ->
           LET a == ix.accounts IN
           /\ a.authority = invoker
           /\ Names(c, a, a.metadata, {}) /\ c.streams[a.metadata].sender = invoker
           /\ ix.data.amountPerPeriod > 0 =>
                /\ c.streams[a.metadata].canUpdateRate
                /\ now \in c.streams[a.metadata].cliff..c.streams[a.metadata].end

(* The rate of a stream from now on, by the program.                       *)
WithRate(s, rate) ==
    LET saved == Least(s.accrued, s.deposited) IN
    [s EXCEPT !.amountPerPeriod = rate, !.lastRateChangeTime = now,
              !.fundsUnlockedAtLastRateChange = saved, !.accrued = saved,
              !.nextUnlock = now + s.period,
              !.end = EndOf(now, saved, s.deposited, rate, s.period)]

(* A second passes: the cliff and every period unlock once.                *)
Passed(s, t) ==
    CASE t > s.end -> [s EXCEPT !.accrued = s.deposited]
      [] t <= s.end /\ t = s.cliff /\ s.accrued = 0 ->
           [s EXCEPT !.accrued = s.cliffAmount, !.nextUnlock = t + s.period]
      [] t <= s.end /\ t > s.cliff /\ t = s.nextUnlock ->
           [s EXCEPT !.accrued = @ + s.amountPerPeriod, !.nextUnlock = t + s.period]
      [] OTHER -> s

WithDeposit(s, amount) ==
    LET since == IF s.lastRateChangeTime = 0 THEN s.cliff ELSE s.lastRateChangeTime
        saved == IF s.lastRateChangeTime = 0 THEN s.cliffAmount
                 ELSE s.fundsUnlockedAtLastRateChange
    IN  [s EXCEPT !.deposited = @ + amount,
                  !.end = EndOf(since, saved, s.deposited + amount, s.amountPerPeriod, s.period)]

WithFlag(s, automatic) == IF automatic THEN [s EXCEPT !.automaticWithdrawal = TRUE] ELSE s

Changed(c, ix) ==
    CASE ix.op = "createAta" -> [c EXCEPT !.tokens = @ \cup {Tokens(ix.owner)}]
      [] ix.op = "wrap" -> [c EXCEPT !.wrapped = @ + ix.amount]
      [] ix.op = "createAccount" -> [c EXCEPT !.allocated = @ \cup {ix.id}]
      [] ix.op = "create" ->
           [c EXCEPT !.streams = Stored(@, ix.accounts.metadata,
                          NewStream(ix.accounts, ix.data.shape, ix.accounts.recipient, ix.accounts.partner)),
                     !.tokens = @ \cup {ix.accounts.recipientTokens}]
      [] ix.op = "createUnchecked" ->
           [c EXCEPT !.streams = Stored(@, ix.accounts.metadata,
                          NewStream(ix.accounts, ix.data.shape, ix.data.recipient, ix.data.partner))]
      [] ix.op = "createAligned" ->
           LET a == ix.accounts
               proxied == [a EXCEPT !.sender = a.proxyMetadata, !.senderTokens = a.proxyTokens]
           IN  [c EXCEPT
                  !.streams = Stored(@, a.streamMetadata,
                                     [NewStream(proxied, ix.data.shape, a.recipient, a.partner)
                                        EXCEPT !.end = MaxSafeTime + 1]),
                  !.proxies = Stored(@, a.proxyMetadata, NewProxy(a, ix.data.prices)),
                  !.tokens = @ \cup {a.proxyTokens}]
      [] ix.op = "withdraw" ->
           [c EXCEPT !.streams[ix.accounts.metadata].withdrawn =
                          Least(c.streams[ix.accounts.metadata].accrued,
                                c.streams[ix.accounts.metadata].deposited)]
      [] ix.op = "cancel" -> [c EXCEPT !.streams[ix.accounts.metadata].canceledAt = now]
      [] ix.op = "cancelAligned" ->
           [c EXCEPT !.streams[ix.accounts.streamMetadata].canceledAt = now,
                     !.proxies[ix.accounts.proxyMetadata].streamCanceledTime = now]
      [] ix.op = "transfer" ->
           [c EXCEPT !.streams[ix.accounts.metadata].recipient = ix.accounts.newRecipient,
                     !.streams[ix.accounts.metadata].recipientTokens = ix.accounts.newRecipientTokens,
                     !.tokens = @ \cup {ix.accounts.newRecipientTokens}]
      [] ix.op = "topup" ->
           [c EXCEPT !.streams[ix.accounts.metadata] = WithDeposit(@, ix.data.amount)]
      [] ix.op = "update" ->
           [c EXCEPT !.streams[ix.accounts.metadata] =
                WithFlag(IF ix.data.amountPerPeriod > 0 THEN WithRate(@, ix.data.amountPerPeriod)
                         ELSE @, ix.data.automatic)]

Executed(c, ix, invoker) ==
    IF c.ok /\ Allowed(c, ix, invoker) THEN Changed(c, ix) ELSE [c EXCEPT !.ok = FALSE]

Run(ixs, invoker) == FoldLeft(LAMBDA c, ix : Executed(c, ix, invoker), Chain, ixs)
=============================================================================
