------------------------------ MODULE Streams ------------------------------
(***************************************************************************)
(* The single operations and the queries of SolanaStreamClient             *)
(* (stream/solana/StreamClient.ts).  An operation reads the chain, builds  *)
(* a list of instructions and runs it as one transaction.  get reads the   *)
(* chain several times, with changes in between.  A definition that no     *)
(* other uses is a plausible slip in the definition that follows it.       *)
(***************************************************************************)
EXTENDS StreamChain

CONSTANTS
    Ids,         \* metadata accounts
    Senders, Recipients, Partners,
    Shapes,      \* the data of creations
    Prices,      \* the prices of aligned creations
    Rates,       \* new values of amountPerPeriod
    TopupAmount,
    MaxDeposit,  \* bound of the deposited amount
    Fee,         \* total fee, in units of 1/FeeScale
    Queries,     \* the arguments of get
    QueryTime    \* bound of the times at which get is called

ASSUME StreamsAssumption ==
    /\ Rates \subseteq Nat \ {0} /\ {TopupAmount, MaxDeposit, Fee} \subseteq Nat
    /\ Shapes \subseteq [cliff : Nat, cliffAmount : Nat, deposited : 0..MaxDeposit,
                        amountPerPeriod : Nat \ {0}, period : Nat \ {0},
                        canTopup : BOOLEAN, automaticWithdrawal : BOOLEAN, canUpdateRate : BOOLEAN,
                        cancelableBySender : BOOLEAN, cancelableByRecipient : BOOLEAN,
                        transferableBySender : BOOLEAN, transferableByRecipient : BOOLEAN]
    /\ \A shape \in Shapes : shape.cliffAmount <= shape.deposited
    /\ Prices \subseteq [minPrice : Nat, maxPrice : Nat, minPercentage : Nat, maxPercentage : Nat]
    /\ Queries \subseteq [address : Senders \cup Recipients,
                          type : {"all", "payment", "vesting", "lock"},
                          direction : {"all", "outgoing", "incoming"}]
    /\ \A id \in Ids : ContractPDA(id) \notin Senders \cup Recipients
    /\ Missing \notin Ids \cup Senders \cup Recipients \cup Partners
    /\ MaxTime <= MaxSafeTime

VARIABLE query   \* one call of get

vars == <<now, streams, proxies, tokens, query>>

-----------------------------------------------------------------------------
(* What the client shows of a stream.                                      *)
Contract(s) ==
    [sender |-> s.sender, recipient |-> s.recipient, type |-> StreamType(s, NoPrices)]

AlignedContract(s, proxy) ==
    [sender |-> proxy.sender, recipient |-> s.recipient, type |-> StreamType(s, proxy)]

(* getOne *)
View(ss, ps, id) ==
    IF IsAlignedUnlock(id, ss[id].sender)
    THEN AlignedContract(ss[id], ps[ContractPDA(id)])
    ELSE Contract(ss[id])

ShouldFetchAligned(q) == q.type \in {"all", "vesting"}

(* The streams a query asks for.  Aligned streams are only looked for in   *)
(* queries of all types or of vesting streams.                             *)
Asked(ss, ps, q) ==
    {id \in DOMAIN ss :
        LET v == View(ss, ps, id) IN
        /\ \/ q.direction # "incoming" /\ v.sender = q.address
           \/ q.direction # "outgoing" /\ v.recipient = q.address
        /\ q.type \in {"all", v.type}
        /\ IsAlignedUnlock(id, ss[id].sender) => ShouldFetchAligned(q)}

NoQuery == [active |-> FALSE]

(* A step of the chain during a query.                                     *)
Watched ==
    query' = IF ~query.active THEN query
             ELSE [query EXCEPT
                     !.always = @ \cap Asked(streams', proxies', query),
                     !.ever = @ \cup Asked(streams', proxies', query)]

-----------------------------------------------------------------------------
(* getCreateATAInstructions with checkTokenAccounts                        *)
Repeated(owners) == DOMAIN owners

Unique(owners) == {i \in DOMAIN owners : \A j \in DOMAIN owners : j < i => owners[j] # owners[i]}

EnsureAtas(owners) ==
    LET missing == SetToSeq({i \in Unique(owners) : Tokens(owners[i]) \notin tokens})
    IN  [k \in DOMAIN missing |-> CreateAta(owners[missing[k]])]

(* prepareWrappedAccount *)
Wrap(owner, amount) ==
    (IF Tokens(owner) \in tokens THEN <<>> ELSE <<CreateAta(owner)>>)
    \o << [op |-> "wrap", owner |-> owner, amount |-> amount] >>

WrapIf(isNative, owner, amount) == IF isNative THEN Wrap(owner, amount) ELSE <<>>

(* What the program takes of the native token for a deposit.               *)
Spends(isNative, deposited) ==
    IF isNative THEN deposited + (deposited * Fee) \div FeeScale ELSE 0

Prepare(op, names, keys, data) ==
    [op |-> op, accounts |-> AsRead(names, keys), data |-> data]

(* The accounts of a stream that most operations name.                     *)
FeeAccounts(partner) ==
    [streamflowTreasury |-> Treasury, streamflowTreasuryTokens |-> Tokens(Treasury),
     partner |-> partner, partnerTokens |-> Tokens(partner),
     mint |-> Mint, withdrawor |-> Withdrawor]

CreationAccounts(id, sender, recipient, partner) ==
    Merged(FeeAccounts(partner),
    [sender |-> sender, senderTokens |-> Tokens(sender),
     recipient |-> recipient, recipientTokens |-> Tokens(recipient),
     metadata |-> id, escrowTokens |-> EscrowPDA(id)])

(* create wraps after the creation.                                        *)
CreateIxs(id, sender, recipient, partner, shape, isNative) ==
    EnsureAtas(<<Treasury, partner>>)
    \o << Prepare("create", CreateNames, CreateKeys(CreationAccounts(id, sender, recipient, partner)),
                  [shape |-> shape, spends |-> Spends(isNative, shape.deposited)]) >>
    \o WrapIf(isNative, sender, TotalAmountToDeposit(shape.deposited, Fee))

CreateAlignedIxs(id, sender, recipient, partner, shape, prices) ==
    LET given == [payer |-> sender, sender |-> sender, streamMetadata |-> id,
                  escrowTokens |-> EscrowPDA(id), mint |-> Mint, partner |-> partner,
                  recipient |-> recipient, withdrawor |-> Withdrawor,
                  feeOracle |-> <<"fee oracle">>, priceOracle |-> TestOraclePDA(Mint, sender)]
    IN  EnsureAtas(<<Treasury, partner>>) \o EnsureAtas(<<recipient>>)
        \o << [op |-> "createAligned", data |-> [shape |-> shape, prices |-> prices],
               accounts |-> Completed(AlignedCreateIx, given, <<>>, <<>>)] >>

CreateUncheckedIxs(id, sender, recipient, partner, shape, isNative) ==
    WrapIf(isNative, sender, TotalAmountToDeposit(shape.deposited, Fee))
    \o << [op |-> "createAccount", id |-> id],
          Prepare("createUnchecked", CreateUncheckedNames,
                  CreateUncheckedKeys(CreationAccounts(id, sender, recipient, partner)),
                  [shape |-> shape, spends |-> Spends(isNative, shape.deposited),
                   recipient |-> recipient, partner |-> partner]) >>

WithdrawIxs(id, invoker) ==
    LET s == streams[id] IN
    EnsureAtas(<<s.sender, s.recipient, s.streamflowTreasury, s.partner>>)
    \o << Prepare("withdraw", WithdrawNames, WithdrawKeys(Merged(FeeAccounts(s.partner),
            [authority |-> invoker, recipient |-> invoker, metadata |-> id,
             recipientTokens |-> s.recipientTokens, escrowTokens |-> s.escrowTokens])), {}) >>

CancelStreamIxs(id, invoker) ==
    LET s == streams[id] IN
    EnsureAtas(<<s.sender, s.recipient, s.partner, s.streamflowTreasury>>)
    \o << Prepare("cancel", CancelNames, CancelKeys(Merged(FeeAccounts(s.partner),
            [authority |-> invoker, sender |-> s.sender, senderTokens |-> s.senderTokens,
             recipient |-> s.recipient, recipientTokens |-> s.recipientTokens,
             metadata |-> id, escrowTokens |-> s.escrowTokens])), {}) >>

CancelAlignedIxs(id, invoker) ==
    LET s == streams[id]
        given == [mint |-> s.mint, partner |-> s.partner, recipient |-> s.recipient,
                  escrowTokens |-> s.escrowTokens, sender |-> invoker, streamMetadata |-> id,
                  streamflowTreasury |-> Treasury]
    IN  EnsureAtas(<<s.sender, s.recipient, s.partner, s.streamflowTreasury>>)
        \o << [op |-> "cancelAligned",
               accounts |-> Completed(AlignedCancelIx, given, <<>>, <<>>)] >>

CancelIxs(id, invoker) ==
    IF IsAlignedUnlock(id, streams[id].sender) THEN CancelAlignedIxs(id, invoker)
    ELSE CancelStreamIxs(id, invoker)

TransferIxs(id, newRecipient, invoker) ==
    << Prepare("transfer", TransferNames, TransferKeys(
         [authority |-> invoker, newRecipient |-> newRecipient,
          newRecipientTokens |-> Tokens(newRecipient), metadata |-> id,
          mint |-> streams[id].mint]), {}) >>

(* topup wraps the amount without fees.  How much the program takes of a   *)
(* native top-up is not in the repository: the model lets it take that.    *)
TopupIxs(id, invoker, isNative) ==
    LET s == streams[id] IN
    WrapIf(isNative, invoker, TopupAmount)
    \o << Prepare("topup", TopupNames, TopupKeys(Merged(FeeAccounts(s.partner),
            [sender |-> invoker, senderTokens |-> s.senderTokens, metadata |-> id,
             escrowTokens |-> s.escrowTokens])),
            [amount |-> TopupAmount, spends |-> IF isNative THEN TopupAmount ELSE 0]) >>

(* encodeUpdateStream leaves out what is false or 0.                       *)
UpdateIxs(id, invoker, automatic, rate) ==
    << Prepare("update", UpdateNames, UpdateKeys(
         [authority |-> invoker, metadata |-> id, withdrawor |-> Withdrawor]),
         [automatic |-> automatic, amountPerPeriod |-> rate]) >>
-----------------------------------------------------------------------------
(* The actions of the chain.                                               *)
Land(ixs, invoker) ==
    LET c == Run(ixs, invoker) IN
    /\ c.ok
    /\ streams' = c.streams /\ proxies' = c.proxies /\ tokens' = c.tokens
    /\ UNCHANGED now
    /\ Watched

FutureShapes == {shape \in Shapes : now <= shape.cliff}

Create(id) ==
    /\ id \notin DOMAIN streams
    /\ \E sender \in Senders, recipient \in Recipients, partner \in Partners, shape \in FutureShapes :
         \/ Land(CreateIxs(id, sender, recipient, partner, shape, FALSE), sender)
         \/ Land(CreateUncheckedIxs(id, sender, recipient, partner, shape, FALSE), sender)
         \/ \E prices \in Prices :
              Land(CreateAlignedIxs(id, sender, recipient, partner, shape, prices), sender)

Withdraw(id) == \E i \in Recipients : Land(WithdrawIxs(id, i), i)
Cancel(id) == \E i \in Senders \cup Recipients : Land(CancelIxs(id, i), i)
Transfer(id) ==
    \E i \in Senders \cup Recipients, r \in Recipients : Land(TransferIxs(id, r, i), i)
Topup(id) ==
    /\ streams[id].deposited + TopupAmount <= MaxDeposit
    /\ \E i \in Senders : Land(TopupIxs(id, i, FALSE), i)
Update(id) ==
    \E i \in Senders, automatic \in BOOLEAN, rate \in Rates \cup {0} :
        Land(UpdateIxs(id, i, automatic, rate), i)

(* updateAmount of the aligned program, when the price has moved.          *)
AlignedUpdate(id) ==
    \E rate \in Rates :
        /\ IsAlignedUnlock(id, streams[id].sender) /\ streams[id].canceledAt = 0
        /\ now >= streams[id].cliff
        /\ LET given == [authority |-> Withdrawor, streamMetadata |-> id,
                          withdrawor |-> Withdrawor]
               addr == Completed(AlignedUpdateIx, given, <<>>, proxies)
           IN  Accepts(AlignedUpdateIx, addr, <<>>, proxies, Withdrawor)
        /\ streams' = [streams EXCEPT ![id] = [WithRate(@, rate) EXCEPT !.end = MaxSafeTime + 1]]
        /\ UNCHANGED <<now, proxies, tokens>>
        /\ Watched

(* An owner closes an empty token account.  Neither this nor the passing   *)
(* of time changes what a query looks for: both wait for its end.          *)
CloseAccount ==
    /\ ~query.active
    /\ \E o \in Recipients : Tokens(o) \in tokens /\ tokens' = tokens \ {Tokens(o)}
    /\ UNCHANGED <<now, streams, proxies, query>>

Tick ==
    /\ ~query.active /\ now < MaxTime
    /\ now' = now + 1
    /\ streams' = [id \in DOMAIN streams |-> Passed(streams[id], now')]
    /\ UNCHANGED <<proxies, tokens, query>>

-----------------------------------------------------------------------------
(* get, one action per answer of a node; todo names the reads to come.     *)
Reads(q) ==
    LET fetched(r) == IF ShouldFetchAligned(q) THEN r ELSE <<>> IN
    (IF q.direction # "incoming" THEN <<"outgoing">> \o fetched(<<"proxies", "aligned">>)
     ELSE <<>>)
    \o (IF q.direction # "outgoing" THEN <<"incoming">> \o fetched(<<"incoming proxies">>)
        ELSE <<>>)

Get ==
    /\ ~query.active /\ now = QueryTime
    /\ \E q \in Queries :
         query' = Merged(q, [active |-> TRUE, todo |-> Reads(q), found |-> <<>>,
                             decoded |-> <<>>,
                             always |-> Asked(streams, proxies, q),
                             ever |-> Asked(streams, proxies, q)])
    /\ UNCHANGED <<now, streams, proxies, tokens>>

Answered(read, q) ==
    /\ query.active /\ query.todo # <<>> /\ Head(query.todo) = read
    /\ query' = [q EXCEPT !.todo = Tail(@)]
    /\ UNCHANGED <<now, streams, proxies, tokens>>

(* getProgramAccounts with a filter on the bytes at an offset.             *)
WithAddress(offset) ==
    {id \in DOMAIN streams : streams[id][FieldAt(offset)] = query.address}

ReadOutgoing ==
    Answered("outgoing",
        [query EXCEPT !.found = [id \in WithAddress(OffsetSender) |-> Contract(streams[id])]])

(* getOutgoingAlignedStreams reads the proxies, then their streams.        *)
ReadProxies ==
    LET own == {p \in DOMAIN proxies : proxies[p].sender = query.address} IN
    Answered("proxies",
        [query EXCEPT !.decoded = [id \in {proxies[p].stream : p \in own} |-> proxies[ContractPDA(id)]]])

ReadAligned ==
    Answered("aligned",
        [query EXCEPT
            !.found = Merged([id \in DOMAIN query.decoded \cap DOMAIN streams |->
                                 AlignedContract(streams[id], query.decoded[id])], @),
            !.decoded = <<>>])

(* Incoming aligned streams wait for their proxies.                        *)
IncomingAsPlain(incoming) ==
    [query EXCEPT !.found = Merged([id \in incoming |-> Contract(streams[id])], @)]

Incoming(incoming) ==
    LET aligned == {id \in incoming : IsAlignedUnlock(id, streams[id].sender)} IN
    [query EXCEPT
        !.found = Merged([id \in incoming \ aligned |-> Contract(streams[id])], @),
        !.decoded = [id \in aligned |-> streams[id]]]

ReadIncoming == Answered("incoming", Incoming(WithAddress(OffsetRecipient)))

(* getIncomingAlignedStreams *)
ReadIncomingProxies ==
    LET read == {id \in DOMAIN query.decoded : ContractPDA(id) \in DOMAIN proxies} IN
    Answered("incoming proxies",
        [query EXCEPT
            !.found = Merged([id \in read |->
                                 AlignedContract(query.decoded[id], proxies[ContractPDA(id)])], @),
            !.decoded = <<>>])

Returned == query.active /\ query.todo = <<>>
Result == {id \in DOMAIN query.found : query.type \in {"all", query.found[id].type}}

Return ==
    /\ Returned
    /\ query' = NoQuery
    /\ UNCHANGED <<now, streams, proxies, tokens>>

-----------------------------------------------------------------------------
Init ==
    /\ now = 1
    /\ streams = <<>> /\ proxies = <<>>
    /\ tokens = {Tokens(s) : s \in Senders}
    /\ query = NoQuery

Operate ==
    \/ \E id \in Ids : Create(id)
    \/ \E id \in DOMAIN streams :
          \/ Withdraw(id) \/ Cancel(id) \/ Transfer(id) \/ Topup(id) \/ Update(id)
          \/ AlignedUpdate(id)

ReadNext == ReadOutgoing \/ ReadProxies \/ ReadAligned \/ ReadIncoming \/ ReadIncomingProxies

Next == Operate \/ CloseAccount \/ Tick \/ Get \/ ReadNext \/ Return

Spec == Init /\ [][Next]_vars

-----------------------------------------------------------------------------
AccountsOf(id, s) ==
    /\ s.escrowTokens = EscrowPDA(id)
    /\ s.senderTokens = Tokens(s.sender) /\ s.recipientTokens = Tokens(s.recipient)
    /\ s.sender \in Senders \cup {ContractPDA(id)}
    /\ s.recipient \in Recipients /\ s.partner \in Partners
    /\ s.deposited \in 0..MaxDeposit /\ s.withdrawn \in 0..s.deposited
    /\ s.end \in Nat /\ s.canceledAt \in 0..MaxTime
    /\ s.lastRateChangeTime \in 0..MaxTime
    /\ s.fundsUnlockedAtLastRateChange \in 0..s.deposited

TypeOK ==
    /\ now \in 1..MaxTime
    /\ DOMAIN streams \subseteq Ids
    /\ \A id \in DOMAIN streams : AccountsOf(id, streams[id])
    /\ DOMAIN proxies = {ContractPDA(id) : id \in {i \in DOMAIN streams :
                                IsAlignedUnlock(i, streams[i].sender)}}
    /\ \A p \in DOMAIN proxies :
         proxies[p].sender \in Senders /\ ContractPDA(proxies[p].stream) = p
    /\ query.active \in BOOLEAN

Accepted(ixs, invoker) == Run(ixs, invoker).ok

(* StreamClient.ts:1596: with checkTokenAccounts a call creates the        *)
(* accounts it needs, each once, "otherwise transaction will fail".  What  *)
(* the calls below build is accepted by the chain it was built from,       *)
(* whoever the parties are and whichever of their token accounts are       *)
(* closed.  The conditions leave out creations of tokens whose account the *)
(* sender does not have, and four calls that fail in the code: create with *)
(* isNative wraps too late; an aligned creation whose recipient, without   *)
(* an account, is also the partner or the treasury creates it twice; an    *)
(* aligned cancellation does not create the account of its sender, nor     *)
(* topup those of treasury and partner.  What others do between building   *)
(* and landing is not covered.                                             *)
CreationAccepted ==
    \A id \in Ids \ DOMAIN streams, sender \in Senders, recipient \in Recipients,
       partner \in Partners, shape \in Shapes :
        /\ Tokens(sender) \in tokens =>
             /\ Accepted(CreateIxs(id, sender, recipient, partner, shape, FALSE), sender)
             /\ recipient \notin {Treasury, partner} \/ Tokens(recipient) \in tokens =>
                  \A prices \in Prices : Accepted(
                     CreateAlignedIxs(id, sender, recipient, partner, shape, prices), sender)
        /\ Accepted(CreateUncheckedIxs(id, sender, recipient, partner, shape, TRUE), sender)

OperationAccepted ==
    \A id \in {i \in DOMAIN streams : streams[i].canceledAt = 0} :
        LET s == streams[id]
            aligned == IsAlignedUnlock(id, s.sender)
            owner == View(streams, proxies, id).sender
        IN  /\ Accepted(WithdrawIxs(id, s.recipient), s.recipient)
            /\ s.cancelableBySender /\ (aligned => Tokens(owner) \in tokens) =>
                 Accepted(CancelIxs(id, owner), owner)
            /\ s.cancelableByRecipient /\ ~aligned =>
                 Accepted(CancelIxs(id, s.recipient), s.recipient)
            /\ s.transferableByRecipient =>
                 \A r \in Recipients : Accepted(TransferIxs(id, r, s.recipient), s.recipient)
            /\ /\ s.canTopup /\ ~aligned /\ now <= s.end
               /\ {Tokens(Treasury), Tokens(s.partner)} \subseteq tokens
               => Accepted(TopupIxs(id, s.sender, TRUE), s.sender)

BuiltIsAccepted == CreationAccepted /\ OperationAccepted

(* get (StreamClient.ts:1392-1450) reads the chain up to five times.  It   *)
(* returns every stream that was asked for all the while, and none that    *)
(* never was, with the wallet that created it as its sender.               *)
GetIsRight ==
    Returned =>
        /\ query.always \subseteq Result /\ Result \subseteq query.ever
        /\ \A id \in Result :
             query.found[id].sender = View(streams, proxies, id).sender

(* calculateUnlockedAmount (contractUtils.ts:18-42) shows what the program *)
(* has unlocked, before and after the cliff, the end, top-ups and changes  *)
(* of the rate inside a period.                                            *)
UnlockedIsExact ==
    \A id \in DOMAIN streams :
        LET s == streams[id] IN
        s.canceledAt = 0 => Unlocked(s, now) = Least(s.accrued, s.deposited)

(* buildStreamType (contractUtils.ts:113-134): a stream is shown under one *)
(* type and one sender for all of its life; only a lock that is set to     *)
(* automatic withdrawal becomes another.                                   *)
KeepsItsType ==
    [][\A id \in DOMAIN streams :
         LET before == View(streams, proxies, id)
             after == View(streams', proxies', id)
         IN  /\ after.sender = before.sender
             /\ streams'[id].automaticWithdrawal = streams[id].automaticWithdrawal
                   => after.type = before.type]_vars
=============================================================================
