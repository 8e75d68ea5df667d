----------------------------- MODULE Launchpads -----------------------------
(***************************************************************************)
(* SolanaLaunchpadClient (launchpad/solana/client.ts) and the program it   *)
(* calls, for one launchpad.  The program is not part of the repository:   *)
(* it does what its errors, the fields of its accounts and the client's    *)
(* README say.  A definition that nothing uses is a plausible slip in the  *)
(* definition that follows it.                                             *)
(***************************************************************************)
EXTENDS ClientCalls, LaunchpadPrograms, FiniteSetsExt

CONSTANTS
    Offers,         \* arguments of createLaunchpad
    Depositors,     \* wallets
    DepositArgs,    \* amount, autoCap and whether a memo is given; arguments of deposit
    FundAmount,     \* argument of fundLaunchpad
    MaxFunds        \* bound: nobody funds a launchpad that holds more

VARIABLE paidFor \* owner -> what was paid in deposits for that owner

vars == <<now, accounts, tokens, call, disturbed, paidFor>>

Authority == <<"admin">>
Base == <<"base">>
Quote == <<"quote">>
Nonce == 1
Unset == <<>> \* an argument that is left out

Pad == LaunchpadPDA(Base, Nonce)
Launchpad == accounts[Pad]
Created == Pad \in DOMAIN accounts

Init ==
    /\ CallsInit
    /\ tokens = [a \in {TokenAccount(Base, Authority)}
                       \cup {TokenAccount(Quote, o) : o \in Depositors} |-> 0]
    /\ paidFor = [o \in Depositors |-> 0]

-----------------------------------------------------------------------------
(* The program.                                                            *)
ValidPeriods(offer) ==
    /\ offer.depositingStart < offer.depositingEnd
    /\ offer.depositingEnd < offer.vestingStart

Depositing(l) == l.depositingStart <= now /\ now < l.depositingEnd
Claiming(l) == l.depositingEnd <= now /\ now < l.vestingStart

(* autoCap: no more than the launchpad still takes.                        *)
Deposited(l, ix) ==
    IF ix.autoCap /\ ix.amount > l.maxCap - l.total THEN l.maxCap - l.total ELSE ix.amount

DepositOf(w, a) == IF Exists(w, a) THEN w.accounts[a].amount ELSE 0

WithinCaps(w, l, a, ix) ==
    LET amount == Deposited(l, ix) IN
    /\ amount > 0 /\ l.total + amount <= l.maxCap
    /\ DepositOf(w, a) + amount <= l.individualCap

Allocation(amount, l) == amount \div l.price

Funds(w) == LET a == TokenAccount(Base, Pad) IN IF Holds(w, a) THEN w.tokens[a] ELSE 0

Allowed(w, ix, invoker) ==
    CASE ix.op = "createAta" -> ~Holds(w, ix.account)
      [] ix.op = "memo" -> TRUE
      [] ix.op = "transfer" -> Holds(w, ix.from) /\ Holds(w, ix.to)
      [] ix.op = "createLaunchpad" ->
           LET a == ix.accounts IN
           /\ Accepts(CreateLaunchpadIx, a, ix.args, w.accounts, invoker)
           /\ ~Exists(w, a.launchpad) /\ Holds(w, a.receiver)
           /\ ValidPeriods(ix.args)
      [] ix.op = "deposit" ->
           LET a == ix.accounts IN
           /\ Accepts(DepositIx, a, <<>>, w.accounts, invoker)
           /\ Depositing(w.accounts[a.launchpad]) /\ Holds(w, a.from)
           /\ w.accounts[a.launchpad].isMemoRequired => "memo" \in w.done
           /\ WithinCaps(w, w.accounts[a.launchpad], a.depositAccount, ix)
      [] ix.op = "claimDeposits" ->
           LET a == ix.accounts IN
           /\ Accepts(ClaimDepositsIx, a, <<>>, w.accounts, invoker)
           /\ w.accounts[a.launchpad].authority = invoker
           /\ now >= w.accounts[a.launchpad].depositingEnd
           /\ ~w.accounts[a.launchpad].claimed /\ Holds(w, a.receiver)
      [] ix.op = "claimAllocatedVested" ->
           LET a == ix.accounts IN
           /\ Accepts(ClaimAllocatedVestedIx, a, <<>>, w.accounts, invoker)
           /\ Claiming(w.accounts[a.launchpad])
           /\ ~w.accounts[a.depositAccount].claimed
           /\ ~Exists(w, a.streamMetadata)
           /\ Holds(w, a.from) /\ Holds(w, a.to)
           /\ w.tokens[a.from] >=
                Allocation(w.accounts[a.depositAccount].amount, w.accounts[a.launchpad])

NewLaunchpad(ix) ==
    Merged([price |-> ix.args.price, maxCap |-> ix.args.maxCap,
            individualCap |-> ix.args.individualCap, isMemoRequired |-> ix.args.isMemoRequired,
            depositingStart |-> ix.args.depositingStart,
            depositingEnd |-> ix.args.depositingEnd,
            vestingStart |-> ix.args.vestingStart, total |-> 0, claimed |-> FALSE],
           [name \in {"baseMint", "quoteMint", "authority", "receiver", "priceOracle", "vault"} |->
              ix.accounts[name]])

Effect(w, ix, invoker) ==
    CASE ix.op = "createAta" -> Opened(w, ix.account)
      [] ix.op = "memo" -> w
      [] ix.op = "transfer" -> Moved(w, ix.to, -ix.amount)
      [] ix.op = "createLaunchpad" ->
           [Opened(w, ix.accounts.vault) EXCEPT
              !.accounts = Stored(@, ix.accounts.launchpad, NewLaunchpad(ix))]
      [] ix.op = "deposit" ->
           LET a == ix.accounts
               amount == Deposited(w.accounts[a.launchpad], ix)
               raised == [w.accounts EXCEPT ![a.launchpad].total = @ + amount]
               deposit == [launchpad |-> a.launchpad, owner |-> a.owner, claimed |-> FALSE,
                           amount |-> DepositOf(w, a.depositAccount) + amount]
           IN  [Moved(w, a.vault, -amount) EXCEPT
                  !.accounts = Stored(raised, a.depositAccount, deposit)]
      [] ix.op = "claimDeposits" ->
           [w EXCEPT !.accounts[ix.accounts.launchpad].claimed = TRUE,
                     !.tokens[ix.accounts.vault] = 0]
      [] ix.op = "claimAllocatedVested" ->
           LET a == ix.accounts
               amount == Allocation(w.accounts[a.depositAccount].amount,
                                    w.accounts[a.launchpad])
           IN  [Moved(w, a.from, amount) EXCEPT
                  !.accounts = Stored([@ EXCEPT ![a.depositAccount].claimed = TRUE],
                      a.streamMetadata, [recipient |-> a.owner, amount |-> amount])]

-----------------------------------------------------------------------------
(* Instructions of the client.                                             *)
Completing(op, ix, given, args) ==
    << [op |-> op, accounts |-> Completed(ix, given, args, accounts), args |-> args] >>

OrElse(given, default) == IF given # Unset THEN given ELSE default

CreateLaunchpadIxs(authority, offer) ==
    Completing("createLaunchpad", CreateLaunchpadIx,
        [authority |-> authority, baseMint |-> Base, quoteMint |-> Quote,
         receiver |-> OrElse(offer.receiver, TokenAccount(Quote, authority)),
         priceOracle |-> OrElse(offer.priceOracle, TestOraclePDA(Base, authority))],
        Merged(offer, [nonce |-> Nonce]))

(* The oracle of the type must be named.                                   *)
OracleNamed(offer) == offer.priceOracle = Unset => offer.oracleType \in {"none", "test"}

FundLaunchpadIxs(invoker) ==
    EnsureAta(Pad, Launchpad.baseMint)
    \o << [op |-> "transfer", from |-> TokenAccount(Launchpad.baseMint, invoker),
           to |-> TokenAccount(Launchpad.baseMint, Pad), amount |-> FundAmount] >>

PayerOwns(owner, payer) == payer

OwnerOrPayer(owner, payer) == OrElse(owner, payer)

MemoLast(memo, ixs) == IF memo THEN Append(ixs, [op |-> "memo"]) ELSE ixs

MemoFirst(memo, ixs) == IF memo THEN << [op |-> "memo"] >> \o ixs ELSE ixs

DepositIxs(payer, owner, arg) ==
    MemoFirst(arg.memo,
        << [op |-> "deposit", amount |-> arg.amount, autoCap |-> arg.autoCap,
            accounts |-> Completed(DepositIx,
                [payer |-> payer, owner |-> OwnerOrPayer(owner, payer), launchpad |-> Pad,
                 from |-> TokenAccount(Launchpad.quoteMint, payer)], <<>>, accounts)] >>)

ClaimDepositsIxs(authority) ==
    Completing("claimDeposits", ClaimDepositsIx,
               [authority |-> authority, launchpad |-> Pad], <<>>)

(* The stream gets a new key; one claim for an owner takes effect.         *)
ClaimAllocatedVestedIxs(payer, owner) ==
    LET stream == <<"stream", OwnerOrPayer(owner, payer)>>
        proxy == ContractPDA(stream)
    IN  Completing("claimAllocatedVested", ClaimAllocatedVestedIx,
            [depositAccount |-> DepositPDA(Pad, OwnerOrPayer(owner, payer)), payer |-> payer,
             proxyMetadata |-> proxy, streamMetadata |-> stream,
             proxyTokens |-> TokenAccount(Launchpad.baseMint, proxy),
             escrowTokens |-> EscrowPDA(stream)], <<>>)

-----------------------------------------------------------------------------
(* Calls; `owner` is whom a deposit is meant for.                          *)
Create(offer) ==
    Built("create", Authority, CreateLaunchpadIxs(Authority, offer))

Fund(invoker) == Built("fund", invoker, FundLaunchpadIxs(invoker))

Deposit(payer, owner, arg) ==
    Merged(Built("deposit", payer, DepositIxs(payer, owner, arg)),
           [owner |-> IF owner = Unset THEN payer ELSE owner])

ClaimDeposits(invoker) == Built("claimDeposits", invoker, ClaimDepositsIxs(invoker))

ClaimAllocatedVested(payer, owner) ==
    Built("claimAllocatedVested", payer, ClaimAllocatedVestedIxs(payer, owner))

(* A claim for an owner without a deposit fails when it is built.          *)
Claims ==
    {ClaimAllocatedVested(payer, owner) :
        payer \in Depositors,
        owner \in {o \in Depositors : DepositPDA(Pad, o) \in DOMAIN accounts}}

Buildable ==
    IF ~Created THEN {Create(offer) : offer \in {o \in Offers : OracleNamed(o)}}
    ELSE (UNION {{Deposit(payer, owner, arg) :
                     owner \in {Unset} \cup (Depositors \ {payer}), arg \in DepositArgs} :
                 payer \in Depositors})
         \cup Claims \cup {ClaimDeposits(Authority)}
         \cup {Fund(a) : a \in {b \in {Authority} : Funds(World) <= MaxFunds}}

Run(c) == Execute(c.ixs, c.invoker, Allowed, Effect)
Outcome == Run(call)

(* History: what the transaction moved into the vault was paid for the     *)
(* owner the caller meant.                                                 *)
Credit(c, w) ==
    paidFor' = IF c.name = "deposit" /\ w.ok
               THEN [paidFor EXCEPT ![c.owner] =
                        @ + w.tokens[Launchpad.vault] - tokens[Launchpad.vault]]
               ELSE paidFor

Build ==
    /\ call = Idle
    /\ \E c \in Buildable : Begin(c)
    /\ UNCHANGED paidFor

Land ==
    /\ call.stage = "built"
    /\ LET w == Outcome IN LandWith(w) /\ Credit(call, w)

OthersCall ==
    /\ \E c \in Buildable : LET w == Run(c) IN TakesEffect(w) /\ Credit(c, w)
    /\ Disturb

AccountChanges(mint, owner) ==
    /\ OpenAccount(TokenAccount(mint, owner)) \/ CloseAccount(TokenAccount(mint, owner))
    /\ UNCHANGED paidFor

(* Nobody can close the account of the launchpad.                          *)
OthersOpenForPad == OpenAccount(TokenAccount(Base, Pad)) /\ UNCHANGED paidFor

Next ==
    \/ Build \/ Land \/ OthersCall
    \/ \E o \in Depositors : AccountChanges(Base, o)
    \/ AccountChanges(Quote, Authority)
    \/ OthersOpenForPad
    \/ Tick /\ UNCHANGED paidFor

Spec == Init /\ [][Next]_vars

-----------------------------------------------------------------------------
(* The caller may do what it asks for, and the accounts that the client's  *)
(* README expects exist.                                                   *)
Due ==
    LET ix == call.ixs[CHOOSE i \in DOMAIN call.ixs :
                          call.ixs[i].op \notin {"createAta", "memo"}]
    IN  CASE call.name = "create" ->
               /\ ~Created /\ ValidPeriods(ix.args)
               /\ IF ix.args.receiver = Unset THEN TokenAccount(Quote, Authority) \in DOMAIN tokens
                  ELSE ix.args.receiver \in DOMAIN tokens
          [] call.name = "fund" -> Created /\ TokenAccount(Base, call.invoker) \in DOMAIN tokens
          [] call.name = "deposit" ->
               /\ Depositing(Launchpad)
               /\ TokenAccount(Quote, call.invoker) \in DOMAIN tokens
               /\ Launchpad.isMemoRequired => \E i \in DOMAIN call.ixs : call.ixs[i].op = "memo"
               /\ WithinCaps(World, Launchpad, DepositPDA(Pad, call.owner), ix)
          [] call.name = "claimDeposits" ->
               /\ now >= Launchpad.depositingEnd /\ ~Launchpad.claimed
               /\ call.invoker = Launchpad.authority
               /\ Launchpad.receiver \in DOMAIN tokens
          [] call.name = "claimAllocatedVested" ->
               LET deposit == accounts[ix.accounts.depositAccount]
                   funds == TokenAccount(Base, Pad)
               IN  /\ Claiming(Launchpad) /\ ~deposit.claimed
                   /\ {funds, TokenAccount(Base, deposit.owner)} \subseteq DOMAIN tokens
                   /\ tokens[funds] >= Allocation(deposit.amount, Launchpad)

(* prepareCreateLaunchpadInstructions, prepareFundLaunchpadInstructions,   *)
(* prepareDepositInstructions, prepareClaimDepositsInstructions,           *)
(* prepareClaimAllocatedVestedInstructions: unless something changed after *)
(* the client read it, the program accepts the transaction of every caller *)
(* who may do what it asks for.                                            *)
LaunchpadCallsSucceed ==
    call.stage = "built" /\ ~disturbed /\ Due => Outcome.ok

(* `owner` of deposit and claimAllocatedVested: whoever pays and whoever   *)
(* claims, an owner has deposited what was paid for it, and the stream     *)
(* that is created for it holds its allocation of exactly that.            *)
CreditedToOwner ==
    Created =>
        /\ \A o \in Depositors : DepositOf(World, DepositPDA(Pad, o)) = paidFor[o]
        /\ \A a \in DOMAIN accounts : a[1] = "stream" =>
             accounts[a].amount = Allocation(paidFor[accounts[a].recipient], Launchpad)
        /\ ~Launchpad.claimed =>
             tokens[Launchpad.vault] = MapThenSumSet(LAMBDA o : paidFor[o], Depositors)
=============================================================================
