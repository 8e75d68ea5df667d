------------------------------ MODULE Airdrops ------------------------------
(***************************************************************************)
(* The distributor clients (distributor/solana/clients) and the programs   *)
(* they call, for one distributor.  The calls also meet an epoch that      *)
(* changes the transfer fee of the mint.  The programs are not part of the *)
(* repository: they do what their errors and the fields of their accounts  *)
(* say.  A definition that nothing uses is a plausible slip in the         *)
(* definition that follows it.                                             *)
(***************************************************************************)
EXTENDS ClientCalls, DistributorPrograms, TransferFees, FiniteSetsExt

CONSTANTS
    Drops,           \* mint, transfer fees by epoch and leaves of the merkle tree
    Schedules,       \* times of an airdrop, arguments of create
    Closable,        \* by the admin, by the claimant; arguments of create
    MinUpdatePeriod  \* of an aligned distributor

Admin == <<"admin">>
NativeMint == <<"native">>
Version == 1

VARIABLES
    epoch, \* 1 or 2, of the transfer fees
    drop   \* one of Drops

airdropVars == <<epoch, drop>>
vars == <<now, accounts, tokens, call, disturbed, airdropVars>>

Distributor == DistributorPDA(drop.mint, Version)
Tokens(owner) == TokenAccount(drop.mint, owner)
Fee == drop.fees[epoch]
Leaves == drop.leaves \* recipient -> the amounts of its leaf
Recipients == DOMAIN Leaves
MaxTotalClaim == MapThenSumSet(LAMBDA r : Leaves[r].unlocked + Leaves[r].locked, Recipients)

Init ==
    /\ CallsInit
    /\ epoch = 1
    /\ drop \in Drops
    /\ tokens = [a \in IF drop.mint = NativeMint THEN {} ELSE {Tokens(Admin)} |-> 0]

-----------------------------------------------------------------------------
(* The programs.                                                           *)
StatusOf(w, r) == ClaimStatusPDA(Distributor, r)

(* A start of zero is the time of the creation.                            *)
StartTs(schedule, t) == IF schedule.start = 0 THEN t ELSE schedule.start
EndTs(schedule, t) == IF schedule.end = 0 THEN t ELSE schedule.end

(* What is unlocked of a locked amount: whole periods, all at the end.     *)
UnlockedOf(d, locked) ==
    IF now >= d.endTs THEN locked
    ELSE IF now < d.startTs THEN 0
    ELSE (locked * (((now - d.startTs) \div d.unlockPeriod) * d.unlockPeriod))
            \div (d.endTs - d.startTs)

Withdrawable(w, r) ==
    LET status == w.accounts[StatusOf(w, r)]
    IN  UnlockedOf(w.accounts[Distributor], status.lockedAmount) - status.lockedAmountWithdrawn

(* Everything a recipient could get now.                                   *)
Claimable(w, r) ==
    IF ~Exists(w, StatusOf(w, r))
    THEN Leaves[r].unlocked + UnlockedOf(w.accounts[Distributor], Leaves[r].locked)
    ELSE IF w.accounts[StatusOf(w, r)].closed THEN 0 ELSE Withdrawable(w, r)

Open(w) == Exists(w, Distributor) /\ ~w.accounts[Distributor].clawedBack

AcceptsSchedule(schedule) ==
    LET start == StartTs(schedule, now) IN
    /\ now <= start /\ start < EndTs(schedule, now)
    /\ schedule.period <= EndTs(schedule, now) - start

NewDistributorAccepted(w, a, ix, admin) ==
    /\ Accepts(NewDistributorIx, a, [version |-> ix.version], w.accounts, admin)
    /\ ~Exists(w, a.distributor)
    /\ Holds(w, a.clawbackReceiver)
    /\ AcceptsSchedule(ix.schedule)

Allowed(w, ix, invoker) ==
    CASE ix.op = "createAta" -> ~Holds(w, ix.account)
      [] ix.op = "wrap" -> Holds(w, ix.account)
      [] ix.op = "newDistributor" ->
           NewDistributorAccepted(w, ix.accounts, ix, invoker)
      [] ix.op = "alignedNewDistributor" ->
           /\ Accepts(AlignedNewDistributorIx, ix.accounts, <<>>, w.accounts, invoker)
           /\ NewDistributorAccepted(w, ix.accounts, ix, invoker)
           /\ ix.updatePeriod >= MinUpdatePeriod
      [] ix.op = "transfer" ->
           /\ Holds(w, ix.from) /\ Holds(w, ix.to)
           /\ ix.from = Tokens(invoker)
           /\ ix.charged = FeeKept(ix.amount, Fee)
      [] ix.op = "newClaim" ->
           LET a == ix.accounts IN
           /\ Accepts(ClaimIx, a, <<>>, w.accounts, invoker)
           /\ Open(w) /\ ~Exists(w, a.claimStatus)
           /\ ix.leaf = Leaves[a.claimant]
           /\ Holds(w, a.to) /\ ix.leaf.unlocked <= w.tokens[a.from]
      [] ix.op = "claimLocked" ->
           LET a == ix.accounts IN
           /\ Accepts(ClaimIx, a, <<>>, w.accounts, invoker)
           /\ Open(w) /\ Exists(w, a.claimStatus)
           /\ ~w.accounts[a.claimStatus].closed
           /\ Holds(w, a.to)
           /\ Withdrawable(w, a.claimant) \in 1..w.tokens[a.from]
      [] ix.op = "closeClaim" ->
           LET a == ix.accounts d == w.accounts[Distributor] IN
           /\ Accepts(CloseClaimIx, a, <<>>, w.accounts, invoker)
           /\ Open(w)
           /\ \/ invoker = d.admin /\ d.claimsClosableByAdmin
              \/ invoker = a.claimant /\ d.claimsClosableByClaimant
           /\ IF Exists(w, a.claimStatus) THEN ~w.accounts[a.claimStatus].closed
              ELSE ix.leaf = <<Leaves[a.claimant]>>
      [] ix.op = "clawback" ->
           LET a == ix.accounts IN
           /\ Accepts(ClawbackIx, a, <<>>, w.accounts, invoker)
           /\ Open(w) /\ a.to = w.accounts[Distributor].clawbackReceiver
           /\ Holds(w, a.to)
           /\ now >= w.accounts[Distributor].clawbackStartTs
      [] ix.op = "alignedClawback" ->
           LET a == ix.accounts IN
           /\ Accepts(AlignedClawbackIx, a, <<>>, w.accounts, invoker)
           /\ Exists(w, a.alignedDistributor)
           /\ w.accounts[a.alignedDistributor].admin = invoker
           /\ Accepts(ClawbackIx, [a EXCEPT !.admin = a.alignedDistributor],
                      <<>>, w.accounts, a.alignedDistributor)
           /\ Open(w) /\ a.to = w.accounts[Distributor].clawbackReceiver
           /\ Holds(w, a.to)
           /\ now >= w.accounts[Distributor].clawbackStartTs

NewDistributor(ix, admin) ==
    [mint |-> ix.accounts.mint, tokenVault |-> ix.accounts.tokenVault, admin |-> admin,
     clawbackReceiver |-> ix.accounts.clawbackReceiver, clawedBack |-> FALSE,
     startTs |-> StartTs(ix.schedule, now), endTs |-> EndTs(ix.schedule, now),
     unlockPeriod |-> ix.schedule.period, clawbackStartTs |-> ix.schedule.clawback,
     claimsClosableByAdmin |-> ix.closable[1], claimsClosableByClaimant |-> ix.closable[2]]

WithDistributor(w, ix, admin) ==
    [Opened(w, ix.accounts.tokenVault) EXCEPT
       !.accounts = Stored(@, ix.accounts.distributor, NewDistributor(ix, admin))]

NewStatus(leaf) ==
    [lockedAmount |-> leaf.locked, unlockedAmount |-> leaf.unlocked,
     lockedAmountWithdrawn |-> 0, closed |-> FALSE]

ClawedBack(w, vault) ==
    [w EXCEPT !.accounts[Distributor].clawedBack = TRUE, !.tokens[vault] = 0]

Effect(w, ix, invoker) ==
    CASE ix.op = "createAta" -> Opened(w, ix.account)
      [] ix.op = "wrap" -> w
      [] ix.op = "newDistributor" -> WithDistributor(w, ix, invoker)
      [] ix.op = "alignedNewDistributor" ->
           LET proxy == ix.accounts.alignedDistributor
               created == WithDistributor(w, ix, proxy)
           IN  [created EXCEPT !.accounts =
                  Stored(@, proxy, [admin |-> invoker, distributorClawedBack |-> FALSE])]
      [] ix.op = "transfer" -> [w EXCEPT !.tokens[ix.to] = @ + ix.amount - ix.charged]
      [] ix.op = "newClaim" ->
           [Moved(w, ix.accounts.from, ix.leaf.unlocked) EXCEPT
              !.accounts = Stored(@, ix.accounts.claimStatus, NewStatus(ix.leaf))]
      [] ix.op = "claimLocked" ->
           LET amount == Withdrawable(w, ix.accounts.claimant) IN
           [Moved(w, ix.accounts.from, amount) EXCEPT
              !.accounts[ix.accounts.claimStatus].lockedAmountWithdrawn = @ + amount]
      [] ix.op = "closeClaim" ->
           IF Exists(w, ix.accounts.claimStatus)
           THEN [w EXCEPT !.accounts[ix.accounts.claimStatus].closed = TRUE]
           ELSE [w EXCEPT !.accounts = Stored(@, ix.accounts.claimStatus,
                    [NewStatus(ix.leaf[1]) EXCEPT !.closed = TRUE])]
      [] ix.op = "clawback" -> ClawedBack(w, ix.accounts.from)
      [] ix.op = "alignedClawback" ->
           [ClawedBack(w, ix.accounts.from) EXCEPT
              !.accounts[ix.accounts.alignedDistributor].distributorClawedBack = TRUE]

-----------------------------------------------------------------------------
(* Instructions of the client.                                             *)
(* prepareWrappedAccount                                                   *)
WrapIfNative(owner) ==
    IF drop.mint # NativeMint THEN <<>>
    ELSE EnsureAta(owner, drop.mint) \o << [op |-> "wrap", account |-> Tokens(owner)] >>

(* getNewDistributorArgs throws when the period exceeds the vesting.       *)
ValidSchedule(schedule) ==
    LET vesting == EndTs(schedule, now) - StartTs(schedule, now)
    IN  vesting > 0 => vesting >= schedule.period

CreationAccounts(admin) ==
    [distributor |-> Distributor, clawbackReceiver |-> Tokens(admin), mint |-> drop.mint,
     tokenVault |-> Tokens(Distributor), admin |-> admin]

(* getNewAlignedDistributorArgs                                            *)
UpdatePeriod(schedule) ==
    IF schedule.period < MinUpdatePeriod THEN MinUpdatePeriod ELSE schedule.period

NewDistributorIxs(kind, admin, schedule, closable) ==
    LET args == [version |-> Version, schedule |-> schedule,
                 closable |-> IF kind = "aligned" THEN <<closable[1], FALSE>> ELSE closable]
        oracle == [priceOracle |-> TestOraclePDA(drop.mint, admin)]
    IN  IF kind = "plain"
        THEN << Merged(Prepare("newDistributor", NewDistributorNames,
                               NewDistributorKeys(CreationAccounts(admin))), args) >>
        ELSE << Merged([op |-> "alignedNewDistributor", updatePeriod |-> UpdatePeriod(schedule),
                        accounts |-> Completed(AlignedNewDistributorIx,
                            Merged(CreationAccounts(admin), oracle), <<>>, accounts)], args) >>

(* createTransferCheckedWithFeeInstruction                                 *)
FundMaxTotalClaim(admin) ==
    [op |-> "transfer", from |-> Tokens(admin), to |-> Tokens(Distributor),
     amount |-> MaxTotalClaim, charged |-> FeeKept(MaxTotalClaim, Fee)]

FundIx(admin) ==
    [op |-> "transfer", from |-> Tokens(admin), to |-> Tokens(Distributor),
     amount |-> TransferAmount(MaxTotalClaim, Fee), charged |-> FeeCharged(MaxTotalClaim, Fee)]

CreateIxs(kind, admin, schedule, closable) ==
    WrapIfNative(admin) \o NewDistributorIxs(kind, admin, schedule, closable)
    \o << FundIx(admin) >>

ClaimAccounts(claimant) ==
    [distributor |-> Distributor, claimStatus |-> ClaimStatusPDA(Distributor, claimant),
     from |-> accounts[Distributor].tokenVault, to |-> Tokens(claimant),
     claimant |-> claimant, mint |-> accounts[Distributor].mint]

(* prepareClaimInstructions, after the read of the claim status.           *)
AfterFirstPeriod(d, locked) ==
    locked > 0 /\ now - d.startTs > d.unlockPeriod

UnlocksLocked(d, locked) ==
    locked > 0 /\ now - d.startTs >= d.unlockPeriod

ClaimIxs(claimant) ==
    LET a == ClaimAccounts(claimant)
        leaf == Leaves[claimant]
        claimed == a.claimStatus \in DOMAIN accounts
    IN  (IF claimed THEN <<>>
         ELSE << Merged(Prepare("newClaim", NewClaimNames, NewClaimKeys(a)), [leaf |-> leaf]) >>)
        \o IF claimed \/ UnlocksLocked(accounts[Distributor], leaf.locked)
           THEN << Prepare("claimLocked", ClaimLockedNames, ClaimLockedKeys(a)) >>
           ELSE <<>>

CloseClaimIxs(invoker, claimant, leaf) ==
    << Merged(Prepare("closeClaim", CloseClaimNames, CloseClaimKeys(
          [distributor |-> Distributor, adminOrClaimant |-> invoker, claimant |-> claimant,
           claimStatus |-> ClaimStatusPDA(Distributor, claimant)])), [leaf |-> leaf]) >>

(* getClawbackInstruction of the client for the kind of the distributor.   *)
ClawbackIxs(kind, admin) ==
    LET d == accounts[Distributor]
        a == [distributor |-> Distributor, from |-> d.tokenVault, to |-> d.clawbackReceiver,
              admin |-> admin, mint |-> d.mint]
    IN  EnsureAta(admin, drop.mint)
        \o IF kind = "plain"
           THEN << Prepare("clawback", ClawbackNames, ClawbackKeys(a)) >>
           ELSE << [op |-> "alignedClawback",
                    accounts |-> Completed(AlignedClawbackIx, a, <<>>, accounts)] >>

-----------------------------------------------------------------------------
(* Calls.                                                                  *)
Created == Distributor \in DOMAIN accounts
Kind == IF AlignedDistributorPDA(Distributor) \in DOMAIN accounts THEN "aligned" ELSE "plain"

(* What the client builds, apart from the claim, which reads in two steps. *)
Create(kind, schedule, closable) ==
    Built("create", Admin, CreateIxs(kind, Admin, schedule, closable))

CloseClaim(invoker, claimant, leaf) ==
    Built("closeClaim", invoker, CloseClaimIxs(invoker, claimant, leaf))

Clawback == Built("clawback", Admin, ClawbackIxs(Kind, Admin))

Buildable ==
    IF ~Created
    THEN {Create(kind, schedule, closable) :
            kind \in {"plain", "aligned"}, closable \in Closable,
            schedule \in {s \in Schedules : ValidSchedule(s)}}
    ELSE (UNION {{CloseClaim(invoker, r, leaf) :
                     invoker \in {Admin, r}, leaf \in {<<>>, <<Leaves[r]>>}} : r \in Recipients})
         \cup {Clawback}

Build ==
    /\ call = Idle
    /\ \E c \in Buildable : Begin(c)
    /\ UNCHANGED airdropVars

(* prepareClaimInstructions: the distributor and the token account of the  *)
(* claimant are read first, the claim status after them.                   *)
ReadForClaim(claimant) ==
    /\ Created
    /\ Begin([stage |-> "reading", invoker |-> claimant,
              ixs |-> EnsureAta(claimant, drop.mint)])
    /\ UNCHANGED airdropVars

BuildClaim ==
    /\ call.stage = "reading"
    /\ Continue(Merged(Built("claim", call.invoker, call.ixs \o ClaimIxs(call.invoker)),
                       [at |-> now]))
    /\ UNCHANGED airdropVars

Run(c) == Execute(c.ixs, c.invoker, Allowed, Effect)
Outcome == Run(call)

Land ==
    /\ call.stage = "built"
    /\ LandWith(Outcome)
    /\ UNCHANGED airdropVars

-----------------------------------------------------------------------------
(* What happens around the call: others make the same calls, also for the  *)
(* same claim.                                                             *)
OthersClaims ==
    IF ~Created THEN {}
    ELSE {Built("claim", r, EnsureAta(r, drop.mint) \o ClaimIxs(r)) : r \in Recipients}

OthersCall ==
    /\ \E c \in Buildable \cup OthersClaims : TakesEffect(Run(c))
    /\ Disturb /\ UNCHANGED airdropVars

AccountChanges(owner) ==
    /\ OpenAccount(Tokens(owner)) \/ CloseAccount(Tokens(owner))
    /\ UNCHANGED airdropVars

NewEpoch ==
    /\ epoch = 1 /\ ~Created
    /\ epoch' = 2
    /\ Disturb /\ UNCHANGED <<now, drop, accounts, tokens>>

Next ==
    \/ Build \/ (\E r \in Recipients : ReadForClaim(r)) \/ BuildClaim \/ Land
    \/ OthersCall
    \/ \E owner \in Recipients \cup {Admin} : AccountChanges(owner)
    \/ NewEpoch
    \/ Tick /\ UNCHANGED airdropVars

Spec == Init /\ [][Next]_vars

-----------------------------------------------------------------------------
(* The caller may do what it asks for: the airdrop is open, something is   *)
(* left to claim, the schedule lies ahead.  After the first period a claim *)
(* asks for locked tokens too, and is refused as a whole when so few are   *)
(* locked that rounding leaves nothing of them.                            *)
ClosableBy(invoker, claimant) ==
    \/ invoker = accounts[Distributor].admin /\ accounts[Distributor].claimsClosableByAdmin
    \/ invoker = claimant /\ accounts[Distributor].claimsClosableByClaimant

Due ==
    LET last == call.ixs[Len(call.ixs)]
        status == StatusOf(World, call.invoker)
    IN  CASE call.name = "create" ->
               /\ ~Created
               /\ drop.mint = NativeMint \/ Holds(World, Tokens(Admin))
               /\ \A i \in DOMAIN call.ixs :
                    "schedule" \in DOMAIN call.ixs[i] => AcceptsSchedule(call.ixs[i].schedule)
          [] call.name = "claim" ->
               /\ Open(World)
               /\ IF Exists(World, status) THEN Claimable(World, call.invoker) > 0
                  ELSE last.op = "claimLocked" =>
                         UnlockedOf(accounts[Distributor], Leaves[call.invoker].locked) > 0
          [] call.name = "closeClaim" ->
               LET claimant == last.accounts.claimant
                   closing == StatusOf(World, claimant)
               IN  /\ Open(World) /\ ClosableBy(call.invoker, claimant)
                   /\ IF Exists(World, closing) THEN ~accounts[closing].closed
                      ELSE last.leaf # <<>>
          [] call.name = "clawback" ->
               Open(World) /\ now >= accounts[Distributor].clawbackStartTs

(* prepareCreateInstructions, prepareClaimInstructions,                    *)
(* prepareCloseClaimInstructions, prepareClawbackInstructions: unless      *)
(* something changed after the client read it, the programs accept the     *)
(* transaction of every caller who may do what it asks for, whatever the   *)
(* state of its claim and its token account.                               *)
AirdropCallsSucceed ==
    call.stage = "built" /\ ~disturbed /\ Due => Outcome.ok

(* prepareClaimInstructions (line 292): a claim that lands in the second   *)
(* it was built takes everything the recipient can get.                    *)
ClaimTakesAll ==
    call.stage = "built" /\ call.name = "claim" /\ call.at = now =>
        LET w == Outcome IN w.ok => Claimable(w, call.invoker) = 0

(* calculateAmountWithTransferFees: what create transfers covers every     *)
(* claim until the airdrop is clawed back, although the mint keeps a fee   *)
(* of the transfer.                                                        *)
OwedTo(r) ==
    LET status == StatusOf(World, r) IN
    IF ~Exists(World, status) THEN Leaves[r].unlocked + Leaves[r].locked
    ELSE IF accounts[status].closed THEN 0
    ELSE accounts[status].lockedAmount - accounts[status].lockedAmountWithdrawn

VaultCoversClaims ==
    Open(World) => tokens[Tokens(Distributor)] >= MapThenSumSet(OwedTo, Recipients)
=============================================================================
