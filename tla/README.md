# Streamflow JS SDK: TLA+ models, checks and proofs

This directory holds a verification project for the Streamflow JS SDK (the
TypeScript packages under `packages/`). The SDK is a client library: it builds
transactions for vesting, payment, airdrop, staking and launchpad programs,
broadcasts them and tells its caller what became of them. It keeps nothing on
disk. What can go wrong is what lies between two `await`s: a blockhash expires
while a node still answers from the past, a request that "failed" has reached
the cluster, one transaction of a batch fails, an account read before a
transaction is no longer what it was.

## 1. Inventory

Paths are relative to `packages/`.

| component | state it keeps | operations | hard behaviour |
|---|---|---|---|
| Transaction executor, `common/solana/utils.ts` 196-399 | per execution: simulation tries, `blockheight`, `transactionSent`; shared: the `PQueue` of the throttler | `executeTransaction`, `executeMultipleTransactions`, `sendAndConfirmTransaction`, `simulateTransaction`, `confirmAndEnsureTransaction` | concurrency, lost answers, retries, expiry, forks, lagging nodes |
| Preparation and ATA helpers, `common/solana/utils.ts` 114-158 and 401-583, `common/solana/instructions.ts` | a cache of token programs per call | `prepareTransaction`, `signTransaction`, `checkOrCreateAtaBatch`, `prepareWrappedAccount` | accounts checked and then used |
| Numeric and error helpers, `common/lib/`, `stream/common/utils.ts` | none | `getBN`, `getNumberFromBN`, `divCeilN`, `calculateTotalAmountToDeposit`, `getFilters`, `handleContractError` | rounding, floating point, offsets |
| Solana StreamClient, batches, `stream/solana/StreamClient.ts` 648-944 | the batch, the results | `createMultiple`, `createMultipleSequential` | one step of several failing, attribution of results, one blockhash for all |
| Solana StreamClient, single operations | none between calls | `create`, `createUnchecked`, `withdraw`, `cancel`, `transfer`, `topup`, `update` | order of instructions and of their accounts, missing token accounts, wrapped SOL |
| Solana StreamClient, queries, 1324-1470 | none | `getOne`, `get`, `searchStreams`, `getFees` | several reads that do not form a snapshot, classification |
| Stream arithmetic, `stream/common/contractUtils.ts`, `stream/solana/types.ts` | none | `calculateUnlockedAmount`, `buildStreamType` | boundaries, rate changes |
| GenericStreamClient, `stream/common/GenericStreamClient.ts` | the chosen client | dispatch, error wrapping | none |
| EVM client, `stream/evm/` | none | `create`, `createMultiple`, `approveTokens`, `topup`, the others | allowance races, submissions lost or refused, reverts |
| Aptos client, `stream/aptos/` | none | `create`, `createMultiple`, `withdraw`, `cancel`, `transfer`, `topup`, `update` | partial failure, time-outs |
| Sui client, `stream/sui/` | none | `create`, `createMultiple`, `withdraw`, `cancel`, `transfer`, `topup`, `update` | one block for all, errors by command index, late answers |
| Staking rewards, `staking/solana/lib/` | accumulator of a reward entry | `calcRewards`, `calculateStakeWeight` | long sequences of claims and pool updates |
| StakingClient, `staking/solana/client.ts` | none between calls | pools, stakes, entries, claims, funding, fees, searches | addresses that have to be found again, fees that change |
| LaunchpadClient, `launchpad/solana/client.ts` | none between calls | `createLaunchpad`, `fundLaunchpad`, `deposit`, `claimDeposits`, `claimAllocatedVested`, search | payer and owner differ, caps, windows of time |
| Distributor clients, `distributor/solana/clients/` | none | `create`, `claim`, `closeClaim`, `clawback`, search | claim status read before it is used, transfer fees |
| Encodings (`instructions.ts`, `layout.ts`, `generated/`, descriptors, ABIs) | none | order of accounts, seeds, layouts, arguments | a slip is silent until a program refuses |

Every client reaches a Solana program through the executor. Clients read what
they need, build instructions, call `prepareTransaction` (which fetches a
blockhash with its last valid block height and the slot it was fetched at), sign,
and call `executeTransaction`; batches call `executeMultipleTransactions`. A client
object shares one throttler among all its executions. There are no callbacks and
no shared memory besides the throttler. The on-chain programs are not part of the
repository; the descriptors, generated layouts and errors say what they take and
store, and the models of the programs are marked `external` in `PROJECT.json`
where nothing in the repository shows what they do.

What makes the components correct:

- **executor**: the caller can act on how the promise settles. A signature
  means the transaction took effect for good; an error of the phases before the
  broadcast means nothing was sent; "expired" means it will never land; other
  errors must not be taken for "did not happen"; every promise settles.
- **batches**: every recipient appears in exactly one of the results, with its
  own error; nothing is created before what it depends on.
- **single operations**: what is built from the state of the chain is accepted by
  the programs, for everybody who may do what it is for.
- **queries**: a stream that exists throughout a query is returned once, with its
  type; a search by what an account holds finds the account.
- **arithmetic**: unlocked amounts and rewards are what the program owes; no
  second counts twice.
- **distributor, launchpad, staking**: a claim takes everything there is, the vault
  covers all claims, what is paid for an owner belongs to it, and what was staked
  can be taken out again.
- **other chains**: answers name the right recipients, the tokens provided suffice,
  streams are created as asked, and a call ends.

## 2. Modules

```
Cluster ── TxExecutor ── MCTxExecutor                        executor*, executor_live, ...
              │  └────── TxExecutorProofs
              │ INSTANCE (refinement)
TxOutcome ────┤── TxOutcomeProofs ─────────┐
              │ INSTANCE                   │ INSTANCE
              └─ CreateMultiple ── CreateMultipleProofs       batch, batch_sequential

AnchorAccounts ┬─ StakingPrograms ┬─ Staking ── StakingProofs staking, staking_recount
               │  RewardAccrual ──┤
               │  AccountLayouts ─┘
               ├─ StreamPrograms ┬─ StreamChain ── Streams ┬─ MCStreams        streams
               │  UnlockSchedule ┘                         └─ StreamsProofs
               └─ ClientCalls ┬─ Airdrops (DistributorPrograms, TransferFees)  ┐ INSTANCE
                              ├─ Launchpads (LaunchpadPrograms)                ├─ ProgramClients
                              └─ RewardFunding (StakingPrograms)               ┘  ├─ MCProgramClients
                                                                                  └─ ProgramClientsProofs
                                                              programs, launchpad_search
UnlockSchedule ┬─ EvmBatch (EvmAbi) ┐ INSTANCE
               ├─ SuiBatch          ├─ ChainClients ── MCChainClients          chains
                  AptosBatch        ┘      └────────── ChainClientsProofs
CommonTheorems (used by the proofs)
```

In every module a definition that nothing uses, next to the one it
resembles (`LoopExpiredAtLastValid`, `PayerOwns`, `AfterFirstPeriod`, ...), is a
plausible slip: with the slip in place of the original, the property it is
paired with in `PROJECT.json` is violated.

### 2.1 Executor and batches

**Cluster** is the environment and not code of the repository. A block height
exists per commitment level (`processed`, `confirmed`, `finalized`); a level
never overtakes a weaker one. `pool` holds the transactions of which some copy
travels to a leader, and a copy stays there for ever, so a late or duplicated
delivery needs no action of its own. `Land` puts a transaction into the block at
the processed tip, with or without an error, if the blockhash is still valid
and the transaction is not in a block already; `Abandon` drops a block that is
not confirmed. A node answers from a view that trails by `0..MaxLag` blocks,
chosen anew for every call, because a pool of nodes answers the calls.

**TxExecutor** is `executeMultipleTransactions`; a singleton `Tx` is
`executeTransaction`. One action is what happens between two awaits.

| definition | code (`common/solana/utils.ts`) |
|---|---|
| `SimulateOk`, `SimulateBlockhashNotFound`, `SimulateFails` | `simulateTransaction`, 320-351 |
| `FirstHeight` | `getBlockHeight` before the loop, 272 |
| `LoopExpired`, `LoopEnqueue`, `LoopOnlyConfirm` | condition of the loop and `if`, 275-278, `throw` at 317 |
| `StartSend` | the throttler starts a queued function, 42-44 and 278 |
| `NodeAccepts`, `SendOk` | `sendRawTransaction` reaches the node, its answer sets `transactionSent`, 279-286 |
| `SendMinContextSlot`, `SendThrows` | the `catch`, 288-297 |
| `Confirm`, `ConfirmThrows` | `confirmAndEnsureTransaction` and its `catch`, 298-310, 360-399 |
| `Refresh`, `RefreshThrows` | `getBlockHeight` at the end of the body, 311-315 |
| `AllSettled` | `Promise.allSettled`, 229 |

`pc[t]` names the await at which the execution of `t` is suspended. The queue is
the waiting part of the `PQueue`; the sends in flight are the `t` with `pc[t]` in
`{"sending", "accepted"}`. The two states of a send exist because its answer and
its effect are separate: an error may be answered before or after the node
took the request, and `SendThrows` lets the request reach the cluster in either case.
`answered` is a history variable: the height, on the node that gave the last null
status, up to which the absence of the transaction is known.

Sleeps, `waitBeforeConfirming` and the interval of the throttler only delay a
step; a step may be delayed for any time anyway. Signing, serialization and the
check for missing signatures happen before the first await and are left out.
`getSignatureStatuses` forgets transactions after some time; within the
lifetime of a blockhash, which bounds the loop, it does not.

**TxOutcome** is the promise made to callers, without retries, heights or queue:
`signature`, `notSent`, `failed` or `unknown`. `Cluster` and `TxExecutor` are
mapped to it by `Outcome == INSTANCE TxOutcome WITH ...` in `TxExecutor`: a
transaction is final when its block is confirmed, `SimulationError` and
`HeightError` are `notSent`, `SendError` and `Expired` are `unknown`.

**CreateMultiple** is `createMultiple` and `createMultipleSequential`
(`stream/solana/StreamClient.ts` 648-944). `variant` tells the three ways apart in
which the batch is executed. Every execution is known only by its promise, an
instance of `TxOutcome` whose variables the module shares: a step of an
execution needs the transaction to be `Running`, the chain acts at any time on
whatever was broadcast, also after the call has ended.

| definition | code (`stream/solana/StreamClient.ts`) |
|---|---|
| `BuildThrows`, `BuildUnprepared`, `BuildPrepared` | everything up to the signature, 648-755; whether `prepareInstructions` is empty, 757; a request or the wallet fails |
| `Popped`, `Shifted`, `Taken` | `pop` of `createMultiple`, 758; `shift` of `createMultipleSequential`, 917 |
| `PrepareSettles` | `sendAndConfirmStreamRawTransaction`, 759 and `lib/utils.ts` 106-121 |
| `NextSettles` | the loop over `signedBatch`, 766-772 and 923-929 |
| `AllSettle` | `executeMultipleTransactions`, 777-784 |
| `Signatures`, `Errors` | the results, 787-797 and 931-941 |

A recipient is its position in `recipients` (an address may occur twice), and
the transaction that creates its stream; transaction 0 prepares. Building
reaches the chain only to read, so it is one step. What the instructions do is
data: that the creations need the preparing transaction is the meaning of the
property `PreparedFirst`.


### 2.2 Accounts of instructions

**AnchorAccounts** says how a descriptor determines each account of an instruction
(named, signer, seeds, token account, field of a related account), how the Anchor
library completes what a caller names (`Completed`), and when a program accepts
the result (`Accepts`). An address is the tuple it is derived from, so two
derivations agree exactly when their seeds do. Instructions written by hand list
their accounts by position (`...Keys`), and the program reads them by the
names of its interface (`...Names`); `AsRead` puts the two together, so a
swapped pair of keys gives the program the wrong accounts.

**StreamPrograms**, **StakingPrograms**, **DistributorPrograms** and
**LaunchpadPrograms** hold those lists and descriptors, one definition per
instruction. **AccountLayouts** holds the layouts of accounts and the offsets
at which searches compare them.

### 2.3 Streams

**UnlockSchedule** is `contractUtils.ts` (`Unlocked`, `StreamType`) and
`calculateTotalAmountToDeposit`. **StreamChain** is the stream program and the
aligned unlocks program: `Allowed` and `Effect` of each instruction, `Run` for a
transaction of several. The program keeps its own account of what is unlocked, one
period after the other (`accrued`, `Passed`), and does not use the client's formula.

**Streams** is the client.

| definition | code (`stream/solana/StreamClient.ts`) |
|---|---|
| `CreateIxs`, `CreateAlignedIxs`, `CreateUncheckedIxs` | `prepareCreateInstructions`, `prepareCreateAlignedUnlockInstructions`, `prepareCreateUncheckedInstructions` |
| `WithdrawIxs`, `CancelIxs`, `TransferIxs`, `TopupIxs`, `UpdateIxs` | the `prepare...Instructions` of the same names |
| `EnsureAtas`, `Wrap` | `getCreateATAInstructions` with `checkTokenAccounts`, `prepareWrappedAccount` |
| `Get`, `Reads`, `Return` | `get`, 1392-1450; one action per answer of a node |
| `ReadOutgoing`, `ReadProxies`, `ReadAligned`, `ReadIncoming`, `ReadIncomingProxies` | `getProgramAccounts` by sender and recipient, `getOutgoingAlignedStreams`, `getIncomingAlignedStreams` |
| `Contract`, `AlignedContract`, `View` | `types.ts`, `getOne` |

A call builds from the state and lands at once in this module; the time in
between is the subject of `ClientCalls`. During a `get` the chain moves between
any two answers. `always` and `ever` are history: the streams that matched
all the while, and at any time.

### 2.4 Staking

**RewardAccrual** is `calcRewards` (`rewards.ts` 131-226) and
`calculateStakeWeight`. `Updates` lists the spans that end with an update, each with
its rate, `Count` is what the code does with one, and `Tally` folds over them.
**Staking** is every operation of the client that touches pools, stakes and
entries, one action each, with the programs' accounts. `ideal` is the reference: a
history of what each stake has earned, one period after the other, at the rate
that holds when the period ends. The amounts of the periods since the last change of
the rate or the last claim are `running`; they are weighted and rounded to units of
`Scale` when the rate changes and when rewards are claimed, so what is lost to
rounding is part of the reference.

### 2.5 Clients that read, build and land

**ClientCalls** is what the calls of the distributor, launchpad and staking
clients have in common (`prepareTransaction`, `checkOrCreateAtaBatch`,
`signAndExecuteTransaction`): `Begin` reads, `Continue` reads again, `LandWith` lets
the transaction take effect or fail as a whole. In between, whole calls of others
(`OthersCall`), token accounts opened and closed, and the clock; `disturbed` says that
something the call may have read has changed. `Execute` folds a list of
instructions over the state; instructions after the first that fails have no effect.

**Airdrops** (with **TransferFees**), **Launchpads** and **RewardFunding**
instantiate it. **ProgramClients** composes them: `program` says for which program
the client was constructed, as each package does.

| definition | code |
|---|---|
| `Airdrops!CreateIxs`, `FundIx` | `prepareCreateInstructions`, `BaseDistributorClient.ts` 112-190 |
| `Airdrops!ReadForClaim`, `BuildClaim`, `ClaimIxs` | `prepareClaimInstructions`, 236-302: distributor and token account first, claim status after them |
| `Airdrops!CloseClaimIxs`, `ClawbackIxs` | 322-363, 365-407; `Kind` chooses the instruction of the plain or the aligned client |
| `TransferFees!TransferAmount`, `FeeCharged` | `calculateAmountWithTransferFees`, `distributor/solana/utils.ts` 73-96 |
| `Launchpads!CreateLaunchpadIxs`, `FundLaunchpadIxs`, `DepositIxs`, `ClaimDepositsIxs`, `ClaimAllocatedVestedIxs` | the `prepare...Instructions` of `launchpad/solana/client.ts` 158-425 |
| `RewardFunding!ReadFee`, `BuildFunding`, `FundPoolIxs` | `prepareFundPoolInstructions`, `staking/solana/client.ts` 399-434 |
| `RewardFunding!WriteFee`, `RemoveFee`, `UpdateConfig` | the fee manager, `descriptor/fee_manager.ts` |

### 2.6 Other chains

**EvmBatch** is the calls of the EVM client that send transactions: two calls of
one signer interleave at every await (`ReadFees`, `ReadAllowance`, `Approve`,
`Approved`, `Submit`, `Refuse`, `Submitted`, `Confirm`), and `Mine` takes the next
transaction by nonce. **EvmAbi** is the order of the arguments and what the contract
shows of a stream. **AptosBatch** is `createMultiple`, one transaction after the
other, with an account that waits or an adapter that does not, and the operations
that submit one transaction: `create`, and `interact` for the other five.
**SuiBatch** is one block for all recipients, with the commands that merge and
split coins before the creations, and the fetching of a block that the node
may not find yet; `topup` has the same commands around its only call, and
`interact` stands for the operations that are one call. **ChainClients** composes
the three.

## 3. Runs

| run | instance | what it shows |
|---|---|---|
| `executor` | 2 transactions, one slot, all faults, lag 1, heights 1..5, last valid 2, grace 2, `confirmed` (2.9 million states) | types; throttler, queue and loops agree; a signature is final; a trusted expiry means the transaction never lands; early errors leave nothing behind; after an acknowledged send only the chain or expiry rejects; the executor implements `TxOutcome`, also when a send waits |
| `executor_live` | 2 transactions, one slot, sends and heights fail | every execution settles |
| `batch` | `createMultiple`, 3 recipients, with and without keys of the caller | creations follow the preparing transaction; a throw means that nothing was created; every recipient has one result, and its own; with keys of the caller a creation settles before the next starts; the call ends |
| `streams` | 1 stream of 4 shapes, plain, unchecked or aligned, 3 wallets, 6 seconds (168 thousand states) | what a call builds is accepted by the chain it was built from, whichever token accounts are closed, but for the calls listed in 3.3 (`BuiltIsAccepted`); `get` misses nothing and invents nothing while streams are transferred between its reads (`GetIsRight`); the unlocked amount is the program's (`UnlockedIsExact`); a stream keeps its type (`KeepsItsType`) |
| `staking` | 1 staker, 1 entry, amounts 1 and 3, periods 1 and 2, 5 seconds (578 thousand states) | rewards are exact on both sides of an update of each parameter (`RewardsExact`); everything can be taken out from what the searches return (`NothingStranded`); weights grow with the duration; the four searches find what they are asked for (`SearchesFind`) |
| `chains` | EVM with 2 concurrent calls of 5 operations, Aptos and Sui with 3 recipients, 0, 1 or 3 coins, 2 retries, all operations (55 thousand states) | answers name exactly the recipients of created streams (EVM), at least those (Aptos), or all of them only if the block took effect (Sui) (`AnswersAreRight`); a call on EVM throws with transactions on their way only if a submission was refused (`ThrownMeansRefused`); on Sui the recipient whose command aborts is told (`FailingIsTold`); allowance and split coin suffice (`EnoughFunds`); streams are created as asked (`CreatedAsAsked`); every call ends (`CallEnds`) |
| `programs` | a drop with a transfer fee and one of SOL, plain and aligned; a launchpad with 2 depositors; a reward pool with fees; 4 seconds (490 thousand states) | what a call builds is accepted unless something changed since it read (`AirdropCallsSucceed`, `LaunchpadCallsSucceed`, `FundingSucceeds`); a claim takes everything (`ClaimTakesAll`) and the vault can pay all claims despite the fee of the mint (`VaultCoversClaims`); a deposit and its stream belong to the owner it was paid for, whoever pays and claims (`CreditedToOwner`); searches find what is there |

Runs that are expected to fail, because the code differs from what its comments
or its documentation say:

| run | what is said | what the code does |
|---|---|---|
| `executor_send_timeout` | `common/solana/utils.ts` 188-189: throw only errors that signal that the transaction failed, lest a landed one is marked as failed | the first send's error is thrown although the request may have arrived |
| `executor_stuck` | the same file, 241: re-broadcast until the block height expires | `continue` (294) skips the height: with failing sends the loop never ends |
| `batch_sequential` | `stream/README.md` 464: errors are wrapped for every recipient | `createMultipleSequential` executes the first creation as if it prepared the others, drops its result and runs the preparing transaction last |
| `staking_recount` | `rewards.ts` 65: amounts count the seconds since the last claim | after a claim that follows an update, segments before the claim are walked again and rewards already claimed are shown once more |
| `launchpad_search` | `launchpad/README.md` 57: launchpads can be searched by either mint | the offset of the quote mint is 40, the field starts at 48: such a search finds nothing |

Two more steps of the executor reject a transaction that lands, for the same reason
as the first row: an error read at `processed` whose fork is abandoned (373), and
the end of the loop on a height alone, with no status read after it (317). The
comment at 242 announces 30 additional blocks, the loop adds 15 (275); `Grace` is
a parameter, and the proofs hold for both.

### 3.1 Bounds

**Executor.** `LastValid - StartHeight` of 1 leaves room for a round of the loop
before, at and after the last valid height. `Grace` of 2 exceeds `MaxLag`, so the
loop has rounds in which it only confirms, and rounds that see an answer from
before the last valid height. `MaxHeight` is `LastValid + Grace + 1`, so
that every node can see the expiry. `MaxLag` of 1 makes any two calls
disagree. Two transactions and one slot make a send wait; a third would wait in
the same way. `SimulateTries`, `Grace` and `SendRate` are smaller than in the code
(`SIMULATE_TRIES`, 15 and the rate of the throttler), with the same cases. The
proofs have no bounds. The transactions are interchangeable and no property of this
run is about fairness, so `SYMMETRY` is sound.

**Batch.** Three recipients make a first, a middle and a last one, with a
preparing transaction before or after them.

**Streams.** One stream suffices, since a transaction names one; the queries of two
addresses in three directions see it as sender, as recipient and not at all.
`FeeScale` of 10 with a fee of 1 rounds. Six seconds hold a cliff at 2, a
period of 2 cut by a rate change, and an end. During a query, time and token
accounts stand still, because no read of `get` looks at them.

**Staking.** `MaxDuration` of 2 with 5 seconds allows an update of each parameter, in
either order, before, between and after a claim. `Scale` and `Precision` of 2
stand for 10^9: weights of 2 and 3 are a multiple of the former and none, rewards
of the latter or not.

**Chains.** Streams of 4, 4 and 6 periods make fees that differ; two calls race
for one allowance. Amounts of 5 and 15 with a `FeeScale` of 10 make the total of
a batch round differently from the sum of its parts.

**Programs.** `OneInBasisPoints` of 10 with a rate of 3 rounds, and maximum fees of 9
and 1, by epoch, apply below and above the limit. Drops have leaves with and without a
locked amount; schedules start with the creation, start later, or have a period that
the client refuses. `MinUpdatePeriod` of 2 stands for 30 seconds. Deposits
of 2 and 3 under caps of 4 (each) and 5 (all) meet both caps and `autoCap`; one
offer needs a memo, and one is refused by the client for want of an oracle. One
call is followed step by step, with any number of whole calls of others; a second call
followed in the same way would only see what these already do to the first.

`CHECK_DEADLOCK FALSE` in `streams`, `staking`, `chains` and `programs`: their clocks
are bounded, or all calls have ended.

### 3.2 Fairness

`WF(Step(t))`: the event loop runs whatever can run and RPC calls do
not hang. `WF(Advance(l))`: the cluster produces blocks. `SF(Refresh(t))`:
`getBlockHeight` does not fail for ever while it is called for ever.
`SendsRecover`: sends do not fail for ever; the code needs it, as
`executor_stuck` shows, which checks the same specification without it.
In `batch` every started execution settles, which `EverySettles` shows of
the executor under the fairness above, and the calls of the build return.
A cluster that answers only errors can keep every client waiting; the code has
no limit on retries. In `chains`, `WF(Next)` alone: the only loop is the fetching of a
Sui block, which counts its tries, so it is enough that something happens while
something can.

### 3.3 What the properties leave out

The properties are about calls that can succeed. While modelling, the following
cases turned out to fail, or to differ from what one would expect; the properties
name the condition that excludes them, or the model shows them as the code does them.

Streams:

- `create` with `isNative` appends the wrapping of SOL after the creation that
  spends it (`StreamClient.ts` 245-251), `createUnchecked` before; `create` succeeds
  only for a sender who already holds the wrapped amount. `createMultiple` wraps
  without the fees (736).
- An aligned creation whose recipient is also the partner asks for the same token
  account in two lists and creates it twice; an aligned cancellation does not ensure the
  account of its invoker; `topup` wraps without fees and expects the accounts of
  treasury and partner to exist. What the program takes of a native top-up is not in the
  repository; the model assumes that it takes the amount and no fee.
- `update` cannot set a flag to `false` or a number to 0 (`layout.ts` 136-167).
- `get` of type `lock` does not look for aligned streams, although dynamic locks are
  aligned (1400). Its order is descending, the comment (1390) says ascending.
- `calculateUnlockedAmount` knows neither pauses nor `canceledAt`. A lock
  that is set to automatic withdrawal is shown as a payment. `searchStreams` shows
  aligned streams without their proxies. `isPayment` is not what `buildStreamType` computes.

Staking:

- Without a reward entry `calcRewards` starts from one with period 0, and an update
  of the pool makes BN divide by it and throw (126). `Throws` keeps it apart.
- A closed stake is paid up to an update that came after it was closed (151-158). An
  update in the second of the stake, of both parameters at once, or before the entry was
  created, is not exact either (`Followed`).
- `stake` and `unstake` expect the token accounts to exist. `fundPool` takes the account of
  the fee value from its caller while it reads the fee itself: `FundingSucceeds`
  is about callers who name it exactly when it exists. `execute` translates error
  codes of every program with the descriptor of the stake pool. The documentation
  limits the nonce of an entry to a byte; the program takes 32 bits.

Distributor and launchpad:

- A first claim with a locked part so small that the periods completed so far unlock none
  of it fails as a whole, the unlocked part included: the client adds `claimLocked` whenever
  there is a locked amount and a period is over (`BaseDistributorClient.ts` 294-298), and the
  program refuses to pay 0. The amounts of the run avoid it; the proof did not, so `Due` of
  `Airdrops` names the condition. An airdrop
  with locked amounts whose end is not after its start waits one period for its claims.
- The aligned client writes `updatePeriod` in seconds and reads it divided by 10^9
  (`SolanaAlignedDistributorClient.ts` 145 and 55), and leaves out `claimsLimit` and
  `claimsClosableByClaimant`. A transfer fee of all there is divides by zero.
- The launchpad scales `tickSize` by 10^9, which streams and distributors pass raw. Its
  `receiver` and `proxyTokens` ignore the token program of the mint. Its operations expect
  token accounts to exist, as its documentation says. The default compute limit
  of `claimAllocatedVested` is written into the caller's parameters.

Other chains:

- On EVM, `createMultiple` throws when one submission is refused, although others
  are on their way, and nothing of them is returned (`Promise.all`, 127). Errors carry no
  recipient. All creations carry the withdrawal fee of the first recipient
  (`getFeeParams`, 311), so a longer stream reverts (`lacksFee`). `approve` sets the
  allowance, so a call may take what another one relied on (`disturbed` in
  `EnoughFunds`). `topup`, `withdraw`, `cancel`, `transfer` and `update` return
  without waiting. `cliff` is ignored on all three chains.
- On Aptos identifiers of failed creations are returned as well (`finally`), and an
  adapter does not wait for its transactions.
- On Sui the recipients before the one whose command aborted get no result; a lost
  answer counts as an error although the block was executed. The operations other
  than creations return the digest of a block that failed like that of one that
  succeeded. `topup` divides the fee percentages of the stream, which `types.ts` has
  divided by 10000, by 100 before it hands them to a function that takes per cent
  (255); the unit on chain is not in the repository, so the amount `topup` splits off is
  left out. The comment that creations are not chained in one block (93) does not fit
  `generateCreateBlock`, which chains them.

## 4. Proofs

`TLAPS` checks the theorems for every value of the constants: every set of
transactions, calls and stakers, all bounds, every combination of commitment levels,
every set of faults, every number of recipients, all amounts, periods and durations.
The assumptions are those named in the modules, and TLC evaluates them in the runs:

| assumption | says | because |
|---|---|---|
| `ClusterAssumption` | finitely many transactions, heights are numbers | nodes and memory are finite |
| `ExecutorAssumption` | `SimulateTries` and `SendRate` are positive, levels are levels | constants of the code |
| `BatchAssumption` | at least one recipient | the code checks it |
| `ChainAssumption` of `ChainClients` | amounts are natural, the fee of a contract is at most the base fee, a batch is a non-empty sequence | `BN`s; an empty batch sends nothing |
| `ChainAssumption` of `StreamChain` | the bound of time is positive | time starts at 1 |
| `StreamsAssumption` | the data of creations, prices and queries are records of their types; amounts and periods are natural, periods, amounts per period and new rates positive; what is released at the cliff is part of the deposit; no sender or recipient has the address of a contract that the aligned program derives; nobody's address is the `Missing` of `AnchorAccounts`; `MaxTime` is at most `MaxSafeTime` | types and validation of the client and of the programs; derived addresses lie off the curve; the end of aligned streams is beyond every time |
| `ProgramAssumption` | amounts, caps and times are natural; prices, periods, the scale of the fees and the limits of the model are positive; a transfer fee is below all there is; finitely many recipients and depositors; no recipient has the address of its mint or of its airdrop; nobody's address is `Missing`; an offer has the fields of `OfferFields` and names its receiver and oracle | `BN`s and the validation of the client and of the programs; derived addresses lie off the curve |
| `RewardAssumption` | `Scale` and `Precision` are positive | 10^9 each |
| `StakingAssumption` | parameters are positive, the shortest duration is at most the longest, no staker is the account that `Missing` stands for | what the pool is created with; an address that no seed was found for is nobody's |

**Executor** (`TxExecutorProofs`, `TxOutcomeProofs`).

- `TypeCorrect`: `TypeOK`. Inductive only with `TriesLeft`: a running simulation
  has a try left.
- `ThrottlerCorrect`: `ThrottlerConsistent` is inductive; the work is in three
  lemmas on `Append` and `Tail` and in the finiteness of the sends in flight,
  which rests on `Tx` being finite.
- `SignatureCorrect`, `ExpiredCorrect`, `EarlyErrorCorrect`,
  `AcknowledgedCorrect` follow from one inductive invariant, `OutcomeInv`. Its first
  part, `ChainInv`, is about the cluster: levels are ordered, what landed came
  from the pool, in a block between the confirmed tip at the time and the last
  valid height. The second, `LoopInv`, is about each execution: nothing is in the
  pool before the first send; what `answered` records (a transaction that a node
  past `LastValid` did not know is in no block, and no block can take it any
  more); an `Expired` execution ended at a height of at least
  `LastValid + Grace`. `NotSeen` is the one lemma about reading: a node that
  reports neither error nor success does not know the transaction at
  `StatusLevel`.
- `ExecutorImplementsOutcome`: initial states map to initial states and every
  step to a step of `TxOutcome` or to no change, under the invariants above.
- `SettledCorrect`: `SettledIsRight` for the promise itself, inductive with the
  type invariant and "an effect needs a broadcast".

**Batch creation** (`CreateMultipleProofs`).

- `PreparedFirstCorrect`, `ThrownCorrect`, `OneResultCorrect`,
  `ResultsCorrect`, `OneAtATimeCorrect`: for every number of recipients, in the
  variants that `pop` (the theorems assume `"sequential" \notin Variants`, as
  `batch_sequential` shows they must), and `BatchTypeCorrect`. `UsesPromise` maps every
  step of the call to a step of `TxOutcome` or to no change; so `OutcomeInvCorrect`,
  instantiated, holds of its transactions. `CallInv` ties the progress of the call to
  what has been broadcast (nothing while it is built, no creation while it is prepared)
  and to what has been recorded (the i-th response is how the i-th promise settled);
  neither half is inductive without the other. `Returned` turns it into the results.

**Other chains** (`ChainClientsProofs`). `TypeCorrect`, `ReportsAreRight`,
`ThrowsOnlyIfRefused`, `AbortedIsBlamed`, `TokensSuffice` and `StreamsAreAsAsked` state
the six invariants of `chains` for any number of interleaved calls and recipients.
What `ReportsAreRight` says differs by chain, as the clients do: on EVM exactly the recipients of
created streams are named; on Aptos identifiers of failed creations are returned as well; on Sui a
block whose answer was lost counts as an error although its streams exist.
They follow from `ChainInv`, one part per chain:

- `EvmInv`: what the node holds is pending and is held once (`MempoolInv`); what a call
  has submitted and learnt at each of its stages (`StageInv`: before `Submit` it has no
  transaction on its way; it returns when all were mined, and throws for a reason); the
  allowance, with what the call has spent already, covers its total, unless another call
  disturbed it (`FundsInv`); every stream carries what was asked for (`DeployedInv`). `FundsInv`
  is where the fees matter: the total is rounded once and the creations one by one, so
  what the rest needs must be bounded by the sum of the parts, in whatever order the
  miner takes them. The contract's fee being at most the client's is all it needs.
- `AptosInv`: every recipient that the loop has finished is in `txs` or in `failed`, what
  is in `txs` was submitted and is there once, and the two are together as long as the loop
  is far (`ListsInv`), so nobody is in both; the k-th identifier is that of the k-th
  recipient (`NamedInv`).
- `SuiInv`: nothing is told before the call ends; an answer tells how the block was
  executed; a call that ends without one blames nobody, or the command that aborted, which is
  a creation. That the division of its index names the recipient is arithmetic on
  the commands of a block, for every length and number of coins.

**Clients that read, build and land** (`ProgramClientsProofs`). All invariants of
`programs`, for every set of airdrops, trees of recipients, schedules, offers, depositors and
fees, and the formula of the transfer fee.

- What a transaction does is a fold over its instructions. `FoldedExists` and the lemmas after it
  turn it into steps: the state after `n + 1` instructions is the state after `n` of
  them, changed by the next one if it is allowed (`Executed`). So an invariant of single
  instructions is one of transactions, and a transaction is accepted when each instruction is
  allowed in the state that the ones before it leave.
- The invariant has one part per client (`ClientsAlways`): `FundingInv`, `PadInv` and
  `AirInv`. Each says three things, none of which is inductive alone: what the accounts of the
  program contain; what a call that was built will do whatever happens before it lands
  (`FundingIx`, `PadCall`, `DropCall`: who is named in which position, who signs); and
  what more is true of it as long as nothing it read has changed (`PadBuilt`, `DropBuilt`:
  exactly the list of instructions that would be built now). The second part keeps the
  accounts in order when a stale transaction lands, the third gives acceptance.
- `TransferArrives`: for every amount, rate below all there is and maximum, the fee that
  `calculateAmountWithTransferFees` announces is the one the token program keeps of
  what is transferred, and at least the amount asked for arrives. The assumption on
  `OneInBasisPoints` is its hypothesis. The raised amount `t` satisfies
  `amount * B <= t * (B - r) < amount * B + (B - r)`, hence `t - amount` lies less than one
  `B` above `t * r`, and `DivCeilUnique` says that only one number does.
- `VaultAlwaysCovers` (`VaultCoversClaims`): while an airdrop is not clawed back, the vault holds
  at least the sum of what is owed to each recipient (`Owed`, `Covered` in `DropWorld`). The
  property speaks of a sum as well, but of one that folds over the state; `SumOfOwed` shows they agree.
  Creation and funding are one transaction (`CreationRuns`): after the first instruction the
  vault is empty and everything is owed, so `Covered` does not hold in between, and
  `TransferArrives` is what makes it hold at the end. The fee may have changed with the epoch
  since it was read: the token program then refuses a transfer whose announced fee is not
  the one it computes, and with it the creation. Every claim lowers what is owed by what it takes
  (`OwedChanges`).
- `ClaimsTakeAll` (`ClaimTakesAll`): needs only what a claim consists of in any case
  (`ClaimRun`), not that nothing changed. A claim that was built as a first one fails if the
  claim exists by now; one without `claimLocked` was built when no period was over, and a
  claim that lands in the same second finds nothing unlocked.
- `AirdropIsAccepted` (`AirdropCallsSucceed`): from `DropBuilt`, one lemma per operation
  (`DropCreateSucceeds`, `ClaimSucceeds`, `CloseSucceeds`, `ClawSucceeds`). `Ready` is the
  state after the preparing instructions, whether or not there were any: the account
  that is paid exists and nothing else changed. `AlignedClawIs` and `AlignedCreationIs`
  compute the accounts that Anchor completes for the aligned program. A payment is possible
  because the vault covers what is owed, so acceptance rests on `Covered` as well. The
  attempt showed the condition on the first claim of section 3.3.
- `DepositsAreCredited` (`CreditedToOwner`): `PadDeposits` relates each deposit to what was paid
  for its owner by whomever, `PadStreams` each stream to the deposit. A deposit only grows before
  `depositingEnd` and a stream only exists after it (`PadStreams` again), so the allocation
  that a stream holds stays right. The sum of what was paid is in the vault until it is
  collected, so collecting it never overdraws the vault (`TypeOK`).
- `LaunchpadIsAccepted` (`LaunchpadCallsSucceed`): a stream that exists means a deposit that was
  claimed (`PadStreams`); without it a claim could meet a stream that is there already. `Due` of
  `Launchpads` names what is left to the caller: the token accounts, the periods and the caps.
- `FundingIsAccepted` (`FundingSucceeds`): the fee that the client reads in two steps
  (`FundingCall`) is the one the program looks up, whichever of the two accounts sets it.
- `ClientsTypeCorrect` (`TypeOK`): no balance is negative although instructions only subtract, and
  a transaction ends with what it is for. `ClientSearchesFind` (`SearchesFind`):
  the offsets of the searches are where the fields start (`DistributorFields`,
  `LaunchpadFields`), whatever the accounts contain.

For these proofs the model says a few things in a form that can be reasoned about, with the same
meaning: `Stored` and `Merged` (`AnchorAccounts`) instead of the `:>` and `@@` of `TLC`, which has no
definition that the provers could use.

**Staking** (`StakingProofs`). All five invariants of `staking`.

- `StakingTypeCorrect` rests on `StakingInv`: every account lies at the address
  derived from its own contents, and has the type its address promises. The types alone
  are not inductive, because an operation writes to the address that Anchor completes
  for it. What that is, is said once per instruction by the lemmas ending in `Completed`:
  `CompletedUnfolds` shows for any descriptor that can be ordered in two layers
  (accounts that follow from names and arguments; accounts that follow from those) what
  each step of the completion adds, and each instruction supplies its layers.
- `WeightsCorrect`: no shorter stake weighs more and a weight lies between one and the
  maximum, for all durations. Rounding down preserves order (`FloorIs`).
- `NothingStrandedCorrect`: with what the searches show, the addresses of every open
  stake and every reward entry can be derived, and the programs accept the instructions
  that pay them out. It needs `StakingInv` and the completion lemmas.
- `SearchesCorrect`: an offset computed by adding up the layout before a field is where the
  field starts, and a search compares that field (`StartIn` by induction over the layout).
- `RewardsExactCorrect`: the rewards that `calcRewards` shows are those the pool owes.
  `RewardsExact` itself says nothing of a stake without a reward entry, or of how a later
  update will find an entry that is exact now, so it is far from inductive. `EarnedInv` is:
  while there is no reward pool, nothing has been earned (`Waiting`); from then on the
  `Tally` over the spans that have ended equals what was earned before the rate last
  changed, the periods since then are exactly those of the current span (`Follows`), the
  rates remembered by the entry are those of the pool when it was accounted
  (`LastRates`), and an update the entry has not seen is recorded in the pool (`Noticed`).
  The heart is `UpdatesExtended`: an update of a parameter extends the list that
  `calcRewards` folds over by the one span that the pool just closed, and leaves what it
  had before, so `TallyExtended` adds to the tally exactly what `RoundedAll` adds to the
  reference. `EarnedInv` assumes what `RewardsExact` does: histories that the pool's record of
  its updates can follow (`Countable`).

**Streams** (`StreamsProofs`). For every set of streams, wallets, shapes and rates.

- `StreamsTypeCorrect` (`TypeOK`), `UnlockedExactCorrect` (`UnlockedIsExact`) and
  `KeepsTypeCorrect` (the action property `KeepsItsType`) follow from `IInv`. It says of a
  stream (`IsStream`) which records it is made of and between whom (`Parties`), that its
  amounts fit (`Amounts`), that what the program has accounted for is what a count from
  the beginning gives (`Counted`), and when it ends (`Ending`: a plain stream when all
  of it is unlocked at its rate, an aligned one never by itself). `Counted` is what
  `UnlockedIsExact` needs and does not say: the amount accrued is the rate times the periods
  completed since the last change of the rate (or the cliff), with what was saved then,
  and the next unlock is the end of the period that runs. Without it a change of the rate, or
  the passing of time over the end of a period, cannot be followed.
- A transaction is a list of instructions that is folded over the chain. `RunIsStepwise`
  gives the states in between; `LandsLast` turns it into what the proofs use: the token
  accounts that an operation creates first change nothing else, so a transaction that
  lands does what its last instruction does. One lemma per operation (`WithdrawEffect`,
  `CancelStreamEffect`, ...) reads the accounts by their position in the list that the
  client built, which is where a swapped pair of accounts would show.
- `NextSteps` sorts all the steps into what they do to the streams (`Step`): nothing, a
  stream revised, one canceled, one created (plain or aligned), or time passing. Each
  kind has its lemma that `IInv` survives. The lemmas on periods (`NextPeriod`, `RateIsCounted`,
  `PassedIsStream`) hold the arithmetic: one unit of time completes at most one period.
- A stream keeps its type because the type depends on the amounts released at the cliff,
  on the deposit and on the number of periods: a deposit can only grow on a stream that was
  created with `canTopup`, and such a stream is a payment whatever its amounts are.
- `GetCorrect` (`GetIsRight`) follows from `QInv`, about a query between its reads (`Known`):
  what has been found so far lies between `always` and `ever`, and every stream of
  `always` is either found or will be by a reader that is still to come. It is not the
  property with a weaker guard: the property only speaks of the end. An operation may land between any
  two reads, so `StillKnown` is the interleaving: a transfer takes a stream out of `always`
  and puts another into `ever`, and what is found stays in bounds because a stream's kind and
  creator do not change (`StepKeepsKind`) and streams are never removed (`StepGrows`). Each
  read has its lemma (`OutgoingKnown` to `IncomingProxiesKnown`). That the decoded copy of a
  contract may be older than the stream it is joined with is harmless because the contract's
  sender never changes. `FieldsByOffset` shows from the layouts that the offsets the
  client compares are those of the sender and the recipient.
- `BuiltCorrect` (`BuiltIsAccepted`) is the converse of the lemmas on effects: it shows that a
  transaction *does* land. `Leads` composes lists of instructions; `EnsureAtasLeads` is the
  contract of `checkTokenAccounts`: it exhibits the states between (after `n` instructions the
  accounts of the first `n` missing owners exist), and no instruction is refused because `SetToSeq` lists every
  owner once. So the missing accounts are created, once even when parties share an owner. From
  there every guard of the last instruction holds: the stream's own accounts (`Parties`), the positions
  (`AllRead`), the accounts that Anchor derives (`Derived`), and what is
  wrapped (`TotalCovers`: the total truncated once is never below the deposit plus its truncated fee).
  It holds of the calls, and under the conditions, that the property lists: the calls that 3.3
  names as failing are not among them, and a call lands in the state it was built from.
  The attempt showed one more exclusion that the instance did not reach, since its
  treasury receives nothing: an aligned creation whose recipient is the
  treasury, without an account, creates that account twice.

**Common** (`CommonTheorems`). Folding over a batch or over what is left of it is an induction
over the data. The library's induction theorems need an operator as a parameter, but
for sets of numbers and finite sets the well-foundedness of `<` on the naturals is
enough: `LeastNat`, `Inductive` and `SetInductive` are stated on sets. From them: a sum
over a finite set exists and does not depend on the order (`SumExists`,
`SumInAnyOrder`), is monotone, and a part sums to at most the whole (`SumOfPart`). The
module also holds what the proofs on Anchor accounts share (`CompletedUnfolds`, `TwoLayers`
and the lemmas on seeds) and the lemmas on rounding down.

Model-checked only:

- `EverySettles` and both `CallEnds`: liveness and ENABLED are out of the prover's reach.
- The runs that end in a violation, naturally.

Every invariant and action property that a passing run checks has its theorem.

## 5. Not modelled

- The on-chain programs beyond what the clients can see of them: price oracles, the amounts
  of aligned updates, how `claimsLimit` is counted, governance, `updateDuration`.
- `createAtaBatch`, `generateCreateAtaBatchTx` and `enrichAtaParams`, which no client
  calls. The first derives the address without the token program it passes on (467).
- Floating point: `getBN`, `getNumberFromBN` and the percentage of a fee
  (`stream/common/utils.ts` 45). Fees are whole numbers of their smallest unit.
- The bytes of arguments and accounts, decoding of errors and instructions, wallet
  adapters, signing, `GenericStreamClient` beyond its clients (a dispatch), searches
  by several fields of streams, `getFees`, pagination.
- Limits of nodes, such as the number of accounts of one `getMultipleAccountsInfo`
  (1359), and the throttler's interval, which is a delay. Executions that do not share
  a throttler are independent of each other.
- Replaced or reverted approvals on EVM; the unit of the fee of `topup` on Sui.
- The web site of the documentation, lint and build configuration.
