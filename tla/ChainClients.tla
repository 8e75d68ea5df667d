---------------------------- MODULE ChainClients ----------------------------
(***************************************************************************)
(* GenericStreamClient on the chains other than Solana: it is constructed  *)
(* for one chain and passes its calls to the client of that chain.         *)
(***************************************************************************)
EXTENDS UnlockSchedule, FiniteSets, Sequences

CONSTANTS
    Calls, Operations, Config, BaseFee, ContractFee, Sender, \* see EvmBatch
    Batch,                    \* see AptosBatch and SuiBatch
    Coins, TotalFee, Retries  \* see SuiBatch

ASSUME ChainAssumption ==
    /\ BaseFee \in Nat /\ ContractFee \in 0..BaseFee
    /\ Coins \subseteq Nat /\ TotalFee \in Nat /\ Retries \in Nat
    /\ \A items \in {Batch} \cup {o.items : o \in Operations} :
         /\ items \in Seq({items[i] : i \in DOMAIN items})
         /\ \A i \in DOMAIN items : items[i].amount \in Nat
    /\ Len(Batch) > 0

VARIABLES
    chain, \* the chain the client was constructed for
    op, stage, fees, fate, allowance, mempool, deployed, disturbed,
    operation, wallet, step, current, submissions, txs, named, failed,
    coins, native, executed, abortedAt, tries, digest, metadatas, errors

evmVars == <<op, stage, fees, fate, allowance, mempool, deployed, disturbed>>
moveVars == <<operation, step>>
aptosVars == <<wallet, current, submissions, txs, named, failed>>
suiVars == <<coins, native, executed, abortedAt, tries, digest, metadatas, errors>>
vars == <<chain, evmVars, moveVars, aptosVars, suiVars>>

Evm == INSTANCE EvmBatch
Aptos == INSTANCE AptosBatch WITH fate <- submissions, metadatas <- named, errors <- failed
Sui == INSTANCE SuiBatch

Init ==
    /\ chain \in {"evm", "aptos", "sui"}
    /\ Evm!Init
    /\ IF chain = "aptos" THEN Aptos!Init ELSE
         /\ wallet = "account" /\ current = 1 /\ submissions = <<>>
         /\ txs = <<>> /\ named = <<>> /\ failed = <<>>
    /\ IF chain = "sui" THEN Sui!Init ELSE
         /\ coins = 0 /\ native = FALSE /\ executed = "no" /\ abortedAt = -1
         /\ tries = 0 /\ digest = FALSE /\ metadatas = {} /\ errors = {}
    /\ chain = "evm" => operation = "create" /\ step = "returned"

OnEvm(action) ==
    chain = "evm" /\ action /\ UNCHANGED <<chain, moveVars, aptosVars, suiVars>>
OnAptos(action) == chain = "aptos" /\ action /\ UNCHANGED <<chain, evmVars, suiVars>>

EvmCall(c) == OnEvm(Evm!CallNext(c))
EvmMine == OnEvm(Evm!Mine)
AptosCall == OnAptos(Aptos!CallNext)
AptosCommit == OnAptos(Aptos!Commit)
SuiCall == chain = "sui" /\ Sui!Next /\ UNCHANGED <<chain, evmVars, aptosVars>>

Next == (\E c \in Calls : EvmCall(c)) \/ EvmMine \/ AptosCall \/ AptosCommit \/ SuiCall

(* The event loop and the chains do not stop as long as there is something *)
(* to do; that is enough, because only the fetching on Sui has a loop.     *)
Fairness == WF_vars(Next)

Spec == Init /\ [][Next]_vars /\ Fairness

-----------------------------------------------------------------------------
TypeOK ==
    /\ stage \in [Calls -> Evm!Stages]
    /\ \A c \in Calls :
         /\ op[c] = Evm!NoOp \/ op[c] \in Operations
         /\ DOMAIN fate[c] = Evm!Items(c)
         /\ \A i \in Evm!Items(c) : fate[c][i] \in Evm!Fates
    /\ allowance \in Nat
    /\ \A k \in DOMAIN mempool : mempool[k][1] \in Calls
    /\ chain = "aptos" =>
         /\ step \in Aptos!Steps /\ current \in DOMAIN Batch
         /\ \A i \in DOMAIN Batch : submissions[i] \in Aptos!Fates
         /\ Len(named) <= Len(Batch)
    /\ chain = "sui" =>
         /\ step \in Sui!Steps /\ tries \in 0..Retries
         /\ metadatas \subseteq DOMAIN Batch /\ errors \subseteq DOMAIN Batch

-----------------------------------------------------------------------------
(* What createMultiple reports (evm/StreamClient.ts:129-161, aptos:84-108, *)
(* sui:113-159).  On EVM every creation that took effect is returned with  *)
(* its own recipient, and every other one counts as an error.  On Aptos    *)
(* every creation that took effect, or still may, is returned with its     *)
(* recipient, and each recipient counts once, in txs or in errors.  On Sui *)
(* the streams of all recipients are returned or none, only if the block   *)
(* took effect, and never without an answer if it did.  The operations     *)
(* that are one call return a hash or digest only of a transaction that    *)
(* was sent.                                                               *)
EvmAnswers ==
    \A c \in Calls :
        stage[c] = "returned" /\ op[c].kind = "createMultiple" =>
            LET made == {i \in Evm!Items(c) : fate[c][i] = "mined"}
                answer == Evm!MetadataToRecipient(c)
            IN  /\ DOMAIN answer = {Evm!Id(c, i) : i \in made}
                /\ \A i \in made : answer[Evm!Id(c, i)] = op[c].items[i]
                /\ Cardinality(made) + Evm!Failures(c) = Len(op[c].items)

AptosAnswers ==
    step \in Aptos!Ended =>
        /\ operation = "createMultiple" =>
             \A i \in DOMAIN Batch :
                /\ submissions[i] \in {"submitted", "created"} =>
                     \E k \in DOMAIN named : named[k] = <<Aptos!MetadataId(i), Batch[i]>>
                /\ \/ \E k \in DOMAIN txs : txs[k] = i
                   \/ \E k \in DOMAIN failed : failed[k] = Batch[i]
        /\ operation = "createMultiple" => Len(txs) + Len(failed) = Len(Batch)
        /\ \A k \in DOMAIN txs :
             /\ submissions[txs[k]] # "none"
             /\ \A j \in DOMAIN txs : txs[j] = txs[k] => j = k

SuiAnswers ==
    step \in Sui!Ended =>
        /\ metadatas \in {{}, Sui!All}
        /\ metadatas # {} => executed = "success" /\ digest /\ errors = {}
        /\ digest => executed # "no"
        /\ step = "returned" /\ Sui!Creates =>
             /\ executed = "success" => metadatas \cup errors = Sui!All
             /\ metadatas \cup errors # {}
        /\ step = "returned" /\ ~Sui!Creates => digest /\ metadatas \cup errors = {}

AnswersAreRight ==
    /\ chain = "evm" => EvmAnswers
    /\ chain = "aptos" => AptosAnswers
    /\ chain = "sui" => SuiAnswers

(* evm/StreamClient.ts:127-129: createMultiple throws with transactions on *)
(* their way only if the submission of another one was refused; a creation *)
(* that reverts is reported and not thrown.                                *)
ThrownMeansRefused ==
    \A c \in Calls :
        stage[c] = "thrown" /\ op[c].kind = "createMultiple"
        /\ (\E i \in Evm!Items(c) : fate[c][i] \notin {"none", "refused"})
            => \E i \in Evm!Items(c) : fate[c][i] = "refused"

(* sui/StreamClient.ts:138-154: when a call of the block aborts, the       *)
(* recipient it was made for gets the error, whatever coins were merged    *)
(* before.                                                                 *)
FailingIsTold ==
    chain = "sui" /\ step = "returned" /\ abortedAt >= 0 =>
        Cardinality({k \in 1..abortedAt + 1 : Sui!Block[k] = "call"}) \in errors

(* The tokens a call provides cover all its creations: the allowance of    *)
(* evm/StreamClient.ts:271-280, unless the transaction of another call was *)
(* mined since it was read, and the coin split off by sui/StreamClient.ts: *)
(* 505-522, although the fees of each creation are rounded on their own.   *)
EnoughFunds ==
    /\ \A c \in Calls : \A i \in Evm!Items(c) :
         fate[c][i] = "lacksAllowance" => c \in disturbed
    /\ chain = "sui" /\ Sui!Creates =>
         LET taken[n \in 0..Len(Batch)] ==
                 IF n = 0 THEN 0
                 ELSE taken[n - 1] + TotalAmountToDeposit(Batch[n].amount, TotalFee)
         IN  taken[Cardinality(Sui!All)] <= Sui!SplitAmount

(* generateMultiPayloads (evm/StreamClient.ts:283-309) against abi.ts: the *)
(* stream on chain, shown by EvmContract, is the one that was asked for.   *)
CreatedAsAsked ==
    \A id \in DOMAIN deployed :
        Evm!EvmContract(deployed[id]) = Evm!Asked(Config, op[id[1]].items[id[2]], Sender)

(* Every call ends: on EVM if what is submitted is mined, on Sui although  *)
(* the node may never find the transaction (sui/utils.ts:42-52).           *)
CallEnds ==
    /\ \A c \in Calls : stage[c] # "idle" ~> stage[c] \in Evm!Ended
    /\ chain # "evm" ~> step \in {"returned", "thrown"}
=============================================================================
