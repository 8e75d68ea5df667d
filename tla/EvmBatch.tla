------------------------------ MODULE EvmBatch ------------------------------
(***************************************************************************)
(* The operations of evm/StreamClient.ts that send transactions.  The      *)
(* tokens of a creation or a top-up are taken from the allowance of the    *)
(* signer, which a call reads, raises if it is too small and then relies   *)
(* on; createMultiple submits one transaction per recipient at the same    *)
(* time.  Calls of one signer run concurrently; the chain mines its        *)
(* transactions in the order of their nonces.  A definition that no action *)
(* uses is a plausible slip in the definition that follows it.             *)
(***************************************************************************)
EXTENDS EvmAbi, UnlockSchedule, FiniteSetsExt, SequencesExt

CONSTANTS
    Calls,       \* the calls of one signer
    Operations,  \* [kind, items]: what a call may be asked to do
    Config,      \* the parameters all recipients share
    BaseFee,     \* BASE_FEE beyond FeeScale
    ContractFee, \* the fee the contract takes
    Sender       \* the signer

VARIABLES
    op,        \* what each call was asked to do
    stage,     \* progress of each call
    fees,      \* value that the creations of a call carry
    fate,      \* for each item of each call, what became of its transaction
    allowance, \* of the contract over the tokens of the signer
    mempool,   \* <<call, item>>: submitted transactions by nonce; item 0 approves
    deployed,  \* the streams on chain
    disturbed  \* calls another call's transaction was mined in since they read the allowance

vars == <<op, stage, fees, fate, allowance, mempool, deployed, disturbed>>

NoOp == [kind |-> "none", items |-> <<>>]
Items(c) == DOMAIN op[c].items
Id(c, i) == <<c, i>>

Fates == {"none", "refused", "pending", "mined", "lacksAllowance", "lacksFee", "reverted"}
Ended == {"returned", "thrown"}
Stages == {"idle", "fees", "allowance", "approve", "approving", "submit", "wait"} \cup Ended

Init ==
    /\ op = [c \in Calls |-> NoOp]
    /\ stage = [c \in Calls |-> "idle"]
    /\ fees = [c \in Calls |-> 0]
    /\ fate = [c \in Calls |-> <<>>]
    /\ allowance = 0
    /\ mempool = <<>>
    /\ deployed = <<>>
    /\ disturbed = {}

-----------------------------------------------------------------------------
At(c, from, to) == stage[c] = from /\ stage' = [stage EXCEPT ![c] = to]

chainVars == <<allowance, mempool, deployed>>

(* withdraw, cancel, transfer and update submit at once.                   *)
Start(c) ==
    \E o \in Operations :
        /\ At(c, "idle", IF o.kind = "interact" THEN "submit" ELSE "fees")
        /\ op' = [op EXCEPT ![c] = o]
        /\ fate' = [fate EXCEPT ![c] = [i \in DOMAIN o.items |-> "none"]]
        /\ UNCHANGED <<fees, chainVars, disturbed>>

(* getWithdrawalFees, or getTopUpWithdrawalFees and getOne.                *)
ReadFees(c) ==
    /\ At(c, "fees", "allowance")
    /\ fees' = [fees EXCEPT ![c] =
                  IF op[c].kind = "topup" THEN 0
                  ELSE WithdrawalFee(Named(FeeInputs, FeeParams(Config, op[c].items)))]
    /\ UNCHANGED <<op, fate, chainVars, disturbed>>

(* The total of the batch is scaled, not each amount.                      *)
Total(c) == FoldSeq(LAMBDA item, acc : acc + item.amount, 0, op[c].items)

SumOfFirst(c) == TotalAmountToDeposit(op[c].items[1].amount, BaseFee)

Sum(c) == TotalAmountToDeposit(Total(c), BaseFee)

(* approveTokens *)
ReadAllowance(c) ==
    /\ At(c, "allowance", IF allowance >= Sum(c) THEN "submit" ELSE "approve")
    /\ disturbed' = disturbed \ {c}
    /\ UNCHANGED <<op, fees, fate, chainVars>>

Approve(c) ==
    /\ At(c, "approve", "approving")
    /\ mempool' = Append(mempool, <<c, 0>>)
    /\ UNCHANGED <<op, fees, fate, allowance, deployed, disturbed>>

Approved(c) ==
    /\ \A k \in DOMAIN mempool : mempool[k] # <<c, 0>>
    /\ At(c, "approving", "submit")
    /\ UNCHANGED <<op, fees, fate, chainVars, disturbed>>

(* A call of the node, or the wallet, fails before a creation is submitted.*)
Fail(c) ==
    /\ stage[c] \in {"fees", "allowance", "approve", "approving"}
    /\ stage' = [stage EXCEPT ![c] = "thrown"]
    /\ UNCHANGED <<op, fees, fate, chainVars, disturbed>>

-----------------------------------------------------------------------------
(* The creations are submitted at the same time.  One that is refused      *)
(* rejects Promise.all; those under way go on.                             *)
Submitting(c) ==
    \/ stage[c] = "submit"
    \/ stage[c] = "thrown" /\ \E k \in Items(c) : fate[c][k] = "refused"

Submit(c, i) ==
    /\ Submitting(c)
    /\ fate[c][i] = "none"
    /\ fate' = [fate EXCEPT ![c][i] = "pending"]
    /\ mempool' = Append(mempool, <<c, i>>)
    /\ UNCHANGED <<op, stage, fees, allowance, deployed, disturbed>>

Refuse(c, i) ==
    /\ Submitting(c)
    /\ fate[c][i] = "none"
    /\ fate' = [fate EXCEPT ![c][i] = "refused"]
    /\ stage' = [stage EXCEPT ![c] = "thrown"]
    /\ UNCHANGED <<op, fees, chainVars, disturbed>>

(* Only creations are waited for.                                          *)
Submitted(c) ==
    /\ \A i \in Items(c) : fate[c][i] \notin {"none", "refused"}
    /\ At(c, "submit", IF op[c].kind \in {"create", "createMultiple"} THEN "wait" ELSE "returned")
    /\ UNCHANGED <<op, fees, fate, chainVars, disturbed>>

Settled(c) == \A i \in Items(c) : fate[c][i] \notin {"none", "pending"}

(* create awaits one receipt and throws if it reverted; createMultiple     *)
(* awaits all of them with allSettled.                                     *)
ThrowsOnRevert(c) == \E i \in Items(c) : fate[c][i] # "mined"

Throws(c) == op[c].kind = "create" /\ fate[c][1] # "mined"

Confirm(c) ==
    /\ Settled(c)
    /\ At(c, "wait", IF Throws(c) THEN "thrown" ELSE "returned")
    /\ UNCHANGED <<op, fees, fate, chainVars, disturbed>>

(* What createMultiple returns: an identifier per confirmed creation,      *)
(* given to the recipient of the same index, and an error per receipt that *)
(* was rejected.                                                           *)
Rejected == {"lacksAllowance", "lacksFee", "reverted"}

Confirmed(c) == {i \in Items(c) : fate[c][i] = "mined"}

MetadatasByRank(c) ==
    [id \in {Id(c, i) : i \in Confirmed(c)} |->
        op[c].items[Cardinality({k \in Confirmed(c) : k <= id[2]})]]

MetadataToRecipient(c) ==
    [id \in {Id(c, i) : i \in Confirmed(c)} |-> op[c].items[id[2]]]

Failures(c) == Cardinality({i \in Items(c) : fate[c][i] \in Rejected})

-----------------------------------------------------------------------------
(* The chain mines the next transaction of the signer.  A creation needs   *)
(* its own tokens and fees and may revert for reasons of its own.          *)
Charge(c, i) == TotalAmountToDeposit(op[c].items[i].amount, ContractFee)

FeeOf(c, i) == WithdrawalFee(Named(FeeInputs, FeeParams(Config, <<op[c].items[i]>>)))

Funded(c) == op[c].kind # "interact"
Creates(c) == op[c].kind \in {"create", "createMultiple"}

MineAs(c, i, outcome) ==
    /\ fate' = [fate EXCEPT ![c][i] = outcome]
    /\ allowance' = IF outcome = "mined" /\ Funded(c) THEN allowance - Charge(c, i) ELSE allowance
    /\ deployed' = IF outcome = "mined" /\ Creates(c)
                   THEN [id \in DOMAIN deployed \cup {Id(c, i)} |->
                           IF id = Id(c, i)
                           THEN Stored(Payload(Config, op[c].items[i], Sender), Sender)
                           ELSE deployed[id]]
                   ELSE deployed

Mine ==
    /\ mempool # <<>>
    /\ mempool' = Tail(mempool)
    /\ LET c == mempool[1][1]  i == mempool[1][2] IN
        /\ disturbed' = disturbed \cup (Calls \ {c})
        /\ \/ /\ i = 0
              /\ allowance' = Sum(c)
              /\ UNCHANGED <<fate, deployed>>
           \/ /\ i # 0 /\ Funded(c) /\ allowance < Charge(c, i)
              /\ MineAs(c, i, "lacksAllowance")
           \/ /\ i # 0 /\ Creates(c) /\ allowance >= Charge(c, i) /\ fees[c] < FeeOf(c, i)
              /\ MineAs(c, i, "lacksFee")
           \/ /\ i # 0
              /\ Funded(c) => allowance >= Charge(c, i)
              /\ Creates(c) => fees[c] >= FeeOf(c, i)
              /\ \E outcome \in {"mined", "reverted"} : MineAs(c, i, outcome)
    /\ UNCHANGED <<op, stage, fees>>

CallNext(c) ==
    \/ Start(c) \/ ReadFees(c) \/ ReadAllowance(c) \/ Approve(c) \/ Approved(c) \/ Fail(c)
    \/ \E i \in Items(c) : Submit(c, i) \/ Refuse(c, i)
    \/ Submitted(c) \/ Confirm(c)

Next == Mine \/ \E c \in Calls : CallNext(c)

=============================================================================
