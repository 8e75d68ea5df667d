------------------------------ MODULE SuiBatch ------------------------------
(***************************************************************************)
(* The operations of sui/StreamClient.ts.  The creations of all recipients *)
(* of createMultiple are commands of one transaction block, after the      *)
(* commands that merge the coins of the sender and split the total off     *)
(* them.  An error of the block names the command that failed, and the     *)
(* client turns it into errors of recipients.  The other operations run    *)
(* one call in a block, and throw what its execution throws.  A definition *)
(* that no action uses is a plausible slip in the definition that follows  *)
(* it.                                                                     *)
(***************************************************************************)
EXTENDS UnlockSchedule, FiniteSetsExt, SequencesExt

CONSTANTS
    Batch,    \* the recipients of createMultiple, with the amount for each
    Coins,    \* numbers of coins the sender may hold
    TotalFee, \* the fee of the contract, as getTotalFee reads it
    Retries   \* retries of getTransactionBlock

VARIABLES
    operation, \* "interact" is withdraw, cancel, transfer or update
    coins,     \* number of coins of the sender
    native,    \* the coins are SUI, which also pays for gas
    step,      \* progress of the call
    executed,  \* "no", "success" or "failure" of the block
    abortedAt, \* index of the command an error is about, -1 if there is none
    tries,     \* of getTransactionBlock
    digest,    \* the digest was added to txs
    metadatas, \* indices of the recipients whose stream is returned
    errors     \* indices of the recipients an error is returned for

vars == <<operation, coins, native, step, executed, abortedAt, tries, digest, metadatas, errors>>

Ended == {"returned", "thrown"}
Steps == {"fee", "build", "execute", "fetch", "backoff"} \cup Ended
Kinds == {"create", "createMultiple", "topup", "interact"}
Creates == operation \in {"create", "createMultiple"}
All == IF operation = "createMultiple" THEN DOMAIN Batch ELSE {1}

Init ==
    /\ operation \in Kinds
    /\ coins \in Coins
    /\ native \in BOOLEAN
    /\ step = CASE Creates -> "fee" [] operation = "topup" -> "build" [] OTHER -> "execute"
    /\ executed = "no"
    /\ abortedAt = -1
    /\ tries = 0
    /\ digest = FALSE
    /\ metadatas = {} /\ errors = {}

-----------------------------------------------------------------------------
(* generateCreateBlock: the first coin takes in the others, the total is   *)
(* split off, one call per recipient, and the rest is merged back.         *)
Merges == IF coins > 1 THEN <<"merge">> ELSE <<>>

CreateBlock == Merges \o <<"split">> \o [i \in All |-> "call"] \o <<"merge">>

TopupBlock == Merges \o <<"split", "call", "merge">>

InteractBlock == <<"call">>

Block ==
    CASE Creates -> CreateBlock
      [] operation = "topup" -> TopupBlock
      [] operation = "interact" -> InteractBlock

(* firstIndex, the Result index of the first call.  Commands count from 0. *)
FirstIndexUnmerged == 1

FirstIndex == Len(Merges) + 1

FirstAmount == TotalAmountToDeposit(Batch[1].amount, TotalFee)

SplitAmount ==
    TotalAmountToDeposit(
        FoldSet(LAMBDA i, acc : acc + Batch[i].amount, 0, All), TotalFee)

ReadFee ==
    /\ step = "fee"
    /\ step' \in {"build", "thrown"}
    /\ UNCHANGED <<operation, coins, native, executed, abortedAt, tries, digest, metadatas, errors>>

(* Reads the coins, and for topup the stream.  coins[0] is named unless it *)
(* is the gas coin.                                                        *)
Build ==
    /\ step = "build"
    /\ step' \in IF coins = 0 /\ ~native THEN {"thrown"} ELSE {"execute", "thrown"}
    /\ UNCHANGED <<operation, coins, native, executed, abortedAt, tries, digest, metadatas, errors>>

-----------------------------------------------------------------------------
(* The catch clause: without an index, or with one of another command,     *)
(* everybody gets the error; otherwise the recipient whose command aborted *)
(* and those after it.                                                     *)
Blamed(index) ==
    {i \in All :
        \/ index = -1
        \/ index < i - 1 + FirstIndex
        \/ index >= Cardinality(All) + FirstIndex
        \/ index = i - 1 + FirstIndex}

Catch(index) ==
    /\ abortedAt' = index
    /\ IF operation # "createMultiple"
       THEN step' = "thrown" /\ UNCHANGED errors
       ELSE step' = "returned" /\ errors' = Blamed(index)

(* The block is refused, by the wallet or by a call that aborts when it is *)
(* tried; or it was executed, and the answer is lost.                      *)
Refused ==
    /\ step = "execute"
    /\ \E index \in {-1} \cup {k - 1 : k \in {j \in DOMAIN Block : Block[j] = "call"}} :
          Catch(index)
    /\ UNCHANGED <<operation, coins, native, executed, tries, digest, metadatas>>

AnswerLost ==
    /\ step = "execute"
    /\ executed' \in {"success", "failure"}
    /\ Catch(-1)
    /\ UNCHANGED <<operation, coins, native, tries, digest, metadatas>>

(* A failed block gives everybody its error, a successful one emits the    *)
(* identifiers in the order of its calls.  create reads the first event of *)
(* the answer, and throws if there is none; topup and the interactions     *)
(* return the digest without a look at the outcome.                        *)
Answered(outcome) ==
    /\ metadatas' = IF Creates /\ outcome = "success" THEN All ELSE metadatas
    /\ errors' = IF operation = "createMultiple" /\ outcome = "failure" THEN All ELSE errors
    /\ IF operation = "create" /\ outcome = "failure"
       THEN step' = "thrown" /\ UNCHANGED digest
       ELSE step' = "returned" /\ digest' = TRUE

Executed ==
    /\ step = "execute"
    /\ executed' \in {"success", "failure"}
    /\ Answered(executed')
    /\ UNCHANGED <<operation, coins, native, abortedAt, tries>>

(* A wallet returns neither effects nor events: createMultiple fetches the *)
(* transaction block.                                                      *)
ExecutedWithoutEffects ==
    /\ step = "execute"
    /\ Creates
    /\ executed' \in {"success", "failure"}
    /\ step' = IF operation = "create" THEN "thrown" ELSE "fetch"
    /\ UNCHANGED <<operation, coins, native, abortedAt, tries, digest, metadatas, errors>>

Fetched ==
    /\ step = "fetch"
    /\ Answered(executed)
    /\ UNCHANGED <<operation, coins, native, executed, abortedAt, tries>>

(* Only a transaction that is not found is asked for again.                *)
RetriesLeftAlways == TRUE

RetriesLeft == tries < Retries

NotFound ==
    /\ step = "fetch"
    /\ IF RetriesLeft
       THEN /\ step' = "backoff" /\ tries' = Least(tries + 1, Retries)
            /\ UNCHANGED <<abortedAt, errors>>
       ELSE Catch(-1) /\ UNCHANGED tries
    /\ UNCHANGED <<operation, coins, native, executed, digest, metadatas>>

Backoff ==
    /\ step = "backoff"
    /\ step' = "fetch"
    /\ UNCHANGED <<operation, coins, native, executed, abortedAt, tries, digest, metadatas, errors>>

FetchFails ==
    /\ step = "fetch"
    /\ Catch(-1)
    /\ UNCHANGED <<operation, coins, native, executed, tries, digest, metadatas>>

Next ==
    \/ ReadFee \/ Build \/ Refused \/ AnswerLost \/ Executed
    \/ ExecutedWithoutEffects \/ Fetched \/ NotFound \/ Backoff \/ FetchFails

=============================================================================
