----------------------------- MODULE AptosBatch -----------------------------
(***************************************************************************)
(* The operations of aptos/StreamClient.ts.  createMultiple submits one    *)
(* transaction per recipient, one after the other.  Every stream is given  *)
(* an address drawn before anything is sent, and that address is returned  *)
(* whether or not the transaction is known to have succeeded.  The other   *)
(* operations submit one transaction, and throw what it throws.  A         *)
(* definition that no action uses is a plausible slip in the definition    *)
(* that follows it.                                                        *)
(***************************************************************************)
EXTENDS Naturals, Sequences, SequencesExt

CONSTANT Batch \* the recipients of createMultiple

VARIABLES
    operation, \* "interact" is withdraw, cancel, transfer, topup or update
    wallet,    \* "account", which waits for its transactions, or "adapter"
    step,      \* of the current transaction, or how the call ended
    current,   \* index of the current recipient
    fate,      \* what became of each transaction
    txs,       \* indices of the transactions whose hash is returned
    metadatas, \* metadataId and recipient, in the order they were pushed
    errors     \* recipients of the errors

vars == <<operation, wallet, step, current, fate, txs, metadatas, errors>>

Kinds == {"create", "createMultiple", "interact"}
MetadataId(i) == <<"resource", i>>
Fates == {"none", "submitted", "created", "failed"}
Ended == {"returned", "thrown"}
Steps == {"sign", "wait"} \cup Ended

Init ==
    /\ operation \in Kinds
    /\ wallet \in {"account", "adapter"}
    /\ step = "sign"
    /\ current = 1
    /\ fate = [i \in DOMAIN Batch |-> "none"]
    /\ txs = <<>> /\ metadatas = <<>> /\ errors = <<>>

Creates == operation # "interact"
Size == IF operation = "createMultiple" THEN Len(Batch) ELSE 1

-----------------------------------------------------------------------------
(* finally: the identifier is named after a success as after an error.     *)
NamedIfSent(sent) ==
    metadatas' = IF Creates /\ sent
                 THEN Append(metadatas, <<MetadataId(current), Batch[current]>>)
                 ELSE metadatas

Named(sent) ==
    metadatas' = IF Creates
                 THEN Append(metadatas, <<MetadataId(current), Batch[current]>>)
                 ELSE metadatas

AdvancePast ==
    IF current > Size
    THEN step' = "returned" /\ UNCHANGED current
    ELSE step' = "sign" /\ current' = current + 1

Advance ==
    IF current = Size
    THEN step' = "returned" /\ UNCHANGED current
    ELSE step' = "sign" /\ current' = current + 1

Push ==
    /\ txs' = Append(txs, current)
    /\ Named(TRUE)
    /\ Advance
    /\ UNCHANGED errors

Catch ==
    IF operation # "createMultiple"
    THEN step' = "thrown" /\ UNCHANGED <<current, txs, metadatas, errors>>
    ELSE /\ errors' = Append(errors, Batch[current])
         /\ Named(FALSE)
         /\ Advance
         /\ UNCHANGED txs

(* signAndSubmitTransaction: simulated or refused; submitted, though the   *)
(* answer may be lost; an account then waits for the transaction.          *)
Refused ==
    /\ step = "sign"
    /\ Catch
    /\ UNCHANGED <<operation, wallet, fate>>

Submitted ==
    /\ step = "sign"
    /\ fate' = [fate EXCEPT ![current] = "submitted"]
    /\ IF wallet = "account"
       THEN step' = "wait" /\ UNCHANGED <<current, txs, metadatas, errors>>
       ELSE Push
    /\ UNCHANGED <<operation, wallet>>

AnswerLost ==
    /\ step = "sign"
    /\ fate' = [fate EXCEPT ![current] = "submitted"]
    /\ Catch
    /\ UNCHANGED <<operation, wallet>>

Waited ==
    /\ step = "wait"
    /\ fate[current] \in {"created", "failed"}
    /\ Push
    /\ UNCHANGED <<operation, wallet, fate>>

TimedOut ==
    /\ step = "wait"
    /\ fate[current] = "submitted"
    /\ Catch
    /\ UNCHANGED <<operation, wallet, fate>>

(* The chain: a submitted transaction succeeds, fails or expires.          *)
Commit ==
    /\ \E i \in DOMAIN Batch, outcome \in {"created", "failed"} :
          /\ fate[i] = "submitted"
          /\ fate' = [fate EXCEPT ![i] = outcome]
    /\ UNCHANGED <<operation, wallet, step, current, txs, metadatas, errors>>

CallNext == Refused \/ Submitted \/ AnswerLost \/ Waited \/ TimedOut

Next == CallNext \/ Commit

=============================================================================
