-------------------------- MODULE CreateMultiple --------------------------
(***************************************************************************)
(* createMultiple and createMultipleSequential of stream/solana/           *)
(* StreamClient.ts: one transaction per recipient and, when token accounts *)
(* are missing or SOL has to be wrapped, one that prepares them.  All are  *)
(* built and signed first; the preparing transaction is executed alone,    *)
(* then the others, at the same time or one after the other.               *)
(*                                                                         *)
(* Every execution goes through executeTransaction, of which only the      *)
(* promise (TxOutcome) is used.  A definition that no action uses is a     *)
(* plausible slip in the definition that follows it.                       *)
(***************************************************************************)
EXTENDS Naturals, Sequences, Functions

CONSTANTS
    N,        \* number of recipients
    Variants, \* the ways the batch may be executed
    Durable   \* the connection reads at "confirmed" or "finalized"

(* "parallel"    createMultiple with keys generated for the streams        *)
(* "ephemeral"   createMultiple with metadataPubKeys of the caller         *)
(* "sequential"  createMultipleSequential                                  *)
ASSUME BatchAssumption ==
    /\ N \in Nat \ {0}
    /\ Variants \subseteq {"parallel", "ephemeral", "sequential"}
    /\ Durable \in BOOLEAN

Recipients == 1..N
Prepare == 0
Tx == {Prepare} \cup Recipients

VARIABLES
    broadcast, effect, final, outcome, \* see TxOutcome
    variant,   \* the way this call executes the batch
    stage,     \* progress of the call
    preparing, \* the transaction executed first, on its own
    batch,     \* signedBatch: the transactions that remain
    responses  \* how the executions of the batch settled, in its order

promiseVars == <<broadcast, effect, final, outcome>>
callVars == <<variant, stage, preparing, batch, responses>>
vars == <<promiseVars, callVars>>

Promise == INSTANCE TxOutcome

Settled == Promise!Outcomes \ {"pending"}

Stages == {"build", "prepare", "run", "returned", "thrown"}

TypeOK ==
    /\ Promise!OutcomeTypeOK
    /\ variant \in Variants
    /\ stage \in Stages
    /\ preparing \in Tx
    /\ batch \in Seq(Tx)
    /\ responses \in Seq(Settled)

Init ==
    /\ Promise!Init
    /\ variant \in Variants
    /\ stage = "build"
    /\ preparing = Prepare
    /\ batch = <<>>
    /\ responses = <<>>

-----------------------------------------------------------------------------
(* A call of the RPC node or the wallet fails while the batch is built.    *)
BuildThrows ==
    /\ stage = "build"
    /\ stage' = "thrown"
    /\ UNCHANGED <<promiseVars, variant, preparing, batch, responses>>

Creations == [i \in Recipients |-> i]

(* All accounts exist and nothing has to be wrapped.                       *)
BuildUnprepared ==
    /\ stage = "build"
    /\ batch' = Creations
    /\ stage' = "run"
    /\ UNCHANGED <<promiseVars, variant, preparing, responses>>

(* The preparing transaction is pushed last.  createMultiple pops it,      *)
(* createMultipleSequential shifts the first transaction instead.          *)
Popped(signed) ==
    <<signed[Len(signed)], SubSeq(signed, 1, Len(signed) - 1)>>

Shifted(signed) == <<Head(signed), Tail(signed)>>

AlwaysShifted(signed) == Shifted(signed)

Taken(signed) ==
    IF variant = "sequential" THEN Shifted(signed) ELSE Popped(signed)

BuildPrepared ==
    /\ stage = "build"
    /\ LET taken == Taken(Append(Creations, Prepare)) IN
        /\ preparing' = taken[1]
        /\ batch' = taken[2]
    /\ stage' = "prepare"
    /\ UNCHANGED <<promiseVars, variant, responses>>

ContinueUnconditionally ==
    /\ stage = "prepare"
    /\ outcome[preparing] # "pending"
    /\ stage' = "run"
    /\ UNCHANGED <<promiseVars, variant, preparing, batch, responses>>

(* sendAndConfirmStreamRawTransaction returns or throws. *)
PrepareSettles ==
    /\ stage = "prepare"
    /\ outcome[preparing] # "pending"
    /\ stage' = IF outcome[preparing] = "signature" THEN "run" ELSE "thrown"
    /\ UNCHANGED <<promiseVars, variant, preparing, batch, responses>>

-----------------------------------------------------------------------------
RunningAtOnce ==
    CASE stage = "prepare" -> {preparing}
      [] stage = "run"     -> Range(batch)
      [] OTHER             -> {}

(* The transactions being executed. *)
Running ==
    CASE stage = "prepare" -> {preparing}
      [] stage = "run"     -> IF variant = "parallel" THEN Range(batch)
                              ELSE {batch[Len(responses) + 1]}
      [] OTHER             -> {}

NextAwaitsSuccess ==
    /\ stage = "run" /\ variant # "parallel"
    /\ LET t == batch[Len(responses) + 1] IN
        /\ outcome[t] = "signature"
        /\ responses' = Append(responses, outcome[t])
    /\ stage' = IF Len(responses') = Len(batch) THEN "returned" ELSE "run"
    /\ UNCHANGED <<promiseVars, variant, preparing, batch>>

(* One after the other: a rejection is kept and the next one is started.   *)
NextSettles ==
    /\ stage = "run" /\ variant # "parallel"
    /\ LET t == batch[Len(responses) + 1] IN
        /\ outcome[t] # "pending"
        /\ responses' = Append(responses, outcome[t])
    /\ stage' = IF Len(responses') = Len(batch) THEN "returned" ELSE "run"
    /\ UNCHANGED <<promiseVars, variant, preparing, batch>>

AllSettleAtOnce ==
    /\ stage = "run" /\ variant = "parallel"
    /\ responses' = [i \in DOMAIN batch |-> outcome[batch[i]]]
    /\ stage' = "returned"
    /\ UNCHANGED <<promiseVars, variant, preparing, batch>>

SettleInAnyOrder ==
    /\ stage = "run" /\ variant = "parallel"
    /\ \A i \in DOMAIN batch : outcome[batch[i]] # "pending"
    /\ \E order \in [DOMAIN batch -> DOMAIN batch] :
        /\ \A i \in DOMAIN batch : \E j \in DOMAIN batch : order[j] = i
        /\ responses' = [i \in DOMAIN batch |-> outcome[batch[order[i]]]]
    /\ stage' = "returned"
    /\ UNCHANGED <<promiseVars, variant, preparing, batch>>

(* executeMultipleTransactions: all at once, the results in batch order.   *)
AllSettle ==
    /\ stage = "run" /\ variant = "parallel"
    /\ \A i \in DOMAIN batch : outcome[batch[i]] # "pending"
    /\ responses' = [i \in DOMAIN batch |-> outcome[batch[i]]]
    /\ stage' = "returned"
    /\ UNCHANGED <<promiseVars, variant, preparing, batch>>

(* A step of an execution that has been started. *)
Execution(t) ==
    /\ t \in Running
    /\ \/ Promise!Broadcast(t) \/ Promise!Resolve(t)
       \/ Promise!RejectUnsent(t) \/ Promise!RejectFailed(t)
       \/ Promise!RejectUnknown(t)
    /\ UNCHANGED callVars

(* The chain acts on everything that was ever broadcast. *)
Chain ==
    /\ \/ Promise!Finalize
       \/ \E t \in Tx : Promise!Execute(t) \/ Promise!Revert(t)
    /\ UNCHANGED callVars

Ended == stage \in {"returned", "thrown"} /\ UNCHANGED vars

Next ==
    \/ BuildThrows \/ BuildUnprepared \/ BuildPrepared
    \/ PrepareSettles \/ NextSettles \/ AllSettle
    \/ \E t \in Tx : Execution(t)
    \/ Chain
    \/ Ended

Spec == Init /\ [][Next]_vars

(* Executions settle (TxExecutor!EverySettles) and the client goes on.     *)
Fairness ==
    /\ WF_vars(BuildThrows \/ BuildUnprepared \/ BuildPrepared)
    /\ WF_vars(PrepareSettles) /\ WF_vars(NextSettles) /\ WF_vars(AllSettle)
    /\ \A t \in Tx : WF_vars(Execution(t) /\ outcome'[t] # "pending")

FairSpec == Spec /\ Fairness

-----------------------------------------------------------------------------
(* What the call returns: txs, named by the transaction, and errors.       *)
Signatures ==
    {batch[i] : i \in {k \in DOMAIN responses : responses[k] = "signature"}}

Errors ==
    {[recipient |-> batch[i], error |-> responses[i]] :
        i \in {k \in DOMAIN responses : responses[k] # "signature"}}

-----------------------------------------------------------------------------
(* Streams are created only after the transaction that prepares their      *)
(* accounts and funds took effect for good, whenever one was needed.       *)
PreparedFirst ==
    Durable /\ Prepare \in broadcast /\ Recipients \cap broadcast # {} =>
        effect[Prepare] = "ok" /\ Prepare \in final

(* A call that throws created nothing and never will: the caller may       *)
(* repeat it as a whole.                                                   *)
ThrownMeansNothingCreated ==
    stage = "thrown" => Recipients \cap broadcast = {}

(* README.md:464: errors are wrapped individually for every recipient.     *)
(* When the call returns, every recipient is in exactly one of txs and     *)
(* errors.                                                                 *)
OneResultEach ==
    stage = "returned" => \A r \in Recipients :
        (r \in Signatures) # (\E e \in Errors : e.recipient = r)

(* The results are those of the recipient they are attributed to: what is  *)
(* in txs exists for good, what was not sent does not and will not exist.  *)
ResultsAreRight ==
    stage = "returned" =>
        /\ \A t \in Signatures : Durable => effect[t] = "ok" /\ t \in final
        /\ \A e \in Errors : e.error = "notSent" =>
              e.recipient \notin broadcast /\ effect[e.recipient] = "none"

(* StreamClient.ts:764-765: with keys of the caller a transaction is used  *)
(* up before the next one is started.                                      *)
OneAtATime ==
    variant = "ephemeral" =>
        \A r, s \in Recipients :
            r < s /\ s \in broadcast => outcome[r] # "pending"

(* The call ends. *)
CallEnds == <>(stage \in {"returned", "thrown"})
=============================================================================
