---------------------------- MODULE TxExecutor ----------------------------
(***************************************************************************)
(* executeMultipleTransactions of common/solana/utils.ts: every signed     *)
(* transaction is simulated, then broadcast and confirmed in a loop until  *)
(* it is known to have landed or its blockhash has expired.  The loops run *)
(* concurrently and share one PQueue that limits the sends in flight.      *)
(* Execution of a single transaction is the case of a singleton Tx.        *)
(*                                                                         *)
(* One action is what happens between two awaits: the answer of a call is  *)
(* taken from the cluster in the step that consumes it, a sleep is the     *)
(* delay before the next step.  A definition that no action uses is a      *)
(* plausible slip in the definition that follows it.                       *)
(***************************************************************************)
EXTENDS Cluster, Sequences

CONSTANTS
    SimulateTries, \* SIMULATE_TRIES
    Grace,         \* blocks past LastValid for which the loop keeps going
    SendRate,      \* concurrency of the send throttler
    StatusLevel,   \* connection.commitment, the level a status must reach
    HeightLevel    \* confirmationParams.commitment, used for getBlockHeight

ASSUME ExecutorAssumption ==
    /\ SimulateTries \in Nat \ {0}
    /\ Grace \in Nat
    /\ SendRate \in Nat \ {0}
    /\ StatusLevel \in Level /\ HeightLevel \in Level

VARIABLES
    pc,              \* the await at which the execution of t is suspended
    tries,           \* failed attempts of simulateTransaction
    blockheight,     \* the loop's idea of the current block height
    transactionSent, \* some send of t was answered without an error
    answered,        \* history: node height of the last null status, 0 if none
    result,          \* how the promise of t settled
    queue            \* sends waiting in the throttler

execVars == <<pc, tries, blockheight, transactionSent, answered, result, queue>>
vars == <<clusterVars, execVars>>

PC == {"simulate", "height", "loop", "queued", "sending", "accepted",
       "confirm", "refresh", "done"}

Rejections == {"SimulationError", "HeightError", "SendError",
               "TransactionFailedError", "Expired"}

TypeOK ==
    /\ ClusterTypeOK
    /\ pc \in [Tx -> PC]
    /\ tries \in [Tx -> 0..SimulateTries]
    /\ blockheight \in [Tx -> Nat]
    /\ transactionSent \in [Tx -> BOOLEAN]
    /\ answered \in [Tx -> Nat]
    /\ result \in [Tx -> Rejections \cup {"pending", "Signature"}]
    /\ queue \in Seq(Tx)

Init ==
    /\ ClusterInit
    /\ pc = [t \in Tx |-> "simulate"]
    /\ tries = [t \in Tx |-> 0]
    /\ blockheight = [t \in Tx |-> 0]
    /\ transactionSent = [t \in Tx |-> FALSE]
    /\ answered = [t \in Tx |-> 0]
    /\ result = [t \in Tx |-> "pending"]
    /\ queue = <<>>

-----------------------------------------------------------------------------
Goto(t, label) == pc' = [pc EXCEPT ![t] = label]

Settle(t, r) ==
    /\ Goto(t, "done")
    /\ result' = [result EXCEPT ![t] = r]

InFlight == {t \in Tx : pc[t] \in {"sending", "accepted"}}

(* simulateTransaction: the simulation of t succeeds. *)
SimulateOk(t) ==
    /\ pc[t] = "simulate"
    /\ Goto(t, "height")
    /\ UNCHANGED <<clusterVars, tries, blockheight, transactionSent, answered,
                   result, queue>>

SimulateOneTryMore(t) ==
    /\ "simulate" \in Faults
    /\ pc[t] = "simulate"
    /\ tries' = [tries EXCEPT ![t] = @ + 1]
    /\ IF tries[t] < SimulateTries
       THEN UNCHANGED <<pc, result>>
       ELSE Settle(t, "SimulationError")
    /\ UNCHANGED <<clusterVars, blockheight, transactionSent, answered, queue>>

(* BlockhashNotFound is retried, without a pause, until the tries run out. *)
SimulateBlockhashNotFound(t) ==
    /\ "simulate" \in Faults
    /\ pc[t] = "simulate"
    /\ tries' = [tries EXCEPT ![t] = @ + 1]
    /\ IF tries[t] + 1 < SimulateTries
       THEN UNCHANGED <<pc, result>>
       ELSE Settle(t, "SimulationError")
    /\ UNCHANGED <<clusterVars, blockheight, transactionSent, answered, queue>>

(* Any other simulation error, or a failing call, rejects at once. *)
SimulateFails(t) ==
    /\ "simulate" \in Faults
    /\ pc[t] = "simulate"
    /\ Settle(t, "SimulationError")
    /\ UNCHANGED <<clusterVars, tries, blockheight, transactionSent, answered,
                   queue>>

(* The first getBlockHeight is outside of the loop: its error is thrown. *)
FirstHeight(t) ==
    /\ pc[t] = "height"
    /\ \/ /\ \E lag \in 0..MaxLag :
                blockheight' = [blockheight EXCEPT ![t] = Seen(HeightLevel, lag)]
          /\ Goto(t, "loop")
          /\ UNCHANGED result
       \/ /\ "height" \in Faults
          /\ Settle(t, "HeightError")
          /\ UNCHANGED blockheight
    /\ UNCHANGED <<clusterVars, tries, transactionSent, answered, queue>>

LoopExpiredAtLastValid(t) ==
    /\ pc[t] = "loop"
    /\ blockheight[t] >= LastValid
    /\ Settle(t, "Expired")
    /\ UNCHANGED <<clusterVars, tries, blockheight, transactionSent, answered,
                   queue>>

(* Head of the while loop: expire, queue another broadcast, or, once the   *)
(* blockhash is no longer valid, only keep checking the status.            *)
LoopExpired(t) ==
    /\ pc[t] = "loop"
    /\ blockheight[t] >= LastValid + Grace
    /\ Settle(t, "Expired")
    /\ UNCHANGED <<clusterVars, tries, blockheight, transactionSent, answered,
                   queue>>

MustSend(t) == blockheight[t] < LastValid \/ ~transactionSent[t]

LoopEnqueue(t) ==
    /\ pc[t] = "loop"
    /\ blockheight[t] < LastValid + Grace
    /\ MustSend(t)
    /\ queue' = Append(queue, t)
    /\ Goto(t, "queued")
    /\ UNCHANGED <<clusterVars, tries, blockheight, transactionSent, answered,
                   result>>

LoopOnlyConfirm(t) ==
    /\ pc[t] = "loop"
    /\ blockheight[t] < LastValid + Grace
    /\ ~MustSend(t)
    /\ Goto(t, "confirm")
    /\ UNCHANGED <<clusterVars, tries, blockheight, transactionSent, answered,
                   result, queue>>

-----------------------------------------------------------------------------
StartSendUnlimited(t) ==
    /\ queue # <<>> /\ Head(queue) = t
    /\ queue' = Tail(queue)
    /\ Goto(t, "sending")
    /\ UNCHANGED <<clusterVars, tries, blockheight, transactionSent, answered,
                   result>>

(* The throttler starts the oldest waiting send when a slot is free.       *)
StartSend(t) ==
    /\ queue # <<>> /\ Head(queue) = t
    /\ Cardinality(InFlight) < SendRate
    /\ queue' = Tail(queue)
    /\ Goto(t, "sending")
    /\ UNCHANGED <<clusterVars, tries, blockheight, transactionSent, answered,
                   result>>

(* The RPC node takes the request and forwards it to the leaders.          *)
NodeAccepts(t) ==
    /\ pc[t] = "sending"
    /\ pool' = pool \cup {t}
    /\ Goto(t, "accepted")
    /\ UNCHANGED <<tip, landedAt, failed, tries, blockheight, transactionSent,
                   answered, result, queue>>

SendOk(t) ==
    /\ pc[t] = "accepted"
    /\ transactionSent' = [transactionSent EXCEPT ![t] = TRUE]
    /\ Goto(t, "confirm")
    /\ UNCHANGED <<clusterVars, tries, blockheight, answered, result, queue>>

(* A node behind the slot of the blockhash refuses the request.  The loop  *)
(* continues without asking for the block height again.                    *)
SendMinContextSlot(t) ==
    /\ pc[t] = "sending"
    /\ Seen("processed", MaxLag) < StartHeight
    /\ Goto(t, "loop")
    /\ UNCHANGED <<clusterVars, tries, blockheight, transactionSent, answered,
                   result, queue>>

SendAlwaysThrows(t) ==
    /\ "send" \in Faults
    /\ pc[t] \in {"sending", "accepted"}
    /\ pool' \in {pool, pool \cup {t}}
    /\ Settle(t, "SendError")
    /\ UNCHANGED <<tip, landedAt, failed, tries, blockheight, transactionSent,
                   answered, queue>>

(* The send is answered with an error, before or after the node accepted   *)
(* the request; a request that timed out may still reach the leaders.      *)
SendThrows(t) ==
    /\ "send" \in Faults
    /\ pc[t] \in {"sending", "accepted"}
    /\ pool' \in {pool, pool \cup {t}}
    /\ IF transactionSent[t]
       THEN Goto(t, "loop") /\ UNCHANGED result
       ELSE Settle(t, "SendError")
    /\ UNCHANGED <<tip, landedAt, failed, tries, blockheight, transactionSent,
                   answered, queue>>

-----------------------------------------------------------------------------
(* What confirmAndEnsureTransaction makes of the answer of a node that     *)
(* trails by lag: an error counts at any level, success at StatusLevel.    *)
SeenFailed(t, lag) == Reached(t, "processed", lag) /\ failed[t]

SeenLandedAtAnyLevel(t, lag) == Reached(t, "processed", lag) /\ ~failed[t]

SeenLanded(t, lag) == Reached(t, StatusLevel, lag) /\ ~failed[t]

Confirm(t) ==
    /\ pc[t] = "confirm"
    /\ \E lag \in 0..MaxLag :
        \/ /\ SeenFailed(t, lag)
           /\ Settle(t, "TransactionFailedError")
           /\ UNCHANGED answered
        \/ /\ SeenLanded(t, lag)
           /\ Settle(t, "Signature")
           /\ UNCHANGED answered
        \/ /\ ~SeenFailed(t, lag) /\ ~SeenLanded(t, lag)
           /\ answered' = [answered EXCEPT ![t] = Seen(StatusLevel, lag)]
           /\ Goto(t, "refresh")
           /\ UNCHANGED result
    /\ UNCHANGED <<clusterVars, tries, blockheight, transactionSent, queue>>

(* getSignatureStatuses fails: the loop goes on without a status. *)
ConfirmThrows(t) ==
    /\ "status" \in Faults
    /\ pc[t] = "confirm"
    /\ Goto(t, "refresh")
    /\ UNCHANGED <<clusterVars, tries, blockheight, transactionSent, answered,
                   result, queue>>

RefreshForgotten(t) ==
    /\ pc[t] = "refresh"
    /\ Goto(t, "loop")
    /\ UNCHANGED <<clusterVars, tries, blockheight, transactionSent, answered,
                   result, queue>>

(* getBlockHeight at the end of the loop body; its error is swallowed and  *)
(* the next round uses the old height.                                     *)
Refresh(t) ==
    /\ pc[t] = "refresh"
    /\ \E lag \in 0..MaxLag :
          blockheight' = [blockheight EXCEPT ![t] = Seen(HeightLevel, lag)]
    /\ Goto(t, "loop")
    /\ UNCHANGED <<clusterVars, tries, transactionSent, answered, result, queue>>

RefreshUncaught(t) ==
    /\ "height" \in Faults
    /\ pc[t] = "refresh"
    /\ Settle(t, "HeightError")
    /\ UNCHANGED <<clusterVars, tries, blockheight, transactionSent, answered,
                   queue>>

RefreshThrows(t) ==
    /\ "height" \in Faults
    /\ pc[t] = "refresh"
    /\ Goto(t, "loop")
    /\ UNCHANGED <<clusterVars, tries, blockheight, transactionSent, answered,
                   result, queue>>

-----------------------------------------------------------------------------
Loop(t) == LoopExpired(t) \/ LoopEnqueue(t) \/ LoopOnlyConfirm(t)

Step(t) ==
    \/ SimulateOk(t) \/ SimulateBlockhashNotFound(t) \/ SimulateFails(t)
    \/ FirstHeight(t)
    \/ Loop(t)
    \/ StartSend(t) \/ NodeAccepts(t) \/ SendOk(t)
    \/ SendMinContextSlot(t) \/ SendThrows(t)
    \/ Confirm(t) \/ ConfirmThrows(t)
    \/ Refresh(t) \/ RefreshThrows(t)

(* Promise.allSettled resolves: all executions are over. *)
AllSettled ==
    /\ \A t \in Tx : pc[t] = "done"
    /\ UNCHANGED vars

Next ==
    \/ \E t \in Tx : Step(t)
    \/ ClusterStep /\ UNCHANGED execVars
    \/ AllSettled

Spec == Init /\ [][Next]_vars

-----------------------------------------------------------------------------
(* Fairness.  The event loop runs every execution that can move and RPC    *)
(* calls do not hang; the cluster keeps producing blocks; getBlockHeight   *)
(* does not fail for ever.                                                 *)
WeakFairness ==
    /\ \A l \in Level : WF_vars(Advance(l) /\ UNCHANGED execVars)
    /\ \A t \in Tx : WF_vars(Step(t)) /\ SF_vars(Refresh(t))

(* In addition, sends do not fail for ever. *)
SendsRecover ==
    \A t \in Tx : SF_vars(NodeAccepts(t)) /\ SF_vars(SendOk(t))

WeakFairSpec == Spec /\ WeakFairness
FairSpec == Spec /\ WeakFairness /\ SendsRecover

-----------------------------------------------------------------------------
(* A fulfilled promise names a transaction that took effect: it landed     *)
(* without an error, at connection.commitment, and no fork can take it     *)
(* back.  A connection at "processed" asks for less and gets less.         *)
SignatureMeansLanded ==
    \A t \in Tx : result[t] = "Signature" /\ StatusLevel # "processed" =>
        /\ landedAt[t] # 0 /\ landedAt[t] <= tip[StatusLevel]
        /\ ~failed[t]

(* "expired" can be trusted, and the payment made again, when fewer than   *)
(* Grace blocks passed between the last status answer and the height that  *)
(* ended the loop: the transaction is in no block and never will be.  This *)
(* is what the extra blocks past LastValid buy.                            *)
ExpiredMeansNeverLands ==
    \A t \in Tx :
        result[t] = "Expired" /\ blockheight[t] < answered[t] + Grace =>
            landedAt[t] = 0 /\ tip["processed"] > LastValid

(* An error of the phases before the broadcast leaves nothing behind: no   *)
(* copy of the transaction is on its way and none has landed.              *)
EarlyErrorMeansNotBroadcast ==
    \A t \in Tx : result[t] \in {"SimulationError", "HeightError"} =>
        t \notin pool /\ landedAt[t] = 0

(* Once one send was acknowledged, only the chain can fail the execution:  *)
(* no later error of a send, a status or a height call surfaces.           *)
AcknowledgedNeverSendError ==
    \A t \in Tx : transactionSent[t] => result[t] \notin Rejections \
                                        {"TransactionFailedError", "Expired"}

(* The throttler and the loops agree: a loop waits in the queue exactly    *)
(* once while it awaits its send, settled loops hold no slot, and no more  *)
(* than SendRate sends run.                                                *)
ThrottlerConsistent ==
    /\ {queue[i] : i \in DOMAIN queue} = {t \in Tx : pc[t] = "queued"}
    /\ \A i, j \in DOMAIN queue : queue[i] = queue[j] => i = j
    /\ Cardinality(InFlight) <= SendRate

(* Every execution settles. *)
EverySettles == \A t \in Tx : <>(result[t] # "pending")

-----------------------------------------------------------------------------
(* The executor implements TxOutcome.  The level of a block stands for its *)
(* finality, the error names for what the caller can conclude from them.   *)
OutcomeOf(r) ==
    CASE r = "pending" -> "pending"
      [] r = "Signature" -> "signature"
      [] r \in {"SimulationError", "HeightError"} -> "notSent"
      [] r = "TransactionFailedError" -> "failed"
      [] r \in {"SendError", "Expired"} -> "unknown"

EffectOf(t) == IF landedAt[t] = 0 THEN "none"
               ELSE IF failed[t] THEN "error" ELSE "ok"

Outcome == INSTANCE TxOutcome WITH
    Durable <- StatusLevel # "processed",
    broadcast <- pool,
    effect <- [t \in Tx |-> EffectOf(t)],
    final <- {t \in Tx : landedAt[t] # 0 /\ landedAt[t] <= tip["confirmed"]},
    outcome <- [t \in Tx |-> OutcomeOf(result[t])]

ImplementsOutcome == Outcome!Spec

-----------------------------------------------------------------------------
(* What the comments of utils.ts promise and the code does not keep.       *)

(* utils.ts:188-189: throw only the errors that signal that the tx has     *)
(* failed, otherwise a landed tx may be marked as failed.                  *)
LandedNeverRejected ==
    \A t \in Tx : result[t] \in Rejections =>
        ~(landedAt[t] # 0 /\ landedAt[t] <= tip["confirmed"] /\ ~failed[t])

(* utils.ts:241: the tx is re-broadcast in a loop until the block height    *)
(* expires: once the cluster is past it, the execution settles.             *)
EndsOnExpiry ==
    \A t \in Tx :
        (tip[HeightLevel] >= LastValid + Grace) ~> (result[t] # "pending")
=============================================================================
