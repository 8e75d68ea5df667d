----------------------------- MODULE TxOutcome -----------------------------
(***************************************************************************)
(* What executeTransaction promises its callers about a transaction, with  *)
(* the simulation, the throttler, the retries and the block heights left   *)
(* out.  The promise of t settles in one of four ways:                     *)
(*                                                                         *)
(*   "signature"  t took effect and, unless the connection reads at        *)
(*                "processed", no fork can undo it;                        *)
(*   "notSent"    t was never broadcast;                                   *)
(*   "failed"     t was executed with an error, possibly on a fork;        *)
(*   "unknown"    nothing is known: t may have taken effect, or still may. *)
(*                                                                         *)
(* TxExecutor implements this specification; clients that send several     *)
(* transactions are modelled on top of it.                                 *)
(***************************************************************************)
CONSTANTS
    Tx,     \* the transactions
    Durable \* the connection reads at "confirmed" or "finalized"

VARIABLES
    broadcast, \* transactions of which some copy has left the client
    effect,    \* what the chain did with a transaction
    final,     \* transactions whose effect no fork can undo
    outcome    \* how the promise settled

outcomeVars == <<broadcast, effect, final, outcome>>

Outcomes == {"pending", "signature", "notSent", "failed", "unknown"}

OutcomeTypeOK ==
    /\ broadcast \subseteq Tx
    /\ effect \in [Tx -> {"none", "ok", "error"}]
    /\ final \subseteq {t \in Tx : effect[t] # "none"}
    /\ outcome \in [Tx -> Outcomes]

Init ==
    /\ broadcast = {}
    /\ effect = [t \in Tx |-> "none"]
    /\ final = {}
    /\ outcome = [t \in Tx |-> "pending"]

Broadcast(t) ==
    /\ outcome[t] = "pending"
    /\ broadcast' = broadcast \cup {t}
    /\ UNCHANGED <<effect, final, outcome>>

(* The chain may execute a broadcast transaction whatever its promise says. *)
Execute(t) ==
    /\ t \in broadcast /\ effect[t] = "none"
    /\ \E e \in {"ok", "error"} : effect' = [effect EXCEPT ![t] = e]
    /\ UNCHANGED <<broadcast, final, outcome>>

Revert(t) ==
    /\ effect[t] # "none" /\ t \notin final
    /\ effect' = [effect EXCEPT ![t] = "none"]
    /\ UNCHANGED <<broadcast, final, outcome>>

(* One block makes the effects it holds final together. *)
Finalize ==
    /\ final' \in SUBSET {t \in Tx : effect[t] # "none"}
    /\ final \subseteq final'
    /\ UNCHANGED <<broadcast, effect, outcome>>

Resolve(t) ==
    /\ outcome[t] = "pending"
    /\ effect[t] = "ok"
    /\ Durable => t \in final
    /\ outcome' = [outcome EXCEPT ![t] = "signature"]
    /\ UNCHANGED <<broadcast, effect, final>>

RejectUnsent(t) ==
    /\ outcome[t] = "pending"
    /\ t \notin broadcast
    /\ outcome' = [outcome EXCEPT ![t] = "notSent"]
    /\ UNCHANGED <<broadcast, effect, final>>

RejectFailed(t) ==
    /\ outcome[t] = "pending"
    /\ effect[t] = "error"
    /\ outcome' = [outcome EXCEPT ![t] = "failed"]
    /\ UNCHANGED <<broadcast, effect, final>>

(* The last send may both reach the cluster and be answered with an error. *)
RejectUnknown(t) ==
    /\ outcome[t] = "pending"
    /\ broadcast' \in {broadcast, broadcast \cup {t}}
    /\ outcome' = [outcome EXCEPT ![t] = "unknown"]
    /\ UNCHANGED <<effect, final>>

Next ==
    \/ Finalize
    \/ \E t \in Tx :
          \/ Broadcast(t) \/ Execute(t) \/ Revert(t)
          \/ Resolve(t) \/ RejectUnsent(t) \/ RejectFailed(t) \/ RejectUnknown(t)

Spec == Init /\ [][Next]_outcomeVars

-----------------------------------------------------------------------------
(* A caller that treats "signature" as done and makes the payment again    *)
(* with a fresh transaction only after "notSent" never pays twice: a       *)
(* settled "signature" has a lasting effect and a settled "notSent" none.  *)
SettledIsRight ==
    \A t \in Tx :
        /\ outcome[t] = "signature" /\ Durable =>
              effect[t] = "ok" /\ t \in final
        /\ outcome[t] = "notSent" => effect[t] = "none" /\ t \notin broadcast
=============================================================================
