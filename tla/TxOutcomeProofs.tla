-------------------------- MODULE TxOutcomeProofs --------------------------
(* Proofs about TxOutcome, for every set of transactions. *)
EXTENDS TxOutcome, TLAPS

OutcomeInv == OutcomeTypeOK /\ SettledIsRight

(* The promise is enough for a caller: a signature lasts, and "notSent"    *)
(* licenses a second attempt.                                              *)
THEOREM OutcomeInvCorrect == Spec => []OutcomeInv
<1> USE DEF OutcomeInv, OutcomeTypeOK, SettledIsRight,
        Outcomes
<1>1. Init => OutcomeInv /\ broadcast = {}
  BY DEF Init
<1> DEFINE Inv == OutcomeInv /\ \A t \in Tx : effect[t] # "none" => t \in broadcast
<1>2. Init => Inv
  BY <1>1 DEF Init
<1>3. Inv /\ [Next]_outcomeVars => Inv'
  <2> SUFFICES ASSUME Inv, [Next]_outcomeVars PROVE Inv'
    OBVIOUS
  <2>1. CASE UNCHANGED outcomeVars
    BY <2>1 DEF outcomeVars
  <2>2. CASE Finalize
    BY <2>2 DEF Finalize
  <2>3. ASSUME NEW t \in Tx, Broadcast(t) PROVE Inv'
    BY <2>3 DEF Broadcast
  <2>4. ASSUME NEW t \in Tx, Execute(t) PROVE Inv'
    BY <2>4 DEF Execute
  <2>5. ASSUME NEW t \in Tx, Revert(t) PROVE Inv'
    BY <2>5 DEF Revert
  <2>6. ASSUME NEW t \in Tx, Resolve(t) PROVE Inv'
    BY <2>6 DEF Resolve
  <2>7. ASSUME NEW t \in Tx, RejectUnsent(t) PROVE Inv'
    BY <2>7 DEF RejectUnsent
  <2>8. ASSUME NEW t \in Tx, RejectFailed(t) PROVE Inv'
    BY <2>8 DEF RejectFailed
  <2>9. ASSUME NEW t \in Tx, RejectUnknown(t) PROVE Inv'
    BY <2>9 DEF RejectUnknown
  <2> QED BY <2>1, <2>2, <2>3, <2>4, <2>5, <2>6, <2>7, <2>8, <2>9 DEF Next
<1>4. Inv => OutcomeInv
  OBVIOUS
<1> QED BY <1>2, <1>3, <1>4, PTL DEF Spec

(* No caller that pays again only after "notSent" pays twice, whatever the  *)
(* chain does to the transactions it has seen.                             *)
THEOREM SettledCorrect == Spec => []SettledIsRight
BY OutcomeInvCorrect, PTL DEF OutcomeInv
=============================================================================
