----------------------- MODULE CreateMultipleProofs -----------------------
(* Proofs about CreateMultiple, for every number of recipients.            *)
EXTENDS CreateMultiple, TLAPS

USE BatchAssumption DEF BatchAssumption

(* The transaction that was pushed last is the one that is popped, and the *)
(* creations stay in their order.                                          *)
LEMMA PoppedPrepare ==
    /\ Creations \in Seq(Tx) /\ Len(Creations) = N
    /\ Popped(Append(Creations, Prepare)) = <<Prepare, Creations>>
<1> DEFINE s == Append(Creations, Prepare)
<1>1. Creations \in Seq(Tx) /\ Len(Creations) = N
  BY DEF Creations, Recipients, Tx, Prepare
<1>2. s \in Seq(Tx) /\ Len(s) = N + 1 /\ s[N + 1] = Prepare
  BY <1>1 DEF Tx
<1>3. \A i \in 1..N : s[i] = Creations[i]
  BY <1>1
<1> HIDE DEF s
<1>4. SubSeq(s, 1, N) = Creations
  BY <1>1, <1>2, <1>3
<1> QED BY <1>1, <1>2, <1>4 DEF Popped, s

-----------------------------------------------------------------------------
(* The call uses executions only through their promise, so what holds of   *)
(* the promise holds of every transaction of the batch.                    *)
TP == INSTANCE TxOutcomeProofs

THEOREM UsesPromise == Spec => Promise!Spec
<1>1. Init => Promise!Init
  BY DEF Init
<1>2. [Next]_vars => [Promise!Next]_promiseVars
  <2> SUFFICES ASSUME [Next]_vars PROVE [Promise!Next]_promiseVars
    OBVIOUS
  <2>1. ASSUME NEW t \in Tx, Execution(t) PROVE Promise!Next
    BY <2>1 DEF Execution, Promise!Next
  <2>2. CASE Chain
    BY <2>2 DEF Chain, Promise!Next
  <2>3. CASE BuildThrows \/ BuildUnprepared \/ BuildPrepared \/ PrepareSettles
    BY <2>3 DEF BuildThrows, BuildUnprepared, BuildPrepared, PrepareSettles
  <2>4. CASE NextSettles \/ AllSettle \/ Ended \/ UNCHANGED vars
    BY <2>4 DEF NextSettles, AllSettle, Ended, vars
  <2> QED BY <2>1, <2>2, <2>3, <2>4 DEF Next
<1> QED BY <1>1, <1>2, PTL DEF Spec, Promise!Spec, Promise!outcomeVars, promiseVars

(* The types of the promise, and what a settled promise says.              *)
THEOREM PromiseCorrect == Spec => [](Promise!OutcomeTypeOK /\ Promise!SettledIsRight)
<1>1. TP!Spec => []TP!OutcomeInv
  BY TP!OutcomeInvCorrect
<1>2. Promise!Init => TP!Init
  BY DEF Promise!Init, TP!Init
<1>3. [Promise!Next]_(Promise!outcomeVars) => [TP!Next]_(TP!outcomeVars)
  BY DEF Promise!Next, TP!Next, Promise!outcomeVars, TP!outcomeVars,
         Promise!Broadcast, TP!Broadcast, Promise!Execute, TP!Execute,
         Promise!Revert, TP!Revert, Promise!Finalize, TP!Finalize,
         Promise!Resolve, TP!Resolve, Promise!RejectUnsent, TP!RejectUnsent,
         Promise!RejectFailed, TP!RejectFailed,
         Promise!RejectUnknown, TP!RejectUnknown
<1>4. TP!OutcomeInv => Promise!OutcomeTypeOK /\ Promise!SettledIsRight
  BY DEF TP!OutcomeInv, TP!OutcomeTypeOK, TP!SettledIsRight, TP!Outcomes,
         Promise!OutcomeTypeOK, Promise!SettledIsRight, Promise!Outcomes
<1> QED BY <1>1, <1>2, <1>3, <1>4, UsesPromise, PTL DEF Promise!Spec, TP!Spec

-----------------------------------------------------------------------------
(* Where the call is tells what has been broadcast and what was recorded.  *)
CallInv ==
    /\ variant \in Variants /\ variant # "sequential"
    /\ preparing = Prepare
    /\ responses \in Seq(Settled)
    /\ batch \in Seq(Tx)
    /\ stage \in Stages
    /\ stage = "build" => broadcast = {}
    /\ stage \in {"prepare", "thrown"} => Recipients \cap broadcast = {}
    /\ stage \in {"build", "prepare", "thrown"} => responses = <<>>
    /\ stage \in {"prepare", "run", "returned"} => batch = Creations
    /\ stage \in {"run", "returned"} /\ Prepare \in broadcast =>
          outcome[Prepare] = "signature"
    /\ stage = "run" => Len(responses) < N
    /\ stage = "returned" => Len(responses) = N
    /\ \A i \in 1..Len(responses) : responses[i] = outcome[i]
    /\ variant # "parallel" => \A r \in Recipients \cap broadcast :
                                  r <= Len(responses) + 1

Types == Promise!OutcomeTypeOK

LEMMA CreationsFacts ==
    /\ Creations \in Seq(Tx)
    /\ Len(Creations) = N
    /\ DOMAIN Creations = 1..N
    /\ \A i \in 1..N : Creations[i] = i
    /\ Range(Creations) = Recipients
BY DEF Creations, Recipients, Tx, Prepare, Range

(* A step that leaves the call alone keeps CallInv when it neither          *)
(* disturbs a settled promise nor broadcasts what is not running.           *)
LEMMA CallKept ==
    ASSUME CallInv, Types, Types', UNCHANGED callVars,
           \A t \in Tx : outcome[t] # "pending" => outcome'[t] = outcome[t],
           broadcast' = broadcast \/
              \E t \in Running : broadcast' = broadcast \cup {t}
                                 /\ outcome[t] = "pending"
    PROVE  CallInv'
<1> USE DEF callVars, CallInv, Recipients, Tx, Prepare
<1>1. stage \in {"run", "returned"} =>
        \A i \in 1..Len(responses) : responses[i] \in Settled /\ i \in Tx
  OBVIOUS
<1>2. \A t \in broadcast' : t \in broadcast \/ (t \in Running /\ outcome[t] = "pending")
  OBVIOUS
<1>3. CASE stage \in {"build", "thrown", "returned"}
  <2>1. Running = {}
    BY <1>3 DEF Running
  <2>2. broadcast' = broadcast
    BY <2>1
  <2>3. \A i \in 1..Len(responses) : responses[i] = outcome'[i]
    BY <1>1, <1>3 DEF Settled
  <2> QED BY <1>3, <2>2, <2>3
<1>4. CASE stage = "prepare"
  <2>1. Running = {Prepare}
    BY <1>4 DEF Running
  <2>2. Recipients \cap broadcast' = {}
    BY <1>2, <1>4, <2>1
  <2> QED BY <1>4, <2>2
<1>5. CASE stage = "run"
  <2>1. Running \subseteq Recipients
    BY <1>5, CreationsFacts DEF Running
  <2>2. variant # "parallel" => Running = {Len(responses) + 1}
    BY <1>5, CreationsFacts DEF Running
  <2>3. Prepare \in broadcast' => outcome'[Prepare] = "signature"
    BY <1>2, <1>5, <2>1
  <2>4. \A i \in 1..Len(responses) : responses[i] = outcome'[i]
    BY <1>1, <1>5 DEF Settled
  <2>5. variant # "parallel" => \A r \in Recipients \cap broadcast' : r <= Len(responses) + 1
    BY <1>2, <2>2
  <2> QED BY <1>5, <2>3, <2>4, <2>5
<1> QED BY <1>3, <1>4, <1>5 DEF Stages

LEMMA ExecutionKeeps ==
    ASSUME CallInv, Types, Types',
           NEW t \in Tx, Execution(t)
    PROVE  CallInv'
<1>1. t \in Running /\ UNCHANGED callVars /\ outcome[t] = "pending"
  BY DEF Execution, Promise!Broadcast, Promise!Resolve, Promise!RejectUnsent,
         Promise!RejectFailed, Promise!RejectUnknown
<1>2. broadcast' \in {broadcast, broadcast \cup {t}}
  BY DEF Execution, Promise!Broadcast, Promise!Resolve, Promise!RejectUnsent,
         Promise!RejectFailed, Promise!RejectUnknown
<1>3. \A s \in Tx \ {t} : outcome'[s] = outcome[s]
  BY DEF Execution, Promise!Broadcast, Promise!Resolve, Promise!RejectUnsent,
         Promise!RejectFailed, Promise!RejectUnknown, Types, Promise!OutcomeTypeOK
<1> QED BY <1>1, <1>2, <1>3, CallKept

LEMMA ChainKeeps ==
    ASSUME CallInv, Types, Types', Chain
    PROVE  CallInv'
<1>1. UNCHANGED callVars /\ UNCHANGED <<broadcast, outcome>>
  BY DEF Chain, Promise!Finalize, Promise!Execute, Promise!Revert
<1> QED BY <1>1, CallKept

LEMMA NextSettlesKeeps ==
    ASSUME CallInv, Types, NextSettles
    PROVE  CallInv'
<1> DEFINE n == Len(responses)
<1>1. /\ stage = "run" /\ variant # "parallel" /\ batch = Creations
      /\ n \in 0..(N - 1) /\ responses \in Seq(Settled)
  BY DEF NextSettles, CallInv
<1>2. batch[n + 1] = n + 1 /\ n + 1 \in Tx /\ Len(batch) = N
  BY <1>1, CreationsFacts DEF Tx, Recipients
<1>3. /\ outcome[n + 1] \in Settled
      /\ responses' = Append(responses, outcome[n + 1])
      /\ stage' = IF Len(responses') = N THEN "returned" ELSE "run"
      /\ UNCHANGED <<promiseVars, preparing, batch>>
  BY <1>2 DEF NextSettles, Types, Promise!OutcomeTypeOK, Settled
<1>4. /\ responses' \in Seq(Settled) /\ Len(responses') = n + 1
      /\ responses'[n + 1] = outcome[n + 1]
      /\ \A i \in 1..n : responses'[i] = responses[i]
  BY <1>1, <1>3
<1>5. \A i \in 1..Len(responses') : responses'[i] = outcome'[i]
  BY <1>1, <1>3, <1>4 DEF CallInv, promiseVars
<1>6. \A r \in Recipients \cap broadcast' : r <= Len(responses') + 1
  BY <1>1, <1>3, <1>4 DEF CallInv, promiseVars, Recipients
<1>7. /\ stage' = "run" => Len(responses') < N
      /\ stage' = "returned" => Len(responses') = N
      /\ stage' \in {"run", "returned"}
  BY <1>1, <1>3, <1>4
<1>8. /\ UNCHANGED <<variant, preparing, batch, broadcast, outcome>>
      /\ Prepare \in broadcast => outcome[Prepare] = "signature"
  BY <1>1 DEF NextSettles, CallInv, promiseVars
<1> QED BY <1>1, <1>4, <1>5, <1>6, <1>7, <1>8 DEF CallInv, Stages

LEMMA AllSettleKeeps ==
    ASSUME CallInv, Types, AllSettle
    PROVE  CallInv'
<1>1. stage = "run" /\ batch = Creations /\ variant = "parallel"
  BY DEF AllSettle, CallInv
<1>2. \A i \in 1..N : outcome[i] \in Settled
  BY <1>1, CreationsFacts DEF AllSettle, Types, Promise!OutcomeTypeOK, Settled, Tx, Recipients
<1>3. responses' = [i \in 1..N |-> outcome[i]]
  BY <1>1, CreationsFacts DEF AllSettle
<1>4. responses' \in Seq(Settled) /\ Len(responses') = N
  BY <1>2, <1>3
<1> QED BY <1>1, <1>3, <1>4 DEF AllSettle, CallInv, promiseVars, Stages

(* The call's invariant holds in the variants that pop the preparing       *)
(* transaction.                                                            *)
THEOREM CallInvCorrect ==
    ASSUME "sequential" \notin Variants
    PROVE  Spec => []CallInv
<1>1. Init => CallInv
  BY DEF Init, Promise!Init, CallInv, Stages
<1>2. CallInv /\ Types /\ Types' /\ [Next]_vars => CallInv'
  <2> SUFFICES ASSUME CallInv, Types, Types', [Next]_vars PROVE CallInv'
    OBVIOUS
  <2>1. CASE BuildThrows
    BY <2>1 DEF BuildThrows, CallInv, promiseVars, Stages
  <2>2. CASE BuildUnprepared
    BY <2>2, CreationsFacts DEF BuildUnprepared, CallInv, promiseVars, Stages
  <2>3. CASE BuildPrepared
    <3>1. preparing' = Prepare /\ batch' = Creations
      <4>1. Taken(Append(Creations, Prepare)) = <<Prepare, Creations>>
        BY PoppedPrepare DEF Taken, CallInv
      <4> QED BY <2>3, <4>1 DEF BuildPrepared
    <3> QED BY <2>3, <3>1, CreationsFacts DEF BuildPrepared, CallInv, promiseVars, Stages
  <2>4. CASE PrepareSettles
    BY <2>4 DEF PrepareSettles, CallInv, promiseVars, Stages
  <2>5. CASE NextSettles
    BY <2>5, NextSettlesKeeps
  <2>6. CASE AllSettle
    BY <2>6, AllSettleKeeps
  <2>7. ASSUME NEW t \in Tx, Execution(t) PROVE CallInv'
    BY <2>7, ExecutionKeeps
  <2>8. CASE Chain
    BY <2>8, ChainKeeps
  <2>9. CASE Ended \/ UNCHANGED vars
    BY <2>9 DEF Ended, vars, promiseVars, callVars, CallInv
  <2> QED BY <2>1, <2>2, <2>3, <2>4, <2>5, <2>6, <2>7, <2>8, <2>9 DEF Next
<1> QED BY <1>1, <1>2, PromiseCorrect, PTL DEF Spec, Types

-----------------------------------------------------------------------------
(* What the invariant says of a call that returned: the i-th result is how *)
(* the promise of the i-th recipient settled.                              *)
LEMMA Returned ==
    ASSUME CallInv, stage = "returned"
    PROVE  /\ \A r \in Recipients : outcome[r] \in Settled
           /\ Signatures = {r \in Recipients : outcome[r] = "signature"}
           /\ Errors = {[recipient |-> r, error |-> outcome[r]] :
                           r \in {s \in Recipients : outcome[s] # "signature"}}
<1>1. /\ DOMAIN responses = Recipients /\ Len(responses) = N
      /\ \A r \in Recipients : batch[r] = r /\ responses[r] = outcome[r]
                               /\ responses[r] \in Settled
  BY CreationsFacts DEF CallInv, Recipients
<1>2. Signatures = {r \in Recipients : outcome[r] = "signature"}
  BY <1>1 DEF Signatures
<1>3. Errors = {[recipient |-> r, error |-> outcome[r]] :
                   r \in {s \in Recipients : outcome[s] # "signature"}}
  BY <1>1 DEF Errors
<1> QED BY <1>1, <1>2, <1>3

(* Every variable of the call has its type.                                *)
THEOREM BatchTypeCorrect ==
    ASSUME "sequential" \notin Variants
    PROVE  Spec => []TypeOK
<1>1. CallInv /\ Promise!OutcomeTypeOK => TypeOK
  BY DEF CallInv, TypeOK, Tx
<1> QED BY <1>1, CallInvCorrect, PromiseCorrect, PTL

(* createMultiple never creates a stream before the accounts and funds it  *)
(* needs are there for good.                                               *)
THEOREM PreparedFirstCorrect ==
    ASSUME "sequential" \notin Variants
    PROVE  Spec => []PreparedFirst
<1>1. CallInv /\ Promise!SettledIsRight => PreparedFirst
  <2> SUFFICES ASSUME CallInv, Promise!SettledIsRight, Durable,
                      Prepare \in broadcast, Recipients \cap broadcast # {}
               PROVE  effect[Prepare] = "ok" /\ Prepare \in final
    BY DEF PreparedFirst
  <2>1. stage \in {"run", "returned"}
    BY DEF CallInv, Stages
  <2>2. outcome[Prepare] = "signature"
    BY <2>1 DEF CallInv
  <2> QED BY <2>2 DEF Promise!SettledIsRight, Tx
<1> QED BY <1>1, CallInvCorrect, PromiseCorrect, PTL

(* A call of createMultiple that throws has created nothing.               *)
THEOREM ThrownCorrect ==
    ASSUME "sequential" \notin Variants
    PROVE  Spec => []ThrownMeansNothingCreated
<1>1. CallInv => ThrownMeansNothingCreated
  BY DEF CallInv, ThrownMeansNothingCreated
<1> QED BY <1>1, CallInvCorrect, PTL

(* createMultiple names every recipient in exactly one of txs and errors.  *)
THEOREM OneResultCorrect ==
    ASSUME "sequential" \notin Variants
    PROVE  Spec => []OneResultEach
<1>1. CallInv => OneResultEach
  <2> SUFFICES ASSUME CallInv, stage = "returned", NEW r \in Recipients
               PROVE  (r \in Signatures) # (\E e \in Errors : e.recipient = r)
    BY DEF OneResultEach
  <2>1. r \in Signatures <=> outcome[r] = "signature"
    BY Returned
  <2>2. ASSUME outcome[r] # "signature" PROVE \E e \in Errors : e.recipient = r
    <3>1. [recipient |-> r, error |-> outcome[r]] \in Errors
      BY <2>2, Returned
    <3> QED BY <3>1
  <2>3. ASSUME NEW e \in Errors, e.recipient = r PROVE outcome[r] # "signature"
    BY <2>3, Returned
  <2> QED BY <2>1, <2>2, <2>3
<1> QED BY <1>1, CallInvCorrect, PTL

(* What createMultiple says of a recipient is true of its transaction.     *)
THEOREM ResultsCorrect ==
    ASSUME "sequential" \notin Variants
    PROVE  Spec => []ResultsAreRight
<1>1. CallInv /\ Promise!SettledIsRight => ResultsAreRight
  BY Returned DEF ResultsAreRight, Promise!SettledIsRight, Tx
<1> QED BY <1>1, CallInvCorrect, PromiseCorrect, PTL

(* With keys of the caller, a creation has settled before a later one is   *)
(* broadcast.                                                              *)
THEOREM OneAtATimeCorrect ==
    ASSUME "sequential" \notin Variants
    PROVE  Spec => []OneAtATime
<1>1. CallInv => OneAtATime
  <2> SUFFICES ASSUME CallInv, variant = "ephemeral",
                      NEW r \in Recipients, NEW s \in Recipients \cap broadcast,
                      r < s
               PROVE  outcome[r] # "pending"
    BY DEF OneAtATime
  <2>1. r \in 1..Len(responses)
    BY DEF CallInv, Recipients
  <2>2. responses[r] = outcome[r] /\ responses[r] \in Settled
    BY <2>1 DEF CallInv
  <2> QED BY <2>2 DEF Settled
<1> QED BY <1>1, CallInvCorrect, PTL
=============================================================================
