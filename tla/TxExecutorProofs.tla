------------------------- MODULE TxExecutorProofs -------------------------
(***************************************************************************)
(* Proofs about TxExecutor, for every set of transactions, every bound,    *)
(* every combination of commitment levels and every set of faults.         *)
(***************************************************************************)
EXTENDS TxExecutor, FiniteSetTheorems, TLAPS

(* A node's view is a block height and never ahead of the cluster. *)
LEMMA SeenBound ==
    ASSUME tip \in [Level -> Nat]
    PROVE  \A l \in Level : \A lag \in 0..MaxLag :
               Seen(l, lag) \in Nat /\ Seen(l, lag) <= tip[l]
BY ClusterAssumption DEF Seen, ClusterAssumption

(* A node that reports neither an error nor success does not know t at     *)
(* StatusLevel: an error would show at the weaker "processed" level too.   *)
LEMMA NotSeen ==
    ASSUME tip \in [Level -> Nat], tip[StatusLevel] <= tip["processed"],
           landedAt \in [Tx -> Nat], NEW t \in Tx, NEW lag \in 0..MaxLag,
           ~SeenFailed(t, lag), ~SeenLanded(t, lag)
    PROVE  ~Reached(t, StatusLevel, lag)
<1>1. StatusLevel \in Level /\ "processed" \in Level /\ MaxLag \in Nat
  BY ExecutorAssumption, ClusterAssumption
     DEF ExecutorAssumption, ClusterAssumption, Level
<1>2. Seen(StatusLevel, lag) <= Seen("processed", lag)
  BY <1>1 DEF Seen
<1>3. Seen(StatusLevel, lag) \in Nat /\ Seen("processed", lag) \in Nat
      /\ landedAt[t] \in Nat
  BY <1>1, SeenBound
<1> QED BY <1>2, <1>3 DEF SeenFailed, SeenLanded, Reached

(* A simulation that is still running has a try left. *)
TriesLeft == \A t \in Tx : pc[t] = "simulate" => tries[t] < SimulateTries

TypeInv == TypeOK /\ TriesLeft

(* The types are inductive together with the tries that are left.          *)
THEOREM TypeInvCorrect == Spec => []TypeInv
<1> USE ClusterAssumption, ExecutorAssumption
        DEF ClusterAssumption, ExecutorAssumption
<1>1. Init => TypeInv
  BY DEF Init, ClusterInit, TypeInv, TriesLeft, TypeOK, ClusterTypeOK, PC
<1>2. TypeInv /\ [Next]_vars => TypeInv'
  <2> SUFFICES ASSUME TypeInv, [Next]_vars PROVE TypeInv'
    OBVIOUS
  <2> USE DEF TypeInv, TriesLeft, TypeOK, ClusterTypeOK, PC, Rejections, clusterVars, Goto, Settle
  <2>0. \A lag \in 0..MaxLag : Seen(StatusLevel, lag) \in Nat
                              /\ Seen(HeightLevel, lag) \in Nat
    BY SeenBound
  <2>1. CASE UNCHANGED vars
    BY <2>1 DEF vars, execVars
  <2>2. CASE AllSettled
    BY <2>2 DEF AllSettled, vars, execVars
  <2>3. CASE ClusterStep /\ UNCHANGED execVars
    <3>1. ASSUME NEW l \in Level, Advance(l) PROVE TypeInv'
      BY <2>3, <3>1 DEF Advance, execVars
    <3>2. ASSUME NEW t \in Tx, Land(t) PROVE TypeInv'
      BY <2>3, <3>2 DEF Land, execVars, Level
    <3>3. ASSUME NEW t \in Tx, Abandon(t) PROVE TypeInv'
      BY <2>3, <3>3 DEF Abandon, execVars
    <3> QED BY <2>3, <3>1, <3>2, <3>3 DEF ClusterStep
  <2>4. ASSUME NEW t \in Tx, Step(t) PROVE TypeInv'
    <3>1. CASE SimulateOk(t)
      BY <3>1 DEF SimulateOk
    <3>2. CASE SimulateBlockhashNotFound(t)
      <4>1. tries[t] < SimulateTries
        BY <3>2 DEF SimulateBlockhashNotFound
      <4>2. tries' \in [Tx -> 0..SimulateTries]
        BY <3>2, <4>1 DEF SimulateBlockhashNotFound
      <4>3. CASE tries[t] + 1 < SimulateTries
        BY <3>2, <4>2, <4>3 DEF SimulateBlockhashNotFound
      <4>4. CASE ~(tries[t] + 1 < SimulateTries)
        BY <3>2, <4>2, <4>4 DEF SimulateBlockhashNotFound
      <4> QED BY <4>3, <4>4
    <3>3. CASE SimulateFails(t)
      BY <3>3 DEF SimulateFails
    <3>4. CASE FirstHeight(t)
      <4>1. blockheight' \in [Tx -> Nat]
        <5>1. PICK h \in Nat : blockheight' = [blockheight EXCEPT ![t] = h]
                               \/ UNCHANGED blockheight
          BY <3>4, <2>0 DEF FirstHeight
        <5> QED BY <5>1
      <4>2. pc' \in [Tx -> PC] /\ result' \in [Tx -> Rejections \cup {"pending", "Signature"}]
        BY <3>4 DEF FirstHeight
      <4>3. \A u \in Tx : pc'[u] = "simulate" => pc[u] = "simulate"
        BY <3>4 DEF FirstHeight
      <4>4. UNCHANGED <<clusterVars, tries, transactionSent, answered, queue>>
        BY <3>4 DEF FirstHeight
      <4> QED BY <4>1, <4>2, <4>3, <4>4
    <3>5. CASE Loop(t)
      <4>1. CASE LoopExpired(t)
        BY <4>1 DEF LoopExpired
      <4>2. CASE LoopEnqueue(t)
        BY <4>2 DEF LoopEnqueue
      <4>3. CASE LoopOnlyConfirm(t)
        BY <4>3 DEF LoopOnlyConfirm
      <4> QED BY <3>5, <4>1, <4>2, <4>3 DEF Loop
    <3>6. CASE StartSend(t)
      <4>1. queue' \in Seq(Tx)
        BY <3>6 DEF StartSend
      <4> QED BY <3>6, <4>1 DEF StartSend
    <3>7. CASE NodeAccepts(t)
      BY <3>7 DEF NodeAccepts
    <3>8. CASE SendOk(t)
      BY <3>8 DEF SendOk
    <3>9. CASE SendMinContextSlot(t)
      BY <3>9 DEF SendMinContextSlot
    <3>10. CASE SendThrows(t)
      BY <3>10 DEF SendThrows
    <3>11. CASE Confirm(t)
      <4>1. answered' \in [Tx -> Nat]
        <5>1. PICK h \in Nat : answered' = [answered EXCEPT ![t] = h]
                               \/ UNCHANGED answered
          BY <3>11, <2>0 DEF Confirm
        <5> QED BY <5>1
      <4>2. pc' \in [Tx -> PC] /\ result' \in [Tx -> Rejections \cup {"pending", "Signature"}]
        BY <3>11 DEF Confirm
      <4>3. \A u \in Tx : pc'[u] = "simulate" => pc[u] = "simulate"
        BY <3>11 DEF Confirm
      <4>4. UNCHANGED <<clusterVars, tries, blockheight, transactionSent, queue>>
        BY <3>11 DEF Confirm
      <4> QED BY <4>1, <4>2, <4>3, <4>4
    <3>12. CASE ConfirmThrows(t)
      BY <3>12 DEF ConfirmThrows
    <3>13. CASE Refresh(t)
      BY <3>13, <2>0 DEF Refresh
    <3>14. CASE RefreshThrows(t)
      BY <3>14 DEF RefreshThrows
    <3> QED BY <2>4, <3>1, <3>2, <3>3, <3>4, <3>5, <3>6, <3>7, <3>8, <3>9,
               <3>10, <3>11, <3>12, <3>13, <3>14 DEF Step
  <2> QED BY <2>1, <2>2, <2>3, <2>4 DEF Next
<1> QED BY <1>1, <1>2, PTL DEF Spec

(* Every variable keeps its type; simulateTransaction never exceeds its    *)
(* SIMULATE_TRIES.                                                         *)
THEOREM TypeCorrect == Spec => []TypeOK
BY TypeInvCorrect, PTL DEF TypeInv

-----------------------------------------------------------------------------
(* Sequences used as a queue. *)
LEMMA AppendElements ==
    ASSUME NEW S, NEW q \in Seq(S), NEW e \in S
    PROVE  {Append(q, e)[i] : i \in DOMAIN Append(q, e)} =
               {q[i] : i \in DOMAIN q} \cup {e}
<1>1. DOMAIN q = 1..Len(q) /\ DOMAIN Append(q, e) = 1..(Len(q) + 1)
  OBVIOUS
<1>2. \A i \in 1..Len(q) : Append(q, e)[i] = q[i]
  OBVIOUS
<1>3. Append(q, e)[Len(q) + 1] = e /\ Len(q) \in Nat
  OBVIOUS
<1> QED BY <1>1, <1>2, <1>3

LEMMA AppendInjective ==
    ASSUME NEW S, NEW q \in Seq(S), NEW e \in S,
           \A i, j \in DOMAIN q : q[i] = q[j] => i = j,
           \A i \in DOMAIN q : q[i] # e
    PROVE  \A i, j \in DOMAIN Append(q, e) :
               Append(q, e)[i] = Append(q, e)[j] => i = j
<1>1. DOMAIN q = 1..Len(q) /\ DOMAIN Append(q, e) = 1..(Len(q) + 1)
  OBVIOUS
<1>2. \A i \in 1..Len(q) : Append(q, e)[i] = q[i]
  OBVIOUS
<1>3. Append(q, e)[Len(q) + 1] = e /\ Len(q) \in Nat
  OBVIOUS
<1> QED BY <1>1, <1>2, <1>3

LEMMA TailElements ==
    ASSUME queue \in Seq(Tx), queue # <<>>,
           \A i, j \in DOMAIN queue : queue[i] = queue[j] => i = j
    PROVE  /\ {Tail(queue)[i] : i \in DOMAIN Tail(queue)} =
                 {queue[i] : i \in DOMAIN queue} \ {Head(queue)}
           /\ \A i, j \in DOMAIN Tail(queue) : Tail(queue)[i] = Tail(queue)[j] => i = j
           /\ Head(queue) \in {queue[i] : i \in DOMAIN queue}
<1>1. Len(queue) \in Nat \ {0} /\ DOMAIN queue = 1..Len(queue) /\ DOMAIN Tail(queue) = 1..(Len(queue) - 1)
  OBVIOUS
<1>2. \A i \in 1..(Len(queue) - 1) : Tail(queue)[i] = queue[i + 1]
  OBVIOUS
<1>3. Head(queue) = queue[1]
  OBVIOUS
<1>4. \A i \in 1..Len(queue) : i # 1 => i - 1 \in 1..(Len(queue) - 1) /\ i = (i - 1) + 1
  BY <1>1
<1>5. \A x \in {Tail(queue)[i] : i \in DOMAIN Tail(queue)} :
          x \in {queue[i] : i \in DOMAIN queue} \ {Head(queue)}
  BY <1>1, <1>2, <1>3
<1>6. ASSUME NEW x \in {queue[i] : i \in DOMAIN queue} \ {Head(queue)}
      PROVE  x \in {Tail(queue)[i] : i \in DOMAIN Tail(queue)}
  <2>1. PICK i \in 1..Len(queue) : x = queue[i] /\ i # 1
    BY <1>1, <1>3
  <2>2. i - 1 \in DOMAIN Tail(queue) /\ Tail(queue)[i - 1] = x
    BY <2>1, <1>1, <1>2, <1>4
  <2> QED BY <2>2
<1>7. \A i, j \in DOMAIN Tail(queue) : Tail(queue)[i] = Tail(queue)[j] => i = j
  BY <1>1, <1>2
<1> QED BY <1>1, <1>3, <1>5, <1>6, <1>7

(* The sends of the throttler: no step adds one in flight beyond SendRate. *)
LEMMA InFlightFinite == IsFiniteSet(InFlight) /\ Cardinality(InFlight) \in Nat
<1>1. InFlight \subseteq Tx /\ IsFiniteSet(Tx)
  BY ClusterAssumption DEF InFlight, ClusterAssumption
<1> QED BY <1>1, FS_Subset, FS_CardinalityType

(* The loops and the throttler agree in every reachable state. *)
THEOREM ThrottlerCorrect == Spec => []ThrottlerConsistent
<1>1. Init => ThrottlerConsistent
  <2> SUFFICES ASSUME Init PROVE ThrottlerConsistent
    OBVIOUS
  <2>1. InFlight = {} /\ DOMAIN queue = {}
    BY DEF Init, InFlight
  <2>2. {t \in Tx : pc[t] = "queued"} = {}
    BY DEF Init
  <2>3. Cardinality(InFlight) = 0
    BY <2>1, FS_EmptySet
  <2> QED BY <2>1, <2>2, <2>3, ExecutorAssumption
          DEF ThrottlerConsistent, ExecutorAssumption
<1>2. TypeInv /\ ThrottlerConsistent /\ [Next]_vars => ThrottlerConsistent'
  <2> SUFFICES ASSUME TypeInv, ThrottlerConsistent, [Next]_vars
               PROVE  ThrottlerConsistent'
    OBVIOUS
  <2>0. pc \in [Tx -> PC] /\ queue \in Seq(Tx)
    BY DEF TypeInv, TypeOK
  <2>f. IsFiniteSet(InFlight) /\ Cardinality(InFlight) \in Nat
    BY InFlightFinite
  (* A step that touches neither a waiting send nor starts one. *)
  <2>a. ASSUME UNCHANGED queue, InFlight' \subseteq InFlight,
               \A t \in Tx : pc'[t] = "queued" <=> pc[t] = "queued"
        PROVE  ThrottlerConsistent'
    <3>1. Cardinality(InFlight') <= Cardinality(InFlight)
          /\ Cardinality(InFlight') \in Nat
      BY <2>a, <2>f, FS_Subset, FS_CardinalityType
    <3>2. Cardinality(InFlight') <= SendRate
      BY <3>1, <2>f, ExecutorAssumption
         DEF ThrottlerConsistent, ExecutorAssumption
    <3> QED BY <2>a, <3>2 DEF ThrottlerConsistent
  <2>1. CASE UNCHANGED vars
    BY <2>1, <2>a DEF vars, execVars, InFlight
  <2>2. CASE AllSettled
    BY <2>2, <2>a DEF AllSettled, vars, execVars, InFlight
  <2>3. CASE ClusterStep /\ UNCHANGED execVars
    BY <2>3, <2>a DEF execVars, InFlight
  <2>4. ASSUME NEW t \in Tx, Step(t) PROVE ThrottlerConsistent'
    <3>1. CASE LoopEnqueue(t)
      <4>1. queue' = Append(queue, t) /\ pc' = [pc EXCEPT ![t] = "queued"]
            /\ pc[t] = "loop"
        BY <3>1 DEF LoopEnqueue, Goto
      <4>2. \A i \in DOMAIN queue : queue[i] # t
        BY <4>1 DEF ThrottlerConsistent
      <4>3. {queue'[i] : i \in DOMAIN queue'} = {u \in Tx : pc'[u] = "queued"}
        BY <4>1, <2>0, AppendElements DEF ThrottlerConsistent
      <4>4. \A i, j \in DOMAIN queue' : queue'[i] = queue'[j] => i = j
        BY <4>1, <4>2, <2>0, AppendInjective DEF ThrottlerConsistent
      <4>5. InFlight' = InFlight
        BY <4>1, <2>0 DEF InFlight
      <4> QED BY <4>3, <4>4, <4>5 DEF ThrottlerConsistent
    <3>2. CASE StartSend(t)
      <4>1. /\ queue # <<>> /\ Head(queue) = t /\ queue' = Tail(queue)
            /\ pc' = [pc EXCEPT ![t] = "sending"]
            /\ Cardinality(InFlight) < SendRate
        BY <3>2 DEF StartSend, Goto
      <4>2. /\ {queue'[i] : i \in DOMAIN queue'} =
                  {queue[i] : i \in DOMAIN queue} \ {t}
            /\ \A i, j \in DOMAIN queue' : queue'[i] = queue'[j] => i = j
            /\ t \in {queue[i] : i \in DOMAIN queue}
        <5>1. \A i, j \in DOMAIN queue : queue[i] = queue[j] => i = j
          BY DEF ThrottlerConsistent
        <5>2. /\ {Tail(queue)[i] : i \in DOMAIN Tail(queue)} =
                    {queue[i] : i \in DOMAIN queue} \ {Head(queue)}
              /\ \A i, j \in DOMAIN Tail(queue) :
                    Tail(queue)[i] = Tail(queue)[j] => i = j
              /\ Head(queue) \in {queue[i] : i \in DOMAIN queue}
          BY <2>0, <4>1, <5>1, TailElements
        <5> QED BY <4>1, <5>2
      <4>3. pc[t] = "queued"
        BY <4>2 DEF ThrottlerConsistent
      <4>4. {queue'[i] : i \in DOMAIN queue'} = {u \in Tx : pc'[u] = "queued"}
        BY <4>1, <4>2, <2>0 DEF ThrottlerConsistent
      <4>5. InFlight' = InFlight \cup {t} /\ t \notin InFlight
        BY <4>1, <4>3, <2>0 DEF InFlight
      <4>6. Cardinality(InFlight') = Cardinality(InFlight) + 1
        BY <4>5, <2>f, FS_AddElement
      <4>7. Cardinality(InFlight') <= SendRate
        BY <4>1, <4>6, <2>f, ExecutorAssumption DEF ExecutorAssumption
      <4> QED BY <4>2, <4>4, <4>7 DEF ThrottlerConsistent
    <3>3. CASE ~LoopEnqueue(t) /\ ~StartSend(t)
      <4>1. /\ UNCHANGED queue
            /\ \/ UNCHANGED pc
               \/ \E p \in PC \ {"queued", "sending", "accepted"} :
                     pc[t] # "queued" /\ pc' = [pc EXCEPT ![t] = p]
               \/ pc[t] = "sending" /\ pc' = [pc EXCEPT ![t] = "accepted"]
        <5> USE DEF Goto, Settle, PC
        <5>1. CASE SimulateOk(t)
          BY <5>1 DEF SimulateOk
        <5>2. CASE SimulateBlockhashNotFound(t) \/ SimulateFails(t)
          BY <5>2 DEF SimulateBlockhashNotFound, SimulateFails
        <5>3. CASE FirstHeight(t)
          BY <5>3 DEF FirstHeight
        <5>4. CASE LoopExpired(t) \/ LoopOnlyConfirm(t)
          BY <5>4 DEF LoopExpired, LoopOnlyConfirm
        <5>5. CASE NodeAccepts(t) \/ SendOk(t) \/ SendMinContextSlot(t)
          BY <5>5 DEF NodeAccepts, SendOk, SendMinContextSlot
        <5>6. CASE SendThrows(t)
          BY <5>6 DEF SendThrows
        <5>7. CASE Confirm(t)
          BY <5>7 DEF Confirm
        <5>8. CASE ConfirmThrows(t) \/ Refresh(t) \/ RefreshThrows(t)
          BY <5>8 DEF ConfirmThrows, Refresh, RefreshThrows
        <5> QED BY <2>4, <3>3, <5>1, <5>2, <5>3, <5>4, <5>5, <5>6, <5>7, <5>8
                DEF Step, Loop
      <4>2. \A u \in Tx : pc'[u] = "queued" <=> pc[u] = "queued"
        BY <4>1, <2>0
      <4>3. InFlight' \subseteq InFlight
        BY <4>1, <2>0 DEF InFlight
      <4> QED BY <4>1, <4>2, <4>3, <2>a
    <3> QED BY <3>1, <3>2, <3>3
  <2> QED BY <2>1, <2>2, <2>3, <2>4 DEF Next
<1> QED BY <1>1, <1>2, TypeInvCorrect, PTL DEF Spec

-----------------------------------------------------------------------------
(* The inductive invariant behind the outcomes.                            *)

(* The levels are ordered, and only what was broadcast lands, in time.     *)
ChainInv ==
    /\ tip["finalized"] <= tip["confirmed"]
    /\ tip["confirmed"] <= tip["processed"]
    /\ \A t \in Tx : landedAt[t] # 0 =>
          t \in pool /\ landedAt[t] <= LastValid

(* How far each loop has come.  A null status answered past LastValid      *)
(* settles that the transaction is in no block.                            *)
LoopInv ==
    \A t \in Tx :
        /\ pc[t] = "done" <=> result[t] # "pending"
        /\ pc[t] \in {"simulate", "height"} => t \notin pool
        /\ pc[t] = "accepted" \/ transactionSent[t] => t \in pool
        /\ answered[t] <= tip["processed"]
        /\ answered[t] > LastValid => landedAt[t] = 0
        /\ result[t] = "Expired" => blockheight[t] >= LastValid + Grace

OutcomeInv ==
    /\ ChainInv
    /\ LoopInv
    /\ SignatureMeansLanded
    /\ EarlyErrorMeansNotBroadcast
    /\ AcknowledgedNeverSendError

LEMMA OutcomeInit == Init => OutcomeInv
BY ClusterAssumption
   DEF Init, ClusterInit, ClusterAssumption, OutcomeInv, ChainInv, LoopInv,
       SignatureMeansLanded, EarlyErrorMeansNotBroadcast,
       AcknowledgedNeverSendError, Level, Rejections

(* Steps of the cluster. *)
LEMMA OutcomeCluster ==
    ASSUME TypeInv, OutcomeInv, ClusterStep, UNCHANGED execVars
    PROVE  OutcomeInv'
<1> USE ClusterAssumption, ExecutorAssumption
        DEF ClusterAssumption, ExecutorAssumption, TypeInv, TypeOK,
            ClusterTypeOK, OutcomeInv, ChainInv, LoopInv, Level, execVars
<1>1. ASSUME NEW l \in Level, Advance(l) PROVE OutcomeInv'
  <2>1. /\ tip' \in [Level -> Nat] /\ \A m \in Level : tip[m] <= tip'[m]
        /\ UNCHANGED <<pool, landedAt, failed>>
    BY <1>1 DEF Advance
  <2>2. tip'["finalized"] <= tip'["confirmed"] /\ tip'["confirmed"] <= tip'["processed"]
    BY <1>1 DEF Advance, Room
  <2>3. ChainInv'
    BY <2>1, <2>2
  <2>4. LoopInv'
    BY <2>1
  <2>5. SignatureMeansLanded'
    BY <2>1 DEF SignatureMeansLanded
  <2>6. EarlyErrorMeansNotBroadcast' /\ AcknowledgedNeverSendError'
    BY <2>1 DEF EarlyErrorMeansNotBroadcast, AcknowledgedNeverSendError
  <2> QED BY <2>3, <2>4, <2>5, <2>6
<1>2. ASSUME NEW t \in Tx, Land(t) PROVE OutcomeInv'
  <2>1. /\ landedAt' = [landedAt EXCEPT ![t] = tip["processed"]]
        /\ failed' \in [Tx -> BOOLEAN]
        /\ \A u \in Tx \ {t} : failed'[u] = failed[u]
        /\ UNCHANGED <<tip, pool>>
        /\ t \in pool /\ landedAt[t] = 0 /\ tip["processed"] <= LastValid
    BY <1>2 DEF Land
  <2>2. ChainInv'
    BY <2>1
  <2>3. LoopInv'
    BY <2>1
  <2>4. SignatureMeansLanded'
    BY <2>1 DEF SignatureMeansLanded
  <2>5. EarlyErrorMeansNotBroadcast' /\ AcknowledgedNeverSendError'
    BY <2>1 DEF EarlyErrorMeansNotBroadcast, AcknowledgedNeverSendError
  <2> QED BY <2>2, <2>3, <2>4, <2>5
<1>3. ASSUME NEW t \in Tx, Abandon(t) PROVE OutcomeInv'
  <2>1. /\ landedAt' = [landedAt EXCEPT ![t] = 0]
        /\ failed' = [failed EXCEPT ![t] = FALSE]
        /\ UNCHANGED <<tip, pool>>
        /\ landedAt[t] > tip["confirmed"]
    BY <1>3 DEF Abandon
  <2>2. ChainInv'
    BY <2>1
  <2>3. LoopInv'
    BY <2>1
  <2>4. SignatureMeansLanded'
    <3>1. StatusLevel # "processed" => tip[StatusLevel] <= tip["confirmed"]
      OBVIOUS
    <3> QED BY <2>1, <3>1 DEF SignatureMeansLanded
  <2>5. EarlyErrorMeansNotBroadcast' /\ AcknowledgedNeverSendError'
    BY <2>1 DEF EarlyErrorMeansNotBroadcast, AcknowledgedNeverSendError
  <2> QED BY <2>2, <2>3, <2>4, <2>5
<1> QED BY <1>1, <1>2, <1>3 DEF ClusterStep

(* Steps of a loop. *)
LEMMA OutcomeStep ==
    ASSUME TypeInv, ThrottlerConsistent, OutcomeInv, NEW t \in Tx, Step(t)
    PROVE  OutcomeInv'
<1> USE ClusterAssumption, ExecutorAssumption
        DEF ClusterAssumption, ExecutorAssumption, TypeInv, TypeOK,
            ClusterTypeOK, OutcomeInv, ChainInv, LoopInv, clusterVars,
            SignatureMeansLanded, EarlyErrorMeansNotBroadcast,
            AcknowledgedNeverSendError, PC, Rejections, Goto, Settle
<1>0. \A l \in Level : tip[l] \in Nat /\ tip[l] <= tip["processed"]
  BY DEF Level
<1>1. CASE SimulateOk(t)
  BY <1>1 DEF SimulateOk
<1>2. CASE SimulateBlockhashNotFound(t)
  <2>1. /\ pc[t] = "simulate"
        /\ UNCHANGED <<clusterVars, blockheight, transactionSent, answered>>
    BY <1>2 DEF SimulateBlockhashNotFound
  <2>2. CASE UNCHANGED <<pc, result>>
    BY <2>1, <2>2
  <2>3. CASE Settle(t, "SimulationError")
    BY <2>1, <2>3
  <2> QED BY <1>2, <2>2, <2>3 DEF SimulateBlockhashNotFound
<1>3. CASE SimulateFails(t)
  BY <1>3 DEF SimulateFails
<1>4. CASE FirstHeight(t)
  <2>1. /\ pc[t] = "height" /\ UNCHANGED <<clusterVars, transactionSent, answered>>
        /\ \/ pc' = [pc EXCEPT ![t] = "loop"] /\ UNCHANGED result
           \/ /\ pc' = [pc EXCEPT ![t] = "done"]
              /\ result' = [result EXCEPT ![t] = "HeightError"]
        /\ \A u \in Tx \ {t} : blockheight'[u] = blockheight[u]
    BY <1>4 DEF FirstHeight
  <2>2. CASE pc' = [pc EXCEPT ![t] = "loop"] /\ UNCHANGED result
    BY <2>1, <2>2
  <2>3. CASE /\ pc' = [pc EXCEPT ![t] = "done"]
             /\ result' = [result EXCEPT ![t] = "HeightError"]
    BY <2>1, <2>3
  <2> QED BY <2>1, <2>2, <2>3
<1>5. CASE LoopExpired(t)
  BY <1>5 DEF LoopExpired
<1>6. CASE LoopEnqueue(t)
  BY <1>6 DEF LoopEnqueue
<1>7. CASE LoopOnlyConfirm(t)
  BY <1>7 DEF LoopOnlyConfirm
<1>8. CASE StartSend(t)
  <2>1. pc[t] = "queued"
    BY <1>8 DEF StartSend, ThrottlerConsistent
  <2> QED BY <1>8, <2>1 DEF StartSend
<1>9. CASE NodeAccepts(t)
  BY <1>9 DEF NodeAccepts
<1>10. CASE SendOk(t)
  BY <1>10 DEF SendOk
<1>11. CASE SendMinContextSlot(t)
  BY <1>11 DEF SendMinContextSlot
<1>12. CASE SendThrows(t)
  <2>1. /\ pc[t] \in {"sending", "accepted"} /\ pool' \in {pool, pool \cup {t}}
        /\ UNCHANGED <<tip, landedAt, failed, blockheight, transactionSent, answered>>
    BY <1>12 DEF SendThrows
  <2>2. CASE transactionSent[t] /\ Goto(t, "loop") /\ UNCHANGED result
    BY <2>1, <2>2
  <2>3. CASE ~transactionSent[t] /\ Settle(t, "SendError")
    BY <2>1, <2>3
  <2> QED BY <1>12, <2>2, <2>3 DEF SendThrows
<1>13. CASE Confirm(t)
  <2>1. PICK lag \in 0..MaxLag :
           \/ /\ SeenFailed(t, lag)
              /\ Settle(t, "TransactionFailedError")
              /\ UNCHANGED answered
           \/ /\ SeenLanded(t, lag)
              /\ Settle(t, "Signature")
              /\ UNCHANGED answered
           \/ /\ ~SeenFailed(t, lag) /\ ~SeenLanded(t, lag)
              /\ answered' = [answered EXCEPT ![t] = Seen(StatusLevel, lag)]
              /\ Goto(t, "refresh")
              /\ UNCHANGED result
    BY <1>13 DEF Confirm
  <2>2. pc[t] = "confirm" /\ UNCHANGED <<clusterVars, blockheight, transactionSent>>
    BY <1>13 DEF Confirm
  <2>3. Seen(StatusLevel, lag) \in Nat /\ Seen(StatusLevel, lag) <= tip[StatusLevel]
    BY SeenBound
  <2>4. CASE Settle(t, "TransactionFailedError") /\ UNCHANGED answered
    BY <2>2, <2>4
  <2>5. CASE SeenLanded(t, lag) /\ Settle(t, "Signature") /\ UNCHANGED answered
    <3>1. landedAt[t] # 0 /\ landedAt[t] <= tip[StatusLevel] /\ ~failed[t]
      BY <1>0, <2>3, <2>5 DEF SeenLanded, Reached
    <3> QED BY <2>2, <2>5, <3>1
  <2>6. CASE /\ ~SeenFailed(t, lag) /\ ~SeenLanded(t, lag)
             /\ answered' = [answered EXCEPT ![t] = Seen(StatusLevel, lag)]
             /\ Goto(t, "refresh") /\ UNCHANGED result
    <3>0. tip[StatusLevel] \in Nat /\ tip["processed"] \in Nat
          /\ tip[StatusLevel] <= tip["processed"]
      BY <1>0 DEF Level
    <3>1. Seen(StatusLevel, lag) > LastValid => landedAt[t] = 0
      <4>1. ~Reached(t, StatusLevel, lag)
        BY <2>6, <3>0, NotSeen
      <4> QED BY <2>3, <4>1 DEF Reached
    <3>2. Seen(StatusLevel, lag) <= tip["processed"]
      BY <2>3, <3>0
    <3> QED BY <2>2, <2>3, <2>6, <3>1, <3>2
  <2> QED BY <2>1, <2>4, <2>5, <2>6
<1>14. CASE ConfirmThrows(t)
  BY <1>14 DEF ConfirmThrows
<1>15. CASE Refresh(t)
  <2>1. /\ pc[t] = "refresh" /\ pc' = [pc EXCEPT ![t] = "loop"]
        /\ UNCHANGED <<clusterVars, transactionSent, answered, result>>
        /\ \A u \in Tx \ {t} : blockheight'[u] = blockheight[u]
    BY <1>15 DEF Refresh
  <2> QED BY <2>1
<1>16. CASE RefreshThrows(t)
  BY <1>16 DEF RefreshThrows
<1> QED BY <1>1, <1>2, <1>3, <1>4, <1>5, <1>6, <1>7, <1>8, <1>9, <1>10, <1>11,
           <1>12, <1>13, <1>14, <1>15, <1>16 DEF Step, Loop

(* The invariant holds in every reachable state. *)
THEOREM OutcomeCorrect == Spec => []OutcomeInv
<1>1. TypeInv /\ ThrottlerConsistent /\ OutcomeInv /\ [Next]_vars => OutcomeInv'
  <2> SUFFICES ASSUME TypeInv, ThrottlerConsistent, OutcomeInv, [Next]_vars
               PROVE  OutcomeInv'
    OBVIOUS
  <2>1. CASE UNCHANGED vars
    BY <2>1 DEF vars, clusterVars, execVars, OutcomeInv, ChainInv, LoopInv,
                SignatureMeansLanded, EarlyErrorMeansNotBroadcast,
                AcknowledgedNeverSendError
  <2>2. CASE AllSettled
    BY <2>1, <2>2 DEF AllSettled
  <2>3. CASE ClusterStep /\ UNCHANGED execVars
    BY <2>3, OutcomeCluster
  <2>4. CASE \E t \in Tx : Step(t)
    BY <2>4, OutcomeStep
  <2> QED BY <2>1, <2>2, <2>3, <2>4 DEF Next
<1> QED BY <1>1, OutcomeInit, TypeInvCorrect, ThrottlerCorrect, PTL DEF Spec

(* A returned signature names a transaction that landed for good. *)
THEOREM SignatureCorrect == Spec => []SignatureMeansLanded
BY OutcomeCorrect, PTL DEF OutcomeInv

(* A trusted "expired" is final, for any lag of the nodes and any commitment *)
(* levels: seeing no status past LastValid excludes every block the          *)
(* transaction could be in.                                                  *)
THEOREM ExpiredCorrect == Spec => []ExpiredMeansNeverLands
<1>1. TypeInv /\ OutcomeInv => ExpiredMeansNeverLands
  <2> SUFFICES ASSUME TypeInv, OutcomeInv, NEW t \in Tx,
                      result[t] = "Expired",
                      blockheight[t] < answered[t] + Grace
               PROVE  landedAt[t] = 0 /\ tip["processed"] > LastValid
    BY DEF ExpiredMeansNeverLands
  <2>1. /\ blockheight[t] \in Nat /\ answered[t] \in Nat
        /\ tip["processed"] \in Nat /\ LastValid \in Nat /\ Grace \in Nat
    BY ClusterAssumption, ExecutorAssumption
       DEF ClusterAssumption, ExecutorAssumption, TypeInv, TypeOK, ClusterTypeOK,
           Level
  <2>2. blockheight[t] >= LastValid + Grace
    BY DEF OutcomeInv, LoopInv
  <2>3. answered[t] > LastValid
    BY <2>1, <2>2
  <2> QED BY <2>1, <2>3 DEF OutcomeInv, LoopInv
<1> QED BY <1>1, TypeInvCorrect, OutcomeCorrect, PTL

(* An error of the early phases leaves no trace of the transaction. *)
THEOREM EarlyErrorCorrect == Spec => []EarlyErrorMeansNotBroadcast
BY OutcomeCorrect, PTL DEF OutcomeInv

(* After an acknowledged send only the chain or the expiry rejects. *)
THEOREM AcknowledgedCorrect == Spec => []AcknowledgedNeverSendError
BY OutcomeCorrect, PTL DEF OutcomeInv

-----------------------------------------------------------------------------
(* TxExecutor implements TxOutcome: every step of the loops, the throttler *)
(* and the cluster is a step of the promise, or invisible to it.           *)
effectBar == [t \in Tx |-> EffectOf(t)]
finalBar == {t \in Tx : landedAt[t] # 0 /\ landedAt[t] <= tip["confirmed"]}
outcomeBar == [t \in Tx |-> OutcomeOf(result[t])]

LEMMA RefineInit == Init => Outcome!Init
BY DEF Init, ClusterInit, Outcome!Init, EffectOf, OutcomeOf

(* A step that changes neither the cluster nor a result is invisible. *)
LEMMA Invisible ==
    ASSUME UNCHANGED <<clusterVars, result>>
    PROVE  UNCHANGED Outcome!outcomeVars
<1>1. UNCHANGED <<tip, pool, landedAt, failed, result>>
  BY DEF clusterVars
<1>2. effectBar' = effectBar /\ finalBar' = finalBar /\ outcomeBar' = outcomeBar
  BY <1>1 DEF effectBar, finalBar, outcomeBar, EffectOf
<1> QED BY <1>1, <1>2 DEF Outcome!outcomeVars, effectBar, finalBar, outcomeBar

LEMMA RefineCluster ==
    ASSUME TypeInv, OutcomeInv, ClusterStep, UNCHANGED execVars
    PROVE  [Outcome!Next]_(Outcome!outcomeVars)
<1> USE ClusterAssumption
        DEF ClusterAssumption, TypeInv, TypeOK, ClusterTypeOK, OutcomeInv,
            ChainInv, Level, execVars
<1>0. UNCHANGED outcomeBar
  BY DEF outcomeBar
<1>1. ASSUME NEW l \in Level, Advance(l) PROVE Outcome!Finalize
  <2>1. /\ UNCHANGED <<pool, landedAt, failed>>
        /\ tip'["confirmed"] >= tip["confirmed"]
        /\ tip'["confirmed"] \in Nat
    BY <1>1 DEF Advance
  <2>2. UNCHANGED effectBar
    BY <2>1 DEF effectBar, EffectOf
  <2>3. finalBar \subseteq finalBar'
    BY <2>1 DEF finalBar
  <2>4. finalBar' \in SUBSET {t \in Tx : effectBar[t] # "none"}
    BY <2>1 DEF finalBar, effectBar, EffectOf
  <2> QED BY <1>0, <2>1, <2>2, <2>3, <2>4
          DEF Outcome!Finalize, outcomeBar, effectBar, finalBar
<1>2. ASSUME NEW t \in Tx, Land(t) PROVE Outcome!Execute(t)
  <2>1. /\ t \in pool /\ landedAt[t] = 0
        /\ landedAt' = [landedAt EXCEPT ![t] = tip["processed"]]
        /\ tip["processed"] > tip["confirmed"]
        /\ failed'[t] \in BOOLEAN
        /\ \A u \in Tx \ {t} : failed'[u] = failed[u]
        /\ UNCHANGED <<tip, pool>>
    BY <1>2 DEF Land
  <2>2. effectBar[t] = "none"
    BY <2>1 DEF effectBar, EffectOf
  <2>3. \E e \in {"ok", "error"} : effectBar' = [effectBar EXCEPT ![t] = e]
    <3>1. effectBar'[t] \in {"ok", "error"}
      BY <2>1 DEF effectBar, EffectOf
    <3>2. \A u \in Tx \ {t} : effectBar'[u] = effectBar[u]
      BY <2>1 DEF effectBar, EffectOf
    <3>3. effectBar' = [effectBar EXCEPT ![t] = effectBar'[t]]
      BY <3>2 DEF effectBar
    <3> QED BY <3>1, <3>3
  <2>4. finalBar' = finalBar
    BY <2>1 DEF finalBar
  <2> QED BY <1>0, <2>1, <2>2, <2>3, <2>4
          DEF Outcome!Execute, outcomeBar, effectBar, finalBar
<1>3. ASSUME NEW t \in Tx, Abandon(t) PROVE Outcome!Revert(t)
  <2>1. /\ landedAt' = [landedAt EXCEPT ![t] = 0]
        /\ failed' = [failed EXCEPT ![t] = FALSE]
        /\ landedAt[t] > tip["confirmed"]
        /\ UNCHANGED <<tip, pool>>
    BY <1>3 DEF Abandon
  <2>2. effectBar[t] # "none" /\ t \notin finalBar
    BY <2>1 DEF effectBar, finalBar, EffectOf
  <2>3. effectBar' = [effectBar EXCEPT ![t] = "none"]
    BY <2>1 DEF effectBar, EffectOf
  <2>4. finalBar' = finalBar
    BY <2>1 DEF finalBar
  <2> QED BY <1>0, <2>1, <2>2, <2>3, <2>4
          DEF Outcome!Revert, outcomeBar, effectBar, finalBar
<1> QED BY <1>1, <1>2, <1>3 DEF ClusterStep, Outcome!Next

(* A step that settles t with r changes the outcome of t alone. *)
LEMMA OutcomeChange ==
    ASSUME NEW t \in Tx, NEW r, TypeInv, result' = [result EXCEPT ![t] = r],
           UNCHANGED <<tip, landedAt, failed>>
    PROVE  /\ outcomeBar' = [outcomeBar EXCEPT ![t] = OutcomeOf(r)]
           /\ effectBar' = effectBar /\ finalBar' = finalBar
BY DEF TypeInv, TypeOK, outcomeBar, effectBar, finalBar, EffectOf

LEMMA RefineStep ==
    ASSUME TypeInv, OutcomeInv, ThrottlerConsistent, NEW t \in Tx, Step(t)
    PROVE  [Outcome!Next]_(Outcome!outcomeVars)
<1>0. pc[t] # "done" => outcomeBar[t] = "pending"
  BY DEF OutcomeInv, LoopInv, outcomeBar, OutcomeOf
<1>a. ASSUME pc[t] \in {"simulate", "height"}, NEW r \in {"SimulationError", "HeightError"},
             Settle(t, r), UNCHANGED clusterVars
      PROVE  Outcome!RejectUnsent(t)
  <2>1. t \notin pool
    BY <1>a DEF OutcomeInv, LoopInv
  <2>2. outcomeBar' = [outcomeBar EXCEPT ![t] = "notSent"]
        /\ UNCHANGED <<pool, effectBar, finalBar>>
    BY <1>a, OutcomeChange DEF Settle, clusterVars, OutcomeOf
  <2> QED BY <1>0, <1>a, <2>1, <2>2
          DEF Outcome!RejectUnsent, effectBar, finalBar, outcomeBar
<1>b. ASSUME pc[t] # "done", NEW r \in {"SendError", "Expired"}, Settle(t, r),
             pool' \in {pool, pool \cup {t}}, UNCHANGED <<tip, landedAt, failed>>
      PROVE  Outcome!RejectUnknown(t)
  <2>1. outcomeBar' = [outcomeBar EXCEPT ![t] = "unknown"]
        /\ UNCHANGED <<effectBar, finalBar>>
    BY <1>b, OutcomeChange DEF Settle, OutcomeOf
  <2> QED BY <1>0, <1>b, <2>1
          DEF Outcome!RejectUnknown, effectBar, finalBar, outcomeBar
<1>c. ASSUME pc[t] # "done", pool' = pool \cup {t},
             UNCHANGED <<tip, landedAt, failed, result>>
      PROVE  Outcome!Broadcast(t)
  <2>1. UNCHANGED <<effectBar, finalBar, outcomeBar>>
    BY <1>c DEF effectBar, finalBar, outcomeBar, EffectOf
  <2> QED BY <1>0, <1>c, <2>1
          DEF Outcome!Broadcast, effectBar, finalBar, outcomeBar
<1>1. CASE SimulateOk(t)
  BY <1>1, Invisible DEF SimulateOk
<1>2. CASE SimulateBlockhashNotFound(t)
  BY <1>2, <1>a, Invisible DEF SimulateBlockhashNotFound, Outcome!Next
<1>3. CASE SimulateFails(t)
  BY <1>3, <1>a DEF SimulateFails, Outcome!Next
<1>4. CASE FirstHeight(t)
  BY <1>4, <1>a, Invisible DEF FirstHeight, Outcome!Next
<1>5. CASE LoopExpired(t)
  BY <1>5, <1>b DEF LoopExpired, Outcome!Next, clusterVars
<1>6. CASE LoopEnqueue(t)
  BY <1>6, Invisible DEF LoopEnqueue
<1>7. CASE LoopOnlyConfirm(t)
  BY <1>7, Invisible DEF LoopOnlyConfirm
<1>8. CASE StartSend(t)
  BY <1>8, Invisible DEF StartSend
<1>9. CASE NodeAccepts(t)
  BY <1>9, <1>c DEF NodeAccepts, Outcome!Next
<1>10. CASE SendOk(t)
  BY <1>10, Invisible DEF SendOk
<1>11. CASE SendMinContextSlot(t)
  BY <1>11, Invisible DEF SendMinContextSlot
<1>12. CASE SendThrows(t)
  <2>1. /\ pc[t] \in {"sending", "accepted"} /\ pool' \in {pool, pool \cup {t}}
        /\ UNCHANGED <<tip, landedAt, failed>>
    BY <1>12 DEF SendThrows
  <2>2. CASE Settle(t, "SendError")
    BY <2>1, <2>2, <1>b DEF Outcome!Next
  <2>3. CASE UNCHANGED result /\ pool' = pool
    BY <2>1, <2>3, Invisible DEF clusterVars
  <2>4. CASE UNCHANGED result /\ pool' = pool \cup {t}
    BY <2>1, <2>4, <1>c DEF Outcome!Next
  <2> QED BY <1>12, <2>1, <2>2, <2>3, <2>4 DEF SendThrows
<1>13. CASE Confirm(t)
  <2>1. PICK lag \in 0..MaxLag :
           \/ /\ Reached(t, "processed", lag) /\ failed[t]
              /\ Settle(t, "TransactionFailedError")
           \/ /\ Reached(t, StatusLevel, lag) /\ ~failed[t]
              /\ Settle(t, "Signature")
           \/ UNCHANGED result
    BY <1>13 DEF Confirm, SeenFailed, SeenLanded
  <2>2. pc[t] = "confirm" /\ UNCHANGED clusterVars
    BY <1>13 DEF Confirm
  <2>3. CASE Reached(t, "processed", lag) /\ failed[t] /\ Settle(t, "TransactionFailedError")
    <3>1. effectBar[t] = "error"
      BY <2>3 DEF Reached, effectBar, EffectOf
    <3>2. outcomeBar' = [outcomeBar EXCEPT ![t] = "failed"]
          /\ UNCHANGED <<pool, effectBar, finalBar>>
      BY <2>2, <2>3, OutcomeChange DEF Settle, clusterVars, OutcomeOf
    <3>3. Outcome!RejectFailed(t)
      BY <1>0, <2>2, <3>1, <3>2
         DEF Outcome!RejectFailed, effectBar, finalBar, outcomeBar
    <3> QED BY <3>3 DEF Outcome!Next
  <2>4. CASE Reached(t, StatusLevel, lag) /\ ~failed[t] /\ Settle(t, "Signature")
    <3>1. effectBar[t] = "ok"
      BY <2>4 DEF Reached, effectBar, EffectOf
    <3>2. StatusLevel # "processed" => t \in finalBar
      <4>1. Seen(StatusLevel, lag) \in Nat /\ Seen(StatusLevel, lag) <= tip[StatusLevel]
        BY SeenBound, ExecutorAssumption
           DEF ExecutorAssumption, TypeInv, TypeOK, ClusterTypeOK
      <4>2. StatusLevel # "processed" => tip[StatusLevel] <= tip["confirmed"]
        BY ExecutorAssumption
           DEF ExecutorAssumption, OutcomeInv, ChainInv, Level, TypeInv, TypeOK,
               ClusterTypeOK
      <4>3. /\ landedAt[t] \in Nat /\ tip[StatusLevel] \in Nat
            /\ tip["confirmed"] \in Nat
        BY ExecutorAssumption
           DEF ExecutorAssumption, Level, TypeInv, TypeOK, ClusterTypeOK
      <4> QED BY <2>4, <4>1, <4>2, <4>3 DEF Reached, finalBar
    <3>3. outcomeBar' = [outcomeBar EXCEPT ![t] = "signature"]
          /\ UNCHANGED <<pool, effectBar, finalBar>>
      BY <2>2, <2>4, OutcomeChange DEF Settle, clusterVars, OutcomeOf
    <3>4. Outcome!Resolve(t)
      BY <1>0, <2>2, <3>1, <3>2, <3>3
         DEF Outcome!Resolve, effectBar, finalBar, outcomeBar
    <3> QED BY <3>4 DEF Outcome!Next
  <2>5. CASE UNCHANGED result
    BY <2>2, <2>5, Invisible
  <2> QED BY <2>1, <2>3, <2>4, <2>5
<1>14. CASE ConfirmThrows(t)
  BY <1>14, Invisible DEF ConfirmThrows
<1>15. CASE Refresh(t)
  BY <1>15, Invisible DEF Refresh
<1>16. CASE RefreshThrows(t)
  BY <1>16, Invisible DEF RefreshThrows
<1> QED BY <1>1, <1>2, <1>3, <1>4, <1>5, <1>6, <1>7, <1>8, <1>9, <1>10, <1>11,
           <1>12, <1>13, <1>14, <1>15, <1>16 DEF Step, Loop

(* Whatever the cluster and the RPC nodes do, callers see no behaviour of  *)
(* executeTransaction that its promise does not allow.                     *)
THEOREM ExecutorImplementsOutcome == Spec => ImplementsOutcome
<1>1. TypeInv /\ OutcomeInv /\ ThrottlerConsistent /\ [Next]_vars
        => [Outcome!Next]_(Outcome!outcomeVars)
  <2> SUFFICES ASSUME TypeInv, OutcomeInv, ThrottlerConsistent, [Next]_vars
               PROVE  [Outcome!Next]_(Outcome!outcomeVars)
    OBVIOUS
  <2>1. CASE UNCHANGED vars
    BY <2>1, Invisible DEF vars, execVars
  <2>2. CASE AllSettled
    BY <2>1, <2>2 DEF AllSettled
  <2>3. CASE ClusterStep /\ UNCHANGED execVars
    BY <2>3, RefineCluster
  <2>4. CASE \E t \in Tx : Step(t)
    BY <2>4, RefineStep
  <2> QED BY <2>1, <2>2, <2>3, <2>4 DEF Next
<1> QED BY <1>1, RefineInit, TypeInvCorrect, OutcomeCorrect, ThrottlerCorrect, PTL
        DEF Spec, ImplementsOutcome, Outcome!Spec
=============================================================================
