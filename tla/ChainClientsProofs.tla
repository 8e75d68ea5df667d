------------------------- MODULE ChainClientsProofs -------------------------
(* Proofs about ChainClients, for every batch, fee, number of calls and of *)
(* retries.                                                                *)
EXTENDS ChainClients, CommonTheorems

(* What the assumption says of the requests of a call.                     *)
Requests == {Batch, <<Batch[1]>>, <<>>} \cup {o.items : o \in Operations}

LEMMA RequestTypes ==
    ASSUME NEW items \in Requests
    PROVE  /\ items \in Seq({items[i] : i \in DOMAIN items})
           /\ Len(items) \in Nat /\ DOMAIN items = 1..Len(items)
           /\ IsFiniteSet(DOMAIN items)
           /\ \A i \in DOMAIN items : items[i].amount \in Nat
  <1>1. /\ items \in Seq({items[i] : i \in DOMAIN items})
        /\ \A i \in DOMAIN items : items[i].amount \in Nat
    <2>1. CASE items = <<>>
      BY <2>1
    <2>2. CASE items \in {Batch} \cup {o.items : o \in Operations}
      BY <2>2, ChainAssumption
    <2>3. CASE items = <<Batch[1]>>
      <3>1. Batch \in Seq({Batch[i] : i \in DOMAIN Batch}) /\ Len(Batch) > 0
            /\ \A i \in DOMAIN Batch : Batch[i].amount \in Nat
        BY ChainAssumption
      <3>2. 1 \in DOMAIN Batch
        BY <3>1
      <3> QED
        BY <2>3, <3>1, <3>2
    <2> QED
      BY <2>1, <2>2, <2>3 DEF Requests
  <1>2. Len(items) \in Nat /\ DOMAIN items = 1..Len(items)
    BY <1>1
  <1> QED
    BY <1>1, <1>2, FS_Interval

-----------------------------------------------------------------------------
(* Requests, and the totals of what they are charged.                      *)
Amounts(items) == [i \in DOMAIN items |-> items[i].amount]

Charges(items, fee) ==
    [i \in DOMAIN items |-> TotalAmountToDeposit(items[i].amount, fee)]

SumOver(f) == Summing(f, DOMAIN f)[DOMAIN f]

Owed(items) == TotalAmountToDeposit(SumOver(Amounts(items)), BaseFee)

Spent(items, outcomes) ==
    Summing(Charges(items, ContractFee), DOMAIN items)
        [{i \in DOMAIN items : outcomes[i] = "mined"}]

LEMMA DepositBounds ==
    ASSUME NEW amount \in Nat, NEW fee \in Nat
    PROVE  LET deposit == TotalAmountToDeposit(amount, fee) IN
           /\ deposit \in Nat
           /\ deposit * FeeScale <= amount * (fee + FeeScale)
           /\ \A n \in Nat : n * FeeScale <= amount * (fee + FeeScale) => n <= deposit
  <1> DEFINE product == amount * (fee + FeeScale)
             quotient == product \div FeeScale
  <1>1. FeeScale \in Nat \ {0}
    BY ScheduleAssumption
  <1>2. product \in Nat
    BY <1>1
  <1> HIDE DEF product
  <1>3. /\ quotient \in Nat
        /\ quotient * FeeScale <= product /\ product < (quotient + 1) * FeeScale
    BY <1>1, <1>2
  <1> HIDE DEF quotient
  <1>4. ASSUME NEW n \in Nat, n * FeeScale <= product PROVE n <= quotient
    <2> SUFFICES ASSUME n >= quotient + 1 PROVE FALSE
      BY <1>3
    <2>1. n * FeeScale >= (quotient + 1) * FeeScale
      BY <1>1, <1>3
    <2> QED
      BY <1>1, <1>2, <1>3, <1>4, <2>1
  <1> QED
    BY <1>3, <1>4 DEF TotalAmountToDeposit, product, quotient

(* Fees rounded on their own are no more than the fee of the total: each   *)
(* rounding loses what the rounding of the total may keep.                 *)
LEMMA ChargesFit ==
    ASSUME NEW items \in Requests, NEW fee \in Nat, NEW covered \in Nat, fee <= covered
    PROVE  /\ SumOver(Amounts(items)) \in Nat
           /\ SumOver(Charges(items, fee)) <=
                TotalAmountToDeposit(SumOver(Amounts(items)), covered)
  <1> DEFINE D == DOMAIN items
             a == Amounts(items)
             f == Charges(items, fee)
             A == Summing(a, D)
             F == Summing(f, D)
             Good == {T \in SUBSET D : F[T] * FeeScale <= A[T] * (fee + FeeScale)}
  <1>1. IsFiniteSet(D) /\ \A i \in D : items[i].amount \in Nat
    BY RequestTypes
  <1>2. a \in [D -> Nat] /\ DOMAIN a = D
    BY <1>1 DEF Amounts
  <1>3. f \in [D -> Nat] /\ DOMAIN f = D
    BY <1>1, DepositBounds DEF Charges
  <1>4. FeeScale \in Nat \ {0}
    BY ScheduleAssumption
  <1>5. \A i \in D : f[i] * FeeScale <= a[i] * (fee + FeeScale)
    BY <1>1, DepositBounds DEF Charges, Amounts
  <1> HIDE DEF a, f, A, F, D
  <1>6. IsSum(A, a, D) /\ IsSum(F, f, D)
    BY <1>1, <1>2, <1>3, SummingIsSum DEF A, F
  <1>7. \A T \in SUBSET D : A[T] \in Nat /\ F[T] \in Nat
    BY <1>1, <1>2, <1>3, SumNatural DEF A, F
  <1>8. {} \in Good
    BY <1>4, <1>6 DEF IsSum
  <1>9. ASSUME NEW T \in SUBSET D, NEW x \in T, T \ {x} \in Good PROVE T \in Good
    <2> DEFINE U == T \ {x}
    <2>1. F[T] = f[x] + F[U] /\ A[T] = a[x] + A[U]
      BY <1>6 DEF IsSum
    <2>2. /\ f[x] \in Nat /\ a[x] \in Nat /\ F[U] \in Nat /\ A[U] \in Nat
          /\ f[x] * FeeScale <= a[x] * (fee + FeeScale)
          /\ F[U] * FeeScale <= A[U] * (fee + FeeScale)
      BY <1>2, <1>3, <1>5, <1>7, <1>9
    <2> HIDE DEF U
    <2>3. /\ (f[x] + F[U]) * FeeScale = f[x] * FeeScale + F[U] * FeeScale
          /\ (a[x] + A[U]) * (fee + FeeScale) =
               a[x] * (fee + FeeScale) + A[U] * (fee + FeeScale)
      BY <1>4, <2>2
    <2>4. F[T] * FeeScale <= A[T] * (fee + FeeScale)
      BY <1>4, <2>1, <2>2, <2>3
    <2> QED
      BY <2>4
  <1>10. F[D] * FeeScale <= A[D] * (fee + FeeScale)
    <2> HIDE DEF Good
    <2>1. SUBSET D \subseteq Good
      BY <1>1, <1>8, <1>9, SetInductive
    <2> QED
      BY <2>1 DEF Good
  <1>11. F[D] * FeeScale <= A[D] * (covered + FeeScale)
    <2>1. F[D] \in Nat /\ A[D] \in Nat
      BY <1>7
    <2>2. A[D] * (fee + FeeScale) <= A[D] * (covered + FeeScale)
      BY <1>4, <2>1
    <2> QED
      BY <1>4, <1>10, <2>1, <2>2
  <1>12. F[D] <= TotalAmountToDeposit(A[D], covered)
    BY <1>7, <1>11, DepositBounds
  <1> QED
    <2>1. SumOver(Amounts(items)) = A[D] /\ SumOver(Charges(items, fee)) = F[D]
      BY <1>2, <1>3 DEF SumOver, A, F, a, f
    <2> QED
      BY <1>7, <1>12, <2>1

(* The totals of the model, which are folds.                               *)
LEMMA FoldedAmounts ==
    ASSUME NEW items, NEW D, IsFiniteSet(D), \A i \in D : items[i].amount \in Nat
    PROVE  LET folded == CHOOSE sum : sum =
                   [T \in SUBSET D |->
                      IF T = {} THEN 0
                      ELSE sum[T \ {CHOOSE i \in T : TRUE}] + items[CHOOSE i \in T : TRUE].amount]
               amounts == [i \in D |-> items[i].amount]
           IN  folded[D] = Summing(amounts, D)[D]
  <1> DEFINE a == [i \in D |-> items[i].amount]
             Folds(sum) == sum = [T \in SUBSET D |->
                             IF T = {} THEN 0
                             ELSE sum[T \ {CHOOSE i \in T : TRUE}]
                                    + items[CHOOSE i \in T : TRUE].amount]
             Adds(sum) == sum = [T \in SUBSET D |->
                             IF T = {} THEN 0 ELSE sum[T \ {AnyOf(D)[T]}] + a[AnyOf(D)[T]]]
  <1>1. IsFiniteSet(D) /\ a \in [D -> Int] /\ DOMAIN a = D
    OBVIOUS
  <1>2. AnyOf(D) \in ChoiceOf(D)
    BY AnyOfIsChoice
  <1>3. ASSUME NEW sum PROVE Folds(sum) <=> Adds(sum)
    <2>1. ASSUME NEW T \in SUBSET D, T # {}
          PROVE  /\ AnyOf(D)[T] = CHOOSE i \in T : TRUE
                 /\ a[AnyOf(D)[T]] = items[CHOOSE i \in T : TRUE].amount
      <3>1. AnyOf(D)[T] = CHOOSE i \in T : TRUE
        BY <2>1 DEF AnyOf
      <3>2. AnyOf(D)[T] \in D
        BY <1>2, <2>1 DEF ChoiceOf
      <3> QED
        BY <3>1, <3>2
    <2>2. [T \in SUBSET D |-> IF T = {} THEN 0
                              ELSE sum[T \ {CHOOSE i \in T : TRUE}]
                                     + items[CHOOSE i \in T : TRUE].amount]
          = [T \in SUBSET D |->
                             IF T = {} THEN 0 ELSE sum[T \ {AnyOf(D)[T]}] + a[AnyOf(D)[T]]]
      BY <2>1
    <2> QED
      BY <2>2
  <1>4. \E sum : Folds(sum)
    <2>1. PICK sum \in [SUBSET D -> Int] : SumsBy(sum, a, AnyOf(D), D)
      BY <1>1, <1>2, SumExists
    <2>2. \A T \in SUBSET D : T # {} =>
             a[AnyOf(D)[T]] + sum[T \ {AnyOf(D)[T]}] = sum[T \ {AnyOf(D)[T]}] + a[AnyOf(D)[T]]
      <3> SUFFICES ASSUME NEW T \in SUBSET D, T # {}
                   PROVE  a[AnyOf(D)[T]] + sum[T \ {AnyOf(D)[T]}]
                            = sum[T \ {AnyOf(D)[T]}] + a[AnyOf(D)[T]]
        OBVIOUS
      <3>1. AnyOf(D)[T] \in D
        BY <1>2 DEF ChoiceOf
      <3>2. a[AnyOf(D)[T]] \in Int /\ sum[T \ {AnyOf(D)[T]}] \in Int
        BY <1>1, <3>1
      <3> QED
        BY <3>2
    <2>3. Adds(sum)
      <3> HIDE DEF a
      <3> QED
        BY <2>1, <2>2 DEF SumsBy
    <2> HIDE DEF Folds, Adds
    <2> QED
      BY <1>3, <2>3
  <1> DEFINE folded == CHOOSE sum : Folds(sum)
  <1>5. Adds(folded)
    <2> HIDE DEF Folds, Adds
    <2>1. Folds(folded)
      BY <1>4
    <2> QED
      BY <1>3, <2>1
  <1>6. IsSum(folded, a, D)
    <2> HIDE DEF folded
    <2> QED
      BY <1>1, <1>2, <1>5, SumsByIsSum
  <1>7. folded[D] = Summing(a, D)[D]
    <2> HIDE DEF folded
    <2> QED
      BY <1>1, <1>6, SumIsSumming
  <1> QED
    BY <1>7

LEMMA FoldedRequests ==
    ASSUME NEW items \in Requests
    PROVE  Evm!FoldSeq(LAMBDA item, acc : acc + item.amount, 0, items) = SumOver(Amounts(items))
  <1>1. IsFiniteSet(DOMAIN items) /\ \A i \in DOMAIN items : items[i].amount \in Nat
    BY RequestTypes
  <1>2. SumOver(Amounts(items)) = Summing([i \in DOMAIN items |-> items[i].amount], DOMAIN items)[DOMAIN items]
    BY DEF SumOver, Amounts
  <1> QED
    BY <1>1, <1>2, FoldedAmounts
       DEF Evm!FoldSeq, Evm!FoldFunction, Evm!FoldFunctionOnSet, Evm!MapThenFoldSet

-----------------------------------------------------------------------------
LEMMA Appended ==
    ASSUME NEW S, NEW s \in Seq(S), NEW x \in S, NEW t, t = Append(s, x)
    PROVE  /\ t \in Seq(S) /\ Len(s) \in Nat /\ Len(t) = Len(s) + 1
           /\ DOMAIN s = 1..Len(s) /\ DOMAIN t = 1..Len(s) + 1
           /\ t[Len(s) + 1] = x
           /\ \A k \in DOMAIN s : t[k] = s[k]
  OBVIOUS

-----------------------------------------------------------------------------
(* The calls of the EVM client, in every order in which their steps and    *)
(* the blocks may come.                                                    *)
Before == {"idle", "fees", "allowance", "approve", "approving"}

(* Types; sequences and functions where TypeOK needs less.                 *)
EvmTypes ==
    /\ op \in [Calls -> Operations \cup {Evm!NoOp}]
    /\ stage \in [Calls -> Evm!Stages]
    /\ DOMAIN fate = Calls
    /\ \A c \in Calls : fate[c] \in [Evm!Items(c) -> Evm!Fates]
    /\ allowance \in Nat
    /\ mempool \in Seq(Calls \X Nat)

(* What the node holds is pending, and is there once.                      *)
MempoolInv ==
    /\ \A k \in DOMAIN mempool : mempool[k][2] # 0 =>
          /\ mempool[k][2] \in Evm!Items(mempool[k][1])
          /\ fate[mempool[k][1]][mempool[k][2]] = "pending"
    /\ \A j, k \in DOMAIN mempool : mempool[j] = mempool[k] => j = k
    /\ \A k \in DOMAIN mempool : mempool[k][2] = 0 =>
          stage[mempool[k][1]] \notin Before \ {"approving"}

(* What a call has done by the stage it is in.                             *)
StageInv(c) ==
    /\ stage[c] \in Before => \A i \in Evm!Items(c) : fate[c][i] = "none"
    /\ stage[c] \in {"wait", "returned"} =>
         \A i \in Evm!Items(c) : fate[c][i] \notin {"none", "refused"}
    /\ stage[c] = "returned" /\ Evm!Creates(c) => Evm!Settled(c)
    /\ stage[c] = "thrown" =>
         \/ \A i \in Evm!Items(c) : fate[c][i] = "none"
         \/ \E i \in Evm!Items(c) : fate[c][i] = "refused"
         \/ op[c].kind = "create"

(* A call that has begun to rely on the allowance, and that no other call  *)
(* disturbed, finds what it has not used of its total.                     *)
Relies(c) ==
    \/ stage[c] = "submit"
    \/ stage[c] = "approving" /\ \A k \in DOMAIN mempool : mempool[k] # <<c, 0>>
    \/ \E i \in Evm!Items(c) : fate[c][i] # "none"

FundsInv(c) ==
    /\ c \notin disturbed /\ Relies(c) /\ Evm!Funded(c) =>
         allowance + Spent(op[c].items, fate[c]) >= Owed(op[c].items)
    /\ \A i \in Evm!Items(c) : fate[c][i] = "lacksAllowance" => c \in disturbed

DeployedInv ==
    \A id \in DOMAIN deployed : \E c \in Calls : \E i \in Evm!Items(c) :
        /\ id = <<c, i>> /\ fate[c][i] = "mined"
        /\ deployed[id] = Evm!Stored(Evm!Payload(Config, op[c].items[i], Sender), Sender)

EvmInv ==
    /\ EvmTypes /\ MempoolInv /\ DeployedInv
    /\ \A c \in Calls : StageInv(c) /\ FundsInv(c)

LEMMA EvmItems ==
    ASSUME NEW c \in Calls, EvmTypes
    PROVE  /\ op[c].items \in Requests
           /\ Len(op[c].items) \in Nat /\ Evm!Items(c) = 1..Len(op[c].items)
           /\ IsFiniteSet(Evm!Items(c))
           /\ \A i \in Evm!Items(c) : op[c].items[i].amount \in Nat
  <1>1. op[c].items \in Requests
    BY DEF EvmTypes, Evm!NoOp, Requests
  <1> QED
    BY <1>1, RequestTypes DEF Evm!Items

LEMMA EvmSums ==
    ASSUME NEW c \in Calls, EvmTypes
    PROVE  /\ Evm!Sum(c) = Owed(op[c].items) /\ Evm!Sum(c) \in Nat
           /\ \A i \in Evm!Items(c) :
                /\ Evm!Charge(c, i) = Charges(op[c].items, ContractFee)[i]
                /\ Evm!Charge(c, i) \in Nat
  <1> DEFINE items == op[c].items
  <1>1. BaseFee \in Nat /\ ContractFee \in Nat /\ ContractFee <= BaseFee
    BY ChainAssumption
  <1>2. items \in Requests /\ \A i \in DOMAIN items : items[i].amount \in Nat
    BY EvmItems DEF Evm!Items
  <1>3. Evm!Total(c) = SumOver(Amounts(items))
    BY <1>2, FoldedRequests DEF Evm!Total
  <1>4. SumOver(Amounts(items)) \in Nat
    BY <1>1, <1>2, ChargesFit
  <1>5. Evm!Sum(c) = Owed(items) /\ Evm!Sum(c) \in Nat
    BY <1>1, <1>3, <1>4, DepositBounds DEF Evm!Sum, Owed, Evm!TotalAmountToDeposit, TotalAmountToDeposit
  <1>6. ASSUME NEW i \in Evm!Items(c)
        PROVE  /\ Evm!Charge(c, i) = Charges(items, ContractFee)[i]
               /\ Evm!Charge(c, i) \in Nat
    <2>1. Evm!Charge(c, i) = TotalAmountToDeposit(items[i].amount, ContractFee)
      BY DEF Evm!Charge, Evm!TotalAmountToDeposit, TotalAmountToDeposit
    <2>2. TotalAmountToDeposit(items[i].amount, ContractFee) \in Nat
      BY <1>1, <1>2, DepositBounds DEF Evm!Items
    <2> QED
      BY <2>1, <2>2 DEF Charges, Evm!Items
  <1> QED
    BY <1>5, <1>6

LEMMA ChargesAdd ==
    ASSUME NEW items \in Requests
    PROVE  /\ IsFiniteSet(DOMAIN items)
           /\ Charges(items, ContractFee) \in [DOMAIN items -> Nat]
           /\ IsSum(Summing(Charges(items, ContractFee), DOMAIN items),
                    Charges(items, ContractFee), DOMAIN items)
  <1> DEFINE D == DOMAIN items
             f == Charges(items, ContractFee)
  <1>1. IsFiniteSet(D) /\ \A i \in D : items[i].amount \in Nat
    BY RequestTypes
  <1>2. f \in [D -> Nat]
    <2>1. ContractFee \in Nat
      BY ChainAssumption
    <2>2. \A i \in D : TotalAmountToDeposit(items[i].amount, ContractFee) \in Nat
      BY <1>1, <2>1, DepositBounds
    <2> QED
      BY <2>2 DEF Charges
  <1> HIDE DEF D, f
  <1>3. f \in [D -> Int]
    BY <1>2
  <1>4. IsSum(Summing(f, D), f, D)
    BY <1>1, <1>3, SummingIsSum
  <1> QED
    BY <1>1, <1>2, <1>4 DEF f, D

LEMMA SpentNothing ==
    ASSUME NEW items \in Requests
    PROVE  Summing(Charges(items, ContractFee), DOMAIN items)[{}] = 0
  BY ChargesAdd DEF IsSum

LEMMA SpentNatural ==
    ASSUME NEW items \in Requests, NEW outcomes
    PROVE  Spent(items, outcomes) \in Nat
  BY ChargesAdd, SumNatural DEF Spent

(* What is spent when one more creation is mined, and what that leaves.    *)
LEMMA SpentMore ==
    ASSUME NEW items \in Requests, NEW outcomes, NEW more, NEW i \in DOMAIN items,
           outcomes[i] # "mined", more[i] = "mined",
           \A j \in DOMAIN items \ {i} : more[j] = outcomes[j]
    PROVE  /\ Spent(items, outcomes) \in Nat
           /\ Spent(items, more) = Spent(items, outcomes) + Charges(items, ContractFee)[i]
           /\ Spent(items, more) <= Owed(items)
  <1> DEFINE D == DOMAIN items
             f == Charges(items, ContractFee)
             F == Summing(f, D)
             T == {j \in D : more[j] = "mined"}
  <1>1. /\ BaseFee \in Nat /\ ContractFee \in Nat /\ ContractFee <= BaseFee
        /\ IsFiniteSet(D) /\ \A j \in D : items[j].amount \in Nat
    <2>1. BaseFee \in Nat /\ ContractFee \in Nat /\ ContractFee <= BaseFee
      BY ChainAssumption
    <2>2. IsFiniteSet(D) /\ \A j \in D : items[j].amount \in Nat
      BY RequestTypes
    <2> QED
      BY <2>1, <2>2
  <1>2. f \in [D -> Nat] /\ DOMAIN f = D
    BY <1>1, DepositBounds DEF Charges
  <1>3. T \in SUBSET D /\ i \in T /\ {j \in D : outcomes[j] = "mined"} = T \ {i}
    OBVIOUS
  <1>4. Spent(items, more) = F[T] /\ Spent(items, outcomes) = F[T \ {i}]
    BY <1>3 DEF Spent
  <1> HIDE DEF f, F, T, D
  <1>5. F[T] = f[i] + F[T \ {i}]
    <2>1. IsSum(F, f, D)
      BY <1>1, <1>2, SummingIsSum DEF F
    <2> QED
      BY <1>3, <2>1 DEF IsSum
  <1>6. F[T \ {i}] \in Nat /\ f[i] \in Nat /\ F[D] \in Nat /\ F[T] <= F[D]
    <2>1. F[T \ {i}] \in Nat /\ F[D] \in Nat /\ F[T] <= F[D]
      BY <1>1, <1>2, <1>3, SumNatural, SumOfPart DEF F
    <2> QED
      BY <1>2, <1>3, <2>1
  <1>7. F[D] <= Owed(items)
    <2>1. SumOver(f) <= Owed(items)
      BY <1>1, ChargesFit DEF Owed, f
    <2> QED
      BY <1>2, <2>1 DEF SumOver, F
  <1>8. Owed(items) \in Nat
    BY <1>1, ChargesFit, DepositBounds DEF Owed
  <1> QED
    BY <1>4, <1>5, <1>6, <1>7, <1>8 DEF f

(* One transaction comes to something else.                                *)
LEMMA FateChanged ==
    ASSUME EvmTypes, NEW c \in Calls, NEW i \in Evm!Items(c), NEW x \in Evm!Fates,
           NEW f, f = [fate EXCEPT ![c][i] = x]
    PROVE  /\ DOMAIN f = Calls
           /\ \A d \in Calls : f[d] \in [Evm!Items(d) -> Evm!Fates]
           /\ \A d \in Calls : \A j \in Evm!Items(d) :
                f[d][j] = IF d = c /\ j = i THEN x ELSE fate[d][j]
  <1>1. DOMAIN f = Calls /\ f[c] = [fate[c] EXCEPT ![i] = x]
        /\ \A d \in Calls \ {c} : f[d] = fate[d]
    BY DEF EvmTypes
  <1>2. fate[c] \in [Evm!Items(c) -> Evm!Fates]
    BY DEF EvmTypes
  <1>3. f[c] \in [Evm!Items(c) -> Evm!Fates] /\ f[c][i] = x
        /\ \A j \in Evm!Items(c) \ {i} : f[c][j] = fate[c][j]
    BY <1>1, <1>2
  <1> QED
    BY <1>1, <1>3 DEF EvmTypes

(* The steps of a call, one by one.                                        *)
LEMMA EvmCallTypes ==
    ASSUME EvmTypes, NEW c \in Calls, Evm!CallNext(c)
    PROVE  EvmTypes'
  <1> USE DEF EvmTypes, Evm!At, Evm!Stages, Evm!Ended, Evm!chainVars
  <1>1. CASE Evm!Start(c)
    <2>1. PICK o \in Operations :
            /\ stage[c] = "idle"
            /\ stage' = [stage EXCEPT ![c] = IF o.kind = "interact" THEN "submit" ELSE "fees"]
            /\ op' = [op EXCEPT ![c] = o]
            /\ fate' = [fate EXCEPT ![c] = [i \in DOMAIN o.items |-> "none"]]
            /\ UNCHANGED <<allowance, mempool>>
      BY <1>1 DEF Evm!Start
    <2>2. \A d \in Calls : fate'[d] \in [Evm!Items(d)' -> Evm!Fates]
      BY <2>1 DEF Evm!Items, Evm!Fates
    <2> QED
      BY <2>1, <2>2
  <1>2. CASE Evm!ReadFees(c)
    BY <1>2 DEF Evm!ReadFees, Evm!Items
  <1>3. CASE Evm!ReadAllowance(c)
    BY <1>3 DEF Evm!ReadAllowance, Evm!Items
  <1>4. CASE Evm!Approve(c)
    BY <1>4 DEF Evm!Approve, Evm!Items
  <1>5. CASE Evm!Approved(c) \/ Evm!Fail(c)
    BY <1>5 DEF Evm!Approved, Evm!Fail, Evm!Items
  <1>6. ASSUME NEW i \in Evm!Items(c), Evm!Submit(c, i) \/ Evm!Refuse(c, i) PROVE EvmTypes'
    <2>1. i \in Nat
      BY EvmItems
    <2>2. PICK x \in Evm!Fates : fate' = [fate EXCEPT ![c][i] = x] /\ op' = op
      BY <1>6 DEF Evm!Submit, Evm!Refuse, Evm!Fates
    <2>3. DOMAIN fate' = Calls /\ \A d \in Calls : fate'[d] \in [Evm!Items(d) -> Evm!Fates]
      BY <1>6, <2>2, FateChanged
    <2>4. \A d \in Calls : fate'[d] \in [Evm!Items(d)' -> Evm!Fates]
      BY <2>2, <2>3 DEF Evm!Items
    <2>5. <<c, i>> \in Calls \X Nat
      BY <2>1
    <2>6. mempool' \in Seq(Calls \X Nat) /\ stage' \in [Calls -> Evm!Stages] /\ allowance' \in Nat
      <3>1. CASE Evm!Submit(c, i)
        BY <2>5, <3>1 DEF Evm!Submit
      <3>2. CASE Evm!Refuse(c, i)
        BY <3>2 DEF Evm!Refuse
      <3> QED
        BY <1>6, <3>1, <3>2
    <2>7. op' \in [Calls -> Operations \cup {Evm!NoOp}]
      BY <2>2
    <2> QED
      BY <2>3, <2>4, <2>6, <2>7
  <1>7. CASE Evm!Submitted(c) \/ Evm!Confirm(c)
    BY <1>7 DEF Evm!Submitted, Evm!Confirm, Evm!Items
  <1> QED
    BY <1>1, <1>2, <1>3, <1>4, <1>5, <1>6, <1>7 DEF Evm!CallNext

(* A step that leaves the outcomes, the allowance and the streams alone.   *)
Quiet(c) ==
    \/ Evm!ReadFees(c) \/ Evm!ReadAllowance(c) \/ Evm!Approve(c) \/ Evm!Approved(c)
    \/ Evm!Fail(c) \/ Evm!Submitted(c) \/ Evm!Confirm(c)

LEMMA QuietPreserves ==
    ASSUME EvmInv, EvmTypes', NEW c \in Calls, Quiet(c)
    PROVE  EvmInv'
  <1> USE DEF Evm!At, Evm!chainVars
  <1>1. /\ EvmTypes /\ MempoolInv /\ DeployedInv
        /\ \A d \in Calls : StageInv(d) /\ FundsInv(d)
    BY DEF EvmInv
  <1>2. /\ op' = op /\ fate' = fate /\ allowance' = allowance /\ deployed' = deployed
        /\ \A d \in Calls : Evm!Items(d)' = Evm!Items(d)
    BY DEF Quiet, Evm!ReadFees, Evm!ReadAllowance, Evm!Approve, Evm!Approved, Evm!Fail,
           Evm!Submitted, Evm!Confirm, Evm!Items
  <1>3. \A d \in Calls \ {c} : stage'[d] = stage[d] /\ (d \in disturbed' <=> d \in disturbed)
    BY DEF Quiet, Evm!ReadFees, Evm!ReadAllowance, Evm!Approve, Evm!Approved, Evm!Fail,
           Evm!Submitted, Evm!Confirm, EvmTypes
  <1>4. DeployedInv'
    BY <1>1, <1>2 DEF DeployedInv
  <1>5. StageInv(c)'
    <2>1. CASE Evm!Fail(c) \/ Evm!ReadFees(c) \/ Evm!ReadAllowance(c) \/ Evm!Approve(c)
               \/ Evm!Approved(c)
      BY <1>1, <1>2, <2>1 DEF StageInv, Evm!Fail, Evm!ReadFees, Evm!ReadAllowance, Evm!Approve,
         Evm!Approved, Before, EvmTypes, Evm!Stages, Evm!Ended
    <2>2. CASE Evm!Submitted(c)
      BY <1>1, <1>2, <2>2 DEF StageInv, Evm!Submitted, Before, EvmTypes, Evm!Creates
    <2>3. CASE Evm!Confirm(c)
      BY <1>1, <1>2, <2>3 DEF StageInv, Evm!Confirm, Before, EvmTypes, Evm!Creates, Evm!Settled,
         Evm!Throws
    <2> QED
      BY <2>1, <2>2, <2>3 DEF Quiet
  <1>6. \A d \in Calls \ {c} : StageInv(d)'
    BY <1>1, <1>2, <1>3 DEF StageInv, Evm!Creates, Evm!Settled
  <1>7. MempoolInv'
    <2>1. CASE Evm!Approve(c)
      <3> DEFINE n == Len(mempool)
      <3>1. /\ stage[c] = "approve" /\ stage'[c] = "approving"
            /\ n \in Nat /\ DOMAIN mempool = 1..n /\ DOMAIN mempool' = 1..n + 1
            /\ mempool'[n + 1] = <<c, 0>>
            /\ \A k \in 1..n : mempool'[k] = mempool[k] /\ mempool[k] \in Calls \X Nat
        BY <1>1, <2>1, Appended DEF Evm!Approve, EvmTypes
      <3>2. \A k \in 1..n : mempool[k] # <<c, 0>>
        BY <1>1, <3>1 DEF MempoolInv, Before
      <3> HIDE DEF n
      <3>3. \A k \in DOMAIN mempool' : mempool'[k][2] # 0 =>
              /\ mempool'[k][2] \in Evm!Items(mempool'[k][1])
              /\ fate[mempool'[k][1]][mempool'[k][2]] = "pending"
        BY <1>1, <3>1 DEF MempoolInv
      <3>4. \A j, k \in DOMAIN mempool' : mempool'[j] = mempool'[k] => j = k
        BY <1>1, <3>1, <3>2 DEF MempoolInv
      <3>5. \A k \in DOMAIN mempool' : mempool'[k][2] = 0 =>
              stage'[mempool'[k][1]] \notin Before \ {"approving"}
        BY <1>1, <1>3, <3>1 DEF MempoolInv
      <3> QED
        BY <1>2, <3>1, <3>3, <3>4, <3>5 DEF MempoolInv, Evm!Items
    <2>2. CASE ~ Evm!Approve(c)
      <3>1. mempool' = mempool
        BY <2>2 DEF Quiet, Evm!ReadFees, Evm!ReadAllowance, Evm!Approved, Evm!Fail,
           Evm!Submitted, Evm!Confirm
      <3>2. stage'[c] \in Before \ {"approving"} => stage[c] \in Before \ {"approving"}
        BY <1>1, <2>2 DEF Quiet, Evm!ReadFees, Evm!ReadAllowance, Evm!Approved, Evm!Fail,
           Evm!Submitted, Evm!Confirm, Before, EvmTypes
      <3>3. \A k \in DOMAIN mempool : mempool[k][1] \in Calls
        BY <1>1 DEF EvmTypes
      <3>4. \A k \in DOMAIN mempool : mempool[k][2] = 0 =>
              stage'[mempool[k][1]] \notin Before \ {"approving"}
        BY <1>1, <1>3, <3>2, <3>3 DEF MempoolInv
      <3> QED
        BY <1>1, <1>2, <3>1, <3>4 DEF MempoolInv, Evm!Items
    <2> QED
      BY <2>1, <2>2
  <1>8. ASSUME NEW d \in Calls \ {c} PROVE FundsInv(d)'
    <2>1. Relies(d)' => Relies(d)
      <3>1. CASE Evm!Approve(c)
        <4>1. DOMAIN mempool \subseteq DOMAIN mempool' /\ \A k \in DOMAIN mempool : mempool'[k] = mempool[k]
          BY <1>1, <3>1, Appended DEF Evm!Approve, EvmTypes
        <4> QED
          BY <1>1, <1>2, <1>3, <4>1 DEF Relies
      <3>2. CASE ~ Evm!Approve(c)
        BY <1>2, <1>3, <3>2 DEF Relies, Quiet, Evm!ReadFees, Evm!ReadAllowance,
           Evm!Approved, Evm!Fail, Evm!Submitted, Evm!Confirm
      <3> QED
        BY <3>1, <3>2
    <2> QED
      BY <1>1, <1>2, <1>3, <2>1 DEF FundsInv, Evm!Funded
  <1>9. FundsInv(c)'
    <2>1. CASE Evm!ReadAllowance(c)
      <3>1. \A i \in Evm!Items(c) : fate[c][i] = "none"
        BY <1>1, <2>1 DEF StageInv, Evm!ReadAllowance, Before
      <3>2. Relies(c)' => allowance >= Owed(op[c].items)
        BY <1>1, <1>2, <2>1, <3>1, EvmSums DEF Relies, Evm!ReadAllowance, EvmTypes
      <3>3. Spent(op[c].items, fate[c]) = 0
        <4>1. {i \in DOMAIN op[c].items : fate[c][i] = "mined"} = {}
          BY <3>1 DEF Evm!Items
        <4> QED
          BY <1>1, <4>1, EvmItems, SpentNothing DEF Spent
      <3> QED
        BY <1>1, <1>2, <3>1, <3>2, <3>3 DEF FundsInv, EvmTypes
    <2>2. CASE ~ Evm!ReadAllowance(c)
      <3>1. c \in disturbed' <=> c \in disturbed
        BY <2>2 DEF Quiet, Evm!ReadFees, Evm!Approve, Evm!Approved, Evm!Fail, Evm!Submitted,
           Evm!Confirm
      <3>2. Relies(c)' => Relies(c)
        <4>1. CASE Evm!Approve(c)
          <5>1. \E k \in DOMAIN mempool' : mempool'[k] = <<c, 0>>
            <6>1. Len(mempool) + 1 \in DOMAIN mempool' /\ mempool'[Len(mempool) + 1] = <<c, 0>>
              BY <1>1, <4>1, Appended DEF Evm!Approve, EvmTypes
            <6> QED
              BY <6>1
          <5>2. \A i \in Evm!Items(c) : fate[c][i] = "none"
            BY <1>1, <4>1 DEF StageInv, Evm!Approve, Before
          <5> QED
            BY <1>1, <1>2, <4>1, <5>1, <5>2 DEF Relies, Evm!Approve, EvmTypes
        <4>2. CASE ~ Evm!Approve(c)
          BY <1>1, <1>2, <2>2, <4>2 DEF Relies, Quiet, Evm!ReadFees, Evm!Approved, Evm!Fail,
             Evm!Submitted, Evm!Confirm, EvmTypes
        <4> QED
          BY <4>1, <4>2
      <3> QED
        BY <1>1, <1>2, <3>1, <3>2 DEF FundsInv, Evm!Funded
    <2> QED
      BY <2>1, <2>2
  <1> QED
    BY <1>4, <1>5, <1>6, <1>7, <1>8, <1>9 DEF EvmInv

LEMMA StartPreserves ==
    ASSUME EvmInv, EvmTypes', NEW c \in Calls, Evm!Start(c)
    PROVE  EvmInv'
  <1>1. /\ EvmTypes /\ MempoolInv /\ DeployedInv
        /\ \A d \in Calls : StageInv(d) /\ FundsInv(d)
    BY DEF EvmInv
  <1>2. PICK o \in Operations :
          /\ stage[c] = "idle"
          /\ stage' = [stage EXCEPT ![c] = IF o.kind = "interact" THEN "submit" ELSE "fees"]
          /\ op' = [op EXCEPT ![c] = o]
          /\ fate' = [fate EXCEPT ![c] = [i \in DOMAIN o.items |-> "none"]]
          /\ allowance' = allowance /\ mempool' = mempool /\ deployed' = deployed
          /\ disturbed' = disturbed
    BY DEF Evm!Start, Evm!At, Evm!chainVars
  <1>3. \A i \in Evm!Items(c) : fate[c][i] = "none"
    BY <1>1, <1>2 DEF StageInv, Before
  <1>4. /\ op'[c] = o /\ stage'[c] = (IF o.kind = "interact" THEN "submit" ELSE "fees")
        /\ \A i \in Evm!Items(c)' : fate'[c][i] = "none"
    BY <1>1, <1>2 DEF EvmTypes, Evm!Items
  <1>5. \A d \in Calls \ {c} :
          /\ op'[d] = op[d] /\ stage'[d] = stage[d] /\ fate'[d] = fate[d]
          /\ Evm!Items(d)' = Evm!Items(d)
    BY <1>1, <1>2 DEF EvmTypes, Evm!Items
  <1>6. MempoolInv'
    <2>1. \A k \in DOMAIN mempool : mempool[k] \in Calls \X Nat
      BY <1>1 DEF EvmTypes
    <2>2. ASSUME NEW k \in DOMAIN mempool PROVE mempool[k][1] \in Calls \ {c}
      <3>1. mempool[k][1] \in Calls /\ mempool[k][2] \in Nat
        BY <2>1
      <3>2. mempool[k][2] # 0 => mempool[k][1] # c
        BY <1>1, <1>3, <3>1 DEF MempoolInv
      <3>3. mempool[k][2] = 0 => mempool[k][1] # c
        BY <1>1, <1>2, <3>1 DEF MempoolInv, Before
      <3> QED
        BY <3>1, <3>2, <3>3
    <2>3. \A k \in DOMAIN mempool : mempool[k][2] # 0 =>
            /\ mempool[k][2] \in DOMAIN op'[mempool[k][1]].items
            /\ fate'[mempool[k][1]][mempool[k][2]] = "pending"
      BY <1>1, <1>5, <2>2 DEF MempoolInv, Evm!Items
    <2>4. \A k \in DOMAIN mempool : mempool[k][2] = 0 =>
            stage'[mempool[k][1]] \notin Before \ {"approving"}
      BY <1>1, <1>5, <2>2 DEF MempoolInv
    <2> QED
      BY <1>1, <1>2, <2>3, <2>4 DEF MempoolInv, Evm!Items
  <1>7. DeployedInv'
    <2> SUFFICES ASSUME NEW id \in DOMAIN deployed
                 PROVE  \E d \in Calls : \E i \in Evm!Items(d)' :
                   /\ id = <<d, i>> /\ fate'[d][i] = "mined"
                   /\ deployed[id] = Evm!Stored(Evm!Payload(Config, op'[d].items[i], Sender), Sender)
      BY <1>2 DEF DeployedInv, Evm!Items
    <2>0. PICK d \in Calls : \E i \in Evm!Items(d) :
            /\ id = <<d, i>> /\ fate[d][i] = "mined"
            /\ deployed[id] = Evm!Stored(Evm!Payload(Config, op[d].items[i], Sender), Sender)
      BY <1>1 DEF DeployedInv
    <2>1. PICK i \in Evm!Items(d) :
            /\ id = <<d, i>> /\ fate[d][i] = "mined"
            /\ deployed[id] = Evm!Stored(Evm!Payload(Config, op[d].items[i], Sender), Sender)
      BY <2>0
    <2>2. d # c
      BY <1>3, <2>1
    <2> QED
      BY <1>5, <2>1, <2>2
  <1>8. ASSUME NEW d \in Calls PROVE StageInv(d)' /\ FundsInv(d)'
    <2>1. CASE d = c
      <3>1. StageInv(c)'
        BY <1>4 DEF StageInv, Before
      <3>2. ~ Relies(c)' \/ ~ Evm!Funded(c)'
        BY <1>4 DEF Relies, Evm!Funded
      <3>3. FundsInv(c)'
        BY <1>4, <3>2 DEF FundsInv
      <3> QED
        BY <2>1, <3>1, <3>3
    <2>2. CASE d # c
      <3>1. StageInv(d)'
        BY <1>1, <1>5, <2>2 DEF StageInv, Evm!Creates, Evm!Settled
      <3>2. Relies(d)' <=> Relies(d)
        BY <1>2, <1>5, <2>2 DEF Relies
      <3>3. FundsInv(d)'
        BY <1>1, <1>2, <1>5, <2>2, <3>2 DEF FundsInv, Evm!Funded
      <3> QED
        BY <3>1, <3>3
    <2> QED
      BY <2>1, <2>2
  <1> QED
    BY <1>6, <1>7, <1>8 DEF EvmInv

LEMMA SubmitPreserves ==
    ASSUME EvmInv, EvmTypes', NEW c \in Calls, NEW i \in Evm!Items(c),
           Evm!Submit(c, i) \/ Evm!Refuse(c, i)
    PROVE  EvmInv'
  <1>1. /\ EvmTypes /\ MempoolInv /\ DeployedInv
        /\ \A d \in Calls : StageInv(d) /\ FundsInv(d)
    BY DEF EvmInv
  <1>2. /\ op' = op /\ allowance' = allowance /\ deployed' = deployed /\ disturbed' = disturbed
        /\ \A d \in Calls : Evm!Items(d)' = Evm!Items(d)
    BY DEF Evm!Submit, Evm!Refuse, Evm!chainVars, Evm!Items
  <1>3. fate[c][i] = "none" /\ i \in Nat \ {0}
    BY <1>1, EvmItems DEF Evm!Submit, Evm!Refuse
  <1>4. PICK x \in {"pending", "refused"} :
          /\ fate' = [fate EXCEPT ![c][i] = x]
          /\ x = "pending" => mempool' = Append(mempool, <<c, i>>) /\ stage' = stage
          /\ x = "refused" => mempool' = mempool /\ stage' = [stage EXCEPT ![c] = "thrown"]
    BY DEF Evm!Submit, Evm!Refuse, Evm!chainVars
  <1>5. \A d \in Calls : \A j \in Evm!Items(d) :
          fate'[d][j] = IF d = c /\ j = i THEN x ELSE fate[d][j]
    BY <1>1, <1>4, FateChanged DEF Evm!Fates
  <1>6. \A d \in Calls : stage'[d] = IF d = c /\ x = "refused" THEN "thrown" ELSE stage[d]
    BY <1>1, <1>4 DEF EvmTypes
  <1>7. Evm!Submitting(c) /\ stage[c] \notin Before
    BY DEF Evm!Submit, Evm!Refuse, Evm!Submitting, Before
  <1>8. MempoolInv'
    <2>1. \A k \in DOMAIN mempool : mempool[k] \in Calls \X Nat
      BY <1>1 DEF EvmTypes
    <2>2. \A k \in DOMAIN mempool : mempool[k] # <<c, i>>
      BY <1>1, <1>3 DEF MempoolInv
    <2>3. \A k \in DOMAIN mempool : mempool[k][2] # 0 =>
            /\ mempool[k][2] \in Evm!Items(mempool[k][1])
            /\ fate'[mempool[k][1]][mempool[k][2]] = "pending"
      <3> SUFFICES ASSUME NEW k \in DOMAIN mempool, mempool[k][2] # 0
                   PROVE  /\ mempool[k][2] \in Evm!Items(mempool[k][1])
                          /\ fate'[mempool[k][1]][mempool[k][2]] = "pending"
        OBVIOUS
      <3>1. /\ mempool[k][1] \in Calls /\ mempool[k][2] \in Evm!Items(mempool[k][1])
            /\ fate[mempool[k][1]][mempool[k][2]] = "pending"
        BY <1>1, <2>1 DEF MempoolInv
      <3>2. ~ (mempool[k][1] = c /\ mempool[k][2] = i)
        BY <1>3, <3>1
      <3> QED
        BY <1>5, <3>1, <3>2
    <2>4. \A k \in DOMAIN mempool : mempool[k][2] = 0 =>
            stage'[mempool[k][1]] \notin Before \ {"approving"}
      BY <1>1, <1>6, <2>1 DEF MempoolInv, Before
    <2>5. CASE x = "refused"
      BY <1>1, <1>2, <1>4, <2>3, <2>4, <2>5 DEF MempoolInv, Evm!Items
    <2>6. CASE x = "pending"
      <3> DEFINE n == Len(mempool)
      <3>1. /\ n \in Nat /\ DOMAIN mempool = 1..n /\ DOMAIN mempool' = 1..n + 1
            /\ mempool'[n + 1] = <<c, i>>
            /\ \A k \in 1..n : mempool'[k] = mempool[k]
        <4>1. <<c, i>> \in Calls \X Nat
          BY <1>3
        <4> QED
          BY <1>1, <1>4, <2>6, <4>1, Appended DEF EvmTypes
      <3> HIDE DEF n
      <3>2. fate'[c][i] = "pending"
        BY <1>5, <2>6
      <3>3. \A k \in DOMAIN mempool' : mempool'[k][2] # 0 =>
              /\ mempool'[k][2] \in Evm!Items(mempool'[k][1])
              /\ fate'[mempool'[k][1]][mempool'[k][2]] = "pending"
        BY <2>3, <3>1, <3>2
      <3>4. \A j, k \in DOMAIN mempool' : mempool'[j] = mempool'[k] => j = k
        BY <1>1, <2>2, <3>1 DEF MempoolInv
      <3>5. \A k \in DOMAIN mempool' : mempool'[k][2] = 0 =>
              stage'[mempool'[k][1]] \notin Before \ {"approving"}
        BY <1>3, <2>4, <3>1
      <3> QED
        BY <1>2, <3>1, <3>3, <3>4, <3>5 DEF MempoolInv, Evm!Items
    <2> QED
      BY <1>4, <2>5, <2>6
  <1>9. DeployedInv'
    <2> SUFFICES ASSUME NEW id \in DOMAIN deployed
                 PROVE  \E d \in Calls : \E j \in Evm!Items(d)' :
                   /\ id = <<d, j>> /\ fate'[d][j] = "mined"
                   /\ deployed[id] = Evm!Stored(Evm!Payload(Config, op'[d].items[j], Sender), Sender)
      BY <1>2 DEF DeployedInv, Evm!Items
    <2>0. PICK d \in Calls : \E j \in Evm!Items(d) :
            /\ id = <<d, j>> /\ fate[d][j] = "mined"
            /\ deployed[id] = Evm!Stored(Evm!Payload(Config, op[d].items[j], Sender), Sender)
      BY <1>1 DEF DeployedInv
    <2>1. PICK j \in Evm!Items(d) :
            /\ id = <<d, j>> /\ fate[d][j] = "mined"
            /\ deployed[id] = Evm!Stored(Evm!Payload(Config, op[d].items[j], Sender), Sender)
      BY <2>0
    <2>2. fate'[d][j] = "mined"
      BY <1>3, <1>5, <2>1
    <2> QED
      BY <1>2, <2>1, <2>2
  <1>10. ASSUME NEW d \in Calls PROVE StageInv(d)'
    <2>1. CASE d # c
      BY <1>1, <1>2, <1>5, <1>6, <2>1 DEF StageInv, Evm!Creates, Evm!Settled
    <2>2. CASE d = c
      <3>1. CASE x = "refused"
        <4>1. stage'[c] = "thrown" /\ fate'[c][i] = "refused" /\ i \in Evm!Items(c)'
          BY <1>2, <1>5, <1>6, <3>1
        <4> QED
          BY <2>2, <4>1 DEF StageInv, Before
      <3>2. CASE x = "pending"
        <4>1. stage'[c] = stage[c] /\ stage[c] \in {"submit", "thrown"}
          BY <1>6, <1>7, <3>2 DEF Evm!Submitting
        <4>2. CASE stage[c] = "submit"
          BY <2>2, <4>1, <4>2 DEF StageInv, Before
        <4>3. CASE stage[c] = "thrown"
          <5>1. PICK k \in Evm!Items(c) : fate[c][k] = "refused"
            BY <1>7, <4>3 DEF Evm!Submitting
          <5>2. k \in Evm!Items(c)' /\ fate'[c][k] = "refused"
            BY <1>2, <1>3, <1>5, <5>1
          <5> QED
            BY <2>2, <4>1, <4>3, <5>2 DEF StageInv, Before
        <4> QED
          BY <4>1, <4>2, <4>3
      <3> QED
        BY <3>1, <3>2
    <2> QED
      BY <2>1, <2>2
  <1>11. ASSUME NEW d \in Calls PROVE FundsInv(d)'
    <2>1. {j \in DOMAIN op[d].items : fate'[d][j] = "mined"}
            = {j \in DOMAIN op[d].items : fate[d][j] = "mined"}
      BY <1>3, <1>5 DEF Evm!Items
    <2>2. Spent(op[d].items, fate'[d]) = Spent(op[d].items, fate[d])
      BY <2>1 DEF Spent
    <2>3. Relies(d)' => Relies(d)
      <3>1. CASE d = c
        BY <1>7, <3>1 DEF Relies, Evm!Submitting
      <3>2. CASE d # c
        <4>1. DOMAIN mempool \subseteq DOMAIN mempool' /\ \A k \in DOMAIN mempool : mempool'[k] = mempool[k]
          <5>1. <<c, i>> \in Calls \X Nat
            BY <1>3
          <5>2. CASE x = "pending"
            <6>0. mempool \in Seq(Calls \X Nat) /\ mempool' = Append(mempool, <<c, i>>)
              BY <1>1, <1>4, <5>2 DEF EvmTypes
            <6>1. /\ Len(mempool) \in Nat /\ DOMAIN mempool = 1..Len(mempool)
                  /\ DOMAIN mempool' = 1..Len(mempool) + 1
                  /\ \A k \in DOMAIN mempool : mempool'[k] = mempool[k]
              BY <5>1, <6>0, Appended
            <6> QED
              BY <6>1
          <5>3. CASE x = "refused"
            BY <1>4, <5>3
          <5> QED
            BY <5>2, <5>3
        <4> QED
          BY <1>2, <1>5, <1>6, <3>2, <4>1 DEF Relies
      <3> QED
        BY <3>1, <3>2
    <2>4. \A j \in Evm!Items(d) : fate'[d][j] = "lacksAllowance" => fate[d][j] = "lacksAllowance"
      BY <1>5
    <2>5. FundsInv(d)
      BY <1>1
    <2> QED
      BY <1>2, <2>2, <2>3, <2>4, <2>5 DEF FundsInv, Evm!Funded
  <1> QED
    BY <1>8, <1>9, <1>10, <1>11 DEF EvmInv

LEMMA EvmCallPreserves ==
    ASSUME EvmInv, NEW c \in Calls, Evm!CallNext(c)
    PROVE  EvmInv'
  <1>1. EvmTypes'
    BY EvmCallTypes DEF EvmInv
  <1>2. CASE Evm!Start(c)
    BY <1>1, <1>2, StartPreserves
  <1>3. CASE Quiet(c)
    BY <1>1, <1>3, QuietPreserves
  <1>4. ASSUME NEW i \in Evm!Items(c), Evm!Submit(c, i) \/ Evm!Refuse(c, i) PROVE EvmInv'
    BY <1>1, <1>4, SubmitPreserves
  <1> QED
    BY <1>2, <1>3, <1>4 DEF Evm!CallNext, Quiet

(* The chain mines a transaction: only then are outcomes decided, and      *)
(* tokens taken.                                                           *)
LEMMA MineApproves ==
    ASSUME EvmInv, mempool # <<>>, mempool[1][2] = 0, Evm!Mine
    PROVE  /\ op' = op /\ stage' = stage /\ fate' = fate /\ deployed' = deployed
           /\ allowance' = Evm!Sum(mempool[1][1])
           /\ disturbed' = disturbed \cup (Calls \ {mempool[1][1]})
  <1> DEFINE c == mempool[1][1]
             i == mempool[1][2]
  <1>1. i = 0
    OBVIOUS
  <1> QED
    BY <1>1 DEF Evm!Mine

LEMMA MineSettles ==
    ASSUME EvmInv, mempool # <<>>, mempool[1][2] # 0, Evm!Mine
    PROVE  LET c == mempool[1][1]
               i == mempool[1][2]
           IN  \E outcome \in {"mined", "lacksAllowance", "lacksFee", "reverted"} :
                 /\ op' = op /\ stage' = stage
                 /\ disturbed' = disturbed \cup (Calls \ {c})
                 /\ fate' = [fate EXCEPT ![c][i] = outcome]
                 /\ outcome = "lacksAllowance" =>
                      Evm!Funded(c) /\ allowance < Evm!Charge(c, i)
                 /\ outcome = "mined" /\ Evm!Funded(c) => allowance >= Evm!Charge(c, i)
                 /\ allowance' = IF outcome = "mined" /\ Evm!Funded(c)
                                 THEN allowance - Evm!Charge(c, i) ELSE allowance
                 /\ \/ deployed' = deployed
                    \/ /\ outcome = "mined"
                       /\ DOMAIN deployed' = DOMAIN deployed \cup {<<c, i>>}
                       /\ deployed'[<<c, i>>] =
                            Evm!Stored(Evm!Payload(Config, op[c].items[i], Sender), Sender)
                       /\ \A id \in DOMAIN deployed \ {<<c, i>>} : deployed'[id] = deployed[id]
  BY DEF Evm!Mine, Evm!MineAs, Evm!Id

LEMMA MineTail ==
    ASSUME EvmInv, Evm!Mine
    PROVE  /\ mempool # <<>> /\ 1 \in DOMAIN mempool
           /\ mempool[1][1] \in Calls /\ mempool[1][2] \in Nat
           /\ mempool[1] = <<mempool[1][1], mempool[1][2]>>
           /\ mempool' \in Seq(Calls \X Nat)
           /\ \A k \in DOMAIN mempool' :
                /\ k + 1 \in DOMAIN mempool /\ mempool'[k] = mempool[k + 1]
                /\ mempool'[k] # mempool[1]
           /\ \A j, k \in DOMAIN mempool' : mempool'[j] = mempool'[k] => j = k
           /\ \A k \in DOMAIN mempool \ {1} : \E j \in DOMAIN mempool' : mempool'[j] = mempool[k]
  <1>1. mempool \in Seq(Calls \X Nat) /\ mempool # <<>> /\ mempool' = Tail(mempool)
    BY DEF EvmInv, EvmTypes, Evm!Mine
  <1>2. \A j, k \in DOMAIN mempool : mempool[j] = mempool[k] => j = k
    BY DEF EvmInv, MempoolInv
  <1>3. /\ Len(mempool) \in Nat \ {0} /\ DOMAIN mempool = 1..Len(mempool)
        /\ mempool' \in Seq(Calls \X Nat)
        /\ DOMAIN mempool' = 1..Len(mempool) - 1
        /\ \A k \in 1..Len(mempool) - 1 : mempool'[k] = mempool[k + 1]
    BY <1>1
  <1>4. mempool[1] \in Calls \X Nat
    BY <1>1, <1>3
  <1>5. /\ \A k \in DOMAIN mempool' :
             /\ k + 1 \in DOMAIN mempool /\ mempool'[k] = mempool[k + 1]
             /\ mempool'[k] # mempool[1]
        /\ \A j, k \in DOMAIN mempool' : mempool'[j] = mempool'[k] => j = k
    <2>1. ASSUME NEW k \in DOMAIN mempool'
          PROVE  /\ k + 1 \in DOMAIN mempool /\ mempool'[k] = mempool[k + 1]
                 /\ mempool'[k] # mempool[1]
      <3>1. k + 1 \in DOMAIN mempool /\ 1 \in DOMAIN mempool /\ k + 1 # 1
        BY <1>3
      <3> QED
        BY <1>2, <1>3, <3>1
    <2>2. ASSUME NEW j \in DOMAIN mempool', NEW k \in DOMAIN mempool', mempool'[j] = mempool'[k]
          PROVE  j = k
      <3>1. j + 1 = k + 1
        BY <1>2, <2>1, <2>2
      <3> QED
        BY <1>3, <3>1
    <2> QED
      BY <2>1, <2>2
  <1>6. ASSUME NEW k \in DOMAIN mempool \ {1}
        PROVE  \E j \in DOMAIN mempool' : mempool'[j] = mempool[k]
    <2>1. k - 1 \in DOMAIN mempool' /\ (k - 1) + 1 = k
      BY <1>3
    <2> QED
      BY <1>3, <2>1
  <1> QED
    BY <1>1, <1>3, <1>4, <1>5, <1>6

LEMMA MinePreserves ==
    ASSUME EvmInv, Evm!Mine
    PROVE  EvmInv'
  <1>1. /\ EvmTypes /\ MempoolInv /\ DeployedInv
        /\ \A d \in Calls : StageInv(d) /\ FundsInv(d)
    BY DEF EvmInv
  <1>2. PICK c \in Calls, i \in Nat :
        /\ mempool # <<>> /\ 1 \in DOMAIN mempool
        /\ mempool[1] = <<c, i>> /\ mempool[1][1] = c /\ mempool[1][2] = i
        /\ mempool' \in Seq(Calls \X Nat)
        /\ \A k \in DOMAIN mempool' :
             /\ k + 1 \in DOMAIN mempool /\ mempool'[k] = mempool[k + 1]
             /\ mempool'[k] # mempool[1]
        /\ \A j, k \in DOMAIN mempool' : mempool'[j] = mempool'[k] => j = k
        /\ \A k \in DOMAIN mempool \ {1} : \E j \in DOMAIN mempool' : mempool'[j] = mempool[k]
    BY MineTail
  <1>3. CASE i = 0
    <2>1. /\ op' = op /\ stage' = stage /\ fate' = fate /\ deployed' = deployed
          /\ allowance' = Evm!Sum(c)
          /\ disturbed' = disturbed \cup (Calls \ {c})
      BY <1>2, <1>3, MineApproves
    <2>2. allowance' \in Nat /\ allowance' = Owed(op[c].items)
      BY <1>1, <1>2, <2>1, EvmSums
    <2>3. EvmTypes'
      BY <1>1, <1>2, <2>1, <2>2 DEF EvmTypes, Evm!Items
    <2>4. MempoolInv'
      BY <1>1, <1>2, <2>1 DEF MempoolInv, Evm!Items
    <2>5. DeployedInv'
      BY <1>1, <2>1 DEF DeployedInv, Evm!Items
    <2>6. \A d \in Calls : StageInv(d)'
      BY <1>1, <2>1 DEF StageInv, Evm!Items, Evm!Creates, Evm!Settled
    <2>7. FundsInv(c)'
      <3>1. Spent(op[c].items, fate[c]) \in Nat
        BY <1>1, <1>2, EvmItems, SpentNatural
      <3> QED
        BY <1>1, <1>2, <2>1, <2>2, <3>1 DEF FundsInv, Evm!Items
    <2>8. \A d \in Calls \ {c} : FundsInv(d)'
      BY <2>1 DEF FundsInv
    <2> QED
      BY <2>3, <2>4, <2>5, <2>6, <2>7, <2>8 DEF EvmInv
  <1>4. CASE i # 0
    <2>1. i \in Evm!Items(c) /\ fate[c][i] = "pending"
      BY <1>1, <1>2, <1>4 DEF MempoolInv
    <2>2. PICK outcome \in {"mined", "lacksAllowance", "lacksFee", "reverted"} :
            /\ op' = op /\ stage' = stage
            /\ disturbed' = disturbed \cup (Calls \ {c})
            /\ fate' = [fate EXCEPT ![c][i] = outcome]
            /\ outcome = "lacksAllowance" => Evm!Funded(c) /\ allowance < Evm!Charge(c, i)
            /\ outcome = "mined" /\ Evm!Funded(c) => allowance >= Evm!Charge(c, i)
            /\ allowance' = IF outcome = "mined" /\ Evm!Funded(c)
                            THEN allowance - Evm!Charge(c, i) ELSE allowance
            /\ \/ deployed' = deployed
               \/ /\ outcome = "mined"
                  /\ DOMAIN deployed' = DOMAIN deployed \cup {<<c, i>>}
                  /\ deployed'[<<c, i>>] =
                       Evm!Stored(Evm!Payload(Config, op[c].items[i], Sender), Sender)
                  /\ \A id \in DOMAIN deployed \ {<<c, i>>} : deployed'[id] = deployed[id]
      BY <1>2, <1>4, MineSettles
    <2>0. outcome \in Evm!Fates /\ fate' = [fate EXCEPT ![c][i] = outcome]
      BY <2>2 DEF Evm!Fates
    <2>3. /\ DOMAIN fate' = Calls
          /\ \A d \in Calls : fate'[d] \in [Evm!Items(d) -> Evm!Fates]
          /\ \A d \in Calls : \A j \in Evm!Items(d) :
               fate'[d][j] = IF d = c /\ j = i THEN outcome ELSE fate[d][j]
      <3>0. DOMAIN fate' = Calls
        BY <1>1, <2>0 DEF EvmTypes
      <3>1. ASSUME NEW d \in Calls PROVE fate'[d] \in [Evm!Items(d) -> Evm!Fates]
        <4>1. fate[d] \in [Evm!Items(d) -> Evm!Fates]
          BY <1>1 DEF EvmTypes
        <4>2. d = c => fate'[d] = [fate[d] EXCEPT ![i] = outcome]
          BY <1>1, <2>0 DEF EvmTypes
        <4>3. d # c => fate'[d] = fate[d]
          BY <1>1, <2>0 DEF EvmTypes
        <4> QED
          BY <2>0, <2>1, <4>1, <4>2, <4>3
      <3>2. \A d \in Calls : \A j \in Evm!Items(d) :
              fate'[d][j] = IF d = c /\ j = i THEN outcome ELSE fate[d][j]
        BY <1>1, <2>0, <2>1, FateChanged
      <3> QED
        BY <3>0, <3>1, <3>2
    <2>4. \A d \in Calls : Evm!Items(d)' = Evm!Items(d)
      BY <2>2 DEF Evm!Items
    <2>5. Evm!Charge(c, i) \in Nat /\ Evm!Charge(c, i) = Charges(op[c].items, ContractFee)[i]
      BY <1>1, <1>2, <2>1, EvmSums
    <2>6. allowance \in Nat /\ allowance' \in Nat
      BY <1>1, <2>2, <2>5 DEF EvmTypes
    <2>7. EvmTypes'
      <3>1. \A d \in Calls : fate'[d] \in [Evm!Items(d)' -> Evm!Fates]
        BY <2>3, <2>4
      <3> QED
        BY <1>1, <1>2, <2>2, <2>3, <2>6, <3>1 DEF EvmTypes
    <2>8. MempoolInv'
      <3>1. ASSUME NEW k \in DOMAIN mempool', mempool'[k][2] # 0
            PROVE  /\ mempool'[k][2] \in Evm!Items(mempool'[k][1])
                   /\ fate'[mempool'[k][1]][mempool'[k][2]] = "pending"
        <4>1. /\ mempool'[k][1] \in Calls
              /\ mempool'[k] = <<mempool'[k][1], mempool'[k][2]>>
              /\ mempool'[k] = mempool[k + 1] /\ mempool'[k] # <<c, i>> /\ k + 1 \in DOMAIN mempool
          BY <1>2
        <4>2. /\ mempool'[k][2] \in Evm!Items(mempool'[k][1])
              /\ fate[mempool'[k][1]][mempool'[k][2]] = "pending"
          BY <1>1, <3>1, <4>1 DEF MempoolInv
        <4> QED
          BY <2>3, <4>1, <4>2
      <3>2. \A k \in DOMAIN mempool' : mempool'[k][2] = 0 =>
              stage[mempool'[k][1]] \notin Before \ {"approving"}
        BY <1>1, <1>2 DEF MempoolInv
      <3> QED
        BY <1>2, <2>2, <3>1, <3>2 DEF MempoolInv, Evm!Items
    <2>9. DeployedInv'
      <3> SUFFICES ASSUME NEW id \in DOMAIN deployed'
                   PROVE  \E d \in Calls : \E j \in Evm!Items(d) :
                     /\ id = <<d, j>> /\ fate'[d][j] = "mined"
                     /\ deployed'[id] =
                          Evm!Stored(Evm!Payload(Config, op[d].items[j], Sender), Sender)
        BY <2>2, <2>4 DEF DeployedInv
      <3>1. CASE deployed' # deployed /\ id = <<c, i>>
        BY <1>2, <2>1, <2>2, <2>3, <3>1
      <3>2. CASE ~ (deployed' # deployed /\ id = <<c, i>>)
        <4>1. id \in DOMAIN deployed /\ deployed'[id] = deployed[id]
          BY <2>2, <3>2
        <4>2. PICK d \in Calls : \E j \in Evm!Items(d) :
                /\ id = <<d, j>> /\ fate[d][j] = "mined"
                /\ deployed[id] = Evm!Stored(Evm!Payload(Config, op[d].items[j], Sender), Sender)
          BY <1>1, <4>1 DEF DeployedInv
        <4>3. PICK j \in Evm!Items(d) :
                /\ id = <<d, j>> /\ fate[d][j] = "mined"
                /\ deployed[id] = Evm!Stored(Evm!Payload(Config, op[d].items[j], Sender), Sender)
          BY <4>2
        <4>4. fate'[d][j] = "mined"
          BY <2>1, <2>3, <4>3
        <4> QED
          BY <4>1, <4>3, <4>4
      <3> QED
        BY <3>1, <3>2
    <2>10. ASSUME NEW d \in Calls PROVE StageInv(d)'
      <3>1. \A j \in Evm!Items(d) :
              /\ fate'[d][j] = "none" <=> fate[d][j] = "none"
              /\ fate'[d][j] = "refused" <=> fate[d][j] = "refused"
              /\ fate'[d][j] = "pending" => fate[d][j] = "pending"
        BY <2>1, <2>3
      <3> QED
        BY <1>1, <2>2, <2>4, <3>1 DEF StageInv, Evm!Creates, Evm!Settled
    <2>11. \A d \in Calls \ {c} : FundsInv(d)'
      BY <2>2 DEF FundsInv
    <2>12. FundsInv(c)'
      <3>1. Relies(c) /\ FundsInv(c)
        BY <1>1, <1>2, <2>1 DEF Relies
      <3>2. op[c].items \in Requests /\ DOMAIN op[c].items = Evm!Items(c)
        BY <1>1, <1>2, EvmItems DEF Evm!Items
      <3>3. c \in disturbed' <=> c \in disturbed
        BY <2>2
      <3>4. Spent(op[c].items, fate[c]) \in Nat /\ Owed(op[c].items) \in Nat
        BY <1>1, <1>2, <3>2, SpentNatural, EvmSums
      <3>5. CASE outcome = "mined"
        <4>1. Spent(op[c].items, fate'[c]) = Spent(op[c].items, fate[c]) + Evm!Charge(c, i)
          <5>1. /\ fate[c][i] # "mined" /\ fate'[c][i] = "mined" /\ i \in DOMAIN op[c].items
                /\ \A j \in DOMAIN op[c].items \ {i} : fate'[c][j] = fate[c][j]
            BY <2>1, <2>3, <3>2, <3>5
          <5> QED
            BY <2>5, <3>2, <5>1, SpentMore
        <4>2. c \notin disturbed /\ Evm!Funded(c) =>
                allowance' + Spent(op[c].items, fate'[c]) >= Owed(op[c].items)
          BY <2>2, <2>5, <2>6, <3>1, <3>4, <3>5, <4>1 DEF FundsInv
        <4>3. \A j \in Evm!Items(c) : fate'[c][j] = "lacksAllowance" => c \in disturbed
          BY <1>2, <2>3, <3>1, <3>5 DEF FundsInv
        <4> QED
          BY <2>2, <2>4, <3>3, <4>2, <4>3 DEF FundsInv, Evm!Funded
      <3>6. CASE outcome # "mined"
        <4>1. {j \in DOMAIN op[c].items : fate'[c][j] = "mined"}
                = {j \in DOMAIN op[c].items : fate[c][j] = "mined"}
          <5>1. \A j \in Evm!Items(c) : fate'[c][j] = "mined" <=> fate[c][j] = "mined"
            BY <2>1, <2>3, <3>6
          <5> QED
            BY <3>2, <5>1
        <4>2. Spent(op[c].items, fate'[c]) = Spent(op[c].items, fate[c])
          BY <4>1 DEF Spent
        <4>3. outcome = "lacksAllowance" => c \in disturbed
          <5> SUFFICES ASSUME outcome = "lacksAllowance", c \notin disturbed PROVE FALSE
            OBVIOUS
          <5>1. allowance + Spent(op[c].items, fate[c]) >= Owed(op[c].items)
            BY <2>2, <3>1 DEF FundsInv
          <5> DEFINE more == [fate[c] EXCEPT ![i] = "mined"]
          <5>2. fate[c] \in [Evm!Items(c) -> Evm!Fates]
            BY <1>1, <1>2 DEF EvmTypes
          <5>3. more[i] = "mined" /\ \A j \in DOMAIN op[c].items \ {i} : more[j] = fate[c][j]
            BY <2>1, <3>2, <5>2
          <5> HIDE DEF more
          <5>4. /\ Spent(op[c].items, more) = Spent(op[c].items, fate[c]) + Evm!Charge(c, i)
                /\ Spent(op[c].items, more) <= Owed(op[c].items)
            BY <2>1, <2>5, <3>2, <5>3, SpentMore
          <5> QED
            BY <2>2, <2>5, <2>6, <3>4, <5>1, <5>4
        <4>4. \A j \in Evm!Items(c) : fate'[c][j] = "lacksAllowance" => c \in disturbed
          BY <2>3, <3>1, <4>3 DEF FundsInv
        <4> QED
          BY <2>2, <2>4, <3>1, <3>3, <3>6, <4>2, <4>4 DEF FundsInv, Evm!Funded
      <3> QED
        BY <3>5, <3>6
    <2> QED
      BY <2>7, <2>8, <2>9, <2>10, <2>11, <2>12 DEF EvmInv
  <1> QED
    BY <1>3, <1>4

-----------------------------------------------------------------------------
(* Arguments passed by position arrive under the names of the interface.   *)
LEMMA NamedAt ==
    ASSUME NEW names, NEW values, NEW i \in DOMAIN names,
           \A j \in DOMAIN names : names[j] = names[i] => j = i
    PROVE  /\ names[i] \in DOMAIN Evm!Named(names, values)
           /\ Evm!Named(names, values)[names[i]] = values[i]
  <1>1. (CHOOSE j \in DOMAIN names : names[j] = names[i]) = i
    OBVIOUS
  <1> QED
    BY <1>1 DEF Evm!Named, Evm!Range

LEMMA InputNames ==
    /\ DOMAIN Evm!CreateInputs = 1..9
    /\ \A i, j \in DOMAIN Evm!CreateInputs :
         Evm!CreateInputs[i] = Evm!CreateInputs[j] => i = j
    /\ DOMAIN Evm!MetaInputs = 1..10
    /\ \A i, j \in DOMAIN Evm!MetaInputs :
         Evm!MetaInputs[i] = Evm!MetaInputs[j] => i = j
  <1>1. DOMAIN Evm!CreateInputs = 1..9 /\ DOMAIN Evm!MetaInputs = 1..10
    BY DEF Evm!CreateInputs, Evm!MetaInputs
  <1>2. \A i, j \in 1..9 : Evm!CreateInputs[i] = Evm!CreateInputs[j] => i = j
    BY DEF Evm!CreateInputs
  <1>3. \A i, j \in 1..10 : Evm!MetaInputs[i] = Evm!MetaInputs[j] => i = j
    BY DEF Evm!MetaInputs
  <1> QED
    BY <1>1, <1>2, <1>3

LEMMA StoredIsAsked ==
    ASSUME NEW item
    PROVE  Evm!EvmContract(Evm!Stored(Evm!Payload(Config, item, Sender), Sender))
             = Evm!Asked(Config, item, Sender)
  <1> DEFINE args == Evm!Payload(Config, item, Sender)
             input == Evm!Named(Evm!CreateInputs, args)
             meta == Evm!Named(Evm!MetaInputs, Evm!MetaOf(Config, item))
             s == Evm!Stored(args, Sender)
  <1>1. \A i \in 1..9 : /\ Evm!CreateInputs[i] \in DOMAIN input
                        /\ input[Evm!CreateInputs[i]] = args[i]
    BY InputNames, NamedAt
  <1>2. /\ {"token", "amount", "period", "amount_per_period", "start", "cliff_amount", "meta",
             "recipient"} \subseteq DOMAIN input
        /\ input.token = args[1] /\ input.amount = args[2] /\ input.period = args[3]
        /\ input.amount_per_period = args[4] /\ input.start = args[5]
        /\ input.cliff_amount = args[6] /\ input.meta = args[7] /\ input.recipient = args[8]
    <2> HIDE DEF input, args
    <2> QED
      BY <1>1 DEF Evm!CreateInputs
  <1>3. \A i \in 1..10 : meta[Evm!MetaInputs[i]] = Evm!MetaOf(Config, item)[i]
    BY InputNames, NamedAt
  <1>4. /\ meta.cancelable_by_sender = Config.cancelableBySender
        /\ meta.cancelable_by_recipient = Config.cancelableByRecipient
        /\ meta.transferable_by_sender = Config.transferableBySender
        /\ meta.transferable_by_recipient = Config.transferableByRecipient
        /\ meta.can_topup = Config.canTopup
        /\ meta.automatic_withdrawal = Evm!OrElse(Config.automaticWithdrawal, "false")
        /\ meta.withdrawal_frequency = Evm!OrElse(Config.withdrawalFrequency, "0")
        /\ meta.contract_name = item.name
    <2> HIDE DEF meta
    <2> QED
      BY <1>3 DEF Evm!MetaInputs, Evm!MetaOf
  <1>5. /\ args[1] = Config.tokenId /\ args[2] = item.amount /\ args[3] = Config.period
        /\ args[4] = item.amountPerPeriod /\ args[5] = Config.start
        /\ args[6] = item.cliffAmount /\ args[7] = Evm!MetaOf(Config, item)
        /\ args[8] = item.recipient
    BY DEF Evm!Payload
  <1> HIDE DEF args
  <1>6. /\ s.token = input.token /\ s.amount = input.amount /\ s.period = input.period
        /\ s.amount_per_period = input.amount_per_period /\ s.start = input.start
        /\ s.cliff_amount = input.cliff_amount /\ s.recipient = input.recipient
        /\ s.meta = Evm!Named(Evm!MetaInputs, input.meta) /\ s.sender = Sender
    <2>1. s = [n \in DOMAIN input \cup {"sender"} |->
                 CASE n = "meta"   -> Evm!Named(Evm!MetaInputs, input.meta)
                   [] n = "sender" -> Sender
                   [] OTHER        -> input[n]]
      BY DEF Evm!Stored
    <2> HIDE DEF s, input
    <2> QED
      BY <1>2, <2>1
  <1>7. s.meta = meta
    BY <1>2, <1>5, <1>6
  <1>8. /\ s.token = Config.tokenId /\ s.amount = item.amount /\ s.period = Config.period
        /\ s.amount_per_period = item.amountPerPeriod /\ s.start = Config.start
        /\ s.cliff_amount = item.cliffAmount /\ s.recipient = item.recipient
        /\ s.sender = Sender
    BY <1>2, <1>5, <1>6
  <1> HIDE DEF s, input, meta
  <1>9. Evm!EvmContract(s) = Evm!Asked(Config, item, Sender)
    BY <1>4, <1>7, <1>8 DEF Evm!EvmContract, Evm!Asked
  <1> QED
    BY <1>9 DEF s, args

(* Counting is the same in the instantiated modules.                       *)
LEMMA CardinalityOfInstances ==
    ASSUME NEW S
    PROVE  Evm!Cardinality(S) = Cardinality(S) /\ Sui!Cardinality(S) = Cardinality(S)
  <1>1. Evm!Cardinality(S) = Cardinality(S)
    BY DEF Evm!Cardinality, Cardinality
  <1>2. Sui!Cardinality(S) = Cardinality(S)
    BY DEF Sui!Cardinality, Cardinality
  <1> QED
    BY <1>1, <1>2

LEMMA EvmConsequences ==
    ASSUME EvmInv
    PROVE  /\ ThrownMeansRefused /\ CreatedAsAsked /\ EvmAnswers
           /\ \A c \in Calls : \A i \in Evm!Items(c) :
                fate[c][i] = "lacksAllowance" => c \in disturbed
  <1>1. /\ EvmTypes /\ MempoolInv /\ DeployedInv
        /\ \A d \in Calls : StageInv(d) /\ FundsInv(d)
    BY DEF EvmInv
  <1>2. ThrownMeansRefused
    BY <1>1 DEF ThrownMeansRefused, StageInv
  <1>3. ASSUME NEW id \in DOMAIN deployed
        PROVE  Evm!EvmContract(deployed[id]) = Evm!Asked(Config, op[id[1]].items[id[2]], Sender)
    <2>1. PICK d \in Calls : \E j \in Evm!Items(d) :
            /\ id = <<d, j>>
            /\ deployed[id] = Evm!Stored(Evm!Payload(Config, op[d].items[j], Sender), Sender)
      BY <1>1 DEF DeployedInv
    <2>2. PICK j \in Evm!Items(d) :
            /\ id = <<d, j>>
            /\ deployed[id] = Evm!Stored(Evm!Payload(Config, op[d].items[j], Sender), Sender)
      BY <2>1
    <2>3. id[1] = d /\ id[2] = j
      BY <2>2
    <2> QED
      BY <2>2, <2>3, StoredIsAsked
  <1>4. ASSUME NEW c \in Calls, stage[c] = "returned", op[c].kind = "createMultiple"
        PROVE  LET made == {i \in Evm!Items(c) : fate[c][i] = "mined"}
                   answer == Evm!MetadataToRecipient(c)
               IN  /\ DOMAIN answer = {Evm!Id(c, i) : i \in made}
                   /\ \A i \in made : answer[Evm!Id(c, i)] = op[c].items[i]
                   /\ Cardinality(made) + Evm!Failures(c) = Len(op[c].items)
    <2> DEFINE made == {i \in Evm!Items(c) : fate[c][i] = "mined"}
               failures == {i \in Evm!Items(c) : fate[c][i] \in Evm!Rejected}
               answer == Evm!MetadataToRecipient(c)
    <2>1. /\ Len(op[c].items) \in Nat /\ Evm!Items(c) = 1..Len(op[c].items)
          /\ IsFiniteSet(Evm!Items(c))
      BY <1>1, EvmItems
    <2>2. DOMAIN answer = {Evm!Id(c, i) : i \in made}
      BY DEF Evm!MetadataToRecipient, Evm!Confirmed
    <2>3. \A i \in made : answer[Evm!Id(c, i)] = op[c].items[i]
      BY DEF Evm!MetadataToRecipient, Evm!Confirmed, Evm!Id
    <2>4. \A i \in Evm!Items(c) : fate[c][i] \in {"mined"} \cup Evm!Rejected
      BY <1>1, <1>4 DEF EvmTypes, StageInv, Evm!Creates, Evm!Settled, Evm!Fates, Evm!Rejected
    <2>5. made \cup failures = Evm!Items(c) /\ made \cap failures = {}
      BY <2>4 DEF Evm!Rejected
    <2>6. Cardinality(made) + Cardinality(failures) = Len(op[c].items)
      <3>1. Cardinality(Evm!Items(c)) = Len(op[c].items)
        BY <2>1, FS_Interval
      <3>2. IsFiniteSet(made) /\ IsFiniteSet(failures)
        BY <2>1, FS_Subset
      <3> HIDE DEF made, failures
      <3>3. Cardinality(made \cup failures)
              = Cardinality(made) + Cardinality(failures) - Cardinality(made \cap failures)
        BY <3>2, FS_Union
      <3>4. Cardinality(made) \in Nat /\ Cardinality(failures) \in Nat
            /\ Cardinality(made \cap failures) = 0
        BY <2>5, <3>2, FS_CardinalityType, FS_EmptySet
      <3>5. Cardinality(made \cup failures) = Len(op[c].items)
        BY <2>5, <3>1
      <3> QED
        BY <2>1, <3>3, <3>4, <3>5
    <2>7. Evm!Failures(c) = Cardinality(failures)
      BY CardinalityOfInstances DEF Evm!Failures
    <2> HIDE DEF answer, failures
    <2> QED
      BY <2>2, <2>3, <2>6, <2>7 DEF answer
  <1> QED
    BY <1>1, <1>2, <1>3, <1>4 DEF CreatedAsAsked, EvmAnswers, FundsInv

-----------------------------------------------------------------------------
(* createMultiple on Aptos is as far as the recipients it has finished:    *)
(* each has the next place in named, and one in txs or in failed.          *)
Finished ==
    CASE step \in {"sign", "wait"} -> current - 1
      [] step = "returned" -> Aptos!Size
      [] OTHER -> 0

AptosTypes ==
    /\ operation \in Aptos!Kinds
    /\ step \in Aptos!Steps
    /\ current \in 1..Aptos!Size
    /\ submissions \in [DOMAIN Batch -> Aptos!Fates]
    /\ step = "wait" => submissions[current] # "none"
    /\ step = "thrown" => operation # "createMultiple"

NamedInv ==
    /\ named \in Seq({<<Aptos!MetadataId(i), Batch[i]>> : i \in DOMAIN Batch})
    /\ Len(named) = IF Aptos!Creates THEN Finished ELSE 0
    /\ \A k \in DOMAIN named : named[k] = <<Aptos!MetadataId(k), Batch[k]>>

ListsInv ==
    /\ txs \in Seq(DOMAIN Batch)
    /\ failed \in Seq({Batch[i] : i \in DOMAIN Batch})
    /\ Len(txs) + Len(failed) = Finished
    /\ \A i \in 1..Finished : \/ \E k \in DOMAIN txs : txs[k] = i
                              \/ \E k \in DOMAIN failed : failed[k] = Batch[i]
    /\ \A k \in DOMAIN txs : txs[k] <= Finished /\ submissions[txs[k]] # "none"
    /\ \A j, k \in DOMAIN txs : txs[j] = txs[k] => j = k

AptosInv == AptosTypes /\ NamedInv /\ ListsInv

LEMMA BatchTypes ==
    /\ Batch \in Seq({Batch[i] : i \in DOMAIN Batch})
    /\ Len(Batch) \in Nat \ {0} /\ DOMAIN Batch = 1..Len(Batch) /\ IsFiniteSet(DOMAIN Batch)
    /\ \A i \in DOMAIN Batch : Batch[i].amount \in Nat
  <1>1. Batch \in Requests
    BY DEF Requests
  <1>2. Len(Batch) > 0
    BY ChainAssumption
  <1>3. /\ Batch \in Seq({Batch[i] : i \in DOMAIN Batch})
        /\ Len(Batch) \in Nat /\ DOMAIN Batch = 1..Len(Batch) /\ IsFiniteSet(DOMAIN Batch)
        /\ \A i \in DOMAIN Batch : Batch[i].amount \in Nat
    BY <1>1, RequestTypes, Zenon
  <1> QED
    BY <1>2, <1>3

LEMMA SizeOfBatch ==
    /\ Aptos!Size \in 1..Len(Batch)
    /\ operation = "createMultiple" => Aptos!Size = Len(Batch)
  BY BatchTypes DEF Aptos!Size

LEMMA CurrentRecipient ==
    ASSUME AptosTypes
    PROVE  current \in DOMAIN Batch /\ current \in 1..Aptos!Size
  <1>1. current \in 1..Aptos!Size
    BY DEF AptosTypes
  <1>2. Aptos!Size \in 1..Len(Batch) /\ Len(Batch) \in Nat /\ DOMAIN Batch = 1..Len(Batch)
    BY SizeOfBatch, BatchTypes
  <1> QED
    BY <1>1, <1>2

LEMMA FinishedIs ==
    /\ step \in {"sign", "wait"} => Finished = current - 1
    /\ step = "returned" => Finished = Aptos!Size
    /\ step = "thrown" => Finished = 0
  BY DEF Finished

(* A recipient is finished when the loop advances past it.                 *)
LEMMA Advances ==
    ASSUME AptosTypes, step \in {"sign", "wait"}, Aptos!Advance, operation' = operation,
           submissions' \in [DOMAIN Batch -> Aptos!Fates]
    PROVE  /\ AptosTypes'
           /\ Finished = current - 1 /\ Finished' = current
           /\ current \in DOMAIN Batch
  <1>1. Aptos!Size \in 1..Len(Batch) /\ Aptos!Size' = Aptos!Size
    BY SizeOfBatch DEF Aptos!Size
  <1>2. /\ step' \in {"sign", "returned"} /\ current' \in 1..Aptos!Size
        /\ step' = "sign" => current' = current + 1
        /\ step' = "returned" => current = Aptos!Size
    BY <1>1 DEF Aptos!Advance, AptosTypes
  <1>3. AptosTypes'
    BY <1>1, <1>2 DEF AptosTypes, Aptos!Steps, Aptos!Ended, Aptos!Kinds
  <1>4. Finished = current - 1
    BY FinishedIs
  <1>5. Finished' = current
    BY <1>1, <1>2 DEF Finished, AptosTypes
  <1> QED
    BY <1>1, <1>3, <1>4, <1>5, BatchTypes DEF AptosTypes

LEMMA NamesNext ==
    ASSUME AptosTypes, NamedInv, operation' = operation,
           Finished = current - 1, Finished' = current, current \in DOMAIN Batch,
           Aptos!Named(TRUE)
    PROVE  NamedInv'
  <1> DEFINE Names == {<<Aptos!MetadataId(i), Batch[i]>> : i \in DOMAIN Batch}
             entry == <<Aptos!MetadataId(current), Batch[current]>>
  <1>1. Aptos!Creates' = Aptos!Creates
    BY DEF Aptos!Creates
  <1>2. CASE ~Aptos!Creates
    BY <1>1, <1>2 DEF NamedInv, Aptos!Named, Aptos!MetadataId
  <1>3. CASE Aptos!Creates
    <2>1. named' = Append(named, entry)
      BY <1>3 DEF Aptos!Named
    <2>2. named \in Seq(Names) /\ entry \in Names /\ Len(named) = current - 1
      BY <1>3 DEF NamedInv
    <2>3. /\ named' \in Seq(Names) /\ Len(named') = current
          /\ \A k \in DOMAIN named' : \/ k \in DOMAIN named /\ named'[k] = named[k]
                                      \/ k = current /\ named'[k] = entry
      <3> HIDE DEF Names, entry
      <3>1. current \in Nat
        BY BatchTypes
      <3> QED
        BY <2>1, <2>2, <3>1
    <2> QED
      BY <1>1, <1>3, <2>3 DEF NamedInv, Aptos!MetadataId
  <1> QED
    BY <1>2, <1>3

LEMMA PushPreserves ==
    ASSUME AptosInv, step \in {"sign", "wait"}, Aptos!Push, operation' = operation,
           submissions' \in [DOMAIN Batch -> Aptos!Fates], submissions'[current] # "none",
           \A i \in DOMAIN Batch : submissions[i] # "none" => submissions'[i] # "none"
    PROVE  AptosInv'
  <1>1. /\ AptosTypes' /\ Finished = current - 1 /\ Finished' = current
        /\ current \in DOMAIN Batch
    BY Advances DEF AptosInv, Aptos!Push
  <1>2. NamedInv'
    BY <1>1, NamesNext DEF AptosInv, Aptos!Push
  <1>3. /\ txs \in Seq(DOMAIN Batch) /\ txs' = Append(txs, current) /\ failed' = failed
        /\ failed \in Seq({Batch[i] : i \in DOMAIN Batch})
        /\ Len(txs) \in Nat /\ Len(failed) \in Nat /\ current \in Nat
    BY <1>1, BatchTypes DEF AptosInv, ListsInv, Aptos!Push
  <1>4. /\ txs' \in Seq(DOMAIN Batch) /\ Len(txs') = Len(txs) + 1
        /\ DOMAIN txs' = DOMAIN txs \cup {Len(txs) + 1} /\ Len(txs) + 1 \notin DOMAIN txs
        /\ \A k \in DOMAIN txs : txs'[k] = txs[k] /\ txs[k] \in DOMAIN Batch
        /\ txs'[Len(txs) + 1] = current
    BY <1>1, <1>3
  <1>5. Len(txs') + Len(failed') = Finished'
    BY <1>1, <1>3, <1>4 DEF AptosInv, ListsInv
  <1>6. ASSUME NEW i \in 1..Finished'
        PROVE  \/ \E k \in DOMAIN txs' : txs'[k] = i
               \/ \E k \in DOMAIN failed' : failed'[k] = Batch[i]
    <2>1. CASE i = current
      BY <1>4, <2>1
    <2>2. CASE i # current
      <3>1. i \in 1..Finished
        BY <1>1, <1>3, <2>2
      <3>2. CASE \E k \in DOMAIN txs : txs[k] = i
        BY <1>4, <3>2
      <3>3. CASE \E k \in DOMAIN failed : failed[k] = Batch[i]
        BY <1>3, <3>3
      <3> QED
        BY <3>1, <3>2, <3>3 DEF AptosInv, ListsInv
    <2> QED
      BY <2>1, <2>2
  <1>7. \A k \in DOMAIN txs : txs[k] < current /\ submissions'[txs[k]] # "none"
    BY <1>1, <1>3, <1>4, BatchTypes DEF AptosInv, ListsInv
  <1>8. \A k \in DOMAIN txs' : txs'[k] <= Finished' /\ submissions'[txs'[k]] # "none"
    BY <1>1, <1>3, <1>4, <1>7, BatchTypes
  <1>9. \A j, k \in DOMAIN txs' : txs'[j] = txs'[k] => j = k
    BY <1>3, <1>4, <1>7, BatchTypes DEF AptosInv, ListsInv
  <1>10. ListsInv'
    BY <1>3, <1>4, <1>5, <1>6, <1>8, <1>9 DEF ListsInv
  <1> QED
    BY <1>1, <1>2, <1>10 DEF AptosInv

LEMMA CatchPreserves ==
    ASSUME AptosInv, step \in {"sign", "wait"}, Aptos!Catch, operation' = operation,
           submissions' \in [DOMAIN Batch -> Aptos!Fates],
           \A i \in DOMAIN Batch : submissions[i] # "none" => submissions'[i] # "none"
    PROVE  AptosInv'
  <1>1. CASE operation # "createMultiple"
    <2>1. step' = "thrown" /\ UNCHANGED <<current, txs, named, failed>>
      BY <1>1 DEF Aptos!Catch
    <2>2. /\ Aptos!Size = 1 /\ Aptos!Size' = 1 /\ current = 1
          /\ Finished = 0 /\ Finished' = 0 /\ Aptos!Creates' = Aptos!Creates
      BY <1>1, <2>1, FinishedIs DEF Finished, Aptos!Size, AptosInv, AptosTypes, Aptos!Creates
    <2>3. AptosTypes'
      BY <1>1, <2>1, <2>2
         DEF AptosInv, AptosTypes, Aptos!Steps, Aptos!Ended
    <2>4. NamedInv'
      BY <2>1, <2>2 DEF AptosInv, NamedInv, Aptos!MetadataId
    <2>5. txs = <<>>
      BY <2>2 DEF AptosInv, ListsInv
    <2>6. ListsInv'
      BY <2>1, <2>2, <2>5 DEF AptosInv, ListsInv
    <2> QED
      BY <2>3, <2>4, <2>6 DEF AptosInv
  <1>2. CASE operation = "createMultiple"
    <2>0. /\ failed' = Append(failed, Batch[current]) /\ txs' = txs
          /\ Aptos!Named(FALSE) /\ Aptos!Advance
      BY <1>2 DEF Aptos!Catch
    <2>1. /\ AptosTypes' /\ Finished = current - 1 /\ Finished' = current
          /\ current \in DOMAIN Batch
      BY <2>0, Advances DEF AptosInv
    <2>2. NamedInv'
      BY <2>0, <2>1, NamesNext DEF AptosInv, Aptos!Named
    <2>3. /\ txs \in Seq(DOMAIN Batch)
          /\ failed \in Seq({Batch[i] : i \in DOMAIN Batch})
          /\ Len(txs) \in Nat /\ Len(failed) \in Nat /\ current \in Nat
          /\ Batch[current] \in {Batch[i] : i \in DOMAIN Batch}
      BY <2>1, BatchTypes DEF AptosInv, ListsInv
    <2>4. /\ failed' \in Seq({Batch[i] : i \in DOMAIN Batch}) /\ Len(failed') = Len(failed) + 1
          /\ DOMAIN failed' = DOMAIN failed \cup {Len(failed) + 1}
          /\ \A k \in DOMAIN failed : failed'[k] = failed[k]
          /\ failed'[Len(failed) + 1] = Batch[current]
      BY <2>0, <2>3
    <2>5. Len(txs') + Len(failed') = Finished'
      BY <2>0, <2>1, <2>3, <2>4 DEF AptosInv, ListsInv
    <2>6. ASSUME NEW i \in 1..Finished'
          PROVE  \/ \E k \in DOMAIN txs' : txs'[k] = i
                 \/ \E k \in DOMAIN failed' : failed'[k] = Batch[i]
      <3>1. CASE i = current
        BY <2>4, <3>1
      <3>2. CASE i # current
        <4>1. i \in 1..Finished
          BY <2>1, <2>3, <3>2
        <4>2. CASE \E k \in DOMAIN txs : txs[k] = i
          BY <2>0, <4>2
        <4>3. CASE \E k \in DOMAIN failed : failed[k] = Batch[i]
          BY <2>4, <4>3
        <4> QED
          BY <4>1, <4>2, <4>3 DEF AptosInv, ListsInv
      <3> QED
        BY <3>1, <3>2
    <2>7. ASSUME NEW k \in DOMAIN txs' PROVE txs'[k] <= Finished' /\ submissions'[txs'[k]] # "none"
      <3>1. /\ k \in DOMAIN txs /\ txs'[k] = txs[k] /\ txs[k] \in DOMAIN Batch
        BY <2>0, <2>3
      <3>2. txs[k] <= Finished /\ submissions[txs[k]] # "none"
        BY <3>1 DEF AptosInv, ListsInv
      <3>3. txs[k] \in Nat
        BY <3>1, BatchTypes
      <3>4. txs'[k] <= Finished'
        BY <2>1, <2>3, <3>1, <3>2, <3>3
      <3> QED
        BY <3>1, <3>2, <3>4
    <2>8. ListsInv'
      BY <2>0, <2>3, <2>4, <2>5, <2>6, <2>7 DEF AptosInv, ListsInv
    <2> QED
      BY <2>1, <2>2, <2>8 DEF AptosInv
  <1> QED
    BY <1>1, <1>2

(* What is sent, and what becomes of it.                                   *)
LEMMA AptosCallPreserves ==
    ASSUME AptosInv, Aptos!CallNext
    PROVE  AptosInv'
  <1>1. current \in DOMAIN Batch
    BY CurrentRecipient DEF AptosInv
  <1>2. CASE Aptos!Refused
    BY <1>2, CatchPreserves DEF Aptos!Refused, AptosInv, AptosTypes
  <1>3. ASSUME step = "sign", submissions' = [submissions EXCEPT ![current] = "submitted"]
        PROVE  /\ submissions' \in [DOMAIN Batch -> Aptos!Fates]
               /\ submissions'[current] # "none"
               /\ \A i \in DOMAIN Batch : submissions[i] # "none" => submissions'[i] # "none"
    BY <1>1, <1>3 DEF AptosInv, AptosTypes, Aptos!Fates
  <1>4. CASE Aptos!Submitted
    <2>1. /\ step = "sign" /\ UNCHANGED <<operation, wallet>>
          /\ submissions' = [submissions EXCEPT ![current] = "submitted"]
      BY <1>4 DEF Aptos!Submitted
    <2>2. /\ submissions' \in [DOMAIN Batch -> Aptos!Fates]
          /\ submissions'[current] # "none"
          /\ \A i \in DOMAIN Batch : submissions[i] # "none" => submissions'[i] # "none"
      BY <1>3, <2>1
    <2>3. CASE wallet = "account"
      <3>1. step' = "wait" /\ UNCHANGED <<current, txs, named, failed>>
        BY <1>4, <2>3 DEF Aptos!Submitted
      <3>2. Aptos!Size' = Aptos!Size /\ Aptos!Creates' = Aptos!Creates
        BY <2>1 DEF Aptos!Size, Aptos!Creates
      <3>3. Finished' = Finished
        BY <2>1, <3>1, <3>2 DEF Finished
      <3>4. AptosTypes'
        BY <2>1, <2>2, <3>1, <3>2 DEF AptosInv, AptosTypes, Aptos!Steps
      <3>5. NamedInv'
        BY <3>1, <3>2, <3>3 DEF AptosInv, NamedInv, Aptos!MetadataId
      <3>6. \A k \in DOMAIN txs : txs[k] \in DOMAIN Batch
        BY DEF AptosInv, ListsInv
      <3>7. ListsInv'
        BY <2>2, <3>1, <3>3, <3>6 DEF AptosInv, ListsInv
      <3> QED
        BY <3>4, <3>5, <3>7 DEF AptosInv
    <2>4. CASE wallet # "account"
      BY <1>4, <2>1, <2>2, <2>4, PushPreserves DEF Aptos!Submitted
    <2> QED
      BY <2>3, <2>4
  <1>5. CASE Aptos!AnswerLost
    BY <1>3, <1>5, CatchPreserves DEF Aptos!AnswerLost
  <1>6. CASE Aptos!Waited
    BY <1>6, PushPreserves DEF Aptos!Waited, AptosInv, AptosTypes
  <1>7. CASE Aptos!TimedOut
    BY <1>7, CatchPreserves DEF Aptos!TimedOut, AptosInv, AptosTypes
  <1> QED
    BY <1>2, <1>4, <1>5, <1>6, <1>7 DEF Aptos!CallNext

LEMMA AptosCommitPreserves ==
    ASSUME AptosInv, Aptos!Commit
    PROVE  AptosInv'
  <1>1. UNCHANGED <<operation, wallet, step, current, txs, named, failed>>
    BY DEF Aptos!Commit
  <1>2. Aptos!Size' = Aptos!Size /\ Aptos!Creates' = Aptos!Creates
    BY <1>1 DEF Aptos!Size, Aptos!Creates
  <1>3. Finished' = Finished
    BY <1>1, <1>2 DEF Finished
  <1>4. /\ submissions' \in [DOMAIN Batch -> Aptos!Fates]
        /\ \A i \in DOMAIN Batch : submissions[i] # "none" => submissions'[i] # "none"
    BY DEF Aptos!Commit, AptosInv, AptosTypes, Aptos!Fates
  <1>5. current \in DOMAIN Batch
    BY CurrentRecipient DEF AptosInv
  <1>6. AptosTypes'
    BY <1>1, <1>2, <1>4, <1>5 DEF AptosInv, AptosTypes
  <1>7. NamedInv'
    BY <1>1, <1>2, <1>3 DEF AptosInv, NamedInv, Aptos!MetadataId
  <1>8. \A k \in DOMAIN txs : txs[k] \in DOMAIN Batch
    BY DEF AptosInv, ListsInv
  <1>9. ListsInv'
    BY <1>1, <1>3, <1>4, <1>8 DEF AptosInv, ListsInv
  <1> QED
    BY <1>6, <1>7, <1>9 DEF AptosInv

LEMMA AptosConsequences ==
    ASSUME AptosInv
    PROVE  /\ AptosAnswers
           /\ step \in Aptos!Steps /\ current \in DOMAIN Batch
           /\ \A i \in DOMAIN Batch : submissions[i] \in Aptos!Fates
           /\ Len(named) <= Len(Batch)
  <1>1. /\ step \in Aptos!Steps /\ current \in DOMAIN Batch
        /\ \A i \in DOMAIN Batch : submissions[i] \in Aptos!Fates
    BY CurrentRecipient DEF AptosInv, AptosTypes
  <1>2. Finished \in 0..Len(Batch)
    <2>1. Len(Batch) \in Nat /\ DOMAIN Batch = 1..Len(Batch) /\ Aptos!Size \in 1..Len(Batch)
      BY SizeOfBatch, BatchTypes
    <2>2. CASE step \in {"sign", "wait"}
      BY <1>1, <2>1, <2>2, FinishedIs
    <2>3. CASE step \in {"returned", "thrown"}
      BY <2>1, <2>3, FinishedIs
    <2> QED
      BY <1>1, <2>2, <2>3 DEF Aptos!Steps, Aptos!Ended
  <1>3. Len(named) <= Len(Batch)
    BY <1>2, BatchTypes DEF AptosInv, NamedInv
  <1>4. ASSUME step \in Aptos!Ended, operation = "createMultiple"
        PROVE  /\ Finished = Len(Batch) /\ DOMAIN Batch = 1..Finished
               /\ DOMAIN named = DOMAIN Batch
    <2>1. Finished = Len(Batch)
      BY <1>4, FinishedIs, SizeOfBatch DEF AptosInv, AptosTypes, Aptos!Ended
    <2>2. Len(named) = Len(Batch) /\ named \in Seq({<<Aptos!MetadataId(i), Batch[i]>> : i \in DOMAIN Batch})
      BY <1>4, <2>1 DEF AptosInv, NamedInv, Aptos!Creates
    <2> QED
      BY <2>1, <2>2, BatchTypes
  <1>5. AptosAnswers
    BY <1>4 DEF AptosAnswers, AptosInv, NamedInv, ListsInv
  <1> QED
    BY <1>1, <1>3, <1>5

-----------------------------------------------------------------------------
(* A call on Sui has no answer before it ends, and then one of two kinds:  *)
(* of what was executed, or of an error that an index may come with.       *)
Answer ==
    /\ digest /\ executed \in {"success", "failure"} /\ abortedAt = -1
    /\ operation = "create" => executed = "success"
    /\ metadatas = IF Sui!Creates /\ executed = "success" THEN Sui!All ELSE {}
    /\ errors = IF operation = "createMultiple" /\ executed = "failure" THEN Sui!All ELSE {}

Error ==
    /\ ~digest /\ operation = "createMultiple" /\ metadatas = {}
    /\ errors = Sui!Blamed(abortedAt)
    /\ \/ abortedAt = -1
       \/ executed = "no" /\ abortedAt + 1 \in DOMAIN Sui!Block /\ Sui!Block[abortedAt + 1] = "call"

SuiTypes ==
    /\ operation \in Sui!Kinds
    /\ coins \in Nat
    /\ step \in Sui!Steps
    /\ tries \in 0..Retries /\ abortedAt \in Int
    /\ executed \in {"no", "success", "failure"}

SuiInv ==
    /\ SuiTypes
    /\ step \in {"fee", "build", "execute"} => executed = "no"
    /\ step \in {"fetch", "backoff"} => operation = "createMultiple" /\ executed # "no"
    /\ step # "returned" => ~digest /\ metadatas = {} /\ errors = {}
    /\ step \notin Sui!Ended => abortedAt = -1
    /\ step = "returned" => Answer \/ Error

LEMMA SuiRigid ==
    ASSUME UNCHANGED <<operation, coins>>
    PROVE  /\ Sui!All' = Sui!All /\ Sui!Creates' = Sui!Creates /\ Sui!Block' = Sui!Block
           /\ \A index : Sui!Blamed(index)' = Sui!Blamed(index)
  <1>1. Sui!All' = Sui!All /\ Sui!Creates' = Sui!Creates
    BY DEF Sui!All, Sui!Creates
  <1>2. Sui!Merges' = Sui!Merges
    BY DEF Sui!Merges
  <1>3. Sui!Block' = Sui!Block
    BY <1>1, <1>2 DEF Sui!Block, Sui!CreateBlock, Sui!TopupBlock, Sui!InteractBlock
  <1>4. \A index : Sui!Blamed(index)' = Sui!Blamed(index)
    BY <1>1, <1>2 DEF Sui!Blamed, Sui!FirstIndex, Sui!Cardinality
  <1> QED
    BY <1>1, <1>3, <1>4

(* The block: a command that merges the coins if there are several, the    *)
(* one that splits, one per recipient, and one that merges the rest.       *)
LEMMA AllRecipients ==
    /\ Sui!All \subseteq DOMAIN Batch /\ Sui!All # {}
    /\ \E n \in Nat : Sui!All = 1..n /\ n > 0 /\ Cardinality(Sui!All) = n /\ n <= Len(Batch)
    /\ IsFiniteSet(Sui!All)
  <1>1. Len(Batch) \in Nat \ {0} /\ DOMAIN Batch = 1..Len(Batch)
    BY BatchTypes
  <1>2. PICK n \in Nat : Sui!All = 1..n /\ n > 0 /\ n <= Len(Batch)
    <2>1. CASE operation = "createMultiple"
      <3>1. Sui!All = 1..Len(Batch)
        BY <1>1, <2>1 DEF Sui!All
      <3>2. Len(Batch) \in Nat /\ Len(Batch) > 0 /\ Len(Batch) <= Len(Batch)
        BY <1>1
      <3> QED
        BY <3>1, <3>2, Zenon
    <2>2. CASE operation # "createMultiple"
      <3>1. Sui!All = 1..1
        BY <2>2 DEF Sui!All
      <3> QED
        BY <1>1, <3>1
    <2> QED
      BY <2>1, <2>2
  <1>3. Cardinality(1..n) = n /\ IsFiniteSet(1..n)
    BY <1>2, FS_Interval
  <1> QED
    BY <1>1, <1>2, <1>3

LEMMA BlockShape ==
    ASSUME operation \in Sui!Kinds
    PROVE  /\ DOMAIN Sui!Block \subseteq Nat
           /\ Sui!Creates => \A n \in Nat : Sui!All = 1..n =>
                LET merges == Len(Sui!Merges) IN
                /\ merges \in 0..1
                /\ DOMAIN Sui!Block = 1..(merges + n + 2)
                /\ \A k \in DOMAIN Sui!Block :
                     Sui!Block[k] = "call" <=> k \in (merges + 2)..(merges + n + 1)
  <1>1. Sui!Merges \in Seq({"merge"}) /\ Len(Sui!Merges) \in 0..1
    <2>1. CASE coins > 1
      <3>1. Sui!Merges = <<"merge">>
        BY <2>1 DEF Sui!Merges
      <3> QED
        BY <3>1
    <2>2. CASE ~(coins > 1)
      <3>1. Sui!Merges = <<>>
        BY <2>2 DEF Sui!Merges
      <3> QED
        BY <3>1
    <2> QED
      BY <2>1, <2>2
  <1>2. PICK n \in Nat : Sui!All = 1..n
    BY AllRecipients
  <1>3. CASE Sui!Creates
    <2> DEFINE merges == Sui!Merges
               calls == [i \in Sui!All |-> "call"]
    <2>1. Sui!Block = merges \o <<"split">> \o calls \o <<"merge">>
      <3>1. operation \notin {"topup", "interact"}
        BY <1>3 DEF Sui!Creates
      <3>2. Sui!Block = Sui!CreateBlock
        BY <1>3, <3>1 DEF Sui!Block
      <3> QED
        BY <3>2 DEF Sui!CreateBlock
    <2>2. calls \in Seq({"call"}) /\ Len(calls) = n /\ \A k \in 1..n : calls[k] = "call"
      BY <1>2
    <2> HIDE DEF calls, merges
    <2> DEFINE front == merges \o <<"split">>
               middle == front \o calls
    <2>3. /\ front \in Seq({"merge", "split"}) /\ Len(front) = Len(merges) + 1
          /\ \A k \in 1..Len(merges) + 1 : front[k] # "call"
      BY <1>1 DEF merges
    <2> HIDE DEF front
    <2>4. /\ middle \in Seq({"merge", "split", "call"}) /\ Len(middle) = Len(merges) + 1 + n
          /\ \A k \in 1..Len(merges) + 1 + n :
               middle[k] = IF k <= Len(merges) + 1 THEN front[k] ELSE calls[k - (Len(merges) + 1)]
      BY <1>1, <2>2, <2>3 DEF merges
    <2> HIDE DEF middle
    <2>5. /\ DOMAIN Sui!Block = 1..(Len(merges) + n + 2)
          /\ \A k \in 1..(Len(merges) + n + 2) :
               Sui!Block[k] = IF k <= Len(merges) + 1 + n THEN middle[k] ELSE "merge"
      BY <1>1, <2>1, <2>4 DEF front, middle, merges
    <2>6. \A k \in 1..(Len(merges) + n + 2) :
            Sui!Block[k] = "call" <=> k \in (Len(merges) + 2)..(Len(merges) + n + 1)
      BY <1>1, <2>2, <2>3, <2>4, <2>5 DEF merges
    <2>7. \A m \in Nat : Sui!All = 1..m => m = n
      BY <1>2
    <2> QED
      BY <1>1, <2>5, <2>6, <2>7 DEF merges
  <1>4. CASE ~Sui!Creates
    <2>1. Sui!Block = Sui!Merges \o <<"split", "call", "merge">> \/ Sui!Block = <<"call">>
      BY <1>4 DEF Sui!Block, Sui!TopupBlock, Sui!InteractBlock, Sui!Kinds, Sui!Creates
    <2> DEFINE block == Sui!Block
               merges == Sui!Merges
    <2>2. merges \in Seq({"merge", "split", "call"})
      BY <1>1
    <2>3. <<"split", "call", "merge">> \in Seq({"merge", "split", "call"})
          /\ <<"call">> \in Seq({"merge", "split", "call"})
      OBVIOUS
    <2> HIDE DEF block, merges
    <2> DEFINE Kinds == {"merge", "split", "call"}
               rest == <<"split", "call", "merge">>
    <2>4. block \in Seq(Kinds)
      <3>1. block = merges \o rest \/ block = <<"call">>
        BY <2>1 DEF block, merges
      <3>2. rest \in Seq(Kinds) /\ <<"call">> \in Seq(Kinds)
        BY <2>3
      <3> HIDE DEF Kinds, rest
      <3>3. merges \in Seq(Kinds)
        BY <2>2 DEF Kinds
      <3>4. merges \o rest \in Seq(Kinds)
        BY <3>2, <3>3
      <3> QED
        BY <3>1, <3>2, <3>4
    <2>5. DOMAIN block \subseteq Nat
      BY <2>4
    <2> QED
      BY <1>4, <2>5 DEF block
  <1> QED
    BY <1>3, <1>4

LEMMA CatchTells ==
    ASSUME SuiInv, step \in {"execute", "fetch"}, NEW index \in Int, Sui!Catch(index),
           UNCHANGED <<operation, coins, digest, metadatas>>,
           tries' \in 0..Retries, executed' \in {"no", "success", "failure"},
           \/ index = -1
           \/ /\ executed' = "no" /\ index + 1 \in DOMAIN Sui!Block
              /\ Sui!Block[index + 1] = "call"
    PROVE  SuiInv'
  <1>1. /\ Sui!Block' = Sui!Block
        /\ Sui!Blamed(index)' = Sui!Blamed(index)
    BY SuiRigid
  <1>2. ~digest /\ metadatas = {} /\ errors = {}
    BY DEF SuiInv
  <1>3. CASE operation # "createMultiple"
    <2>1. step' = "thrown" /\ errors' = errors /\ abortedAt' = index
      BY <1>3 DEF Sui!Catch
    <2> QED
      BY <1>2, <2>1 DEF SuiInv, SuiTypes, Sui!Steps, Sui!Ended
  <1>4. CASE operation = "createMultiple"
    <2>1. step' = "returned" /\ errors' = Sui!Blamed(index) /\ abortedAt' = index
      BY <1>4 DEF Sui!Catch
    <2>2. Sui!Blamed(abortedAt)' = Sui!Blamed(index)
      BY <2>1, SuiRigid DEF Sui!Blamed
    <2>3. Error'
      BY <1>1, <1>2, <1>4, <2>1, <2>2 DEF Error
    <2> QED
      BY <2>1, <2>3 DEF SuiInv, SuiTypes, Sui!Steps, Sui!Ended
  <1> QED
    BY <1>3, <1>4

LEMMA AnswerTells ==
    ASSUME SuiInv, step \in {"execute", "fetch"}, executed' \in {"success", "failure"},
           NEW outcome, outcome = executed', Sui!Answered(outcome),
           UNCHANGED <<operation, coins, abortedAt, tries>>
    PROVE  SuiInv'
  <1>1. Sui!All' = Sui!All /\ Sui!Creates' = Sui!Creates
    BY SuiRigid
  <1>2. /\ ~digest /\ metadatas = {} /\ errors = {} /\ abortedAt = -1
    BY DEF SuiInv, Sui!Ended
  <1>3. CASE operation = "create" /\ executed' = "failure"
    <2>1. step' = "thrown" /\ digest' = digest /\ metadatas' = {} /\ errors' = {}
      BY <1>2, <1>3 DEF Sui!Answered
    <2> QED
      BY <1>2, <2>1 DEF SuiInv, SuiTypes, Sui!Steps, Sui!Ended
  <1>4. CASE ~(operation = "create" /\ executed' = "failure")
    <2>1. step' = "returned" /\ digest'
      BY <1>4 DEF Sui!Answered
    <2>2. /\ metadatas' = IF Sui!Creates /\ executed' = "success" THEN Sui!All ELSE {}
          /\ errors' = IF operation = "createMultiple" /\ executed' = "failure" THEN Sui!All ELSE {}
      BY <1>2 DEF Sui!Answered
    <2>3. Answer'
      BY <1>1, <1>2, <1>4, <2>1, <2>2 DEF Answer
    <2> QED
      BY <2>1, <2>3 DEF SuiInv, SuiTypes, Sui!Steps, Sui!Ended
  <1> QED
    BY <1>3, <1>4

LEMMA SuiPreserves ==
    ASSUME SuiInv, Sui!Next
    PROVE  SuiInv'
  <1> USE DEF SuiTypes, Sui!Steps, Sui!Ended
  <1>1. CASE Sui!ReadFee
    BY <1>1 DEF SuiInv, Sui!ReadFee
  <1>2. CASE Sui!Build
    BY <1>2 DEF SuiInv, Sui!Build
  <1>3. CASE Sui!Refused
    <2>1. PICK index \in {-1} \cup {k - 1 : k \in {j \in DOMAIN Sui!Block : Sui!Block[j] = "call"}} :
            Sui!Catch(index)
      BY <1>3 DEF Sui!Refused
    <2>2. step = "execute" /\ UNCHANGED <<operation, coins, native, executed, tries, digest, metadatas>>
      BY <1>3 DEF Sui!Refused
    <2>3. executed = "no" /\ tries \in 0..Retries
      BY <2>2 DEF SuiInv
    <2>4. CASE index = -1
      BY <2>1, <2>2, <2>3, <2>4, CatchTells
    <2>5. CASE index # -1
      <3>1. PICK k \in DOMAIN Sui!Block : Sui!Block[k] = "call" /\ index = k - 1
        BY <2>5
      <3>2. DOMAIN Sui!Block \subseteq Nat
        BY BlockShape DEF SuiInv
      <3>3. index + 1 = k /\ index \in Int
        BY <3>1, <3>2
      <3> QED
        BY <2>1, <2>2, <2>3, <3>1, <3>3, CatchTells
    <2> QED
      BY <2>4, <2>5
  <1>4. CASE Sui!AnswerLost
    BY <1>4, CatchTells DEF SuiInv, Sui!AnswerLost
  <1>5. CASE Sui!Executed
    BY <1>5, AnswerTells DEF Sui!Executed
  <1>6. CASE Sui!ExecutedWithoutEffects
    BY <1>6 DEF SuiInv, Sui!ExecutedWithoutEffects, Sui!Creates
  <1>7. CASE Sui!Fetched
    BY <1>7, AnswerTells DEF SuiInv, Sui!Fetched
  <1>8. CASE Sui!NotFound
    <2>1. step = "fetch" /\ UNCHANGED <<operation, coins, native, executed, digest, metadatas>>
      BY <1>8 DEF Sui!NotFound
    <2>2. CASE Sui!RetriesLeft
      <3>1. step' = "backoff" /\ tries' \in 0..Retries /\ UNCHANGED <<abortedAt, errors>>
        BY <1>8, <2>2, ChainAssumption DEF SuiInv, Sui!NotFound, Sui!RetriesLeft, Sui!Least
      <3> QED
        BY <2>1, <3>1 DEF SuiInv
    <2>3. CASE ~Sui!RetriesLeft
      BY <1>8, <2>1, <2>3, CatchTells DEF SuiInv, Sui!NotFound
    <2> QED
      BY <2>2, <2>3
  <1>9. CASE Sui!Backoff
    BY <1>9 DEF SuiInv, Sui!Backoff
  <1>10. CASE Sui!FetchFails
    BY <1>10, CatchTells DEF SuiInv, Sui!FetchFails
  <1> QED
    BY <1>1, <1>2, <1>3, <1>4, <1>5, <1>6, <1>7, <1>8, <1>9, <1>10 DEF Sui!Next

LEMMA SuiConsequences ==
    ASSUME SuiInv
    PROVE  /\ SuiAnswers
           /\ step \in Sui!Steps /\ tries \in 0..Retries
           /\ metadatas \subseteq DOMAIN Batch /\ errors \subseteq DOMAIN Batch
           /\ step = "returned" /\ abortedAt >= 0 =>
                Cardinality({k \in 1..abortedAt + 1 : Sui!Block[k] = "call"}) \in errors
  <1>1. step \in Sui!Steps /\ tries \in 0..Retries /\ operation \in Sui!Kinds
    BY DEF SuiInv, SuiTypes
  <1>2. Sui!All \subseteq DOMAIN Batch /\ Sui!All # {}
    BY AllRecipients
  <1>3. \A index : Sui!Blamed(index) \subseteq Sui!All
    BY DEF Sui!Blamed
  <1>4. metadatas \subseteq DOMAIN Batch /\ errors \subseteq DOMAIN Batch
    <2>1. CASE step # "returned"
      BY <2>1 DEF SuiInv
    <2>2. CASE step = "returned"
      BY <1>2, <1>3, <2>2 DEF SuiInv, Answer, Error
    <2> QED
      BY <2>1, <2>2
  <1>5. Sui!Blamed(-1) = Sui!All
    BY DEF Sui!Blamed
  <1>6. ASSUME Error, abortedAt # -1
        PROVE  /\ executed = "no" /\ abortedAt >= 0
               /\ LET calls == {k \in 1..abortedAt + 1 : Sui!Block[k] = "call"} IN
                    Cardinality(calls) \in Sui!Blamed(abortedAt)
    <2>1. /\ executed = "no" /\ abortedAt + 1 \in DOMAIN Sui!Block
          /\ Sui!Block[abortedAt + 1] = "call" /\ operation = "createMultiple"
      BY <1>6 DEF Error
    <2>2. PICK n \in Nat : Sui!All = 1..n /\ n > 0
      BY AllRecipients
    <2> DEFINE merges == Len(Sui!Merges)
               calls == {k \in 1..abortedAt + 1 : Sui!Block[k] = "call"}
    <2>3. /\ merges \in 0..1
          /\ DOMAIN Sui!Block = 1..(merges + n + 2)
          /\ \A k \in DOMAIN Sui!Block :
               Sui!Block[k] = "call" <=> k \in (merges + 2)..(merges + n + 1)
      BY <1>1, <2>1, <2>2, BlockShape DEF Sui!Creates
    <2>4. abortedAt + 1 \in (merges + 2)..(merges + n + 1)
      BY <2>1, <2>3
    <2>5. Sui!FirstIndex = merges + 1
      BY DEF Sui!FirstIndex
    <2> HIDE DEF merges
    <2>6. abortedAt \in Nat /\ merges \in Nat /\ n \in Nat
      BY <2>2, <2>3, <2>4 DEF SuiInv, SuiTypes
    <2>7. calls = (merges + 2)..(abortedAt + 1)
      BY <2>2, <2>3, <2>4, <2>6
    <2>8. Cardinality(calls) = abortedAt - merges
      <3>1. merges + 2 \in Int /\ abortedAt + 1 \in Int /\ merges + 2 <= abortedAt + 1
        BY <2>4, <2>6
      <3>2. Cardinality((merges + 2)..(abortedAt + 1)) = (abortedAt + 1) - (merges + 2) + 1
        BY <3>1, FS_Interval
      <3>3. Cardinality((merges + 2)..(abortedAt + 1)) = abortedAt - merges
        BY <2>6, <3>2
      <3> QED
        BY <2>7, <3>3
    <2>9. abortedAt - merges \in Sui!All /\ abortedAt = (abortedAt - merges) - 1 + Sui!FirstIndex
      BY <2>2, <2>3, <2>4, <2>5, <2>6
    <2> HIDE DEF calls
    <2>10. Cardinality(calls) \in Sui!Blamed(abortedAt)
      BY <2>8, <2>9 DEF Sui!Blamed
    <2> QED
      BY <2>1, <2>6, <2>10 DEF calls
  <1>7. Sui!All # {} /\ (Error => errors # {})
    <2>1. CASE Error /\ abortedAt = -1
      BY <1>2, <1>5, <2>1 DEF Error
    <2>2. CASE Error /\ abortedAt # -1
      <3>1. errors = Sui!Blamed(abortedAt)
        BY <2>2 DEF Error
      <3>2. Sui!Blamed(abortedAt) # {}
        BY <1>6, <2>2
      <3> QED
        BY <1>2, <3>1, <3>2
    <2> QED
      BY <1>2, <2>1, <2>2
  <1>8. Error => (executed = "success" => errors = Sui!All)
    BY <1>5, <1>6 DEF Error
  <1>9. SuiAnswers
    <2>1. ASSUME step = "returned", Answer PROVE SuiAnswers
      BY <1>2, <2>1 DEF SuiAnswers, Answer, Sui!Creates
    <2>2. ASSUME step = "returned", Error PROVE SuiAnswers
      BY <1>7, <1>8, <2>2 DEF SuiAnswers, Error, Sui!Creates
    <2>3. ASSUME step # "returned" PROVE SuiAnswers
      BY <2>3 DEF SuiAnswers, SuiInv
    <2> QED
      BY <2>1, <2>2, <2>3 DEF SuiInv
  <1>10. ASSUME step = "returned", abortedAt >= 0
         PROVE  Cardinality({k \in 1..abortedAt + 1 : Sui!Block[k] = "call"}) \in errors
    <2>1. abortedAt # -1
      BY <1>10
    <2>2. Error
      BY <1>10, <2>1 DEF SuiInv, Answer
    <2> QED
      BY <1>6, <2>1, <2>2 DEF Error
  <1> QED
    BY <1>1, <1>4, <1>9, <1>10

(* What the coin that is split off is for.                                 *)
Asked == IF operation = "createMultiple" THEN Batch ELSE <<Batch[1]>>

LEMMA SplitCovers ==
    LET taken[n \in 0..Len(Batch)] ==
            IF n = 0 THEN 0
            ELSE taken[n - 1] + TotalAmountToDeposit(Batch[n].amount, TotalFee)
    IN  taken[Cardinality(Sui!All)] <= Sui!SplitAmount
  <1> DEFINE N == Len(Batch)
             charges == [i \in 1..N |-> TotalAmountToDeposit(Batch[i].amount, TotalFee)]
             Taken(sum) == sum = [n \in 0..N |->
                             IF n = 0 THEN 0
                             ELSE sum[n - 1] + TotalAmountToDeposit(Batch[n].amount, TotalFee)]
             Adds(sum) == sum = [n \in 0..N |-> IF n = 0 THEN 0 ELSE sum[n - 1] + charges[n]]
             taken == CHOOSE sum : Taken(sum)
  <1>1. /\ N \in Nat \ {0} /\ DOMAIN Batch = 1..N /\ \A i \in 1..N : Batch[i].amount \in Nat
        /\ TotalFee \in Nat
    BY BatchTypes, ChainAssumption
  <1>2. PICK k \in Nat : Sui!All = 1..k /\ k > 0 /\ Cardinality(Sui!All) = k /\ k <= N
    BY AllRecipients
  <1>3. /\ Asked \in Requests /\ DOMAIN Asked = 1..k
        /\ \A i \in 1..k : Asked[i] = Batch[i]
    <2>1. CASE operation = "createMultiple"
      BY <1>1, <1>2, <2>1 DEF Asked, Requests, Sui!All
    <2>2. CASE operation # "createMultiple"
      <3>1. 1..k = {1} /\ Asked = <<Batch[1]>>
        BY <1>2, <2>2 DEF Asked, Sui!All
      <3>2. DOMAIN <<Batch[1]>> = {1} /\ <<Batch[1]>>[1] = Batch[1]
        OBVIOUS
      <3> QED
        BY <3>1, <3>2 DEF Requests
    <2> QED
      BY <2>1, <2>2
  <1>4. charges \in [1..N -> Int]
    <2>1. \A i \in 1..N : TotalAmountToDeposit(Batch[i].amount, TotalFee) \in Nat
      BY <1>1, DepositBounds
    <2> QED
      BY <2>1
  <1>5. ASSUME NEW sum PROVE Taken(sum) <=> Adds(sum)
    <2>1. \A n \in 0..N : n # 0 => charges[n] = TotalAmountToDeposit(Batch[n].amount, TotalFee)
      BY <1>1
    <2> HIDE DEF charges
    <2>2. [n \in 0..N |-> IF n = 0 THEN 0
                          ELSE sum[n - 1] + TotalAmountToDeposit(Batch[n].amount, TotalFee)]
          = [n \in 0..N |-> IF n = 0 THEN 0 ELSE sum[n - 1] + charges[n]]
      BY <2>1
    <2> QED
      BY <2>2
  <1>6. Adds(taken)
    <2> HIDE DEF charges
    <2>1. \E sum : Adds(sum)
      BY <1>1, <1>4, SegmentSumsExist
    <2> HIDE DEF Taken, Adds
    <2> QED
      BY <1>5, <2>1
  <1>7. /\ Charges(Asked, TotalFee) \in [1..k -> Int]
        /\ \A i \in 1..k : Charges(Asked, TotalFee)[i] = charges[i]
    BY <1>2, <1>3, <1>4 DEF Charges
  <1>8. taken[k] = SumOver(Charges(Asked, TotalFee))
    <2> HIDE DEF taken, charges
    <2>1. taken[k] = Summing(Charges(Asked, TotalFee), 1..k)[1..k]
      <3> DEFINE own == Charges(Asked, TotalFee)
      <3>1. k \in Nat /\ k <= N /\ N \in Nat
        BY <1>1, <1>2
      <3>2. own \in [1..k -> Int] /\ \A i \in 1..k : own[i] = charges[i]
        BY <1>7
      <3> HIDE DEF own
      <3>3. RunningSum(taken, own, k)
        BY <1>6, <3>1, <3>2 DEF RunningSum
      <3>4. taken[k] = Summing(own, 1..k)[1..k]
        BY <3>1, <3>2, <3>3, SegmentSum
      <3> QED
        BY <3>4 DEF own
    <2>2. DOMAIN Charges(Asked, TotalFee) = 1..k
      BY <1>7
    <2> QED
      BY <2>1, <2>2 DEF SumOver
  <1>9. Sui!SplitAmount = TotalAmountToDeposit(SumOver(Amounts(Asked)), TotalFee)
    <2> DEFINE amounts == [i \in Sui!All |-> Batch[i].amount]
    <2>1. amounts = Amounts(Asked) /\ DOMAIN Amounts(Asked) = Sui!All
      BY <1>2, <1>3 DEF Amounts
    <2>2. IsFiniteSet(Sui!All) /\ \A i \in Sui!All : Batch[i].amount \in Nat
      BY <1>1, <1>2, AllRecipients
    <2>3. Sui!FoldSet(LAMBDA i, acc : acc + Batch[i].amount, 0, Sui!All)
            = Summing(amounts, Sui!All)[Sui!All]
      BY <2>2, FoldedAmounts DEF Sui!FoldSet, Sui!MapThenFoldSet
    <2> QED
      BY <2>1, <2>3 DEF Sui!SplitAmount, SumOver, Sui!TotalAmountToDeposit, TotalAmountToDeposit
  <1>10. SumOver(Charges(Asked, TotalFee)) <= TotalAmountToDeposit(SumOver(Amounts(Asked)), TotalFee)
    BY <1>1, <1>3, ChargesFit
  <1> HIDE DEF taken
  <1>11. taken[Cardinality(Sui!All)] <= Sui!SplitAmount
    BY <1>2, <1>8, <1>9, <1>10
  <1> QED
    BY <1>11 DEF taken

-----------------------------------------------------------------------------
(* The client of one chain, and the other chains' at rest.                 *)
ChainInv ==
    /\ chain \in {"evm", "aptos", "sui"}
    /\ EvmInv
    /\ chain = "aptos" => AptosInv
    /\ chain = "sui" => SuiInv

LEMMA EvmBegins ==
    ASSUME Evm!Init
    PROVE  EvmInv
  <1>1. /\ op = [c \in Calls |-> Evm!NoOp] /\ stage = [c \in Calls |-> "idle"]
        /\ fate = [c \in Calls |-> <<>>] /\ allowance = 0 /\ mempool = <<>>
        /\ deployed = <<>> /\ disturbed = {}
    BY DEF Evm!Init
  <1>2. \A c \in Calls : Evm!Items(c) = {} /\ op[c].kind = "none"
    BY <1>1 DEF Evm!Items, Evm!NoOp
  <1>3. EvmTypes
    <2>1. \A c \in Calls : fate[c] \in [Evm!Items(c) -> Evm!Fates]
      BY <1>1, <1>2
    <2>2. mempool \in Seq(Calls \X Nat)
      BY <1>1
    <2> QED
      BY <1>1, <2>1, <2>2 DEF EvmTypes, Evm!Stages
  <1>4. MempoolInv /\ DeployedInv
    BY <1>1 DEF MempoolInv, DeployedInv
  <1>5. ASSUME NEW c \in Calls PROVE StageInv(c) /\ FundsInv(c)
    <2>1. StageInv(c)
      BY <1>1, <1>2 DEF StageInv
    <2>2. ~Relies(c)
      BY <1>1, <1>2 DEF Relies
    <2> QED
      BY <1>2, <2>1, <2>2 DEF FundsInv
  <1> QED
    BY <1>3, <1>4, <1>5 DEF EvmInv

LEMMA AptosBegins ==
    ASSUME Aptos!Init
    PROVE  AptosInv
  <1>1. Aptos!Size \in 1..Len(Batch) /\ Len(Batch) \in Nat
    BY SizeOfBatch, BatchTypes
  <1>2. /\ operation \in Aptos!Kinds /\ step = "sign" /\ current = 1
        /\ submissions = [i \in DOMAIN Batch |-> "none"]
        /\ txs = <<>> /\ named = <<>> /\ failed = <<>>
    BY DEF Aptos!Init
  <1>3. Finished = 0
    BY <1>2 DEF Finished
  <1>4. AptosTypes
    BY <1>1, <1>2 DEF AptosTypes, Aptos!Steps, Aptos!Fates
  <1>5. NamedInv
    BY <1>2, <1>3 DEF NamedInv
  <1>6. ListsInv
    BY <1>2, <1>3 DEF ListsInv
  <1> QED
    BY <1>4, <1>5, <1>6 DEF AptosInv

LEMMA SuiBegins ==
    ASSUME Sui!Init
    PROVE  SuiInv
  <1>1. step \in {"fee", "build", "execute"}
    <2>1. CASE Sui!Creates
      BY <2>1 DEF Sui!Init, Sui!Creates
    <2>2. CASE ~Sui!Creates
      BY <2>2 DEF Sui!Init
    <2> QED
      BY <2>1, <2>2
  <1>2. coins \in Nat /\ 0 \in 0..Retries
    BY ChainAssumption DEF Sui!Init
  <1> QED
    BY <1>1, <1>2 DEF Sui!Init, SuiInv, SuiTypes, Sui!Steps, Sui!Ended

LEMMA EvmRests ==
    ASSUME EvmInv, UNCHANGED evmVars
    PROVE  EvmInv'
  <1>1. UNCHANGED <<op, stage, fees, fate, allowance, mempool, deployed, disturbed>>
    BY DEF evmVars
  <1>2. \A c \in Calls : /\ Evm!Items(c)' = Evm!Items(c) /\ Evm!Creates(c)' = Evm!Creates(c)
                         /\ Evm!Funded(c)' = Evm!Funded(c)
    BY <1>1 DEF Evm!Items, Evm!Creates, Evm!Funded
  <1>3. \A c \in Calls : Evm!Settled(c)' = Evm!Settled(c) /\ Relies(c)' = Relies(c)
    BY <1>1, <1>2 DEF Evm!Settled, Relies
  <1>4. EvmTypes'
    BY <1>1, <1>2 DEF EvmInv, EvmTypes, Evm!NoOp
  <1>5. MempoolInv'
    BY <1>1, <1>2 DEF EvmInv, MempoolInv, Evm!Items
  <1>6. DeployedInv'
    BY <1>1, <1>2 DEF EvmInv, DeployedInv, Evm!Items
  <1>7. ASSUME NEW c \in Calls PROVE StageInv(c)' /\ FundsInv(c)'
    <2>1. StageInv(c) /\ FundsInv(c)
      BY DEF EvmInv
    <2>2. StageInv(c)'
      BY <1>1, <1>2, <1>3, <2>1 DEF StageInv
    <2>3. FundsInv(c)'
      BY <1>1, <1>2, <1>3, <2>1 DEF FundsInv
    <2> QED
      BY <2>2, <2>3
  <1> QED
    BY <1>4, <1>5, <1>6, <1>7 DEF EvmInv

LEMMA AptosRests ==
    ASSUME AptosInv, UNCHANGED <<moveVars, aptosVars>>
    PROVE  AptosInv'
  <1>1. UNCHANGED <<operation, step, wallet, current, submissions, txs, named, failed>>
    BY DEF moveVars, aptosVars
  <1>2. Aptos!Size' = Aptos!Size /\ Aptos!Creates' = Aptos!Creates
    BY <1>1 DEF Aptos!Size, Aptos!Creates
  <1>3. Finished' = Finished
    BY <1>1, <1>2 DEF Finished
  <1>4. AptosTypes'
    BY <1>1, <1>2 DEF AptosInv, AptosTypes
  <1>5. NamedInv'
    BY <1>1, <1>2, <1>3 DEF AptosInv, NamedInv
  <1>6. ListsInv'
    BY <1>1, <1>3 DEF AptosInv, ListsInv
  <1> QED
    BY <1>4, <1>5, <1>6 DEF AptosInv

LEMMA SuiRests ==
    ASSUME SuiInv, UNCHANGED <<moveVars, suiVars>>
    PROVE  SuiInv'
  <1>1. UNCHANGED <<operation, step, coins, native, executed, abortedAt, tries, digest, metadatas, errors>>
    BY DEF moveVars, suiVars
  <1>2. /\ Sui!All' = Sui!All /\ Sui!Creates' = Sui!Creates /\ Sui!Block' = Sui!Block
        /\ Sui!Blamed(abortedAt)' = Sui!Blamed(abortedAt)
    <2>1. /\ Sui!All' = Sui!All /\ Sui!Creates' = Sui!Creates /\ Sui!Block' = Sui!Block
      BY <1>1, SuiRigid
    <2>2. Sui!Blamed(abortedAt)' = Sui!Blamed(abortedAt)
      BY <1>1, <2>1 DEF Sui!Blamed, Sui!FirstIndex, Sui!Merges, Sui!Cardinality
    <2> QED
      BY <2>1, <2>2
  <1>3. (Answer \/ Error)' = (Answer \/ Error)
    BY <1>1, <1>2 DEF Answer, Error
  <1> QED
    BY <1>1, <1>3 DEF SuiInv, SuiTypes

LEMMA ChainInvHolds == Spec => []ChainInv
  <1>1. Init => ChainInv
    <2> SUFFICES ASSUME Init PROVE ChainInv
      OBVIOUS
    <2>1. EvmInv
      BY EvmBegins DEF Init
    <2>2. chain = "aptos" => AptosInv
      BY AptosBegins DEF Init
    <2>3. chain = "sui" => SuiInv
      BY SuiBegins DEF Init
    <2> QED
      BY <2>1, <2>2, <2>3 DEF Init, ChainInv
  <1>2. ChainInv /\ [Next]_vars => ChainInv'
    <2> SUFFICES ASSUME ChainInv, [Next]_vars PROVE ChainInv'
      OBVIOUS
    <2>1. ASSUME NEW c \in Calls, EvmCall(c) PROVE ChainInv'
      <3>1. chain = "evm" /\ chain' = chain /\ Evm!CallNext(c)
        BY <2>1 DEF EvmCall, OnEvm
      <3>2. EvmInv'
        BY <3>1, EvmCallPreserves DEF ChainInv
      <3> QED
        BY <3>1, <3>2 DEF ChainInv
    <2>2. CASE EvmMine
      <3>1. chain = "evm" /\ chain' = chain /\ Evm!Mine
        BY <2>2 DEF EvmMine, OnEvm
      <3>2. EvmInv'
        BY <3>1, MinePreserves DEF ChainInv
      <3> QED
        BY <3>1, <3>2 DEF ChainInv
    <2>3. CASE AptosCall \/ AptosCommit
      <3>1. /\ chain = "aptos" /\ chain' = chain /\ UNCHANGED evmVars
            /\ Aptos!CallNext \/ Aptos!Commit
        BY <2>3 DEF AptosCall, AptosCommit, OnAptos
      <3>2. AptosInv'
        BY <3>1, AptosCallPreserves, AptosCommitPreserves DEF ChainInv
      <3>3. EvmInv'
        BY <3>1, EvmRests DEF ChainInv
      <3> QED
        BY <3>1, <3>2, <3>3 DEF ChainInv
    <2>4. CASE SuiCall
      <3>1. chain = "sui" /\ chain' = chain /\ UNCHANGED evmVars /\ Sui!Next
        BY <2>4 DEF SuiCall
      <3>2. SuiInv'
        BY <3>1, SuiPreserves DEF ChainInv
      <3>3. EvmInv'
        BY <3>1, EvmRests DEF ChainInv
      <3> QED
        BY <3>1, <3>2, <3>3 DEF ChainInv
    <2>5. CASE UNCHANGED vars
      <3>1. UNCHANGED <<chain, evmVars, moveVars, aptosVars, suiVars>>
        BY <2>5 DEF vars
      <3>2. EvmInv'
        BY <3>1, EvmRests DEF ChainInv
      <3>3. chain = "aptos" => AptosInv'
        BY <3>1, AptosRests DEF ChainInv
      <3>4. chain = "sui" => SuiInv'
        BY <3>1, SuiRests DEF ChainInv
      <3> QED
        BY <3>1, <3>2, <3>3, <3>4 DEF ChainInv
    <2> QED
      BY <2>1, <2>2, <2>3, <2>4, <2>5 DEF Next
  <1> QED
    BY <1>1, <1>2, PTL DEF Spec

(* The types of the client's state, whichever chain it was made for.       *)
THEOREM TypeCorrect == Spec => []TypeOK
  <1>1. ChainInv => TypeOK
    <2> SUFFICES ASSUME ChainInv PROVE TypeOK
      OBVIOUS
    <2>1. EvmTypes
      BY DEF ChainInv, EvmInv
    <2>2. /\ stage \in [Calls -> Evm!Stages] /\ allowance \in Nat
          /\ \A c \in Calls : op[c] = Evm!NoOp \/ op[c] \in Operations
      BY <2>1 DEF EvmTypes
    <2>3. \A c \in Calls : /\ DOMAIN fate[c] = Evm!Items(c)
                           /\ \A i \in Evm!Items(c) : fate[c][i] \in Evm!Fates
      BY <2>1 DEF EvmTypes
    <2>4. \A k \in DOMAIN mempool : mempool[k][1] \in Calls
      BY <2>1 DEF EvmTypes
    <2>5. chain = "aptos" =>
            /\ step \in Aptos!Steps /\ current \in DOMAIN Batch
            /\ \A i \in DOMAIN Batch : submissions[i] \in Aptos!Fates
            /\ Len(named) <= Len(Batch)
      BY AptosConsequences DEF ChainInv
    <2>6. chain = "sui" =>
            /\ step \in Sui!Steps /\ tries \in 0..Retries
            /\ metadatas \subseteq DOMAIN Batch /\ errors \subseteq DOMAIN Batch
      BY SuiConsequences DEF ChainInv
    <2> QED
      BY <2>2, <2>3, <2>4, <2>5, <2>6 DEF TypeOK
  <1> QED
    BY <1>1, ChainInvHolds, PTL

(* What createMultiple reports when it returns, which is a different       *)
(* promise on each chain.  EVM (129-161): the recipients named are exactly *)
(* those whose streams were created, each by its own identifier, and all   *)
(* others count as errors.  Aptos (84-108): every creation that took       *)
(* effect or still may is named with its recipient, failed ones may be as  *)
(* well, and each recipient is either in txs or in failed.  Sui (113-159): *)
(* recipients are named all or none, and only if the block took effect; if *)
(* its answer was lost they may have errors although it did.               *)
THEOREM ReportsAreRight == Spec => []AnswersAreRight
  <1>1. ChainInv => AnswersAreRight
    BY EvmConsequences, AptosConsequences, SuiConsequences DEF ChainInv, AnswersAreRight
  <1> QED
    BY <1>1, ChainInvHolds, PTL

(* createMultiple on EVM throws with transactions under way only when one  *)
(* was refused (evm/StreamClient.ts:127-129).                              *)
THEOREM ThrowsOnlyIfRefused == Spec => []ThrownMeansRefused
  <1>1. ChainInv => ThrownMeansRefused
    BY EvmConsequences DEF ChainInv
  <1> QED
    BY <1>1, ChainInvHolds, PTL

(* The recipient whose call aborted the block on Sui gets the error,       *)
(* whether or not coins were merged first (sui/StreamClient.ts:138-154).   *)
THEOREM AbortedIsBlamed == Spec => []FailingIsTold
  <1>1. ChainInv => FailingIsTold
    BY SuiConsequences DEF ChainInv, FailingIsTold
  <1> QED
    BY <1>1, ChainInvHolds, PTL

(* The allowance, undisturbed, and the coin that is split off cover the    *)
(* creations they are for: the sum of fees that are rounded on their own   *)
(* is no more than the fee of the sum (evm/StreamClient.ts:271-280,        *)
(* sui/StreamClient.ts:505-522).                                           *)
THEOREM TokensSuffice == Spec => []EnoughFunds
  <1>1. ChainInv => EnoughFunds
    BY EvmConsequences, SplitCovers DEF ChainInv, EnoughFunds
  <1> QED
    BY <1>1, ChainInvHolds, PTL

(* What evm/StreamClient.ts:283-309 passes by position and abi.ts names    *)
(* arrives in the field it was meant for.                                  *)
THEOREM StreamsAreAsAsked == Spec => []CreatedAsAsked
  <1>1. ChainInv => CreatedAsAsked
    BY EvmConsequences DEF ChainInv
  <1> QED
    BY <1>1, ChainInvHolds, PTL
=============================================================================
