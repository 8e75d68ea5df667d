--------------------------- MODULE CommonTheorems ---------------------------
(***************************************************************************)
(* What the proofs of several components need: induction over numbers and  *)
(* finite sets, sums, division, and the accounts that Anchor completes.    *)
(* A recursive function is a CHOOSE, and whether there is such a function, *)
(* and what it is for every argument, are inductions.  They are proved     *)
(* here from a least counterexample, once, for sets.                       *)
(***************************************************************************)
EXTENDS AnchorAccounts, AccountLayouts, Integers, FiniteSetTheorems, SequenceTheorems, TLAPS

LEMMA LeastNat ==
    ASSUME NEW T \in SUBSET Nat, T # {}
    PROVE  \E x \in T : \A y \in T : x <= y
  <1>1. PICK x \in T : \A y \in T : <<y, x>> \notin OpToRel(<, Nat)
    BY WFMin, NatLessThanWellFounded, Zenon
  <1>2. \A y \in T : ~ (y < x)
    BY <1>1, Zenon DEF OpToRel
  <1> QED
    BY <1>2

(* Induction, for the members of a set of numbers.                         *)
LEMMA Inductive ==
    ASSUME NEW T, 0 \in T, \A n \in Nat : n \in T => n + 1 \in T
    PROVE  Nat \subseteq T
  <1> SUFFICES ASSUME NEW U, U = Nat \ T, U # {} PROVE FALSE
    OBVIOUS
  <1>1. PICK n \in U : \A m \in U : n <= m
    BY LeastNat
  <1>2. n # 0 /\ n - 1 \in Nat
    BY <1>1
  <1>3. n - 1 \notin U
    BY <1>1, <1>2
  <1>4. (n - 1) + 1 \in T
    BY <1>2, <1>3
  <1> QED
    BY <1>1, <1>4

-----------------------------------------------------------------------------
(* A function that adds up f over the subsets of S, one element after the  *)
(* other in the order of the choices; and one that does in every order.    *)
SumsBy(sum, f, choice, S) ==
    sum = [T \in SUBSET S |->
             IF T = {} THEN 0 ELSE f[choice[T]] + sum[T \ {choice[T]}]]

IsSum(sum, f, S) ==
    /\ sum \in [SUBSET S -> Int]
    /\ sum[{}] = 0
    /\ \A T \in SUBSET S : \A x \in T : sum[T] = f[x] + sum[T \ {x}]

ChoiceOf(S) == {choice \in [(SUBSET S) \ {{}} -> S] : \A T \in (SUBSET S) \ {{}} : choice[T] \in T}

Small(S, n) == {T \in SUBSET S : Cardinality(T) <= n}

SumsSmall(sum, f, choice, S, n) ==
    /\ sum \in [Small(S, n) -> Int]
    /\ \A T \in Small(S, n) :
         sum[T] = IF T = {} THEN 0 ELSE f[choice[T]] + sum[T \ {choice[T]}]

LEMMA SumExists ==
    ASSUME NEW S, IsFiniteSet(S), NEW f \in [S -> Int], NEW choice \in ChoiceOf(S)
    PROVE  \E sum \in [SUBSET S -> Int] : SumsBy(sum, f, choice, S)
  <1> DEFINE Sizes == {n \in Nat : \E sum : SumsSmall(sum, f, choice, S, n)}
  <1>1. \A T \in SUBSET S : IsFiniteSet(T) /\ Cardinality(T) \in Nat
    BY FS_Subset, FS_CardinalityType
  <1>2. 0 \in Sizes
    <2>1. \A T \in Small(S, 0) : T = {}
      BY <1>1, FS_EmptySet DEF Small
    <2>2. SumsSmall([T \in Small(S, 0) |-> 0], f, choice, S, 0)
      BY <2>1 DEF SumsSmall
    <2> QED
      BY <2>2
  <1>3. ASSUME NEW n \in Nat, n \in Sizes PROVE n + 1 \in Sizes
    <2>1. PICK sum : SumsSmall(sum, f, choice, S, n)
      BY <1>3
    <2> DEFINE more == [T \in Small(S, n + 1) |->
                          IF T \in Small(S, n) THEN sum[T]
                          ELSE f[choice[T]] + sum[T \ {choice[T]}]]
    <2>2. ASSUME NEW T \in Small(S, n + 1), T # {}
          PROVE  /\ choice[T] \in T /\ choice[T] \in S /\ f[choice[T]] \in Int
                 /\ T \ {choice[T]} \in Small(S, n)
      <3>1. choice[T] \in T /\ choice[T] \in S
        BY <2>2 DEF ChoiceOf, Small
      <3>2. IsFiniteSet(T) /\ Cardinality(T) \in Nat /\ Cardinality(T) <= n + 1
        BY <1>1 DEF Small
      <3>3. Cardinality(T \ {choice[T]}) = Cardinality(T) - 1
        BY <3>1, <3>2, FS_RemoveElement
      <3> QED
        BY <3>1, <3>2, <3>3 DEF Small
    <2>3. {} \in Small(S, n)
      BY FS_EmptySet DEF Small
    <2>4. more \in [Small(S, n + 1) -> Int]
      <3>1. \A T \in Small(S, n) : sum[T] \in Int
        BY <2>1 DEF SumsSmall
      <3>2. ASSUME NEW T \in Small(S, n + 1), T \notin Small(S, n)
            PROVE  f[choice[T]] + sum[T \ {choice[T]}] \in Int
        <4>1. T # {}
          BY <2>3, <3>2
        <4>2. f[choice[T]] \in Int /\ sum[T \ {choice[T]}] \in Int
          BY <2>2, <3>1, <4>1
        <4> QED
          BY <4>2
      <3>3. ASSUME NEW T \in Small(S, n + 1)
            PROVE  (IF T \in Small(S, n) THEN sum[T]
                    ELSE f[choice[T]] + sum[T \ {choice[T]}]) \in Int
        BY <3>1, <3>2
      <3> QED
        BY <3>3
    <2>5. Small(S, n) \subseteq Small(S, n + 1)
      BY <1>1 DEF Small
    <2>6. ASSUME NEW T \in Small(S, n + 1)
          PROVE  more[T] = IF T = {} THEN 0 ELSE f[choice[T]] + more[T \ {choice[T]}]
      <3>1. CASE T = {}
        BY <3>1, <2>1, <2>3 DEF SumsSmall
      <3>2. CASE T # {}
        <4>1. more[T \ {choice[T]}] = sum[T \ {choice[T]}]
          BY <2>2, <2>5, <3>2
        <4> QED
          BY <3>2, <4>1, <2>1 DEF SumsSmall
      <3> QED
        BY <3>1, <3>2
    <2> HIDE DEF more
    <2>7. SumsSmall(more, f, choice, S, n + 1)
      BY <2>4, <2>6 DEF SumsSmall
    <2> QED
      BY <2>7
  <1>4. Cardinality(S) \in Sizes
    <2> HIDE DEF Sizes
    <2>1. Nat \subseteq Sizes
      BY <1>2, <1>3, Inductive
    <2> QED
      BY <2>1, FS_CardinalityType
  <1>5. PICK sum : SumsSmall(sum, f, choice, S, Cardinality(S))
    BY <1>4
  <1>6. Small(S, Cardinality(S)) = SUBSET S
    BY FS_Subset DEF Small
  <1> QED
    BY <1>5, <1>6 DEF SumsSmall, SumsBy

(* The order does not matter.                                              *)
LEMMA SumInAnyOrder ==
    ASSUME NEW S, IsFiniteSet(S), NEW f \in [S -> Int], NEW choice \in ChoiceOf(S),
           NEW sum \in [SUBSET S -> Int], SumsBy(sum, f, choice, S)
    PROVE  IsSum(sum, f, S)
  <1> DEFINE Ordered(T) == \A x \in T : sum[T] = f[x] + sum[T \ {x}]
             Sizes == {n \in Nat : \A T \in Small(S, n) : Ordered(T)}
  <1>1. \A T \in SUBSET S : IsFiniteSet(T) /\ Cardinality(T) \in Nat
    BY FS_Subset, FS_CardinalityType
  <1>2. \A T \in SUBSET S : T # {} =>
           choice[T] \in T /\ sum[T] = f[choice[T]] + sum[T \ {choice[T]}]
    BY DEF SumsBy, ChoiceOf
  <1>3. 0 \in Sizes
    BY <1>1, FS_EmptySet DEF Small
  <1>4. ASSUME NEW n \in Nat, n \in Sizes PROVE n + 1 \in Sizes
    <2> SUFFICES ASSUME NEW T \in Small(S, n + 1), NEW x \in T
                 PROVE  sum[T] = f[x] + sum[T \ {x}]
      OBVIOUS
    <2> DEFINE y == choice[T]
    <2>1. /\ T \in SUBSET S /\ y \in T
          /\ sum[T] = f[y] + sum[T \ {y}]
      BY <1>2 DEF Small
    <2>2. CASE x = y
      BY <2>1, <2>2
    <2>3. CASE x # y
      <3>1. IsFiniteSet(T) /\ Cardinality(T) \in Nat /\ Cardinality(T) <= n + 1
        BY <1>1 DEF Small
      <3>2. Cardinality(T \ {x}) = Cardinality(T) - 1 /\ Cardinality(T \ {y}) = Cardinality(T) - 1
        BY <2>1, <3>1, FS_RemoveElement
      <3>3. T \ {x} \in Small(S, n) /\ T \ {y} \in Small(S, n)
        BY <2>1, <3>1, <3>2 DEF Small
      <3>4. sum[T \ {x}] = f[y] + sum[(T \ {x}) \ {y}]
        BY <1>4, <2>1, <2>3, <3>3
      <3>5. sum[T \ {y}] = f[x] + sum[(T \ {y}) \ {x}]
        BY <1>4, <2>1, <2>3, <3>3
      <3>6. (T \ {x}) \ {y} = (T \ {y}) \ {x} /\ (T \ {x}) \ {y} \in SUBSET S
        BY <2>1
      <3>7. f[x] \in Int /\ f[y] \in Int /\ sum[(T \ {x}) \ {y}] \in Int
        BY <2>1, <3>6
      <3> DEFINE rest == sum[(T \ {x}) \ {y}]
      <3>8. sum[T \ {x}] = f[y] + rest /\ sum[T] = f[y] + (f[x] + rest)
        BY <2>1, <3>4, <3>5, <3>6
      <3> HIDE DEF rest
      <3> QED
        BY <3>7, <3>8 DEF rest
    <2> QED
      BY <2>2, <2>3
  <1>5. ASSUME NEW T \in SUBSET S PROVE Ordered(T)
    <2>1. Nat \subseteq Sizes
      <3> HIDE DEF Sizes
      <3> QED
        BY <1>3, <1>4, Inductive
    <2>2. Cardinality(T) \in Sizes /\ T \in Small(S, Cardinality(T))
      BY <1>1, <2>1 DEF Small
    <2> QED
      BY <2>2
  <1> QED
    BY <1>5 DEF IsSum, SumsBy

-----------------------------------------------------------------------------
(* Induction, for the subsets of a finite set.                             *)
LEMMA SetsInductive ==
    ASSUME NEW S, IsFiniteSet(S), NEW Good, {} \in Good,
           \A T \in SUBSET S : T # {} /\ (\A x \in T : T \ {x} \in Good) => T \in Good
    PROVE  SUBSET S \subseteq Good
  <1> DEFINE Sizes == {n \in Nat : Small(S, n) \subseteq Good}
  <1>1. \A T \in SUBSET S : IsFiniteSet(T) /\ Cardinality(T) \in Nat
    BY FS_Subset, FS_CardinalityType
  <1>2. 0 \in Sizes
    <2>1. \A T \in Small(S, 0) : T = {}
      BY <1>1, FS_EmptySet DEF Small
    <2> QED
      BY <2>1
  <1>3. ASSUME NEW n \in Nat, n \in Sizes PROVE n + 1 \in Sizes
    <2> SUFFICES ASSUME NEW T \in Small(S, n + 1) PROVE T \in Good
      OBVIOUS
    <2> SUFFICES ASSUME T # {} PROVE T \in Good
      OBVIOUS
    <2>1. T \in SUBSET S /\ IsFiniteSet(T) /\ Cardinality(T) \in Nat /\ Cardinality(T) <= n + 1
      BY <1>1 DEF Small
    <2>2. ASSUME NEW x \in T PROVE T \ {x} \in Good
      <3>1. Cardinality(T \ {x}) = Cardinality(T) - 1
        BY <2>1, FS_RemoveElement
      <3>2. T \ {x} \in Small(S, n)
        BY <2>1, <3>1 DEF Small
      <3> QED
        BY <1>3, <3>2
    <2> QED
      BY <2>1, <2>2
  <1>4. Nat \subseteq Sizes
    <2> HIDE DEF Sizes
    <2> QED
      BY <1>2, <1>3, Inductive
  <1>5. ASSUME NEW T \in SUBSET S PROVE T \in Good
    <2>1. Cardinality(T) \in Sizes /\ T \in Small(S, Cardinality(T))
      BY <1>1, <1>4 DEF Small
    <2> QED
      BY <2>1
  <1> QED
    BY <1>5

LEMMA SetInductive ==
    ASSUME NEW S, IsFiniteSet(S), NEW Good, {} \in Good,
           \A T \in SUBSET S : \A x \in T : T \ {x} \in Good => T \in Good
    PROVE  SUBSET S \subseteq Good
  <1>1. \A T \in SUBSET S : T # {} /\ (\A x \in T : T \ {x} \in Good) => T \in Good
    OBVIOUS
  <1> QED
    BY <1>1, SetsInductive

(* A sum over a set is one however it was written.                         *)
LEMMA SumsByIsSum ==
    ASSUME NEW S, IsFiniteSet(S), NEW f \in [S -> Int], NEW choice \in ChoiceOf(S),
           NEW sum,
           \/ SumsBy(sum, f, choice, S)
           \/ sum = [T \in SUBSET S |->
                       IF T = {} THEN 0 ELSE sum[T \ {choice[T]}] + f[choice[T]]]
    PROVE  IsSum(sum, f, S)
  <1> DEFINE Good == {T \in SUBSET S : sum[T] \in Int}
  <1>1. DOMAIN sum = SUBSET S /\ sum = [T \in SUBSET S |-> sum[T]] /\ sum[{}] = 0
    BY DEF SumsBy
  <1>2. ASSUME NEW T \in SUBSET S, T # {}
        PROVE  /\ choice[T] \in T /\ f[choice[T]] \in Int
               /\ \/ sum[T] = f[choice[T]] + sum[T \ {choice[T]}]
                  \/ sum[T] = sum[T \ {choice[T]}] + f[choice[T]]
    BY <1>2 DEF SumsBy, ChoiceOf
  <1>3. ASSUME NEW T \in SUBSET S, T # {}, \A x \in T : T \ {x} \in Good PROVE T \in Good
    <2>1. /\ choice[T] \in T /\ f[choice[T]] \in Int
          /\ \/ sum[T] = f[choice[T]] + sum[T \ {choice[T]}]
             \/ sum[T] = sum[T \ {choice[T]}] + f[choice[T]]
      BY <1>2, <1>3
    <2>2. sum[T \ {choice[T]}] \in Int
      BY <1>3, <2>1
    <2>3. sum[T] \in Int
      BY <2>1, <2>2
    <2> QED
      BY <2>3
  <1>4. SUBSET S \subseteq Good
    <2>1. {} \in Good
      BY <1>1
    <2> HIDE DEF Good
    <2> QED
      BY <1>3, <2>1, SetsInductive
  <1>5. sum \in [SUBSET S -> Int]
    BY <1>1, <1>4
  <1>6. SumsBy(sum, f, choice, S)
    <2>1. ASSUME NEW T \in SUBSET S, T # {}
          PROVE  sum[T] = f[choice[T]] + sum[T \ {choice[T]}]
      <3>1. sum[T \ {choice[T]}] \in Int /\ f[choice[T]] \in Int
        BY <1>2, <1>5, <2>1
      <3> QED
        BY <1>2, <2>1, <3>1
    <2>2. sum = [T \in SUBSET S |->
                   IF T = {} THEN 0 ELSE f[choice[T]] + sum[T \ {choice[T]}]]
      BY <1>1, <2>1
    <2> QED
      BY <2>2 DEF SumsBy
  <1> QED
    BY <1>5, <1>6, SumInAnyOrder

(* The choice that the folds of the community modules make.                *)
AnyOf(S) == [T \in (SUBSET S) \ {{}} |-> CHOOSE x \in T : TRUE]

LEMMA AnyOfIsChoice ==
    ASSUME NEW S
    PROVE  AnyOf(S) \in ChoiceOf(S)
  <1>1. \A T \in (SUBSET S) \ {{}} : (CHOOSE x \in T : TRUE) \in T
    OBVIOUS
  <1>2. \A T \in (SUBSET S) \ {{}} : AnyOf(S)[T] \in T /\ AnyOf(S)[T] \in S
    BY <1>1 DEF AnyOf
  <1>3. AnyOf(S) \in [(SUBSET S) \ {{}} -> S]
    BY <1>2 DEF AnyOf
  <1> QED
    BY <1>2, <1>3 DEF ChoiceOf

(* The sums of f over the subsets of S.                                    *)
Summing(f, S) == CHOOSE sum : IsSum(sum, f, S)

LEMMA SummingIsSum ==
    ASSUME NEW S, IsFiniteSet(S), NEW f \in [S -> Int]
    PROVE  IsSum(Summing(f, S), f, S)
  <1>1. \E sum : IsSum(sum, f, S)
    BY AnyOfIsChoice, SumExists, SumInAnyOrder
  <1> QED
    BY <1>1 DEF Summing

LEMMA SumIsSumming ==
    ASSUME NEW S, IsFiniteSet(S), NEW f \in [S -> Int], NEW sum, IsSum(sum, f, S)
    PROVE  \A T \in SUBSET S : sum[T] = Summing(f, S)[T]
  <1> DEFINE Good == {T \in SUBSET S : sum[T] = Summing(f, S)[T]}
  <1>1. IsSum(Summing(f, S), f, S)
    BY SummingIsSum
  <1>2. {} \in Good
    BY <1>1 DEF IsSum
  <1>3. ASSUME NEW T \in SUBSET S, NEW x \in T, T \ {x} \in Good PROVE T \in Good
    <2> DEFINE F == Summing(f, S)
    <2>1. IsSum(F, f, S) /\ sum[T \ {x}] = F[T \ {x}]
      BY <1>1, <1>3
    <2> HIDE DEF F
    <2>2. sum[T] = F[T]
      BY <2>1 DEF IsSum
    <2> QED
      BY <2>2 DEF F
  <1> HIDE DEF Good
  <1>4. SUBSET S \subseteq Good
    BY <1>2, <1>3, SetInductive
  <1> QED
    BY <1>4 DEF Good

LEMMA SumMonotone ==
    ASSUME NEW S, IsFiniteSet(S), NEW f \in [S -> Int], NEW g \in [S -> Int],
           NEW T \in SUBSET S, \A x \in T : f[x] <= g[x]
    PROVE  Summing(f, S)[T] <= Summing(g, S)[T]
  <1> DEFINE Good == {U \in SUBSET S : U \subseteq T => Summing(f, S)[U] <= Summing(g, S)[U]}
  <1>1. IsSum(Summing(f, S), f, S) /\ IsSum(Summing(g, S), g, S)
    BY SummingIsSum
  <1>2. {} \in Good
    BY <1>1 DEF IsSum
  <1>3. ASSUME NEW U \in SUBSET S, NEW x \in U, U \ {x} \in Good PROVE U \in Good
    <2> DEFINE F == Summing(f, S) G == Summing(g, S)
    <2>1. /\ F[U] = f[x] + F[U \ {x}] /\ G[U] = g[x] + G[U \ {x}]
          /\ F[U \ {x}] \in Int /\ G[U \ {x}] \in Int
      BY <1>1 DEF IsSum
    <2>2. f[x] \in Int /\ g[x] \in Int
      OBVIOUS
    <2>3. U \subseteq T => f[x] <= g[x] /\ F[U \ {x}] <= G[U \ {x}]
      BY <1>3
    <2> HIDE DEF F, G
    <2>4. U \subseteq T => F[U] <= G[U]
      BY <2>1, <2>2, <2>3
    <2> QED
      BY <2>4 DEF F, G
  <1> HIDE DEF Good
  <1>4. SUBSET S \subseteq Good
    BY <1>2, <1>3, SetInductive
  <1> QED
    BY <1>4 DEF Good

LEMMA SumEqual ==
    ASSUME NEW S, IsFiniteSet(S), NEW f \in [S -> Int], NEW g \in [S -> Int],
           NEW T \in SUBSET S, \A x \in T : f[x] = g[x]
    PROVE  Summing(f, S)[T] = Summing(g, S)[T]
  <1>1. \A x \in T : f[x] <= g[x] /\ g[x] <= f[x]
    OBVIOUS
  <1>2. Summing(f, S)[T] \in Int /\ Summing(g, S)[T] \in Int
    <2>1. IsSum(Summing(f, S), f, S) /\ IsSum(Summing(g, S), g, S)
      BY SummingIsSum
    <2> QED
      BY <2>1 DEF IsSum
  <1>3. Summing(f, S)[T] <= Summing(g, S)[T] /\ Summing(g, S)[T] <= Summing(f, S)[T]
    BY <1>1, SumMonotone
  <1> QED
    BY <1>2, <1>3

(* Two functions that differ at one place.                                 *)
LEMMA SumChanged ==
    ASSUME NEW S, IsFiniteSet(S), NEW f \in [S -> Int], NEW g \in [S -> Int],
           NEW T \in SUBSET S, NEW x \in T, \A y \in T \ {x} : f[y] = g[y]
    PROVE  Summing(g, S)[T] = Summing(f, S)[T] - f[x] + g[x]
  <1> DEFINE F == Summing(f, S) G == Summing(g, S)
  <1>1. IsSum(F, f, S) /\ IsSum(G, g, S)
    BY SummingIsSum
  <1>2. F[T \ {x}] = G[T \ {x}]
    BY SumEqual
  <1>3. /\ F[T] = f[x] + F[T \ {x}] /\ G[T] = g[x] + G[T \ {x}]
        /\ F[T \ {x}] \in Int /\ F[T] \in Int /\ G[T] \in Int
        /\ f[x] \in Int /\ g[x] \in Int
    BY <1>1 DEF IsSum
  <1> HIDE DEF F, G
  <1>4. G[T] = F[T] - f[x] + g[x]
    BY <1>2, <1>3
  <1> QED
    BY <1>4 DEF F, G

(* Numbers that are not negative.                                          *)
LEMMA SumNatural ==
    ASSUME NEW S, IsFiniteSet(S), NEW f \in [S -> Nat], NEW T \in SUBSET S
    PROVE  Summing(f, S)[T] \in Nat /\ \A x \in T : f[x] <= Summing(f, S)[T]
  <1> DEFINE F == Summing(f, S)
             Good == {U \in SUBSET S : F[U] \in Nat /\ \A x \in U : f[x] <= F[U]}
  <1>1. IsSum(F, f, S)
    BY SummingIsSum
  <1> HIDE DEF F
  <1>2. {} \in Good
    BY <1>1 DEF IsSum
  <1>3. ASSUME NEW U \in SUBSET S, NEW x \in U, U \ {x} \in Good PROVE U \in Good
    <2>1. F[U] = f[x] + F[U \ {x}] /\ F[U \ {x}] \in Nat /\ f[x] \in Nat
      BY <1>1, <1>3 DEF IsSum
    <2>2. ASSUME NEW y \in U PROVE f[y] <= F[U]
      <3>1. CASE y = x
        BY <2>1, <3>1
      <3>2. CASE y # x
        <4>1. f[y] <= F[U \ {x}] /\ f[y] \in Nat
          BY <1>3, <3>2
        <4> QED
          BY <2>1, <4>1
      <3> QED
        BY <3>1, <3>2
    <2>3. F[U] \in Nat
      BY <2>1
    <2> QED
      BY <2>2, <2>3
  <1> HIDE DEF Good
  <1>4. SUBSET S \subseteq Good
    BY <1>2, <1>3, SetInductive
  <1> QED
    BY <1>4 DEF Good, F

LEMMA SumOfPart ==
    ASSUME NEW S, IsFiniteSet(S), NEW f \in [S -> Nat],
           NEW T \in SUBSET S, NEW U \in SUBSET T
    PROVE  Summing(f, S)[U] <= Summing(f, S)[T]
  <1> DEFINE F == Summing(f, S)
             Good == {V \in SUBSET S : V \subseteq T => F[T \ V] <= F[T]}
  <1>1. IsSum(F, f, S) /\ IsFiniteSet(T)
    BY SummingIsSum, FS_Subset
  <1>2. \A V \in SUBSET S : F[V] \in Nat
    BY SumNatural
  <1> HIDE DEF F
  <1>3. {} \in Good
    <2>1. T \ {} = T /\ F[T] \in Nat
      BY <1>2
    <2> QED
      BY <2>1
  <1>4. ASSUME NEW V \in SUBSET S, NEW x \in V, V \ {x} \in Good PROVE V \in Good
    <2> SUFFICES ASSUME V \subseteq T PROVE F[T \ V] <= F[T]
      OBVIOUS
    <2>1. F[T \ (V \ {x})] <= F[T]
      BY <1>4
    <2> DEFINE W == T \ (V \ {x})
    <2>2. W \in SUBSET S /\ x \in W
      OBVIOUS
    <2>5. W \ {x} = T \ V
      OBVIOUS
    <2> HIDE DEF W
    <2>3. F[W] = f[x] + F[W \ {x}] /\ f[x] \in Nat
      BY <1>1, <2>2 DEF IsSum
    <2>4. F[W] \in Nat /\ F[W \ {x}] \in Nat /\ F[T] \in Nat
      BY <1>2, <2>2
    <2>6. F[W \ {x}] <= F[W] /\ F[W] <= F[T]
      BY <2>1, <2>3, <2>4 DEF W
    <2>7. F[T \ V] <= F[W] /\ F[T \ V] \in Nat
      BY <2>4, <2>5, <2>6
    <2> QED
      BY <2>4, <2>6, <2>7
  <1> HIDE DEF Good
  <1>5. SUBSET S \subseteq Good
    BY <1>3, <1>4, SetInductive
  <1>6. T \ (T \ U) = U
    OBVIOUS
  <1> QED
    BY <1>5, <1>6 DEF Good, F

-----------------------------------------------------------------------------
(* Sums over an initial segment of the numbers, one number after the other.*)
LEMMA SumOfSegment ==
    ASSUME NEW N \in Nat, NEW f \in [1..N -> Int], NEW n \in 1..N
    PROVE  /\ Summing(f, 1..N)[1..0] = 0
           /\ Summing(f, 1..N)[1..n] = Summing(f, 1..N)[1..(n - 1)] + f[n]
           /\ Summing(f, 1..N)[1..n] \in Int
  <1> DEFINE F == Summing(f, 1..N)
  <1>1. IsSum(F, f, 1..N)
    BY FS_Interval, SummingIsSum
  <1> HIDE DEF F
  <1>2. /\ 1..n \in SUBSET (1..N) /\ n \in 1..n /\ (1..n) \ {n} = 1..(n - 1)
        /\ 1..(n - 1) \in SUBSET (1..N) /\ 1..0 = {} /\ f[n] \in Int
    OBVIOUS
  <1>3. F[1..n] \in Int /\ F[1..(n - 1)] \in Int
    BY <1>1, <1>2 DEF IsSum
  <1>4. F[1..0] = 0
    BY <1>1, <1>2, Zenon DEF IsSum
  <1>5. F[1..n] = f[n] + F[1..(n - 1)]
    <2>1. \A T \in SUBSET (1..N) : \A x \in T : F[T] = f[x] + F[T \ {x}]
      BY <1>1 DEF IsSum
    <2>2. F[1..n] = f[n] + F[(1..n) \ {n}]
      BY <1>2, <2>1, Zenon
    <2> QED
      BY <1>2, <2>2
  <1> QED
    BY <1>2, <1>3, <1>4, <1>5 DEF F

LEMMA SegmentSumsExist ==
    ASSUME NEW N \in Nat, NEW f \in [1..N -> Int]
    PROVE  \E sum : sum = [n \in 0..N |-> IF n = 0 THEN 0 ELSE sum[n - 1] + f[n]]
  <1> DEFINE F == Summing(f, 1..N)
             sum == [n \in 0..N |-> IF n = 0 THEN 0 ELSE F[1..n]]
  <1>1. ASSUME NEW n \in 0..N, n # 0
        PROVE  F[1..n] = sum[n - 1] + f[n]
    <2>1. n \in 1..N /\ n - 1 \in 0..N /\ (n - 1 = 0 => F[1..(n - 1)] = 0)
      BY <1>1, SumOfSegment
    <2>2. F[1..n] = F[1..(n - 1)] + f[n]
      BY <2>1, SumOfSegment
    <2>3. sum[n - 1] = F[1..(n - 1)]
      BY <2>1
    <2> QED
      BY <2>2, <2>3
  <1>2. sum = [n \in 0..N |-> IF n = 0 THEN 0 ELSE sum[n - 1] + f[n]]
    <2> HIDE DEF F
    <2>1. \A n \in 0..N : sum[n] = IF n = 0 THEN 0 ELSE sum[n - 1] + f[n]
      BY <1>1
    <2> QED
      BY <2>1
  <1> QED
    BY <1>2, Zenon

RunningSum(sum, f, N) ==
    sum[0] = 0 /\ \A n \in 1..N : sum[n] = sum[n - 1] + f[n]

LEMMA SegmentSum ==
    ASSUME NEW N \in Nat, NEW f \in [1..N -> Int], NEW sum, RunningSum(sum, f, N)
    PROVE  sum[N] = Summing(f, 1..N)[1..N]
  <1> DEFINE F == Summing(f, 1..N)
             T == {n \in Nat : n <= N => sum[n] = F[1..n]}
  <1>1. F[1..0] = 0
    <2>1. IsSum(F, f, 1..N) /\ 1..0 = {}
      BY FS_Interval, SummingIsSum
    <2> QED
      BY <2>1, Zenon DEF IsSum
  <1>2. 0 \in T
    BY <1>1 DEF RunningSum
  <1>3. ASSUME NEW n \in Nat, n \in T, n + 1 <= N PROVE sum[n + 1] = F[1..(n + 1)]
    <2>1. n + 1 \in 1..N /\ (n + 1) - 1 = n
      BY <1>3
    <2>2. F[1..(n + 1)] = F[1..n] + f[n + 1]
      <3>1. ASSUME NEW m \in 1..N PROVE F[1..m] = F[1..(m - 1)] + f[m]
        BY SumOfSegment
      <3> HIDE DEF F
      <3> QED
        BY <2>1, <3>1
    <2>3. sum[n + 1] = sum[n] + f[n + 1]
      BY <2>1 DEF RunningSum
    <2>4. sum[n] = F[1..n]
      BY <1>3, <2>1
    <2> QED
      BY <2>2, <2>3, <2>4
  <1>4. ASSUME NEW n \in Nat, n \in T PROVE n + 1 \in T
    <2>1. n + 1 <= N => sum[n + 1] = F[1..(n + 1)]
      BY <1>3, <1>4
    <2> HIDE DEF F
    <2> QED
      BY <2>1
  <1> HIDE DEF T
  <1>5. Nat \subseteq T
    BY <1>2, <1>4, Inductive
  <1> QED
    BY <1>5 DEF T

-----------------------------------------------------------------------------
(* Division.                                                               *)
LEMMA FloorOf ==
    ASSUME NEW n \in Nat, NEW d \in Nat \ {0}
    PROVE  /\ n \div d \in Nat
           /\ (n \div d) * d <= n /\ n < (n \div d) * d + d
  OBVIOUS

LEMMA FloorMonotone ==
    ASSUME NEW m \in Nat, NEW n \in Nat, NEW d \in Nat \ {0}, m <= n
    PROVE  m \div d <= n \div d
  <1> DEFINE p == m \div d
             q == n \div d
  <1>1. p \in Nat /\ q \in Nat /\ p * d <= m /\ n < q * d + d
    BY FloorOf
  <1> HIDE DEF p, q
  <1>2. p * d < (q + 1) * d
    BY <1>1
  <1>3. p < q + 1
    BY <1>1, <1>2
  <1> QED
    BY <1>1, <1>3 DEF p, q

LEMMA FloorOfMultiple ==
    ASSUME NEW k \in Nat, NEW d \in Nat \ {0}
    PROVE  (k * d) \div d = k
  OBVIOUS

LEMMA TimesMonotone ==
    ASSUME NEW a \in Nat, NEW b \in Nat, NEW c \in Nat, a <= b
    PROVE  a * c \in Nat /\ a * c <= b * c
  OBVIOUS

-----------------------------------------------------------------------------
(* The accounts that Anchor completes.                                     *)
(* The other accounts that one is completed from.                          *)
Needs(ix, given, args, name) ==
    IF name \in DOMAIN given THEN {}
    ELSE CASE ix[name].by = "seeds" ->
                {ix[name].path[i] : i \in DOMAIN ix[name].path} \ DOMAIN args
           [] ix[name].by = "tokens" -> {"mint", ix[name].owner}
           [] ix[name].by = "relations" -> {CHOOSE a \in ix[name].of : TRUE}
           [] OTHER -> {}

Manners == {"name", "seeds", "tokens", "relations"}

(* The accounts can be completed one layer after the other.                *)
Layered(rank, ix, given, args) ==
    /\ rank \in [DOMAIN ix -> 0..3]
    /\ \A name \in DOMAIN ix :
         /\ name \in DOMAIN given \/ ix[name].by \in Manners \ {"name"}
         /\ \A n \in Needs(ix, given, args, name) : n \in DOMAIN ix /\ rank[n] < rank[name]

LEMMA NeedsSuffice ==
    ASSUME NEW ix, NEW given, NEW args, NEW accs, NEW f, NEW g, NEW name \in DOMAIN ix,
           name \in DOMAIN given \/ ix[name].by \in Manners \ {"name"},
           \A n \in Needs(ix, given, args, name) : f[n] = g[n]
    PROVE  Resolved(ix, given, args, accs, f, name) = Resolved(ix, given, args, accs, g, name)
  <1>1. CASE name \in DOMAIN given
    BY <1>1 DEF Resolved
  <1>2. CASE name \notin DOMAIN given /\ ix[name].by = "seeds"
    <2>1. \A i \in DOMAIN ix[name].path :
            ix[name].path[i] \notin DOMAIN args => f[ix[name].path[i]] = g[ix[name].path[i]]
      BY <1>2 DEF Needs
    <2>2. Seeded(ix[name], f, args) = Seeded(ix[name], g, args)
      BY <2>1 DEF Seeded
    <2> QED
      BY <1>2, <2>2 DEF Resolved
  <1>3. CASE name \notin DOMAIN given /\ ix[name].by = "tokens"
    BY <1>3 DEF Needs, Resolved
  <1>4. CASE name \notin DOMAIN given /\ ix[name].by = "relations"
    BY <1>4 DEF Needs, Resolved
  <1> QED
    BY <1>1, <1>2, <1>3, <1>4 DEF Manners

LEMMA CompletedUnfolds ==
    ASSUME NEW ix, NEW given, NEW args, NEW accs, NEW rank, Layered(rank, ix, given, args)
    PROVE  LET addr == Completed(ix, given, args, accs) IN
           addr = [name \in DOMAIN ix |-> Resolved(ix, given, args, accs, addr, name)]
  <1> DEFINE next(f) == [name \in DOMAIN ix |-> Resolved(ix, given, args, accs, f, name)]
             settled(f, k) == \A name \in DOMAIN ix : rank[name] <= k => f[name] = next(f)[name]
             one == next(<<>>)
             two == next(one)
             three == next(two)
             four == next(three)
  <1>1. ASSUME NEW k \in 0..3, NEW f, k = 0 \/ settled(f, k - 1)
        PROVE  settled(next(f), k)
    <2> SUFFICES ASSUME NEW name \in DOMAIN ix, rank[name] <= k
                 PROVE  next(f)[name] = next(next(f))[name]
      OBVIOUS
    <2> DEFINE g == next(f)
    <2>1. \A n \in Needs(ix, given, args, name) : f[n] = g[n]
      <3> SUFFICES ASSUME NEW n \in Needs(ix, given, args, name) PROVE f[n] = g[n]
        OBVIOUS
      <3>1. n \in DOMAIN ix /\ rank[n] < rank[name] /\ rank[n] \in 0..3 /\ rank[name] \in 0..3
        BY DEF Layered
      <3>2. k # 0 /\ rank[n] <= k - 1
        BY <3>1
      <3> QED
        BY <1>1, <3>1, <3>2
    <2>2. Resolved(ix, given, args, accs, f, name) = Resolved(ix, given, args, accs, g, name)
      <3> HIDE DEF g
      <3> QED
        BY <2>1, NeedsSuffice DEF Layered
    <2>3. next(f)[name] = Resolved(ix, given, args, accs, f, name)
          /\ next(g)[name] = Resolved(ix, given, args, accs, g, name)
      OBVIOUS
    <2> QED
      BY <2>2, <2>3
  <1> HIDE DEF settled
  <1>2. settled(one, 0)
    BY <1>1
  <1>3. settled(two, 1)
    <2> HIDE DEF one
    <2> QED
      BY <1>1, <1>2
  <1>4. settled(three, 2)
    <2> HIDE DEF two
    <2> QED
      BY <1>1, <1>3
  <1>5. settled(four, 3)
    <2> HIDE DEF three
    <2> QED
      BY <1>1, <1>4
  <1>6. four = [name \in DOMAIN ix |-> four[name]]
    OBVIOUS
  <1> HIDE DEF four
  <1>7. four = next(four)
    BY <1>5, <1>6 DEF settled, Layered
  <1>8. \E addr : addr = next(addr)
    BY <1>7
  <1> QED
    BY <1>8 DEF Completed

Seed(name, addr, args) == IF name \in DOMAIN args THEN args[name] ELSE addr[name]

LEMMA PrefixedOne ==
    ASSUME NEW p, NEW a
    PROVE  <<p>> \o <<a>> = <<p, a>>
  <1> DEFINE U == {p, a}
             whole == <<p>> \o <<a>>
  <1>1. <<p>> \in Seq(U) /\ <<a>> \in Seq(U) /\ <<p, a>> \in Seq(U)
    OBVIOUS
  <1>2. Len(<<p>>) = 1 /\ Len(<<a>>) = 1 /\ Len(<<p, a>>) = 2
    OBVIOUS
  <1>3. whole \in Seq(U) /\ Len(whole) = 2
    BY <1>1, <1>2
  <1>4. \A i \in 1..2 : whole[i] = IF i <= 1 THEN <<p>>[i] ELSE <<a>>[i - 1]
    BY <1>1, <1>2
  <1>5. \A i \in 1..2 : whole[i] = <<p, a>>[i]
    BY <1>4
  <1> QED
    BY <1>1, <1>2, <1>3, <1>5, SeqEqual

LEMMA SeededByOne ==
    ASSUME NEW prefix, NEW x, NEW addr, NEW args
    PROVE  Seeded(Seeds(prefix, <<x>>), addr, args)
             = <<prefix, Seed(x, addr, args)>>
  <1>1. Seeded(Seeds(prefix, <<x>>), addr, args) = <<prefix>> \o <<Seed(x, addr, args)>>
    BY DEF Seeded, Seeds, Seed
  <1> QED
    BY <1>1, PrefixedOne

LEMMA PrefixedTwo ==
    ASSUME NEW p, NEW a, NEW b
    PROVE  <<p>> \o <<a, b>> = <<p, a, b>>
  <1> DEFINE U == {p, a, b}
             whole == <<p>> \o <<a, b>>
  <1>1. <<p>> \in Seq(U) /\ <<a, b>> \in Seq(U) /\ <<p, a, b>> \in Seq(U)
    OBVIOUS
  <1>2. Len(<<p>>) = 1 /\ Len(<<a, b>>) = 2 /\ Len(<<p, a, b>>) = 3
    OBVIOUS
  <1>3. whole \in Seq(U) /\ Len(whole) = 3
    BY <1>1, <1>2
  <1>4. \A i \in 1..3 : whole[i] = IF i <= 1 THEN <<p>>[i] ELSE <<a, b>>[i - 1]
    BY <1>1, <1>2
  <1>5. \A i \in 1..3 : whole[i] = <<p, a, b>>[i]
    BY <1>4
  <1> QED
    BY <1>1, <1>2, <1>3, <1>5, SeqEqual

LEMMA SeededByTwo ==
    ASSUME NEW prefix, NEW x, NEW y, NEW addr, NEW args
    PROVE  Seeded(Seeds(prefix, <<x, y>>), addr, args)
             = <<prefix, Seed(x, addr, args), Seed(y, addr, args)>>
  <1>1. Seeded(Seeds(prefix, <<x, y>>), addr, args) = <<prefix>> \o <<Seed(x, addr, args), Seed(y, addr, args)>>
    BY DEF Seeded, Seeds, Seed
  <1> QED
    BY <1>1, PrefixedTwo

LEMMA PrefixedThree ==
    ASSUME NEW p, NEW a, NEW b, NEW c
    PROVE  <<p>> \o <<a, b, c>> = <<p, a, b, c>>
  <1> DEFINE U == {p, a, b, c}
             whole == <<p>> \o <<a, b, c>>
  <1>1. <<p>> \in Seq(U) /\ <<a, b, c>> \in Seq(U) /\ <<p, a, b, c>> \in Seq(U)
    OBVIOUS
  <1>2. Len(<<p>>) = 1 /\ Len(<<a, b, c>>) = 3 /\ Len(<<p, a, b, c>>) = 4
    OBVIOUS
  <1>3. whole \in Seq(U) /\ Len(whole) = 4
    BY <1>1, <1>2
  <1>4. \A i \in 1..4 : whole[i] = IF i <= 1 THEN <<p>>[i] ELSE <<a, b, c>>[i - 1]
    BY <1>1, <1>2
  <1>5. \A i \in 1..4 : whole[i] = <<p, a, b, c>>[i]
    BY <1>4
  <1> QED
    BY <1>1, <1>2, <1>3, <1>5, SeqEqual

LEMMA SeededByThree ==
    ASSUME NEW prefix, NEW x, NEW y, NEW z, NEW addr, NEW args
    PROVE  Seeded(Seeds(prefix, <<x, y, z>>), addr, args)
             = <<prefix, Seed(x, addr, args), Seed(y, addr, args), Seed(z, addr, args)>>
  <1>1. Seeded(Seeds(prefix, <<x, y, z>>), addr, args) = <<prefix>> \o <<Seed(x, addr, args), Seed(y, addr, args), Seed(z, addr, args)>>
    BY DEF Seeded, Seeds, Seed
  <1> QED
    BY <1>1, PrefixedThree

(* One name of the completed accounts.                                     *)
LEMMA CompletedName ==
    ASSUME NEW ix, NEW given, NEW args, NEW accs, NEW rank, Layered(rank, ix, given, args),
           NEW name \in DOMAIN ix
    PROVE  LET addr == Completed(ix, given, args, accs)
               source(r) == IF addr[r] \in DOMAIN accs THEN accs[addr[r]][name] ELSE Missing
           IN  /\ name \in DOMAIN given => addr[name] = given[name]
               /\ name \notin DOMAIN given /\ ix[name].by = "seeds" =>
                    addr[name] = Seeded(ix[name], addr, args)
               /\ name \notin DOMAIN given /\ ix[name].by = "tokens" =>
                    addr[name] = TokenAccount(addr["mint"], addr[ix[name].owner])
               /\ \A r : name \notin DOMAIN given /\ ix[name].by = "relations"
                         /\ ix[name].of = {r} => addr[name] = source(r)
  <1> DEFINE addr == Completed(ix, given, args, accs)
  <1>1. addr = [n \in DOMAIN ix |-> Resolved(ix, given, args, accs, addr, n)]
    BY CompletedUnfolds
  <1> HIDE DEF addr
  <1>2. addr[name] = Resolved(ix, given, args, accs, addr, name)
    BY <1>1
  <1>3. \A r : (CHOOSE a \in {r} : TRUE) = r
    OBVIOUS
  <1> QED
    BY <1>2, <1>3 DEF Resolved, addr

(* Accounts that are completed from what is given, from first, which is    *)
(* completed from what is given, and from second, which is from both.      *)
LEMMA ThreeLayers ==
    ASSUME NEW ix, NEW given, NEW args, NEW first, NEW second,
           \A name \in DOMAIN ix \ DOMAIN given :
             /\ ix[name].by \in Manners \ {"name"}
             /\ Needs(ix, given, args, name) \subseteq DOMAIN ix
             /\ Needs(ix, given, args, name) \subseteq
                  DOMAIN given \cup (IF name \in first THEN {}
                                     ELSE first \cup (IF name \in second THEN {} ELSE second))
    PROVE  \E rank : Layered(rank, ix, given, args)
  <1> DEFINE level(name) == IF name \in DOMAIN given THEN 0 ELSE IF name \in first THEN 1
                            ELSE IF name \in second THEN 2 ELSE 3
             rank == [name \in DOMAIN ix |-> level(name)]
  <1>1. rank \in [DOMAIN ix -> 0..3]
    OBVIOUS
  <1>2. \A name \in DOMAIN ix : rank[name] = level(name)
    OBVIOUS
  <1>3. ASSUME NEW name \in DOMAIN ix, NEW n \in Needs(ix, given, args, name)
        PROVE  n \in DOMAIN ix /\ rank[n] < rank[name]
    <2>1. name \notin DOMAIN given
      BY <1>3 DEF Needs
    <2>2. n \in DOMAIN ix /\ n \in DOMAIN given \cup (IF name \in first THEN {}
                                     ELSE first \cup (IF name \in second THEN {} ELSE second))
      BY <1>3, <2>1
    <2>3. level(n) < level(name)
      BY <2>1, <2>2
    <2> QED
      BY <1>2, <2>2, <2>3
  <1> HIDE DEF rank
  <1> QED
    BY <1>1, <1>3 DEF Layered

LEMMA TwoLayers ==
    ASSUME NEW ix, NEW given, NEW args, NEW middle,
           \A name \in DOMAIN ix \ DOMAIN given :
             /\ ix[name].by \in Manners \ {"name"}
             /\ Needs(ix, given, args, name) \subseteq DOMAIN ix
             /\ Needs(ix, given, args, name) \subseteq
                  DOMAIN given \cup (IF name \in middle THEN {} ELSE middle)
    PROVE  \E rank : Layered(rank, ix, given, args)
  <1>1. \A name \in DOMAIN ix \ DOMAIN given :
          /\ ix[name].by \in Manners \ {"name"}
          /\ Needs(ix, given, args, name) \subseteq DOMAIN ix
          /\ Needs(ix, given, args, name) \subseteq
               DOMAIN given \cup (IF name \in middle THEN {}
                                  ELSE middle \cup (IF name \in {} THEN {} ELSE {}))
    OBVIOUS
  <1>2. PICK second : second = {}
    OBVIOUS
  <1> QED
    BY <1>1, <1>2, ThreeLayers

-----------------------------------------------------------------------------
(* Where the fields of a layout start.                                     *)
Starts(start, layout, n) ==
    start = [k \in 1..n |-> IF k = 1 THEN AnchorDiscriminatorOffset
                            ELSE start[k - 1] + layout[k - 1][2]]

IsLayout(layout) == \A k \in DOMAIN layout : layout[k][2] \in Nat

LEMMA StartsUpTo ==
    ASSUME NEW layout, NEW n \in Nat, DOMAIN layout = 1..n, IsLayout(layout)
    PROVE  \A m \in 1..n : \E start \in [1..m -> Nat] : Starts(start, layout, m)
  <1> DEFINE T == {m \in Nat : m \in 1..n => \E start \in [1..m -> Nat] : Starts(start, layout, m)}
  <1>1. 0 \in T
    OBVIOUS
  <1>2. ASSUME NEW m \in Nat, m \in T
        PROVE  m + 1 \in T
    <2>1. CASE m = 0 /\ m + 1 \in 1..n
      <3> DEFINE start == [k \in 1..1 |-> AnchorDiscriminatorOffset]
      <3>1. start \in [1..1 -> Nat]
        BY DEF AnchorDiscriminatorOffset
      <3>2. start = [k \in 1..1 |-> IF k = 1 THEN AnchorDiscriminatorOffset
                                    ELSE start[k - 1] + layout[k - 1][2]]
        OBVIOUS
      <3> HIDE DEF start
      <3>3. Starts(start, layout, 1) /\ m + 1 = 1
        BY <2>1, <3>2 DEF Starts
      <3>4. \E s \in [1..m + 1 -> Nat] : Starts(s, layout, m + 1)
        BY <3>1, <3>3
      <3> QED
        BY <3>4
    <2>2. CASE m \in 1..n /\ m + 1 \in 1..n
      <3>1. PICK start \in [1..m -> Nat] : Starts(start, layout, m)
        BY <1>2, <2>2
      <3> DEFINE more == [k \in 1..m + 1 |-> IF k = m + 1 THEN start[m] + layout[m][2] ELSE start[k]]
      <3>2. more \in [1..m + 1 -> Nat]
        BY <2>2, <3>1 DEF IsLayout
      <3>3. \A k \in 1..m + 1 : more[k] = IF k = 1 THEN AnchorDiscriminatorOffset
                                          ELSE more[k - 1] + layout[k - 1][2]
        <4> TAKE k \in 1..m + 1
        <4>1. CASE k = m + 1
          BY <2>2, <4>1
        <4>2. CASE k \in 1..m
          <5>1. more[k] = start[k] /\ (k # 1 => more[k - 1] = start[k - 1])
            BY <2>2, <4>2
          <5>2. start[k] = IF k = 1 THEN AnchorDiscriminatorOffset
                           ELSE start[k - 1] + layout[k - 1][2]
            BY <3>1, <4>2 DEF Starts
          <5> QED
            BY <5>1, <5>2
        <4> QED
          BY <4>1, <4>2
      <3> HIDE DEF more
      <3>4. Starts(more, layout, m + 1)
        BY <3>2, <3>3 DEF Starts
      <3> QED
        BY <3>2, <3>4
    <2> QED
      BY <2>1, <2>2
  <1> HIDE DEF T
  <1>3. Nat \subseteq T
    BY <1>1, <1>2, Inductive
  <1> TAKE m \in 1..n
  <1>4. m \in T
    BY <1>3
  <1> QED
    BY <1>4 DEF T

LEMMA StartsAgree ==
    ASSUME NEW layout, NEW m \in Nat, NEW n \in Nat, NEW start, NEW other,
           Starts(start, layout, m), Starts(other, layout, n), m <= n
    PROVE  \A k \in 1..m : start[k] = other[k]
  <1> DEFINE T == {k \in Nat : k \in 1..m => start[k] = other[k]}
  <1>1. 0 \in T
    OBVIOUS
  <1>2. ASSUME NEW k \in Nat, k \in T
        PROVE  k + 1 \in T
    <2>1. CASE k + 1 \in 1..m
      <3>1. /\ start[k + 1] = IF k + 1 = 1 THEN AnchorDiscriminatorOffset
                              ELSE start[(k + 1) - 1] + layout[(k + 1) - 1][2]
            /\ other[k + 1] = IF k + 1 = 1 THEN AnchorDiscriminatorOffset
                              ELSE other[(k + 1) - 1] + layout[(k + 1) - 1][2]
        BY <2>1 DEF Starts
      <3>2. k + 1 # 1 => start[k] = other[k]
        BY <1>2, <2>1
      <3> QED
        BY <3>1, <3>2
    <2> QED
      BY <2>1
  <1> HIDE DEF T
  <1>3. Nat \subseteq T
    BY <1>1, <1>2, Inductive
  <1> QED
    BY <1>3 DEF T

LEMMA StartInNext ==
    ASSUME NEW layout, NEW n \in Nat, DOMAIN layout = 1..n, IsLayout(layout)
    PROVE  /\ \A i \in 1..n : StartIn(layout, i) \in Nat
           /\ n >= 1 => StartIn(layout, 1) = AnchorDiscriminatorOffset
           /\ \A i \in 2..n : StartIn(layout, i) = StartIn(layout, i - 1) + layout[i - 1][2]
  <1> DEFINE chosen(m) == CHOOSE start : Starts(start, layout, m)
  <1>1. \A m \in 1..n : StartIn(layout, m) = chosen(m)[m]
    BY DEF StartIn, Starts
  <1>2. \A m \in 1..n : Starts(chosen(m), layout, m)
    BY StartsUpTo
  <1> HIDE DEF chosen
  <1>3. \A m \in 1..n : chosen(m) \in [1..m -> Nat]
    <2> TAKE m \in 1..n
    <2>1. PICK start \in [1..m -> Nat] : Starts(start, layout, m)
      BY StartsUpTo
    <2>2. \A k \in 1..m : start[k] = chosen(m)[k]
      BY <1>2, <2>1, StartsAgree
    <2>3. DOMAIN chosen(m) = 1..m /\ chosen(m) = [k \in 1..m |-> chosen(m)[k]]
      BY <1>2 DEF Starts
    <2> QED
      BY <2>1, <2>2, <2>3
  <1>4. \A i \in 2..n : chosen(i)[i - 1] = chosen(i - 1)[i - 1]
    <2> TAKE i \in 2..n
    <2>1. i - 1 \in 1..n /\ i - 1 \in Nat /\ i \in Nat /\ i \in 1..n /\ i - 1 <= i
      OBVIOUS
    <2> QED
      BY <1>2, <2>1, StartsAgree
  <1>5. \A i \in 2..n : chosen(i)[i] = chosen(i)[i - 1] + layout[i - 1][2]
    BY <1>2 DEF Starts
  <1>6. n >= 1 => chosen(1)[1] = AnchorDiscriminatorOffset
    BY <1>2 DEF Starts
  <1>7. \A i \in 1..n : StartIn(layout, i) \in Nat
    BY <1>1, <1>3
  <1>8. n >= 1 => StartIn(layout, 1) = AnchorDiscriminatorOffset
    BY <1>1, <1>6
  <1>9. ASSUME NEW i \in 2..n
        PROVE  StartIn(layout, i) = StartIn(layout, i - 1) + layout[i - 1][2]
    <2>1. i \in 1..n /\ i - 1 \in 1..n
      OBVIOUS
    <2> QED
      BY <1>1, <1>4, <1>5, <2>1
  <1> QED
    BY <1>7, <1>8, <1>9

(* An offset at which one field starts, and no other.                      *)
LEMMA FieldStarts ==
    ASSUME NEW layout, NEW n \in Nat, DOMAIN layout = 1..n, NEW i \in 1..n, NEW offset,
           \A k \in 1..n : StartIn(layout, k) = offset <=> k = i
    PROVE  FieldsAt(layout, offset) = {layout[i][1]}
  BY DEF FieldsAt

LEMMA FieldsFindThem ==
    ASSUME NEW accs, NEW layout, NEW offsets, NEW keys,
           \A key \in keys : FieldsAt(layout, offsets[key]) = {key},
           \A a \in accs : keys \subseteq DOMAIN a
    PROVE  SearchFinds(accs, layout, offsets, keys)
  <1> SUFFICES ASSUME NEW a \in accs, NEW b \in accs, NEW searched \in SUBSET keys
               PROVE  Found(a, layout, offsets, [key \in searched |-> b[key]])
                      <=> \A key \in searched : a[key] = b[key]
    BY DEF SearchFinds
  <1>1. \A key \in searched : FieldsAt(layout, offsets[key]) \cap DOMAIN a = {key}
    OBVIOUS
  <1> QED
    BY <1>1 DEF Found
=============================================================================
