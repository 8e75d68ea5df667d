---------------------------- MODULE StreamsProofs ----------------------------
(***************************************************************************)
(* Proofs about Streams.                                                   *)
(***************************************************************************)
EXTENDS Streams, CommonTheorems

-----------------------------------------------------------------------------
(* A transaction: its instructions take effect one after the other.        *)
LEMMA MaxIsLast ==
    ASSUME NEW m \in Nat, NEW s \in SUBSET (1..(m + 1)), m + 1 \in s
    PROVE  Max(s) = m + 1
  <1>1. \E x \in s : \A y \in s : x >= y
    OBVIOUS
  <1>2. Max(s) = CHOOSE x \in s : \A y \in s : x >= y
    BY DEF Max
  <1>3. Max(s) \in s /\ \A y \in s : Max(s) >= y
    BY <1>1, <1>2
  <1>4. Max(s) \in 1..(m + 1) /\ Max(s) >= m + 1
    BY <1>3
  <1> QED
    BY <1>4

(* The fold of Run, over the first m instructions.                         *)
Folded(m, F, ixs, invoker) ==
    F = [s \in SUBSET (1..m) |->
            IF s = {} THEN Chain ELSE Executed(F[s \ {Max(s)}], ixs[Max(s)], invoker)]

LEMMA FoldedExists ==
    ASSUME NEW ixs, NEW invoker, NEW n \in Nat
    PROVE  \E F : Folded(n, F, ixs, invoker)
  <1> DEFINE Good == {m \in Nat : \E F : Folded(m, F, ixs, invoker)}
  <1>1. 0 \in Good
    <2> DEFINE F == [s \in SUBSET (1..0) |-> Chain]
    <2>1. \A s \in SUBSET (1..0) : s = {}
      OBVIOUS
    <2>2. Folded(0, F, ixs, invoker)
      BY <2>1 DEF Folded
    <2> QED
      BY <2>2
  <1>2. ASSUME NEW m \in Nat, m \in Good PROVE m + 1 \in Good
    <2>1. PICK F : Folded(m, F, ixs, invoker)
      BY <1>2
    <2> DEFINE S == SUBSET (1..(m + 1))
               G == [s \in S |-> IF m + 1 \in s
                                 THEN Executed(F[s \ {m + 1}], ixs[m + 1], invoker) ELSE F[s]]
    <2>2. ASSUME NEW s \in S, m + 1 \in s
          PROVE  /\ s # {} /\ G[s] = Executed(G[s \ {Max(s)}], ixs[Max(s)], invoker)
      <3>1. Max(s) = m + 1
        BY <2>2, MaxIsLast
      <3>2. s \ {m + 1} \in S /\ m + 1 \notin s \ {m + 1}
        OBVIOUS
      <3>3. G[s \ {m + 1}] = F[s \ {m + 1}]
        BY <3>2
      <3>4. G[s] = Executed(F[s \ {m + 1}], ixs[m + 1], invoker)
        BY <2>2
      <3> QED
        BY <2>2, <3>1, <3>3, <3>4
    <2>3. ASSUME NEW s \in S, m + 1 \notin s, s # {}
          PROVE  G[s] = Executed(G[s \ {Max(s)}], ixs[Max(s)], invoker)
      <3>1. s \in SUBSET (1..m)
        BY <2>3
      <3>2. F[s] = Executed(F[s \ {Max(s)}], ixs[Max(s)], invoker)
        BY <2>1, <2>3, <3>1 DEF Folded
      <3>3. s \ {Max(s)} \in S /\ m + 1 \notin s \ {Max(s)}
        BY <2>3
      <3>4. G[s] = F[s] /\ G[s \ {Max(s)}] = F[s \ {Max(s)}]
        BY <2>3, <3>3
      <3> QED
        BY <3>2, <3>4
    <2>4. G[{}] = Chain
      <3>1. {} \in S /\ m + 1 \notin {} /\ {} \in SUBSET (1..m)
        OBVIOUS
      <3>2. F[{}] = Chain
        BY <2>1, <3>1 DEF Folded
      <3> QED
        BY <3>1, <3>2
    <2>5. \A s \in S : G[s] = IF s = {} THEN Chain
                              ELSE Executed(G[s \ {Max(s)}], ixs[Max(s)], invoker)
      BY <2>2, <2>3, <2>4
    <2>6. G = [s \in S |-> G[s]]
      OBVIOUS
    <2> HIDE DEF G
    <2>7. Folded(m + 1, G, ixs, invoker)
      BY <2>5, <2>6 DEF Folded
    <2> QED
      BY <2>7
  <1> HIDE DEF Good
  <1>3. Nat \subseteq Good
    BY <1>1, <1>2, Inductive
  <1> QED
    BY <1>3 DEF Good

(* The states between the instructions of a transaction.                   *)
Stepwise(f, ixs, n, invoker) ==
    /\ f[0] = Chain
    /\ \A k \in 1..n : f[k] = Executed(f[k - 1], ixs[k], invoker)

LEMMA RunIsStepwise ==
    ASSUME NEW n \in Nat, NEW ixs, DOMAIN ixs = 1..n, NEW invoker
    PROVE  \E f : Stepwise(f, ixs, n, invoker) /\ Run(ixs, invoker) = f[n]
  <1> DEFINE F == CHOOSE F : Folded(n, F, ixs, invoker)
             f == [k \in 0..n |-> F[1..k]]
  <1>1. Folded(n, F, ixs, invoker)
    BY FoldedExists
  <1>2. Run(ixs, invoker) = F[1..n]
    BY DEF Run, FoldLeft, MapThenFoldSet, Folded
  <1> HIDE DEF F
  <1>3. f[0] = Chain
    BY <1>1 DEF Folded
  <1>4. ASSUME NEW k \in 1..n PROVE f[k] = Executed(f[k - 1], ixs[k], invoker)
    <2>1. k - 1 \in Nat /\ k = (k - 1) + 1 /\ k \in 1..k
      OBVIOUS
    <2>2. Max(1..k) = k
      BY <2>1, MaxIsLast
    <2>3. (1..k) \ {k} = 1..(k - 1) /\ 1..k \in SUBSET (1..n) /\ 1..k # {}
      OBVIOUS
    <2>4. F[1..k] = Executed(F[1..(k - 1)], ixs[k], invoker)
      BY <1>1, <2>2, <2>3 DEF Folded
    <2> QED
      BY <2>4
  <1>5. f[n] = F[1..n]
    OBVIOUS
  <1> QED
    BY <1>2, <1>3, <1>4, <1>5 DEF Stepwise

(* What the instructions before the last may do.                           *)
Preparing == {"createAta", "createAccount", "wrap"}

IsWorld(c) ==
    c = [ok |-> c.ok, streams |-> c.streams, proxies |-> c.proxies, tokens |-> c.tokens,
         wrapped |-> c.wrapped, allocated |-> c.allocated]

Unchanged(c) == IsWorld(c) /\ c.streams = streams /\ c.proxies = proxies

LEMMA PreparingChanges ==
    ASSUME NEW c, Unchanged(c), NEW ix, ix.op \in Preparing, NEW invoker
    PROVE  Unchanged(Executed(c, ix, invoker))
  <1>1. Unchanged([c EXCEPT !.ok = FALSE])
    <2>1. PICK d : d = [c EXCEPT !.ok = FALSE]
      OBVIOUS
    <2>2. Unchanged(d)
      BY <2>1 DEF Unchanged, IsWorld
    <2> QED
      BY <2>1, <2>2
  <1>2. CASE ix.op = "createAta"
    <2>1. Changed(c, ix) = [c EXCEPT !.tokens = @ \cup {Tokens(ix.owner)}]
      BY <1>2 DEF Changed
    <2>2. Unchanged(Changed(c, ix))
      BY <2>1 DEF Unchanged, IsWorld
    <2> QED
      BY <1>1, <2>2 DEF Executed
  <1>3. CASE ix.op = "wrap"
    <2>1. Changed(c, ix) = [c EXCEPT !.wrapped = @ + ix.amount]
      BY <1>3 DEF Changed
    <2>2. Unchanged(Changed(c, ix))
      BY <2>1 DEF Unchanged, IsWorld
    <2> QED
      BY <1>1, <2>2 DEF Executed
  <1>4. CASE ix.op = "createAccount"
    <2>1. Changed(c, ix) = [c EXCEPT !.allocated = @ \cup {ix.id}]
      BY <1>4 DEF Changed
    <2>2. Unchanged(Changed(c, ix))
      BY <2>1 DEF Unchanged, IsWorld
    <2> QED
      BY <1>1, <2>2 DEF Executed
  <1> QED
    BY <1>2, <1>3, <1>4 DEF Preparing

IsPreparing(s) ==
    \E S : s \in Seq(S) /\ \A k \in 1..Len(s) : s[k].op \in Preparing

Ends(ixs, ix) ==
    \E n \in Nat : /\ DOMAIN ixs = 1..(n + 1) /\ ixs[n + 1] = ix
                   /\ \A k \in 1..n : ixs[k].op \in Preparing

(* A transaction that lands is its last instruction, executed on a chain   *)
(* that differs only in token accounts.                                    *)
LEMMA LandsLast ==
    ASSUME NEW ixs, NEW ix, Ends(ixs, ix), NEW invoker, Land(ixs, invoker)
    PROVE  \E c : /\ Unchanged(c) /\ Allowed(c, ix, invoker)
                 /\ streams' = Changed(c, ix).streams /\ proxies' = Changed(c, ix).proxies
                 /\ now' = now
  <1>1. PICK n \in Nat : /\ DOMAIN ixs = 1..(n + 1) /\ ixs[n + 1] = ix
                        /\ \A k \in 1..n : ixs[k].op \in Preparing
    BY DEF Ends
  <1>2. PICK f : Stepwise(f, ixs, n + 1, invoker) /\ Run(ixs, invoker) = f[n + 1]
    BY <1>1, RunIsStepwise
  <1> DEFINE Good == {k \in Nat : k <= n => Unchanged(f[k])}
  <1>3. 0 \in Good
    BY <1>2 DEF Stepwise, Chain, Unchanged, IsWorld
  <1>4. ASSUME NEW k \in Nat, k \in Good PROVE k + 1 \in Good
    <2>1. SUFFICES ASSUME k + 1 <= n PROVE Unchanged(f[k + 1])
      OBVIOUS
    <2>2. Unchanged(f[k]) /\ ixs[k + 1].op \in Preparing
      BY <1>1, <1>4, <2>1
    <2>3. k + 1 \in 1..(n + 1) /\ (k + 1) - 1 = k
      BY <2>1
    <2>4. f[k + 1] = Executed(f[k], ixs[k + 1], invoker)
      BY <1>2, <2>3 DEF Stepwise
    <2> QED
      BY <2>2, <2>4, PreparingChanges
  <1> HIDE DEF Good
  <1>5. n \in Good
    BY <1>3, <1>4, Inductive
  <1>6. Unchanged(f[n])
    BY <1>5 DEF Good
  <1>7. f[n + 1] = Executed(f[n], ix, invoker)
    <2>1. n + 1 \in 1..(n + 1) /\ (n + 1) - 1 = n
      OBVIOUS
    <2> QED
      BY <1>1, <1>2, <2>1 DEF Stepwise
  <1>8. f[n + 1].ok /\ streams' = f[n + 1].streams /\ proxies' = f[n + 1].proxies /\ now' = now
    BY <1>2 DEF Land
  <1>9. ~[f[n] EXCEPT !.ok = FALSE].ok
    <2> DEFINE c == f[n]
    <2>1. c = [ok |-> c.ok, streams |-> c.streams, proxies |-> c.proxies, tokens |-> c.tokens,
               wrapped |-> c.wrapped, allocated |-> c.allocated]
      BY <1>6 DEF Unchanged, IsWorld
    <2> HIDE DEF c
    <2>2. ~[c EXCEPT !.ok = FALSE].ok
      BY <2>1
    <2> QED
      BY <2>2 DEF c
  <1>10. Allowed(f[n], ix, invoker) /\ f[n + 1] = Changed(f[n], ix)
    BY <1>7, <1>8, <1>9 DEF Executed
  <1> QED
    BY <1>6, <1>8, <1>10

LEMMA SetToSeqIsSeq ==
    ASSUME NEW S, IsFiniteSet(S)
    PROVE  /\ Cardinality(S) \in Nat
           /\ SetToSeq(S) \in [1..Cardinality(S) -> S] /\ IsInjective(SetToSeq(S))
           /\ \A x \in S : \E k \in 1..Cardinality(S) : SetToSeq(S)[k] = x
  <1> DEFINE n == Cardinality(S)
             f == SetToSeq(S)
  <1>1. n \in Nat /\ ExistsBijection(1..n, S)
    BY FS_CardinalityType
  <1>2. PICK g : g \in Bijection(1..n, S)
    BY <1>1 DEF ExistsBijection
  <1>3. g \in [1..n -> S] /\ IsInjective(g)
    BY <1>2 DEF Bijection, Injection
  <1>4. f \in [1..n -> S] /\ IsInjective(f)
    BY <1>3 DEF SetToSeq
  <1> HIDE DEF f
  <1>5. f \in Injection(1..n, S)
    BY <1>4 DEF Injection
  <1>6. f \in Surjection(1..n, S)
    BY <1>1, <1>5, FS_Injection, FS_Interval
  <1> QED
    BY <1>1, <1>4, <1>6 DEF Surjection, f

LEMMA EnsureAtasPrepares ==
    ASSUME NEW m \in Nat, NEW owners, DOMAIN owners = 1..m
    PROVE  IsPreparing(EnsureAtas(owners))
  <1> DEFINE P == {i \in Unique(owners) : Tokens(owners[i]) \notin tokens}
             missing == SetToSeq(P)
             n == Cardinality(P)
             atas == [k \in DOMAIN missing |-> CreateAta(owners[missing[k]])]
             S == {CreateAta(owners[i]) : i \in 1..m}
  <1>1. P \in SUBSET (1..m)
    BY DEF Unique
  <1>2. IsFiniteSet(P)
    BY <1>1, FS_Interval, FS_Subset
  <1>3. n \in Nat /\ missing \in [1..n -> P]
    BY <1>2, SetToSeqIsSeq
  <1> HIDE DEF P, missing, n
  <1>4. \A k \in 1..n : missing[k] \in 1..m
    BY <1>1, <1>3
  <1>5. atas \in [1..n -> S]
    BY <1>3, <1>4
  <1>6. atas \in Seq(S) /\ Len(atas) = n
    BY <1>3, <1>5
  <1>7. \A k \in 1..n : atas[k].op = "createAta"
    BY <1>3 DEF CreateAta
  <1>8. EnsureAtas(owners) = atas
    BY DEF EnsureAtas, P, missing
  <1> HIDE DEF atas, S
  <1> QED
    BY <1>6, <1>7, <1>8 DEF IsPreparing, Preparing

LEMMA PreparingConcat ==
    ASSUME NEW s, NEW t, IsPreparing(s), IsPreparing(t)
    PROVE  IsPreparing(s \o t)
  <1>1. PICK S : s \in Seq(S) /\ \A k \in 1..Len(s) : s[k].op \in Preparing
    BY DEF IsPreparing
  <1>2. PICK T : t \in Seq(T) /\ \A k \in 1..Len(t) : t[k].op \in Preparing
    BY DEF IsPreparing
  <1>3. s \in Seq(S \cup T) /\ t \in Seq(S \cup T)
    BY <1>1, <1>2, SeqMonotonic
  <1>4. /\ s \o t \in Seq(S \cup T) /\ Len(s \o t) = Len(s) + Len(t)
        /\ \A k \in 1..(Len(s) + Len(t)) :
             (s \o t)[k] = IF k <= Len(s) THEN s[k] ELSE t[k - Len(s)]
    BY <1>3, ConcatProperties
  <1>5. Len(s) \in Nat /\ Len(t) \in Nat
    BY <1>1, <1>2
  <1>6. ASSUME NEW k \in 1..(Len(s) + Len(t)) PROVE (s \o t)[k].op \in Preparing
    <2>1. CASE k <= Len(s)
      <3>1. k \in 1..Len(s) /\ (s \o t)[k] = s[k]
        BY <1>4, <1>5, <2>1
      <3> QED
        BY <1>1, <3>1
    <2>2. CASE k > Len(s)
      <3>1. k - Len(s) \in 1..Len(t) /\ (s \o t)[k] = t[k - Len(s)]
        BY <1>4, <1>5, <2>2
      <3> QED
        BY <1>2, <3>1
    <2> QED
      BY <1>5, <2>1, <2>2
  <1> QED
    BY <1>4, <1>6 DEF IsPreparing

LEMMA EndsWith ==
    ASSUME NEW s, IsPreparing(s), NEW ix
    PROVE  Ends(s \o <<ix>>, ix)
  <1>1. PICK S : s \in Seq(S) /\ \A k \in 1..Len(s) : s[k].op \in Preparing
    BY DEF IsPreparing
  <1> DEFINE U == S \cup {ix}
             n == Len(s)
             last == <<ix>>
  <1>2. s \in Seq(U)
    BY <1>1, SeqMonotonic
  <1>3. last \in Seq(U) /\ Len(last) = 1 /\ last[1] = ix
    OBVIOUS
  <1> HIDE DEF last
  <1>4. /\ s \o last \in Seq(U) /\ Len(s \o last) = n + 1
        /\ \A k \in 1..(n + 1) : (s \o last)[k] = IF k <= n THEN s[k] ELSE last[k - n]
    BY <1>2, <1>3, ConcatProperties
  <1>5. n \in Nat
    BY <1>1
  <1>6. DOMAIN (s \o last) = 1..(n + 1)
    BY <1>4, LenProperties
  <1>7. (s \o last)[n + 1] = last[1]
    <2>1. n + 1 \in 1..(n + 1) /\ ~(n + 1 <= n) /\ (n + 1) - n = 1
      BY <1>5
    <2> QED
      BY <1>4, <2>1
  <1>8. \A k \in 1..n : (s \o last)[k].op \in Preparing
    <2>1. \A k \in 1..n : k \in 1..(n + 1) /\ k <= n
      BY <1>5
    <2>2. \A k \in 1..n : (s \o last)[k] = s[k]
      BY <1>4, <2>1
    <2> QED
      BY <1>1, <2>2
  <1> HIDE DEF n, U
  <1> QED
    BY <1>3, <1>5, <1>6, <1>7, <1>8 DEF Ends, last

LEMMA PreparingAlone ==
    ASSUME NEW ix, ix.op \in Preparing
    PROVE  IsPreparing(<<ix>>)
  <1>1. PICK s : s = <<ix>>
    OBVIOUS
  <1>2. s \in Seq({ix}) /\ Len(s) = 1 /\ s[1] = ix
    BY <1>1
  <1>3. IsPreparing(s)
    BY <1>2 DEF IsPreparing
  <1> QED
    BY <1>1, <1>3

LEMMA EndsAlone ==
    ASSUME NEW ix
    PROVE  Ends(<<ix>>, ix)
  <1>1. 0 \in Nat /\ DOMAIN <<ix>> = 1..(0 + 1) /\ <<ix>>[0 + 1] = ix
    OBVIOUS
  <1> QED
    BY <1>1 DEF Ends

-----------------------------------------------------------------------------
(* The instructions that the client builds, as the programs read them.     *)
LEMMA ReadByName ==
    ASSUME NEW names, NEW keys, NEW i \in DOMAIN names,
           \A j \in DOMAIN names : names[j] = names[i] => j = i
    PROVE  AsRead(names, keys)[names[i]] = keys[i]
  <1>1. (CHOOSE j \in DOMAIN names : names[j] = names[i]) = i
    OBVIOUS
  <1> QED
    BY <1>1 DEF AsRead

LEMMA AllRead ==
    ASSUME NEW names, NEW keys, NEW x,
           \A i \in DOMAIN names, j \in DOMAIN names : names[i] = names[j] => i = j,
           \A i \in DOMAIN names : keys[i] = x[names[i]]
    PROVE  \A i \in DOMAIN names : AsRead(names, keys)[names[i]] = x[names[i]]
  BY ReadByName

LEMMA WithdrawRead ==
    ASSUME NEW x
    PROVE  LET a == AsRead(WithdrawNames, WithdrawKeys(x))
           IN  \A f \in {"authority", "recipient", "recipientTokens", "metadata", "escrowTokens",
                         "streamflowTreasury", "streamflowTreasuryTokens", "partner",
                         "partnerTokens", "mint"} : a[f] = x[f]
  <1>1. DOMAIN WithdrawNames = 1..10
    BY DEF WithdrawNames
  <1>2. \A i \in 1..10, j \in 1..10 : WithdrawNames[i] = WithdrawNames[j] => i = j
    BY DEF WithdrawNames
  <1>3. \A i \in 1..10 : WithdrawKeys(x)[i] = x[WithdrawNames[i]]
    BY DEF WithdrawNames, WithdrawKeys
  <1>4. \A i \in 1..10 : AsRead(WithdrawNames, WithdrawKeys(x))[WithdrawNames[i]] = x[WithdrawNames[i]]
    BY <1>1, <1>2, <1>3, AllRead
  <1> QED
    BY <1>4 DEF WithdrawNames

LEMMA CancelRead ==
    ASSUME NEW x
    PROVE  LET a == AsRead(CancelNames, CancelKeys(x))
           IN  \A f \in {"authority", "sender", "senderTokens", "recipient", "recipientTokens",
                         "metadata", "escrowTokens", "streamflowTreasury",
                         "streamflowTreasuryTokens", "partner", "partnerTokens", "mint"} : a[f] = x[f]
  <1>1. DOMAIN CancelNames = 1..12
    BY DEF CancelNames
  <1>2. \A i \in 1..12, j \in 1..12 : CancelNames[i] = CancelNames[j] => i = j
    BY DEF CancelNames
  <1>3. \A i \in 1..12 : CancelKeys(x)[i] = x[CancelNames[i]]
    BY DEF CancelNames, CancelKeys
  <1>4. \A i \in 1..12 : AsRead(CancelNames, CancelKeys(x))[CancelNames[i]] = x[CancelNames[i]]
    BY <1>1, <1>2, <1>3, AllRead
  <1> QED
    BY <1>4 DEF CancelNames

LEMMA TransferRead ==
    ASSUME NEW x
    PROVE  LET a == AsRead(TransferNames, TransferKeys(x))
           IN  \A f \in {"authority", "newRecipient", "newRecipientTokens", "metadata", "mint"} : a[f] = x[f]
  <1>1. DOMAIN TransferNames = 1..5
    BY DEF TransferNames
  <1>2. \A i \in 1..5, j \in 1..5 : TransferNames[i] = TransferNames[j] => i = j
    BY DEF TransferNames
  <1>3. \A i \in 1..5 : TransferKeys(x)[i] = x[TransferNames[i]]
    BY DEF TransferNames, TransferKeys
  <1>4. \A i \in 1..5 : AsRead(TransferNames, TransferKeys(x))[TransferNames[i]] = x[TransferNames[i]]
    BY <1>1, <1>2, <1>3, AllRead
  <1> QED
    BY <1>4 DEF TransferNames

LEMMA TopupRead ==
    ASSUME NEW x
    PROVE  LET a == AsRead(TopupNames, TopupKeys(x))
           IN  \A f \in {"sender", "senderTokens", "metadata", "escrowTokens",
                         "streamflowTreasury", "streamflowTreasuryTokens", "withdrawor",
                         "partner", "partnerTokens", "mint"} : a[f] = x[f]
  <1>1. DOMAIN TopupNames = 1..10
    BY DEF TopupNames
  <1>2. \A i \in 1..10, j \in 1..10 : TopupNames[i] = TopupNames[j] => i = j
    BY DEF TopupNames
  <1>3. \A i \in 1..10 : TopupKeys(x)[i] = x[TopupNames[i]]
    BY DEF TopupNames, TopupKeys
  <1>4. \A i \in 1..10 : AsRead(TopupNames, TopupKeys(x))[TopupNames[i]] = x[TopupNames[i]]
    BY <1>1, <1>2, <1>3, AllRead
  <1> QED
    BY <1>4 DEF TopupNames

LEMMA UpdateRead ==
    ASSUME NEW x
    PROVE  LET a == AsRead(UpdateNames, UpdateKeys(x))
           IN  \A f \in {"authority", "metadata", "withdrawor"} : a[f] = x[f]
  <1>1. DOMAIN UpdateNames = 1..3
    BY DEF UpdateNames
  <1>2. \A i \in 1..3, j \in 1..3 : UpdateNames[i] = UpdateNames[j] => i = j
    BY DEF UpdateNames
  <1>3. \A i \in 1..3 : UpdateKeys(x)[i] = x[UpdateNames[i]]
    BY DEF UpdateNames, UpdateKeys
  <1>4. \A i \in 1..3 : AsRead(UpdateNames, UpdateKeys(x))[UpdateNames[i]] = x[UpdateNames[i]]
    BY <1>1, <1>2, <1>3, AllRead
  <1> QED
    BY <1>4 DEF UpdateNames

LEMMA CreateRead ==
    ASSUME NEW x
    PROVE  LET a == AsRead(CreateNames, CreateKeys(x))
           IN  \A f \in {"sender", "senderTokens", "recipient", "metadata", "escrowTokens",
                         "recipientTokens", "streamflowTreasury", "streamflowTreasuryTokens",
                         "withdrawor", "partner", "partnerTokens", "mint"} : a[f] = x[f]
  <1>1. DOMAIN CreateNames = 1..12
    BY DEF CreateNames
  <1>2. \A i \in 1..12, j \in 1..12 : CreateNames[i] = CreateNames[j] => i = j
    BY DEF CreateNames
  <1>3. \A i \in 1..12 : CreateKeys(x)[i] = x[CreateNames[i]]
    BY DEF CreateNames, CreateKeys
  <1>4. \A i \in 1..12 : AsRead(CreateNames, CreateKeys(x))[CreateNames[i]] = x[CreateNames[i]]
    BY <1>1, <1>2, <1>3, AllRead
  <1> QED
    BY <1>4 DEF CreateNames

LEMMA CreateUncheckedRead ==
    ASSUME NEW x
    PROVE  LET a == AsRead(CreateUncheckedNames, CreateUncheckedKeys(x))
           IN  \A f \in {"sender", "senderTokens", "metadata", "escrowTokens", "withdrawor",
                         "mint"} : a[f] = x[f]
  <1>1. DOMAIN CreateUncheckedNames = 1..6
    BY DEF CreateUncheckedNames
  <1>2. \A i \in 1..6, j \in 1..6 : CreateUncheckedNames[i] = CreateUncheckedNames[j] => i = j
    BY DEF CreateUncheckedNames
  <1>3. \A i \in 1..6 : CreateUncheckedKeys(x)[i] = x[CreateUncheckedNames[i]]
    BY DEF CreateUncheckedNames, CreateUncheckedKeys
  <1>4. \A i \in 1..6 : AsRead(CreateUncheckedNames, CreateUncheckedKeys(x))[CreateUncheckedNames[i]]
                         = x[CreateUncheckedNames[i]]
    BY <1>1, <1>2, <1>3, AllRead
  <1> QED
    BY <1>4 DEF CreateUncheckedNames

(* What Anchor completes of createAligned and cancelAligned: every account *)
(* is named or is the one that the program derives.                        *)
Derived(ix, addr) ==
    \A name \in DOMAIN ix :
        LET how == ix[name] IN
        /\ how.by \in {"name", "seeds", "tokens"}
        /\ "signs" \in DOMAIN how => name \in {"payer", "sender"}
        /\ how.by = "seeds" => addr[name] = Seeded(how, addr, <<>>)
        /\ how.by = "tokens" => addr[name] = TokenAccount(addr["mint"], addr[how.owner])

LEMMA DerivedAreAccepted ==
    ASSUME NEW ix, NEW addr, Derived(ix, addr), NEW invoker,
           \A name \in DOMAIN ix : addr[name] # Missing,
           \A name \in DOMAIN ix \cap {"payer", "sender"} : addr[name] = invoker
    PROVE  Accepts(ix, addr, <<>>, <<>>, invoker)
  BY DEF Derived, Accepts

LEMMA AlignedCreateCompleted ==
    ASSUME NEW given,
           DOMAIN given = {"payer", "sender", "streamMetadata", "escrowTokens", "mint", "partner",
                           "recipient", "withdrawor", "feeOracle", "priceOracle"}
    PROVE  LET addr == Completed(AlignedCreateIx, given, <<>>, <<>>)
           IN  /\ addr = [name \in DOMAIN AlignedCreateIx |-> addr[name]]
               /\ \A name \in DOMAIN given : addr[name] = given[name]
               /\ addr.senderTokens = TokenAccount(given.mint, given.sender)
               /\ addr.recipientTokens = TokenAccount(given.mint, given.recipient)
               /\ addr.proxyMetadata = ContractPDA(given.streamMetadata)
               /\ addr.proxyTokens = TokenAccount(given.mint, addr.proxyMetadata)
               /\ Derived(AlignedCreateIx, addr)
  <1> DEFINE ix == AlignedCreateIx
             middle == {"proxyMetadata", "senderTokens", "recipientTokens"}
             addr == Completed(ix, given, <<>>, <<>>)
  <1>1. DOMAIN ix = DOMAIN given \cup middle \cup {"proxyTokens"}
    BY DEF AlignedCreateIx
  <1>2. /\ ix["senderTokens"] = TokensOf("sender") /\ ix["recipientTokens"] = TokensOf("recipient")
        /\ ix["proxyMetadata"] = Seeds("contract", <<"streamMetadata">>)
        /\ ix["proxyTokens"] = TokensOf("proxyMetadata")
        /\ \A name \in DOMAIN given : /\ ix[name].by = "name"
                                      /\ "signs" \in DOMAIN ix[name] => name \in {"payer", "sender"}
    BY DEF AlignedCreateIx, ProxySeeds, Named, Signer
  <1> HIDE DEF ix
  <1>3. /\ \A name \in {"senderTokens", "recipientTokens", "proxyTokens"} :
             ix[name].by = "tokens" /\ name \notin DOMAIN given
        /\ ix["senderTokens"].owner = "sender" /\ ix["recipientTokens"].owner = "recipient"
        /\ ix["proxyTokens"].owner = "proxyMetadata"
        /\ ix["proxyMetadata"].by = "seeds" /\ "proxyMetadata" \notin DOMAIN given
        /\ ix["proxyMetadata"].path = <<"streamMetadata">>
    BY <1>2 DEF TokensOf, Seeds
  <1>4. /\ Needs(ix, given, <<>>, "senderTokens") = {"mint", "sender"}
        /\ Needs(ix, given, <<>>, "recipientTokens") = {"mint", "recipient"}
        /\ Needs(ix, given, <<>>, "proxyTokens") = {"mint", "proxyMetadata"}
        /\ Needs(ix, given, <<>>, "proxyMetadata") = {"streamMetadata"}
    BY <1>3 DEF Needs
  <1>5. \A name \in DOMAIN ix \ DOMAIN given :
          /\ ix[name].by \in Manners \ {"name"}
          /\ Needs(ix, given, <<>>, name) \subseteq DOMAIN ix
          /\ Needs(ix, given, <<>>, name) \subseteq
               DOMAIN given \cup (IF name \in middle THEN {} ELSE middle)
    BY <1>1, <1>3, <1>4 DEF Manners
  <1>6. PICK rank : Layered(rank, ix, given, <<>>)
    BY <1>5, TwoLayers
  <1>7. \A name \in DOMAIN given : addr[name] = given[name]
    BY <1>1, <1>6, CompletedName
  <1>8. \A name \in {"senderTokens", "recipientTokens", "proxyTokens"} :
          addr[name] = TokenAccount(addr["mint"], addr[ix[name].owner])
    BY <1>1, <1>3, <1>6, CompletedName
  <1>9. addr["proxyMetadata"] = <<"contract", given["streamMetadata"]>>
    <2>1. addr["proxyMetadata"] = Seeded(ix["proxyMetadata"], addr, <<>>)
      BY <1>1, <1>3, <1>6, CompletedName
    <2>2. Seed("streamMetadata", addr, <<>>) = addr["streamMetadata"]
      BY DEF Seed
    <2> QED
      BY <1>2, <1>7, <2>1, <2>2, SeededByOne
  <1>10. addr = [name \in DOMAIN ix |-> addr[name]]
    <2>1. addr = [name \in DOMAIN ix |-> Resolved(ix, given, <<>>, <<>>, addr, name)]
      BY <1>6, CompletedUnfolds
    <2> HIDE DEF addr
    <2> QED
      BY <2>1
  <1>11. Derived(ix, addr)
    <2>1. addr["proxyMetadata"] = Seeded(ix["proxyMetadata"], addr, <<>>)
      BY <1>1, <1>3, <1>6, CompletedName
    <2>2. \A name \in DOMAIN ix \ DOMAIN given : "signs" \notin DOMAIN ix[name]
      BY <1>1, <1>2 DEF TokensOf, Seeds
    <2> HIDE DEF addr
    <2> QED
      BY <1>1, <1>2, <1>3, <1>8, <2>1, <2>2 DEF Derived
  <1> HIDE DEF addr
  <1>12. /\ addr.senderTokens = TokenAccount(given.mint, given.sender)
         /\ addr.recipientTokens = TokenAccount(given.mint, given.recipient)
         /\ addr.proxyMetadata = ContractPDA(given.streamMetadata)
         /\ addr.proxyTokens = TokenAccount(given.mint, addr.proxyMetadata)
    BY <1>3, <1>7, <1>8, <1>9 DEF ContractPDA
  <1> QED
    BY <1>7, <1>10, <1>11, <1>12 DEF addr, ix

LEMMA AlignedCancelCompleted ==
    ASSUME NEW given,
           DOMAIN given = {"sender", "streamMetadata", "escrowTokens", "mint", "partner",
                           "recipient", "streamflowTreasury"}
    PROVE  LET addr == Completed(AlignedCancelIx, given, <<>>, <<>>)
           IN  /\ \A name \in DOMAIN given : addr[name] = given[name]
               /\ addr.proxyMetadata = ContractPDA(given.streamMetadata)
               /\ addr.senderTokens = TokenAccount(given.mint, given.sender)
               /\ addr.recipientTokens = TokenAccount(given.mint, given.recipient)
               /\ addr.streamflowTreasuryTokens = TokenAccount(given.mint, given.streamflowTreasury)
               /\ addr.partnerTokens = TokenAccount(given.mint, given.partner)
               /\ addr.proxyTokens = TokenAccount(given.mint, addr.proxyMetadata)
               /\ Derived(AlignedCancelIx, addr)
  <1> DEFINE ix == AlignedCancelIx
             own == {"senderTokens", "recipientTokens", "streamflowTreasuryTokens", "partnerTokens"}
             middle == {"proxyMetadata"} \cup own
             addr == Completed(ix, given, <<>>, <<>>)
  <1>1. DOMAIN ix = DOMAIN given \cup middle \cup {"proxyTokens"}
    BY DEF AlignedCancelIx
  <1>2. /\ ix["senderTokens"] = TokensOf("sender") /\ ix["recipientTokens"] = TokensOf("recipient")
        /\ ix["streamflowTreasuryTokens"] = TokensOf("streamflowTreasury")
        /\ ix["partnerTokens"] = TokensOf("partner")
        /\ ix["proxyMetadata"] = Seeds("contract", <<"streamMetadata">>)
        /\ ix["proxyTokens"] = TokensOf("proxyMetadata")
        /\ \A name \in DOMAIN given : /\ ix[name].by = "name"
                                      /\ "signs" \in DOMAIN ix[name] => name \in {"payer", "sender"}
    BY DEF AlignedCancelIx, ProxySeeds, Named, Signer
  <1> HIDE DEF ix
  <1>3. /\ \A name \in own \cup {"proxyTokens"} : ix[name].by = "tokens" /\ name \notin DOMAIN given
        /\ ix["senderTokens"].owner = "sender" /\ ix["recipientTokens"].owner = "recipient"
        /\ ix["streamflowTreasuryTokens"].owner = "streamflowTreasury"
        /\ ix["partnerTokens"].owner = "partner"
        /\ ix["proxyTokens"].owner = "proxyMetadata"
        /\ ix["proxyMetadata"].by = "seeds" /\ "proxyMetadata" \notin DOMAIN given
        /\ ix["proxyMetadata"].path = <<"streamMetadata">>
    BY <1>2 DEF TokensOf, Seeds
  <1>4. /\ \A name \in own : Needs(ix, given, <<>>, name) = {"mint", ix[name].owner}
        /\ Needs(ix, given, <<>>, "proxyTokens") = {"mint", "proxyMetadata"}
        /\ Needs(ix, given, <<>>, "proxyMetadata") = {"streamMetadata"}
    BY <1>3 DEF Needs
  <1>5. \A name \in own : ix[name].owner \in DOMAIN given
    BY <1>3
  <1>6. \A name \in DOMAIN ix \ DOMAIN given :
          /\ ix[name].by \in Manners \ {"name"}
          /\ Needs(ix, given, <<>>, name) \subseteq DOMAIN ix
          /\ Needs(ix, given, <<>>, name) \subseteq
               DOMAIN given \cup (IF name \in middle THEN {} ELSE middle)
    BY <1>1, <1>3, <1>4, <1>5 DEF Manners
  <1>7. PICK rank : Layered(rank, ix, given, <<>>)
    BY <1>6, TwoLayers
  <1>8. \A name \in DOMAIN given : addr[name] = given[name]
    BY <1>1, <1>7, CompletedName
  <1>9. addr["proxyMetadata"] = <<"contract", given["streamMetadata"]>>
    <2>1. addr["proxyMetadata"] = Seeded(ix["proxyMetadata"], addr, <<>>)
      BY <1>1, <1>3, <1>7, CompletedName
    <2>2. Seed("streamMetadata", addr, <<>>) = addr["streamMetadata"]
      BY DEF Seed
    <2> QED
      BY <1>2, <1>8, <2>1, <2>2, SeededByOne
  <1>10. \A name \in own \cup {"proxyTokens"} :
           addr[name] = TokenAccount(addr["mint"], addr[ix[name].owner])
    BY <1>1, <1>3, <1>7, CompletedName
  <1>11. Derived(ix, addr)
    <2>1. addr["proxyMetadata"] = Seeded(ix["proxyMetadata"], addr, <<>>)
      BY <1>1, <1>3, <1>7, CompletedName
    <2>2. \A name \in DOMAIN ix \ DOMAIN given : "signs" \notin DOMAIN ix[name]
      BY <1>1, <1>2 DEF TokensOf, Seeds
    <2> HIDE DEF addr
    <2> QED
      BY <1>1, <1>2, <1>3, <1>10, <2>1, <2>2 DEF Derived
  <1> HIDE DEF addr
  <1>12. /\ addr.senderTokens = TokenAccount(given.mint, given.sender)
         /\ addr.recipientTokens = TokenAccount(given.mint, given.recipient)
         /\ addr.streamflowTreasuryTokens = TokenAccount(given.mint, given.streamflowTreasury)
         /\ addr.partnerTokens = TokenAccount(given.mint, given.partner)
         /\ addr.proxyTokens = TokenAccount(given.mint, addr.proxyMetadata)
    BY <1>3, <1>8, <1>10
  <1> QED
    BY <1>8, <1>9, <1>11, <1>12 DEF ContractPDA, ix, addr

-----------------------------------------------------------------------------
(* What each operation does to the streams when its transaction lands.     *)
LEMMA WithdrawEffect ==
    ASSUME NEW id \in DOMAIN streams, NEW i, Land(WithdrawIxs(id, i), i)
    PROVE  /\ streams[id].canceledAt = 0
           /\ streams' = [streams EXCEPT ![id] =
                            [@ EXCEPT !.withdrawn = Least(streams[id].accrued, streams[id].deposited)]]
           /\ proxies' = proxies /\ now' = now
  <1> DEFINE s == streams[id]
             x == Merged(FeeAccounts(s.partner),
                    [authority |-> i, recipient |-> i, metadata |-> id,
                     recipientTokens |-> s.recipientTokens, escrowTokens |-> s.escrowTokens])
             owners == <<s.sender, s.recipient, s.streamflowTreasury, s.partner>>
             ix == Prepare("withdraw", WithdrawNames, WithdrawKeys(x), {})
  <1>1. WithdrawIxs(id, i) = EnsureAtas(owners) \o <<ix>>
    BY DEF WithdrawIxs
  <1>2. x.metadata = id
    BY DEF Merged, FeeAccounts
  <1> HIDE DEF x
  <1>3. ix.op = "withdraw" /\ ix.accounts.metadata = id
    BY <1>2, WithdrawRead DEF Prepare
  <1>4. Ends(WithdrawIxs(id, i), ix)
    <2>1. DOMAIN owners = 1..4
      OBVIOUS
    <2> HIDE DEF owners, ix
    <2> QED
      BY <1>1, <2>1, EndsWith, EnsureAtasPrepares
  <1> HIDE DEF ix, owners
  <1>5. PICK c : /\ Unchanged(c) /\ Allowed(c, ix, i)
                 /\ streams' = Changed(c, ix).streams /\ proxies' = Changed(c, ix).proxies
                 /\ now' = now
    BY <1>4, LandsLast
  <1>6. Changed(c, ix) = [c EXCEPT !.streams[id].withdrawn =
                                      Least(c.streams[id].accrued, c.streams[id].deposited)]
    BY <1>3 DEF Changed
  <1>7. streams[id].canceledAt = 0
    <2>1. Names(c, ix.accounts, ix.accounts.metadata,
                {"recipient", "recipientTokens", "escrowTokens", "partner", "mint"})
      BY <1>3, <1>5 DEF Allowed
    <2> QED
      BY <1>3, <1>5, <2>1 DEF Names, Unchanged
  <1> QED
    BY <1>5, <1>6, <1>7 DEF Unchanged, IsWorld

LEMMA CancelStreamEffect ==
    ASSUME NEW id \in DOMAIN streams, NEW i, Land(CancelStreamIxs(id, i), i)
    PROVE  /\ streams' = [streams EXCEPT ![id] = [@ EXCEPT !.canceledAt = now]]
           /\ proxies' = proxies /\ now' = now
  <1> DEFINE s == streams[id]
             x == Merged(FeeAccounts(s.partner),
                    [authority |-> i, sender |-> s.sender, senderTokens |-> s.senderTokens,
                     recipient |-> s.recipient, recipientTokens |-> s.recipientTokens,
                     metadata |-> id, escrowTokens |-> s.escrowTokens])
             owners == <<s.sender, s.recipient, s.partner, s.streamflowTreasury>>
             ix == Prepare("cancel", CancelNames, CancelKeys(x), {})
  <1>1. CancelStreamIxs(id, i) = EnsureAtas(owners) \o <<ix>>
    BY DEF CancelStreamIxs
  <1>2. x.metadata = id
    BY DEF Merged, FeeAccounts
  <1> HIDE DEF x
  <1>3. ix.op = "cancel" /\ ix.accounts.metadata = id
    BY <1>2, CancelRead DEF Prepare
  <1>4. Ends(CancelStreamIxs(id, i), ix)
    <2>1. DOMAIN owners = 1..4
      OBVIOUS
    <2> HIDE DEF owners, ix
    <2> QED
      BY <1>1, <2>1, EndsWith, EnsureAtasPrepares
  <1> HIDE DEF ix, owners
  <1>5. PICK c : /\ Unchanged(c) /\ Allowed(c, ix, i)
                 /\ streams' = Changed(c, ix).streams /\ proxies' = Changed(c, ix).proxies
                 /\ now' = now
    BY <1>4, LandsLast
  <1>6. Changed(c, ix) = [c EXCEPT !.streams[id].canceledAt = now]
    BY <1>3 DEF Changed
  <1> QED
    BY <1>5, <1>6 DEF Unchanged, IsWorld

LEMMA CancelAlignedEffect ==
    ASSUME NEW id \in DOMAIN streams, NEW i, Land(CancelAlignedIxs(id, i), i)
    PROVE  /\ ContractPDA(id) \in DOMAIN proxies
           /\ streams' = [streams EXCEPT ![id] = [@ EXCEPT !.canceledAt = now]]
           /\ proxies' = [proxies EXCEPT ![ContractPDA(id)] = [@ EXCEPT !.streamCanceledTime = now]]
           /\ now' = now
  <1> DEFINE s == streams[id]
             given == [mint |-> s.mint, partner |-> s.partner, recipient |-> s.recipient,
                       escrowTokens |-> s.escrowTokens, sender |-> i, streamMetadata |-> id,
                       streamflowTreasury |-> Treasury]
             addr == Completed(AlignedCancelIx, given, <<>>, <<>>)
             owners == <<s.sender, s.recipient, s.partner, s.streamflowTreasury>>
             ix == [op |-> "cancelAligned", accounts |-> addr]
  <1>1. CancelAlignedIxs(id, i) = EnsureAtas(owners) \o <<ix>>
    BY DEF CancelAlignedIxs
  <1>2. /\ DOMAIN given = {"sender", "streamMetadata", "escrowTokens", "mint", "partner",
                           "recipient", "streamflowTreasury"}
        /\ given.streamMetadata = id
    OBVIOUS
  <1> HIDE DEF given
  <1>3. addr.streamMetadata = id /\ addr.proxyMetadata = ContractPDA(id)
    BY <1>2, AlignedCancelCompleted
  <1> HIDE DEF addr
  <1>4. ix.op = "cancelAligned" /\ ix.accounts = addr
    OBVIOUS
  <1>5. Ends(CancelAlignedIxs(id, i), ix)
    <2>1. DOMAIN owners = 1..4
      OBVIOUS
    <2> HIDE DEF owners, ix
    <2> QED
      BY <1>1, <2>1, EndsWith, EnsureAtasPrepares
  <1> HIDE DEF ix, owners
  <1>6. PICK c : /\ Unchanged(c) /\ Allowed(c, ix, i)
                 /\ streams' = Changed(c, ix).streams /\ proxies' = Changed(c, ix).proxies
                 /\ now' = now
    BY <1>5, LandsLast
  <1>7. Changed(c, ix) = [c EXCEPT !.streams[id].canceledAt = now,
                                   !.proxies[ContractPDA(id)].streamCanceledTime = now]
    BY <1>3, <1>4 DEF Changed
  <1>8. ContractPDA(id) \in DOMAIN c.proxies
    BY <1>3, <1>4, <1>6 DEF Allowed
  <1> QED
    BY <1>6, <1>7, <1>8 DEF Unchanged, IsWorld

LEMMA TransferEffect ==
    ASSUME NEW id \in DOMAIN streams, NEW r, NEW i, Land(TransferIxs(id, r, i), i)
    PROVE  /\ streams' = [streams EXCEPT ![id] =
                            [@ EXCEPT !.recipient = r, !.recipientTokens = Tokens(r)]]
           /\ proxies' = proxies /\ now' = now
  <1> DEFINE x == [authority |-> i, newRecipient |-> r, newRecipientTokens |-> Tokens(r),
                   metadata |-> id, mint |-> streams[id].mint]
             ix == Prepare("transfer", TransferNames, TransferKeys(x), {})
  <1>1. TransferIxs(id, r, i) = <<ix>>
    BY DEF TransferIxs
  <1>2. x.metadata = id /\ x.newRecipient = r /\ x.newRecipientTokens = Tokens(r)
    OBVIOUS
  <1> HIDE DEF x
  <1>3. /\ ix.op = "transfer" /\ ix.accounts.metadata = id
        /\ ix.accounts.newRecipient = r /\ ix.accounts.newRecipientTokens = Tokens(r)
    BY <1>2, TransferRead DEF Prepare
  <1> HIDE DEF ix
  <1>4. Ends(TransferIxs(id, r, i), ix)
    BY <1>1, EndsAlone
  <1>5. PICK c : /\ Unchanged(c) /\ Allowed(c, ix, i)
                 /\ streams' = Changed(c, ix).streams /\ proxies' = Changed(c, ix).proxies
                 /\ now' = now
    BY <1>4, LandsLast
  <1>6. Changed(c, ix) = [c EXCEPT !.streams[id].recipient = r,
                                   !.streams[id].recipientTokens = Tokens(r),
                                   !.tokens = @ \cup {Tokens(r)}]
    BY <1>3 DEF Changed
  <1>7. Changed(c, ix).streams = [[streams EXCEPT ![id] = [@ EXCEPT !.recipient = r]]
                                    EXCEPT ![id] = [@ EXCEPT !.recipientTokens = Tokens(r)]]
    BY <1>5, <1>6 DEF Unchanged, IsWorld
  <1>8. Changed(c, ix).proxies = proxies
    BY <1>5, <1>6 DEF Unchanged, IsWorld
  <1> QED
    BY <1>5, <1>7, <1>8

LEMMA TopupEffect ==
    ASSUME NEW id \in DOMAIN streams, NEW i, Land(TopupIxs(id, i, FALSE), i)
    PROVE  /\ streams[id].sender = i /\ streams[id].canceledAt = 0
           /\ now <= streams[id].end /\ streams[id].canTopup
           /\ streams' = [streams EXCEPT ![id] = WithDeposit(@, TopupAmount)]
           /\ proxies' = proxies /\ now' = now
  <1> DEFINE s == streams[id]
             x == Merged(FeeAccounts(s.partner),
                    [sender |-> i, senderTokens |-> s.senderTokens, metadata |-> id,
                     escrowTokens |-> s.escrowTokens])
             data == [amount |-> TopupAmount, spends |-> IF FALSE THEN TopupAmount ELSE 0]
             ix == Prepare("topup", TopupNames, TopupKeys(x), data)
  <1>1. TopupIxs(id, i, FALSE) = <<>> \o <<ix>>
    BY DEF TopupIxs, WrapIf
  <1>2. x.metadata = id /\ x.sender = i
    BY DEF Merged, FeeAccounts
  <1> HIDE DEF x
  <1>3. /\ ix.op = "topup" /\ ix.accounts.metadata = id /\ ix.accounts.sender = i
        /\ ix.data.amount = TopupAmount
    BY <1>2, TopupRead DEF Prepare
  <1> HIDE DEF ix
  <1>4. Ends(TopupIxs(id, i, FALSE), ix)
    <2>1. IsPreparing(<<>>)
      BY DEF IsPreparing
    <2> QED
      BY <1>1, <2>1, EndsWith
  <1>5. PICK c : /\ Unchanged(c) /\ Allowed(c, ix, i)
                 /\ streams' = Changed(c, ix).streams /\ proxies' = Changed(c, ix).proxies
                 /\ now' = now
    BY <1>4, LandsLast
  <1>6. Changed(c, ix) = [c EXCEPT !.streams[id] = WithDeposit(@, TopupAmount)]
    BY <1>3 DEF Changed
  <1>7. /\ Names(c, ix.accounts, ix.accounts.metadata,
                 {"sender", "senderTokens", "escrowTokens", "partner", "mint"})
        /\ c.streams[id].canTopup /\ now <= c.streams[id].end
    BY <1>3, <1>5 DEF Allowed
  <1>8. streams[id].sender = i /\ streams[id].canceledAt = 0
    BY <1>3, <1>5, <1>7 DEF Names, Unchanged
  <1> QED
    BY <1>5, <1>6, <1>7, <1>8 DEF Unchanged, IsWorld

LEMMA UpdateEffect ==
    ASSUME NEW id \in DOMAIN streams, NEW i, NEW automatic \in BOOLEAN, NEW rate \in Nat,
           Land(UpdateIxs(id, i, automatic, rate), i)
    PROVE  /\ streams[id].sender = i /\ streams[id].canceledAt = 0
           /\ rate > 0 => now \in streams[id].cliff..streams[id].end
           /\ streams' = [streams EXCEPT ![id] =
                            WithFlag(IF rate > 0 THEN WithRate(@, rate) ELSE @, automatic)]
           /\ proxies' = proxies /\ now' = now
  <1> DEFINE x == [authority |-> i, metadata |-> id, withdrawor |-> Withdrawor]
             data == [automatic |-> automatic, amountPerPeriod |-> rate]
             ix == Prepare("update", UpdateNames, UpdateKeys(x), data)
  <1>1. UpdateIxs(id, i, automatic, rate) = <<ix>>
    BY DEF UpdateIxs
  <1>2. x.metadata = id
    OBVIOUS
  <1> HIDE DEF x
  <1>3. /\ ix.op = "update" /\ ix.accounts.metadata = id
        /\ ix.data.amountPerPeriod = rate /\ ix.data.automatic = automatic
    BY <1>2, UpdateRead DEF Prepare
  <1> HIDE DEF ix
  <1>4. Ends(UpdateIxs(id, i, automatic, rate), ix)
    BY <1>1, EndsAlone
  <1>5. PICK c : /\ Unchanged(c) /\ Allowed(c, ix, i)
                 /\ streams' = Changed(c, ix).streams /\ proxies' = Changed(c, ix).proxies
                 /\ now' = now
    BY <1>4, LandsLast
  <1>6. Changed(c, ix) = [c EXCEPT !.streams[id] =
                            WithFlag(IF rate > 0 THEN WithRate(@, rate) ELSE @, automatic)]
    BY <1>3 DEF Changed
  <1>7. /\ Names(c, ix.accounts, ix.accounts.metadata, {})
        /\ c.streams[id].sender = i
        /\ rate > 0 => now \in c.streams[id].cliff..c.streams[id].end
    BY <1>3, <1>5 DEF Allowed
  <1>8. streams[id].canceledAt = 0
    BY <1>3, <1>5, <1>7 DEF Names, Unchanged
  <1> QED
    BY <1>5, <1>6, <1>7, <1>8 DEF Unchanged, IsWorld

(* The accounts of a new stream.                                           *)
CreatedWith(a, id, sender) ==
    /\ a.sender = sender /\ a.senderTokens = Tokens(sender)
    /\ a.mint = Mint /\ a.escrowTokens = EscrowPDA(id)

LEMMA CreateEffect ==
    ASSUME NEW id, NEW sender, NEW recipient, NEW partner, NEW shape,
           Land(CreateIxs(id, sender, recipient, partner, shape, FALSE), sender)
    PROVE  /\ \E a : /\ CreatedWith(a, id, sender)
                     /\ streams' = Stored(streams, id, NewStream(a, shape, recipient, partner))
           /\ proxies' = proxies /\ now' = now
  <1> DEFINE x == CreationAccounts(id, sender, recipient, partner)
             data == [shape |-> shape, spends |-> Spends(FALSE, shape.deposited)]
             atas == EnsureAtas(<<Treasury, partner>>)
             ix == Prepare("create", CreateNames, CreateKeys(x), data)
  <1>1. CreateIxs(id, sender, recipient, partner, shape, FALSE) = (atas \o <<ix>>) \o <<>>
    BY DEF CreateIxs, WrapIf
  <1>2. /\ x.metadata = id /\ CreatedWith(x, id, sender)
        /\ x.recipient = recipient /\ x.partner = partner
    BY DEF Merged, FeeAccounts, CreationAccounts, CreatedWith
  <1> HIDE DEF x
  <1>3. /\ ix.op = "create" /\ ix.accounts.metadata = id /\ CreatedWith(ix.accounts, id, sender)
        /\ ix.accounts.recipient = recipient /\ ix.accounts.partner = partner
        /\ ix.data.shape = shape
    BY <1>2, CreateRead DEF Prepare, CreatedWith
  <1>4. IsPreparing(atas)
    <2>1. DOMAIN <<Treasury, partner>> = 1..2
      OBVIOUS
    <2> QED
      BY <2>1, EnsureAtasPrepares
  <1> HIDE DEF ix, atas
  <1>5. (atas \o <<ix>>) \o <<>> = atas \o <<ix>>
    <2>1. PICK S : atas \in Seq(S)
      BY <1>4 DEF IsPreparing
    <2>2. atas \in Seq(S \cup {ix}) /\ <<ix>> \in Seq(S \cup {ix})
      BY <2>1, SeqMonotonic
    <2>3. atas \o <<ix>> \in Seq(S \cup {ix})
      BY <2>2, ConcatProperties
    <2> QED
      BY <2>3, ConcatEmptySeq
  <1>6. Ends(CreateIxs(id, sender, recipient, partner, shape, FALSE), ix)
    BY <1>1, <1>4, <1>5, EndsWith
  <1>7. PICK c : /\ Unchanged(c) /\ Allowed(c, ix, sender)
                 /\ streams' = Changed(c, ix).streams /\ proxies' = Changed(c, ix).proxies
                 /\ now' = now
    BY <1>6, LandsLast
  <1>8. PICK new : new = NewStream(ix.accounts, shape, recipient, partner)
    OBVIOUS
  <1>9. Changed(c, ix) = [c EXCEPT !.streams = Stored(@, id, new),
                                   !.tokens = @ \cup {ix.accounts.recipientTokens}]
    BY <1>3, <1>8 DEF Changed
  <1>10. streams' = Stored(streams, id, new) /\ proxies' = proxies
    BY <1>7, <1>9 DEF Unchanged, IsWorld
  <1> QED
    BY <1>3, <1>7, <1>8, <1>10

LEMMA CreateUncheckedEffect ==
    ASSUME NEW id, NEW sender, NEW recipient, NEW partner, NEW shape,
           Land(CreateUncheckedIxs(id, sender, recipient, partner, shape, FALSE), sender)
    PROVE  /\ \E a : /\ CreatedWith(a, id, sender)
                     /\ streams' = Stored(streams, id, NewStream(a, shape, recipient, partner))
           /\ proxies' = proxies /\ now' = now
  <1> DEFINE x == CreationAccounts(id, sender, recipient, partner)
             data == [shape |-> shape, spends |-> Spends(FALSE, shape.deposited),
                      recipient |-> recipient, partner |-> partner]
             allocate == [op |-> "createAccount", id |-> id]
             ix == Prepare("createUnchecked", CreateUncheckedNames, CreateUncheckedKeys(x), data)
  <1>1. CreateUncheckedIxs(id, sender, recipient, partner, shape, FALSE) = <<>> \o <<allocate, ix>>
    BY DEF CreateUncheckedIxs, WrapIf
  <1>2. x.metadata = id /\ CreatedWith(x, id, sender)
    BY DEF Merged, FeeAccounts, CreationAccounts, CreatedWith
  <1> HIDE DEF x
  <1>3. /\ ix.op = "createUnchecked" /\ ix.accounts.metadata = id
        /\ CreatedWith(ix.accounts, id, sender)
        /\ ix.data.recipient = recipient /\ ix.data.partner = partner /\ ix.data.shape = shape
    BY <1>2, CreateUncheckedRead DEF Prepare, CreatedWith
  <1>4. allocate.op \in Preparing
    BY DEF Preparing
  <1> HIDE DEF ix, allocate, data
  <1>5. IsPreparing(<<allocate>>)
    BY <1>4, PreparingAlone
  <1>6. <<>> \o <<allocate, ix>> = <<allocate>> \o <<ix>>
    <2>1. <<allocate, ix>> \in Seq({allocate, ix})
      OBVIOUS
    <2> QED
      BY <2>1, ConcatEmptySeq, PrefixedOne
  <1>7. Ends(CreateUncheckedIxs(id, sender, recipient, partner, shape, FALSE), ix)
    BY <1>1, <1>5, <1>6, EndsWith
  <1>8. PICK c : /\ Unchanged(c) /\ Allowed(c, ix, sender)
                 /\ streams' = Changed(c, ix).streams /\ proxies' = Changed(c, ix).proxies
                 /\ now' = now
    BY <1>7, LandsLast
  <1>9. PICK new : new = NewStream(ix.accounts, shape, recipient, partner)
    OBVIOUS
  <1>10. Changed(c, ix) = [c EXCEPT !.streams = Stored(@, id, new)]
    BY <1>3, <1>9 DEF Changed
  <1>11. streams' = Stored(streams, id, new) /\ proxies' = proxies
    BY <1>8, <1>10 DEF Unchanged, IsWorld
  <1> QED
    BY <1>3, <1>8, <1>9, <1>11

LEMMA CreateAlignedEffect ==
    ASSUME NEW id, NEW sender, NEW recipient, NEW partner, NEW shape, NEW prices,
           Land(CreateAlignedIxs(id, sender, recipient, partner, shape, prices), sender)
    PROVE  \E a, b :
             /\ CreatedWith(a, id, ContractPDA(id))
             /\ streams' = Stored(streams, id, [NewStream(a, shape, recipient, partner)
                                                  EXCEPT !.end = MaxSafeTime + 1])
             /\ b.sender = sender /\ b.streamMetadata = id
             /\ proxies' = Stored(proxies, ContractPDA(id), NewProxy(b, prices))
             /\ now' = now
  <1> DEFINE given == [payer |-> sender, sender |-> sender, streamMetadata |-> id,
                       escrowTokens |-> EscrowPDA(id), mint |-> Mint, partner |-> partner,
                       recipient |-> recipient, withdrawor |-> Withdrawor,
                       feeOracle |-> <<"fee oracle">>, priceOracle |-> TestOraclePDA(Mint, sender)]
             addr == Completed(AlignedCreateIx, given, <<>>, <<>>)
             first == EnsureAtas(<<Treasury, partner>>)
             second == EnsureAtas(<<recipient>>)
             ix == [op |-> "createAligned", data |-> [shape |-> shape, prices |-> prices],
                    accounts |-> addr]
  <1>1. CreateAlignedIxs(id, sender, recipient, partner, shape, prices) = (first \o second) \o <<ix>>
    BY DEF CreateAlignedIxs
  <1>2. /\ DOMAIN given = {"payer", "sender", "streamMetadata", "escrowTokens", "mint", "partner",
                           "recipient", "withdrawor", "feeOracle", "priceOracle"}
        /\ given.sender = sender /\ given.streamMetadata = id /\ given.partner = partner
        /\ given.recipient = recipient /\ given.mint = Mint /\ given.escrowTokens = EscrowPDA(id)
    OBVIOUS
  <1> HIDE DEF given
  <1>3. /\ addr = [name \in DOMAIN AlignedCreateIx |-> addr[name]]
        /\ addr.sender = sender /\ addr.streamMetadata = id /\ addr.partner = partner
        /\ addr.recipient = recipient /\ addr.mint = Mint /\ addr.escrowTokens = EscrowPDA(id)
        /\ addr.proxyMetadata = ContractPDA(id)
        /\ addr.proxyTokens = Tokens(ContractPDA(id))
    BY <1>2, AlignedCreateCompleted DEF Tokens
  <1> HIDE DEF addr
  <1>4. /\ ix.op = "createAligned" /\ ix.accounts = addr
        /\ ix.data.shape = shape /\ ix.data.prices = prices
    OBVIOUS
  <1> HIDE DEF ix
  <1>5. IsPreparing(first) /\ IsPreparing(second)
    <2>1. DOMAIN <<Treasury, partner>> = 1..2 /\ DOMAIN <<recipient>> = 1..1
      OBVIOUS
    <2> QED
      BY <2>1, EnsureAtasPrepares
  <1> HIDE DEF first, second
  <1>6. Ends(CreateAlignedIxs(id, sender, recipient, partner, shape, prices), ix)
    BY <1>1, <1>5, PreparingConcat, EndsWith
  <1>7. PICK c : /\ Unchanged(c) /\ Allowed(c, ix, sender)
                 /\ streams' = Changed(c, ix).streams /\ proxies' = Changed(c, ix).proxies
                 /\ now' = now
    BY <1>6, LandsLast
  <1>8. PICK a : a = [addr EXCEPT !.sender = addr.proxyMetadata, !.senderTokens = addr.proxyTokens]
    OBVIOUS
  <1>9. CreatedWith(a, id, ContractPDA(id))
    <2>1. {"sender", "senderTokens", "mint", "escrowTokens"} \subseteq DOMAIN AlignedCreateIx
      BY DEF AlignedCreateIx
    <2>2. /\ a["sender"] = addr["proxyMetadata"] /\ a["senderTokens"] = addr["proxyTokens"]
          /\ a["mint"] = addr["mint"] /\ a["escrowTokens"] = addr["escrowTokens"]
      BY <1>3, <1>8, <2>1
    <2> QED
      BY <1>3, <2>2 DEF CreatedWith
  <1>10. PICK new : new = [NewStream(a, shape, recipient, partner) EXCEPT !.end = MaxSafeTime + 1]
    OBVIOUS
  <1>11. PICK proxy : proxy = NewProxy(addr, prices)
    OBVIOUS
  <1>12. Changed(c, ix) = [c EXCEPT !.streams = Stored(@, id, new),
                                    !.proxies = Stored(@, ContractPDA(id), proxy),
                                    !.tokens = @ \cup {addr.proxyTokens}]
    BY <1>3, <1>4, <1>8, <1>10, <1>11 DEF Changed
  <1>13. streams' = Stored(streams, id, new) /\ proxies' = Stored(proxies, ContractPDA(id), proxy)
    BY <1>7, <1>12 DEF Unchanged, IsWorld
  <1> QED
    BY <1>3, <1>7, <1>9, <1>10, <1>11, <1>13


-----------------------------------------------------------------------------
(* Periods.                                                                *)
InPeriod(since, t, period, n) == n \in Nat /\ n = (t - since) \div period

InNextPeriod(since, u, period, n) ==
    /\ u = since + (n + 1) * period => (u - since) \div period = n + 1
    /\ u # since + (n + 1) * period => (u - since) \div period = n

LEMMA NextPeriod ==
    ASSUME NEW since \in Nat, NEW t \in Nat, since <= t, NEW period \in Nat \ {0},
           NEW n, InPeriod(since, t, period, n), NEW u, u = t + 1
    PROVE  InNextPeriod(since, u, period, n)
  <1> DEFINE x == t - since
  <1>1. x \in Nat /\ u - since = x + 1 /\ n = x \div period
    BY DEF InPeriod
  <1> HIDE DEF x
  <1>2. n \in Nat /\ n * period <= x /\ x < n * period + period
    BY <1>1, FloorOf
  <1>3. (n + 1) * period = n * period + period
    BY <1>2
  <1>4. ASSUME u = since + (n + 1) * period PROVE (u - since) \div period = n + 1
    <2>1. u - since = (n + 1) * period /\ n + 1 \in Nat
      BY <1>2, <1>4
    <2> QED
      BY <2>1, FloorOfMultiple
  <1>5. ASSUME u # since + (n + 1) * period PROVE (u - since) \div period = n
    <2>1. x + 1 # n * period + period
      BY <1>1, <1>2, <1>3, <1>5
    <2> DEFINE m == (x + 1) \div period
               a == n * period
    <2>2. m \in Nat /\ m * period <= x + 1 /\ x + 1 < m * period + period
      BY <1>1, FloorOf
    <2> HIDE DEF m
    <2>3. x + 1 < (n + 1) * period /\ n * period <= x + 1
      <3>1. a \in Nat /\ a <= x /\ x < a + period /\ x + 1 # a + period
        BY <1>2, <2>1
      <3> HIDE DEF a
      <3>2. x + 1 < a + period /\ a <= x + 1
        BY <1>1, <3>1
      <3> QED
        BY <1>3, <3>2 DEF a
    <2>4. m * period < (n + 1) * period /\ n * period < (m + 1) * period
      <3>1. (m + 1) * period = m * period + period /\ m * period \in Nat
        BY <2>2
      <3>2. n * period \in Nat /\ (n + 1) * period \in Nat
        BY <1>2
      <3> QED
        BY <1>1, <2>2, <2>3, <3>1, <3>2
    <2>5. m < n + 1 /\ n < m + 1
      BY <1>2, <2>2, <2>4
    <2> QED
      BY <1>1, <1>2, <2>2, <2>5 DEF m
  <1> QED
    BY <1>4, <1>5 DEF InNextPeriod

LEMMA EndGrows ==
    ASSUME NEW since \in Nat, NEW saved \in Nat, NEW less \in Nat, NEW more \in Nat,
           saved <= less, less <= more, NEW rate \in Nat \ {0}, NEW period \in Nat \ {0}
    PROVE  /\ EndOf(since, saved, less, rate, period) \in Nat
           /\ since <= EndOf(since, saved, less, rate, period)
           /\ EndOf(since, saved, less, rate, period) <= EndOf(since, saved, more, rate, period)
  <1> DEFINE x == less - saved + rate - 1
             y == more - saved + rate - 1
             p == x \div rate
             q == y \div rate
  <1>1. x \in Nat /\ y \in Nat /\ x <= y
    OBVIOUS
  <1> HIDE DEF x, y
  <1>2. p \in Nat /\ q \in Nat /\ p <= q
    BY <1>1, FloorOf, FloorMonotone
  <1> HIDE DEF p, q
  <1>3. p * period \in Nat /\ p * period <= q * period /\ q * period \in Nat
    BY <1>2
  <1>4. /\ EndOf(since, saved, less, rate, period) = since + p * period
        /\ EndOf(since, saved, more, rate, period) = since + q * period
    BY DEF EndOf, p, q, x, y
  <1> QED
    BY <1>3, <1>4

-----------------------------------------------------------------------------
(* What is always true of a stream at a time.                              *)
StreamFields ==
    {"cliff", "cliffAmount", "deposited", "amountPerPeriod", "period", "canTopup",
     "automaticWithdrawal", "canUpdateRate", "cancelableBySender", "cancelableByRecipient",
     "transferableBySender", "transferableByRecipient", "sender", "senderTokens", "recipient",
     "recipientTokens", "mint", "escrowTokens", "streamflowTreasury", "partner", "end",
     "canceledAt", "withdrawn", "lastRateChangeTime", "fundsUnlockedAtLastRateChange",
     "accrued", "nextUnlock"}

Parties(id, s) ==
    /\ s.escrowTokens = EscrowPDA(id)
    /\ s.senderTokens = Tokens(s.sender) /\ s.recipientTokens = Tokens(s.recipient)
    /\ s.sender \in Senders \cup {ContractPDA(id)}
    /\ s.recipient \in Recipients /\ s.partner \in Partners
    /\ s.mint = Mint /\ s.streamflowTreasury = Treasury

Amounts(s) ==
    /\ s.cliff \in Nat /\ s.deposited \in 0..MaxDeposit /\ s.cliffAmount \in 0..s.deposited
    /\ s.amountPerPeriod \in Nat \ {0} /\ s.period \in Nat \ {0}
    /\ s.accrued \in Nat /\ s.nextUnlock \in Nat /\ s.end \in Nat
    /\ s.withdrawn \in 0..s.deposited /\ s.canceledAt \in 0..MaxTime
    /\ s.lastRateChangeTime \in 0..MaxTime
    /\ s.fundsUnlockedAtLastRateChange \in 0..s.deposited

(* When the present rate began, and what was unlocked then.                *)
SinceOf(s) == IF s.lastRateChangeTime = 0 THEN s.cliff ELSE s.lastRateChangeTime
SavedOf(s) ==
    IF s.lastRateChangeTime = 0 THEN s.cliffAmount ELSE s.fundsUnlockedAtLastRateChange

Periods(s, t) == (t - SinceOf(s)) \div s.period

(* The program has counted every period that has passed.                   *)
Counted(s, t) ==
    /\ s.cliff <= SinceOf(s)
    /\ s.cliff <= s.end \/ MaxTime < s.end
    /\ t < s.cliff => s.lastRateChangeTime = 0 /\ s.accrued = 0
    /\ s.cliff <= t /\ t <= s.end =>
         /\ SinceOf(s) <= t
         /\ s.accrued = Periods(s, t) * s.amountPerPeriod + SavedOf(s)
         /\ s.nextUnlock = SinceOf(s) + (Periods(s, t) + 1) * s.period
    /\ t > s.end => s.accrued = s.deposited

Ending(id, s) ==
    s.end = IF IsAlignedUnlock(id, s.sender) THEN MaxSafeTime + 1
            ELSE EndOf(SinceOf(s), SavedOf(s), s.deposited, s.amountPerPeriod, s.period)

IsStream(id, s, t) ==
    DOMAIN s = StreamFields /\ Parties(id, s) /\ Amounts(s) /\ Counted(s, t) /\ Ending(id, s)

LEMMA SinceAndSaved ==
    ASSUME NEW s, Amounts(s)
    PROVE  SinceOf(s) \in Nat /\ SavedOf(s) \in 0..s.deposited /\ s.deposited \in Nat
  BY StreamsAssumption, ChainAssumption DEF Amounts, SinceOf, SavedOf

(* What the client shows is what the program has counted.                  *)
LEMMA CountedIsUnlocked ==
    ASSUME NEW s, NEW t \in Nat, t <= MaxTime, Amounts(s), Counted(s, t)
    PROVE  Unlocked(s, t) = Least(s.accrued, s.deposited)
  <1> USE SinceAndSaved DEF Amounts
  <1>1. CASE t < s.cliff
    <2>1. Unlocked(s, t) = 0 /\ s.accrued = 0
      BY <1>1 DEF Unlocked, Counted
    <2> QED
      BY <2>1 DEF Least
  <1>2. CASE t >= s.cliff /\ t > EndTime(s.end)
    <2>1. Unlocked(s, t) = s.deposited
      BY <1>2 DEF Unlocked
    <2>2. t > s.end
      BY <1>2, StreamsAssumption, ScheduleAssumption, ChainAssumption DEF EndTime
    <2>3. s.accrued = s.deposited
      BY <2>2 DEF Counted
    <2> QED
      BY <2>1, <2>3 DEF Least
  <1>3. CASE t >= s.cliff /\ ~(t > EndTime(s.end))
    <2>1. t <= s.end
      BY <1>3, ScheduleAssumption DEF EndTime
    <2>2. s.accrued = Periods(s, t) * s.amountPerPeriod + SavedOf(s)
      BY <1>3, <2>1 DEF Counted
    <2>3. Unlocked(s, t) = Least(Periods(s, t) * s.amountPerPeriod + SavedOf(s), s.deposited)
      BY <1>3 DEF Unlocked, Periods, SinceOf, SavedOf
    <2> QED
      BY <2>2, <2>3
  <1> QED
    BY <1>1, <1>2, <1>3


-----------------------------------------------------------------------------
(* A new stream, and how each operation changes one.                       *)
IsNew(a, shape, recipient, partner, s) ==
    /\ DOMAIN s = StreamFields
    /\ \A f \in {"cliff", "cliffAmount", "deposited", "amountPerPeriod", "period"} :
         s[f] = shape[f]
    /\ s.sender = a.sender /\ s.senderTokens = a.senderTokens
    /\ s.recipient = recipient /\ s.recipientTokens = Tokens(recipient)
    /\ s.escrowTokens = a.escrowTokens /\ s.partner = partner
    /\ s.mint = a.mint /\ s.streamflowTreasury = Treasury
    /\ s.end = EndOf(s.cliff, s.cliffAmount, s.deposited, s.amountPerPeriod, s.period)
    /\ s.canceledAt = 0 /\ s.withdrawn = 0 /\ s.lastRateChangeTime = 0
    /\ s.fundsUnlockedAtLastRateChange = 0
    /\ s.accrued = IF now >= s.cliff THEN s.cliffAmount ELSE 0
    /\ s.nextUnlock = s.cliff + IF now >= s.cliff THEN s.period ELSE 0

LEMMA NewFields ==
    ASSUME NEW a, NEW shape \in Shapes, NEW recipient, NEW partner,
           NEW s, s = NewStream(a, shape, recipient, partner)
    PROVE  IsNew(a, shape, recipient, partner, s)
  <1> DEFINE G == [sender |-> a.sender, senderTokens |-> a.senderTokens,
               recipient |-> recipient, recipientTokens |-> Tokens(recipient),
               mint |-> a.mint, escrowTokens |-> a.escrowTokens,
               streamflowTreasury |-> Treasury, partner |-> partner,
               end |-> EndOf(shape.cliff, shape.cliffAmount, shape.deposited,
                             shape.amountPerPeriod, shape.period),
               canceledAt |-> 0, withdrawn |-> 0,
               lastRateChangeTime |-> 0, fundsUnlockedAtLastRateChange |-> 0,
               accrued |-> IF now >= shape.cliff THEN shape.cliffAmount ELSE 0,
               nextUnlock |-> shape.cliff + IF now >= shape.cliff THEN shape.period ELSE 0]
  <1>1. PICK g : g = G
    OBVIOUS
  <1>2. s = Merged(shape, g)
    BY <1>1 DEF NewStream
  <1>3. DOMAIN shape = {"cliff", "cliffAmount", "deposited", "amountPerPeriod", "period",
          "canTopup", "automaticWithdrawal", "canUpdateRate", "cancelableBySender",
          "cancelableByRecipient", "transferableBySender", "transferableByRecipient"}
    BY StreamsAssumption
  <1>4. DOMAIN g = {"sender", "senderTokens", "recipient", "recipientTokens", "mint",
          "escrowTokens", "streamflowTreasury", "partner", "end", "canceledAt", "withdrawn",
          "lastRateChangeTime", "fundsUnlockedAtLastRateChange", "accrued", "nextUnlock"}
    BY <1>1
  <1>5. DOMAIN s = DOMAIN shape \cup DOMAIN g
    BY <1>2 DEF Merged
  <1>6. DOMAIN s = StreamFields
    BY <1>3, <1>4, <1>5 DEF StreamFields
  <1>7. \A f \in DOMAIN shape : s[f] = shape[f]
    BY <1>2 DEF Merged
  <1>8. \A f \in DOMAIN g : f \notin DOMAIN shape => s[f] = g[f]
    BY <1>2 DEF Merged
  <1>9. \A f \in DOMAIN g : s[f] = g[f]
    BY <1>3, <1>4, <1>8
  <1>10. \A f \in {"cliff", "cliffAmount", "deposited", "amountPerPeriod", "period"} :
           s[f] = shape[f]
    BY <1>3, <1>7
  <1>11. /\ s.sender = a.sender /\ s.senderTokens = a.senderTokens
         /\ s.recipient = recipient /\ s.recipientTokens = Tokens(recipient)
         /\ s.escrowTokens = a.escrowTokens /\ s.partner = partner
         /\ s.mint = a.mint /\ s.streamflowTreasury = Treasury
         /\ s.canceledAt = 0 /\ s.withdrawn = 0 /\ s.lastRateChangeTime = 0
         /\ s.fundsUnlockedAtLastRateChange = 0
    BY <1>1, <1>4, <1>9
  <1>12. s.end = EndOf(s.cliff, s.cliffAmount, s.deposited, s.amountPerPeriod, s.period)
    BY <1>1, <1>4, <1>9, <1>10
  <1>13. /\ s.accrued = IF now >= s.cliff THEN s.cliffAmount ELSE 0
         /\ s.nextUnlock = s.cliff + IF now >= s.cliff THEN s.period ELSE 0
    BY <1>1, <1>4, <1>9, <1>10
  <1> QED
    BY <1>6, <1>10, <1>11, <1>12, <1>13 DEF IsNew

LEMMA NewIsCounted ==
    ASSUME now \in 1..MaxTime, NEW a, NEW shape \in FutureShapes, NEW recipient, NEW partner,
           NEW s, s = NewStream(a, shape, recipient, partner)
    PROVE  Amounts(s) /\ Counted(s, now) /\ SinceOf(s) = s.cliff /\ SavedOf(s) = s.cliffAmount
  <1>1. shape \in Shapes /\ now <= shape.cliff
    BY DEF FutureShapes
  <1> IsNew(a, shape, recipient, partner, s)
    BY <1>1, NewFields
  <1>2. /\ s.cliff \in Nat /\ s.cliffAmount \in Nat /\ s.deposited \in 0..MaxDeposit
        /\ s.amountPerPeriod \in Nat \ {0} /\ s.period \in Nat \ {0}
        /\ s.cliffAmount <= s.deposited /\ now <= s.cliff
    BY <1>1, StreamsAssumption DEF IsNew
  <1>3. /\ s.canceledAt = 0 /\ s.withdrawn = 0 /\ s.lastRateChangeTime = 0
        /\ s.fundsUnlockedAtLastRateChange = 0
        /\ s.accrued = IF now >= s.cliff THEN s.cliffAmount ELSE 0
        /\ s.nextUnlock = s.cliff + IF now >= s.cliff THEN s.period ELSE 0
        /\ s.end = EndOf(s.cliff, s.cliffAmount, s.deposited, s.amountPerPeriod, s.period)
    BY DEF IsNew
  <1>4. s.end \in Nat /\ s.cliff <= s.end
    <2>1. s.deposited \in Nat
      BY <1>2, StreamsAssumption
    <2>2. s.deposited <= s.deposited
      BY <2>1
    <2> DEFINE e == EndOf(s.cliff, s.cliffAmount, s.deposited, s.amountPerPeriod, s.period)
    <2>3. e \in Nat /\ s.cliff <= e
      BY <1>2, <2>1, <2>2, EndGrows
    <2> QED
      BY <1>3, <2>3
  <1>5. Amounts(s)
    BY <1>2, <1>3, <1>4, StreamsAssumption, ChainAssumption DEF Amounts
  <1>6. SinceOf(s) = s.cliff /\ SavedOf(s) = s.cliffAmount
    BY <1>3 DEF SinceOf, SavedOf
  <1>7. ASSUME s.cliff <= now
        PROVE  /\ s.accrued = Periods(s, now) * s.amountPerPeriod + SavedOf(s)
               /\ s.nextUnlock = SinceOf(s) + (Periods(s, now) + 1) * s.period
    <2>1. now = s.cliff
      BY <1>2, <1>7
    <2>2. now - s.cliff = 0 * s.period
      BY <1>2, <2>1
    <2>3. Periods(s, now) = 0
      BY <1>2, <1>6, <2>2, FloorOfMultiple DEF Periods
    <2> QED
      BY <1>2, <1>3, <1>6, <2>1, <2>3
  <1>8. Counted(s, now)
    BY <1>2, <1>3, <1>4, <1>6, <1>7 DEF Counted
  <1> QED
    BY <1>5, <1>6, <1>8

LEMMA NewIsStream ==
    ASSUME now \in 1..MaxTime, NEW id \in Ids, NEW sender \in Senders, NEW a,
           CreatedWith(a, id, sender), NEW shape \in FutureShapes,
           NEW recipient \in Recipients, NEW partner \in Partners,
           NEW s, s = NewStream(a, shape, recipient, partner)
    PROVE  IsStream(id, s, now) /\ s.sender = sender
  <1>1. shape \in Shapes
    BY DEF FutureShapes
  <1>2. DOMAIN s = StreamFields /\ Amounts(s) /\ Counted(s, now)
    BY <1>1, NewFields, NewIsCounted DEF IsNew
  <1>3. Parties(id, s) /\ s.sender = sender
    BY <1>1, NewFields DEF IsNew, Parties, CreatedWith
  <1>4. Ending(id, s)
    <2>1. s.sender # ContractPDA(id)
      BY <1>3, StreamsAssumption
    <2>2. s.end = EndOf(s.cliff, s.cliffAmount, s.deposited, s.amountPerPeriod, s.period)
      <3>1. IsNew(a, shape, recipient, partner, s)
        BY <1>1, NewFields
      <3> QED
        BY <3>1 DEF IsNew
    <2> QED
      BY <2>1, <2>2, NewIsCounted DEF Ending, IsAlignedUnlock
  <1> QED
    BY <1>2, <1>3, <1>4 DEF IsStream

LEMMA NewAlignedIsStream ==
    ASSUME now \in 1..MaxTime, NEW id \in Ids, NEW a, CreatedWith(a, id, ContractPDA(id)),
           NEW shape \in FutureShapes, NEW recipient \in Recipients, NEW partner \in Partners,
           NEW s, s = [NewStream(a, shape, recipient, partner) EXCEPT !.end = MaxSafeTime + 1]
    PROVE  IsStream(id, s, now) /\ s.sender = ContractPDA(id)
  <1>1. shape \in Shapes
    BY DEF FutureShapes
  <1>2. PICK r : r = NewStream(a, shape, recipient, partner)
    OBVIOUS
  <1>3. DOMAIN r = StreamFields /\ Amounts(r) /\ Counted(r, now)
    BY <1>1, <1>2, NewFields, NewIsCounted DEF IsNew
  <1>4. s = [r EXCEPT !.end = MaxSafeTime + 1]
    BY <1>2
  <1>5. DOMAIN s = StreamFields /\ s.end = MaxSafeTime + 1 /\ \A f \in StreamFields \ {"end"} : s[f] = r[f]
    BY <1>3, <1>4 DEF StreamFields
  <1>6. Parties(id, r) /\ r.sender = ContractPDA(id)
    BY <1>1, <1>2, NewFields DEF IsNew, Parties, CreatedWith
  <1>7. Parties(id, s) /\ s.sender = ContractPDA(id)
    BY <1>5, <1>6 DEF Parties, StreamFields
  <1>8. Amounts(s)
    BY <1>3, <1>5, ScheduleAssumption DEF Amounts, StreamFields
  <1>9. /\ SinceOf(s) = SinceOf(r) /\ SavedOf(s) = SavedOf(r) /\ Periods(s, now) = Periods(r, now)
        /\ s.accrued = r.accrued /\ s.nextUnlock = r.nextUnlock
    BY <1>5 DEF SinceOf, SavedOf, Periods, StreamFields
  <1>10. /\ s.cliff = r.cliff /\ s.period = r.period /\ s.amountPerPeriod = r.amountPerPeriod
         /\ s.lastRateChangeTime = r.lastRateChangeTime
    BY <1>5 DEF StreamFields
  <1>11. Counted(s, now)
    <2>1. now <= r.cliff /\ SinceOf(r) = r.cliff
      <3>1. r.cliff = shape.cliff
        <4>1. IsNew(a, shape, recipient, partner, r)
          BY <1>1, <1>2, NewFields
        <4> QED
          BY <4>1 DEF IsNew
      <3> QED
        BY <1>2, <3>1, NewIsCounted DEF FutureShapes
    <2>2. now <= s.end /\ r.cliff \in Nat
      BY <1>3, <1>5, StreamsAssumption, ScheduleAssumption, ChainAssumption DEF Amounts
    <2>3. MaxTime < s.end
      BY <1>5, StreamsAssumption, ScheduleAssumption, ChainAssumption
    <2>4. now <= r.end /\ r.end \in Nat /\ s.end \in Nat
      BY <1>2, <1>3, <1>5, <2>1, <2>2, ScheduleAssumption, ChainAssumption DEF Amounts, Counted
    <2> QED
      BY <1>3, <1>5, <1>9, <1>10, <2>1, <2>2, <2>3, <2>4 DEF Counted
  <1>12. Ending(id, s)
    BY <1>5, <1>7 DEF Ending, IsAlignedUnlock
  <1> QED
    BY <1>5, <1>7, <1>8, <1>11, <1>12 DEF IsStream


(* What is not counted.                                                    *)
Uncounted == {"recipient", "recipientTokens", "withdrawn", "canceledAt", "automaticWithdrawal"}

LEMMA UncountedChange ==
    ASSUME NEW id, NEW t, NEW s, IsStream(id, s, t), NEW d, DOMAIN d = StreamFields,
           \A f \in StreamFields \ Uncounted : d[f] = s[f],
           d.recipient \in Recipients, d.recipientTokens = Tokens(d.recipient),
           d.withdrawn \in 0..s.deposited, d.canceledAt \in 0..MaxTime
    PROVE  IsStream(id, d, t) /\ d.sender = s.sender
  <1>1. /\ d.cliff = s.cliff /\ d.cliffAmount = s.cliffAmount /\ d.deposited = s.deposited
        /\ d.amountPerPeriod = s.amountPerPeriod /\ d.period = s.period
        /\ d.end = s.end /\ d.lastRateChangeTime = s.lastRateChangeTime
        /\ d.fundsUnlockedAtLastRateChange = s.fundsUnlockedAtLastRateChange
        /\ d.accrued = s.accrued /\ d.nextUnlock = s.nextUnlock
    BY DEF StreamFields, Uncounted
  <1>2. /\ d.escrowTokens = s.escrowTokens /\ d.sender = s.sender
        /\ d.senderTokens = s.senderTokens /\ d.partner = s.partner
        /\ d.mint = s.mint /\ d.streamflowTreasury = s.streamflowTreasury
    BY DEF StreamFields, Uncounted
  <1>3. Parties(id, d)
    BY <1>2 DEF IsStream, Parties
  <1>4. Amounts(d)
    BY <1>1 DEF IsStream, Amounts
  <1>5. SinceOf(d) = SinceOf(s) /\ SavedOf(d) = SavedOf(s) /\ Periods(d, t) = Periods(s, t)
    BY <1>1 DEF SinceOf, SavedOf, Periods
  <1>6. Counted(d, t)
    BY <1>1, <1>5 DEF IsStream, Counted
  <1>7. Ending(id, d)
    BY <1>1, <1>2, <1>5 DEF IsStream, Ending
  <1> QED
    BY <1>2, <1>3, <1>4, <1>6, <1>7 DEF IsStream

LEMMA DepositIsStream ==
    ASSUME NEW id, now \in 1..MaxTime, NEW s, IsStream(id, s, now),
           s.sender # ContractPDA(id), now <= s.end, s.deposited + TopupAmount <= MaxDeposit,
           NEW d, d = WithDeposit(s, TopupAmount)
    PROVE  IsStream(id, d, now) /\ d.sender = s.sender
  <1>1. d = [s EXCEPT !.deposited = s.deposited + TopupAmount,
                      !.end = EndOf(SinceOf(s), SavedOf(s), s.deposited + TopupAmount,
                                    s.amountPerPeriod, s.period)]
    BY DEF WithDeposit, SinceOf, SavedOf
  <1>2. /\ DOMAIN d = StreamFields
        /\ \A f \in StreamFields \ {"deposited", "end"} : d[f] = s[f]
        /\ d.deposited = s.deposited + TopupAmount
        /\ d.end = EndOf(SinceOf(s), SavedOf(s), d.deposited, s.amountPerPeriod, s.period)
    BY <1>1 DEF IsStream, StreamFields
  <1>3. /\ d.cliff = s.cliff /\ d.cliffAmount = s.cliffAmount
        /\ d.amountPerPeriod = s.amountPerPeriod /\ d.period = s.period
        /\ d.lastRateChangeTime = s.lastRateChangeTime
        /\ d.fundsUnlockedAtLastRateChange = s.fundsUnlockedAtLastRateChange
        /\ d.accrued = s.accrued /\ d.nextUnlock = s.nextUnlock
        /\ d.withdrawn = s.withdrawn /\ d.canceledAt = s.canceledAt
    BY <1>2 DEF StreamFields
  <1>4. /\ d.escrowTokens = s.escrowTokens /\ d.sender = s.sender
        /\ d.senderTokens = s.senderTokens /\ d.partner = s.partner
        /\ d.recipient = s.recipient /\ d.recipientTokens = s.recipientTokens
        /\ d.mint = s.mint /\ d.streamflowTreasury = s.streamflowTreasury
    BY <1>2 DEF StreamFields
  <1>5. Parties(id, d)
    BY <1>4 DEF IsStream, Parties
  <1>6. SinceOf(d) = SinceOf(s) /\ SavedOf(d) = SavedOf(s) /\ Periods(d, now) = Periods(s, now)
    BY <1>3 DEF SinceOf, SavedOf, Periods
  <1>7. Ending(id, d)
    BY <1>2, <1>3, <1>4, <1>6 DEF Ending, IsAlignedUnlock
  <1>8. SinceOf(s) \in Nat /\ SavedOf(s) \in Nat /\ SavedOf(s) <= s.deposited /\ s.deposited \in Nat
    BY SinceAndSaved DEF IsStream
  <1>9. /\ d.deposited \in 0..MaxDeposit /\ d.deposited \in Nat /\ s.deposited <= d.deposited
        /\ s.amountPerPeriod \in Nat \ {0} /\ s.period \in Nat \ {0}
    BY <1>2, <1>8, StreamsAssumption DEF IsStream, Amounts
  <1>10. s.end = EndOf(SinceOf(s), SavedOf(s), s.deposited, s.amountPerPeriod, s.period)
    BY DEF IsStream, Ending, IsAlignedUnlock
  <1>11. s.end \in Nat /\ s.end <= d.end
    <2> DEFINE p == EndOf(SinceOf(s), SavedOf(s), s.deposited, s.amountPerPeriod, s.period)
               q == EndOf(SinceOf(s), SavedOf(s), d.deposited, s.amountPerPeriod, s.period)
    <2>1. p \in Nat /\ p <= q
      BY <1>8, <1>9, EndGrows
    <2> QED
      BY <1>2, <1>10, <2>1
  <1>12. d.end \in Nat
    <2>1. d.deposited <= d.deposited /\ SavedOf(s) <= d.deposited
      BY <1>8, <1>9
    <2> DEFINE q == EndOf(SinceOf(s), SavedOf(s), d.deposited, s.amountPerPeriod, s.period)
    <2>2. q \in Nat
      BY <1>8, <1>9, <2>1, EndGrows
    <2> QED
      BY <1>2, <2>2
  <1>13. Amounts(d)
    BY <1>3, <1>8, <1>9, <1>12, StreamsAssumption DEF IsStream, Amounts
  <1>14. Counted(d, now)
    <2>1. now <= d.end /\ s.cliff \in Nat
      BY <1>11, <1>12, ChainAssumption DEF IsStream, Amounts
    <2>2. d.cliff <= d.end \/ MaxTime < d.end
      BY <1>3, <1>11, <1>12, <2>1, ChainAssumption DEF IsStream, Counted
    <2> QED
      BY <1>3, <1>6, <1>11, <1>12, <2>1, <2>2 DEF IsStream, Counted
  <1> QED
    BY <1>2, <1>4, <1>5, <1>7, <1>13, <1>14 DEF IsStream

LEMMA RateIsCounted ==
    ASSUME NEW id, now \in 1..MaxTime, NEW s, IsStream(id, s, now), s.cliff <= now,
           NEW rate \in Nat \ {0}, NEW d, d = WithRate(s, rate)
    PROVE  /\ DOMAIN d = StreamFields /\ Parties(id, d) /\ Amounts(d) /\ Counted(d, now)
           /\ d.end = EndOf(SinceOf(d), SavedOf(d), d.deposited, d.amountPerPeriod, d.period)
           /\ d.sender = s.sender
           /\ SinceOf(d) = now /\ d.accrued = SavedOf(d) /\ d.nextUnlock = now + d.period
           /\ d.cliff <= now
  <1> DEFINE saved == Least(s.accrued, s.deposited)
  <1>1. d = [s EXCEPT !.amountPerPeriod = rate, !.lastRateChangeTime = now,
              !.fundsUnlockedAtLastRateChange = saved, !.accrued = saved,
              !.nextUnlock = now + s.period,
              !.end = EndOf(now, saved, s.deposited, rate, s.period)]
    BY DEF WithRate
  <1>2. s.accrued \in Nat /\ s.deposited \in Nat /\ s.period \in Nat \ {0} /\ s.cliff \in Nat
    BY StreamsAssumption DEF IsStream, Amounts
  <1>3. saved \in Nat /\ saved <= s.deposited
    BY <1>2 DEF Least
  <1> HIDE DEF saved
  <1>4. /\ DOMAIN d = StreamFields
        /\ \A f \in StreamFields \ {"amountPerPeriod", "lastRateChangeTime",
               "fundsUnlockedAtLastRateChange", "accrued", "nextUnlock", "end"} : d[f] = s[f]
    BY <1>1 DEF IsStream, StreamFields
  <1>5. /\ d.amountPerPeriod = rate /\ d.lastRateChangeTime = now
        /\ d.fundsUnlockedAtLastRateChange = saved /\ d.accrued = saved
        /\ d.nextUnlock = now + s.period
        /\ d.end = EndOf(now, saved, s.deposited, rate, s.period)
    BY <1>1 DEF IsStream, StreamFields
  <1>6. /\ d.cliff = s.cliff /\ d.cliffAmount = s.cliffAmount /\ d.period = s.period
        /\ d.deposited = s.deposited /\ d.withdrawn = s.withdrawn /\ d.canceledAt = s.canceledAt
    BY <1>4 DEF StreamFields
  <1>7. /\ d.escrowTokens = s.escrowTokens /\ d.sender = s.sender
        /\ d.senderTokens = s.senderTokens /\ d.partner = s.partner
        /\ d.recipient = s.recipient /\ d.recipientTokens = s.recipientTokens
        /\ d.mint = s.mint /\ d.streamflowTreasury = s.streamflowTreasury
    BY <1>4 DEF StreamFields
  <1>8. Parties(id, d)
    BY <1>7 DEF IsStream, Parties
  <1>9. now \in Nat /\ now # 0
    BY ChainAssumption
  <1>10. SinceOf(d) = now /\ SavedOf(d) = saved
    BY <1>5, <1>9 DEF SinceOf, SavedOf
  <1>11. d.end \in Nat /\ now <= d.end
    <2>1. s.deposited <= s.deposited
      BY <1>2
    <2> DEFINE e == EndOf(now, saved, s.deposited, rate, s.period)
    <2>2. e \in Nat /\ now <= e
      BY <1>2, <1>3, <1>9, <2>1, EndGrows
    <2> QED
      BY <1>5, <2>2
  <1>12. Amounts(d)
    BY <1>2, <1>3, <1>5, <1>6, <1>11, ChainAssumption DEF IsStream, Amounts
  <1>13. Periods(d, now) = 0
    <2>1. now - now = 0 * d.period
      BY <1>2, <1>6, <1>9
    <2> QED
      BY <1>2, <1>6, <1>10, <2>1, FloorOfMultiple DEF Periods
  <1>14. Counted(d, now)
    <2>1. /\ SinceOf(d) <= now
          /\ d.accrued = 0 * d.amountPerPeriod + SavedOf(d)
          /\ d.nextUnlock = SinceOf(d) + (0 + 1) * d.period
      BY <1>2, <1>3, <1>5, <1>6, <1>9, <1>10
    <2>2. d.cliff <= SinceOf(d) /\ d.cliff <= d.end /\ ~(now < d.cliff) /\ ~(now > d.end)
      BY <1>2, <1>6, <1>9, <1>10, <1>11
    <2> QED
      BY <1>13, <2>1, <2>2 DEF Counted
  <1> QED
    BY <1>4, <1>5, <1>6, <1>7, <1>8, <1>10, <1>12, <1>14


LEMMA RateIsStream ==
    ASSUME NEW id, now \in 1..MaxTime, NEW s, IsStream(id, s, now), s.cliff <= now,
           s.sender # ContractPDA(id), NEW rate \in Nat \ {0}, NEW d, d = WithRate(s, rate)
    PROVE  IsStream(id, d, now) /\ d.sender = s.sender
  BY RateIsCounted DEF IsStream, Ending, IsAlignedUnlock

LEMMA AlignedRateIsStream ==
    ASSUME NEW id, now \in 1..MaxTime, NEW s, IsStream(id, s, now), s.cliff <= now,
           s.sender = ContractPDA(id), NEW rate \in Nat \ {0},
           NEW d, d = [WithRate(s, rate) EXCEPT !.end = MaxSafeTime + 1]
    PROVE  IsStream(id, d, now) /\ d.sender = s.sender
  <1>1. PICK r : r = WithRate(s, rate)
    OBVIOUS
  <1>2. /\ DOMAIN r = StreamFields /\ Parties(id, r) /\ Amounts(r) /\ Counted(r, now)
        /\ r.sender = s.sender /\ SinceOf(r) = now /\ r.end \in Nat
        /\ r.end = EndOf(SinceOf(r), SavedOf(r), r.deposited, r.amountPerPeriod, r.period)
        /\ r.cliff <= now
    BY <1>1, RateIsCounted DEF Amounts
  <1>3. d = [r EXCEPT !.end = MaxSafeTime + 1]
    BY <1>1
  <1>4. /\ DOMAIN d = StreamFields /\ d.end = MaxSafeTime + 1
        /\ \A f \in StreamFields \ {"end"} : d[f] = r[f]
    BY <1>2, <1>3 DEF StreamFields
  <1>5. Parties(id, d) /\ d.sender = s.sender
    BY <1>2, <1>4 DEF Parties, StreamFields
  <1>6. Amounts(d)
    BY <1>2, <1>4, ScheduleAssumption DEF Amounts, StreamFields
  <1>7. /\ SinceOf(d) = SinceOf(r) /\ SavedOf(d) = SavedOf(r) /\ Periods(d, now) = Periods(r, now)
        /\ d.accrued = r.accrued /\ d.nextUnlock = r.nextUnlock
    BY <1>4 DEF SinceOf, SavedOf, Periods, StreamFields
  <1>8. /\ d.cliff = r.cliff /\ d.period = r.period /\ d.amountPerPeriod = r.amountPerPeriod
        /\ d.lastRateChangeTime = r.lastRateChangeTime
    BY <1>4 DEF StreamFields
  <1>9. Counted(d, now)
    <2>1. /\ now \in Nat /\ now <= d.end /\ MaxTime < d.end /\ d.end \in Nat
          /\ r.cliff \in Nat /\ ~(now < r.cliff)
      BY <1>2, <1>4, StreamsAssumption, ScheduleAssumption, ChainAssumption DEF Amounts
    <2>2. now <= r.end
      <3> DEFINE e == EndOf(now, SavedOf(r), r.deposited, r.amountPerPeriod, r.period)
      <3>1. SavedOf(r) \in Nat /\ SavedOf(r) <= r.deposited /\ r.deposited \in Nat
        BY <1>2, SinceAndSaved
      <3>2. /\ r.amountPerPeriod \in Nat \ {0} /\ r.period \in Nat \ {0}
            /\ r.deposited <= r.deposited
        BY <1>2, <3>1 DEF Amounts
      <3>3. now <= e
        BY <2>1, <3>1, <3>2, EndGrows
      <3> QED
        BY <1>2, <3>3
    <2> QED
      BY <1>2, <1>7, <1>8, <2>1, <2>2 DEF Counted
  <1>10. Ending(id, d)
    BY <1>4, <1>5 DEF Ending, IsAlignedUnlock
  <1> QED
    BY <1>4, <1>5, <1>6, <1>9, <1>10 DEF IsStream

(* A second passes.                                                        *)
Recounted(s, d, accrued, nextUnlock) ==
    /\ DOMAIN d = StreamFields /\ d.accrued = accrued /\ d.nextUnlock = nextUnlock
    /\ \A f \in StreamFields \ {"accrued", "nextUnlock"} : d[f] = s[f]

LEMMA RecountedBoth ==
    ASSUME NEW s, DOMAIN s = StreamFields, NEW a, NEW n,
           NEW d, d = [s EXCEPT !.accrued = a, !.nextUnlock = n]
    PROVE  Recounted(s, d, a, n)
  BY DEF Recounted, StreamFields

LEMMA PassedIsStream ==
    ASSUME NEW id, NEW t \in 1..MaxTime, NEW u \in 1..MaxTime, u = t + 1,
           NEW s, IsStream(id, s, t), NEW d, d = Passed(s, u)
    PROVE  IsStream(id, d, u) /\ d.sender = s.sender
  <1>1. /\ s.cliff \in Nat /\ s.deposited \in Nat /\ s.cliffAmount \in Nat
        /\ s.amountPerPeriod \in Nat \ {0} /\ s.period \in Nat \ {0}
        /\ s.accrued \in Nat /\ s.nextUnlock \in Nat /\ s.end \in Nat
        /\ t \in Nat /\ u \in Nat /\ SinceOf(s) \in Nat /\ SavedOf(s) \in Nat
        /\ SavedOf(s) <= s.deposited
    BY StreamsAssumption, ChainAssumption, SinceAndSaved DEF IsStream, Amounts
  <1>2. ASSUME NEW a \in Nat, NEW n \in Nat, Recounted(s, d, a, n),
               u < s.cliff => s.lastRateChangeTime = 0 /\ a = 0,
               s.cliff <= u /\ u <= s.end =>
                  /\ SinceOf(s) <= u
                  /\ a = Periods(s, u) * s.amountPerPeriod + SavedOf(s)
                  /\ n = SinceOf(s) + (Periods(s, u) + 1) * s.period,
               u > s.end => a = s.deposited
        PROVE  IsStream(id, d, u) /\ d.sender = s.sender
    <2>1. /\ DOMAIN d = StreamFields /\ d.accrued = a /\ d.nextUnlock = n
          /\ \A f \in StreamFields \ {"accrued", "nextUnlock"} : d[f] = s[f]
      BY <1>2 DEF Recounted
    <2>2. /\ d.cliff = s.cliff /\ d.cliffAmount = s.cliffAmount /\ d.deposited = s.deposited
          /\ d.amountPerPeriod = s.amountPerPeriod /\ d.period = s.period /\ d.end = s.end
          /\ d.lastRateChangeTime = s.lastRateChangeTime
          /\ d.fundsUnlockedAtLastRateChange = s.fundsUnlockedAtLastRateChange
          /\ d.withdrawn = s.withdrawn /\ d.canceledAt = s.canceledAt
      BY <2>1 DEF StreamFields
    <2>3. /\ d.escrowTokens = s.escrowTokens /\ d.sender = s.sender
          /\ d.senderTokens = s.senderTokens /\ d.partner = s.partner
          /\ d.recipient = s.recipient /\ d.recipientTokens = s.recipientTokens
          /\ d.mint = s.mint /\ d.streamflowTreasury = s.streamflowTreasury
      BY <2>1 DEF StreamFields
    <2>4. Parties(id, d)
      BY <2>3 DEF IsStream, Parties
    <2>5. Amounts(d)
      BY <1>2, <2>1, <2>2 DEF IsStream, Amounts
    <2>6. SinceOf(d) = SinceOf(s) /\ SavedOf(d) = SavedOf(s) /\ Periods(d, u) = Periods(s, u)
      BY <2>2 DEF SinceOf, SavedOf, Periods
    <2>7. Counted(d, u)
      BY <1>2, <2>1, <2>2, <2>6 DEF IsStream, Counted
    <2>8. Ending(id, d)
      BY <2>2, <2>3, <2>6 DEF IsStream, Ending
    <2> QED
      BY <2>1, <2>3, <2>4, <2>5, <2>7, <2>8 DEF IsStream
  <1>3. DOMAIN s = StreamFields /\ Recounted(s, s, s.accrued, s.nextUnlock)
    BY DEF IsStream, Recounted
  <1>4. CASE u > s.end
    <2>1. Recounted(s, d, s.deposited, s.nextUnlock)
      BY <1>1, <1>3, <1>4 DEF Passed, Recounted, StreamFields
    <2>2. ~(u < s.cliff)
      BY <1>1, <1>4, ChainAssumption DEF IsStream, Counted
    <2> QED
      BY <1>1, <1>2, <1>4, <2>1, <2>2
  <1>5. CASE u <= s.end /\ u = s.cliff
    <2>1. s.accrued = 0 /\ s.lastRateChangeTime = 0
      BY <1>1, <1>5 DEF IsStream, Counted
    <2>2. Recounted(s, d, s.cliffAmount, u + s.period)
      <3>1. d = [s EXCEPT !.accrued = s.cliffAmount, !.nextUnlock = u + s.period]
        BY <1>1, <1>5, <2>1 DEF Passed
      <3> QED
        BY <1>3, <3>1, RecountedBoth
    <2>3. SinceOf(s) = s.cliff /\ SavedOf(s) = s.cliffAmount
      BY <2>1 DEF SinceOf, SavedOf
    <2>4. Periods(s, u) = 0
      <3>1. u - s.cliff = 0 * s.period
        BY <1>1, <1>5
      <3> QED
        BY <1>1, <2>3, <3>1, FloorOfMultiple DEF Periods
    <2>5. /\ SinceOf(s) <= u /\ s.cliffAmount = 0 * s.amountPerPeriod + SavedOf(s)
          /\ u + s.period = SinceOf(s) + (0 + 1) * s.period /\ u + s.period \in Nat
          /\ ~(u < s.cliff) /\ ~(u > s.end)
      BY <1>1, <1>5, <2>3
    <2> QED
      BY <1>1, <1>2, <2>2, <2>4, <2>5
  <1>6. CASE u <= s.end /\ u < s.cliff
    <2>1. s.accrued = 0 /\ s.lastRateChangeTime = 0
      BY <1>1, <1>6 DEF IsStream, Counted
    <2>2. d = s
      BY <1>1, <1>6 DEF Passed
    <2>3. ~(s.cliff <= u) /\ ~(u > s.end) /\ Recounted(s, d, s.accrued, s.nextUnlock)
      BY <1>1, <1>3, <1>6, <2>2
    <2> QED
      BY <1>1, <1>2, <1>6, <2>1, <2>3
  <1>7. CASE u <= s.end /\ u > s.cliff
    <2>1. /\ s.cliff <= t /\ t <= s.end /\ ~(u < s.cliff) /\ ~(u > s.end)
      BY <1>1, <1>7
    <2>2. PICK n : n = Periods(s, t)
      OBVIOUS
    <2>3. /\ SinceOf(s) <= t
          /\ s.accrued = n * s.amountPerPeriod + SavedOf(s)
          /\ s.nextUnlock = SinceOf(s) + (n + 1) * s.period
      BY <2>1, <2>2 DEF IsStream, Counted
    <2>4. /\ n \in Nat
          /\ u = s.nextUnlock => Periods(s, u) = n + 1
          /\ u # s.nextUnlock => Periods(s, u) = n
      <3>1. PICK since, period : since = SinceOf(s) /\ period = s.period
        OBVIOUS
      <3>2. since \in Nat /\ period \in Nat \ {0} /\ since <= t /\ n = (t - since) \div period
        BY <1>1, <2>2, <2>3, <3>1 DEF Periods
      <3>3. n \in Nat
        <4>1. t - since \in Nat
          BY <1>1, <3>2
        <4> QED
          BY <3>2, <4>1, FloorOf
      <3>4. InNextPeriod(since, u, period, n)
        <4>1. InPeriod(since, t, period, n) /\ t \in Nat
          BY <1>1, <3>2, <3>3 DEF InPeriod
        <4> QED
          BY <3>2, <4>1, NextPeriod
      <3>5. s.nextUnlock = since + (n + 1) * period /\ Periods(s, u) = (u - since) \div period
        BY <2>3, <3>1 DEF Periods
      <3> QED
        BY <3>3, <3>4, <3>5 DEF InNextPeriod
    <2>5. SinceOf(s) <= u
      BY <1>1, <2>3
    <2>6. CASE u = s.nextUnlock
      <3>1. Recounted(s, d, s.accrued + s.amountPerPeriod, u + s.period)
        <4>1. d = [s EXCEPT !.accrued = s.accrued + s.amountPerPeriod, !.nextUnlock = u + s.period]
          BY <1>1, <1>7, <2>6 DEF Passed
        <4> QED
          BY <1>3, <4>1, RecountedBoth
      <3>2. s.accrued + s.amountPerPeriod = (n + 1) * s.amountPerPeriod + SavedOf(s)
        BY <1>1, <2>3, <2>4
      <3>3. u + s.period = SinceOf(s) + ((n + 1) + 1) * s.period
        BY <1>1, <2>3, <2>4, <2>6
      <3>4. s.accrued + s.amountPerPeriod \in Nat /\ u + s.period \in Nat
        BY <1>1
      <3> QED
        BY <1>2, <2>1, <2>4, <2>5, <2>6, <3>1, <3>2, <3>3, <3>4
    <2>7. CASE u # s.nextUnlock
      <3>1. d = s
        BY <1>1, <1>7, <2>7 DEF Passed
      <3>2. Recounted(s, d, s.accrued, s.nextUnlock)
        BY <1>3, <3>1
      <3> QED
        BY <1>1, <1>2, <2>1, <2>3, <2>4, <2>5, <2>7, <3>2
    <2> QED
      BY <2>6, <2>7
  <1> QED
    BY <1>1, <1>4, <1>5, <1>6, <1>7


-----------------------------------------------------------------------------
(* The invariant.  A step changes nothing that it is about, revises a      *)
(* stream, adds one, or lets a second pass.                                *)
ProxyFields ==
    {"minPrice", "maxPrice", "minPercentage", "maxPercentage",
     "sender", "stream", "priceOracle", "streamCanceledTime"}

IsProxy(id, p) == DOMAIN p = ProxyFields /\ p.sender \in Senders /\ p.stream = id

Aligned(id) == IsAlignedUnlock(id, streams[id].sender)

StreamsRight ==
    DOMAIN streams \subseteq Ids /\ \A id \in DOMAIN streams : IsStream(id, streams[id], now)

ProxiesRight ==
    /\ DOMAIN proxies = {ContractPDA(id) : id \in {i \in DOMAIN streams : Aligned(i)}}
    /\ \A id \in DOMAIN streams : Aligned(id) => IsProxy(id, proxies[ContractPDA(id)])

QueryRight == "active" \in DOMAIN query /\ query.active \in BOOLEAN

IInv == now \in 1..MaxTime /\ StreamsRight /\ ProxiesRight /\ QueryRight

(* What the type of a stream depends on.                                   *)
SameKind(s, d) ==
    /\ d.sender = s.sender /\ d.canTopup = s.canTopup /\ d.cliffAmount = s.cliffAmount
    /\ d.cancelableBySender = s.cancelableBySender
    /\ d.cancelableByRecipient = s.cancelableByRecipient
    /\ d.transferableBySender = s.transferableBySender
    /\ d.transferableByRecipient = s.transferableByRecipient
    /\ d.deposited = s.deposited \/ s.canTopup

SameOffer(p, q) ==
    /\ q.sender = p.sender /\ q.minPrice = p.minPrice /\ q.maxPrice = p.maxPrice
    /\ q.minPercentage = p.minPercentage /\ q.maxPercentage = p.maxPercentage

Quiet == now' = now /\ streams' = streams /\ proxies' = proxies

Revises(id, d) ==
    /\ IsStream(id, d, now) /\ SameKind(streams[id], d)
    /\ streams' = [streams EXCEPT ![id] = d] /\ now' = now

Cancels(id, d, p) ==
    /\ Revises(id, d) /\ Aligned(id)
    /\ IsProxy(id, p) /\ SameOffer(proxies[ContractPDA(id)], p)
    /\ proxies' = [proxies EXCEPT ![ContractPDA(id)] = p]

Adds(id, d) ==
    /\ id \in Ids \ DOMAIN streams /\ IsStream(id, d, now) /\ d.sender # ContractPDA(id)
    /\ streams' = Stored(streams, id, d) /\ proxies' = proxies /\ now' = now

AddsAligned(id, d, p) ==
    /\ id \in Ids \ DOMAIN streams /\ IsStream(id, d, now) /\ d.sender = ContractPDA(id)
    /\ IsProxy(id, p)
    /\ streams' = Stored(streams, id, d) /\ proxies' = Stored(proxies, ContractPDA(id), p)
    /\ now' = now

Step ==
    \/ Quiet
    \/ \E id \in DOMAIN streams : \E d : Revises(id, d) /\ proxies' = proxies
    \/ \E id \in DOMAIN streams : \E d, p : Cancels(id, d, p)
    \/ \E id, d : Adds(id, d)
    \/ \E id, d, p : AddsAligned(id, d, p)
    \/ Tick

LEMMA Kept ==
    ASSUME NEW s, NEW d, DOMAIN s = StreamFields,
           \A f \in StreamFields \ {"automaticWithdrawal", "amountPerPeriod", "lastRateChangeTime",
               "fundsUnlockedAtLastRateChange", "accrued", "nextUnlock", "end", "recipient",
               "recipientTokens", "withdrawn", "canceledAt", "deposited"} : d[f] = s[f],
           d.deposited = s.deposited \/ s.canTopup
    PROVE  SameKind(s, d)
  BY DEF SameKind, StreamFields

LEMMA WithdrawRevises ==
    ASSUME IInv, NEW id \in DOMAIN streams, NEW i, Land(WithdrawIxs(id, i), i)
    PROVE  \E d : Revises(id, d) /\ proxies' = proxies
  <1> DEFINE s == streams[id]
  <1>1. IsStream(id, s, now)
    BY DEF IInv, StreamsRight
  <1>2. PICK d : d = [s EXCEPT !.withdrawn = Least(s.accrued, s.deposited)]
    OBVIOUS
  <1>3. streams' = [streams EXCEPT ![id] = d] /\ proxies' = proxies /\ now' = now
    BY <1>2, WithdrawEffect
  <1> HIDE DEF s
  <1>4. /\ DOMAIN d = StreamFields /\ d.withdrawn = Least(s.accrued, s.deposited)
        /\ \A f \in StreamFields \ {"withdrawn"} : d[f] = s[f]
    BY <1>1, <1>2 DEF IsStream, StreamFields
  <1>5. Least(s.accrued, s.deposited) \in 0..s.deposited
    BY <1>1, StreamsAssumption DEF Least, IsStream, Amounts
  <1>6. /\ \A f \in StreamFields \ Uncounted : d[f] = s[f]
        /\ d.recipient \in Recipients /\ d.recipientTokens = Tokens(d.recipient)
        /\ d.canceledAt \in 0..MaxTime
    BY <1>1, <1>4 DEF IsStream, Parties, Amounts, StreamFields, Uncounted
  <1>7. IsStream(id, d, now)
    BY <1>1, <1>4, <1>5, <1>6, UncountedChange
  <1>8. SameKind(s, d)
    BY <1>1, <1>4, Kept DEF IsStream, StreamFields
  <1> QED
    BY <1>3, <1>7, <1>8 DEF Revises, s

LEMMA CanceledIsStream ==
    ASSUME IInv, NEW id \in DOMAIN streams, NEW d, d = [streams[id] EXCEPT !.canceledAt = now]
    PROVE  IsStream(id, d, now) /\ SameKind(streams[id], d)
  <1> DEFINE s == streams[id]
  <1>1. IsStream(id, s, now)
    BY DEF IInv, StreamsRight
  <1> HIDE DEF s
  <1>2. /\ DOMAIN d = StreamFields /\ d.canceledAt = now
        /\ \A f \in StreamFields \ {"canceledAt"} : d[f] = s[f]
    BY <1>1 DEF IsStream, StreamFields, s
  <1>3. /\ \A f \in StreamFields \ Uncounted : d[f] = s[f]
        /\ d.recipient \in Recipients /\ d.recipientTokens = Tokens(d.recipient)
        /\ d.withdrawn \in 0..s.deposited /\ d.canceledAt \in 0..MaxTime
    <2>1. now \in 0..MaxTime
      BY ChainAssumption DEF IInv
    <2> QED
      BY <1>1, <1>2, <2>1 DEF IsStream, Parties, Amounts, StreamFields, Uncounted
  <1>4. IsStream(id, d, now)
    <2>1. DOMAIN d = StreamFields
      BY <1>2
    <2> QED
      BY ONLY <1>1, <1>3, <2>1, UncountedChange
  <1>5. SameKind(s, d)
    BY <1>1, <1>2, Kept DEF IsStream, StreamFields
  <1> QED
    BY <1>4, <1>5 DEF s

LEMMA CancelRevises ==
    ASSUME IInv, NEW id \in DOMAIN streams, NEW i, Land(CancelIxs(id, i), i)
    PROVE  \/ \E d : Revises(id, d) /\ proxies' = proxies
           \/ \E d, p : Cancels(id, d, p)
  <1>1. PICK d : d = [streams[id] EXCEPT !.canceledAt = now]
    OBVIOUS
  <1>2. IsStream(id, d, now) /\ SameKind(streams[id], d)
    BY <1>1, CanceledIsStream
  <1>3. CASE ~Aligned(id)
    <2>1. CancelIxs(id, i) = CancelStreamIxs(id, i)
      BY <1>3 DEF CancelIxs, Aligned
    <2>2. streams' = [streams EXCEPT ![id] = d] /\ proxies' = proxies /\ now' = now
      BY <1>1, <2>1, CancelStreamEffect
    <2> QED
      BY <1>2, <2>2 DEF Revises
  <1>4. CASE Aligned(id)
    <2>1. CancelIxs(id, i) = CancelAlignedIxs(id, i)
      BY <1>4 DEF CancelIxs, Aligned
    <2>2. PICK r : r = proxies[ContractPDA(id)]
      OBVIOUS
    <2>3. PICK p : p = [r EXCEPT !.streamCanceledTime = now]
      OBVIOUS
    <2>4. /\ streams' = [streams EXCEPT ![id] = d]
          /\ proxies' = [proxies EXCEPT ![ContractPDA(id)] = p] /\ now' = now
      BY <1>1, <2>1, <2>2, <2>3, CancelAlignedEffect
    <2>5. IsProxy(id, r)
      BY <1>4, <2>2 DEF IInv, ProxiesRight
    <2>6. IsProxy(id, p) /\ SameOffer(r, p)
      BY <2>3, <2>5 DEF IsProxy, ProxyFields, SameOffer
    <2> QED
      BY <1>2, <1>4, <2>2, <2>4, <2>6 DEF Revises, Cancels
  <1> QED
    BY <1>3, <1>4


LEMMA TransferRevises ==
    ASSUME IInv, NEW id \in DOMAIN streams, NEW r \in Recipients, NEW i,
           Land(TransferIxs(id, r, i), i)
    PROVE  \E d : Revises(id, d) /\ proxies' = proxies
  <1> DEFINE s == streams[id]
  <1>1. IsStream(id, s, now)
    BY DEF IInv, StreamsRight
  <1>2. PICK d : d = [[s EXCEPT !.recipient = r] EXCEPT !.recipientTokens = Tokens(r)]
    OBVIOUS
  <1>3. streams' = [streams EXCEPT ![id] = d] /\ proxies' = proxies /\ now' = now
    <2>1. d = [s EXCEPT !.recipient = r, !.recipientTokens = Tokens(r)]
      BY <1>2
    <2> QED
      BY <2>1, TransferEffect
  <1> HIDE DEF s
  <1>4. /\ DOMAIN d = StreamFields /\ d.recipient = r /\ d.recipientTokens = Tokens(r)
        /\ \A f \in StreamFields \ {"recipient", "recipientTokens"} : d[f] = s[f]
    BY <1>1, <1>2 DEF IsStream, StreamFields
  <1>5. /\ \A f \in StreamFields \ Uncounted : d[f] = s[f]
        /\ d.withdrawn \in 0..s.deposited /\ d.canceledAt \in 0..MaxTime
    BY <1>1, <1>4 DEF IsStream, Amounts, StreamFields, Uncounted
  <1>6. IsStream(id, d, now)
    BY <1>1, <1>4, <1>5, UncountedChange
  <1>7. SameKind(s, d)
    BY <1>1, <1>4, Kept DEF IsStream, StreamFields
  <1> QED
    BY <1>3, <1>6, <1>7 DEF Revises, s

LEMMA TopupRevises ==
    ASSUME IInv, NEW id \in DOMAIN streams, streams[id].deposited + TopupAmount <= MaxDeposit,
           NEW i \in Senders, Land(TopupIxs(id, i, FALSE), i)
    PROVE  \E d : Revises(id, d) /\ proxies' = proxies
  <1> DEFINE s == streams[id]
  <1>1. IsStream(id, s, now) /\ now \in 1..MaxTime /\ id \in Ids
    BY DEF IInv, StreamsRight
  <1>2. PICK d : d = WithDeposit(s, TopupAmount)
    OBVIOUS
  <1>3. /\ s.sender = i /\ now <= s.end /\ s.canTopup
        /\ streams' = [streams EXCEPT ![id] = d] /\ proxies' = proxies /\ now' = now
    BY <1>2, TopupEffect
  <1>4. s.deposited + TopupAmount <= MaxDeposit
    OBVIOUS
  <1> HIDE DEF s
  <1>5. s.sender # ContractPDA(id)
    BY <1>1, <1>3, StreamsAssumption
  <1>6. IsStream(id, d, now)
    BY <1>1, <1>2, <1>3, <1>4, <1>5, DepositIsStream
  <1>7. SameKind(s, d)
    <2>1. PICK end : end = EndOf(SinceOf(s), SavedOf(s), s.deposited + TopupAmount,
                                 s.amountPerPeriod, s.period)
      OBVIOUS
    <2>2. d = [s EXCEPT !.deposited = s.deposited + TopupAmount, !.end = end]
      BY <1>2, <2>1 DEF WithDeposit, SinceOf, SavedOf
    <2>3. \A f \in StreamFields \ {"deposited", "end"} : d[f] = s[f]
      BY <1>1, <2>2 DEF IsStream, StreamFields
    <2> QED
      BY <1>1, <1>3, <2>3, Kept DEF IsStream, StreamFields
  <1> QED
    BY <1>3, <1>6, <1>7 DEF Revises, s

LEMMA WithRateKeeps ==
    ASSUME NEW s, DOMAIN s = StreamFields, NEW rate, NEW d, d = WithRate(s, rate)
    PROVE  /\ SameKind(s, d)
           /\ \A f \in StreamFields \ {"amountPerPeriod", "lastRateChangeTime",
               "fundsUnlockedAtLastRateChange", "accrued", "nextUnlock", "end"} : d[f] = s[f]
  <1>1. PICK saved, end : /\ saved = Least(s.accrued, s.deposited)
                         /\ end = EndOf(now, saved, s.deposited, rate, s.period)
    OBVIOUS
  <1>2. d = [s EXCEPT !.amountPerPeriod = rate, !.lastRateChangeTime = now,
              !.fundsUnlockedAtLastRateChange = saved, !.accrued = saved,
              !.nextUnlock = now + s.period, !.end = end]
    BY <1>1 DEF WithRate
  <1>3. \A f \in StreamFields \ {"amountPerPeriod", "lastRateChangeTime",
               "fundsUnlockedAtLastRateChange", "accrued", "nextUnlock", "end"} : d[f] = s[f]
    BY <1>2
  <1> QED
    BY <1>3, Kept DEF StreamFields

LEMMA FlagIsStream ==
    ASSUME NEW id, NEW t, NEW s, IsStream(id, s, t), NEW automatic \in BOOLEAN,
           NEW d, d = WithFlag(s, automatic)
    PROVE  IsStream(id, d, t) /\ SameKind(s, d)
  <1>1. CASE ~automatic
    <2>1. d = s
      BY <1>1 DEF WithFlag
    <2> QED
      BY <2>1 DEF SameKind
  <1>2. CASE automatic
    <2>1. d = [s EXCEPT !.automaticWithdrawal = TRUE]
      BY <1>2 DEF WithFlag
    <2>2. DOMAIN d = StreamFields /\ \A f \in StreamFields \ {"automaticWithdrawal"} : d[f] = s[f]
      BY <2>1 DEF IsStream, StreamFields
    <2>3. /\ \A f \in StreamFields \ Uncounted : d[f] = s[f]
          /\ d.recipient \in Recipients /\ d.recipientTokens = Tokens(d.recipient)
          /\ d.withdrawn \in 0..s.deposited /\ d.canceledAt \in 0..MaxTime
      BY <2>2 DEF IsStream, Parties, Amounts, StreamFields, Uncounted
    <2>4. IsStream(id, d, t)
      BY <2>2, <2>3, UncountedChange
    <2>5. SameKind(s, d)
      BY <2>2, Kept DEF IsStream, StreamFields
    <2> QED
      BY <2>4, <2>5
  <1> QED
    BY <1>1, <1>2

LEMMA UpdateRevises ==
    ASSUME IInv, NEW id \in DOMAIN streams, NEW i \in Senders, NEW automatic \in BOOLEAN,
           NEW rate \in Rates \cup {0}, Land(UpdateIxs(id, i, automatic, rate), i)
    PROVE  \E d : Revises(id, d) /\ proxies' = proxies
  <1> DEFINE s == streams[id]
  <1>1. IsStream(id, s, now) /\ now \in 1..MaxTime /\ id \in Ids /\ rate \in Nat
    BY StreamsAssumption DEF IInv, StreamsRight
  <1>2. PICK r : r = IF rate > 0 THEN WithRate(s, rate) ELSE s
    OBVIOUS
  <1>3. PICK d : d = WithFlag(r, automatic)
    OBVIOUS
  <1>4. /\ s.sender = i
        /\ rate > 0 => now \in s.cliff..s.end
        /\ streams' = [streams EXCEPT ![id] = d] /\ proxies' = proxies /\ now' = now
    BY <1>1, <1>2, <1>3, UpdateEffect
  <1> HIDE DEF s
  <1>5. s.sender # ContractPDA(id)
    BY <1>1, <1>4, StreamsAssumption
  <1>6. IsStream(id, r, now) /\ SameKind(s, r)
    <2>1. CASE rate = 0
      <3>1. r = s
        BY <1>2, <2>1
      <3> QED
        BY <1>1, <3>1 DEF SameKind
    <2>2. CASE rate \in Nat \ {0}
      <3>1. r = WithRate(s, rate)
        BY <1>2, <2>2
      <3>2. s.cliff <= now
        BY <1>1, <1>4, <2>2, ChainAssumption DEF IsStream, Amounts
      <3>3. IsStream(id, r, now)
        BY <1>1, <1>5, <2>2, <3>1, <3>2, RateIsStream
      <3> QED
        BY <1>1, <3>1, <3>3, WithRateKeeps DEF IsStream
    <2> QED
      BY <1>1, <2>1, <2>2
  <1>7. IsStream(id, d, now) /\ SameKind(r, d)
    BY <1>3, <1>6, FlagIsStream
  <1>8. SameKind(s, d)
    BY <1>6, <1>7 DEF SameKind
  <1> QED
    BY <1>4, <1>7, <1>8 DEF Revises, s

LEMMA AlignedUpdateRevises ==
    ASSUME IInv, NEW id \in DOMAIN streams, AlignedUpdate(id)
    PROVE  \E d : Revises(id, d) /\ proxies' = proxies
  <1> DEFINE s == streams[id]
  <1>1. PICK rate \in Rates :
          /\ s.sender = ContractPDA(id) /\ now >= s.cliff
          /\ streams' = [streams EXCEPT ![id] = [WithRate(@, rate) EXCEPT !.end = MaxSafeTime + 1]]
          /\ now' = now /\ proxies' = proxies
    BY DEF AlignedUpdate, IsAlignedUnlock
  <1>2. IsStream(id, s, now) /\ now \in 1..MaxTime /\ rate \in Nat \ {0}
    BY StreamsAssumption DEF IInv, StreamsRight
  <1>3. PICK d : d = [WithRate(s, rate) EXCEPT !.end = MaxSafeTime + 1]
    OBVIOUS
  <1>4. streams' = [streams EXCEPT ![id] = d]
    BY <1>1, <1>3
  <1>5. s.cliff <= now /\ s.sender = ContractPDA(id)
    BY <1>1, <1>2, ChainAssumption DEF IsStream, Amounts
  <1> HIDE DEF s
  <1>6. IsStream(id, d, now)
    BY <1>2, <1>3, <1>5, AlignedRateIsStream
  <1>7. SameKind(s, d)
    <2>1. PICK r : r = WithRate(s, rate)
      OBVIOUS
    <2>2. DOMAIN r = StreamFields
      BY <1>2, <1>5, <2>1, RateIsCounted
    <2>3. SameKind(s, r)
      BY <1>2, <2>1, WithRateKeeps DEF IsStream
    <2>4. d = [r EXCEPT !.end = MaxSafeTime + 1]
      BY <1>3, <2>1
    <2>5. \A f \in StreamFields \ {"end"} : d[f] = r[f]
      BY <2>2, <2>4
    <2>6. SameKind(r, d)
      BY <2>2, <2>5, Kept DEF StreamFields
    <2> QED
      BY <2>3, <2>6 DEF SameKind
  <1> QED
    BY <1>1, <1>4, <1>6, <1>7 DEF Revises, s


LEMMA NewIsProxy ==
    ASSUME NEW id, NEW b, b.sender \in Senders, b.streamMetadata = id, NEW prices \in Prices
    PROVE  IsProxy(id, NewProxy(b, prices))
  <1> DEFINE G == [sender |-> b.sender, stream |-> b.streamMetadata,
                   priceOracle |-> b.priceOracle, streamCanceledTime |-> 0]
  <1>1. PICK g : g = G
    OBVIOUS
  <1>2. PICK p : p = NewProxy(b, prices)
    OBVIOUS
  <1>3. p = Merged(prices, g)
    BY <1>1, <1>2 DEF NewProxy
  <1>4. DOMAIN prices = {"minPrice", "maxPrice", "minPercentage", "maxPercentage"}
    BY StreamsAssumption
  <1>5. /\ DOMAIN g = {"sender", "stream", "priceOracle", "streamCanceledTime"}
        /\ g["sender"] = b.sender /\ g["stream"] = id
    BY <1>1
  <1>6. DOMAIN p = DOMAIN prices \cup DOMAIN g
    BY <1>3 DEF Merged
  <1>7. \A f \in DOMAIN g : f \notin DOMAIN prices => p[f] = g[f]
    BY <1>3 DEF Merged
  <1>8. p["sender"] = b.sender /\ p["stream"] = id
    BY <1>4, <1>5, <1>7
  <1>9. DOMAIN p = ProxyFields
    BY <1>4, <1>5, <1>6 DEF ProxyFields
  <1> QED
    BY <1>2, <1>8, <1>9 DEF IsProxy

LEMMA CreateAdds ==
    ASSUME IInv, NEW id \in Ids, Create(id)
    PROVE  \/ \E d : Adds(id, d)
           \/ \E d, p : AddsAligned(id, d, p)
  <1>1. id \in Ids \ DOMAIN streams /\ now \in 1..MaxTime
    BY DEF Create, IInv
  <1>2. PICK sender \in Senders, recipient \in Recipients, partner \in Partners,
             shape \in FutureShapes :
          \/ Land(CreateIxs(id, sender, recipient, partner, shape, FALSE), sender)
          \/ Land(CreateUncheckedIxs(id, sender, recipient, partner, shape, FALSE), sender)
          \/ \E prices \in Prices :
               Land(CreateAlignedIxs(id, sender, recipient, partner, shape, prices), sender)
    BY DEF Create
  <1>3. ASSUME \E a : /\ CreatedWith(a, id, sender)
                      /\ streams' = Stored(streams, id, NewStream(a, shape, recipient, partner)),
               proxies' = proxies, now' = now
        PROVE  \E d : Adds(id, d)
    <2>1. PICK a : /\ CreatedWith(a, id, sender)
                   /\ streams' = Stored(streams, id, NewStream(a, shape, recipient, partner))
      BY <1>3
    <2>2. PICK d : d = NewStream(a, shape, recipient, partner)
      OBVIOUS
    <2>3. IsStream(id, d, now) /\ d.sender = sender
      BY <1>1, <2>1, <2>2, NewIsStream
    <2>4. d.sender # ContractPDA(id)
      BY <1>1, <2>3, StreamsAssumption
    <2> QED
      BY <1>1, <1>3, <2>1, <2>2, <2>3, <2>4 DEF Adds
  <1>4. CASE Land(CreateIxs(id, sender, recipient, partner, shape, FALSE), sender)
    <2>1. /\ \E a : /\ CreatedWith(a, id, sender)
                   /\ streams' = Stored(streams, id, NewStream(a, shape, recipient, partner))
          /\ proxies' = proxies /\ now' = now
      BY ONLY <1>4, CreateEffect
    <2> QED
      BY <1>3, <2>1, Zenon
  <1>5. CASE Land(CreateUncheckedIxs(id, sender, recipient, partner, shape, FALSE), sender)
    <2>1. /\ \E a : /\ CreatedWith(a, id, sender)
                   /\ streams' = Stored(streams, id, NewStream(a, shape, recipient, partner))
          /\ proxies' = proxies /\ now' = now
      BY ONLY <1>5, CreateUncheckedEffect
    <2> QED
      BY <1>3, <2>1, Zenon
  <1>6. ASSUME NEW prices \in Prices,
               Land(CreateAlignedIxs(id, sender, recipient, partner, shape, prices), sender)
        PROVE  \E d, p : AddsAligned(id, d, p)
    <2>1. PICK a, b :
             /\ CreatedWith(a, id, ContractPDA(id))
             /\ streams' = Stored(streams, id, [NewStream(a, shape, recipient, partner)
                                                  EXCEPT !.end = MaxSafeTime + 1])
             /\ b.sender = sender /\ b.streamMetadata = id
             /\ proxies' = Stored(proxies, ContractPDA(id), NewProxy(b, prices))
             /\ now' = now
      BY <1>6, CreateAlignedEffect
    <2>2. PICK d : d = [NewStream(a, shape, recipient, partner) EXCEPT !.end = MaxSafeTime + 1]
      OBVIOUS
    <2>3. PICK p : p = NewProxy(b, prices)
      OBVIOUS
    <2>4. IsStream(id, d, now) /\ d.sender = ContractPDA(id)
      <3>1. CreatedWith(a, id, ContractPDA(id))
        BY <2>1
      <3> QED
        BY <1>1, <2>2, <3>1, NewAlignedIsStream
    <2>5. IsProxy(id, p)
      BY <2>1, <2>3, NewIsProxy
    <2> QED
      BY <1>1, <2>1, <2>2, <2>3, <2>4, <2>5 DEF AddsAligned
  <1> QED
    BY <1>2, <1>4, <1>5, <1>6

LEMMA WatchedIsRight ==
    ASSUME QueryRight, Watched
    PROVE  QueryRight'
  <1>1. CASE ~query.active
    <2>1. query' = query
      BY <1>1 DEF Watched
    <2> QED
      BY <2>1 DEF QueryRight
  <1>2. CASE query.active
    <2>1. PICK always, ever : query' = [query EXCEPT !.always = always, !.ever = ever]
      BY <1>2 DEF Watched
    <2>2. DOMAIN query' = DOMAIN query /\ query'["active"] = query["active"]
      BY <2>1 DEF QueryRight
    <2> QED
      BY <2>2 DEF QueryRight
  <1> QED
    BY <1>1, <1>2

LEMMA AnsweredIsRight ==
    ASSUME QueryRight, NEW read, NEW q, DOMAIN q = DOMAIN query, q.active = query.active,
           Answered(read, q)
    PROVE  QueryRight' /\ Quiet
  <1>1. query' = [q EXCEPT !.todo = Tail(q.todo)]
    BY DEF Answered
  <1>2. DOMAIN query' = DOMAIN query /\ query'["active"] = query["active"]
    BY <1>1 DEF QueryRight
  <1> QED
    BY <1>2 DEF QueryRight, Quiet, Answered

LEMMA ReadIsRight ==
    ASSUME QueryRight, ReadNext
    PROVE  QueryRight' /\ Quiet
  <1> DEFINE Alike(q) == DOMAIN q = DOMAIN query /\ q.active = query.active
  <1>1. ASSUME NEW f, NEW q, q = [query EXCEPT !.found = f] PROVE Alike(q)
    <2>1. q["active"] = query["active"]
      BY <1>1 DEF QueryRight
    <2> QED
      BY <1>1, <2>1
  <1>2. ASSUME NEW f, NEW q, q = [query EXCEPT !.decoded = f] PROVE Alike(q)
    <2>1. q["active"] = query["active"]
      BY <1>2 DEF QueryRight
    <2> QED
      BY <1>2, <2>1
  <1>3. ASSUME NEW f, NEW g, NEW q, q = [query EXCEPT !.found = f, !.decoded = g] PROVE Alike(q)
    <2>1. q["active"] = query["active"]
      BY <1>3 DEF QueryRight
    <2> QED
      BY <1>3, <2>1
  <1>4. \E read, q : Alike(q) /\ Answered(read, q)
    <2>1. CASE ReadOutgoing
      <3>1. PICK f : f = [id \in WithAddress(OffsetSender) |-> Contract(streams[id])]
        OBVIOUS
      <3>2. PICK q : q = [query EXCEPT !.found = f]
        OBVIOUS
      <3>3. Alike(q)
        BY <1>1, <3>2
      <3>4. Answered("outgoing", q)
        BY <2>1, <3>1, <3>2 DEF ReadOutgoing
      <3> HIDE DEF Alike
      <3> QED
        BY <3>3, <3>4
    <2>2. CASE ReadProxies
      <3>1. PICK f : Answered("proxies", [query EXCEPT !.decoded = f])
        BY <2>2 DEF ReadProxies
      <3>2. PICK q : q = [query EXCEPT !.decoded = f]
        OBVIOUS
      <3>3. Alike(q)
        BY <1>2, <3>2
      <3>4. Answered("proxies", q)
        BY <3>1, <3>2
      <3> HIDE DEF Alike
      <3> QED
        BY <3>3, <3>4
    <2>3. CASE ReadAligned
      <3>1. PICK f, g : Answered("aligned", [query EXCEPT !.found = f, !.decoded = g])
        BY <2>3 DEF ReadAligned
      <3>2. PICK q : q = [query EXCEPT !.found = f, !.decoded = g]
        OBVIOUS
      <3>3. Alike(q)
        BY <1>3, <3>2
      <3>4. Answered("aligned", q)
        BY <3>1, <3>2
      <3> HIDE DEF Alike
      <3> QED
        BY <3>3, <3>4
    <2>4. CASE ReadIncoming
      <3>1. PICK f, g : Answered("incoming", [query EXCEPT !.found = f, !.decoded = g])
        BY <2>4 DEF ReadIncoming, Incoming
      <3>2. PICK q : q = [query EXCEPT !.found = f, !.decoded = g]
        OBVIOUS
      <3>3. Alike(q)
        BY <1>3, <3>2
      <3>4. Answered("incoming", q)
        BY <3>1, <3>2
      <3> HIDE DEF Alike
      <3> QED
        BY <3>3, <3>4
    <2>5. CASE ReadIncomingProxies
      <3>1. PICK f, g : Answered("incoming proxies", [query EXCEPT !.found = f, !.decoded = g])
        BY <2>5 DEF ReadIncomingProxies
      <3>2. PICK q : q = [query EXCEPT !.found = f, !.decoded = g]
        OBVIOUS
      <3>3. Alike(q)
        BY <1>3, <3>2
      <3>4. Answered("incoming proxies", q)
        BY <3>1, <3>2
      <3> HIDE DEF Alike
      <3> QED
        BY <3>3, <3>4
    <2> QED
      BY <2>1, <2>2, <2>3, <2>4, <2>5 DEF ReadNext
  <1> QED
    BY <1>4, AnsweredIsRight


LEMMA NextSteps ==
    ASSUME IInv, Next
    PROVE  Step /\ QueryRight'
  <1>1. QueryRight
    BY DEF IInv
  <1>2. ASSUME NEW ixs, NEW i, Land(ixs, i) PROVE QueryRight'
    BY <1>1, <1>2, WatchedIsRight DEF Land
  <1>3. ASSUME NEW id \in Ids, Create(id) PROVE Step /\ QueryRight'
    <2>1. QueryRight'
      BY <1>2, <1>3 DEF Create
    <2>2. Step
      BY <1>3, CreateAdds DEF Step
    <2> QED
      BY <2>1, <2>2
  <1>4. ASSUME NEW id \in DOMAIN streams, Withdraw(id) PROVE Step /\ QueryRight'
    <2>1. PICK i : Land(WithdrawIxs(id, i), i)
      BY <1>4 DEF Withdraw
    <2>2. \E d : Revises(id, d) /\ proxies' = proxies
      BY <2>1, WithdrawRevises
    <2> QED
      BY <1>2, <2>1, <2>2 DEF Step
  <1>5. ASSUME NEW id \in DOMAIN streams, Cancel(id) PROVE Step /\ QueryRight'
    <2>1. PICK i : Land(CancelIxs(id, i), i)
      BY <1>5 DEF Cancel
    <2>2. \/ \E d : Revises(id, d) /\ proxies' = proxies
          \/ \E d, p : Cancels(id, d, p)
      BY <2>1, CancelRevises
    <2> QED
      BY <1>2, <2>1, <2>2 DEF Step
  <1>6. ASSUME NEW id \in DOMAIN streams, Transfer(id) PROVE Step /\ QueryRight'
    <2>1. PICK i \in Senders \cup Recipients, r \in Recipients : Land(TransferIxs(id, r, i), i)
      BY <1>6 DEF Transfer
    <2>2. \E d : Revises(id, d) /\ proxies' = proxies
      BY <2>1, TransferRevises
    <2> QED
      BY <1>2, <2>1, <2>2 DEF Step
  <1>7. ASSUME NEW id \in DOMAIN streams, Topup(id) PROVE Step /\ QueryRight'
    <2>1. PICK i \in Senders : Land(TopupIxs(id, i, FALSE), i)
      BY <1>7 DEF Topup
    <2>2. \E d : Revises(id, d) /\ proxies' = proxies
      BY <1>7, <2>1, TopupRevises DEF Topup
    <2> QED
      BY <1>2, <2>1, <2>2 DEF Step
  <1>8. ASSUME NEW id \in DOMAIN streams, Update(id) PROVE Step /\ QueryRight'
    <2>1. PICK i \in Senders, automatic \in BOOLEAN, rate \in Rates \cup {0} :
            Land(UpdateIxs(id, i, automatic, rate), i)
      BY <1>8 DEF Update
    <2>2. \E d : Revises(id, d) /\ proxies' = proxies
      BY <2>1, UpdateRevises
    <2> QED
      BY <1>2, <2>1, <2>2 DEF Step
  <1>9. ASSUME NEW id \in DOMAIN streams, AlignedUpdate(id) PROVE Step /\ QueryRight'
    <2>1. Watched
      BY <1>9 DEF AlignedUpdate
    <2>2. \E d : Revises(id, d) /\ proxies' = proxies
      BY <1>9, AlignedUpdateRevises
    <2> QED
      BY <1>1, <2>1, <2>2, WatchedIsRight DEF Step
  <1>10. CASE CloseAccount
    <2>1. Quiet /\ query' = query
      BY <1>10 DEF CloseAccount, Quiet
    <2> QED
      BY <1>1, <2>1 DEF Step, QueryRight
  <1>11. CASE Tick
    <2>1. query' = query
      BY <1>11 DEF Tick
    <2> QED
      BY <1>1, <1>11, <2>1 DEF Step, QueryRight
  <1>12. CASE Get
    <2>1. Quiet
      BY <1>12 DEF Get, Quiet
    <2>2. PICK q \in Queries : \E todo, always, ever :
            query' = Merged(q, [active |-> TRUE, todo |-> todo, found |-> <<>>,
                                decoded |-> <<>>, always |-> always, ever |-> ever])
      BY <1>12 DEF Get
    <2>3. PICK todo, always, ever :
            query' = Merged(q, [active |-> TRUE, todo |-> todo, found |-> <<>>,
                                decoded |-> <<>>, always |-> always, ever |-> ever])
      BY <2>2
    <2>g. PICK g : g = [active |-> TRUE, todo |-> todo, found |-> <<>>,
                        decoded |-> <<>>, always |-> always, ever |-> ever]
      OBVIOUS
    <2>4. query' = Merged(q, g) /\ "active" \in DOMAIN g /\ g["active"] = TRUE
      BY <2>3, <2>g
    <2>5. "active" \notin DOMAIN q
      BY StreamsAssumption
    <2>6. "active" \in DOMAIN query' /\ query'["active"] = TRUE
      BY <2>4, <2>5 DEF Merged
    <2> QED
      BY <2>1, <2>6 DEF Step, QueryRight
  <1>13. CASE ReadNext
    BY <1>1, <1>13, ReadIsRight DEF Step
  <1>14. CASE Return
    <2>1. Quiet /\ query' = NoQuery
      BY <1>14 DEF Return, Quiet
    <2> QED
      BY <2>1 DEF Step, QueryRight, NoQuery
  <1> QED
    BY <1>3, <1>4, <1>5, <1>6, <1>7, <1>8, <1>9, <1>10, <1>11, <1>12, <1>13, <1>14
       DEF Next, Operate


LEMMA QuietStep ==
    ASSUME IInv, Quiet, QueryRight'
    PROVE  IInv'
  BY DEF IInv, Quiet, StreamsRight, ProxiesRight, Aligned

LEMMA RevisedStreams ==
    ASSUME IInv, NEW id \in DOMAIN streams, NEW d, Revises(id, d)
    PROVE  /\ DOMAIN streams' = DOMAIN streams /\ streams'[id] = d /\ id \in Ids
           /\ \A i \in DOMAIN streams \ {id} : streams'[i] = streams[i]
           /\ (now \in 1..MaxTime)' /\ StreamsRight'
           /\ \A i \in DOMAIN streams : Aligned(i)' = Aligned(i)
  <1>1. /\ DOMAIN streams' = DOMAIN streams /\ streams'[id] = d
        /\ \A i \in DOMAIN streams \ {id} : streams'[i] = streams[i]
    BY DEF Revises
  <1>2. now' = now /\ id \in Ids
    BY DEF Revises, IInv, StreamsRight
  <1>3. \A i \in DOMAIN streams : IsStream(i, streams'[i], now)
    BY <1>1 DEF IInv, StreamsRight, Revises
  <1>4. StreamsRight'
    BY <1>1, <1>2, <1>3 DEF IInv, StreamsRight
  <1>5. \A i \in DOMAIN streams : streams'[i].sender = streams[i].sender
    BY <1>1 DEF Revises, SameKind
  <1>6. \A i \in DOMAIN streams : Aligned(i)' = Aligned(i)
    BY <1>5 DEF Aligned
  <1> QED
    BY <1>1, <1>2, <1>4, <1>6 DEF IInv

LEMMA RevisesStep ==
    ASSUME IInv, NEW id \in DOMAIN streams, NEW d, Revises(id, d), proxies' = proxies, QueryRight'
    PROVE  IInv'
  <1>1. /\ DOMAIN streams' = DOMAIN streams /\ (now \in 1..MaxTime)' /\ StreamsRight'
        /\ \A i \in DOMAIN streams : Aligned(i)' = Aligned(i)
    BY RevisedStreams
  <1>2. ProxiesRight'
    BY <1>1 DEF IInv, ProxiesRight
  <1> QED
    BY <1>1, <1>2 DEF IInv

LEMMA ContractsDiffer ==
    ASSUME NEW i, NEW j, ContractPDA(i) = ContractPDA(j)
    PROVE  i = j
  BY DEF ContractPDA

LEMMA CancelsStep ==
    ASSUME IInv, NEW id \in DOMAIN streams, NEW d, NEW p, Cancels(id, d, p), QueryRight'
    PROVE  IInv'
  <1>1. /\ DOMAIN streams' = DOMAIN streams /\ (now \in 1..MaxTime)' /\ StreamsRight'
        /\ \A i \in DOMAIN streams : Aligned(i)' = Aligned(i)
    BY RevisedStreams DEF Cancels
  <1>2. DOMAIN proxies' = DOMAIN proxies
    BY DEF Cancels
  <1>3. ASSUME NEW i \in DOMAIN streams, Aligned(i)
        PROVE  IsProxy(i, proxies'[ContractPDA(i)])
    <2>1. ContractPDA(i) \in DOMAIN proxies /\ IsProxy(i, proxies[ContractPDA(i)])
      BY <1>3 DEF IInv, ProxiesRight
    <2>2. CASE i = id
      BY <2>1, <2>2 DEF Cancels
    <2>3. CASE i # id
      <3>1. ContractPDA(i) # ContractPDA(id)
        BY <2>3, ContractsDiffer
      <3>2. proxies'[ContractPDA(i)] = proxies[ContractPDA(i)]
        BY <2>1, <3>1 DEF Cancels
      <3> QED
        BY <2>1, <3>2
    <2> QED
      BY <2>2, <2>3
  <1>4. ProxiesRight'
    BY <1>1, <1>2, <1>3 DEF IInv, ProxiesRight
  <1> QED
    BY <1>1, <1>4 DEF IInv

LEMMA AddedStreams ==
    ASSUME IInv, NEW id \in Ids \ DOMAIN streams, NEW d, IsStream(id, d, now),
           streams' = Stored(streams, id, d), now' = now
    PROVE  /\ DOMAIN streams' = DOMAIN streams \cup {id} /\ streams'[id] = d
           /\ \A i \in DOMAIN streams : streams'[i] = streams[i]
           /\ (now \in 1..MaxTime)' /\ StreamsRight'
           /\ \A i \in DOMAIN streams : Aligned(i)' = Aligned(i)
  <1>1. /\ DOMAIN streams' = DOMAIN streams \cup {id} /\ streams'[id] = d
        /\ \A i \in DOMAIN streams : streams'[i] = streams[i]
    BY DEF Stored
  <1>2. \A i \in DOMAIN streams' : IsStream(i, streams'[i], now)
    BY <1>1 DEF IInv, StreamsRight
  <1>3. StreamsRight'
    BY <1>1, <1>2 DEF IInv, StreamsRight
  <1>4. \A i \in DOMAIN streams : Aligned(i)' = Aligned(i)
    BY <1>1 DEF Aligned
  <1> QED
    BY <1>1, <1>3, <1>4 DEF IInv

LEMMA AddsStep ==
    ASSUME IInv, NEW id, NEW d, Adds(id, d), QueryRight'
    PROVE  IInv'
  <1>1. /\ DOMAIN streams' = DOMAIN streams \cup {id} /\ streams'[id] = d
        /\ (now \in 1..MaxTime)' /\ StreamsRight'
        /\ \A i \in DOMAIN streams : Aligned(i)' = Aligned(i)
    BY AddedStreams DEF Adds
  <1>2. ~Aligned(id)'
    BY <1>1 DEF Adds, Aligned, IsAlignedUnlock
  <1>3. proxies' = proxies
    BY DEF Adds
  <1>4. {i \in DOMAIN streams' : Aligned(i)'} = {i \in DOMAIN streams : Aligned(i)}
    BY <1>1, <1>2
  <1>5. ProxiesRight'
    BY <1>1, <1>2, <1>3, <1>4 DEF IInv, ProxiesRight
  <1> QED
    BY <1>1, <1>5 DEF IInv

LEMMA AddsAlignedStep ==
    ASSUME IInv, NEW id, NEW d, NEW p, AddsAligned(id, d, p), QueryRight'
    PROVE  IInv'
  <1>1. /\ DOMAIN streams' = DOMAIN streams \cup {id} /\ streams'[id] = d
        /\ (now \in 1..MaxTime)' /\ StreamsRight'
        /\ \A i \in DOMAIN streams : Aligned(i)' = Aligned(i)
    BY AddedStreams DEF AddsAligned
  <1>2. Aligned(id)'
    BY <1>1 DEF AddsAligned, Aligned, IsAlignedUnlock
  <1>3. /\ DOMAIN proxies' = DOMAIN proxies \cup {ContractPDA(id)}
        /\ proxies'[ContractPDA(id)] = p /\ IsProxy(id, p)
        /\ \A a \in DOMAIN proxies \ {ContractPDA(id)} : proxies'[a] = proxies[a]
    BY DEF AddsAligned, Stored
  <1>4. {i \in DOMAIN streams' : Aligned(i)'} = {i \in DOMAIN streams : Aligned(i)} \cup {id}
    BY <1>1, <1>2
  <1>5. DOMAIN proxies' = {ContractPDA(i) : i \in {j \in DOMAIN streams' : Aligned(j)'}}
    BY <1>3, <1>4 DEF IInv, ProxiesRight
  <1>6. ASSUME NEW i \in DOMAIN streams, Aligned(i)
        PROVE  IsProxy(i, proxies'[ContractPDA(i)])
    <2>1. ContractPDA(i) \in DOMAIN proxies /\ IsProxy(i, proxies[ContractPDA(i)])
      BY <1>6 DEF IInv, ProxiesRight
    <2>2. i # id
      BY DEF AddsAligned
    <2>3. ContractPDA(i) # ContractPDA(id)
      BY <2>2, ContractsDiffer
    <2> QED
      BY <1>3, <2>1, <2>3
  <1>7. ProxiesRight'
    BY <1>1, <1>3, <1>5, <1>6 DEF ProxiesRight
  <1> QED
    BY <1>1, <1>7 DEF IInv

LEMMA TickedStreams ==
    ASSUME IInv, Tick
    PROVE  /\ now' \in 1..MaxTime /\ DOMAIN streams' = DOMAIN streams
           /\ \A id \in DOMAIN streams : /\ IsStream(id, streams'[id], now')
                                         /\ streams'[id] = Passed(streams[id], now')
                                         /\ streams'[id].sender = streams[id].sender
           /\ proxies' = proxies
  <1>1. PICK u : u = now'
    OBVIOUS
  <1>2. /\ now \in 1..MaxTime /\ u = now + 1 /\ u \in 1..MaxTime
    BY <1>1, ChainAssumption DEF IInv, Tick
  <1>3. /\ DOMAIN streams' = DOMAIN streams /\ proxies' = proxies
        /\ \A id \in DOMAIN streams : streams'[id] = Passed(streams[id], u)
    BY <1>1 DEF Tick
  <1>4. ASSUME NEW id \in DOMAIN streams
        PROVE  IsStream(id, streams'[id], u) /\ streams'[id].sender = streams[id].sender
    <2>1. PICK s, d : s = streams[id] /\ d = streams'[id]
      OBVIOUS
    <2>2. IsStream(id, s, now) /\ d = Passed(s, u)
      BY <1>3, <2>1 DEF IInv, StreamsRight
    <2>3. IsStream(id, d, u) /\ d.sender = s.sender
      BY <1>2, <2>2, PassedIsStream
    <2> QED
      BY <2>1, <2>3
  <1> QED
    BY <1>1, <1>2, <1>3, <1>4

LEMMA TickStep ==
    ASSUME IInv, Tick, QueryRight'
    PROVE  IInv'
  <1>1. StreamsRight'
    BY TickedStreams DEF IInv, StreamsRight
  <1>2. \A i \in DOMAIN streams : Aligned(i)' = Aligned(i)
    BY TickedStreams DEF Aligned
  <1>3. ProxiesRight'
    BY <1>2, TickedStreams DEF IInv, ProxiesRight
  <1> QED
    BY <1>1, <1>3, TickedStreams DEF IInv

LEMMA Invariance ==
    ASSUME IInv, [Next]_vars
    PROVE  IInv'
  <1>1. CASE Next
    <2>1. Step /\ QueryRight'
      BY <1>1, NextSteps
    <2> QED
      BY <2>1, QuietStep, RevisesStep, CancelsStep, AddsStep, AddsAlignedStep, TickStep DEF Step
  <1>2. CASE UNCHANGED vars
    <2>1. Quiet /\ query' = query
      BY <1>2 DEF vars, Quiet
    <2>2. QueryRight'
      BY <2>1 DEF IInv, QueryRight
    <2> QED
      BY <2>1, <2>2, QuietStep
  <1> QED
    BY <1>1, <1>2

LEMMA Initially ==
    ASSUME Init
    PROVE  IInv
  <1>1. now \in 1..MaxTime
    BY ChainAssumption DEF Init
  <1>2. streams = <<>> /\ proxies = <<>> /\ DOMAIN streams = {} /\ DOMAIN proxies = {}
    BY DEF Init
  <1>3. QueryRight
    BY DEF Init, QueryRight, NoQuery
  <1> QED
    BY <1>1, <1>2, <1>3 DEF IInv, StreamsRight, ProxiesRight


LEMMA Always ==
    Spec => []IInv
  <1>1. Init => IInv
    BY Initially
  <1>2. IInv /\ [Next]_vars => IInv'
    BY Invariance
  <1> QED
    BY <1>1, <1>2, PTL DEF Spec

-----------------------------------------------------------------------------
LEMMA StreamTyped ==
    ASSUME NEW id, NEW s, NEW t, IsStream(id, s, t)
    PROVE  AccountsOf(id, s)
  BY StreamsAssumption, ScheduleAssumption DEF IsStream, Parties, Amounts, AccountsOf

LEMMA InvariantTyped ==
    ASSUME IInv
    PROVE  TypeOK
  <1>1. \A id \in DOMAIN streams : AccountsOf(id, streams[id])
    BY StreamTyped DEF IInv, StreamsRight
  <1>2. ASSUME NEW p \in DOMAIN proxies
        PROVE  proxies[p].sender \in Senders /\ ContractPDA(proxies[p].stream) = p
    <2>1. PICK id \in DOMAIN streams : Aligned(id) /\ p = ContractPDA(id)
      BY DEF IInv, ProxiesRight
    <2> QED
      BY <2>1 DEF IInv, ProxiesRight, IsProxy
  <1> QED
    BY <1>1, <1>2 DEF TypeOK, IInv, StreamsRight, ProxiesRight, QueryRight, Aligned

(* Whoever operates on a stream and in whatever order, its accounts stay   *)
(* those of its sender, its recipient and its escrow; what is withdrawn    *)
(* and what was unlocked at a change of the rate is within the deposit;    *)
(* and an aligned stream, and no other, has a contract, which names it and *)
(* the wallet that created it.                                             *)
THEOREM StreamsTypeCorrect == Spec => []TypeOK
  <1>1. IInv => TypeOK
    BY InvariantTyped
  <1> QED
    BY <1>1, Always, PTL

(* calculateUnlockedAmount: what a client computes from the account alone  *)
(* is what the program has unlocked, period by period, at every time,      *)
(* for any cliff, period, rate and deposit, after any sequence of top-ups, *)
(* withdrawals and changes of the rate inside a period.                    *)
THEOREM UnlockedExactCorrect == Spec => []UnlockedIsExact
  <1>1. ASSUME IInv PROVE UnlockedIsExact
    <2> SUFFICES ASSUME NEW id \in DOMAIN streams
                 PROVE  Unlocked(streams[id], now) = Least(streams[id].accrued, streams[id].deposited)
      BY DEF UnlockedIsExact
    <2>1. PICK s, t : s = streams[id] /\ t = now
      OBVIOUS
    <2>2. Amounts(s) /\ Counted(s, t)
      BY <1>1, <2>1 DEF IInv, StreamsRight, IsStream
    <2>3. t \in Nat /\ t <= MaxTime
      BY <1>1, <2>1, ChainAssumption DEF IInv
    <2> QED
      BY <2>1, <2>2, <2>3, CountedIsUnlocked
  <1> QED
    BY <1>1, Always, PTL


-----------------------------------------------------------------------------
(* The type of a stream.                                                   *)
LEMMA TypeKept ==
    ASSUME NEW s, NEW d, SameKind(s, d), d.automaticWithdrawal = s.automaticWithdrawal,
           NEW p, NEW q, SameOffer(p, q)
    PROVE  StreamType(d, q) = StreamType(s, p)
  <1>1. IsDynamicLock(q) <=> IsDynamicLock(p)
    BY Zenon DEF IsDynamicLock, SameOffer
  <1>2. CASE d.deposited = s.deposited
    <2>1. IsCliffClose(d) <=> IsCliffClose(s)
      BY <1>2, Zenon DEF IsCliffClose, SameKind
    <2>2. IsVesting(d, q) <=> IsVesting(s, p)
      BY <1>1, <2>1, Zenon DEF IsVesting, SameKind
    <2>3. IsTokenLock(d, q) <=> IsTokenLock(s, p)
      BY <1>1, <2>1, Zenon DEF IsTokenLock, SameKind
    <2> QED
      BY <2>2, <2>3, Zenon DEF StreamType
  <1>3. CASE s.canTopup
    <2>1. s.canTopup /\ d.canTopup
      BY <1>3, Zenon DEF SameKind
    <2>2. ~IsVesting(d, q) /\ ~IsVesting(s, p) /\ ~IsTokenLock(d, q) /\ ~IsTokenLock(s, p)
      BY <2>1, Zenon DEF IsVesting, IsTokenLock
    <2> QED
      BY <2>2, Zenon DEF StreamType
  <1> QED
    BY <1>2, <1>3, Zenon DEF SameKind

(* What a client shows of a stream before and after a step.                *)
KeepsType(id) ==
    LET before == View(streams, proxies, id)
        after == View(streams', proxies', id)
    IN  /\ after.sender = before.sender
        /\ streams'[id].automaticWithdrawal = streams[id].automaticWithdrawal
              => after.type = before.type

LEMMA ViewKept ==
    ASSUME NEW id, SameKind(streams[id], streams'[id]),
           Aligned(id) => SameOffer(proxies[ContractPDA(id)], proxies'[ContractPDA(id)])
    PROVE  KeepsType(id)
  <1>1. PICK s, d : s = streams[id] /\ d = streams'[id]
    OBVIOUS
  <1>2. SameKind(s, d) /\ d.sender = s.sender
    BY <1>1 DEF SameKind
  <1>3. CASE Aligned(id)
    <2>1. PICK p, q : p = proxies[ContractPDA(id)] /\ q = proxies'[ContractPDA(id)]
      OBVIOUS
    <2>2. SameOffer(p, q) /\ q.sender = p.sender
      BY <1>3, <2>1 DEF SameOffer
    <2>3. IsAlignedUnlock(id, s.sender) /\ IsAlignedUnlock(id, d.sender)
      BY <1>1, <1>2, <1>3 DEF Aligned
    <2>4. /\ View(streams, proxies, id) = AlignedContract(s, p)
          /\ View(streams', proxies', id) = AlignedContract(d, q)
      BY <1>1, <2>1, <2>3 DEF View
    <2>5. /\ AlignedContract(s, p).sender = p.sender
          /\ AlignedContract(s, p).type = StreamType(s, p)
          /\ AlignedContract(d, q).sender = q.sender
          /\ AlignedContract(d, q).type = StreamType(d, q)
      BY DEF AlignedContract
    <2> QED
      BY <1>1, <1>2, <2>2, <2>4, <2>5, TypeKept DEF KeepsType
  <1>4. CASE ~Aligned(id)
    <2>1. ~IsAlignedUnlock(id, s.sender) /\ ~IsAlignedUnlock(id, d.sender)
      BY <1>1, <1>2, <1>4 DEF Aligned
    <2>2. /\ View(streams, proxies, id) = Contract(s)
          /\ View(streams', proxies', id) = Contract(d)
      BY <1>1, <2>1 DEF View
    <2>3. /\ Contract(s).sender = s.sender /\ Contract(s).type = StreamType(s, NoPrices)
          /\ Contract(d).sender = d.sender /\ Contract(d).type = StreamType(d, NoPrices)
      BY DEF Contract
    <2>4. PICK none : none = NoPrices
      OBVIOUS
    <2>5. SameOffer(none, none)
      BY DEF SameOffer
    <2> QED
      BY <1>1, <1>2, <2>2, <2>3, <2>4, <2>5, TypeKept DEF KeepsType
  <1> QED
    BY <1>3, <1>4

LEMMA PassedKind ==
    ASSUME NEW id, NEW s, NEW t, IsStream(id, s, t), NEW u
    PROVE  SameKind(s, Passed(s, u))
  <1>1. PICK d : d = Passed(s, u)
    OBVIOUS
  <1>2. \/ d = [s EXCEPT !.accrued = s.deposited]
        \/ d = [s EXCEPT !.accrued = s.cliffAmount, !.nextUnlock = u + s.period]
        \/ d = [s EXCEPT !.accrued = @ + s.amountPerPeriod, !.nextUnlock = u + s.period]
        \/ d = s
    BY <1>1 DEF Passed
  <1>3. /\ \A f \in StreamFields \ {"accrued", "nextUnlock"} : d[f] = s[f]
        /\ DOMAIN s = StreamFields
    BY <1>2 DEF IsStream, StreamFields
  <1>4. \A f \in StreamFields \ {"automaticWithdrawal", "amountPerPeriod", "lastRateChangeTime",
               "fundsUnlockedAtLastRateChange", "accrued", "nextUnlock", "end", "recipient",
               "recipientTokens", "withdrawn", "canceledAt", "deposited"} : d[f] = s[f]
    BY <1>3
  <1>5. d.deposited = s.deposited
    BY <1>3 DEF StreamFields
  <1> QED
    BY <1>1, <1>3, <1>4, <1>5, Kept

LEMMA StepKeepsKind ==
    ASSUME IInv, [Next]_vars, NEW id \in DOMAIN streams
    PROVE  /\ id \in DOMAIN streams' /\ SameKind(streams[id], streams'[id])
           /\ Aligned(id) => SameOffer(proxies[ContractPDA(id)], proxies'[ContractPDA(id)])
  <1> DEFINE c == ContractPDA(id)
  <1>1. \A s : SameKind(s, s) /\ SameOffer(s, s)
    BY DEF SameKind, SameOffer
  <1>2. Aligned(id) => c \in DOMAIN proxies
    BY DEF IInv, ProxiesRight
  <1> HIDE DEF c
  <1>3. SUFFICES /\ id \in DOMAIN streams' /\ SameKind(streams[id], streams'[id])
                 /\ Aligned(id) => SameOffer(proxies[c], proxies'[c])
    BY DEF c
  <1>4. CASE Quiet
    BY <1>1, <1>4 DEF Quiet
  <1>5. ASSUME NEW i \in DOMAIN streams, NEW d, Revises(i, d)
        PROVE  id \in DOMAIN streams' /\ SameKind(streams[id], streams'[id])
    BY <1>1, <1>5, RevisedStreams DEF Revises
  <1>6. ASSUME NEW i \in DOMAIN streams, NEW d, NEW p, Cancels(i, d, p)
        PROVE  /\ id \in DOMAIN streams' /\ SameKind(streams[id], streams'[id])
               /\ Aligned(id) => SameOffer(proxies[c], proxies'[c])
    <2>1. id \in DOMAIN streams' /\ SameKind(streams[id], streams'[id])
      BY <1>5, <1>6 DEF Cancels
    <2>2. ASSUME Aligned(id) PROVE SameOffer(proxies[c], proxies'[c])
      BY <1>1, <1>2, <1>6, <2>2 DEF Cancels
    <2> QED
      BY <2>1, <2>2
  <1>7. ASSUME NEW i, NEW d, Adds(i, d)
        PROVE  /\ id \in DOMAIN streams' /\ SameKind(streams[id], streams'[id])
               /\ Aligned(id) => SameOffer(proxies[c], proxies'[c])
    BY <1>1, <1>7, AddedStreams DEF Adds
  <1>8. ASSUME NEW i, NEW d, NEW p, AddsAligned(i, d, p)
        PROVE  /\ id \in DOMAIN streams' /\ SameKind(streams[id], streams'[id])
               /\ Aligned(id) => SameOffer(proxies[c], proxies'[c])
    <2>1. id \in DOMAIN streams' /\ SameKind(streams[id], streams'[id])
      BY <1>1, <1>8, AddedStreams DEF AddsAligned
    <2>2. c # ContractPDA(i)
      BY <1>8, ContractsDiffer DEF AddsAligned, c
    <2>3. ASSUME Aligned(id) PROVE proxies'[c] = proxies[c]
      BY <1>2, <1>8, <2>2, <2>3 DEF AddsAligned, Stored
    <2> QED
      BY <1>1, <2>1, <2>3
  <1>9. CASE Tick
    <2>1. PICK s : s = streams[id]
      OBVIOUS
    <2>2. IsStream(id, s, now) /\ streams'[id] = Passed(s, now') /\ proxies' = proxies
      BY <1>9, <2>1, TickedStreams DEF IInv, StreamsRight
    <2>3. SameKind(s, Passed(s, now'))
      BY <2>2, PassedKind
    <2>4. id \in DOMAIN streams'
      BY <1>9, TickedStreams
    <2> QED
      BY <1>1, <2>1, <2>2, <2>3, <2>4
  <1>10. CASE Next
    <2>1. Step
      BY <1>10, NextSteps
    <2>2. ASSUME NEW i \in DOMAIN streams, NEW d, Revises(i, d), proxies' = proxies
          PROVE  /\ id \in DOMAIN streams' /\ SameKind(streams[id], streams'[id])
                 /\ Aligned(id) => SameOffer(proxies[c], proxies'[c])
      BY <1>1, <1>5, <2>2
    <2> QED
      BY <1>4, <1>6, <1>7, <1>8, <1>9, <2>1, <2>2 DEF Step
  <1>11. CASE UNCHANGED vars
    <2>1. Quiet
      BY <1>11 DEF vars, Quiet
    <2> QED
      BY <1>4, <2>1
  <1> QED
    BY <1>10, <1>11

LEMMA StepKeepsType ==
    ASSUME IInv, [Next]_vars, NEW id \in DOMAIN streams
    PROVE  KeepsType(id)
  BY StepKeepsKind, ViewKept

(* buildStreamType: no operation of anybody, and no passing of time,       *)
(* changes the sender or the type that is shown of a stream, for any       *)
(* amounts, rates and prices; only setting automatic withdrawal does.      *)
THEOREM KeepsTypeCorrect == Spec => KeepsItsType
  <1>1. IInv /\ [Next]_vars =>
          [\A id \in DOMAIN streams :
             LET before == View(streams, proxies, id)
                 after == View(streams', proxies', id)
             IN  /\ after.sender = before.sender
                 /\ streams'[id].automaticWithdrawal = streams[id].automaticWithdrawal
                       => after.type = before.type]_vars
    BY StepKeepsType DEF KeepsType
  <1> QED
    BY <1>1, Always, PTL DEF Spec, KeepsItsType

-----------------------------------------------------------------------------
(* Where the fields of a stream account start.                             *)
StreamSizes == <<8, 1, 8, 8, 8, 8, 8, 32, 32, 32, 32, 32, 32, 32, 32, 20, 32, 32, 20, 8,
                8, 8, 8, 8, 8, 6, 64, 8, 4, 1, 1, 130, 1>>
StreamStarts == <<0, 8, 9, 17, 25, 33, 41, 49, 81, 113, 145, 177, 209, 241, 273, 305, 325,
                 357, 389, 409, 417, 425, 433, 441, 449, 457, 463, 527, 535, 539, 540, 541, 671>>

LEMMA LayoutSizes ==
    Len(StreamLayout) = 33 /\ \A i \in 1..33 : StreamLayout[i][2] = StreamSizes[i]
  BY DEF StreamLayout, StreamSizes

LEMMA LayoutStarts ==
    \A i \in 1..33 : StartOf[i] = StreamStarts[i]
  <1> DEFINE T == [i \in 1..33 |-> StreamStarts[i]]
             Unfolds(f) == f = [i \in 1..Len(StreamLayout) |->
                                  IF i = 1 THEN 0 ELSE f[i - 1] + StreamLayout[i - 1][2]]
  <1>1. \A i \in 2..33 : StreamStarts[i] = StreamStarts[i - 1] + StreamSizes[i - 1]
    BY DEF StreamStarts, StreamSizes
  <1>2. StreamStarts[1] = 0
    BY DEF StreamStarts
  <1>3. Unfolds(T)
    <2>1. ASSUME NEW i \in 1..33
          PROVE  T[i] = IF i = 1 THEN 0 ELSE T[i - 1] + StreamLayout[i - 1][2]
      BY <1>1, <1>2, LayoutSizes
    <2> QED
      BY <2>1, LayoutSizes
  <1>4. StartOf = CHOOSE f : Unfolds(f)
    BY DEF StartOf
  <1> HIDE DEF T, Unfolds
  <1>5. Unfolds(StartOf)
    BY <1>3, <1>4
  <1>6. StartOf[1] = 0 /\ \A i \in 2..33 : StartOf[i] = StartOf[i - 1] + StreamSizes[i - 1]
    <2>1. StartOf = [i \in 1..33 |-> IF i = 1 THEN 0 ELSE StartOf[i - 1] + StreamLayout[i - 1][2]]
      BY <1>5, LayoutSizes DEF Unfolds
    <2>2. ASSUME NEW i \in 2..33 PROVE StartOf[i] = StartOf[i - 1] + StreamSizes[i - 1]
      BY <2>1, LayoutSizes
    <2> QED
      BY <2>1, <2>2
  <1> DEFINE Good == {n \in Nat : n + 1 \in 1..33 => StartOf[n + 1] = StreamStarts[n + 1]}
  <1>7. 0 \in Good
    BY <1>2, <1>6
  <1>8. ASSUME NEW n \in Nat, n \in Good PROVE n + 1 \in Good
    <2>1. SUFFICES ASSUME (n + 1) + 1 \in 1..33
                   PROVE  StartOf[(n + 1) + 1] = StreamStarts[(n + 1) + 1]
      OBVIOUS
    <2>2. n + 1 \in 1..33 /\ (n + 1) + 1 \in 2..33 /\ ((n + 1) + 1) - 1 = n + 1
      BY <2>1
    <2> QED
      BY <1>1, <1>6, <1>8, <2>2
  <1> HIDE DEF Good
  <1>9. ASSUME NEW i \in 1..33 PROVE StartOf[i] = StreamStarts[i]
    <2>1. i - 1 \in Nat /\ (i - 1) + 1 = i
      OBVIOUS
    <2>2. i - 1 \in Good
      BY <1>7, <1>8, <2>1, Inductive
    <2> QED
      BY <2>1, <2>2 DEF Good
  <1> QED
    BY <1>9

LEMMA FieldsByOffset ==
    FieldAt(OffsetSender) = "sender" /\ FieldAt(OffsetRecipient) = "recipient"
  <1>1. DOMAIN StreamLayout = 1..33 /\ StreamLayout[8][1] = "sender" /\ StreamLayout[10][1] = "recipient"
    BY DEF StreamLayout
  <1>2. \A i \in 1..33 : /\ StreamStarts[i] = 49 <=> i = 8
                         /\ StreamStarts[i] = 113 <=> i = 10
    BY DEF StreamStarts
  <1>3. (CHOOSE i \in 1..33 : StartOf[i] = 49) = 8 /\ (CHOOSE i \in 1..33 : StartOf[i] = 113) = 10
    BY <1>2, LayoutStarts
  <1> QED
    BY <1>1, <1>3 DEF FieldAt, OffsetSender, OffsetRecipient

-----------------------------------------------------------------------------
(* What a call of get has found so far lies between what it must find and  *)
(* what it may find.                                                       *)
QueryFields == {"address", "type", "direction", "active", "todo", "found", "decoded",
                "always", "ever"}
ReadNames == {"outgoing", "proxies", "aligned", "incoming", "incoming proxies"}

Matches(q, type) == q.type \in {"all", type}

AlignedIn(ss, id) == IsAlignedUnlock(id, ss[id].sender)

At(q, read) == q.todo # <<>> /\ Head(q.todo) = read
Left(q, read) == \E i \in 1..Len(q.todo) : q.todo[i] = read

(* The read that finds a stream.                                           *)
Sent(ss, ps, q, id) == q.direction # "incoming" /\ View(ss, ps, id).sender = q.address
Reader(ss, ps, q, id) ==
    IF Sent(ss, ps, q, id) THEN (IF AlignedIn(ss, id) THEN "aligned" ELSE "outgoing")
    ELSE IF AlignedIn(ss, id) THEN "incoming proxies" ELSE "incoming"

QueryTyped(q) ==
    /\ DOMAIN q = QueryFields /\ q.active = TRUE
    /\ q.address \in Senders \cup Recipients
    /\ q.type \in {"all", "payment", "vesting", "lock"}
    /\ q.direction \in {"all", "outgoing", "incoming"}

(* Proxies are read right before the streams that need them.               *)
TodoRight(q) ==
    /\ q.todo \in Seq(ReadNames)
    /\ \A i \in 1..Len(q.todo) :
         /\ q.todo[i] = "outgoing" => i = 1 /\ q.direction # "incoming"
         /\ q.todo[i] \in {"proxies", "aligned"} => ShouldFetchAligned(q) /\ q.direction # "incoming"
         /\ q.todo[i] = "incoming" => q.direction # "outgoing"
         /\ q.todo[i] = "incoming proxies" => ShouldFetchAligned(q) /\ q.direction # "outgoing"
         /\ q.todo[i] = "aligned" /\ i > 1 => q.todo[i - 1] = "proxies"
         /\ q.todo[i] = "incoming proxies" /\ i > 1 => q.todo[i - 1] = "incoming"

Bounded(ss, ps, q) == q.always \subseteq Asked(ss, ps, q) /\ Asked(ss, ps, q) \subseteq q.ever

FoundSound(ss, ps, q) ==
    \A id \in DOMAIN q.found :
        /\ id \in DOMAIN ss /\ q.found[id].sender = View(ss, ps, id).sender
        /\ Matches(q, q.found[id].type) => id \in q.ever

HasFound(q, id) == id \in DOMAIN q.found /\ Matches(q, q.found[id].type)
FoundAll(ss, ps, q) ==
    \A id \in q.always : HasFound(q, id) \/ Left(q, Reader(ss, ps, q, id))

Unread(q) == At(q, "outgoing") => DOMAIN q.found = {}

(* Between the read of the proxies and that of their streams.              *)
OffersRead(ss, ps, q) ==
    At(q, "aligned") =>
        /\ \A id \in DOMAIN q.decoded :
             /\ id \in DOMAIN ss /\ AlignedIn(ss, id) /\ q.decoded[id].sender = q.address
             /\ SameOffer(ps[ContractPDA(id)], q.decoded[id])
        /\ \A id \in q.always : Reader(ss, ps, q, id) = "aligned" => id \in DOMAIN q.decoded

(* Between the read of incoming streams and that of their proxies.         *)
StreamsRead(ss, ps, q) ==
    At(q, "incoming proxies") =>
        /\ \A id \in DOMAIN q.decoded :
             LET type == StreamType(q.decoded[id], ps[ContractPDA(id)]) IN
             /\ id \in DOMAIN ss /\ AlignedIn(ss, id)
             /\ Matches(q, type) => id \in q.ever
             /\ id \in q.always => Matches(q, type)
        /\ \A id \in q.always : Reader(ss, ps, q, id) = "incoming proxies" => id \in DOMAIN q.decoded

Known(ss, ps, q) ==
    /\ QueryTyped(q) /\ TodoRight(q) /\ Bounded(ss, ps, q) /\ FoundSound(ss, ps, q)
    /\ FoundAll(ss, ps, q) /\ Unread(q) /\ OffersRead(ss, ps, q) /\ StreamsRead(ss, ps, q)

(* The same call of get.                                                   *)
SameCall(q, r) == r.address = q.address /\ r.type = q.type /\ r.direction = q.direction

LEMMA Views ==
    ASSUME NEW ss, NEW ps, NEW id
    PROVE  /\ View(ss, ps, id).recipient = ss[id].recipient
           /\ AlignedIn(ss, id) =>
                /\ View(ss, ps, id).sender = ps[ContractPDA(id)].sender
                /\ View(ss, ps, id).type = StreamType(ss[id], ps[ContractPDA(id)])
           /\ ~AlignedIn(ss, id) =>
                /\ View(ss, ps, id).sender = ss[id].sender
                /\ View(ss, ps, id).type = StreamType(ss[id], NoPrices)
  BY DEF View, AlignedIn, AlignedContract, Contract

LEMMA AskedFor ==
    ASSUME NEW ss, NEW ps, NEW q, NEW id
    PROVE  id \in Asked(ss, ps, q) <=>
             /\ id \in DOMAIN ss
             /\ \/ Sent(ss, ps, q, id)
                \/ q.direction # "outgoing" /\ ss[id].recipient = q.address
             /\ Matches(q, View(ss, ps, id).type)
             /\ AlignedIn(ss, id) => ShouldFetchAligned(q)
  <1>1. View(ss, ps, id).recipient = ss[id].recipient
    BY Views
  <1> QED
    BY <1>1 DEF Asked, Sent, Matches, AlignedIn

LEMMA SameAnswers ==
    ASSUME NEW ss, NEW ps, NEW q, NEW r, SameCall(q, r)
    PROVE  /\ Asked(ss, ps, r) = Asked(ss, ps, q)
           /\ \A id : Reader(ss, ps, r, id) = Reader(ss, ps, q, id)
           /\ \A type : Matches(r, type) <=> Matches(q, type)
           /\ ShouldFetchAligned(r) <=> ShouldFetchAligned(q)
  <1>1. ShouldFetchAligned(r) <=> ShouldFetchAligned(q)
    BY DEF SameCall, ShouldFetchAligned
  <1>2. \A type : Matches(r, type) <=> Matches(q, type)
    BY DEF SameCall, Matches
  <1>3. \A id : Sent(ss, ps, r, id) <=> Sent(ss, ps, q, id)
    BY DEF SameCall, Sent
  <1>4. \A id : Reader(ss, ps, r, id) = Reader(ss, ps, q, id)
    BY <1>3 DEF Reader
  <1>5. \A id : id \in Asked(ss, ps, r) <=> id \in Asked(ss, ps, q)
    BY <1>1, <1>2, <1>3, AskedFor DEF SameCall
  <1>6. Asked(ss, ps, r) = Asked(ss, ps, q)
    <2>1. Asked(ss, ps, r) \subseteq DOMAIN ss /\ Asked(ss, ps, q) \subseteq DOMAIN ss
      BY DEF Asked
    <2> QED
      BY <1>5, <2>1
  <1> QED
    BY <1>1, <1>2, <1>4, <1>6

-----------------------------------------------------------------------------
LEMMA TailOf ==
    ASSUME NEW S, NEW t \in Seq(S), t # <<>>
    PROVE  /\ Tail(t) \in Seq(S) /\ Len(t) \in Nat \ {0} /\ Len(Tail(t)) = Len(t) - 1
           /\ \A i \in 1..Len(Tail(t)) : Tail(t)[i] = t[i + 1]
           /\ Head(t) = t[1]
  OBVIOUS

LEMMA NextRead ==
    ASSUME NEW q, NEW r, TodoRight(q), q.todo # <<>>, SameCall(q, r), r.todo = Tail(q.todo)
    PROVE  /\ TodoRight(r)
           /\ \A read : Left(q, read) /\ ~At(q, read) => Left(r, read)
           /\ ~At(r, "outgoing")
           /\ At(r, "aligned") => At(q, "proxies")
           /\ At(r, "incoming proxies") => At(q, "incoming")
  <1> DEFINE t == q.todo
             u == Tail(t)
  <1>1. t \in Seq(ReadNames)
    BY DEF TodoRight
  <1>2. /\ u \in Seq(ReadNames) /\ Len(t) \in Nat \ {0} /\ Len(u) = Len(t) - 1 /\ Len(u) \in Nat
        /\ \A i \in 1..Len(u) : u[i] = t[i + 1]
        /\ Head(t) = t[1]
    BY <1>1, TailOf
  <1>3. \A i \in 1..Len(u) : /\ i \in 1..Len(t) /\ i + 1 \in 1..Len(t)
                              /\ i + 1 > 1 /\ i + 1 # 1 /\ (i + 1) - 1 = i
    BY <1>2
  <1>4. ShouldFetchAligned(r) <=> ShouldFetchAligned(q)
    BY DEF SameCall, ShouldFetchAligned
  <1>5. r.direction = q.direction
    BY DEF SameCall
  <1>6. /\ u # <<>> => 1 \in 1..Len(u) /\ Head(u) = u[1] /\ u[1] = t[2]
        /\ u # <<>> => 2 \in 1..Len(t) /\ 2 - 1 = 1
    BY <1>2
  <1>7. ASSUME NEW i \in 1..Len(u)
        PROVE  /\ u[i] # "outgoing"
               /\ u[i] \in {"proxies", "aligned"} => ShouldFetchAligned(q) /\ q.direction # "incoming"
               /\ u[i] = "incoming" => q.direction # "outgoing"
               /\ u[i] = "incoming proxies" => ShouldFetchAligned(q) /\ q.direction # "outgoing"
               /\ u[i] = "aligned" => t[i] = "proxies"
               /\ u[i] = "incoming proxies" => t[i] = "incoming"
    <2>1. PICK k : k = i + 1
      OBVIOUS
    <2>2. k \in 1..Len(t) /\ k > 1 /\ k # 1 /\ k - 1 = i /\ u[i] = t[k]
      BY <1>2, <1>3, <2>1
    <2>3. /\ t[k] = "outgoing" => k = 1
          /\ t[k] \in {"proxies", "aligned"} => ShouldFetchAligned(q) /\ q.direction # "incoming"
          /\ t[k] = "incoming" => q.direction # "outgoing"
          /\ t[k] = "incoming proxies" => ShouldFetchAligned(q) /\ q.direction # "outgoing"
          /\ t[k] = "aligned" /\ k > 1 => t[k - 1] = "proxies"
          /\ t[k] = "incoming proxies" /\ k > 1 => t[k - 1] = "incoming"
      BY <2>2 DEF TodoRight
    <2> HIDE DEF t, u
    <2> QED
      BY <2>2, <2>3
  <1>8. ASSUME NEW i \in 1..Len(u), i > 1
        PROVE  u[i - 1] = t[i]
    BY <1>2, <1>8
  <1>9. r.todo = u /\ q.todo = t
    OBVIOUS
  <1> HIDE DEF t, u
  <1>10. TodoRight(r)
    BY <1>2, <1>4, <1>5, <1>7, <1>8, <1>9 DEF TodoRight
  <1>11. ASSUME NEW read, Left(q, read), ~At(q, read) PROVE Left(r, read)
    <2>1. PICK i \in 1..Len(t) : t[i] = read
      BY <1>9, <1>11 DEF Left
    <2>2. i # 1
      BY <1>2, <1>9, <1>11, <2>1 DEF At
    <2>3. i - 1 \in 1..Len(u) /\ (i - 1) + 1 = i
      BY <1>2, <2>2
    <2> QED
      BY <1>2, <1>9, <2>1, <2>3 DEF Left
  <1>12. u # <<>> => /\ Head(u) # "outgoing"
                     /\ Head(u) = "aligned" => Head(t) = "proxies"
                     /\ Head(u) = "incoming proxies" => Head(t) = "incoming"
    BY <1>2, <1>6, <1>7
  <1> QED
    BY <1>9, <1>10, <1>11, <1>12 DEF At

-----------------------------------------------------------------------------
(* What a read finds.                                                      *)
Finds(ss, ps, q, g) ==
    \A id \in DOMAIN g :
        /\ id \in DOMAIN ss /\ g[id].sender = View(ss, ps, id).sender
        /\ Matches(q, g[id].type) => id \in q.ever
        /\ id \in q.always => Matches(q, g[id].type)

LEMMA ReadFinds ==
    ASSUME NEW ss, NEW ps, NEW q, NEW r, NEW g, NEW read, Known(ss, ps, q), At(q, read),
           SameCall(q, r), r.todo = Tail(q.todo), r.always = q.always, r.ever = q.ever,
           DOMAIN r.found = DOMAIN g \cup DOMAIN q.found,
           \A id \in DOMAIN r.found :
               r.found[id] = IF id \in DOMAIN g THEN g[id] ELSE q.found[id],
           Finds(ss, ps, q, g),
           \A id \in q.always : Reader(ss, ps, q, id) = read => id \in DOMAIN g
    PROVE  /\ TodoRight(r) /\ Bounded(ss, ps, r) /\ FoundSound(ss, ps, r)
           /\ FoundAll(ss, ps, r) /\ Unread(r)
  <1>1. /\ TodoRight(r) /\ ~At(r, "outgoing")
        /\ \A x : Left(q, x) /\ ~At(q, x) => Left(r, x)
    BY NextRead DEF Known, At
  <1>2. /\ Asked(ss, ps, r) = Asked(ss, ps, q)
        /\ \A id : Reader(ss, ps, r, id) = Reader(ss, ps, q, id)
        /\ \A type : Matches(r, type) <=> Matches(q, type)
    BY SameAnswers
  <1>3. Bounded(ss, ps, r)
    BY <1>2 DEF Known, Bounded
  <1>4. FoundSound(ss, ps, r)
    <2>1. ASSUME NEW id \in DOMAIN r.found
          PROVE  /\ id \in DOMAIN ss /\ r.found[id].sender = View(ss, ps, id).sender
                 /\ Matches(r, r.found[id].type) => id \in r.ever
      <3>1. CASE id \in DOMAIN g
        BY <1>2, <3>1 DEF Finds
      <3>2. CASE id \notin DOMAIN g
        BY <1>2, <3>2 DEF Known, FoundSound
      <3> QED
        BY <3>1, <3>2
    <2> QED
      BY <2>1 DEF FoundSound
  <1>5. FoundAll(ss, ps, r)
    <2>1. ASSUME NEW id \in q.always
          PROVE  HasFound(r, id) \/ Left(r, Reader(ss, ps, r, id))
      <3>1. CASE id \in DOMAIN g
        BY <1>2, <3>1 DEF Finds, HasFound
      <3>2. CASE id \notin DOMAIN g /\ HasFound(q, id)
        BY <1>2, <3>2 DEF HasFound
      <3>3. CASE id \notin DOMAIN g /\ Left(q, Reader(ss, ps, q, id))
        <4>1. ~At(q, Reader(ss, ps, q, id))
          BY <3>3 DEF At
        <4> QED
          BY <1>1, <1>2, <3>3, <4>1
      <3> QED
        BY <3>1, <3>2, <3>3 DEF Known, FoundAll
    <2> QED
      BY <2>1 DEF FoundAll
  <1> QED
    BY <1>1, <1>3, <1>4, <1>5 DEF Unread

-----------------------------------------------------------------------------
(* What each read finds.                                                   *)
LEMMA HeadRight ==
    ASSUME NEW q, TodoRight(q), NEW read, At(q, read)
    PROVE  /\ read = "outgoing" => q.direction # "incoming"
           /\ read \in {"proxies", "aligned"} => ShouldFetchAligned(q) /\ q.direction # "incoming"
           /\ read = "incoming" => q.direction # "outgoing"
           /\ read = "incoming proxies" => ShouldFetchAligned(q) /\ q.direction # "outgoing"
  <1>1. q.todo \in Seq(ReadNames) /\ q.todo # <<>> /\ Head(q.todo) = read
    BY DEF TodoRight, At
  <1>2. 1 \in 1..Len(q.todo) /\ q.todo[1] = read
    BY <1>1, TailOf
  <1> QED
    BY <1>2 DEF TodoRight

LEMMA OutgoingFinds ==
    ASSUME DOMAIN streams \subseteq Ids, NEW q, q = query, Known(streams, proxies, q),
           At(q, "outgoing"),
           NEW g, g = [id \in WithAddress(OffsetSender) |-> Contract(streams[id])]
    PROVE  /\ Finds(streams, proxies, q, g)
           /\ \A id \in q.always : Reader(streams, proxies, q, id) = "outgoing" => id \in DOMAIN g
  <1>1. q.direction # "incoming"
    BY HeadRight DEF Known
  <1>2. DOMAIN g = {id \in DOMAIN streams : streams[id].sender = q.address}
    BY FieldsByOffset DEF WithAddress
  <1>3. ASSUME NEW id \in DOMAIN g
        PROVE  /\ id \in DOMAIN streams /\ g[id].sender = View(streams, proxies, id).sender
               /\ Matches(q, g[id].type) => id \in q.ever
               /\ id \in q.always => Matches(q, g[id].type)
    <2>1. id \in DOMAIN streams /\ id \in Ids /\ streams[id].sender = q.address
      BY <1>2
    <2>2. ~AlignedIn(streams, id)
      BY <2>1, StreamsAssumption DEF AlignedIn, IsAlignedUnlock, Known, QueryTyped
    <2>3. /\ View(streams, proxies, id).sender = streams[id].sender
          /\ View(streams, proxies, id).type = StreamType(streams[id], NoPrices)
      BY <2>2, Views
    <2>4. g[id].sender = streams[id].sender /\ g[id].type = StreamType(streams[id], NoPrices)
      BY DEF Contract
    <2>5. Sent(streams, proxies, q, id)
      BY <1>1, <2>1, <2>3 DEF Sent
    <2>6. Matches(q, g[id].type) <=> id \in Asked(streams, proxies, q)
      BY <2>1, <2>2, <2>3, <2>4, <2>5, AskedFor
    <2> QED
      BY <2>1, <2>3, <2>4, <2>6 DEF Known, Bounded
  <1>4. ASSUME NEW id \in q.always, Reader(streams, proxies, q, id) = "outgoing"
        PROVE  id \in DOMAIN g
    <2>1. id \in DOMAIN streams
      BY AskedFor DEF Known, Bounded
    <2>2. ~AlignedIn(streams, id) /\ View(streams, proxies, id).sender = q.address
      BY <1>4 DEF Reader, Sent
    <2> QED
      BY <1>2, <2>1, <2>2, Views
  <1> QED
    BY <1>3, <1>4 DEF Finds

LEMMA AlignedFinds ==
    ASSUME NEW q, Known(streams, proxies, q), At(q, "aligned"),
           NEW g, g = [id \in DOMAIN q.decoded \cap DOMAIN streams |->
                          AlignedContract(streams[id], q.decoded[id])]
    PROVE  /\ Finds(streams, proxies, q, g)
           /\ \A id \in q.always : Reader(streams, proxies, q, id) = "aligned" => id \in DOMAIN g
  <1>1. q.direction # "incoming" /\ ShouldFetchAligned(q)
    BY HeadRight DEF Known
  <1>2. /\ \A id \in DOMAIN q.decoded :
             /\ id \in DOMAIN streams /\ AlignedIn(streams, id) /\ q.decoded[id].sender = q.address
             /\ SameOffer(proxies[ContractPDA(id)], q.decoded[id])
        /\ \A id \in q.always :
             Reader(streams, proxies, q, id) = "aligned" => id \in DOMAIN q.decoded
    BY DEF Known, OffersRead
  <1>3. ASSUME NEW id \in DOMAIN g
        PROVE  /\ id \in DOMAIN streams /\ g[id].sender = View(streams, proxies, id).sender
               /\ Matches(q, g[id].type) => id \in q.ever
               /\ id \in q.always => Matches(q, g[id].type)
    <2>1. PICK s, p, offer : s = streams[id] /\ p = q.decoded[id] /\ offer = proxies[ContractPDA(id)]
      OBVIOUS
    <2>2. /\ id \in DOMAIN streams /\ AlignedIn(streams, id) /\ p.sender = q.address
          /\ SameOffer(offer, p)
      BY <1>2, <2>1
    <2>3. /\ View(streams, proxies, id).sender = offer.sender
          /\ View(streams, proxies, id).type = StreamType(s, offer)
      BY <2>1, <2>2, Views
    <2>4. g[id].sender = p.sender /\ g[id].type = StreamType(s, p)
      BY <2>1 DEF AlignedContract
    <2>5. p.sender = offer.sender /\ StreamType(s, p) = StreamType(s, offer)
      <3>1. SameKind(s, s)
        BY DEF SameKind
      <3> QED
        BY <2>2, <3>1, TypeKept DEF SameOffer
    <2>6. Sent(streams, proxies, q, id)
      BY <1>1, <2>2, <2>3, <2>5 DEF Sent
    <2>7. Matches(q, g[id].type) <=> id \in Asked(streams, proxies, q)
      BY <1>1, <2>2, <2>3, <2>4, <2>5, <2>6, AskedFor
    <2> QED
      BY <2>2, <2>3, <2>4, <2>5, <2>7 DEF Known, Bounded
  <1>4. ASSUME NEW id \in q.always, Reader(streams, proxies, q, id) = "aligned"
        PROVE  id \in DOMAIN g
    BY <1>2, <1>4
  <1> QED
    BY <1>3, <1>4 DEF Finds

LEMMA IncomingFinds ==
    ASSUME NEW q, q = query, Known(streams, proxies, q), At(q, "incoming"),
           NEW aligned, aligned = {id \in WithAddress(OffsetRecipient) : AlignedIn(streams, id)},
           NEW g, g = [id \in WithAddress(OffsetRecipient) \ aligned |-> Contract(streams[id])]
    PROVE  /\ Finds(streams, proxies, q, g)
           /\ \A id \in q.always : Reader(streams, proxies, q, id) = "incoming" => id \in DOMAIN g
  <1>1. q.direction # "outgoing"
    BY HeadRight DEF Known
  <1>2. DOMAIN g = {id \in DOMAIN streams : streams[id].recipient = q.address
                                              /\ ~AlignedIn(streams, id)}
    BY FieldsByOffset DEF WithAddress
  <1>3. ASSUME NEW id \in DOMAIN g
        PROVE  /\ id \in DOMAIN streams /\ g[id].sender = View(streams, proxies, id).sender
               /\ Matches(q, g[id].type) => id \in q.ever
               /\ id \in q.always => Matches(q, g[id].type)
    <2>1. id \in DOMAIN streams /\ streams[id].recipient = q.address /\ ~AlignedIn(streams, id)
      BY <1>2
    <2>3. /\ View(streams, proxies, id).sender = streams[id].sender
          /\ View(streams, proxies, id).type = StreamType(streams[id], NoPrices)
      BY <2>1, Views
    <2>4. g[id].sender = streams[id].sender /\ g[id].type = StreamType(streams[id], NoPrices)
      BY DEF Contract
    <2>6. Matches(q, g[id].type) <=> id \in Asked(streams, proxies, q)
      BY <1>1, <2>1, <2>3, <2>4, AskedFor
    <2> QED
      BY <2>1, <2>3, <2>4, <2>6 DEF Known, Bounded
  <1>4. ASSUME NEW id \in q.always, Reader(streams, proxies, q, id) = "incoming"
        PROVE  id \in DOMAIN g
    <2>1. id \in Asked(streams, proxies, q)
      BY DEF Known, Bounded
    <2>2. ~AlignedIn(streams, id) /\ ~Sent(streams, proxies, q, id)
      BY <1>4 DEF Reader
    <2> QED
      BY <1>2, <2>1, <2>2, AskedFor
  <1> QED
    BY <1>3, <1>4 DEF Finds

LEMMA IncomingProxiesFinds ==
    ASSUME ProxiesRight, NEW q, Known(streams, proxies, q), At(q, "incoming proxies"),
           NEW g, g = [id \in {i \in DOMAIN q.decoded : ContractPDA(i) \in DOMAIN proxies} |->
                          AlignedContract(q.decoded[id], proxies[ContractPDA(id)])]
    PROVE  /\ Finds(streams, proxies, q, g)
           /\ \A id \in q.always :
                Reader(streams, proxies, q, id) = "incoming proxies" => id \in DOMAIN g
  <1>1. /\ \A id \in DOMAIN q.decoded :
             LET type == StreamType(q.decoded[id], proxies[ContractPDA(id)]) IN
             /\ id \in DOMAIN streams /\ AlignedIn(streams, id)
             /\ Matches(q, type) => id \in q.ever
             /\ id \in q.always => Matches(q, type)
        /\ \A id \in q.always : Reader(streams, proxies, q, id) = "incoming proxies"
                                  => id \in DOMAIN q.decoded
    BY DEF Known, StreamsRead
  <1>2. ASSUME NEW id \in DOMAIN g
        PROVE  /\ id \in DOMAIN streams /\ g[id].sender = View(streams, proxies, id).sender
               /\ Matches(q, g[id].type) => id \in q.ever
               /\ id \in q.always => Matches(q, g[id].type)
    <2>1. g[id].type = StreamType(q.decoded[id], proxies[ContractPDA(id)])
      BY DEF AlignedContract
    <2>2. g[id].sender = proxies[ContractPDA(id)].sender
      BY DEF AlignedContract
    <2>3. id \in DOMAIN q.decoded
      OBVIOUS
    <2>4. PICK type : type = StreamType(q.decoded[id], proxies[ContractPDA(id)])
      OBVIOUS
    <2>5. /\ id \in DOMAIN streams /\ AlignedIn(streams, id)
          /\ Matches(q, type) => id \in q.ever
          /\ id \in q.always => Matches(q, type)
      BY <1>1, <2>3, <2>4
    <2>6. View(streams, proxies, id).sender = proxies[ContractPDA(id)].sender
      BY ONLY <2>5, Views
    <2>7. g[id].sender = View(streams, proxies, id).sender
      BY <2>2, <2>6
    <2> QED
      BY <2>1, <2>4, <2>5, <2>7
  <1>3. ASSUME NEW id \in q.always, Reader(streams, proxies, q, id) = "incoming proxies"
        PROVE  id \in DOMAIN g
    <2>1. id \in DOMAIN q.decoded /\ id \in DOMAIN streams /\ AlignedIn(streams, id)
      BY <1>1, <1>3
    <2>2. ContractPDA(id) \in DOMAIN proxies
      BY <2>1 DEF ProxiesRight, AlignedIn, Aligned
    <2> QED
      BY <2>1, <2>2
  <1> QED
    BY <1>2, <1>3 DEF Finds

-----------------------------------------------------------------------------
(* A read keeps what is known of the call.                                 *)
Moved(q, r) ==
    /\ QueryTyped(r) /\ SameCall(q, r) /\ r.todo = Tail(q.todo)
    /\ r.always = q.always /\ r.ever = q.ever

LEMMA Moves ==
    ASSUME NEW q, NEW r, QueryTyped(q), DOMAIN r = DOMAIN q, r.todo = Tail(q.todo),
           \A f \in QueryFields \ {"found", "decoded", "todo"} : r[f] = q[f]
    PROVE  Moved(q, r)
  BY DEF QueryTyped, QueryFields, Moved, SameCall

LEMMA OutgoingKnown ==
    ASSUME DOMAIN streams \subseteq Ids, NEW q, q = query, Known(streams, proxies, q),
           ReadOutgoing, NEW r, r = query'
    PROVE  Known(streams, proxies, r)
  <1>1. PICK g : g = [id \in WithAddress(OffsetSender) |-> Contract(streams[id])]
    OBVIOUS
  <1>2. Answered("outgoing", [q EXCEPT !.found = g])
    BY <1>1 DEF ReadOutgoing
  <1>3. At(q, "outgoing") /\ r = [[q EXCEPT !.found = g] EXCEPT !.todo = Tail(@)]
    BY <1>2 DEF Answered, At
  <1>4. QueryTyped(q) /\ DOMAIN q = QueryFields
    BY DEF Known, QueryTyped
  <1>5. r = [q EXCEPT !.found = g, !.todo = Tail(q.todo)]
    BY <1>3, <1>4 DEF QueryFields
  <1>6. Moved(q, r) /\ r.found = g
    BY <1>4, <1>5, Moves DEF QueryFields
  <1>7. DOMAIN q.found = {}
    BY <1>3 DEF Known, Unread
  <1>8. /\ Finds(streams, proxies, q, g)
        /\ \A id \in q.always : Reader(streams, proxies, q, id) = "outgoing" => id \in DOMAIN g
    BY <1>1, <1>3, OutgoingFinds
  <1>9. /\ TodoRight(r) /\ Bounded(streams, proxies, r) /\ FoundSound(streams, proxies, r)
        /\ FoundAll(streams, proxies, r) /\ Unread(r)
    BY <1>3, <1>6, <1>7, <1>8, ReadFinds DEF Moved
  <1>10. ~At(r, "aligned") /\ ~At(r, "incoming proxies")
    BY <1>3, <1>6, NextRead DEF Known, Moved, At
  <1> QED
    BY <1>6, <1>9, <1>10 DEF Known, Moved, OffersRead, StreamsRead

LEMMA ProxiesKnown ==
    ASSUME ProxiesRight, NEW q, q = query, Known(streams, proxies, q),
           ReadProxies, NEW r, r = query'
    PROVE  Known(streams, proxies, r)
  <1>1. PICK own, d : /\ own = {p \in DOMAIN proxies : proxies[p].sender = q.address}
                      /\ d = [id \in {proxies[p].stream : p \in own} |-> proxies[ContractPDA(id)]]
    OBVIOUS
  <1>2. Answered("proxies", [q EXCEPT !.decoded = d])
    BY <1>1 DEF ReadProxies
  <1>3. At(q, "proxies") /\ r = [[q EXCEPT !.decoded = d] EXCEPT !.todo = Tail(@)]
    BY <1>2 DEF Answered, At
  <1>4. QueryTyped(q) /\ DOMAIN q = QueryFields
    BY DEF Known, QueryTyped
  <1>5. r = [q EXCEPT !.decoded = d, !.todo = Tail(q.todo)]
    BY <1>3, <1>4 DEF QueryFields
  <1>6. Moved(q, r) /\ r.found = q.found /\ r.decoded = d
    BY <1>4, <1>5, Moves DEF QueryFields
  <1>7. PICK none : DOMAIN none = {}
    <2>1. DOMAIN [x \in {} |-> x] = {}
      OBVIOUS
    <2> QED
      BY <2>1
  <1>8. /\ Finds(streams, proxies, q, none)
        /\ \A id \in q.always : Reader(streams, proxies, q, id) = "proxies" => id \in DOMAIN none
    BY <1>7 DEF Finds, Reader
  <1>9. /\ TodoRight(r) /\ Bounded(streams, proxies, r) /\ FoundSound(streams, proxies, r)
        /\ FoundAll(streams, proxies, r) /\ Unread(r)
    BY <1>3, <1>6, <1>7, <1>8, ReadFinds DEF Moved
  <1>10. ~At(r, "incoming proxies")
    BY <1>3, <1>6, NextRead DEF Known, Moved, At
  <1>11. ASSUME NEW id \in DOMAIN d
         PROVE  /\ id \in DOMAIN streams /\ AlignedIn(streams, id) /\ d[id].sender = q.address
                /\ SameOffer(proxies[ContractPDA(id)], d[id])
    <2>1. PICK p \in DOMAIN proxies : proxies[p].sender = q.address /\ id = proxies[p].stream
      BY <1>1
    <2>2. PICK j \in DOMAIN streams : Aligned(j) /\ p = ContractPDA(j)
      BY DEF ProxiesRight
    <2>3. id = j
      BY <2>1, <2>2 DEF ProxiesRight, IsProxy
    <2> QED
      BY <1>1, <2>1, <2>2, <2>3 DEF Aligned, AlignedIn, SameOffer
  <1>12. ASSUME NEW id \in q.always, Reader(streams, proxies, q, id) = "aligned"
         PROVE  id \in DOMAIN d
    <2>1. id \in DOMAIN streams
      BY AskedFor DEF Known, Bounded
    <2>2. AlignedIn(streams, id) /\ View(streams, proxies, id).sender = q.address
      BY <1>12 DEF Reader, Sent
    <2>3. proxies[ContractPDA(id)].sender = q.address
      BY <2>2, Views
    <2>4. ContractPDA(id) \in DOMAIN proxies /\ proxies[ContractPDA(id)].stream = id
      BY <2>1, <2>2 DEF ProxiesRight, IsProxy, AlignedIn, Aligned
    <2> QED
      BY <1>1, <2>3, <2>4
  <1>13. OffersRead(streams, proxies, r)
    <2>1. \A id : Reader(streams, proxies, r, id) = Reader(streams, proxies, q, id)
      BY <1>6, SameAnswers DEF Moved
    <2>2. r.address = q.address
      BY <1>6 DEF Moved, SameCall
    <2> QED
      BY <1>6, <1>11, <1>12, <2>1, <2>2 DEF OffersRead, Moved
  <1> QED
    BY <1>6, <1>9, <1>10, <1>13 DEF Known, Moved, StreamsRead

LEMMA AlignedKnown ==
    ASSUME NEW q, q = query, Known(streams, proxies, q),
           ReadAligned, NEW r, r = query'
    PROVE  Known(streams, proxies, r)
  <1>1. PICK g : g = [id \in DOMAIN q.decoded \cap DOMAIN streams |->
                         AlignedContract(streams[id], q.decoded[id])]
    OBVIOUS
  <1>2. PICK f : f = Merged(g, q.found)
    OBVIOUS
  <1>3. At(q, "aligned") /\ r = [[q EXCEPT !.found = Merged(g, @), !.decoded = <<>>] EXCEPT !.todo = Tail(@)]
    BY <1>1 DEF ReadAligned, Answered, At
  <1>4. QueryTyped(q) /\ DOMAIN q = QueryFields
    BY DEF Known, QueryTyped
  <1>5. r = [q EXCEPT !.found = f, !.decoded = <<>>, !.todo = Tail(q.todo)]
    BY <1>2, <1>3, <1>4 DEF QueryFields
  <1>6. Moved(q, r) /\ r.found = f
    BY <1>4, <1>5, Moves DEF QueryFields
  <1>7. /\ DOMAIN f = DOMAIN g \cup DOMAIN q.found
        /\ \A id \in DOMAIN f : f[id] = IF id \in DOMAIN g THEN g[id] ELSE q.found[id]
    BY <1>2 DEF Merged
  <1>8. /\ Finds(streams, proxies, q, g)
        /\ \A id \in q.always : Reader(streams, proxies, q, id) = "aligned" => id \in DOMAIN g
    BY <1>1, <1>3, AlignedFinds
  <1>9. /\ TodoRight(r) /\ Bounded(streams, proxies, r) /\ FoundSound(streams, proxies, r)
        /\ FoundAll(streams, proxies, r) /\ Unread(r)
    BY <1>3, <1>6, <1>7, <1>8, ReadFinds DEF Moved
  <1>10. ~At(r, "aligned") /\ ~At(r, "incoming proxies")
    BY <1>3, <1>6, NextRead DEF Known, Moved, At
  <1> QED
    BY <1>6, <1>9, <1>10 DEF Known, Moved, OffersRead, StreamsRead

LEMMA IncomingKnown ==
    ASSUME NEW q, q = query, Known(streams, proxies, q),
           ReadIncoming, NEW r, r = query'
    PROVE  Known(streams, proxies, r)
  <1>1. PICK incoming, aligned : /\ incoming = WithAddress(OffsetRecipient)
                                 /\ aligned = {id \in incoming : AlignedIn(streams, id)}
    OBVIOUS
  <1>2. PICK g, d : /\ g = [id \in incoming \ aligned |-> Contract(streams[id])]
                    /\ d = [id \in aligned |-> streams[id]]
    OBVIOUS
  <1>f. PICK f : f = Merged(g, q.found)
    OBVIOUS
  <1>3. At(q, "incoming") /\ r = [[q EXCEPT !.found = Merged(g, @), !.decoded = d] EXCEPT !.todo = Tail(@)]
    BY <1>1, <1>2 DEF ReadIncoming, Incoming, Answered, At, AlignedIn
  <1>4. QueryTyped(q) /\ DOMAIN q = QueryFields
    BY DEF Known, QueryTyped
  <1>5. r = [q EXCEPT !.found = f, !.decoded = d, !.todo = Tail(q.todo)]
    BY <1>f, <1>3, <1>4 DEF QueryFields
  <1>6. Moved(q, r) /\ r.found = f /\ r.decoded = d
    BY <1>4, <1>5, Moves DEF QueryFields
  <1>7. /\ DOMAIN f = DOMAIN g \cup DOMAIN q.found
        /\ \A id \in DOMAIN f : f[id] = IF id \in DOMAIN g THEN g[id] ELSE q.found[id]
    BY <1>f DEF Merged
  <1>8. /\ Finds(streams, proxies, q, g)
        /\ \A id \in q.always : Reader(streams, proxies, q, id) = "incoming" => id \in DOMAIN g
    BY <1>1, <1>2, <1>3, IncomingFinds
  <1>9. /\ TodoRight(r) /\ Bounded(streams, proxies, r) /\ FoundSound(streams, proxies, r)
        /\ FoundAll(streams, proxies, r) /\ Unread(r)
    BY <1>3, <1>6, <1>7, <1>8, ReadFinds DEF Moved
  <1>10. ~At(r, "aligned")
    BY <1>3, <1>6, NextRead DEF Known, Moved, At
  <1>11. aligned = {id \in DOMAIN streams : streams[id].recipient = q.address /\ AlignedIn(streams, id)}
    BY <1>1, FieldsByOffset DEF WithAddress
  <1>12. ASSUME At(r, "incoming proxies"), NEW id \in aligned, NEW type,
                type = StreamType(d[id], proxies[ContractPDA(id)])
         PROVE  /\ id \in DOMAIN streams /\ AlignedIn(streams, id)
                /\ Matches(q, type) => id \in q.ever
                /\ id \in q.always => Matches(q, type)
    <2>1. ShouldFetchAligned(q) /\ q.direction # "outgoing"
      <3>1. ShouldFetchAligned(r) /\ r.direction # "outgoing"
        BY <1>9, <1>12, HeadRight
      <3> QED
        BY <1>6, <3>1 DEF Moved, SameCall, ShouldFetchAligned
    <2>2. id \in DOMAIN streams /\ AlignedIn(streams, id) /\ streams[id].recipient = q.address
      BY <1>11
    <2>3. type = View(streams, proxies, id).type
      <3>1. View(streams, proxies, id).type = StreamType(streams[id], proxies[ContractPDA(id)])
        BY ONLY <2>2, Views
      <3>2. d[id] = streams[id]
        BY <1>2
      <3> QED
        BY <1>12, <3>1, <3>2
    <2>4. Matches(q, type) <=> id \in Asked(streams, proxies, q)
      BY <2>1, <2>2, <2>3, AskedFor
    <2> QED
      BY <2>2, <2>4 DEF Known, Bounded
  <1>13. ASSUME NEW id \in q.always, Reader(streams, proxies, q, id) = "incoming proxies"
         PROVE  id \in aligned
    <2>1. id \in Asked(streams, proxies, q)
      BY DEF Known, Bounded
    <2>2. AlignedIn(streams, id) /\ ~Sent(streams, proxies, q, id)
      BY <1>13 DEF Reader
    <2> QED
      BY <1>11, <2>1, <2>2, AskedFor
  <1>14. StreamsRead(streams, proxies, r)
    <2>1. /\ \A id : Reader(streams, proxies, r, id) = Reader(streams, proxies, q, id)
          /\ \A type : Matches(r, type) <=> Matches(q, type)
      <3>1. SameCall(q, r)
        BY <1>6 DEF Moved
      <3> QED
        BY ONLY <3>1, SameAnswers
    <2>2. DOMAIN r.decoded = aligned /\ r.decoded = d /\ r.always = q.always /\ r.ever = q.ever
      BY <1>2, <1>6 DEF Moved
    <2> QED
      BY <1>12, <1>13, <2>1, <2>2 DEF StreamsRead
  <1> QED
    BY <1>6, <1>9, <1>10, <1>14 DEF Known, Moved, OffersRead

LEMMA IncomingProxiesKnown ==
    ASSUME ProxiesRight, NEW q, q = query, Known(streams, proxies, q),
           ReadIncomingProxies, NEW r, r = query'
    PROVE  Known(streams, proxies, r)
  <1>1. PICK g : g = [id \in {i \in DOMAIN q.decoded : ContractPDA(i) \in DOMAIN proxies} |->
                         AlignedContract(q.decoded[id], proxies[ContractPDA(id)])]
    OBVIOUS
  <1>2. PICK f : f = Merged(g, q.found)
    OBVIOUS
  <1>3. /\ At(q, "incoming proxies")
        /\ r = [[q EXCEPT !.found = Merged(g, @), !.decoded = <<>>] EXCEPT !.todo = Tail(@)]
    BY <1>1 DEF ReadIncomingProxies, Answered, At
  <1>4. QueryTyped(q) /\ DOMAIN q = QueryFields
    BY DEF Known, QueryTyped
  <1>5. r = [q EXCEPT !.found = f, !.decoded = <<>>, !.todo = Tail(q.todo)]
    BY <1>2, <1>3, <1>4 DEF QueryFields
  <1>6. Moved(q, r) /\ r.found = f
    BY <1>4, <1>5, Moves DEF QueryFields
  <1>7. /\ DOMAIN f = DOMAIN g \cup DOMAIN q.found
        /\ \A id \in DOMAIN f : f[id] = IF id \in DOMAIN g THEN g[id] ELSE q.found[id]
    BY <1>2 DEF Merged
  <1>8. /\ Finds(streams, proxies, q, g)
        /\ \A id \in q.always :
             Reader(streams, proxies, q, id) = "incoming proxies" => id \in DOMAIN g
    <2>1. ProxiesRight /\ Known(streams, proxies, q)
      OBVIOUS
    <2> QED
      BY ONLY <1>1, <1>3, <2>1, IncomingProxiesFinds
  <1>9. /\ TodoRight(r) /\ Bounded(streams, proxies, r) /\ FoundSound(streams, proxies, r)
        /\ FoundAll(streams, proxies, r) /\ Unread(r)
    BY <1>3, <1>6, <1>7, <1>8, ReadFinds DEF Moved
  <1>10. ~At(r, "aligned") /\ ~At(r, "incoming proxies")
    BY <1>3, <1>6, NextRead DEF Known, Moved, At
  <1> QED
    BY <1>6, <1>9, <1>10 DEF Known, Moved, OffersRead, StreamsRead

-----------------------------------------------------------------------------
(* A step of the chain during the call.                                    *)
Grown(ss, ps, tt, pp) ==
    \A id \in DOMAIN ss :
        /\ id \in DOMAIN tt /\ tt[id].sender = ss[id].sender
        /\ View(tt, pp, id).sender = View(ss, ps, id).sender
        /\ AlignedIn(ss, id) => SameOffer(ps[ContractPDA(id)], pp[ContractPDA(id)])

LEMMA StillKnown ==
    ASSUME NEW ss, NEW ps, NEW tt, NEW pp, NEW q, NEW r, Known(ss, ps, q), Grown(ss, ps, tt, pp),
           NEW asked, asked = Asked(tt, pp, q),
           DOMAIN r = DOMAIN q, r.always = q.always \cap asked, r.ever = q.ever \cup asked,
           \A f \in DOMAIN q \ {"always", "ever"} : r[f] = q[f]
    PROVE  Known(tt, pp, r)
  <1>1. QueryTyped(q) /\ DOMAIN q = QueryFields
    BY DEF Known, QueryTyped
  <1>2. /\ DOMAIN r = QueryFields /\ r.always = q.always \cap asked /\ r.ever = q.ever \cup asked
        /\ \A f \in QueryFields \ {"always", "ever"} : r[f] = q[f]
    BY <1>1 DEF QueryFields
  <1>3. r.todo = q.todo /\ r.found = q.found /\ r.decoded = q.decoded
    BY <1>2 DEF QueryFields
  <1>4. QueryTyped(r) /\ SameCall(q, r)
    BY <1>1, <1>2 DEF QueryTyped, QueryFields, SameCall
  <1>5. /\ Asked(tt, pp, r) = asked
        /\ \A id : Reader(tt, pp, r, id) = Reader(tt, pp, q, id)
        /\ \A type : Matches(r, type) <=> Matches(q, type)
        /\ ShouldFetchAligned(r) <=> ShouldFetchAligned(q)
    BY <1>4, SameAnswers
  <1>6. TodoRight(r)
    BY <1>3, <1>4, <1>5 DEF Known, TodoRight, SameCall
  <1>7. Bounded(tt, pp, r)
    BY <1>2, <1>5 DEF Bounded
  <1>8. ASSUME NEW id \in DOMAIN ss
        PROVE  /\ id \in DOMAIN tt /\ View(tt, pp, id).sender = View(ss, ps, id).sender
               /\ AlignedIn(tt, id) <=> AlignedIn(ss, id)
               /\ Reader(tt, pp, q, id) = Reader(ss, ps, q, id)
    <2>1. AlignedIn(tt, id) <=> AlignedIn(ss, id)
      BY DEF Grown, AlignedIn
    <2>2. View(tt, pp, id).sender = View(ss, ps, id).sender /\ id \in DOMAIN tt
      BY DEF Grown
    <2>3. Sent(tt, pp, q, id) <=> Sent(ss, ps, q, id)
      BY <2>2 DEF Sent
    <2> QED
      BY <2>1, <2>2, <2>3 DEF Reader
  <1>9. q.always \subseteq DOMAIN ss
    BY DEF Known, Bounded, Asked
  <1>10. FoundSound(tt, pp, r)
    BY <1>2, <1>3, <1>5, <1>8 DEF Known, FoundSound
  <1>11. FoundAll(tt, pp, r)
    <2>1. ASSUME NEW id \in r.always
          PROVE  HasFound(r, id) \/ Left(r, Reader(tt, pp, r, id))
      <3>1. id \in q.always /\ id \in DOMAIN ss
        BY <1>2, <1>9
      <3>2. HasFound(q, id) \/ Left(q, Reader(ss, ps, q, id))
        BY <3>1 DEF Known, FoundAll
      <3>3. HasFound(q, id) => HasFound(r, id)
        BY <1>3, <1>5 DEF HasFound
      <3>4. Reader(tt, pp, r, id) = Reader(ss, ps, q, id)
        BY <1>5, <1>8, <3>1
      <3>5. Left(q, Reader(ss, ps, q, id)) => Left(r, Reader(ss, ps, q, id))
        BY <1>3 DEF Left
      <3> QED
        BY <3>2, <3>3, <3>4, <3>5
    <2> QED
      BY <2>1 DEF FoundAll
  <1>12. Unread(r)
    BY <1>3 DEF Known, Unread, At
  <1>13. OffersRead(tt, pp, r)
    <2> SUFFICES ASSUME At(r, "aligned")
                 PROVE  /\ \A id \in DOMAIN r.decoded :
                             /\ id \in DOMAIN tt /\ AlignedIn(tt, id)
                             /\ r.decoded[id].sender = r.address
                             /\ SameOffer(pp[ContractPDA(id)], r.decoded[id])
                        /\ \A id \in r.always :
                             Reader(tt, pp, r, id) = "aligned" => id \in DOMAIN r.decoded
      BY DEF OffersRead
    <2>1. At(q, "aligned")
      BY <1>3 DEF At
    <2>2. ASSUME NEW id \in DOMAIN r.decoded
          PROVE  /\ id \in DOMAIN tt /\ AlignedIn(tt, id) /\ r.decoded[id].sender = r.address
                 /\ SameOffer(pp[ContractPDA(id)], r.decoded[id])
      <3>1. /\ id \in DOMAIN ss /\ AlignedIn(ss, id) /\ r.decoded[id].sender = q.address
            /\ SameOffer(ps[ContractPDA(id)], r.decoded[id])
        BY <1>3, <2>1 DEF Known, OffersRead
      <3>2. SameOffer(ps[ContractPDA(id)], pp[ContractPDA(id)])
        BY <3>1 DEF Grown
      <3>3. SameOffer(pp[ContractPDA(id)], r.decoded[id])
        BY <3>1, <3>2 DEF SameOffer
      <3> QED
        BY <1>4, <1>8, <3>1, <3>3 DEF SameCall
    <2>3. ASSUME NEW id \in r.always, Reader(tt, pp, r, id) = "aligned"
          PROVE  id \in DOMAIN r.decoded
      <3>1. id \in q.always /\ id \in DOMAIN ss
        BY <1>2, <1>9
      <3>2. Reader(ss, ps, q, id) = "aligned"
        BY <1>5, <1>8, <2>3, <3>1
      <3> QED
        BY <1>3, <2>1, <3>1, <3>2 DEF Known, OffersRead
    <2> QED
      BY <2>2, <2>3
  <1>14. StreamsRead(tt, pp, r)
    <2> SUFFICES ASSUME At(r, "incoming proxies")
                 PROVE  /\ \A id \in DOMAIN r.decoded :
                             LET type == StreamType(r.decoded[id], pp[ContractPDA(id)]) IN
                             /\ id \in DOMAIN tt /\ AlignedIn(tt, id)
                             /\ Matches(r, type) => id \in r.ever
                             /\ id \in r.always => Matches(r, type)
                        /\ \A id \in r.always :
                             Reader(tt, pp, r, id) = "incoming proxies" => id \in DOMAIN r.decoded
      BY DEF StreamsRead
    <2>1. At(q, "incoming proxies")
      BY <1>3 DEF At
    <2>2. ASSUME NEW id \in DOMAIN r.decoded, NEW type,
                 type = StreamType(r.decoded[id], pp[ContractPDA(id)])
          PROVE  /\ id \in DOMAIN tt /\ AlignedIn(tt, id)
                 /\ Matches(r, type) => id \in r.ever
                 /\ id \in r.always => Matches(r, type)
      <3>1. PICK s, p, offer : /\ s = q.decoded[id] /\ p = ps[ContractPDA(id)]
                               /\ offer = pp[ContractPDA(id)]
        OBVIOUS
      <3>2. /\ id \in DOMAIN ss /\ AlignedIn(ss, id)
            /\ Matches(q, StreamType(s, p)) => id \in q.ever
            /\ id \in q.always => Matches(q, StreamType(s, p))
        BY <1>3, <2>1, <3>1 DEF Known, StreamsRead
      <3>3. SameKind(s, s) /\ SameOffer(p, offer)
        BY <3>1, <3>2 DEF Grown, SameKind
      <3>4. type = StreamType(s, p)
        <4>1. type = StreamType(s, offer)
          BY <1>3, <2>2, <3>1
        <4>2. StreamType(s, offer) = StreamType(s, p)
          BY ONLY <3>3, TypeKept
        <4> QED
          BY <4>1, <4>2
      <3>5. id \in DOMAIN tt /\ AlignedIn(tt, id)
        BY <1>8, <3>2
      <3> QED
        BY <1>2, <1>5, <3>2, <3>4, <3>5
    <2>3. ASSUME NEW id \in r.always, Reader(tt, pp, r, id) = "incoming proxies"
          PROVE  id \in DOMAIN r.decoded
      <3>1. id \in q.always /\ id \in DOMAIN ss
        BY <1>2, <1>9
      <3>2. Reader(ss, ps, q, id) = "incoming proxies"
        BY <1>5, <1>8, <2>3, <3>1
      <3> QED
        BY <1>3, <2>1, <3>1, <3>2 DEF Known, StreamsRead
    <2> QED
      BY <2>2, <2>3
  <1> QED
    BY <1>4, <1>6, <1>7, <1>10, <1>11, <1>12, <1>13, <1>14 DEF Known

-----------------------------------------------------------------------------
(* The start of the call.                                                  *)
LEMMA Joins ==
    ASSUME NEW S, NEW s \in Seq(S), NEW t \in Seq(S), NEW u \in Seq(S), Len(u) = Len(s) + Len(t),
           \A i \in 1..Len(s) : u[i] = s[i],
           \A i \in 1..Len(t) : u[Len(s) + i] = t[i]
    PROVE  s \o t = u
  <1>1. /\ s \o t \in Seq(S) /\ Len(s \o t) = Len(s) + Len(t) /\ Len(s) \in Nat /\ Len(t) \in Nat
        /\ \A i \in 1..(Len(s) + Len(t)) : (s \o t)[i] = IF i <= Len(s) THEN s[i] ELSE t[i - Len(s)]
    OBVIOUS
  <1>2. ASSUME NEW i \in 1..Len(u) PROVE (s \o t)[i] = u[i]
    <2>1. CASE i <= Len(s)
      BY <1>1, <2>1
    <2>2. CASE i > Len(s)
      <3>1. PICK k : k = i - Len(s)
        OBVIOUS
      <3>2. k \in 1..Len(t) /\ Len(s) + k = i /\ ~(i <= Len(s))
        BY <1>1, <2>2, <3>1
      <3> QED
        BY <1>1, <3>1, <3>2
    <2> QED
      BY <1>1, <2>1, <2>2
  <1> QED
    BY <1>1, <1>2, SeqEqual

LEMMA ReadsTyped ==
    /\ <<"outgoing">> \in Seq(ReadNames) /\ <<"incoming">> \in Seq(ReadNames)
    /\ <<"incoming proxies">> \in Seq(ReadNames) /\ <<"proxies", "aligned">> \in Seq(ReadNames)
    /\ <<"outgoing", "incoming">> \in Seq(ReadNames)
    /\ <<"incoming", "incoming proxies">> \in Seq(ReadNames)
    /\ <<"outgoing", "proxies", "aligned">> \in Seq(ReadNames)
    /\ <<"outgoing", "proxies", "aligned", "incoming", "incoming proxies">> \in Seq(ReadNames)
  BY DEF ReadNames

LEMMA ReadsJoin ==
    /\ <<"outgoing">> \o <<"proxies", "aligned">> = <<"outgoing", "proxies", "aligned">>
    /\ <<"incoming">> \o <<"incoming proxies">> = <<"incoming", "incoming proxies">>
    /\ <<"outgoing">> \o <<>> = <<"outgoing">>
    /\ <<"incoming">> \o <<>> = <<"incoming">>
    /\ <<"outgoing", "proxies", "aligned">> \o <<>> = <<"outgoing", "proxies", "aligned">>
    /\ <<>> \o <<"incoming">> = <<"incoming">>
    /\ <<>> \o <<"incoming", "incoming proxies">> = <<"incoming", "incoming proxies">>
    /\ <<"outgoing">> \o <<"incoming">> = <<"outgoing", "incoming">>
    /\ <<"outgoing", "proxies", "aligned">> \o <<"incoming", "incoming proxies">>
         = <<"outgoing", "proxies", "aligned", "incoming", "incoming proxies">>
  <1>1. <<"outgoing">> \o <<"proxies", "aligned">> = <<"outgoing", "proxies", "aligned">>
    <2>1. PICK s, t, u : /\ s = <<"outgoing">> /\ t = <<"proxies", "aligned">>
                         /\ u = <<"outgoing", "proxies", "aligned">>
      OBVIOUS
    <2>2. /\ s \in Seq(ReadNames) /\ t \in Seq(ReadNames) /\ u \in Seq(ReadNames)
          /\ Len(s) = 1 /\ Len(t) = 2 /\ Len(u) = 3
      BY ReadsTyped, <2>1
    <2>3. /\ u[1] = s[1]
          /\ u[2] = t[1] /\ u[3] = t[2]
      BY <2>1
    <2>4. \A i \in 1..Len(s) : u[i] = s[i]
      BY <2>2, <2>3
    <2>5. \A i \in 1..Len(t) : u[Len(s) + i] = t[i]
      BY <2>2, <2>3
    <2>6. Len(u) = Len(s) + Len(t)
      BY <2>2
    <2>7. s \o t = u
      BY ONLY <2>2, <2>4, <2>5, <2>6, Joins
    <2> QED
      BY <2>1, <2>7, Zenon
  <1>2. <<"incoming">> \o <<"incoming proxies">> = <<"incoming", "incoming proxies">>
    <2>1. PICK s, t, u : /\ s = <<"incoming">> /\ t = <<"incoming proxies">>
                         /\ u = <<"incoming", "incoming proxies">>
      OBVIOUS
    <2>2. /\ s \in Seq(ReadNames) /\ t \in Seq(ReadNames) /\ u \in Seq(ReadNames)
          /\ Len(s) = 1 /\ Len(t) = 1 /\ Len(u) = 2
      BY ReadsTyped, <2>1
    <2>3. /\ u[1] = s[1]
          /\ u[2] = t[1]
      BY <2>1
    <2>4. \A i \in 1..Len(s) : u[i] = s[i]
      BY <2>2, <2>3
    <2>5. \A i \in 1..Len(t) : u[Len(s) + i] = t[i]
      BY <2>2, <2>3
    <2>6. Len(u) = Len(s) + Len(t)
      BY <2>2
    <2>7. s \o t = u
      BY ONLY <2>2, <2>4, <2>5, <2>6, Joins
    <2> QED
      BY <2>1, <2>7, Zenon
  <1>3. <<"outgoing">> \o <<"incoming">> = <<"outgoing", "incoming">>
    <2>1. PICK s, t, u : /\ s = <<"outgoing">> /\ t = <<"incoming">>
                         /\ u = <<"outgoing", "incoming">>
      OBVIOUS
    <2>2. /\ s \in Seq(ReadNames) /\ t \in Seq(ReadNames) /\ u \in Seq(ReadNames)
          /\ Len(s) = 1 /\ Len(t) = 1 /\ Len(u) = 2
      BY ReadsTyped, <2>1
    <2>3. /\ u[1] = s[1]
          /\ u[2] = t[1]
      BY <2>1
    <2>4. \A i \in 1..Len(s) : u[i] = s[i]
      BY <2>2, <2>3
    <2>5. \A i \in 1..Len(t) : u[Len(s) + i] = t[i]
      BY <2>2, <2>3
    <2>6. Len(u) = Len(s) + Len(t)
      BY <2>2
    <2>7. s \o t = u
      BY ONLY <2>2, <2>4, <2>5, <2>6, Joins
    <2> QED
      BY <2>1, <2>7, Zenon
  <1>4. <<"outgoing", "proxies", "aligned">> \o <<"incoming", "incoming proxies">>
          = <<"outgoing", "proxies", "aligned", "incoming", "incoming proxies">>
    <2>1. PICK s, t, u : /\ s = <<"outgoing", "proxies", "aligned">> /\ t = <<"incoming", "incoming proxies">>
                         /\ u = <<"outgoing", "proxies", "aligned", "incoming", "incoming proxies">>
      OBVIOUS
    <2>2. /\ s \in Seq(ReadNames) /\ t \in Seq(ReadNames) /\ u \in Seq(ReadNames)
          /\ Len(s) = 3 /\ Len(t) = 2 /\ Len(u) = 5
      BY ReadsTyped, <2>1
    <2>3. /\ u[1] = s[1] /\ u[2] = s[2] /\ u[3] = s[3]
          /\ u[4] = t[1] /\ u[5] = t[2]
      BY <2>1
    <2>4. \A i \in 1..Len(s) : u[i] = s[i]
      BY <2>2, <2>3
    <2>5. \A i \in 1..Len(t) : u[Len(s) + i] = t[i]
      BY <2>2, <2>3
    <2>6. Len(u) = Len(s) + Len(t)
      BY <2>2
    <2>7. s \o t = u
      BY ONLY <2>2, <2>4, <2>5, <2>6, Joins
    <2> QED
      BY <2>1, <2>7, Zenon
  <1>5. <<"outgoing">> \o <<>> = <<"outgoing">>
    OBVIOUS
  <1>6. <<"incoming">> \o <<>> = <<"incoming">>
    OBVIOUS
  <1>7. <<"outgoing", "proxies", "aligned">> \o <<>> = <<"outgoing", "proxies", "aligned">>
    OBVIOUS
  <1>8. <<>> \o <<"incoming">> = <<"incoming">>
    OBVIOUS
  <1>9. <<>> \o <<"incoming", "incoming proxies">> = <<"incoming", "incoming proxies">>
    OBVIOUS
  <1> QED
    BY <1>1, <1>2, <1>3, <1>4, <1>5, <1>6, <1>7, <1>8, <1>9

LEMMA ReadsAre ==
    ASSUME NEW q
    PROVE  /\ q.direction = "outgoing" /\ ShouldFetchAligned(q)
                => Reads(q) = <<"outgoing", "proxies", "aligned">>
           /\ q.direction = "outgoing" /\ ~ShouldFetchAligned(q) => Reads(q) = <<"outgoing">>
           /\ q.direction = "incoming" /\ ShouldFetchAligned(q)
                => Reads(q) = <<"incoming", "incoming proxies">>
           /\ q.direction = "incoming" /\ ~ShouldFetchAligned(q) => Reads(q) = <<"incoming">>
           /\ q.direction = "all" /\ ShouldFetchAligned(q)
                => Reads(q) = <<"outgoing", "proxies", "aligned", "incoming", "incoming proxies">>
           /\ q.direction = "all" /\ ~ShouldFetchAligned(q)
                => Reads(q) = <<"outgoing", "incoming">>
  <1>1. CASE ShouldFetchAligned(q)
    BY <1>1, ReadsJoin, Zenon DEF Reads
  <1>2. CASE ~ShouldFetchAligned(q)
    BY <1>2, ReadsJoin, Zenon DEF Reads
  <1> QED
    BY <1>1, <1>2

LEMMA TwoReads ==
    ASSUME NEW a, NEW b, NEW t, t = <<a, b>>
    PROVE  Len(t) = 2 /\ t # <<>> /\ t[1] = a /\ t[2] = b
  OBVIOUS

LEMMA FiveReads ==
    ASSUME NEW a, NEW b, NEW c, NEW d, NEW e, NEW t, t = <<a, b, c, d, e>>
    PROVE  /\ Len(t) = 5 /\ t # <<>>
           /\ t[1] = a /\ t[2] = b /\ t[3] = c /\ t[4] = d /\ t[5] = e
  OBVIOUS

LEMMA ReadsRight ==
    ASSUME NEW q, QueryTyped(q), q.todo = Reads(q)
    PROVE  /\ TodoRight(q)
           /\ q.direction # "incoming" => Left(q, "outgoing")
           /\ q.direction # "incoming" /\ ShouldFetchAligned(q) => Left(q, "aligned")
           /\ q.direction # "outgoing" => Left(q, "incoming")
           /\ q.direction # "outgoing" /\ ShouldFetchAligned(q) => Left(q, "incoming proxies")
           /\ ~At(q, "aligned") /\ ~At(q, "incoming proxies")
  <1>1. CASE q.direction = "outgoing" /\ ShouldFetchAligned(q)
    <2>1. PICK t : t = q.todo /\ t = <<"outgoing", "proxies", "aligned">>
      BY <1>1, ReadsAre
    <2>0. Len(t) = 3 /\ t # <<>>
      BY ONLY <2>1
    <2>e. /\ t[1] = "outgoing" /\ t[2] = "proxies" /\ t[3] = "aligned"
      BY ONLY <2>1
    <2>2. /\ Len(t) = 3 /\ t # <<>>
          /\ t[1] = "outgoing" /\ t[2] = "proxies" /\ t[3] = "aligned"
      BY <2>0, <2>e
    <2>3. t \in Seq(ReadNames)
      BY <2>1, ReadsTyped
    <2>4. Head(t) = t[1]
      BY <2>2, <2>3, TailOf
    <2>5. \A i \in 1..3 : i = 1 \/ (i = 2 /\ i - 1 = 1) \/ (i = 3 /\ i - 1 = 2)
      OBVIOUS
    <2>6. TodoRight(q)
      BY <1>1, <2>1, <2>2, <2>3, <2>5 DEF TodoRight
    <2>i. \A i \in 1..3 : Left(q, t[i])
      BY <2>1, <2>2 DEF Left
    <2>7. /\ Left(q, "outgoing")
          /\ Left(q, "proxies")
          /\ Left(q, "aligned")
      BY <2>2, <2>i
    <2>8. Head(q.todo) \in {"outgoing", "incoming"}
      BY <2>1, <2>2, <2>4
    <2>9. ~At(q, "aligned") /\ ~At(q, "incoming proxies")
      BY <2>8 DEF At
    <2> QED
      BY ONLY <1>1, <2>6, <2>7, <2>9, Zenon
  <1>2. CASE q.direction = "outgoing" /\ ~ShouldFetchAligned(q)
    <2>1. PICK t : t = q.todo /\ t = <<"outgoing">>
      BY <1>2, ReadsAre
    <2>0. Len(t) = 1 /\ t # <<>>
      BY ONLY <2>1
    <2>e. /\ t[1] = "outgoing"
      BY ONLY <2>1
    <2>2. /\ Len(t) = 1 /\ t # <<>>
          /\ t[1] = "outgoing"
      BY <2>0, <2>e
    <2>3. t \in Seq(ReadNames)
      BY <2>1, ReadsTyped
    <2>4. Head(t) = t[1]
      BY <2>2, <2>3, TailOf
    <2>5. \A i \in 1..1 : i = 1
      OBVIOUS
    <2>6. TodoRight(q)
      BY <1>2, <2>1, <2>2, <2>3, <2>5 DEF TodoRight
    <2>i. \A i \in 1..1 : Left(q, t[i])
      BY <2>1, <2>2 DEF Left
    <2>7. /\ Left(q, "outgoing")
      BY <2>2, <2>i
    <2>8. Head(q.todo) \in {"outgoing", "incoming"}
      BY <2>1, <2>2, <2>4
    <2>9. ~At(q, "aligned") /\ ~At(q, "incoming proxies")
      BY <2>8 DEF At
    <2> QED
      BY ONLY <1>2, <2>6, <2>7, <2>9, Zenon
  <1>3. CASE q.direction = "incoming" /\ ShouldFetchAligned(q)
    <2>1. PICK t : t = q.todo /\ t = <<"incoming", "incoming proxies">>
      BY <1>3, ReadsAre
    <2>2. /\ Len(t) = 2 /\ t # <<>>
          /\ t[1] = "incoming" /\ t[2] = "incoming proxies"
      <3>1. PICK v, w : v = "incoming" /\ w = "incoming proxies"
        OBVIOUS
      <3>2. t = <<v, w>>
        BY <2>1, <3>1, Zenon
      <3>3. /\ Len(t) = 2 /\ t # <<>>
            /\ t[1] = v /\ t[2] = w
        BY ONLY <3>2, TwoReads
      <3> QED
        BY <3>1, <3>3, Zenon
    <2>3. t \in Seq(ReadNames)
      BY <2>1, ReadsTyped
    <2>4. Head(t) = t[1]
      BY <2>2, <2>3, TailOf
    <2>5. \A i \in 1..2 : i = 1 \/ (i = 2 /\ i - 1 = 1)
      OBVIOUS
    <2>6. TodoRight(q)
      BY <1>3, <2>1, <2>2, <2>3, <2>5 DEF TodoRight
    <2>i. \A i \in 1..2 : Left(q, t[i])
      BY <2>1, <2>2 DEF Left
    <2>7. /\ Left(q, "incoming")
          /\ Left(q, "incoming proxies")
      <3>1. Left(q, t[1]) /\ Left(q, t[2])
        BY <2>i
      <3> QED
        BY <2>2, <3>1, Zenon
    <2>8. Head(q.todo) \in {"outgoing", "incoming"}
      BY <2>1, <2>2, <2>4
    <2>9. ~At(q, "aligned") /\ ~At(q, "incoming proxies")
      BY <2>8 DEF At
    <2> QED
      BY ONLY <1>3, <2>6, <2>7, <2>9, Zenon
  <1>4. CASE q.direction = "incoming" /\ ~ShouldFetchAligned(q)
    <2>1. PICK t : t = q.todo /\ t = <<"incoming">>
      BY <1>4, ReadsAre
    <2>0. Len(t) = 1 /\ t # <<>>
      BY ONLY <2>1
    <2>e. /\ t[1] = "incoming"
      BY ONLY <2>1
    <2>2. /\ Len(t) = 1 /\ t # <<>>
          /\ t[1] = "incoming"
      BY <2>0, <2>e
    <2>3. t \in Seq(ReadNames)
      BY <2>1, ReadsTyped
    <2>4. Head(t) = t[1]
      BY <2>2, <2>3, TailOf
    <2>5. \A i \in 1..1 : i = 1
      OBVIOUS
    <2>6. TodoRight(q)
      BY <1>4, <2>1, <2>2, <2>3, <2>5 DEF TodoRight
    <2>i. \A i \in 1..1 : Left(q, t[i])
      BY <2>1, <2>2 DEF Left
    <2>7. /\ Left(q, "incoming")
      BY <2>2, <2>i
    <2>8. Head(q.todo) \in {"outgoing", "incoming"}
      BY <2>1, <2>2, <2>4
    <2>9. ~At(q, "aligned") /\ ~At(q, "incoming proxies")
      BY <2>8 DEF At
    <2> QED
      BY ONLY <1>4, <2>6, <2>7, <2>9, Zenon
  <1>5. CASE q.direction = "all" /\ ShouldFetchAligned(q)
    <2>1. PICK t : /\ t = q.todo
                   /\ t = <<"outgoing", "proxies", "aligned", "incoming", "incoming proxies">>
      BY <1>5, ReadsAre
    <2>2. /\ Len(t) = 5 /\ t # <<>>
          /\ t[1] = "outgoing" /\ t[2] = "proxies" /\ t[3] = "aligned"
          /\ t[4] = "incoming" /\ t[5] = "incoming proxies"
      <3>1. PICK v, w, x, y, z : v = "outgoing" /\ w = "proxies" /\ x = "aligned" /\ y = "incoming" /\ z = "incoming proxies"
        OBVIOUS
      <3>2. t = <<v, w, x, y, z>>
        BY <2>1, <3>1, Zenon
      <3>3. /\ Len(t) = 5 /\ t # <<>>
            /\ t[1] = v /\ t[2] = w /\ t[3] = x /\ t[4] = y /\ t[5] = z
        BY ONLY <3>2, FiveReads
      <3> QED
        BY <3>1, <3>3, Zenon
    <2>3. t \in Seq(ReadNames)
      BY <2>1, ReadsTyped
    <2>4. Head(t) = t[1]
      BY <2>2, <2>3, TailOf
    <2>5. \A i \in 1..5 : \/ i = 1 \/ (i = 2 /\ i - 1 = 1) \/ (i = 3 /\ i - 1 = 2)
                          \/ (i = 4 /\ i - 1 = 3) \/ (i = 5 /\ i - 1 = 4)
      OBVIOUS
    <2>6. TodoRight(q)
      BY <1>5, <2>1, <2>2, <2>3, <2>5 DEF TodoRight
    <2>i. \A i \in 1..5 : Left(q, t[i])
      BY <2>1, <2>2 DEF Left
    <2>7. /\ Left(q, "outgoing")
          /\ Left(q, "proxies")
          /\ Left(q, "aligned")
          /\ Left(q, "incoming")
          /\ Left(q, "incoming proxies")
      <3>1. Left(q, t[1]) /\ Left(q, t[2]) /\ Left(q, t[3]) /\ Left(q, t[4]) /\ Left(q, t[5])
        BY <2>i
      <3> QED
        BY <2>2, <3>1, Zenon
    <2>8. Head(q.todo) \in {"outgoing", "incoming"}
      BY <2>1, <2>2, <2>4
    <2>9. ~At(q, "aligned") /\ ~At(q, "incoming proxies")
      BY <2>8 DEF At
    <2> QED
      BY ONLY <1>5, <2>6, <2>7, <2>9, Zenon
  <1>6. CASE q.direction = "all" /\ ~ShouldFetchAligned(q)
    <2>1. PICK t : t = q.todo /\ t = <<"outgoing", "incoming">>
      BY <1>6, ReadsAre
    <2>2. /\ Len(t) = 2 /\ t # <<>>
          /\ t[1] = "outgoing" /\ t[2] = "incoming"
      <3>1. PICK v, w : v = "outgoing" /\ w = "incoming"
        OBVIOUS
      <3>2. t = <<v, w>>
        BY <2>1, <3>1, Zenon
      <3>3. /\ Len(t) = 2 /\ t # <<>>
            /\ t[1] = v /\ t[2] = w
        BY ONLY <3>2, TwoReads
      <3> QED
        BY <3>1, <3>3, Zenon
    <2>3. t \in Seq(ReadNames)
      BY <2>1, ReadsTyped
    <2>4. Head(t) = t[1]
      BY <2>2, <2>3, TailOf
    <2>5. \A i \in 1..2 : i = 1 \/ (i = 2 /\ i - 1 = 1)
      OBVIOUS
    <2>6. TodoRight(q)
      BY <1>6, <2>1, <2>2, <2>3, <2>5 DEF TodoRight
    <2>i. \A i \in 1..2 : Left(q, t[i])
      BY <2>1, <2>2 DEF Left
    <2>7. /\ Left(q, "outgoing")
          /\ Left(q, "incoming")
      <3>1. Left(q, t[1]) /\ Left(q, t[2])
        BY <2>i
      <3> QED
        BY <2>2, <3>1, Zenon
    <2>8. Head(q.todo) \in {"outgoing", "incoming"}
      BY <2>1, <2>2, <2>4
    <2>9. ~At(q, "aligned") /\ ~At(q, "incoming proxies")
      BY <2>8 DEF At
    <2> QED
      BY ONLY <1>6, <2>6, <2>7, <2>9, Zenon
  <1>7. q.direction \in {"all", "outgoing", "incoming"}
    BY DEF QueryTyped
  <1> QED
    BY <1>1, <1>2, <1>3, <1>4, <1>5, <1>6, <1>7

LEMMA GetKnown ==
    ASSUME NEW ss, NEW ps, NEW q \in Queries, NEW r,
           NEW g, g = [active |-> TRUE, todo |-> Reads(q), found |-> <<>>, decoded |-> <<>>,
                       always |-> Asked(ss, ps, q), ever |-> Asked(ss, ps, q)],
           r = Merged(q, g)
    PROVE  Known(ss, ps, r)
  <1>1. /\ DOMAIN q = {"address", "type", "direction"}
        /\ q.address \in Senders \cup Recipients
        /\ q.type \in {"all", "payment", "vesting", "lock"}
        /\ q.direction \in {"all", "outgoing", "incoming"}
    BY StreamsAssumption
  <1>2. /\ DOMAIN g = {"active", "todo", "found", "decoded", "always", "ever"}
        /\ g.active = TRUE /\ g.todo = Reads(q) /\ g.found = <<>>
        /\ g.always = Asked(ss, ps, q) /\ g.ever = Asked(ss, ps, q)
    OBVIOUS
  <1>3. /\ DOMAIN r = DOMAIN q \cup DOMAIN g
        /\ \A x \in DOMAIN q : r[x] = q[x]
        /\ \A x \in DOMAIN g \ DOMAIN q : r[x] = g[x]
    BY DEF Merged
  <1>4. QueryTyped(r) /\ SameCall(q, r)
    BY <1>1, <1>2, <1>3 DEF QueryTyped, QueryFields, SameCall
  <1>5. /\ r.todo = Reads(q) /\ r.found = <<>>
        /\ r.always = Asked(ss, ps, q) /\ r.ever = Asked(ss, ps, q)
    BY <1>1, <1>2, <1>3
  <1>6. Asked(ss, ps, r) = Asked(ss, ps, q)
    BY <1>4, SameAnswers
  <1>7. Reads(r) = Reads(q)
    <2>1. ShouldFetchAligned(r) <=> ShouldFetchAligned(q)
      BY <1>4 DEF SameCall, ShouldFetchAligned
    <2>2. r.direction = q.direction
      BY <1>4 DEF SameCall
    <2> QED
      BY <1>1, <2>1, <2>2, ReadsAre
  <1>8. r.todo = Reads(r)
    BY <1>5, <1>7
  <1>9. /\ TodoRight(r)
        /\ r.direction # "incoming" => Left(r, "outgoing")
        /\ r.direction # "incoming" /\ ShouldFetchAligned(r) => Left(r, "aligned")
        /\ r.direction # "outgoing" => Left(r, "incoming")
        /\ r.direction # "outgoing" /\ ShouldFetchAligned(r) => Left(r, "incoming proxies")
        /\ ~At(r, "aligned") /\ ~At(r, "incoming proxies")
    BY <1>4, <1>8, ReadsRight
  <1>10. Bounded(ss, ps, r)
    BY <1>5, <1>6 DEF Bounded
  <1>11. DOMAIN r.found = {}
    BY <1>5
  <1>12. FoundAll(ss, ps, r)
    <2>1. ASSUME NEW id \in r.always
          PROVE  Left(r, Reader(ss, ps, r, id))
      <3>1. id \in Asked(ss, ps, r)
        BY <1>5, <1>6
      <3>2. /\ \/ Sent(ss, ps, r, id)
               \/ r.direction # "outgoing" /\ ss[id].recipient = r.address
            /\ AlignedIn(ss, id) => ShouldFetchAligned(r)
        BY <3>1, AskedFor
      <3>3. Sent(ss, ps, r, id) => r.direction # "incoming"
        BY DEF Sent
      <3> QED
        BY <1>9, <3>2, <3>3 DEF Reader
    <2> QED
      BY <2>1 DEF FoundAll
  <1> QED
    BY <1>4, <1>9, <1>10, <1>11, <1>12 DEF Known, FoundSound, Unread, OffersRead, StreamsRead

-----------------------------------------------------------------------------
(* The invariant of the call.                                              *)
QInv == query.active => Known(streams, proxies, query)

LEMMA StepGrows ==
    ASSUME IInv, [Next]_vars
    PROVE  Grown(streams, proxies, streams', proxies')
  <1>1. ASSUME NEW id \in DOMAIN streams
        PROVE  /\ id \in DOMAIN streams' /\ streams'[id].sender = streams[id].sender
               /\ View(streams', proxies', id).sender = View(streams, proxies, id).sender
               /\ AlignedIn(streams, id) =>
                    SameOffer(proxies[ContractPDA(id)], proxies'[ContractPDA(id)])
    <2>1. id \in DOMAIN streams' /\ streams'[id].sender = streams[id].sender
      BY StepKeepsKind DEF SameKind
    <2>2. View(streams', proxies', id).sender = View(streams, proxies, id).sender
      BY StepKeepsType DEF KeepsType
    <2>3. AlignedIn(streams, id) =>
            SameOffer(proxies[ContractPDA(id)], proxies'[ContractPDA(id)])
      BY StepKeepsKind DEF AlignedIn, Aligned
    <2> QED
      BY <2>1, <2>2, <2>3
  <1> QED
    BY <1>1 DEF Grown

LEMMA OperateWatches ==
    ASSUME Operate
    PROVE  Watched
  <1>1. ASSUME NEW ixs, NEW i, Land(ixs, i) PROVE Watched
    BY <1>1 DEF Land
  <1>2. ASSUME NEW id \in Ids, Create(id) PROVE Watched
    BY <1>1, <1>2 DEF Create
  <1>3. ASSUME NEW id \in DOMAIN streams, Withdraw(id) \/ Cancel(id) \/ Transfer(id)
        PROVE  Watched
    BY <1>1, <1>3 DEF Withdraw, Cancel, Transfer
  <1>4. ASSUME NEW id \in DOMAIN streams, Topup(id) \/ Update(id) PROVE Watched
    BY <1>1, <1>4 DEF Topup, Update
  <1>5. ASSUME NEW id \in DOMAIN streams, AlignedUpdate(id) PROVE Watched
    BY <1>5 DEF AlignedUpdate
  <1> QED
    BY <1>2, <1>3, <1>4, <1>5 DEF Operate

LEMMA WatchedKnown ==
    ASSUME QInv, Watched, Grown(streams, proxies, streams', proxies')
    PROVE  QInv'
  <1>1. CASE ~query.active
    <2>1. query' = query
      BY <1>1 DEF Watched
    <2> QED
      BY <1>1, <2>1 DEF QInv
  <1>2. CASE query.active
    <2>1. PICK q, r, ss, ps, tt, pp : /\ q = query /\ r = query' /\ ss = streams /\ ps = proxies
                                      /\ tt = streams' /\ pp = proxies'
      OBVIOUS
    <2>2. Known(ss, ps, q) /\ Grown(ss, ps, tt, pp)
      BY <1>2, <2>1 DEF QInv
    <2>3. PICK asked : asked = Asked(tt, pp, q)
      OBVIOUS
    <2>4. r = [q EXCEPT !.always = q.always \cap asked, !.ever = q.ever \cup asked]
      BY <1>2, <2>1, <2>3 DEF Watched
    <2>a. DOMAIN q = QueryFields
      BY <2>2 DEF Known, QueryTyped
    <2>b. /\ DOMAIN r = DOMAIN q /\ r.always = q.always \cap asked /\ r.ever = q.ever \cup asked
          /\ \A f \in DOMAIN q \ {"always", "ever"} : r[f] = q[f]
      BY <2>4, <2>a DEF QueryFields
    <2>5. Known(tt, pp, r)
      BY ONLY <2>2, <2>3, <2>b, StillKnown
    <2> QED
      BY <2>1, <2>5 DEF QInv
  <1> QED
    BY <1>1, <1>2

LEMMA ReadKnown ==
    ASSUME IInv, QInv, ReadNext
    PROVE  QInv'
  <1>1. PICK q, r : q = query /\ r = query'
    OBVIOUS
  <1>2. streams' = streams /\ proxies' = proxies /\ query.active
    BY DEF ReadNext, ReadOutgoing, ReadProxies, ReadAligned, ReadIncoming, ReadIncomingProxies,
           Answered
  <1>3. Known(streams, proxies, q)
    BY <1>1, <1>2 DEF QInv
  <1>4. DOMAIN streams \subseteq Ids /\ ProxiesRight
    BY DEF IInv, StreamsRight
  <1>5. Known(streams, proxies, r)
    <2>1. CASE ReadOutgoing
      BY <1>1, <1>3, <1>4, <2>1, OutgoingKnown
    <2>2. CASE ReadProxies
      BY <1>1, <1>3, <1>4, <2>2, ProxiesKnown
    <2>3. CASE ReadAligned
      BY <1>1, <1>3, <2>3, AlignedKnown
    <2>4. CASE ReadIncoming
      BY <1>1, <1>3, <2>4, IncomingKnown
    <2>5. CASE ReadIncomingProxies
      BY <1>1, <1>3, <1>4, <2>5, IncomingProxiesKnown
    <2> QED
      BY <2>1, <2>2, <2>3, <2>4, <2>5 DEF ReadNext
  <1> QED
    BY <1>1, <1>2, <1>5 DEF QInv

LEMMA QueryInvariance ==
    ASSUME IInv, QInv, [Next]_vars
    PROVE  QInv'
  <1>1. CASE Operate
    BY <1>1, OperateWatches, StepGrows, WatchedKnown
  <1>2. CASE CloseAccount \/ Tick
    <2>1. query' = query /\ ~query.active
      BY <1>2 DEF CloseAccount, Tick
    <2> QED
      BY <2>1 DEF QInv
  <1>3. CASE Get
    <2>1. PICK r, ss, ps : r = query' /\ ss = streams /\ ps = proxies
      OBVIOUS
    <2>2. streams' = ss /\ proxies' = ps
      BY <1>3, <2>1 DEF Get
    <2>3. PICK q \in Queries :
            r = Merged(q, [active |-> TRUE, todo |-> Reads(q), found |-> <<>>, decoded |-> <<>>,
                           always |-> Asked(ss, ps, q), ever |-> Asked(ss, ps, q)])
      BY <1>3, <2>1 DEF Get
    <2>4. PICK g : g = [active |-> TRUE, todo |-> Reads(q), found |-> <<>>, decoded |-> <<>>,
                        always |-> Asked(ss, ps, q), ever |-> Asked(ss, ps, q)]
      OBVIOUS
    <2>5. r = Merged(q, g)
      BY <2>3, <2>4
    <2>6. Known(ss, ps, r)
      BY ONLY <2>4, <2>5, q \in Queries, GetKnown
    <2> QED
      BY <2>1, <2>2, <2>6 DEF QInv
  <1>4. CASE ReadNext
    BY <1>4, ReadKnown
  <1>5. CASE Return
    <2>1. query' = NoQuery
      BY <1>5 DEF Return
    <2>2. ~(query'.active)
      BY <2>1 DEF NoQuery
    <2> QED
      BY <2>2 DEF QInv
  <1>6. CASE UNCHANGED vars
    BY <1>6 DEF vars, QInv
  <1> QED
    BY <1>1, <1>2, <1>3, <1>4, <1>5, <1>6 DEF Next

LEMMA QueryAlways ==
    Spec => []QInv
  <1>1. Init => QInv
    <2>1. ~NoQuery.active
      BY DEF NoQuery
    <2> QED
      BY <2>1 DEF Init, QInv
  <1>2. IInv /\ QInv /\ [Next]_vars => QInv'
    BY QueryInvariance
  <1> QED
    BY <1>1, <1>2, Always, PTL DEF Spec

(* get (StreamClient.ts:1392-1450): whatever operations land between its   *)
(* reads, it returns every stream that was asked for all the while, and    *)
(* none that never was, under the wallet that created it.                  *)
THEOREM GetCorrect == Spec => []GetIsRight
  <1>1. ASSUME QInv PROVE GetIsRight
    <2> SUFFICES ASSUME Returned
                 PROVE  /\ query.always \subseteq Result /\ Result \subseteq query.ever
                        /\ \A id \in Result :
                             query.found[id].sender = View(streams, proxies, id).sender
      BY DEF GetIsRight
    <2>1. PICK q : q = query
      OBVIOUS
    <2>2. Known(streams, proxies, q) /\ q.todo = <<>>
      BY <1>1, <2>1 DEF Returned, QInv
    <2>3. Result = {id \in DOMAIN q.found : Matches(q, q.found[id].type)}
      BY <2>1 DEF Result, Matches
    <2>4. \A read : ~Left(q, read)
      BY <2>2 DEF Left
    <2>5. \A id \in q.always : HasFound(q, id)
      BY <2>2, <2>4 DEF Known, FoundAll
    <2>6. q.always \subseteq Result
      BY <2>3, <2>5 DEF HasFound
    <2>7. ASSUME NEW id \in Result
          PROVE  id \in q.ever /\ q.found[id].sender = View(streams, proxies, id).sender
      BY <2>2, <2>3 DEF Known, FoundSound
    <2> QED
      BY <2>1, <2>6, <2>7
  <1> QED
    BY <1>1, QueryAlways, PTL

-----------------------------------------------------------------------------
(* Transactions that succeed.  The chain between their instructions: only  *)
(* token accounts, wrapped tokens and allocated accounts have changed.     *)
World(T, w, A) ==
    [ok |-> TRUE, streams |-> streams, proxies |-> proxies, tokens |-> T,
     wrapped |-> w, allocated |-> A]

(* The instructions take the chain from one state to another.              *)
Leads(ixs, invoker, c, d) ==
    \E S, f : /\ ixs \in Seq(S) /\ f[0] = c /\ f[Len(ixs)] = d
              /\ \A k \in 1..Len(ixs) : f[k] = Executed(f[k - 1], ixs[k], invoker)

LEMMA LeadsNowhere ==
    ASSUME NEW invoker, NEW c
    PROVE  Leads(<<>>, invoker, c, c)
  <1>1. PICK s : s = <<>>
    OBVIOUS
  <1>2. PICK f : f = [k \in {0} |-> c]
    OBVIOUS
  <1>3. s \in Seq({}) /\ Len(s) = 0
    BY <1>1
  <1>4. f[0] = c
    BY <1>2
  <1>5. Leads(s, invoker, c, c)
    BY <1>3, <1>4 DEF Leads
  <1> QED
    BY <1>1, <1>5

LEMMA LeadsOnce ==
    ASSUME NEW ix, NEW invoker, NEW c, NEW d, d = Executed(c, ix, invoker)
    PROVE  Leads(<<ix>>, invoker, c, d)
  <1>1. PICK s : s = <<ix>>
    OBVIOUS
  <1>2. PICK f : f = [k \in 0..1 |-> IF k = 0 THEN c ELSE d]
    OBVIOUS
  <1>3. s \in Seq({ix}) /\ Len(s) = 1 /\ s[1] = ix
    BY <1>1
  <1>4. f[0] = c /\ f[1] = d
    BY <1>2
  <1>5. f[1] = Executed(f[1 - 1], s[1], invoker)
    BY <1>3, <1>4
  <1>6. \A k \in 1..Len(s) : k = 1
    BY <1>3
  <1>7. \A k \in 1..Len(s) : f[k] = Executed(f[k - 1], s[k], invoker)
    BY <1>5, <1>6
  <1>8. Leads(s, invoker, c, d)
    BY <1>3, <1>4, <1>7 DEF Leads
  <1> QED
    BY <1>1, <1>8

LEMMA LeadsOn ==
    ASSUME NEW s, NEW t, NEW invoker, NEW c, NEW d, NEW e,
           Leads(s, invoker, c, d), Leads(t, invoker, d, e)
    PROVE  Leads(s \o t, invoker, c, e)
  <1>1. PICK S, f : /\ s \in Seq(S) /\ f[0] = c /\ f[Len(s)] = d
                    /\ \A k \in 1..Len(s) : f[k] = Executed(f[k - 1], s[k], invoker)
    BY DEF Leads
  <1>2. PICK T, g : /\ t \in Seq(T) /\ g[0] = d /\ g[Len(t)] = e
                    /\ \A k \in 1..Len(t) : g[k] = Executed(g[k - 1], t[k], invoker)
    BY DEF Leads
  <1>3. PICK U : U = S \cup T
    OBVIOUS
  <1>4. s \in Seq(U) /\ t \in Seq(U)
    BY <1>1, <1>2, <1>3, SeqMonotonic
  <1>5. /\ s \o t \in Seq(U) /\ Len(s \o t) = Len(s) + Len(t)
        /\ \A k \in 1..(Len(s) + Len(t)) :
             (s \o t)[k] = IF k <= Len(s) THEN s[k] ELSE t[k - Len(s)]
    BY <1>4, ConcatProperties
  <1>6. PICK m \in Nat, n \in Nat : m = Len(s) /\ n = Len(t)
    BY <1>1, <1>2
  <1>7. PICK h : h = [k \in 0..(m + n) |-> IF k <= m THEN f[k] ELSE g[k - m]]
    OBVIOUS
  <1>8. \A k \in 0..m : h[k] = f[k]
    BY <1>6, <1>7
  <1>9. \A k \in 0..n : h[m + k] = g[k]
    <2>1. h[m + 0] = g[0]
      BY <1>1, <1>2, <1>6, <1>8
    <2>2. ASSUME NEW k \in 1..n PROVE h[m + k] = g[k]
      <3>1. m + k \in 0..(m + n) /\ ~(m + k <= m) /\ (m + k) - m = k
        BY <1>6
      <3> QED
        BY <1>7, <3>1
    <2>3. \A k \in 0..n : k = 0 \/ k \in 1..n
      OBVIOUS
    <2> QED
      BY <2>1, <2>2, <2>3
  <1>10. ASSUME NEW k \in 1..(m + n) PROVE h[k] = Executed(h[k - 1], (s \o t)[k], invoker)
    <2>1. CASE k <= m
      <3>1. k \in 1..m /\ k \in 0..m /\ k - 1 \in 0..m
        BY <1>6, <2>1
      <3>2. (s \o t)[k] = s[k] /\ h[k] = f[k] /\ h[k - 1] = f[k - 1]
        BY <1>5, <1>6, <1>8, <2>1, <3>1
      <3> QED
        BY <1>1, <1>6, <3>1, <3>2
    <2>2. CASE k > m
      <3>1. PICK j : j = k - m
        OBVIOUS
      <3>2. j \in 1..n /\ j \in 0..n /\ j - 1 \in 0..n /\ k = m + j /\ k - 1 = m + (j - 1) /\ ~(k <= m)
        BY <1>6, <2>2, <3>1
      <3>3. (s \o t)[k] = t[j] /\ h[k] = g[j] /\ h[k - 1] = g[j - 1]
        BY <1>5, <1>6, <1>9, <3>1, <3>2
      <3> QED
        BY <1>2, <1>6, <3>2, <3>3
    <2> QED
      BY <1>6, <2>1, <2>2
  <1>11. h[0] = c /\ h[m + n] = e
    BY <1>1, <1>2, <1>6, <1>8, <1>9
  <1> QED
    BY <1>5, <1>6, <1>10, <1>11 DEF Leads

LEMMA LeadsToItsEnd ==
    ASSUME NEW ixs, NEW invoker, NEW d, Leads(ixs, invoker, Chain, d)
    PROVE  Run(ixs, invoker) = d
  <1>1. PICK S, g : /\ ixs \in Seq(S) /\ g[0] = Chain /\ g[Len(ixs)] = d
                    /\ \A k \in 1..Len(ixs) : g[k] = Executed(g[k - 1], ixs[k], invoker)
    BY DEF Leads
  <1>2. PICK n \in Nat : n = Len(ixs) /\ DOMAIN ixs = 1..n
    BY <1>1
  <1>3. PICK f : Stepwise(f, ixs, n, invoker) /\ Run(ixs, invoker) = f[n]
    BY <1>2, RunIsStepwise
  <1> DEFINE Same == {k \in Nat : k <= n => f[k] = g[k]}
  <1>4. 0 \in Same
    BY <1>1, <1>3 DEF Stepwise
  <1>5. ASSUME NEW k \in Nat, k \in Same PROVE k + 1 \in Same
    <2>1. SUFFICES ASSUME k + 1 <= n PROVE f[k + 1] = g[k + 1]
      OBVIOUS
    <2>2. k + 1 \in 1..n /\ (k + 1) - 1 = k /\ f[k] = g[k]
      BY <1>5, <2>1
    <2>3. f[k + 1] = Executed(f[k], ixs[k + 1], invoker)
      BY <1>3, <2>2 DEF Stepwise
    <2>4. g[k + 1] = Executed(g[k], ixs[k + 1], invoker)
      BY <1>1, <1>2, <2>2
    <2> QED
      BY <2>2, <2>3, <2>4
  <1> HIDE DEF Same
  <1>6. n \in Same
    BY <1>4, <1>5, Inductive
  <1> QED
    BY <1>1, <1>2, <1>3, <1>6 DEF Same

(* What is prepared for the operation.                                     *)
LEMMA WorldIs ==
    ASSUME NEW d, NEW T, NEW w, NEW A, IsWorld(d), d.ok = TRUE, d.streams = streams,
           d.proxies = proxies, d.tokens = T, d.wrapped = w, d.allocated = A
    PROVE  d = World(T, w, A)
  BY Zenon DEF IsWorld, World

LEMMA AtaCreated ==
    ASSUME NEW T, NEW w, NEW A, NEW owner, NEW invoker, Tokens(owner) \notin T
    PROVE  Executed(World(T, w, A), CreateAta(owner), invoker)
             = World(T \cup {Tokens(owner)}, w, A)
  <1>1. PICK c : c = World(T, w, A)
    OBVIOUS
  <1>2. PICK ix : ix = CreateAta(owner)
    OBVIOUS
  <1>3. ix.op = "createAta" /\ ix.owner = owner /\ c.ok = TRUE /\ c.tokens = T
    BY <1>1, <1>2 DEF World, CreateAta
  <1>4. Allowed(c, ix, invoker)
    BY <1>3 DEF Allowed
  <1>5. PICK d : d = Changed(c, ix)
    OBVIOUS
  <1>6. d = [c EXCEPT !.tokens = T \cup {Tokens(owner)}]
    BY <1>3, <1>5 DEF Changed
  <1>7. /\ IsWorld(d) /\ d.ok = TRUE /\ d.streams = streams /\ d.proxies = proxies
        /\ d.tokens = T \cup {Tokens(owner)} /\ d.wrapped = w /\ d.allocated = A
    <2>1. /\ IsWorld(c) /\ c.ok = TRUE /\ c.streams = streams /\ c.proxies = proxies
          /\ c.tokens = T /\ c.wrapped = w /\ c.allocated = A
      BY <1>1 DEF World, IsWorld
    <2> QED
      BY <1>6, <2>1 DEF IsWorld
  <1>8. d = World(T \cup {Tokens(owner)}, w, A)
    BY <1>7, WorldIs
  <1>9. Executed(c, ix, invoker) = d
    BY <1>3, <1>4, <1>5 DEF Executed
  <1> QED
    BY <1>1, <1>2, <1>8, <1>9, Zenon

LEMMA Wrapped ==
    ASSUME NEW T, NEW w, NEW A, NEW invoker,
           NEW ix, ix.op = "wrap", Tokens(ix.owner) \in T
    PROVE  Executed(World(T, w, A), ix, invoker) = World(T, w + ix.amount, A)
  <1>1. PICK c : c = World(T, w, A)
    OBVIOUS
  <1>2. /\ IsWorld(c) /\ c.ok = TRUE /\ c.streams = streams /\ c.proxies = proxies
        /\ c.tokens = T /\ c.wrapped = w /\ c.allocated = A
    BY <1>1 DEF World, IsWorld
  <1>3. Allowed(c, ix, invoker)
    BY <1>2 DEF Allowed
  <1>4. PICK d : d = Changed(c, ix)
    OBVIOUS
  <1>5. d = [c EXCEPT !.wrapped = w + ix.amount]
    BY <1>2, <1>4 DEF Changed
  <1>6. /\ IsWorld(d) /\ d.ok = TRUE /\ d.streams = streams /\ d.proxies = proxies
        /\ d.tokens = T /\ d.wrapped = w + ix.amount /\ d.allocated = A
    BY <1>2, <1>5 DEF IsWorld
  <1>7. d = World(T, w + ix.amount, A)
    BY <1>6, WorldIs
  <1>8. Executed(c, ix, invoker) = d
    BY <1>2, <1>3, <1>4 DEF Executed
  <1> QED
    BY <1>1, <1>7, <1>8, Zenon

LEMMA Allocated ==
    ASSUME NEW T, NEW w, NEW A, NEW invoker,
           NEW ix, ix.op = "createAccount", ix.id \notin DOMAIN streams \cup A
    PROVE  Executed(World(T, w, A), ix, invoker) = World(T, w, A \cup {ix.id})
  <1>1. PICK c : c = World(T, w, A)
    OBVIOUS
  <1>2. /\ IsWorld(c) /\ c.ok = TRUE /\ c.streams = streams /\ c.proxies = proxies
        /\ c.tokens = T /\ c.wrapped = w /\ c.allocated = A
    BY <1>1 DEF World, IsWorld
  <1>3. Allowed(c, ix, invoker)
    BY <1>2 DEF Allowed
  <1>4. PICK d : d = Changed(c, ix)
    OBVIOUS
  <1>5. d = [c EXCEPT !.allocated = A \cup {ix.id}]
    BY <1>2, <1>4 DEF Changed
  <1>6. /\ IsWorld(d) /\ d.ok = TRUE /\ d.streams = streams /\ d.proxies = proxies
        /\ d.tokens = T /\ d.wrapped = w /\ d.allocated = A \cup {ix.id}
    BY <1>2, <1>5 DEF IsWorld
  <1>7. d = World(T, w, A \cup {ix.id})
    BY <1>6, WorldIs
  <1>8. Executed(c, ix, invoker) = d
    BY <1>2, <1>3, <1>4 DEF Executed
  <1> QED
    BY <1>1, <1>7, <1>8, Zenon

(* checkTokenAccounts: each account that is missing is created once.       *)
TokensOfAll(owners, m) == {Tokens(owners[i]) : i \in 1..m}

LEMMA TokensDiffer ==
    ASSUME NEW o, NEW p, Tokens(o) = Tokens(p)
    PROVE  o = p
  BY DEF Tokens, TokenAccount

LEMMA EnsureAtasLeads ==
    ASSUME NEW m \in Nat, NEW owners, DOMAIN owners = 1..m, NEW T, NEW w, NEW A, NEW invoker,
           tokens \subseteq T, \A i \in 1..m : Tokens(owners[i]) \in T => Tokens(owners[i]) \in tokens
    PROVE  Leads(EnsureAtas(owners), invoker, World(T, w, A),
                 World(T \cup TokensOfAll(owners, m), w, A))
  <1> DEFINE P == {i \in Unique(owners) : Tokens(owners[i]) \notin tokens}
             missing == SetToSeq(P)
             n == Cardinality(P)
             atas == [k \in DOMAIN missing |-> CreateAta(owners[missing[k]])]
             S == {CreateAta(owners[i]) : i \in 1..m}
             made(k) == T \cup {Tokens(owners[missing[j]]) : j \in 1..k}
             f == [k \in 0..n |-> World(made(k), w, A)]
  <1>1. P \in SUBSET (1..m)
    BY DEF Unique
  <1>2. IsFiniteSet(P)
    BY <1>1, FS_Interval, FS_Subset
  <1>3. /\ n \in Nat /\ missing \in [1..n -> P] /\ IsInjective(missing)
        /\ \A x \in P : \E k \in 1..n : missing[k] = x
    BY <1>2, SetToSeqIsSeq
  <1>4. \A i \in P, j \in P : owners[i] = owners[j] => i = j
    <2>1. \A i \in P, j \in P : i \in Nat /\ j \in Nat /\ (i < j => owners[i] # owners[j])
      BY <1>1 DEF Unique
    <2> QED
      BY <2>1
  <1>5. \A i \in P : Tokens(owners[i]) \notin T
    BY <1>1
  <1>6. \A i \in 1..m : Tokens(owners[i]) \in T \/ \E j \in P : owners[j] = owners[i]
    <2>1. SUFFICES ASSUME NEW i \in 1..m, Tokens(owners[i]) \notin T
                   PROVE  \E j \in P : owners[j] = owners[i]
      OBVIOUS
    <2>2. PICK Q : Q = {j \in 1..m : owners[j] = owners[i]}
      OBVIOUS
    <2>3. Q \in SUBSET Nat /\ Q # {}
      BY <2>2
    <2>4. PICK j \in Q : \A k \in Q : j <= k
      BY <2>3, LeastNat
    <2>5. j \in 1..m /\ owners[j] = owners[i] /\ \A k \in 1..m : owners[k] = owners[i] => j <= k
      BY <2>2, <2>4
    <2>6. \A k \in 1..m : k < j => owners[k] # owners[j]
      BY <2>5
    <2>7. j \in Unique(owners)
      BY <2>5, <2>6 DEF Unique
    <2>8. Tokens(owners[j]) \notin tokens
      BY <2>1, <2>5
    <2> QED
      BY <2>5, <2>7, <2>8
  <1> HIDE DEF P, missing, n
  <1>7. \A k \in 1..n : missing[k] \in P /\ missing[k] \in 1..m
    BY <1>1, <1>3
  <1>8. atas \in [1..n -> S] /\ \A k \in 1..n : atas[k] = CreateAta(owners[missing[k]])
    BY <1>3, <1>7
  <1>9. atas \in Seq(S) /\ Len(atas) = n
    BY <1>3, <1>8
  <1>10. ASSUME NEW k \in 1..n PROVE f[k] = Executed(f[k - 1], atas[k], invoker)
    <2>1. k \in 0..n /\ k - 1 \in 0..n
      BY <1>3
    <2>2. f[k] = World(made(k), w, A) /\ f[k - 1] = World(made(k - 1), w, A)
      BY <2>1
    <2>3. Tokens(owners[missing[k]]) \notin made(k - 1)
      <3>1. Tokens(owners[missing[k]]) \notin T
        BY <1>5, <1>7
      <3>2. ASSUME NEW j \in 1..(k - 1) PROVE Tokens(owners[missing[j]]) # Tokens(owners[missing[k]])
        <4>1. j \in 1..n /\ j # k
          BY <1>3
        <4>2. missing[j] # missing[k]
          BY <1>3, <4>1 DEF IsInjective
        <4> QED
          BY <1>4, <1>7, <4>1, <4>2, TokensDiffer
      <3> QED
        BY <3>1, <3>2
    <2>4. made(k) = made(k - 1) \cup {Tokens(owners[missing[k]])}
      <3>1. 1..k = 1..(k - 1) \cup {k}
        BY <1>3
      <3> QED
        BY <3>1
    <2> HIDE DEF made, f, atas
    <2> QED
      BY <1>8, <2>2, <2>3, <2>4, AtaCreated
  <1>11. f[0] = World(T, w, A)
    <2>1. made(0) = T
      OBVIOUS
    <2>2. f[0] = World(made(0), w, A)
      BY <1>3
    <2> QED
      BY <2>1, <2>2
  <1>12. f[n] = World(T \cup TokensOfAll(owners, m), w, A)
    <2>1. made(n) = T \cup TokensOfAll(owners, m)
      <3>1. made(n) \subseteq T \cup TokensOfAll(owners, m)
        BY <1>7 DEF TokensOfAll
      <3>2. ASSUME NEW i \in 1..m PROVE Tokens(owners[i]) \in made(n)
        BY <1>3, <1>6
      <3> QED
        BY <3>1, <3>2 DEF TokensOfAll
    <2>2. f[n] = World(made(n), w, A)
      BY <1>3
    <2> QED
      BY <2>1, <2>2
  <1>13. EnsureAtas(owners) = atas
    BY DEF EnsureAtas, P, missing
  <1> HIDE DEF atas, S, f
  <1> QED
    BY <1>9, <1>10, <1>11, <1>12, <1>13 DEF Leads

-----------------------------------------------------------------------------
(* An instruction that the program allows, last in a transaction.          *)
Operations ==
    {"create", "createUnchecked", "createAligned", "withdraw", "cancel", "cancelAligned",
     "transfer", "topup"}

LEMMA ChangedIsOk ==
    ASSUME NEW c, IsWorld(c), c.ok = TRUE, NEW ix, ix.op \in Operations
    PROVE  Changed(c, ix).ok = TRUE
  <1>1. CASE ix.op = "create"
    <2>1. PICK x, y : Changed(c, ix) = [c EXCEPT !.streams = x, !.tokens = y]
      BY <1>1 DEF Changed
    <2> QED
      BY <2>1 DEF IsWorld
  <1>2. CASE ix.op = "createUnchecked"
    <2>1. PICK x : Changed(c, ix) = [c EXCEPT !.streams = x]
      BY <1>2 DEF Changed
    <2> QED
      BY <2>1 DEF IsWorld
  <1>3. CASE ix.op = "createAligned"
    <2>1. PICK x, y, z : Changed(c, ix) = [c EXCEPT !.streams = x, !.proxies = y, !.tokens = z]
      BY <1>3 DEF Changed
    <2> QED
      BY <2>1 DEF IsWorld
  <1>4. CASE ix.op = "withdraw"
    <2>1. PICK x : Changed(c, ix) = [c EXCEPT !.streams[ix.accounts.metadata].withdrawn = x]
      BY <1>4 DEF Changed
    <2> QED
      BY <2>1 DEF IsWorld
  <1>5. CASE ix.op = "cancel"
    <2>1. Changed(c, ix) = [c EXCEPT !.streams[ix.accounts.metadata].canceledAt = now]
      BY <1>5 DEF Changed
    <2> QED
      BY <2>1 DEF IsWorld
  <1>6. CASE ix.op = "cancelAligned"
    <2>1. Changed(c, ix) = [c EXCEPT !.streams[ix.accounts.streamMetadata].canceledAt = now,
                                     !.proxies[ix.accounts.proxyMetadata].streamCanceledTime = now]
      BY <1>6 DEF Changed
    <2> QED
      BY <2>1 DEF IsWorld
  <1>7. CASE ix.op = "transfer"
    <2>1. PICK x, y, z : Changed(c, ix) = [c EXCEPT !.streams[ix.accounts.metadata].recipient = x,
                                                    !.streams[ix.accounts.metadata].recipientTokens = y,
                                                    !.tokens = z]
      BY <1>7 DEF Changed
    <2> QED
      BY <2>1 DEF IsWorld
  <1>8. CASE ix.op = "topup"
    <2>1. PICK x : Changed(c, ix) = [c EXCEPT !.streams[ix.accounts.metadata] = x]
      BY <1>8 DEF Changed
    <2> QED
      BY <2>1 DEF IsWorld
  <1> QED
    BY <1>1, <1>2, <1>3, <1>4, <1>5, <1>6, <1>7, <1>8 DEF Operations

LEMMA LastSucceeds ==
    ASSUME NEW T, NEW w, NEW A, NEW c, c = World(T, w, A), NEW ix, ix.op \in Operations,
           NEW invoker, Allowed(c, ix, invoker)
    PROVE  \E d : d.ok = TRUE /\ Leads(<<ix>>, invoker, c, d)
  <1>1. PICK d : d = Executed(c, ix, invoker)
    OBVIOUS
  <1>2. IsWorld(c) /\ c.ok = TRUE
    BY DEF IsWorld, World
  <1>3. d = Changed(c, ix) /\ d.ok = TRUE
    BY <1>1, <1>2, ChangedIsOk DEF Executed
  <1> QED
    BY <1>1, <1>3, LeadsOnce

LEMMA AcceptedAtEnd ==
    ASSUME NEW ixs, NEW invoker, NEW d, d.ok = TRUE, Leads(ixs, invoker, Chain, d)
    PROVE  Accepted(ixs, invoker)
  BY LeadsToItsEnd DEF Accepted

LEMMA AcceptedAfter ==
    ASSUME NEW s, NEW ix, ix.op \in Operations, NEW invoker, NEW T, NEW w, NEW A, NEW c,
           c = World(T, w, A), Leads(s, invoker, Chain, c), Allowed(c, ix, invoker)
    PROVE  Accepted(s \o <<ix>>, invoker)
  <1>1. PICK d : d.ok = TRUE /\ Leads(<<ix>>, invoker, c, d)
    BY LastSucceeds
  <1>2. Leads(s \o <<ix>>, invoker, Chain, d)
    BY <1>1, LeadsOn
  <1> QED
    BY <1>1, <1>2, AcceptedAtEnd

LEMMA ChainIsWorld ==
    Chain = World(tokens, 0, {})
  BY DEF Chain, World

LEMMA AtasFirst ==
    ASSUME NEW m \in Nat, NEW owners, DOMAIN owners = 1..m, NEW invoker
    PROVE  Leads(EnsureAtas(owners), invoker, Chain, World(tokens \cup TokensOfAll(owners, m), 0, {}))
  <1>1. \A i \in 1..m : Tokens(owners[i]) \in tokens => Tokens(owners[i]) \in tokens
    OBVIOUS
  <1> QED
    BY <1>1, EnsureAtasLeads, ChainIsWorld

-----------------------------------------------------------------------------
(* An operation that is built from the chain is accepted.                  *)
LEMMA WithdrawAccepted ==
    ASSUME IInv, NEW id \in DOMAIN streams, streams[id].canceledAt = 0
    PROVE  Accepted(WithdrawIxs(id, streams[id].recipient), streams[id].recipient)
  <1> DEFINE s == streams[id]
             i == s.recipient
             x == Merged(FeeAccounts(s.partner),
                    [authority |-> i, recipient |-> i, metadata |-> id,
                     recipientTokens |-> s.recipientTokens, escrowTokens |-> s.escrowTokens])
             owners == <<s.sender, s.recipient, s.streamflowTreasury, s.partner>>
             ix == Prepare("withdraw", WithdrawNames, WithdrawKeys(x), {})
             c == World(tokens \cup TokensOfAll(owners, 4), 0, {})
  <1>1. WithdrawIxs(id, i) = EnsureAtas(owners) \o <<ix>>
    BY DEF WithdrawIxs
  <1>2. Parties(id, s)
    BY DEF IInv, StreamsRight, IsStream
  <1>3. /\ x.authority = i /\ x.recipient = i /\ x.metadata = id
        /\ x.recipientTokens = s.recipientTokens /\ x.escrowTokens = s.escrowTokens
        /\ x.streamflowTreasury = Treasury /\ x.streamflowTreasuryTokens = Tokens(Treasury)
        /\ x.partner = s.partner /\ x.partnerTokens = Tokens(s.partner) /\ x.mint = Mint
    BY DEF Merged, FeeAccounts
  <1> HIDE DEF x
  <1>4. PICK a : a = ix.accounts
    OBVIOUS
  <1>5. ix.op = "withdraw" /\ a = AsRead(WithdrawNames, WithdrawKeys(x))
    BY <1>4 DEF Prepare
  <1>6. /\ a.authority = i /\ a.recipient = i /\ a.metadata = id
        /\ a.recipientTokens = s.recipientTokens /\ a.escrowTokens = s.escrowTokens
        /\ a.streamflowTreasury = Treasury /\ a.streamflowTreasuryTokens = Tokens(Treasury)
        /\ a.partner = s.partner /\ a.partnerTokens = Tokens(s.partner) /\ a.mint = Mint
    BY <1>3, <1>5, WithdrawRead
  <1>7. {Tokens(s.recipient), Tokens(Treasury), Tokens(s.partner)} \subseteq TokensOfAll(owners, 4)
    <2>1. owners[2] = s.recipient /\ owners[3] = Treasury /\ owners[4] = s.partner
      BY <1>2 DEF Parties
    <2> HIDE DEF owners
    <2> QED
      BY <2>1 DEF TokensOfAll
  <1>8. Leads(EnsureAtas(owners), i, Chain, c)
    <2>1. DOMAIN owners = 1..4
      OBVIOUS
    <2> HIDE DEF owners
    <2> QED
      BY <2>1, AtasFirst
  <1>9. /\ c.streams = streams
        /\ {Tokens(s.recipient), Tokens(Treasury), Tokens(s.partner)} \subseteq c.tokens
    BY <1>7 DEF World
  <1> HIDE DEF ix, owners
  <1>10. Names(c, a, id, {"recipient", "recipientTokens", "escrowTokens", "partner", "mint"})
    BY <1>2, <1>6, <1>9 DEF Names, Parties
  <1>11. FeeTokensExist(c, a) /\ a.recipientTokens \in c.tokens
    BY <1>2, <1>6, <1>9 DEF FeeTokensExist, Parties
  <1>12. Allowed(c, ix, i)
    BY <1>4, <1>5, <1>6, <1>10, <1>11 DEF Allowed
  <1> QED
    BY <1>1, <1>5, <1>8, <1>12, AcceptedAfter DEF Operations

LEMMA CancelStreamAccepted ==
    ASSUME IInv, NEW id \in DOMAIN streams, NEW i,
           streams[id].canceledAt = 0,
           \/ i = streams[id].sender /\ streams[id].cancelableBySender
           \/ i = streams[id].recipient /\ streams[id].cancelableByRecipient
    PROVE  Accepted(CancelStreamIxs(id, i), i)
  <1> DEFINE s == streams[id]
             x == Merged(FeeAccounts(s.partner),
                    [authority |-> i, sender |-> s.sender, senderTokens |-> s.senderTokens,
                     recipient |-> s.recipient, recipientTokens |-> s.recipientTokens,
                     metadata |-> id, escrowTokens |-> s.escrowTokens])
             owners == <<s.sender, s.recipient, s.partner, s.streamflowTreasury>>
             ix == Prepare("cancel", CancelNames, CancelKeys(x), {})
             c == World(tokens \cup TokensOfAll(owners, 4), 0, {})
             needed == {Tokens(s.sender), Tokens(s.recipient), Tokens(Treasury), Tokens(s.partner)}
  <1>1. CancelStreamIxs(id, i) = EnsureAtas(owners) \o <<ix>>
    BY DEF CancelStreamIxs
  <1>2. Parties(id, s)
    BY DEF IInv, StreamsRight, IsStream
  <1>3. /\ x.authority = i /\ x.sender = s.sender /\ x.senderTokens = s.senderTokens
        /\ x.recipient = s.recipient /\ x.recipientTokens = s.recipientTokens
        /\ x.metadata = id /\ x.escrowTokens = s.escrowTokens
        /\ x.streamflowTreasury = Treasury /\ x.streamflowTreasuryTokens = Tokens(Treasury)
        /\ x.partner = s.partner /\ x.partnerTokens = Tokens(s.partner) /\ x.mint = Mint
    BY DEF Merged, FeeAccounts
  <1> HIDE DEF x
  <1>4. PICK a : a = ix.accounts
    OBVIOUS
  <1>5. ix.op = "cancel" /\ a = AsRead(CancelNames, CancelKeys(x))
    BY <1>4 DEF Prepare
  <1>6. /\ a.authority = i /\ a.sender = s.sender /\ a.senderTokens = s.senderTokens
        /\ a.recipient = s.recipient /\ a.recipientTokens = s.recipientTokens
        /\ a.metadata = id /\ a.escrowTokens = s.escrowTokens
        /\ a.streamflowTreasury = Treasury /\ a.streamflowTreasuryTokens = Tokens(Treasury)
        /\ a.partner = s.partner /\ a.partnerTokens = Tokens(s.partner) /\ a.mint = Mint
    BY <1>3, <1>5, CancelRead
  <1>7. needed \subseteq TokensOfAll(owners, 4)
    <2>1. /\ owners[1] = s.sender /\ owners[2] = s.recipient /\ owners[3] = s.partner
          /\ owners[4] = Treasury
      BY <1>2 DEF Parties
    <2> HIDE DEF owners
    <2> QED
      BY <2>1 DEF TokensOfAll
  <1>8. Leads(EnsureAtas(owners), i, Chain, c)
    <2>1. DOMAIN owners = 1..4
      OBVIOUS
    <2> HIDE DEF owners
    <2> QED
      BY <2>1, AtasFirst
  <1>9. c.streams = streams /\ needed \subseteq c.tokens
    BY <1>7 DEF World
  <1> HIDE DEF ix, owners
  <1>10. Names(c, a, id, {"sender", "senderTokens", "recipient", "recipientTokens", "escrowTokens",
                          "partner", "mint"})
    BY <1>2, <1>6, <1>9 DEF Names, Parties
  <1>11. FeeTokensExist(c, a) /\ {a.senderTokens, a.recipientTokens} \subseteq c.tokens
    BY <1>2, <1>6, <1>9 DEF FeeTokensExist, Parties
  <1>12. \/ i = a.sender /\ c.streams[a.metadata].cancelableBySender
         \/ i = a.recipient /\ c.streams[a.metadata].cancelableByRecipient
    BY <1>6, <1>9
  <1>13. Allowed(c, ix, i)
    BY <1>4, <1>5, <1>6, <1>10, <1>11, <1>12 DEF Allowed
  <1> QED
    BY <1>1, <1>5, <1>8, <1>13, AcceptedAfter DEF Operations

LEMMA CancelAlignedAccepted ==
    ASSUME IInv, NEW id \in DOMAIN streams, Aligned(id), NEW i, i = View(streams, proxies, id).sender,
           Tokens(i) \in tokens, streams[id].canceledAt = 0, streams[id].cancelableBySender
    PROVE  Accepted(CancelAlignedIxs(id, i), i)
  <1> DEFINE s == streams[id]
             given == [mint |-> s.mint, partner |-> s.partner, recipient |-> s.recipient,
                       escrowTokens |-> s.escrowTokens, sender |-> i, streamMetadata |-> id,
                       streamflowTreasury |-> Treasury]
             owners == <<s.sender, s.recipient, s.partner, s.streamflowTreasury>>
             c == World(tokens \cup TokensOfAll(owners, 4), 0, {})
             needed == {Tokens(i), Tokens(ContractPDA(id)), Tokens(s.recipient), Tokens(Treasury),
                        Tokens(s.partner)}
  <1>1. PICK a : a = Completed(AlignedCancelIx, given, <<>>, <<>>)
    OBVIOUS
  <1>2. PICK ix : ix = [op |-> "cancelAligned", accounts |-> a]
    OBVIOUS
  <1>3. /\ CancelAlignedIxs(id, i) = EnsureAtas(owners) \o <<ix>>
        /\ ix.op = "cancelAligned" /\ ix.accounts = a
    BY <1>1, <1>2 DEF CancelAlignedIxs
  <1>4. Parties(id, s) /\ id \in Ids /\ s.sender = ContractPDA(id)
    BY DEF IInv, StreamsRight, IsStream, Aligned, IsAlignedUnlock
  <1>5. ContractPDA(id) \in DOMAIN proxies /\ proxies[ContractPDA(id)].sender = i /\ i \in Senders
    BY DEF IInv, ProxiesRight, IsProxy, View, AlignedContract, Aligned
  <1>6. /\ DOMAIN given = {"sender", "streamMetadata", "escrowTokens", "mint", "partner",
                           "recipient", "streamflowTreasury"}
        /\ given.sender = i /\ given.streamMetadata = id /\ given.escrowTokens = s.escrowTokens
        /\ given.mint = Mint /\ given.partner = s.partner /\ given.recipient = s.recipient
        /\ given.streamflowTreasury = Treasury
    BY <1>4 DEF Parties
  <1> HIDE DEF given
  <1>7. /\ a.sender = i /\ a.streamMetadata = id /\ a.escrowTokens = s.escrowTokens /\ a.mint = Mint
        /\ a.partner = s.partner /\ a.recipient = s.recipient /\ a.streamflowTreasury = Treasury
        /\ a.senderTokens = Tokens(i) /\ a.recipientTokens = Tokens(s.recipient)
        /\ a.streamflowTreasuryTokens = Tokens(Treasury) /\ a.partnerTokens = Tokens(s.partner)
        /\ a.proxyMetadata = ContractPDA(id) /\ a.proxyTokens = Tokens(ContractPDA(id))
        /\ Derived(AlignedCancelIx, a)
    BY <1>1, <1>6, AlignedCancelCompleted DEF Tokens
  <1>8. Accepts(AlignedCancelIx, a, <<>>, <<>>, i)
    <2>1. DOMAIN AlignedCancelIx =
            {"sender", "senderTokens", "recipient", "recipientTokens", "proxyMetadata", "proxyTokens",
             "streamMetadata", "escrowTokens", "streamflowTreasury", "streamflowTreasuryTokens",
             "partner", "partnerTokens", "mint"}
      BY DEF AlignedCancelIx
    <2>2. \A o : Tokens(o) # Missing /\ ContractPDA(o) # Missing /\ EscrowPDA(o) # Missing
      BY DEF Tokens, TokenAccount, ContractPDA, EscrowPDA, Missing
    <2>3. Mint # Missing /\ Treasury # Missing
      BY DEF Mint, Treasury, Missing
    <2>4. i # Missing /\ id # Missing /\ s.recipient # Missing /\ s.partner # Missing
      BY <1>4, <1>5, StreamsAssumption DEF Parties
    <2>5. \A name \in DOMAIN AlignedCancelIx : a[name] # Missing
      BY <1>4, <1>7, <2>1, <2>2, <2>3, <2>4 DEF Parties
    <2>6. \A name \in DOMAIN AlignedCancelIx \cap {"payer", "sender"} : a[name] = i
      BY <1>7, <2>1
    <2> QED
      BY <1>7, <2>5, <2>6, DerivedAreAccepted
  <1>9. needed \subseteq tokens \cup TokensOfAll(owners, 4)
    <2>1. /\ owners[1] = ContractPDA(id) /\ owners[2] = s.recipient /\ owners[3] = s.partner
          /\ owners[4] = Treasury
      BY <1>4 DEF Parties
    <2> HIDE DEF owners
    <2> QED
      BY <2>1 DEF TokensOfAll
  <1>10. Leads(EnsureAtas(owners), i, Chain, c)
    <2>1. DOMAIN owners = 1..4
      OBVIOUS
    <2> HIDE DEF owners
    <2> QED
      BY <2>1, AtasFirst
  <1>11. c.streams = streams /\ c.proxies = proxies /\ needed \subseteq c.tokens
    BY <1>9 DEF World
  <1> HIDE DEF owners
  <1>12. Names(c, a, id, {"recipient", "escrowTokens", "partner", "mint"})
    BY <1>4, <1>7, <1>11 DEF Names, Parties
  <1>13. /\ FeeTokensExist(c, a)
         /\ {a.senderTokens, a.recipientTokens, a.proxyTokens} \subseteq c.tokens
    BY <1>7, <1>11 DEF FeeTokensExist
  <1>14. Allowed(c, ix, i)
    BY <1>3, <1>5, <1>7, <1>8, <1>11, <1>12, <1>13 DEF Allowed
  <1> QED
    BY <1>3, <1>10, <1>14, AcceptedAfter DEF Operations

LEMMA TransferAccepted ==
    ASSUME IInv, NEW id \in DOMAIN streams, NEW r, streams[id].canceledAt = 0,
           streams[id].transferableByRecipient
    PROVE  Accepted(TransferIxs(id, r, streams[id].recipient), streams[id].recipient)
  <1> DEFINE s == streams[id]
             i == s.recipient
             x == [authority |-> i, newRecipient |-> r, newRecipientTokens |-> Tokens(r),
                   metadata |-> id, mint |-> s.mint]
             ix == Prepare("transfer", TransferNames, TransferKeys(x), {})
  <1>1. TransferIxs(id, r, i) = <<ix>>
    BY DEF TransferIxs
  <1>2. /\ x.authority = i /\ x.newRecipient = r /\ x.newRecipientTokens = Tokens(r)
        /\ x.metadata = id /\ x.mint = s.mint
    OBVIOUS
  <1> HIDE DEF x
  <1>3. PICK a : a = ix.accounts
    OBVIOUS
  <1>4. ix.op = "transfer" /\ a = AsRead(TransferNames, TransferKeys(x))
    BY <1>3 DEF Prepare
  <1>5. /\ a.authority = i /\ a.newRecipient = r /\ a.newRecipientTokens = Tokens(r)
        /\ a.metadata = id /\ a.mint = s.mint
    BY <1>2, <1>4, TransferRead
  <1> HIDE DEF ix
  <1>6. PICK c : c = World(tokens, 0, {})
    OBVIOUS
  <1>7. c.streams = streams
    BY <1>6 DEF World
  <1>8. Names(c, a, id, {"mint"})
    BY <1>5, <1>7 DEF Names
  <1>9. Allowed(c, ix, i)
    BY <1>3, <1>4, <1>5, <1>7, <1>8 DEF Allowed
  <1>10. PICK e : e = <<>>
    OBVIOUS
  <1>11. Leads(e, i, Chain, c)
    BY <1>6, <1>10, ChainIsWorld, LeadsNowhere
  <1>12. Accepted(e \o <<ix>>, i)
    BY <1>4, <1>6, <1>9, <1>11, AcceptedAfter DEF Operations
  <1>13. e \o <<ix>> = <<ix>>
    <2>1. <<ix>> \in Seq({ix})
      OBVIOUS
    <2> QED
      BY <1>10, <2>1, ConcatEmptySeq
  <1> QED
    BY <1>1, <1>12, <1>13

LEMMA WrapLeads ==
    ASSUME NEW owner, NEW amount \in Nat, NEW invoker
    PROVE  Leads(Wrap(owner, amount), invoker, Chain, World(tokens \cup {Tokens(owner)}, amount, {}))
  <1>1. PICK T : T = tokens \cup {Tokens(owner)}
    OBVIOUS
  <1>2. PICK ix : ix = [op |-> "wrap", owner |-> owner, amount |-> amount]
    OBVIOUS
  <1>3. PICK atas : atas = IF Tokens(owner) \in tokens THEN <<>> ELSE <<CreateAta(owner)>>
    OBVIOUS
  <1>4. Leads(atas, invoker, Chain, World(T, 0, {}))
    <2>1. CASE Tokens(owner) \in tokens
      <3>1. T = tokens /\ atas = <<>>
        BY <1>1, <1>3, <2>1
      <3> QED
        BY <3>1, ChainIsWorld, LeadsNowhere
    <2>2. CASE Tokens(owner) \notin tokens
      <3>1. atas = <<CreateAta(owner)>>
        BY <1>3, <2>2
      <3>2. Executed(World(tokens, 0, {}), CreateAta(owner), invoker) = World(T, 0, {})
        BY <1>1, <2>2, AtaCreated
      <3> QED
        BY <3>1, <3>2, ChainIsWorld, LeadsOnce
    <2> QED
      BY <2>1, <2>2
  <1>5. Leads(<<ix>>, invoker, World(T, 0, {}), World(T, amount, {}))
    <2>1. Executed(World(T, 0, {}), ix, invoker) = World(T, 0 + amount, {})
      <3>1. Tokens(owner) \in T
        BY <1>1
      <3>2. ix.op = "wrap" /\ ix.owner = owner /\ ix.amount = amount
        BY <1>2
      <3> QED
        BY <3>1, <3>2, Wrapped
    <2>2. 0 + amount = amount
      OBVIOUS
    <2> QED
      BY <2>1, <2>2, LeadsOnce
  <1>6. Leads(atas \o <<ix>>, invoker, Chain, World(T, amount, {}))
    BY <1>4, <1>5, LeadsOn
  <1>7. Wrap(owner, amount) = atas \o <<ix>>
    BY <1>2, <1>3 DEF Wrap
  <1> QED
    BY <1>1, <1>6, <1>7

LEMMA TopupAccepted ==
    ASSUME IInv, NEW id \in DOMAIN streams, streams[id].canceledAt = 0, streams[id].canTopup,
           now <= streams[id].end, {Tokens(Treasury), Tokens(streams[id].partner)} \subseteq tokens
    PROVE  Accepted(TopupIxs(id, streams[id].sender, TRUE), streams[id].sender)
  <1> DEFINE s == streams[id]
             i == s.sender
             x == Merged(FeeAccounts(s.partner),
                    [sender |-> i, senderTokens |-> s.senderTokens, metadata |-> id,
                     escrowTokens |-> s.escrowTokens])
             ix == Prepare("topup", TopupNames, TopupKeys(x),
                           [amount |-> TopupAmount, spends |-> TopupAmount])
             c == World(tokens \cup {Tokens(i)}, TopupAmount, {})
  <1>1. TopupIxs(id, i, TRUE) = Wrap(i, TopupAmount) \o <<ix>>
    BY DEF TopupIxs, WrapIf
  <1>2. Parties(id, s)
    BY DEF IInv, StreamsRight, IsStream
  <1>3. /\ x.sender = i /\ x.senderTokens = s.senderTokens
        /\ x.metadata = id /\ x.escrowTokens = s.escrowTokens
        /\ x.streamflowTreasury = Treasury /\ x.streamflowTreasuryTokens = Tokens(Treasury)
        /\ x.partner = s.partner /\ x.partnerTokens = Tokens(s.partner) /\ x.mint = Mint
    BY DEF Merged, FeeAccounts
  <1> HIDE DEF x
  <1>4. PICK a : a = ix.accounts
    OBVIOUS
  <1>5. ix.op = "topup" /\ a = AsRead(TopupNames, TopupKeys(x)) /\ ix.data.spends = TopupAmount
    BY <1>4 DEF Prepare
  <1>6. /\ a.sender = i /\ a.senderTokens = s.senderTokens
        /\ a.metadata = id /\ a.escrowTokens = s.escrowTokens
        /\ a.streamflowTreasury = Treasury /\ a.streamflowTreasuryTokens = Tokens(Treasury)
        /\ a.partner = s.partner /\ a.partnerTokens = Tokens(s.partner) /\ a.mint = Mint
    BY <1>3, <1>5, TopupRead
  <1>7. TopupAmount \in Nat
    BY StreamsAssumption
  <1>8. Leads(Wrap(i, TopupAmount), i, Chain, c)
    BY <1>7, WrapLeads
  <1>9. /\ c.streams = streams /\ c.wrapped = TopupAmount
        /\ {Tokens(i), Tokens(Treasury), Tokens(s.partner)} \subseteq c.tokens
    BY DEF World
  <1> HIDE DEF ix
  <1>10. Names(c, a, id, {"sender", "senderTokens", "escrowTokens", "partner", "mint"})
    BY <1>2, <1>6, <1>9 DEF Names, Parties
  <1>11. FeeTokensExist(c, a) /\ a.senderTokens \in c.tokens
    BY <1>2, <1>6, <1>9 DEF FeeTokensExist, Parties
  <1>12. c.wrapped >= ix.data.spends
    BY <1>5, <1>7, <1>9
  <1>13. Allowed(c, ix, i)
    BY <1>4, <1>5, <1>6, <1>9, <1>10, <1>11, <1>12 DEF Allowed
  <1> HIDE DEF c, i
  <1>14. Accepted(Wrap(i, TopupAmount) \o <<ix>>, i)
    <2>1. c = World(tokens \cup {Tokens(i)}, TopupAmount, {})
      BY DEF c
    <2>2. ix.op \in Operations
      BY <1>5 DEF Operations
    <2> QED
      BY <1>8, <1>13, <2>1, <2>2, AcceptedAfter
  <1> QED
    BY <1>1, <1>14 DEF i

LEMMA OperationsAccepted ==
    ASSUME IInv
    PROVE  OperationAccepted
  <1> SUFFICES ASSUME NEW id \in DOMAIN streams, streams[id].canceledAt = 0,
                      NEW s, s = streams[id],
                      NEW owner, owner = View(streams, proxies, id).sender
               PROVE  LET aligned == IsAlignedUnlock(id, s.sender) IN
                      /\ Accepted(WithdrawIxs(id, s.recipient), s.recipient)
                      /\ s.cancelableBySender /\ (aligned => Tokens(owner) \in tokens) =>
                           Accepted(CancelIxs(id, owner), owner)
                      /\ s.cancelableByRecipient /\ ~aligned =>
                           Accepted(CancelIxs(id, s.recipient), s.recipient)
                      /\ s.transferableByRecipient =>
                           \A r \in Recipients : Accepted(TransferIxs(id, r, s.recipient), s.recipient)
                      /\ /\ s.canTopup /\ ~aligned /\ now <= s.end
                         /\ {Tokens(Treasury), Tokens(s.partner)} \subseteq tokens
                         => Accepted(TopupIxs(id, s.sender, TRUE), s.sender)
    BY DEF OperationAccepted
  <1>1. Accepted(WithdrawIxs(id, s.recipient), s.recipient)
    BY WithdrawAccepted
  <1>2. ASSUME Aligned(id), s.cancelableBySender, Tokens(owner) \in tokens
        PROVE  Accepted(CancelIxs(id, owner), owner)
    BY <1>2, CancelAlignedAccepted DEF CancelIxs, Aligned
  <1>3. ASSUME ~Aligned(id) PROVE owner = s.sender
    BY <1>3 DEF View, Contract, Aligned
  <1>4. ASSUME ~Aligned(id), s.cancelableBySender
        PROVE  Accepted(CancelIxs(id, owner), owner)
    <2>1. owner = s.sender /\ CancelIxs(id, owner) = CancelStreamIxs(id, owner)
      BY <1>3, <1>4 DEF CancelIxs, Aligned
    <2>2. \/ owner = streams[id].sender /\ streams[id].cancelableBySender
          \/ owner = streams[id].recipient /\ streams[id].cancelableByRecipient
      BY <1>4, <2>1
    <2>3. Accepted(CancelStreamIxs(id, owner), owner)
      BY <2>2, CancelStreamAccepted
    <2> QED
      BY <2>1, <2>3
  <1>5. ASSUME ~Aligned(id), s.cancelableByRecipient
        PROVE  Accepted(CancelIxs(id, s.recipient), s.recipient)
    BY <1>5, CancelStreamAccepted DEF CancelIxs, Aligned
  <1>6. ASSUME s.transferableByRecipient, NEW r \in Recipients
        PROVE  Accepted(TransferIxs(id, r, s.recipient), s.recipient)
    BY <1>6, TransferAccepted
  <1>7. ASSUME s.canTopup, now <= s.end, {Tokens(Treasury), Tokens(s.partner)} \subseteq tokens
        PROVE  Accepted(TopupIxs(id, s.sender, TRUE), s.sender)
    BY <1>7, TopupAccepted
  <1> QED
    BY <1>1, <1>2, <1>4, <1>5, <1>6, <1>7 DEF Aligned

(* What is wrapped for a creation covers the deposit and its fee.          *)
LEMMA TotalCovers ==
    ASSUME NEW d \in Nat
    PROVE  /\ TotalAmountToDeposit(d, Fee) \in Nat /\ Spends(TRUE, d) \in Nat
           /\ TotalAmountToDeposit(d, Fee) >= Spends(TRUE, d)
  <1>1. FeeScale \in Nat \ {0} /\ Fee \in Nat
    BY ScheduleAssumption, StreamsAssumption
  <1> DEFINE a == d * Fee
             q == a \div FeeScale
             b == (d + q) * FeeScale
             t == d * (Fee + FeeScale)
  <1>2. a \in Nat /\ t \in Nat /\ t = a + d * FeeScale /\ d * FeeScale \in Nat
    BY <1>1
  <1> HIDE DEF a, t
  <1>3. q \in Nat /\ q * FeeScale <= a
    BY <1>1, <1>2, FloorOf
  <1> HIDE DEF q
  <1>4. b \in Nat /\ b = d * FeeScale + q * FeeScale /\ q * FeeScale \in Nat
    BY <1>1, <1>3
  <1>5. b <= t
    BY <1>2, <1>3, <1>4
  <1>6. d + q \in Nat /\ b \div FeeScale = d + q
    BY <1>1, <1>3, FloorOfMultiple
  <1> HIDE DEF b
  <1>7. b \div FeeScale <= t \div FeeScale /\ t \div FeeScale \in Nat
    BY <1>1, <1>2, <1>4, <1>5, FloorMonotone, FloorOf
  <1>8. TotalAmountToDeposit(d, Fee) = t \div FeeScale /\ Spends(TRUE, d) = d + q
    BY DEF TotalAmountToDeposit, Spends, a, t, q
  <1> QED
    BY <1>6, <1>7, <1>8

LEMMA CreateAccepted ==
    ASSUME NEW id, id \notin DOMAIN streams, NEW sender, NEW recipient, NEW partner, NEW shape,
           Tokens(sender) \in tokens
    PROVE  Accepted(CreateIxs(id, sender, recipient, partner, shape, FALSE), sender)
  <1> DEFINE x == CreationAccounts(id, sender, recipient, partner)
             owners == <<Treasury, partner>>
             ix == Prepare("create", CreateNames, CreateKeys(x),
                           [shape |-> shape, spends |-> Spends(FALSE, shape.deposited)])
  <1>1. CreateIxs(id, sender, recipient, partner, shape, FALSE) = (EnsureAtas(owners) \o <<ix>>) \o <<>>
    BY DEF CreateIxs, WrapIf
  <1>2. /\ x.sender = sender /\ x.senderTokens = Tokens(sender)
        /\ x.recipient = recipient /\ x.recipientTokens = Tokens(recipient)
        /\ x.metadata = id /\ x.escrowTokens = EscrowPDA(id)
        /\ x.streamflowTreasury = Treasury /\ x.streamflowTreasuryTokens = Tokens(Treasury)
        /\ x.partner = partner /\ x.partnerTokens = Tokens(partner)
    BY DEF Merged, FeeAccounts, CreationAccounts
  <1> HIDE DEF x
  <1>3. PICK a : a = ix.accounts
    OBVIOUS
  <1>4. ix.op = "create" /\ a = AsRead(CreateNames, CreateKeys(x)) /\ ix.data.spends = 0
    BY <1>3 DEF Prepare, Spends
  <1>5. /\ a.sender = sender /\ a.senderTokens = Tokens(sender)
        /\ a.recipient = recipient /\ a.recipientTokens = Tokens(recipient)
        /\ a.metadata = id /\ a.escrowTokens = EscrowPDA(id)
        /\ a.streamflowTreasury = Treasury /\ a.streamflowTreasuryTokens = Tokens(Treasury)
        /\ a.partner = partner /\ a.partnerTokens = Tokens(partner)
    BY <1>2, <1>4, CreateRead
  <1> HIDE DEF ix
  <1>6. PICK c : c = World(tokens \cup TokensOfAll(owners, 2), 0, {})
    OBVIOUS
  <1>7. Leads(EnsureAtas(owners), sender, Chain, c)
    <2>1. DOMAIN owners = 1..2
      OBVIOUS
    <2> HIDE DEF owners
    <2> QED
      BY <1>6, <2>1, AtasFirst
  <1>8. {Tokens(Treasury), Tokens(partner)} \subseteq TokensOfAll(owners, 2)
    <2>1. owners[1] = Treasury /\ owners[2] = partner
      OBVIOUS
    <2> HIDE DEF owners
    <2> QED
      BY <2>1 DEF TokensOfAll
  <1>9. /\ c.streams = streams /\ c.wrapped = 0
        /\ {Tokens(sender), Tokens(Treasury), Tokens(partner)} \subseteq c.tokens
    BY <1>6, <1>8 DEF World
  <1> HIDE DEF owners
  <1>10. FeeTokensExist(c, a)
    BY <1>5, <1>9 DEF FeeTokensExist
  <1>11. c.wrapped >= ix.data.spends
    BY <1>4, <1>9
  <1>12. Allowed(c, ix, sender)
    BY <1>3, <1>4, <1>5, <1>9, <1>10, <1>11 DEF Allowed
  <1>13. PICK d : d.ok = TRUE /\ Leads(<<ix>>, sender, c, d)
    <2>1. ix.op \in Operations
      BY <1>4 DEF Operations
    <2> QED
      BY <1>6, <1>12, <2>1, LastSucceeds
  <1>14. Leads((EnsureAtas(owners) \o <<ix>>) \o <<>>, sender, Chain, d)
    BY <1>7, <1>13, LeadsOn, LeadsNowhere
  <1> QED
    BY <1>1, <1>13, <1>14, AcceptedAtEnd

LEMMA CreateUncheckedAccepted ==
    ASSUME NEW id, id \notin DOMAIN streams, NEW sender, NEW recipient, NEW partner,
           NEW shape \in Shapes
    PROVE  Accepted(CreateUncheckedIxs(id, sender, recipient, partner, shape, TRUE), sender)
  <1> DEFINE x == CreationAccounts(id, sender, recipient, partner)
             total == TotalAmountToDeposit(shape.deposited, Fee)
             ix == Prepare("createUnchecked", CreateUncheckedNames, CreateUncheckedKeys(x),
                           [shape |-> shape, spends |-> Spends(TRUE, shape.deposited),
                            recipient |-> recipient, partner |-> partner])
  <1>1. PICK allocate : allocate = [op |-> "createAccount", id |-> id]
    OBVIOUS
  <1>2. CreateUncheckedIxs(id, sender, recipient, partner, shape, TRUE)
          = Wrap(sender, total) \o <<allocate, ix>>
    BY <1>1 DEF CreateUncheckedIxs, WrapIf
  <1>3. /\ x.sender = sender /\ x.senderTokens = Tokens(sender)
        /\ x.metadata = id /\ x.escrowTokens = EscrowPDA(id)
    BY DEF Merged, FeeAccounts, CreationAccounts
  <1> HIDE DEF x
  <1>4. PICK a : a = ix.accounts
    OBVIOUS
  <1>5. /\ ix.op = "createUnchecked" /\ a = AsRead(CreateUncheckedNames, CreateUncheckedKeys(x))
        /\ ix.data.spends = Spends(TRUE, shape.deposited)
    BY <1>4 DEF Prepare
  <1>6. /\ a.sender = sender /\ a.senderTokens = Tokens(sender)
        /\ a.metadata = id /\ a.escrowTokens = EscrowPDA(id)
    BY <1>3, <1>5, CreateUncheckedRead
  <1> HIDE DEF ix
  <1>7. total \in Nat /\ total >= ix.data.spends
    <2>1. shape.deposited \in Nat
      BY StreamsAssumption
    <2> QED
      BY <1>5, <2>1, TotalCovers
  <1> HIDE DEF total
  <1>8. PICK T : T = tokens \cup {Tokens(sender)}
    OBVIOUS
  <1>9. PICK A : A = {} \cup {id}
    OBVIOUS
  <1>10. PICK c : c = World(T, total, A)
    OBVIOUS
  <1>11. Leads(Wrap(sender, total), sender, Chain, World(T, total, {}))
    BY <1>7, <1>8, WrapLeads
  <1>12. Leads(<<allocate>>, sender, World(T, total, {}), c)
    <2>1. allocate.op = "createAccount" /\ allocate.id = id /\ id \notin DOMAIN streams \cup {}
      BY <1>1
    <2>2. Executed(World(T, total, {}), allocate, sender) = c
      BY <1>9, <1>10, <2>1, Allocated
    <2> QED
      BY <2>2, LeadsOnce
  <1>13. c.wrapped = total /\ id \in c.allocated /\ Tokens(sender) \in c.tokens
    BY <1>8, <1>9, <1>10 DEF World
  <1>14. Allowed(c, ix, sender)
    BY <1>4, <1>5, <1>6, <1>7, <1>13 DEF Allowed
  <1>15. PICK d : d.ok = TRUE /\ Leads(<<ix>>, sender, c, d)
    <2>1. ix.op \in Operations
      BY <1>5 DEF Operations
    <2> QED
      BY <1>10, <1>14, <2>1, LastSucceeds
  <1>16. Leads(<<allocate>> \o <<ix>>, sender, World(T, total, {}), d)
    BY <1>12, <1>15, LeadsOn
  <1>17. Leads(Wrap(sender, total) \o <<allocate, ix>>, sender, Chain, d)
    BY <1>11, <1>16, LeadsOn, PrefixedOne
  <1> QED
    BY <1>2, <1>15, <1>17, AcceptedAtEnd

LEMMA CreateAlignedAccepted ==
    ASSUME NEW id \in Ids, id \notin DOMAIN streams, NEW sender \in Senders,
           NEW recipient \in Recipients, NEW partner \in Partners, NEW shape, NEW prices,
           Tokens(sender) \in tokens,
           recipient \notin {Treasury, partner} \/ Tokens(recipient) \in tokens
    PROVE  Accepted(CreateAlignedIxs(id, sender, recipient, partner, shape, prices), sender)
  <1> DEFINE given == [payer |-> sender, sender |-> sender, streamMetadata |-> id,
                       escrowTokens |-> EscrowPDA(id), mint |-> Mint, partner |-> partner,
                       recipient |-> recipient, withdrawor |-> Withdrawor,
                       feeOracle |-> <<"fee oracle">>, priceOracle |-> TestOraclePDA(Mint, sender)]
             first == <<Treasury, partner>>
             second == <<recipient>>
             T == tokens \cup TokensOfAll(first, 2)
             U == T \cup TokensOfAll(second, 1)
  <1>1. PICK a : a = Completed(AlignedCreateIx, given, <<>>, <<>>)
    OBVIOUS
  <1>2. PICK ix : ix = [op |-> "createAligned", data |-> [shape |-> shape, prices |-> prices],
                        accounts |-> a]
    OBVIOUS
  <1>3. /\ CreateAlignedIxs(id, sender, recipient, partner, shape, prices)
             = (EnsureAtas(first) \o EnsureAtas(second)) \o <<ix>>
        /\ ix.op = "createAligned" /\ ix.accounts = a
    BY <1>1, <1>2 DEF CreateAlignedIxs
  <1>4. /\ DOMAIN given = {"payer", "sender", "streamMetadata", "escrowTokens", "mint", "partner",
                           "recipient", "withdrawor", "feeOracle", "priceOracle"}
        /\ given.payer = sender /\ given.sender = sender /\ given.streamMetadata = id
        /\ given.escrowTokens = EscrowPDA(id) /\ given.mint = Mint /\ given.partner = partner
        /\ given.recipient = recipient /\ given.withdrawor = Withdrawor
        /\ given.feeOracle = <<"fee oracle">> /\ given.priceOracle = TestOraclePDA(Mint, sender)
    OBVIOUS
  <1> HIDE DEF given
  <1>5. /\ a.payer = sender /\ a.sender = sender /\ a.streamMetadata = id
        /\ a.escrowTokens = EscrowPDA(id) /\ a.mint = Mint /\ a.partner = partner
        /\ a.recipient = recipient /\ a.withdrawor = Withdrawor
        /\ a.feeOracle = <<"fee oracle">> /\ a.priceOracle = TestOraclePDA(Mint, sender)
        /\ a.senderTokens = Tokens(sender) /\ a.recipientTokens = Tokens(recipient)
        /\ a.proxyMetadata = ContractPDA(id) /\ a.proxyTokens = Tokens(ContractPDA(id))
        /\ Derived(AlignedCreateIx, a)
    BY <1>1, <1>4, AlignedCreateCompleted DEF Tokens
  <1>6. Accepts(AlignedCreateIx, a, <<>>, <<>>, sender)
    <2>1. DOMAIN AlignedCreateIx =
            {"payer", "sender", "senderTokens", "recipient", "recipientTokens", "proxyMetadata",
             "proxyTokens", "streamMetadata", "escrowTokens", "withdrawor", "partner", "mint",
             "feeOracle", "priceOracle"}
      BY DEF AlignedCreateIx
    <2>2. /\ \A o : Tokens(o) # Missing /\ ContractPDA(o) # Missing /\ EscrowPDA(o) # Missing
          /\ \A m, o : TestOraclePDA(m, o) # Missing
      BY DEF Tokens, TokenAccount, ContractPDA, EscrowPDA, TestOraclePDA, Missing
    <2>3. Mint # Missing /\ Withdrawor # Missing /\ <<"fee oracle">> # Missing
      BY DEF Mint, Withdrawor, Missing
    <2>4. sender # Missing /\ id # Missing /\ recipient # Missing /\ partner # Missing
      BY StreamsAssumption
    <2>5. \A name \in DOMAIN AlignedCreateIx : a[name] # Missing
      BY <1>5, <2>1, <2>2, <2>3, <2>4
    <2>6. \A name \in DOMAIN AlignedCreateIx \cap {"payer", "sender"} : a[name] = sender
      BY <1>5, <2>1
    <2> QED
      BY <1>5, <2>5, <2>6, DerivedAreAccepted
  <1>7. /\ first[1] = Treasury /\ first[2] = partner /\ second[1] = recipient
        /\ DOMAIN first = 1..2 /\ DOMAIN second = 1..1
    OBVIOUS
  <1> HIDE DEF first, second
  <1>8. TokensOfAll(first, 2) = {Tokens(Treasury), Tokens(partner)}
    BY <1>7 DEF TokensOfAll
  <1>9. Tokens(recipient) \in TokensOfAll(second, 1)
    BY <1>7 DEF TokensOfAll
  <1>10. Leads(EnsureAtas(first), sender, Chain, World(T, 0, {}))
    BY <1>7, AtasFirst
  <1>11. Leads(EnsureAtas(second), sender, World(T, 0, {}), World(U, 0, {}))
    <2>1. \A i \in 1..1 : second[i] = recipient
      BY <1>7
    <2>2. Tokens(recipient) \in T => Tokens(recipient) \in tokens
      <3>1. Tokens(recipient) = Tokens(Treasury) => recipient = Treasury
        BY TokensDiffer
      <3>2. Tokens(recipient) = Tokens(partner) => recipient = partner
        BY TokensDiffer
      <3> QED
        BY <1>8, <3>1, <3>2
    <2>3. \A i \in 1..1 : Tokens(second[i]) \in T => Tokens(second[i]) \in tokens
      BY <2>1, <2>2
    <2>4. tokens \subseteq T
      OBVIOUS
    <2> HIDE DEF T
    <2> QED
      BY <1>7, <2>3, <2>4, EnsureAtasLeads
  <1>12. PICK c : c = World(U, 0, {})
    OBVIOUS
  <1>13. Leads(EnsureAtas(first) \o EnsureAtas(second), sender, Chain, c)
    BY <1>10, <1>11, <1>12, LeadsOn
  <1>14. c.streams = streams /\ {Tokens(sender), Tokens(recipient)} \subseteq c.tokens
    BY <1>9, <1>12 DEF World
  <1>15. Allowed(c, ix, sender)
    BY <1>3, <1>5, <1>6, <1>14 DEF Allowed
  <1> HIDE DEF U
  <1> QED
    BY <1>3, <1>12, <1>13, <1>15, AcceptedAfter DEF Operations

LEMMA CreationsAccepted ==
    CreationAccepted
  BY CreateAccepted, CreateUncheckedAccepted, CreateAlignedAccepted DEF CreationAccepted

(* "Otherwise transaction will fail": the programs accept what these calls *)
(* build, in the state of the chain it was built from, whichever token     *)
(* accounts are closed and whichever roles coincide: a creation of tokens  *)
(* by a sender who has an account of them, plain, or aligned if the        *)
(* recipient has one too or is neither partner nor treasury; an unchecked  *)
(* native creation; a withdrawal, and where the stream allows it a         *)
(* transfer, by the recipient; a cancellation by the recipient of a plain  *)
(* stream or by the sender, who needs an account if it is aligned; a       *)
(* native top-up of a plain stream if treasury and partner have accounts.  *)
(* Token accounts that are missing are created before they are needed and  *)
(* once, each account is at the position where the program reads it and is *)
(* the one it derives, and what is wrapped covers what the program takes.  *)
THEOREM BuiltCorrect == Spec => []BuiltIsAccepted
  <1>1. IInv => BuiltIsAccepted
    BY OperationsAccepted, CreationsAccepted DEF BuiltIsAccepted
  <1> QED
    BY <1>1, Always, PTL
=============================================================================
