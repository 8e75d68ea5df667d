------------------------ MODULE ProgramClientsProofs ------------------------
(***************************************************************************)
(* Proofs about ProgramClients.                                            *)
(***************************************************************************)
EXTENDS ProgramClients, CommonTheorems

-----------------------------------------------------------------------------
(* A transaction: its instructions take effect one after the other.        *)
RunOf(ixs, invoker) ==
    IF program = "distributor"
    THEN Airdrop!Execute(ixs, invoker, Airdrop!Allowed, Airdrop!Effect)
    ELSE IF program = "launchpad"
    THEN Pads!Execute(ixs, invoker, Pads!Allowed, Pads!Effect)
    ELSE Funding!Execute(ixs, invoker, Funding!Allowed, Funding!Effect)

AllowedTo(w, ix, invoker) ==
    IF program = "distributor" THEN Airdrop!Allowed(w, ix, invoker)
    ELSE IF program = "launchpad" THEN Pads!Allowed(w, ix, invoker)
    ELSE Funding!Allowed(w, ix, invoker)

EffectOf(w, ix, invoker) ==
    IF program = "distributor" THEN Airdrop!Effect(w, ix, invoker)
    ELSE IF program = "launchpad" THEN Pads!Effect(w, ix, invoker)
    ELSE Funding!Effect(w, ix, invoker)

Executed(w, ix, invoker) ==
    IF w.ok /\ AllowedTo(w, ix, invoker)
    THEN [EffectOf(w, ix, invoker) EXCEPT !.done = @ \cup {ix.op}]
    ELSE [w EXCEPT !.ok = FALSE]

LEMMA MaxIsLast ==
    ASSUME NEW m \in Nat, NEW s \in SUBSET (1..(m + 1)), m + 1 \in s
    PROVE  Max(s) = m + 1
  <1>1. \E x \in s : \A y \in s : x >= y
    OBVIOUS
  <1>2. Max(s) = CHOOSE x \in s : \A y \in s : x >= y
    BY DEF Max
  <1>3. Max(s) \in s /\ \A y \in s : Max(s) >= y
    BY <1>1, <1>2
  <1>4. Max(s) \in 1..(m + 1) /\ Max(s) >= m + 1
    BY <1>3
  <1> QED
    BY <1>4

(* The fold of Execute, over the first m instructions.                     *)
Folded(m, F, ixs, invoker) ==
    F = [s \in SUBSET (1..m) |->
            IF s = {} THEN World ELSE Executed(F[s \ {Max(s)}], ixs[Max(s)], invoker)]

LEMMA FoldedExists ==
    ASSUME NEW ixs, NEW invoker, NEW n \in Nat
    PROVE  \E F : Folded(n, F, ixs, invoker)
  <1> DEFINE Good == {m \in Nat : \E F : Folded(m, F, ixs, invoker)}
  <1>1. 0 \in Good
    <2> DEFINE F == [s \in SUBSET (1..0) |-> World]
    <2>1. \A s \in SUBSET (1..0) : s = {}
      OBVIOUS
    <2>2. Folded(0, F, ixs, invoker)
      BY <2>1 DEF Folded
    <2> QED
      BY <2>2
  <1>2. ASSUME NEW m \in Nat, m \in Good PROVE m + 1 \in Good
    <2>1. PICK F : Folded(m, F, ixs, invoker)
      BY <1>2
    <2> DEFINE S == SUBSET (1..(m + 1))
               G == [s \in S |-> IF m + 1 \in s
                                 THEN Executed(F[s \ {m + 1}], ixs[m + 1], invoker) ELSE F[s]]
    <2>2. ASSUME NEW s \in S, m + 1 \in s
          PROVE  /\ s # {} /\ G[s] = Executed(G[s \ {Max(s)}], ixs[Max(s)], invoker)
      <3>1. Max(s) = m + 1
        BY <2>2, MaxIsLast
      <3>2. s \ {m + 1} \in S /\ m + 1 \notin s \ {m + 1}
        OBVIOUS
      <3>3. G[s \ {m + 1}] = F[s \ {m + 1}]
        BY <3>2
      <3>4. G[s] = Executed(F[s \ {m + 1}], ixs[m + 1], invoker)
        BY <2>2
      <3> QED
        BY <2>2, <3>1, <3>3, <3>4
    <2>3. ASSUME NEW s \in S, m + 1 \notin s, s # {}
          PROVE  G[s] = Executed(G[s \ {Max(s)}], ixs[Max(s)], invoker)
      <3>1. s \in SUBSET (1..m)
        BY <2>3
      <3>2. F[s] = Executed(F[s \ {Max(s)}], ixs[Max(s)], invoker)
        BY <2>1, <2>3, <3>1 DEF Folded
      <3>3. s \ {Max(s)} \in S /\ m + 1 \notin s \ {Max(s)}
        BY <2>3
      <3>4. G[s] = F[s] /\ G[s \ {Max(s)}] = F[s \ {Max(s)}]
        BY <2>3, <3>3
      <3> QED
        BY <3>2, <3>4
    <2>4. G[{}] = World
      <3>1. {} \in S /\ m + 1 \notin {} /\ {} \in SUBSET (1..m)
        OBVIOUS
      <3>2. F[{}] = World
        BY <2>1, <3>1 DEF Folded
      <3> QED
        BY <3>1, <3>2
    <2>5. \A s \in S : G[s] = IF s = {} THEN World
                              ELSE Executed(G[s \ {Max(s)}], ixs[Max(s)], invoker)
      BY <2>2, <2>3, <2>4
    <2>6. G = [s \in S |-> G[s]]
      OBVIOUS
    <2> HIDE DEF G
    <2>7. Folded(m + 1, G, ixs, invoker)
      BY <2>5, <2>6 DEF Folded
    <2> QED
      BY <2>7
  <1> HIDE DEF Good
  <1>3. Nat \subseteq Good
    BY <1>1, <1>2, Inductive
  <1> QED
    BY <1>3 DEF Good

(* The states between the instructions of a transaction.                   *)
Stepwise(f, ixs, n, invoker) ==
    /\ f[0] = World
    /\ \A k \in 1..n : f[k] = Executed(f[k - 1], ixs[k], invoker)

LEMMA RunFolds ==
    ASSUME NEW n \in Nat, NEW ixs, DOMAIN ixs = 1..n, NEW invoker
    PROVE  \E F : Folded(n, F, ixs, invoker) /\ RunOf(ixs, invoker) = F[1..n]
  <1>1. \E F : Folded(n, F, ixs, invoker)
    BY FoldedExists
  <1>2. CASE program = "distributor"
    <2> DEFINE Step(F) ==
            [s \in SUBSET (1..n) |->
               IF s = {} THEN Airdrop!World
               ELSE IF /\ F[s \ {Max(s)}].ok
                       /\ Airdrop!Allowed(F[s \ {Max(s)}], ixs[Max(s)], invoker)
                    THEN [Airdrop!Effect(F[s \ {Max(s)}], ixs[Max(s)], invoker)
                            EXCEPT !.done = @ \cup {ixs[Max(s)].op}]
                    ELSE [F[s \ {Max(s)}] EXCEPT !.ok = FALSE]]
    <2>1. RunOf(ixs, invoker) = (CHOOSE F : F = Step(F))[1..n]
      BY <1>2 DEF RunOf, Airdrop!Execute, Airdrop!FoldLeft, Airdrop!MapThenFoldSet,
                  Airdrop!Max, Max
    <2>2. \A w, ix : Executed(w, ix, invoker) =
                       IF w.ok /\ Airdrop!Allowed(w, ix, invoker)
                       THEN [Airdrop!Effect(w, ix, invoker) EXCEPT !.done = @ \cup {ix.op}]
                       ELSE [w EXCEPT !.ok = FALSE]
      BY <1>2 DEF Executed, AllowedTo, EffectOf
    <2>3. World = Airdrop!World
      BY DEF World, Airdrop!World
    <2>4. ASSUME NEW F PROVE F = Step(F) <=> Folded(n, F, ixs, invoker)
      BY <2>2, <2>3 DEF Folded
    <2> HIDE DEF Step
    <2> QED
      BY <1>1, <2>1, <2>4
  <1>3. CASE program = "launchpad"
    <2> DEFINE Step(F) ==
            [s \in SUBSET (1..n) |->
               IF s = {} THEN Pads!World
               ELSE IF /\ F[s \ {Max(s)}].ok
                       /\ Pads!Allowed(F[s \ {Max(s)}], ixs[Max(s)], invoker)
                    THEN [Pads!Effect(F[s \ {Max(s)}], ixs[Max(s)], invoker)
                            EXCEPT !.done = @ \cup {ixs[Max(s)].op}]
                    ELSE [F[s \ {Max(s)}] EXCEPT !.ok = FALSE]]
    <2>1. RunOf(ixs, invoker) = (CHOOSE F : F = Step(F))[1..n]
      BY <1>3 DEF RunOf, Pads!Execute, Pads!FoldLeft, Pads!MapThenFoldSet, Pads!Max, Max
    <2>2. \A w, ix : Executed(w, ix, invoker) =
                       IF w.ok /\ Pads!Allowed(w, ix, invoker)
                       THEN [Pads!Effect(w, ix, invoker) EXCEPT !.done = @ \cup {ix.op}]
                       ELSE [w EXCEPT !.ok = FALSE]
      BY <1>3 DEF Executed, AllowedTo, EffectOf
    <2>3. World = Pads!World
      BY DEF World, Pads!World
    <2>4. ASSUME NEW F PROVE F = Step(F) <=> Folded(n, F, ixs, invoker)
      BY <2>2, <2>3 DEF Folded
    <2> HIDE DEF Step
    <2> QED
      BY <1>1, <2>1, <2>4
  <1>4. CASE program \notin {"distributor", "launchpad"}
    <2> DEFINE Step(F) ==
            [s \in SUBSET (1..n) |->
               IF s = {} THEN Funding!World
               ELSE IF /\ F[s \ {Max(s)}].ok
                       /\ Funding!Allowed(F[s \ {Max(s)}], ixs[Max(s)], invoker)
                    THEN [Funding!Effect(F[s \ {Max(s)}], ixs[Max(s)], invoker)
                            EXCEPT !.done = @ \cup {ixs[Max(s)].op}]
                    ELSE [F[s \ {Max(s)}] EXCEPT !.ok = FALSE]]
    <2>1. RunOf(ixs, invoker) = (CHOOSE F : F = Step(F))[1..n]
      BY <1>4 DEF RunOf, Funding!Execute, Funding!FoldLeft, Funding!MapThenFoldSet,
                  Funding!Max, Max
    <2>2. \A w, ix : Executed(w, ix, invoker) =
                       IF w.ok /\ Funding!Allowed(w, ix, invoker)
                       THEN [Funding!Effect(w, ix, invoker) EXCEPT !.done = @ \cup {ix.op}]
                       ELSE [w EXCEPT !.ok = FALSE]
      BY <1>4 DEF Executed, AllowedTo, EffectOf
    <2>3. World = Funding!World
      BY DEF World, Funding!World
    <2>4. ASSUME NEW F PROVE F = Step(F) <=> Folded(n, F, ixs, invoker)
      BY <2>2, <2>3 DEF Folded
    <2> HIDE DEF Step
    <2> QED
      BY <1>1, <2>1, <2>4
  <1> QED
    BY <1>2, <1>3, <1>4

LEMMA RunIsStepwise ==
    ASSUME NEW n \in Nat, NEW ixs, DOMAIN ixs = 1..n, NEW invoker
    PROVE  \E f : Stepwise(f, ixs, n, invoker) /\ RunOf(ixs, invoker) = f[n]
  <1>1. PICK F : Folded(n, F, ixs, invoker) /\ RunOf(ixs, invoker) = F[1..n]
    BY RunFolds
  <1> DEFINE f == [k \in 0..n |-> F[1..k]]
  <1>3. f[0] = World
    BY <1>1 DEF Folded
  <1>4. ASSUME NEW k \in 1..n PROVE f[k] = Executed(f[k - 1], ixs[k], invoker)
    <2>1. k - 1 \in Nat /\ k = (k - 1) + 1 /\ k \in 1..k
      OBVIOUS
    <2>2. Max(1..k) = k
      BY <2>1, MaxIsLast
    <2>3. (1..k) \ {k} = 1..(k - 1) /\ 1..k \in SUBSET (1..n) /\ 1..k # {}
      OBVIOUS
    <2>4. F[1..k] = Executed(F[1..(k - 1)], ixs[k], invoker)
      BY <1>1, <2>2, <2>3 DEF Folded
    <2> QED
      BY <2>4
  <1>5. f[n] = F[1..n]
    OBVIOUS
  <1> QED
    BY <1>1, <1>3, <1>4, <1>5 DEF Stepwise

-----------------------------------------------------------------------------
(* What a transaction works on, and what its instructions do to it.        *)
IsWorld(w) ==
    w = [ok |-> w.ok, accounts |-> w.accounts, tokens |-> w.tokens, done |-> w.done]

NatTokens(t) == t = [a \in DOMAIN t |-> t[a]] /\ \A a \in DOMAIN t : t[a] \in Nat

(* The worlds agree but for their tokens.                                  *)
TokensOnly(v, w) == IsWorld(v) /\ v.ok = w.ok /\ v.accounts = w.accounts /\ v.done = w.done

LEMMA StoredIs ==
    ASSUME NEW f, NEW a, NEW c
    PROVE  LET g == Stored(f, a, c) IN
           /\ DOMAIN g = DOMAIN f \cup {a} /\ g = [b \in DOMAIN g |-> g[b]]
           /\ g[a] = c /\ \A b \in DOMAIN f \ {a} : g[b] = f[b]
  BY DEF Stored

LEMMA MergedIs ==
    ASSUME NEW f, NEW g
    PROVE  LET h == Merged(f, g) IN
           /\ DOMAIN h = DOMAIN f \cup DOMAIN g
           /\ \A x \in DOMAIN f : h[x] = f[x]
           /\ \A x \in DOMAIN g \ DOMAIN f : h[x] = g[x]
  BY DEF Merged

LEMMA OpenedIs ==
    ASSUME NEW w, IsWorld(w), NatTokens(w.tokens), NEW a
    PROVE  LET v == Opened(w, a) IN
           /\ TokensOnly(v, w) /\ NatTokens(v.tokens)
           /\ DOMAIN v.tokens = DOMAIN w.tokens \cup {a}
           /\ \A b \in DOMAIN w.tokens : v.tokens[b] = w.tokens[b]
           /\ a \notin DOMAIN w.tokens => v.tokens[a] = 0
  <1>1. PICK v : v = Opened(w, a)
    OBVIOUS
  <1>2. PICK c, t : /\ c = IF a \in DOMAIN w.tokens THEN w.tokens[a] ELSE 0
                    /\ t = Stored(w.tokens, a, c)
    OBVIOUS
  <1>3. TokensOnly(v, w) /\ v.tokens = t
    BY <1>1, <1>2 DEF IsWorld, Opened, TokensOnly
  <1>4. /\ DOMAIN t = DOMAIN w.tokens \cup {a} /\ t = [b \in DOMAIN t |-> t[b]]
        /\ t[a] = c
        /\ \A b \in DOMAIN w.tokens \ {a} : t[b] = w.tokens[b]
    BY <1>2 DEF Stored
  <1>5. /\ NatTokens(t) /\ \A b \in DOMAIN w.tokens : t[b] = w.tokens[b]
        /\ a \notin DOMAIN w.tokens => t[a] = 0
    BY <1>2, <1>4 DEF NatTokens
  <1> QED
    BY <1>1, <1>3, <1>4, <1>5

LEMMA MovedIs ==
    ASSUME NEW w, IsWorld(w), NatTokens(w.tokens), NEW a, NEW amount \in Int,
           a \in DOMAIN w.tokens => amount <= w.tokens[a]
    PROVE  LET v == Moved(w, a, amount) IN
           /\ TokensOnly(v, w) /\ NatTokens(v.tokens)
           /\ DOMAIN v.tokens = DOMAIN w.tokens
           /\ \A b \in DOMAIN w.tokens \ {a} : v.tokens[b] = w.tokens[b]
           /\ a \in DOMAIN w.tokens => v.tokens[a] = w.tokens[a] - amount
  <1>1. PICK v : v = Moved(w, a, amount)
    OBVIOUS
  <1>2. PICK t : t = [w.tokens EXCEPT ![a] = w.tokens[a] - amount]
    OBVIOUS
  <1>3. TokensOnly(v, w) /\ v.tokens = t
    BY <1>1, <1>2 DEF IsWorld, Moved, TokensOnly
  <1>4. /\ DOMAIN t = DOMAIN w.tokens /\ t = [b \in DOMAIN t |-> t[b]]
        /\ \A b \in DOMAIN w.tokens \ {a} : t[b] = w.tokens[b]
        /\ a \in DOMAIN w.tokens => t[a] = w.tokens[a] - amount
    BY <1>2
  <1>5. NatTokens(t)
    BY <1>4 DEF NatTokens
  <1> QED
    BY <1>1, <1>3, <1>4, <1>5

LEMMA WorldIsWorld ==
    IsWorld(World) /\ World.ok = TRUE /\ World.accounts = accounts
    /\ World.tokens = tokens /\ World.done = {}
  BY DEF IsWorld, World

(* An instruction that is refused, and one that takes effect.              *)
LEMMA ExecutedIs ==
    ASSUME NEW w, IsWorld(w), NEW ix, NEW invoker, IsWorld(EffectOf(w, ix, invoker))
    PROVE  LET v == Executed(w, ix, invoker)
               e == EffectOf(w, ix, invoker)
           IN  /\ IsWorld(v)
               /\ w.ok /\ AllowedTo(w, ix, invoker) =>
                    /\ v.ok = e.ok /\ v.accounts = e.accounts /\ v.tokens = e.tokens
                    /\ v.done = e.done \cup {ix.op}
               /\ ~(w.ok /\ AllowedTo(w, ix, invoker)) =>
                    /\ v.ok = FALSE /\ v.accounts = w.accounts /\ v.tokens = w.tokens
                    /\ v.done = w.done
  <1>1. PICK e : e = EffectOf(w, ix, invoker)
    OBVIOUS
  <1>2. PICK v : v = Executed(w, ix, invoker)
    OBVIOUS
  <1>3. CASE w.ok /\ AllowedTo(w, ix, invoker)
    <2>1. v = [e EXCEPT !.done = @ \cup {ix.op}]
      BY <1>1, <1>2, <1>3 DEF Executed
    <2>2. IsWorld(v) /\ v.ok = e.ok /\ v.accounts = e.accounts /\ v.tokens = e.tokens
          /\ v.done = e.done \cup {ix.op}
      BY <1>1, <2>1 DEF IsWorld
    <2> QED
      BY <1>1, <1>2, <1>3, <2>2
  <1>4. CASE ~(w.ok /\ AllowedTo(w, ix, invoker))
    <2>1. v = [w EXCEPT !.ok = FALSE]
      BY <1>2, <1>4 DEF Executed
    <2>2. IsWorld(v) /\ v.ok = FALSE /\ v.accounts = w.accounts /\ v.tokens = w.tokens
          /\ v.done = w.done
      BY <2>1 DEF IsWorld
    <2> QED
      BY <1>2, <1>4, <2>2
  <1> QED
    BY <1>3, <1>4

(* Transactions of few instructions.                                       *)
LEMMA RunOne ==
    ASSUME NEW a, NEW invoker
    PROVE  RunOf(<<a>>, invoker) = Executed(World, a, invoker)
  <1>1. PICK ixs : ixs = <<a>>
    OBVIOUS
  <1>2. DOMAIN ixs = 1..1 /\ ixs[1] = a
    BY <1>1
  <1>3. PICK f : Stepwise(f, ixs, 1, invoker) /\ RunOf(ixs, invoker) = f[1]
    BY <1>2, RunIsStepwise
  <1> QED
    BY <1>1, <1>2, <1>3 DEF Stepwise

LEMMA RunTwo ==
    ASSUME NEW a, NEW b, NEW invoker
    PROVE  RunOf(<<a, b>>, invoker) = Executed(Executed(World, a, invoker), b, invoker)
  <1>1. PICK ixs : ixs = <<a, b>>
    OBVIOUS
  <1>2. DOMAIN ixs = 1..2 /\ ixs[1] = a /\ ixs[2] = b
    BY <1>1
  <1>3. PICK f : Stepwise(f, ixs, 2, invoker) /\ RunOf(ixs, invoker) = f[2]
    <2>1. PICK n \in Nat : n = 2
      OBVIOUS
    <2>2. DOMAIN ixs = 1..n
      BY <1>2, <2>1
    <2>3. \E f : Stepwise(f, ixs, n, invoker) /\ RunOf(ixs, invoker) = f[n]
      BY <2>2, RunIsStepwise
    <2> QED
      BY <2>1, <2>3
  <1>4. f[1] = Executed(f[0], a, invoker) /\ f[2] = Executed(f[1], b, invoker)
    BY <1>2, <1>3 DEF Stepwise
  <1> QED
    BY <1>1, <1>3, <1>4 DEF Stepwise

LEMMA RunThree ==
    ASSUME NEW a, NEW b, NEW c, NEW invoker
    PROVE  RunOf(<<a, b, c>>, invoker)
             = Executed(Executed(Executed(World, a, invoker), b, invoker), c, invoker)
  <1>1. PICK ixs : ixs = <<a, b, c>>
    OBVIOUS
  <1>2. DOMAIN ixs = 1..3 /\ ixs[1] = a /\ ixs[2] = b /\ ixs[3] = c
    BY <1>1
  <1>3. PICK f : Stepwise(f, ixs, 3, invoker) /\ RunOf(ixs, invoker) = f[3]
    <2>1. PICK n \in Nat : n = 3
      OBVIOUS
    <2>2. DOMAIN ixs = 1..n
      BY <1>2, <2>1
    <2>3. \E f : Stepwise(f, ixs, n, invoker) /\ RunOf(ixs, invoker) = f[n]
      BY <2>2, RunIsStepwise
    <2> QED
      BY <2>1, <2>3
  <1>4. /\ f[1] = Executed(f[0], a, invoker) /\ f[2] = Executed(f[1], b, invoker)
        /\ f[3] = Executed(f[2], c, invoker)
    BY <1>2, <1>3 DEF Stepwise
  <1> QED
    BY <1>1, <1>3, <1>4 DEF Stepwise

LEMMA RunFour ==
    ASSUME NEW a, NEW b, NEW c, NEW d, NEW invoker
    PROVE  RunOf(<<a, b, c, d>>, invoker)
             = Executed(Executed(Executed(Executed(World, a, invoker), b, invoker), c, invoker),
                        d, invoker)
  <1>1. PICK ixs : ixs = <<a, b, c, d>>
    OBVIOUS
  <1>2. DOMAIN ixs = 1..4 /\ ixs[1] = a /\ ixs[2] = b /\ ixs[3] = c /\ ixs[4] = d
    BY <1>1
  <1>3. PICK f : Stepwise(f, ixs, 4, invoker) /\ RunOf(ixs, invoker) = f[4]
    <2>1. PICK n \in Nat : n = 4
      OBVIOUS
    <2>2. DOMAIN ixs = 1..n
      BY <1>2, <2>1
    <2>3. \E f : Stepwise(f, ixs, n, invoker) /\ RunOf(ixs, invoker) = f[n]
      BY <2>2, RunIsStepwise
    <2> QED
      BY <2>1, <2>3
  <1>4. /\ f[1] = Executed(f[0], a, invoker) /\ f[2] = Executed(f[1], b, invoker)
        /\ f[3] = Executed(f[2], c, invoker) /\ f[4] = Executed(f[3], d, invoker)
    BY <1>2, <1>3 DEF Stepwise
  <1> QED
    BY <1>1, <1>3, <1>4 DEF Stepwise

LEMMA SeededByNone ==
    ASSUME NEW how, how.path = <<>>, NEW addr, NEW args
    PROVE  Seeded(how, addr, args) = <<how.prefix>>
  <1>1. PICK e : e = <<>>
    OBVIOUS
  <1>2. DOMAIN how.path = {}
    OBVIOUS
  <1>3. Seeded(how, addr, args) = <<how.prefix>> \o [i \in {} |-> addr[i]]
    BY <1>2 DEF Seeded
  <1>4. [i \in {} |-> addr[i]] = <<>>
    OBVIOUS
  <1> QED
    BY <1>3, <1>4

(* Accounts that Anchor completed are accepted, if those that are given    *)
(* are as the program requires.                                            *)
Agrees(ix, addr, args, accs, name) ==
    LET how == ix[name] IN
    /\ how.by = "seeds" => addr[name] = Seeded(how, addr, args)
    /\ how.by = "tokens" => addr[name] = TokenAccount(addr["mint"], addr[how.owner])
    /\ how.by = "relations" =>
         \A a \in how.of : /\ addr[a] \in DOMAIN accs
                           /\ accs[addr[a]][name] = addr[name]

LEMMA CompletedIsAccepted ==
    ASSUME NEW ix, NEW given, NEW args, NEW accs, NEW rank, Layered(rank, ix, given, args),
           NEW addr, addr = Completed(ix, given, args, accs), NEW invoker,
           \A name \in DOMAIN ix : addr[name] # Missing,
           \A name \in DOMAIN ix : "signs" \in DOMAIN ix[name] => addr[name] = invoker,
           \A name \in DOMAIN ix \cap DOMAIN given : Agrees(ix, addr, args, accs, name),
           \A name \in DOMAIN ix : ix[name].by = "relations" =>
                \E r : ix[name].of = {r} /\ addr[r] \in DOMAIN accs
    PROVE  Accepts(ix, addr, args, accs, invoker)
  <1>1. ASSUME NEW name \in DOMAIN ix \ DOMAIN given
        PROVE  Agrees(ix, addr, args, accs, name)
    <2>1. ix[name].by = "seeds" => addr[name] = Seeded(ix[name], addr, args)
      BY CompletedName
    <2>2. ix[name].by = "tokens" =>
            addr[name] = TokenAccount(addr["mint"], addr[ix[name].owner])
      BY CompletedName
    <2>3. ASSUME ix[name].by = "relations", NEW a \in ix[name].of
          PROVE  addr[a] \in DOMAIN accs /\ accs[addr[a]][name] = addr[name]
      <3>1. PICK r : ix[name].of = {r} /\ addr[r] \in DOMAIN accs
        BY <2>3
      <3>2. addr[name] = IF addr[r] \in DOMAIN accs THEN accs[addr[r]][name] ELSE Missing
        BY <2>3, <3>1, CompletedName
      <3> QED
        BY <3>1, <3>2
    <2> QED
      BY <2>1, <2>2, <2>3 DEF Agrees
  <1> QED
    BY <1>1 DEF Agrees, Accepts

-----------------------------------------------------------------------------
(* Funding a reward pool: the accounts of the instruction.                 *)
FundIx(given) == IF given THEN Funding!FundPoolWithFeeIx ELSE Funding!FundPoolIx

FundNamed ==
    [funder |-> Funding!Funder, rewardPool |-> Funding!Pool, vault |-> Funding!Vault,
     from |-> Funding!TokenAccount(Funding!RewardMint, Funding!Funder),
     mint |-> Funding!RewardMint, streamflowTreasury |-> Funding!Treasury]

FundAddr(given, accs) == Completed(FundIx(given), FundNamed, <<>>, accs)

TreasuryTokens == Funding!TokenAccount(Funding!RewardMint, Funding!Treasury)
FunderTokens == Funding!TokenAccount(Funding!RewardMint, Funding!Funder)

LEMMA FundingAddresses ==
    /\ Funding!Pool # Funding!ConfigPDA /\ Funding!Pool # Funding!OwnFee
    /\ Funding!ConfigPDA # Funding!OwnFee
    /\ TreasuryTokens # FunderTokens
    /\ Funding!Vault # TreasuryTokens /\ Funding!Vault # FunderTokens
    /\ Missing \notin {Funding!Funder, Funding!Treasury, Funding!RewardMint, Funding!Pool,
                       Funding!Vault, Funding!ConfigPDA, Funding!OwnFee, TreasuryTokens,
                       FunderTokens}
  BY DEF Funding!Pool, Funding!ConfigPDA, Funding!OwnFee, Funding!RewardPoolPDA,
         Funding!FeeValuePDA, TreasuryTokens, FunderTokens, Funding!TokenAccount, Funding!Vault,
         Funding!RewardVaultPDA, Funding!Treasury, Funding!Funder, Funding!RewardMint, Missing

LEMMA FundIxIs ==
    ASSUME NEW given \in BOOLEAN
    PROVE  LET ix == FundIx(given) IN
           /\ DOMAIN ix = DOMAIN FundNamed \cup {"streamflowTreasuryTokens", "config"}
                             \cup (IF given THEN {"feeValue"} ELSE {})
           /\ \A name \in DOMAIN ix : "signs" \in DOMAIN ix[name] <=> name = "funder"
           /\ \A name \in DOMAIN FundNamed :
                 ix[name].by = IF name \in {"vault", "mint"} THEN "relations" ELSE "name"
           /\ ix["vault"].of = {"rewardPool"} /\ ix["mint"].of = {"rewardPool"}
           /\ ix["streamflowTreasuryTokens"].by = "tokens"
           /\ ix["streamflowTreasuryTokens"].owner = "streamflowTreasury"
           /\ ix["config"].by = "seeds" /\ ix["config"].path = <<>>
           /\ ix["config"].prefix = "config"
           /\ given => ix["feeValue"] = Seeds("fee-value", <<"funder">>)
  <1>1. CASE given = FALSE
    BY <1>1 DEF FundIx, FundNamed, Funding!FundPoolIx, Funding!Signer, Funding!Named,
             Funding!FieldOf, Funding!TokensOf, Funding!Seeds
  <1>2. CASE given = TRUE
    <2>1. PICK plain : plain = Funding!FundPoolIx
      OBVIOUS
    <2>2. /\ DOMAIN plain = DOMAIN FundNamed \cup {"streamflowTreasuryTokens", "config"}
          /\ \A name \in DOMAIN plain : "signs" \in DOMAIN plain[name] <=> name = "funder"
          /\ \A name \in DOMAIN FundNamed :
                 plain[name].by = IF name \in {"vault", "mint"} THEN "relations" ELSE "name"
          /\ plain["vault"].of = {"rewardPool"} /\ plain["mint"].of = {"rewardPool"}
          /\ plain["streamflowTreasuryTokens"].by = "tokens"
          /\ plain["streamflowTreasuryTokens"].owner = "streamflowTreasury"
          /\ plain["config"].by = "seeds" /\ plain["config"].path = <<>>
          /\ plain["config"].prefix = "config"
      BY <2>1 DEF FundNamed, Funding!FundPoolIx, Funding!Signer, Funding!Named,
             Funding!FieldOf, Funding!TokensOf, Funding!Seeds
    <2>3. FundIx(given) = [name \in DOMAIN plain \cup {"feeValue"} |->
              IF name = "feeValue" THEN Seeds("fee-value", <<"funder">>) ELSE plain[name]]
      BY <1>2, <2>1 DEF FundIx, Funding!FundPoolWithFeeIx, Funding!Seeds, Seeds
    <2>4. DOMAIN FundNamed = {"funder", "rewardPool", "vault", "from", "mint",
                              "streamflowTreasury"}
      BY DEF FundNamed
    <2> QED
      BY <1>2, <2>2, <2>3, <2>4 DEF Seeds
  <1> QED
    BY <1>1, <1>2

LEMMA FundIxLayered ==
    ASSUME NEW given \in BOOLEAN
    PROVE  \E rank : Layered(rank, FundIx(given), FundNamed, <<>>)
  <1> DEFINE ix == FundIx(given)
  <1>1. /\ DOMAIN ix = DOMAIN FundNamed \cup {"streamflowTreasuryTokens", "config"}
                             \cup (IF given THEN {"feeValue"} ELSE {})
        /\ ix["streamflowTreasuryTokens"].by = "tokens"
        /\ ix["streamflowTreasuryTokens"].owner = "streamflowTreasury"
        /\ ix["config"].by = "seeds" /\ ix["config"].path = <<>>
        /\ given => ix["feeValue"] = Seeds("fee-value", <<"funder">>)
    BY FundIxIs
  <1> HIDE DEF ix
  <1>2. DOMAIN FundNamed = {"funder", "rewardPool", "vault", "from", "mint", "streamflowTreasury"}
    BY DEF FundNamed
  <1>3. /\ Needs(ix, FundNamed, <<>>, "streamflowTreasuryTokens") = {"mint", "streamflowTreasury"}
        /\ Needs(ix, FundNamed, <<>>, "config") = {}
        /\ given => Needs(ix, FundNamed, <<>>, "feeValue") = {"funder"}
    <2>1. PICK e : e = <<>> /\ DOMAIN e = {}
      OBVIOUS
    <2> QED
      BY <1>1, <1>2, <2>1 DEF Needs, Seeds
  <1>4. \A name \in DOMAIN ix \ DOMAIN FundNamed :
          /\ ix[name].by \in Manners \ {"name"}
          /\ Needs(ix, FundNamed, <<>>, name) \subseteq DOMAIN ix
          /\ Needs(ix, FundNamed, <<>>, name) \subseteq
               DOMAIN FundNamed \cup (IF name \in {} THEN {} ELSE {})
    BY <1>1, <1>2, <1>3 DEF Manners, Seeds
  <1>5. PICK middle : middle = {}
    OBVIOUS
  <1>6. \E rank : Layered(rank, ix, FundNamed, <<>>)
    BY <1>4, <1>5, TwoLayers
  <1> QED
    BY <1>6 DEF ix

LEMMA FundAddrIs ==
    ASSUME NEW given \in BOOLEAN, NEW accs
    PROVE  LET addr == FundAddr(given, accs) IN
           /\ DOMAIN addr = DOMAIN FundIx(given)
           /\ \A name \in DOMAIN FundNamed : addr[name] = FundNamed[name]
           /\ addr["streamflowTreasuryTokens"] = TreasuryTokens
           /\ addr["config"] = Funding!ConfigPDA
           /\ given => addr["feeValue"] = Funding!OwnFee
  <1> DEFINE ix == FundIx(given)
             addr == FundAddr(given, accs)
  <1>1. /\ DOMAIN ix = DOMAIN FundNamed \cup {"streamflowTreasuryTokens", "config"}
                             \cup (IF given THEN {"feeValue"} ELSE {})
        /\ ix["streamflowTreasuryTokens"].by = "tokens"
        /\ ix["streamflowTreasuryTokens"].owner = "streamflowTreasury"
        /\ ix["config"].by = "seeds" /\ ix["config"].path = <<>>
        /\ ix["config"].prefix = "config"
        /\ given => ix["feeValue"] = Seeds("fee-value", <<"funder">>)
    BY FundIxIs
  <1>2. PICK rank : Layered(rank, ix, FundNamed, <<>>)
    BY FundIxLayered
  <1>3. addr = Completed(ix, FundNamed, <<>>, accs)
    BY DEF FundAddr
  <1> HIDE DEF ix, addr
  <1>4. addr = [name \in DOMAIN ix |-> Resolved(ix, FundNamed, <<>>, accs, addr, name)]
    BY <1>2, <1>3, CompletedUnfolds
  <1>5. \A name \in DOMAIN FundNamed : addr[name] = FundNamed[name]
    BY <1>1, <1>2, <1>3, CompletedName
  <1>6. DOMAIN FundNamed = {"funder", "rewardPool", "vault", "from", "mint", "streamflowTreasury"}
    BY DEF FundNamed
  <1>7. addr["streamflowTreasuryTokens"] = TokenAccount(addr["mint"], addr["streamflowTreasury"])
    BY <1>1, <1>2, <1>3, <1>6, CompletedName
  <1>8. addr["config"] = <<"config">>
    <2>1. addr["config"] = Seeded(ix["config"], addr, <<>>)
      BY <1>1, <1>2, <1>3, <1>6, CompletedName
    <2> QED
      BY <1>1, <2>1, SeededByNone
  <1>9. given => addr["feeValue"] = <<"fee-value", FundNamed["funder"]>>
    <2>1. given => addr["feeValue"] = Seeded(Seeds("fee-value", <<"funder">>), addr, <<>>)
      BY <1>1, <1>2, <1>3, <1>6, CompletedName DEF Seeds
    <2>2. Seed("funder", addr, <<>>) = addr["funder"]
      BY DEF Seed
    <2> QED
      BY <1>5, <1>6, <2>1, <2>2, SeededByOne
  <1>10. DOMAIN addr = DOMAIN ix
    BY <1>4
  <1>11. addr["streamflowTreasuryTokens"] = TreasuryTokens
    BY <1>5, <1>6, <1>7 DEF FundNamed, TreasuryTokens, TokenAccount, Funding!TokenAccount
  <1>12. given => addr["feeValue"] = Funding!OwnFee
    BY <1>9 DEF FundNamed, Funding!OwnFee, Funding!FeeValuePDA
  <1> QED
    BY <1>5, <1>8, <1>10, <1>11, <1>12 DEF ix, addr, Funding!ConfigPDA

LEMMA FundAccepted ==
    ASSUME NEW given \in BOOLEAN, NEW accs, Funding!Pool \in DOMAIN accs,
           accs[Funding!Pool].vault = Funding!Vault, accs[Funding!Pool].mint = Funding!RewardMint
    PROVE  Accepts(FundIx(given), FundAddr(given, accs), <<>>, accs, Funding!Funder)
  <1> DEFINE ix == FundIx(given)
             addr == FundAddr(given, accs)
  <1>1. /\ DOMAIN ix = DOMAIN FundNamed \cup {"streamflowTreasuryTokens", "config"}
                             \cup (IF given THEN {"feeValue"} ELSE {})
        /\ \A name \in DOMAIN ix : "signs" \in DOMAIN ix[name] <=> name = "funder"
        /\ \A name \in DOMAIN FundNamed :
              ix[name].by = IF name \in {"vault", "mint"} THEN "relations" ELSE "name"
        /\ ix["vault"].of = {"rewardPool"} /\ ix["mint"].of = {"rewardPool"}
        /\ ix["streamflowTreasuryTokens"].by = "tokens"
        /\ ix["config"].by = "seeds"
        /\ given => ix["feeValue"] = Seeds("fee-value", <<"funder">>)
    BY FundIxIs
  <1>2. PICK rank : Layered(rank, ix, FundNamed, <<>>)
    BY FundIxLayered
  <1>3. addr = Completed(ix, FundNamed, <<>>, accs)
    BY DEF FundAddr
  <1>4. /\ \A name \in DOMAIN FundNamed : addr[name] = FundNamed[name]
        /\ addr["streamflowTreasuryTokens"] = TreasuryTokens
        /\ addr["config"] = Funding!ConfigPDA
        /\ given => addr["feeValue"] = Funding!OwnFee
    BY FundAddrIs
  <1> HIDE DEF ix, addr
  <1>13. given => ix["feeValue"].by = "seeds"
    BY <1>1 DEF Seeds
  <1>5. DOMAIN FundNamed = {"funder", "rewardPool", "vault", "from", "mint", "streamflowTreasury"}
    BY DEF FundNamed
  <1>6. /\ addr["funder"] = Funding!Funder /\ addr["rewardPool"] = Funding!Pool
        /\ addr["vault"] = Funding!Vault /\ addr["from"] = FunderTokens
        /\ addr["mint"] = Funding!RewardMint /\ addr["streamflowTreasury"] = Funding!Treasury
    BY <1>4, <1>5 DEF FundNamed, FunderTokens
  <1>7. \A name \in DOMAIN ix : addr[name] # Missing
    BY <1>1, <1>4, <1>5, <1>6, FundingAddresses
  <1>8. \A name \in DOMAIN ix : "signs" \in DOMAIN ix[name] => addr[name] = Funding!Funder
    BY <1>1, <1>6
  <1>9. \A name \in DOMAIN ix \cap DOMAIN FundNamed : Agrees(ix, addr, <<>>, accs, name)
    <2> SUFFICES ASSUME NEW name \in DOMAIN FundNamed PROVE Agrees(ix, addr, <<>>, accs, name)
      OBVIOUS
    <2>1. CASE name \in {"vault", "mint"}
      <3>1. ix[name].by = "relations" /\ ix[name].of = {"rewardPool"}
        BY <1>1, <1>5, <2>1
      <3>2. accs[addr["rewardPool"]][name] = addr[name]
        BY <1>6, <2>1
      <3> QED
        BY <1>6, <3>1, <3>2 DEF Agrees
    <2>2. CASE name \notin {"vault", "mint"}
      BY <1>1, <2>2 DEF Agrees
    <2> QED
      BY <2>1, <2>2
  <1>10. \A name \in DOMAIN ix : ix[name].by = "relations" =>
            \E r : ix[name].of = {r} /\ addr[r] \in DOMAIN accs
    BY <1>1, <1>5, <1>6, <1>13
  <1>11. Accepts(ix, addr, <<>>, accs, Funding!Funder)
    BY <1>2, <1>3, <1>7, <1>8, <1>9, <1>10, CompletedIsAccepted
  <1> QED
    BY <1>11 DEF ix, addr

-----------------------------------------------------------------------------
(* The instructions of the staking client that funds a pool.               *)
(* The definitions of the instances are those of this module.              *)
LEMMA FundingSame ==
    /\ \A w, a : Funding!Opened(w, a) = Opened(w, a)
    /\ \A w, a, n : Funding!Moved(w, a, n) = Moved(w, a, n)
    /\ \A w, a : (Funding!Exists(w, a) <=> Exists(w, a)) /\ (Funding!Holds(w, a) <=> Holds(w, a))
    /\ \A f, a, c : Funding!Stored(f, a, c) = Stored(f, a, c)
    /\ \A f, g : Funding!Merged(f, g) = Merged(f, g)
    /\ \A m, a : Funding!TokenAccount(m, a) = TokenAccount(m, a)
  BY DEF Opened, Funding!Opened, Moved, Funding!Moved, Exists, Funding!Exists, Holds,
         Funding!Holds, Stored, Funding!Stored, Merged, Funding!Merged, TokenAccount,
         Funding!TokenAccount

LEMMA FundingAnchorSame ==
    ASSUME NEW ix, NEW given, NEW args, NEW accs, NEW addr, NEW invoker
    PROVE  /\ Funding!Completed(ix, given, args, accs) = Completed(ix, given, args, accs)
           /\ Funding!Accepts(ix, addr, args, accs, invoker)
                <=> Accepts(ix, addr, args, accs, invoker)
  BY DEF Completed, Funding!Completed, Resolved, Funding!Resolved, Accepts, Funding!Accepts,
         Seeded, Funding!Seeded, Missing, Funding!Missing, TokenAccount, Funding!TokenAccount

(* The instructions of the transaction that funds the pool.                *)
OpenTreasury == [op |-> "createAta", account |-> TreasuryTokens]

FundTxn(given, accs) == [op |-> "fundPool", accounts |-> FundAddr(given, accs)]

FeeOf(accs) ==
    IF Funding!OwnFee \in DOMAIN accs THEN << accs[Funding!OwnFee].streamflowFee >> ELSE <<>>

FundingIxs(accs, toks, existing, given) ==
    IF Funding!TreasuryNeeded(existing) /\ TreasuryTokens \notin DOMAIN toks
    THEN << OpenTreasury, FundTxn(given, accs) >> ELSE << FundTxn(given, accs) >>

LEMMA FundPoolIxsAre ==
    ASSUME NEW existing, NEW given \in BOOLEAN
    PROVE  Funding!FundPoolIxs(existing, given) = FundingIxs(accounts, tokens, existing, given)
  <1>1. FundTxn(given, accounts) =
          [op |-> "fundPool",
           accounts |-> IF given THEN Funding!Completed(Funding!FundPoolWithFeeIx, FundNamed, <<>>, accounts)
                            ELSE Funding!Completed(Funding!FundPoolIx, FundNamed, <<>>, accounts)]
    BY FundingAnchorSame DEF FundTxn, FundAddr, FundIx
  <1> DEFINE opening == IF Funding!TreasuryNeeded(existing)
                        THEN Funding!EnsureAta(Funding!Treasury, Funding!RewardMint) ELSE <<>>
  <1>2. Funding!FundPoolIxs(existing, given) = opening \o <<FundTxn(given, accounts)>>
    BY <1>1 DEF Funding!FundPoolIxs, FundNamed
  <1>3. opening = IF Funding!TreasuryNeeded(existing) /\ TreasuryTokens \notin DOMAIN tokens
                  THEN << OpenTreasury >> ELSE <<>>
    BY DEF Funding!EnsureAta, Funding!CreateAta, OpenTreasury, TreasuryTokens
  <1>4. \A t : <<>> \o <<t>> = <<t>>
    OBVIOUS
  <1> HIDE DEF opening
  <1>5. CASE Funding!TreasuryNeeded(existing) /\ TreasuryTokens \notin DOMAIN tokens
    BY <1>2, <1>3, <1>5, PrefixedOne DEF FundingIxs
  <1>6. CASE ~(Funding!TreasuryNeeded(existing) /\ TreasuryTokens \notin DOMAIN tokens)
    <2>1. opening = <<>>
      BY <1>3, <1>6
    <2>2. FundingIxs(accounts, tokens, existing, given) = << FundTxn(given, accounts) >>
      BY <1>6 DEF FundingIxs
    <2> QED
      BY <1>2, <1>4, <2>1, <2>2
  <1> QED
    BY <1>5, <1>6

-----------------------------------------------------------------------------
(* What holds while a reward pool is funded.                               *)
FundingAccounts(accs) ==
    /\ {Funding!Pool, Funding!ConfigPDA} \subseteq DOMAIN accs
    /\ DOMAIN accs \subseteq {Funding!Pool, Funding!ConfigPDA, Funding!OwnFee}
    /\ accs[Funding!Pool].vault = Funding!Vault
    /\ accs[Funding!Pool].mint = Funding!RewardMint
    /\ "streamflowFee" \in DOMAIN accs[Funding!ConfigPDA]
    /\ accs[Funding!ConfigPDA].streamflowFee \in Nat
    /\ Funding!OwnFee \in DOMAIN accs => accs[Funding!OwnFee].streamflowFee \in Nat

FundingTokens(toks) == NatTokens(toks) /\ Funding!Vault \in DOMAIN toks

(* The pool is funded with what was read; nothing else changed since, if   *)
(* the call is not disturbed.                                              *)
FundingCall(c, accs, toks, dist) ==
    \/ c = Idle
    \/ /\ c.stage = "reading" /\ c.given \in BOOLEAN
       /\ ~dist => c.existing = FeeOf(accs)
    \/ /\ c.stage = "built" /\ c.given \in BOOLEAN /\ c.invoker = Funding!Funder
       /\ \E a, t, e : c.ixs = FundingIxs(a, t, e, c.given)
       /\ ~dist => c.ixs = FundingIxs(accs, toks, FeeOf(accs), c.given)

FundingInv ==
    /\ now \in 1..MaxTime /\ disturbed \in BOOLEAN
    /\ FundingAccounts(accounts) /\ FundingTokens(tokens)
    /\ FundingCall(call, accounts, tokens, disturbed)

(* What the instructions do.                                               *)
FundingWorld(w) == IsWorld(w) /\ FundingTokens(w.tokens)

FundingIx(ix) ==
    \/ ix = OpenTreasury
    \/ ix.op = "fundPool" /\ ix # OpenTreasury /\ ix.accounts["vault"] = Funding!Vault

LEMMA FundTxnIs ==
    ASSUME NEW given \in BOOLEAN, NEW accs
    PROVE  FundingIx(FundTxn(given, accs)) /\ FundTxn(given, accs) # OpenTreasury
  <1>1. FundAddr(given, accs)["vault"] = Funding!Vault
    BY FundAddrIs DEF FundNamed
  <1> QED
    BY <1>1 DEF FundingIx, FundTxn, OpenTreasury

LEMMA FundingIxDoes ==
    ASSUME program = "rewardPool", NEW w, FundingWorld(w), NEW ix, FundingIx(ix), NEW invoker
    PROVE  LET v == Executed(w, ix, invoker) IN
           /\ FundingWorld(v) /\ v.accounts = w.accounts
           /\ DOMAIN w.tokens \subseteq DOMAIN v.tokens
           /\ ix = OpenTreasury /\ w.ok /\ ~Holds(w, TreasuryTokens) =>
                v.ok /\ TreasuryTokens \in DOMAIN v.tokens
  <1> SUFFICES ASSUME NEW v, v = Executed(w, ix, invoker)
               PROVE  /\ FundingWorld(v) /\ v.accounts = w.accounts
                      /\ DOMAIN w.tokens \subseteq DOMAIN v.tokens
                      /\ ix = OpenTreasury /\ w.ok /\ ~Holds(w, TreasuryTokens) =>
                           v.ok /\ TreasuryTokens \in DOMAIN v.tokens
    OBVIOUS
  <1>0. PICK e : e = EffectOf(w, ix, invoker)
    OBVIOUS
  <1>1. /\ FundingWorld(e) /\ e.accounts = w.accounts /\ e.ok = w.ok
        /\ DOMAIN w.tokens \subseteq DOMAIN e.tokens
        /\ ix = OpenTreasury => TreasuryTokens \in DOMAIN e.tokens
    <2>1. CASE ix = OpenTreasury
      <3>1. e = Opened(w, TreasuryTokens)
        BY <1>0, <2>1, FundingSame DEF EffectOf, Funding!Effect, OpenTreasury
      <3>2. w.tokens = w.tokens /\ IsWorld(w) /\ NatTokens(w.tokens)
        BY DEF FundingWorld, FundingTokens
      <3>3. /\ TokensOnly(e, w) /\ NatTokens(e.tokens)
            /\ DOMAIN e.tokens = DOMAIN w.tokens \cup {TreasuryTokens}
        BY <3>1, <3>2, OpenedIs
      <3> QED
        BY <3>3 DEF TokensOnly, FundingWorld, FundingTokens
    <2>2. CASE ix # OpenTreasury
      <3>1. ix.op = "fundPool" /\ ix.accounts["vault"] = Funding!Vault
        BY <2>2 DEF FundingIx
      <3>2. e = Moved(w, Funding!Vault, -1)
        BY <1>0, <3>1, FundingSame DEF EffectOf, Funding!Effect
      <3>3. w.tokens = w.tokens /\ IsWorld(w) /\ NatTokens(w.tokens)
            /\ Funding!Vault \in DOMAIN w.tokens
        BY DEF FundingWorld, FundingTokens
      <3>4. w.tokens[Funding!Vault] \in Nat
        BY <3>3 DEF NatTokens
      <3>5. /\ TokensOnly(e, w) /\ NatTokens(e.tokens)
            /\ DOMAIN e.tokens = DOMAIN w.tokens
        <4>1. PICK n \in Int : n = -1
          OBVIOUS
        <4>2. n <= w.tokens[Funding!Vault]
          BY <3>4, <4>1
        <4> QED
          BY <3>2, <3>3, <4>1, <4>2, MovedIs
      <3> QED
        BY <2>2, <3>3, <3>5 DEF TokensOnly, FundingWorld, FundingTokens
    <2> QED
      BY <2>1, <2>2
  <1>2. IsWorld(w) /\ IsWorld(EffectOf(w, ix, invoker))
    BY <1>0, <1>1 DEF FundingWorld
  <1>3. /\ IsWorld(v)
        /\ w.ok /\ AllowedTo(w, ix, invoker) =>
             v.ok = e.ok /\ v.accounts = e.accounts /\ v.tokens = e.tokens
        /\ ~(w.ok /\ AllowedTo(w, ix, invoker)) =>
             v.ok = FALSE /\ v.accounts = w.accounts /\ v.tokens = w.tokens
    <2>1. LET u == Executed(w, ix, invoker)
              f == EffectOf(w, ix, invoker)
          IN  /\ IsWorld(u)
              /\ w.ok /\ AllowedTo(w, ix, invoker) =>
                   /\ u.ok = f.ok /\ u.accounts = f.accounts /\ u.tokens = f.tokens
                   /\ u.done = f.done \cup {ix.op}
              /\ ~(w.ok /\ AllowedTo(w, ix, invoker)) =>
                   /\ u.ok = FALSE /\ u.accounts = w.accounts /\ u.tokens = w.tokens
                   /\ u.done = w.done
      BY <1>2, ExecutedIs
    <2> QED
      BY <1>0, <2>1
  <1>4. ASSUME ix = OpenTreasury, ~Holds(w, TreasuryTokens) PROVE AllowedTo(w, ix, invoker)
    <2>1. ix.op = "createAta" /\ ix.account = TreasuryTokens
      BY <1>4 DEF OpenTreasury
    <2>2. Funding!Allowed(w, ix, invoker) <=> ~Funding!Holds(w, ix.account)
      BY <2>1 DEF Funding!Allowed
    <2> QED
      BY <1>4, <2>1, <2>2, FundingSame DEF AllowedTo
  <1>5. FundingWorld(v) /\ v.accounts = w.accounts /\ DOMAIN w.tokens \subseteq DOMAIN v.tokens
    BY <1>1, <1>3 DEF FundingWorld
  <1>6. ix = OpenTreasury /\ w.ok /\ ~Holds(w, TreasuryTokens) =>
                v.ok /\ TreasuryTokens \in DOMAIN v.tokens
    BY <1>1, <1>3, <1>4
  <1> QED
    BY <1>0, <1>5, <1>6

(* The transaction of a call that was not disturbed is accepted.           *)
LEMMA FundAllowed ==
    ASSUME program = "rewardPool", NEW w, w.accounts = accounts, FundingAccounts(accounts),
           FunderTokens \in DOMAIN w.tokens, NEW given \in BOOLEAN,
           given <=> Funding!OwnFee \in DOMAIN accounts,
           Funding!TreasuryNeeded(FeeOf(accounts)) => TreasuryTokens \in DOMAIN w.tokens
    PROVE  AllowedTo(w, FundTxn(given, accounts), Funding!Funder)
  <1> DEFINE addr == FundAddr(given, accounts)
  <1>1. /\ DOMAIN addr = DOMAIN FundIx(given)
        /\ \A name \in DOMAIN FundNamed : addr[name] = FundNamed[name]
        /\ addr["streamflowTreasuryTokens"] = TreasuryTokens
        /\ addr["config"] = Funding!ConfigPDA
        /\ given => addr["feeValue"] = Funding!OwnFee
    BY FundAddrIs
  <1>2. Accepts(FundIx(given), addr, <<>>, accounts, Funding!Funder)
    BY FundAccepted DEF FundingAccounts
  <1>3. "feeValue" \in DOMAIN addr <=> given
    <2>1. DOMAIN FundIx(given) = DOMAIN FundNamed \cup {"streamflowTreasuryTokens", "config"}
                             \cup (IF given THEN {"feeValue"} ELSE {})
      BY FundIxIs
    <2>2. "feeValue" \notin DOMAIN FundNamed
      BY DEF FundNamed
    <2> QED
      BY <1>1, <2>1, <2>2
  <1> HIDE DEF addr
  <1>4. addr["from"] = FunderTokens
    BY <1>1 DEF FundNamed, FunderTokens
  <1>5. Funding!Accepts(IF "feeValue" \in DOMAIN addr THEN Funding!FundPoolWithFeeIx
                        ELSE Funding!FundPoolIx, addr, <<>>, w.accounts, Funding!Funder)
    <2>1. Funding!Accepts(FundIx(given), addr, <<>>, accounts, Funding!Funder)
      BY <1>2, FundingAnchorSame
    <2> QED
      BY <1>3, <2>1 DEF FundIx
  <1>6. Funding!FundingFee(w, addr) > 0 => Funding!TreasuryNeeded(FeeOf(accounts))
    <2>1. CASE given
      <3>1. Funding!FundingFee(w, addr) = accounts[Funding!OwnFee].streamflowFee
        BY <1>1, <1>3, <2>1 DEF Funding!FundingFee
      <3>2. FeeOf(accounts) = << accounts[Funding!OwnFee].streamflowFee >>
        BY <2>1 DEF FeeOf
      <3> QED
        BY <3>1, <3>2 DEF Funding!TreasuryNeeded
    <2>2. CASE ~given
      BY <2>2 DEF FeeOf, Funding!TreasuryNeeded
    <2> QED
      BY <2>1, <2>2
  <1>7. "feeValue" \in DOMAIN addr => Exists(w, addr.feeValue)
    <2>1. given => addr.feeValue = Funding!OwnFee
      BY <1>1
    <2> QED
      BY <1>3, <2>1 DEF Exists
  <1>8. Holds(w, addr.from) /\ (Funding!FundingFee(w, addr) > 0 => Holds(w, addr.streamflowTreasuryTokens))
    BY <1>1, <1>4, <1>6 DEF Holds
  <1>9. PICK ix : ix = FundTxn(given, accounts)
    OBVIOUS
  <1>10. ix.op = "fundPool" /\ ix.accounts = addr
    BY <1>9 DEF FundTxn, addr
  <1>11. Funding!Allowed(w, ix, Funding!Funder)
    BY <1>5, <1>7, <1>8, <1>10, FundingSame DEF Funding!Allowed
  <1> QED
    BY <1>9, <1>11 DEF AllowedTo

LEMMA FundingRuns ==
    ASSUME program = "rewardPool", FundingTokens(tokens), NEW a, NEW t, NEW e,
           NEW given \in BOOLEAN, NEW invoker
    PROVE  LET v == RunOf(FundingIxs(a, t, e, given), invoker) IN
           FundingWorld(v) /\ v.accounts = accounts
  <1>1. PICK txn : txn = FundTxn(given, a)
    OBVIOUS
  <1>2. FundingIx(txn) /\ FundingIx(OpenTreasury)
    BY <1>1, FundTxnIs DEF FundingIx
  <1>3. FundingWorld(World) /\ World.accounts = accounts
    BY WorldIsWorld DEF FundingWorld
  <1>4. CASE Funding!TreasuryNeeded(e) /\ TreasuryTokens \notin DOMAIN t
    <2>1. PICK w : w = Executed(World, OpenTreasury, invoker)
      OBVIOUS
    <2>2. FundingWorld(w) /\ w.accounts = accounts
      BY <1>2, <1>3, <2>1, FundingIxDoes
    <2>3. LET v == Executed(w, txn, invoker) IN FundingWorld(v) /\ v.accounts = accounts
      BY <1>2, <2>2, FundingIxDoes
    <2>4. RunOf(<< OpenTreasury, txn >>, invoker) = Executed(w, txn, invoker)
      BY <2>1, RunTwo
    <2>5. FundingIxs(a, t, e, given) = << OpenTreasury, txn >>
      BY <1>1, <1>4 DEF FundingIxs
    <2> QED
      BY <2>3, <2>4, <2>5
  <1>5. CASE ~(Funding!TreasuryNeeded(e) /\ TreasuryTokens \notin DOMAIN t)
    <2>1. LET v == Executed(World, txn, invoker) IN FundingWorld(v) /\ v.accounts = accounts
      BY <1>2, <1>3, FundingIxDoes
    <2>2. RunOf(<< txn >>, invoker) = Executed(World, txn, invoker)
      BY RunOne
    <2>3. FundingIxs(a, t, e, given) = << txn >>
      BY <1>1, <1>5 DEF FundingIxs
    <2> QED
      BY <2>1, <2>2, <2>3
  <1> QED
    BY <1>4, <1>5

LEMMA FundingRunSucceeds ==
    ASSUME program = "rewardPool", FundingTokens(tokens), FundingAccounts(accounts),
           FunderTokens \in DOMAIN tokens, NEW given \in BOOLEAN,
           given <=> Funding!OwnFee \in DOMAIN accounts
    PROVE  RunOf(FundingIxs(accounts, tokens, FeeOf(accounts), given), Funding!Funder).ok
  <1>1. PICK txn : txn = FundTxn(given, accounts)
    OBVIOUS
  <1>2. FundingIx(txn) /\ FundingIx(OpenTreasury)
    BY <1>1, FundTxnIs DEF FundingIx
  <1>3. /\ FundingWorld(World) /\ World.accounts = accounts /\ World.tokens = tokens
        /\ World.ok = TRUE
    BY WorldIsWorld DEF FundingWorld
  <1>4. ASSUME NEW w, FundingWorld(w), w.ok = TRUE, AllowedTo(w, txn, Funding!Funder)
        PROVE  Executed(w, txn, Funding!Funder).ok = TRUE
    <2>1. PICK e : e = EffectOf(w, txn, Funding!Funder)
      OBVIOUS
    <2>2. txn.op = "fundPool" /\ txn.accounts["vault"] = Funding!Vault
      BY <1>1, <1>2, FundTxnIs DEF FundingIx, FundTxn
    <2>3. e = Moved(w, Funding!Vault, -1)
      BY <2>1, <2>2, FundingSame DEF EffectOf, Funding!Effect
    <2>4. e.ok = TRUE
      BY <1>4, <2>3 DEF Moved, FundingWorld, IsWorld
    <2>5. IsWorld(e)
      BY <1>4, <2>3 DEF Moved, FundingWorld, IsWorld
    <2>6. PICK v : v = [e EXCEPT !.done = @ \cup {txn.op}]
      OBVIOUS
    <2>7. v.ok = TRUE
      BY <2>4, <2>5, <2>6 DEF IsWorld
    <2>8. Executed(w, txn, Funding!Funder) = v
      BY <1>4, <2>1, <2>6 DEF Executed
    <2> QED
      BY <2>7, <2>8
  <1>5. CASE Funding!TreasuryNeeded(FeeOf(accounts)) /\ TreasuryTokens \notin DOMAIN tokens
    <2>1. PICK w : w = Executed(World, OpenTreasury, Funding!Funder)
      OBVIOUS
    <2>2. ~Holds(World, TreasuryTokens)
      BY <1>3, <1>5 DEF Holds
    <2>3. /\ FundingWorld(w) /\ w.accounts = accounts /\ DOMAIN tokens \subseteq DOMAIN w.tokens
          /\ w.ok /\ TreasuryTokens \in DOMAIN w.tokens
      BY <1>2, <1>3, <2>1, <2>2, FundingIxDoes
    <2>4. AllowedTo(w, txn, Funding!Funder)
      BY <1>1, <2>3, FundAllowed
    <2>5. w.ok = TRUE
      <3>1. AllowedTo(World, OpenTreasury, Funding!Funder)
        BY <2>2, FundingSame DEF AllowedTo, Funding!Allowed, OpenTreasury
      <3>2. EffectOf(World, OpenTreasury, Funding!Funder) = Opened(World, TreasuryTokens)
        BY FundingSame DEF EffectOf, Funding!Effect, OpenTreasury
      <3>3. PICK e : e = Opened(World, TreasuryTokens)
        OBVIOUS
      <3>4. e.ok = TRUE /\ IsWorld(e)
        BY <1>3, <3>3 DEF Opened, FundingWorld, IsWorld
      <3>5. PICK op : op = OpenTreasury.op
        OBVIOUS
      <3>6. w = [e EXCEPT !.done = @ \cup {op}]
        BY <1>3, <2>1, <3>1, <3>2, <3>3, <3>5 DEF Executed
      <3> QED
        BY <3>4, <3>6 DEF IsWorld
    <2>6. Executed(w, txn, Funding!Funder).ok = TRUE
      BY <1>4, <2>3, <2>4, <2>5
    <2>7. RunOf(<< OpenTreasury, txn >>, Funding!Funder) = Executed(w, txn, Funding!Funder)
      BY <2>1, RunTwo
    <2>8. FundingIxs(accounts, tokens, FeeOf(accounts), given) = << OpenTreasury, txn >>
      BY <1>1, <1>5 DEF FundingIxs
    <2> QED
      BY <2>6, <2>7, <2>8
  <1>6. CASE ~(Funding!TreasuryNeeded(FeeOf(accounts)) /\ TreasuryTokens \notin DOMAIN tokens)
    <2>1. AllowedTo(World, txn, Funding!Funder)
      BY <1>1, <1>3, <1>6, FundAllowed
    <2>2. Executed(World, txn, Funding!Funder).ok = TRUE
      BY <1>3, <1>4, <2>1
    <2>3. RunOf(<< txn >>, Funding!Funder) = Executed(World, txn, Funding!Funder)
      BY RunOne
    <2>4. FundingIxs(accounts, tokens, FeeOf(accounts), given) = << txn >>
      BY <1>1, <1>6 DEF FundingIxs
    <2> QED
      BY <2>2, <2>3, <2>4
  <1> QED
    BY <1>5, <1>6

LEMMA FeeAccountsAre == Funding!FeeAccounts.feeValue = Funding!OwnFee
  <1> DEFINE given == [authority |-> Funding!Manager, target |-> Funding!Funder]
  <1>1. PICK ix : ix = Funding!FeeIx
    OBVIOUS
  <1>2. DOMAIN ix = {"feeValue", "config", "authority", "target"}
        /\ ix["feeValue"] = Seeds("fee-value", <<"target">>) /\ ix["config"] = Seeds("config", <<>>)
    BY <1>1 DEF Funding!FeeIx, Funding!Seeds, Seeds
  <1>3. DOMAIN given = {"authority", "target"} /\ given["target"] = Funding!Funder
    OBVIOUS
  <1> HIDE DEF given
  <1>4. PICK middle : middle = {}
    OBVIOUS
  <1>5. \A name \in DOMAIN ix \ DOMAIN given :
          /\ ix[name].by \in Manners \ {"name"}
          /\ Needs(ix, given, <<>>, name) \subseteq DOMAIN ix
          /\ Needs(ix, given, <<>>, name) \subseteq
               DOMAIN given \cup (IF name \in middle THEN {} ELSE middle)
    <2>1. PICK e : e = <<>> /\ DOMAIN e = {}
      OBVIOUS
    <2>2. /\ Needs(ix, given, <<>>, "feeValue") = {"target"}
          /\ Needs(ix, given, <<>>, "config") = {}
      BY <1>2, <1>3, <2>1 DEF Needs, Seeds
    <2> QED
      BY <1>2, <1>3, <1>4, <2>2 DEF Manners, Seeds
  <1>6. PICK rank : Layered(rank, ix, given, <<>>)
    BY <1>5, TwoLayers
  <1>7. PICK addr : addr = Completed(ix, given, <<>>, accounts)
    OBVIOUS
  <1>8. addr["feeValue"] = Seeded(ix["feeValue"], addr, <<>>) /\ addr["target"] = Funding!Funder
    BY <1>2, <1>3, <1>6, <1>7, CompletedName DEF Seeds
  <1>9. addr["feeValue"] = <<"fee-value", Funding!Funder>>
    <2>1. Seed("target", addr, <<>>) = addr["target"]
      BY DEF Seed
    <2> QED
      BY <1>2, <1>8, <2>1, SeededByOne
  <1>10. Funding!FeeAccounts = addr
    BY <1>1, <1>7, FundingAnchorSame DEF Funding!FeeAccounts, given
  <1> QED
    BY <1>9, <1>10 DEF Funding!OwnFee, Funding!FeeValuePDA

-----------------------------------------------------------------------------
LEMMA FundingInit ==
    ASSUME Init, program = "rewardPool"
    PROVE  FundingInv
  <1>1. Funding!Init
    BY DEF Init
  <1>2. now = 1 /\ call = Idle /\ disturbed = FALSE
    BY <1>1 DEF Funding!Init, Idle, Funding!Idle
  <1>3. PICK fee \in FeeValues :
          accounts = [a \in {Funding!Pool, Funding!ConfigPDA} |->
                       IF a = Funding!Pool
                       THEN [mint |-> Funding!RewardMint, vault |-> Funding!Vault]
                       ELSE [authority |-> Funding!Manager, streamflowFee |-> fee]]
    BY <1>1 DEF Funding!Init
  <1>4. FundingAccounts(accounts)
    <2>1. accounts[Funding!Pool] = [mint |-> Funding!RewardMint, vault |-> Funding!Vault]
      BY <1>3
    <2>2. accounts[Funding!ConfigPDA] = [authority |-> Funding!Manager, streamflowFee |-> fee]
      BY <1>3, FundingAddresses
    <2>3. DOMAIN accounts = {Funding!Pool, Funding!ConfigPDA}
      BY <1>3
    <2>4. Funding!OwnFee \notin DOMAIN accounts
      BY <2>3, FundingAddresses
    <2>5. fee \in Nat
      BY ProgramAssumption
    <2> QED
      BY <2>1, <2>2, <2>3, <2>4, <2>5 DEF FundingAccounts
  <1>5. FundingTokens(tokens)
    <2>1. tokens = [a \in {Funding!Vault, FunderTokens} |-> 0]
      BY <1>1 DEF Funding!Init, FunderTokens
    <2> QED
      BY <2>1 DEF FundingTokens, NatTokens
  <1>6. now \in 1..MaxTime
    BY <1>2, ProgramAssumption
  <1> QED
    BY <1>2, <1>4, <1>5, <1>6 DEF FundingInv, FundingCall

LEMMA FundingNext ==
    ASSUME FundingInv, program = "rewardPool", [Next]_vars
    PROVE  FundingInv'
  <1> USE DEF FundingInv
  <1>1. Idle = Funding!Idle /\ Idle.stage = "idle"
    BY DEF Idle, Funding!Idle
  <1>2. ASSUME NEW given \in BOOLEAN, Funding!ReadFee(given)
        PROVE  FundingInv'
    <2>1. PICK c : c = [stage |-> "reading", given |-> given,
              existing |-> IF Funding!OwnFee \in DOMAIN accounts
                           THEN << accounts[Funding!OwnFee].streamflowFee >> ELSE <<>>]
      OBVIOUS
    <2>2. call' = c /\ disturbed' = FALSE /\ UNCHANGED <<now, accounts, tokens>>
      BY <1>2, <2>1 DEF Funding!ReadFee, Funding!Begin
    <2>3. c.stage = "reading" /\ c.given \in BOOLEAN /\ c.existing = FeeOf(accounts)
      BY <2>1 DEF FeeOf
    <2>4. FundingCall(call', accounts', tokens', disturbed')
      BY <2>2, <2>3 DEF FundingCall
    <2> QED
      BY <2>2, <2>4
  <1>3. ASSUME Funding!BuildFunding
        PROVE  FundingInv'
    <2>1. call.stage = "reading" /\ call.given \in BOOLEAN
          /\ (~disturbed => call.existing = FeeOf(accounts))
      BY <1>1, <1>3 DEF Funding!BuildFunding, FundingCall
    <2>2. PICK given, existing : given = call.given /\ existing = call.existing
      OBVIOUS
    <2>3. PICK c : c = Funding!Merged(Funding!Built("fundPool", Funding!Funder,
                                         Funding!FundPoolIxs(existing, given)),
                                      [given |-> given])
      OBVIOUS
    <2>4. call' = c /\ UNCHANGED <<now, accounts, tokens, disturbed>>
      BY <1>3, <2>2, <2>3 DEF Funding!BuildFunding, Funding!Continue
    <2>5. c.stage = "built" /\ c.given = given /\ c.invoker = Funding!Funder
          /\ c.ixs = Funding!FundPoolIxs(existing, given)
      BY <2>3 DEF Funding!Merged, Funding!Built
    <2>6. Funding!FundPoolIxs(existing, given) = FundingIxs(accounts, tokens, existing, given)
      BY <2>1, <2>2, FundPoolIxsAre
    <2>7. c.ixs = FundingIxs(accounts, tokens, existing, c.given) /\ c.given \in BOOLEAN
          /\ (~disturbed => existing = FeeOf(accounts))
      BY <2>1, <2>2, <2>5, <2>6
    <2>8. FundingCall(c, accounts, tokens, disturbed)
      BY <2>5, <2>7 DEF FundingCall
    <2>9. FundingCall(call', accounts', tokens', disturbed')
      BY <2>4, <2>8
    <2> QED
      BY <2>4, <2>9
  <1>4. ASSUME Funding!Land
        PROVE  FundingInv'
    <2>1. call.stage = "built" /\ call.given \in BOOLEAN /\ call.invoker = Funding!Funder
          /\ \E a, t, e : call.ixs = FundingIxs(a, t, e, call.given)
      BY <1>1, <1>4 DEF Funding!Land, FundingCall
    <2>2. PICK given, a, t, e : given = call.given /\ call.ixs = FundingIxs(a, t, e, given)
      BY <2>1
    <2>3. PICK w : w = RunOf(FundingIxs(a, t, e, given), Funding!Funder)
      OBVIOUS
    <2>4. FundingWorld(w) /\ w.accounts = accounts
      BY <2>1, <2>2, <2>3, FundingRuns
    <2>5. Funding!Outcome = w
      BY <2>1, <2>2, <2>3 DEF Funding!Outcome, RunOf
    <2>6. call' = Idle /\ disturbed' = disturbed /\ now' = now /\ accounts' = accounts
          /\ tokens' \in {tokens, w.tokens}
      BY <1>1, <1>4, <2>4, <2>5 DEF Funding!Land, Funding!LandWith, Funding!TakesEffect
    <2>7. FundingTokens(tokens')
      BY <2>4, <2>6 DEF FundingWorld
    <2> QED
      BY <2>6, <2>7 DEF FundingCall
  <1>5. ASSUME NEW accs, NEW toks, FundingAccounts(accs), FundingTokens(toks),
               accounts' = accs, tokens' = toks, Funding!Disturb, now' = now
        PROVE  FundingInv'
    <2>1. call' = call /\ disturbed' = (call # Idle)
      BY <1>1, <1>5 DEF Funding!Disturb
    <2>2. FundingCall(call', accounts', tokens', disturbed')
      BY <2>1 DEF FundingCall
    <2>3. disturbed' \in BOOLEAN
      BY <2>1
    <2> QED
      BY <1>5, <2>2, <2>3
  <1>6. ASSUME NEW fee \in FeeValues, Funding!WriteFee(fee)
        PROVE  FundingInv'
    <2>1. PICK accs, c : c = [streamflowFee |-> fee] /\ accs = Stored(accounts, Funding!OwnFee, c)
      OBVIOUS
    <2>2. accounts' = accs /\ Funding!Disturb /\ UNCHANGED <<now, tokens>>
      BY <1>6, <2>1, FeeAccountsAre, FundingSame DEF Funding!WriteFee
    <2>3. /\ DOMAIN accs = DOMAIN accounts \cup {Funding!OwnFee}
          /\ accs[Funding!OwnFee].streamflowFee = fee
          /\ \A a \in DOMAIN accounts \ {Funding!OwnFee} : accs[a] = accounts[a]
      BY <2>1 DEF Stored
    <2>4. fee \in Nat
      BY ProgramAssumption
    <2>5. FundingAccounts(accs)
      BY <2>3, <2>4, FundingAddresses DEF FundingAccounts
    <2>6. PICK toks : toks = tokens
      OBVIOUS
    <2> QED
      BY <1>5, <2>2, <2>5, <2>6
  <1>7. ASSUME NEW fee \in FeeValues, Funding!UpdateConfig(fee)
        PROVE  FundingInv'
    <2>1. PICK accs : accs = [accounts EXCEPT ![Funding!ConfigPDA].streamflowFee = fee]
      OBVIOUS
    <2>2. accounts' = accs /\ Funding!Disturb /\ UNCHANGED <<now, tokens>>
      BY <1>7, <2>1 DEF Funding!UpdateConfig
    <2>3. /\ DOMAIN accs = DOMAIN accounts
          /\ accs[Funding!ConfigPDA].streamflowFee = fee
          /\ "streamflowFee" \in DOMAIN accs[Funding!ConfigPDA]
          /\ \A a \in DOMAIN accounts \ {Funding!ConfigPDA} : accs[a] = accounts[a]
      BY <2>1 DEF FundingAccounts
    <2>4. fee \in Nat
      BY ProgramAssumption
    <2>5. FundingAccounts(accs)
      BY <2>3, <2>4, FundingAddresses DEF FundingAccounts
    <2>6. PICK toks : toks = tokens
      OBVIOUS
    <2> QED
      BY <1>5, <2>2, <2>5, <2>6
  <1>8. ASSUME Funding!RemoveFee
        PROVE  FundingInv'
    <2>1. PICK accs : accs = [a \in DOMAIN accounts \ {Funding!OwnFee} |-> accounts[a]]
      OBVIOUS
    <2>2. accounts' = accs /\ Funding!Disturb /\ UNCHANGED <<now, tokens>>
      BY <1>8, <2>1, FeeAccountsAre DEF Funding!RemoveFee
    <2>3. FundingAccounts(accs)
      BY <2>1, FundingAddresses DEF FundingAccounts
    <2>4. PICK toks : toks = tokens
      OBVIOUS
    <2> QED
      BY <1>5, <2>2, <2>3, <2>4
  <1>9. ASSUME NEW owner \in {Funding!Funder, Funding!Treasury},
               \/ Funding!OpenAccount(Funding!TokenAccount(Funding!RewardMint, owner))
               \/ Funding!CloseAccount(Funding!TokenAccount(Funding!RewardMint, owner))
        PROVE  FundingInv'
    <2>1. PICK a : a = Funding!TokenAccount(Funding!RewardMint, owner)
      OBVIOUS
    <2>2. a # Funding!Vault
      BY <1>9, <2>1, FundingAddresses DEF TreasuryTokens, FunderTokens
    <2>3. PICK open, closed : /\ open = Stored(tokens, a, 0)
                              /\ closed = [b \in DOMAIN tokens \ {a} |-> tokens[b]]
      OBVIOUS
    <2>4. PICK toks \in {open, closed} : tokens' = toks
      BY <1>9, <2>1, <2>3, FundingSame DEF Funding!OpenAccount, Funding!CloseAccount
    <2>5. Funding!Disturb /\ UNCHANGED <<now, accounts>>
      BY <1>9, <2>1 DEF Funding!OpenAccount, Funding!CloseAccount
    <2>6. FundingTokens(open)
      BY <2>3 DEF FundingTokens, NatTokens, Stored
    <2>7. FundingTokens(closed)
      BY <2>2, <2>3 DEF FundingTokens, NatTokens
    <2>8. PICK accs : accs = accounts
      OBVIOUS
    <2> QED
      BY <1>5, <2>4, <2>5, <2>6, <2>7, <2>8
  <1>10. CASE UNCHANGED vars
    BY <1>10 DEF vars, callVars
  <1>11. CASE FundingStep
    <2>1. Funding!Next
      BY <1>11 DEF FundingStep
    <2> QED
      BY <1>2, <1>3, <1>4, <1>6, <1>7, <1>8, <1>9, <2>1 DEF Funding!Next
  <1> QED
    BY <1>10, <1>11 DEF Next, DistributorStep, LaunchpadStep

LEMMA FundingHolds ==
    ASSUME FundingInv, program = "rewardPool"
    PROVE  Funding!FundingSucceeds
  <1> SUFFICES ASSUME call.stage = "built", ~disturbed,
                      call.given <=> Funding!OwnFee \in DOMAIN accounts,
                      FunderTokens \in DOMAIN tokens
               PROVE  Funding!Outcome.ok
    BY DEF Funding!FundingSucceeds, FunderTokens
  <1>1. call.stage = "built" /\ call.given \in BOOLEAN /\ call.invoker = Funding!Funder
        /\ call.ixs = FundingIxs(accounts, tokens, FeeOf(accounts), call.given)
    BY DEF FundingInv, FundingCall, Idle
  <1>2. PICK given : given = call.given
    OBVIOUS
  <1>3. Funding!Outcome = RunOf(FundingIxs(accounts, tokens, FeeOf(accounts), given), Funding!Funder)
    BY <1>1, <1>2 DEF Funding!Outcome, RunOf
  <1>4. RunOf(FundingIxs(accounts, tokens, FeeOf(accounts), given), Funding!Funder).ok
    BY <1>1, <1>2, FundingRunSucceeds DEF FundingInv
  <1> QED
    BY <1>3, <1>4

(* The transaction of every funder is accepted unless something changed.   *)
THEOREM FundingIsAccepted == Spec => []FundingSucceeds
  <1> DEFINE I == program = "rewardPool" => FundingInv
  <1>1. Init => I
    BY FundingInit
  <1>2. I /\ [Next]_vars => I'
    <2> SUFFICES ASSUME I, [Next]_vars, program' = "rewardPool" PROVE FundingInv'
      OBVIOUS
    <2>1. program = "rewardPool"
      BY DEF Next, DistributorStep, LaunchpadStep, FundingStep, vars
    <2> QED
      BY <2>1, FundingNext
  <1>3. I => FundingSucceeds
    BY FundingHolds DEF FundingSucceeds
  <1> QED
    BY <1>1, <1>2, <1>3, PTL DEF Spec

-----------------------------------------------------------------------------
(* What arrives of an amount raised by the transfer fee.                   *)

(* divCeilN is the only whole number whose product lies less than one      *)
(* divisor above the dividend.                                             *)
LEMMA DivCeilBounds ==
    ASSUME NEW n \in Nat, NEW d \in Nat \ {0}
    PROVE  /\ Airdrop!DivCeil(n, d) \in Nat
           /\ n <= Airdrop!DivCeil(n, d) * d
           /\ Airdrop!DivCeil(n, d) * d < n + d
  <1> DEFINE q == n \div d
             r == n % d
  <1>1. /\ q \in Nat /\ r \in Nat
        /\ n = d * q + r /\ r < d
    OBVIOUS
  <1>2. CASE r = 0
    BY <1>1, <1>2 DEF Airdrop!DivCeil
  <1>3. CASE r # 0
    <2>1. Airdrop!DivCeil(n, d) = q + 1
      BY <1>3 DEF Airdrop!DivCeil
    <2> HIDE DEF q, r
    <2>2. (q + 1) * d = d * q + d
      BY <1>1
    <2> QED
      BY <1>1, <1>3, <2>1, <2>2
  <1> QED
    BY <1>2, <1>3

LEMMA SmallMultiple ==
    ASSUME NEW k \in Int, NEW d \in Nat \ {0}, k * d < d
    PROVE  k <= 0
  OBVIOUS

LEMMA DivCeilUnique ==
    ASSUME NEW n \in Nat, NEW d \in Nat \ {0}, NEW k \in Int,
           n <= k * d, k * d < n + d
    PROVE  Airdrop!DivCeil(n, d) = k
  <1> DEFINE q == Airdrop!DivCeil(n, d)
  <1>1. q \in Nat /\ n <= q * d /\ q * d < n + d
    BY DivCeilBounds
  <1> HIDE DEF q
  <1>2. (q - k) * d = q * d - k * d /\ (k - q) * d = k * d - q * d
    BY <1>1
  <1>3. (q - k) * d < d /\ (k - q) * d < d
    BY <1>1, <1>2
  <1>4. q - k <= 0 /\ k - q <= 0
    BY <1>1, <1>3, SmallMultiple
  <1>5. q = k
    BY <1>1, <1>4
  <1> QED
    BY <1>5 DEF q

(* calculateAmountWithTransferFees: whatever the rounding and the maximum, *)
(* the fee the client announces is the one the token program keeps of what *)
(* is transferred, so that the program accepts the transfer; and at least  *)
(* the amount asked for arrives.                                           *)
THEOREM TransferArrives ==
    ASSUME NEW amount \in Nat, NEW fee, fee.max \in Nat, fee.rate \in 0..OneInBasisPoints - 1,
           NEW sent, sent = Airdrop!TransferAmount(amount, fee)
    PROVE  /\ sent \in Nat /\ Airdrop!FeeKept(sent, fee) \in Int
           /\ Airdrop!FeeCharged(amount, fee) = Airdrop!FeeKept(sent, fee)
           /\ sent - Airdrop!FeeKept(sent, fee) >= amount
  <1> DEFINE B == OneInBasisPoints
             r == fee.rate
             t == Airdrop!TransferAmount(amount, fee)
  <1>1. B \in Nat \ {0} /\ r \in 0..B - 1 /\ fee.max \in Nat
    BY ProgramAssumption
  <1>2. amount * B \in Nat /\ B - r \in Nat \ {0}
    BY <1>1
  <1>3. t \in Nat /\ amount * B <= t * (B - r) /\ t * (B - r) < amount * B + (B - r)
    BY <1>2, DivCeilBounds DEF Airdrop!TransferAmount
  <1> HIDE DEF B, r, t
  <1>4. t * (B - r) = t * B - t * r /\ (t - amount) * B = t * B - amount * B
    BY <1>1, <1>3
  <1>5. /\ t * r \in Nat
        /\ t * r <= (t - amount) * B
        /\ (t - amount) * B < t * r + B
    <2>1. t * r \in Nat /\ t * B \in Nat /\ amount * B \in Nat
      BY <1>1, <1>3
    <2>2. (t - amount) * B < t * r + (B - r)
      BY <1>1, <1>3, <1>4, <2>1
    <2> QED
      BY <1>1, <1>3, <1>4, <2>1, <2>2
  <1>6. t - amount \in Int
    BY <1>3
  <1>7. Airdrop!DivCeil(t * r, B) = t - amount
    BY <1>1, <1>5, <1>6, DivCeilUnique
  <1>8. Airdrop!FeeKept(t, fee) = Airdrop!SmallerOf(t - amount, fee.max)
    BY <1>7 DEF Airdrop!FeeKept, B, r
  <1>9. /\ Airdrop!SmallerOf(t - amount, fee.max) \in Int
        /\ Airdrop!SmallerOf(t - amount, fee.max) <= t - amount
    BY <1>1, <1>6 DEF Airdrop!SmallerOf
  <1>10. Airdrop!FeeCharged(amount, fee) = Airdrop!FeeKept(t, fee)
    BY <1>8 DEF Airdrop!FeeCharged, t
  <1>11. sent = t
    BY DEF t
  <1> QED
    BY <1>3, <1>6, <1>8, <1>9, <1>10, <1>11

-----------------------------------------------------------------------------
(* The instructions of the launchpad client: their accounts.               *)
LEMMA PadsSame ==
    /\ \A w, a : Pads!Opened(w, a) = Opened(w, a)
    /\ \A w, a, n : Pads!Moved(w, a, n) = Moved(w, a, n)
    /\ \A w, a : (Pads!Exists(w, a) <=> Exists(w, a)) /\ (Pads!Holds(w, a) <=> Holds(w, a))
    /\ \A f, a, c : Pads!Stored(f, a, c) = Stored(f, a, c)
    /\ \A f, g : Pads!Merged(f, g) = Merged(f, g)
    /\ \A m, a : Pads!TokenAccount(m, a) = TokenAccount(m, a)
    /\ Pads!World = World
  BY DEF Opened, Pads!Opened, Moved, Pads!Moved, Exists, Pads!Exists, Holds, Pads!Holds, Stored,
         Pads!Stored, Merged, Pads!Merged, TokenAccount, Pads!TokenAccount, World, Pads!World

LEMMA PadsAnchorSame ==
    ASSUME NEW ix, NEW given, NEW args, NEW accs, NEW addr, NEW invoker
    PROVE  /\ Pads!Completed(ix, given, args, accs) = Completed(ix, given, args, accs)
           /\ Pads!Accepts(ix, addr, args, accs, invoker)
                <=> Accepts(ix, addr, args, accs, invoker)
  BY DEF Completed, Pads!Completed, Resolved, Pads!Resolved, Accepts, Pads!Accepts,
         Seeded, Pads!Seeded, Missing, Pads!Missing, TokenAccount, Pads!TokenAccount

PadVault == Pads!VaultPDA(Pads!Pad)
PadFunds == TokenAccount(Pads!Base, Pads!Pad)
StreamOf(o) == <<"stream", o>>
DepositFor(o) == Pads!DepositPDA(Pads!Pad, o)

LEMMA PadAddresses ==
    /\ \A o : DepositFor(o) # Pads!Pad /\ StreamOf(o) # Pads!Pad
    /\ \A o, p : DepositFor(o) # StreamOf(p)
    /\ \A o, p : DepositFor(o) = DepositFor(p) => o = p
    /\ \A o, p : StreamOf(o) = StreamOf(p) => o = p
    /\ \A m, o : TokenAccount(m, o) # PadVault
    /\ \A o : StreamOf(o)[1] = "stream" /\ DepositFor(o)[1] # "stream"
    /\ Pads!Pad[1] # "stream"
    /\ \A o : Missing \notin {DepositFor(o), StreamOf(o)}
    /\ \A m, o : TokenAccount(m, o) # Missing
    /\ Missing \notin {Pads!Pad, PadVault, Pads!Base, Pads!Quote, Pads!Authority}
  BY DEF DepositFor, StreamOf, Pads!Pad, PadVault, Pads!VaultPDA, Pads!DepositPDA,
         Pads!LaunchpadPDA, TokenAccount, Missing, Pads!Base, Pads!Quote, Pads!Authority

CreateNamed(offer) ==
    [authority |-> Pads!Authority, baseMint |-> Pads!Base, quoteMint |-> Pads!Quote,
     receiver |-> Pads!OrElse(offer.receiver, Pads!TokenAccount(Pads!Quote, Pads!Authority)),
     priceOracle |-> Pads!OrElse(offer.priceOracle, Pads!TestOraclePDA(Pads!Base, Pads!Authority))]

CreateArgs(offer) == Pads!Merged(offer, [nonce |-> Pads!Nonce])

LEMMA CreateArgsAre ==
    ASSUME NEW offer \in Offers
    PROVE  /\ DOMAIN CreateArgs(offer) = OfferFields \cup {"nonce"}
           /\ CreateArgs(offer).nonce = Pads!Nonce
           /\ \A f \in OfferFields : CreateArgs(offer)[f] = offer[f]
  <1>1. DOMAIN offer = OfferFields
    BY ProgramAssumption
  <1>2. "nonce" \notin OfferFields
    BY DEF OfferFields
  <1> QED
    BY <1>1, <1>2 DEF CreateArgs, Pads!Merged

LEMMA CreateAddr ==
    ASSUME NEW offer \in Offers, NEW accs
    PROVE  LET addr == Completed(Pads!CreateLaunchpadIx, CreateNamed(offer), CreateArgs(offer), accs)
           IN  /\ \A name \in DOMAIN CreateNamed(offer) : addr[name] = CreateNamed(offer)[name]
               /\ addr["launchpad"] = Pads!Pad /\ addr["vault"] = PadVault
               /\ Accepts(Pads!CreateLaunchpadIx, addr, CreateArgs(offer), accs, Pads!Authority)
  <1>1. PICK ix, given, args, addr :
          /\ ix = Pads!CreateLaunchpadIx /\ given = CreateNamed(offer) /\ args = CreateArgs(offer)
          /\ addr = Completed(ix, given, args, accs)
    OBVIOUS
  <1>2. /\ DOMAIN ix = {"launchpad", "vault", "baseMint", "quoteMint", "priceOracle", "authority",
                        "receiver"}
        /\ ix["launchpad"] = Seeds("launchpad", <<"baseMint", "nonce">>)
        /\ ix["vault"] = Seeds("vault", <<"launchpad">>)
        /\ \A name \in DOMAIN ix \ {"launchpad", "vault"} :
             ix[name].by = "name" /\ ("signs" \in DOMAIN ix[name] => name = "authority")
    BY <1>1 DEF Pads!CreateLaunchpadIx, Pads!Seeds, Seeds, Pads!Named, Pads!Signer
  <1>3. DOMAIN given = {"authority", "baseMint", "quoteMint", "receiver", "priceOracle"}
    BY <1>1 DEF CreateNamed
  <1>4. DOMAIN args = OfferFields \cup {"nonce"} /\ args.nonce = Pads!Nonce
    BY <1>1, CreateArgsAre
  <1>5. "baseMint" \notin DOMAIN args /\ "launchpad" \notin DOMAIN args /\ "nonce" \in DOMAIN args
    BY <1>4 DEF OfferFields
  <1>6. Needs(ix, given, args, "launchpad") = {"baseMint"}
    BY <1>2, <1>3, <1>5 DEF Needs, Seeds
  <1>7. Needs(ix, given, args, "vault") = {"launchpad"}
    BY <1>2, <1>3, <1>5 DEF Needs, Seeds
  <1>8. PICK middle : middle = {"launchpad"}
    OBVIOUS
  <1>9. \A name \in DOMAIN ix \ DOMAIN given :
          /\ ix[name].by \in Manners \ {"name"}
          /\ Needs(ix, given, args, name) \subseteq DOMAIN ix
          /\ Needs(ix, given, args, name) \subseteq
               DOMAIN given \cup (IF name \in middle THEN {} ELSE middle)
    BY <1>2, <1>3, <1>6, <1>7, <1>8 DEF Manners, Seeds
  <1>10. PICK rank : Layered(rank, ix, given, args)
    BY <1>9, TwoLayers
  <1>11. \A name \in DOMAIN given : addr[name] = given[name]
    BY <1>1, <1>2, <1>3, <1>10, CompletedName
  <1>12. /\ addr["launchpad"] = Seeded(ix["launchpad"], addr, args)
         /\ addr["vault"] = Seeded(ix["vault"], addr, args)
    BY <1>1, <1>2, <1>3, <1>10, CompletedName DEF Seeds
  <1>13. addr["launchpad"] = Pads!Pad
    <2>1. Seed("baseMint", addr, args) = Pads!Base /\ Seed("nonce", addr, args) = Pads!Nonce
      BY <1>1, <1>3, <1>4, <1>5, <1>11 DEF Seed, CreateNamed
    <2> QED
      BY <1>2, <1>12, <2>1, SeededByTwo DEF Pads!Pad, Pads!LaunchpadPDA
  <1>14. addr["vault"] = PadVault
    <2>1. Seed("launchpad", addr, args) = Pads!Pad
      BY <1>5, <1>13 DEF Seed
    <2> QED
      BY <1>2, <1>12, <2>1, SeededByOne DEF PadVault, Pads!VaultPDA
  <1>15. Missing \notin {given[name] : name \in DOMAIN given}
    <2>1. Missing \notin {offer.receiver, offer.priceOracle}
      BY ProgramAssumption
    <2>2. Missing \notin {Pads!TokenAccount(Pads!Quote, Pads!Authority),
                          Pads!TestOraclePDA(Pads!Base, Pads!Authority)}
      BY DEF Missing, Pads!TokenAccount, Pads!TestOraclePDA
    <2>3. Missing \notin {given["receiver"], given["priceOracle"]}
      BY <1>1, <2>1, <2>2 DEF CreateNamed, Pads!OrElse
    <2>4. Missing \notin {given["authority"], given["baseMint"], given["quoteMint"]}
      BY <1>1, PadAddresses DEF CreateNamed
    <2> QED
      BY <1>3, <2>3, <2>4
  <1>16. \A name \in DOMAIN ix : addr[name] # Missing
    BY <1>2, <1>3, <1>11, <1>13, <1>14, <1>15, PadAddresses
  <1>17. \A name \in DOMAIN ix : "signs" \in DOMAIN ix[name] => addr[name] = Pads!Authority
    <2>1. addr["authority"] = Pads!Authority
      BY <1>1, <1>3, <1>11 DEF CreateNamed
    <2>2. "signs" \notin DOMAIN ix["launchpad"] /\ "signs" \notin DOMAIN ix["vault"]
      BY <1>2 DEF Seeds
    <2> QED
      BY <1>2, <2>1, <2>2
  <1>18. \A name \in DOMAIN ix \cap DOMAIN given : Agrees(ix, addr, args, accs, name)
    BY <1>2, <1>3 DEF Agrees
  <1>19. \A name \in DOMAIN ix : ix[name].by = "relations" =>
            \E r : ix[name].of = {r} /\ addr[r] \in DOMAIN accs
    BY <1>2 DEF Seeds
  <1>20. Accepts(ix, addr, args, accs, Pads!Authority)
    BY <1>1, <1>10, <1>16, <1>17, <1>18, <1>19, CompletedIsAccepted
  <1> QED
    BY <1>1, <1>11, <1>13, <1>14, <1>20

(* A launchpad that was created.                                           *)
IsPad(l) ==
    /\ l.baseMint = Pads!Base /\ l.quoteMint = Pads!Quote /\ l.vault = PadVault
    /\ l.authority = Pads!Authority
    /\ l.receiver # Missing /\ l.priceOracle # Missing
    /\ l.price \in Nat \ {0}
    /\ {l.maxCap, l.individualCap, l.depositingStart, l.depositingEnd, l.vestingStart, l.total}
         \subseteq Nat
    /\ {"total", "claimed", "baseMint"} \subseteq DOMAIN l

DepositNamed(payer, owner) ==
    [payer |-> payer, owner |-> owner, launchpad |-> Pads!Pad,
     from |-> Pads!TokenAccount(Pads!Quote, payer)]

LEMMA DepositAddr ==
    ASSUME NEW payer, payer # Missing, NEW owner, owner # Missing, NEW accs,
           Pads!Pad \in DOMAIN accs, IsPad(accs[Pads!Pad])
    PROVE  LET addr == Completed(Pads!DepositIx, DepositNamed(payer, owner), <<>>, accs)
           IN  /\ \A name \in DOMAIN DepositNamed(payer, owner) :
                    addr[name] = DepositNamed(payer, owner)[name]
               /\ addr["depositAccount"] = DepositFor(owner) /\ addr["vault"] = PadVault
               /\ Accepts(Pads!DepositIx, addr, <<>>, accs, payer)
  <1>1. PICK ix, given, args, addr :
          /\ ix = Pads!DepositIx /\ given = DepositNamed(payer, owner) /\ args = <<>>
          /\ addr = Completed(ix, given, args, accs)
    OBVIOUS
  <1>2. /\ DOMAIN ix = {"launchpad", "depositAccount", "from", "vault", "payer", "owner",
                        "baseMint", "quoteMint"}
        /\ ix["depositAccount"] = Seeds("deposit", <<"launchpad", "owner">>)
        /\ \A name \in {"vault", "baseMint", "quoteMint"} : ix[name] = FieldOf({"launchpad"})
        /\ \A name \in {"launchpad", "from", "payer", "owner"} :
             ix[name].by = "name" /\ ("signs" \in DOMAIN ix[name] => name = "payer")
    BY <1>1 DEF Pads!DepositIx, Pads!Seeds, Seeds, Pads!Named, Pads!Signer, Pads!FieldOf, FieldOf
  <1>3. DOMAIN given = {"payer", "owner", "launchpad", "from"}
    BY <1>1 DEF DepositNamed
  <1>4. DOMAIN args = {}
    BY <1>1
  <1>5. \A name \in {"vault", "baseMint", "quoteMint"} :
          /\ ix[name].by = "relations" /\ ix[name].of = {"launchpad"}
          /\ "signs" \notin DOMAIN ix[name]
    BY <1>2 DEF FieldOf
  <1>6. Needs(ix, given, args, "depositAccount") = {"launchpad", "owner"}
    BY <1>2, <1>3, <1>4 DEF Needs, Seeds
  <1>7. \A name \in {"vault", "baseMint", "quoteMint"} : Needs(ix, given, args, name) = {"launchpad"}
    BY <1>3, <1>5 DEF Needs
  <1>8. PICK middle : middle = {}
    OBVIOUS
  <1>9. \A name \in DOMAIN ix \ DOMAIN given :
          /\ ix[name].by \in Manners \ {"name"}
          /\ Needs(ix, given, args, name) \subseteq DOMAIN ix
          /\ Needs(ix, given, args, name) \subseteq
               DOMAIN given \cup (IF name \in middle THEN {} ELSE middle)
    BY <1>2, <1>3, <1>5, <1>6, <1>7, <1>8 DEF Manners, Seeds
  <1>10. PICK rank : Layered(rank, ix, given, args)
    BY <1>9, TwoLayers
  <1>11. \A name \in DOMAIN given : addr[name] = given[name]
    BY <1>1, <1>2, <1>3, <1>10, CompletedName
  <1>12. addr["depositAccount"] = Seeded(ix["depositAccount"], addr, args)
    BY <1>1, <1>2, <1>3, <1>10, CompletedName DEF Seeds
  <1>13. /\ addr["launchpad"] = Pads!Pad /\ addr["owner"] = owner /\ addr["payer"] = payer
         /\ addr["from"] = Pads!TokenAccount(Pads!Quote, payer)
    BY <1>1, <1>3, <1>11 DEF DepositNamed
  <1>14. addr["depositAccount"] = DepositFor(owner)
    <2>1. Seed("launchpad", addr, args) = Pads!Pad /\ Seed("owner", addr, args) = owner
      BY <1>4, <1>13 DEF Seed
    <2> QED
      BY <1>2, <1>12, <2>1, SeededByTwo DEF DepositFor, Pads!DepositPDA
  <1>15. \A name \in {"vault", "baseMint", "quoteMint"} : addr[name] = accs[Pads!Pad][name]
    BY <1>1, <1>2, <1>3, <1>5, <1>10, <1>13, CompletedName
  <1>16. \A name \in DOMAIN ix : addr[name] # Missing
    <2>1. addr["from"] # Missing
      BY <1>13 DEF Pads!TokenAccount, Missing
    <2>2. accs[Pads!Pad].vault # Missing /\ accs[Pads!Pad].baseMint # Missing
          /\ accs[Pads!Pad].quoteMint # Missing
      BY PadAddresses DEF IsPad
    <2> QED
      BY <1>2, <1>13, <1>14, <1>15, <2>1, <2>2, PadAddresses
  <1>17. \A name \in DOMAIN ix : "signs" \in DOMAIN ix[name] => addr[name] = payer
    <2>1. "signs" \notin DOMAIN ix["depositAccount"]
      BY <1>2 DEF Seeds
    <2> QED
      BY <1>2, <1>5, <1>13, <2>1
  <1>18. \A name \in DOMAIN ix \cap DOMAIN given : Agrees(ix, addr, args, accs, name)
    BY <1>2, <1>3 DEF Agrees
  <1>19. \A name \in DOMAIN ix : ix[name].by = "relations" =>
            \E r : ix[name].of = {r} /\ addr[r] \in DOMAIN accs
    <2>1. ix["depositAccount"].by # "relations"
      BY <1>2 DEF Seeds
    <2> QED
      BY <1>2, <1>5, <1>13, <2>1
  <1>20. Accepts(ix, addr, args, accs, payer)
    BY <1>1, <1>10, <1>16, <1>17, <1>18, <1>19, CompletedIsAccepted
  <1>21. addr["vault"] = PadVault
    BY <1>15 DEF IsPad
  <1> QED
    BY <1>1, <1>11, <1>14, <1>20, <1>21

ClaimDepositsNamed(authority) == [authority |-> authority, launchpad |-> Pads!Pad]

LEMMA ClaimDepositsAddr ==
    ASSUME NEW authority, authority # Missing, NEW accs,
           Pads!Pad \in DOMAIN accs, IsPad(accs[Pads!Pad])
    PROVE  LET addr == Completed(Pads!ClaimDepositsIx, ClaimDepositsNamed(authority), <<>>, accs)
           IN  /\ addr["launchpad"] = Pads!Pad /\ addr["vault"] = PadVault
               /\ addr["receiver"] = accs[Pads!Pad].receiver
               /\ Accepts(Pads!ClaimDepositsIx, addr, <<>>, accs, authority)
  <1>1. PICK ix, given, args, addr :
          /\ ix = Pads!ClaimDepositsIx /\ given = ClaimDepositsNamed(authority) /\ args = <<>>
          /\ addr = Completed(ix, given, args, accs)
    OBVIOUS
  <1>2. /\ DOMAIN ix = {"launchpad", "receiver", "vault", "authority", "quoteMint"}
        /\ \A name \in {"vault", "receiver", "quoteMint"} : ix[name] = FieldOf({"launchpad"})
        /\ \A name \in {"launchpad", "authority"} :
             ix[name].by = "name" /\ ("signs" \in DOMAIN ix[name] => name = "authority")
    BY <1>1 DEF Pads!ClaimDepositsIx, Pads!Named, Pads!Signer, Pads!FieldOf, FieldOf
  <1>3. DOMAIN given = {"authority", "launchpad"}
    BY <1>1 DEF ClaimDepositsNamed
  <1>4. \A name \in {"vault", "receiver", "quoteMint"} :
          /\ ix[name].by = "relations" /\ ix[name].of = {"launchpad"}
          /\ "signs" \notin DOMAIN ix[name]
    BY <1>2 DEF FieldOf
  <1>5. \A name \in {"vault", "receiver", "quoteMint"} : Needs(ix, given, args, name) = {"launchpad"}
    BY <1>3, <1>4 DEF Needs
  <1>6. PICK middle : middle = {}
    OBVIOUS
  <1>7. \A name \in DOMAIN ix \ DOMAIN given :
          /\ ix[name].by \in Manners \ {"name"}
          /\ Needs(ix, given, args, name) \subseteq DOMAIN ix
          /\ Needs(ix, given, args, name) \subseteq
               DOMAIN given \cup (IF name \in middle THEN {} ELSE middle)
    BY <1>2, <1>3, <1>4, <1>5, <1>6 DEF Manners
  <1>8. PICK rank : Layered(rank, ix, given, args)
    BY <1>7, TwoLayers
  <1>9. addr["launchpad"] = Pads!Pad /\ addr["authority"] = authority
    <2>1. \A name \in DOMAIN given : addr[name] = given[name]
      BY <1>1, <1>2, <1>3, <1>8, CompletedName
    <2> QED
      BY <1>1, <1>3, <2>1 DEF ClaimDepositsNamed
  <1>10. \A name \in {"vault", "receiver", "quoteMint"} : addr[name] = accs[Pads!Pad][name]
    BY <1>1, <1>2, <1>3, <1>4, <1>8, <1>9, CompletedName
  <1>11. \A name \in DOMAIN ix : addr[name] # Missing
    <2>1. accs[Pads!Pad].vault # Missing /\ accs[Pads!Pad].receiver # Missing
          /\ accs[Pads!Pad].quoteMint # Missing
      BY PadAddresses DEF IsPad
    <2> QED
      BY <1>2, <1>9, <1>10, <2>1, PadAddresses
  <1>12. \A name \in DOMAIN ix : "signs" \in DOMAIN ix[name] => addr[name] = authority
    BY <1>2, <1>4, <1>9
  <1>13. \A name \in DOMAIN ix \cap DOMAIN given : Agrees(ix, addr, args, accs, name)
    BY <1>2, <1>3 DEF Agrees
  <1>14. \A name \in DOMAIN ix : ix[name].by = "relations" =>
            \E r : ix[name].of = {r} /\ addr[r] \in DOMAIN accs
    BY <1>2, <1>4, <1>9
  <1>15. Accepts(ix, addr, args, accs, authority)
    BY <1>1, <1>8, <1>11, <1>12, <1>13, <1>14, CompletedIsAccepted
  <1>16. addr["vault"] = PadVault /\ addr["receiver"] = accs[Pads!Pad].receiver
    BY <1>10 DEF IsPad
  <1> QED
    BY <1>1, <1>9, <1>15, <1>16

VestedNamed(payer, owner) ==
    [depositAccount |-> DepositFor(owner), payer |-> payer,
     proxyMetadata |-> Pads!ContractPDA(StreamOf(owner)), streamMetadata |-> StreamOf(owner),
     proxyTokens |-> Pads!TokenAccount(Pads!Base, Pads!ContractPDA(StreamOf(owner))),
     escrowTokens |-> Pads!EscrowPDA(StreamOf(owner))]

(* The deposit account of an owner.                                        *)
IsDeposit(d, owner) ==
    /\ d.launchpad = Pads!Pad /\ d.owner = owner /\ d.amount \in Nat
    /\ {"claimed", "amount"} \subseteq DOMAIN d

LEMMA VestedAddr ==
    ASSUME NEW payer, payer # Missing, NEW owner, owner # Missing, NEW accs,
           Pads!Pad \in DOMAIN accs, IsPad(accs[Pads!Pad]),
           DepositFor(owner) \in DOMAIN accs, IsDeposit(accs[DepositFor(owner)], owner)
    PROVE  LET addr == Completed(Pads!ClaimAllocatedVestedIx, VestedNamed(payer, owner), <<>>, accs)
           IN  /\ addr["launchpad"] = Pads!Pad /\ addr["owner"] = owner
               /\ addr["depositAccount"] = DepositFor(owner)
               /\ addr["streamMetadata"] = StreamOf(owner)
               /\ addr["from"] = PadFunds /\ addr["to"] = TokenAccount(Pads!Base, owner)
               /\ Accepts(Pads!ClaimAllocatedVestedIx, addr, <<>>, accs, payer)
  <1>1. PICK ix, given, args, addr :
          /\ ix = Pads!ClaimAllocatedVestedIx /\ given = VestedNamed(payer, owner) /\ args = <<>>
          /\ addr = Completed(ix, given, args, accs)
    OBVIOUS
  <1> DEFINE Ofs == {"baseMint", "priceOracle", "authority"}
             Seeded3 == {"proxyMetadata", "proxyTokens", "escrowTokens"}
  <1>2. /\ DOMAIN ix = {"launchpad", "depositAccount", "from", "to", "payer", "owner", "baseMint",
                        "priceOracle", "authority", "proxyMetadata", "proxyTokens",
                        "streamMetadata", "escrowTokens"}
        /\ \A name \in {"launchpad", "owner"} : ix[name] = FieldOf({"depositAccount"})
        /\ \A name \in Ofs : ix[name] = FieldOf({"launchpad"})
        /\ ix["from"] = Seeds("ata", <<"launchpad", "baseMint">>)
        /\ ix["to"] = Seeds("ata", <<"owner", "baseMint">>)
        /\ ix["proxyMetadata"] = Seeds("contract", <<"streamMetadata">>)
        /\ ix["proxyTokens"] = Seeds("ata", <<"proxyMetadata", "baseMint">>)
        /\ ix["escrowTokens"] = Seeds("strm", <<"streamMetadata">>)
        /\ \A name \in {"depositAccount", "payer", "streamMetadata"} :
             ix[name].by = "name" /\ ("signs" \in DOMAIN ix[name] => name = "payer")
    BY <1>1 DEF Pads!ClaimAllocatedVestedIx, Pads!Seeds, Seeds, Pads!Named, Pads!Signer,
                Pads!FieldOf, FieldOf
  <1>3. DOMAIN given = {"depositAccount", "payer", "proxyMetadata", "streamMetadata",
                        "proxyTokens", "escrowTokens"}
    BY <1>1 DEF VestedNamed
  <1>4. DOMAIN args = {}
    BY <1>1
  <1>5. /\ \A name \in {"launchpad", "owner"} :
             /\ ix[name].by = "relations" /\ ix[name].of = {"depositAccount"}
             /\ "signs" \notin DOMAIN ix[name]
        /\ \A name \in Ofs :
             /\ ix[name].by = "relations" /\ ix[name].of = {"launchpad"}
             /\ "signs" \notin DOMAIN ix[name]
        /\ \A name \in {"from", "to"} \cup Seeded3 :
             ix[name].by = "seeds" /\ "signs" \notin DOMAIN ix[name]
    BY <1>2 DEF FieldOf, Seeds
  <1>6. /\ Needs(ix, given, args, "from") = {"launchpad", "baseMint"}
        /\ Needs(ix, given, args, "to") = {"owner", "baseMint"}
    BY <1>2, <1>3, <1>4 DEF Needs, Seeds
  <1>7. /\ \A name \in {"launchpad", "owner"} : Needs(ix, given, args, name) = {"depositAccount"}
        /\ \A name \in Ofs : Needs(ix, given, args, name) = {"launchpad"}
    BY <1>3, <1>5 DEF Needs
  <1>8. PICK first, second : first = {"launchpad", "owner"} /\ second = Ofs
    OBVIOUS
  <1>9. \A name \in DOMAIN ix \ DOMAIN given :
          /\ ix[name].by \in Manners \ {"name"}
          /\ Needs(ix, given, args, name) \subseteq DOMAIN ix
          /\ Needs(ix, given, args, name) \subseteq
               DOMAIN given \cup (IF name \in first THEN {}
                                  ELSE first \cup (IF name \in second THEN {} ELSE second))
    BY <1>2, <1>3, <1>5, <1>6, <1>7, <1>8 DEF Manners
  <1>10. PICK rank : Layered(rank, ix, given, args)
    BY <1>9, ThreeLayers
  <1>11. \A name \in DOMAIN given : addr[name] = given[name]
    BY <1>1, <1>2, <1>3, <1>10, CompletedName
  <1>12. /\ addr["depositAccount"] = DepositFor(owner) /\ addr["payer"] = payer
         /\ addr["proxyMetadata"] = Pads!ContractPDA(StreamOf(owner))
         /\ addr["streamMetadata"] = StreamOf(owner)
         /\ addr["proxyTokens"] = Pads!TokenAccount(Pads!Base, Pads!ContractPDA(StreamOf(owner)))
         /\ addr["escrowTokens"] = Pads!EscrowPDA(StreamOf(owner))
    BY <1>1, <1>3, <1>11 DEF VestedNamed
  <1>13. \A name \in {"launchpad", "owner"} : addr[name] = accs[DepositFor(owner)][name]
    BY <1>1, <1>2, <1>3, <1>5, <1>10, <1>12, CompletedName
  <1>14. addr["launchpad"] = Pads!Pad /\ addr["owner"] = owner
    BY <1>13 DEF IsDeposit
  <1>15. \A name \in Ofs : addr[name] = accs[Pads!Pad][name]
    BY <1>1, <1>2, <1>3, <1>5, <1>10, <1>14, CompletedName
  <1>16. addr["baseMint"] = Pads!Base
    BY <1>15 DEF IsPad
  <1>17. \A name \in {"from", "to"} : addr[name] = Seeded(ix[name], addr, args)
    BY <1>1, <1>2, <1>3, <1>5, <1>10, CompletedName
  <1>18. \A name \in DOMAIN ix : Seed(name, addr, args) = addr[name]
    BY <1>4 DEF Seed
  <1>19. addr["from"] = PadFunds /\ addr["to"] = TokenAccount(Pads!Base, owner)
    <2>1. addr["from"] = <<"ata", addr["launchpad"], addr["baseMint"]>>
      BY <1>2, <1>17, <1>18, SeededByTwo
    <2>2. addr["to"] = <<"ata", addr["owner"], addr["baseMint"]>>
      BY <1>2, <1>17, <1>18, SeededByTwo
    <2> QED
      BY <1>14, <1>16, <2>1, <2>2 DEF PadFunds, TokenAccount
  <1>20. \A name \in DOMAIN ix : addr[name] # Missing
    <2>1. \A name \in Ofs : addr[name] # Missing
      BY <1>15, PadAddresses DEF IsPad
    <2>2. \A name \in Seeded3 : addr[name] # Missing
      BY <1>12 DEF Pads!ContractPDA, Pads!TokenAccount, Pads!EscrowPDA, Missing
    <2>3. addr["from"] # Missing /\ addr["to"] # Missing
      BY <1>19, PadAddresses DEF PadFunds
    <2> QED
      BY <1>2, <1>12, <1>14, <2>1, <2>2, <2>3, PadAddresses
  <1>21. \A name \in DOMAIN ix : "signs" \in DOMAIN ix[name] => addr[name] = payer
    BY <1>2, <1>5, <1>12
  <1>22. \A name \in DOMAIN ix \cap DOMAIN given : Agrees(ix, addr, args, accs, name)
    <2>1. \A name \in {"depositAccount", "payer", "streamMetadata"} : Agrees(ix, addr, args, accs, name)
      BY <1>2 DEF Agrees
    <2>2. addr["proxyMetadata"] = Seeded(ix["proxyMetadata"], addr, args)
      BY <1>2, <1>12, <1>18, SeededByOne DEF Pads!ContractPDA
    <2>3. addr["escrowTokens"] = Seeded(ix["escrowTokens"], addr, args)
      BY <1>2, <1>12, <1>18, SeededByOne DEF Pads!EscrowPDA
    <2>4. addr["proxyTokens"] = Seeded(ix["proxyTokens"], addr, args)
      BY <1>2, <1>12, <1>16, <1>18, SeededByTwo DEF Pads!TokenAccount
    <2>5. \A name \in Seeded3 : Agrees(ix, addr, args, accs, name)
      BY <1>5, <2>2, <2>3, <2>4 DEF Agrees
    <2> QED
      BY <1>3, <2>1, <2>5
  <1>23. \A name \in DOMAIN ix : ix[name].by = "relations" =>
            \E r : ix[name].of = {r} /\ addr[r] \in DOMAIN accs
    BY <1>2, <1>5, <1>12, <1>14
  <1>24. Accepts(ix, addr, args, accs, payer)
    BY <1>1, <1>10, <1>20, <1>21, <1>22, <1>23, CompletedIsAccepted
  <1> QED
    BY <1>1, <1>12, <1>14, <1>19, <1>24

-----------------------------------------------------------------------------
(* The sum of what is paid for the owners.                                 *)
LEMMA SumOfPaid ==
    ASSUME NEW S, IsFiniteSet(S), NEW f \in [S -> Int]
    PROVE  Pads!MapThenSumSet(LAMBDA x : f[x], S) = Summing(f, S)[S]
  <1> DEFINE Step(sum) == [T \in SUBSET S |-> IF T = {} THEN 0
                              ELSE f[CHOOSE x \in T : TRUE] + sum[T \ {CHOOSE x \in T : TRUE}]]
  <1>1. Pads!MapThenSumSet(LAMBDA x : f[x], S) = (CHOOSE sum : sum = Step(sum))[S]
    BY DEF Pads!MapThenSumSet, Pads!MapThenFoldSet
  <1>2. \A sum : sum = Step(sum) <=> SumsBy(sum, f, AnyOf(S), S)
    BY DEF SumsBy, AnyOf
  <1>3. AnyOf(S) \in ChoiceOf(S)
    BY AnyOfIsChoice
  <1> HIDE DEF Step
  <1>4. \E sum : sum = Step(sum)
    <2>1. PICK sum : SumsBy(sum, f, AnyOf(S), S)
      BY <1>3, SumExists
    <2> QED
      BY <1>2, <2>1
  <1>5. PICK sum : sum = (CHOOSE s : s = Step(s)) /\ sum = Step(sum)
    BY <1>4
  <1>6. IsSum(sum, f, S)
    BY <1>2, <1>3, <1>5, SumsByIsSum
  <1>7. sum[S] = Summing(f, S)[S]
    BY <1>6, SumIsSumming
  <1> QED
    BY <1>1, <1>5, <1>7

(* What holds of a launchpad, of its deposits and of the streams that were *)
(* created for them, when so much was paid for the owners.                 *)
PadDeposits(accs, paid) ==
    \A o \in Depositors :
        IF DepositFor(o) \in DOMAIN accs
        THEN IsDeposit(accs[DepositFor(o)], o) /\ accs[DepositFor(o)].amount = paid[o]
        ELSE paid[o] = 0

PadStreams(accs, paid, t) ==
    \A o \in Depositors : StreamOf(o) \in DOMAIN accs =>
        /\ t >= accs[Pads!Pad].depositingEnd
        /\ DepositFor(o) \in DOMAIN accs /\ accs[DepositFor(o)].claimed = TRUE
        /\ accs[StreamOf(o)].recipient = o
        /\ accs[StreamOf(o)].amount = paid[o] \div accs[Pads!Pad].price

PadWorld(accs, toks, paid, t) ==
    /\ NatTokens(toks) /\ paid \in [Depositors -> Nat] /\ t \in Nat
    /\ PadVault \in DOMAIN toks <=> Pads!Pad \in DOMAIN accs
    /\ DOMAIN accs \subseteq {Pads!Pad} \cup {DepositFor(o) : o \in Depositors}
                               \cup {StreamOf(o) : o \in Depositors}
    /\ IF Pads!Pad \in DOMAIN accs
       THEN /\ IsPad(accs[Pads!Pad]) /\ accs[Pads!Pad].claimed \in BOOLEAN
            /\ ~accs[Pads!Pad].claimed => toks[PadVault] = Summing(paid, Depositors)[Depositors]
       ELSE DOMAIN accs = {}
    /\ PadDeposits(accs, paid)
    /\ PadStreams(accs, paid, t)

PadEnv(w, paid) == IsWorld(w) /\ PadWorld(w.accounts, w.tokens, paid, now)

(* The instructions that the client builds, as far as it matters for what  *)
(* they do.                                                                *)
IsOffer(args) ==
    /\ args.price \in Nat \ {0}
    /\ {args.maxCap, args.individualCap, args.depositingStart, args.depositingEnd,
        args.vestingStart} \subseteq Nat

CreateIx(ix) ==
    /\ ix.op = "createLaunchpad" /\ IsOffer(ix.args)
    /\ LET a == ix.accounts IN
       /\ a["launchpad"] = Pads!Pad /\ a["vault"] = PadVault /\ a["authority"] = Pads!Authority
       /\ a["baseMint"] = Pads!Base /\ a["quoteMint"] = Pads!Quote
       /\ a["receiver"] # Missing /\ a["priceOracle"] # Missing

DepositIx(ix, o) ==
    /\ ix.op = "deposit" /\ o \in Depositors /\ ix.amount \in Nat
    /\ LET a == ix.accounts IN
       /\ a["launchpad"] = Pads!Pad /\ a["vault"] = PadVault /\ a["owner"] = o
       /\ a["depositAccount"] = DepositFor(o)

ClaimDepositsIx(ix) ==
    /\ ix.op = "claimDeposits"
    /\ ix.accounts["launchpad"] = Pads!Pad /\ ix.accounts["vault"] = PadVault

VestedIx(ix) ==
    /\ ix.op = "claimAllocatedVested"
    /\ LET a == ix.accounts IN
       /\ a["launchpad"] = Pads!Pad /\ a["from"] = PadFunds
       /\ \E o \in Depositors :
            /\ a["owner"] = o /\ a["depositAccount"] = DepositFor(o)
            /\ a["streamMetadata"] = StreamOf(o)

PlainIx(ix) ==
    \/ ix.op = "memo"
    \/ ix.op = "createAta" /\ ix.account = PadFunds
    \/ ix.op = "transfer" /\ ix.to = PadFunds /\ ix.amount \in Nat
    \/ CreateIx(ix) \/ ClaimDepositsIx(ix) \/ VestedIx(ix)

-----------------------------------------------------------------------------
(* What the instructions do.                                               *)
LEMMA PadTokensMove ==
    ASSUME NEW w, NEW paid, PadEnv(w, paid), NEW v, TokensOnly(v, w), NatTokens(v.tokens),
           NEW a, a # PadVault,
           DOMAIN v.tokens \in {DOMAIN w.tokens, DOMAIN w.tokens \cup {a}},
           \A b \in DOMAIN w.tokens \ {a} : v.tokens[b] = w.tokens[b]
    PROVE  PadEnv(v, paid)
  <1>1. v.accounts = w.accounts /\ IsWorld(v)
    BY DEF TokensOnly
  <1>2. PadVault \in DOMAIN v.tokens <=> PadVault \in DOMAIN w.tokens
    OBVIOUS
  <1>3. PadVault \in DOMAIN w.tokens => v.tokens[PadVault] = w.tokens[PadVault]
    OBVIOUS
  <1> QED
    BY <1>1, <1>2, <1>3 DEF PadEnv, PadWorld

LEMMA CreatesPad ==
    ASSUME NEW w, NEW paid, PadEnv(w, paid), NEW ix, CreateIx(ix),
           Pads!Pad \notin DOMAIN w.accounts, NEW invoker
    PROVE  PadEnv(Pads!Effect(w, ix, invoker), paid)
  <1>1. PICK v : v = Opened(w, PadVault)
    OBVIOUS
  <1>2. /\ TokensOnly(v, w) /\ NatTokens(v.tokens) /\ PadVault \in DOMAIN v.tokens
        /\ v.tokens[PadVault] = 0
    <2>1. IsWorld(w) /\ NatTokens(w.tokens) /\ PadVault \notin DOMAIN w.tokens
      BY DEF PadEnv, PadWorld
    <2> QED
      BY <1>1, <2>1, OpenedIs
  <1>3. PICK l : l = Pads!NewLaunchpad(ix)
    OBVIOUS
  <1>4. IsPad(l) /\ l.claimed = FALSE
    <2>1. PICK f, g, a :
            /\ a = ix.accounts
            /\ f = [price |-> ix.args.price, maxCap |-> ix.args.maxCap,
                 individualCap |-> ix.args.individualCap,
                 isMemoRequired |-> ix.args.isMemoRequired,
                 depositingStart |-> ix.args.depositingStart,
                 depositingEnd |-> ix.args.depositingEnd,
                 vestingStart |-> ix.args.vestingStart, total |-> 0, claimed |-> FALSE]
            /\ g = [name \in {"baseMint", "quoteMint", "authority", "receiver", "priceOracle",
                              "vault"} |-> a[name]]
      OBVIOUS
    <2>2. l = Merged(f, g)
      BY <1>3, <2>1, PadsSame DEF Pads!NewLaunchpad
    <2>3. /\ a["launchpad"] = Pads!Pad /\ a["vault"] = PadVault
          /\ a["authority"] = Pads!Authority
          /\ a["baseMint"] = Pads!Base /\ a["quoteMint"] = Pads!Quote
          /\ a["receiver"] # Missing /\ a["priceOracle"] # Missing
      BY <2>1 DEF CreateIx
    <2>4. /\ l["vault"] = PadVault /\ l["authority"] = Pads!Authority
          /\ l["baseMint"] = Pads!Base /\ l["quoteMint"] = Pads!Quote
          /\ l["receiver"] # Missing /\ l["priceOracle"] # Missing /\ "baseMint" \in DOMAIN l
      BY <2>1, <2>2, <2>3 DEF Merged
    <2>5. \A name \in DOMAIN f : name \in DOMAIN l /\ l[name] = f[name]
      BY <2>2 DEF Merged
    <2>6. DOMAIN f = {"price", "maxCap", "individualCap", "isMemoRequired", "depositingStart",
                      "depositingEnd", "vestingStart", "total", "claimed"}
      BY <2>1
    <2>7. /\ l.price = ix.args.price /\ l.maxCap = ix.args.maxCap
          /\ l.individualCap = ix.args.individualCap
          /\ l.depositingStart = ix.args.depositingStart
          /\ l.depositingEnd = ix.args.depositingEnd /\ l.vestingStart = ix.args.vestingStart
          /\ l.total = 0 /\ l.claimed = FALSE /\ {"total", "claimed"} \subseteq DOMAIN l
      BY <2>1, <2>5, <2>6
    <2>8. IsOffer(ix.args)
      BY DEF CreateIx
    <2> QED
      BY <2>4, <2>7, <2>8 DEF IsPad, IsOffer
  <1>5. PICK u : u = Pads!Effect(w, ix, invoker)
    OBVIOUS
  <1>6. u = [v EXCEPT !.accounts = Stored(@, Pads!Pad, l)]
    <2>1. ix.op = "createLaunchpad" /\ ix.accounts["launchpad"] = Pads!Pad
          /\ ix.accounts["vault"] = PadVault
      BY DEF CreateIx
    <2> QED
      BY <1>1, <1>3, <1>5, <2>1, PadsSame DEF Pads!Effect
  <1>7. IsWorld(u) /\ u.accounts = Stored(v.accounts, Pads!Pad, l) /\ u.tokens = v.tokens
    BY <1>2, <1>6 DEF IsWorld, TokensOnly
  <1>8. DOMAIN w.accounts = {}
    BY DEF PadEnv, PadWorld
  <1>9. DOMAIN u.accounts = {Pads!Pad} /\ u.accounts[Pads!Pad] = l
    BY <1>2, <1>7, <1>8 DEF Stored, TokensOnly
  <1>10. paid \in [Depositors -> Nat] /\ \A o \in Depositors : paid[o] = 0
    BY <1>8 DEF PadEnv, PadWorld, PadDeposits
  <1>11. Summing(paid, Depositors)[Depositors] = 0
    <2>1. PICK none : none = [o \in Depositors |-> 0]
      OBVIOUS
    <2>2. IsFiniteSet(Depositors)
      BY ProgramAssumption
    <2>3. IsSum([T \in SUBSET Depositors |-> 0], paid, Depositors)
      BY <1>10 DEF IsSum
    <2>4. PICK zero : zero = [T \in SUBSET Depositors |-> 0]
      OBVIOUS
    <2>5. paid \in [Depositors -> Int] /\ IsSum(zero, paid, Depositors) /\ Depositors \in SUBSET Depositors
      BY <1>10, <2>3, <2>4
    <2>6. zero[Depositors] = Summing(paid, Depositors)[Depositors]
      BY <2>2, <2>5, SumIsSumming
    <2> QED
      BY <2>4, <2>6
  <1>12. \A o \in Depositors : DepositFor(o) \notin DOMAIN u.accounts /\ StreamOf(o) \notin DOMAIN u.accounts
    BY <1>9, PadAddresses
  <1>13. now \in Nat
    BY DEF PadEnv, PadWorld
  <1>14. PadWorld(u.accounts, u.tokens, paid, now)
    BY <1>2, <1>4, <1>7, <1>9, <1>10, <1>11, <1>12, <1>13 DEF PadWorld, PadDeposits, PadStreams
  <1> QED
    BY <1>5, <1>7, <1>14 DEF PadEnv

LEMMA ClaimsDeposits ==
    ASSUME NEW w, NEW paid, PadEnv(w, paid), NEW ix, ClaimDepositsIx(ix),
           Pads!Pad \in DOMAIN w.accounts, NEW invoker
    PROVE  PadEnv(Pads!Effect(w, ix, invoker), paid)
  <1>1. PICK u : u = Pads!Effect(w, ix, invoker)
    OBVIOUS
  <1>2. u = [w EXCEPT !.accounts[Pads!Pad].claimed = TRUE, !.tokens[PadVault] = 0]
    <2>1. ix.op = "claimDeposits" /\ ix.accounts["launchpad"] = Pads!Pad
          /\ ix.accounts["vault"] = PadVault
      BY DEF ClaimDepositsIx
    <2> QED
      BY <1>1, <2>1 DEF Pads!Effect
  <1>3. PICK accs, toks : /\ accs = [w.accounts EXCEPT ![Pads!Pad].claimed = TRUE]
                          /\ toks = [w.tokens EXCEPT ![PadVault] = 0]
    OBVIOUS
  <1>4. IsWorld(u) /\ u.accounts = accs /\ u.tokens = toks
    BY <1>2, <1>3 DEF IsWorld, PadEnv
  <1>5. PICK l, m : l = w.accounts[Pads!Pad] /\ m = accs[Pads!Pad]
    OBVIOUS
  <1>6. IsPad(l)
    BY <1>5 DEF PadEnv, PadWorld
  <1>7. m = [l EXCEPT !.claimed = TRUE]
    BY <1>3, <1>5
  <1>8. IsPad(m) /\ m.claimed = TRUE /\ m.price = l.price /\ m.depositingEnd = l.depositingEnd
    BY <1>6, <1>7 DEF IsPad
  <1>9. DOMAIN accs = DOMAIN w.accounts
        /\ \A a \in DOMAIN accs \ {Pads!Pad} : accs[a] = w.accounts[a]
    BY <1>3
  <1>10. NatTokens(toks) /\ DOMAIN toks = DOMAIN w.tokens
    BY <1>3 DEF PadEnv, PadWorld, NatTokens
  <1>11. PadDeposits(accs, paid)
    BY <1>9, PadAddresses DEF PadEnv, PadWorld, PadDeposits
  <1>12. PadStreams(accs, paid, now)
    BY <1>5, <1>8, <1>9, PadAddresses DEF PadEnv, PadWorld, PadStreams
  <1>13. PadWorld(accs, toks, paid, now)
    BY <1>5, <1>8, <1>9, <1>10, <1>11, <1>12 DEF PadEnv, PadWorld
  <1> QED
    BY <1>1, <1>4, <1>13 DEF PadEnv

LEMMA ClaimsVested ==
    ASSUME NEW w, NEW paid, PadEnv(w, paid), NEW ix, VestedIx(ix), NEW invoker,
           Pads!Allowed(w, ix, invoker), Pads!Pad \in DOMAIN w.accounts,
           ix.accounts["depositAccount"] \in DOMAIN w.accounts
    PROVE  PadEnv(Pads!Effect(w, ix, invoker), paid)
  <1>1. PICK o \in Depositors :
          /\ ix.accounts["owner"] = o /\ ix.accounts["depositAccount"] = DepositFor(o)
          /\ ix.accounts["streamMetadata"] = StreamOf(o)
    BY DEF VestedIx
  <1>2. ix.op = "claimAllocatedVested" /\ ix.accounts["launchpad"] = Pads!Pad
        /\ ix.accounts["from"] = PadFunds
    BY DEF VestedIx
  <1>3. PICK l, d, n : /\ l = w.accounts[Pads!Pad] /\ d = w.accounts[DepositFor(o)]
                       /\ n = d.amount \div l.price
    OBVIOUS
  <1>4. IsPad(l) /\ IsDeposit(d, o) /\ d.amount = paid[o]
    BY <1>1, <1>3 DEF PadEnv, PadWorld, PadDeposits
  <1>5. n \in Nat /\ n = paid[o] \div l.price
    <2>1. d.amount \in Nat /\ l.price \in Nat \ {0}
      BY <1>4 DEF IsPad, IsDeposit
    <2> QED
      BY <1>3, <1>4, <2>1, FloorOf
  <1>6. /\ l.depositingEnd <= now /\ StreamOf(o) \notin DOMAIN w.accounts
        /\ PadFunds \in DOMAIN w.tokens /\ w.tokens[PadFunds] >= n
    <2>1. /\ Pads!Claiming(l) /\ ~Pads!Exists(w, StreamOf(o)) /\ Pads!Holds(w, PadFunds)
          /\ w.tokens[PadFunds] >= Pads!Allocation(d.amount, l)
      BY <1>1, <1>2, <1>3 DEF Pads!Allowed
    <2> QED
      BY <1>3, <2>1, PadsSame DEF Pads!Claiming, Pads!Allocation, Exists, Holds
  <1>7. PICK v : v = Moved(w, PadFunds, n)
    OBVIOUS
  <1>8. /\ TokensOnly(v, w) /\ NatTokens(v.tokens) /\ DOMAIN v.tokens = DOMAIN w.tokens
        /\ \A b \in DOMAIN w.tokens \ {PadFunds} : v.tokens[b] = w.tokens[b]
    <2>1. IsWorld(w) /\ NatTokens(w.tokens) /\ n \in Int /\ n <= w.tokens[PadFunds]
      BY <1>5, <1>6 DEF PadEnv, PadWorld, NatTokens
    <2> QED
      BY <1>7, <2>1, MovedIs
  <1>9. PICK e : e = [d EXCEPT !.claimed = TRUE]
    OBVIOUS
  <1>10. IsDeposit(e, o) /\ e.amount = paid[o] /\ e.claimed = TRUE
    BY <1>4, <1>9 DEF IsDeposit
  <1>11. PICK claimed, s, accs :
            /\ claimed = [w.accounts EXCEPT ![DepositFor(o)].claimed = TRUE]
            /\ s = [recipient |-> o, amount |-> n]
            /\ accs = Stored(claimed, StreamOf(o), s)
    OBVIOUS
  <1>12. PICK u : u = Pads!Effect(w, ix, invoker)
    OBVIOUS
  <1>13. u = [v EXCEPT !.accounts = accs]
    <2>1. u = [Pads!Moved(w, PadFunds, Pads!Allocation(d.amount, l)) EXCEPT
                  !.accounts = Pads!Stored([@ EXCEPT ![DepositFor(o)].claimed = TRUE],
                      StreamOf(o), [recipient |-> o, amount |-> Pads!Allocation(d.amount, l)])]
      BY <1>1, <1>2, <1>3, <1>12 DEF Pads!Effect
    <2>2. Pads!Allocation(d.amount, l) = n
      BY <1>3 DEF Pads!Allocation
    <2>3. v.accounts = w.accounts
      BY <1>8 DEF TokensOnly
    <2>4. u = [v EXCEPT !.accounts = Stored([v.accounts EXCEPT ![DepositFor(o)].claimed = TRUE],
                                            StreamOf(o), [recipient |-> o, amount |-> n])]
      BY <1>7, <2>1, <2>2, PadsSame
    <2> QED
      BY <1>11, <2>3, <2>4
  <1>14. IsWorld(u) /\ u.accounts = accs /\ u.tokens = v.tokens
    BY <1>8, <1>13 DEF IsWorld, TokensOnly
  <1>15. /\ DOMAIN claimed = DOMAIN w.accounts /\ claimed[DepositFor(o)] = e
         /\ \A a \in DOMAIN claimed \ {DepositFor(o)} : claimed[a] = w.accounts[a]
    BY <1>1, <1>3, <1>9, <1>11
  <1>16. /\ DOMAIN accs = DOMAIN w.accounts \cup {StreamOf(o)} /\ accs[StreamOf(o)] = s
         /\ \A a \in DOMAIN claimed \ {StreamOf(o)} : accs[a] = claimed[a]
    BY <1>11, <1>15 DEF Stored
  <1>17. accs[Pads!Pad] = l
    BY <1>3, <1>15, <1>16, PadAddresses
  <1>18. PadDeposits(accs, paid)
    <2> SUFFICES ASSUME NEW p \in Depositors
                 PROVE  IF DepositFor(p) \in DOMAIN accs
                        THEN IsDeposit(accs[DepositFor(p)], p) /\ accs[DepositFor(p)].amount = paid[p]
                        ELSE paid[p] = 0
      BY DEF PadDeposits
    <2>1. CASE p = o
      <3>1. accs[DepositFor(o)] = e
        BY <1>1, <1>15, <1>16, PadAddresses
      <3> QED
        BY <1>1, <1>10, <1>16, <2>1, <3>1
    <2>2. CASE p # o
      <3>1. DepositFor(p) # DepositFor(o) /\ \A q : DepositFor(p) # StreamOf(q)
        BY <2>2, PadAddresses
      <3>2. /\ DepositFor(p) \in DOMAIN accs <=> DepositFor(p) \in DOMAIN w.accounts
            /\ DepositFor(p) \in DOMAIN accs => accs[DepositFor(p)] = w.accounts[DepositFor(p)]
        BY <1>15, <1>16, <3>1
      <3> QED
        BY <3>2 DEF PadEnv, PadWorld, PadDeposits
    <2> QED
      BY <2>1, <2>2
  <1>19. PadStreams(accs, paid, now)
    <2> SUFFICES ASSUME NEW p \in Depositors, StreamOf(p) \in DOMAIN accs
                 PROVE  /\ now >= accs[Pads!Pad].depositingEnd
                        /\ DepositFor(p) \in DOMAIN accs /\ accs[DepositFor(p)].claimed = TRUE
                        /\ accs[StreamOf(p)].recipient = p
                        /\ accs[StreamOf(p)].amount = paid[p] \div accs[Pads!Pad].price
      BY DEF PadStreams
    <2>1. CASE p = o
      <3>1. accs[StreamOf(p)].recipient = p /\ accs[StreamOf(p)].amount = n
        BY <1>11, <1>16, <2>1
      <3>2. now >= l.depositingEnd
        <4>1. now \in Nat /\ l.depositingEnd \in Nat
          BY <1>4 DEF PadEnv, PadWorld, IsPad
        <4> QED
          BY <1>6, <4>1
      <3>3. DepositFor(o) \in DOMAIN accs /\ accs[DepositFor(o)].claimed = TRUE
        BY <1>1, <1>10, <1>15, <1>16, PadAddresses
      <3> QED
        BY <1>5, <1>17, <2>1, <3>1, <3>2, <3>3
    <2>2. CASE p # o
      <3>1. StreamOf(p) # StreamOf(o) /\ \A q : StreamOf(p) # DepositFor(q)
        BY <2>2, PadAddresses
      <3>2. StreamOf(p) \in DOMAIN w.accounts /\ accs[StreamOf(p)] = w.accounts[StreamOf(p)]
        BY <1>15, <1>16, <3>1
      <3>3. DepositFor(p) \in DOMAIN w.accounts /\ w.accounts[DepositFor(p)].claimed = TRUE
        BY <3>2 DEF PadEnv, PadWorld, PadStreams
      <3>4. DepositFor(p) # DepositFor(o) /\ DepositFor(p) # StreamOf(o)
        BY <2>2, PadAddresses
      <3>5. DepositFor(p) \in DOMAIN accs /\ accs[DepositFor(p)] = w.accounts[DepositFor(p)]
        BY <1>15, <1>16, <3>3, <3>4
      <3> QED
        BY <1>3, <1>17, <3>2, <3>3, <3>5 DEF PadEnv, PadWorld, PadStreams
    <2> QED
      BY <2>1, <2>2
  <1>20. PadVault # PadFunds
    BY PadAddresses DEF PadFunds
  <1>21. PadWorld(accs, v.tokens, paid, now)
    <2>1. PadVault \in DOMAIN v.tokens /\ v.tokens[PadVault] = w.tokens[PadVault]
      BY <1>8, <1>20 DEF PadEnv, PadWorld
    <2>2. Pads!Pad \in DOMAIN accs
      BY <1>16
    <2>3. DOMAIN accs \subseteq {Pads!Pad} \cup {DepositFor(q) : q \in Depositors}
                               \cup {StreamOf(q) : q \in Depositors}
      BY <1>16 DEF PadEnv, PadWorld
    <2>4. l.claimed \in BOOLEAN
          /\ (~l.claimed => w.tokens[PadVault] = Summing(paid, Depositors)[Depositors])
      BY <1>3 DEF PadEnv, PadWorld
    <2>5. paid \in [Depositors -> Nat] /\ now \in Nat
      BY DEF PadEnv, PadWorld
    <2> QED
      BY <1>4, <1>8, <1>17, <1>18, <1>19, <2>1, <2>2, <2>3, <2>4, <2>5 DEF PadWorld
  <1> QED
    BY <1>12, <1>14, <1>21 DEF PadEnv

LEMMA Refused ==
    ASSUME NEW w, IsWorld(w), NEW ix, NEW invoker, ~(w.ok /\ AllowedTo(w, ix, invoker))
    PROVE  LET v == Executed(w, ix, invoker) IN
           /\ IsWorld(v) /\ v.ok = FALSE /\ v.accounts = w.accounts /\ v.tokens = w.tokens
           /\ v.done = w.done
  <1>1. PICK v : v = Executed(w, ix, invoker)
    OBVIOUS
  <1>2. v = [w EXCEPT !.ok = FALSE]
    BY <1>1 DEF Executed
  <1>3. /\ IsWorld(v) /\ v.ok = FALSE /\ v.accounts = w.accounts /\ v.tokens = w.tokens
        /\ v.done = w.done
    BY <1>2 DEF IsWorld
  <1> QED
    BY <1>1, <1>3

LEMMA ExecutedDoes ==
    ASSUME NEW w, IsWorld(w), NEW ix, NEW invoker, NEW v, v = Executed(w, ix, invoker),
           NEW e, e = EffectOf(w, ix, invoker), IsWorld(e), w.ok /\ AllowedTo(w, ix, invoker)
    PROVE  /\ IsWorld(v) /\ v.ok = e.ok /\ v.accounts = e.accounts /\ v.tokens = e.tokens
           /\ v.done = e.done \cup {ix.op}
  <1>1. IsWorld(EffectOf(w, ix, invoker))
    OBVIOUS
  <1>2. LET u == Executed(w, ix, invoker)
            f == EffectOf(w, ix, invoker)
        IN  /\ IsWorld(u)
            /\ w.ok /\ AllowedTo(w, ix, invoker) =>
                 /\ u.ok = f.ok /\ u.accounts = f.accounts /\ u.tokens = f.tokens
                 /\ u.done = f.done \cup {ix.op}
            /\ ~(w.ok /\ AllowedTo(w, ix, invoker)) =>
                 /\ u.ok = FALSE /\ u.accounts = w.accounts /\ u.tokens = w.tokens
                 /\ u.done = w.done
    BY <1>1, ExecutedIs
  <1> QED
    BY <1>2

LEMMA PlainDoes ==
    ASSUME program = "launchpad", NEW w, NEW paid, PadEnv(w, paid), NEW ix, PlainIx(ix),
           NEW invoker
    PROVE  PadEnv(Executed(w, ix, invoker), paid)
  <1>1. PICK v, e : v = Executed(w, ix, invoker) /\ e = EffectOf(w, ix, invoker)
    OBVIOUS
  <1>2. CASE ~(w.ok /\ AllowedTo(w, ix, invoker))
    <2>1. IsWorld(w)
      BY DEF PadEnv
    <2>2. IsWorld(v) /\ v.accounts = w.accounts /\ v.tokens = w.tokens
      BY <1>1, <1>2, <2>1, Refused
    <2> QED
      BY <1>1, <2>2 DEF PadEnv
  <1>3. CASE w.ok /\ AllowedTo(w, ix, invoker)
    <2>1. Pads!Allowed(w, ix, invoker) /\ e = Pads!Effect(w, ix, invoker)
      BY <1>1, <1>3 DEF AllowedTo, EffectOf
    <2>2. PadEnv(e, paid)
      <3>1. IsWorld(w) /\ NatTokens(w.tokens)
        BY DEF PadEnv, PadWorld
      <3>2. PadFunds # PadVault
        BY PadAddresses DEF PadFunds
      <3>3. CASE ix.op = "memo"
        BY <2>1, <3>3 DEF Pads!Effect
      <3>4. CASE ix.op = "createAta" /\ ix.account = PadFunds
        <4>1. e = Opened(w, PadFunds)
          BY <2>1, <3>4, PadsSame DEF Pads!Effect
        <4>2. /\ TokensOnly(e, w) /\ NatTokens(e.tokens)
              /\ DOMAIN e.tokens = DOMAIN w.tokens \cup {PadFunds}
              /\ \A b \in DOMAIN w.tokens : e.tokens[b] = w.tokens[b]
          BY <3>1, <4>1, OpenedIs
        <4> QED
          BY <3>2, <4>2, PadTokensMove
      <3>5. CASE ix.op = "transfer" /\ ix.to = PadFunds /\ ix.amount \in Nat
        <4>1. PICK n : n = -ix.amount
          OBVIOUS
        <4>2. n \in Int /\ n <= 0
          BY <3>5, <4>1
        <4>3. e = Moved(w, PadFunds, n)
          BY <2>1, <3>5, <4>1, PadsSame DEF Pads!Effect
        <4>4. PadFunds \in DOMAIN w.tokens => n <= w.tokens[PadFunds]
          BY <4>2 DEF PadEnv, PadWorld, NatTokens
        <4>5. /\ TokensOnly(e, w) /\ NatTokens(e.tokens)
              /\ DOMAIN e.tokens = DOMAIN w.tokens
              /\ \A b \in DOMAIN w.tokens \ {PadFunds} : e.tokens[b] = w.tokens[b]
          BY <3>1, <4>2, <4>3, <4>4, MovedIs
        <4> QED
          BY <3>2, <4>5, PadTokensMove
      <3>6. CASE CreateIx(ix)
        <4>1. Pads!Pad \notin DOMAIN w.accounts
          <5>1. ix.op = "createLaunchpad" /\ ix.accounts["launchpad"] = Pads!Pad
            BY <3>6 DEF CreateIx
          <5> QED
            BY <2>1, <5>1, PadsSame DEF Pads!Allowed, Exists
        <4> QED
          BY <2>1, <3>6, <4>1, CreatesPad
      <3>7. CASE ClaimDepositsIx(ix)
        <4>1. Pads!Pad \in DOMAIN w.accounts
          <5>1. ix.op = "claimDeposits" /\ ix.accounts["launchpad"] = Pads!Pad
            BY <3>7 DEF ClaimDepositsIx
          <5>2. Accepts(Pads!ClaimDepositsIx, ix.accounts, <<>>, w.accounts, invoker)
            BY <2>1, <5>1, PadsAnchorSame DEF Pads!Allowed
          <5>3. PICK d : d = Pads!ClaimDepositsIx
            OBVIOUS
          <5>4. "vault" \in DOMAIN d /\ d["vault"].by = "relations" /\ d["vault"].of = {"launchpad"}
            BY <5>3 DEF Pads!ClaimDepositsIx, Pads!FieldOf
          <5>5. ix.accounts["launchpad"] \in DOMAIN w.accounts
            BY <5>2, <5>3, <5>4 DEF Accepts
          <5> QED
            BY <5>1, <5>5
        <4> QED
          BY <2>1, <3>7, <4>1, ClaimsDeposits
      <3>8. CASE VestedIx(ix)
        <4>1. ix.op = "claimAllocatedVested" /\ ix.accounts["launchpad"] = Pads!Pad
          BY <3>8 DEF VestedIx
        <4>2. Accepts(Pads!ClaimAllocatedVestedIx, ix.accounts, <<>>, w.accounts, invoker)
          BY <2>1, <4>1, PadsAnchorSame DEF Pads!Allowed
        <4>3. PICK d : d = Pads!ClaimAllocatedVestedIx
          OBVIOUS
        <4>4. /\ {"launchpad", "baseMint"} \subseteq DOMAIN d
              /\ d["launchpad"].by = "relations" /\ d["launchpad"].of = {"depositAccount"}
              /\ d["baseMint"].by = "relations" /\ d["baseMint"].of = {"launchpad"}
          BY <4>3 DEF Pads!ClaimAllocatedVestedIx, Pads!FieldOf
        <4>5. {ix.accounts["launchpad"], ix.accounts["depositAccount"]} \subseteq DOMAIN w.accounts
          BY <4>2, <4>3, <4>4 DEF Accepts
        <4> QED
          BY <2>1, <3>8, <4>1, <4>5, ClaimsVested
      <3> QED
        BY <3>3, <3>4, <3>5, <3>6, <3>7, <3>8 DEF PlainIx
    <2>3. IsWorld(w) /\ IsWorld(e)
      BY <2>2 DEF PadEnv
    <2>4. IsWorld(v) /\ v.accounts = e.accounts /\ v.tokens = e.tokens
      BY <1>1, <1>3, <2>3, ExecutedDoes
    <2> QED
      BY <1>1, <2>2, <2>4 DEF PadEnv
  <1> QED
    BY <1>2, <1>3

(* A deposit: what reaches the vault was paid for its owner.               *)
LEMMA DepositDoes ==
    ASSUME program = "launchpad", NEW w, NEW paid, PadEnv(w, paid), NEW o, NEW ix,
           DepositIx(ix, o), NEW invoker
    PROVE  LET v == Executed(w, ix, invoker) IN
           \/ v.ok = FALSE /\ PadEnv(v, paid)
           \/ /\ Pads!Pad \in DOMAIN w.accounts
              /\ \E n \in Nat : /\ v.tokens[PadVault] = w.tokens[PadVault] + n
                                /\ PadEnv(v, [paid EXCEPT ![o] = paid[o] + n])
  <1>1. PICK v, e : v = Executed(w, ix, invoker) /\ e = EffectOf(w, ix, invoker)
    OBVIOUS
  <1>2. CASE ~(w.ok /\ AllowedTo(w, ix, invoker))
    <2>1. IsWorld(w)
      BY DEF PadEnv
    <2>2. IsWorld(v) /\ v.accounts = w.accounts /\ v.tokens = w.tokens /\ v.ok = FALSE
      BY <1>1, <1>2, <2>1, Refused
    <2> QED
      BY <1>1, <2>2 DEF PadEnv
  <1>3. CASE w.ok /\ AllowedTo(w, ix, invoker)
    <2>1. Pads!Allowed(w, ix, invoker) /\ e = Pads!Effect(w, ix, invoker)
      BY <1>1, <1>3 DEF AllowedTo, EffectOf
    <2>2. /\ ix.op = "deposit" /\ o \in Depositors /\ ix.amount \in Nat
          /\ ix.accounts["launchpad"] = Pads!Pad /\ ix.accounts["vault"] = PadVault
          /\ ix.accounts["owner"] = o /\ ix.accounts["depositAccount"] = DepositFor(o)
      BY DEF DepositIx
    <2>3. Pads!Pad \in DOMAIN w.accounts
      <3>1. Accepts(Pads!DepositIx, ix.accounts, <<>>, w.accounts, invoker)
        BY <2>1, <2>2, PadsAnchorSame DEF Pads!Allowed
      <3>2. PICK d : d = Pads!DepositIx
        OBVIOUS
      <3>3. "vault" \in DOMAIN d /\ d["vault"].by = "relations" /\ d["vault"].of = {"launchpad"}
        BY <3>2 DEF Pads!DepositIx, Pads!FieldOf
      <3>4. ix.accounts["launchpad"] \in DOMAIN w.accounts
        BY <3>1, <3>2, <3>3 DEF Accepts
      <3> QED
        BY <2>2, <3>4
    <2>4. PICK l, n, before : /\ l = w.accounts[Pads!Pad] /\ n = Pads!Deposited(l, ix)
                              /\ before = IF DepositFor(o) \in DOMAIN w.accounts
                                          THEN w.accounts[DepositFor(o)].amount ELSE 0
      OBVIOUS
    <2>5. IsPad(l) /\ l.claimed \in BOOLEAN
      BY <2>3, <2>4 DEF PadEnv, PadWorld
    <2>6. Pads!Depositing(l) /\ n > 0
      <3>1. Pads!Depositing(l) /\ Pads!WithinCaps(w, l, DepositFor(o), ix)
        BY <2>1, <2>2, <2>4 DEF Pads!Allowed
      <3> QED
        BY <2>4, <3>1 DEF Pads!WithinCaps
    <2>7. n \in Nat
      <3>1. n = IF ix.autoCap /\ ix.amount > l.maxCap - l.total THEN l.maxCap - l.total
                ELSE ix.amount
        BY <2>4 DEF Pads!Deposited
      <3>2. n \in {ix.amount, l.maxCap - l.total}
        BY <3>1
      <3>3. l.maxCap \in Nat /\ l.total \in Nat /\ ix.amount \in Nat
        BY <2>2, <2>5 DEF IsPad
      <3> QED
        BY <2>6, <3>2, <3>3
    <2>8. before = paid[o] /\ paid[o] \in Nat /\ paid \in [Depositors -> Nat]
      BY <2>2, <2>4 DEF PadEnv, PadWorld, PadDeposits
    <2>9. PICK u : u = Moved(w, PadVault, -n)
      OBVIOUS
    <2>10. /\ TokensOnly(u, w) /\ NatTokens(u.tokens) /\ DOMAIN u.tokens = DOMAIN w.tokens
           /\ u.tokens[PadVault] = w.tokens[PadVault] + n
      <3>1. PICK m \in Int : m = -n
        BY <2>7
      <3>2. IsWorld(w) /\ NatTokens(w.tokens) /\ PadVault \in DOMAIN w.tokens
        BY <2>3 DEF PadEnv, PadWorld
      <3>3. w.tokens[PadVault] \in Nat
        BY <3>2 DEF NatTokens
      <3>4. m <= w.tokens[PadVault]
        BY <2>7, <3>1, <3>3
      <3>5. /\ TokensOnly(u, w) /\ NatTokens(u.tokens) /\ DOMAIN u.tokens = DOMAIN w.tokens
            /\ u.tokens[PadVault] = w.tokens[PadVault] - m
        BY <2>9, <3>1, <3>2, <3>4, MovedIs
      <3> QED
        BY <2>7, <3>1, <3>3, <3>5
    <2>11. PICK raised, d, accs :
             /\ raised = [w.accounts EXCEPT ![Pads!Pad].total = l.total + n]
             /\ d = [launchpad |-> Pads!Pad, owner |-> o, claimed |-> FALSE,
                     amount |-> paid[o] + n]
             /\ accs = Stored(raised, DepositFor(o), d)
      OBVIOUS
    <2>12. e = [u EXCEPT !.accounts = accs]
      <3>1. e = [Pads!Moved(w, PadVault, -n) EXCEPT
                  !.accounts = Pads!Stored([w.accounts EXCEPT ![Pads!Pad].total = @ + n],
                      DepositFor(o),
                      [launchpad |-> Pads!Pad, owner |-> o, claimed |-> FALSE,
                       amount |-> Pads!DepositOf(w, DepositFor(o)) + n])]
        BY <2>1, <2>2, <2>4 DEF Pads!Effect
      <3>2. Pads!DepositOf(w, DepositFor(o)) = before
        BY <2>4, PadsSame DEF Pads!DepositOf, Exists
      <3>3. [w.accounts EXCEPT ![Pads!Pad].total = @ + n] = raised
        BY <2>4, <2>11
      <3>4. e = [Moved(w, PadVault, -n) EXCEPT !.accounts = Stored(raised, DepositFor(o), d)]
        BY <2>8, <2>11, <3>1, <3>2, <3>3, PadsSame
      <3> QED
        BY <2>9, <2>11, <3>4
    <2>13. IsWorld(e) /\ e.accounts = accs /\ e.tokens = u.tokens
      BY <2>10, <2>12 DEF IsWorld, TokensOnly
    <2>14. PICK m : m = [l EXCEPT !.total = l.total + n]
      OBVIOUS
    <2>15. IsPad(m) /\ m.claimed = l.claimed /\ m.price = l.price
           /\ m.depositingEnd = l.depositingEnd
      <3>1. l.total \in Nat
        BY <2>5 DEF IsPad
      <3>2. l.total + n \in Nat
        BY <2>7, <3>1
      <3> QED
        BY <2>5, <2>14, <3>2 DEF IsPad
    <2>16. /\ DOMAIN accs = DOMAIN w.accounts \cup {DepositFor(o)}
           /\ accs[Pads!Pad] = m /\ accs[DepositFor(o)] = d
           /\ \A a \in DOMAIN w.accounts \ {Pads!Pad, DepositFor(o)} : accs[a] = w.accounts[a]
      <3>1. /\ DOMAIN raised = DOMAIN w.accounts /\ raised[Pads!Pad] = m
            /\ \A a \in DOMAIN w.accounts \ {Pads!Pad} : raised[a] = w.accounts[a]
        BY <2>3, <2>4, <2>11, <2>14
      <3>2. /\ DOMAIN accs = DOMAIN raised \cup {DepositFor(o)} /\ accs[DepositFor(o)] = d
            /\ \A a \in DOMAIN raised \ {DepositFor(o)} : accs[a] = raised[a]
        BY <2>11 DEF Stored
      <3> QED
        BY <2>3, <3>1, <3>2, PadAddresses
    <2>17. PICK more : more = [paid EXCEPT ![o] = paid[o] + n]
      OBVIOUS
    <2>18. /\ more \in [Depositors -> Nat] /\ more[o] = paid[o] + n
           /\ \A p \in Depositors \ {o} : more[p] = paid[p]
      BY <2>2, <2>7, <2>8, <2>17
    <2>19. Summing(more, Depositors)[Depositors] = Summing(paid, Depositors)[Depositors] + n
      <3>1. PICK S : S = Depositors
        OBVIOUS
      <3>2. IsFiniteSet(S) /\ paid \in [S -> Int] /\ more \in [S -> Int] /\ S \in SUBSET S
            /\ o \in S /\ \A y \in S \ {o} : paid[y] = more[y]
        BY <2>2, <2>8, <2>18, <3>1, ProgramAssumption
      <3>3. Summing(more, S)[S] = Summing(paid, S)[S] - paid[o] + more[o]
        BY <3>2, SumChanged
      <3>4. Summing(paid, S)[S] \in Int
        <4>1. IsFiniteSet(S) /\ paid \in [S -> Int]
          BY <3>2
        <4>2. IsSum(Summing(paid, S), paid, S)
          BY <4>1, SummingIsSum
        <4> QED
          BY <4>2 DEF IsSum
      <3> QED
        BY <2>7, <2>8, <2>18, <3>1, <3>3, <3>4
    <2>20. PadDeposits(accs, more)
      <3> SUFFICES ASSUME NEW p \in Depositors
                   PROVE  IF DepositFor(p) \in DOMAIN accs
                          THEN IsDeposit(accs[DepositFor(p)], p) /\ accs[DepositFor(p)].amount = more[p]
                          ELSE more[p] = 0
        BY DEF PadDeposits
      <3>1. CASE p = o
        <4>1. IsDeposit(d, o) /\ d.amount = paid[o] + n
          BY <2>7, <2>8, <2>11 DEF IsDeposit
        <4> QED
          BY <2>16, <2>18, <3>1, <4>1
      <3>2. CASE p # o
        <4>1. DepositFor(p) # DepositFor(o) /\ DepositFor(p) # Pads!Pad
          BY <3>2, PadAddresses
        <4>2. /\ DepositFor(p) \in DOMAIN accs <=> DepositFor(p) \in DOMAIN w.accounts
              /\ DepositFor(p) \in DOMAIN accs => accs[DepositFor(p)] = w.accounts[DepositFor(p)]
          BY <2>16, <4>1
        <4> QED
          BY <2>18, <3>2, <4>2 DEF PadEnv, PadWorld, PadDeposits
      <3> QED
        BY <3>1, <3>2
    <2>21. \A p \in Depositors : StreamOf(p) \notin DOMAIN accs
      <3> SUFFICES ASSUME NEW p \in Depositors, StreamOf(p) \in DOMAIN accs PROVE FALSE
        OBVIOUS
      <3>1. StreamOf(p) \in DOMAIN w.accounts
        BY <2>16, PadAddresses
      <3>2. now >= l.depositingEnd
        BY <2>4, <3>1 DEF PadEnv, PadWorld, PadStreams
      <3>3. now \in Nat /\ l.depositingEnd \in Nat
        BY <2>5 DEF PadEnv, PadWorld, IsPad
      <3>4. now < l.depositingEnd
        BY <2>6 DEF Pads!Depositing
      <3> QED
        BY <3>2, <3>3, <3>4
    <2>22. PadStreams(accs, more, now)
      BY <2>21 DEF PadStreams
    <2>23. PadWorld(accs, u.tokens, more, now)
      <3>1. PadVault \in DOMAIN u.tokens /\ Pads!Pad \in DOMAIN accs
        BY <2>3, <2>10, <2>16 DEF PadEnv, PadWorld
      <3>2. DOMAIN accs \subseteq {Pads!Pad} \cup {DepositFor(q) : q \in Depositors}
                               \cup {StreamOf(q) : q \in Depositors}
        BY <2>2, <2>16 DEF PadEnv, PadWorld
      <3>3. ~l.claimed => w.tokens[PadVault] = Summing(paid, Depositors)[Depositors]
        BY <2>3, <2>4 DEF PadEnv, PadWorld
      <3>4. ~m.claimed => u.tokens[PadVault] = Summing(more, Depositors)[Depositors]
        BY <2>10, <2>15, <2>19, <3>3
      <3>5. now \in Nat
        BY DEF PadEnv, PadWorld
      <3> QED
        BY <2>5, <2>10, <2>15, <2>16, <2>18, <2>20, <2>22, <3>1, <3>2, <3>4, <3>5 DEF PadWorld
    <2>24. IsWorld(w) /\ IsWorld(e)
      BY <2>13 DEF PadEnv
    <2>25. IsWorld(v) /\ v.accounts = e.accounts /\ v.tokens = e.tokens
      BY <1>1, <1>3, <2>24, ExecutedDoes
    <2>26. PadEnv(v, more) /\ v.tokens[PadVault] = w.tokens[PadVault] + n
      BY <2>10, <2>13, <2>23, <2>25 DEF PadEnv
    <2> QED
      BY <1>1, <2>3, <2>7, <2>17, <2>26
  <1> QED
    BY <1>2, <1>3

-----------------------------------------------------------------------------
(* The transactions of the client, written out.                            *)
CreateTxn(offer, accs) ==
    [op |-> "createLaunchpad",
     accounts |-> Completed(Pads!CreateLaunchpadIx, CreateNamed(offer), CreateArgs(offer), accs),
     args |-> CreateArgs(offer)]

DepositTxn(payer, owner, arg, accs) ==
    [op |-> "deposit", amount |-> arg.amount, autoCap |-> arg.autoCap,
     accounts |-> Completed(Pads!DepositIx, DepositNamed(payer, owner), <<>>, accs)]

ClaimDepositsTxn(accs) ==
    [op |-> "claimDeposits",
     accounts |-> Completed(Pads!ClaimDepositsIx, ClaimDepositsNamed(Pads!Authority), <<>>, accs),
     args |-> <<>>]

VestedTxn(payer, owner, accs) ==
    [op |-> "claimAllocatedVested",
     accounts |-> Completed(Pads!ClaimAllocatedVestedIx, VestedNamed(payer, owner), <<>>, accs),
     args |-> <<>>]

Memo == [op |-> "memo"]
OpenFunds == [op |-> "createAta", account |-> PadFunds]
FundTransfer ==
    [op |-> "transfer", from |-> TokenAccount(Pads!Base, Pads!Authority), to |-> PadFunds,
     amount |-> FundAmount]

IsBuilt(c, name, invoker, ixs) ==
    c.stage = "built" /\ c.name = name /\ c.invoker = invoker /\ c.ixs = ixs

PadBuilt(c, accs, toks) ==
    IF Pads!Pad \notin DOMAIN accs
    THEN \E offer \in Offers : IsBuilt(c, "create", Pads!Authority, <<CreateTxn(offer, accs)>>)
    ELSE \/ IsBuilt(c, "fund", Pads!Authority,
                    IF PadFunds \in DOMAIN toks THEN <<FundTransfer>>
                    ELSE <<OpenFunds, FundTransfer>>)
         \/ \E payer \in Depositors, owner \in Depositors, arg \in DepositArgs :
              /\ IsBuilt(c, "deposit", payer,
                         IF arg.memo THEN <<Memo, DepositTxn(payer, owner, arg, accs)>>
                         ELSE <<DepositTxn(payer, owner, arg, accs)>>)
              /\ c.owner = owner
         \/ IsBuilt(c, "claimDeposits", Pads!Authority, <<ClaimDepositsTxn(accs)>>)
         \/ \E payer \in Depositors, owner \in Depositors :
              /\ DepositFor(owner) \in DOMAIN accs
              /\ IsBuilt(c, "claimAllocatedVested", payer, <<VestedTxn(payer, owner, accs)>>)

(* What is built, whatever changes before it lands.                        *)
Preparing == {"createAta", "wrap", "memo"}

PadCall(c) ==
    /\ c.stage = "built"
    /\ IF c.name = "deposit"
       THEN /\ c.owner \in Depositors
            /\ \E d : DepositIx(d, c.owner) /\ c.ixs \in {<<d>>, <<Memo, d>>}
       ELSE \E a : PlainIx(a) /\ a.op \notin Preparing /\ c.ixs \in {<<a>>, <<OpenFunds, a>>}

LEMMA PadBuildsCreate ==
    ASSUME NEW offer \in Offers, Pads!Pad \notin DOMAIN accounts
    PROVE  PadBuilt(Pads!Create(offer), accounts, tokens)
  <1>1. PICK ix : ix = [op |-> "createLaunchpad",
          accounts |-> Pads!Completed(Pads!CreateLaunchpadIx, CreateNamed(offer),
                                      CreateArgs(offer), accounts),
          args |-> CreateArgs(offer)]
    OBVIOUS
  <1>2. Pads!CreateLaunchpadIxs(Pads!Authority, offer) = <<ix>>
    BY <1>1 DEF Pads!CreateLaunchpadIxs, Pads!Completing, CreateNamed, CreateArgs
  <1>3. ix = CreateTxn(offer, accounts)
    BY <1>1, PadsAnchorSame DEF CreateTxn
  <1>4. Pads!Create(offer) = [stage |-> "built", name |-> "create", invoker |-> Pads!Authority,
                              ixs |-> <<CreateTxn(offer, accounts)>>]
    BY <1>2, <1>3 DEF Pads!Create, Pads!Built
  <1> QED
    BY <1>4 DEF PadBuilt, IsBuilt

LEMMA PadBuildsFund ==
    ASSUME Pads!Pad \in DOMAIN accounts, IsPad(accounts[Pads!Pad])
    PROVE  PadBuilt(Pads!Fund(Pads!Authority), accounts, tokens)
  <1>1. Pads!Launchpad.baseMint = Pads!Base
    BY DEF Pads!Launchpad, IsPad
  <1>2. PICK t : t = FundTransfer
    OBVIOUS
  <1>3. Pads!FundLaunchpadIxs(Pads!Authority) = Pads!EnsureAta(Pads!Pad, Pads!Base) \o <<t>>
    BY <1>1, <1>2, PadsSame DEF Pads!FundLaunchpadIxs, FundTransfer, PadFunds
  <1>4. Pads!EnsureAta(Pads!Pad, Pads!Base)
          = IF PadFunds \in DOMAIN tokens THEN <<>> ELSE <<OpenFunds>>
    BY PadsSame DEF Pads!EnsureAta, Pads!CreateAta, OpenFunds, PadFunds
  <1>5. Pads!FundLaunchpadIxs(Pads!Authority)
          = IF PadFunds \in DOMAIN tokens THEN <<t>> ELSE <<OpenFunds, t>>
    BY <1>3, <1>4
  <1>6. Pads!Fund(Pads!Authority)
          = [stage |-> "built", name |-> "fund", invoker |-> Pads!Authority,
             ixs |-> IF PadFunds \in DOMAIN tokens THEN <<t>> ELSE <<OpenFunds, t>>]
    BY <1>5 DEF Pads!Fund, Pads!Built
  <1> QED
    BY <1>2, <1>6 DEF PadBuilt, IsBuilt

LEMMA PadBuildsDeposit ==
    ASSUME Pads!Pad \in DOMAIN accounts, IsPad(accounts[Pads!Pad]),
           NEW payer \in Depositors, NEW owner \in {Pads!Unset} \cup (Depositors \ {payer}),
           NEW arg \in DepositArgs
    PROVE  PadBuilt(Pads!Deposit(payer, owner, arg), accounts, tokens)
  <1>1. Pads!Launchpad.quoteMint = Pads!Quote
    BY DEF Pads!Launchpad, IsPad
  <1>2. PICK o : o = IF owner = Pads!Unset THEN payer ELSE owner
    OBVIOUS
  <1>3. o \in Depositors /\ Pads!OwnerOrPayer(owner, payer) = o
    BY <1>2 DEF Pads!OwnerOrPayer, Pads!OrElse
  <1>4. PICK d : d = DepositTxn(payer, o, arg, accounts)
    OBVIOUS
  <1>5. d = [op |-> "deposit", amount |-> arg.amount, autoCap |-> arg.autoCap,
             accounts |-> Pads!Completed(Pads!DepositIx,
                 [payer |-> payer, owner |-> Pads!OwnerOrPayer(owner, payer),
                  launchpad |-> Pads!Pad,
                  from |-> Pads!TokenAccount(Pads!Launchpad.quoteMint, payer)], <<>>, accounts)]
    <2>1. PICK given : given = DepositNamed(payer, o)
      OBVIOUS
    <2>2. given = [payer |-> payer, owner |-> Pads!OwnerOrPayer(owner, payer),
                   launchpad |-> Pads!Pad,
                   from |-> Pads!TokenAccount(Pads!Launchpad.quoteMint, payer)]
      BY <1>1, <1>3, <2>1 DEF DepositNamed
    <2>3. d = [op |-> "deposit", amount |-> arg.amount, autoCap |-> arg.autoCap,
               accounts |-> Pads!Completed(Pads!DepositIx, given, <<>>, accounts)]
      BY <1>4, <2>1, PadsAnchorSame DEF DepositTxn
    <2> QED
      BY <2>2, <2>3
  <1>6. Pads!DepositIxs(payer, owner, arg) = Pads!MemoFirst(arg.memo, <<d>>)
    BY <1>5 DEF Pads!DepositIxs
  <1>7. Pads!MemoFirst(arg.memo, <<d>>) = IF arg.memo THEN <<Memo, d>> ELSE <<d>>
    <2>1. PICK m : m = Memo
      OBVIOUS
    <2>2. Pads!MemoFirst(arg.memo, <<d>>) = IF arg.memo THEN <<m>> \o <<d>> ELSE <<d>>
      BY <2>1, Zenon DEF Pads!MemoFirst, Memo
    <2>3. <<m>> \o <<d>> = <<m, d>>
      BY PrefixedOne
    <2> QED
      BY <2>1, <2>2, <2>3, Zenon
  <1>8. PICK ixs : ixs = IF arg.memo THEN <<Memo, d>> ELSE <<d>>
    OBVIOUS
  <1>9. PICK f, g : /\ f = [stage |-> "built", name |-> "deposit", invoker |-> payer, ixs |-> ixs]
                    /\ g = [owner |-> o]
    OBVIOUS
  <1>10. Pads!Deposit(payer, owner, arg) = Merged(f, g)
    BY <1>2, <1>6, <1>7, <1>8, <1>9, PadsSame DEF Pads!Deposit, Pads!Built
  <1>11. PICK c : c = Merged(f, g)
    OBVIOUS
  <1>12. c.stage = "built" /\ c.name = "deposit" /\ c.invoker = payer /\ c.ixs = ixs /\ c.owner = o
    BY <1>9, <1>11 DEF Merged
  <1>13. IsBuilt(c, "deposit", payer, IF arg.memo THEN <<Memo, d>> ELSE <<d>>) /\ c.owner = o
    BY <1>8, <1>12 DEF IsBuilt
  <1>14. PadBuilt(c, accounts, tokens)
    BY <1>3, <1>4, <1>13 DEF PadBuilt
  <1> QED
    BY <1>10, <1>11, <1>14

LEMMA PadBuildsClaimDeposits ==
    ASSUME Pads!Pad \in DOMAIN accounts
    PROVE  PadBuilt(Pads!ClaimDeposits(Pads!Authority), accounts, tokens)
  <1>1. PICK ix : ix = ClaimDepositsTxn(accounts)
    OBVIOUS
  <1>2. Pads!ClaimDepositsIxs(Pads!Authority) = <<ix>>
    BY <1>1, PadsAnchorSame
       DEF Pads!ClaimDepositsIxs, Pads!Completing, ClaimDepositsTxn, ClaimDepositsNamed
  <1>3. Pads!ClaimDeposits(Pads!Authority)
          = [stage |-> "built", name |-> "claimDeposits", invoker |-> Pads!Authority,
             ixs |-> <<ix>>]
    BY <1>2 DEF Pads!ClaimDeposits, Pads!Built
  <1> QED
    BY <1>1, <1>3 DEF PadBuilt, IsBuilt

LEMMA PadBuildsVested ==
    ASSUME Pads!Pad \in DOMAIN accounts, IsPad(accounts[Pads!Pad]),
           NEW payer \in Depositors, NEW owner \in Depositors,
           DepositFor(owner) \in DOMAIN accounts
    PROVE  PadBuilt(Pads!ClaimAllocatedVested(payer, owner), accounts, tokens)
  <1>1. Pads!Launchpad.baseMint = Pads!Base
    BY DEF Pads!Launchpad, IsPad
  <1>2. Pads!OwnerOrPayer(owner, payer) = owner
    BY ProgramAssumption DEF Pads!OwnerOrPayer, Pads!OrElse
  <1>3. PICK ix : ix = VestedTxn(payer, owner, accounts)
    OBVIOUS
  <1>4. Pads!ClaimAllocatedVestedIxs(payer, owner) = <<ix>>
    BY <1>1, <1>2, <1>3, PadsAnchorSame
       DEF Pads!ClaimAllocatedVestedIxs, Pads!Completing, VestedTxn, VestedNamed, StreamOf,
           DepositFor
  <1>5. Pads!ClaimAllocatedVested(payer, owner)
          = [stage |-> "built", name |-> "claimAllocatedVested", invoker |-> payer,
             ixs |-> <<ix>>]
    BY <1>4 DEF Pads!ClaimAllocatedVested, Pads!Built
  <1> QED
    BY <1>3, <1>5 DEF PadBuilt, IsBuilt

LEMMA PadBuilds ==
    ASSUME PadWorld(accounts, tokens, paidFor, now), NEW c \in Pads!Buildable
    PROVE  PadBuilt(c, accounts, tokens)
  <1>1. CASE Pads!Pad \notin DOMAIN accounts
    <2>0. ~Pads!Created
      BY <1>1 DEF Pads!Created
    <2>1. Pads!Buildable = {Pads!Create(offer) : offer \in {o \in Offers : Pads!OracleNamed(o)}}
      BY <2>0 DEF Pads!Buildable
    <2>2. PICK offer \in Offers : c = Pads!Create(offer)
      BY <2>1
    <2> QED
      BY <1>1, <2>2, PadBuildsCreate
  <1>2. CASE Pads!Pad \in DOMAIN accounts
    <2>1. IsPad(accounts[Pads!Pad])
      BY <1>2 DEF PadWorld
    <2>2. CASE \E payer \in Depositors : \E owner \in {Pads!Unset} \cup (Depositors \ {payer}),
                  arg \in DepositArgs : c = Pads!Deposit(payer, owner, arg)
      BY <1>2, <2>1, <2>2, PadBuildsDeposit
    <2>3. CASE c \in Pads!Claims
      <3>1. PICK payer \in Depositors,
                 owner \in {o \in Depositors : DepositFor(o) \in DOMAIN accounts} :
              c = Pads!ClaimAllocatedVested(payer, owner)
        BY <2>3 DEF Pads!Claims, DepositFor
      <3> QED
        BY <1>2, <2>1, <3>1, PadBuildsVested
    <2>4. CASE c = Pads!ClaimDeposits(Pads!Authority)
      BY <1>2, <2>4, PadBuildsClaimDeposits
    <2>5. CASE c = Pads!Fund(Pads!Authority)
      BY <1>2, <2>1, <2>5, PadBuildsFund
    <2>6. Pads!Created
      BY <1>2 DEF Pads!Created
    <2>7. Pads!Buildable =
            (UNION {{Pads!Deposit(payer, owner, arg) :
                       owner \in {Pads!Unset} \cup (Depositors \ {payer}), arg \in DepositArgs} :
                    payer \in Depositors})
            \cup Pads!Claims \cup {Pads!ClaimDeposits(Pads!Authority)}
            \cup {Pads!Fund(a) : a \in {b \in {Pads!Authority} : Pads!Funds(Pads!World) <= MaxFunds}}
      BY <2>6 DEF Pads!Buildable
    <2> DEFINE A == UNION {{Pads!Deposit(payer, owner, arg) :
                      owner \in {Pads!Unset} \cup (Depositors \ {payer}), arg \in DepositArgs} :
                   payer \in Depositors}
               D == {Pads!Fund(a) : a \in {b \in {Pads!Authority} : Pads!Funds(Pads!World) <= MaxFunds}}
    <2>8. Pads!Buildable = A \cup Pads!Claims \cup {Pads!ClaimDeposits(Pads!Authority)} \cup D
      BY <2>7 DEF A, D
    <2>10. c \in D => c = Pads!Fund(Pads!Authority)
      OBVIOUS
    <2>11. c \in A => \E payer \in Depositors : \E owner \in {Pads!Unset} \cup (Depositors \ {payer}),
                  arg \in DepositArgs : c = Pads!Deposit(payer, owner, arg)
      OBVIOUS
    <2> HIDE DEF A, D
    <2>9. c \in A \/ c \in Pads!Claims \/ c = Pads!ClaimDeposits(Pads!Authority) \/ c \in D
      BY <2>8
    <2> QED
      BY <2>2, <2>3, <2>4, <2>5, <2>9, <2>10, <2>11
  <1> QED
    BY <1>1, <1>2

LEMMA PadBuiltIsCall ==
    ASSUME NEW accs, NEW toks, NEW paid, NEW t, PadWorld(accs, toks, paid, t),
           NEW c, PadBuilt(c, accs, toks)
    PROVE  PadCall(c)
  <1>1. ASSUME NEW offer \in Offers, IsBuilt(c, "create", Pads!Authority, <<CreateTxn(offer, accs)>>)
        PROVE  PadCall(c)
    <2>1. PICK ix : ix = CreateTxn(offer, accs)
      OBVIOUS
    <2>2. IsOffer(ix.args)
      <3>1. ix.args = CreateArgs(offer)
        BY <2>1 DEF CreateTxn
      <3>2. \A f \in OfferFields : ix.args[f] = offer[f]
        BY <3>1, CreateArgsAre
      <3>3. ix.args.price = offer.price /\ ix.args.maxCap = offer.maxCap
            /\ ix.args.individualCap = offer.individualCap
            /\ ix.args.depositingStart = offer.depositingStart
            /\ ix.args.depositingEnd = offer.depositingEnd
            /\ ix.args.vestingStart = offer.vestingStart
        BY <3>2 DEF OfferFields
      <3> QED
        BY <3>3, ProgramAssumption DEF IsOffer
    <2>3. PICK addr : addr = Completed(Pads!CreateLaunchpadIx, CreateNamed(offer),
                                       CreateArgs(offer), accs)
      OBVIOUS
    <2>4. /\ \A name \in DOMAIN CreateNamed(offer) : addr[name] = CreateNamed(offer)[name]
          /\ addr["launchpad"] = Pads!Pad /\ addr["vault"] = PadVault
      BY <2>3, CreateAddr
    <2>5. /\ addr["authority"] = Pads!Authority /\ addr["baseMint"] = Pads!Base
          /\ addr["quoteMint"] = Pads!Quote
          /\ addr["receiver"] = CreateNamed(offer)["receiver"]
          /\ addr["priceOracle"] = CreateNamed(offer)["priceOracle"]
      BY <2>4 DEF CreateNamed
    <2>6. addr["receiver"] # Missing /\ addr["priceOracle"] # Missing
      <3>1. Missing \notin {offer.receiver, offer.priceOracle}
        BY ProgramAssumption
      <3>2. Missing \notin {Pads!TokenAccount(Pads!Quote, Pads!Authority),
                            Pads!TestOraclePDA(Pads!Base, Pads!Authority)}
        BY DEF Missing, Pads!TokenAccount, Pads!TestOraclePDA
      <3> QED
        BY <2>5, <3>1, <3>2 DEF CreateNamed, Pads!OrElse
    <2>7. ix.op = "createLaunchpad" /\ ix.accounts = addr
      BY <2>1, <2>3 DEF CreateTxn
    <2>8. CreateIx(ix)
      BY <2>2, <2>4, <2>5, <2>6, <2>7 DEF CreateIx
    <2> QED
      BY <1>1, <2>1, <2>7, <2>8 DEF PadCall, IsBuilt, PlainIx, Preparing
  <1>2. ASSUME NEW toks2,
               IsBuilt(c, "fund", Pads!Authority,
                    IF PadFunds \in DOMAIN toks2 THEN <<FundTransfer>>
                    ELSE <<OpenFunds, FundTransfer>>)
        PROVE  PadCall(c)
    <2>1. PICK ix : ix = FundTransfer
      OBVIOUS
    <2>2. PlainIx(ix) /\ ix.op = "transfer"
      BY <2>1, ProgramAssumption DEF FundTransfer, PlainIx
    <2>3. c.stage = "built" /\ c.name = "fund" /\ c.ixs \in {<<ix>>, <<OpenFunds, ix>>}
      BY <1>2, <2>1 DEF IsBuilt
    <2> QED
      BY <2>2, <2>3 DEF PadCall, Preparing
  <1>3. ASSUME NEW payer \in Depositors, NEW owner \in Depositors, NEW arg \in DepositArgs,
               IsBuilt(c, "deposit", payer,
                         IF arg.memo THEN <<Memo, DepositTxn(payer, owner, arg, accs)>>
                         ELSE <<DepositTxn(payer, owner, arg, accs)>>),
               c.owner = owner, Pads!Pad \in DOMAIN accs
        PROVE  PadCall(c)
    <2>1. PICK d, addr : d = DepositTxn(payer, owner, arg, accs)
              /\ addr = Completed(Pads!DepositIx, DepositNamed(payer, owner), <<>>, accs)
      OBVIOUS
    <2>2. payer # Missing /\ owner # Missing /\ IsPad(accs[Pads!Pad])
      BY <1>3, ProgramAssumption DEF PadWorld
    <2>3. /\ \A name \in DOMAIN DepositNamed(payer, owner) :
                    addr[name] = DepositNamed(payer, owner)[name]
          /\ addr["depositAccount"] = DepositFor(owner) /\ addr["vault"] = PadVault
      BY <1>3, <2>1, <2>2, DepositAddr
    <2>4. addr["launchpad"] = Pads!Pad /\ addr["owner"] = owner
      BY <2>3 DEF DepositNamed
    <2>5. d.op = "deposit" /\ d.amount = arg.amount /\ d.accounts = addr
      BY <2>1 DEF DepositTxn
    <2>6. DepositIx(d, owner)
      BY <2>3, <2>4, <2>5, ProgramAssumption DEF DepositIx
    <2>7. c.stage = "built" /\ c.name = "deposit" /\ c.ixs \in {<<d>>, <<Memo, d>>}
      BY <1>3, <2>1 DEF IsBuilt
    <2> QED
      BY <1>3, <2>6, <2>7 DEF PadCall
  <1>4. ASSUME IsBuilt(c, "claimDeposits", Pads!Authority, <<ClaimDepositsTxn(accs)>>),
               Pads!Pad \in DOMAIN accs
        PROVE  PadCall(c)
    <2>1. PICK ix, addr : ix = ClaimDepositsTxn(accs)
              /\ addr = Completed(Pads!ClaimDepositsIx, ClaimDepositsNamed(Pads!Authority), <<>>, accs)
      OBVIOUS
    <2>2. Pads!Authority # Missing /\ IsPad(accs[Pads!Pad])
      BY <1>4, PadAddresses DEF PadWorld
    <2>3. addr["launchpad"] = Pads!Pad /\ addr["vault"] = PadVault
      BY <1>4, <2>1, <2>2, ClaimDepositsAddr
    <2>4. ix.op = "claimDeposits" /\ ix.accounts = addr
      BY <2>1 DEF ClaimDepositsTxn
    <2>5. PlainIx(ix)
      BY <2>3, <2>4 DEF PlainIx, ClaimDepositsIx
    <2> QED
      BY <1>4, <2>1, <2>4, <2>5 DEF PadCall, IsBuilt, Preparing
  <1>5. ASSUME NEW payer \in Depositors, NEW owner \in Depositors,
               DepositFor(owner) \in DOMAIN accs, Pads!Pad \in DOMAIN accs,
               IsBuilt(c, "claimAllocatedVested", payer, <<VestedTxn(payer, owner, accs)>>)
        PROVE  PadCall(c)
    <2>1. PICK ix, addr : ix = VestedTxn(payer, owner, accs)
              /\ addr = Completed(Pads!ClaimAllocatedVestedIx, VestedNamed(payer, owner), <<>>, accs)
      OBVIOUS
    <2>2. payer # Missing /\ owner # Missing /\ IsPad(accs[Pads!Pad])
          /\ IsDeposit(accs[DepositFor(owner)], owner)
      BY <1>5, ProgramAssumption DEF PadWorld, PadDeposits
    <2>3. /\ addr["launchpad"] = Pads!Pad /\ addr["owner"] = owner
          /\ addr["depositAccount"] = DepositFor(owner)
          /\ addr["streamMetadata"] = StreamOf(owner) /\ addr["from"] = PadFunds
      BY <1>5, <2>1, <2>2, VestedAddr
    <2>4. ix.op = "claimAllocatedVested" /\ ix.accounts = addr
      BY <2>1 DEF VestedTxn
    <2>5. PlainIx(ix)
      BY <2>3, <2>4 DEF PlainIx, VestedIx
    <2> QED
      BY <1>5, <2>1, <2>4, <2>5 DEF PadCall, IsBuilt, Preparing
  <1>6. CASE Pads!Pad \notin DOMAIN accs
    BY <1>1, <1>6 DEF PadBuilt
  <1>7. CASE Pads!Pad \in DOMAIN accs
    BY <1>2, <1>3, <1>4, <1>5, <1>7 DEF PadBuilt
  <1> QED
    BY <1>6, <1>7

-----------------------------------------------------------------------------
(* A call that takes effect.                                               *)
Crediting(c, v) ==
    IF c.name = "deposit" /\ v.ok
    THEN [paidFor EXCEPT ![c.owner] = paidFor[c.owner] + v.tokens[PadVault] - tokens[PadVault]]
    ELSE paidFor

LEMMA MemoDoes ==
    ASSUME program = "launchpad", NEW w, IsWorld(w), w.ok = TRUE, NEW invoker
    PROVE  LET v == Executed(w, Memo, invoker) IN
           /\ IsWorld(v) /\ v.ok = TRUE /\ v.accounts = w.accounts /\ v.tokens = w.tokens
           /\ v.done = w.done \cup {"memo"}
  <1>1. PICK v, e, m : v = Executed(w, m, invoker) /\ e = EffectOf(w, m, invoker) /\ m = Memo
    OBVIOUS
  <1>2. m.op = "memo"
    BY <1>1 DEF Memo
  <1>3. e = w
    BY <1>1, <1>2 DEF EffectOf, Pads!Effect
  <1>4. AllowedTo(w, m, invoker)
    BY <1>2 DEF AllowedTo, Pads!Allowed
  <1>5. /\ IsWorld(v) /\ v.ok = e.ok /\ v.accounts = e.accounts /\ v.tokens = e.tokens
        /\ v.done = e.done \cup {m.op}
    <2>1. IsWorld(e) /\ (w.ok /\ AllowedTo(w, m, invoker))
      BY <1>3, <1>4
    <2> QED
      BY <1>1, <2>1, ExecutedDoes
  <1> QED
    BY <1>1, <1>2, <1>3, <1>5

LEMMA PadRuns ==
    ASSUME program = "launchpad", PadWorld(accounts, tokens, paidFor, now), NEW c, PadCall(c)
    PROVE  LET v == RunOf(c.ixs, c.invoker) IN
           v.ok => PadEnv(v, Crediting(c, v)) /\ (c.name = "deposit" => Pads!Pad \in DOMAIN accounts)
  <1>1. PICK v, inv : v = RunOf(c.ixs, inv) /\ inv = c.invoker
    OBVIOUS
  <1>2. PICK w : w = World
    OBVIOUS
  <1>3. IsWorld(w) /\ w.ok = TRUE /\ w.accounts = accounts /\ w.tokens = tokens
    BY <1>2, WorldIsWorld
  <1>4. PadEnv(w, paidFor)
    BY <1>3 DEF PadEnv
  <1> SUFFICES ASSUME v.ok
               PROVE  PadEnv(v, Crediting(c, v)) /\ (c.name = "deposit" => Pads!Pad \in DOMAIN accounts)
    BY <1>1
  <1>5. CASE c.name # "deposit"
    <2>1. PICK a : PlainIx(a) /\ c.ixs \in {<<a>>, <<OpenFunds, a>>}
      BY <1>5 DEF PadCall
    <2>2. PICK b : b = OpenFunds
      OBVIOUS
    <2>3. PlainIx(b)
      BY <2>2 DEF PlainIx, OpenFunds
    <2>4. CASE c.ixs = <<a>>
      <3>1. v = Executed(w, a, inv)
        BY <1>1, <1>2, <2>4, RunOne
      <3>2. PadEnv(v, paidFor)
        BY <1>4, <2>1, <3>1, PlainDoes
      <3> QED
        BY <1>5, <3>2 DEF Crediting
    <2>5. CASE c.ixs = <<b, a>>
      <3>1. v = Executed(Executed(w, b, inv), a, inv)
        BY <1>1, <1>2, <2>5, RunTwo
      <3>2. PadEnv(Executed(w, b, inv), paidFor)
        BY <1>4, <2>3, PlainDoes
      <3>3. PadEnv(v, paidFor)
        BY <2>1, <3>1, <3>2, PlainDoes
      <3> QED
        BY <1>5, <3>3 DEF Crediting
    <2> QED
      BY <2>1, <2>2, <2>4, <2>5
  <1>6. CASE c.name = "deposit"
    <2>1. c.owner \in Depositors /\ \E d : DepositIx(d, c.owner) /\ c.ixs \in {<<d>>, <<Memo, d>>}
      BY <1>6 DEF PadCall
    <2>2. PICK o, d : o = c.owner /\ DepositIx(d, o) /\ c.ixs \in {<<d>>, <<Memo, d>>}
      BY <2>1
    <2>3. PICK u : u \in {w, Executed(w, Memo, inv)} /\ v = Executed(u, d, inv)
      <3>1. CASE c.ixs = <<d>>
        BY <1>1, <1>2, <3>1, RunOne
      <3>2. CASE c.ixs = <<Memo, d>>
        BY <1>1, <1>2, <3>2, RunTwo
      <3> QED
        BY <2>2, <3>1, <3>2
    <2>4. IsWorld(u) /\ u.accounts = accounts /\ u.tokens = tokens
      <3>1. LET m == Executed(w, Memo, inv) IN
            /\ IsWorld(m) /\ m.ok = TRUE /\ m.accounts = w.accounts /\ m.tokens = w.tokens
            /\ m.done = w.done \cup {"memo"}
        BY <1>3, MemoDoes
      <3> QED
        BY <1>3, <2>3, <3>1
    <2>5. PadEnv(u, paidFor)
      BY <2>4 DEF PadEnv
    <2>6. LET x == Executed(u, d, inv) IN
           \/ x.ok = FALSE /\ PadEnv(x, paidFor)
           \/ /\ Pads!Pad \in DOMAIN u.accounts
              /\ \E n \in Nat : /\ x.tokens[PadVault] = u.tokens[PadVault] + n
                                /\ PadEnv(x, [paidFor EXCEPT ![o] = paidFor[o] + n])
      BY <2>2, <2>5, DepositDoes
    <2>7. PICK n \in Nat : /\ Pads!Pad \in DOMAIN accounts
                           /\ v.tokens[PadVault] = tokens[PadVault] + n
                           /\ PadEnv(v, [paidFor EXCEPT ![o] = paidFor[o] + n])
      BY <2>3, <2>4, <2>6
    <2>8. tokens[PadVault] \in Nat /\ paidFor[o] \in Nat
      BY <2>1, <2>2, <2>7 DEF PadWorld, NatTokens
    <2>9. paidFor[o] + v.tokens[PadVault] - tokens[PadVault] = paidFor[o] + n
      BY <2>7, <2>8
    <2>10. Crediting(c, v) = [paidFor EXCEPT ![o] = paidFor[o] + n]
      BY <1>6, <2>2, <2>9 DEF Crediting
    <2> QED
      BY <2>7, <2>10
  <1> QED
    BY <1>5, <1>6

LEMMA PadTakes ==
    ASSUME program = "launchpad", PadWorld(accounts, tokens, paidFor, now), NEW c, PadCall(c),
           NEW w, w = RunOf(c.ixs, c.invoker), w.ok, accounts' = w.accounts, tokens' = w.tokens,
           now' = now, Pads!Credit(c, w)
    PROVE  PadWorld(accounts', tokens', paidFor', now')
  <1>1. PadEnv(w, Crediting(c, w)) /\ (c.name = "deposit" => Pads!Pad \in DOMAIN accounts)
    BY PadRuns
  <1>2. c.name = "deposit" => Pads!Launchpad.vault = PadVault
    BY <1>1 DEF PadWorld, IsPad, Pads!Launchpad
  <1>3. paidFor' = Crediting(c, w)
    <2>1. CASE c.name = "deposit"
      <3>1. PICK o, vault : o = c.owner /\ vault = Pads!Launchpad.vault
        OBVIOUS
      <3>2. paidFor' = [paidFor EXCEPT ![o] = paidFor[o] + w.tokens[vault] - tokens[vault]]
        BY <2>1, <3>1 DEF Pads!Credit
      <3> QED
        BY <1>2, <2>1, <3>1, <3>2 DEF Crediting
    <2>2. CASE c.name # "deposit"
      BY <2>2 DEF Pads!Credit, Crediting
    <2> QED
      BY <2>1, <2>2
  <1> QED
    BY <1>1, <1>3 DEF PadEnv

-----------------------------------------------------------------------------
PadInv ==
    /\ now \in 1..MaxTime /\ disturbed \in BOOLEAN
    /\ PadWorld(accounts, tokens, paidFor, now)
    /\ \/ call = Idle
       \/ PadCall(call) /\ (~disturbed => PadBuilt(call, accounts, tokens))

LEMMA PadInit ==
    ASSUME Init, program = "launchpad"
    PROVE  PadInv
  <1>1. Pads!Init
    BY DEF Init
  <1>2. now = 1 /\ accounts = <<>> /\ call = Idle /\ disturbed = FALSE
    BY <1>1 DEF Pads!Init, Pads!CallsInit, Idle, Pads!Idle
  <1>3. PICK S : S = {Pads!TokenAccount(Pads!Base, Pads!Authority)}
                       \cup {Pads!TokenAccount(Pads!Quote, o) : o \in Depositors}
    OBVIOUS
  <1>4. tokens = [a \in S |-> 0]
    BY <1>1, <1>3 DEF Pads!Init
  <1>5. PadVault \notin S
    BY <1>3, PadsSame, PadAddresses
  <1>6. paidFor = [o \in Depositors |-> 0]
    BY <1>1 DEF Pads!Init
  <1>7. DOMAIN accounts = {}
    <2>1. PICK e : e = <<>>
      OBVIOUS
    <2>2. DOMAIN e = {}
      BY <2>1
    <2> QED
      BY <1>2, <2>1, <2>2
  <1>8. NatTokens(tokens) /\ PadVault \notin DOMAIN tokens
    BY <1>4, <1>5 DEF NatTokens
  <1>9. paidFor \in [Depositors -> Nat] /\ \A o \in Depositors : paidFor[o] = 0
    BY <1>6
  <1>10. now \in Nat /\ now \in 1..MaxTime
    BY <1>2, ProgramAssumption
  <1>11. PadWorld(accounts, tokens, paidFor, now)
    BY <1>7, <1>8, <1>9, <1>10 DEF PadWorld, PadDeposits, PadStreams
  <1> QED
    BY <1>2, <1>10, <1>11 DEF PadInv

LEMMA PadTokensChange ==
    ASSUME NEW accs, NEW toks, NEW paid, NEW t, PadWorld(accs, toks, paid, t), NEW others,
           NatTokens(others), PadVault \in DOMAIN others <=> PadVault \in DOMAIN toks,
           PadVault \in DOMAIN toks => others[PadVault] = toks[PadVault]
    PROVE  PadWorld(accs, others, paid, t)
  BY DEF PadWorld

LEMMA PadLater ==
    ASSUME NEW accs, NEW toks, NEW paid, NEW t, PadWorld(accs, toks, paid, t)
    PROVE  PadWorld(accs, toks, paid, t + 1)
  <1>1. t \in Nat /\ t + 1 \in Nat
    BY DEF PadWorld
  <1>2. PadStreams(accs, paid, t + 1)
    <2> SUFFICES ASSUME NEW o \in Depositors, StreamOf(o) \in DOMAIN accs
                 PROVE  /\ t + 1 >= accs[Pads!Pad].depositingEnd
                        /\ DepositFor(o) \in DOMAIN accs /\ accs[DepositFor(o)].claimed = TRUE
                        /\ accs[StreamOf(o)].recipient = o
                        /\ accs[StreamOf(o)].amount = paid[o] \div accs[Pads!Pad].price
      BY DEF PadStreams
    <2>1. /\ t >= accs[Pads!Pad].depositingEnd
          /\ DepositFor(o) \in DOMAIN accs /\ accs[DepositFor(o)].claimed = TRUE
          /\ accs[StreamOf(o)].recipient = o
          /\ accs[StreamOf(o)].amount = paid[o] \div accs[Pads!Pad].price
      BY DEF PadWorld, PadStreams
    <2>2. accs[Pads!Pad].depositingEnd \in Nat
      BY DEF PadWorld, IsPad
    <2>3. t + 1 >= accs[Pads!Pad].depositingEnd
      BY <1>1, <2>1, <2>2
    <2> QED
      BY <2>1, <2>3
  <1> QED
    BY <1>1, <1>2 DEF PadWorld

LEMMA PadNext ==
    ASSUME PadInv, program = "launchpad", [Next]_vars
    PROVE  PadInv'
  <1>1. Idle = Pads!Idle /\ Idle.stage = "idle"
    BY DEF Idle, Pads!Idle
  <1>2. ASSUME Pads!Build
        PROVE  PadInv'
    <2>1. PICK c \in Pads!Buildable : Pads!Begin(c) /\ UNCHANGED paidFor
      BY <1>2 DEF Pads!Build
    <2>2. call' = c /\ disturbed' = FALSE /\ UNCHANGED <<now, accounts, tokens, paidFor>>
      BY <2>1 DEF Pads!Begin
    <2>3. PadBuilt(c, accounts, tokens)
      BY <2>1, PadBuilds DEF PadInv
    <2>4. PadCall(c)
      BY <2>3, PadBuiltIsCall DEF PadInv
    <2> QED
      BY <2>2, <2>3, <2>4 DEF PadInv
  <1>3. ASSUME Pads!Land
        PROVE  PadInv'
    <2>1. PadCall(call)
      BY <1>1, <1>3 DEF Pads!Land, PadInv
    <2>2. PICK w : w = RunOf(call.ixs, call.invoker)
      OBVIOUS
    <2>3. Pads!Outcome = w
      BY <2>2 DEF Pads!Outcome, Pads!Run, RunOf
    <2>4. Pads!LandWith(w) /\ Pads!Credit(call, w)
      BY <1>3, <2>3 DEF Pads!Land
    <2>5. call' = Idle /\ disturbed' = disturbed /\ now' = now
      BY <1>1, <2>4 DEF Pads!LandWith, Pads!TakesEffect
    <2>6. CASE w.ok /\ accounts' = w.accounts /\ tokens' = w.tokens
      <3>1. PadWorld(accounts', tokens', paidFor', now')
        BY <2>1, <2>2, <2>4, <2>5, <2>6, PadTakes DEF PadInv
      <3> QED
        BY <2>5, <3>1 DEF PadInv
    <2>7. CASE ~w.ok /\ UNCHANGED <<now, accounts, tokens>>
      <3>1. paidFor' = paidFor
        BY <2>4, <2>7 DEF Pads!Credit
      <3> QED
        BY <2>5, <2>7, <3>1 DEF PadInv
    <2> QED
      BY <2>4, <2>6, <2>7 DEF Pads!LandWith, Pads!TakesEffect
  <1>4. ASSUME Pads!OthersCall
        PROVE  PadInv'
    <2>1. PICK c \in Pads!Buildable : LET w == Pads!Run(c) IN Pads!TakesEffect(w) /\ Pads!Credit(c, w)
      BY <1>4 DEF Pads!OthersCall
    <2>2. PICK w : w = RunOf(c.ixs, c.invoker)
      OBVIOUS
    <2>3. Pads!Run(c) = w
      BY <2>2 DEF Pads!Run, RunOf
    <2>4. Pads!TakesEffect(w) /\ Pads!Credit(c, w)
      BY <2>1, <2>3
    <2>5. w.ok /\ accounts' = w.accounts /\ tokens' = w.tokens /\ now' = now
      BY <2>4 DEF Pads!TakesEffect
    <2>6. PadBuilt(c, accounts, tokens)
      BY <2>1, PadBuilds DEF PadInv
    <2>7. PadCall(c)
      BY <2>6, PadBuiltIsCall DEF PadInv
    <2>8. PadWorld(accounts', tokens', paidFor', now')
      BY <2>2, <2>4, <2>5, <2>7, PadTakes DEF PadInv
    <2>9. disturbed' = (call # Idle) /\ call' = call
      BY <1>1, <1>4 DEF Pads!OthersCall, Pads!Disturb
    <2> QED
      BY <2>5, <2>8, <2>9 DEF PadInv
  <1>5. ASSUME NEW a, a # PadVault, Pads!OpenAccount(a) \/ Pads!CloseAccount(a), UNCHANGED paidFor
        PROVE  PadInv'
    <2>1. PICK open, closed : /\ open = Stored(tokens, a, 0)
                              /\ closed = [b \in DOMAIN tokens \ {a} |-> tokens[b]]
      OBVIOUS
    <2>2. PICK toks \in {open, closed} : tokens' = toks
      BY <1>5, <2>1, PadsSame DEF Pads!OpenAccount, Pads!CloseAccount
    <2>3. Pads!Disturb /\ UNCHANGED <<now, accounts>>
      BY <1>5 DEF Pads!OpenAccount, Pads!CloseAccount
    <2>4. disturbed' = (call # Idle) /\ call' = call
      BY <1>1, <2>3 DEF Pads!Disturb
    <2>5. NatTokens(tokens)
      BY DEF PadInv, PadWorld
    <2>6. NatTokens(open) /\ (PadVault \in DOMAIN open <=> PadVault \in DOMAIN tokens)
          /\ (PadVault \in DOMAIN tokens => open[PadVault] = tokens[PadVault])
      BY <1>5, <2>1, <2>5 DEF NatTokens, Stored
    <2>7. NatTokens(closed) /\ (PadVault \in DOMAIN closed <=> PadVault \in DOMAIN tokens)
          /\ (PadVault \in DOMAIN tokens => closed[PadVault] = tokens[PadVault])
      BY <1>5, <2>1, <2>5 DEF NatTokens
    <2>8. PadWorld(accounts, toks, paidFor, now)
      BY <2>2, <2>6, <2>7, PadTokensChange DEF PadInv
    <2> QED
      BY <1>5, <2>2, <2>3, <2>4, <2>8 DEF PadInv
  <1>6. ASSUME Pads!Tick, UNCHANGED paidFor
        PROVE  PadInv'
    <2>1. now < MaxTime /\ now' = now + 1 /\ UNCHANGED <<accounts, tokens, call, disturbed>>
      BY <1>6 DEF Pads!Tick
    <2>2. now' \in 1..MaxTime
      BY <2>1, ProgramAssumption DEF PadInv
    <2>3. PadWorld(accounts, tokens, paidFor, now + 1)
      BY PadLater DEF PadInv
    <2> QED
      BY <1>6, <2>1, <2>2, <2>3 DEF PadInv
  <1>7. CASE UNCHANGED vars
    BY <1>7 DEF vars, callVars, PadInv
  <1>8. CASE LaunchpadStep
    <2>1. Pads!Next
      BY <1>8 DEF LaunchpadStep
    <2>2. ASSUME NEW mint, NEW owner, Pads!AccountChanges(mint, owner)
          PROVE  PadInv'
      <3>1. PICK a : a = Pads!TokenAccount(mint, owner)
        OBVIOUS
      <3>2. a # PadVault
        BY <3>1, PadsSame, PadAddresses
      <3> QED
        BY <1>5, <2>2, <3>1, <3>2 DEF Pads!AccountChanges
    <2>3. CASE Pads!OthersOpenForPad
      <3>1. PICK a : a = Pads!TokenAccount(Pads!Base, Pads!Pad)
        OBVIOUS
      <3>2. a # PadVault
        BY <3>1, PadsSame, PadAddresses
      <3> QED
        BY <1>5, <2>3, <3>1, <3>2 DEF Pads!OthersOpenForPad
    <2> QED
      BY <1>2, <1>3, <1>4, <1>6, <2>1, <2>2, <2>3 DEF Pads!Next
  <1> QED
    BY <1>7, <1>8 DEF Next, DistributorStep, FundingStep

LEMMA PadCredits ==
    ASSUME PadInv
    PROVE  Pads!CreditedToOwner
  <1> SUFFICES ASSUME Pads!Pad \in DOMAIN accounts
               PROVE  /\ \A o \in Depositors : Pads!DepositOf(Pads!World, DepositFor(o)) = paidFor[o]
                      /\ \A a \in DOMAIN accounts : a[1] = "stream" =>
                           accounts[a].amount
                             = Pads!Allocation(paidFor[accounts[a].recipient], Pads!Launchpad)
                      /\ ~Pads!Launchpad.claimed =>
                           tokens[Pads!Launchpad.vault]
                             = Pads!MapThenSumSet(LAMBDA o : paidFor[o], Depositors)
    BY DEF Pads!CreditedToOwner, Pads!Created, DepositFor
  <1>1. PadWorld(accounts, tokens, paidFor, now)
    BY DEF PadInv
  <1>2. ASSUME NEW o \in Depositors
        PROVE  Pads!DepositOf(Pads!World, DepositFor(o)) = paidFor[o]
    <2>1. Pads!DepositOf(World, DepositFor(o))
            = IF DepositFor(o) \in DOMAIN accounts THEN accounts[DepositFor(o)].amount ELSE 0
      BY WorldIsWorld, PadsSame DEF Pads!DepositOf, Exists
    <2> QED
      BY <1>1, <2>1, PadsSame DEF PadWorld, PadDeposits
  <1>3. ASSUME NEW a \in DOMAIN accounts, a[1] = "stream"
        PROVE  accounts[a].amount = Pads!Allocation(paidFor[accounts[a].recipient], Pads!Launchpad)
    <2>1. PICK o \in Depositors : a = StreamOf(o)
      BY <1>1, <1>3, PadAddresses DEF PadWorld
    <2>2. accounts[a].recipient = o /\ accounts[a].amount = paidFor[o] \div accounts[Pads!Pad].price
      BY <1>1, <2>1 DEF PadWorld, PadStreams
    <2> QED
      BY <2>2 DEF Pads!Allocation, Pads!Launchpad
  <1>4. ASSUME ~Pads!Launchpad.claimed
        PROVE  tokens[Pads!Launchpad.vault] = Pads!MapThenSumSet(LAMBDA o : paidFor[o], Depositors)
    <2>1. tokens[PadVault] = Summing(paidFor, Depositors)[Depositors] /\ Pads!Launchpad.vault = PadVault
      BY <1>1, <1>4 DEF PadWorld, IsPad, Pads!Launchpad
    <2>2. paidFor \in [Depositors -> Int] /\ IsFiniteSet(Depositors)
      BY <1>1, ProgramAssumption DEF PadWorld
    <2>3. Pads!MapThenSumSet(LAMBDA o : paidFor[o], Depositors) = Summing(paidFor, Depositors)[Depositors]
      BY <2>2, SumOfPaid
    <2> QED
      BY <2>1, <2>3
  <1> QED
    BY <1>2, <1>3, <1>4

-----------------------------------------------------------------------------
(* Whoever may do what is asked for succeeds.                              *)
LEMMA Changed ==
    ASSUME NEW w, IsWorld(w), NEW x, NEW v,
           v = [w EXCEPT !.accounts = x] \/ v = [w EXCEPT !.tokens = x]
    PROVE  IsWorld(v) /\ v.ok = w.ok /\ v.done = w.done
  BY DEF IsWorld

PadOp(ix) ==
    ix.op \in {"createAta", "memo", "transfer", "createLaunchpad", "deposit", "claimDeposits",
               "claimAllocatedVested"}

LEMMA PadEffectIs ==
    ASSUME NEW w, IsWorld(w), NEW ix, NEW invoker,
           PadOp(ix)
    PROVE  LET e == Pads!Effect(w, ix, invoker) IN IsWorld(e) /\ e.ok = w.ok /\ e.done = w.done
  <1>1. PICK e : e = Pads!Effect(w, ix, invoker)
    OBVIOUS
  <1>2. ASSUME NEW a
        PROVE  LET v == Pads!Opened(w, a) IN IsWorld(v) /\ v.ok = w.ok /\ v.done = w.done
    <2>1. PICK t : t = Pads!Stored(w.tokens, a, IF a \in DOMAIN w.tokens THEN w.tokens[a] ELSE 0)
      OBVIOUS
    <2>2. PICK v : v = Pads!Opened(w, a)
      OBVIOUS
    <2>3. v = [w EXCEPT !.tokens = t]
      BY <2>1, <2>2 DEF Pads!Opened
    <2>4. IsWorld(v) /\ v.ok = w.ok /\ v.done = w.done
      BY <2>3, Changed
    <2> QED
      BY <2>2, <2>4
  <1>3. ASSUME NEW a, NEW n
        PROVE  LET v == Pads!Moved(w, a, n) IN IsWorld(v) /\ v.ok = w.ok /\ v.done = w.done
    <2>1. PICK t : t = [w.tokens EXCEPT ![a] = w.tokens[a] - n]
      OBVIOUS
    <2>2. PICK v : v = Pads!Moved(w, a, n)
      OBVIOUS
    <2>3. v = [w EXCEPT !.tokens = t]
      BY <2>1, <2>2 DEF Pads!Moved
    <2>4. IsWorld(v) /\ v.ok = w.ok /\ v.done = w.done
      BY <2>3, Changed
    <2> QED
      BY <2>2, <2>4
  <1>4. ASSUME NEW v, NEW accs, IsWorld(v) /\ v.ok = w.ok /\ v.done = w.done,
               e = [v EXCEPT !.accounts = accs]
        PROVE  IsWorld(e) /\ e.ok = w.ok /\ e.done = w.done
    <2>1. IsWorld(e) /\ e.ok = v.ok /\ e.done = v.done
      BY <1>4, Changed
    <2> QED
      BY <1>4, <2>1
  <1>5. CASE ix.op = "createAta"
    BY <1>1, <1>2, <1>5 DEF Pads!Effect
  <1>6. CASE ix.op = "memo"
    BY <1>1, <1>6 DEF Pads!Effect
  <1>7. CASE ix.op = "transfer"
    BY <1>1, <1>3, <1>7 DEF Pads!Effect
  <1>8. CASE ix.op = "createLaunchpad"
    <2>1. PICK v, l, p : /\ v = Pads!Opened(w, ix.accounts.vault) /\ l = Pads!NewLaunchpad(ix)
                         /\ p = ix.accounts.launchpad
      OBVIOUS
    <2>2. e = [v EXCEPT !.accounts = Pads!Stored(@, p, l)]
      BY <1>1, <1>8, <2>1 DEF Pads!Effect
    <2>3. PICK accs : accs = Pads!Stored(v.accounts, p, l)
      OBVIOUS
    <2>4. e = [v EXCEPT !.accounts = accs]
      BY <2>2, <2>3
    <2> QED
      BY <1>1, <1>2, <1>4, <2>1, <2>4
  <1>9. CASE ix.op = "deposit"
    <2>1. PICK a, n, raised, d :
            /\ a = ix.accounts /\ n = Pads!Deposited(w.accounts[a.launchpad], ix)
            /\ raised = [w.accounts EXCEPT ![a.launchpad].total = @ + n]
            /\ d = [launchpad |-> a.launchpad, owner |-> a.owner, claimed |-> FALSE,
                    amount |-> Pads!DepositOf(w, a.depositAccount) + n]
      OBVIOUS
    <2>2. PICK v, accs : /\ v = Pads!Moved(w, a.vault, -n)
                         /\ accs = Pads!Stored(raised, a.depositAccount, d)
      OBVIOUS
    <2>3. e = [v EXCEPT !.accounts = accs]
      BY <1>1, <1>9, <2>1, <2>2 DEF Pads!Effect
    <2> QED
      BY <1>1, <1>3, <1>4, <2>2, <2>3
  <1>10. CASE ix.op = "claimDeposits"
    <2>1. PICK accs, toks, v :
            /\ accs = [w.accounts EXCEPT ![ix.accounts.launchpad].claimed = TRUE]
            /\ toks = [w.tokens EXCEPT ![ix.accounts.vault] = 0]
            /\ v = [w EXCEPT !.accounts = accs]
      OBVIOUS
    <2>2. e = [w EXCEPT !.accounts[ix.accounts.launchpad].claimed = TRUE,
                        !.tokens[ix.accounts.vault] = 0]
      BY <1>1, <1>10 DEF Pads!Effect
    <2>3. e = [w EXCEPT !.accounts = accs, !.tokens = toks]
      BY <2>1, <2>2
    <2> QED
      BY <1>1, <2>3 DEF IsWorld
  <1>11. CASE ix.op = "claimAllocatedVested"
    <2>1. PICK a, n, claimed, d :
            /\ a = ix.accounts
            /\ n = Pads!Allocation(w.accounts[a.depositAccount].amount, w.accounts[a.launchpad])
            /\ d = [recipient |-> a.owner, amount |-> n]
      OBVIOUS
    <2>2. PICK v : v = Pads!Moved(w, a.from, n)
      OBVIOUS
    <2>3. e = [v EXCEPT !.accounts = Pads!Stored([@ EXCEPT ![a.depositAccount].claimed = TRUE],
                                                 a.streamMetadata, d)]
      BY <1>1, <1>11, <2>1, <2>2 DEF Pads!Effect
    <2>4. PICK accs : accs = Pads!Stored([v.accounts EXCEPT ![a.depositAccount].claimed = TRUE],
                                         a.streamMetadata, d)
      OBVIOUS
    <2>5. e = [v EXCEPT !.accounts = accs]
      BY <2>3, <2>4
    <2> QED
      BY <1>1, <1>3, <1>4, <2>2, <2>5
  <1> QED
    BY <1>1, <1>5, <1>6, <1>7, <1>8, <1>9, <1>10, <1>11 DEF PadOp

LEMMA PadSucceeds ==
    ASSUME program = "launchpad", NEW w, IsWorld(w), w.ok = TRUE, NEW ix, NEW invoker,
           PadOp(ix),
           Pads!Allowed(w, ix, invoker), NEW v, v = Executed(w, ix, invoker)
    PROVE  IsWorld(v) /\ v.ok = TRUE
  <1>1. PICK e : e = EffectOf(w, ix, invoker)
    OBVIOUS
  <1>2. e = Pads!Effect(w, ix, invoker) /\ AllowedTo(w, ix, invoker)
    BY <1>1 DEF EffectOf, AllowedTo
  <1>3. IsWorld(e) /\ e.ok = TRUE
    BY <1>2, PadEffectIs
  <1>4. IsWorld(e) /\ (w.ok /\ AllowedTo(w, ix, invoker))
    BY <1>2, <1>3
  <1>5. IsWorld(v) /\ v.ok = e.ok
    BY <1>1, <1>4, ExecutedDoes
  <1> QED
    BY <1>1, <1>3, <1>5

LEMMA PadRunsOne ==
    ASSUME program = "launchpad", NEW ix, NEW invoker,
           PadOp(ix),
           Pads!Allowed(World, ix, invoker)
    PROVE  RunOf(<<ix>>, invoker).ok
  <1>1. PICK w : w = World
    OBVIOUS
  <1>2. IsWorld(w) /\ w.ok = TRUE
    BY <1>1, WorldIsWorld
  <1>3. PICK v : v = Executed(w, ix, invoker)
    OBVIOUS
  <1>4. IsWorld(v) /\ v.ok = TRUE
    BY <1>1, <1>2, <1>3, PadSucceeds
  <1> QED
    BY <1>1, <1>3, <1>4, RunOne

LEMMA CreateSucceeds ==
    ASSUME program = "launchpad", Pads!Pad \notin DOMAIN accounts, NEW offer \in Offers,
           IsBuilt(call, "create", Pads!Authority, <<CreateTxn(offer, accounts)>>), Pads!Due
    PROVE  RunOf(call.ixs, call.invoker).ok
  <1>1. PICK ix, addr :
          /\ ix = CreateTxn(offer, accounts)
          /\ addr = Completed(Pads!CreateLaunchpadIx, CreateNamed(offer), CreateArgs(offer), accounts)
    OBVIOUS
  <1>2. /\ ix.op = "createLaunchpad" /\ ix.accounts = addr /\ ix.args = CreateArgs(offer)
    BY <1>1 DEF CreateTxn
  <1>3. call.name = "create" /\ call.ixs = <<ix>> /\ call.invoker = Pads!Authority
    BY <1>1 DEF IsBuilt
  <1>4. PadOp(ix)
    BY <1>2 DEF PadOp
  <1>5. /\ Pads!ValidPeriods(ix.args)
        /\ IF ix.args.receiver = Pads!Unset
           THEN Pads!TokenAccount(Pads!Quote, Pads!Authority) \in DOMAIN tokens
           ELSE ix.args.receiver \in DOMAIN tokens
    <2>1. PICK i : i = CHOOSE j \in DOMAIN call.ixs : call.ixs[j].op \notin {"createAta", "memo"}
      OBVIOUS
    <2>2. DOMAIN call.ixs = {1} /\ call.ixs[1] = ix
      BY <1>3
    <2>3. call.ixs[i] = ix
      BY <1>2, <2>1, <2>2
    <2> QED
      BY <1>3, <2>1, <2>3 DEF Pads!Due
  <1>6. /\ \A name \in DOMAIN CreateNamed(offer) : addr[name] = CreateNamed(offer)[name]
        /\ addr["launchpad"] = Pads!Pad /\ addr["vault"] = PadVault
        /\ Accepts(Pads!CreateLaunchpadIx, addr, CreateArgs(offer), accounts, Pads!Authority)
    BY <1>1, CreateAddr
  <1>7. addr["receiver"]
          = Pads!OrElse(offer.receiver, Pads!TokenAccount(Pads!Quote, Pads!Authority))
    BY <1>6 DEF CreateNamed
  <1>8. ix.args.receiver = offer.receiver
    BY <1>2, CreateArgsAre DEF OfferFields
  <1>9. addr["receiver"] \in DOMAIN tokens
    BY <1>5, <1>7, <1>8 DEF Pads!OrElse
  <1>10. PICK w : w = World
    OBVIOUS
  <1>11. w.accounts = accounts /\ w.tokens = tokens
    BY <1>10, WorldIsWorld
  <1>12. ~Pads!Exists(w, Pads!Pad) /\ Pads!Holds(w, addr["receiver"])
    BY <1>9, <1>11, PadsSame DEF Exists, Holds
  <1>13. Pads!Accepts(Pads!CreateLaunchpadIx, ix.accounts, ix.args, w.accounts, Pads!Authority)
    BY <1>2, <1>6, <1>11, PadsAnchorSame
  <1>14. Pads!Allowed(w, ix, Pads!Authority)
    BY <1>2, <1>5, <1>6, <1>12, <1>13 DEF Pads!Allowed
  <1> QED
    BY <1>3, <1>4, <1>10, <1>14, PadRunsOne

LEMMA FundSucceeds ==
    ASSUME program = "launchpad", NatTokens(tokens), Pads!Due,
           IsBuilt(call, "fund", Pads!Authority,
                   IF PadFunds \in DOMAIN tokens THEN <<FundTransfer>>
                   ELSE <<OpenFunds, FundTransfer>>)
    PROVE  RunOf(call.ixs, call.invoker).ok
  <1>1. PICK t, b, inv : t = FundTransfer /\ b = OpenFunds /\ inv = call.invoker
    OBVIOUS
  <1>2. /\ t.op = "transfer" /\ t.from = TokenAccount(Pads!Base, Pads!Authority) /\ t.to = PadFunds
        /\ b.op = "createAta" /\ b.account = PadFunds /\ PadOp(t) /\ PadOp(b)
    BY <1>1 DEF FundTransfer, OpenFunds, PadOp
  <1>3. call.name = "fund" /\ call.invoker = Pads!Authority
        /\ call.ixs = IF PadFunds \in DOMAIN tokens THEN <<t>> ELSE <<b, t>>
    BY <1>1 DEF IsBuilt
  <1>4. t.from \in DOMAIN tokens
    BY <1>2, <1>3, PadsSame DEF Pads!Due
  <1>5. PICK w : w = World
    OBVIOUS
  <1>6. IsWorld(w) /\ w.ok = TRUE /\ w.tokens = tokens
    BY <1>5, WorldIsWorld
  <1>7. ASSUME NEW u, t.from \in DOMAIN u.tokens, PadFunds \in DOMAIN u.tokens
        PROVE  Pads!Allowed(u, t, inv)
    BY <1>2, <1>7, PadsSame DEF Pads!Allowed, Holds
  <1>8. CASE PadFunds \in DOMAIN tokens
    <2>1. Pads!Allowed(w, t, inv)
      BY <1>4, <1>6, <1>7, <1>8
    <2> QED
      BY <1>1, <1>2, <1>3, <1>5, <1>8, <2>1, PadRunsOne
  <1>9. CASE PadFunds \notin DOMAIN tokens
    <2>1. Pads!Allowed(w, b, inv)
      BY <1>2, <1>6, <1>9, PadsSame DEF Pads!Allowed, Holds
    <2>2. PICK u : u = Executed(w, b, inv)
      OBVIOUS
    <2>3. IsWorld(u) /\ u.ok = TRUE
      BY <1>2, <1>6, <2>1, <2>2, PadSucceeds
    <2>4. PICK e : e = Opened(w, PadFunds)
      OBVIOUS
    <2>5. IsWorld(e) /\ DOMAIN e.tokens = DOMAIN w.tokens \cup {PadFunds}
      <3>1. TokensOnly(e, w) /\ DOMAIN e.tokens = DOMAIN w.tokens \cup {PadFunds}
        BY <1>6, <2>4, OpenedIs
      <3> QED
        BY <3>1 DEF TokensOnly
    <2>6. e = EffectOf(w, b, inv) /\ AllowedTo(w, b, inv)
      BY <1>2, <2>1, <2>4, PadsSame DEF EffectOf, AllowedTo, Pads!Effect
    <2>7. u.tokens = e.tokens
      <3>1. w.ok /\ AllowedTo(w, b, inv)
        BY <1>6, <2>6
      <3> QED
        BY <1>6, <2>2, <2>5, <2>6, <3>1, ExecutedDoes
    <2>8. Pads!Allowed(u, t, inv)
      BY <1>4, <1>6, <1>7, <2>5, <2>7
    <2>11. PICK v : v = Executed(u, t, inv)
      OBVIOUS
    <2>9. IsWorld(v) /\ v.ok = TRUE
      BY <1>2, <2>3, <2>8, <2>11, PadSucceeds
    <2>10. RunOf(<<b, t>>, inv) = v
      BY <2>11, <1>5, <2>2, RunTwo
    <2> QED
      BY <1>1, <1>3, <1>9, <2>9, <2>10
  <1> QED
    BY <1>8, <1>9

LEMMA DepositAllowed ==
    ASSUME NEW w, w.accounts = accounts, w.tokens = tokens, NEW payer \in Depositors,
           NEW owner \in Depositors, NEW arg \in DepositArgs, Pads!Pad \in DOMAIN accounts,
           IsPad(accounts[Pads!Pad]), NEW ix, ix = DepositTxn(payer, owner, arg, accounts),
           Pads!Depositing(accounts[Pads!Pad]), TokenAccount(Pads!Quote, payer) \in DOMAIN tokens,
           accounts[Pads!Pad].isMemoRequired => "memo" \in w.done,
           Pads!WithinCaps(World, accounts[Pads!Pad], DepositFor(owner), ix)
    PROVE  Pads!Allowed(w, ix, payer)
  <1>1. PICK addr : addr = Completed(Pads!DepositIx, DepositNamed(payer, owner), <<>>, accounts)
    OBVIOUS
  <1>2. ix.op = "deposit" /\ ix.accounts = addr
    BY <1>1 DEF DepositTxn
  <1>3. payer # Missing /\ owner # Missing
    BY ProgramAssumption
  <1>4. /\ \A name \in DOMAIN DepositNamed(payer, owner) :
             addr[name] = DepositNamed(payer, owner)[name]
        /\ addr["depositAccount"] = DepositFor(owner)
        /\ Accepts(Pads!DepositIx, addr, <<>>, accounts, payer)
    BY <1>1, <1>3, DepositAddr
  <1>5. addr["launchpad"] = Pads!Pad /\ addr["from"] = TokenAccount(Pads!Quote, payer)
    BY <1>4, PadsSame DEF DepositNamed
  <1>6. Pads!Accepts(Pads!DepositIx, addr, <<>>, w.accounts, payer)
    BY <1>4, PadsAnchorSame
  <1>7. Pads!Holds(w, addr["from"])
    BY <1>5, PadsSame DEF Holds
  <1>8. Pads!WithinCaps(w, accounts[Pads!Pad], DepositFor(owner), ix)
    BY WorldIsWorld, PadsSame DEF Pads!WithinCaps, Pads!DepositOf, Exists
  <1> QED
    BY <1>2, <1>4, <1>5, <1>6, <1>7, <1>8 DEF Pads!Allowed

LEMMA DepositSucceeds ==
    ASSUME program = "launchpad", NEW payer \in Depositors, NEW owner \in Depositors,
           NEW arg \in DepositArgs, Pads!Pad \in DOMAIN accounts, IsPad(accounts[Pads!Pad]),
           IsBuilt(call, "deposit", payer,
                   IF arg.memo THEN <<Memo, DepositTxn(payer, owner, arg, accounts)>>
                   ELSE <<DepositTxn(payer, owner, arg, accounts)>>),
           call.owner = owner, Pads!Due
    PROVE  RunOf(call.ixs, call.invoker).ok
  <1>1. PICK ix, m, l : /\ ix = DepositTxn(payer, owner, arg, accounts) /\ m = Memo
                        /\ l = accounts[Pads!Pad]
    OBVIOUS
  <1>2. ix.op = "deposit" /\ m.op = "memo" /\ PadOp(ix)
    BY <1>1 DEF DepositTxn, Memo, PadOp
  <1>3. call.name = "deposit" /\ call.invoker = payer /\ call.ixs \in {<<ix>>, <<m, ix>>}
    BY <1>1 DEF IsBuilt
  <1>4. PICK i : i = CHOOSE j \in DOMAIN call.ixs : call.ixs[j].op \notin {"createAta", "memo"}
    OBVIOUS
  <1>5. call.ixs[i] = ix
    <2>1. CASE call.ixs = <<ix>>
      <3>1. DOMAIN call.ixs = {1} /\ call.ixs[1] = ix
        BY <2>1
      <3> QED
        BY <1>2, <1>4, <3>1
    <2>2. CASE call.ixs = <<m, ix>>
      <3>1. DOMAIN call.ixs = {1, 2} /\ call.ixs[1] = m /\ call.ixs[2] = ix
        BY <2>2
      <3> QED
        BY <1>2, <1>4, <3>1
    <2> QED
      BY <1>3, <2>1, <2>2
  <1>6. /\ Pads!Depositing(l) /\ TokenAccount(Pads!Quote, payer) \in DOMAIN tokens
        /\ l.isMemoRequired => \E j \in DOMAIN call.ixs : call.ixs[j].op = "memo"
        /\ Pads!WithinCaps(World, l, DepositFor(owner), ix)
    BY <1>1, <1>3, <1>4, <1>5, PadsSame DEF Pads!Due, Pads!Launchpad, DepositFor
  <1>7. PICK w : w = World
    OBVIOUS
  <1>8. IsWorld(w) /\ w.ok = TRUE /\ w.tokens = tokens /\ w.accounts = accounts
    BY <1>7, WorldIsWorld
  <1>9. CASE call.ixs = <<ix>>
    <2>1. ~l.isMemoRequired
      BY <1>2, <1>6, <1>9
    <2>2. Pads!Allowed(w, ix, payer)
      BY <1>1, <1>6, <1>8, <2>1, DepositAllowed
    <2> QED
      BY <1>2, <1>3, <1>7, <1>9, <2>2, PadRunsOne
  <1>10. CASE call.ixs = <<m, ix>>
    <2>1. PICK u : u = Executed(w, m, payer)
      OBVIOUS
    <2>2. LET v == Executed(w, Memo, payer) IN
           /\ IsWorld(v) /\ v.ok = TRUE /\ v.accounts = w.accounts /\ v.tokens = w.tokens
           /\ v.done = w.done \cup {"memo"}
      BY <1>8, MemoDoes
    <2>3. IsWorld(u) /\ u.ok = TRUE /\ u.accounts = accounts /\ u.tokens = tokens
          /\ "memo" \in u.done
      BY <1>1, <1>8, <2>1, <2>2
    <2>4. Pads!Allowed(u, ix, payer)
      BY <1>1, <1>6, <2>3, DepositAllowed
    <2>7. PICK v : v = Executed(u, ix, payer)
      OBVIOUS
    <2>5. IsWorld(v) /\ v.ok = TRUE
      BY <1>2, <2>3, <2>4, <2>7, PadSucceeds
    <2>6. RunOf(<<m, ix>>, payer) = v
      BY <2>7, <1>7, <2>1, RunTwo
    <2> QED
      BY <1>3, <1>10, <2>5, <2>6
  <1> QED
    BY <1>3, <1>9, <1>10

LEMMA ClaimDepositsSucceeds ==
    ASSUME program = "launchpad", Pads!Pad \in DOMAIN accounts, IsPad(accounts[Pads!Pad]),
           IsBuilt(call, "claimDeposits", Pads!Authority, <<ClaimDepositsTxn(accounts)>>), Pads!Due
    PROVE  RunOf(call.ixs, call.invoker).ok
  <1>1. PICK ix, addr, l :
          /\ ix = ClaimDepositsTxn(accounts) /\ l = accounts[Pads!Pad]
          /\ addr = Completed(Pads!ClaimDepositsIx, ClaimDepositsNamed(Pads!Authority), <<>>, accounts)
    OBVIOUS
  <1>2. ix.op = "claimDeposits" /\ ix.accounts = addr /\ PadOp(ix)
    BY <1>1 DEF ClaimDepositsTxn, PadOp
  <1>3. call.name = "claimDeposits" /\ call.ixs = <<ix>> /\ call.invoker = Pads!Authority
    BY <1>1 DEF IsBuilt
  <1>4. now >= l.depositingEnd /\ ~l.claimed /\ l.receiver \in DOMAIN tokens
    BY <1>1, <1>3 DEF Pads!Due, Pads!Launchpad
  <1>5. /\ addr["launchpad"] = Pads!Pad /\ addr["receiver"] = l.receiver
        /\ Accepts(Pads!ClaimDepositsIx, addr, <<>>, accounts, Pads!Authority)
    <2>1. Pads!Authority # Missing
      BY PadAddresses
    <2> QED
      BY <1>1, <2>1, ClaimDepositsAddr
  <1>6. PICK w : w = World
    OBVIOUS
  <1>7. w.tokens = tokens /\ w.accounts = accounts
    BY <1>6, WorldIsWorld
  <1>8. Pads!Holds(w, l.receiver) /\ l.authority = Pads!Authority
    BY <1>1, <1>4, <1>7, PadsSame DEF Holds, IsPad
  <1>9. Pads!Accepts(Pads!ClaimDepositsIx, addr, <<>>, w.accounts, Pads!Authority)
    BY <1>5, <1>7, PadsAnchorSame
  <1>10. Pads!Allowed(w, ix, Pads!Authority)
    BY <1>1, <1>2, <1>4, <1>5, <1>7, <1>8, <1>9 DEF Pads!Allowed
  <1> QED
    BY <1>2, <1>3, <1>6, <1>10, PadRunsOne

LEMMA VestedSucceeds ==
    ASSUME program = "launchpad", PadWorld(accounts, tokens, paidFor, now),
           Pads!Pad \in DOMAIN accounts, NEW payer \in Depositors, NEW owner \in Depositors,
           DepositFor(owner) \in DOMAIN accounts,
           IsBuilt(call, "claimAllocatedVested", payer, <<VestedTxn(payer, owner, accounts)>>),
           Pads!Due
    PROVE  RunOf(call.ixs, call.invoker).ok
  <1>1. PICK ix, addr, l, d :
          /\ ix = VestedTxn(payer, owner, accounts) /\ l = accounts[Pads!Pad]
          /\ d = accounts[DepositFor(owner)]
          /\ addr = Completed(Pads!ClaimAllocatedVestedIx, VestedNamed(payer, owner), <<>>, accounts)
    OBVIOUS
  <1>2. ix.op = "claimAllocatedVested" /\ ix.accounts = addr /\ PadOp(ix)
    BY <1>1 DEF VestedTxn, PadOp
  <1>3. call.name = "claimAllocatedVested" /\ call.ixs = <<ix>> /\ call.invoker = payer
    BY <1>1 DEF IsBuilt
  <1>4. (CHOOSE i \in DOMAIN call.ixs : call.ixs[i].op \notin {"createAta", "memo"}) = 1
    <2>1. DOMAIN call.ixs = {1} /\ call.ixs[1] = ix
      BY <1>3
    <2> QED
      BY <1>2, <2>1
  <1>5. payer # Missing /\ owner # Missing /\ IsPad(l) /\ IsDeposit(d, owner)
    BY <1>1, ProgramAssumption DEF PadWorld, PadDeposits
  <1>6. /\ addr["launchpad"] = Pads!Pad /\ addr["owner"] = owner
        /\ addr["depositAccount"] = DepositFor(owner)
        /\ addr["streamMetadata"] = StreamOf(owner)
        /\ addr["from"] = PadFunds /\ addr["to"] = TokenAccount(Pads!Base, owner)
        /\ Accepts(Pads!ClaimAllocatedVestedIx, addr, <<>>, accounts, payer)
    BY <1>1, <1>5, VestedAddr
  <1>7. /\ Pads!Claiming(l) /\ ~d.claimed
        /\ {PadFunds, TokenAccount(Pads!Base, owner)} \subseteq DOMAIN tokens
        /\ tokens[PadFunds] >= Pads!Allocation(d.amount, l)
    <2>1. call.ixs[1] = ix /\ ix.accounts.depositAccount = DepositFor(owner)
      BY <1>2, <1>3, <1>6
    <2>2. d.owner = owner
      BY <1>5 DEF IsDeposit
    <2> QED
      BY <1>1, <1>3, <1>4, <2>1, <2>2, PadsSame DEF Pads!Due, Pads!Launchpad, PadFunds
  <1>8. StreamOf(owner) \notin DOMAIN accounts
    BY <1>1, <1>7 DEF PadWorld, PadStreams
  <1>9. PICK w : w = World
    OBVIOUS
  <1>10. w.tokens = tokens /\ w.accounts = accounts
    BY <1>9, WorldIsWorld
  <1>11. /\ ~Pads!Exists(w, StreamOf(owner)) /\ Pads!Holds(w, PadFunds)
         /\ Pads!Holds(w, TokenAccount(Pads!Base, owner))
    BY <1>7, <1>8, <1>10, PadsSame DEF Exists, Holds
  <1>12. Pads!Accepts(Pads!ClaimAllocatedVestedIx, addr, <<>>, w.accounts, payer)
    BY <1>6, <1>10, PadsAnchorSame
  <1>13. Pads!Allowed(w, ix, payer)
    BY <1>1, <1>2, <1>6, <1>7, <1>10, <1>11, <1>12 DEF Pads!Allowed
  <1> QED
    BY <1>2, <1>3, <1>9, <1>13, PadRunsOne

LEMMA PadSucceedsAll ==
    ASSUME PadInv, program = "launchpad"
    PROVE  Pads!LaunchpadCallsSucceed
  <1> SUFFICES ASSUME call.stage = "built", ~disturbed, Pads!Due
               PROVE  Pads!Outcome.ok
    BY DEF Pads!LaunchpadCallsSucceed
  <1>1. PadBuilt(call, accounts, tokens) /\ PadWorld(accounts, tokens, paidFor, now)
    BY DEF PadInv, Idle
  <1>2. Pads!Outcome = RunOf(call.ixs, call.invoker)
    BY DEF Pads!Outcome, Pads!Run, RunOf
  <1>3. CASE Pads!Pad \notin DOMAIN accounts
    BY <1>1, <1>2, <1>3, CreateSucceeds DEF PadBuilt
  <1>4. CASE Pads!Pad \in DOMAIN accounts
    <2>1. IsPad(accounts[Pads!Pad]) /\ NatTokens(tokens)
      BY <1>1, <1>4 DEF PadWorld
    <2> QED
      BY <1>1, <1>2, <1>4, <2>1, FundSucceeds, DepositSucceeds, ClaimDepositsSucceeds,
         VestedSucceeds DEF PadBuilt
  <1> QED
    BY <1>3, <1>4

(* A deposit is credited to the owner it is for, and the stream that is    *)
(* created for an owner holds the allocation of exactly that.              *)
THEOREM DepositsAreCredited == Spec => []CreditedToOwner
  <1> DEFINE I == program = "launchpad" => PadInv
  <1>1. Init => I
    BY PadInit
  <1>2. I /\ [Next]_vars => I'
    <2> SUFFICES ASSUME I, [Next]_vars, program' = "launchpad" PROVE PadInv'
      OBVIOUS
    <2>1. program = "launchpad"
      BY DEF Next, DistributorStep, LaunchpadStep, FundingStep, vars
    <2> QED
      BY <2>1, PadNext
  <1>3. I => CreditedToOwner
    BY PadCredits DEF CreditedToOwner
  <1> QED
    BY <1>1, <1>2, <1>3, PTL DEF Spec

(* Who may do what is asked for succeeds unless something changed.         *)
THEOREM LaunchpadIsAccepted == Spec => []LaunchpadCallsSucceed
  <1> DEFINE I == program = "launchpad" => PadInv
  <1>1. Init => I
    BY PadInit
  <1>2. I /\ [Next]_vars => I'
    <2> SUFFICES ASSUME I, [Next]_vars, program' = "launchpad" PROVE PadInv'
      OBVIOUS
    <2>1. program = "launchpad"
      BY DEF Next, DistributorStep, LaunchpadStep, FundingStep, vars
    <2> QED
      BY <2>1, PadNext
  <1>3. I => LaunchpadCallsSucceed
    BY PadSucceedsAll DEF LaunchpadCallsSucceed
  <1> QED
    BY <1>1, <1>2, <1>3, PTL DEF Spec

-----------------------------------------------------------------------------
(* Airdrops: the accounts of one, and what holds of them.                  *)
LEMMA AirSame ==
    /\ \A w, a : Airdrop!Opened(w, a) = Opened(w, a)
    /\ \A w, a, n : Airdrop!Moved(w, a, n) = Moved(w, a, n)
    /\ \A w, a : (Airdrop!Exists(w, a) <=> Exists(w, a)) /\ (Airdrop!Holds(w, a) <=> Holds(w, a))
    /\ \A f, a, c : Airdrop!Stored(f, a, c) = Stored(f, a, c)
    /\ \A f, g : Airdrop!Merged(f, g) = Merged(f, g)
    /\ \A m, a : Airdrop!TokenAccount(m, a) = TokenAccount(m, a)
    /\ Airdrop!World = World
  BY DEF Opened, Airdrop!Opened, Moved, Airdrop!Moved, Exists, Airdrop!Exists, Holds,
         Airdrop!Holds, Stored, Airdrop!Stored, Merged, Airdrop!Merged, TokenAccount,
         Airdrop!TokenAccount, World, Airdrop!World

LEMMA AirAnchorSame ==
    ASSUME NEW ix, NEW given, NEW args, NEW accs, NEW addr, NEW invoker
    PROVE  /\ Airdrop!Completed(ix, given, args, accs) = Completed(ix, given, args, accs)
           /\ Airdrop!Accepts(ix, addr, args, accs, invoker)
                <=> Accepts(ix, addr, args, accs, invoker)
  BY DEF Completed, Airdrop!Completed, Resolved, Airdrop!Resolved, Accepts, Airdrop!Accepts,
         Seeded, Airdrop!Seeded, Missing, Airdrop!Missing, TokenAccount, Airdrop!TokenAccount

DropDist(d) == Airdrop!DistributorPDA(d.mint, Airdrop!Version)
DropVault(d) == TokenAccount(d.mint, DropDist(d))
DropProxy(d) == Airdrop!AlignedDistributorPDA(DropDist(d))
DropStatus(d, r) == Airdrop!ClaimStatusPDA(DropDist(d), r)
AdminTokens(d) == TokenAccount(d.mint, Airdrop!Admin)

LEMMA DropIs ==
    /\ Airdrop!Distributor = DropDist(drop)
    /\ \A o : Airdrop!Tokens(o) = TokenAccount(drop.mint, o)
    /\ Airdrop!Tokens(Airdrop!Distributor) = DropVault(drop)
    /\ \A w, r : Airdrop!StatusOf(w, r) = DropStatus(drop, r)
    /\ \A r : Airdrop!ClaimStatusPDA(Airdrop!Distributor, r) = DropStatus(drop, r)
    /\ Airdrop!AlignedDistributorPDA(Airdrop!Distributor) = DropProxy(drop)
    /\ Airdrop!Leaves = drop.leaves /\ Airdrop!Recipients = DOMAIN drop.leaves
    /\ Airdrop!Fee = drop.fees[epoch]
  BY AirSame DEF Airdrop!Distributor, DropDist, Airdrop!Tokens, DropVault, Airdrop!StatusOf,
     DropStatus, DropProxy, Airdrop!Leaves, Airdrop!Recipients, Airdrop!Fee

LEMMA DropAddresses ==
    ASSUME NEW d
    PROVE  /\ \A r : DropStatus(d, r) # DropDist(d) /\ DropStatus(d, r) # DropProxy(d)
           /\ DropProxy(d) # DropDist(d)
           /\ \A r, q : DropStatus(d, r) = DropStatus(d, q) => r = q
           /\ \A r : r # DropDist(d) => TokenAccount(d.mint, r) # DropVault(d)
           /\ AdminTokens(d) # DropVault(d) /\ Airdrop!Admin # DropDist(d)
           /\ \A m, r : TokenAccount(m, r) # Missing
           /\ \A r : DropStatus(d, r) # Missing
           /\ Missing \notin {DropDist(d), DropProxy(d), Airdrop!Admin}
           /\ DropDist(d)[1] = "MerkleDistributor" /\ DropProxy(d)[1] # "MerkleDistributor"
           /\ \A r : DropStatus(d, r)[1] # "MerkleDistributor"
  BY DEF DropStatus, DropDist, DropProxy, DropVault, AdminTokens, Airdrop!Admin, TokenAccount,
         Missing, Airdrop!ClaimStatusPDA, Airdrop!DistributorPDA, Airdrop!AlignedDistributorPDA

IsDrop(d) ==
    /\ \A e \in {1, 2} : d.fees[e].max \in Nat /\ d.fees[e].rate \in 0..OneInBasisPoints - 1
    /\ IsFiniteSet(DOMAIN d.leaves)
    /\ \A r \in DOMAIN d.leaves : d.leaves[r].unlocked \in Nat /\ d.leaves[r].locked \in Nat
    /\ {d.mint, DropDist(d), Missing} \cap DOMAIN d.leaves = {}
    /\ d.mint # Missing

LEMMA DropsAre ==
    ASSUME NEW d \in Drops
    PROVE  IsDrop(d)
  BY ProgramAssumption DEF IsDrop, DropDist

(* A distributor that was created.                                         *)
IsDistributor(x, d) ==
    /\ x.mint = d.mint /\ x.tokenVault = DropVault(d) /\ x.clawbackReceiver = AdminTokens(d)
    /\ x.clawedBack \in BOOLEAN
    /\ {x.startTs, x.endTs, x.clawbackStartTs, x.unlockPeriod} \subseteq Nat
    /\ x.unlockPeriod > 0 /\ x.startTs + x.unlockPeriod <= x.endTs
    /\ {"mint", "admin", "clawedBack"} \subseteq DOMAIN x

IsClaimStatus(x, leaf) ==
    /\ x.lockedAmount = leaf.locked /\ x.lockedAmountWithdrawn \in 0..leaf.locked
    /\ x.closed \in BOOLEAN
    /\ {"lockedAmountWithdrawn", "closed"} \subseteq DOMAIN x

IsProxy(x) == x.admin = Airdrop!Admin /\ {"admin", "distributorClawedBack"} \subseteq DOMAIN x

DropAccounts(d, accs) ==
    /\ DOMAIN accs \subseteq {DropDist(d), DropProxy(d)} \cup {DropStatus(d, r) : r \in DOMAIN d.leaves}
    /\ IF DropDist(d) \in DOMAIN accs
       THEN /\ IsDistributor(accs[DropDist(d)], d)
            /\ IF DropProxy(d) \in DOMAIN accs
               THEN accs[DropDist(d)].admin = DropProxy(d) /\ IsProxy(accs[DropProxy(d)])
               ELSE accs[DropDist(d)].admin = Airdrop!Admin
       ELSE DOMAIN accs = {}
    /\ \A r \in DOMAIN d.leaves : DropStatus(d, r) \in DOMAIN accs =>
         IsClaimStatus(accs[DropStatus(d, r)], d.leaves[r])

(* What the airdrop owes to each recipient, and to all.                    *)
Owed(d, accs) ==
    [r \in DOMAIN d.leaves |->
        IF DropStatus(d, r) \notin DOMAIN accs THEN d.leaves[r].unlocked + d.leaves[r].locked
        ELSE IF accs[DropStatus(d, r)].closed THEN 0
        ELSE accs[DropStatus(d, r)].lockedAmount - accs[DropStatus(d, r)].lockedAmountWithdrawn]

OwedInAll(d, accs) == Summing(Owed(d, accs), DOMAIN d.leaves)[DOMAIN d.leaves]

Covered(d, accs, toks) ==
    DropDist(d) \in DOMAIN accs /\ ~accs[DropDist(d)].clawedBack =>
        toks[DropVault(d)] >= OwedInAll(d, accs)

DropWorld(d, accs, toks) ==
    /\ NatTokens(toks)
    /\ DropVault(d) \in DOMAIN toks <=> DropDist(d) \in DOMAIN accs
    /\ DropAccounts(d, accs)
    /\ Covered(d, accs, toks)

LEMMA OwedIsNat ==
    ASSUME NEW d, IsDrop(d), NEW accs, DropAccounts(d, accs)
    PROVE  /\ IsFiniteSet(DOMAIN d.leaves) /\ Owed(d, accs) \in [DOMAIN d.leaves -> Nat]
           /\ OwedInAll(d, accs) \in Nat
           /\ \A r \in DOMAIN d.leaves : Owed(d, accs)[r] <= OwedInAll(d, accs)
  <1>1. PICK S, f : S = DOMAIN d.leaves /\ f = Owed(d, accs)
    OBVIOUS
  <1>2. IsFiniteSet(S)
    BY <1>1 DEF IsDrop
  <1>3. ASSUME NEW r \in S
        PROVE  Owed(d, accs)[r] \in Nat
    <2>1. d.leaves[r].unlocked \in Nat /\ d.leaves[r].locked \in Nat
      BY <1>1 DEF IsDrop
    <2>2. DropStatus(d, r) \in DOMAIN accs => IsClaimStatus(accs[DropStatus(d, r)], d.leaves[r])
      BY <1>1 DEF DropAccounts
    <2> QED
      BY <1>1, <2>1, <2>2 DEF Owed, IsClaimStatus
  <1>4. f \in [S -> Nat] /\ S \in SUBSET S
    BY <1>1, <1>3 DEF Owed
  <1>5. Summing(f, S)[S] \in Nat /\ \A x \in S : f[x] <= Summing(f, S)[S]
    BY <1>2, <1>4, SumNatural
  <1> QED
    BY <1>1, <1>2, <1>4, <1>5 DEF OwedInAll

(* One recipient is owed less.                                             *)
LEMMA OwedChanges ==
    ASSUME NEW d, IsDrop(d), NEW accs, DropAccounts(d, accs), NEW others, DropAccounts(d, others),
           NEW r \in DOMAIN d.leaves,
           \A q \in DOMAIN d.leaves \ {r} :
             /\ DropStatus(d, q) \in DOMAIN others <=> DropStatus(d, q) \in DOMAIN accs
             /\ DropStatus(d, q) \in DOMAIN accs => others[DropStatus(d, q)] = accs[DropStatus(d, q)]
    PROVE  OwedInAll(d, others) = OwedInAll(d, accs) - Owed(d, accs)[r] + Owed(d, others)[r]
  <1>1. PICK S, f, g : S = DOMAIN d.leaves /\ f = Owed(d, accs) /\ g = Owed(d, others)
    OBVIOUS
  <1>2. f \in [S -> Int] /\ g \in [S -> Int] /\ IsFiniteSet(S)
    BY <1>1, OwedIsNat
  <1>3. \A q \in S \ {r} : f[q] = g[q]
    BY <1>1 DEF Owed
  <1>4. S \in SUBSET S /\ r \in S
    BY <1>1
  <1>5. Summing(g, S)[S] = Summing(f, S)[S] - f[r] + g[r]
    BY <1>2, <1>3, <1>4, SumChanged
  <1> QED
    BY <1>1, <1>5 DEF OwedInAll

LEMMA OwedUnchanged ==
    ASSUME NEW d, NEW accs, NEW others,
           \A q \in DOMAIN d.leaves :
             /\ DropStatus(d, q) \in DOMAIN others <=> DropStatus(d, q) \in DOMAIN accs
             /\ DropStatus(d, q) \in DOMAIN accs => others[DropStatus(d, q)] = accs[DropStatus(d, q)]
    PROVE  OwedInAll(d, others) = OwedInAll(d, accs)
  <1>1. Owed(d, others) = Owed(d, accs)
    BY DEF Owed
  <1> QED
    BY <1>1 DEF OwedInAll

(* What is unlocked of a locked amount is part of it, nothing before the   *)
(* first period has passed.                                                *)
LEMMA UnlockedIsPart ==
    ASSUME NEW x, NEW d, IsDistributor(x, d), NEW locked \in Nat, now \in Nat
    PROVE  /\ Airdrop!UnlockedOf(x, locked) \in 0..locked
           /\ now - x.startTs < x.unlockPeriod \/ locked = 0 => Airdrop!UnlockedOf(x, locked) = 0
  <1>1. PICK s, e, p : s = x.startTs /\ e = x.endTs /\ p = x.unlockPeriod
    OBVIOUS
  <1>2. s \in Nat /\ e \in Nat /\ p \in Nat \ {0} /\ s + p <= e
    BY <1>1 DEF IsDistributor
  <1>3. CASE now >= e
    BY <1>1, <1>2, <1>3 DEF Airdrop!UnlockedOf
  <1>4. CASE now < s
    BY <1>1, <1>2, <1>4 DEF Airdrop!UnlockedOf
  <1>5. CASE s <= now /\ now < e
    <2>1. PICK t, n, k : t = now - s /\ n = e - s /\ k = t \div p
      OBVIOUS
    <2>2. t \in Nat /\ n \in Nat \ {0} /\ t < n
      BY <1>2, <1>5, <2>1
    <2>3. k \in Nat /\ k * p <= t /\ t < k * p + p
      BY <1>2, <2>1, <2>2, FloorOf
    <2>4. PICK m : m = k * p
      OBVIOUS
    <2>5. m \in Nat /\ m <= n
      BY <1>2, <2>2, <2>3, <2>4
    <2>6. m * locked \in Nat /\ m * locked <= n * locked
      BY <2>2, <2>5, TimesMonotone
    <2>7. PICK a, b : a = locked * m /\ b = locked * n
      OBVIOUS
    <2>8. a \in Nat /\ b \in Nat /\ a <= b
      BY <2>2, <2>5, <2>6, <2>7
    <2>9. a \div n <= b \div n /\ a \div n \in Nat
      BY <2>2, <2>8, FloorMonotone, FloorOf
    <2>10. b \div n = locked
      BY <2>2, <2>7, FloorOfMultiple
    <2>11. Airdrop!UnlockedOf(x, locked) = a \div n
      <3>1. ~(now >= e) /\ ~(now < s)
        BY <1>2, <1>5
      <3>2. Airdrop!UnlockedOf(x, locked) = (locked * (((now - s) \div p) * p)) \div (e - s)
        BY <1>1, <3>1 DEF Airdrop!UnlockedOf
      <3> QED
        BY <2>1, <2>4, <2>7, <3>2
    <2>12. t < p \/ locked = 0 => a = 0
      <3>1. ASSUME t < p
            PROVE  m = 0
        <4>1. k = 0
          BY <1>2, <2>1, <2>2, <3>1
        <4> QED
          BY <1>2, <2>4, <4>1
      <3> QED
        BY <2>5, <2>7, <3>1
    <2>13. a = 0 => a \div n = 0
      BY <2>2
    <2> QED
      BY <1>1, <2>1, <2>9, <2>10, <2>11, <2>12, <2>13
  <1> QED
    BY <1>2, <1>3, <1>4, <1>5

-----------------------------------------------------------------------------
(* What the instructions of an airdrop do, apart from its creation.        *)
LEMMA StatusChanges ==
    ASSUME NEW d, IsDrop(d), NEW accs, NEW toks, DropWorld(d, accs, toks),
           DropDist(d) \in DOMAIN accs, NEW r \in DOMAIN d.leaves, NEW others,
           DOMAIN others = DOMAIN accs \cup {DropStatus(d, r)},
           IsClaimStatus(others[DropStatus(d, r)], d.leaves[r]),
           \A a \in DOMAIN accs \ {DropStatus(d, r)} : others[a] = accs[a],
           NEW left, NatTokens(left), DOMAIN left = DOMAIN toks, NEW amount \in Nat,
           left[DropVault(d)] = toks[DropVault(d)] - amount,
           amount + Owed(d, others)[r] <= Owed(d, accs)[r]
    PROVE  DropWorld(d, others, left)
  <1>1. /\ others[DropDist(d)] = accs[DropDist(d)] /\ DropDist(d) \in DOMAIN others
        /\ DropProxy(d) \in DOMAIN others <=> DropProxy(d) \in DOMAIN accs
        /\ DropProxy(d) \in DOMAIN accs => others[DropProxy(d)] = accs[DropProxy(d)]
    BY DropAddresses
  <1>2. \A q \in DOMAIN d.leaves \ {r} :
          /\ DropStatus(d, q) \in DOMAIN others <=> DropStatus(d, q) \in DOMAIN accs
          /\ DropStatus(d, q) \in DOMAIN accs => others[DropStatus(d, q)] = accs[DropStatus(d, q)]
    <2> SUFFICES ASSUME NEW q \in DOMAIN d.leaves \ {r}
                 PROVE  /\ DropStatus(d, q) \in DOMAIN others <=> DropStatus(d, q) \in DOMAIN accs
                        /\ DropStatus(d, q) \in DOMAIN accs =>
                             others[DropStatus(d, q)] = accs[DropStatus(d, q)]
      OBVIOUS
    <2>1. DropStatus(d, q) # DropStatus(d, r)
      BY DropAddresses
    <2> QED
      BY <2>1
  <1>3. DropAccounts(d, accs)
    BY DEF DropWorld
  <1>4. DropAccounts(d, others)
    <2>1. \A q \in DOMAIN d.leaves : DropStatus(d, q) \in DOMAIN others =>
            IsClaimStatus(others[DropStatus(d, q)], d.leaves[q])
      BY <1>2, <1>3 DEF DropAccounts
    <2>2. DOMAIN others \subseteq {DropDist(d), DropProxy(d)}
                                    \cup {DropStatus(d, q) : q \in DOMAIN d.leaves}
      BY <1>3 DEF DropAccounts
    <2>3. /\ IsDistributor(others[DropDist(d)], d)
          /\ IF DropProxy(d) \in DOMAIN others
             THEN others[DropDist(d)].admin = DropProxy(d) /\ IsProxy(others[DropProxy(d)])
             ELSE others[DropDist(d)].admin = Airdrop!Admin
      BY <1>1, <1>3 DEF DropAccounts
    <2> QED
      BY <1>1, <2>1, <2>2, <2>3 DEF DropAccounts
  <1>5. OwedInAll(d, others) = OwedInAll(d, accs) - Owed(d, accs)[r] + Owed(d, others)[r]
    BY <1>2, <1>3, <1>4, OwedChanges
  <1>6. /\ OwedInAll(d, accs) \in Nat /\ OwedInAll(d, others) \in Nat
        /\ Owed(d, accs)[r] \in Nat /\ Owed(d, others)[r] \in Nat
    BY <1>3, <1>4, OwedIsNat
  <1>7. DropVault(d) \in DOMAIN toks /\ DropVault(d) \in DOMAIN left
    BY DEF DropWorld
  <1>8. toks[DropVault(d)] \in Nat
    BY <1>7 DEF DropWorld, NatTokens
  <1>9. Covered(d, others, left)
    <2> SUFFICES ASSUME ~others[DropDist(d)].clawedBack
                 PROVE  left[DropVault(d)] >= OwedInAll(d, others)
      BY DEF Covered
    <2>1. toks[DropVault(d)] >= OwedInAll(d, accs)
      BY <1>1 DEF DropWorld, Covered
    <2> QED
      BY <1>5, <1>6, <1>8, <2>1
  <1> QED
    BY <1>1, <1>4, <1>7, <1>9 DEF DropWorld

DropEnv(w) == IsWorld(w) /\ DropWorld(drop, w.accounts, w.tokens)

OpensIx(d, ix) == ix.op = "createAta" /\ ix.account # DropVault(d)

ClaimsIx(d, ix, r) ==
    /\ ix.op \in {"newClaim", "claimLocked"} /\ r \in DOMAIN d.leaves
    /\ ix.accounts["claimStatus"] = DropStatus(d, r)
    /\ ix.accounts["from"] = DropVault(d) /\ ix.accounts["claimant"] = r

ClosesIx(d, ix, r) ==
    /\ ix.op = "closeClaim" /\ r \in DOMAIN d.leaves
    /\ ix.accounts["claimStatus"] = DropStatus(d, r) /\ ix.accounts["claimant"] = r

ClawsIx(d, ix) ==
    /\ ix.op \in {"clawback", "alignedClawback"}
    /\ ix.accounts["from"] = DropVault(d)
    /\ ix.op = "alignedClawback" => ix.accounts["alignedDistributor"] = DropProxy(d)

(* An amount leaves the vault and the status of a claim is another.        *)
LEMMA StatusStored ==
    ASSUME NEW w, DropEnv(w), IsDrop(drop), DropDist(drop) \in DOMAIN w.accounts,
           NEW r \in DOMAIN drop.leaves, NEW amount \in Nat, NEW x,
           amount <= w.tokens[DropVault(drop)], IsClaimStatus(x, drop.leaves[r]), NEW accs,
           DOMAIN accs = DOMAIN w.accounts \cup {DropStatus(drop, r)},
           accs[DropStatus(drop, r)] = x,
           \A a \in DOMAIN w.accounts \ {DropStatus(drop, r)} : accs[a] = w.accounts[a],
           amount + Owed(drop, accs)[r] <= Owed(drop, w.accounts)[r],
           NEW u, u = Moved(w, DropVault(drop), amount),
           NEW e, IsWorld(e), e.accounts = accs, e.tokens = u.tokens
    PROVE  DropEnv(e)
  <1>1. PICK v : v = DropVault(drop)
    OBVIOUS
  <1>2. IsWorld(w) /\ NatTokens(w.tokens) /\ v \in DOMAIN w.tokens
    BY <1>1 DEF DropEnv, DropWorld
  <1>3. amount \in Int /\ (v \in DOMAIN w.tokens => amount <= w.tokens[v])
    BY <1>1
  <1>4. u = Moved(w, v, amount)
    BY <1>1
  <1>5. /\ TokensOnly(u, w) /\ NatTokens(u.tokens) /\ DOMAIN u.tokens = DOMAIN w.tokens
        /\ u.tokens[v] = w.tokens[v] - amount
    BY <1>2, <1>3, <1>4, MovedIs
  <1>7. DropWorld(drop, w.accounts, w.tokens)
    BY DEF DropEnv
  <1>8. DropWorld(drop, accs, u.tokens)
    BY <1>1, <1>5, <1>7, StatusChanges
  <1> QED
    BY <1>8 DEF DropEnv

(* The schedule of a distributor is for good.                              *)
Kept(d, accs, others) ==
    DropDist(d) \in DOMAIN accs =>
        /\ DropDist(d) \in DOMAIN others
        /\ others[DropDist(d)].startTs = accs[DropDist(d)].startTs
        /\ others[DropDist(d)].unlockPeriod = accs[DropDist(d)].unlockPeriod

IsNewStatus(x, leaf) ==
    x.closed = FALSE /\ x.lockedAmount = leaf.locked /\ x.lockedAmountWithdrawn = 0

SameDistributor(d, accs, others) == others[DropDist(d)] = accs[DropDist(d)]

LEMMA NewClaimDoes ==
    ASSUME NEW w, DropEnv(w), IsDrop(drop), NEW r, NEW ix, ClaimsIx(drop, ix, r), ix.op = "newClaim",
           NEW invoker, Airdrop!Allowed(w, ix, invoker),
           NEW v, v = Airdrop!Effect(w, ix, invoker)
    PROVE  /\ DropEnv(v) /\ Kept(drop, w.accounts, v.accounts)
           /\ DropStatus(drop, r) \in DOMAIN v.accounts
           /\ IsNewStatus(v.accounts[DropStatus(drop, r)], drop.leaves[r])
           /\ SameDistributor(drop, w.accounts, v.accounts)
  <1>1. PICK leaf, s, e : /\ leaf = drop.leaves[r] /\ s = DropStatus(drop, r)
                          /\ e = Airdrop!Effect(w, ix, invoker)
    OBVIOUS
  <1>2. /\ r \in DOMAIN drop.leaves /\ ix.accounts["claimStatus"] = s
        /\ ix.accounts["from"] = DropVault(drop) /\ ix.accounts["claimant"] = r
    BY <1>1 DEF ClaimsIx
  <1>3. /\ DropDist(drop) \in DOMAIN w.accounts /\ s \notin DOMAIN w.accounts
        /\ ix.leaf = leaf /\ leaf.unlocked <= w.tokens[DropVault(drop)]
    BY <1>1, <1>2, AirSame, DropIs DEF Airdrop!Allowed, Airdrop!Open, Exists
  <1>4. leaf.unlocked \in Nat /\ leaf.locked \in Nat
    BY <1>1, <1>2 DEF IsDrop
  <1>5. PICK x : x = [lockedAmount |-> leaf.locked, unlockedAmount |-> leaf.unlocked,
                      lockedAmountWithdrawn |-> 0, closed |-> FALSE]
    OBVIOUS
  <1>6. IsClaimStatus(x, leaf) /\ x.closed = FALSE
    BY <1>4, <1>5 DEF IsClaimStatus
  <1>7. PICK accs, u : accs = Stored(w.accounts, s, x)
                       /\ u = Moved(w, DropVault(drop), leaf.unlocked)
    OBVIOUS
  <1>8. /\ DOMAIN accs = DOMAIN w.accounts \cup {s} /\ accs[s] = x
        /\ \A a \in DOMAIN w.accounts \ {s} : accs[a] = w.accounts[a]
    BY <1>7 DEF Stored
  <1>9. e = [u EXCEPT !.accounts = accs]
    <2>1. e = [Moved(w, DropVault(drop), leaf.unlocked) EXCEPT !.accounts = Stored(@, s, x)]
      BY <1>1, <1>2, <1>3, <1>5, AirSame DEF Airdrop!Effect, Airdrop!NewStatus
    <2>2. u.accounts = w.accounts
      BY <1>7 DEF DropEnv, IsWorld, Moved
    <2> QED
      BY <1>7, <2>1, <2>2
  <1>10. /\ Owed(drop, w.accounts)[r] = leaf.unlocked + leaf.locked
         /\ Owed(drop, accs)[r] = leaf.locked
    BY <1>1, <1>2, <1>3, <1>4, <1>5, <1>8 DEF Owed
  <1>11. leaf.unlocked + Owed(drop, accs)[r] <= Owed(drop, w.accounts)[r]
    BY <1>4, <1>10
  <1>12. DropEnv(e) /\ e.accounts = accs
    <2>1. PICK amount \in Nat : amount = leaf.unlocked
      BY <1>4
    <2>2. /\ DropDist(drop) \in DOMAIN w.accounts /\ r \in DOMAIN drop.leaves
          /\ amount <= w.tokens[DropVault(drop)] /\ IsClaimStatus(x, drop.leaves[r])
          /\ DOMAIN accs = DOMAIN w.accounts \cup {DropStatus(drop, r)}
          /\ accs[DropStatus(drop, r)] = x
          /\ \A a \in DOMAIN w.accounts \ {DropStatus(drop, r)} : accs[a] = w.accounts[a]
          /\ amount + Owed(drop, accs)[r] <= Owed(drop, w.accounts)[r]
          /\ u = Moved(w, DropVault(drop), amount)
          /\ IsWorld(e) /\ e.accounts = accs /\ e.tokens = u.tokens
      BY <1>1, <1>2, <1>3, <1>6, <1>7, <1>8, <1>9, <1>11, <2>1 DEF IsWorld, Moved, DropEnv
    <2> QED
      BY <2>2, StatusStored
  <1>13. accs[DropDist(drop)] = w.accounts[DropDist(drop)] /\ DropDist(drop) \in DOMAIN accs
    BY <1>1, <1>3, <1>8, DropAddresses
  <1>14. IsNewStatus(x, leaf)
    BY <1>5 DEF IsNewStatus
  <1> QED
    BY <1>1, <1>8, <1>12, <1>13, <1>14 DEF Kept, SameDistributor

LEMMA ClaimLockedDoes ==
    ASSUME NEW w, DropEnv(w), IsDrop(drop), now \in Nat, NEW r, NEW ix, ClaimsIx(drop, ix, r),
           ix.op = "claimLocked", NEW invoker, Airdrop!Allowed(w, ix, invoker)
    PROVE  LET e == Airdrop!Effect(w, ix, invoker) IN
           /\ DropEnv(e) /\ Kept(drop, w.accounts, e.accounts)
           /\ DropStatus(drop, r) \in DOMAIN e.accounts /\ Airdrop!Withdrawable(e, r) = 0
  <1>1. PICK leaf, s, e : /\ leaf = drop.leaves[r] /\ s = DropStatus(drop, r)
                          /\ e = Airdrop!Effect(w, ix, invoker)
    OBVIOUS
  <1>2. /\ r \in DOMAIN drop.leaves /\ ix.accounts["claimStatus"] = s
        /\ ix.accounts["from"] = DropVault(drop) /\ ix.accounts["claimant"] = r
    BY <1>1 DEF ClaimsIx
  <1>3. PICK dist, old, amount : /\ dist = w.accounts[DropDist(drop)] /\ old = w.accounts[s]
                                 /\ amount = Airdrop!Withdrawable(w, r)
    OBVIOUS
  <1>4. /\ DropDist(drop) \in DOMAIN w.accounts /\ s \in DOMAIN w.accounts /\ ~old.closed
        /\ amount \in 1..w.tokens[DropVault(drop)]
    BY <1>1, <1>2, <1>3, AirSame, DropIs DEF Airdrop!Allowed, Airdrop!Open, Exists
  <1>5. IsClaimStatus(old, leaf) /\ IsDistributor(dist, drop)
    BY <1>1, <1>2, <1>3, <1>4 DEF DropEnv, DropWorld, DropAccounts
  <1>6. leaf.locked \in Nat
    BY <1>1, <1>2 DEF IsDrop
  <1>7. PICK n : n = Airdrop!UnlockedOf(dist, leaf.locked)
    OBVIOUS
  <1>8. n \in 0..leaf.locked
    BY <1>5, <1>6, <1>7, UnlockedIsPart
  <1>9. amount = n - old.lockedAmountWithdrawn
    BY <1>1, <1>3, <1>5, <1>7, DropIs DEF Airdrop!Withdrawable, IsClaimStatus
  <1>10. old.lockedAmountWithdrawn \in Nat /\ old.lockedAmountWithdrawn + amount = n
         /\ old.lockedAmountWithdrawn <= leaf.locked
    BY <1>5, <1>6, <1>8, <1>9 DEF IsClaimStatus
  <1>11. PICK x : x = [old EXCEPT !.lockedAmountWithdrawn = n]
    OBVIOUS
  <1>12. /\ IsClaimStatus(x, leaf) /\ x.closed = old.closed /\ x.lockedAmountWithdrawn = n
         /\ x.lockedAmount = leaf.locked
    BY <1>5, <1>8, <1>11 DEF IsClaimStatus
  <1>13. w.tokens[DropVault(drop)] \in Nat
    <2>1. DropVault(drop) \in DOMAIN w.tokens
      BY <1>4 DEF DropEnv, DropWorld
    <2> QED
      BY <2>1 DEF DropEnv, DropWorld, NatTokens
  <1>14. amount \in Nat /\ amount <= w.tokens[DropVault(drop)]
    BY <1>4, <1>13
  <1>15. PICK accs, u : accs = [w.accounts EXCEPT ![s] = x]
                       /\ u = Moved(w, DropVault(drop), amount)
    OBVIOUS
  <1>16. /\ DOMAIN accs = DOMAIN w.accounts \cup {s} /\ accs[s] = x
         /\ \A a \in DOMAIN w.accounts \ {s} : accs[a] = w.accounts[a]
    BY <1>4, <1>15
  <1>17. e = [u EXCEPT !.accounts = accs]
    <2>1. e = [Moved(w, DropVault(drop), amount) EXCEPT
                 !.accounts[s].lockedAmountWithdrawn = @ + amount]
      BY <1>1, <1>2, <1>3, AirSame DEF Airdrop!Effect, ClaimsIx
    <2>2. u.accounts = w.accounts
      BY <1>15 DEF DropEnv, IsWorld, Moved
    <2>3. e = [u EXCEPT !.accounts =
                 [u.accounts EXCEPT ![s] =
                    [u.accounts[s] EXCEPT !.lockedAmountWithdrawn =
                       u.accounts[s].lockedAmountWithdrawn + amount]]]
      BY <1>15, <2>1
    <2>4. u.accounts[s] = old
      BY <1>3, <2>2
    <2>5. [u.accounts[s] EXCEPT !.lockedAmountWithdrawn =
                       u.accounts[s].lockedAmountWithdrawn + amount] = x
      BY <1>10, <1>11, <2>4
    <2> QED
      BY <1>15, <2>2, <2>3, <2>5
  <1>18. /\ Owed(drop, w.accounts)[r] = leaf.locked - old.lockedAmountWithdrawn
         /\ Owed(drop, accs)[r] = leaf.locked - n
    BY <1>1, <1>2, <1>3, <1>4, <1>5, <1>12, <1>16 DEF Owed, IsClaimStatus
  <1>19. amount + Owed(drop, accs)[r] <= Owed(drop, w.accounts)[r]
    BY <1>6, <1>8, <1>10, <1>14, <1>18
  <1>20. DropEnv(e) /\ e.accounts = accs
    <2>1. /\ DropDist(drop) \in DOMAIN w.accounts /\ r \in DOMAIN drop.leaves /\ amount \in Nat
          /\ amount <= w.tokens[DropVault(drop)] /\ IsClaimStatus(x, drop.leaves[r])
          /\ DOMAIN accs = DOMAIN w.accounts \cup {DropStatus(drop, r)}
          /\ accs[DropStatus(drop, r)] = x
          /\ \A a \in DOMAIN w.accounts \ {DropStatus(drop, r)} : accs[a] = w.accounts[a]
          /\ amount + Owed(drop, accs)[r] <= Owed(drop, w.accounts)[r]
          /\ u = Moved(w, DropVault(drop), amount)
          /\ IsWorld(e) /\ e.accounts = accs /\ e.tokens = u.tokens
      BY <1>1, <1>2, <1>4, <1>12, <1>14, <1>15, <1>16, <1>17, <1>19 DEF IsWorld, Moved, DropEnv
    <2> QED
      BY <2>1, StatusStored
  <1>21. accs[DropDist(drop)] = dist /\ DropDist(drop) \in DOMAIN accs
    BY <1>1, <1>3, <1>4, <1>16, DropAddresses
  <1>22. Airdrop!Withdrawable(e, r) = n - n
    BY <1>1, <1>7, <1>12, <1>16, <1>20, <1>21, DropIs DEF Airdrop!Withdrawable
  <1>23. Airdrop!Withdrawable(e, r) = 0
    BY <1>8, <1>22
  <1> QED
    BY <1>1, <1>3, <1>4, <1>16, <1>20, <1>21, <1>23 DEF Kept

LEMMA CloseClaimDoes ==
    ASSUME NEW w, DropEnv(w), IsDrop(drop), NEW r, NEW ix, ClosesIx(drop, ix, r), NEW invoker,
           Airdrop!Allowed(w, ix, invoker)
    PROVE  LET e == Airdrop!Effect(w, ix, invoker) IN
           DropEnv(e) /\ Kept(drop, w.accounts, e.accounts)
  <1>1. PICK leaf, s, e : /\ leaf = drop.leaves[r] /\ s = DropStatus(drop, r)
                          /\ e = Airdrop!Effect(w, ix, invoker)
    OBVIOUS
  <1>2. /\ ix.op = "closeClaim" /\ r \in DOMAIN drop.leaves /\ ix.accounts["claimStatus"] = s
        /\ ix.accounts["claimant"] = r
    BY <1>1 DEF ClosesIx
  <1>3. /\ DropDist(drop) \in DOMAIN w.accounts
        /\ s \notin DOMAIN w.accounts => ix.leaf = <<leaf>>
    BY <1>1, <1>2, AirSame, DropIs DEF Airdrop!Allowed, Airdrop!Open, Exists
  <1>4. leaf.unlocked \in Nat /\ leaf.locked \in Nat
    BY <1>1, <1>2 DEF IsDrop
  <1>5. IsWorld(w) /\ DropWorld(drop, w.accounts, w.tokens)
    BY DEF DropEnv
  <1>6. s \in DOMAIN w.accounts => IsClaimStatus(w.accounts[s], leaf)
    BY <1>1, <1>2, <1>3, <1>5 DEF DropWorld, DropAccounts
  <1>7. PICK fresh, x :
          /\ fresh = [lockedAmount |-> leaf.locked, unlockedAmount |-> leaf.unlocked,
                      lockedAmountWithdrawn |-> 0, closed |-> FALSE]
          /\ x = IF s \in DOMAIN w.accounts THEN [w.accounts[s] EXCEPT !.closed = TRUE]
                 ELSE [fresh EXCEPT !.closed = TRUE]
    OBVIOUS
  <1>8. IsClaimStatus(x, leaf) /\ x.closed = TRUE
    BY <1>4, <1>6, <1>7 DEF IsClaimStatus
  <1>9. PICK accs : accs = IF s \in DOMAIN w.accounts THEN [w.accounts EXCEPT ![s] = x]
                           ELSE Stored(w.accounts, s, x)
    OBVIOUS
  <1>10. /\ DOMAIN accs = DOMAIN w.accounts \cup {s} /\ accs[s] = x
         /\ \A a \in DOMAIN w.accounts \ {s} : accs[a] = w.accounts[a]
    BY <1>9 DEF Stored
  <1>11. e = [w EXCEPT !.accounts = accs]
    <2>1. CASE s \in DOMAIN w.accounts
      <3>1. e = [w EXCEPT !.accounts[s].closed = TRUE]
        BY <1>1, <1>2, <2>1, AirSame DEF Airdrop!Effect, Exists
      <3> QED
        BY <1>7, <1>9, <2>1, <3>1
    <2>2. CASE s \notin DOMAIN w.accounts
      <3>1. e = [w EXCEPT !.accounts =
                   Airdrop!Stored(@, s, [Airdrop!NewStatus(ix.leaf[1]) EXCEPT !.closed = TRUE])]
        BY <1>1, <1>2, <2>2, AirSame DEF Airdrop!Effect, Exists
      <3>2. ix.leaf[1] = leaf
        BY <1>3, <2>2
      <3>3. Airdrop!NewStatus(leaf) = fresh
        BY <1>7 DEF Airdrop!NewStatus
      <3>4. e = [w EXCEPT !.accounts = Stored(@, s, x)]
        BY <1>7, <2>2, <3>1, <3>2, <3>3, AirSame
      <3> QED
        BY <1>9, <2>2, <3>4
    <2> QED
      BY <2>1, <2>2
  <1>12. IsWorld(e) /\ e.accounts = accs /\ e.tokens = w.tokens
    BY <1>5, <1>11 DEF IsWorld
  <1>13. Owed(drop, accs)[r] = 0
    BY <1>1, <1>2, <1>8, <1>10 DEF Owed
  <1>14. PICK n \in Nat : n = 0
    OBVIOUS
  <1>15. Owed(drop, w.accounts)[r] \in Nat
    BY <1>2, <1>5, OwedIsNat DEF DropWorld
  <1>16. /\ NatTokens(w.tokens)
         /\ w.tokens[DropVault(drop)] = w.tokens[DropVault(drop)] - n
         /\ n + Owed(drop, accs)[r] <= Owed(drop, w.accounts)[r]
    <2>1. DropVault(drop) \in DOMAIN w.tokens
      BY <1>3, <1>5 DEF DropWorld
    <2>2. w.tokens[DropVault(drop)] \in Nat /\ NatTokens(w.tokens)
      BY <1>5, <2>1 DEF DropWorld, NatTokens
    <2> QED
      BY <1>13, <1>14, <1>15, <2>2
  <1>17. DropWorld(drop, accs, w.tokens)
    BY <1>1, <1>2, <1>3, <1>5, <1>8, <1>10, <1>16, StatusChanges
  <1>18. DropDist(drop) \in DOMAIN accs /\ accs[DropDist(drop)] = w.accounts[DropDist(drop)]
    BY <1>1, <1>3, <1>10, DropAddresses
  <1> QED
    BY <1>1, <1>12, <1>17, <1>18 DEF DropEnv, Kept

LEMMA ClawbackDoes ==
    ASSUME NEW w, DropEnv(w), NEW ix, ClawsIx(drop, ix), NEW invoker, Airdrop!Allowed(w, ix, invoker)
    PROVE  LET e == Airdrop!Effect(w, ix, invoker) IN
           DropEnv(e) /\ Kept(drop, w.accounts, e.accounts)
  <1>1. PICK k, v, p, e : /\ k = DropDist(drop) /\ v = DropVault(drop) /\ p = DropProxy(drop)
                          /\ e = Airdrop!Effect(w, ix, invoker)
    OBVIOUS
  <1>2. /\ ix.op \in {"clawback", "alignedClawback"} /\ ix.accounts["from"] = v
        /\ ix.op = "alignedClawback" => ix.accounts["alignedDistributor"] = p
    BY <1>1 DEF ClawsIx
  <1>3. /\ k \in DOMAIN w.accounts
        /\ ix.op = "alignedClawback" => p \in DOMAIN w.accounts
    BY <1>1, <1>2, AirSame, DropIs DEF Airdrop!Allowed, Airdrop!Open, Exists
  <1>4. IsWorld(w) /\ DropWorld(drop, w.accounts, w.tokens) /\ DropAccounts(drop, w.accounts)
    BY DEF DropEnv, DropWorld
  <1>5. v \in DOMAIN w.tokens /\ NatTokens(w.tokens)
    BY <1>1, <1>3, <1>4 DEF DropWorld
  <1>6. p # k
    BY <1>1, DropAddresses
  <1>7. PICK x, y, plain, accs, toks :
          /\ x = [w.accounts[k] EXCEPT !.clawedBack = TRUE]
          /\ y = [w.accounts[p] EXCEPT !.distributorClawedBack = TRUE]
          /\ plain = [w.accounts EXCEPT ![k] = x]
          /\ accs = IF ix.op = "clawback" THEN plain ELSE [plain EXCEPT ![p] = y]
          /\ toks = [w.tokens EXCEPT ![v] = 0]
    OBVIOUS
  <1>8. PICK u : u = [w EXCEPT !.accounts = plain, !.tokens = toks]
    OBVIOUS
  <1>9. IsWorld(u) /\ u.accounts = plain /\ u.tokens = toks
    BY <1>4, <1>8 DEF IsWorld
  <1>10. Airdrop!ClawedBack(w, v) = u
    <2>1. Airdrop!ClawedBack(w, v) = [w EXCEPT !.accounts[k].clawedBack = TRUE, !.tokens[v] = 0]
      BY <1>1, DropIs DEF Airdrop!ClawedBack
    <2> QED
      BY <1>4, <1>7, <1>8, <2>1 DEF IsWorld
  <1>11. e = [u EXCEPT !.accounts = accs]
    <2>1. CASE ix.op = "clawback"
      <3>1. e = u
        BY <1>1, <1>2, <1>10, <2>1 DEF Airdrop!Effect
      <3> QED
        BY <1>7, <1>9, <2>1, <3>1 DEF IsWorld
    <2>2. CASE ix.op = "alignedClawback"
      <3>1. e = [u EXCEPT !.accounts[p].distributorClawedBack = TRUE]
        BY <1>1, <1>2, <1>10, <2>2 DEF Airdrop!Effect
      <3>2. u.accounts[p] = w.accounts[p]
        BY <1>3, <1>6, <1>7, <1>9, <2>2
      <3> QED
        BY <1>7, <1>9, <2>2, <3>1, <3>2
    <2> QED
      BY <1>2, <2>1, <2>2
  <1>12. IsWorld(e) /\ e.accounts = accs /\ e.tokens = toks
    BY <1>9, <1>11 DEF IsWorld
  <1>13. /\ DOMAIN accs = DOMAIN w.accounts /\ accs[k] = x
         /\ p \in DOMAIN w.accounts => accs[p] = IF ix.op = "clawback" THEN w.accounts[p] ELSE y
         /\ \A a \in DOMAIN w.accounts \ {k, p} : accs[a] = w.accounts[a]
    <2>1. /\ DOMAIN plain = DOMAIN w.accounts /\ plain[k] = x
          /\ p \in DOMAIN w.accounts => plain[p] = w.accounts[p]
          /\ \A a \in DOMAIN w.accounts \ {k} : plain[a] = w.accounts[a]
      <3>1. p \in DOMAIN w.accounts => plain[p] = w.accounts[p]
        BY <1>6, <1>7
      <3>2. DOMAIN plain = DOMAIN w.accounts /\ plain[k] = x
            /\ \A a \in DOMAIN w.accounts \ {k} : plain[a] = w.accounts[a]
        BY <1>3, <1>7
      <3> QED
        BY <3>1, <3>2
    <2> QED
      BY <1>2, <1>3, <1>6, <1>7, <2>1
  <1>14. IsDistributor(w.accounts[k], drop)
    BY <1>1, <1>3, <1>4 DEF DropAccounts
  <1>15. /\ IsDistributor(x, drop) /\ x.clawedBack = TRUE /\ x.admin = w.accounts[k].admin
         /\ x.startTs = w.accounts[k].startTs /\ x.unlockPeriod = w.accounts[k].unlockPeriod
    BY <1>7, <1>14 DEF IsDistributor
  <1>16. p \in DOMAIN w.accounts => IsProxy(w.accounts[p]) /\ IsProxy(accs[p])
    <2> SUFFICES ASSUME p \in DOMAIN w.accounts
                 PROVE  IsProxy(w.accounts[p]) /\ IsProxy(accs[p])
      OBVIOUS
    <2>1. IsProxy(w.accounts[p])
      BY <1>1, <1>3, <1>4 DEF DropAccounts
    <2>2. IsProxy(y)
      BY <1>7, <2>1 DEF IsProxy
    <2> QED
      BY <1>13, <2>1, <2>2
  <1>17. DropAccounts(drop, accs)
    <2>1. \A r \in DOMAIN drop.leaves : DropStatus(drop, r) \in DOMAIN accs =>
            IsClaimStatus(accs[DropStatus(drop, r)], drop.leaves[r])
      <3> SUFFICES ASSUME NEW r \in DOMAIN drop.leaves, DropStatus(drop, r) \in DOMAIN accs
                   PROVE  IsClaimStatus(accs[DropStatus(drop, r)], drop.leaves[r])
        OBVIOUS
      <3>1. DropStatus(drop, r) # k /\ DropStatus(drop, r) # p
        BY <1>1, DropAddresses
      <3>2. IsClaimStatus(w.accounts[DropStatus(drop, r)], drop.leaves[r])
        BY <1>4, <1>13 DEF DropAccounts
      <3> QED
        BY <1>13, <3>1, <3>2
    <2>2. IF p \in DOMAIN accs THEN accs[k].admin = p /\ IsProxy(accs[p])
          ELSE accs[k].admin = Airdrop!Admin
      BY <1>1, <1>3, <1>4, <1>13, <1>15, <1>16 DEF DropAccounts
    <2>3. DOMAIN accs \subseteq {k, p} \cup {DropStatus(drop, r) : r \in DOMAIN drop.leaves}
      BY <1>1, <1>4, <1>13 DEF DropAccounts
    <2> QED
      BY <1>1, <1>3, <1>13, <1>15, <2>1, <2>2, <2>3 DEF DropAccounts
  <1>18. NatTokens(toks) /\ DOMAIN toks = DOMAIN w.tokens
    BY <1>5, <1>7 DEF NatTokens
  <1>19. Covered(drop, accs, toks)
    BY <1>1, <1>13, <1>15 DEF Covered
  <1>20. DropWorld(drop, accs, toks)
    BY <1>1, <1>3, <1>5, <1>13, <1>17, <1>18, <1>19 DEF DropWorld
  <1>21. Kept(drop, w.accounts, accs)
    BY <1>1, <1>3, <1>13, <1>15 DEF Kept
  <1> QED
    BY <1>1, <1>12, <1>20, <1>21 DEF DropEnv

(* An instruction of the clients, apart from a creation.                   *)
DropIx(d, ix) ==
    \/ ix.op = "wrap" \/ OpensIx(d, ix) \/ ClawsIx(d, ix)
    \/ \E r \in DOMAIN d.leaves : ClaimsIx(d, ix, r) \/ ClosesIx(d, ix, r)

LEMMA DropTokensOpen ==
    ASSUME NEW d, NEW accs, NEW toks, DropWorld(d, accs, toks), NEW others, NatTokens(others),
           DropVault(d) \in DOMAIN others <=> DropVault(d) \in DOMAIN toks,
           DropVault(d) \in DOMAIN toks => others[DropVault(d)] = toks[DropVault(d)]
    PROVE  DropWorld(d, accs, others)
  BY DEF DropWorld, Covered

LEMMA DropDoes ==
    ASSUME program = "distributor", NEW w, DropEnv(w), IsDrop(drop), now \in Nat, NEW ix,
           DropIx(drop, ix), NEW invoker
    PROVE  LET v == Executed(w, ix, invoker) IN
           DropEnv(v) /\ Kept(drop, w.accounts, v.accounts)
  <1>1. PICK v, e : v = Executed(w, ix, invoker) /\ e = EffectOf(w, ix, invoker)
    OBVIOUS
  <1>2. IsWorld(w)
    BY DEF DropEnv
  <1>3. CASE ~(w.ok /\ AllowedTo(w, ix, invoker))
    <2>1. IsWorld(v) /\ v.accounts = w.accounts /\ v.tokens = w.tokens
      BY <1>1, <1>2, <1>3, Refused
    <2> QED
      BY <1>1, <2>1 DEF DropEnv, Kept
  <1>4. CASE w.ok /\ AllowedTo(w, ix, invoker)
    <2>1. Airdrop!Allowed(w, ix, invoker) /\ e = Airdrop!Effect(w, ix, invoker)
      BY <1>1, <1>4 DEF AllowedTo, EffectOf
    <2>2. DropEnv(e) /\ Kept(drop, w.accounts, e.accounts)
      <3>1. CASE ix.op = "wrap"
        BY <2>1, <3>1 DEF Airdrop!Effect, Kept
      <3>2. CASE OpensIx(drop, ix)
        <4>1. PICK a : a = ix.account
          OBVIOUS
        <4>2. ix.op = "createAta" /\ a # DropVault(drop)
          BY <3>2, <4>1 DEF OpensIx
        <4>3. e = Opened(w, a)
          BY <2>1, <4>1, <4>2, AirSame DEF Airdrop!Effect
        <4>4. NatTokens(w.tokens)
          BY DEF DropEnv, DropWorld
        <4>5. /\ TokensOnly(e, w) /\ NatTokens(e.tokens)
              /\ DOMAIN e.tokens = DOMAIN w.tokens \cup {a}
              /\ \A b \in DOMAIN w.tokens : e.tokens[b] = w.tokens[b]
          BY <1>2, <4>3, <4>4, OpenedIs
        <4>6. DropWorld(drop, w.accounts, w.tokens)
          BY DEF DropEnv
        <4>7. DropWorld(drop, w.accounts, e.tokens)
          BY <4>2, <4>5, <4>6, DropTokensOpen
        <4> QED
          BY <4>5, <4>7 DEF DropEnv, TokensOnly, Kept
      <3>3. CASE ClawsIx(drop, ix)
        BY <2>1, <3>3, ClawbackDoes
      <3>4. ASSUME NEW r \in DOMAIN drop.leaves, ClaimsIx(drop, ix, r)
            PROVE  DropEnv(e) /\ Kept(drop, w.accounts, e.accounts)
        <4>1. ix.op \in {"newClaim", "claimLocked"}
          BY <3>4 DEF ClaimsIx
        <4>2. CASE ix.op = "newClaim"
          BY <2>1, <3>4, <4>2, NewClaimDoes
        <4>3. CASE ix.op = "claimLocked"
          BY <2>1, <3>4, <4>3, ClaimLockedDoes
        <4> QED
          BY <4>1, <4>2, <4>3
      <3>5. ASSUME NEW r \in DOMAIN drop.leaves, ClosesIx(drop, ix, r)
            PROVE  DropEnv(e) /\ Kept(drop, w.accounts, e.accounts)
        BY <2>1, <3>5, CloseClaimDoes
      <3> QED
        BY <3>1, <3>2, <3>3, <3>4, <3>5 DEF DropIx
    <2>3. IsWorld(e)
      BY <2>2 DEF DropEnv
    <2>4. IsWorld(v) /\ v.accounts = e.accounts /\ v.tokens = e.tokens
      BY <1>1, <1>2, <1>4, <2>3, ExecutedDoes
    <2> QED
      BY <1>1, <2>2, <2>4 DEF DropEnv
  <1> QED
    BY <1>3, <1>4

(* A transaction that begins with such instructions.                       *)
LEMMA DropSteps ==
    ASSUME program = "distributor", DropWorld(drop, accounts, tokens), IsDrop(drop), now \in Nat,
           NEW m \in Nat, NEW n \in Nat, m <= n, NEW ixs, NEW invoker, NEW f,
           Stepwise(f, ixs, n, invoker), \A k \in 1..m : DropIx(drop, ixs[k])
    PROVE  DropEnv(f[m]) /\ Kept(drop, accounts, f[m].accounts)
  <1>1. DropEnv(World) /\ Kept(drop, accounts, World.accounts)
    BY WorldIsWorld DEF DropEnv, Kept
  <1> DEFINE Good == {k \in Nat : k <= m => DropEnv(f[k]) /\ Kept(drop, accounts, f[k].accounts)}
  <1>2. 0 \in Good
    BY <1>1 DEF Stepwise
  <1>3. ASSUME NEW k \in Nat, k \in Good
        PROVE  k + 1 \in Good
    <2> SUFFICES ASSUME k + 1 <= m
                 PROVE  DropEnv(f[k + 1]) /\ Kept(drop, accounts, f[k + 1].accounts)
      OBVIOUS
    <2>1. DropEnv(f[k]) /\ Kept(drop, accounts, f[k].accounts)
      BY <1>3
    <2>2. k + 1 \in 1..m /\ k + 1 \in 1..n /\ (k + 1) - 1 = k
      OBVIOUS
    <2>3. f[k + 1] = Executed(f[k], ixs[k + 1], invoker)
      BY <2>2 DEF Stepwise
    <2>4. DropIx(drop, ixs[k + 1])
      BY <2>2
    <2>5. DropEnv(f[k + 1]) /\ Kept(drop, f[k].accounts, f[k + 1].accounts)
      BY <2>1, <2>3, <2>4, DropDoes
    <2> QED
      BY <2>1, <2>5 DEF Kept
  <1>4. m \in Good
    <2> HIDE DEF Good
    <2> QED
      BY <1>2, <1>3, Inductive
  <1> QED
    BY <1>4

LEMMA DropRuns ==
    ASSUME program = "distributor", DropWorld(drop, accounts, tokens), IsDrop(drop), now \in Nat,
           NEW n \in Nat, NEW ixs, DOMAIN ixs = 1..n, \A k \in 1..n : DropIx(drop, ixs[k]), NEW invoker
    PROVE  LET v == RunOf(ixs, invoker) IN
           DropEnv(v) /\ Kept(drop, accounts, v.accounts)
  <1>1. PICK f : Stepwise(f, ixs, n, invoker) /\ RunOf(ixs, invoker) = f[n]
    BY RunIsStepwise
  <1>2. n <= n
    OBVIOUS
  <1> QED
    BY <1>1, <1>2, DropSteps

-----------------------------------------------------------------------------
(* The creation of an airdrop.                                             *)
LEMMA SumOfLeaves ==
    ASSUME NEW S, IsFiniteSet(S), NEW f \in [S -> Int]
    PROVE  Airdrop!MapThenSumSet(LAMBDA x : f[x], S) = Summing(f, S)[S]
  <1> DEFINE Step(sum) == [T \in SUBSET S |-> IF T = {} THEN 0
                              ELSE f[CHOOSE x \in T : TRUE] + sum[T \ {CHOOSE x \in T : TRUE}]]
  <1>1. Airdrop!MapThenSumSet(LAMBDA x : f[x], S) = (CHOOSE sum : sum = Step(sum))[S]
    BY DEF Airdrop!MapThenSumSet, Airdrop!MapThenFoldSet
  <1>2. \A sum : sum = Step(sum) <=> SumsBy(sum, f, AnyOf(S), S)
    BY DEF SumsBy, AnyOf
  <1>3. AnyOf(S) \in ChoiceOf(S)
    BY AnyOfIsChoice
  <1> HIDE DEF Step
  <1>4. \E sum : sum = Step(sum)
    <2>1. PICK sum : SumsBy(sum, f, AnyOf(S), S)
      BY <1>3, SumExists
    <2> QED
      BY <1>2, <2>1
  <1>5. PICK sum : sum = (CHOOSE s : s = Step(s)) /\ sum = Step(sum)
    BY <1>4
  <1>6. IsSum(sum, f, S)
    BY <1>2, <1>3, <1>5, SumsByIsSum
  <1>7. sum[S] = Summing(f, S)[S]
    BY <1>6, SumIsSumming
  <1> QED
    BY <1>1, <1>5, <1>7

(* Before anything is claimed the airdrop owes what create asks for.       *)
LEMMA OwedAtFirst ==
    ASSUME IsDrop(drop), NEW accs,
           \A r \in DOMAIN drop.leaves : DropStatus(drop, r) \notin DOMAIN accs
    PROVE  OwedInAll(drop, accs) = Airdrop!MaxTotalClaim /\ Airdrop!MaxTotalClaim \in Nat
  <1>1. PICK S, f : S = DOMAIN drop.leaves
                    /\ f = [r \in S |-> drop.leaves[r].unlocked + drop.leaves[r].locked]
    OBVIOUS
  <1>2. IsFiniteSet(S) /\ f \in [S -> Nat] /\ f \in [S -> Int]
    BY <1>1 DEF IsDrop
  <1>3. Airdrop!MaxTotalClaim = Airdrop!MapThenSumSet(LAMBDA r : f[r], S)
    <2> DEFINE Amount(r) == drop.leaves[r].unlocked + drop.leaves[r].locked
               Plain(sum) == [T \in SUBSET S |-> IF T = {} THEN 0
                     ELSE Amount(CHOOSE x \in T : TRUE) + sum[T \ {CHOOSE x \in T : TRUE}]]
               Step(sum) == [T \in SUBSET S |-> IF T = {} THEN 0
                     ELSE f[CHOOSE x \in T : TRUE] + sum[T \ {CHOOSE x \in T : TRUE}]]
    <2>1. Airdrop!MaxTotalClaim = (CHOOSE sum : sum = Plain(sum))[S]
      BY <1>1 DEF Airdrop!MaxTotalClaim, Airdrop!MapThenSumSet, Airdrop!MapThenFoldSet,
                  Airdrop!Recipients, Airdrop!Leaves
    <2>2. Airdrop!MapThenSumSet(LAMBDA r : f[r], S) = (CHOOSE sum : sum = Step(sum))[S]
      BY DEF Airdrop!MapThenSumSet, Airdrop!MapThenFoldSet
    <2>3. ASSUME NEW sum
          PROVE  Plain(sum) = Step(sum)
      <3>1. \A T \in SUBSET S : T # {} => (CHOOSE x \in T : TRUE) \in S
        OBVIOUS
      <3>2. \A r \in S : f[r] = Amount(r)
        BY <1>1
      <3> QED
        BY <3>1, <3>2
    <2> HIDE DEF Plain, Step
    <2>4. \A sum : sum = Plain(sum) <=> sum = Step(sum)
      BY <2>3
    <2> QED
      BY <2>1, <2>2, <2>4
  <1>5. Airdrop!MapThenSumSet(LAMBDA r : f[r], S) = Summing(f, S)[S]
    BY <1>2, SumOfLeaves
  <1>6. Owed(drop, accs) = f
    BY <1>1 DEF Owed
  <1>7. Summing(f, S)[S] \in Nat
    BY <1>2, SumNatural
  <1> QED
    BY <1>1, <1>3, <1>5, <1>6, <1>7 DEF OwedInAll

(* What create asks for, of an airdrop.                                    *)
TotalClaim(d) ==
    Summing([r \in DOMAIN d.leaves |-> d.leaves[r].unlocked + d.leaves[r].locked],
            DOMAIN d.leaves)[DOMAIN d.leaves]

LEMMA TotalIs ==
    ASSUME IsDrop(drop)
    PROVE  Airdrop!MaxTotalClaim = TotalClaim(drop) /\ TotalClaim(drop) \in Nat
  <1>1. PICK e : e = <<>>
    OBVIOUS
  <1>2. \A r \in DOMAIN drop.leaves : DropStatus(drop, r) \notin DOMAIN e
    BY <1>1
  <1>3. OwedInAll(drop, e) = Airdrop!MaxTotalClaim /\ Airdrop!MaxTotalClaim \in Nat
    BY <1>2, OwedAtFirst
  <1>4. Owed(drop, e) = [r \in DOMAIN drop.leaves |-> drop.leaves[r].unlocked + drop.leaves[r].locked]
    BY <1>2 DEF Owed
  <1> QED
    BY <1>3, <1>4 DEF OwedInAll, TotalClaim

(* An airdrop that was created and not funded yet.                         *)
FreshEnv(w) ==
    /\ IsWorld(w) /\ NatTokens(w.tokens)
    /\ DropVault(drop) \in DOMAIN w.tokens /\ w.tokens[DropVault(drop)] = 0
    /\ DropDist(drop) \in DOMAIN w.accounts /\ DropAccounts(drop, w.accounts)
    /\ \A r \in DOMAIN drop.leaves : DropStatus(drop, r) \notin DOMAIN w.accounts

CreatesIx(d, ix) ==
    /\ ix.op \in {"newDistributor", "alignedNewDistributor"}
    /\ ix.accounts["distributor"] = DropDist(d) /\ ix.accounts["mint"] = d.mint
    /\ ix.accounts["tokenVault"] = DropVault(d)
    /\ ix.accounts["clawbackReceiver"] = AdminTokens(d)
    /\ ix.op = "alignedNewDistributor" => ix.accounts["alignedDistributor"] = DropProxy(d)
    /\ ix.schedule \in Schedules

FundsIx(d, ix) ==
    /\ ix.op = "transfer" /\ ix.to = DropVault(d)
    /\ \E e \in {1, 2} :
         /\ ix.amount = Airdrop!TransferAmount(TotalClaim(d), d.fees[e])
         /\ ix.charged = Airdrop!FeeCharged(TotalClaim(d), d.fees[e])

LEMMA CreationDoes ==
    ASSUME NEW w, DropEnv(w), now \in Nat, NEW ix, CreatesIx(drop, ix),
           Airdrop!Allowed(w, ix, Airdrop!Admin)
    PROVE  FreshEnv(Airdrop!Effect(w, ix, Airdrop!Admin))
  <1>1. PICK k, v, p, e, s :
          /\ k = DropDist(drop) /\ v = DropVault(drop) /\ p = DropProxy(drop)
          /\ e = Airdrop!Effect(w, ix, Airdrop!Admin) /\ s = ix.schedule
    OBVIOUS
  <1>2. /\ ix.op \in {"newDistributor", "alignedNewDistributor"}
        /\ ix.accounts["distributor"] = k /\ ix.accounts["mint"] = drop.mint
        /\ ix.accounts["tokenVault"] = v /\ ix.accounts["clawbackReceiver"] = AdminTokens(drop)
        /\ ix.op = "alignedNewDistributor" => ix.accounts["alignedDistributor"] = p
        /\ s \in Schedules
    BY <1>1 DEF CreatesIx
  <1>3. Airdrop!NewDistributorAccepted(w, ix.accounts, ix, Airdrop!Admin)
    BY <1>2 DEF Airdrop!Allowed
  <1>4. k \notin DOMAIN w.accounts /\ Airdrop!AcceptsSchedule(s)
    BY <1>1, <1>2, <1>3, AirSame DEF Airdrop!NewDistributorAccepted, Exists
  <1>5. IsWorld(w) /\ NatTokens(w.tokens) /\ DOMAIN w.accounts = {} /\ v \notin DOMAIN w.tokens
    BY <1>1, <1>4 DEF DropEnv, DropWorld, DropAccounts
  <1>6. /\ {s.start, s.end, s.clawback} \subseteq Nat /\ s.period \in Nat \ {0}
    BY <1>2, ProgramAssumption
  <1>7. PICK start, end : start = Airdrop!StartTs(s, now) /\ end = Airdrop!EndTs(s, now)
    OBVIOUS
  <1>8. start \in Nat /\ end \in Nat /\ start + s.period <= end
    <2>1. start \in Nat /\ end \in Nat
      BY <1>6, <1>7 DEF Airdrop!StartTs, Airdrop!EndTs
    <2>2. s.period <= end - start
      BY <1>4, <1>7 DEF Airdrop!AcceptsSchedule
    <2> QED
      BY <1>6, <2>1, <2>2
  <1>9. PICK u : u = Opened(w, v)
    OBVIOUS
  <1>10. /\ TokensOnly(u, w) /\ NatTokens(u.tokens) /\ v \in DOMAIN u.tokens
         /\ u.tokens[v] = 0
    BY <1>5, <1>9, OpenedIs
  <1>11. PICK admin, x, y :
           /\ admin = IF ix.op = "newDistributor" THEN Airdrop!Admin ELSE p
           /\ x = Airdrop!NewDistributor(ix, admin)
           /\ y = [admin |-> Airdrop!Admin, distributorClawedBack |-> FALSE]
    OBVIOUS
  <1>12. IsDistributor(x, drop) /\ x.admin = admin /\ IsProxy(y)
    <2>1. /\ x.mint = drop.mint /\ x.tokenVault = v /\ x.clawbackReceiver = AdminTokens(drop)
          /\ x.clawedBack = FALSE /\ x.startTs = start /\ x.endTs = end
          /\ x.unlockPeriod = s.period /\ x.clawbackStartTs = s.clawback /\ x.admin = admin
          /\ {"mint", "admin", "clawedBack"} \subseteq DOMAIN x
      BY <1>1, <1>2, <1>7, <1>11 DEF Airdrop!NewDistributor
    <2>2. IsProxy(y)
      BY <1>11 DEF IsProxy
    <2>3. x.clawedBack \in BOOLEAN
      BY <2>1
    <2>4. /\ {x.startTs, x.endTs, x.clawbackStartTs, x.unlockPeriod} \subseteq Nat
          /\ x.unlockPeriod > 0 /\ x.startTs + x.unlockPeriod <= x.endTs
      BY <1>6, <1>8, <2>1
    <2> QED
      BY <1>1, <2>1, <2>2, <2>3, <2>4 DEF IsDistributor
  <1>13. PICK plain, accs : /\ plain = Stored(u.accounts, k, x)
                            /\ accs = IF ix.op = "newDistributor" THEN plain
                                      ELSE Stored(plain, p, y)
    OBVIOUS
  <1>14. PICK c : c = [u EXCEPT !.accounts = plain]
    OBVIOUS
  <1>15. IsWorld(c) /\ c.accounts = plain /\ c.tokens = u.tokens
    BY <1>10, <1>14 DEF TokensOnly, IsWorld
  <1>16. Airdrop!WithDistributor(w, ix, admin) = c
    BY <1>1, <1>2, <1>9, <1>11, <1>13, <1>14, AirSame DEF Airdrop!WithDistributor
  <1>17. e = IF ix.op = "newDistributor" THEN c ELSE [c EXCEPT !.accounts = accs]
    <2>1. CASE ix.op = "newDistributor"
      BY <1>1, <1>11, <1>16, <2>1 DEF Airdrop!Effect
    <2>2. CASE ix.op = "alignedNewDistributor"
      BY <1>1, <1>2, <1>11, <1>13, <1>15, <1>16, <2>2, AirSame DEF Airdrop!Effect
    <2> QED
      BY <1>2, <2>1, <2>2
  <1>18. IsWorld(e) /\ e.accounts = accs /\ e.tokens = u.tokens
    BY <1>13, <1>15, <1>17 DEF IsWorld
  <1>19. k # p
    BY <1>1, DropAddresses
  <1>20. /\ DOMAIN accs = IF ix.op = "newDistributor" THEN {k} ELSE {k, p}
         /\ accs[k] = x /\ (p \in DOMAIN accs => accs[p] = y)
    <2>1. DOMAIN plain = {k} /\ plain[k] = x
      BY <1>5, <1>10, <1>13 DEF Stored, TokensOnly
    <2> QED
      BY <1>13, <1>19, <2>1 DEF Stored
  <1>21. \A r \in DOMAIN drop.leaves : DropStatus(drop, r) \notin DOMAIN accs
    BY <1>1, <1>20, DropAddresses
  <1>22. DropAccounts(drop, accs)
    <2>1. p \in DOMAIN accs <=> ix.op # "newDistributor"
      BY <1>19, <1>20
    <2> QED
      BY <1>1, <1>11, <1>12, <1>20, <1>21, <2>1 DEF DropAccounts
  <1> QED
    BY <1>1, <1>10, <1>18, <1>20, <1>21, <1>22 DEF FreshEnv

LEMMA FundingDoes ==
    ASSUME NEW w, FreshEnv(w), IsDrop(drop), NEW ix, FundsIx(drop, ix), NEW invoker
    PROVE  DropEnv(Airdrop!Effect(w, ix, invoker))
  <1>1. PICK v, e : v = DropVault(drop) /\ e = Airdrop!Effect(w, ix, invoker)
    OBVIOUS
  <1>2. PICK epo \in {1, 2} :
          /\ ix.amount = Airdrop!TransferAmount(TotalClaim(drop), drop.fees[epo])
          /\ ix.charged = Airdrop!FeeCharged(TotalClaim(drop), drop.fees[epo])
    BY DEF FundsIx
  <1>3. ix.op = "transfer" /\ ix.to = v
    BY <1>1 DEF FundsIx
  <1>4. PICK fee, n, sent : /\ fee = drop.fees[epo] /\ n = TotalClaim(drop)
                            /\ sent = ix.amount
    OBVIOUS
  <1>5. fee.max \in Nat /\ fee.rate \in 0..OneInBasisPoints - 1
    BY <1>4 DEF IsDrop
  <1>6. OwedInAll(drop, w.accounts) = n /\ n \in Nat
    BY <1>4, OwedAtFirst, TotalIs DEF FreshEnv
  <1>7. sent = Airdrop!TransferAmount(n, fee)
    BY <1>2, <1>4
  <1>8. /\ sent \in Nat /\ Airdrop!FeeKept(sent, fee) \in Int
        /\ Airdrop!FeeCharged(n, fee) = Airdrop!FeeKept(sent, fee)
        /\ sent - Airdrop!FeeKept(sent, fee) >= n
    BY <1>5, <1>6, <1>7, TransferArrives
  <1>9. ix.charged = Airdrop!FeeKept(sent, fee)
    BY <1>2, <1>4, <1>8
  <1>10. PICK toks : toks = [w.tokens EXCEPT ![v] = w.tokens[v] + ix.amount - ix.charged]
    OBVIOUS
  <1>11. e = [w EXCEPT !.tokens = toks]
    <2>1. e = [w EXCEPT !.tokens[v] = @ + ix.amount - ix.charged]
      BY <1>1, <1>3 DEF Airdrop!Effect
    <2> QED
      BY <1>10, <2>1
  <1>12. IsWorld(w) /\ NatTokens(w.tokens) /\ v \in DOMAIN w.tokens /\ w.tokens[v] = 0
    BY <1>1 DEF FreshEnv
  <1>13. IsWorld(e) /\ e.accounts = w.accounts /\ e.tokens = toks
    BY <1>11, <1>12 DEF IsWorld
  <1>14. PICK got : got = ix.amount - ix.charged
    OBVIOUS
  <1>15. got \in Nat /\ got >= n
    BY <1>4, <1>6, <1>8, <1>9, <1>14
  <1>16. /\ DOMAIN toks = DOMAIN w.tokens /\ toks = [a \in DOMAIN toks |-> toks[a]]
         /\ toks[v] = got /\ \A a \in DOMAIN w.tokens \ {v} : toks[a] = w.tokens[a]
    <2>1. w.tokens[v] + ix.amount - ix.charged = got
      BY <1>4, <1>8, <1>9, <1>12, <1>14
    <2> QED
      BY <1>10, <1>12, <2>1
  <1>17. NatTokens(toks)
    BY <1>12, <1>15, <1>16 DEF NatTokens
  <1>18. DropWorld(drop, w.accounts, toks)
    BY <1>1, <1>6, <1>12, <1>15, <1>16, <1>17 DEF DropWorld, Covered, FreshEnv
  <1> QED
    BY <1>1, <1>13, <1>18 DEF DropEnv

(* A transaction that creates an airdrop and funds it, when it succeeds.   *)
LEMMA CreationRuns ==
    ASSUME program = "distributor", DropWorld(drop, accounts, tokens), IsDrop(drop), now \in Nat,
           NEW m \in Nat, NEW ixs, DOMAIN ixs = 1..(m + 2), \A k \in 1..m : DropIx(drop, ixs[k]),
           CreatesIx(drop, ixs[m + 1]), FundsIx(drop, ixs[m + 2]),
           NEW v, v = RunOf(ixs, Airdrop!Admin), v.ok
    PROVE  DropEnv(v) /\ Kept(drop, accounts, v.accounts)
  <1>1. PICK n \in Nat : n = m + 2
    OBVIOUS
  <1>2. DOMAIN ixs = 1..n /\ m <= n
    BY <1>1
  <1>3. PICK f : Stepwise(f, ixs, n, Airdrop!Admin) /\ RunOf(ixs, Airdrop!Admin) = f[n]
    BY <1>2, RunIsStepwise
  <1>4. DropEnv(f[m]) /\ Kept(drop, accounts, f[m].accounts)
    BY <1>2, <1>3, DropSteps
  <1>5. PICK w, u, a, b : w = f[m] /\ u = f[m + 1] /\ a = ixs[m + 1] /\ b = ixs[m + 2]
    OBVIOUS
  <1>6. u = Executed(w, a, Airdrop!Admin) /\ v = Executed(u, b, Airdrop!Admin)
    <2>1. m + 1 \in 1..n /\ m + 2 \in 1..n /\ (m + 1) - 1 = m /\ (m + 2) - 1 = m + 1
      BY <1>1
    <2>2. /\ f[m + 1] = Executed(f[(m + 1) - 1], ixs[m + 1], Airdrop!Admin)
          /\ f[m + 2] = Executed(f[(m + 2) - 1], ixs[m + 2], Airdrop!Admin)
      BY <1>3, <2>1 DEF Stepwise
    <2> QED
      BY <1>1, <1>3, <1>5, <2>1, <2>2
  <1>7. PICK e, g : e = EffectOf(w, a, Airdrop!Admin) /\ g = EffectOf(u, b, Airdrop!Admin)
    OBVIOUS
  <1>8. IsWorld(w)
    BY <1>4, <1>5 DEF DropEnv
  <1>9. CASE ~(w.ok /\ AllowedTo(w, a, Airdrop!Admin))
    <2>1. IsWorld(u) /\ u.ok = FALSE
      BY <1>6, <1>8, <1>9, Refused
    <2>2. ~(u.ok /\ AllowedTo(u, b, Airdrop!Admin))
      BY <2>1
    <2>3. v.ok = FALSE
      BY <1>6, <2>1, <2>2, Refused
    <2> QED
      BY <2>3
  <1>10. CASE w.ok /\ AllowedTo(w, a, Airdrop!Admin)
    <2>1. Airdrop!Allowed(w, a, Airdrop!Admin) /\ e = Airdrop!Effect(w, a, Airdrop!Admin)
      BY <1>7, <1>10 DEF AllowedTo, EffectOf
    <2>11. DropDist(drop) \notin DOMAIN accounts
      <3>1. ~Exists(w, DropDist(drop))
        BY <1>5, <2>1, AirSame DEF CreatesIx, Airdrop!Allowed, Airdrop!NewDistributorAccepted
      <3> QED
        BY <1>4, <1>5, <3>1 DEF Kept, Exists
    <2>2. FreshEnv(e)
      BY <1>4, <1>5, <2>1, CreationDoes
    <2>3. IsWorld(e)
      BY <2>2 DEF FreshEnv
    <2>4. IsWorld(u) /\ u.accounts = e.accounts /\ u.tokens = e.tokens
      BY <1>6, <1>7, <1>8, <1>10, <2>3, ExecutedDoes
    <2>5. FreshEnv(u)
      BY <2>2, <2>4 DEF FreshEnv
    <2>6. g = Airdrop!Effect(u, b, Airdrop!Admin)
      BY <1>7 DEF EffectOf
    <2>7. DropEnv(g)
      BY <1>5, <2>5, <2>6, FundingDoes
    <2>8. IsWorld(g)
      BY <2>7 DEF DropEnv
    <2>9. CASE ~(u.ok /\ AllowedTo(u, b, Airdrop!Admin))
      <3>1. v.ok = FALSE
        <4>1. IsWorld(u) /\ ~(u.ok /\ AllowedTo(u, b, Airdrop!Admin))
          BY <2>4, <2>9
        <4>2. LET x == Executed(u, b, Airdrop!Admin) IN x.ok = FALSE
          BY <4>1, Refused
        <4> QED
          BY <1>6, <4>2
      <3> QED
        BY <3>1
    <2>10. CASE u.ok /\ AllowedTo(u, b, Airdrop!Admin)
      <3>1. IsWorld(v) /\ v.accounts = g.accounts /\ v.tokens = g.tokens
        BY <1>6, <1>7, <2>4, <2>8, <2>10, ExecutedDoes
      <3> QED
        BY <2>7, <2>11, <3>1 DEF DropEnv, Kept
    <2> QED
      BY <2>9, <2>10
  <1> QED
    BY <1>9, <1>10

-----------------------------------------------------------------------------
(* The accounts of the instructions of the clients.                        *)
LEMMA AsReadIs ==
    ASSUME NEW n \in Nat, NEW names, DOMAIN names = 1..n, NEW keys,
           \A i, j \in 1..n : names[i] = names[j] => i = j,
           NEW a, a = [x \in DOMAIN a |-> a[x]], DOMAIN a = {names[i] : i \in 1..n},
           \A i \in 1..n : a[names[i]] = keys[i]
    PROVE  Airdrop!AsRead(names, keys) = a
  <1>1. PICK f : f = Airdrop!AsRead(names, keys)
    OBVIOUS
  <1>2. f = [x \in DOMAIN a |-> keys[CHOOSE i \in 1..n : names[i] = x]]
    BY <1>1 DEF Airdrop!AsRead
  <1>3. \A i \in 1..n : (CHOOSE j \in 1..n : names[j] = names[i]) = i
    OBVIOUS
  <1>4. \A x \in DOMAIN a : f[x] = a[x]
    BY <1>2, <1>3
  <1> QED
    BY <1>1, <1>2, <1>4

ClaimOf(d, r) ==
    [distributor |-> DropDist(d), claimStatus |-> DropStatus(d, r),
     from |-> DropVault(d), to |-> TokenAccount(d.mint, r), claimant |-> r,
     mint |-> d.mint]

CloseOf(d, invoker, r) ==
    [distributor |-> DropDist(d), adminOrClaimant |-> invoker, claimant |-> r,
     claimStatus |-> DropStatus(d, r)]

ClawOf(d) ==
    [distributor |-> DropDist(d), from |-> DropVault(d), to |-> AdminTokens(d),
     admin |-> Airdrop!Admin, mint |-> d.mint]

CreationOf(d) ==
    [distributor |-> DropDist(d), clawbackReceiver |-> AdminTokens(d), mint |-> d.mint,
     tokenVault |-> DropVault(d), admin |-> Airdrop!Admin]

LEMMA ClaimRead ==
    ASSUME NEW r, NEW a, a = ClaimOf(drop, r)
    PROVE  /\ Airdrop!AsRead(Airdrop!NewClaimNames, Airdrop!NewClaimKeys(a)) = a
           /\ Airdrop!AsRead(Airdrop!ClaimLockedNames, Airdrop!ClaimLockedKeys(a)) = a
  <1>1. PICK n \in Nat : n = 6
    OBVIOUS
  <1>2. PICK names, keys :
          /\ names = << "distributor", "claimStatus", "from", "to", "claimant", "mint" >>
          /\ keys = << a.distributor, a.claimStatus, a.from, a.to, a.claimant, a.mint >>
    OBVIOUS
  <1>3. /\ DOMAIN names = 1..n /\ \A i, j \in 1..n : names[i] = names[j] => i = j
        /\ \A i \in 1..n : a[names[i]] = keys[i]
    BY <1>1, <1>2
  <1>4. a = [x \in DOMAIN a |-> a[x]] /\ DOMAIN a = {names[i] : i \in 1..n}
    BY <1>1, <1>2 DEF ClaimOf
  <1>5. Airdrop!AsRead(names, keys) = a
    BY <1>3, <1>4, AsReadIs
  <1> QED
    BY <1>2, <1>5 DEF Airdrop!NewClaimNames, Airdrop!NewClaimKeys, Airdrop!ClaimLockedNames,
       Airdrop!ClaimLockedKeys

LEMMA CloseRead ==
    ASSUME NEW invoker, NEW r, NEW a, a = CloseOf(drop, invoker, r)
    PROVE  Airdrop!AsRead(Airdrop!CloseClaimNames, Airdrop!CloseClaimKeys(a)) = a
  <1>1. PICK n \in Nat : n = 4
    OBVIOUS
  <1>2. PICK names, keys :
          /\ names = << "distributor", "adminOrClaimant", "claimant", "claimStatus" >>
          /\ keys = << a.distributor, a.adminOrClaimant, a.claimant, a.claimStatus >>
    OBVIOUS
  <1>3. /\ DOMAIN names = 1..n /\ \A i, j \in 1..n : names[i] = names[j] => i = j
        /\ \A i \in 1..n : a[names[i]] = keys[i]
    BY <1>1, <1>2
  <1>4. a = [x \in DOMAIN a |-> a[x]] /\ DOMAIN a = {names[i] : i \in 1..n}
    BY <1>1, <1>2 DEF CloseOf
  <1>5. Airdrop!AsRead(names, keys) = a
    BY <1>3, <1>4, AsReadIs
  <1> QED
    BY <1>2, <1>5 DEF Airdrop!CloseClaimNames, Airdrop!CloseClaimKeys

LEMMA ClawRead ==
    ASSUME NEW a, a = ClawOf(drop)
    PROVE  Airdrop!AsRead(Airdrop!ClawbackNames, Airdrop!ClawbackKeys(a)) = a
  <1>1. PICK n \in Nat : n = 5
    OBVIOUS
  <1>2. PICK names, keys :
          /\ names = << "distributor", "from", "to", "admin", "mint" >>
          /\ keys = << a.distributor, a.from, a.to, a.admin, a.mint >>
    OBVIOUS
  <1>3. /\ DOMAIN names = 1..n /\ \A i, j \in 1..n : names[i] = names[j] => i = j
        /\ \A i \in 1..n : a[names[i]] = keys[i]
    BY <1>1, <1>2
  <1>4. a = [x \in DOMAIN a |-> a[x]] /\ DOMAIN a = {names[i] : i \in 1..n}
    BY <1>1, <1>2 DEF ClawOf
  <1>5. Airdrop!AsRead(names, keys) = a
    BY <1>3, <1>4, AsReadIs
  <1> QED
    BY <1>2, <1>5 DEF Airdrop!ClawbackNames, Airdrop!ClawbackKeys

LEMMA CreationRead ==
    ASSUME NEW a, a = CreationOf(drop)
    PROVE  Airdrop!AsRead(Airdrop!NewDistributorNames, Airdrop!NewDistributorKeys(a)) = a
  <1>1. PICK n \in Nat : n = 5
    OBVIOUS
  <1>2. PICK names, keys :
          /\ names = << "distributor", "clawbackReceiver", "mint", "tokenVault", "admin" >>
          /\ keys = << a.distributor, a.clawbackReceiver, a.mint, a.tokenVault, a.admin >>
    OBVIOUS
  <1>3. /\ DOMAIN names = 1..n /\ \A i, j \in 1..n : names[i] = names[j] => i = j
        /\ \A i \in 1..n : a[names[i]] = keys[i]
    BY <1>1, <1>2
  <1>4. a = [x \in DOMAIN a |-> a[x]] /\ DOMAIN a = {names[i] : i \in 1..n}
    BY <1>1, <1>2 DEF CreationOf
  <1>5. Airdrop!AsRead(names, keys) = a
    BY <1>3, <1>4, AsReadIs
  <1> QED
    BY <1>2, <1>5 DEF Airdrop!NewDistributorNames, Airdrop!NewDistributorKeys

(* Those of the aligned program are completed with the proxy.              *)
LEMMA AlignedAddr ==
    ASSUME NEW ix, NEW given, NEW accs,
           DOMAIN ix = DOMAIN given \cup {"alignedDistributor"},
           "alignedDistributor" \notin DOMAIN given, {"distributor", "admin"} \subseteq DOMAIN given,
           given["distributor"] = DropDist(drop),
           ix["alignedDistributor"] = Seeds("aligned-distributor", <<"distributor">>),
           \A name \in DOMAIN given :
             /\ ix[name].by = "name" /\ given[name] # Missing
             /\ "signs" \in DOMAIN ix[name] => name = "admin"
    PROVE  LET addr == Completed(ix, given, <<>>, accs) IN
           /\ addr["alignedDistributor"] = DropProxy(drop)
           /\ \A name \in DOMAIN given : addr[name] = given[name]
           /\ addr = [name \in DOMAIN ix |-> addr[name]]
           /\ Accepts(ix, addr, <<>>, accs, given["admin"])
  <1>1. PICK args, addr, proxy, admin :
          /\ args = <<>> /\ addr = Completed(ix, given, args, accs)
          /\ proxy = "alignedDistributor" /\ admin = given["admin"]
    OBVIOUS
  <1>2. ix[proxy].by = "seeds" /\ ix[proxy].path = <<"distributor">> /\ "signs" \notin DOMAIN ix[proxy]
    BY <1>1 DEF Seeds
  <1>3. Needs(ix, given, args, proxy) = {"distributor"}
    <2>1. PICK path : path = ix[proxy].path
      OBVIOUS
    <2>2. DOMAIN path = {1} /\ path[1] = "distributor"
      BY <1>2, <2>1
    <2>3. DOMAIN args = {}
      BY <1>1
    <2> QED
      BY <1>1, <1>2, <2>1, <2>2, <2>3 DEF Needs
  <1>4. PICK middle : middle = {}
    OBVIOUS
  <1>5. \A name \in DOMAIN ix \ DOMAIN given :
          /\ ix[name].by \in Manners \ {"name"}
          /\ Needs(ix, given, args, name) \subseteq DOMAIN ix
          /\ Needs(ix, given, args, name) \subseteq
               DOMAIN given \cup (IF name \in middle THEN {} ELSE middle)
    BY <1>1, <1>2, <1>3 DEF Manners
  <1>6. PICK rank : Layered(rank, ix, given, args)
    BY <1>5, TwoLayers
  <1>7. \A name \in DOMAIN given : addr[name] = given[name]
    BY <1>1, <1>6, CompletedName
  <1>8. addr[proxy] = DropProxy(drop)
    <2>1. addr[proxy] = Seeded(ix[proxy], addr, args)
      BY <1>1, <1>2, <1>6, CompletedName
    <2>2. Seeded(Seeds("aligned-distributor", <<"distributor">>), addr, args)
            = <<"aligned-distributor", Seed("distributor", addr, args)>>
      BY SeededByOne
    <2>3. Seed("distributor", addr, args) = DropDist(drop)
      BY <1>1, <1>7 DEF Seed
    <2> QED
      BY <1>1, <2>1, <2>2, <2>3 DEF DropProxy, Airdrop!AlignedDistributorPDA
  <1>9. addr = [name \in DOMAIN ix |-> addr[name]]
    BY <1>1, <1>6, CompletedUnfolds
  <1>10. \A name \in DOMAIN ix : addr[name] # Missing
    BY <1>1, <1>7, <1>8, DropAddresses
  <1>11. \A name \in DOMAIN ix : "signs" \in DOMAIN ix[name] => addr[name] = admin
    BY <1>1, <1>2, <1>7
  <1>12. \A name \in DOMAIN ix \cap DOMAIN given : Agrees(ix, addr, args, accs, name)
    BY DEF Agrees
  <1>13. \A name \in DOMAIN ix : ix[name].by = "relations" =>
            \E r : ix[name].of = {r} /\ addr[r] \in DOMAIN accs
    BY <1>1, <1>2
  <1>14. Accepts(ix, addr, args, accs, admin)
    BY <1>1, <1>6, <1>10, <1>11, <1>12, <1>13, CompletedIsAccepted
  <1> QED
    BY <1>1, <1>7, <1>8, <1>9, <1>14

AlignedClaw(d, accs) == Completed(Airdrop!AlignedClawbackIx, ClawOf(d), <<>>, accs)

AlignedNamed(d) == Merged(CreationOf(d), [priceOracle |-> Airdrop!TestOraclePDA(d.mint, Airdrop!Admin)])
AlignedCreation(d, accs) == Completed(Airdrop!AlignedNewDistributorIx, AlignedNamed(d), <<>>, accs)

LEMMA AlignedClawIs ==
    ASSUME IsDrop(drop), NEW accs
    PROVE  /\ AlignedClaw(drop, accs)["alignedDistributor"] = DropProxy(drop)
           /\ \A name \in DOMAIN ClawOf(drop) : AlignedClaw(drop, accs)[name] = ClawOf(drop)[name]
           /\ AlignedClaw(drop, accs) = [name \in DOMAIN ClawOf(drop) \cup {"alignedDistributor"} |->
                                     AlignedClaw(drop, accs)[name]]
           /\ Accepts(Airdrop!AlignedClawbackIx, AlignedClaw(drop, accs), <<>>, accs, Airdrop!Admin)
  <1>1. PICK ix, given : ix = Airdrop!AlignedClawbackIx /\ given = ClawOf(drop)
    OBVIOUS
  <1>2. /\ DOMAIN given = {"distributor", "from", "to", "admin", "mint"}
        /\ DOMAIN ix = DOMAIN given \cup {"alignedDistributor"}
        /\ "alignedDistributor" \notin DOMAIN given /\ {"distributor", "admin"} \subseteq DOMAIN given
        /\ given["distributor"] = DropDist(drop) /\ given["admin"] = Airdrop!Admin
        /\ ix["alignedDistributor"] = Seeds("aligned-distributor", <<"distributor">>)
    BY <1>1 DEF Airdrop!AlignedClawbackIx, ClawOf, Airdrop!Seeds, Seeds
  <1>3. drop.mint # Missing
    BY DEF IsDrop
  <1>4. \A name \in DOMAIN given :
          /\ ix[name].by = "name" /\ given[name] # Missing
          /\ "signs" \in DOMAIN ix[name] => name = "admin"
    <2>1. \A name \in DOMAIN given : ix[name].by = "name"
                                     /\ ("signs" \in DOMAIN ix[name] => name = "admin")
      <3>1. \A name \in {"distributor", "from", "to", "mint"} : ix[name] = Named
        BY <1>1 DEF Airdrop!AlignedClawbackIx, Airdrop!Named, Named
      <3>2. ix["admin"] = Signer
        BY <1>1 DEF Airdrop!AlignedClawbackIx, Airdrop!Signer, Signer
      <3>3. Named.by = "name" /\ "signs" \notin DOMAIN Named /\ Signer.by = "name"
        BY DEF Named, Signer
      <3> SUFFICES ASSUME NEW name \in DOMAIN given
                   PROVE  ix[name].by = "name" /\ ("signs" \in DOMAIN ix[name] => name = "admin")
        OBVIOUS
      <3>4. name # "admin" => ix[name] = Named
        BY <1>2, <3>1
      <3> QED
        BY <3>2, <3>3, <3>4
    <2>2. \A name \in DOMAIN given : given[name] # Missing
      <3>1. /\ DropDist(drop) # Missing /\ DropVault(drop) # Missing /\ AdminTokens(drop) # Missing
            /\ Airdrop!Admin # Missing
        <4>1. Missing \notin {DropDist(drop), DropProxy(drop), Airdrop!Admin}
          BY DropAddresses
        <4>2. \A m, r : TokenAccount(m, r) # Missing
          BY DropAddresses
        <4> QED
          BY <4>1, <4>2 DEF DropVault, AdminTokens
      <3> QED
        BY <1>1, <1>2, <1>3, <3>1 DEF ClawOf
    <2> QED
      BY <2>1, <2>2
  <1> QED
    BY <1>1, <1>2, <1>4, AlignedAddr DEF AlignedClaw

LEMMA AlignedCreationIs ==
    ASSUME IsDrop(drop), NEW accs
    PROVE  /\ AlignedCreation(drop, accs)["alignedDistributor"] = DropProxy(drop)
           /\ \A name \in DOMAIN CreationOf(drop) : AlignedCreation(drop, accs)[name] = CreationOf(drop)[name]
           /\ Accepts(Airdrop!AlignedNewDistributorIx, AlignedCreation(drop, accs), <<>>, accs,
                      Airdrop!Admin)
  <1>1. PICK ix, given : ix = Airdrop!AlignedNewDistributorIx /\ given = AlignedNamed(drop)
    OBVIOUS
  <1>2. /\ DOMAIN given = DOMAIN CreationOf(drop) \cup {"priceOracle"}
        /\ DOMAIN CreationOf(drop) = {"distributor", "clawbackReceiver", "mint", "tokenVault", "admin"}
        /\ \A name \in DOMAIN CreationOf(drop) : given[name] = CreationOf(drop)[name]
        /\ given["priceOracle"] = Airdrop!TestOraclePDA(drop.mint, Airdrop!Admin)
    BY <1>1 DEF AlignedNamed, Merged, CreationOf
  <1>3. /\ DOMAIN ix = DOMAIN given \cup {"alignedDistributor"}
        /\ "alignedDistributor" \notin DOMAIN given /\ {"distributor", "admin"} \subseteq DOMAIN given
        /\ ix["alignedDistributor"] = Seeds("aligned-distributor", <<"distributor">>)
    BY <1>1, <1>2 DEF Airdrop!AlignedNewDistributorIx, Airdrop!Seeds, Seeds
  <1>4. given["distributor"] = DropDist(drop) /\ given["admin"] = Airdrop!Admin
    BY <1>2 DEF CreationOf
  <1>5. drop.mint # Missing
    BY DEF IsDrop
  <1>6. \A name \in DOMAIN given :
          /\ ix[name].by = "name" /\ given[name] # Missing
          /\ "signs" \in DOMAIN ix[name] => name = "admin"
    <2>1. \A name \in DOMAIN given : ix[name].by = "name"
                                     /\ ("signs" \in DOMAIN ix[name] => name = "admin")
      <3>1. \A name \in {"priceOracle", "clawbackReceiver", "mint", "distributor", "tokenVault"} :
              ix[name] = Named
        BY <1>1 DEF Airdrop!AlignedNewDistributorIx, Airdrop!Named, Named
      <3>2. ix["admin"] = Signer
        BY <1>1 DEF Airdrop!AlignedNewDistributorIx, Airdrop!Signer, Signer
      <3>3. Named.by = "name" /\ "signs" \notin DOMAIN Named /\ Signer.by = "name"
        BY DEF Named, Signer
      <3> SUFFICES ASSUME NEW name \in DOMAIN given
                   PROVE  ix[name].by = "name" /\ ("signs" \in DOMAIN ix[name] => name = "admin")
        OBVIOUS
      <3>4. name # "admin" => ix[name] = Named
        BY <1>2, <3>1
      <3> QED
        BY <3>2, <3>3, <3>4
    <2>2. \A name \in DOMAIN CreationOf(drop) : CreationOf(drop)[name] # Missing
      <3>1. /\ DropDist(drop) # Missing /\ DropVault(drop) # Missing /\ AdminTokens(drop) # Missing
            /\ Airdrop!Admin # Missing
        <4>1. Missing \notin {DropDist(drop), DropProxy(drop), Airdrop!Admin}
          BY DropAddresses
        <4>2. \A m, r : TokenAccount(m, r) # Missing
          BY DropAddresses
        <4> QED
          BY <4>1, <4>2 DEF DropVault, AdminTokens
      <3> QED
        BY <1>2, <1>5, <3>1 DEF CreationOf
    <2>3. given["priceOracle"] # Missing
      BY <1>2 DEF Airdrop!TestOraclePDA, Missing
    <2> QED
      BY <1>2, <2>1, <2>2, <2>3
  <1>7. LET addr == Completed(ix, given, <<>>, accs) IN
           /\ addr["alignedDistributor"] = DropProxy(drop)
           /\ \A name \in DOMAIN given : addr[name] = given[name]
           /\ Accepts(ix, addr, <<>>, accs, given["admin"])
    BY <1>3, <1>4, <1>6, AlignedAddr
  <1> QED
    BY <1>1, <1>2, <1>4, <1>7 DEF AlignedCreation

-----------------------------------------------------------------------------
(* The transactions of the clients, written out.                           *)
OpenFor(d, owner) == [op |-> "createAta", account |-> TokenAccount(d.mint, owner)]
WrapTxn(d) == [op |-> "wrap", account |-> AdminTokens(d)]

PlainCreation(d, s, closable) ==
    [op |-> "newDistributor", accounts |-> CreationOf(d), version |-> Airdrop!Version,
     schedule |-> s, closable |-> closable]

ProxyCreation(d, s, closable, accs) ==
    [op |-> "alignedNewDistributor", updatePeriod |-> Airdrop!UpdatePeriod(s),
     accounts |-> AlignedCreation(d, accs), version |-> Airdrop!Version, schedule |-> s,
     closable |-> <<closable[1], FALSE>>]

FundDropTxn(d, epo) ==
    [op |-> "transfer", from |-> AdminTokens(d), to |-> DropVault(d),
     amount |-> Airdrop!TransferAmount(TotalClaim(d), d.fees[epo]),
     charged |-> Airdrop!FeeCharged(TotalClaim(d), d.fees[epo])]

NewClaimTxn(d, r) == [op |-> "newClaim", accounts |-> ClaimOf(d, r), leaf |-> d.leaves[r]]
LockedTxn(d, r) == [op |-> "claimLocked", accounts |-> ClaimOf(d, r)]

CloseTxn(d, invoker, r, leaf) ==
    [op |-> "closeClaim", accounts |-> CloseOf(d, invoker, r), leaf |-> leaf]

PlainClaw(d) == [op |-> "clawback", accounts |-> ClawOf(d)]
ProxyClaw(d, accs) == [op |-> "alignedClawback", accounts |-> AlignedClaw(d, accs)]

(* What of a locked amount is due at a time, to the clients.               *)
UnlocksAt(x, locked, t) == locked > 0 /\ t - x.startTs >= x.unlockPeriod

EnsureFirst(d, owner, toks) ==
    IF TokenAccount(d.mint, owner) \in DOMAIN toks THEN <<>> ELSE <<OpenFor(d, owner)>>

(* The instructions that are built from what was read.                     *)
CreationIxs(d, n, toks, epo) ==
    IF d.mint # Airdrop!NativeMint THEN <<n, FundDropTxn(d, epo)>>
    ELSE IF AdminTokens(d) \in DOMAIN toks THEN <<WrapTxn(d), n, FundDropTxn(d, epo)>>
    ELSE <<OpenFor(d, Airdrop!Admin), WrapTxn(d), n, FundDropTxn(d, epo)>>

CreationTxn(d, n, accs) ==
    \E s \in Schedules : \E closable :
        n \in {PlainCreation(d, s, closable), ProxyCreation(d, s, closable, accs)}

ClaimTxns(d, r, accs, t) ==
    IF DropStatus(d, r) \in DOMAIN accs THEN <<LockedTxn(d, r)>>
    ELSE IF UnlocksAt(accs[DropDist(d)], d.leaves[r].locked, t)
    THEN <<NewClaimTxn(d, r), LockedTxn(d, r)>>
    ELSE <<NewClaimTxn(d, r)>>

(* These, after the token account of the owner was opened.                 *)
OpenedFirst(d, owner, toks, ixs) ==
    IF TokenAccount(d.mint, owner) \in DOMAIN toks THEN ixs ELSE <<OpenFor(d, owner)>> \o ixs

ClawTxn(d, accs) == IF DropProxy(d) \in DOMAIN accs THEN ProxyClaw(d, accs) ELSE PlainClaw(d)

DropBuilt(d, c, accs, toks, epo) ==
    IF DropDist(d) \notin DOMAIN accs
    THEN \E n : CreationTxn(d, n, accs)
                /\ IsBuilt(c, "create", Airdrop!Admin, CreationIxs(d, n, toks, epo))
    ELSE \/ \E r \in DOMAIN d.leaves :
              IsBuilt(c, "claim", r, OpenedFirst(d, r, toks, ClaimTxns(d, r, accs, c.at)))
         \/ \E r \in DOMAIN d.leaves : \E invoker \in {Airdrop!Admin, r},
                                             leaf \in {<<>>, <<d.leaves[r]>>} :
              IsBuilt(c, "closeClaim", invoker, <<CloseTxn(d, invoker, r, leaf)>>)
         \/ IsBuilt(c, "clawback", Airdrop!Admin,
                    OpenedFirst(d, Airdrop!Admin, toks, <<ClawTxn(d, accs)>>))

(* What is built, whatever changes before it lands.                        *)
CreatesRun(d, c) ==
    /\ c.invoker = Airdrop!Admin
    /\ \E a, b, n, f : /\ OpensIx(d, a) /\ b.op = "wrap" /\ CreatesIx(d, n) /\ FundsIx(d, f)
                       /\ c.ixs \in {<<n, f>>, <<b, n, f>>, <<a, b, n, f>>}

EndsWith(d, ixs, l) ==
    \E a, b : DropIx(d, a) /\ DropIx(d, b) /\ ixs \in {<<l>>, <<a, l>>, <<a, b, l>>}

OtherRun(d, c) == \E l : DropIx(d, l) /\ l.op \notin Preparing /\ EndsWith(d, c.ixs, l)

ClaimRun(d, c, accs) ==
    /\ c.invoker \in DOMAIN d.leaves
    /\ \E l : /\ ClaimsIx(d, l, c.invoker) /\ EndsWith(d, c.ixs, l)
              /\ \/ l.op = "claimLocked"
                 \/ /\ l.op = "newClaim" /\ DropDist(d) \in DOMAIN accs
                    /\ ~UnlocksAt(accs[DropDist(d)], d.leaves[c.invoker].locked, c.at)

DropCall(d, c, accs) ==
    /\ c.stage = "built"
    /\ \/ c.name = "create" /\ CreatesRun(d, c)
       \/ c.name \in {"closeClaim", "clawback"} /\ OtherRun(d, c)
       \/ c.name = "claim" /\ ClaimRun(d, c, accs)

LEMMA CreationFits ==
    ASSUME IsDrop(drop), NEW accs, NEW n, CreationTxn(drop, n, accs)
    PROVE  CreatesIx(drop, n)
  <1>1. PICK s, closable :
          /\ s \in Schedules
          /\ n \in {PlainCreation(drop, s, closable), ProxyCreation(drop, s, closable, accs)}
    BY DEF CreationTxn
  <1>2. CASE n = PlainCreation(drop, s, closable)
    <2>1. n.op = "newDistributor" /\ n.accounts = CreationOf(drop) /\ n.schedule = s
      BY <1>2 DEF PlainCreation
    <2> QED
      BY <1>1, <2>1 DEF CreatesIx, CreationOf
  <1>3. CASE n = ProxyCreation(drop, s, closable, accs)
    <2>1. n.op = "alignedNewDistributor" /\ n.accounts = AlignedCreation(drop, accs) /\ n.schedule = s
      BY <1>3 DEF ProxyCreation
    <2>2. /\ AlignedCreation(drop, accs)["alignedDistributor"] = DropProxy(drop)
          /\ \A name \in DOMAIN CreationOf(drop) : AlignedCreation(drop, accs)[name] = CreationOf(drop)[name]
      BY AlignedCreationIs
    <2> QED
      BY <1>1, <2>1, <2>2 DEF CreatesIx, CreationOf
  <1> QED
    BY <1>1, <1>2, <1>3

LEMMA FundFits ==
    ASSUME NEW epo \in {1, 2}
    PROVE  FundsIx(drop, FundDropTxn(drop, epo))
  BY DEF FundsIx, FundDropTxn

LEMMA OpenFits ==
    ASSUME NEW owner, owner # DropDist(drop)
    PROVE  OpensIx(drop, OpenFor(drop, owner)) /\ DropIx(drop, OpenFor(drop, owner)) /\ OpenFor(drop, owner).op = "createAta"
  BY DropAddresses DEF OpensIx, DropIx, OpenFor

LEMMA ClaimsFit ==
    ASSUME NEW r \in DOMAIN drop.leaves
    PROVE  /\ ClaimsIx(drop, NewClaimTxn(drop, r), r) /\ NewClaimTxn(drop, r).op = "newClaim"
           /\ ClaimsIx(drop, LockedTxn(drop, r), r) /\ LockedTxn(drop, r).op = "claimLocked"
           /\ DropIx(drop, NewClaimTxn(drop, r)) /\ DropIx(drop, LockedTxn(drop, r))
  <1>1. ClaimsIx(drop, NewClaimTxn(drop, r), r) /\ NewClaimTxn(drop, r).op = "newClaim"
    BY DEF ClaimsIx, NewClaimTxn, ClaimOf
  <1>2. ClaimsIx(drop, LockedTxn(drop, r), r) /\ LockedTxn(drop, r).op = "claimLocked"
    BY DEF ClaimsIx, LockedTxn, ClaimOf
  <1> QED
    BY <1>1, <1>2 DEF DropIx

LEMMA CloseFits ==
    ASSUME NEW invoker, NEW r \in DOMAIN drop.leaves, NEW leaf
    PROVE  DropIx(drop, CloseTxn(drop, invoker, r, leaf)) /\ CloseTxn(drop, invoker, r, leaf).op = "closeClaim"
  <1>1. ClosesIx(drop, CloseTxn(drop, invoker, r, leaf), r) /\ CloseTxn(drop, invoker, r, leaf).op = "closeClaim"
    BY DEF ClosesIx, CloseTxn, CloseOf
  <1> QED
    BY <1>1 DEF DropIx

LEMMA ClawFits ==
    ASSUME IsDrop(drop), NEW accs
    PROVE  DropIx(drop, ClawTxn(drop, accs)) /\ ClawTxn(drop, accs).op \in {"clawback", "alignedClawback"}
  <1>1. ClawsIx(drop, PlainClaw(drop)) /\ PlainClaw(drop).op = "clawback"
    BY DEF ClawsIx, PlainClaw, ClawOf
  <1>2. ClawsIx(drop, ProxyClaw(drop, accs)) /\ ProxyClaw(drop, accs).op = "alignedClawback"
    <2>1. /\ AlignedClaw(drop, accs)["alignedDistributor"] = DropProxy(drop)
          /\ \A name \in DOMAIN ClawOf(drop) : AlignedClaw(drop, accs)[name] = ClawOf(drop)[name]
      BY AlignedClawIs
    <2>2. AlignedClaw(drop, accs)["from"] = DropVault(drop)
      BY <2>1 DEF ClawOf
    <2> QED
      BY <2>1, <2>2 DEF ClawsIx, ProxyClaw
  <1> QED
    BY <1>1, <1>2 DEF DropIx, ClawTxn

LEMMA RecipientsAre ==
    ASSUME IsDrop(drop)
    PROVE  /\ \A r \in DOMAIN drop.leaves : r # DropDist(drop)
           /\ Airdrop!Admin # DropDist(drop)
           /\ \A r \in DOMAIN drop.leaves : r # Missing /\ r # drop.mint
  BY DropAddresses DEF IsDrop

LEMMA ClaimFits ==
    ASSUME IsDrop(drop), NEW accs, DropDist(drop) \in DOMAIN accs, NEW r \in DOMAIN drop.leaves,
           NEW c, c.stage = "built", c.name = "claim", c.invoker = r,
           c.ixs \in {ClaimTxns(drop, r, accs, c.at), <<OpenFor(drop, r)>> \o ClaimTxns(drop, r, accs, c.at)}
    PROVE  DropCall(drop, c, accs)
  <1>1. PICK a, n, l : a = OpenFor(drop, r) /\ n = NewClaimTxn(drop, r) /\ l = LockedTxn(drop, r)
    OBVIOUS
  <1>2. /\ DropIx(drop, a) /\ ClaimsIx(drop, n, r) /\ n.op = "newClaim" /\ ClaimsIx(drop, l, r)
        /\ l.op = "claimLocked" /\ DropIx(drop, n) /\ DropIx(drop, l)
    BY <1>1, OpenFits, ClaimsFit, RecipientsAre
  <1>3. <<a>> \o <<l>> = <<a, l>> /\ <<a>> \o <<n>> = <<a, n>> /\ <<a>> \o <<n, l>> = <<a, n, l>>
    BY PrefixedOne, PrefixedTwo
  <1>4. c.stage = "built" /\ c.name = "claim" /\ c.invoker = r
        /\ c.ixs \in {ClaimTxns(drop, r, accs, c.at), <<a>> \o ClaimTxns(drop, r, accs, c.at)}
    BY <1>1
  <1>5. CASE DropStatus(drop, r) \in DOMAIN accs
    <2>1. c.ixs \in {<<l>>, <<a, l>>}
      BY <1>1, <1>3, <1>4, <1>5 DEF ClaimTxns
    <2>2. EndsWith(drop, c.ixs, l)
      BY <1>2, <2>1 DEF EndsWith
    <2> QED
      BY <1>2, <1>4, <2>2 DEF DropCall, ClaimRun
  <1>6. CASE DropStatus(drop, r) \notin DOMAIN accs
             /\ UnlocksAt(accs[DropDist(drop)], drop.leaves[r].locked, c.at)
    <2>1. c.ixs \in {<<n, l>>, <<a, n, l>>}
      BY <1>1, <1>3, <1>4, <1>6 DEF ClaimTxns
    <2>2. EndsWith(drop, c.ixs, l)
      BY <1>2, <2>1 DEF EndsWith
    <2> QED
      BY <1>2, <1>4, <2>2 DEF DropCall, ClaimRun
  <1>7. CASE DropStatus(drop, r) \notin DOMAIN accs
             /\ ~UnlocksAt(accs[DropDist(drop)], drop.leaves[r].locked, c.at)
    <2>1. c.ixs \in {<<n>>, <<a, n>>}
      BY <1>1, <1>3, <1>4, <1>7 DEF ClaimTxns
    <2>2. EndsWith(drop, c.ixs, n)
      BY <1>2, <2>1 DEF EndsWith
    <2> QED
      BY <1>2, <1>4, <1>7, <2>2 DEF DropCall, ClaimRun
  <1> QED
    BY <1>5, <1>6, <1>7
LEMMA BuiltIsCall ==
    ASSUME IsDrop(drop), NEW accs, NEW toks, NEW epo \in {1, 2}, NEW c, DropBuilt(drop, c, accs, toks, epo)
    PROVE  DropCall(drop, c, accs)
  <1>1. CASE DropDist(drop) \notin DOMAIN accs
    <2>1. PICK n : CreationTxn(drop, n, accs)
                   /\ IsBuilt(c, "create", Airdrop!Admin, CreationIxs(drop, n, toks, epo))
      BY <1>1 DEF DropBuilt
    <2>2. PICK a, b, f : a = OpenFor(drop, Airdrop!Admin) /\ b = WrapTxn(drop) /\ f = FundDropTxn(drop, epo)
      OBVIOUS
    <2>3. OpensIx(drop, a) /\ b.op = "wrap" /\ CreatesIx(drop, n) /\ FundsIx(drop, f)
      BY <2>1, <2>2, CreationFits, FundFits, OpenFits, RecipientsAre DEF WrapTxn
    <2>4. c.ixs \in {<<n, f>>, <<b, n, f>>, <<a, b, n, f>>}
      BY <2>1, <2>2 DEF IsBuilt, CreationIxs
    <2> QED
      BY <2>1, <2>3, <2>4 DEF DropCall, CreatesRun, IsBuilt
  <1>2. ASSUME DropDist(drop) \in DOMAIN accs, NEW r \in DOMAIN drop.leaves,
               IsBuilt(c, "claim", r, OpenedFirst(drop, r, toks, ClaimTxns(drop, r, accs, c.at)))
        PROVE  DropCall(drop, c, accs)
    <2>1. /\ c.stage = "built" /\ c.name = "claim" /\ c.invoker = r
          /\ c.ixs \in {ClaimTxns(drop, r, accs, c.at), <<OpenFor(drop, r)>> \o ClaimTxns(drop, r, accs, c.at)}
      BY <1>2 DEF IsBuilt, OpenedFirst
    <2> QED
      BY <1>2, <2>1, ClaimFits
  <1>3. ASSUME NEW r \in DOMAIN drop.leaves, NEW invoker, NEW leaf,
               IsBuilt(c, "closeClaim", invoker, <<CloseTxn(drop, invoker, r, leaf)>>)
        PROVE  DropCall(drop, c, accs)
    <2>1. PICK l : l = CloseTxn(drop, invoker, r, leaf)
      OBVIOUS
    <2>2. DropIx(drop, l) /\ l.op = "closeClaim" /\ l.op \notin Preparing
      BY <2>1, CloseFits DEF Preparing
    <2>3. c.stage = "built" /\ c.name = "closeClaim" /\ c.ixs = <<l>>
      BY <1>3, <2>1 DEF IsBuilt
    <2> QED
      BY <2>2, <2>3 DEF DropCall, OtherRun, EndsWith
  <1>4. ASSUME IsBuilt(c, "clawback", Airdrop!Admin,
                       OpenedFirst(drop, Airdrop!Admin, toks, <<ClawTxn(drop, accs)>>))
        PROVE  DropCall(drop, c, accs)
    <2>1. PICK l, a : l = ClawTxn(drop, accs) /\ a = OpenFor(drop, Airdrop!Admin)
      OBVIOUS
    <2>2. DropIx(drop, l) /\ l.op \notin Preparing /\ DropIx(drop, a)
      BY <2>1, ClawFits, OpenFits, RecipientsAre DEF Preparing
    <2>3. <<a>> \o <<l>> = <<a, l>>
      BY PrefixedOne
    <2>4. c.stage = "built" /\ c.name = "clawback" /\ c.ixs \in {<<l>>, <<a, l>>}
      BY <1>4, <2>1, <2>3 DEF IsBuilt, OpenedFirst
    <2> QED
      BY <2>2, <2>4 DEF DropCall, OtherRun, EndsWith
  <1> QED
    BY <1>1, <1>2, <1>3, <1>4 DEF DropBuilt

-----------------------------------------------------------------------------
LEMMA AppendedTo ==
    ASSUME NEW a, NEW b, NEW c, NEW d
    PROVE  <<a, b>> \o <<c>> = <<a, b, c>> /\ <<a, b, c>> \o <<d>> = <<a, b, c, d>>
  <1>1. <<a, b>> \o <<c>> = <<a, b, c>>
    <2> DEFINE U == {a, b, c}
               whole == <<a, b>> \o <<c>>
    <2>1. <<a, b>> \in Seq(U) /\ <<c>> \in Seq(U) /\ <<a, b, c>> \in Seq(U)
      OBVIOUS
    <2>2. Len(<<a, b>>) = 2 /\ Len(<<c>>) = 1 /\ Len(<<a, b, c>>) = 3
      OBVIOUS
    <2>3. whole \in Seq(U) /\ Len(whole) = 3
      BY <2>1, <2>2
    <2>4. \A i \in 1..3 : whole[i] = IF i <= 2 THEN <<a, b>>[i] ELSE <<c>>[i - 2]
      BY <2>1, <2>2
    <2>5. \A i \in 1..3 : whole[i] = <<a, b, c>>[i]
      BY <2>4
    <2> QED
      BY <2>1, <2>2, <2>3, <2>5, SeqEqual
  <1>2. <<a, b, c>> \o <<d>> = <<a, b, c, d>>
    <2> DEFINE U == {a, b, c, d}
               whole == <<a, b, c>> \o <<d>>
    <2>1. <<a, b, c>> \in Seq(U) /\ <<d>> \in Seq(U) /\ <<a, b, c, d>> \in Seq(U)
      OBVIOUS
    <2>2. Len(<<a, b, c>>) = 3 /\ Len(<<d>>) = 1 /\ Len(<<a, b, c, d>>) = 4
      OBVIOUS
    <2>3. whole \in Seq(U) /\ Len(whole) = 4
      BY <2>1, <2>2
    <2>4. \A i \in 1..4 : whole[i] = IF i <= 3 THEN <<a, b, c>>[i] ELSE <<d>>[i - 3]
      BY <2>1, <2>2
    <2>5. \A i \in 1..4 : whole[i] = <<a, b, c, d>>[i]
      BY <2>4
    <2> QED
      BY <2>1, <2>2, <2>3, <2>5, SeqEqual
  <1> QED
    BY <1>1, <1>2

(* What the clients build is that.                                         *)
LEMMA AirAnchorIs ==
    /\ \A ix, given, args, accs : Airdrop!Completed(ix, given, args, accs) = Completed(ix, given, args, accs)
    /\ \A f, g : Airdrop!Merged(f, g) = Merged(f, g)
  BY DEF Completed, Airdrop!Completed, Resolved, Airdrop!Resolved, Seeded, Airdrop!Seeded,
         Missing, Airdrop!Missing, TokenAccount, Airdrop!TokenAccount, Merged, Airdrop!Merged

LEMMA CreationIs ==
    ASSUME NEW s \in Schedules, NEW closable, NEW kind \in {"plain", "aligned"}
    PROVE  \E n : CreationTxn(drop, n, accounts)
                  /\ Airdrop!NewDistributorIxs(kind, Airdrop!Admin, s, closable) = <<n>>
  <1>1. Airdrop!CreationAccounts(Airdrop!Admin) = CreationOf(drop)
    BY DropIs DEF Airdrop!CreationAccounts, CreationOf, AdminTokens
  <1>2. CASE kind = "plain"
    <2>1. PICK a, args, f : /\ a = CreationOf(drop)
                            /\ args = [version |-> Airdrop!Version, schedule |-> s, closable |-> closable]
                            /\ f = [op |-> "newDistributor", accounts |-> a]
      OBVIOUS
    <2>2. Airdrop!Prepare("newDistributor", Airdrop!NewDistributorNames,
                          Airdrop!NewDistributorKeys(a)) = f
      BY <2>1, CreationRead DEF Airdrop!Prepare
    <2>3. Airdrop!NewDistributorIxs(kind, Airdrop!Admin, s, closable) = <<Merged(f, args)>>
      BY <1>1, <1>2, <2>1, <2>2, AirAnchorIs DEF Airdrop!NewDistributorIxs
    <2>4. Merged(f, args) = PlainCreation(drop, s, closable)
      BY <2>1 DEF Merged, PlainCreation
    <2>5. CreationTxn(drop, Merged(f, args), accounts)
      BY <2>4 DEF CreationTxn
    <2> QED
      BY <2>3, <2>5
  <1>3. CASE kind = "aligned"
    <2>1. PICK a, args, f, both, period :
            /\ a = AlignedCreation(drop, accounts) /\ both = <<closable[1], FALSE>>
            /\ period = Airdrop!UpdatePeriod(s)
            /\ args = [version |-> Airdrop!Version, schedule |-> s, closable |-> both]
            /\ f = [op |-> "alignedNewDistributor", updatePeriod |-> period,
                    accounts |-> a]
      OBVIOUS
    <2>2. Airdrop!Completed(Airdrop!AlignedNewDistributorIx,
             Airdrop!Merged(CreationOf(drop), [priceOracle |-> Airdrop!TestOraclePDA(drop.mint, Airdrop!Admin)]),
             <<>>, accounts) = a
      BY <2>1, AirAnchorIs DEF AlignedCreation, AlignedNamed
    <2>3. Airdrop!NewDistributorIxs(kind, Airdrop!Admin, s, closable) = <<Merged(f, args)>>
      BY <1>1, <1>3, <2>1, <2>2, AirAnchorIs DEF Airdrop!NewDistributorIxs
    <2>4. Merged(f, args) = ProxyCreation(drop, s, closable, accounts)
      <3>1. ProxyCreation(drop, s, closable, accounts)
              = [op |-> "alignedNewDistributor", updatePeriod |-> period, accounts |-> a,
                 version |-> Airdrop!Version, schedule |-> s, closable |-> both]
        BY <2>1 DEF ProxyCreation
      <3>2. PICK g : g = [op |-> "alignedNewDistributor", updatePeriod |-> period, accounts |-> a,
                          version |-> Airdrop!Version, schedule |-> s, closable |-> both]
        OBVIOUS
      <3>3. /\ DOMAIN f = {"op", "updatePeriod", "accounts"}
            /\ DOMAIN args = {"version", "schedule", "closable"}
            /\ DOMAIN g = DOMAIN f \cup DOMAIN args /\ g = [x \in DOMAIN g |-> g[x]]
        BY <2>1, <3>2
      <3>4. \A x \in DOMAIN g : g[x] = IF x \in DOMAIN f THEN f[x] ELSE args[x]
        <4>1. g["op"] = f["op"] /\ g["updatePeriod"] = f["updatePeriod"] /\ g["accounts"] = f["accounts"]
          BY <2>1, <3>2
        <4>2. /\ g["version"] = args["version"] /\ g["schedule"] = args["schedule"]
              /\ g["closable"] = args["closable"]
          BY <2>1, <3>2
        <4> QED
          BY <3>3, <4>1, <4>2
      <3>5. Merged(f, args) = g
        BY <3>3, <3>4 DEF Merged
      <3> QED
        BY <3>1, <3>2, <3>5
    <2>5. CreationTxn(drop, Merged(f, args), accounts)
      BY <2>4 DEF CreationTxn
    <2> QED
      BY <2>3, <2>5
  <1> QED
    BY <1>2, <1>3

LEMMA EnsureIs ==
    ASSUME NEW owner
    PROVE  Airdrop!EnsureAta(owner, drop.mint) = EnsureFirst(drop, owner, tokens)
  BY AirSame DEF Airdrop!EnsureAta, EnsureFirst, Airdrop!CreateAta, OpenFor

LEMMA DropBuildsCreate ==
    ASSUME IsDrop(drop), DropDist(drop) \notin DOMAIN accounts, NEW s \in Schedules, NEW closable,
           NEW kind \in {"plain", "aligned"}
    PROVE  DropBuilt(drop, Airdrop!Create(kind, s, closable), accounts, tokens, epoch)
  <1>1. PICK n : CreationTxn(drop, n, accounts)
                 /\ Airdrop!NewDistributorIxs(kind, Airdrop!Admin, s, closable) = <<n>>
    BY CreationIs
  <1>2. PICK a, b, f : a = OpenFor(drop, Airdrop!Admin) /\ b = WrapTxn(drop) /\ f = FundDropTxn(drop, epoch)
    OBVIOUS
  <1>3. Airdrop!FundIx(Airdrop!Admin) = f
    BY <1>2, DropIs, TotalIs DEF Airdrop!FundIx, FundDropTxn, AdminTokens
  <1>4. PICK pre : pre = Airdrop!WrapIfNative(Airdrop!Admin)
    OBVIOUS
  <1>5. Airdrop!CreateIxs(kind, Airdrop!Admin, s, closable) = pre \o <<n>> \o <<f>>
    BY <1>1, <1>3, <1>4 DEF Airdrop!CreateIxs
  <1>6. [op |-> "wrap", account |-> Airdrop!Tokens(Airdrop!Admin)] = b
    BY <1>2, DropIs DEF WrapTxn, AdminTokens
  <1>7. Airdrop!CreateIxs(kind, Airdrop!Admin, s, closable) = CreationIxs(drop, n, tokens, epoch)
    <2>1. CASE drop.mint # Airdrop!NativeMint
      <3>1. pre = <<>>
        BY <1>4, <2>1 DEF Airdrop!WrapIfNative
      <3>2. pre \o <<n>> \o <<f>> = <<n, f>>
        <4>1. pre \o <<n>> = <<n>>
          BY <3>1
        <4> QED
          BY <4>1, PrefixedOne
      <3> QED
        BY <1>2, <1>5, <2>1, <3>2 DEF CreationIxs
    <2>2. CASE drop.mint = Airdrop!NativeMint /\ AdminTokens(drop) \in DOMAIN tokens
      <3>1. pre = <<b>>
        <4>1. Airdrop!EnsureAta(Airdrop!Admin, drop.mint) = <<>>
          BY <2>2, EnsureIs DEF EnsureFirst, AdminTokens
        <4>2. pre = Airdrop!EnsureAta(Airdrop!Admin, drop.mint) \o <<b>>
          BY <1>4, <1>6, <2>2 DEF Airdrop!WrapIfNative
        <4> QED
          BY <4>1, <4>2
      <3>2. pre \o <<n>> \o <<f>> = <<b, n, f>>
        <4>1. pre \o <<n>> = <<b, n>>
          BY <3>1, PrefixedOne
        <4> QED
          BY <4>1, AppendedTo
      <3> QED
        BY <1>2, <1>5, <2>2, <3>2 DEF CreationIxs
    <2>3. CASE drop.mint = Airdrop!NativeMint /\ AdminTokens(drop) \notin DOMAIN tokens
      <3>1. pre = <<a, b>>
        <4>1. Airdrop!EnsureAta(Airdrop!Admin, drop.mint) = <<a>>
          BY <1>2, <2>3, EnsureIs DEF EnsureFirst, AdminTokens
        <4>2. pre = Airdrop!EnsureAta(Airdrop!Admin, drop.mint) \o <<b>>
          BY <1>4, <1>6, <2>3 DEF Airdrop!WrapIfNative
        <4> QED
          BY <4>1, <4>2, PrefixedOne
      <3>2. pre \o <<n>> \o <<f>> = <<a, b, n, f>>
        <4>1. pre \o <<n>> = <<a, b, n>>
          BY <3>1, AppendedTo
        <4>2. <<a, b, n>> \o <<f>> = <<a, b, n, f>>
          BY AppendedTo, Zenon
        <4> QED
          BY <4>1, <4>2
      <3> QED
        BY <1>2, <1>5, <2>3, <3>2 DEF CreationIxs
    <2> QED
      BY <2>1, <2>2, <2>3
  <1>8. Airdrop!Create(kind, s, closable)
          = [stage |-> "built", name |-> "create", invoker |-> Airdrop!Admin,
             ixs |-> CreationIxs(drop, n, tokens, epoch)]
    BY <1>7 DEF Airdrop!Create, Airdrop!Built
  <1> QED
    BY <1>1, <1>8 DEF DropBuilt, IsBuilt

LEMMA DropBuildsClose ==
    ASSUME DropDist(drop) \in DOMAIN accounts, NEW r \in DOMAIN drop.leaves,
           NEW invoker \in {Airdrop!Admin, r}, NEW leaf \in {<<>>, <<drop.leaves[r]>>}
    PROVE  DropBuilt(drop, Airdrop!CloseClaim(invoker, r, leaf), accounts, tokens, epoch)
  <1>1. PICK a, f, g : /\ a = CloseOf(drop, invoker, r) /\ f = [op |-> "closeClaim", accounts |-> a]
                       /\ g = [leaf |-> leaf]
    OBVIOUS
  <1>2. Airdrop!Prepare("closeClaim", Airdrop!CloseClaimNames, Airdrop!CloseClaimKeys(a)) = f
    BY <1>1, CloseRead DEF Airdrop!Prepare
  <1>3. Airdrop!CloseClaimIxs(invoker, r, leaf) = <<Merged(f, g)>>
    BY <1>1, <1>2, DropIs, AirAnchorIs DEF Airdrop!CloseClaimIxs, CloseOf
  <1>4. Merged(f, g) = CloseTxn(drop, invoker, r, leaf)
    BY <1>1 DEF Merged, CloseTxn
  <1>5. Airdrop!CloseClaim(invoker, r, leaf)
          = [stage |-> "built", name |-> "closeClaim", invoker |-> invoker,
             ixs |-> <<CloseTxn(drop, invoker, r, leaf)>>]
    BY <1>3, <1>4 DEF Airdrop!CloseClaim, Airdrop!Built
  <1>6. IsBuilt(Airdrop!CloseClaim(invoker, r, leaf), "closeClaim", invoker,
                <<CloseTxn(drop, invoker, r, leaf)>>)
    BY <1>5 DEF IsBuilt
  <1> QED
    BY <1>6 DEF DropBuilt

LEMMA DropBuildsClaw ==
    ASSUME DropWorld(drop, accounts, tokens), DropDist(drop) \in DOMAIN accounts
    PROVE  DropBuilt(drop, Airdrop!Clawback, accounts, tokens, epoch)
  <1>1. IsDistributor(accounts[DropDist(drop)], drop)
    BY DEF DropWorld, DropAccounts
  <1>2. PICK a, l : a = ClawOf(drop) /\ l = ClawTxn(drop, accounts)
    OBVIOUS
  <1>3. a = [distributor |-> Airdrop!Distributor,
             from |-> accounts[Airdrop!Distributor].tokenVault,
             to |-> accounts[Airdrop!Distributor].clawbackReceiver, admin |-> Airdrop!Admin,
             mint |-> accounts[Airdrop!Distributor].mint]
    BY <1>1, <1>2, DropIs DEF ClawOf, IsDistributor
  <1>4. Airdrop!Kind = IF DropProxy(drop) \in DOMAIN accounts THEN "aligned" ELSE "plain"
    BY DropIs DEF Airdrop!Kind
  <1>5. Airdrop!Prepare("clawback", Airdrop!ClawbackNames, Airdrop!ClawbackKeys(a))
          = [op |-> "clawback", accounts |-> a]
    BY <1>2, ClawRead DEF Airdrop!Prepare
  <1>6. Airdrop!ClawbackIxs(Airdrop!Kind, Airdrop!Admin)
          = Airdrop!EnsureAta(Airdrop!Admin, drop.mint) \o <<l>>
    <2>1. CASE DropProxy(drop) \in DOMAIN accounts
      <3>1. Airdrop!Kind # "plain"
        BY <1>4, <2>1
      <3>2. l = [op |-> "alignedClawback",
                 accounts |-> Airdrop!Completed(Airdrop!AlignedClawbackIx, a, <<>>, accounts)]
        BY <1>2, <2>1, AirAnchorIs DEF ClawTxn, ProxyClaw, AlignedClaw
      <3> QED
        BY <1>3, <3>1, <3>2 DEF Airdrop!ClawbackIxs
    <2>2. CASE DropProxy(drop) \notin DOMAIN accounts
      <3>1. Airdrop!Kind = "plain"
        BY <1>4, <2>2
      <3>2. l = [op |-> "clawback", accounts |-> a]
        BY <1>2, <2>2 DEF ClawTxn, PlainClaw
      <3> QED
        BY <1>3, <1>5, <3>1, <3>2 DEF Airdrop!ClawbackIxs
    <2> QED
      BY <2>1, <2>2
  <1>7. Airdrop!ClawbackIxs(Airdrop!Kind, Airdrop!Admin)
          = OpenedFirst(drop, Airdrop!Admin, tokens, <<l>>)
    <2>1. <<>> \o <<l>> = <<l>>
      OBVIOUS
    <2> QED
      BY <1>6, <2>1, EnsureIs DEF OpenedFirst, EnsureFirst
  <1>8. Airdrop!Clawback = [stage |-> "built", name |-> "clawback", invoker |-> Airdrop!Admin,
                            ixs |-> OpenedFirst(drop, Airdrop!Admin, tokens, <<l>>)]
    BY <1>7 DEF Airdrop!Clawback, Airdrop!Built
  <1>9. IsBuilt(Airdrop!Clawback, "clawback", Airdrop!Admin,
                OpenedFirst(drop, Airdrop!Admin, tokens, <<ClawTxn(drop, accounts)>>))
    BY <1>2, <1>8 DEF IsBuilt
  <1> QED
    BY <1>9 DEF DropBuilt

LEMMA ClaimIs ==
    ASSUME DropWorld(drop, accounts, tokens), DropDist(drop) \in DOMAIN accounts,
           NEW r \in DOMAIN drop.leaves
    PROVE  Airdrop!ClaimIxs(r) = ClaimTxns(drop, r, accounts, now)
  <1>1. PICK x, a, leaf : x = accounts[DropDist(drop)] /\ a = ClaimOf(drop, r) /\ leaf = drop.leaves[r]
    OBVIOUS
  <1>2. IsDistributor(x, drop)
    BY <1>1 DEF DropWorld, DropAccounts
  <1>3. Airdrop!ClaimAccounts(r) = a
    BY <1>1, <1>2, DropIs DEF Airdrop!ClaimAccounts, ClaimOf, IsDistributor
  <1>4. PICK n, l, f, g : /\ n = NewClaimTxn(drop, r) /\ l = LockedTxn(drop, r) /\ g = [leaf |-> leaf]
                          /\ f = [op |-> "newClaim", accounts |-> a]
    OBVIOUS
  <1>5. /\ Airdrop!Prepare("newClaim", Airdrop!NewClaimNames, Airdrop!NewClaimKeys(a)) = f
        /\ Airdrop!Prepare("claimLocked", Airdrop!ClaimLockedNames, Airdrop!ClaimLockedKeys(a)) = l
    BY <1>1, <1>4, ClaimRead DEF Airdrop!Prepare, LockedTxn
  <1>6. Merged(f, g) = n
    BY <1>1, <1>4 DEF Merged, NewClaimTxn
  <1>7. a.claimStatus = DropStatus(drop, r)
    BY <1>1 DEF ClaimOf
  <1>8. Airdrop!UnlocksLocked(x, leaf.locked) <=> UnlocksAt(x, leaf.locked, now)
    BY DEF Airdrop!UnlocksLocked, UnlocksAt
  <1>9. PICK claimed, due : /\ claimed = (DropStatus(drop, r) \in DOMAIN accounts)
                            /\ due = UnlocksAt(x, leaf.locked, now)
    OBVIOUS
  <1>10. Airdrop!ClaimIxs(r) = (IF claimed THEN <<>> ELSE <<n>>)
                               \o (IF claimed \/ due THEN <<l>> ELSE <<>>)
    <2>1. Airdrop!Leaves[r] = leaf
      BY <1>1, DropIs
    <2> QED
      BY <1>1, <1>3, <1>4, <1>5, <1>6, <1>7, <1>8, <1>9, <2>1, DropIs, AirAnchorIs DEF Airdrop!ClaimIxs
  <1>11. <<n>> \o <<l>> = <<n, l>> /\ <<>> \o <<l>> = <<l>> /\ <<n>> \o <<>> = <<n>>
    BY PrefixedOne
  <1> QED
    BY <1>1, <1>4, <1>9, <1>10, <1>11 DEF ClaimTxns

-----------------------------------------------------------------------------
(* A call of the distributor that takes effect.                            *)
LEMMA ClaimIsOther ==
    ASSUME NEW c, NEW accs, ClaimRun(drop, c, accs)
    PROVE  OtherRun(drop, c)
  <1>1. PICK l : ClaimsIx(drop, l, c.invoker) /\ EndsWith(drop, c.ixs, l)
    BY DEF ClaimRun
  <1>2. c.invoker \in DOMAIN drop.leaves /\ l.op \in {"newClaim", "claimLocked"}
    BY <1>1 DEF ClaimRun, ClaimsIx
  <1>3. DropIx(drop, l) /\ l.op \notin Preparing
    BY <1>1, <1>2 DEF DropIx, Preparing
  <1> QED
    BY <1>1, <1>3 DEF OtherRun

LEMMA CallKept ==
    ASSUME NEW c, NEW accs, NEW others, DropCall(drop, c, accs), Kept(drop, accs, others)
    PROVE  DropCall(drop, c, others)
  <1>1. ClaimRun(drop, c, accs) => ClaimRun(drop, c, others)
    BY DEF ClaimRun, Kept, UnlocksAt
  <1> QED
    BY <1>1 DEF DropCall

LEMMA OtherTakes ==
    ASSUME program = "distributor", DropWorld(drop, accounts, tokens), IsDrop(drop), now \in Nat,
           NEW c, OtherRun(drop, c), NEW v, v = RunOf(c.ixs, c.invoker)
    PROVE  DropEnv(v) /\ Kept(drop, accounts, v.accounts)
  <1>1. PICK l, a, b : /\ DropIx(drop, l) /\ DropIx(drop, a) /\ DropIx(drop, b)
                       /\ c.ixs \in {<<l>>, <<a, l>>, <<a, b, l>>}
    BY DEF OtherRun, EndsWith
  <1>2. \E n \in Nat : DOMAIN c.ixs = 1..n /\ \A k \in 1..n : DropIx(drop, c.ixs[k])
    <2>1. CASE c.ixs = <<l>>
      <3>1. PICK n \in Nat : n = 1
        OBVIOUS
      <3>2. DOMAIN c.ixs = 1..n /\ \A k \in 1..n : c.ixs[k] = l
        BY <2>1, <3>1
      <3>3. \A k \in 1..n : DropIx(drop, c.ixs[k])
        BY <1>1, <3>2
      <3> QED
        BY <3>2, <3>3
    <2>2. CASE c.ixs = <<a, l>>
      <3>1. PICK n \in Nat : n = 2
        OBVIOUS
      <3>2. DOMAIN c.ixs = 1..n /\ \A k \in 1..n : c.ixs[k] \in {a, l}
        BY <2>2, <3>1
      <3>3. \A k \in 1..n : DropIx(drop, c.ixs[k])
        BY <1>1, <3>2
      <3> QED
        BY <3>2, <3>3
    <2>3. CASE c.ixs = <<a, b, l>>
      <3>1. PICK n \in Nat : n = 3
        OBVIOUS
      <3>2. DOMAIN c.ixs = 1..n /\ \A k \in 1..n : c.ixs[k] \in {a, b, l}
        BY <2>3, <3>1
      <3>3. \A k \in 1..n : DropIx(drop, c.ixs[k])
        BY <1>1, <3>2
      <3> QED
        BY <3>2, <3>3
    <2> QED
      BY <1>1, <2>1, <2>2, <2>3
  <1>3. PICK n : n \in Nat /\ DOMAIN c.ixs = 1..n /\ \A k \in 1..n : DropIx(drop, c.ixs[k])
    BY <1>2
  <1>4. LET x == RunOf(c.ixs, c.invoker) IN DropEnv(x) /\ Kept(drop, accounts, x.accounts)
    BY <1>3, DropRuns
  <1> QED
    BY <1>4

LEMMA CreatesTakes ==
    ASSUME program = "distributor", DropWorld(drop, accounts, tokens), IsDrop(drop), now \in Nat,
           NEW c, CreatesRun(drop, c), NEW v, v = RunOf(c.ixs, c.invoker), v.ok
    PROVE  DropEnv(v) /\ Kept(drop, accounts, v.accounts)
  <1>1. PICK a, b, n, f : /\ OpensIx(drop, a) /\ b.op = "wrap" /\ CreatesIx(drop, n)
                          /\ FundsIx(drop, f) /\ c.ixs \in {<<n, f>>, <<b, n, f>>, <<a, b, n, f>>}
    BY DEF CreatesRun
  <1>2. DropIx(drop, a) /\ DropIx(drop, b)
    BY <1>1 DEF DropIx
  <1>3. \E m \in Nat : /\ DOMAIN c.ixs = 1..(m + 2) /\ \A k \in 1..m : DropIx(drop, c.ixs[k])
                       /\ c.ixs[m + 1] = n /\ c.ixs[m + 2] = f
    <2>1. CASE c.ixs = <<n, f>>
      <3>1. PICK m \in Nat : m = 0
        OBVIOUS
      <3>2. /\ DOMAIN c.ixs = 1..(m + 2) /\ \A k \in 1..m : FALSE
            /\ c.ixs[m + 1] = n /\ c.ixs[m + 2] = f
        BY <2>1, <3>1
      <3> QED
        BY <3>2
    <2>2. CASE c.ixs = <<b, n, f>>
      <3>1. PICK m \in Nat : m = 1
        OBVIOUS
      <3>2. /\ DOMAIN c.ixs = 1..(m + 2) /\ \A k \in 1..m : c.ixs[k] = b
            /\ c.ixs[m + 1] = n /\ c.ixs[m + 2] = f
        BY <2>2, <3>1
      <3>3. \A k \in 1..m : DropIx(drop, c.ixs[k])
        BY <1>2, <3>2
      <3> QED
        BY <3>2, <3>3
    <2>3. CASE c.ixs = <<a, b, n, f>>
      <3>1. PICK m \in Nat : m = 2
        OBVIOUS
      <3>2. /\ DOMAIN c.ixs = 1..(m + 2) /\ \A k \in 1..m : c.ixs[k] \in {a, b}
            /\ c.ixs[m + 1] = n /\ c.ixs[m + 2] = f
        BY <2>3, <3>1
      <3>3. \A k \in 1..m : DropIx(drop, c.ixs[k])
        BY <1>2, <3>2
      <3> QED
        BY <3>2, <3>3
    <2> QED
      BY <1>1, <2>1, <2>2, <2>3
  <1>4. PICK m : m \in Nat /\ DOMAIN c.ixs = 1..(m + 2) /\ (\A k \in 1..m : DropIx(drop, c.ixs[k]))
                 /\ c.ixs[m + 1] = n /\ c.ixs[m + 2] = f
    BY <1>3
  <1>5. PICK ixs : ixs = c.ixs
    OBVIOUS
  <1>6. /\ m \in Nat /\ DOMAIN ixs = 1..(m + 2) /\ (\A k \in 1..m : DropIx(drop, ixs[k]))
        /\ CreatesIx(drop, ixs[m + 1]) /\ FundsIx(drop, ixs[m + 2])
        /\ v = RunOf(ixs, Airdrop!Admin) /\ v.ok
    BY <1>1, <1>4, <1>5 DEF CreatesRun
  <1> QED
    BY <1>6, CreationRuns

LEMMA DropTakes ==
    ASSUME program = "distributor", DropWorld(drop, accounts, tokens), IsDrop(drop), now \in Nat,
           NEW c, DropCall(drop, c, accounts), NEW v, v = RunOf(c.ixs, c.invoker), v.ok
    PROVE  DropEnv(v) /\ Kept(drop, accounts, v.accounts)
  <1>1. CreatesRun(drop, c) \/ OtherRun(drop, c)
    BY ClaimIsOther DEF DropCall
  <1> QED
    BY <1>1, CreatesTakes, OtherTakes

-----------------------------------------------------------------------------
(* The inductive invariant of the distributor.                             *)
DropReading(d, c, accs) ==
    /\ c.stage = "reading" /\ DropDist(d) \in DOMAIN accs
    /\ c.invoker \in DOMAIN d.leaves /\ c.ixs \in {<<>>, <<OpenFor(d, c.invoker)>>}

AirInv ==
    /\ now \in 1..MaxTime /\ disturbed \in BOOLEAN /\ epoch \in {1, 2} /\ drop \in Drops
    /\ DropWorld(drop, accounts, tokens)
    /\ \/ call = Idle
       \/ /\ DropReading(drop, call, accounts)
          /\ ~disturbed => call.ixs = EnsureFirst(drop, call.invoker, tokens)
       \/ /\ DropCall(drop, call, accounts)
          /\ ~disturbed => DropBuilt(drop, call, accounts, tokens, epoch)

LEMMA AirInit ==
    ASSUME Init, program = "distributor"
    PROVE  AirInv
  <1>1. Airdrop!Init
    BY DEF Init
  <1>2. now = 1 /\ accounts = <<>> /\ call = Idle /\ disturbed = FALSE /\ epoch = 1 /\ drop \in Drops
    BY <1>1 DEF Airdrop!Init, Airdrop!CallsInit, Idle, Airdrop!Idle
  <1>3. PICK S : S = IF drop.mint = Airdrop!NativeMint THEN {} ELSE {Airdrop!Tokens(Airdrop!Admin)}
    OBVIOUS
  <1>4. tokens = [a \in S |-> 0]
    BY <1>1, <1>3 DEF Airdrop!Init
  <1>5. DropVault(drop) \notin S
    BY <1>3, DropIs, DropAddresses DEF AdminTokens
  <1>6. DOMAIN accounts = {}
    <2>1. PICK e : e = <<>>
      OBVIOUS
    <2>2. DOMAIN e = {}
      BY <2>1
    <2> QED
      BY <1>2, <2>1, <2>2
  <1>7. NatTokens(tokens) /\ DropVault(drop) \notin DOMAIN tokens
    BY <1>4, <1>5 DEF NatTokens
  <1>8. now \in 1..MaxTime
    BY <1>2, ProgramAssumption
  <1>9. DropWorld(drop, accounts, tokens)
    BY <1>6, <1>7 DEF DropWorld, DropAccounts, Covered
  <1> QED
    BY <1>2, <1>8, <1>9 DEF AirInv

LEMMA NowIsNat ==
    ASSUME now \in 1..MaxTime
    PROVE  now \in Nat
  BY ProgramAssumption

LEMMA AirBuilds ==
    ASSUME AirInv, NEW c \in Airdrop!Buildable
    PROVE  DropBuilt(drop, c, accounts, tokens, epoch)
  <1>1. IsDrop(drop) /\ DropWorld(drop, accounts, tokens)
    BY DropsAre DEF AirInv
  <1>2. CASE DropDist(drop) \notin DOMAIN accounts
    <2>1. PICK kind \in {"plain", "aligned"}, closable \in Closable, s \in Schedules :
            c = Airdrop!Create(kind, s, closable)
      BY <1>2, DropIs DEF Airdrop!Buildable, Airdrop!Created
    <2>2. DropBuilt(drop, Airdrop!Create(kind, s, closable), accounts, tokens, epoch)
      BY <1>1, <1>2, DropBuildsCreate
    <2> QED
      BY <2>1, <2>2
  <1>3. CASE DropDist(drop) \in DOMAIN accounts
    <2>1. c = Airdrop!Clawback
          \/ \E r \in DOMAIN drop.leaves :
               \E invoker \in {Airdrop!Admin, r}, leaf \in {<<>>, <<drop.leaves[r]>>} :
                 c = Airdrop!CloseClaim(invoker, r, leaf)
      BY <1>3, DropIs DEF Airdrop!Buildable, Airdrop!Created
    <2>2. CASE c = Airdrop!Clawback
      BY <1>1, <1>3, <2>2, DropBuildsClaw
    <2>3. ASSUME NEW r \in DOMAIN drop.leaves, NEW invoker \in {Airdrop!Admin, r},
                 NEW leaf \in {<<>>, <<drop.leaves[r]>>}, c = Airdrop!CloseClaim(invoker, r, leaf)
          PROVE  DropBuilt(drop, c, accounts, tokens, epoch)
      BY <1>3, <2>3, DropBuildsClose
    <2> QED
      BY <2>1, <2>2, <2>3
  <1> QED
    BY <1>2, <1>3

LEMMA OthersAreOther ==
    ASSUME AirInv, NEW c \in Airdrop!OthersClaims
    PROVE  OtherRun(drop, c)
  <1>1. IsDrop(drop) /\ DropWorld(drop, accounts, tokens)
    BY DropsAre DEF AirInv
  <1>2. DropDist(drop) \in DOMAIN accounts
    BY DropIs DEF Airdrop!OthersClaims, Airdrop!Created
  <1>3. PICK r \in DOMAIN drop.leaves :
          c = Airdrop!Built("claim", r, Airdrop!EnsureAta(r, drop.mint) \o Airdrop!ClaimIxs(r))
    BY <1>2, DropIs DEF Airdrop!OthersClaims, Airdrop!Created
  <1>4. PICK txns : txns = ClaimTxns(drop, r, accounts, now)
    OBVIOUS
  <1>5. c.ixs = EnsureFirst(drop, r, tokens) \o txns
    BY <1>1, <1>2, <1>3, <1>4, EnsureIs, ClaimIs DEF Airdrop!Built
  <1>6. <<>> \o txns = txns
    BY <1>4, PrefixedOne DEF ClaimTxns
  <1>7. c.ixs \in {txns, <<OpenFor(drop, r)>> \o txns}
    BY <1>5, <1>6 DEF EnsureFirst
  <1>8. PICK b : b = [stage |-> "built", name |-> "claim", invoker |-> r, ixs |-> c.ixs, at |-> now]
    OBVIOUS
  <1>9. /\ b.stage = "built" /\ b.name = "claim" /\ b.invoker = r /\ b.ixs = c.ixs
        /\ b.ixs \in {ClaimTxns(drop, r, accounts, b.at),
                      <<OpenFor(drop, r)>> \o ClaimTxns(drop, r, accounts, b.at)}
    BY <1>4, <1>7, <1>8
  <1>10. DropCall(drop, b, accounts)
    BY <1>1, <1>2, <1>9, ClaimFits
  <1>11. OtherRun(drop, b)
    <2>1. ClaimRun(drop, b, accounts)
      BY <1>9, <1>10 DEF DropCall
    <2> QED
      BY <2>1, ClaimIsOther
  <1> QED
    BY <1>9, <1>11 DEF OtherRun

LEMMA ClaimBuilds ==
    ASSUME AirInv, DropReading(drop, call, accounts),
           ~disturbed => call.ixs = EnsureFirst(drop, call.invoker, tokens),
           NEW c, c = Airdrop!Merged(Airdrop!Built("claim", call.invoker,
                                       call.ixs \o Airdrop!ClaimIxs(call.invoker)), [at |-> now])
    PROVE  DropCall(drop, c, accounts) /\ (~disturbed => DropBuilt(drop, c, accounts, tokens, epoch))
  <1>1. IsDrop(drop) /\ DropWorld(drop, accounts, tokens)
    BY DropsAre DEF AirInv
  <1>2. PICK r : r = call.invoker
    OBVIOUS
  <1>3. /\ DropDist(drop) \in DOMAIN accounts /\ r \in DOMAIN drop.leaves
        /\ call.ixs \in {<<>>, <<OpenFor(drop, r)>>}
    BY <1>2 DEF DropReading
  <1>4. PICK txns, ixs : txns = ClaimTxns(drop, r, accounts, now) /\ ixs = call.ixs \o txns
    OBVIOUS
  <1>5. Airdrop!ClaimIxs(r) = txns
    BY <1>1, <1>3, <1>4, ClaimIs
  <1>6. c = [stage |-> "built", name |-> "claim", invoker |-> r, ixs |-> ixs, at |-> now]
    <2>1. PICK f, g : /\ f = [stage |-> "built", name |-> "claim", invoker |-> r, ixs |-> ixs]
                      /\ g = [at |-> now]
      OBVIOUS
    <2>2. c = Merged(f, g)
      BY <1>2, <1>4, <1>5, <2>1, AirSame DEF Airdrop!Built
    <2> QED
      BY <2>1, <2>2 DEF Merged
  <1>7. /\ c.stage = "built" /\ c.name = "claim" /\ c.invoker = r /\ c.ixs = ixs /\ c.at = now
    BY <1>6
  <1>8. <<>> \o txns = txns
    BY <1>4, PrefixedOne DEF ClaimTxns
  <1>9. c.ixs \in {ClaimTxns(drop, r, accounts, c.at),
                   <<OpenFor(drop, r)>> \o ClaimTxns(drop, r, accounts, c.at)}
    BY <1>3, <1>4, <1>7, <1>8
  <1>10. DropCall(drop, c, accounts)
    BY <1>1, <1>3, <1>7, <1>9, ClaimFits
  <1>11. ASSUME ~disturbed
         PROVE  DropBuilt(drop, c, accounts, tokens, epoch)
    <2>1. call.ixs = EnsureFirst(drop, r, tokens)
      BY <1>2, <1>11
    <2>2. c.ixs = OpenedFirst(drop, r, tokens, ClaimTxns(drop, r, accounts, c.at))
      BY <1>4, <1>7, <1>8, <2>1 DEF OpenedFirst, EnsureFirst
    <2> QED
      BY <1>3, <1>7, <2>2 DEF DropBuilt, IsBuilt
  <1> QED
    BY <1>10, <1>11

-----------------------------------------------------------------------------
LEMMA AirNext ==
    ASSUME AirInv, program = "distributor", [Next]_vars
    PROVE  AirInv'
  <1>1. Idle = Airdrop!Idle /\ Idle.stage = "idle"
    BY DEF Idle, Airdrop!Idle
  <1>2. IsDrop(drop) /\ DropWorld(drop, accounts, tokens) /\ now \in Nat /\ epoch \in {1, 2}
    BY DropsAre, NowIsNat DEF AirInv
  <1>3. ASSUME NEW a, a # DropVault(drop), Airdrop!OpenAccount(a) \/ Airdrop!CloseAccount(a),
               UNCHANGED <<epoch, drop>>
        PROVE  AirInv'
    <2>1. PICK open, closed : /\ open = Stored(tokens, a, 0)
                              /\ closed = [b \in DOMAIN tokens \ {a} |-> tokens[b]]
      OBVIOUS
    <2>2. PICK toks \in {open, closed} : tokens' = toks
      BY <1>3, <2>1, AirSame DEF Airdrop!OpenAccount, Airdrop!CloseAccount
    <2>3. Airdrop!Disturb /\ UNCHANGED <<now, accounts>>
      BY <1>3 DEF Airdrop!OpenAccount, Airdrop!CloseAccount
    <2>4. disturbed' = (call # Idle) /\ call' = call
      BY <1>1, <2>3 DEF Airdrop!Disturb
    <2>5. NatTokens(tokens)
      BY <1>2 DEF DropWorld
    <2>6. /\ NatTokens(open) /\ (DropVault(drop) \in DOMAIN open <=> DropVault(drop) \in DOMAIN tokens)
          /\ (DropVault(drop) \in DOMAIN tokens => open[DropVault(drop)] = tokens[DropVault(drop)])
      BY <1>3, <2>1, <2>5 DEF NatTokens, Stored
    <2>7. /\ NatTokens(closed)
          /\ (DropVault(drop) \in DOMAIN closed <=> DropVault(drop) \in DOMAIN tokens)
          /\ (DropVault(drop) \in DOMAIN tokens => closed[DropVault(drop)] = tokens[DropVault(drop)])
      BY <1>3, <2>1, <2>5 DEF NatTokens
    <2>8. DropWorld(drop, accounts, toks)
      BY <1>2, <2>2, <2>6, <2>7, DropTokensOpen
    <2> QED
      BY <1>3, <2>2, <2>3, <2>4, <2>8 DEF AirInv
  <1>4. ASSUME Airdrop!Build
        PROVE  AirInv'
    <2>1. PICK c \in Airdrop!Buildable : Airdrop!Begin(c) /\ UNCHANGED <<epoch, drop>>
      BY <1>4 DEF Airdrop!Build, Airdrop!airdropVars
    <2>2. call' = c /\ disturbed' = FALSE /\ UNCHANGED <<now, accounts, tokens>>
      BY <2>1 DEF Airdrop!Begin
    <2>3. DropBuilt(drop, c, accounts, tokens, epoch)
      BY <2>1, AirBuilds
    <2>4. DropCall(drop, c, accounts)
      BY <1>2, <2>3, BuiltIsCall
    <2> QED
      BY <2>1, <2>2, <2>3, <2>4 DEF AirInv
  <1>5. ASSUME NEW r \in Airdrop!Recipients, Airdrop!ReadForClaim(r)
        PROVE  AirInv'
    <2>1. PICK c : c = [stage |-> "reading", invoker |-> r, ixs |-> Airdrop!EnsureAta(r, drop.mint)]
      OBVIOUS
    <2>2. Airdrop!Begin(c) /\ UNCHANGED <<epoch, drop>> /\ DropDist(drop) \in DOMAIN accounts
      BY <1>5, <2>1, DropIs DEF Airdrop!ReadForClaim, Airdrop!airdropVars, Airdrop!Created
    <2>3. call' = c /\ disturbed' = FALSE /\ UNCHANGED <<now, accounts, tokens>>
      BY <2>2 DEF Airdrop!Begin
    <2>4. /\ c.stage = "reading" /\ c.invoker = r /\ r \in DOMAIN drop.leaves
          /\ c.ixs = EnsureFirst(drop, r, tokens)
      BY <1>5, <2>1, DropIs, EnsureIs
    <2>5. DropReading(drop, c, accounts)
      BY <2>2, <2>4 DEF DropReading, EnsureFirst
    <2> QED
      BY <2>2, <2>3, <2>4, <2>5 DEF AirInv
  <1>6. ASSUME Airdrop!BuildClaim
        PROVE  AirInv'
    <2>1. PICK c : c = Airdrop!Merged(Airdrop!Built("claim", call.invoker,
                                       call.ixs \o Airdrop!ClaimIxs(call.invoker)), [at |-> now])
      OBVIOUS
    <2>2. call.stage = "reading" /\ Airdrop!Continue(c) /\ UNCHANGED <<epoch, drop>>
      BY <1>6, <2>1 DEF Airdrop!BuildClaim, Airdrop!airdropVars
    <2>3. call' = c /\ UNCHANGED <<now, accounts, tokens, disturbed>>
      BY <2>2 DEF Airdrop!Continue
    <2>4. /\ DropReading(drop, call, accounts)
          /\ ~disturbed => call.ixs = EnsureFirst(drop, call.invoker, tokens)
      BY <1>1, <2>2 DEF AirInv, DropCall
    <2>5. DropCall(drop, c, accounts) /\ (~disturbed => DropBuilt(drop, c, accounts, tokens, epoch))
      BY <2>1, <2>4, ClaimBuilds
    <2> QED
      BY <2>2, <2>3, <2>5 DEF AirInv
  <1>7. ASSUME Airdrop!Land
        PROVE  AirInv'
    <2>1. DropCall(drop, call, accounts)
      BY <1>1, <1>7 DEF Airdrop!Land, AirInv, DropReading
    <2>2. PICK w : w = RunOf(call.ixs, call.invoker)
      OBVIOUS
    <2>3. Airdrop!Outcome = w
      BY <2>2 DEF Airdrop!Outcome, Airdrop!Run, RunOf
    <2>4. Airdrop!LandWith(w) /\ UNCHANGED <<epoch, drop>>
      BY <1>7, <2>3 DEF Airdrop!Land, Airdrop!airdropVars
    <2>5. call' = Idle /\ disturbed' = disturbed /\ now' = now
      BY <1>1, <2>4 DEF Airdrop!LandWith, Airdrop!TakesEffect
    <2>6. CASE w.ok /\ accounts' = w.accounts /\ tokens' = w.tokens
      <3>1. DropEnv(w)
        BY <1>2, <2>1, <2>2, <2>6, DropTakes
      <3>2. DropWorld(drop, accounts', tokens')
        BY <2>6, <3>1 DEF DropEnv
      <3> QED
        BY <2>4, <2>5, <3>2 DEF AirInv
    <2>7. CASE ~w.ok /\ UNCHANGED <<now, accounts, tokens>>
      BY <2>4, <2>5, <2>7 DEF AirInv
    <2> QED
      BY <2>4, <2>6, <2>7 DEF Airdrop!LandWith, Airdrop!TakesEffect
  <1>8. ASSUME Airdrop!OthersCall
        PROVE  AirInv'
    <2>1. PICK c \in Airdrop!Buildable \cup Airdrop!OthersClaims : Airdrop!TakesEffect(Airdrop!Run(c))
      BY <1>8 DEF Airdrop!OthersCall
    <2>2. PICK w : w = RunOf(c.ixs, c.invoker)
      OBVIOUS
    <2>3. Airdrop!Run(c) = w
      BY <2>2 DEF Airdrop!Run, RunOf
    <2>4. w.ok /\ accounts' = w.accounts /\ tokens' = w.tokens /\ now' = now
      BY <2>1, <2>3 DEF Airdrop!TakesEffect
    <2>5. DropEnv(w) /\ Kept(drop, accounts, w.accounts)
      <3>1. CASE c \in Airdrop!Buildable
        <4>1. DropBuilt(drop, c, accounts, tokens, epoch)
          BY <3>1, AirBuilds
        <4>2. DropCall(drop, c, accounts)
          BY <1>2, <4>1, BuiltIsCall
        <4> QED
          BY <1>2, <2>2, <2>4, <4>2, DropTakes
      <3>2. CASE c \in Airdrop!OthersClaims
        <4>1. OtherRun(drop, c)
          BY <3>2, OthersAreOther
        <4> QED
          BY <1>2, <2>2, <4>1, OtherTakes
      <3> QED
        BY <2>1, <3>1, <3>2
    <2>6. disturbed' = (call # Idle) /\ call' = call /\ UNCHANGED <<epoch, drop>>
      BY <1>1, <1>8 DEF Airdrop!OthersCall, Airdrop!Disturb, Airdrop!airdropVars
    <2>7. DropWorld(drop, accounts', tokens')
      BY <2>4, <2>5 DEF DropEnv
    <2>8. Kept(drop, accounts, accounts')
      BY <2>4, <2>5
    <2>9. CASE call = Idle
      BY <2>4, <2>6, <2>7, <2>9 DEF AirInv
    <2>10. CASE call # Idle
      <3>1. DropReading(drop, call, accounts) \/ DropCall(drop, call, accounts)
        BY <2>10 DEF AirInv
      <3>2. DropReading(drop, call, accounts') \/ DropCall(drop, call, accounts')
        <4>1. DropReading(drop, call, accounts) => DropReading(drop, call, accounts')
          BY <2>8 DEF DropReading, Kept
        <4>2. DropCall(drop, call, accounts) => DropCall(drop, call, accounts')
          BY <2>8, CallKept
        <4> QED
          BY <3>1, <4>1, <4>2
      <3>3. disturbed' = TRUE
        BY <2>6, <2>10
      <3> QED
        BY <2>4, <2>6, <2>7, <3>2, <3>3 DEF AirInv
    <2> QED
      BY <2>9, <2>10
  <1>9. ASSUME Airdrop!NewEpoch
        PROVE  AirInv'
    <2>1. epoch' = 2 /\ Airdrop!Disturb /\ UNCHANGED <<now, drop, accounts, tokens>>
      BY <1>9 DEF Airdrop!NewEpoch
    <2>2. disturbed' = (call # Idle) /\ call' = call
      BY <1>1, <2>1 DEF Airdrop!Disturb
    <2> QED
      BY <2>1, <2>2 DEF AirInv
  <1>10. ASSUME Airdrop!Tick, UNCHANGED <<epoch, drop>>
         PROVE  AirInv'
    <2>1. now < MaxTime /\ now' = now + 1 /\ UNCHANGED <<accounts, tokens, call, disturbed>>
      BY <1>10 DEF Airdrop!Tick
    <2>2. now' \in 1..MaxTime
      BY <2>1, ProgramAssumption DEF AirInv
    <2> QED
      BY <1>10, <2>1, <2>2 DEF AirInv
  <1>11. CASE UNCHANGED vars
    BY <1>11 DEF vars, callVars, AirInv
  <1>12. CASE DistributorStep
    <2>1. Airdrop!Next
      BY <1>12 DEF DistributorStep
    <2>2. ASSUME NEW owner \in Airdrop!Recipients \cup {Airdrop!Admin}, Airdrop!AccountChanges(owner)
          PROVE  AirInv'
      <3>1. PICK a : a = Airdrop!Tokens(owner)
        OBVIOUS
      <3>2. a # DropVault(drop)
        BY <1>2, <2>2, <3>1, DropIs, DropAddresses, RecipientsAre
      <3>3. (Airdrop!OpenAccount(a) \/ Airdrop!CloseAccount(a)) /\ UNCHANGED <<epoch, drop>>
        BY <2>2, <3>1 DEF Airdrop!AccountChanges, Airdrop!airdropVars
      <3> QED
        BY <1>3, <3>2, <3>3
    <2>3. Airdrop!Tick /\ UNCHANGED Airdrop!airdropVars => Airdrop!Tick /\ UNCHANGED <<epoch, drop>>
      BY DEF Airdrop!airdropVars
    <2> QED
      BY <1>4, <1>5, <1>6, <1>7, <1>8, <1>9, <1>10, <2>1, <2>2, <2>3 DEF Airdrop!Next
  <1> QED
    BY <1>11, <1>12 DEF Next, LaunchpadStep, FundingStep

LEMMA AirAlways ==
    Spec => [](program = "distributor" => AirInv)
  <1>1. Init => (program = "distributor" => AirInv)
    BY AirInit
  <1>2. ASSUME program = "distributor" => AirInv, [Next]_vars
        PROVE  (program = "distributor" => AirInv)'
    <2>1. program' = program
      BY <1>2 DEF Next, DistributorStep, LaunchpadStep, FundingStep, vars
    <2> QED
      BY <1>2, <2>1, AirNext
  <1> QED
    BY <1>1, <1>2, PTL DEF Spec

(* What the airdrop owes, in the words of the property.                    *)
LEMMA SumOfOwed ==
    ASSUME AirInv
    PROVE  Airdrop!MapThenSumSet(Airdrop!OwedTo, Airdrop!Recipients) = OwedInAll(drop, accounts)
  <1>1. PICK S, f : S = DOMAIN drop.leaves /\ f = Owed(drop, accounts)
    OBVIOUS
  <1>2. IsDrop(drop) /\ DropAccounts(drop, accounts)
    BY DropsAre DEF AirInv, DropWorld
  <1>3. IsFiniteSet(S) /\ f \in [S -> Nat] /\ f \in [S -> Int]
    BY <1>1, <1>2, OwedIsNat
  <1>4. ASSUME NEW r \in S
        PROVE  Airdrop!OwedTo(r) = f[r]
    BY <1>1, <1>4, AirSame, DropIs, WorldIsWorld DEF Airdrop!OwedTo, Owed, Exists
  <1>5. Airdrop!MapThenSumSet(Airdrop!OwedTo, S) = Airdrop!MapThenSumSet(LAMBDA r : f[r], S)
    <2> DEFINE Plain(sum) == [T \in SUBSET S |-> IF T = {} THEN 0
                     ELSE Airdrop!OwedTo(CHOOSE x \in T : TRUE) + sum[T \ {CHOOSE x \in T : TRUE}]]
               Step(sum) == [T \in SUBSET S |-> IF T = {} THEN 0
                     ELSE f[CHOOSE x \in T : TRUE] + sum[T \ {CHOOSE x \in T : TRUE}]]
    <2>1. Airdrop!MapThenSumSet(Airdrop!OwedTo, S) = (CHOOSE sum : sum = Plain(sum))[S]
      BY DEF Airdrop!MapThenSumSet, Airdrop!MapThenFoldSet
    <2>2. Airdrop!MapThenSumSet(LAMBDA r : f[r], S) = (CHOOSE sum : sum = Step(sum))[S]
      BY DEF Airdrop!MapThenSumSet, Airdrop!MapThenFoldSet
    <2>3. ASSUME NEW sum
          PROVE  Plain(sum) = Step(sum)
      <3>1. \A T \in SUBSET S : T # {} => (CHOOSE x \in T : TRUE) \in S
        OBVIOUS
      <3> QED
        BY <1>4, <3>1
    <2> HIDE DEF Plain, Step
    <2>4. \A sum : sum = Plain(sum) <=> sum = Step(sum)
      BY <2>3
    <2> QED
      BY <2>1, <2>2, <2>4
  <1>6. Airdrop!MapThenSumSet(LAMBDA r : f[r], S) = Summing(f, S)[S]
    BY <1>3, SumOfLeaves
  <1> QED
    BY <1>1, <1>5, <1>6, DropIs DEF OwedInAll

LEMMA AirCovers ==
    ASSUME AirInv
    PROVE  Airdrop!VaultCoversClaims
  <1> SUFFICES ASSUME Airdrop!Open(Airdrop!World)
               PROVE  tokens[Airdrop!Tokens(Airdrop!Distributor)]
                        >= Airdrop!MapThenSumSet(Airdrop!OwedTo, Airdrop!Recipients)
    BY DEF Airdrop!VaultCoversClaims
  <1>1. DropDist(drop) \in DOMAIN accounts /\ ~accounts[DropDist(drop)].clawedBack
    BY AirSame, DropIs, WorldIsWorld DEF Airdrop!Open, Exists
  <1>2. tokens[DropVault(drop)] >= OwedInAll(drop, accounts)
    BY <1>1 DEF AirInv, DropWorld, Covered
  <1> QED
    BY <1>2, SumOfOwed, DropIs

(* What create transfers covers every claim of an airdrop that was not     *)
(* clawed back, although the mint keeps a fee of the transfer and of the   *)
(* epoch in which it lands (calculateAmountWithTransferFees,               *)
(* prepareCreateInstructions).                                             *)
THEOREM VaultAlwaysCovers == Spec => []VaultCoversClaims
  <1>1. (program = "distributor" => AirInv) => VaultCoversClaims
    BY AirCovers DEF VaultCoversClaims
  <1> QED
    BY <1>1, AirAlways, PTL

-----------------------------------------------------------------------------
(* A claim takes all there is.                                             *)
LEMMA BeforeLast ==
    ASSUME program = "distributor", DropWorld(drop, accounts, tokens), IsDrop(drop), now \in Nat,
           NEW ixs, NEW l, EndsWith(drop, ixs, l), NEW invoker
    PROVE  \E w : /\ DropEnv(w) /\ Kept(drop, accounts, w.accounts)
                  /\ RunOf(ixs, invoker) = Executed(w, l, invoker)
  <1>1. PICK a, b : DropIx(drop, a) /\ DropIx(drop, b) /\ ixs \in {<<l>>, <<a, l>>, <<a, b, l>>}
    BY DEF EndsWith
  <1>2. PICK w, u, v : /\ w = World /\ u = Executed(w, a, invoker) /\ v = Executed(u, b, invoker)
    OBVIOUS
  <1>3. DropEnv(w) /\ Kept(drop, accounts, w.accounts)
    BY <1>2, WorldIsWorld DEF DropEnv, Kept
  <1>4. DropEnv(u) /\ Kept(drop, w.accounts, u.accounts)
    BY <1>1, <1>2, <1>3, DropDoes
  <1>5. DropEnv(v) /\ Kept(drop, u.accounts, v.accounts)
    BY <1>1, <1>2, <1>4, DropDoes
  <1>6. Kept(drop, accounts, u.accounts) /\ Kept(drop, accounts, v.accounts)
    BY <1>3, <1>4, <1>5 DEF Kept
  <1>7. CASE ixs = <<l>>
    BY <1>2, <1>3, <1>7, RunOne
  <1>8. CASE ixs = <<a, l>>
    BY <1>2, <1>4, <1>6, <1>8, RunTwo
  <1>9. CASE ixs = <<a, b, l>>
    BY <1>2, <1>5, <1>6, <1>9, RunThree
  <1> QED
    BY <1>1, <1>7, <1>8, <1>9

LEMMA ClaimEmpties ==
    ASSUME program = "distributor", DropWorld(drop, accounts, tokens), IsDrop(drop), now \in Nat,
           NEW c, ClaimRun(drop, c, accounts), c.at = now,
           NEW v, v = RunOf(c.ixs, c.invoker), v.ok
    PROVE  Airdrop!Claimable(v, c.invoker) = 0
  <1>1. PICK r : r = c.invoker
    OBVIOUS
  <1>2. PICK l : /\ ClaimsIx(drop, l, r) /\ EndsWith(drop, c.ixs, l)
                 /\ \/ l.op = "claimLocked"
                    \/ /\ l.op = "newClaim" /\ DropDist(drop) \in DOMAIN accounts
                       /\ ~UnlocksAt(accounts[DropDist(drop)], drop.leaves[r].locked, now)
    BY <1>1 DEF ClaimRun
  <1>3. r \in DOMAIN drop.leaves
    BY <1>2 DEF ClaimsIx
  <1>4. PICK w : /\ DropEnv(w) /\ Kept(drop, accounts, w.accounts)
                 /\ RunOf(c.ixs, r) = Executed(w, l, r)
    BY <1>2, BeforeLast
  <1>5. PICK e : e = Airdrop!Effect(w, l, r)
    OBVIOUS
  <1>6. IsWorld(w) /\ v = Executed(w, l, r)
    BY <1>1, <1>4 DEF DropEnv
  <1>7. w.ok /\ AllowedTo(w, l, r)
    <2> SUFFICES ASSUME ~(w.ok /\ AllowedTo(w, l, r))
                 PROVE  FALSE
      OBVIOUS
    <2>1. LET x == Executed(w, l, r) IN x.ok = FALSE
      BY <1>6, Refused
    <2> QED
      BY <1>6, <2>1
  <1>8. Airdrop!Allowed(w, l, r) /\ e = EffectOf(w, l, r)
    BY <1>5, <1>7 DEF AllowedTo, EffectOf
  <1>9. ASSUME IsWorld(e)
        PROVE  v.accounts = e.accounts
    BY <1>6, <1>7, <1>8, <1>9, ExecutedDoes
  <1>10. ASSUME v.accounts = e.accounts, DropStatus(drop, r) \in DOMAIN e.accounts,
                Airdrop!Withdrawable(e, r) = 0
         PROVE  Airdrop!Claimable(v, r) = 0
    <2>1. Airdrop!Exists(v, Airdrop!StatusOf(v, r))
      BY <1>10, AirSame, DropIs DEF Exists
    <2>2. Airdrop!Withdrawable(v, r) = Airdrop!Withdrawable(e, r)
      BY <1>10, DropIs DEF Airdrop!Withdrawable
    <2> QED
      BY <1>10, <2>1, <2>2 DEF Airdrop!Claimable
  <1>11. CASE l.op = "claimLocked"
    <2>1. /\ DropEnv(e) /\ DropStatus(drop, r) \in DOMAIN e.accounts
          /\ Airdrop!Withdrawable(e, r) = 0
      BY <1>2, <1>4, <1>5, <1>8, <1>11, ClaimLockedDoes
    <2>2. IsWorld(e)
      BY <2>1 DEF DropEnv
    <2> QED
      BY <1>1, <1>9, <1>10, <2>1, <2>2
  <1>12. CASE l.op = "newClaim"
    <2>1. PICK x, y, leaf : /\ x = accounts[DropDist(drop)] /\ y = e.accounts[DropDist(drop)]
                            /\ leaf = drop.leaves[r]
      OBVIOUS
    <2>2. /\ DropEnv(e) /\ DropStatus(drop, r) \in DOMAIN e.accounts
          /\ e.accounts[DropStatus(drop, r)].lockedAmount = leaf.locked
          /\ e.accounts[DropStatus(drop, r)].lockedAmountWithdrawn = 0
          /\ y = w.accounts[DropDist(drop)]
      <3>1. /\ DropEnv(w) /\ IsDrop(drop) /\ ClaimsIx(drop, l, r) /\ l.op = "newClaim"
            /\ Airdrop!Allowed(w, l, r)
        BY <1>2, <1>4, <1>8, <1>12
      <3>2. e = Airdrop!Effect(w, l, r)
        BY <1>5
      <3>3. /\ DropEnv(e) /\ DropStatus(drop, r) \in DOMAIN e.accounts
            /\ IsNewStatus(e.accounts[DropStatus(drop, r)], drop.leaves[r])
            /\ SameDistributor(drop, w.accounts, e.accounts)
        BY <3>1, <3>2, NewClaimDoes
      <3> QED
        BY <2>1, <3>3 DEF IsNewStatus, SameDistributor
    <2>3. IsWorld(e) /\ IsDistributor(y, drop)
      BY <2>1, <2>2, DropAddresses DEF DropEnv, DropWorld, DropAccounts
    <2>4. /\ DropDist(drop) \in DOMAIN accounts /\ ~UnlocksAt(x, leaf.locked, now)
      BY <1>2, <1>12, <2>1
    <2>5. y.startTs = x.startTs /\ y.unlockPeriod = x.unlockPeriod
      BY <1>4, <2>1, <2>2, <2>4 DEF Kept
    <2>6. leaf.locked \in Nat
      BY <1>3, <2>1 DEF IsDrop
    <2>7. now - y.startTs < y.unlockPeriod \/ leaf.locked = 0
      <3>1. y.startTs \in Nat /\ y.unlockPeriod \in Nat
        BY <2>3 DEF IsDistributor
      <3> QED
        BY <2>4, <2>5, <2>6, <3>1 DEF UnlocksAt
    <2>8. Airdrop!UnlockedOf(y, leaf.locked) = 0
      BY <2>3, <2>6, <2>7, UnlockedIsPart
    <2>9. Airdrop!Withdrawable(e, r) = Airdrop!UnlockedOf(y, leaf.locked) - 0
      <3>1. PICK old : old = e.accounts[DropStatus(drop, r)]
        OBVIOUS
      <3>2. Airdrop!Withdrawable(e, r)
              = Airdrop!UnlockedOf(y, old.lockedAmount) - old.lockedAmountWithdrawn
        BY <2>1, <3>1, DropIs DEF Airdrop!Withdrawable
      <3>3. old.lockedAmount = leaf.locked /\ old.lockedAmountWithdrawn = 0
        BY <2>2, <3>1
      <3> QED
        BY <3>2, <3>3
    <2>10. Airdrop!Withdrawable(e, r) = 0
      BY <2>8, <2>9
    <2> QED
      BY <1>1, <1>9, <1>10, <2>2, <2>3, <2>10
  <1> QED
    BY <1>2, <1>11, <1>12

LEMMA AirTakesAll ==
    ASSUME AirInv, program = "distributor"
    PROVE  Airdrop!ClaimTakesAll
  <1>1. PICK v : v = RunOf(call.ixs, call.invoker)
    OBVIOUS
  <1>2. Airdrop!Outcome = v
    BY <1>1 DEF Airdrop!Outcome, Airdrop!Run, RunOf
  <1> SUFFICES ASSUME call.stage = "built", call.name = "claim", call.at = now, v.ok
               PROVE  Airdrop!Claimable(v, call.invoker) = 0
    BY <1>2 DEF Airdrop!ClaimTakesAll
  <1>3. IsDrop(drop) /\ DropWorld(drop, accounts, tokens) /\ now \in Nat
    BY DropsAre, NowIsNat DEF AirInv
  <1>4. ClaimRun(drop, call, accounts)
    BY DEF AirInv, DropCall, DropReading, Idle
  <1> QED
    BY <1>1, <1>3, <1>4, ClaimEmpties

(* A claim that lands in the second it was built leaves nothing the        *)
(* recipient could get: prepareClaimInstructions claims locked tokens too  *)
(* whenever a period has passed, whatever others did in between.           *)
THEOREM ClaimsTakeAll == Spec => []ClaimTakesAll
  <1>1. (program = "distributor" => AirInv) => ClaimTakesAll
    BY AirTakesAll DEF ClaimTakesAll
  <1> QED
    BY <1>1, AirAlways, PTL

-----------------------------------------------------------------------------
(* Whoever may do what is asked for succeeds.                              *)
AirOp(ix) ==
    ix.op \in {"createAta", "wrap", "newDistributor", "alignedNewDistributor", "transfer",
               "newClaim", "claimLocked", "closeClaim", "clawback", "alignedClawback"}

(* The world without its accounts and tokens.                              *)
Alike(v, w) == IsWorld(v) /\ v.ok = w.ok

LEMMA AlikeChanged ==
    ASSUME NEW w, IsWorld(w), NEW x, NEW v,
           v = [w EXCEPT !.accounts = x] \/ v = [w EXCEPT !.tokens = x]
    PROVE  Alike(v, w)
  BY Changed DEF Alike

LEMMA AlikeTwice ==
    ASSUME NEW u, NEW w, IsWorld(w), Alike(u, w), NEW x, NEW v,
           v = [u EXCEPT !.accounts = x] \/ v = [u EXCEPT !.tokens = x]
    PROVE  Alike(v, w)
  <1>1. IsWorld(u)
    BY DEF Alike
  <1>2. Alike(v, u)
    BY <1>1, AlikeChanged
  <1> QED
    BY <1>2 DEF Alike

LEMMA AirEffectIs ==
    ASSUME NEW w, IsWorld(w), NEW ix, NEW invoker, AirOp(ix),
           NEW e, e = Airdrop!Effect(w, ix, invoker)
    PROVE  Alike(e, w)
  <1>1. Alike(w, w)
    BY DEF Alike
  <1>2. ASSUME NEW a, NEW v, v = Airdrop!Opened(w, a)
        PROVE  Alike(v, w)
    <2>1. PICK t : t = Airdrop!Stored(w.tokens, a, IF a \in DOMAIN w.tokens THEN w.tokens[a] ELSE 0)
      OBVIOUS
    <2>2. v = [w EXCEPT !.tokens = t]
      BY <1>2, <2>1 DEF Airdrop!Opened
    <2> QED
      BY <2>2, AlikeChanged
  <1>3. ASSUME NEW a, NEW n, NEW v, v = Airdrop!Moved(w, a, n)
        PROVE  Alike(v, w)
    <2>1. PICK t : t = [w.tokens EXCEPT ![a] = w.tokens[a] - n]
      OBVIOUS
    <2>2. v = [w EXCEPT !.tokens = t]
      BY <1>3, <2>1 DEF Airdrop!Moved
    <2> QED
      BY <2>2, AlikeChanged
  <1>4. ASSUME NEW admin, NEW v, v = Airdrop!WithDistributor(w, ix, admin)
        PROVE  Alike(v, w)
    <2>1. PICK u : u = Airdrop!Opened(w, ix.accounts.tokenVault)
      OBVIOUS
    <2>2. PICK accs : accs = Airdrop!Stored(u.accounts, ix.accounts.distributor,
                                            Airdrop!NewDistributor(ix, admin))
      OBVIOUS
    <2>3. v = [u EXCEPT !.accounts = accs]
      BY <1>4, <2>1, <2>2 DEF Airdrop!WithDistributor
    <2>4. Alike(u, w)
      BY <1>2, <2>1
    <2> QED
      BY <2>3, <2>4, AlikeTwice
  <1>5. ASSUME NEW vault, NEW v, v = Airdrop!ClawedBack(w, vault)
        PROVE  Alike(v, w)
    <2>1. PICK x, t, u :
            /\ x = [w.accounts EXCEPT ![Airdrop!Distributor].clawedBack = TRUE]
            /\ t = [w.tokens EXCEPT ![vault] = 0] /\ u = [w EXCEPT !.accounts = x]
      OBVIOUS
    <2>2. v = [w EXCEPT !.accounts = x, !.tokens = t]
      BY <1>5, <2>1 DEF Airdrop!ClawedBack
    <2>3. v = [u EXCEPT !.tokens = t]
      BY <2>1, <2>2
    <2>4. Alike(u, w)
      BY <2>1, AlikeChanged
    <2> QED
      BY <2>3, <2>4, AlikeTwice
  <1>6. CASE ix.op = "createAta"
    BY <1>2, <1>6 DEF Airdrop!Effect
  <1>7. CASE ix.op = "wrap"
    BY <1>1, <1>7 DEF Airdrop!Effect
  <1>8. CASE ix.op = "newDistributor"
    BY <1>4, <1>8 DEF Airdrop!Effect
  <1>9. CASE ix.op = "alignedNewDistributor"
    <2>1. PICK proxy, u : /\ proxy = ix.accounts.alignedDistributor
                          /\ u = Airdrop!WithDistributor(w, ix, proxy)
      OBVIOUS
    <2>2. PICK accs : accs = Airdrop!Stored(u.accounts, proxy,
                                            [admin |-> invoker, distributorClawedBack |-> FALSE])
      OBVIOUS
    <2>3. e = [u EXCEPT !.accounts = accs]
      BY <1>9, <2>1, <2>2 DEF Airdrop!Effect
    <2>4. Alike(u, w)
      BY <1>4, <2>1
    <2> QED
      BY <2>3, <2>4, AlikeTwice
  <1>10. CASE ix.op = "transfer"
    <2>1. PICK t : t = [w.tokens EXCEPT ![ix.to] = w.tokens[ix.to] + ix.amount - ix.charged]
      OBVIOUS
    <2>2. e = [w EXCEPT !.tokens[ix.to] = @ + ix.amount - ix.charged]
      BY <1>10 DEF Airdrop!Effect
    <2>3. e = [w EXCEPT !.tokens = t]
      BY <2>1, <2>2
    <2> QED
      BY <2>3, AlikeChanged
  <1>11. CASE ix.op = "newClaim"
    <2>1. PICK u : u = Airdrop!Moved(w, ix.accounts.from, ix.leaf.unlocked)
      OBVIOUS
    <2>2. PICK accs : accs = Airdrop!Stored(u.accounts, ix.accounts.claimStatus,
                                            Airdrop!NewStatus(ix.leaf))
      OBVIOUS
    <2>3. e = [u EXCEPT !.accounts = accs]
      BY <1>11, <2>1, <2>2 DEF Airdrop!Effect
    <2>4. Alike(u, w)
      BY <1>3, <2>1
    <2> QED
      BY <2>3, <2>4, AlikeTwice
  <1>12. CASE ix.op = "claimLocked"
    <2>1. PICK n, s, u : /\ n = Airdrop!Withdrawable(w, ix.accounts.claimant)
                         /\ s = ix.accounts.claimStatus
                         /\ u = Airdrop!Moved(w, ix.accounts.from, n)
      OBVIOUS
    <2>2. e = [Airdrop!Moved(w, ix.accounts.from, n) EXCEPT
                 !.accounts[s].lockedAmountWithdrawn = @ + n]
      BY <1>12, <2>1 DEF Airdrop!Effect
    <2>3. PICK accs : accs = [u.accounts EXCEPT ![s] =
                    [u.accounts[s] EXCEPT !.lockedAmountWithdrawn =
                       u.accounts[s].lockedAmountWithdrawn + n]]
      OBVIOUS
    <2>4. e = [u EXCEPT !.accounts = accs]
      BY <2>1, <2>2, <2>3
    <2>5. Alike(u, w)
      BY <1>3, <2>1
    <2> QED
      BY <2>4, <2>5, AlikeTwice
  <1>13. CASE ix.op = "closeClaim"
    <2>1. PICK s : s = ix.accounts.claimStatus
      OBVIOUS
    <2>2. PICK x, y : /\ x = [w.accounts EXCEPT ![s].closed = TRUE]
                      /\ y = Airdrop!Stored(w.accounts, s,
                               [Airdrop!NewStatus(ix.leaf[1]) EXCEPT !.closed = TRUE])
      OBVIOUS
    <2>3. e \in {[w EXCEPT !.accounts = x], [w EXCEPT !.accounts = y]}
      BY <1>13, <2>1, <2>2 DEF Airdrop!Effect
    <2> QED
      BY <2>3, AlikeChanged
  <1>14. CASE ix.op = "clawback"
    BY <1>5, <1>14 DEF Airdrop!Effect
  <1>15. CASE ix.op = "alignedClawback"
    <2>1. PICK p, u : /\ p = ix.accounts.alignedDistributor
                      /\ u = Airdrop!ClawedBack(w, ix.accounts.from)
      OBVIOUS
    <2>2. PICK x : x = [u.accounts EXCEPT ![p].distributorClawedBack = TRUE]
      OBVIOUS
    <2>3. e = [u EXCEPT !.accounts[p].distributorClawedBack = TRUE]
      BY <1>15, <2>1 DEF Airdrop!Effect
    <2>4. e = [u EXCEPT !.accounts = x]
      BY <2>2, <2>3
    <2>5. Alike(u, w)
      BY <1>5, <2>1
    <2> QED
      BY <2>4, <2>5, AlikeTwice
  <1> QED
    BY <1>6, <1>7, <1>8, <1>9, <1>10, <1>11, <1>12, <1>13, <1>14, <1>15 DEF AirOp

(* Accounts and tokens are those of the effect.                            *)
Took(v, e) == IsWorld(v) /\ v.ok = TRUE /\ v.accounts = e.accounts /\ v.tokens = e.tokens

LEMMA AirSucceeds ==
    ASSUME program = "distributor", NEW w, IsWorld(w), w.ok = TRUE, NEW ix, NEW invoker, AirOp(ix),
           Airdrop!Allowed(w, ix, invoker), NEW e, e = Airdrop!Effect(w, ix, invoker),
           NEW v, v = Executed(w, ix, invoker)
    PROVE  Took(v, e)
  <1>1. e = EffectOf(w, ix, invoker) /\ AllowedTo(w, ix, invoker)
    BY DEF EffectOf, AllowedTo
  <1>2. Alike(e, w)
    BY AirEffectIs
  <1>3. IsWorld(e) /\ e.ok = TRUE
    BY <1>2 DEF Alike
  <1>4. IsWorld(e) /\ (w.ok /\ AllowedTo(w, ix, invoker))
    BY <1>1, <1>3
  <1>5. IsWorld(v) /\ v.ok = e.ok /\ v.accounts = e.accounts /\ v.tokens = e.tokens
    BY <1>1, <1>4, ExecutedDoes
  <1> QED
    BY <1>3, <1>5 DEF Took

(* Instructions that prepare have gone well, and an account is there.      *)
Ready(w, a) ==
    /\ IsWorld(w) /\ w.ok = TRUE /\ w.accounts = accounts /\ a \in DOMAIN w.tokens /\ DropEnv(w)
    /\ \A b \in DOMAIN tokens : b \in DOMAIN w.tokens

LEMMA OpenReady ==
    ASSUME program = "distributor", DropWorld(drop, accounts, tokens), IsDrop(drop), now \in Nat,
           NEW owner, owner # DropDist(drop), NEW a, a = TokenAccount(drop.mint, owner),
           a \notin DOMAIN tokens, NEW invoker,
           NEW v, v = Executed(World, OpenFor(drop, owner), invoker)
    PROVE  Ready(v, a)
  <1>1. PICK w, ix : w = World /\ ix = OpenFor(drop, owner)
    OBVIOUS
  <1>2. IsWorld(w) /\ w.ok = TRUE /\ w.accounts = accounts /\ w.tokens = tokens /\ DropEnv(w)
    BY <1>1, WorldIsWorld DEF DropEnv
  <1>3. ix.op = "createAta" /\ ix.account = a /\ DropIx(drop, ix) /\ AirOp(ix)
    BY <1>1, OpenFits DEF OpenFor, AirOp
  <1>4. PICK e : e = Airdrop!Effect(w, ix, invoker)
    OBVIOUS
  <1>5. Airdrop!Allowed(w, ix, invoker) /\ e = Opened(w, a)
    BY <1>2, <1>3, <1>4, AirSame DEF Airdrop!Allowed, Airdrop!Effect, Holds
  <1>6. Took(v, e)
    BY <1>1, <1>2, <1>3, <1>4, <1>5, AirSucceeds
  <1>7. TokensOnly(e, w) /\ DOMAIN e.tokens = DOMAIN w.tokens \cup {a}
    <2>1. NatTokens(w.tokens)
      BY <1>2 DEF DropWorld
    <2> QED
      BY <1>2, <1>5, <2>1, OpenedIs
  <1>8. DropEnv(v)
    <2>1. LET u == Executed(w, ix, invoker) IN DropEnv(u) /\ Kept(drop, w.accounts, u.accounts)
      BY <1>2, <1>3, DropDoes
    <2> QED
      BY <1>1, <2>1
  <1> QED
    BY <1>2, <1>6, <1>7, <1>8 DEF Ready, Took, TokensOnly

LEMMA ReadyRuns ==
    ASSUME program = "distributor", DropWorld(drop, accounts, tokens), IsDrop(drop), now \in Nat,
           NEW owner, owner # DropDist(drop), NEW x, NEW y, NEW invoker
    PROVE  \E u : /\ Ready(u, TokenAccount(drop.mint, owner))
                  /\ RunOf(OpenedFirst(drop, owner, tokens, <<x>>), invoker) = Executed(u, x, invoker)
                  /\ RunOf(OpenedFirst(drop, owner, tokens, <<x, y>>), invoker)
                       = Executed(Executed(u, x, invoker), y, invoker)
  <1>1. PICK a, o : a = TokenAccount(drop.mint, owner) /\ o = OpenFor(drop, owner)
    OBVIOUS
  <1>2. <<o>> \o <<x>> = <<o, x>> /\ <<o>> \o <<x, y>> = <<o, x, y>>
    BY PrefixedOne, PrefixedTwo
  <1>3. CASE a \in DOMAIN tokens
    <2>1. PICK w : w = World
      OBVIOUS
    <2>2. Ready(w, a)
      BY <1>3, <2>1, WorldIsWorld DEF Ready, DropEnv
    <2>3. /\ OpenedFirst(drop, owner, tokens, <<x>>) = <<x>>
          /\ OpenedFirst(drop, owner, tokens, <<x, y>>) = <<x, y>>
      BY <1>1, <1>3 DEF OpenedFirst
    <2> QED
      BY <1>1, <2>1, <2>2, <2>3, RunOne, RunTwo
  <1>4. CASE a \notin DOMAIN tokens
    <2>1. PICK u : u = Executed(World, o, invoker)
      OBVIOUS
    <2>2. Ready(u, a)
      BY <1>1, <1>4, <2>1, OpenReady
    <2>3. /\ OpenedFirst(drop, owner, tokens, <<x>>) = <<o, x>>
          /\ OpenedFirst(drop, owner, tokens, <<x, y>>) = <<o, x, y>>
      BY <1>1, <1>2, <1>4 DEF OpenedFirst
    <2> QED
      BY <1>1, <2>1, <2>2, <2>3, RunTwo, RunThree
  <1> QED
    BY <1>3, <1>4

-----------------------------------------------------------------------------
(* What a program requires of the account of a name.                       *)
Fits(how, addr, args, accs, invoker, name) ==
    /\ addr[name] # Missing
    /\ "signs" \in DOMAIN how => addr[name] = invoker
    /\ how.by = "seeds" => addr[name] = Seeded(how, addr, args)
    /\ how.by = "tokens" => addr[name] = TokenAccount(addr["mint"], addr[how.owner])
    /\ how.by = "relations" =>
         \A a \in how.of : /\ addr[a] \in DOMAIN accs
                           /\ accs[addr[a]][name] = addr[name]

LEMMA FitsAll ==
    ASSUME NEW ix, NEW addr, NEW args, NEW accs, NEW invoker,
           \A name \in DOMAIN ix : Fits(ix[name], addr, args, accs, invoker, name)
    PROVE  Airdrop!Accepts(ix, addr, args, accs, invoker)
  <1>1. Accepts(ix, addr, args, accs, invoker)
    BY DEF Accepts, Fits
  <1> QED
    BY <1>1, AirAnchorSame

LEMMA FitsManners ==
    ASSUME NEW addr, NEW args, NEW accs, NEW invoker, NEW name, addr[name] # Missing
    PROVE  /\ Fits(Named, addr, args, accs, invoker, name)
           /\ addr[name] = invoker => Fits(Signer, addr, args, accs, invoker, name)
           /\ \A o : addr[name] = TokenAccount(addr["mint"], addr[o]) =>
                       Fits(TokensOf(o), addr, args, accs, invoker, name)
  <1>1. Named.by = "name" /\ "signs" \notin DOMAIN Named /\ Signer.by = "name"
    BY DEF Named, Signer
  <1>2. ASSUME NEW o
        PROVE  TokensOf(o).by = "tokens" /\ TokensOf(o).owner = o /\ "signs" \notin DOMAIN TokensOf(o)
    BY DEF TokensOf
  <1>3. ASSUME NEW o, addr[name] = TokenAccount(addr["mint"], addr[o])
        PROVE  Fits(TokensOf(o), addr, args, accs, invoker, name)
    BY <1>2, <1>3 DEF Fits
  <1>4. Fits(Named, addr, args, accs, invoker, name)
    BY <1>1 DEF Fits
  <1>5. ASSUME addr[name] = invoker
        PROVE  Fits(Signer, addr, args, accs, invoker, name)
    BY <1>1, <1>5 DEF Fits
  <1> QED
    BY <1>3, <1>4, <1>5

LEMMA FitsField ==
    ASSUME NEW addr, NEW args, NEW accs, NEW invoker, NEW name, addr[name] # Missing,
           NEW r, addr[r] \in DOMAIN accs, accs[addr[r]][name] = addr[name], NEW how,
           \/ how = FieldOf({r})
           \/ how = SignerOf({r}) /\ addr[name] = invoker
    PROVE  Fits(how, addr, args, accs, invoker, name)
  <1>1. how.by = "relations" /\ how.of = {r} /\ ("signs" \in DOMAIN how => addr[name] = invoker)
    BY DEF FieldOf, SignerOf
  <1> QED
    BY <1>1 DEF Fits

LEMMA FitsSeeds ==
    ASSUME NEW addr, NEW args, NEW accs, NEW invoker, NEW name, NEW how, how.by = "seeds",
           "signs" \notin DOMAIN how, addr[name] # Missing, addr[name] = Seeded(how, addr, args)
    PROVE  Fits(how, addr, args, accs, invoker, name)
  BY DEF Fits

LEMMA AirManners ==
    /\ Airdrop!Named = Named /\ Airdrop!Signer = Signer
    /\ \A p, s : Airdrop!Seeds(p, s) = Seeds(p, s)
    /\ \A o : Airdrop!TokensOf(o) = TokensOf(o) /\ Airdrop!FieldOf(o) = FieldOf(o)
              /\ Airdrop!SignerOf(o) = SignerOf(o)
  BY DEF Airdrop!Named, Named, Airdrop!Signer, Signer, Airdrop!Seeds, Seeds, Airdrop!TokensOf,
         TokensOf, Airdrop!FieldOf, FieldOf, Airdrop!SignerOf, SignerOf

(* The status of a claim is found by its seeds.                            *)
LEMMA StatusSeeded ==
    ASSUME NEW addr, NEW r, addr["claimant"] = r, addr["distributor"] = DropDist(drop),
           addr["claimStatus"] = DropStatus(drop, r), NEW args, args = <<>>, NEW accs, NEW invoker
    PROVE  Fits(Seeds("ClaimStatus", <<"claimant", "distributor">>), addr, args, accs, invoker,
                "claimStatus")
  <1>1. PICK how : how = Seeds("ClaimStatus", <<"claimant", "distributor">>)
    OBVIOUS
  <1>2. how.by = "seeds" /\ "signs" \notin DOMAIN how
    BY <1>1 DEF Seeds
  <1>3. DOMAIN args = {}
    OBVIOUS
  <1>4. Seed("claimant", addr, args) = r /\ Seed("distributor", addr, args) = DropDist(drop)
    BY <1>3 DEF Seed
  <1>5. Seeded(how, addr, args) = <<"ClaimStatus", r, DropDist(drop)>>
    BY <1>1, <1>4, SeededByTwo
  <1>6. DropStatus(drop, r) = <<"ClaimStatus", r, DropDist(drop)>>
    BY DEF DropStatus, Airdrop!ClaimStatusPDA
  <1>7. DropStatus(drop, r) # Missing
    BY DropAddresses
  <1> QED
    BY <1>1, <1>2, <1>5, <1>6, <1>7, FitsSeeds

LEMMA ClaimAccepted ==
    ASSUME IsDrop(drop), NEW r \in DOMAIN drop.leaves, NEW accs, DropDist(drop) \in DOMAIN accs,
           accs[DropDist(drop)].mint = drop.mint
    PROVE  Airdrop!Accepts(Airdrop!ClaimIx, ClaimOf(drop, r), <<>>, accs, r)
  <1>1. PICK addr, args, ix : addr = ClaimOf(drop, r) /\ args = <<>> /\ ix = Airdrop!ClaimIx
    OBVIOUS
  <1>2. /\ addr["distributor"] = DropDist(drop) /\ addr["claimStatus"] = DropStatus(drop, r)
        /\ addr["from"] = DropVault(drop) /\ addr["to"] = TokenAccount(drop.mint, r)
        /\ addr["claimant"] = r /\ addr["mint"] = drop.mint
    BY <1>1 DEF ClaimOf
  <1>3. /\ DOMAIN ix = {"distributor", "claimStatus", "from", "to", "claimant", "mint"}
        /\ ix["distributor"] = Named
        /\ ix["claimStatus"] = Seeds("ClaimStatus", <<"claimant", "distributor">>)
        /\ ix["from"] = TokensOf("distributor") /\ ix["to"] = TokensOf("claimant")
        /\ ix["claimant"] = Signer /\ ix["mint"] = FieldOf({"distributor"})
    BY <1>1, AirManners DEF Airdrop!ClaimIx
  <1>4. /\ DropDist(drop) # Missing /\ DropVault(drop) # Missing /\ r # Missing
        /\ TokenAccount(drop.mint, r) # Missing /\ drop.mint # Missing
    <2>1. \A m, q : TokenAccount(m, q) # Missing
      BY DropAddresses
    <2>2. Missing \notin {DropDist(drop), DropProxy(drop), Airdrop!Admin}
      BY DropAddresses
    <2> QED
      BY <2>1, <2>2, RecipientsAre DEF DropVault, IsDrop
  <1>5. Fits(ix["claimStatus"], addr, args, accs, r, "claimStatus")
    BY <1>1, <1>2, <1>3, StatusSeeded
  <1>6. /\ Fits(ix["distributor"], addr, args, accs, r, "distributor")
        /\ Fits(ix["claimant"], addr, args, accs, r, "claimant")
    BY <1>2, <1>3, <1>4, FitsManners
  <1>7. /\ Fits(ix["from"], addr, args, accs, r, "from")
        /\ Fits(ix["to"], addr, args, accs, r, "to")
    BY <1>2, <1>3, <1>4, FitsManners DEF DropVault
  <1>8. Fits(ix["mint"], addr, args, accs, r, "mint")
    <2>1. /\ addr["distributor"] \in DOMAIN accs /\ accs[addr["distributor"]]["mint"] = addr["mint"]
          /\ addr["mint"] # Missing
      BY <1>2, <1>4
    <2> QED
      BY <1>3, <2>1, FitsField
  <1>9. \A name \in DOMAIN ix : Fits(ix[name], addr, args, accs, r, name)
    BY <1>3, <1>5, <1>6, <1>7, <1>8
  <1> QED
    BY <1>1, <1>9, FitsAll

LEMMA CloseAccepted ==
    ASSUME IsDrop(drop), NEW r \in DOMAIN drop.leaves, NEW invoker \in {Airdrop!Admin, r}, NEW accs
    PROVE  Airdrop!Accepts(Airdrop!CloseClaimIx, CloseOf(drop, invoker, r), <<>>, accs, invoker)
  <1>1. PICK addr, args, ix : /\ addr = CloseOf(drop, invoker, r) /\ args = <<>>
                              /\ ix = Airdrop!CloseClaimIx
    OBVIOUS
  <1>2. /\ addr["distributor"] = DropDist(drop) /\ addr["claimStatus"] = DropStatus(drop, r)
        /\ addr["adminOrClaimant"] = invoker /\ addr["claimant"] = r
    BY <1>1 DEF CloseOf
  <1>3. /\ DOMAIN ix = {"distributor", "adminOrClaimant", "claimant", "claimStatus"}
        /\ ix["distributor"] = Named /\ ix["claimant"] = Named
        /\ ix["claimStatus"] = Seeds("ClaimStatus", <<"claimant", "distributor">>)
        /\ ix["adminOrClaimant"] = Signer
    BY <1>1, AirManners DEF Airdrop!CloseClaimIx
  <1>4. DropDist(drop) # Missing /\ r # Missing /\ invoker # Missing
    <2>1. Missing \notin {DropDist(drop), DropProxy(drop), Airdrop!Admin}
      BY DropAddresses
    <2> QED
      BY <2>1, RecipientsAre
  <1>5. Fits(ix["claimStatus"], addr, args, accs, invoker, "claimStatus")
    BY <1>1, <1>2, <1>3, StatusSeeded
  <1>6. /\ Fits(ix["distributor"], addr, args, accs, invoker, "distributor")
        /\ Fits(ix["claimant"], addr, args, accs, invoker, "claimant")
        /\ Fits(ix["adminOrClaimant"], addr, args, accs, invoker, "adminOrClaimant")
    BY <1>2, <1>3, <1>4, FitsManners
  <1>7. \A name \in DOMAIN ix : Fits(ix[name], addr, args, accs, invoker, name)
    BY <1>3, <1>5, <1>6
  <1> QED
    BY <1>1, <1>7, FitsAll

LEMMA ClawAccepted ==
    ASSUME IsDrop(drop), NEW admin, admin # Missing, NEW addr,
           addr["distributor"] = DropDist(drop), addr["from"] = DropVault(drop),
           addr["to"] = AdminTokens(drop), addr["admin"] = admin, addr["mint"] = drop.mint,
           NEW accs, DropDist(drop) \in DOMAIN accs, accs[DropDist(drop)].mint = drop.mint,
           accs[DropDist(drop)].admin = admin
    PROVE  Airdrop!Accepts(Airdrop!ClawbackIx, addr, <<>>, accs, admin)
  <1>1. PICK args, ix : args = <<>> /\ ix = Airdrop!ClawbackIx
    OBVIOUS
  <1>3. /\ DOMAIN ix = {"distributor", "from", "to", "admin", "mint"}
        /\ ix["distributor"] = Named /\ ix["from"] = TokensOf("distributor") /\ ix["to"] = Named
        /\ ix["admin"] = SignerOf({"distributor"}) /\ ix["mint"] = FieldOf({"distributor"})
    BY <1>1, AirManners DEF Airdrop!ClawbackIx
  <1>4. /\ DropDist(drop) # Missing /\ DropVault(drop) # Missing /\ AdminTokens(drop) # Missing
        /\ drop.mint # Missing
    <2>1. \A m, q : TokenAccount(m, q) # Missing
      BY DropAddresses
    <2>2. Missing \notin {DropDist(drop), DropProxy(drop), Airdrop!Admin}
      BY DropAddresses
    <2> QED
      BY <2>1, <2>2 DEF DropVault, AdminTokens, IsDrop
  <1>5. /\ Fits(ix["distributor"], addr, args, accs, admin, "distributor")
        /\ Fits(ix["to"], addr, args, accs, admin, "to")
    BY <1>3, <1>4, FitsManners
  <1>6. Fits(ix["from"], addr, args, accs, admin, "from")
    BY <1>3, <1>4, FitsManners DEF DropVault
  <1>6a. /\ addr["distributor"] \in DOMAIN accs
         /\ accs[addr["distributor"]]["mint"] = addr["mint"] /\ addr["mint"] # Missing
         /\ accs[addr["distributor"]]["admin"] = addr["admin"] /\ addr["admin"] # Missing
         /\ addr["admin"] = admin
    BY <1>4
  <1>7. Fits(ix["admin"], addr, args, accs, admin, "admin")
    BY <1>3, <1>6a, FitsField
  <1>8. Fits(ix["mint"], addr, args, accs, admin, "mint")
    BY <1>3, <1>6a, FitsField
  <1>9. \A name \in DOMAIN ix : Fits(ix[name], addr, args, accs, admin, name)
    BY <1>3, <1>5, <1>6, <1>7, <1>8
  <1> QED
    BY <1>1, <1>9, FitsAll

LEMMA CreationAccepted ==
    ASSUME IsDrop(drop), NEW addr,
           \A name \in DOMAIN CreationOf(drop) : addr[name] = CreationOf(drop)[name], NEW accs
    PROVE  Airdrop!Accepts(Airdrop!NewDistributorIx, addr, [version |-> Airdrop!Version], accs,
                           Airdrop!Admin)
  <1>1. PICK args, ix : args = [version |-> Airdrop!Version] /\ ix = Airdrop!NewDistributorIx
    OBVIOUS
  <1>2. /\ addr["distributor"] = DropDist(drop) /\ addr["clawbackReceiver"] = AdminTokens(drop)
        /\ addr["mint"] = drop.mint /\ addr["tokenVault"] = DropVault(drop)
        /\ addr["admin"] = Airdrop!Admin
    BY DEF CreationOf
  <1>3. /\ DOMAIN ix = {"distributor", "clawbackReceiver", "mint", "tokenVault", "admin"}
        /\ ix["distributor"] = Seeds("MerkleDistributor", <<"mint", "version">>)
        /\ ix["clawbackReceiver"] = Named /\ ix["mint"] = Named
        /\ ix["tokenVault"] = TokensOf("distributor") /\ ix["admin"] = Signer
    BY <1>1, AirManners DEF Airdrop!NewDistributorIx
  <1>4. /\ DropDist(drop) # Missing /\ DropVault(drop) # Missing /\ AdminTokens(drop) # Missing
        /\ drop.mint # Missing /\ Airdrop!Admin # Missing
    <2>1. \A m, q : TokenAccount(m, q) # Missing
      BY DropAddresses
    <2>2. Missing \notin {DropDist(drop), DropProxy(drop), Airdrop!Admin}
      BY DropAddresses
    <2> QED
      BY <2>1, <2>2 DEF DropVault, AdminTokens, IsDrop
  <1>5. Fits(ix["distributor"], addr, args, accs, Airdrop!Admin, "distributor")
    <2>1. PICK how : how = Seeds("MerkleDistributor", <<"mint", "version">>)
      OBVIOUS
    <2>2. how.by = "seeds" /\ "signs" \notin DOMAIN how
      BY <2>1 DEF Seeds
    <2>3. Seed("mint", addr, args) = drop.mint /\ Seed("version", addr, args) = Airdrop!Version
      BY <1>1, <1>2 DEF Seed
    <2>4. Seeded(how, addr, args) = <<"MerkleDistributor", drop.mint, Airdrop!Version>>
      BY <2>1, <2>3, SeededByTwo
    <2>5. DropDist(drop) = <<"MerkleDistributor", drop.mint, Airdrop!Version>>
      BY DEF DropDist, Airdrop!DistributorPDA
    <2> QED
      BY <1>2, <1>3, <1>4, <2>1, <2>2, <2>4, <2>5, FitsSeeds
  <1>6. /\ Fits(ix["clawbackReceiver"], addr, args, accs, Airdrop!Admin, "clawbackReceiver")
        /\ Fits(ix["mint"], addr, args, accs, Airdrop!Admin, "mint")
        /\ Fits(ix["admin"], addr, args, accs, Airdrop!Admin, "admin")
    BY <1>2, <1>3, <1>4, FitsManners
  <1>7. Fits(ix["tokenVault"], addr, args, accs, Airdrop!Admin, "tokenVault")
    BY <1>2, <1>3, <1>4, FitsManners DEF DropVault
  <1>8. \A name \in DOMAIN ix : Fits(ix[name], addr, args, accs, Airdrop!Admin, name)
    BY <1>3, <1>5, <1>6, <1>7
  <1> QED
    BY <1>1, <1>8, FitsAll

-----------------------------------------------------------------------------
(* Claims that are allowed.                                                *)
LEMMA OwedIsThere ==
    ASSUME IsDrop(drop), NEW w, DropEnv(w), DropDist(drop) \in DOMAIN w.accounts,
           w.accounts[DropDist(drop)].clawedBack = FALSE, NEW r \in DOMAIN drop.leaves
    PROVE  /\ Owed(drop, w.accounts)[r] \in Nat /\ w.tokens[DropVault(drop)] \in Nat
           /\ Owed(drop, w.accounts)[r] <= w.tokens[DropVault(drop)]
  <1>1. PICK accs, toks : accs = w.accounts /\ toks = w.tokens
    OBVIOUS
  <1>2. DropWorld(drop, accs, toks)
    BY <1>1 DEF DropEnv
  <1>3. /\ OwedInAll(drop, accs) \in Nat /\ Owed(drop, accs)[r] <= OwedInAll(drop, accs)
        /\ Owed(drop, accs)[r] \in Nat
    <2>1. DropAccounts(drop, accs)
      BY <1>2 DEF DropWorld
    <2> QED
      BY <2>1, OwedIsNat
  <1>4. toks[DropVault(drop)] >= OwedInAll(drop, accs)
    BY <1>1, <1>2 DEF DropWorld, Covered
  <1>5. toks[DropVault(drop)] \in Nat
    BY <1>1, <1>2 DEF DropWorld, NatTokens
  <1> QED
    BY <1>1, <1>3, <1>4, <1>5

LEMMA OpenIs ==
    ASSUME NEW w, DropDist(drop) \in DOMAIN w.accounts,
           w.accounts[DropDist(drop)].clawedBack = FALSE
    PROVE  Airdrop!Open(w)
  BY AirSame, DropIs DEF Airdrop!Open, Exists

LEMMA NewClaimAllowed ==
    ASSUME IsDrop(drop), NEW w, DropEnv(w), DropDist(drop) \in DOMAIN w.accounts,
           w.accounts[DropDist(drop)].clawedBack = FALSE, NEW r \in DOMAIN drop.leaves,
           DropStatus(drop, r) \notin DOMAIN w.accounts,
           TokenAccount(drop.mint, r) \in DOMAIN w.tokens, NEW ix, ix = NewClaimTxn(drop, r)
    PROVE  Airdrop!Allowed(w, ix, r)
  <1>1. PICK a, leaf : a = ClaimOf(drop, r) /\ leaf = drop.leaves[r]
    OBVIOUS
  <1>2. ix.op = "newClaim" /\ ix.accounts = a /\ ix.leaf = leaf
    BY <1>1 DEF NewClaimTxn
  <1>3. /\ a.claimStatus = DropStatus(drop, r) /\ a.claimant = r /\ a.from = DropVault(drop)
        /\ a.to = TokenAccount(drop.mint, r)
    BY <1>1 DEF ClaimOf
  <1>4. Airdrop!Accepts(Airdrop!ClaimIx, a, <<>>, w.accounts, r)
    <2>1. w.accounts[DropDist(drop)].mint = drop.mint
      BY DEF DropEnv, DropWorld, DropAccounts, IsDistributor
    <2> QED
      BY <1>1, <2>1, ClaimAccepted
  <1>5. Airdrop!Open(w) /\ ~Airdrop!Exists(w, a.claimStatus) /\ Airdrop!Holds(w, a.to)
    BY <1>3, OpenIs, AirSame DEF Exists, Holds
  <1>6. leaf.unlocked <= w.tokens[a.from]
    <2>1. leaf.unlocked \in Nat /\ leaf.locked \in Nat
      BY <1>1 DEF IsDrop
    <2>2. Owed(drop, w.accounts)[r] = leaf.unlocked + leaf.locked
      BY <1>1 DEF Owed
    <2>3. PICK n, m : n = Owed(drop, w.accounts)[r] /\ m = w.tokens[DropVault(drop)]
      OBVIOUS
    <2>4. m \in Nat /\ n <= m
      BY <2>3, OwedIsThere
    <2> QED
      BY <1>3, <2>1, <2>2, <2>3, <2>4
  <1>7. ix.leaf = Airdrop!Leaves[a.claimant]
    BY <1>1, <1>2, <1>3, DropIs
  <1> QED
    BY <1>2, <1>4, <1>5, <1>6, <1>7 DEF Airdrop!Allowed

LEMMA LockedAllowed ==
    ASSUME IsDrop(drop), now \in Nat, NEW w, DropEnv(w), DropDist(drop) \in DOMAIN w.accounts,
           w.accounts[DropDist(drop)].clawedBack = FALSE, NEW r \in DOMAIN drop.leaves,
           DropStatus(drop, r) \in DOMAIN w.accounts,
           ~w.accounts[DropStatus(drop, r)].closed, Airdrop!Withdrawable(w, r) > 0,
           TokenAccount(drop.mint, r) \in DOMAIN w.tokens, NEW ix, ix = LockedTxn(drop, r)
    PROVE  Airdrop!Allowed(w, ix, r)
  <1>1. PICK a, leaf, s, x : /\ a = ClaimOf(drop, r) /\ leaf = drop.leaves[r]
                             /\ s = w.accounts[DropStatus(drop, r)]
                             /\ x = w.accounts[DropDist(drop)]
    OBVIOUS
  <1>2. ix.op = "claimLocked" /\ ix.accounts = a
    BY <1>1 DEF LockedTxn
  <1>3. /\ a.claimStatus = DropStatus(drop, r) /\ a.claimant = r /\ a.from = DropVault(drop)
        /\ a.to = TokenAccount(drop.mint, r)
    BY <1>1 DEF ClaimOf
  <1>4. Airdrop!Accepts(Airdrop!ClaimIx, a, <<>>, w.accounts, r)
    <2>1. w.accounts[DropDist(drop)].mint = drop.mint
      BY DEF DropEnv, DropWorld, DropAccounts, IsDistributor
    <2> QED
      BY <1>1, <2>1, ClaimAccepted
  <1>5. /\ Airdrop!Open(w) /\ Airdrop!Exists(w, a.claimStatus) /\ Airdrop!Holds(w, a.to)
        /\ ~w.accounts[a.claimStatus].closed
    BY <1>3, OpenIs, AirSame DEF Exists, Holds
  <1>6. Airdrop!Withdrawable(w, a.claimant) \in 1..w.tokens[a.from]
    <2>1. IsClaimStatus(s, leaf) /\ IsDistributor(x, drop)
      BY <1>1 DEF DropEnv, DropWorld, DropAccounts
    <2>2. leaf.locked \in Nat /\ s.lockedAmount = leaf.locked
          /\ s.lockedAmountWithdrawn \in 0..leaf.locked
      BY <1>1, <2>1 DEF IsDrop, IsClaimStatus
    <2>3. PICK k, n, m : /\ k = Airdrop!UnlockedOf(x, leaf.locked)
                         /\ n = Owed(drop, w.accounts)[r] /\ m = w.tokens[DropVault(drop)]
      OBVIOUS
    <2>4. k \in 0..leaf.locked
      BY <2>1, <2>2, <2>3, UnlockedIsPart
    <2>5. n = leaf.locked - s.lockedAmountWithdrawn
      BY <1>1, <2>2, <2>3 DEF Owed
    <2>6. m \in Nat /\ n <= m
      BY <2>3, OwedIsThere
    <2>7. Airdrop!Withdrawable(w, r) = k - s.lockedAmountWithdrawn
      BY <1>1, <2>2, <2>3, DropIs DEF Airdrop!Withdrawable
    <2>8. k - s.lockedAmountWithdrawn \in 1..m
      BY <2>2, <2>4, <2>5, <2>6, <2>7
    <2> QED
      BY <1>3, <2>3, <2>7, <2>8
  <1> QED
    BY <1>2, <1>4, <1>5, <1>6 DEF Airdrop!Allowed

(* A new claim leaves the token accounts where they are.                   *)
LEMMA NewClaimTokens ==
    ASSUME NEW w, IsWorld(w), NEW ix, ix.op = "newClaim", NEW invoker,
           NEW e, e = Airdrop!Effect(w, ix, invoker)
    PROVE  DOMAIN e.tokens = DOMAIN w.tokens
  <1>1. PICK u, toks : /\ toks = [w.tokens EXCEPT ![ix.accounts.from] = w.tokens[ix.accounts.from] - ix.leaf.unlocked]
                       /\ u = [w EXCEPT !.tokens = toks]
    OBVIOUS
  <1>2. Airdrop!Moved(w, ix.accounts.from, ix.leaf.unlocked) = u
    BY <1>1 DEF Airdrop!Moved
  <1>3. PICK accs : accs = Airdrop!Stored(u.accounts, ix.accounts.claimStatus, Airdrop!NewStatus(ix.leaf))
    OBVIOUS
  <1>4. e = [u EXCEPT !.accounts = accs]
    BY <1>2, <1>3 DEF Airdrop!Effect
  <1>5. IsWorld(u) /\ u.tokens = toks
    BY <1>1 DEF IsWorld
  <1>6. e.tokens = toks
    BY <1>4, <1>5 DEF IsWorld
  <1> QED
    BY <1>1, <1>6

-----------------------------------------------------------------------------
(* Claims succeed.                                                         *)
LEMMA NewClaimRuns ==
    ASSUME program = "distributor", IsDrop(drop), now \in Nat, NEW r \in DOMAIN drop.leaves,
           DropDist(drop) \in DOMAIN accounts, accounts[DropDist(drop)].clawedBack = FALSE,
           DropStatus(drop, r) \notin DOMAIN accounts,
           NEW w, Ready(w, TokenAccount(drop.mint, r)),
           NEW v, v = Executed(w, NewClaimTxn(drop, r), r)
    PROVE  /\ v.ok = TRUE /\ DropEnv(v) /\ IsWorld(v)
           /\ TokenAccount(drop.mint, r) \in DOMAIN v.tokens
           /\ DropStatus(drop, r) \in DOMAIN v.accounts
           /\ IsNewStatus(v.accounts[DropStatus(drop, r)], drop.leaves[r])
           /\ DropDist(drop) \in DOMAIN v.accounts
           /\ SameDistributor(drop, accounts, v.accounts)
  <1>1. PICK ix, e : ix = NewClaimTxn(drop, r) /\ e = Airdrop!Effect(w, ix, r)
    OBVIOUS
  <1>2. /\ IsWorld(w) /\ w.ok = TRUE /\ w.accounts = accounts /\ DropEnv(w)
        /\ TokenAccount(drop.mint, r) \in DOMAIN w.tokens
    BY DEF Ready
  <1>3. Airdrop!Allowed(w, ix, r)
    BY <1>1, <1>2, NewClaimAllowed
  <1>4. ClaimsIx(drop, ix, r) /\ ix.op = "newClaim" /\ AirOp(ix)
    BY <1>1, ClaimsFit DEF AirOp
  <1>5. Took(v, e)
    BY <1>1, <1>2, <1>3, <1>4, AirSucceeds
  <1>6. /\ DropEnv(e) /\ Kept(drop, w.accounts, e.accounts)
        /\ DropStatus(drop, r) \in DOMAIN e.accounts
        /\ IsNewStatus(e.accounts[DropStatus(drop, r)], drop.leaves[r])
        /\ SameDistributor(drop, w.accounts, e.accounts)
    BY <1>1, <1>2, <1>3, <1>4, NewClaimDoes
  <1>7. DOMAIN e.tokens = DOMAIN w.tokens
    BY <1>1, <1>2, <1>4, NewClaimTokens
  <1>8. IsWorld(v) /\ v.ok = TRUE /\ v.accounts = e.accounts /\ v.tokens = e.tokens
    BY <1>5 DEF Took
  <1>9. DropEnv(v)
    BY <1>6, <1>8 DEF DropEnv
  <1>10. DropDist(drop) \in DOMAIN v.accounts
    BY <1>2, <1>6, <1>8 DEF Kept
  <1> QED
    BY <1>2, <1>6, <1>7, <1>8, <1>9, <1>10

LEMMA LockedRuns ==
    ASSUME program = "distributor", IsDrop(drop), now \in Nat, NEW r \in DOMAIN drop.leaves,
           NEW w, IsWorld(w), w.ok = TRUE, DropEnv(w), TokenAccount(drop.mint, r) \in DOMAIN w.tokens,
           DropDist(drop) \in DOMAIN w.accounts, w.accounts[DropDist(drop)].clawedBack = FALSE,
           DropStatus(drop, r) \in DOMAIN w.accounts, ~w.accounts[DropStatus(drop, r)].closed,
           Airdrop!Withdrawable(w, r) > 0, NEW v, v = Executed(w, LockedTxn(drop, r), r)
    PROVE  v.ok
  <1>1. PICK ix, e : ix = LockedTxn(drop, r) /\ e = Airdrop!Effect(w, ix, r)
    OBVIOUS
  <1>2. Airdrop!Allowed(w, ix, r)
    BY <1>1, LockedAllowed
  <1>3. AirOp(ix)
    BY <1>1, ClaimsFit DEF AirOp
  <1>4. Took(v, e)
    BY <1>1, <1>2, <1>3, AirSucceeds
  <1> QED
    BY <1>4 DEF Took

LEMMA ClaimSucceeds ==
    ASSUME program = "distributor", DropWorld(drop, accounts, tokens), IsDrop(drop), now \in Nat,
           DropDist(drop) \in DOMAIN accounts, NEW r \in DOMAIN drop.leaves,
           IsBuilt(call, "claim", r,
                   OpenedFirst(drop, r, tokens, ClaimTxns(drop, r, accounts, call.at))),
           Airdrop!Due
    PROVE  RunOf(call.ixs, call.invoker).ok
  <1>1. PICK x, y, a, n, s : /\ x = NewClaimTxn(drop, r) /\ y = LockedTxn(drop, r)
                             /\ a = TokenAccount(drop.mint, r) /\ n = drop.leaves[r].locked
                             /\ s = DropStatus(drop, r)
    OBVIOUS
  <1>2. PICK dist : dist = accounts[DropDist(drop)]
    OBVIOUS
  <1>3. /\ call.name = "claim" /\ call.invoker = r
        /\ call.ixs = OpenedFirst(drop, r, tokens, ClaimTxns(drop, r, accounts, call.at))
    BY DEF IsBuilt
  <1>4. /\ Airdrop!Open(World)
        /\ IF s \in DOMAIN accounts THEN Airdrop!Claimable(World, r) > 0
           ELSE call.ixs[Len(call.ixs)].op = "claimLocked" => Airdrop!UnlockedOf(dist, n) > 0
    <2>1. World.accounts = accounts
      BY DEF World
    <2>2. Airdrop!Exists(Airdrop!World, Airdrop!StatusOf(Airdrop!World, r)) <=> s \in DOMAIN accounts
      BY <1>1, <2>1, AirSame, DropIs DEF Exists
    <2>3. Airdrop!World = World /\ Airdrop!Distributor = DropDist(drop) /\ Airdrop!Leaves = drop.leaves
      BY AirSame, DropIs
    <2> QED
      BY <1>1, <1>2, <1>3, <2>2, <2>3 DEF Airdrop!Due
  <1>5. accounts[DropDist(drop)].clawedBack = FALSE
    <2>1. World.accounts = accounts
      BY DEF World
    <2>2. ~accounts[DropDist(drop)].clawedBack
      BY <1>4, <2>1, DropIs DEF Airdrop!Open
    <2>3. accounts[DropDist(drop)].clawedBack \in BOOLEAN
      BY DEF DropWorld, DropAccounts, IsDistributor
    <2> QED
      BY <2>2, <2>3
  <1>6. r # DropDist(drop)
    BY RecipientsAre
  <1>7. \E u : /\ Ready(u, a)
               /\ RunOf(OpenedFirst(drop, r, tokens, <<x>>), r) = Executed(u, x, r)
               /\ RunOf(OpenedFirst(drop, r, tokens, <<x, y>>), r) = Executed(Executed(u, x, r), y, r)
    BY <1>1, <1>6, ReadyRuns
  <1>8. CASE s \in DOMAIN accounts
    <2>1. call.ixs = OpenedFirst(drop, r, tokens, <<y>>)
      BY <1>1, <1>3, <1>8 DEF ClaimTxns
    <2>2. PICK u : /\ Ready(u, a)
                   /\ RunOf(OpenedFirst(drop, r, tokens, <<y>>), r) = Executed(u, y, r)
                   /\ RunOf(OpenedFirst(drop, r, tokens, <<y, y>>), r)
                        = Executed(Executed(u, y, r), y, r)
      BY <1>1, <1>6, ReadyRuns
    <2>3. PICK v : v = Executed(u, y, r)
      OBVIOUS
    <2>4. /\ IsWorld(u) /\ u.ok = TRUE /\ DropEnv(u) /\ u.accounts = accounts /\ a \in DOMAIN u.tokens
      BY <2>2 DEF Ready
    <2>5. ~accounts[s].closed /\ Airdrop!Withdrawable(World, r) > 0
      <3>1. Airdrop!Exists(World, Airdrop!StatusOf(World, r)) /\ Airdrop!StatusOf(World, r) = s
        BY <1>1, <1>8, AirSame, DropIs DEF Exists, World
      <3>2. Airdrop!Claimable(World, r)
              = IF accounts[s].closed THEN 0 ELSE Airdrop!Withdrawable(World, r)
        BY <3>1 DEF Airdrop!Claimable, World
      <3> QED
        BY <1>4, <1>8, <3>2
    <2>6. Airdrop!Withdrawable(u, r) = Airdrop!Withdrawable(World, r)
      BY <2>4, DropIs DEF Airdrop!Withdrawable, World
    <2>7. /\ IsWorld(u) /\ u.ok = TRUE /\ DropEnv(u) /\ TokenAccount(drop.mint, r) \in DOMAIN u.tokens
          /\ DropDist(drop) \in DOMAIN u.accounts /\ u.accounts[DropDist(drop)].clawedBack = FALSE
          /\ DropStatus(drop, r) \in DOMAIN u.accounts /\ ~u.accounts[DropStatus(drop, r)].closed
          /\ Airdrop!Withdrawable(u, r) > 0 /\ v = Executed(u, LockedTxn(drop, r), r)
      BY <1>1, <1>5, <1>8, <2>3, <2>4, <2>5, <2>6
    <2>8. v.ok
      BY <2>7, LockedRuns
    <2> QED
      BY <1>3, <2>1, <2>2, <2>3, <2>8
  <1>9. ASSUME s \notin DOMAIN accounts, NEW u, Ready(u, a), NEW v, v = Executed(u, x, r)
        PROVE  /\ v.ok = TRUE /\ DropEnv(v) /\ IsWorld(v) /\ a \in DOMAIN v.tokens
               /\ s \in DOMAIN v.accounts /\ IsNewStatus(v.accounts[s], drop.leaves[r])
               /\ DropDist(drop) \in DOMAIN v.accounts /\ SameDistributor(drop, accounts, v.accounts)
    <2>1. /\ DropStatus(drop, r) \notin DOMAIN accounts /\ Ready(u, TokenAccount(drop.mint, r))
          /\ v = Executed(u, NewClaimTxn(drop, r), r)
      BY <1>1, <1>9
    <2>2. /\ v.ok = TRUE /\ DropEnv(v) /\ IsWorld(v)
          /\ TokenAccount(drop.mint, r) \in DOMAIN v.tokens
          /\ DropStatus(drop, r) \in DOMAIN v.accounts
          /\ IsNewStatus(v.accounts[DropStatus(drop, r)], drop.leaves[r])
          /\ DropDist(drop) \in DOMAIN v.accounts
          /\ SameDistributor(drop, accounts, v.accounts)
      BY <1>5, <2>1, NewClaimRuns
    <2> QED
      BY <1>1, <2>2
  <1>10. CASE s \notin DOMAIN accounts /\ ~UnlocksAt(dist, n, call.at)
    <2>1. call.ixs = OpenedFirst(drop, r, tokens, <<x>>)
      BY <1>1, <1>2, <1>3, <1>10 DEF ClaimTxns
    <2>2. PICK u : Ready(u, a) /\ RunOf(OpenedFirst(drop, r, tokens, <<x>>), r) = Executed(u, x, r)
      BY <1>7
    <2>3. PICK v : v = Executed(u, x, r)
      OBVIOUS
    <2>4. v.ok = TRUE
      BY <1>9, <1>10, <2>2, <2>3
    <2> QED
      BY <1>3, <2>1, <2>2, <2>3, <2>4
  <1>11. CASE s \notin DOMAIN accounts /\ UnlocksAt(dist, n, call.at)
    <2>1. call.ixs = OpenedFirst(drop, r, tokens, <<x, y>>)
      BY <1>1, <1>2, <1>3, <1>11 DEF ClaimTxns
    <2>2. PICK u : Ready(u, a) /\ RunOf(OpenedFirst(drop, r, tokens, <<x, y>>), r)
                                    = Executed(Executed(u, x, r), y, r)
      BY <1>7
    <2>3. PICK v, z : v = Executed(u, x, r) /\ z = Executed(v, y, r)
      OBVIOUS
    <2>4. /\ v.ok = TRUE /\ DropEnv(v) /\ IsWorld(v) /\ a \in DOMAIN v.tokens
          /\ s \in DOMAIN v.accounts /\ IsNewStatus(v.accounts[s], drop.leaves[r])
          /\ DropDist(drop) \in DOMAIN v.accounts /\ SameDistributor(drop, accounts, v.accounts)
      BY <1>9, <1>11, <2>2, <2>3
    <2>5. Airdrop!UnlockedOf(dist, n) > 0
      <3>1. PICK o : o = OpenFor(drop, r)
        OBVIOUS
      <3>2. <<o>> \o <<x, y>> = <<o, x, y>>
        BY PrefixedTwo
      <3>3. call.ixs \in {<<x, y>>, <<o, x, y>>}
        BY <2>1, <3>1, <3>2 DEF OpenedFirst
      <3>4. call.ixs[Len(call.ixs)] = y
        <4>1. CASE call.ixs = <<x, y>>
          BY <4>1
        <4>2. CASE call.ixs = <<o, x, y>>
          BY <4>2
        <4> QED
          BY <3>3, <4>1, <4>2
      <3>5. y.op = "claimLocked"
        BY <1>1 DEF LockedTxn
      <3> QED
        BY <1>4, <1>11, <3>4, <3>5
    <2>6. Airdrop!Withdrawable(v, r) > 0
      <3>1. v.accounts[DropDist(drop)] = dist
        BY <1>2, <2>4 DEF SameDistributor
      <3>2. PICK status : status = v.accounts[s]
        OBVIOUS
      <3>3. status.lockedAmount = n /\ status.lockedAmountWithdrawn = 0
        BY <1>1, <2>4, <3>2 DEF IsNewStatus
      <3>4. Airdrop!Withdrawable(v, r)
              = Airdrop!UnlockedOf(dist, status.lockedAmount) - status.lockedAmountWithdrawn
        BY <1>1, <3>1, <3>2, DropIs DEF Airdrop!Withdrawable
      <3>5. PICK k : k = Airdrop!UnlockedOf(dist, n)
        OBVIOUS
      <3>6. k \in Int
        <4>1. IsDistributor(dist, drop)
          BY <1>2 DEF DropWorld, DropAccounts
        <4>2. n \in Nat
          BY <1>1 DEF IsDrop
        <4> QED
          BY <3>5, <4>1, <4>2, UnlockedIsPart
      <3>7. Airdrop!Withdrawable(v, r) = k - 0
        BY <3>3, <3>4, <3>5
      <3> QED
        BY <2>5, <3>5, <3>6, <3>7
    <2>7. ~v.accounts[s].closed
      BY <2>4 DEF IsNewStatus
    <2>8. v.accounts[DropDist(drop)].clawedBack = FALSE
      BY <1>5, <2>4 DEF SameDistributor
    <2>9. /\ IsWorld(v) /\ v.ok = TRUE /\ DropEnv(v) /\ TokenAccount(drop.mint, r) \in DOMAIN v.tokens
          /\ DropDist(drop) \in DOMAIN v.accounts /\ v.accounts[DropDist(drop)].clawedBack = FALSE
          /\ DropStatus(drop, r) \in DOMAIN v.accounts /\ ~v.accounts[DropStatus(drop, r)].closed
          /\ Airdrop!Withdrawable(v, r) > 0 /\ z = Executed(v, LockedTxn(drop, r), r)
      BY <1>1, <2>3, <2>4, <2>6, <2>7, <2>8
    <2>10. z.ok
      BY <2>9, LockedRuns
    <2> QED
      BY <1>3, <2>1, <2>2, <2>3, <2>10
  <1> QED
    BY <1>8, <1>10, <1>11

-----------------------------------------------------------------------------
(* Claims are closed and airdrops clawed back.                             *)
LEMMA CloseSucceeds ==
    ASSUME program = "distributor", DropWorld(drop, accounts, tokens), IsDrop(drop),
           NEW r \in DOMAIN drop.leaves, NEW invoker \in {Airdrop!Admin, r},
           NEW leaf \in {<<>>, <<drop.leaves[r]>>},
           IsBuilt(call, "closeClaim", invoker, <<CloseTxn(drop, invoker, r, leaf)>>), Airdrop!Due
    PROVE  RunOf(call.ixs, call.invoker).ok
  <1>1. PICK w, ix, a, s : /\ w = World /\ ix = CloseTxn(drop, invoker, r, leaf)
                           /\ a = CloseOf(drop, invoker, r) /\ s = DropStatus(drop, r)
    OBVIOUS
  <1>2. call.name = "closeClaim" /\ call.invoker = invoker /\ call.ixs = <<ix>>
    BY <1>1 DEF IsBuilt
  <1>3. ix.op = "closeClaim" /\ ix.accounts = a /\ ix.leaf = leaf /\ AirOp(ix)
    BY <1>1 DEF CloseTxn, AirOp
  <1>4. a.claimant = r /\ a.claimStatus = s
    BY <1>1 DEF CloseOf
  <1>5. call.ixs[Len(call.ixs)] = ix
    BY <1>2
  <1>6. IsWorld(w) /\ w.ok = TRUE /\ w.accounts = accounts
    BY <1>1, WorldIsWorld DEF World
  <1>7. /\ Airdrop!Open(w) /\ Airdrop!ClosableBy(invoker, r)
        /\ IF s \in DOMAIN accounts THEN ~accounts[s].closed ELSE leaf # <<>>
    <2>1. Airdrop!World = w /\ \A b : Airdrop!StatusOf(b, r) = s
      BY <1>1, AirSame, DropIs
    <2>2. Airdrop!Exists(w, s) <=> s \in DOMAIN accounts
      BY <1>6, AirSame DEF Exists
    <2>3. ix.accounts.claimant = r
      BY <1>3, <1>4
    <2> QED
      BY <1>2, <1>3, <1>5, <2>1, <2>2, <2>3 DEF Airdrop!Due
  <1>8. Airdrop!Accepts(Airdrop!CloseClaimIx, a, <<>>, w.accounts, invoker)
    BY <1>1, CloseAccepted
  <1>9. Airdrop!Allowed(w, ix, invoker)
    <2>1. \/ invoker = w.accounts[Airdrop!Distributor].admin
             /\ w.accounts[Airdrop!Distributor].claimsClosableByAdmin
          \/ invoker = a.claimant /\ w.accounts[Airdrop!Distributor].claimsClosableByClaimant
      BY <1>4, <1>6, <1>7 DEF Airdrop!ClosableBy
    <2>2. IF Airdrop!Exists(w, a.claimStatus) THEN ~w.accounts[a.claimStatus].closed
          ELSE ix.leaf = <<Airdrop!Leaves[a.claimant]>>
      <3>1. leaf # <<>> => leaf = <<drop.leaves[r]>>
        OBVIOUS
      <3> QED
        BY <1>3, <1>4, <1>6, <1>7, <3>1, AirSame, DropIs DEF Exists
    <2> QED
      BY <1>3, <1>7, <1>8, <2>1, <2>2 DEF Airdrop!Allowed
  <1>10. PICK v, e : v = Executed(w, ix, invoker) /\ e = Airdrop!Effect(w, ix, invoker)
    OBVIOUS
  <1>11. Took(v, e)
    BY <1>3, <1>6, <1>9, <1>10, AirSucceeds
  <1>12. v.ok
    BY <1>11 DEF Took
  <1> QED
    BY <1>1, <1>2, <1>10, <1>12, RunOne

LEMMA ClawAllowed ==
    ASSUME IsDrop(drop), NEW w, DropEnv(w), DropDist(drop) \in DOMAIN w.accounts,
           AdminTokens(drop) \in DOMAIN w.tokens, Airdrop!Open(w),
           now >= w.accounts[DropDist(drop)].clawbackStartTs,
           NEW ix, ix = ClawTxn(drop, w.accounts)
    PROVE  Airdrop!Allowed(w, ix, Airdrop!Admin)
  <1>1. PICK d, accs, p : /\ d = w.accounts[DropDist(drop)] /\ accs = w.accounts
                          /\ p = DropProxy(drop)
    OBVIOUS
  <1>2. /\ IsDistributor(d, drop)
        /\ IF p \in DOMAIN accs THEN d.admin = p /\ IsProxy(accs[p]) ELSE d.admin = Airdrop!Admin
    BY <1>1 DEF DropEnv, DropWorld, DropAccounts
  <1>3. d.mint = drop.mint /\ d.clawbackReceiver = AdminTokens(drop)
    BY <1>2 DEF IsDistributor
  <1>4. Airdrop!Admin # Missing /\ p # Missing
    BY <1>1, DropAddresses
  <1>5. CASE p \in DOMAIN accs
    <2>1. PICK a, b : a = AlignedClaw(drop, accs) /\ b = [a EXCEPT !.admin = p]
      OBVIOUS
    <2>2. ix.op = "alignedClawback" /\ ix.accounts = a
      BY <1>1, <1>5, <2>1 DEF ClawTxn, ProxyClaw
    <2>3. /\ a["alignedDistributor"] = p
          /\ \A name \in DOMAIN ClawOf(drop) : a[name] = ClawOf(drop)[name]
          /\ a = [name \in DOMAIN ClawOf(drop) \cup {"alignedDistributor"} |-> a[name]]
          /\ Accepts(Airdrop!AlignedClawbackIx, a, <<>>, accs, Airdrop!Admin)
      BY <1>1, <2>1, AlignedClawIs
    <2>4. /\ a["distributor"] = DropDist(drop) /\ a["from"] = DropVault(drop)
          /\ a["to"] = AdminTokens(drop) /\ a["mint"] = drop.mint
      BY <2>3 DEF ClawOf
    <2>5. DOMAIN a = {"distributor", "from", "to", "admin", "mint", "alignedDistributor"}
      BY <2>3 DEF ClawOf
    <2>6. /\ b["distributor"] = DropDist(drop) /\ b["from"] = DropVault(drop)
          /\ b["to"] = AdminTokens(drop) /\ b["mint"] = drop.mint /\ b["admin"] = p
      BY <2>1, <2>4, <2>5
    <2>7. /\ p # Missing /\ DropDist(drop) \in DOMAIN accs
          /\ accs[DropDist(drop)].mint = drop.mint /\ accs[DropDist(drop)].admin = p
      BY <1>1, <1>2, <1>3, <1>4, <1>5
    <2>8. Airdrop!Accepts(Airdrop!ClawbackIx, b, <<>>, accs, p)
      BY <2>6, <2>7, ClawAccepted
    <2>9. Airdrop!Accepts(Airdrop!AlignedClawbackIx, a, <<>>, accs, Airdrop!Admin)
      BY <2>3, AirAnchorSame
    <2>10. /\ a.alignedDistributor = p /\ a.to = AdminTokens(drop)
           /\ accs[p].admin = Airdrop!Admin
      BY <1>2, <1>5, <2>3, <2>4 DEF IsProxy
    <2>11. /\ Airdrop!Exists(w, a.alignedDistributor) /\ Airdrop!Holds(w, a.to)
           /\ a.to = w.accounts[Airdrop!Distributor].clawbackReceiver
           /\ now >= w.accounts[Airdrop!Distributor].clawbackStartTs
      BY <1>1, <1>3, <1>5, <2>10, AirSame, DropIs DEF Exists, Holds
    <2> QED
      BY <1>1, <2>1, <2>2, <2>8, <2>9, <2>10, <2>11 DEF Airdrop!Allowed
  <1>6. CASE p \notin DOMAIN accs
    <2>1. PICK a : a = ClawOf(drop)
      OBVIOUS
    <2>2. ix.op = "clawback" /\ ix.accounts = a
      BY <1>1, <1>6, <2>1 DEF ClawTxn, PlainClaw
    <2>3. /\ a["distributor"] = DropDist(drop) /\ a["from"] = DropVault(drop)
          /\ a["to"] = AdminTokens(drop) /\ a["mint"] = drop.mint /\ a["admin"] = Airdrop!Admin
      BY <2>1 DEF ClawOf
    <2>4. /\ Airdrop!Admin # Missing /\ DropDist(drop) \in DOMAIN accs
          /\ accs[DropDist(drop)].mint = drop.mint /\ accs[DropDist(drop)].admin = Airdrop!Admin
      BY <1>1, <1>2, <1>3, <1>4, <1>6
    <2>5. Airdrop!Accepts(Airdrop!ClawbackIx, a, <<>>, accs, Airdrop!Admin)
      BY <2>3, <2>4, ClawAccepted
    <2>6. /\ Airdrop!Holds(w, a.to) /\ a.to = w.accounts[Airdrop!Distributor].clawbackReceiver
          /\ now >= w.accounts[Airdrop!Distributor].clawbackStartTs
      BY <1>1, <1>3, <2>3, AirSame, DropIs DEF Holds
    <2> QED
      BY <1>1, <2>2, <2>5, <2>6 DEF Airdrop!Allowed
  <1> QED
    BY <1>5, <1>6

LEMMA ClawSucceeds ==
    ASSUME program = "distributor", DropWorld(drop, accounts, tokens), IsDrop(drop), now \in Nat,
           DropDist(drop) \in DOMAIN accounts,
           IsBuilt(call, "clawback", Airdrop!Admin,
                   OpenedFirst(drop, Airdrop!Admin, tokens, <<ClawTxn(drop, accounts)>>)),
           Airdrop!Due
    PROVE  RunOf(call.ixs, call.invoker).ok
  <1>1. PICK ix, admin : ix = ClawTxn(drop, accounts) /\ admin = Airdrop!Admin
    OBVIOUS
  <1>2. /\ call.name = "clawback" /\ call.invoker = admin
        /\ call.ixs = OpenedFirst(drop, admin, tokens, <<ix>>)
    BY <1>1 DEF IsBuilt
  <1>3. /\ Airdrop!Open(Airdrop!World)
        /\ now >= accounts[DropDist(drop)].clawbackStartTs
    BY <1>2, DropIs DEF Airdrop!Due
  <1>4. admin # DropDist(drop)
    BY <1>1, RecipientsAre
  <1>5. PICK u : /\ Ready(u, TokenAccount(drop.mint, admin))
                 /\ RunOf(OpenedFirst(drop, admin, tokens, <<ix>>), admin) = Executed(u, ix, admin)
                 /\ RunOf(OpenedFirst(drop, admin, tokens, <<ix, ix>>), admin)
                      = Executed(Executed(u, ix, admin), ix, admin)
    BY <1>4, ReadyRuns
  <1>6. /\ IsWorld(u) /\ u.ok = TRUE /\ DropEnv(u) /\ u.accounts = accounts
        /\ AdminTokens(drop) \in DOMAIN u.tokens
    BY <1>1, <1>5 DEF Ready, AdminTokens
  <1>7. Airdrop!Open(u)
    BY <1>3, <1>6, AirSame DEF Airdrop!Open, Exists, World
  <1>8. Airdrop!Allowed(u, ix, admin)
    <2>1. /\ DropDist(drop) \in DOMAIN u.accounts
          /\ now >= u.accounts[DropDist(drop)].clawbackStartTs /\ ix = ClawTxn(drop, u.accounts)
      BY <1>1, <1>3, <1>6
    <2> QED
      BY <1>1, <1>6, <1>7, <2>1, ClawAllowed
  <1>9. AirOp(ix)
    BY <1>1, ClawFits DEF AirOp
  <1>10. PICK v, e : v = Executed(u, ix, admin) /\ e = Airdrop!Effect(u, ix, admin)
    OBVIOUS
  <1>11. Took(v, e)
    BY <1>6, <1>8, <1>9, <1>10, AirSucceeds
  <1>12. v.ok
    BY <1>11 DEF Took
  <1> QED
    BY <1>2, <1>5, <1>10, <1>12

-----------------------------------------------------------------------------
(* Airdrops are created and funded.                                        *)
LEMMA CreationAllowed ==
    ASSUME IsDrop(drop), NEW w, DropDist(drop) \notin DOMAIN w.accounts,
           AdminTokens(drop) \in DOMAIN w.tokens, NEW n, CreationTxn(drop, n, w.accounts),
           Airdrop!AcceptsSchedule(n.schedule)
    PROVE  Airdrop!Allowed(w, n, Airdrop!Admin)
  <1>1. PICK s, closable :
          /\ s \in Schedules
          /\ n \in {PlainCreation(drop, s, closable), ProxyCreation(drop, s, closable, w.accounts)}
    BY DEF CreationTxn
  <1>2. PICK accs, admin, args : /\ accs = w.accounts /\ admin = Airdrop!Admin
                                 /\ args = [version |-> Airdrop!Version]
    OBVIOUS
  <1>3. ASSUME NEW a, \A name \in DOMAIN CreationOf(drop) : a[name] = CreationOf(drop)[name],
               n.version = Airdrop!Version
        PROVE  Airdrop!NewDistributorAccepted(w, a, n, admin)
    <2>1. Airdrop!Accepts(Airdrop!NewDistributorIx, a, [version |-> Airdrop!Version], accs,
                          Airdrop!Admin)
      BY <1>3, CreationAccepted
    <2>2. a["distributor"] = DropDist(drop) /\ a["clawbackReceiver"] = AdminTokens(drop)
      BY <1>3 DEF CreationOf
    <2>3. ~Airdrop!Exists(w, a["distributor"]) /\ Airdrop!Holds(w, a["clawbackReceiver"])
      BY <2>2, AirSame DEF Exists, Holds
    <2> QED
      BY <1>2, <1>3, <2>1, <2>3 DEF Airdrop!NewDistributorAccepted
  <1>4. CASE n = PlainCreation(drop, s, closable)
    <2>1. n.op = "newDistributor" /\ n.accounts = CreationOf(drop) /\ n.version = Airdrop!Version
      BY <1>4 DEF PlainCreation
    <2>2. Airdrop!NewDistributorAccepted(w, n.accounts, n, admin)
      BY <1>3, <2>1
    <2> QED
      BY <1>2, <2>1, <2>2 DEF Airdrop!Allowed
  <1>5. CASE n = ProxyCreation(drop, s, closable, w.accounts)
    <2>1. /\ n.op = "alignedNewDistributor" /\ n.accounts = AlignedCreation(drop, accs)
          /\ n.version = Airdrop!Version /\ n.updatePeriod = Airdrop!UpdatePeriod(s)
      BY <1>2, <1>5 DEF ProxyCreation
    <2>2. /\ \A name \in DOMAIN CreationOf(drop) :
               AlignedCreation(drop, accs)[name] = CreationOf(drop)[name]
          /\ Accepts(Airdrop!AlignedNewDistributorIx, AlignedCreation(drop, accs), <<>>, accs,
                     Airdrop!Admin)
      BY AlignedCreationIs
    <2>3. Airdrop!NewDistributorAccepted(w, n.accounts, n, admin)
      BY <1>3, <2>1, <2>2
    <2>4. Airdrop!Accepts(Airdrop!AlignedNewDistributorIx, n.accounts, <<>>, accs, admin)
      BY <1>2, <2>1, <2>2, AirAnchorSame
    <2>5. n.updatePeriod >= MinUpdatePeriod
      <3>1. s.period \in Nat /\ MinUpdatePeriod \in Nat
        BY <1>1, ProgramAssumption
      <3> QED
        BY <2>1, <3>1 DEF Airdrop!UpdatePeriod
    <2> QED
      BY <1>2, <2>1, <2>3, <2>4, <2>5 DEF Airdrop!Allowed
  <1> QED
    BY <1>1, <1>4, <1>5

(* The creation opens the vault and leaves the other accounts.             *)
LEMMA CreationOpens ==
    ASSUME NEW w, IsWorld(w), NEW n, n.op \in {"newDistributor", "alignedNewDistributor"},
           NEW invoker, NEW e, e = Airdrop!Effect(w, n, invoker)
    PROVE  \A b \in DOMAIN w.tokens \cup {n.accounts.tokenVault} : b \in DOMAIN e.tokens
  <1>1. PICK v, u : v = n.accounts.tokenVault /\ u = Opened(w, v)
    OBVIOUS
  <1>2. PICK t : t = Stored(w.tokens, v, IF v \in DOMAIN w.tokens THEN w.tokens[v] ELSE 0)
    OBVIOUS
  <1>3. u = [w EXCEPT !.tokens = t]
    BY <1>1, <1>2 DEF Opened
  <1>4. IsWorld(u) /\ u.tokens = t
    BY <1>3 DEF IsWorld
  <1>5. DOMAIN t = DOMAIN w.tokens \cup {v}
    BY <1>2 DEF Stored
  <1>6. ASSUME NEW admin, NEW c, c = Airdrop!WithDistributor(w, n, admin)
        PROVE  IsWorld(c) /\ c.tokens = t
    <2>1. PICK accs : accs = Airdrop!Stored(u.accounts, n.accounts.distributor,
                                            Airdrop!NewDistributor(n, admin))
      OBVIOUS
    <2>2. c = [u EXCEPT !.accounts = accs]
      BY <1>1, <1>6, <2>1, AirSame DEF Airdrop!WithDistributor
    <2> QED
      BY <1>4, <2>2 DEF IsWorld
  <1>7. CASE n.op = "newDistributor"
    <2>1. e = Airdrop!WithDistributor(w, n, invoker)
      BY <1>7 DEF Airdrop!Effect
    <2> QED
      BY <1>1, <1>5, <1>6, <2>1
  <1>8. CASE n.op = "alignedNewDistributor"
    <2>1. PICK proxy, c : /\ proxy = n.accounts.alignedDistributor
                          /\ c = Airdrop!WithDistributor(w, n, proxy)
      OBVIOUS
    <2>2. PICK accs : accs = Airdrop!Stored(c.accounts, proxy,
                                            [admin |-> invoker, distributorClawedBack |-> FALSE])
      OBVIOUS
    <2>3. e = [c EXCEPT !.accounts = accs]
      BY <1>8, <2>1, <2>2 DEF Airdrop!Effect
    <2>4. IsWorld(c) /\ c.tokens = t
      BY <1>6, <2>1
    <2>5. e.tokens = t
      BY <2>3, <2>4 DEF IsWorld
    <2> QED
      BY <1>1, <1>5, <2>5
  <1> QED
    BY <1>7, <1>8

LEMMA FundDropAllowed ==
    ASSUME IsDrop(drop), epoch \in {1, 2}, NEW w, AdminTokens(drop) \in DOMAIN w.tokens,
           DropVault(drop) \in DOMAIN w.tokens, NEW f, f = FundDropTxn(drop, epoch)
    PROVE  Airdrop!Allowed(w, f, Airdrop!Admin)
  <1>1. PICK fee, n, sent : /\ fee = drop.fees[epoch] /\ n = TotalClaim(drop)
                            /\ sent = Airdrop!TransferAmount(n, fee)
    OBVIOUS
  <1>2. /\ f.op = "transfer" /\ f.from = AdminTokens(drop) /\ f.to = DropVault(drop)
        /\ f.amount = sent /\ f.charged = Airdrop!FeeCharged(n, fee)
    BY <1>1 DEF FundDropTxn
  <1>3. n \in Nat /\ fee.max \in Nat /\ fee.rate \in 0..OneInBasisPoints - 1
    BY <1>1, TotalIs DEF IsDrop
  <1>4. Airdrop!FeeCharged(n, fee) = Airdrop!FeeKept(sent, fee)
    BY <1>1, <1>3, TransferArrives
  <1>5. Airdrop!Fee = fee /\ Airdrop!Tokens(Airdrop!Admin) = AdminTokens(drop)
    BY <1>1, DropIs DEF AdminTokens
  <1>6. Airdrop!Holds(w, f.from) /\ Airdrop!Holds(w, f.to)
    BY <1>2, AirSame DEF Holds
  <1> QED
    BY <1>2, <1>4, <1>5, <1>6 DEF Airdrop!Allowed

(* The two instructions of every creation.                                 *)
LEMMA CreatedAndFunded ==
    ASSUME program = "distributor", IsDrop(drop), epoch \in {1, 2}, DropDist(drop) \notin DOMAIN accounts,
           NEW w, Ready(w, AdminTokens(drop)), NEW n, CreationTxn(drop, n, accounts),
           Airdrop!AcceptsSchedule(n.schedule),
           NEW v, v = Executed(Executed(w, n, Airdrop!Admin), FundDropTxn(drop, epoch), Airdrop!Admin)
    PROVE  v.ok
  <1>1. PICK f, u, e, admin : /\ f = FundDropTxn(drop, epoch) /\ admin = Airdrop!Admin
                              /\ u = Executed(w, n, admin) /\ e = Airdrop!Effect(w, n, admin)
    OBVIOUS
  <1>2. /\ IsWorld(w) /\ w.ok = TRUE /\ w.accounts = accounts
        /\ AdminTokens(drop) \in DOMAIN w.tokens
    BY DEF Ready
  <1>3. /\ n.op \in {"newDistributor", "alignedNewDistributor"}
        /\ n.accounts["tokenVault"] = DropVault(drop)
    BY CreationFits DEF CreatesIx
  <1>4. Airdrop!Allowed(w, n, admin)
    BY <1>1, <1>2, CreationAllowed
  <1>5. AirOp(n) /\ AirOp(f) /\ f.op = "transfer"
    BY <1>1, <1>3 DEF AirOp, FundDropTxn
  <1>6. Took(u, e)
    BY <1>1, <1>2, <1>4, <1>5, AirSucceeds
  <1>7. \A b \in DOMAIN w.tokens \cup {n.accounts.tokenVault} : b \in DOMAIN e.tokens
    BY <1>1, <1>2, <1>3, CreationOpens
  <1>8. /\ IsWorld(u) /\ u.ok = TRUE /\ AdminTokens(drop) \in DOMAIN u.tokens
        /\ DropVault(drop) \in DOMAIN u.tokens
    BY <1>2, <1>3, <1>6, <1>7 DEF Took
  <1>9. Airdrop!Allowed(u, f, admin)
    BY <1>1, <1>8, FundDropAllowed
  <1>10. PICK g : g = Airdrop!Effect(u, f, admin)
    OBVIOUS
  <1>11. v = Executed(u, f, admin)
    BY <1>1
  <1>12. Took(v, g)
    BY <1>5, <1>8, <1>9, <1>10, <1>11, AirSucceeds
  <1> QED
    BY <1>12 DEF Took

LEMMA WrapReady ==
    ASSUME program = "distributor", NEW w, Ready(w, AdminTokens(drop)), NEW invoker,
           NEW v, v = Executed(w, WrapTxn(drop), invoker)
    PROVE  Ready(v, AdminTokens(drop))
  <1>1. PICK ix, e : ix = WrapTxn(drop) /\ e = Airdrop!Effect(w, ix, invoker)
    OBVIOUS
  <1>2. ix.op = "wrap" /\ ix.account = AdminTokens(drop) /\ AirOp(ix)
    BY <1>1 DEF WrapTxn, AirOp
  <1>3. e = w
    BY <1>1, <1>2 DEF Airdrop!Effect
  <1>4. Airdrop!Allowed(w, ix, invoker)
    BY <1>2, AirSame DEF Ready, Airdrop!Allowed, Holds
  <1>5. IsWorld(w) /\ w.ok = TRUE
    BY DEF Ready
  <1>6. Took(v, e)
    BY <1>1, <1>2, <1>4, <1>5, AirSucceeds
  <1>7. IsWorld(v) /\ v.ok = TRUE /\ v.accounts = w.accounts /\ v.tokens = w.tokens
    BY <1>3, <1>6 DEF Took
  <1> QED
    BY <1>7 DEF Ready, DropEnv

LEMMA DropCreateSucceeds ==
    ASSUME program = "distributor", DropWorld(drop, accounts, tokens), IsDrop(drop), now \in Nat,
           epoch \in {1, 2}, DropDist(drop) \notin DOMAIN accounts, NEW n, CreationTxn(drop, n, accounts),
           IsBuilt(call, "create", Airdrop!Admin, CreationIxs(drop, n, tokens, epoch)), Airdrop!Due
    PROVE  RunOf(call.ixs, call.invoker).ok
  <1>1. PICK a, b, f, admin, w :
          /\ a = OpenFor(drop, Airdrop!Admin) /\ b = WrapTxn(drop) /\ f = FundDropTxn(drop, epoch)
          /\ admin = Airdrop!Admin /\ w = World
    OBVIOUS
  <1>2. call.name = "create" /\ call.invoker = admin
        /\ call.ixs = CreationIxs(drop, n, tokens, epoch)
    BY <1>1 DEF IsBuilt
  <1>3. PICK ixs : ixs = call.ixs
    OBVIOUS
  <1>4. /\ drop.mint = Airdrop!NativeMint \/ AdminTokens(drop) \in DOMAIN tokens
        /\ \A i \in DOMAIN ixs : "schedule" \in DOMAIN ixs[i] =>
              Airdrop!AcceptsSchedule(ixs[i].schedule)
    <2>1. Airdrop!Holds(Airdrop!World, Airdrop!Tokens(Airdrop!Admin))
            <=> AdminTokens(drop) \in DOMAIN tokens
      BY AirSame, DropIs DEF Holds, World, AdminTokens
    <2> QED
      BY <1>2, <1>3, <2>1 DEF Airdrop!Due
  <1>5. "schedule" \in DOMAIN n
    <2>1. PICK s, closable :
            n \in {PlainCreation(drop, s, closable), ProxyCreation(drop, s, closable, accounts)}
      BY DEF CreationTxn
    <2>2. CASE n = PlainCreation(drop, s, closable)
      BY <2>2 DEF PlainCreation
    <2>3. CASE n = ProxyCreation(drop, s, closable, accounts)
      BY <2>3 DEF ProxyCreation
    <2> QED
      BY <2>1, <2>2, <2>3
  <1>6. ASSUME \E i \in DOMAIN ixs : ixs[i] = n
        PROVE  Airdrop!AcceptsSchedule(n.schedule)
    BY <1>4, <1>5, <1>6
  <1>7. ASSUME NEW u, Ready(u, AdminTokens(drop)), Airdrop!AcceptsSchedule(n.schedule),
               NEW v, v = Executed(Executed(u, n, admin), f, admin)
        PROVE  v.ok
    <2>1. v = Executed(Executed(u, n, Airdrop!Admin), FundDropTxn(drop, epoch), Airdrop!Admin)
      BY <1>1, <1>7
    <2> QED
      BY <1>7, <2>1, CreatedAndFunded
  <1>8. AdminTokens(drop) \in DOMAIN tokens => Ready(w, AdminTokens(drop))
    BY <1>1, WorldIsWorld DEF Ready, DropEnv
  <1>9. CASE drop.mint # Airdrop!NativeMint
    <2>1. ixs = <<n, f>>
      BY <1>1, <1>2, <1>3, <1>9 DEF CreationIxs
    <2>2. 1 \in DOMAIN ixs /\ ixs[1] = n
      BY <2>1
    <2>3. PICK v : v = Executed(Executed(w, n, admin), f, admin)
      OBVIOUS
    <2>4. v.ok
      BY <1>4, <1>6, <1>7, <1>8, <1>9, <2>2, <2>3
    <2> QED
      BY <1>1, <1>2, <1>3, <2>1, <2>3, <2>4, RunTwo
  <1>10. CASE drop.mint = Airdrop!NativeMint /\ AdminTokens(drop) \in DOMAIN tokens
    <2>1. ixs = <<b, n, f>>
      BY <1>1, <1>2, <1>3, <1>10 DEF CreationIxs
    <2>2. 2 \in DOMAIN ixs /\ ixs[2] = n
      BY <2>1
    <2>3. PICK u : u = Executed(w, b, admin)
      OBVIOUS
    <2>4. Ready(u, AdminTokens(drop))
      BY <1>1, <1>8, <1>10, <2>3, WrapReady
    <2>5. PICK v : v = Executed(Executed(u, n, admin), f, admin)
      OBVIOUS
    <2>6. v.ok
      BY <1>6, <1>7, <2>2, <2>4, <2>5
    <2> QED
      BY <1>1, <1>2, <1>3, <2>1, <2>3, <2>5, <2>6, RunThree
  <1>11. CASE drop.mint = Airdrop!NativeMint /\ AdminTokens(drop) \notin DOMAIN tokens
    <2>1. ixs = <<a, b, n, f>>
      BY <1>1, <1>2, <1>3, <1>11 DEF CreationIxs
    <2>2. 3 \in DOMAIN ixs /\ ixs[3] = n
      BY <2>1
    <2>3. PICK x, u : x = Executed(w, a, admin) /\ u = Executed(x, b, admin)
      OBVIOUS
    <2>4. Ready(x, AdminTokens(drop))
      BY <1>1, <1>11, <2>3, OpenReady, RecipientsAre DEF AdminTokens
    <2>5. Ready(u, AdminTokens(drop))
      BY <1>1, <2>3, <2>4, WrapReady
    <2>6. PICK v : v = Executed(Executed(u, n, admin), f, admin)
      OBVIOUS
    <2>7. v.ok
      BY <1>6, <1>7, <2>2, <2>5, <2>6
    <2> QED
      BY <1>1, <1>2, <1>3, <2>1, <2>3, <2>6, <2>7, RunFour
  <1> QED
    BY <1>4, <1>9, <1>10, <1>11

-----------------------------------------------------------------------------
LEMMA AirSucceedsAll ==
    ASSUME AirInv, program = "distributor"
    PROVE  Airdrop!AirdropCallsSucceed
  <1> SUFFICES ASSUME call.stage = "built", ~disturbed, Airdrop!Due
               PROVE  Airdrop!Outcome.ok
    BY DEF Airdrop!AirdropCallsSucceed
  <1>1. /\ IsDrop(drop) /\ DropWorld(drop, accounts, tokens) /\ now \in Nat /\ epoch \in {1, 2}
        /\ DropBuilt(drop, call, accounts, tokens, epoch)
    BY DropsAre, NowIsNat DEF AirInv, DropReading, Idle
  <1>2. Airdrop!Outcome = RunOf(call.ixs, call.invoker)
    BY DEF Airdrop!Outcome, Airdrop!Run, RunOf
  <1>3. CASE DropDist(drop) \notin DOMAIN accounts
    BY <1>1, <1>2, <1>3, DropCreateSucceeds DEF DropBuilt
  <1>4. CASE DropDist(drop) \in DOMAIN accounts
    BY <1>1, <1>2, <1>4, ClaimSucceeds, CloseSucceeds, ClawSucceeds DEF DropBuilt
  <1> QED
    BY <1>3, <1>4

(* Who may do what is asked for succeeds unless something changed after    *)
(* the client read it, whether the claim exists or not, whether token      *)
(* accounts are to be opened or SOL is to be wrapped first, for plain and  *)
(* aligned airdrops (prepareCreateInstructions, prepareClaimInstructions,  *)
(* prepareCloseClaimInstructions, prepareClawbackInstructions).            *)
THEOREM AirdropIsAccepted == Spec => []AirdropCallsSucceed
  <1>1. (program = "distributor" => AirInv) => AirdropCallsSucceed
    BY AirSucceedsAll DEF AirdropCallsSucceed
  <1> QED
    BY <1>1, AirAlways, PTL

-----------------------------------------------------------------------------
(* The inductive invariants of the three clients, together.                *)
ClientsInv ==
    /\ program \in {"distributor", "launchpad", "rewardPool"}
    /\ program = "distributor" => AirInv
    /\ program = "launchpad" => PadInv
    /\ program = "rewardPool" => FundingInv

LEMMA ClientsAlways ==
    Spec => []ClientsInv
  <1>1. Init => ClientsInv
    BY AirInit, PadInit, FundingInit DEF Init, ClientsInv
  <1>2. ASSUME ClientsInv, [Next]_vars
        PROVE  ClientsInv'
    <2>1. program' = program
      BY <1>2 DEF Next, DistributorStep, LaunchpadStep, FundingStep, vars
    <2>2. program = "distributor" => AirInv'
      BY <1>2, AirNext DEF ClientsInv
    <2>3. program = "launchpad" => PadInv'
      BY <1>2, PadNext DEF ClientsInv
    <2>4. program = "rewardPool" => FundingInv'
      BY <1>2, FundingNext DEF ClientsInv
    <2> QED
      BY <1>2, <2>1, <2>2, <2>3, <2>4 DEF ClientsInv
  <1> QED
    BY <1>1, <1>2, PTL DEF Spec

(* The end of what is built.                                               *)
EndsWell(ixs) == ixs # <<>> /\ Last(ixs).op \notin {"createAta", "wrap", "memo"}

LEMMA EndsOne ==
    ASSUME NEW l, l.op \notin Preparing
    PROVE  /\ EndsWell(<<l>>)
           /\ \A a : EndsWell(<<a, l>>)
           /\ \A a, b : EndsWell(<<a, b, l>>)
           /\ \A a, b, c : EndsWell(<<a, b, c, l>>)
  <1>1. ASSUME NEW ixs, NEW n \in Nat, n > 0, Len(ixs) = n, ixs[n] = l, ixs # <<>>
        PROVE  EndsWell(ixs)
    BY <1>1 DEF EndsWell, Last, Preparing
  <1>2. PICK n1 \in Nat, n2 \in Nat, n3 \in Nat, n4 \in Nat : n1 = 1 /\ n2 = 2 /\ n3 = 3 /\ n4 = 4
    OBVIOUS
  <1>3. EndsWell(<<l>>)
    <2>1. PICK ixs : ixs = <<l>>
      OBVIOUS
    <2>2. Len(ixs) = n1 /\ ixs[n1] = l /\ ixs # <<>> /\ n1 > 0
      BY <1>2, <2>1
    <2> QED
      BY <1>1, <2>1, <2>2
  <1>4. ASSUME NEW a
        PROVE  EndsWell(<<a, l>>)
    <2>1. PICK ixs : ixs = <<a, l>>
      OBVIOUS
    <2>2. Len(ixs) = n2 /\ ixs[n2] = l /\ ixs # <<>> /\ n2 > 0
      BY <1>2, <2>1
    <2> QED
      BY <1>1, <2>1, <2>2
  <1>5. ASSUME NEW a, NEW b
        PROVE  EndsWell(<<a, b, l>>)
    <2>1. PICK ixs : ixs = <<a, b, l>>
      OBVIOUS
    <2>2. Len(ixs) = n3 /\ ixs[n3] = l /\ ixs # <<>> /\ n3 > 0
      BY <1>2, <2>1
    <2> QED
      BY <1>1, <2>1, <2>2
  <1>6. ASSUME NEW a, NEW b, NEW c
        PROVE  EndsWell(<<a, b, c, l>>)
    <2>1. PICK ixs : ixs = <<a, b, c, l>>
      OBVIOUS
    <2>2. Len(ixs) = n4 /\ ixs[n4] = l /\ ixs # <<>> /\ n4 > 0
      BY <1>2, <2>1
    <2> QED
      BY <1>1, <2>1, <2>2
  <1> QED
    BY <1>3, <1>4, <1>5, <1>6

LEMMA AirEnds ==
    ASSUME NEW c, NEW accs, DropCall(drop, c, accs)
    PROVE  c.stage = "built" /\ EndsWell(c.ixs)
  <1>1. c.stage = "built" /\ (CreatesRun(drop, c) \/ OtherRun(drop, c))
    BY ClaimIsOther DEF DropCall
  <1>2. CASE CreatesRun(drop, c)
    <2>1. PICK a, b, n, f : /\ FundsIx(drop, f) /\ c.ixs \in {<<n, f>>, <<b, n, f>>, <<a, b, n, f>>}
      BY <1>2 DEF CreatesRun
    <2>2. f.op \notin Preparing
      BY <2>1 DEF FundsIx, Preparing
    <2> QED
      BY <1>1, <2>1, <2>2, EndsOne
  <1>3. CASE OtherRun(drop, c)
    <2>1. PICK l, a, b : l.op \notin Preparing /\ c.ixs \in {<<l>>, <<a, l>>, <<a, b, l>>}
      BY <1>3 DEF OtherRun, EndsWith
    <2> QED
      BY <1>1, <2>1, EndsOne
  <1> QED
    BY <1>1, <1>2, <1>3

LEMMA PadEnds ==
    ASSUME NEW c, PadCall(c)
    PROVE  c.stage = "built" /\ EndsWell(c.ixs)
  <1>1. CASE c.name = "deposit"
    <2>1. PICK d : DepositIx(d, c.owner) /\ c.ixs \in {<<d>>, <<Memo, d>>}
      BY <1>1 DEF PadCall
    <2>2. d.op \notin Preparing
      BY <2>1 DEF DepositIx, Preparing
    <2> QED
      BY <2>1, <2>2, EndsOne DEF PadCall
  <1>2. CASE c.name # "deposit"
    <2>1. PICK a : a.op \notin Preparing /\ c.ixs \in {<<a>>, <<OpenFunds, a>>}
      BY <1>2 DEF PadCall
    <2> QED
      BY <2>1, EndsOne DEF PadCall
  <1> QED
    BY <1>1, <1>2

LEMMA FundingEnds ==
    ASSUME NEW c, NEW a, NEW t, NEW e, c.ixs = FundingIxs(a, t, e, c.given)
    PROVE  EndsWell(c.ixs)
  <1>1. PICK f : f = FundTxn(c.given, a)
    OBVIOUS
  <1>2. f.op \notin Preparing
    BY <1>1 DEF FundTxn, Preparing
  <1>3. c.ixs \in {<<f>>, <<OpenTreasury, f>>}
    BY <1>1 DEF FundingIxs
  <1> QED
    BY <1>2, <1>3, EndsOne

(* No account is overdrawn, and what a transaction needs first comes       *)
(* before what it is for (checkOrCreateAtaBatch, prepareWrappedAccount,    *)
(* the memo of prepareDepositInstructions), for all three clients.         *)
THEOREM ClientsTypeCorrect == Spec => []TypeOK
  <1>1. ClientsInv => TypeOK
    <2> SUFFICES ASSUME ClientsInv PROVE TypeOK
      OBVIOUS
    <2>1. Idle.stage = "idle"
      BY DEF Idle
    <2>2. CASE program = "distributor"
      <3>1. now \in 1..MaxTime /\ disturbed \in BOOLEAN /\ \A a \in DOMAIN tokens : tokens[a] \in Nat
        BY <2>2 DEF ClientsInv, AirInv, DropWorld, NatTokens
      <3>2. call = Idle \/ call.stage = "reading" \/ DropCall(drop, call, accounts)
        BY <2>2 DEF ClientsInv, AirInv, DropReading
      <3> QED
        BY <2>1, <3>1, <3>2, AirEnds DEF TypeOK, EndsWell
    <2>3. CASE program = "launchpad"
      <3>1. now \in 1..MaxTime /\ disturbed \in BOOLEAN /\ \A a \in DOMAIN tokens : tokens[a] \in Nat
        BY <2>3 DEF ClientsInv, PadInv, PadWorld, NatTokens
      <3>2. call = Idle \/ PadCall(call)
        BY <2>3 DEF ClientsInv, PadInv
      <3> QED
        BY <2>1, <3>1, <3>2, PadEnds DEF TypeOK, EndsWell
    <2>4. CASE program = "rewardPool"
      <3>1. now \in 1..MaxTime /\ disturbed \in BOOLEAN /\ \A a \in DOMAIN tokens : tokens[a] \in Nat
        BY <2>4 DEF ClientsInv, FundingInv, FundingTokens, NatTokens
      <3>2. \/ call = Idle \/ call.stage = "reading"
            \/ call.stage = "built" /\ \E a, t, e : call.ixs = FundingIxs(a, t, e, call.given)
        BY <2>4 DEF ClientsInv, FundingInv, FundingCall
      <3> QED
        BY <2>1, <3>1, <3>2, FundingEnds DEF TypeOK, EndsWell
    <2> QED
      BY <2>2, <2>3, <2>4 DEF ClientsInv
  <1> QED
    BY <1>1, ClientsAlways, PTL

-----------------------------------------------------------------------------
(* The offsets of distributor and launchpad/solana/constants.ts.           *)
LEMMA DistributorFields ==
    \A key \in {"mint", "admin"} :
        FieldsAt(MerkleDistributorLayout, DistributorOffsets[key]) = {key}
  <1> DEFINE layout == MerkleDistributorLayout
  <1>1. /\ DOMAIN layout = 1..15
        /\ layout[1] = <<"bump", 1>>
        /\ layout[2] = <<"version", 8>>
        /\ layout[3] = <<"root", 32>>
        /\ layout[4] = <<"mint", 32>>
        /\ layout[5] = <<"tokenVault", 32>>
        /\ layout[6] = <<"maxTotalClaim", 8>>
        /\ layout[7] = <<"maxNumNodes", 8>>
        /\ layout[8] = <<"unlockPeriod", 8>>
        /\ layout[9] = <<"totalAmountClaimed", 8>>
        /\ layout[10] = <<"numNodesClaimed", 8>>
        /\ layout[11] = <<"startTs", 8>>
        /\ layout[12] = <<"endTs", 8>>
        /\ layout[13] = <<"clawbackStartTs", 8>>
        /\ layout[14] = <<"clawbackReceiver", 32>>
        /\ layout[15] = <<"admin", 32>>
    BY DEF MerkleDistributorLayout
  <1> HIDE DEF layout
  <1>2. IsLayout(layout)
    BY <1>1 DEF IsLayout
  <1>3. /\ StartIn(layout, 1) = 8
        /\ \A i \in 2..15 : StartIn(layout, i) = StartIn(layout, i - 1) + layout[i - 1][2]
    <2>1. PICK n \in Nat : n = 15
      OBVIOUS
    <2>2. DOMAIN layout = 1..n /\ n >= 1
      BY <1>1, <2>1
    <2>3. /\ StartIn(layout, 1) = AnchorDiscriminatorOffset
          /\ \A i \in 2..n : StartIn(layout, i) = StartIn(layout, i - 1) + layout[i - 1][2]
      BY <1>2, <2>2, StartInNext
    <2> QED
      BY <2>1, <2>3 DEF AnchorDiscriminatorOffset
  <1>4. /\ StartIn(layout, 2) = StartIn(layout, 1) + 1
        /\ StartIn(layout, 3) = StartIn(layout, 2) + 8
        /\ StartIn(layout, 4) = StartIn(layout, 3) + 32
        /\ StartIn(layout, 5) = StartIn(layout, 4) + 32
        /\ StartIn(layout, 6) = StartIn(layout, 5) + 32
        /\ StartIn(layout, 7) = StartIn(layout, 6) + 8
        /\ StartIn(layout, 8) = StartIn(layout, 7) + 8
    BY <1>1, <1>3
  <1>5. /\ StartIn(layout, 9) = StartIn(layout, 8) + 8
        /\ StartIn(layout, 10) = StartIn(layout, 9) + 8
        /\ StartIn(layout, 11) = StartIn(layout, 10) + 8
        /\ StartIn(layout, 12) = StartIn(layout, 11) + 8
        /\ StartIn(layout, 13) = StartIn(layout, 12) + 8
        /\ StartIn(layout, 14) = StartIn(layout, 13) + 8
        /\ StartIn(layout, 15) = StartIn(layout, 14) + 32
    BY <1>1, <1>3
  <1>6. /\ StartIn(layout, 1) = 8 /\ StartIn(layout, 2) = 9 /\ StartIn(layout, 3) = 17
        /\ StartIn(layout, 4) = 49 /\ StartIn(layout, 5) = 81 /\ StartIn(layout, 6) = 113
        /\ StartIn(layout, 7) = 121 /\ StartIn(layout, 8) = 129 /\ StartIn(layout, 9) = 137
        /\ StartIn(layout, 10) = 145 /\ StartIn(layout, 11) = 153 /\ StartIn(layout, 12) = 161
        /\ StartIn(layout, 13) = 169 /\ StartIn(layout, 14) = 177 /\ StartIn(layout, 15) = 209
    BY <1>3, <1>4, <1>5
  <1>7. DistributorOffsets["mint"] = 49 /\ DistributorOffsets["admin"] = 209
    BY DEF DistributorOffsets, AnchorDiscriminatorOffset
  <1>8. \A i \in 1..15 : i \in {1, 2, 3, 4, 5, 6, 7, 8, 9, 10, 11, 12, 13, 14, 15}
    OBVIOUS
  <1>9. \A i \in 1..15 : (StartIn(layout, i) = 49 <=> i = 4) /\ (StartIn(layout, i) = 209 <=> i = 15)
    BY <1>6, <1>8
  <1>10. {k \in DOMAIN layout : StartIn(layout, k) = 49} = {4}
         /\ {k \in DOMAIN layout : StartIn(layout, k) = 209} = {15}
    BY <1>1, <1>9
  <1>11. FieldsAt(layout, 49) = {"mint"} /\ FieldsAt(layout, 209) = {"admin"}
    BY <1>1, <1>10 DEF FieldsAt
  <1> QED
    BY <1>7, <1>11 DEF layout

LEMMA LaunchpadFields ==
    FieldsAt(LaunchpadLayout, LaunchpadOffsets["baseMint"]) = {"baseMint"}
  <1> DEFINE layout == LaunchpadLayout
  <1>1. /\ DOMAIN layout = 1..5
        /\ layout[1] = <<"bump", 1>>
        /\ layout[2] = <<"nonce", 1>>
        /\ layout[3] = <<"filler", 6>>
        /\ layout[4] = <<"baseMint", 32>>
        /\ layout[5] = <<"quoteMint", 32>>
    BY DEF LaunchpadLayout
  <1> HIDE DEF layout
  <1>2. IsLayout(layout)
    BY <1>1 DEF IsLayout
  <1>3. /\ StartIn(layout, 1) = 8
        /\ \A i \in 2..5 : StartIn(layout, i) = StartIn(layout, i - 1) + layout[i - 1][2]
    <2>1. PICK n \in Nat : n = 5
      OBVIOUS
    <2>2. DOMAIN layout = 1..n /\ n >= 1
      BY <1>1, <2>1
    <2>3. /\ StartIn(layout, 1) = AnchorDiscriminatorOffset
          /\ \A i \in 2..n : StartIn(layout, i) = StartIn(layout, i - 1) + layout[i - 1][2]
      BY <1>2, <2>2, StartInNext
    <2> QED
      BY <2>1, <2>3 DEF AnchorDiscriminatorOffset
  <1>4. /\ StartIn(layout, 2) = StartIn(layout, 1) + 1
        /\ StartIn(layout, 3) = StartIn(layout, 2) + 1
        /\ StartIn(layout, 4) = StartIn(layout, 3) + 6
        /\ StartIn(layout, 5) = StartIn(layout, 4) + 32
    BY <1>1, <1>3
  <1>5. /\ StartIn(layout, 1) = 8 /\ StartIn(layout, 2) = 9 /\ StartIn(layout, 3) = 10
        /\ StartIn(layout, 4) = 16 /\ StartIn(layout, 5) = 48
    BY <1>3, <1>4
  <1>6. LaunchpadOffsets["baseMint"] = 16
    BY DEF LaunchpadOffsets, AnchorDiscriminatorOffset
  <1>7. FieldsAt(layout, 16) = {"baseMint"}
    BY <1>1, <1>5 DEF FieldsAt
  <1> QED
    BY <1>6, <1>7 DEF layout

(* Which accounts there are, by the first seed of their addresses.         *)
LEMMA FirstSeeds ==
    /\ DropDist(drop)[1] # "launchpad" /\ DropProxy(drop)[1] \notin {"MerkleDistributor", "launchpad"}
    /\ \A r : DropStatus(drop, r)[1] \notin {"MerkleDistributor", "launchpad"}
    /\ Pads!Pad[1] # "MerkleDistributor"
    /\ \A o : /\ DepositFor(o)[1] \notin {"MerkleDistributor", "launchpad"}
              /\ StreamOf(o)[1] \notin {"MerkleDistributor", "launchpad"}
    /\ \A a \in {Funding!Pool, Funding!ConfigPDA, Funding!OwnFee} :
         a[1] \notin {"MerkleDistributor", "launchpad"}
  BY DEF DropDist, DropProxy, DropStatus, Airdrop!DistributorPDA, Airdrop!AlignedDistributorPDA,
         Airdrop!ClaimStatusPDA, Pads!Pad, Pads!LaunchpadPDA, DepositFor, Pads!DepositPDA, StreamOf,
         Funding!Pool, Funding!RewardPoolPDA, Funding!ConfigPDA, Funding!OwnFee,
         Funding!FeeValuePDA

LEMMA DropsFound ==
    ASSUME DropAccounts(drop, accounts)
    PROVE  /\ \A c \in Contents("MerkleDistributor") : {"mint", "admin"} \subseteq DOMAIN c
           /\ Contents("launchpad") = {}
  <1>1. \A a \in DOMAIN accounts : \/ a \in {DropDist(drop), DropProxy(drop)}
                                   \/ \E r \in DOMAIN drop.leaves : a = DropStatus(drop, r)
    BY DEF DropAccounts
  <1>2. \A a \in DOMAIN accounts : a[1] # "launchpad" /\ (a[1] = "MerkleDistributor" => a = DropDist(drop))
    BY <1>1, FirstSeeds
  <1>3. DropDist(drop) \in DOMAIN accounts => {"mint", "admin"} \subseteq DOMAIN accounts[DropDist(drop)]
    BY DEF DropAccounts, IsDistributor
  <1> QED
    BY <1>2, <1>3 DEF Contents

LEMMA PadsFound ==
    ASSUME PadWorld(accounts, tokens, paidFor, now)
    PROVE  /\ \A c \in Contents("launchpad") : {"baseMint"} \subseteq DOMAIN c
           /\ Contents("MerkleDistributor") = {}
  <1>1. \A a \in DOMAIN accounts : \/ a = Pads!Pad
                                   \/ \E o \in Depositors : a = DepositFor(o) \/ a = StreamOf(o)
    BY DEF PadWorld
  <1>2. \A a \in DOMAIN accounts : a[1] # "MerkleDistributor" /\ (a[1] = "launchpad" => a = Pads!Pad)
    BY <1>1, FirstSeeds
  <1>3. Pads!Pad \in DOMAIN accounts => {"baseMint"} \subseteq DOMAIN accounts[Pads!Pad]
    BY DEF PadWorld, IsPad
  <1> QED
    BY <1>2, <1>3 DEF Contents

LEMMA PoolsFound ==
    ASSUME FundingAccounts(accounts)
    PROVE  Contents("launchpad") = {} /\ Contents("MerkleDistributor") = {}
  <1>1. \A a \in DOMAIN accounts : a[1] \notin {"MerkleDistributor", "launchpad"}
    BY FirstSeeds DEF FundingAccounts
  <1> QED
    BY <1>1 DEF Contents

(* searchDistributors and searchLaunchpads find exactly what holds what is *)
(* searched for: the offsets are where the fields start in the layouts of  *)
(* the descriptors, whatever the accounts contain.                         *)
THEOREM ClientSearchesFind == Spec => []SearchesFind
  <1>1. ClientsInv => SearchesFind
    <2> SUFFICES ASSUME ClientsInv PROVE SearchesFind
      OBVIOUS
    <2>1. /\ \A c \in Contents("MerkleDistributor") : {"mint", "admin"} \subseteq DOMAIN c
          /\ \A c \in Contents("launchpad") : {"baseMint"} \subseteq DOMAIN c
      <3>1. CASE program = "distributor"
        <4>1. DropAccounts(drop, accounts)
          BY <3>1 DEF ClientsInv, AirInv, DropWorld
        <4> QED
          BY <4>1, DropsFound
      <3>2. CASE program = "launchpad"
        <4>1. PadWorld(accounts, tokens, paidFor, now)
          BY <3>2 DEF ClientsInv, PadInv
        <4> QED
          BY <4>1, PadsFound
      <3>3. CASE program = "rewardPool"
        <4>1. FundingAccounts(accounts)
          BY <3>3 DEF ClientsInv, FundingInv
        <4> QED
          BY <4>1, PoolsFound
      <3> QED
        BY <3>1, <3>2, <3>3 DEF ClientsInv
    <2>2. SearchFinds(Contents("MerkleDistributor"), MerkleDistributorLayout, DistributorOffsets,
                      {"mint", "admin"})
      BY <2>1, DistributorFields, FieldsFindThem
    <2>3. SearchFinds(Contents("launchpad"), LaunchpadLayout, LaunchpadOffsets, {"baseMint"})
      <3>1. \A key \in {"baseMint"} : FieldsAt(LaunchpadLayout, LaunchpadOffsets[key]) = {key}
        BY LaunchpadFields
      <3> QED
        BY <2>1, <3>1, FieldsFindThem
    <2> QED
      BY <2>2, <2>3 DEF SearchesFind
  <1> QED
    BY <1>1, ClientsAlways, PTL
=============================================================================
