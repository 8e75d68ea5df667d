---------------------------- MODULE ClientCalls ----------------------------
(***************************************************************************)
(* A call of a Solana client: it reads accounts, builds a transaction from *)
(* what it read, and the transaction lands later (prepareTransaction and   *)
(* signAndExecuteTransaction of common/solana/utils.ts).  One call is      *)
(* followed step by step; whole calls of others and token accounts that    *)
(* come and go may lie in between.  The modules of the packages say what   *)
(* is built and what the programs do.                                      *)
(***************************************************************************)
EXTENDS AnchorAccounts, SequencesExt, TLC

CONSTANT MaxTime \* bound of the clock

VARIABLES
    now,
    accounts, \* address -> contents of the accounts of the programs
    tokens,   \* token account -> balance; that of wallets is left at 0
    call,     \* the call that is followed
    disturbed \* something changed since its first read

Idle == [stage |-> "idle"]

Built(name, invoker, ixs) ==
    [stage |-> "built", name |-> name, invoker |-> invoker, ixs |-> ixs]

(* What a transaction works on; `done` are the operations of the           *)
(* instructions before.                                                    *)
World == [ok |-> TRUE, accounts |-> accounts, tokens |-> tokens, done |-> {}]
Exists(w, a) == a \in DOMAIN w.accounts
Holds(w, a) == a \in DOMAIN w.tokens
Opened(w, a) == [w EXCEPT !.tokens = Stored(@, a, IF a \in DOMAIN @ THEN @[a] ELSE 0)]
Moved(w, from, amount) == [w EXCEPT !.tokens[from] = @ - amount]

(* All instructions of a transaction take effect or none.                  *)
Execute(ixs, invoker, Allowed(_, _, _), Effect(_, _, _)) ==
    FoldLeft(LAMBDA w, ix : IF w.ok /\ Allowed(w, ix, invoker)
                            THEN [Effect(w, ix, invoker) EXCEPT !.done = @ \cup {ix.op}]
                            ELSE [w EXCEPT !.ok = FALSE],
             World, ixs)

(* checkOrCreateAtaBatch for one owner: an instruction that fails when the *)
(* account exists, unless the account was seen.                            *)
CreateAta(owner, mint) == [op |-> "createAta", account |-> TokenAccount(mint, owner)]

EnsureAta(owner, mint) ==
    IF TokenAccount(mint, owner) \in DOMAIN tokens THEN <<>> ELSE << CreateAta(owner, mint) >>

Prepare(op, names, keys) == [op |-> op, accounts |-> AsRead(names, keys)]

CallsInit ==
    /\ now = 1
    /\ accounts = <<>>
    /\ call = Idle
    /\ disturbed = FALSE

-----------------------------------------------------------------------------
Begin(c) ==
    /\ call = Idle
    /\ call' = c
    /\ disturbed' = FALSE
    /\ UNCHANGED <<now, accounts, tokens>>

(* A later read of the call.                                               *)
Continue(c) == call' = c /\ UNCHANGED <<now, accounts, tokens, disturbed>>

TakesEffect(w) ==
    /\ w.ok
    /\ accounts' = w.accounts /\ tokens' = w.tokens
    /\ UNCHANGED now

(* The transaction takes effect or fails.                                  *)
LandWith(w) ==
    /\ \/ TakesEffect(w)
       \/ ~w.ok /\ UNCHANGED <<now, accounts, tokens>>
    /\ call' = Idle
    /\ UNCHANGED disturbed

(* Something else changes what the call may have read.                     *)
Disturb == disturbed' = (call # Idle) /\ UNCHANGED call

OpenAccount(a) ==
    /\ a \notin DOMAIN tokens
    /\ tokens' = Stored(tokens, a, 0)
    /\ Disturb /\ UNCHANGED <<now, accounts>>

CloseAccount(a) ==
    /\ a \in DOMAIN tokens
    /\ tokens' = [b \in DOMAIN tokens \ {a} |-> tokens[b]]
    /\ Disturb /\ UNCHANGED <<now, accounts>>

Tick ==
    /\ now < MaxTime
    /\ now' = now + 1
    /\ UNCHANGED <<accounts, tokens, call, disturbed>>
=============================================================================
