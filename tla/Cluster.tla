------------------------------ MODULE Cluster ------------------------------
(***************************************************************************)
(* The Solana cluster and its RPC nodes, as far as common/solana/utils.ts  *)
(* can observe them.  Nothing here is code of the repository: the module   *)
(* is the environment of TxExecutor and is modelled from the answers that  *)
(* sendAndConfirmTransaction and confirmAndEnsureTransaction react to.     *)
(*                                                                         *)
(* A block height exists per commitment level.  A transaction lands in a   *)
(* block of the processed tip, and has reached a level once the tip of     *)
(* that level has passed its block.  Blocks that are not yet confirmed may *)
(* be abandoned with the fork they are on.  An RPC node answers from a     *)
(* view that may trail the cluster by up to MaxLag blocks.                 *)
(***************************************************************************)
EXTENDS Naturals, FiniteSets

CONSTANTS
    Tx,          \* the signed transactions being executed
    StartHeight, \* block height at which their common blockhash was fetched
    LastValid,   \* hash.lastValidBlockHeight
    MaxHeight,   \* bound on the processed tip
    MaxLag,      \* bound on how far an RPC node trails the cluster
    Faults       \* the kinds of failure the environment may produce

FaultKinds == {"simulate", "height", "send", "status", "fork"}

ASSUME ClusterAssumption ==
    /\ IsFiniteSet(Tx)
    /\ StartHeight \in Nat /\ LastValid \in Nat
    /\ MaxHeight \in Nat /\ MaxLag \in Nat
    /\ StartHeight <= MaxHeight
    /\ Faults \subseteq FaultKinds

VARIABLES
    tip,      \* block height of the cluster at every commitment level
    pool,     \* transactions of which some copy is on its way to a leader
    landedAt, \* height of the block that holds a transaction, 0 if none does
    failed    \* whether that block recorded an error for it

clusterVars == <<tip, pool, landedAt, failed>>

Level == {"processed", "confirmed", "finalized"}

ClusterTypeOK ==
    /\ tip \in [Level -> Nat]
    /\ pool \subseteq Tx
    /\ landedAt \in [Tx -> Nat]
    /\ failed \in [Tx -> BOOLEAN]

ClusterInit ==
    /\ tip = [l \in Level |-> StartHeight]
    /\ pool = {}
    /\ landedAt = [t \in Tx |-> 0]
    /\ failed = [t \in Tx |-> FALSE]

(* A level never overtakes the weaker level before it. *)
Room(l) ==
    CASE l = "processed" -> MaxHeight
      [] l = "confirmed" -> tip["processed"]
      [] l = "finalized" -> tip["confirmed"]

Advance(l) ==
    /\ tip[l] < Room(l)
    /\ tip' = [tip EXCEPT ![l] = @ + 1]
    /\ UNCHANGED <<pool, landedAt, failed>>

(* The block at the processed tip takes up t.  A blockhash is accepted up   *)
(* to its last valid height and a signature only once per fork.             *)
Land(t) ==
    /\ t \in pool
    /\ landedAt[t] = 0
    /\ tip["confirmed"] < tip["processed"]
    /\ tip["processed"] <= LastValid
    /\ landedAt' = [landedAt EXCEPT ![t] = tip["processed"]]
    /\ \E e \in BOOLEAN : failed' = [failed EXCEPT ![t] = e]
    /\ UNCHANGED <<tip, pool>>

(* The fork that holds t is abandoned: t is free to land again.             *)
Abandon(t) ==
    /\ "fork" \in Faults
    /\ landedAt[t] > tip["confirmed"]
    /\ landedAt' = [landedAt EXCEPT ![t] = 0]
    /\ failed' = [failed EXCEPT ![t] = FALSE]
    /\ UNCHANGED <<tip, pool>>

ClusterStep ==
    \/ \E l \in Level : Advance(l)
    \/ \E t \in Tx : Land(t) \/ Abandon(t)

(* Block height of level l on a node that trails the cluster by lag blocks. *)
Seen(l, lag) == IF lag <= tip[l] THEN tip[l] - lag ELSE 0

(* t has reached level l as far as that node knows. *)
Reached(t, l, lag) == landedAt[t] # 0 /\ landedAt[t] <= Seen(l, lag)
=============================================================================
