--------------------------- MODULE RewardFunding ---------------------------
(***************************************************************************)
(* fundPool of SolanaStakingClient (staking/solana/client.ts): the reward  *)
(* pool program charges the fee of the fee manager program, whose manager  *)
(* changes it at any time.  The client reads the fee of the funder, then   *)
(* the token account of the treasury.  The programs are not part of the    *)
(* repository.  A definition that nothing uses is a plausible slip in the  *)
(* definition that follows it.                                             *)
(***************************************************************************)
EXTENDS ClientCalls, StakingPrograms

CONSTANTS
    FeeValues, \* values of streamflowFee
    FundBound  \* bound: nobody funds a pool that holds as much

vars == <<now, accounts, tokens, call, disturbed>>

Manager == <<"manager">>
Funder == <<"ann">>
Treasury == <<"treasury">>
RewardMint == <<"reward">>
Pool == RewardPoolPDA(<<"pool">>, RewardMint, 0)
Vault == RewardVaultPDA(Pool)
OwnFee == FeeValuePDA(Funder)

Init ==
    /\ now = 1 /\ call = Idle /\ disturbed = FALSE
    /\ \E fee \in FeeValues :
         accounts = [a \in {Pool, ConfigPDA} |->
                       IF a = Pool THEN [mint |-> RewardMint, vault |-> Vault]
                       ELSE [authority |-> Manager, streamflowFee |-> fee]]
    /\ tokens = [a \in {Vault, TokenAccount(RewardMint, Funder)} |-> 0]

-----------------------------------------------------------------------------
(* The reward pool program: a fee, if there is one, goes to the treasury.  *)
FundingFee(w, a) ==
    w.accounts[IF "feeValue" \in DOMAIN a THEN a.feeValue ELSE a.config].streamflowFee

Allowed(w, ix, invoker) ==
    CASE ix.op = "createAta" -> ~Holds(w, ix.account)
      [] ix.op = "fundPool" ->
           LET a == ix.accounts IN
           /\ Accepts(IF "feeValue" \in DOMAIN a THEN FundPoolWithFeeIx ELSE FundPoolIx,
                      a, <<>>, w.accounts, invoker)
           /\ Holds(w, a.from)
           /\ "feeValue" \in DOMAIN a => Exists(w, a.feeValue)
           /\ FundingFee(w, a) > 0 => Holds(w, a.streamflowTreasuryTokens)

Effect(w, ix, invoker) ==
    IF ix.op = "createAta" THEN Opened(w, ix.account)
    ELSE Moved(w, ix.accounts.vault, -1)

-----------------------------------------------------------------------------
(* The client.  `given` says whether the caller names its fee value.       *)
TreasuryIfOwnFee(existing) == existing # <<>> /\ existing[1] > 0

TreasuryNeeded(existing) == existing = <<>> \/ existing[1] > 0

FundPoolIxs(existing, given) ==
    LET named == [funder |-> Funder, rewardPool |-> Pool, vault |-> Vault,
                  from |-> TokenAccount(RewardMint, Funder), mint |-> RewardMint,
                  streamflowTreasury |-> Treasury]
    IN  (IF TreasuryNeeded(existing) THEN EnsureAta(Treasury, RewardMint) ELSE <<>>)
        \o << [op |-> "fundPool",
               accounts |-> IF given THEN Completed(FundPoolWithFeeIx, named, <<>>, accounts)
                            ELSE Completed(FundPoolIx, named, <<>>, accounts)] >>

(* getFeeValueIfExists *)
ReadFee(given) ==
    /\ tokens[Vault] < FundBound
    /\ Begin([stage |-> "reading", given |-> given,
              existing |-> IF OwnFee \in DOMAIN accounts
                           THEN << accounts[OwnFee].streamflowFee >> ELSE <<>>])

BuildFunding ==
    /\ call.stage = "reading"
    /\ Continue(Merged(Built("fundPool", Funder, FundPoolIxs(call.existing, call.given)),
                       [given |-> call.given]))

Outcome == Execute(call.ixs, call.invoker, Allowed, Effect)

Land == call.stage = "built" /\ LandWith(Outcome)

-----------------------------------------------------------------------------
(* The fee manager program.                                                *)
FeeAccounts == Completed(FeeIx, [authority |-> Manager, target |-> Funder], <<>>, accounts)

ManagerMay == Accepts(FeeIx, FeeAccounts, <<>>, accounts, accounts[ConfigPDA].authority)

WriteFee(fee) ==
    /\ ManagerMay
    /\ accounts' = Stored(accounts, FeeAccounts.feeValue, [streamflowFee |-> fee])
    /\ Disturb /\ UNCHANGED <<now, tokens>>

RemoveFee ==
    /\ ManagerMay /\ FeeAccounts.feeValue \in DOMAIN accounts
    /\ accounts' = [a \in DOMAIN accounts \ {FeeAccounts.feeValue} |-> accounts[a]]
    /\ Disturb /\ UNCHANGED <<now, tokens>>

UpdateConfig(fee) ==
    /\ ManagerMay
    /\ accounts' = [accounts EXCEPT ![ConfigPDA].streamflowFee = fee]
    /\ Disturb /\ UNCHANGED <<now, tokens>>

Next ==
    \/ (\E given \in BOOLEAN : ReadFee(given)) \/ BuildFunding \/ Land
    \/ (\E fee \in FeeValues : WriteFee(fee) \/ UpdateConfig(fee)) \/ RemoveFee
    \/ \E owner \in {Funder, Treasury} :
         \/ OpenAccount(TokenAccount(RewardMint, owner))
         \/ CloseAccount(TokenAccount(RewardMint, owner))

Spec == Init /\ [][Next]_vars

-----------------------------------------------------------------------------
(* prepareFundPoolInstructions: unless something changed after the client  *)
(* read it, the program accepts the transaction of every funder who names  *)
(* its fee value if and only if it has one, whatever the fees are and      *)
(* whether the treasury has a token account.                               *)
FundingSucceeds ==
    call.stage = "built" /\ ~disturbed
    /\ (call.given <=> OwnFee \in DOMAIN accounts)
    /\ TokenAccount(RewardMint, Funder) \in DOMAIN tokens
        => Outcome.ok
=============================================================================
