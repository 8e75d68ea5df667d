--------------------------- MODULE AnchorAccounts ---------------------------
(***************************************************************************)
(* The accounts of an instruction: how its descriptor says that each is    *)
(* determined, how the Anchor client library completes the accounts that a *)
(* caller names, and what a program accepts.  An address is the tuple it   *)
(* is derived from.  An instruction is a function from the names of its    *)
(* accounts; the programs that are part of every instruction (token,       *)
(* system, rent) are left out.                                             *)
(***************************************************************************)
EXTENDS Naturals, Sequences

(* How an account of an instruction is determined: named by the caller,    *)
(* a signer, derived from seeds, the token account of another account, or  *)
(* a field of the accounts it relates to.                                  *)
Named == [by |-> "name"]
Signer == [by |-> "name", signs |-> TRUE]
Seeds(prefix, path) == [by |-> "seeds", prefix |-> prefix, path |-> path]
TokensOf(owner) == [by |-> "tokens", owner |-> owner]
FieldOf(accs) == [by |-> "relations", of |-> accs]
SignerOf(accs) == [by |-> "relations", of |-> accs, signs |-> TRUE]

(* getAssociatedTokenAddressSync *)
TokenAccount(mint, owner) == <<"ata", owner, mint>>

(* stream/solana/lib/derive-accounts.ts, which several packages use.       *)
ContractPDA(streamMetadata) == <<"contract", streamMetadata>>
EscrowPDA(streamMetadata) == <<"strm", streamMetadata>>
TestOraclePDA(mint, creator) == <<"test-oracle", mint, creator>>

(* Anchor completes the accounts a caller names: from the arguments, the   *)
(* seeds and the data of the accounts they relate to.                      *)
Missing == <<"missing">>

Seeded(how, addr, args) ==
    <<how.prefix>> \o [i \in DOMAIN how.path |->
        IF how.path[i] \in DOMAIN args THEN args[how.path[i]] ELSE addr[how.path[i]]]

Resolved(ix, given, args, accounts, addr, name) ==
    LET how == ix[name] IN
    CASE name \in DOMAIN given -> given[name]
      [] name \notin DOMAIN given /\ how.by = "seeds" -> Seeded(how, addr, args)
      [] name \notin DOMAIN given /\ how.by = "tokens" ->
            TokenAccount(addr["mint"], addr[how.owner])
      [] name \notin DOMAIN given /\ how.by = "relations" ->
            LET source == addr[CHOOSE a \in how.of : TRUE] IN
            IF source \in DOMAIN accounts THEN accounts[source][name] ELSE Missing

Completed(ix, given, args, accounts) ==
    LET addr[name \in DOMAIN ix] == Resolved(ix, given, args, accounts, addr, name)
    IN  addr

(* The accounts with one that an instruction creates.                      *)
Stored(accounts, address, contents) ==
    [a \in DOMAIN accounts \cup {address} |->
        IF a = address THEN contents ELSE accounts[a]]

(* The fields of both records.                                             *)
Merged(f, g) ==
    [x \in DOMAIN f \cup DOMAIN g |-> IF x \in DOMAIN f THEN f[x] ELSE g[x]]

(* The accounts by name, as the program finds them by position.            *)
AsRead(names, keys) ==
    [n \in {names[i] : i \in DOMAIN names} |->
        keys[CHOOSE i \in DOMAIN names : names[i] = n]]

(* The program accepts accounts that agree with its seeds and relations,   *)
(* signed by the invoker, the only signer the client has.                  *)
Accepts(ix, addr, args, accounts, invoker) ==
    \A name \in DOMAIN ix :
        LET how == ix[name] IN
        /\ addr[name] # Missing
        /\ "signs" \in DOMAIN how => addr[name] = invoker
        /\ how.by = "seeds" => addr[name] = Seeded(how, addr, args)
        /\ how.by = "tokens" => addr[name] = TokenAccount(addr["mint"], addr[how.owner])
        /\ how.by = "relations" =>
             \A a \in how.of : /\ addr[a] \in DOMAIN accounts
                               /\ accounts[addr[a]][name] = addr[name]
=============================================================================
