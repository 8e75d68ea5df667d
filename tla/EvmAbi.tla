------------------------------- MODULE EvmAbi -------------------------------
(***************************************************************************)
(* The interface of the EVM contract: the order in which abi.ts names the  *)
(* arguments of its functions, the arguments evm/StreamClient.ts passes by *)
(* position, and the stream that evm/types.ts makes of what the contract   *)
(* returns.  A definition that no other uses is a plausible slip in the    *)
(* definition that follows it.                                             *)
(***************************************************************************)
EXTENDS Naturals, Sequences, Functions

Unset == "unset" \* an optional parameter the caller leaves out

OrElse(value, default) == IF value = Unset THEN default ELSE value

(* abi.ts *)
CreateInputs ==
    <<"token", "amount", "period", "amount_per_period", "start", "cliff_amount", "meta",
      "recipient", "partner">>

MetaInputs ==
    <<"cancelable_by_sender", "cancelable_by_recipient", "transferable_by_sender",
      "transferable_by_recipient", "can_topup", "pausable", "can_update_rate",
      "automatic_withdrawal", "withdrawal_frequency", "contract_name">>

FeeInputs ==
    <<"amount", "period", "amount_per_period", "start", "cliff_amount",
      "automatic_withdrawal", "withdrawal_frequency">>

Named(names, values) ==
    [n \in Range(names) |-> values[CHOOSE i \in DOMAIN names : names[i] = n]]

-----------------------------------------------------------------------------
MetaOf(config, recipient) ==
    <<config.cancelableBySender, config.cancelableByRecipient, config.transferableBySender,
      config.transferableByRecipient, config.canTopup, OrElse(config.canPause, "false"),
      OrElse(config.canUpdateRate, "false"), OrElse(config.automaticWithdrawal, "false"),
      OrElse(config.withdrawalFrequency, "0"), recipient.name>>

(* generateMultiPayloads *)
PayloadByCliff(config, recipient, sender) ==
    <<config.tokenId, recipient.amount, config.period, recipient.cliffAmount, config.start,
      recipient.amountPerPeriod, MetaOf(config, recipient), recipient.recipient,
      OrElse(config.partner, sender)>>

Payload(config, recipient, sender) ==
    <<config.tokenId, recipient.amount, config.period, recipient.amountPerPeriod, config.start,
      recipient.cliffAmount, MetaOf(config, recipient), recipient.recipient,
      OrElse(config.partner, sender)>>

(* getFeeParams: the first recipient stands for all of them.               *)
FeeParams(config, recipients) ==
    <<recipients[1].amount, config.period, recipients[1].amountPerPeriod, config.start,
      recipients[1].cliffAmount, OrElse(config.automaticWithdrawal, "false"),
      OrElse(config.withdrawalFrequency, "0")>>

-----------------------------------------------------------------------------
(* The contract: what create stores under the names of its arguments, and  *)
(* what getWithdrawalFees asks, which grows with the time a stream lasts.  *)
Stored(args, sender) ==
    LET input == Named(CreateInputs, args) IN
    [n \in DOMAIN input \cup {"sender"} |->
        CASE n = "meta"   -> Named(MetaInputs, input.meta)
          [] n = "sender" -> sender
          [] OTHER        -> input[n]]

WithdrawalFee(input) == (input.amount - input.cliff_amount) \div input.amount_per_period

(* The constructor of EvmContract; streams without a cliff of their own    *)
(* start with it.                                                          *)
EvmContract(s) ==
    [mint |-> s.token, sender |-> s.sender, recipient |-> s.recipient,
     start |-> s.start, cliff |-> s.start, period |-> s.period,
     depositedAmount |-> s.amount, amountPerPeriod |-> s.amount_per_period,
     cliffAmount |-> s.cliff_amount, name |-> s.meta.contract_name,
     cancelableBySender |-> s.meta.cancelable_by_sender,
     cancelableByRecipient |-> s.meta.cancelable_by_recipient,
     transferableBySender |-> s.meta.transferable_by_sender,
     transferableByRecipient |-> s.meta.transferable_by_recipient,
     canTopup |-> s.meta.can_topup, automaticWithdrawal |-> s.meta.automatic_withdrawal,
     withdrawalFrequency |-> s.meta.withdrawal_frequency]

(* The stream a request asks for, as getOne should show it.                *)
Asked(config, recipient, sender) ==
    [mint |-> config.tokenId, sender |-> sender, recipient |-> recipient.recipient,
     start |-> config.start, cliff |-> config.start, period |-> config.period,
     depositedAmount |-> recipient.amount, amountPerPeriod |-> recipient.amountPerPeriod,
     cliffAmount |-> recipient.cliffAmount, name |-> recipient.name,
     cancelableBySender |-> config.cancelableBySender,
     cancelableByRecipient |-> config.cancelableByRecipient,
     transferableBySender |-> config.transferableBySender,
     transferableByRecipient |-> config.transferableByRecipient,
     canTopup |-> config.canTopup,
     automaticWithdrawal |-> OrElse(config.automaticWithdrawal, "false"),
     withdrawalFrequency |-> OrElse(config.withdrawalFrequency, "0")]
=============================================================================
