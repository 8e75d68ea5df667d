--------------------------- MODULE MCChainClients ---------------------------
(* Instances of ChainClients for model checking.                           *)
EXTENDS ChainClients

Recipient(r, amount, amountPerPeriod, cliffAmount) ==
    [recipient |-> r, name |-> r, amount |-> amount, amountPerPeriod |-> amountPerPeriod,
     cliffAmount |-> cliffAmount]

(* Streams of 4, 4 and 6 periods.                                          *)
Ann == Recipient("ann", 5, 1, 1)
Ben == Recipient("ben", 15, 3, 2)
Cat == Recipient("cat", 15, 2, 3)

MCBatch == <<Ann, Ben, Cat>>

Op(kind, items) == [kind |-> kind, items |-> items]

MCOperations ==
    { Op("createMultiple", <<Ann, Ben>>), Op("createMultiple", <<Ann, Cat>>),
      Op("create", <<Cat>>), Op("topup", <<[amount |-> 15]>>), Op("interact", <<[amount |-> 0]>>) }

MCConfig ==
    [tokenId |-> "token", period |-> "period", start |-> "start",
     cancelableBySender |-> "flag1", cancelableByRecipient |-> "flag2",
     transferableBySender |-> "flag3", transferableByRecipient |-> "flag4",
     canTopup |-> "flag5", canPause |-> "unset", canUpdateRate |-> "flag6",
     automaticWithdrawal |-> "unset", withdrawalFrequency |-> "frequency",
     partner |-> "unset"]
=============================================================================
