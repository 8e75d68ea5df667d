----------------------------- MODULE MCStreams -----------------------------
(* Instances of Streams for model checking.                                *)
EXTENDS Streams

Alice == <<"alice">>
Bob == <<"bob">>

Shape(cliffAmount, amountPerPeriod, period, canTopup, flags) ==
    [cliff |-> 2, cliffAmount |-> cliffAmount, deposited |-> 3,
     amountPerPeriod |-> amountPerPeriod, period |-> period,
     canTopup |-> canTopup, automaticWithdrawal |-> FALSE, canUpdateRate |-> flags,
     cancelableBySender |-> flags, cancelableByRecipient |-> flags,
     transferableBySender |-> flags, transferableByRecipient |-> flags]

(* A vesting stream, a lock, a payment.                                    *)
MCShapes ==
    { Shape(1, 1, 2, FALSE, TRUE), Shape(2, 1, 1, FALSE, FALSE), Shape(2, 1, 1, TRUE, TRUE),
      Shape(0, 1, 1, FALSE, FALSE) }

(* A dynamic lock and a dynamic vesting.                                   *)
MCPrices ==
    { [minPrice |-> 1, maxPrice |-> 2, minPercentage |-> 0, maxPercentage |-> 100],
      [minPrice |-> 1, maxPrice |-> 3, minPercentage |-> 0, maxPercentage |-> 100] }

MCSenders == {Alice}
MCRecipients == {Alice, Bob}
MCPartners == {Bob, Withdrawor}
MCIds == {<<"stream">>}

MCQueries ==
    {q \in [address : {Alice, Bob}, type : {"all", "vesting", "lock"},
            direction : {"all", "incoming", "outgoing"}] :
        q.type = "vesting" \/ q.direction = "all"}
=============================================================================
