-------------------------- MODULE MCProgramClients --------------------------
(* Instances of ProgramClients for model checking.                         *)
EXTENDS ProgramClients

Leaf(unlocked, locked) == [unlocked |-> unlocked, locked |-> locked]
Fee(rate, max) == [rate |-> rate, max |-> max]

(* A token with a fee whose limit changes with the epoch, and SOL.         *)
MCDrops ==
    { [mint |-> <<"token">>, fees |-> <<Fee(3, 9), Fee(3, 1)>>,
       leaves |-> <<"ann">> :> Leaf(1, 6)],
      [mint |-> <<"native">>, fees |-> <<Fee(0, 0), Fee(0, 0)>>,
       leaves |-> <<"ann">> :> Leaf(1, 0) @@ <<"ben">> :> Leaf(2, 0)] }

Schedule(start, end, period, clawback) ==
    [start |-> start, end |-> end, period |-> period, clawback |-> clawback]

(* From the creation on, later, and one the client refuses.                *)
MCSchedules == {Schedule(0, 4, 1, 3), Schedule(2, 4, 2, 3), Schedule(2, 4, 3, 3)}
MCClosable == {<<TRUE, TRUE>>}

Offer(memo, oracleType) ==
    [depositingStart |-> 2, depositingEnd |-> 3, vestingStart |-> 4, price |-> 2,
     individualCap |-> 4, maxCap |-> 5, isMemoRequired |-> memo, receiver |-> <<>>,
     priceOracle |-> <<>>, oracleType |-> oracleType]

(* The client refuses the second.                                          *)
MCOffers == {Offer(TRUE, "test"), Offer(FALSE, "pyth")}
MCDepositors == {<<"ann">>, <<"ben">>}

Arg(amount, autoCap, memo) == [amount |-> amount, autoCap |-> autoCap, memo |-> memo]
MCDepositArgs == {Arg(2, TRUE, TRUE), Arg(3, FALSE, TRUE), Arg(2, FALSE, FALSE)}
=============================================================================
