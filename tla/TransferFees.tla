---------------------------- MODULE TransferFees ----------------------------
(***************************************************************************)
(* Mints of the Token-2022 program that keep a fee of every transfer: how  *)
(* much distributor/solana/utils.ts transfers so that a given amount       *)
(* arrives.  A definition that nothing uses is a plausible slip in the     *)
(* definition that follows it.                                             *)
(***************************************************************************)
EXTENDS Integers

CONSTANT OneInBasisPoints \* a positive number

(* A fee is [rate, max], by epoch.  A rate of all there is leaves nothing  *)
(* to arrive.                                                              *)
SmallerOf(a, b) == IF a <= b THEN a ELSE b

(* divCeilN                                                                *)
DivCeil(n, d) == n \div d + (IF n % d # 0 THEN 1 ELSE 0)

(* transferAmount of calculateAmountWithTransferFees                       *)
AmountAndItsFee(amount, fee) ==
    amount + (amount * fee.rate) \div OneInBasisPoints

TransferAmount(amount, fee) ==
    DivCeil(amount * OneInBasisPoints, OneInBasisPoints - fee.rate)

(* feeCharged of calculateAmountWithTransferFees                           *)
FeeCharged(amount, fee) == SmallerOf(TransferAmount(amount, fee) - amount, fee.max)

(* The fee the token program keeps.  It refuses a transfer that expects    *)
(* another one.                                                            *)
FeeKept(transferred, fee) ==
    SmallerOf(DivCeil(transferred * fee.rate, OneInBasisPoints), fee.max)
=============================================================================
