-------------------------------- MODULE GasRules ---------------------------------
(***************************************************************************)
(* The arithmetic of gas and payment in Safe.sol.  Solidity 0.7 computes   *)
(* modulo 2^256 where the source does not use SafeMath, and SafeMath       *)
(* reverts instead; Word is 2^256.                                         *)
(***************************************************************************)
EXTENDS Integers

CONSTANT Word

ASSUME WordAssumption == Word \in Nat /\ Word > 2 * 64 * 3000

Larger(a, b) == IF a < b THEN b ELSE a
Smaller(a, b) == IF a < b THEN a ELSE b

\* Only what is reserved for the events, and nothing for the call's own 1/64.
GasRequiredSlip(safeTxGas) == (safeTxGas + 2500) % Word

\* GS010: what has to be left before the execution, by unchecked arithmetic.
GasRequired(safeTxGas) ==
  (Larger(((safeTxGas * 64) % Word) \div 63, (safeTxGas + 2500) % Word) + 500) % Word

\* EIP-150: a call passes on all but a 64th of the gas that is left, at most.
AllBut64th(gasLeft) == gasLeft - (gasLeft \div 64)

\* What the call gets when gasLeft is left at the check, and the code up to the call
\* and the call itself cost overhead.
CallGas(gasLeft, overhead, limit) == Smaller(limit, AllBut64th(gasLeft - overhead))

\* The limit of the call: what was signed, or nearly all if nobody is refunded.
GasLimit(gasLeft, safeTxGas, gasPrice) ==
  IF gasPrice = 0 THEN (gasLeft - 2500) % Word ELSE safeTxGas

\* Takes the higher price.
RefundPriceSlip(inEther, gasPrice, txGasPrice) ==
  IF inEther THEN Larger(gasPrice, txGasPrice) ELSE gasPrice

\* In ether the Safe pays no more for gas than the relayer does.
RefundPrice(inEther, gasPrice, txGasPrice) ==
  IF inEther THEN Smaller(gasPrice, txGasPrice) ELSE gasPrice
================================================================================
