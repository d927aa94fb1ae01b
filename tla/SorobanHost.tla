------------------------------ MODULE SorobanHost ------------------------------
(***************************************************************************)
(* What the contracts use of the Soroban host and of the native asset      *)
(* contract (SAC): unsigned saturating subtraction and transfers.          *)
(***************************************************************************)
EXTENDS Integers

SaturatingSub(a, b) == IF a >= b THEN a - b ELSE 0

\* Balances after a transfer; the caller has checked that it is covered.
transfer(bal, from, to, amount) ==
  IF from = to THEN bal
  ELSE [bal EXCEPT ![from] = @ - amount, ![to] = @ + amount]
==============================================================================
