---------------------------- MODULE MCRelayedPool ----------------------------
(* A small instance of RelayedPool for TLC.                                *)
EXTENDS RelayedPool

CONSTANTS alice, bob, n1, n2, c1, r1

AnyProof(w) == TRUE

Withdrawal(value, fee, n) ==
  [value |-> value, fee |-> fee, state_root |-> r1, asp_root |-> r1,
   nullifier_hash |-> n, new_commitment |-> c1, recipient |-> bob,
   relayer |-> alice]

\* Two withdrawals of different notes.
TwoWithdrawals == {Withdrawal(1, 0, n1), Withdrawal(1, 1, n2)}
==============================================================================
