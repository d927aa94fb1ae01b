---------------------------- MODULE MCPoolWallet ----------------------------
(* Small instances of PoolWallet for TLC.                                  *)
EXTENDS PoolWallet, TLC

AccountSymmetry == Permutations(Accounts)

\* One user sweeps a stealth account beside the deposit dialog, one withdraws,
\* one encrypts the storage.
Users ==
  {[chunks |-> 2, withdrawals |-> FALSE, encryption |-> FALSE],
   [chunks |-> 0, withdrawals |-> TRUE, encryption |-> FALSE],
   [chunks |-> 0, withdrawals |-> FALSE, encryption |-> TRUE]}
=============================================================================
