---------------------------- MODULE MCPrivacyPool ----------------------------
(* Small instances of PrivacyPool for TLC.                                 *)
EXTENDS PrivacyPool, TLC

\* The verifier accepts every proof: the contract's own checks are on trial.
AnyProof(w) == TRUE

\* The contract treats all nullifiers alike, and all roots.
PoolSymmetry == Permutations(Nullifiers) \cup Permutations(Roots)
==============================================================================
