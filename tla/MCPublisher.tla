----------------------------- MODULE MCPublisher -----------------------------
(* Small instances of Publisher for TLC.                                   *)
EXTENDS Publisher

\* Two holders.
TwoCommitments ==
  {[id |-> 1, leaf |-> 1, uid |-> 1], [id |-> 2, leaf |-> 2, uid |-> 2]}

\* The second attestation expires.
SecondExpires == [u \in {1, 2} |-> IF u = 1 THEN 0 ELSE 2]
==============================================================================
