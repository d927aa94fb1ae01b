------------------------------ MODULE MCScanner ------------------------------
(* A small chain with a silent ledger, so that a cursor can pass the last cached *)
(* announcement.  Scans are interchangeable.                                     *)
EXTENDS Scanner, TLC

SilentThird == {Ledgers \ {3}}

ScanSymmetry == Permutations(Scans)

==============================================================================
