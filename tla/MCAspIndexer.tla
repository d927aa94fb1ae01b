---------------------------- MODULE MCAspIndexer ----------------------------
(* Small instances of AspIndexer for TLC.                                  *)
EXTENDS AspIndexer

\* policy.ts, approveAll
ApproveAll(i) == {"approve"}

\* policy.ts, screeningPolicy: the first deposit passes, the second is rejected
\* or put off.
Screening(i) == IF i = 0 THEN {"approve"} ELSE {"reject", "defer"}

\* policy.ts, screeningPolicy with any decision
AnyVerdict(i) == {"approve", "reject", "defer"}
==============================================================================
