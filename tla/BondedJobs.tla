------------------------------ MODULE BondedJobs ------------------------------
(***************************************************************************)
(* What the relayer's job queue promises (relayer/src/job-queue.ts,        *)
(* engine.ts): a job is bonded to the operator only after the operator     *)
(* has a durable record of it, and the record is not given up while the    *)
(* bond can still be saved.                                                *)
(***************************************************************************)
CONSTANT Jobs

VARIABLES
  intents,  \* jobs with a durable record
  bonded,   \* jobs that hold the operator's stake
  lost      \* jobs that can no longer be finished in time

vars == <<intents, bonded, lost>>

Init == intents = {} /\ bonded = {} /\ lost \subseteq Jobs

Intend(j) ==
  /\ intents' = intents \cup {j}
  /\ UNCHANGED <<bonded, lost>>

Bond(j) ==
  /\ j \in intents \/ j \in lost
  /\ bonded' = bonded \cup {j}
  /\ UNCHANGED <<intents, lost>>

\* The bond is released, or slashed.
Release(j) ==
  /\ j \in bonded
  /\ bonded' = bonded \ {j}
  /\ UNCHANGED <<intents, lost>>

Forget(j) ==
  /\ j \notin bonded \/ j \in lost
  /\ intents' = intents \ {j}
  /\ UNCHANGED <<bonded, lost>>

\* Jobs run out of time, or the operator loses sight of one as it forgets it.
Lose ==
  /\ lost \subseteq lost' /\ lost' \subseteq Jobs
  /\ intents \ lost' \subseteq intents' /\ intents' \subseteq intents
  /\ UNCHANGED bonded

Next ==
  \/ \E j \in Jobs : Intend(j) \/ Bond(j) \/ Release(j) \/ Forget(j)
  \/ Lose

Spec == Init /\ [][Next]_vars
==============================================================================
