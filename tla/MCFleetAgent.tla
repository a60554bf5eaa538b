---------------------------- MODULE MCFleetAgent ----------------------------
(***************************************************************************)
(* Instances of FleetAgent for TLC.                                        *)
(***************************************************************************)
EXTENDS FleetAgent, FiniteSetsExt, TLC

Symmetry == Permutations(Endpoint) \cup Permutations(Task) \cup Permutations(Thread)

(* Bound: a task that stale updates handed out too often goes no further.  *)
FewAttempts == \A t \in Task : task[t].attempts <= MaxAttempts

(* Bound: two claims in all, of one task twice or of two tasks.            *)
TwoClaims == MapThenSumSet(LAMBDA t : task[t].attempts, Task) <= 2
=============================================================================
