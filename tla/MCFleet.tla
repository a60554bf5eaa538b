------------------------------ MODULE MCFleet ------------------------------
(***************************************************************************)
(* Instances of Fleet for TLC.  Endpoints, tasks and threads are           *)
(* interchangeable; no liveness is checked here.                           *)
(***************************************************************************)
EXTENDS Fleet, TLC

Symmetry == Permutations(Endpoint) \cup Permutations(Task) \cup Permutations(Thread)

(* Bound: claims that stale updates make possible are counted this far.    *)
FewAttempts == \A t \in Task : task[t].attempts <= MaxAttempts + 1
=============================================================================
