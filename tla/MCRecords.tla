----------------------------- MODULE MCRecords -----------------------------
(* The protocols around the record, each on its small instance: evidence   *)
(* sources and memory analyses, enrollment, the job log and owning the     *)
(* workspace.  They share no state, so one of them is chosen at the start  *)
(* and the others rest.  They also share the model values of their         *)
(* interchangeable sets, which keeps the symmetry group small.             *)
EXTENDS EvidenceStore, Enrollment, JobLog, Ownership, TLC

VARIABLE part   \* the protocol that runs

Rests(p) == CASE p = "evidence"   -> UNCHANGED vars
              [] p = "enrollment" -> UNCHANGED evars
              [] p = "jobs"       -> UNCHANGED jvars
              [] p = "workspace"  -> UNCHANGED ovars
Parts == {"evidence", "enrollment", "jobs", "workspace"}
Only(p) == part = p /\ UNCHANGED part /\ \A q \in Parts \ {p} : Rests(q)

MCInit ==
    /\ part \in Parts
    /\ Init /\ EInit /\ JInit /\ OInit
    /\ part # "evidence" => \A f \in File : disk[f] = Missing

MCNext ==
    \/ Only("evidence") /\ Next
    \/ Only("enrollment") /\ ENext
    \/ Only("jobs") /\ JNext
    \/ Only("workspace") /\ ONext

MCSpec == MCInit /\ [][MCNext]_<<part, vars, evars, jvars, ovars>>

Symmetry == Permutations(Thread) \cup Permutations(Source)
            \cup Permutations(Analysis) \cup Permutations(Bytes)

(* Every variable of the record keeping has the shape the code gives it.   *)
RecordTypes == TypeOK /\ ETypeOK /\ JTypeOK /\ OTypeOK
=============================================================================
