----------------------------- MODULE MCEvidence -----------------------------
(* EvidenceStore on a small instance; threads, sources, analyses and bytes *)
(* are interchangeable.                                                    *)
EXTENDS EvidenceStore, TLC

Symmetry == Permutations(Thread) \cup Permutations(Source)
            \cup Permutations(Analysis) \cup Permutations(Bytes)
=============================================================================
