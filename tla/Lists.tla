-------------------------------- MODULE Lists --------------------------------
(***************************************************************************)
(* What the analysis asks of lists: the elements of a set in the order of  *)
(* a relation (Python's sorted over distinct keys), the entries that a     *)
(* comprehension keeps, and a slice s[:n].  They are defined by position,  *)
(* without recursion, so that theorems can be proved about them.           *)
(***************************************************************************)
EXTENDS Naturals, Sequences, FiniteSets

(* The elements of I, each after those that the order R places before it.  *)
Ordered(I, R) ==
    [n \in 1..Cardinality(I) |-> CHOOSE i \in I : Cardinality({k \in I : <<k, i>> \in R}) = n - 1]

Ascending(I) == {p \in I \X I : p[1] < p[2]}

(* The entries of s that are in T, in the order of s.                      *)
Where(s, T) ==
    LET at == Ordered({i \in DOMAIN s : s[i] \in T}, Ascending(DOMAIN s))
    IN  [n \in DOMAIN at |-> s[at[n]]]

(* s[:n]                                                                   *)
UpTo(s, n) == SubSeq(s, 1, IF Len(s) < n THEN Len(s) ELSE n)
=============================================================================
