------------------------------ MODULE History ------------------------------
(***************************************************************************)
(* Historical execution evidence and the artifacts its records name:       *)
(* analysis/execution_history.py gathers the records of several sources,   *)
(* then bounds, de-duplicates and orders them; backend/service.py hashes   *)
(* the files they name.  The analysis modules are operators over what was  *)
(* gathered, and their properties say how the analysis follows evidence.   *)
(***************************************************************************)
EXTENDS Triage, Lists, SequencesExt

CONSTANTS
    Event,          \* records a source may hold
    Named,          \* images the records name, as paths
    MaxTotal,       \* MAX_TOTAL_EVENTS
    MaxFound        \* bound: records gathered in one collection

ASSUME HistoryAssumption ==
    /\ \A e \in Event :
          /\ e.kind \in Kinds /\ e.stamp \in Nat /\ e.id \in Nat
          /\ e.kind = "SESSION_EVENT" => e.command = NoCommand /\ e.image = NoImage
          /\ e.command.shapes \subseteq Shapes
          /\ e.image.place \in Places
          /\ e.image = NoImage \/ e.image.path \in Named
    /\ MaxTotal \in Nat /\ MaxFound \in Nat

VARIABLES
    found,          \* the records read so far, in the order they were read
    artifact,       \* what the collection found at each path
    events,         \* the events of the collection
    truncated,      \* whether it says that it is incomplete
    finalized       \* whether reading the sources has ended

hvars == <<found, artifact, events, truncated, finalized>>

Statuses == {"COLLECTED", "MISSING", "ALTERED"}

(* A stamp of 0 is a record whose source gives none.                       *)
Undated == 0
Dated(e) == e.stamp # Undated

HInit ==
    /\ found = <<>> /\ artifact = [p \in Named |-> "none"]
    /\ events = <<>> /\ truncated = FALSE /\ finalized = FALSE

(* A source records something once under its own identifier, but may be    *)
(* read twice: a rotated file, a journal read again.                       *)
Gathers(e) ==
    /\ ~finalized
    /\ Len(found) < MaxFound
    /\ found' = Append(found, e)
    /\ UNCHANGED <<artifact, events, truncated, finalized>>

(* collect_artifacts looks at the paths the events name.  What it could    *)
(* not read counts like what it did not look at.                           *)
Observes(p, status) ==
    /\ artifact[p] = "none"
    /\ \E i \in DOMAIN events : events[i].image.path = p
    /\ artifact' = [artifact EXCEPT ![p] = status]
    /\ UNCHANGED <<found, events, truncated, finalized>>

-----------------------------------------------------------------------------
(* finalize: order, de-duplicate, bound                                    *)

(* Position i comes before position k: by stamp, the undated last, and as  *)
(* they were read where the stamps are equal.                              *)
Precedes(s, i, k) ==
    \/ Dated(s[i]) /\ ~Dated(s[k])
    \/ /\ Dated(s[i]) <=> Dated(s[k])
       /\ s[i].stamp < s[k].stamp \/ (s[i].stamp = s[k].stamp /\ i < k)

SameRecord(d, e) == d.source = e.source /\ d.id = e.id

Firsts(s) == {k \in DOMAIN s : \A i \in DOMAIN s : Precedes(s, i, k) => ~SameRecord(s[i], s[k])}
InOrder(s, I) == Ordered(I, {p \in I \X I : Precedes(s, p[1], p[2])})

(* Mutant: the bound is applied before duplicates are discarded.           *)
BoundsEarly(s) ==
    [kept |-> Where(UpTo(InOrder(s, DOMAIN s), MaxTotal), Firsts(s)),
     duplicates |-> Len(s) - Cardinality(Firsts(s))]

(* Mutant: one record more than the bound is kept.                         *)
KeepsOneMore(s) ==
    [kept |-> UpTo(InOrder(s, Firsts(s)), MaxTotal + 1),
     duplicates |-> Len(s) - Cardinality(Firsts(s))]

(* Mutant: the undated are read first.                                     *)
UndatedFirst(s) ==
    LET order == Ordered(Firsts(s), {p \in Firsts(s) \X Firsts(s) :
                     \/ ~Dated(s[p[1]]) /\ Dated(s[p[2]])
                     \/ (Dated(s[p[1]]) <=> Dated(s[p[2]])) /\ Precedes(s, p[1], p[2])})
    IN  [kept |-> UpTo(order, MaxTotal), duplicates |-> Len(s) - Cardinality(Firsts(s))]

(* The positions kept, and the duplicates counted until the loop stops at  *)
(* the first record beyond the bound.                                      *)
Kept(s) ==
    LET order == InOrder(s, Firsts(s))
        read == {k \in DOMAIN s : Len(order) > MaxTotal => Precedes(s, k, order[MaxTotal + 1])}
    IN  [kept |-> UpTo(order, MaxTotal), duplicates |-> Cardinality(read \ Firsts(s))]

(* finalize; a source that was read in part makes it truncated as well,   *)
(* which no source here does.                                              *)
Finalizes ==
    LET result == Kept(found)
    IN  /\ ~finalized /\ finalized' = TRUE
        /\ events' = [i \in DOMAIN result.kept |-> found[result.kept[i]]]
        /\ truncated' = (Len(found) - result.duplicates > MaxTotal)
        /\ UNCHANGED <<found, artifact>>

(* The rows as they are read back: by timestamp, where NULL sorts first.   *)
Reread(s) == Where(s, {e \in ToSet(s) : ~Dated(e)}) \o Where(s, {e \in ToSet(s) : Dated(e)})

HNext ==
    \/ \E e \in Event : Gathers(e)
    \/ \E p \in Named, status \in Statuses : Observes(p, status)
    \/ Finalizes
HSpec == HInit /\ [][HNext]_hvars

-----------------------------------------------------------------------------
(* Properties                                                              *)

(* Every variable has the shape the code gives it.                         *)
HTypeOK ==
    /\ found \in Seq(Event) /\ Len(found) <= MaxFound
    /\ artifact \in [Named -> Statuses \cup {"none"}]
    /\ events \in Seq(Event) /\ Len(events) <= MaxTotal
    /\ truncated \in BOOLEAN /\ finalized \in BOOLEAN

(* A collection says "truncated" exactly when a record it read is not among*)
(* its events, although it counts duplicates only as far as it gets; and   *)
(* the record of every key is there once, at the earliest time any reading *)
(* of it gave (finalize).                                                  *)
TruncatedExactly ==
    finalized =>
        /\ truncated <=>
              \E e \in ToSet(found) : \A i \in DOMAIN events : ~SameRecord(e, events[i])
        /\ \A i, k \in DOMAIN events : SameRecord(events[i], events[k]) => i = k
        /\ \A i \in DOMAIN events : \A d \in ToSet(found) :
              SameRecord(d, events[i]) /\ Dated(d) =>
                  Dated(events[i]) /\ events[i].stamp <= d.stamp

(* A record without a time is never placed as if it were recent: it comes  *)
(* after every dated one, and takes the place of none at the bound         *)
(* (_sort_key, finalize).                                                  *)
UndatedLast ==
    finalized =>
        /\ \A i, k \in DOMAIN events : i < k /\ Dated(events[k]) =>
              Dated(events[i]) /\ events[i].stamp <= events[k].stamp
        /\ (\E i \in DOMAIN events : ~Dated(events[i])) =>
              \A e \in ToSet(found) : Dated(e) =>
                  \E i \in DOMAIN events : SameRecord(events[i], e)

(* The bound on events hides nothing in silence, and time is never made up *)
(* (finalize).                                                             *)
CollectionHonest == TruncatedExactly /\ UndatedLast
=============================================================================
