------------------------------- MODULE Threads ------------------------------
(***************************************************************************)
(* analysis/threads.py: activities that share a rare token and sit close   *)
(* together, or of which one installs what the other uses, are joined into *)
(* threads by a union-find over an inverted index of tokens.  Sets of      *)
(* words have no order of their own, so the order in which tokens come up  *)
(* is a choice; a thread that would grow too large is refused.             *)
(***************************************************************************)
EXTENDS Lists, Integers, SequencesExt, FiniteSetsExt

CONSTANTS
    Thing,          \* activities: words (in dictionary order), lines, times,
                    \* installs, fetches, confirmed, rank, records
    MaxFrequency,   \* MAX_TOKEN_FREQUENCY
    MaxMembers,     \* MAX_THREAD_MEMBERS
    MaxThreads,     \* MAX_THREADS
    MaxReported,    \* MAX_REPORTED_THREADS
    MinInformative, \* MIN_INFORMATIVE_ACTIVITIES
    LineGap,        \* ADJACENT_LINES
    TimeGap,        \* ADJACENT_SECONDS
    MaxThings       \* bound: activities of one investigation

ASSUME ThreadsAssumption ==
    /\ \A g \in Thing : /\ g.words \subseteq Nat /\ g.lines \subseteq Nat
                        /\ g.times \subseteq Nat /\ IsFiniteSet(g.times)
                        /\ g.rank \in 0..2 /\ g.records \in Nat
    /\ {MaxFrequency, MaxMembers, MaxThreads, MaxReported, MinInformative,
        LineGap, TimeGap, MaxThings} \subseteq Nat

VARIABLES
    considered,     \* the activities, in the order of the ranking
    done,           \* the tokens whose pairs have been or are being joined
    pairs,          \* the pairs of the last of them that are still to be tried
    root,           \* the root of each activity
    reason          \* why the thread of a root was formed

tvars == <<considered, done, pairs, root, reason>>

Indices == DOMAIN considered
Frequency(t) == Cardinality({i \in Indices : t \in considered[i].words})
Rare(i) == {t \in considered[i].words : Frequency(t) \in 2..MaxFrequency}
Tokens == UNION {Rare(i) : i \in Indices}
With(t) == {i \in Indices : t \in Rare(i)}

NoReason == [token |-> 0, by |-> "none"]

-----------------------------------------------------------------------------
(* _near: shell history by its lines, other records by their first and     *)
(* last times.                                                             *)
Distance(a, b) == IF a < b THEN b - a ELSE a - b
Ends(T) == IF T = {} THEN {} ELSE {Min(T), Max(T)}
Near(g, h) ==
    \/ \E a \in g.lines, b \in h.lines : Distance(a, b) <= LineGap
    \/ \E a \in Ends(g.times), b \in Ends(h.times) : Distance(a, b) <= TimeGap

(* Mutant: sharing a rare word is enough.                                  *)
LinkByWord(i, j) ==
    LET shared == Rare(i) \cap Rare(j)
    IN  IF shared = {} THEN NoReason ELSE [token |-> Min(shared), by |-> "near"]

(* _linked: why two activities belong together.  Only the first word they  *)
(* share is asked for an installation.                                     *)
Link(i, j) ==
    LET shared == Rare(i) \cap Rare(j)
    IN  IF shared = {} THEN NoReason
        ELSE IF considered[i].installs \/ considered[j].installs
        THEN [token |-> Min(shared), by |-> "install"]
        ELSE IF Near(considered[i], considered[j])
        THEN [token |-> Min(shared), by |-> "near"] ELSE NoReason

Members(i) == {k \in Indices : root[k] = i}
Size(i) == Cardinality(Members(i))

(* Mutant: the bound is compared with one side only.                       *)
FitsLoosely(i, j) == root[i] # root[j] /\ Size(root[i]) < MaxMembers

Fits(i, j) == root[i] # root[j] /\ Size(root[i]) + Size(root[j]) <= MaxMembers

(* Mutant: the reason of the smaller thread is kept.                       *)
ReasonSilenced(i, j) == reason[root[j]]

(* The reason of a thread is that of its first link.                       *)
ReasonKept(i, j) == IF reason[root[i]] = NoReason THEN Link(i, j) ELSE reason[root[i]]

Joins(i, j) ==
    /\ root' = [k \in Indices |-> IF root[k] = root[j] THEN root[i] ELSE root[k]]
    /\ reason' = [reason EXCEPT ![root[i]] = ReasonKept(i, j)]

-----------------------------------------------------------------------------
(* The activities come with their ranking.                                 *)
TInit ==
    /\ considered \in {s \in SeqOf(Thing, MaxThings) : IsInjective(s)}
    /\ \A i, j \in Indices : i < j => considered[i].rank <= considered[j].rank
    /\ done = {} /\ pairs = {}
    /\ root = [i \in Indices |-> i]
    /\ reason = [i \in Indices |-> NoReason]

(* The index holds the tokens of the first activity first, in any order,   *)
(* then what the second adds, and so on.                                   *)
First(t) == Min(With(t))
TakesToken(t) ==
    /\ t \notin done /\ pairs = {}
    /\ \A u \in Tokens \ done : First(t) <= First(u)
    /\ done' = done \cup {t}
    /\ pairs' = {p \in With(t) \X With(t) : p[1] < p[2]}
    /\ UNCHANGED <<considered, root, reason>>

(* Its pairs are tried in order.                                           *)
Earlier(p, q) == p[1] < q[1] \/ (p[1] = q[1] /\ p[2] < q[2])
TriesPair(i, j) ==
    /\ <<i, j>> \in pairs /\ \A p \in pairs : ~Earlier(p, <<i, j>>)
    /\ pairs' = pairs \ {<<i, j>>}
    /\ \/ Fits(i, j) /\ Link(i, j) # NoReason /\ Joins(i, j)
       \/ ~(Fits(i, j) /\ Link(i, j) # NoReason) /\ UNCHANGED <<root, reason>>
    /\ UNCHANGED <<considered, done>>

TNext == (\E t \in Tokens : TakesToken(t)) \/ \E i, j \in Indices : TriesPair(i, j)
TSpec == TInit /\ [][TNext]_tvars

-----------------------------------------------------------------------------
(* What is made of the clusters                                            *)

Built == done = Tokens /\ pairs = {}
Clusters == {Members(i) : i \in {i \in Indices : Size(i) > 1}}

(* _describe                                                               *)
Informative(C) ==
    \/ /\ \E i \in C : considered[i].installs
       /\ \E i \in C : ~considered[i].installs
       /\ \E i \in C : ~considered[i].fetches
    \/ (\E i \in C : considered[i].confirmed) /\ Cardinality(C) >= MinInformative
ThreadRank(C) == Min({considered[i].rank : i \in C})
Weight(C) == Cardinality(UNION {{i} \X (1..considered[i].records) : i \in C})

Outranks(C, D) ==
    \/ ThreadRank(C) < ThreadRank(D)
    \/ ThreadRank(C) = ThreadRank(D) /\ Weight(C) > Weight(D)
    \/ ThreadRank(C) = ThreadRank(D) /\ Weight(C) = Weight(D) /\ Min(C) < Min(D)
ThreadList ==
    UpTo(Ordered(Clusters, {p \in Clusters \X Clusters : Outranks(p[1], p[2])}), MaxThreads)

OfRank(r) == {C \in Clusters : ThreadRank(C) = r}
Noteworthy == {C \in OfRank(2) : Informative(C)}

(* Mutant: what is informative comes before what is merely urgent.         *)
ReportsInformative(list) ==
    UpTo(Where(list, OfRank(0)) \o Where(list, Noteworthy) \o Where(list, OfRank(1)), MaxReported)

(* select_reported_threads                                                 *)
Reported(list) ==
    UpTo(Where(list, OfRank(0)) \o Where(list, OfRank(1)) \o Where(list, Noteworthy), MaxReported)

-----------------------------------------------------------------------------
(* Properties                                                              *)

TTypeOK ==
    /\ considered \in Seq(Thing)
    /\ done \subseteq Tokens
    /\ pairs \subseteq {p \in Indices \X Indices : p[1] < p[2]}
    /\ root \in [Indices -> Indices]
    /\ reason \in [Indices -> [token : Nat, by : {"none", "near", "install"}]]

(* A thread stays readable, and what is linked is in one thread unless     *)
(* both threads together would be too large: the refusal of a merge is the *)
(* only way to separate them, whatever order the tokens come in            *)
(* (build_threads).                                                        *)
SplitOnlyAtCap ==
    /\ \A C \in Clusters : Cardinality(C) <= MaxMembers
    /\ Built => \A i, j \in Indices : i < j /\ Link(i, j) # NoReason =>
          \/ root[i] = root[j]
          \/ Size(root[i]) + Size(root[j]) > MaxMembers

(* A thread says why it was formed, and that holds of two of its members;  *)
(* each member is linked to another one of the same thread, and a link is  *)
(* more than a word in common: the two are near, or one installs what the  *)
(* other uses (_linked, _describe).                                        *)
ReasonHolds ==
    \A C \in Clusters :
        /\ \E i, j \in C : i < j /\ reason[root[i]] = Link(i, j) /\ reason[root[i]] # NoReason
        /\ \A i \in C : \E j \in C \ {i} :
              /\ Rare(i) \cap Rare(j) # {}
              /\ \/ Near(considered[i], considered[j])
                 \/ considered[i].installs \/ considered[j].installs

(* What the report withholds is less urgent than what it prints: an urgent *)
(* thread is missing from it only when as many as it prints are urgent too *)
(* (build_threads, select_reported_threads, whose note says that it never  *)
(* is).                                                                    *)
UrgentThreadsFirst ==
    Built =>
        LET told == ToSet(Reported(ThreadList))
        IN  \A C \in Clusters : ThreadRank(C) < 2 /\ C \notin told =>
                /\ Cardinality(told) >= Min({MaxReported, MaxThreads})
                /\ \A D \in told : ThreadRank(D) <= ThreadRank(C)

(* Threads hold what is linked, say why, and are withheld least urgent     *)
(* first (build_threads).                                                  *)
ThreadsReadable == SplitOnlyAtCap /\ ReasonHolds /\ UrgentThreadsFirst
=============================================================================
