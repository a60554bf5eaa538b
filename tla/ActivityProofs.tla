--------------------------- MODULE ActivityProofs -----------------------------
(***************************************************************************)
(* What a collection and its activity guarantee for every set of records   *)
(* and paths and every bound: that a collection is honest about what it    *)
(* left out (History), and that no record and no concern is lost when      *)
(* records are classified, grouped and led with (Triage, Activity).        *)
(***************************************************************************)
EXTENDS Activity, ListsProofs

-----------------------------------------------------------------------------
(* History                                                                 *)

(* What finalize returns for the records s.                                *)
FinalizedFrom(s) ==
    LET order == InOrder(s, Firsts(s))
    IN  /\ events \in Seq(Event)
        /\ Len(events) = IF Len(order) < MaxTotal THEN Len(order) ELSE MaxTotal
        /\ \A i \in DOMAIN events : events[i] = s[order[i]]
        /\ truncated <=> Len(order) > MaxTotal

HInv ==
    /\ HTypeOK
    /\ finalized => FinalizedFrom(found)
    /\ ~finalized => events = <<>>

Sequence(s, I) == {p \in I \X I : Precedes(s, p[1], p[2])}

LEMMA PrecedesOrders ==
  ASSUME NEW s, NEW I, \A i \in I : i \in Nat /\ s[i].stamp \in Nat
  PROVE  Orders(I, Sequence(s, I))
BY DEF Orders, Sequence, Precedes, Dated, Undated

(* The order of what has a time, or has none, is complete.                 *)
LEMMA StampedInOrder ==
  ASSUME NEW s, NEW I, IsFiniteSet(I), \A i \in I : i \in Nat /\ s[i].stamp \in Nat
  PROVE  LET l == InOrder(s, I)
         IN  /\ l \in Seq(I) /\ Len(l) = Cardinality(I) /\ DOMAIN l = 1..Len(l)
             /\ \A i \in I : \E n \in DOMAIN l : l[n] = i
             /\ \A m, n \in DOMAIN l : m < n <=> Precedes(s, l[m], l[n])
             /\ \A m, n \in DOMAIN l : l[m] = l[n] => m = n
<1>1. Orders(I, Sequence(s, I))
  BY PrecedesOrders
<1>2. PICK R : R = Sequence(s, I)
  OBVIOUS
<1>3. PICK l : l = Ordered(I, R)
  OBVIOUS
<1>4. l = InOrder(s, I)
  BY <1>2, <1>3 DEF InOrder, Sequence
<1>5. /\ l \in Seq(I) /\ Len(l) = Cardinality(I) /\ DOMAIN l = 1..Len(l)
      /\ \A i \in I : \E n \in DOMAIN l : l[n] = i
      /\ \A m, n \in DOMAIN l : m < n <=> <<l[m], l[n]>> \in R
      /\ \A m, n \in DOMAIN l : l[m] = l[n] => m = n
  BY <1>1, <1>2, <1>3, OrderedInOrder
<1>6. \A i, k \in I : <<i, k>> \in R <=> Precedes(s, i, k)
  BY <1>2 DEF Sequence
<1>7. \A m, n \in DOMAIN l : m < n <=> Precedes(s, l[m], l[n])
  <2>1. \A n \in DOMAIN l : l[n] \in I
    BY <1>5
  <2>2. QED
    BY <1>5, <1>6, <2>1
<1>8. QED
  BY <1>4, <1>5, <1>7

(* The order in which the records are read is complete.                    *)
LEMMA InOrderLists ==
  ASSUME NEW s \in Seq(Event), NEW I, I \subseteq DOMAIN s
  PROVE  LET l == InOrder(s, I)
         IN  /\ IsFiniteSet(I) /\ l \in Seq(I) /\ Len(l) = Cardinality(I) /\ DOMAIN l = 1..Len(l)
             /\ \A i \in I : \E n \in DOMAIN l : l[n] = i
             /\ \A m, n \in DOMAIN l : m < n <=> Precedes(s, l[m], l[n])
             /\ \A m, n \in DOMAIN l : l[m] = l[n] => m = n
<1>1. IsFiniteSet(I)
  <2>1. IsFiniteSet(1..Len(s)) /\ DOMAIN s = 1..Len(s)
    BY FS_Interval
  <2>2. QED
    BY <2>1, FS_Subset
<1>2. \A i \in I : i \in Nat /\ s[i].stamp \in Nat
  BY HistoryAssumption
<1>3. QED
  BY <1>1, <1>2, StampedInOrder

(* Every record has a first reading.                                       *)
LEMMA FirstReading ==
  ASSUME NEW s \in Seq(Event), NEW k \in DOMAIN s
  PROVE  \E f \in Firsts(s) : SameRecord(s[f], s[k]) /\ (f = k \/ Precedes(s, f, k))
<1>1. PICK I : I = {i \in DOMAIN s : SameRecord(s[i], s[k])}
  OBVIOUS
<1>2. k \in I /\ I \subseteq DOMAIN s
  BY <1>1 DEF SameRecord
<1>3. PICK l : l = InOrder(s, I)
  OBVIOUS
<1>4. /\ l \in Seq(I) /\ DOMAIN l = 1..Len(l)
      /\ \A i \in I : \E n \in DOMAIN l : l[n] = i
      /\ \A m, n \in DOMAIN l : m < n <=> Precedes(s, l[m], l[n])
  BY <1>2, <1>3, InOrderLists
<1>5. 1 \in DOMAIN l /\ l[1] \in I
  BY <1>2, <1>4
<1>6. \A i \in I : i = l[1] \/ (Precedes(s, l[1], i) /\ ~Precedes(s, i, l[1]))
  BY <1>4, <1>5
<1>7. ~Precedes(s, l[1], l[1])
  BY <1>4, <1>5
<1>8. l[1] \in Firsts(s)
  <2>1. ASSUME NEW i \in DOMAIN s, Precedes(s, i, l[1]), SameRecord(s[i], s[l[1]])
        PROVE  FALSE
    <3>1. i \in I
      BY <1>1, <1>5, <2>1 DEF SameRecord
    <3>2. QED
      BY <1>6, <1>7, <2>1, <3>1
  <2>2. QED
    BY <1>2, <1>5, <2>1 DEF Firsts
<1>9. QED
  BY <1>1, <1>2, <1>5, <1>6, <1>8

LEMMA FirstsFinite ==
  ASSUME NEW s \in Seq(Event)
  PROVE  Firsts(s) \subseteq DOMAIN s /\ IsFiniteSet(Firsts(s)) /\ IsFiniteSet(DOMAIN s)
         /\ Cardinality(DOMAIN s) = Len(s) /\ Cardinality(Firsts(s)) \in Nat
<1>1. DOMAIN s = 1..Len(s) /\ Len(s) \in Nat /\ Firsts(s) \subseteq DOMAIN s
  BY DEF Firsts
<1>2. 1 \in Int /\ Len(s) \in Int
  BY <1>1
<1>3. IsFiniteSet(1..Len(s)) /\ Cardinality(1..Len(s)) = IF 1 > Len(s) THEN 0 ELSE Len(s) - 1 + 1
  BY <1>2, FS_Interval
<1>4. Cardinality(1..Len(s)) = Len(s)
  BY <1>1, <1>3
<1>5. QED
  BY <1>1, <1>3, <1>4, FS_Subset, FS_CardinalityType

(* The duplicates that are counted are repetitions, and all of them are    *)
(* counted when no record is beyond the bound.                             *)
LEMMA DuplicatesCounted ==
  ASSUME NEW s \in Seq(Event)
  PROVE  LET order == InOrder(s, Firsts(s))
         IN  Len(s) - Kept(s).duplicates > MaxTotal <=> Len(order) > MaxTotal
<1>1. PICK F : F = Firsts(s)
  OBVIOUS
<1>2. PICK order : order = InOrder(s, F)
  OBVIOUS
<1>3. PICK read : read = {k \in DOMAIN s : Len(order) > MaxTotal => Precedes(s, k, order[MaxTotal + 1])}
  OBVIOUS
<1>4. /\ F \subseteq DOMAIN s /\ IsFiniteSet(F) /\ IsFiniteSet(DOMAIN s)
      /\ Cardinality(DOMAIN s) = Len(s) /\ Cardinality(F) \in Nat /\ Len(s) \in Nat
  BY <1>1, FirstsFinite
<1>5. Len(order) = Cardinality(F)
  BY <1>2, <1>4, InOrderLists
<1>6. Kept(s).duplicates = Cardinality(read \ F)
  BY <1>1, <1>2, <1>3 DEF Kept
<1>7. Cardinality(DOMAIN s \ F) = Len(s) - Cardinality(F) /\ IsFiniteSet(DOMAIN s \ F)
  <2>1. PICK D : D = DOMAIN s
    OBVIOUS
  <2>2. D \cap F = F /\ IsFiniteSet(D)
    BY <1>4, <2>1
  <2>3. Cardinality(D \ F) = Cardinality(D) - Cardinality(F) /\ IsFiniteSet(D \ F)
    BY <2>2, FS_Difference
  <2>4. QED
    BY <1>4, <2>1, <2>3
<1>8. read \ F \subseteq DOMAIN s \ F
  BY <1>3
<1>9. Cardinality(read \ F) <= Len(s) - Cardinality(F) /\ Cardinality(read \ F) \in Nat
  BY <1>7, <1>8, FS_Subset, FS_CardinalityType
<1>10. CASE Len(order) > MaxTotal
  BY <1>1, <1>2, <1>4, <1>5, <1>6, <1>9, <1>10, HistoryAssumption
<1>11. CASE ~(Len(order) > MaxTotal)
  <2>1. read = DOMAIN s
    BY <1>3, <1>11
  <2>2. Kept(s).duplicates = Len(s) - Cardinality(F)
    BY <1>6, <1>7, <2>1
  <2>3. QED
    BY <1>1, <1>2, <1>4, <1>5, <1>11, <2>2
<1>12. QED
  BY <1>10, <1>11

LEMMA InitHInv == HInit => HInv
<1>1. <<>> \in Seq(Event) /\ Len(<<>>) = 0
  OBVIOUS
<1>2. [p \in Named |-> "none"] \in [Named -> Statuses \cup {"none"}]
  OBVIOUS
<1>3. MaxFound \in Nat /\ MaxTotal \in Nat
  BY HistoryAssumption
<1>4. ASSUME HInit PROVE HTypeOK /\ events = <<>> /\ ~finalized
  <2>1. found \in Seq(Event) /\ events \in Seq(Event) /\ events = <<>> /\ ~finalized
    BY <1>1, <1>4 DEF HInit
  <2>2. Len(found) <= MaxFound /\ Len(events) <= MaxTotal
    BY <1>1, <1>3, <1>4 DEF HInit
  <2>3. QED
    BY <1>2, <1>4, <2>1, <2>2 DEF HInit, HTypeOK
<1>5. QED
  BY <1>4 DEF HInv

LEMMA NextHInv ==
  ASSUME HInv, [HNext]_hvars
  PROVE  HInv'
<1>1. ASSUME NEW e \in Event, Gathers(e)
      PROVE  HInv'
  <2>1. /\ ~finalized /\ Len(found) < MaxFound /\ found' = Append(found, e)
        /\ UNCHANGED <<artifact, events, truncated, finalized>>
    BY <1>1 DEF Gathers
  <2>2. found' \in Seq(Event) /\ Len(found') = Len(found) + 1 /\ Len(found) \in Nat
    BY <2>1 DEF HInv, HTypeOK
  <2>3. Len(found') <= MaxFound
    BY <2>1, <2>2, HistoryAssumption
  <2>4. QED
    BY <2>1, <2>2, <2>3 DEF HInv, HTypeOK
<1>2. ASSUME NEW p \in Named, NEW status \in Statuses, Observes(p, status)
      PROVE  HInv'
  BY <1>2 DEF Observes, HInv, HTypeOK, FinalizedFrom
<1>3. CASE Finalizes
  <2>1. /\ finalized' = TRUE /\ ~finalized /\ UNCHANGED <<found, artifact>>
        /\ events' = [i \in DOMAIN Kept(found).kept |-> found[Kept(found).kept[i]]]
        /\ truncated' = (Len(found) - Kept(found).duplicates > MaxTotal)
    BY <1>3 DEF Finalizes
  <2>2. PICK F, order, kept : /\ F = Firsts(found) /\ order = InOrder(found, F)
                              /\ kept = UpTo(order, MaxTotal)
    OBVIOUS
  <2>3. found \in Seq(Event) /\ F \subseteq DOMAIN found /\ DOMAIN found = 1..Len(found)
    BY <2>2, FirstsFinite DEF HInv, HTypeOK
  <2>4. order \in Seq(F) /\ DOMAIN order = 1..Len(order)
    BY <2>2, <2>3, InOrderLists
  <2>5. Kept(found).kept = kept
    BY <2>2 DEF Kept
  <2>6. /\ kept \in Seq(F) /\ DOMAIN kept = 1..Len(kept)
        /\ Len(kept) = IF Len(order) < MaxTotal THEN Len(order) ELSE MaxTotal
        /\ \A i \in DOMAIN kept : kept[i] = order[i]
    BY <2>2, <2>4, HistoryAssumption, UpToShortens
  <2>7. \A i \in 1..Len(kept) : found[kept[i]] \in Event
    BY <2>3, <2>6
  <2>8. /\ events' \in Seq(Event) /\ Len(events') = Len(kept) /\ DOMAIN events' = DOMAIN kept
        /\ \A i \in DOMAIN kept : events'[i] = found[kept[i]]
    <3>1. events' = [i \in 1..Len(kept) |-> found[kept[i]]]
      BY <2>1, <2>5, <2>6
    <3>2. QED
      BY <2>6, <2>7, <3>1
  <2>9. truncated' <=> Len(order) > MaxTotal
    BY <2>1, <2>2, <2>3, DuplicatesCounted
  <2>10. FinalizedFrom(found)'
    <3>1. InOrder(found', Firsts(found')) = order
      BY <2>1, <2>2
    <3>2. \A i \in DOMAIN events' : events'[i] = found'[order[i]]
      BY <2>1, <2>6, <2>8
    <3>3. QED
      BY <2>6, <2>8, <2>9, <3>1, <3>2 DEF FinalizedFrom
  <2>11. Len(events') <= MaxTotal
    BY <2>4, <2>6, <2>8, HistoryAssumption
  <2>12. HTypeOK'
    BY <2>1, <2>8, <2>11 DEF HInv, HTypeOK
  <2>13. QED
    BY <2>1, <2>10, <2>12 DEF HInv
<1>4. CASE UNCHANGED hvars
  BY <1>4 DEF hvars, HInv, HTypeOK, FinalizedFrom
<1>5. QED
  BY <1>1, <1>2, <1>3, <1>4 DEF HNext

(* What was finalized is honest about its bound and about time.            *)
LEMMA FinalizedHonest ==
  ASSUME HInv
  PROVE  CollectionHonest
<1>1. CASE ~finalized
  BY <1>1 DEF CollectionHonest, TruncatedExactly, UndatedLast
<1>2. CASE finalized
  <2>1. PICK s, F, order : s = found /\ F = Firsts(s) /\ order = InOrder(s, F)
    OBVIOUS
  <2>2. /\ s \in Seq(Event) /\ DOMAIN s = 1..Len(s) /\ F \subseteq DOMAIN s /\ MaxTotal \in Nat
        /\ \A k \in DOMAIN s : s[k] \in Event /\ s[k].stamp \in Nat
    BY <2>1, HistoryAssumption, FirstsFinite DEF HInv, HTypeOK
  <2>3. /\ order \in Seq(F) /\ DOMAIN order = 1..Len(order) /\ Len(order) \in Nat
        /\ \A i \in F : \E n \in DOMAIN order : order[n] = i
        /\ \A m, n \in DOMAIN order : m < n <=> Precedes(s, order[m], order[n])
    <3>1. /\ order \in Seq(F) /\ DOMAIN order = 1..Len(order)
          /\ \A i \in F : \E n \in DOMAIN order : order[n] = i
          /\ \A m, n \in DOMAIN order : m < n <=> Precedes(s, order[m], order[n])
      BY <2>1, <2>2, InOrderLists
    <3>2. QED
      BY <3>1
  <2>4. /\ events \in Seq(Event) /\ DOMAIN events = 1..Len(events)
        /\ Len(events) = IF Len(order) < MaxTotal THEN Len(order) ELSE MaxTotal
        /\ \A i \in DOMAIN events : events[i] = s[order[i]]
        /\ truncated <=> Len(order) > MaxTotal
    BY <1>2, <2>1 DEF HInv, FinalizedFrom
  <2>5. \A i \in DOMAIN events : i \in DOMAIN order /\ order[i] \in F /\ order[i] \in DOMAIN s
    BY <2>2, <2>3, <2>4
  <2>6. ASSUME NEW i \in DOMAIN order, NEW k \in DOMAIN order, SameRecord(s[order[i]], s[order[k]])
        PROVE  i = k
    <3>1. order[i] \in F /\ order[k] \in F /\ i \in Nat /\ k \in Nat
      BY <2>3
    <3>2. ~(i < k)
      BY <2>1, <2>2, <2>3, <2>6, <3>1 DEF Firsts
    <3>3. ~(k < i)
      BY <2>1, <2>2, <2>3, <2>6, <3>1 DEF Firsts, SameRecord
    <3>4. QED
      BY <3>1, <3>2, <3>3
  <2>7. ASSUME NEW k \in DOMAIN s
        PROVE  \E n \in DOMAIN order : /\ SameRecord(s[order[n]], s[k])
                                       /\ order[n] = k \/ Precedes(s, order[n], k)
    <3>1. s \in Seq(Event)
      BY <2>2
    <3>2. PICK f \in Firsts(s) : /\ SameRecord(s[f], s[k])
                                 /\ f = k \/ Precedes(s, f, k)
      BY <3>1, FirstReading
    <3>3. PICK n \in DOMAIN order : order[n] = f
      BY <2>1, <2>3, <3>2
    <3>4. QED
      BY <3>2, <3>3
  <2>8. truncated <=> \E e \in ToSet(found) : \A i \in DOMAIN events : ~SameRecord(e, events[i])
    <3>1. CASE Len(order) > MaxTotal
      <4>1. MaxTotal + 1 \in DOMAIN order /\ order[MaxTotal + 1] \in DOMAIN s
        BY <2>2, <2>3, <3>1
      <4>2. ASSUME NEW i \in DOMAIN events, SameRecord(s[order[MaxTotal + 1]], events[i])
            PROVE  FALSE
        <5>1. MaxTotal + 1 = i
          BY <2>4, <2>5, <2>6, <4>1, <4>2
        <5>2. QED
          BY <2>2, <2>3, <2>4, <3>1, <5>1
      <4>3. s[order[MaxTotal + 1]] \in ToSet(found)
        BY <2>1, <4>1 DEF ToSet
      <4>4. QED
        BY <2>4, <3>1, <4>2, <4>3
    <3>2. CASE ~(Len(order) > MaxTotal)
      <4>1. ASSUME NEW e \in ToSet(found)
            PROVE  \E i \in DOMAIN events : SameRecord(e, events[i])
        <5>1. PICK k \in DOMAIN s : e = s[k]
          BY <2>1 DEF ToSet
        <5>2. PICK n \in DOMAIN order : /\ SameRecord(s[order[n]], s[k])
                                        /\ order[n] = k \/ Precedes(s, order[n], k)
          BY <2>7
        <5>3. n \in DOMAIN events /\ events[n] = s[order[n]]
          BY <2>2, <2>3, <2>4, <3>2
        <5>4. QED
          BY <5>1, <5>2, <5>3 DEF SameRecord
      <4>2. QED
        BY <2>4, <3>2, <4>1
    <3>3. QED
      BY <3>1, <3>2
  <2>9. ASSUME NEW i \in DOMAIN events, NEW k \in DOMAIN events, SameRecord(events[i], events[k])
        PROVE  i = k
    BY <2>4, <2>5, <2>6, <2>9
  <2>10. ASSUME NEW i \in DOMAIN events, NEW d \in ToSet(found), SameRecord(d, events[i]), Dated(d)
         PROVE  Dated(events[i]) /\ events[i].stamp <= d.stamp
    <3>1. PICK k \in DOMAIN s : d = s[k]
      BY <2>1 DEF ToSet
    <3>2. PICK n \in DOMAIN order : /\ SameRecord(s[order[n]], s[k])
                                    /\ order[n] = k \/ Precedes(s, order[n], k)
      BY <2>7
    <3>3. n = i
      <4>1. SameRecord(s[order[n]], s[order[i]])
        <5>1. events[i] = s[order[i]]
          BY <2>4
        <5>2. SameRecord(s[order[n]], d) /\ SameRecord(d, s[order[i]])
          BY <2>10, <3>1, <3>2, <5>1
        <5>3. QED
          BY <5>2 DEF SameRecord
      <4>2. QED
        BY <2>5, <2>6, <4>1
    <3>4. events[i] = s[order[n]] /\ order[n] \in DOMAIN s
      BY <2>4, <2>5, <3>3
    <3>5. QED
      BY <2>2, <2>10, <3>1, <3>2, <3>4 DEF Precedes, Dated
  <2>11. ASSUME NEW i \in DOMAIN events, NEW k \in DOMAIN events, i < k, Dated(events[k])
         PROVE  Dated(events[i]) /\ events[i].stamp <= events[k].stamp
    <3>1. Precedes(s, order[i], order[k])
      BY <2>3, <2>5, <2>11
    <3>2. QED
      BY <2>2, <2>4, <2>5, <2>11, <3>1 DEF Precedes, Dated
  <2>12. ASSUME NEW i \in DOMAIN events, ~Dated(events[i]), NEW e \in ToSet(found), Dated(e)
         PROVE  \E j \in DOMAIN events : SameRecord(events[j], e)
    <3>1. PICK k \in DOMAIN s : e = s[k]
      BY <2>1 DEF ToSet
    <3>2. PICK n \in DOMAIN order : /\ SameRecord(s[order[n]], s[k])
                                    /\ order[n] = k \/ Precedes(s, order[n], k)
      BY <2>7
    <3>3. order[n] \in DOMAIN s /\ Dated(s[order[n]])
      BY <2>2, <2>3, <2>12, <3>1, <3>2 DEF Precedes
    <3>4. Precedes(s, order[n], order[i])
      BY <2>4, <2>5, <2>12, <3>3 DEF Precedes
    <3>5. n < i
      BY <2>3, <2>5, <3>4
    <3>6. n \in DOMAIN events
      BY <2>3, <2>4, <3>5
    <3>7. events[n] = s[order[n]]
      BY <2>4, <3>6
    <3>8. SameRecord(s[order[n]], s[k])
      BY <3>2
    <3>9. SameRecord(events[n], s[k])
      BY <3>7, <3>8
    <3>10. SameRecord(events[n], e)
      BY <3>1, <3>9
    <3>11. QED
      BY <3>6, <3>10
  <2>13. QED
    BY <2>8, <2>9, <2>10, <2>11, <2>12 DEF CollectionHonest, TruncatedExactly, UndatedLast
<1>3. QED
  BY <1>1, <1>2

(* Every collection says truncated exactly when a record is missing, keeps *)
(* the earliest reading of each and places no undated record before a dated*)
(* one, whatever the sources hold and however often they are read.         *)
THEOREM CollectionsAreHonest == HSpec => [](HTypeOK /\ CollectionHonest)
<1>1. HSpec => []HInv
  BY InitHInv, NextHInv, PTL DEF HSpec
<1>2. HInv => HTypeOK /\ CollectionHonest
  BY FinalizedHonest DEF HInv
<1>3. QED
  BY <1>1, <1>2, PTL

-----------------------------------------------------------------------------
(* Activity                                                                *)

(* Lists of as many numbers, no two the same, are ordered field by field.  *)
LEMMA LexicalOrders ==
  ASSUME NEW K, NEW key, NEW n \in Nat,
         \A x \in K : key[x] \in Seq(Int) /\ Len(key[x]) = n,
         \A x, y \in K : key[x] = key[y] => x = y,
         NEW R, R = {p \in K \X K : Lexical(key[p[1]], key[p[2]])}
  PROVE  Orders(K, R)
<1> DEFINE Less(x, y) == Lexical(key[x], key[y])
<1>1. \A x, y \in K : <<x, y>> \in R <=> Less(x, y)
  OBVIOUS
<1>2. \A x \in K : DOMAIN key[x] = 1..n /\ \A i \in 1..n : key[x][i] \in Int
  OBVIOUS
<1>3. \A x \in K : ~Less(x, x)
  BY <1>2 DEF Lexical
<1>4. ASSUME NEW x \in K, NEW y \in K, NEW z \in K, Less(x, y), Less(y, z)
      PROVE  Less(x, z)
  <2>1. PICK i \in 1..n : key[x][i] < key[y][i] /\ \A j \in 1..(i - 1) : key[x][j] = key[y][j]
    BY <1>2, <1>4 DEF Lexical
  <2>2. PICK k \in 1..n : key[y][k] < key[z][k] /\ \A j \in 1..(k - 1) : key[y][j] = key[z][j]
    BY <1>2, <1>4 DEF Lexical
  <2>3. /\ key[x][i] \in Int /\ key[y][i] \in Int /\ key[z][i] \in Int
        /\ key[x][k] \in Int /\ key[y][k] \in Int /\ key[z][k] \in Int
    BY <1>2
  <2>4. CASE i <= k
    <3>1. i = k \/ i \in 1..(k - 1)
      BY <2>4
    <3>2. key[x][i] < key[z][i]
      BY <2>1, <2>2, <2>3, <3>1
    <3>3. \A j \in 1..(i - 1) : j \in 1..(k - 1)
      BY <2>4
    <3>4. \A j \in 1..(i - 1) : key[x][j] = key[z][j]
      BY <2>1, <2>2, <3>3
    <3>5. QED
      BY <1>2, <3>2, <3>4 DEF Lexical
  <2>5. CASE k < i
    <3>1. k \in 1..(i - 1)
      BY <2>5
    <3>2. key[x][k] < key[z][k]
      BY <2>1, <2>2, <2>3, <3>1
    <3>3. \A j \in 1..(k - 1) : j \in 1..(i - 1)
      BY <2>5
    <3>4. \A j \in 1..(k - 1) : key[x][j] = key[z][j]
      BY <2>1, <2>2, <3>3
    <3>5. QED
      BY <1>2, <3>2, <3>4 DEF Lexical
  <2>6. QED
    BY <2>4, <2>5
<1>5. ASSUME NEW x \in K, NEW y \in K, x # y
      PROVE  Less(x, y) \/ Less(y, x)
  <2>1. PICK D : D = {i \in 1..n : key[x][i] # key[y][i]}
    OBVIOUS
  <2>2. D # {}
    <3>1. key[x] # key[y]
      BY <1>5
    <3>2. /\ key[x] \in Seq(Int) /\ key[y] \in Seq(Int) /\ Len(key[x]) = n /\ Len(key[y]) = n
      OBVIOUS
    <3>3. key[x] \in [1..n -> Int] /\ key[y] \in [1..n -> Int]
      BY <3>2
    <3>4. \E i \in 1..n : key[x][i] # key[y][i]
      BY <3>1, <3>3
    <3>5. QED
      BY <2>1, <3>4
  <2>3. D \in SUBSET Nat
    BY <2>1
  <2>4. Min(D) \in D /\ \A i \in D : Min(D) <= i
    BY <2>2, <2>3, LeastOf
  <2>5. PICK i : i = Min(D)
    OBVIOUS
  <2>6. i \in 1..n /\ key[x][i] # key[y][i] /\ \A j \in 1..(i - 1) : key[x][j] = key[y][j]
    <3>1. i \in D /\ \A j \in D : i <= j
      BY <2>4, <2>5
    <3>2. ASSUME NEW j \in 1..(i - 1) PROVE key[x][j] = key[y][j]
      <4>1. j \in 1..n /\ ~(i <= j)
        BY <2>1, <3>1
      <4>2. QED
        BY <2>1, <3>1, <4>1
    <3>3. QED
      BY <2>1, <3>1, <3>2
  <2>7. key[x][i] < key[y][i] \/ key[y][i] < key[x][i]
    BY <1>2, <2>6
  <2>8. QED
    BY <1>2, <2>6, <2>7 DEF Lexical
<1> HIDE DEF Less
<1>6. QED
  BY <1>1, <1>3, <1>4, <1>5 DEF Orders

(* A reference is one record's alone.                                      *)
LEMMA ReferencesDiffer ==
  ASSUME NEW s \in Seq(Event), NEW i \in DOMAIN s, NEW k \in DOMAIN s,
         Reference(s, i) = Reference(s, k)
  PROVE  i = k
<1> DEFINE before(j, n) == \/ Dated(s[j]) /\ ~Dated(s[n])
                           \/ /\ s[j].stamp = s[n].stamp
                              /\ s[j].id < s[n].id \/ (s[j].id = s[n].id /\ j <= n)
                           \/ Dated(s[j]) /\ s[j].stamp < s[n].stamp
           B(n) == {j \in DOMAIN s : s[j].kind = s[n].kind /\ before(j, n)}
<1>1. \A n \in DOMAIN s : Reference(s, n) = <<s[n].kind, Cardinality(B(n))>>
  BY DEF Reference
<1> HIDE DEF B
<1>2. s[i].kind = s[k].kind /\ Cardinality(B(i)) = Cardinality(B(k))
  BY <1>1
<1>3. \A n \in DOMAIN s : s[n].stamp \in Nat /\ s[n].id \in Nat /\ n \in Nat
  BY HistoryAssumption
<1>4. \A m, n, j \in DOMAIN s : before(j, m) /\ before(m, n) => before(j, n)
  BY <1>3 DEF Dated, Undated
<1>5. \A m, n \in DOMAIN s : before(m, n) \/ before(n, m)
  BY <1>3 DEF Dated, Undated
<1>6. \A m, n \in DOMAIN s : before(m, n) /\ before(n, m) => m = n
  BY <1>3 DEF Dated, Undated
<1> HIDE DEF before
<1> USE DEF B
<1>7. ASSUME NEW m \in DOMAIN s, NEW n \in DOMAIN s, s[m].kind = s[n].kind,
             Cardinality(B(m)) = Cardinality(B(n)), before(m, n)
      PROVE  m = n
  <2>1. IsFiniteSet(B(n))
    <3>1. IsFiniteSet(DOMAIN s) /\ B(n) \in SUBSET DOMAIN s
      BY FirstsFinite
    <3>2. QED
      BY <3>1, FS_Subset
  <2>2. B(m) \in SUBSET B(n)
    BY <1>4, <1>7
  <2>3. B(m) = B(n)
    BY <1>7, <2>1, <2>2, FS_Subset
  <2>4. n \in B(n)
    BY <1>5
  <2>5. before(n, m)
    BY <2>3, <2>4
  <2>6. QED
    BY <1>6, <1>7, <2>5
<1>8. QED
  BY <1>2, <1>5, <1>7

-----------------------------------------------------------------------------
(* The positions whose records have the key k.                             *)
KeyedAt(s, k) == {i \in DOMAIN s : Key(s[i]) = k}
RowAt(s, art, i) == [at |-> i, event |-> s[i], class |-> ClassOf(s, art, s[i]),
                   reference |-> Reference(s, i)]
RowsOf(s, art, k) == {RowAt(s, art, i) : i \in KeyedAt(s, k)}

LEMMA GroupsAre ==
  ASSUME NEW s, NEW art
  PROVE  Groups(s, art) = {Group(RowsOf(s, art, Key(s[i]))) : i \in DOMAIN s}
<1>1. Classified(s, art) = {RowAt(s, art, i) : i \in DOMAIN s}
  BY DEF Classified, RowAt
<1>2. \A k : {r \in Classified(s, art) : Key(r.event) = k} = RowsOf(s, art, k)
  BY <1>1 DEF RowsOf, KeyedAt, RowAt
<1>3. {Key(r.event) : r \in Classified(s, art)} = {Key(s[i]) : i \in DOMAIN s}
  <2>1. \A i \in DOMAIN s : RowAt(s, art, i).event = s[i]
    BY DEF RowAt
  <2>2. QED
    BY <1>1, <2>1
<1>4. Groups(s, art) = {Group(RowsOf(s, art, k)) : k \in {Key(s[i]) : i \in DOMAIN s}}
  <2>1. PICK C : C = Classified(s, art)
    OBVIOUS
  <2>2. Groups(s, art) = {Group({r \in C : Key(r.event) = k}) : k \in {Key(r.event) : r \in C}}
    BY <2>1, Zenon DEF Groups
  <2>3. \A k : Group({r \in C : Key(r.event) = k}) = Group(RowsOf(s, art, k))
    BY <1>2, <2>1, Zenon
  <2>4. PICK K : K = {Key(s[i]) : i \in DOMAIN s}
    OBVIOUS
  <2>5. Groups(s, art) = {Group({r \in C : Key(r.event) = k}) : k \in K}
    BY <1>3, <2>1, <2>2, <2>4, Zenon
  <2>6. ASSUME NEW g
        PROVE  g \in Groups(s, art) <=> \E k \in K : g = Group(RowsOf(s, art, k))
    BY <2>3, <2>5, Zenon
  <2>7. Groups(s, art) = {Group(RowsOf(s, art, k)) : k \in K}
    BY <2>6
  <2>8. QED
    BY <2>4, <2>7, Zenon
<1>5. QED
  BY <1>4

(* A class as classify_event gives it.                                     *)
Classes == [category : {"POTENTIALLY_HARMFUL", "NEEDS_REVIEW", "NOT_HARMFUL"},
            priority : Priority, score : Int,
            presentation : {"NEEDS_ATTENTION", "ROUTINE_RECOGNIZED", "FOR_REVIEW"},
            concerns : SUBSET DOMAIN ConcernWeight]

LEMMA ClassifyIs ==
  ASSUME NEW e, NEW n, NEW art
  PROVE  Classify(e, n, art) \in Classes
<1>1. Context(e) \in Nat
  BY DEF Context
<1>2. Support(e, n, art) \in Int
  BY DEF Support
<1>3. Concerns(e, art) \subseteq DOMAIN ConcernWeight
  BY DEF Concerns
<1>4. \A s \in DOMAIN ConcernWeight : ConcernWeight[s] \in Nat
  BY DEF ConcernWeight
<1>5. Score(e, n, art) \in Int
  BY <1>1, <1>2, <1>3, <1>4 DEF Score
<1>6. /\ Category(e, art) \in {"POTENTIALLY_HARMFUL", "NEEDS_REVIEW", "NOT_HARMFUL"}
      /\ Presentation(e, art) \in {"NEEDS_ATTENTION", "ROUTINE_RECOGNIZED", "FOR_REVIEW"}
      /\ PriorityOf(Score(e, n, art)) \in Priority
  BY DEF Category, Presentation, PriorityOf, Priority
<1>7. QED
  BY <1>3, <1>5, <1>6 DEF Classify, Classes, Priority

(* How little a class asks for attention: priority, then category.         *)
Mildness(c) == 3 * Rank(c.priority) + CategoryRank(c.category)

LEMMA MildnessOrders ==
  ASSUME NEW c \in Classes, NEW d \in Classes
  PROVE  /\ Mildness(c) \in Nat
         /\ MoreUrgent(c, d) <=> Mildness(c) < Mildness(d)
         /\ Mildness(c) = Mildness(d) => c.priority = d.priority /\ c.category = d.category
<1>1. /\ c.priority \in Priority /\ d.priority \in Priority
      /\ c.category \in {"POTENTIALLY_HARMFUL", "NEEDS_REVIEW", "NOT_HARMFUL"}
      /\ d.category \in {"POTENTIALLY_HARMFUL", "NEEDS_REVIEW", "NOT_HARMFUL"}
  BY DEF Classes
<1>2. /\ Rank(c.priority) \in 0..2 /\ Rank(d.priority) \in 0..2
      /\ Rank(c.priority) = Rank(d.priority) => c.priority = d.priority
  BY <1>1 DEF Rank, Priority
<1>3. /\ CategoryRank(c.category) \in 0..2 /\ CategoryRank(d.category) \in 0..2
      /\ CategoryRank(c.category) = CategoryRank(d.category) => c.category = d.category
  BY <1>1 DEF CategoryRank
<1>4. QED
  BY <1>2, <1>3 DEF Mildness, MoreUrgent

LEMMA ClassOfIs ==
  ASSUME NEW s, NEW art, NEW i \in DOMAIN s
  PROVE  /\ RowAt(s, art, i).class \in Classes /\ RowAt(s, art, i).class = ClassOf(s, art, s[i])
         /\ RowAt(s, art, i).at = i /\ RowAt(s, art, i).event = s[i]
         /\ RowAt(s, art, i).reference = Reference(s, i)
  BY ClassifyIs DEF RowAt, ClassOf

(* One of the records speaks for a group, and none is more urgent.         *)
LEMMA SomeoneSpeaks ==
  ASSUME NEW s \in Seq(Event), NEW art, NEW k, NEW i \in KeyedAt(s, k)
  PROVE  \E n \in KeyedAt(s, k) :
            /\ Speaks(RowsOf(s, art, k)) = RowAt(s, art, n)
            /\ \A j \in KeyedAt(s, k) :
                  Mildness(ClassOf(s, art, s[n])) <= Mildness(ClassOf(s, art, s[j]))
<1> DEFINE class(j) == ClassOf(s, art, s[j])
           mild(j) == Mildness(class(j))
           M == RowsOf(s, art, k)
<1>1. KeyedAt(s, k) \subseteq DOMAIN s /\ DOMAIN s \subseteq Nat
  BY DEF KeyedAt
<1>2. \A j \in KeyedAt(s, k) : class(j) \in Classes /\ mild(j) \in Nat
  BY <1>1, ClassOfIs, MildnessOrders
<1>3. \A j, n \in KeyedAt(s, k) : MoreUrgent(class(j), class(n)) <=> mild(j) < mild(n)
  BY <1>2, MildnessOrders
<1> HIDE DEF mild, class
<1>4. PICK U : U = {mild(j) : j \in KeyedAt(s, k)}
  OBVIOUS
<1>5. Min(U) \in U /\ \A y \in U : Min(U) <= y
  <2>1. U \in SUBSET Nat /\ U # {}
    BY <1>2, <1>4
  <2>2. QED
    BY <2>1, LeastOf
<1>6. PICK W : W = {j \in KeyedAt(s, k) : mild(j) = Min(U)}
  OBVIOUS
<1>7. Min(W) \in W /\ \A y \in W : Min(W) <= y
  <2>1. W \in SUBSET Nat /\ W # {}
    BY <1>1, <1>4, <1>5, <1>6
  <2>2. QED
    BY <2>1, LeastOf
<1>8. PICK n : n = Min(W)
  OBVIOUS
<1>9. n \in KeyedAt(s, k) /\ \A j \in KeyedAt(s, k) : mild(n) <= mild(j) /\ (mild(j) = mild(n) => n <= j)
  BY <1>4, <1>5, <1>6, <1>7, <1>8
<1>10. \A j \in KeyedAt(s, k) : /\ RowAt(s, art, j).class = class(j) /\ RowAt(s, art, j).at = j
  BY <1>1, ClassOfIs DEF class
<1>11. M = {RowAt(s, art, j) : j \in KeyedAt(s, k)}
  BY DEF RowsOf
<1> DEFINE Best(r) == \A q \in M :
               ~MoreUrgent(q.class, r.class) /\ (~MoreUrgent(r.class, q.class) => r.at <= q.at)
<1>12. RowAt(s, art, n) \in M /\ Best(RowAt(s, art, n))
  BY <1>1, <1>2, <1>3, <1>9, <1>10, <1>11
<1>13. ASSUME NEW m \in KeyedAt(s, k), Best(RowAt(s, art, m))
       PROVE  m = n
  <2>1. RowAt(s, art, n) \in M
    BY <1>12
  <2>2. mild(m) <= mild(n) /\ (~(mild(m) < mild(n)) => m <= n)
    BY <1>2, <1>3, <1>9, <1>10, <1>13, <2>1
  <2>3. QED
    BY <1>1, <1>2, <1>9, <2>2
<1>14. Speaks(M) = RowAt(s, art, n)
  <2>1. Speaks(M) = CHOOSE r \in M : Best(r)
    BY DEF Speaks
  <2>2. \A r \in M : Best(r) => r = RowAt(s, art, n)
    BY <1>11, <1>13
  <2> HIDE DEF Best
  <2>3. QED
    BY <1>12, <2>1, <2>2
<1>15. QED
  BY <1>9, <1>14 DEF mild, class

LEMMA MembersCounted ==
  ASSUME NEW s \in Seq(Event), NEW art, NEW k
  PROVE  /\ IsFiniteSet(KeyedAt(s, k)) /\ IsFiniteSet(RowsOf(s, art, k))
         /\ Cardinality(RowsOf(s, art, k)) = Cardinality(KeyedAt(s, k))
         /\ Cardinality(KeyedAt(s, k)) \in Nat
<1> DEFINE S == KeyedAt(s, k)
           T == RowsOf(s, art, k)
<1>1. S \in SUBSET DOMAIN s
  BY DEF KeyedAt
<1>2. IsFiniteSet(S)
  BY <1>1, FirstsFinite, FS_Subset
<1>3. PICK row : row = [i \in S |-> RowAt(s, art, i)]
  OBVIOUS
<1>4. row \in [S -> T] /\ \A t \in T : \E i \in S : row[i] = t
  BY <1>3 DEF RowsOf
<1>5. \A i, j \in S : row[i] = row[j] => i = j
  <2>1. \A i \in S : row[i].at = i
    BY <1>1, <1>3, ClassOfIs
  <2>2. QED
    BY <2>1
<1> HIDE DEF S, T
<1>6. row \in Bijection(S, T)
  BY <1>4, <1>5, Fun_IsInj, Fun_IsSurj DEF Bijection
<1>7. IsFiniteSet(T) /\ Cardinality(T) = Cardinality(S) /\ Cardinality(S) \in Nat
  BY <1>2, <1>6, FS_Bijection, FS_CardinalityType DEF ExistsBijection
<1>8. QED
  BY <1>2, <1>7 DEF S, T

(* What a group says of the records at I, the positions of its key.        *)
LEMMA GroupIs ==
  ASSUME NEW s \in Seq(Event), NEW art, NEW k, NEW i \in KeyedAt(s, k)
  PROVE  LET g == Group(RowsOf(s, art, k))
         IN  /\ g.key = k
             /\ g.occurrences = Cardinality(KeyedAt(s, k)) /\ g.occurrences \in Nat \ {0}
             /\ g.records = {Reference(s, j) : j \in KeyedAt(s, k)}
             /\ g.confirmed <=> \E j \in KeyedAt(s, k) : Confirmed(s[j])
             /\ g.class \in Classes
             /\ \E n \in KeyedAt(s, k) : g.class = ClassOf(s, art, s[n])
             /\ \A j \in KeyedAt(s, k) : Mildness(g.class) <= Mildness(ClassOf(s, art, s[j]))
<1>1. PICK M : M = RowsOf(s, art, k)
  OBVIOUS
<1>2. PICK n \in KeyedAt(s, k) :
         /\ Speaks(M) = RowAt(s, art, n)
         /\ \A j \in KeyedAt(s, k) : Mildness(ClassOf(s, art, s[n])) <= Mildness(ClassOf(s, art, s[j]))
  BY <1>1, SomeoneSpeaks
<1>3. KeyedAt(s, k) \subseteq DOMAIN s /\ \A j \in KeyedAt(s, k) : Key(s[j]) = k
  BY DEF KeyedAt
<1>4. \A j \in KeyedAt(s, k) : RowAt(s, art, j).reference = Reference(s, j)
  BY <1>3, ClassOfIs
<1>5. /\ RowAt(s, art, n).class \in Classes /\ RowAt(s, art, n).class = ClassOf(s, art, s[n])
      /\ Key(RowAt(s, art, n).event) = k
  BY <1>3, ClassOfIs
<1>6. {r.reference : r \in M} = {Reference(s, j) : j \in KeyedAt(s, k)}
  BY <1>1, <1>4 DEF RowsOf
<1>7. Cardinality(M) = Cardinality(KeyedAt(s, k)) /\ Cardinality(KeyedAt(s, k)) \in Nat \ {0}
  <2>1. /\ Cardinality(M) = Cardinality(KeyedAt(s, k)) /\ Cardinality(KeyedAt(s, k)) \in Nat
        /\ IsFiniteSet(KeyedAt(s, k))
    BY <1>1, MembersCounted
  <2>2. Cardinality(KeyedAt(s, k)) # 0
    BY <2>1, FS_EmptySet
  <2>3. QED
    BY <2>1, <2>2
<1>8. PICK g : g = Group(M)
  OBVIOUS
<1>9. /\ g.key = Key(Speaks(M).event) /\ g.class = Speaks(M).class
      /\ g.occurrences = Cardinality(M) /\ g.records = {r.reference : r \in M}
      /\ g.confirmed <=> \E r \in M : Confirmed(r.event)
  BY <1>8 DEF Group
<1>10. (\E r \in M : Confirmed(r.event)) <=> \E j \in KeyedAt(s, k) : Confirmed(s[j])
  <2>1. \A j \in KeyedAt(s, k) : RowAt(s, art, j).event = s[j]
    BY <1>3, ClassOfIs
  <2>2. QED
    BY <1>1, <2>1 DEF RowsOf
<1>11. QED
  BY <1>1, <1>2, <1>5, <1>6, <1>7, <1>8, <1>9, <1>10

(* The groups of a list of records, found by their keys.                   *)
LEMMA GroupsByKey ==
  ASSUME NEW s \in Seq(Event), NEW art
  PROVE  LET G == Groups(s, art)
             group == [i \in DOMAIN s |-> Group(RowsOf(s, art, Key(s[i])))]
         IN  /\ \A g \in G : \E i \in DOMAIN s : g = group[i]
             /\ \A i \in DOMAIN s :
                   /\ group[i] \in G /\ group[i].key = Key(s[i]) /\ i \in KeyedAt(s, Key(s[i]))
             /\ \A g, h \in G : g.key = h.key => g = h
             /\ IsFiniteSet(G)
<1> DEFINE G == Groups(s, art)
<1>1. PICK group : group = [i \in DOMAIN s |-> Group(RowsOf(s, art, Key(s[i])))]
  OBVIOUS
<1>2. G = {group[i] : i \in DOMAIN s}
  BY <1>1, GroupsAre
<1>3. \A i \in DOMAIN s : i \in KeyedAt(s, Key(s[i]))
  BY DEF KeyedAt
<1>4. \A i \in DOMAIN s : group[i].key = Key(s[i])
  BY <1>1, <1>3, GroupIs
<1>5. \A i, j \in DOMAIN s : Key(s[i]) = Key(s[j]) => group[i] = group[j]
  BY <1>1
<1>6. IsFiniteSet(G)
  <2>1. IsFiniteSet(DOMAIN s) /\ DOMAIN group = DOMAIN s
    BY <1>1, FirstsFinite
  <2> HIDE DEF G
  <2>2. QED
    BY <1>2, <2>1, ImageFinite
<1> HIDE DEF G
<1>7. QED
  BY <1>1, <1>2, <1>3, <1>4, <1>5, <1>6 DEF G

(* Every occurrence that the groups count is one of the records.           *)
LEMMA OccurrencesAreRecords ==
  ASSUME NEW s \in Seq(Event), NEW art
  PROVE  /\ Occurrences(Groups(s, art)) = Len(s)
         /\ IsFiniteSet(UNION {{g} \X (1..g.occurrences) : g \in Groups(s, art)})
<1>1. PICK G : G = Groups(s, art)
  OBVIOUS
<1>2. PICK group : group = [i \in DOMAIN s |-> Group(RowsOf(s, art, Key(s[i])))]
  OBVIOUS
<1>3. /\ \A g \in G : \E i \in DOMAIN s : g = group[i]
      /\ \A i \in DOMAIN s : group[i] \in G /\ group[i].key = Key(s[i]) /\ i \in KeyedAt(s, Key(s[i]))
      /\ \A g, h \in G : g.key = h.key => g = h
  BY <1>1, <1>2, GroupsByKey
<1>4. PICK U : U = UNION {{g} \X (1..g.occurrences) : g \in G}
  OBVIOUS
<1>5. PICK list : list = [g \in G |-> Ordered(KeyedAt(s, g.key), Ascending(DOMAIN s))]
  OBVIOUS
<1>6. ASSUME NEW g \in G
      PROVE  /\ g.occurrences = Len(list[g]) /\ list[g] \in Seq(KeyedAt(s, g.key))
             /\ DOMAIN list[g] = 1..Len(list[g])
             /\ \A i \in KeyedAt(s, g.key) : \E n \in DOMAIN list[g] : list[g][n] = i
             /\ \A m, n \in DOMAIN list[g] : list[g][m] = list[g][n] => m = n
  <2>1. PICK i \in DOMAIN s : g = group[i]
    BY <1>3
  <2>2. g.key = Key(s[i]) /\ i \in KeyedAt(s, g.key) /\ g = Group(RowsOf(s, art, g.key))
    BY <1>2, <1>3, <2>1
  <2>3. g.occurrences = Cardinality(KeyedAt(s, g.key))
    BY <2>2, GroupIs
  <2>4. PICK I : I = KeyedAt(s, g.key)
    OBVIOUS
  <2>5. PICK R : R = Ascending(DOMAIN s)
    OBVIOUS
  <2>6. IsFiniteSet(I) /\ Orders(I, R)
    <3>1. DOMAIN s \subseteq Int /\ I \subseteq DOMAIN s
      BY <2>4 DEF KeyedAt
    <3>2. QED
      BY <2>4, <2>5, <3>1, AscendingOrders, MembersCounted
  <2>7. list[g] = Ordered(I, R)
    BY <1>5, <2>4, <2>5
  <2>8. QED
    BY <2>3, <2>4, <2>6, <2>7, OrderedInOrder
<1>7. PICK place : place = [u \in U |-> list[u[1]][u[2]]]
  OBVIOUS
<1>8. \A u : u \in U <=> \E g \in G : \E n \in DOMAIN list[g] : u = <<g, n>>
  <2>1. \A g \in G : DOMAIN list[g] = 1..g.occurrences
    BY <1>6
  <2>2. \A u : u \in U <=> \E g \in G : u \in {g} \X (1..g.occurrences)
    BY <1>4, Zenon
  <2>3. \A g, u : u \in {g} \X (1..g.occurrences) <=> \E n \in 1..g.occurrences : u = <<g, n>>
    OBVIOUS
  <2>4. ASSUME NEW u
        PROVE  u \in U <=> \E g \in G : \E n \in DOMAIN list[g] : u = <<g, n>>
    <3>1. \A g \in G : u \in {g} \X (1..g.occurrences) <=> \E n \in DOMAIN list[g] : u = <<g, n>>
      BY <2>1, <2>3
    <3>2. u \in U <=> \E g \in G : u \in {g} \X (1..g.occurrences)
      BY <2>2
    <3>3. QED
      BY <3>1, <3>2, Zenon
  <2>5. QED
    BY <2>4
<1>9. \A g \in G : \A n \in DOMAIN list[g] : list[g][n] \in DOMAIN s /\ Key(s[list[g][n]]) = g.key
  <2>1. \A g \in G : \A n \in DOMAIN list[g] : list[g][n] \in KeyedAt(s, g.key)
    BY <1>6
  <2>2. QED
    BY <2>1 DEF KeyedAt
<1>10. \A g \in G : \A n \in DOMAIN list[g] : <<g, n>> \in U /\ place[<<g, n>>] = list[g][n]
  BY <1>7, <1>8
<1>11. place \in [U -> DOMAIN s]
  BY <1>7, <1>8, <1>9
<1>12. \A i \in DOMAIN s : \E u \in U : place[u] = i
  <2>1. ASSUME NEW i \in DOMAIN s PROVE \E u \in U : place[u] = i
    <3>1. group[i] \in G /\ i \in KeyedAt(s, group[i].key)
      BY <1>3
    <3>2. PICK n \in DOMAIN list[group[i]] : list[group[i]][n] = i
      BY <1>6, <3>1
    <3>3. QED
      BY <1>10, <3>1, <3>2
  <2>2. QED
    BY <2>1
<1>13. \A u, v \in U : place[u] = place[v] => u = v
  <2>1. ASSUME NEW g \in G, NEW m \in DOMAIN list[g], NEW h \in G, NEW n \in DOMAIN list[h],
               list[g][m] = list[h][n]
        PROVE  <<g, m>> = <<h, n>>
    <3>1. g = h
      BY <1>3, <1>9, <2>1
    <3>2. QED
      BY <1>6, <2>1, <3>1
  <2>2. QED
    BY <1>8, <1>10, <2>1
<1>14. place \in Bijection(U, DOMAIN s)
  BY <1>11, <1>12, <1>13, Fun_IsInj, Fun_IsSurj DEF Bijection
<1>15. IsFiniteSet(U) /\ Cardinality(U) = Len(s)
  <2>1. IsFiniteSet(DOMAIN s) /\ Cardinality(DOMAIN s) = Len(s)
    BY FirstsFinite
  <2>2. place \in Injection(U, DOMAIN s)
    BY <1>14 DEF Bijection
  <2>3. IsFiniteSet(U)
    BY <2>1, <2>2, FS_Injection
  <2>4. QED
    BY <1>14, <2>1, <2>3, FS_Bijection DEF ExistsBijection
<1>16. QED
  BY <1>1, <1>4, <1>15 DEF Occurrences

Tallies(G) == UNION {{g} \X (1..g.occurrences) : g \in G}

LEMMA TalliesAre ==
  \A G, u : u \in Tallies(G) <=> \E g \in G : u \in {g} \X (1..g.occurrences)
  BY Zenon DEF Tallies

(* Occurrences of groups add up.                                           *)
LEMMA OccurrencesAdd ==
  ASSUME NEW G, NEW H, G \cap H = {}, IsFiniteSet(Tallies(G)), IsFiniteSet(Tallies(H))
  PROVE  /\ Occurrences(G \cup H) = Occurrences(G) + Occurrences(H)
         /\ IsFiniteSet(Tallies(G \cup H))
<1>1. Tallies(G \cup H) = Tallies(G) \cup Tallies(H)
  <2>1. ASSUME NEW u PROVE u \in Tallies(G \cup H) <=> u \in Tallies(G) \/ u \in Tallies(H)
    <3>1. /\ u \in Tallies(G \cup H) <=> \E g \in G \cup H : u \in {g} \X (1..g.occurrences)
          /\ u \in Tallies(G) <=> \E g \in G : u \in {g} \X (1..g.occurrences)
          /\ u \in Tallies(H) <=> \E g \in H : u \in {g} \X (1..g.occurrences)
      BY TalliesAre, Zenon
    <3>2. QED
      BY <3>1, Zenon
  <2>2. QED
    BY <2>1
<1>2. Tallies(G) \cap Tallies(H) = {}
  <2>1. \A u : u \in Tallies(G) => u[1] \in G
    BY TalliesAre
  <2>2. \A u : u \in Tallies(H) => u[1] \in H
    BY TalliesAre
  <2>3. QED
    BY <2>1, <2>2
<1>3. /\ Occurrences(G \cup H) = Cardinality(Tallies(G \cup H))
      /\ Occurrences(G) = Cardinality(Tallies(G)) /\ Occurrences(H) = Cardinality(Tallies(H))
  BY Zenon DEF Occurrences, Tallies
<1>4. PICK P : P = Tallies(G)
  OBVIOUS
<1>5. PICK Q : Q = Tallies(H)
  OBVIOUS
<1>6. /\ IsFiniteSet(P \cup Q)
      /\ Cardinality(P \cup Q) = Cardinality(P) + Cardinality(Q) - Cardinality(P \cap Q)
  BY <1>4, <1>5, FS_Union
<1>7. Cardinality(P \cap Q) = 0 /\ Cardinality(P) \in Nat /\ Cardinality(Q) \in Nat
  BY <1>2, <1>4, <1>5, FS_EmptySet, FS_CardinalityType
<1>8. QED
  <2>1. Tallies(G \cup H) = P \cup Q /\ Occurrences(G \cup H) = Cardinality(P \cup Q)
    BY <1>1, <1>3, <1>4, <1>5
  <2>2. Occurrences(G) = Cardinality(P) /\ Occurrences(H) = Cardinality(Q)
    BY <1>3, <1>4, <1>5
  <2>3. Cardinality(P \cup Q) = Cardinality(P) + Cardinality(Q)
    BY <1>6, <1>7
  <2>4. QED
    BY <1>6, <2>1, <2>2, <2>3

(* The totals by category add up to the records.                           *)
LEMMA CategoriesAddUp ==
  ASSUME NEW s \in Seq(Event), NEW art
  PROVE  LET G == Groups(s, art)
         IN  Len(s) = CountOf(G, "POTENTIALLY_HARMFUL") + CountOf(G, "NEEDS_REVIEW")
                          + CountOf(G, "NOT_HARMFUL")
<1>1. PICK G : G = Groups(s, art)
  OBVIOUS
<1> DEFINE Of(c) == {g \in G : g.class.category = c}
<1>2. \A g \in G : g.class.category \in {"POTENTIALLY_HARMFUL", "NEEDS_REVIEW", "NOT_HARMFUL"}
  <2>1. PICK group : group = [i \in DOMAIN s |-> Group(RowsOf(s, art, Key(s[i])))]
    OBVIOUS
  <2>2. \A i \in DOMAIN s : group[i].class \in Classes
    <3>1. \A i \in DOMAIN s : i \in KeyedAt(s, Key(s[i]))
      BY DEF KeyedAt
    <3>2. QED
      BY <2>1, <3>1, GroupIs
  <2>3. \A g \in G : \E i \in DOMAIN s : g = group[i]
    BY <1>1, <2>1, GroupsByKey
  <2>4. QED
    BY <2>2, <2>3 DEF Classes
<1>3. Occurrences(G) = Len(s) /\ IsFiniteSet(Tallies(G))
  BY <1>1, OccurrencesAreRecords DEF Tallies
<1>4. ASSUME NEW H, H \subseteq G PROVE IsFiniteSet(Tallies(H))
  <2>1. \A u : u \in Tallies(H) => u \in Tallies(G)
    BY <1>4, TalliesAre, Zenon
  <2>2. Tallies(H) \in SUBSET Tallies(G)
    BY <2>1
  <2>3. QED
    BY <1>3, <2>2, FS_Subset
<1>5. \A c, d : c # d => Of(c) \cap Of(d) = {}
  OBVIOUS
<1>6. G = (Of("POTENTIALLY_HARMFUL") \cup Of("NEEDS_REVIEW")) \cup Of("NOT_HARMFUL")
  BY <1>2
<1>7. (Of("POTENTIALLY_HARMFUL") \cup Of("NEEDS_REVIEW")) \cap Of("NOT_HARMFUL") = {}
  BY <1>5
<1>8. \A c : IsFiniteSet(Tallies(Of(c))) /\ CountOf(G, c) = Occurrences(Of(c))
  BY <1>4 DEF CountOf
<1> HIDE DEF Of
<1>9. PICK A : A = Of("POTENTIALLY_HARMFUL")
  OBVIOUS
<1>10. PICK B : B = Of("NEEDS_REVIEW")
  OBVIOUS
<1>11. PICK C : C = Of("NOT_HARMFUL")
  OBVIOUS
<1>12. A \cap B = {} /\ (A \cup B) \cap C = {} /\ G = (A \cup B) \cup C
  BY <1>5, <1>6, <1>7, <1>9, <1>10, <1>11
<1>13. IsFiniteSet(Tallies(A)) /\ IsFiniteSet(Tallies(B)) /\ IsFiniteSet(Tallies(C))
  BY <1>8, <1>9, <1>10, <1>11
<1>14. Occurrences(A \cup B) = Occurrences(A) + Occurrences(B) /\ IsFiniteSet(Tallies(A \cup B))
  BY <1>12, <1>13, OccurrencesAdd
<1>15. PICK AB : AB = A \cup B
  OBVIOUS
<1>16. Occurrences(AB \cup C) = Occurrences(AB) + Occurrences(C)
  BY <1>12, <1>13, <1>14, <1>15, OccurrencesAdd
<1>17. Len(s) = Occurrences(A) + Occurrences(B) + Occurrences(C)
  BY <1>3, <1>12, <1>14, <1>15, <1>16
<1>18. QED
  BY <1>1, <1>8, <1>9, <1>10, <1>11, <1>17

(* Every record is in the group of its key, and in no other.               *)
LEMMA InOneGroup ==
  ASSUME NEW s \in Seq(Event), NEW art, NEW i \in DOMAIN s
  PROVE  Cardinality({g \in Groups(s, art) : Reference(s, i) \in g.records}) = 1
<1>1. PICK G : G = Groups(s, art)
  OBVIOUS
<1>2. PICK group : group = [j \in DOMAIN s |-> Group(RowsOf(s, art, Key(s[j])))]
  OBVIOUS
<1>3. /\ \A g \in G : \E j \in DOMAIN s : g = group[j]
      /\ \A j \in DOMAIN s : group[j] \in G /\ group[j].key = Key(s[j]) /\ j \in KeyedAt(s, Key(s[j]))
      /\ \A g, h \in G : g.key = h.key => g = h
  BY <1>1, <1>2, GroupsByKey
<1>4. \A j \in DOMAIN s : group[j].records = {Reference(s, n) : n \in KeyedAt(s, Key(s[j]))}
  BY <1>2, <1>3, GroupIs
<1>5. Reference(s, i) \in group[i].records
  BY <1>3, <1>4
<1>6. ASSUME NEW g \in G, Reference(s, i) \in g.records PROVE g = group[i]
  <2>1. PICK j \in DOMAIN s : g = group[j]
    BY <1>3
  <2>2. PICK n \in KeyedAt(s, Key(s[j])) : Reference(s, i) = Reference(s, n)
    BY <1>4, <1>6, <2>1
  <2>3. n \in DOMAIN s /\ Key(s[n]) = Key(s[j])
    BY <2>2 DEF KeyedAt
  <2>4. i = n
    BY <2>2, <2>3, ReferencesDiffer
  <2>5. QED
    BY <1>3, <2>1, <2>3, <2>4
<1>7. {g \in G : Reference(s, i) \in g.records} = {group[i]}
  BY <1>3, <1>5, <1>6
<1>8. QED
  BY <1>1, <1>7, FS_Singleton

-----------------------------------------------------------------------------
(* t has the records of s in another order, and those of one time in the   *)
(* same.                                                                   *)
Rearranges(s, t, b) ==
    /\ \A n \in DOMAIN t : t[n] = s[b[n]]
    /\ \A m, n \in DOMAIN t : t[m].stamp = t[n].stamp => (m <= n <=> b[m] <= b[n])

(* The rows that are read back are the records in some other order.        *)
LEMMA RereadRearranges ==
  ASSUME NEW s \in Seq(Event)
  PROVE  LET t == Reread(s)
         IN  /\ t \in Seq(Event)
             /\ \E b \in Bijection(DOMAIN t, DOMAIN s) : Rearranges(s, t, b)
<1>1. PICK U : U = {e \in ToSet(s) : ~Dated(e)}
  OBVIOUS
<1>2. PICK D : D = {e \in ToSet(s) : Dated(e)}
  OBVIOUS
<1>3. \A i \in DOMAIN s : s[i] \in ToSet(s)
  BY DEF ToSet
<1>4. PICK u \in Seq(DOMAIN s) :
         /\ DOMAIN u = 1..Len(u) /\ Where(s, U) = [n \in DOMAIN u |-> s[u[n]]]
         /\ \A n \in DOMAIN u : u[n] \in DOMAIN s /\ s[u[n]] \in U
         /\ \A i \in DOMAIN s : s[i] \in U => \E n \in DOMAIN u : u[n] = i
         /\ \A m, n \in DOMAIN u : u[m] = u[n] => m = n
         /\ \A m, n \in DOMAIN u : m < n <=> u[m] < u[n]
  <2>1. PICK at \in Seq(DOMAIN s) : Picks(s, U, at)
    BY WherePicks
  <2>2. QED
    BY <2>1 DEF Picks
<1>5. PICK d \in Seq(DOMAIN s) :
         /\ DOMAIN d = 1..Len(d) /\ Where(s, D) = [n \in DOMAIN d |-> s[d[n]]]
         /\ \A n \in DOMAIN d : d[n] \in DOMAIN s /\ s[d[n]] \in D
         /\ \A i \in DOMAIN s : s[i] \in D => \E n \in DOMAIN d : d[n] = i
         /\ \A m, n \in DOMAIN d : d[m] = d[n] => m = n
         /\ \A m, n \in DOMAIN d : m < n <=> d[m] < d[n]
  <2>1. PICK at \in Seq(DOMAIN s) : Picks(s, D, at)
    BY WherePicks
  <2>2. QED
    BY <2>1 DEF Picks
<1>6. PICK b : b = u \o d
  OBVIOUS
<1>7. /\ b \in Seq(DOMAIN s) /\ Len(b) = Len(u) + Len(d) /\ DOMAIN b = 1..(Len(u) + Len(d))
      /\ \A n \in 1..Len(u) : b[n] = u[n]
      /\ \A n \in 1..Len(d) : b[Len(u) + n] = d[n]
      /\ \A n \in DOMAIN b : n \in 1..Len(u) \/ ((n - Len(u)) \in 1..Len(d) /\ n = Len(u) + (n - Len(u)))
  BY <1>6
<1>8. PICK v : v = Where(s, U)
  OBVIOUS
<1>9. PICK w : w = Where(s, D)
  OBVIOUS
<1>10. /\ v \in Seq(Event) /\ w \in Seq(Event) /\ Len(v) = Len(u) /\ Len(w) = Len(d)
       /\ \A n \in 1..Len(u) : v[n] = s[u[n]]
       /\ \A n \in 1..Len(d) : w[n] = s[d[n]]
  <2>1. /\ v \in Seq(Event) /\ DOMAIN v = 1..Len(v)
    BY <1>8, WhereSelects
  <2>2. /\ w \in Seq(Event) /\ DOMAIN w = 1..Len(w)
    BY <1>9, WhereSelects
  <2>3. Len(v) = Len(u) /\ Len(w) = Len(d)
    BY <1>4, <1>5, <1>8, <1>9, <2>1, <2>2
  <2>4. QED
    BY <1>4, <1>5, <1>8, <1>9, <2>1, <2>2, <2>3
<1>11. PICK t : t = v \o w
  OBVIOUS
<1>12. t \in Seq(Event) /\ Len(t) = Len(u) + Len(d) /\ DOMAIN t = DOMAIN b
  <2>1. t \in Seq(Event) /\ Len(t) = Len(v) + Len(w)
    BY <1>10, <1>11, JoinedLists
  <2>2. DOMAIN t = 1..Len(t)
    BY <2>1
  <2>3. QED
    BY <1>7, <1>10, <2>1, <2>2
<1>13. \A n \in DOMAIN t : t[n] = s[b[n]]
  <2>1. ASSUME NEW n \in 1..Len(u) PROVE t[n] = s[b[n]]
    BY <1>7, <1>10, <1>11
  <2>2. ASSUME NEW n \in 1..Len(d) PROVE t[Len(u) + n] = s[b[Len(u) + n]]
    <3>1. t[Len(v) + n] = w[n]
      BY <1>10, <1>11
    <3>2. QED
      BY <1>7, <1>10, <3>1
  <2>3. ASSUME NEW n \in DOMAIN t PROVE t[n] = s[b[n]]
    <3>1. CASE n \in 1..Len(u)
      BY <2>1, <3>1
    <3>2. CASE n - Len(u) \in 1..Len(d) /\ n = Len(u) + (n - Len(u))
      BY <2>2, <3>2
    <3>3. QED
      BY <1>7, <1>12, <3>1, <3>2
  <2>4. QED
    BY <2>3
<1>14. \A n \in DOMAIN b : b[n] \in DOMAIN s
  BY <1>4, <1>5, <1>7
<1>15. \A i \in DOMAIN s : \E n \in DOMAIN b : b[n] = i
  <2>1. ASSUME NEW i \in DOMAIN s PROVE \E n \in DOMAIN b : b[n] = i
    <3>1. s[i] \in U \/ s[i] \in D
      BY <1>1, <1>2, <1>3
    <3>2. CASE s[i] \in U
      <4>1. PICK n \in 1..Len(u) : u[n] = i
        BY <1>4, <3>2
      <4>2. n \in DOMAIN b /\ b[n] = i
        BY <1>7, <4>1
      <4>3. QED
        BY <4>2
    <3>3. CASE s[i] \in D
      <4>1. PICK n \in 1..Len(d) : d[n] = i
        BY <1>5, <3>3
      <4>2. Len(u) + n \in DOMAIN b /\ b[Len(u) + n] = i
        BY <1>7, <4>1
      <4>3. QED
        BY <4>2
    <3>4. QED
      BY <3>1, <3>2, <3>3
  <2>2. QED
    BY <2>1
<1>16. \A m, n \in DOMAIN b : b[m] = b[n] => m = n
  <2>1. \A n \in 1..Len(u) : ~Dated(s[b[n]])
    BY <1>1, <1>4, <1>7
  <2>2. \A n \in 1..Len(d) : Dated(s[b[Len(u) + n]])
    BY <1>2, <1>5, <1>7
  <2>3. ASSUME NEW m \in DOMAIN b, NEW n \in DOMAIN b, b[m] = b[n] PROVE m = n
    <3>1. CASE m \in 1..Len(u) /\ n \in 1..Len(u)
      BY <1>4, <1>7, <2>3, <3>1
    <3>2. CASE m \in 1..Len(u) /\ n - Len(u) \in 1..Len(d) /\ n = Len(u) + (n - Len(u))
      BY <2>1, <2>2, <2>3, <3>2
    <3>3. CASE n \in 1..Len(u) /\ m - Len(u) \in 1..Len(d) /\ m = Len(u) + (m - Len(u))
      BY <2>1, <2>2, <2>3, <3>3
    <3>4. CASE /\ m - Len(u) \in 1..Len(d) /\ m = Len(u) + (m - Len(u))
               /\ n - Len(u) \in 1..Len(d) /\ n = Len(u) + (n - Len(u))
      <4>1. PICK p \in 1..Len(d) : m = Len(u) + p
        BY <3>4
      <4>2. PICK q \in 1..Len(d) : n = Len(u) + q
        BY <3>4
      <4>3. d[p] = d[q]
        BY <1>7, <2>3, <4>1, <4>2
      <4>4. QED
        BY <1>5, <4>1, <4>2, <4>3
    <3>5. QED
      BY <1>7, <3>1, <3>2, <3>3, <3>4
  <2>4. QED
    BY <2>3
<1>17. b \in Bijection(DOMAIN t, DOMAIN s)
  <2>1. b \in [DOMAIN t -> DOMAIN s]
    BY <1>7, <1>12, <1>14
  <2>2. QED
    BY <1>12, <1>15, <1>16, <2>1, Fun_IsInj, Fun_IsSurj DEF Bijection
<1>18. Reread(s) = t
  BY <1>1, <1>2, <1>8, <1>9, <1>11 DEF Reread
<1>19. ASSUME NEW m \in DOMAIN t, NEW n \in DOMAIN t, t[m].stamp = t[n].stamp
       PROVE  m <= n <=> b[m] <= b[n]
  <2>1. \A k \in 1..Len(u) : ~Dated(t[k])
    <3>1. \A k \in 1..Len(u) : ~Dated(s[b[k]])
      BY <1>1, <1>4, <1>7
    <3>2. \A k \in 1..Len(u) : k \in DOMAIN t
      BY <1>7, <1>12
    <3>3. QED
      BY <1>13, <3>1, <3>2
  <2>2. \A k \in 1..Len(d) : Dated(t[Len(u) + k])
    <3>1. \A k \in 1..Len(d) : Dated(s[b[Len(u) + k]])
      BY <1>2, <1>5, <1>7
    <3>2. \A k \in 1..Len(d) : Len(u) + k \in DOMAIN t
      BY <1>7, <1>12
    <3>3. QED
      BY <1>13, <3>1, <3>2
  <2>3. Dated(t[m]) <=> Dated(t[n])
    BY <1>19 DEF Dated
  <2>4. \A k \in DOMAIN u : u[k] \in Nat
    BY <1>4
  <2>5. \A k \in DOMAIN d : d[k] \in Nat
    BY <1>5
  <2>6. CASE m \in 1..Len(u) /\ n \in 1..Len(u)
    <3>1. (n < m <=> u[n] < u[m]) /\ u[m] \in Nat /\ u[n] \in Nat /\ m \in Nat /\ n \in Nat
      BY <1>4, <2>4, <2>6
    <3>2. b[m] = u[m] /\ b[n] = u[n]
      BY <1>7, <2>6
    <3>3. QED
      BY <3>1, <3>2
  <2>7. CASE m - Len(u) \in 1..Len(d) /\ n - Len(u) \in 1..Len(d)
    <3>1. PICK p \in 1..Len(d) : m = Len(u) + p
      BY <1>7, <1>12, <2>7
    <3>2. PICK q \in 1..Len(d) : n = Len(u) + q
      BY <1>7, <1>12, <2>7
    <3>3. (q < p <=> d[q] < d[p]) /\ d[p] \in Nat /\ d[q] \in Nat /\ b[m] = d[p] /\ b[n] = d[q]
      BY <1>5, <1>7, <2>5, <3>1, <3>2
    <3>4. QED
      BY <3>1, <3>2, <3>3
  <2>8. CASE m \in 1..Len(u) /\ n - Len(u) \in 1..Len(d) /\ n = Len(u) + (n - Len(u))
    BY <2>1, <2>2, <2>3, <2>8
  <2>9. CASE n \in 1..Len(u) /\ m - Len(u) \in 1..Len(d) /\ m = Len(u) + (m - Len(u))
    BY <2>1, <2>2, <2>3, <2>9
  <2>10. QED
    BY <1>7, <1>12, <2>6, <2>7, <2>8, <2>9
<1>20. Rearranges(s, t, b)
  BY <1>13, <1>19 DEF Rearranges
<1>21. QED
  BY <1>12, <1>17, <1>18, <1>20

(* In that order every record has the reference it had.                    *)
LEMMA ReferencesKept ==
  ASSUME NEW s \in Seq(Event), NEW t \in Seq(Event),
         NEW b \in Bijection(DOMAIN t, DOMAIN s), Rearranges(s, t, b), NEW n \in DOMAIN t
  PROVE  Reference(t, n) = Reference(s, b[n])
<1> DEFINE before(u, k, i) == \/ Dated(u[k]) /\ ~Dated(u[i])
                              \/ /\ u[k].stamp = u[i].stamp
                                 /\ u[k].id < u[i].id \/ (u[k].id = u[i].id /\ k <= i)
                              \/ Dated(u[k]) /\ u[k].stamp < u[i].stamp
           ahead(u, i) == {k \in DOMAIN u : u[k].kind = u[i].kind /\ before(u, k, i)}
<1>1. /\ b \in [DOMAIN t -> DOMAIN s] /\ \A k, m \in DOMAIN t : b[k] = b[m] => k = m
      /\ \A i \in DOMAIN s : \E k \in DOMAIN t : b[k] = i
  BY DEF Bijection, Injection, Surjection, IsInjective
<1>2. /\ Reference(t, n) = <<t[n].kind, Cardinality(ahead(t, n))>>
      /\ Reference(s, b[n]) = <<s[b[n]].kind, Cardinality(ahead(s, b[n]))>>
  BY DEF Reference
<1>3. \A k \in DOMAIN t : t[k] = s[b[k]] /\ (t[k].stamp = t[n].stamp => (k <= n <=> b[k] <= b[n]))
  BY DEF Rearranges
<1>4. \A k \in DOMAIN t : before(t, k, n) <=> before(s, b[k], b[n])
  BY <1>3
<1>5. PICK I : I = ahead(t, n)
  OBVIOUS
<1>6. PICK J : J = ahead(s, b[n])
  OBVIOUS
<1>7. \A k \in DOMAIN t : k \in I <=> b[k] \in J
  <2> HIDE DEF before
  <2>1. QED
    BY <1>1, <1>3, <1>4, <1>5, <1>6
<1>8. I \subseteq DOMAIN t /\ J \subseteq DOMAIN s
  BY <1>5, <1>6
<1>9. PICK c : c = [k \in I |-> b[k]]
  OBVIOUS
<1>10. /\ c \in [I -> J] /\ \A k, m \in I : c[k] = c[m] => k = m
       /\ \A j \in J : \E k \in I : c[k] = j
  BY <1>1, <1>7, <1>8, <1>9
<1>11. c \in Bijection(I, J)
  BY <1>10, Fun_IsInj, Fun_IsSurj DEF Bijection
<1>12. IsFiniteSet(I)
  <2>1. IsFiniteSet(DOMAIN t) /\ I \in SUBSET DOMAIN t
    BY <1>8, FirstsFinite
  <2>2. QED
    BY <2>1, FS_Subset
<1>13. Cardinality(I) = Cardinality(J)
  BY <1>11, <1>12, FS_Bijection DEF ExistsBijection
<1>14. QED
  BY <1>2, <1>3, <1>5, <1>6, <1>13

(* Two groups of the same records, read alike.                             *)
SameActivity(g, h) ==
    /\ g.key = h.key /\ g.occurrences = h.occurrences /\ g.records = h.records
    /\ g.confirmed <=> h.confirmed
    /\ g.class.priority = h.class.priority /\ g.class.category = h.class.category

(* Records in another order fall into the same groups, with the same       *)
(* priority and category.                                                  *)
LEMMA OrderDoesNotMatter ==
  ASSUME NEW s \in Seq(Event), NEW t \in Seq(Event), NEW art,
         NEW b \in Bijection(DOMAIN t, DOMAIN s), Rearranges(s, t, b), NEW m \in DOMAIN t
  PROVE  /\ Group(RowsOf(t, art, Key(t[m]))) \in Groups(t, art)
         /\ Group(RowsOf(s, art, Key(t[m]))) \in Groups(s, art)
         /\ SameActivity(Group(RowsOf(t, art, Key(t[m]))), Group(RowsOf(s, art, Key(t[m]))))
<1> \A n \in DOMAIN t : t[n] = s[b[n]]
  BY DEF Rearranges
<1>1. /\ b \in [DOMAIN t -> DOMAIN s] /\ \A p, n \in DOMAIN t : b[p] = b[n] => p = n
      /\ \A i \in DOMAIN s : \E n \in DOMAIN t : b[n] = i
  BY DEF Bijection, Injection, Surjection, IsInjective
<1>2. ASSUME NEW image PROVE Sources(t, image) = Sources(s, image)
  <2>1. ASSUME NEW x PROVE x \in Sources(t, image) <=> x \in Sources(s, image)
    <3>1. x \in Sources(t, image) <=> \E n \in DOMAIN t : t[n].image = image /\ x = t[n].source
      BY DEF Sources
    <3>2. x \in Sources(s, image) <=> \E i \in DOMAIN s : s[i].image = image /\ x = s[i].source
      BY DEF Sources
    <3>3. QED
      BY <1>1, <3>1, <3>2
  <2>2. QED
    BY <2>1 DEF Sources
<1>3. \A e : ClassOf(t, art, e) = ClassOf(s, art, e)
  <2>1. ASSUME NEW e PROVE ClassOf(t, art, e) = ClassOf(s, art, e)
    <3>1. Sources(t, e.image) = Sources(s, e.image)
      BY <1>2
    <3>2. QED
      BY <3>1 DEF ClassOf
  <2>2. QED
    BY <2>1
<1>4. PICK told : told = Group(RowsOf(t, art, Key(t[m])))
  OBVIOUS
<1>5. PICK k : k = Key(t[m])
  OBVIOUS
<1>6. PICK i : i = b[m]
  OBVIOUS
<1>7. i \in DOMAIN s /\ Key(s[i]) = k /\ i \in KeyedAt(s, k) /\ m \in KeyedAt(t, k)
  BY <1>1, <1>5, <1>6 DEF KeyedAt
<1>8. PICK stored : stored = Group(RowsOf(s, art, k))
  OBVIOUS
<1>9. stored \in Groups(s, art) /\ told \in Groups(t, art)
  <2>1. Groups(s, art) = {Group(RowsOf(s, art, Key(s[j]))) : j \in DOMAIN s}
    BY GroupsAre
  <2>2. Groups(t, art) = {Group(RowsOf(t, art, Key(t[j]))) : j \in DOMAIN t}
    BY GroupsAre
  <2>3. stored = Group(RowsOf(s, art, Key(s[i])))
    BY <1>7, <1>8
  <2>4. QED
    BY <1>4, <1>7, <2>1, <2>2, <2>3
<1>10. /\ told.key = k /\ told.occurrences = Cardinality(KeyedAt(t, k)) /\ told.class \in Classes
       /\ told.records = {Reference(t, j) : j \in KeyedAt(t, k)}
       /\ told.confirmed <=> \E j \in KeyedAt(t, k) : Confirmed(t[j])
       /\ \E n \in KeyedAt(t, k) : told.class = ClassOf(t, art, t[n])
       /\ \A j \in KeyedAt(t, k) : Mildness(told.class) <= Mildness(ClassOf(t, art, t[j]))
  BY <1>4, <1>5, <1>7, GroupIs
<1>11. /\ stored.key = k /\ stored.occurrences = Cardinality(KeyedAt(s, k)) /\ stored.class \in Classes
       /\ stored.records = {Reference(s, j) : j \in KeyedAt(s, k)}
       /\ stored.confirmed <=> \E j \in KeyedAt(s, k) : Confirmed(s[j])
       /\ \E n \in KeyedAt(s, k) : stored.class = ClassOf(s, art, s[n])
       /\ \A j \in KeyedAt(s, k) : Mildness(stored.class) <= Mildness(ClassOf(s, art, s[j]))
  BY <1>7, <1>8, GroupIs
<1>12. \A n \in DOMAIN t : n \in KeyedAt(t, k) <=> b[n] \in KeyedAt(s, k)
  BY <1>1 DEF KeyedAt
<1>13. Cardinality(KeyedAt(t, k)) = Cardinality(KeyedAt(s, k))
  <2>1. PICK I : I = KeyedAt(t, k)
    OBVIOUS
  <2>2. PICK J : J = KeyedAt(s, k)
    OBVIOUS
  <2>3. I \subseteq DOMAIN t /\ J \subseteq DOMAIN s
    BY <2>1, <2>2 DEF KeyedAt
  <2>4. PICK c : c = [n \in I |-> b[n]]
    OBVIOUS
  <2>5. /\ c \in [I -> J] /\ \A p, n \in I : c[p] = c[n] => p = n
        /\ \A j \in J : \E n \in I : c[n] = j
    BY <1>1, <1>12, <2>1, <2>2, <2>3, <2>4
  <2>6. c \in Bijection(I, J)
    BY <2>5, Fun_IsInj, Fun_IsSurj DEF Bijection
  <2>7. IsFiniteSet(I)
    BY <2>1, MembersCounted
  <2>8. QED
    BY <2>1, <2>2, <2>6, <2>7, FS_Bijection DEF ExistsBijection
<1>14. \A n \in KeyedAt(t, k) : b[n] \in KeyedAt(s, k) /\ ClassOf(s, art, s[b[n]]) = ClassOf(t, art, t[n])
  BY <1>3, <1>12 DEF KeyedAt
<1>15. \A j \in KeyedAt(s, k) : \E n \in KeyedAt(t, k) : ClassOf(s, art, s[j]) = ClassOf(t, art, t[n])
  <2>1. KeyedAt(s, k) \subseteq DOMAIN s
    BY DEF KeyedAt
  <2>2. QED
    BY <1>1, <1>12, <1>14, <2>1
<1>16. Mildness(told.class) = Mildness(stored.class)
  <2>1. Mildness(told.class) \in Nat /\ Mildness(stored.class) \in Nat
    BY <1>10, <1>11, MildnessOrders
  <2>2. Mildness(stored.class) <= Mildness(told.class)
    BY <1>10, <1>11, <1>14
  <2>3. Mildness(told.class) <= Mildness(stored.class)
    BY <1>10, <1>11, <1>15
  <2>4. QED
    BY <2>1, <2>2, <2>3
<1>17. stored.class.priority = told.class.priority /\ stored.class.category = told.class.category
  BY <1>10, <1>11, <1>16, MildnessOrders
<1>18. /\ KeyedAt(t, k) \subseteq DOMAIN t /\ KeyedAt(s, k) \subseteq DOMAIN s
       /\ \A n \in KeyedAt(t, k) : b[n] \in KeyedAt(s, k)
       /\ \A j \in KeyedAt(s, k) : \E n \in KeyedAt(t, k) : b[n] = j
  BY <1>1, <1>12 DEF KeyedAt
<1>19. told.records = stored.records
  <2>1. \A n \in KeyedAt(t, k) : Reference(t, n) = Reference(s, b[n])
    BY <1>18, ReferencesKept
  <2>2. ASSUME NEW x \in told.records PROVE x \in stored.records
    <3>1. PICK n \in KeyedAt(t, k) : x = Reference(t, n)
      BY <1>10
    <3>2. x = Reference(s, b[n]) /\ b[n] \in KeyedAt(s, k)
      BY <1>18, <2>1, <3>1
    <3>3. QED
      BY <1>11, <3>2
  <2>3. ASSUME NEW x \in stored.records PROVE x \in told.records
    <3>1. PICK j \in KeyedAt(s, k) : x = Reference(s, j)
      BY <1>11
    <3>2. PICK n \in KeyedAt(t, k) : b[n] = j
      BY <1>18
    <3>3. x = Reference(t, n)
      BY <2>1, <3>1, <3>2
    <3>4. QED
      BY <1>10, <3>3
  <2>4. QED
    BY <2>2, <2>3
<1>20. told.confirmed <=> stored.confirmed
  BY <1>10, <1>11, <1>18
<1>21. QED
  BY <1>4, <1>5, <1>8, <1>9, <1>10, <1>11, <1>13, <1>17, <1>19, <1>20 DEF SameActivity

(* What a report groups again is what was grouped.                         *)
LEMMA ToldAsStored ==
  ASSUME NEW s \in Seq(Event), NEW art
  PROVE  /\ \A told \in Groups(Reread(s), art) :
               \E stored \in Groups(s, art) : SameActivity(told, stored)
         /\ \A stored \in Groups(s, art) :
               \E told \in Groups(Reread(s), art) : SameActivity(told, stored)
<1>1. PICK t : t = Reread(s)
  OBVIOUS
<1>2. t \in Seq(Event) /\ \E b \in Bijection(DOMAIN t, DOMAIN s) : Rearranges(s, t, b)
  BY <1>1, RereadRearranges
<1>3. PICK b \in Bijection(DOMAIN t, DOMAIN s) : Rearranges(s, t, b)
  BY <1>2
<1>4. /\ \A n \in DOMAIN t : t[n] = s[b[n]]
      /\ \A i \in DOMAIN s : \E n \in DOMAIN t : b[n] = i
  BY <1>3 DEF Rearranges, Bijection, Surjection
<1>5. \A m \in DOMAIN t :
         /\ Group(RowsOf(t, art, Key(t[m]))) \in Groups(t, art)
         /\ Group(RowsOf(s, art, Key(t[m]))) \in Groups(s, art)
         /\ SameActivity(Group(RowsOf(t, art, Key(t[m]))), Group(RowsOf(s, art, Key(t[m]))))
  BY <1>2, <1>3, OrderDoesNotMatter
<1>6. \A told \in Groups(t, art) : \E m \in DOMAIN t : told = Group(RowsOf(t, art, Key(t[m])))
  BY GroupsAre
<1>7. \A stored \in Groups(s, art) :
         \E m \in DOMAIN t : stored = Group(RowsOf(s, art, Key(t[m])))
  <2>1. Groups(s, art) = {Group(RowsOf(s, art, Key(s[i]))) : i \in DOMAIN s}
    BY GroupsAre
  <2>2. \A i \in DOMAIN s : \E m \in DOMAIN t : s[i] = t[m]
    BY <1>4
  <2>3. QED
    BY <2>1, <2>2
<1>8. QED
  BY <1>1, <1>5, <1>6, <1>7

-----------------------------------------------------------------------------
(* What the analysis adds: the groups are those of the frozen collection.  *)
AInv == HInv /\ (groups # {} => finalized /\ groups = Groups(events, artifact))

LEMMA InitAInv == AInit => AInv
  BY InitHInv DEF AInit, AInv

LEMMA NextAInv == AInv /\ [ANext]_avars => AInv'
<1> SUFFICES ASSUME AInv, [ANext]_avars PROVE AInv'
  OBVIOUS
<1>1. CASE groups = {} /\ HNext /\ UNCHANGED groups
  <2>1. HInv'
    BY <1>1, NextHInv DEF AInv
  <2>2. QED
    BY <1>1, <2>1 DEF AInv
<1>2. CASE Analyzes
  <2>1. HInv'
    BY <1>2, NextHInv DEF AInv, Analyzes
  <2>2. finalized' /\ groups' = Groups(events, artifact)
    BY <1>2 DEF Analyzes, hvars
  <2>3. Groups(events, artifact)' = Groups(events, artifact)
    BY <1>2 DEF Analyzes, hvars
  <2>4. QED
    BY <2>1, <2>2, <2>3 DEF AInv
<1>3. CASE UNCHANGED avars
  <2>1. HInv'
    BY <1>3, NextHInv DEF AInv, avars
  <2>2. UNCHANGED <<groups, finalized>> /\ Groups(events, artifact)' = Groups(events, artifact)
    BY <1>3 DEF avars, hvars
  <2>3. QED
    BY <2>1, <2>2 DEF AInv
<1>4. QED
  BY <1>1, <1>2, <1>3 DEF ANext

LEMMA RecordsAccounted == AInv => ActivityAccounted
<1> SUFFICES ASSUME AInv, groups # {} PROVE ActivityAccounted
  BY DEF ActivityAccounted, EveryRecordCounted, ReportAgreesWithStore
<1>1. groups = Groups(events, artifact) /\ events \in Seq(Event)
  BY DEF AInv, HInv, HTypeOK
<1>2. EveryRecordCounted
  BY <1>1, ReferencesDiffer, InOneGroup, CategoriesAddUp DEF EveryRecordCounted
<1>3. ReportAgreesWithStore
  BY <1>1, ToldAsStored DEF ReportAgreesWithStore, SameActivity
<1>4. QED
  BY <1>2, <1>3 DEF ActivityAccounted

THEOREM ActivityIsAccounted == ASpec => []ActivityAccounted
<1>1. ASpec => []AInv
  BY InitAInv, NextAInv, PTL DEF ASpec
<1>2. QED
  BY <1>1, RecordsAccounted, PTL

(* What the collection found at the image of a record.                     *)
Observed(art, e) == IF e.image = NoImage THEN "none" ELSE art[e.image.path]

LEMMA ClassOfMeans ==
  ASSUME NEW s, NEW art, NEW e
  PROVE  \E n : /\ ClassOf(s, art, e) = Classify(e, n, Observed(art, e))
                /\ n = IF e.image = NoImage THEN 1 ELSE Cardinality(Sources(s, e.image))
  BY DEF ClassOf, Observed

(* Concern is what makes a record harmful, and nothing else urgent.        *)
LEMMA ConcernMeans ==
  ASSUME NEW e \in Event, NEW n, NEW a, e.kind = "SESSION_EVENT" => a = "none"
  PROVE  LET c == Classify(e, n, a)
         IN  /\ c.category = "POTENTIALLY_HARMFUL" <=> Concerns(e, a) # {}
             /\ c.category = "POTENTIALLY_HARMFUL" => c.presentation = "NEEDS_ATTENTION"
             /\ c.category # "POTENTIALLY_HARMFUL" => c.priority = "PRIORITY_3"
<1>1. CASE e.kind = "SESSION_EVENT"
  <2>1. e.command.shapes = {} /\ e.image.place = "none"
    BY <1>1, HistoryAssumption DEF NoCommand, NoImage
  <2>2. Concerns(e, a) = {}
    BY <2>1 DEF Concerns, ConcernWeight
  <2>3. QED
    BY <1>1, <2>2 DEF Classify
<1>2. CASE e.kind # "SESSION_EVENT"
  <2>1. PICK C : C = Concerns(e, a)
    OBVIOUS
  <2>2. ASSUME C = {} PROVE PriorityOf(Score(e, n, a)) = "PRIORITY_3"
    <3>1. Context(e) \in Nat
      BY DEF Context
    <3>2. Score(e, n, a) = 0 - Context(e)
      BY <2>1, <2>2, <3>1 DEF Score
    <3>3. QED
      BY <3>1, <3>2 DEF PriorityOf
  <2>3. QED
    BY <1>2, <2>1, <2>2 DEF Classify, Category, Presentation
<1>3. QED
  BY <1>1, <1>2

(* A group shows a concern exactly when one of its records does.           *)
LEMMA ConcernInGroups ==
  ASSUME NEW s \in Seq(Event), NEW art, NEW g \in Groups(s, art)
  PROVE  LET concern == \E i \in DOMAIN s : /\ Key(s[i]) = g.key
                                            /\ Concerns(s[i], Observed(art, s[i])) # {}
         IN  /\ concern <=> g.class.category = "POTENTIALLY_HARMFUL"
             /\ concern => g.class.presentation = "NEEDS_ATTENTION"
             /\ ~concern => g.class.priority = "PRIORITY_3"
<1>1. PICK m \in DOMAIN s : g = Group(RowsOf(s, art, Key(s[m])))
  <2>1. PICK group : group = [i \in DOMAIN s |-> Group(RowsOf(s, art, Key(s[i])))]
    OBVIOUS
  <2>2. \E i \in DOMAIN s : g = group[i]
    BY <2>1, GroupsByKey
  <2>3. QED
    BY <2>1, <2>2
<1>2. PICK k : k = Key(s[m])
  OBVIOUS
<1>3. m \in KeyedAt(s, k)
  BY <1>2 DEF KeyedAt
<1>4. /\ g.key = k /\ g.class \in Classes
      /\ \E n \in KeyedAt(s, k) : g.class = ClassOf(s, art, s[n])
      /\ \A j \in KeyedAt(s, k) : Mildness(g.class) <= Mildness(ClassOf(s, art, s[j]))
  BY <1>1, <1>2, <1>3, GroupIs
<1>5. PICK n \in KeyedAt(s, k) : g.class = ClassOf(s, art, s[n])
  BY <1>4
<1>6. \A i \in DOMAIN s : i \in KeyedAt(s, k) <=> Key(s[i]) = k
  BY DEF KeyedAt
<1>7. ASSUME NEW i \in DOMAIN s
      PROVE  LET c == ClassOf(s, art, s[i])
             IN  /\ c.category = "POTENTIALLY_HARMFUL" <=> Concerns(s[i], Observed(art, s[i])) # {}
                 /\ c.category = "POTENTIALLY_HARMFUL" => c.presentation = "NEEDS_ATTENTION"
                 /\ c.category # "POTENTIALLY_HARMFUL" => c.priority = "PRIORITY_3"
                 /\ c \in Classes
  <2>1. PICK e \in Event : e = s[i]
    OBVIOUS
  <2>2. PICK q : ClassOf(s, art, e) = Classify(e, q, Observed(art, e))
    BY ClassOfMeans
  <2>3. PICK a : a = Observed(art, e)
    OBVIOUS
  <2>4. e.kind = "SESSION_EVENT" => a = "none"
    BY <2>3, HistoryAssumption DEF Observed
  <2>5. PICK c : c = Classify(e, q, a)
    OBVIOUS
  <2>6. /\ c.category = "POTENTIALLY_HARMFUL" <=> Concerns(e, a) # {}
        /\ c.category = "POTENTIALLY_HARMFUL" => c.presentation = "NEEDS_ATTENTION"
        /\ c.category # "POTENTIALLY_HARMFUL" => c.priority = "PRIORITY_3"
    BY <2>4, <2>5, ConcernMeans
  <2>7. c \in Classes
    BY <2>5, ClassifyIs
  <2>8. QED
    BY <2>1, <2>2, <2>3, <2>5, <2>6, <2>7
<1>8. ASSUME NEW i \in KeyedAt(s, k), ClassOf(s, art, s[i]).category = "POTENTIALLY_HARMFUL"
      PROVE  g.class.category = "POTENTIALLY_HARMFUL"
  <2>1. PICK c : c = g.class
    OBVIOUS
  <2>2. PICK d : d = ClassOf(s, art, s[i])
    OBVIOUS
  <2>3. /\ c \in Classes /\ d \in Classes
        /\ c.category # "POTENTIALLY_HARMFUL" => c.priority = "PRIORITY_3"
    BY <1>4, <1>5, <1>6, <1>7, <2>1, <2>2 DEF KeyedAt
  <2>4. Mildness(c) <= Mildness(d) /\ d.category = "POTENTIALLY_HARMFUL"
    BY <1>4, <1>8, <2>1, <2>2
  <2>5. ASSUME c.category # "POTENTIALLY_HARMFUL" PROVE FALSE
    <3>1. Rank(c.priority) = 2 /\ CategoryRank(c.category) \in 1..2
      BY <2>3, <2>5 DEF Rank, CategoryRank
    <3>2. Rank(d.priority) \in 0..2 /\ CategoryRank(d.category) = 0
      BY <2>4 DEF Rank, CategoryRank
    <3>3. QED
      BY <2>4, <3>1, <3>2 DEF Mildness
  <2>6. QED
    BY <2>1, <2>5
<1>9. (\E i \in DOMAIN s : Key(s[i]) = g.key /\ Concerns(s[i], Observed(art, s[i])) # {})
        <=> g.class.category = "POTENTIALLY_HARMFUL"
  BY <1>4, <1>5, <1>6, <1>7, <1>8 DEF KeyedAt
<1>10. /\ g.class.category = "POTENTIALLY_HARMFUL" => g.class.presentation = "NEEDS_ATTENTION"
       /\ g.class.category # "POTENTIALLY_HARMFUL" => g.class.priority = "PRIORITY_3"
  BY <1>5, <1>6, <1>7 DEF KeyedAt
<1>11. QED
  BY <1>9, <1>10

LEMMA ConcernsSurface == AInv => ConcernSurfaces
<1> SUFFICES ASSUME AInv, NEW g \in groups
             PROVE  LET concern == \E i \in DOMAIN events :
                            /\ Key(events[i]) = g.key
                            /\ Concerns(events[i], IF events[i].image = NoImage THEN "none"
                                                   ELSE artifact[events[i].image.path]) # {}
                    IN  /\ concern => g.class.presentation = "NEEDS_ATTENTION" /\ g \notin Routine(groups)
                        /\ Urgent(g.class) => concern
  BY DEF ConcernSurfaces
<1>1. groups = Groups(events, artifact) /\ events \in Seq(Event)
  BY DEF AInv, HInv, HTypeOK
<1> DEFINE concern == \E i \in DOMAIN events : /\ Key(events[i]) = g.key
                                               /\ Concerns(events[i], Observed(artifact, events[i])) # {}
<1>2. concern => g.class.presentation = "NEEDS_ATTENTION"
  BY <1>1, ConcernInGroups
<1>3. ~concern => g.class.priority = "PRIORITY_3"
  BY <1>1, ConcernInGroups
<1>4. QED
  BY <1>2, <1>3 DEF Urgent, Routine, Observed

-----------------------------------------------------------------------------
LEMMA MoreRaises ==
  ASSUME NEW e \in Event, NEW n \in Nat, NEW m \in Nat, n <= m,
         NEW a, NEW c, c = a \/ (a = "none" /\ c \in Statuses)
  PROVE  Rank(Classify(e, m, c).priority) <= Rank(Classify(e, n, a).priority)
<1>1. CASE e.kind = "SESSION_EVENT"
  BY <1>1 DEF Classify, Rank
<1>2. CASE e.kind # "SESSION_EVENT" /\ Concerns(e, a) = {}
  <2>1. Context(e) \in Nat
    BY DEF Context
  <2>2. Score(e, n, a) = 0 - Context(e)
    BY <1>2, <2>1 DEF Score
  <2>3. Classify(e, n, a).priority = "PRIORITY_3"
    BY <1>2, <2>1, <2>2 DEF Classify, PriorityOf
  <2>4. QED
    BY <2>3 DEF Rank
<1>3. CASE e.kind # "SESSION_EVENT" /\ Concerns(e, a) # {}
  <2>1. Context(e) \in Nat
    BY DEF Context
  <2>2. Concerns(e, a) \subseteq Concerns(e, c)
    BY DEF Concerns, Statuses, ConcernWeight
  <2>3. /\ Support(e, n, a) \in Int /\ Support(e, m, c) \in Int
        /\ Support(e, n, a) <= Support(e, m, c)
    BY DEF Support, Statuses
  <2>4. \A s \in DOMAIN ConcernWeight : ConcernWeight[s] \in Nat
    BY DEF ConcernWeight
  <2> DEFINE at(s, q) == IF s \in Concerns(e, q) THEN ConcernWeight[s] ELSE 0
             sum(q) == at("remote_content_to_interpreter", q) + at("download_to_writable_location", q)
                 + at("encoded_powershell", q) + at("execution_from_writable_location", q)
                 + at("image_absent_after_execution", q)
  <2>5. \A s \in DOMAIN ConcernWeight : at(s, a) \in Nat /\ at(s, c) \in Nat /\ at(s, a) <= at(s, c)
    BY <2>2, <2>4
  <2>6. /\ "remote_content_to_interpreter" \in DOMAIN ConcernWeight
        /\ "download_to_writable_location" \in DOMAIN ConcernWeight
        /\ "encoded_powershell" \in DOMAIN ConcernWeight
        /\ "execution_from_writable_location" \in DOMAIN ConcernWeight
        /\ "image_absent_after_execution" \in DOMAIN ConcernWeight
    BY DEF ConcernWeight
  <2>7. /\ Score(e, n, a) = sum(a) + Support(e, n, a) - Context(e)
        /\ Score(e, m, c) = sum(c) + Support(e, m, c) - Context(e)
    BY <1>3, <2>2 DEF Score
  <2> HIDE DEF at
  <2>8. sum(a) <= sum(c) /\ sum(a) \in Nat /\ sum(c) \in Nat
    BY <2>5, <2>6
  <2> HIDE DEF sum
  <2>9. Score(e, n, a) <= Score(e, m, c) /\ Score(e, n, a) \in Int /\ Score(e, m, c) \in Int
    BY <2>1, <2>3, <2>7, <2>8
  <2>10. /\ Classify(e, n, a).priority = PriorityOf(Score(e, n, a))
         /\ Classify(e, m, c).priority = PriorityOf(Score(e, m, c))
    BY <1>3 DEF Classify
  <2>11. QED
    BY <2>9, <2>10 DEF PriorityOf, Rank
<1>4. QED
  BY <1>1, <1>2, <1>3

(* When no record becomes less urgent, no group does.                      *)
LEMMA GroupsRaised ==
  ASSUME NEW s \in Seq(Event), NEW t \in Seq(Event), NEW art, NEW looked,
         \A i \in DOMAIN s :
            /\ i \in DOMAIN t /\ t[i] = s[i]
            /\ Rank(ClassOf(t, looked, s[i]).priority) <= Rank(ClassOf(s, art, s[i]).priority),
         NEW told \in Groups(t, looked), NEW g \in Groups(s, art), g.key = told.key
  PROVE  Rank(told.class.priority) <= Rank(g.class.priority)
<1>1. PICK m \in DOMAIN s : g = Group(RowsOf(s, art, Key(s[m])))
  <2>1. PICK group : group = [i \in DOMAIN s |-> Group(RowsOf(s, art, Key(s[i])))]
    OBVIOUS
  <2>2. \E i \in DOMAIN s : g = group[i]
    BY <2>1, GroupsByKey
  <2>3. QED
    BY <2>1, <2>2
<1>2. PICK p \in DOMAIN t : told = Group(RowsOf(t, looked, Key(t[p])))
  <2>1. PICK group : group = [i \in DOMAIN t |-> Group(RowsOf(t, looked, Key(t[i])))]
    OBVIOUS
  <2>2. \E i \in DOMAIN t : told = group[i]
    BY <2>1, GroupsByKey
  <2>3. QED
    BY <2>1, <2>2
<1>3. m \in KeyedAt(s, Key(s[m])) /\ p \in KeyedAt(t, Key(t[p]))
  BY DEF KeyedAt
<1>4. PICK k : k = Key(s[m])
  OBVIOUS
<1>5. g.key = k /\ \E n \in KeyedAt(s, k) : g.class = ClassOf(s, art, s[n])
  BY <1>1, <1>3, <1>4, GroupIs
<1>6. PICK h : h = Key(t[p])
  OBVIOUS
<1>7. /\ told.key = h /\ told.class \in Classes
      /\ \A j \in KeyedAt(t, h) : Mildness(told.class) <= Mildness(ClassOf(t, looked, t[j]))
  BY <1>2, <1>3, <1>6, GroupIs
<1>8. PICK n \in KeyedAt(s, k) : g.class = ClassOf(s, art, s[n])
  BY <1>5
<1>9. n \in DOMAIN s /\ n \in KeyedAt(t, h) /\ t[n] = s[n]
  BY <1>5, <1>7, <1>8 DEF KeyedAt
<1>10. PICK c : c = ClassOf(t, looked, t[n])
  OBVIOUS
<1>11. c \in Classes /\ Mildness(told.class) <= Mildness(c)
  BY <1>7, <1>9, <1>10, ClassOfIs
<1>12. Rank(told.class.priority) <= Rank(c.priority)
  <2>1. /\ Rank(told.class.priority) \in 0..2 /\ Rank(c.priority) \in 0..2
        /\ CategoryRank(told.class.category) \in 0..2 /\ CategoryRank(c.category) \in 0..2
    BY DEF Rank, CategoryRank
  <2>2. QED
    BY <1>11, <2>1 DEF Mildness
<1>13. Rank(c.priority) <= Rank(g.class.priority)
  BY <1>8, <1>9, <1>10
<1>14. Rank(told.class.priority) \in Nat /\ Rank(c.priority) \in Nat /\ Rank(g.class.priority) \in Nat
  BY DEF Rank
<1>15. QED
  BY <1>12, <1>13, <1>14

LEMMA SourcesCounted ==
  ASSUME NEW s \in Seq(Event), NEW image
  PROVE  IsFiniteSet(Sources(s, image)) /\ Cardinality(Sources(s, image)) \in Nat
<1>1. PICK I : I = {i \in DOMAIN s : s[i].image = image}
  OBVIOUS
<1>2. IsFiniteSet(I)
  <2>1. I \in SUBSET DOMAIN s /\ IsFiniteSet(DOMAIN s)
    BY <1>1, FirstsFinite
  <2>2. QED
    BY <2>1, FS_Subset
<1>3. PICK f : f = [i \in I |-> s[i].source]
  OBVIOUS
<1>4. DOMAIN f = I /\ Sources(s, image) = {f[i] : i \in I}
  BY <1>1, <1>3 DEF Sources
<1>5. IsFiniteSet(Sources(s, image))
  BY <1>2, <1>4, ImageFinite
<1>6. QED
  BY <1>5, FS_CardinalityType

(* One more record makes none of the others less urgent.                   *)
LEMMA RecordRaises ==
  ASSUME NEW s \in Seq(Event), NEW art, NEW e \in Event, NEW i \in DOMAIN s
  PROVE  Rank(ClassOf(Append(s, e), art, s[i]).priority) <= Rank(ClassOf(s, art, s[i]).priority)
<1>1. PICK t : t = Append(s, e)
  OBVIOUS
<1>2. t \in Seq(Event) /\ \A j \in DOMAIN s : j \in DOMAIN t /\ t[j] = s[j]
  BY <1>1
<1>3. PICK d \in Event : d = s[i]
  OBVIOUS
<1>4. PICK a : a = Observed(art, d)
  OBVIOUS
<1>5. Sources(s, d.image) \in SUBSET Sources(t, d.image)
  BY <1>2 DEF Sources
<1>6. /\ IsFiniteSet(Sources(t, d.image)) /\ Cardinality(Sources(t, d.image)) \in Nat
      /\ Cardinality(Sources(s, d.image)) \in Nat
  BY <1>2, SourcesCounted
<1>7. Cardinality(Sources(s, d.image)) <= Cardinality(Sources(t, d.image))
  BY <1>5, <1>6, FS_Subset
<1>8. PICK n : /\ ClassOf(s, art, d) = Classify(d, n, a)
               /\ n = IF d.image = NoImage THEN 1 ELSE Cardinality(Sources(s, d.image))
  BY <1>4, ClassOfMeans
<1>9. PICK m : /\ ClassOf(t, art, d) = Classify(d, m, a)
               /\ m = IF d.image = NoImage THEN 1 ELSE Cardinality(Sources(t, d.image))
  BY <1>4, ClassOfMeans
<1>10. n \in Nat /\ m \in Nat /\ n <= m
  BY <1>6, <1>7, <1>8, <1>9
<1>11. Rank(Classify(d, m, a).priority) <= Rank(Classify(d, n, a).priority)
  BY <1>10, MoreRaises
<1>12. QED
  BY <1>1, <1>3, <1>8, <1>9, <1>11

(* What was found where nothing was known makes no record less urgent.     *)
LEMMA ArtifactRaises ==
  ASSUME NEW s \in Seq(Event), NEW art \in [Named -> Statuses \cup {"none"}],
         NEW p \in Named, art[p] = "none", NEW status \in Statuses, NEW i \in DOMAIN s
  PROVE  Rank(ClassOf(s, [art EXCEPT ![p] = status], s[i]).priority)
            <= Rank(ClassOf(s, art, s[i]).priority)
<1>1. PICK looked : looked = [art EXCEPT ![p] = status]
  OBVIOUS
<1>2. PICK d \in Event : d = s[i]
  OBVIOUS
<1>3. PICK a : a = Observed(art, d)
  OBVIOUS
<1>4. PICK c : c = Observed(looked, d)
  OBVIOUS
<1>5. c = a \/ (a = "none" /\ c = status)
  <2>1. d.image = NoImage \/ d.image.path \in Named
    BY HistoryAssumption
  <2>2. QED
    BY <1>1, <1>3, <1>4, <2>1 DEF Observed
<1>6. PICK n : /\ ClassOf(s, art, d) = Classify(d, n, a)
               /\ n = IF d.image = NoImage THEN 1 ELSE Cardinality(Sources(s, d.image))
  BY <1>3, ClassOfMeans
<1>7. PICK m : /\ ClassOf(s, looked, d) = Classify(d, m, c)
               /\ m = IF d.image = NoImage THEN 1 ELSE Cardinality(Sources(s, d.image))
  BY <1>4, ClassOfMeans
<1>8. m = n /\ n \in Nat
  BY <1>6, <1>7, SourcesCounted
<1>9. CASE a = "none" /\ c = status
  <2>1. n <= n
    BY <1>8
  <2>2. Rank(Classify(d, n, status).priority) <= Rank(Classify(d, n, a).priority)
    BY <1>8, <1>9, <2>1, MoreRaises
  <2>3. QED
    BY <1>1, <1>2, <1>6, <1>7, <1>8, <1>9, <2>2
<1>10. CASE c = a
  <2>1. Rank(Classify(d, n, a).priority) \in Nat
    BY DEF Rank
  <2>2. QED
    BY <1>1, <1>2, <1>6, <1>7, <1>8, <1>10, <2>1
<1>11. QED
  BY <1>5, <1>9, <1>10

LEMMA EvidenceRaises == AInv => EvidenceOnlyRaises
<1> DEFINE raised(G) == \A told \in G, g \in groups :
                g.key = told.key => Rank(told.class.priority) <= Rank(g.class.priority)
<1> SUFFICES ASSUME AInv, groups # {}
             PROVE  /\ Len(events) < MaxTotal =>
                          \A e \in Event : raised(Groups(Append(events, e), artifact))
                    /\ \A p \in {e.image.path : e \in ToSet(events)} \cap Named :
                          artifact[p] = "none" =>
                             \A status \in Statuses :
                                raised(Groups(events, [artifact EXCEPT ![p] = status]))
  BY DEF EvidenceOnlyRaises
<1>1. /\ groups = Groups(events, artifact) /\ events \in Seq(Event)
      /\ artifact \in [Named -> Statuses \cup {"none"}]
  BY DEF AInv, HInv, HTypeOK
<1>2. ASSUME NEW e \in Event PROVE raised(Groups(Append(events, e), artifact))
  <2>1. PICK t : t = Append(events, e)
    OBVIOUS
  <2>2. /\ t \in Seq(Event)
        /\ \A i \in DOMAIN events :
              /\ i \in DOMAIN t /\ t[i] = events[i]
              /\ Rank(ClassOf(t, artifact, events[i]).priority)
                    <= Rank(ClassOf(events, artifact, events[i]).priority)
    BY <1>1, <2>1, RecordRaises
  <2>3. QED
    BY <1>1, <2>1, <2>2, GroupsRaised
<1>3. ASSUME NEW p \in Named, artifact[p] = "none", NEW status \in Statuses
      PROVE  raised(Groups(events, [artifact EXCEPT ![p] = status]))
  <2>1. PICK looked : looked = [artifact EXCEPT ![p] = status]
    OBVIOUS
  <2>2. \A i \in DOMAIN events :
           /\ i \in DOMAIN events /\ events[i] = events[i]
           /\ Rank(ClassOf(events, looked, events[i]).priority)
                 <= Rank(ClassOf(events, artifact, events[i]).priority)
    BY <1>1, <1>3, <2>1, ArtifactRaises
  <2>3. QED
    BY <1>1, <2>1, <2>2, GroupsRaised
<1> HIDE DEF raised
<1>4. QED
  BY <1>2, <1>3

-----------------------------------------------------------------------------
(* The fields by which groups are ordered.                                 *)
LEMMA GroupTypes ==
  ASSUME NEW s \in Seq(Event), NEW art, NEW g \in Groups(s, art)
  PROVE  /\ g.class \in Classes /\ g.occurrences \in Nat /\ g.lastSeen \in Nat
         /\ g.first \in DOMAIN s /\ Key(s[g.first]) = g.key
<1>1. PICK m \in DOMAIN s : g = Group(RowsOf(s, art, Key(s[m])))
  <2>1. PICK group : group = [i \in DOMAIN s |-> Group(RowsOf(s, art, Key(s[i])))]
    OBVIOUS
  <2>2. \E i \in DOMAIN s : g = group[i]
    BY <2>1, GroupsByKey
  <2>3. QED
    BY <2>1, <2>2
<1>2. PICK k : k = Key(s[m])
  OBVIOUS
<1>3. m \in KeyedAt(s, k) /\ KeyedAt(s, k) \subseteq DOMAIN s /\ \A i \in KeyedAt(s, k) : Key(s[i]) = k
  BY <1>2 DEF KeyedAt
<1>4. PICK M : M = RowsOf(s, art, k)
  OBVIOUS
<1>5. g = Group(M) /\ g.key = k /\ g.class \in Classes /\ g.occurrences \in Nat
  <2>1. g = Group(M)
    BY <1>1, <1>2, <1>4
  <2>2. QED
    BY <1>3, <1>4, <2>1, GroupIs
<1>6. \A i \in KeyedAt(s, k) : RowAt(s, art, i).at = i /\ RowAt(s, art, i).event = s[i]
  BY <1>3, ClassOfIs
<1>7. M = {RowAt(s, art, i) : i \in KeyedAt(s, k)}
  BY <1>4 DEF RowsOf
<1>8. {r.at : r \in M} = KeyedAt(s, k)
  BY <1>6, <1>7
<1>9. g.first \in KeyedAt(s, k)
  <2>1. g.first = Min(KeyedAt(s, k))
    BY <1>5, <1>8 DEF Group
  <2>2. KeyedAt(s, k) \in SUBSET Nat /\ KeyedAt(s, k) # {}
    BY <1>3
  <2>3. QED
    BY <2>1, <2>2, LeastOf
<1>10. PICK stamps : stamps = {r.event.stamp : r \in M} \ {Undated}
  OBVIOUS
<1>11. g.lastSeen = IF stamps = {} THEN Undated ELSE Max(stamps)
  BY <1>5, <1>10 DEF Group
<1>12. stamps \in SUBSET Nat
  <2>1. \A i \in KeyedAt(s, k) : s[i].stamp \in Nat
    BY <1>3, HistoryAssumption
  <2>2. \A r \in M : r.event.stamp \in Nat
    BY <1>6, <1>7, <2>1
  <2>3. QED
    BY <1>10, <2>2
<1>13. IsFiniteSet(stamps)
  <2>1. IsFiniteSet(M)
    BY <1>4, MembersCounted
  <2>2. PICK f : f = [r \in M |-> r.event.stamp]
    OBVIOUS
  <2>3. PICK T : T = {f[r] : r \in M}
    OBVIOUS
  <2>4. IsFiniteSet(T) /\ stamps \in SUBSET T
    <3>1. IsFiniteSet(T)
      BY <2>1, <2>2, <2>3, ImageFinite
    <3>2. QED
      BY <1>10, <2>2, <2>3, <3>1
  <2>5. QED
    BY <2>4, FS_Subset
<1>14. g.lastSeen \in Nat
  <2>1. stamps # {} => Max(stamps) \in stamps
    BY <1>12, <1>13, GreatestOf
  <2>2. PICK x : x = Max(stamps)
    OBVIOUS
  <2>3. stamps # {} => x \in Nat
    BY <1>12, <2>1, <2>2
  <2>4. g.lastSeen = IF stamps = {} THEN 0 ELSE x
    BY <1>11, <2>2 DEF Undated
  <2>5. QED
    BY <2>3, <2>4
<1>15. QED
  BY <1>3, <1>5, <1>9, <1>14

LEMMA RankingKeyIs ==
  ASSUME NEW s \in Seq(Event), NEW art, NEW g \in Groups(s, art)
  PROVE  RankingKey(g) \in Seq(Int) /\ Len(RankingKey(g)) = 7 /\ RankingKey(g)[7] = g.first
<1>1. g.class \in Classes /\ g.lastSeen \in Nat /\ g.first \in Nat
  BY GroupTypes
<1>2. g.class.score \in Int
  BY <1>1 DEF Classes
<1>3. Rank(g.class.priority) \in Nat /\ CategoryRank(g.class.category) \in Nat
  BY DEF Rank, CategoryRank
<1>4. -g.class.score \in Int /\ -g.lastSeen \in Int
  BY <1>1, <1>2
<1>5. QED
  BY <1>1, <1>3, <1>4 DEF RankingKey

(* The ranking of some of the groups begins with one of them.              *)
LEMMA RankedFirst ==
  ASSUME NEW s \in Seq(Event), NEW art, NEW G, G \subseteq Groups(s, art), G # {}
  PROVE  Ranked(G)[1] \in G
<1>1. PICK key : key = [g \in G |-> RankingKey(g)]
  OBVIOUS
<1>2. PICK R : R = {p \in G \X G : Lexical(RankingKey(p[1]), RankingKey(p[2]))}
  OBVIOUS
<1>3. \A g \in G : key[g] \in Seq(Int) /\ Len(key[g]) = 7 /\ key[g][7] = g.first
  BY <1>1, RankingKeyIs
<1>4. \A g, h \in G : key[g] = key[h] => g = h
  <2>1. \A g \in G : Key(s[g.first]) = g.key
    BY GroupTypes
  <2>2. \A g, h \in Groups(s, art) : g.key = h.key => g = h
    BY GroupsByKey
  <2>3. ASSUME NEW g \in G, NEW h \in G, key[g] = key[h] PROVE g = h
    <3>1. g.first = h.first
      BY <1>3, <2>3
    <3>2. g.key = h.key
      BY <2>1, <3>1
    <3>3. g \in Groups(s, art) /\ h \in Groups(s, art)
      OBVIOUS
    <3>4. QED
      BY <2>2, <3>2, <3>3
  <2>4. QED
    BY <2>3
<1>5. R = {p \in G \X G : Lexical(key[p[1]], key[p[2]])}
  BY <1>1, <1>2
<1>6. Orders(G, R)
  <2>1. 7 \in Nat /\ \A g \in G : key[g] \in Seq(Int) /\ Len(key[g]) = 7
    BY <1>3
  <2>2. QED
    BY <1>4, <1>5, <2>1, LexicalOrders
<1>7. IsFiniteSet(G)
  BY GroupsByKey, FS_Subset
<1>8. PICK l : l = Ordered(G, R)
  OBVIOUS
<1>9. l \in Seq(G) /\ DOMAIN l = 1..Len(l) /\ \A g \in G : \E n \in DOMAIN l : l[n] = g
  BY <1>6, <1>7, <1>8, OrderedInOrder
<1>10. l = Ranked(G)
  BY <1>2, <1>8 DEF Ranked
<1>11. QED
  BY <1>9, <1>10

(* The groups of the pattern of g.                                         *)
Alike(G, g) == {h \in Candidates(G) : Pattern(h) = Pattern(g)}

LEMMA LeadsByMember ==
  ASSUME NEW G
  PROVE  AllLeads(G) = {Lead(Alike(G, g)) : g \in Candidates(G)}
<1>1. PICK P : P = {Pattern(g) : g \in Candidates(G)}
  OBVIOUS
<1>2. AllLeads(G) = {Lead({g \in Candidates(G) : Pattern(g) = p}) : p \in P}
  BY <1>1 DEF AllLeads
<1>3. \A g : Lead({h \in Candidates(G) : Pattern(h) = Pattern(g)}) = Lead(Alike(G, g))
  BY DEF Alike
<1>4. ASSUME NEW l PROVE l \in AllLeads(G) <=> \E g \in Candidates(G) : l = Lead(Alike(G, g))
  <2>1. l \in AllLeads(G) <=> \E p \in P : l = Lead({g \in Candidates(G) : Pattern(g) = p})
    BY <1>2, Zenon
  <2>2. ASSUME NEW p \in P, l = Lead({g \in Candidates(G) : Pattern(g) = p})
        PROVE  \E g \in Candidates(G) : l = Lead(Alike(G, g))
    <3>1. PICK g \in Candidates(G) : p = Pattern(g)
      BY <1>1
    <3>2. l = Lead({h \in Candidates(G) : Pattern(h) = Pattern(g)})
      BY <2>2, <3>1
    <3>3. QED
      BY <1>3, <3>2
  <2>3. ASSUME NEW g \in Candidates(G), l = Lead(Alike(G, g))
        PROVE  \E p \in P : l = Lead({h \in Candidates(G) : Pattern(h) = p})
    <3>1. PICK p \in P : p = Pattern(g)
      BY <1>1
    <3>2. l = Lead({h \in Candidates(G) : Pattern(h) = p})
      BY <1>3, <2>3, <3>1
    <3>3. QED
      BY <3>2
  <2>4. QED
    BY <2>1, <2>2, <2>3
<1>5. QED
  BY <1>4

(* What a lead says of itself, when the groups are those of the records s. *)
LEMMA LeadIs ==
  ASSUME NEW s \in Seq(Event), NEW art, NEW G, G = Groups(s, art), NEW g \in Candidates(G)
  PROVE  LET l == Lead(Alike(G, g))
         IN  /\ l.members = Alike(G, g) /\ g \in l.members
             /\ l.priority = g.class.priority /\ l.count \in Nat
             /\ \E h \in Alike(G, g) : l.rankedBy = RankingKey(h)
             /\ l.confirmed <=> \E h \in l.members : h.confirmed
             /\ l.references = UNION {h.records : h \in l.members}
             /\ \A h \in l.members :
                   /\ h.class.category = l.category
                   /\ h.class.priority = l.priority
                   /\ h.confirmed => l.confirmed
                   /\ h.records \subseteq l.references
<1>1. PICK M : M = Alike(G, g)
  OBVIOUS
<1>2. g \in M /\ M \subseteq G /\ M \subseteq Candidates(G) /\ \A h \in M : Pattern(h) = Pattern(g)
  BY <1>1 DEF Alike, Candidates
<1>3. PICK f : f = Ranked(M)[1]
  OBVIOUS
<1>4. f \in M
  BY <1>2, <1>3, RankedFirst
<1>5. PICK l : l = Lead(M)
  OBVIOUS
<1>6. /\ l.members = M /\ l.priority = f.class.priority /\ l.category = f.class.category
      /\ l.rankedBy = RankingKey(f) /\ l.confirmed = (\E h \in M : h.confirmed)
      /\ l.references = UNION {h.records : h \in M} /\ l.count = Occurrences(M)
  BY <1>3, <1>5 DEF Lead
<1>7. ASSUME NEW h \in M
      PROVE  /\ h.class.priority = g.class.priority
             /\ h.class.category = "POTENTIALLY_HARMFUL"
  <2>1. Pattern(h)[2] = Pattern(g)[2]
    BY <1>2
  <2>2. h.class.priority = g.class.priority
    BY <2>1 DEF Pattern
  <2>3. h \in Groups(s, art) /\ h.class.priority # "PRIORITY_3"
    BY <1>2 DEF Candidates, Urgent
  <2>4. h.class.category = "POTENTIALLY_HARMFUL"
    BY <2>3, ConcernInGroups
  <2>5. QED
    BY <2>2, <2>4
<1>8. l.count \in Nat
  <2>1. IsFiniteSet(Tallies(G))
    BY OccurrencesAreRecords DEF Tallies
  <2>2. \A u : u \in Tallies(M) => u \in Tallies(G)
    <3>1. ASSUME NEW u PROVE u \in Tallies(M) => u \in Tallies(G)
      <4>1. /\ u \in Tallies(M) <=> \E h \in M : u \in {h} \X (1..h.occurrences)
            /\ u \in Tallies(G) <=> \E h \in G : u \in {h} \X (1..h.occurrences)
        BY TalliesAre, Zenon
      <4>2. QED
        BY <1>2, <4>1, Zenon
    <3>2. QED
      BY <3>1
  <2>3. IsFiniteSet(Tallies(M))
    <3>1. Tallies(M) \in SUBSET Tallies(G)
      BY <2>2
    <3>2. QED
      BY <2>1, <3>1, FS_Subset
  <2>4. Occurrences(M) = Cardinality(Tallies(M))
    BY Zenon DEF Occurrences, Tallies
  <2>5. QED
    BY <1>6, <2>3, <2>4, FS_CardinalityType
<1>9. \A h \in M : h.records \subseteq l.references
  BY <1>6
<1>10. QED
  BY <1>1, <1>2, <1>4, <1>5, <1>6, <1>7, <1>8, <1>9

(* The fields by which leads are ordered.                                  *)
LeadKey(l) == <<Rank(l.priority), -l.count>> \o l.rankedBy

LEMMA LeadKeyIs ==
  ASSUME NEW s \in Seq(Event), NEW art, NEW G, G = Groups(s, art), NEW g \in Candidates(G)
  PROVE  LET l == Lead(Alike(G, g))
         IN  /\ LeadKey(l) \in Seq(Int) /\ Len(LeadKey(l)) = 9
             /\ LeadKey(l)[1] = Rank(g.class.priority)
             /\ \E h \in Alike(G, g) : LeadKey(l)[9] = h.first
<1>1. PICK l : l = Lead(Alike(G, g))
  OBVIOUS
<1>2. /\ l.priority = g.class.priority /\ l.count \in Nat
      /\ \E h \in Alike(G, g) : l.rankedBy = RankingKey(h)
  BY <1>1, LeadIs
<1>3. PICK h \in Alike(G, g) : l.rankedBy = RankingKey(h)
  BY <1>2
<1>4. PICK r : r = l.rankedBy
  OBVIOUS
<1>5. r \in Seq(Int) /\ Len(r) = 7 /\ r[7] = h.first
  <2>1. h \in Groups(s, art)
    BY DEF Alike, Candidates
  <2>2. QED
    BY <1>3, <1>4, <2>1, RankingKeyIs
<1>6. PICK u : u = <<Rank(l.priority), -l.count>>
  OBVIOUS
<1>7. u \in Seq(Int) /\ Len(u) = 2 /\ u[1] = Rank(g.class.priority)
  <2>1. Rank(l.priority) \in Int /\ -l.count \in Int
    BY <1>2 DEF Rank
  <2>2. QED
    BY <1>2, <1>6, <2>1
<1>8. PICK v : v = u \o r
  OBVIOUS
<1>9. v \in Seq(Int) /\ Len(v) = 9 /\ v[1] = u[1] /\ v[9] = r[7]
  <2>1. PICK S : S = Int
    OBVIOUS
  <2>2. u \in Seq(S) /\ r \in Seq(S)
    BY <1>5, <1>7, <2>1
  <2>3. /\ v \in Seq(S) /\ Len(v) = Len(u) + Len(r)
        /\ \A i \in 1..Len(u) : v[i] = u[i]
        /\ \A i \in 1..Len(r) : v[Len(u) + i] = r[i]
    BY <1>8, <2>2, JoinedLists
  <2>4. 1 \in 1..Len(u) /\ 7 \in 1..Len(r) /\ Len(u) + 7 = 9 /\ Len(u) + Len(r) = 9
    BY <1>5, <1>7
  <2>5. v[1] = u[1] /\ v[Len(u) + 7] = r[7]
    BY <2>3, <2>4
  <2>6. QED
    BY <2>1, <2>3, <2>4, <2>5
<1>10. LeadKey(l) = v
  BY <1>4, <1>6, <1>8 DEF LeadKey
<1>11. QED
  BY <1>1, <1>5, <1>7, <1>9, <1>10

(* L has every lead once, the most urgent first, and what is told of it.   *)
ListsLeads(G, L) ==
    /\ DOMAIN L = 1..Len(L) /\ Leads(G) = UpTo(L, MaxLeads)
    /\ \A l \in AllLeads(G) : \E n \in DOMAIN L : L[n] = l
    /\ \A m, n \in DOMAIN L : L[m] = L[n] => m = n
    /\ \A m, n \in DOMAIN L : m < n => Rank(L[m].priority) <= Rank(L[n].priority)

(* The leads in the order in which they are cut off.                       *)
LEMMA LeadsInOrder ==
  ASSUME NEW s \in Seq(Event), NEW art, NEW G, G = Groups(s, art)
  PROVE  \E L \in Seq(AllLeads(G)) : ListsLeads(G, L)
<1>1. PICK A : A = AllLeads(G)
  OBVIOUS
<1>2. \A l \in A : \E g \in Candidates(G) : l = Lead(Alike(G, g))
  BY <1>1, LeadsByMember
<1>3. PICK key : key = [l \in A |-> LeadKey(l)]
  OBVIOUS
<1>4. ASSUME NEW l \in A
      PROVE  /\ key[l] \in Seq(Int) /\ Len(key[l]) = 9 /\ key[l][1] = Rank(l.priority)
             /\ \E g \in Candidates(G) : l = Lead(Alike(G, g)) /\ key[l][9] = g.first
  <2>1. PICK g \in Candidates(G) : l = Lead(Alike(G, g))
    BY <1>2
  <2>2. /\ LeadKey(l) \in Seq(Int) /\ Len(LeadKey(l)) = 9
        /\ LeadKey(l)[1] = Rank(g.class.priority)
        /\ \E h \in Alike(G, g) : LeadKey(l)[9] = h.first
    BY <2>1, LeadKeyIs
  <2>3. PICK h \in Alike(G, g) : LeadKey(l)[9] = h.first
    BY <2>2
  <2>4. h \in Candidates(G) /\ Alike(G, h) = Alike(G, g)
    BY DEF Alike
  <2>5. l.priority = g.class.priority
    BY <2>1, LeadIs
  <2>6. QED
    BY <1>3, <2>1, <2>2, <2>3, <2>4, <2>5
<1>5. \A l, k \in A : key[l] = key[k] => l = k
  <2>1. ASSUME NEW l \in A, NEW k \in A, key[l] = key[k] PROVE l = k
    <3>1. PICK g \in Candidates(G) : l = Lead(Alike(G, g)) /\ key[l][9] = g.first
      BY <1>4
    <3>2. PICK h \in Candidates(G) : k = Lead(Alike(G, h)) /\ key[k][9] = h.first
      BY <1>4
    <3>3. g \in Groups(s, art) /\ h \in Groups(s, art) /\ g.first = h.first
      BY <2>1, <3>1, <3>2 DEF Candidates
    <3>4. Key(s[g.first]) = g.key /\ Key(s[h.first]) = h.key
      BY <3>3, GroupTypes
    <3>5. g = h
      BY <3>3, <3>4, GroupsByKey
    <3>6. QED
      BY <3>1, <3>2, <3>5
  <2>2. QED
    BY <2>1
<1>6. PICK R : R = {p \in A \X A : Lexical(key[p[1]], key[p[2]])}
  OBVIOUS
<1>7. Orders(A, R)
  <2>1. 9 \in Nat /\ \A l \in A : key[l] \in Seq(Int) /\ Len(key[l]) = 9
    BY <1>4
  <2>2. QED
    BY <1>5, <1>6, <2>1, LexicalOrders
<1>8. IsFiniteSet(A)
  <2>1. IsFiniteSet(Candidates(G))
    <3>1. IsFiniteSet(Groups(s, art)) /\ Candidates(G) \in SUBSET Groups(s, art)
      BY GroupsByKey DEF Candidates
    <3>2. QED
      BY <3>1, FS_Subset
  <2>2. PICK f : f = [g \in Candidates(G) |-> Lead(Alike(G, g))]
    OBVIOUS
  <2>3. DOMAIN f = Candidates(G) /\ A = {f[g] : g \in Candidates(G)}
    BY <1>1, <2>2, LeadsByMember
  <2>4. QED
    BY <2>1, <2>3, ImageFinite
<1>9. PICK L : L = Ordered(A, R)
  OBVIOUS
<1>10. /\ L \in Seq(A) /\ DOMAIN L = 1..Len(L)
       /\ \A l \in A : \E n \in DOMAIN L : L[n] = l
       /\ \A m, n \in DOMAIN L : m < n <=> <<L[m], L[n]>> \in R
       /\ \A m, n \in DOMAIN L : L[m] = L[n] => m = n
  BY <1>7, <1>8, <1>9, OrderedInOrder
<1>11. Leads(G) = UpTo(L, MaxLeads)
  <2>1. R = {p \in A \X A : Lexical(LeadKey(p[1]), LeadKey(p[2]))}
    BY <1>3, <1>6
  <2>2. QED
    BY <1>1, <1>9, <2>1 DEF Leads, LeadKey
<1>12. ASSUME NEW m \in DOMAIN L, NEW n \in DOMAIN L, m < n
       PROVE  Rank(L[m].priority) <= Rank(L[n].priority)
  <2>1. L[m] \in A /\ L[n] \in A
    BY <1>10
  <2>2. Lexical(key[L[m]], key[L[n]])
    BY <1>6, <1>10, <1>12
  <2>3. PICK x : x = key[L[m]]
    OBVIOUS
  <2>4. PICK y : y = key[L[n]]
    OBVIOUS
  <2>5. x \in Seq(Int) /\ Len(x) = 9 /\ y \in Seq(Int) /\ Len(y) = 9
    BY <1>4, <2>1, <2>3, <2>4
  <2>6. PICK i \in 1..9 : x[i] < y[i] /\ \A k \in 1..(i - 1) : x[k] = y[k]
    <3>1. DOMAIN x = 1..9
      BY <2>5
    <3>2. \E i \in DOMAIN x : x[i] < y[i] /\ \A k \in 1..(i - 1) : x[k] = y[k]
      BY <2>2, <2>3, <2>4 DEF Lexical
    <3>3. QED
      BY <3>1, <3>2
  <2>7. x[1] <= y[1]
    <3>1. x[1] \in Int /\ y[1] \in Int
      <4>1. 1 \in 1..Len(x) /\ 1 \in 1..Len(y)
        BY <2>5
      <4>2. QED
        BY <2>5, <4>1, ListFacts
    <3>2. i = 1 \/ 1 \in 1..(i - 1)
      OBVIOUS
    <3>3. QED
      BY <2>6, <3>1, <3>2
  <2>8. x[1] = Rank(L[m].priority) /\ y[1] = Rank(L[n].priority)
    BY <1>4, <2>1, <2>3, <2>4
  <2>9. QED
    BY <2>7, <2>8
<1>13. QED
  BY <1>1, <1>10, <1>11, <1>12 DEF ListsLeads

(* The leads told are leads, and something in the first tier is among them.*)
LEMMA LeadsTold ==
  ASSUME NEW s \in Seq(Event), NEW art, NEW G, G = Groups(s, art)
  PROVE  LET told == Leads(G)
         IN  /\ \A i \in DOMAIN told : \E g \in Candidates(G) : told[i] = Lead(Alike(G, g))
             /\ (\E g \in G : g.class.priority = "PRIORITY_1") =>
                   \E i \in DOMAIN told : told[i].priority = "PRIORITY_1"
<1>1. PICK L \in Seq(AllLeads(G)) : ListsLeads(G, L)
  BY LeadsInOrder
<1>2. /\ DOMAIN L = 1..Len(L) /\ Leads(G) = UpTo(L, MaxLeads)
      /\ \A l \in AllLeads(G) : \E n \in DOMAIN L : L[n] = l
      /\ \A m, n \in DOMAIN L : m < n => Rank(L[m].priority) <= Rank(L[n].priority)
  BY <1>1 DEF ListsLeads
<1>3. PICK told : told = Leads(G)
  OBVIOUS
<1>4. MaxLeads \in Nat \ {0}
  BY ActivityAssumption
<1>5. /\ DOMAIN told = 1..Len(told)
      /\ Len(told) = IF Len(L) < MaxLeads THEN Len(L) ELSE MaxLeads
      /\ \A i \in DOMAIN told : i \in DOMAIN L /\ told[i] = L[i]
  BY <1>2, <1>3, <1>4, UpToShortens
<1>6. \A l \in AllLeads(G) : \E g \in Candidates(G) : l = Lead(Alike(G, g))
  BY LeadsByMember
<1>7. \A n \in DOMAIN L : L[n] \in AllLeads(G)
  BY <1>2
<1>8. ASSUME NEW g \in G, g.class.priority = "PRIORITY_1"
      PROVE  \E i \in DOMAIN told : told[i].priority = "PRIORITY_1"
  <2>1. g \in Candidates(G)
    BY <1>8 DEF Candidates, Urgent
  <2>2. PICK l : l = Lead(Alike(G, g))
    OBVIOUS
  <2>3. l \in AllLeads(G) /\ l.priority = "PRIORITY_1"
    BY <1>8, <2>1, <2>2, LeadsByMember, LeadIs
  <2>4. PICK n \in DOMAIN L : L[n] = l
    BY <1>2, <2>3
  <2>5. 1 \in DOMAIN L /\ 1 \in DOMAIN told /\ told[1] = L[1] /\ n \in Nat /\ 1 <= n
    <3>1. PICK N \in Nat : N = Len(L)
      BY ListFacts
    <3>2. n \in 1..N
      BY <1>2, <2>4, <3>1
    <3>3. Len(told) = IF N < MaxLeads THEN N ELSE MaxLeads
      BY <1>5, <3>1
    <3>4. 1 \in 1..N /\ 1 \in 1..Len(told)
      BY <1>4, <3>2, <3>3
    <3>5. QED
      BY <1>2, <1>5, <3>1, <3>2, <3>4
  <2>6. Rank(L[1].priority) <= Rank(l.priority)
    <3>1. CASE n = 1
      <4>1. L[1] \in AllLeads(G)
        BY <1>7, <2>5
      <4>2. Rank("PRIORITY_1") <= Rank("PRIORITY_1")
        BY DEF Rank
      <4>3. QED
        BY <2>3, <2>4, <3>1, <4>2
    <3>2. CASE 1 < n
      BY <1>2, <2>4, <2>5, <3>2
    <3>3. QED
      BY <2>5, <3>1, <3>2
  <2>7. PICK h \in Candidates(G) : L[1] = Lead(Alike(G, h))
    BY <1>6, <1>7, <2>5
  <2>8. L[1].priority = h.class.priority /\ h.class \in Classes
    <3>1. h \in Groups(s, art)
      BY DEF Candidates
    <3>2. QED
      BY <2>7, <3>1, LeadIs, GroupTypes
  <2>9. L[1].priority = "PRIORITY_1"
    <3>1. h.class.priority \in {"PRIORITY_1", "PRIORITY_2", "PRIORITY_3"}
      BY <2>8 DEF Classes, Priority
    <3>2. QED
      BY <2>3, <2>6, <2>8, <3>1 DEF Rank
  <2>10. QED
    BY <2>5, <2>9
<1>9. \A i \in DOMAIN told : \E g \in Candidates(G) : told[i] = Lead(Alike(G, g))
  BY <1>5, <1>6, <1>7
<1>10. QED
  BY <1>3, <1>8, <1>9

LEMMA LeadsCover == AInv => LeadsCoverUrgent
<1> SUFFICES ASSUME AInv PROVE LeadsCoverUrgent
  OBVIOUS
<1>1. PICK G : G = groups
  OBVIOUS
<1>2. CASE G = {}
  <2>1. AllLeads(G) = {}
    BY <1>2 DEF AllLeads, Candidates
  <2>2. PICK R : R = {p \in AllLeads(G) \X AllLeads(G) :
                         Lexical(LeadKey(p[1]), LeadKey(p[2]))}
    OBVIOUS
  <2>3. PICK L : L = Ordered({}, R)
    OBVIOUS
  <2>4. Leads(G) = UpTo(L, MaxLeads)
    BY <2>1, <2>2, <2>3 DEF Leads, LeadKey
  <2>5. L \in Seq({}) /\ Len(L) = 0
    <3>1. Orders({}, R) /\ IsFiniteSet({}) /\ Cardinality({}) = 0
      BY FS_EmptySet DEF Orders
    <3>2. QED
      BY <2>3, <3>1, OrderedInOrder
  <2>6. DOMAIN Leads(G) = {}
    <3>1. MaxLeads \in Nat
      BY ActivityAssumption
    <3>2. PICK u : u = UpTo(L, MaxLeads)
      OBVIOUS
    <3>3. DOMAIN u = 1..Len(u) /\ Len(u) = IF Len(L) < MaxLeads THEN Len(L) ELSE MaxLeads
      <4>1. PICK S : S = {}
        OBVIOUS
      <4>2. L \in Seq(S)
        BY <2>5, <4>1
      <4>3. QED
        BY <3>1, <3>2, <4>2, UpToShortens
    <3>4. QED
      BY <2>4, <2>5, <3>1, <3>2, <3>3
  <2>7. QED
    BY <1>1, <1>2, <2>6 DEF LeadsCoverUrgent
<1>3. CASE G # {}
  <2>1. G = Groups(events, artifact) /\ events \in Seq(Event)
    BY <1>1, <1>3 DEF AInv, HInv, HTypeOK
  <2>12. \E L \in Seq(AllLeads(G)) : ListsLeads(G, L)
    <3>1. PICK s \in Seq(Event) : s = events
      BY <2>1
    <3>2. PICK art : art = artifact
      OBVIOUS
    <3>3. G = Groups(s, art)
      BY <2>1, <3>1, <3>2
    <3>4. QED
      BY <3>3, LeadsInOrder
  <2>2. PICK L \in Seq(AllLeads(G)) : ListsLeads(G, L)
    BY <2>12
  <2>3. /\ DOMAIN L = 1..Len(L) /\ Leads(G) = UpTo(L, MaxLeads)
        /\ \A l \in AllLeads(G) : \E n \in DOMAIN L : L[n] = l
        /\ \A m, n \in DOMAIN L : L[m] = L[n] => m = n
        /\ \A m, n \in DOMAIN L : m < n => Rank(L[m].priority) <= Rank(L[n].priority)
    BY <2>2 DEF ListsLeads
  <2>4. PICK told : told = Leads(G)
    OBVIOUS
  <2>5. /\ DOMAIN told = 1..Len(told)
        /\ Len(told) = IF Len(L) < MaxLeads THEN Len(L) ELSE MaxLeads
        /\ \A i \in DOMAIN told : i \in DOMAIN L /\ told[i] = L[i]
    <3>1. MaxLeads \in Nat
      BY ActivityAssumption
    <3>2. QED
      BY <2>3, <2>4, <3>1, UpToShortens
  <2>6. ASSUME NEW l \in AllLeads(G)
        PROVE  \E g \in Candidates(G) : l = Lead(Alike(G, g))
    BY LeadsByMember
  <2>7. ASSUME NEW i \in DOMAIN told, NEW g \in told[i].members
        PROVE  /\ g.class.category = told[i].category
               /\ g.class.priority = told[i].priority
               /\ g.confirmed => told[i].confirmed
               /\ g.records \subseteq told[i].references
    <3>1. told[i] \in AllLeads(G)
      BY <2>3, <2>5
    <3>2. PICK h \in Candidates(G) : told[i] = Lead(Alike(G, h))
      BY <2>6, <3>1
    <3>3. QED
      BY <2>1, <2>7, <3>2, LeadIs
  <2>8. ASSUME NEW g \in Candidates(G), NEW l \in AllLeads(G), g \in l.members
        PROVE  l = Lead(Alike(G, g))
    <3>1. PICK h \in Candidates(G) : l = Lead(Alike(G, h))
      BY <2>6
    <3>2. l.members = Alike(G, h)
      BY <2>1, <3>1, LeadIs
    <3>3. Alike(G, g) = Alike(G, h)
      BY <2>8, <3>2 DEF Alike
    <3>4. QED
      BY <3>1, <3>3
  <2>9. ASSUME NEW g \in G, Urgent(g.class)
        PROVE  \/ Cardinality({i \in DOMAIN told : g \in told[i].members}) = 1
               \/ /\ Len(told) = MaxLeads
                  /\ \A i \in DOMAIN told : Rank(told[i].priority) <= Rank(g.class.priority)
                                            /\ g \notin told[i].members
    <3>1. g \in Candidates(G)
      BY <2>9 DEF Candidates
    <3>2. PICK l : l = Lead(Alike(G, g))
      OBVIOUS
    <3>3. l \in AllLeads(G) /\ g \in l.members /\ l.priority = g.class.priority
      BY <2>1, <3>1, <3>2, LeadIs, LeadsByMember
    <3>4. PICK n \in DOMAIN L : L[n] = l
      BY <2>3, <3>3
    <3>5. \A i \in DOMAIN told : told[i] \in AllLeads(G)
      BY <2>3, <2>5
    <3>6. \A i \in DOMAIN told : g \in told[i].members => i = n
      <4>1. ASSUME NEW i \in DOMAIN told, g \in told[i].members PROVE i = n
        <5>1. told[i] = l
          BY <2>8, <3>1, <3>2, <3>5, <4>1
        <5>2. QED
          BY <2>3, <2>5, <3>4, <5>1
      <4>2. QED
        BY <4>1
    <3>7. CASE n \in DOMAIN told
      <4>1. g \in told[n].members
        BY <2>5, <3>3, <3>4, <3>7
      <4>2. {i \in DOMAIN told : g \in told[i].members} = {n}
        BY <3>6, <3>7, <4>1
      <4>3. QED
        BY <4>2, FS_Singleton
    <3>8. CASE n \notin DOMAIN told
      <4>1. Len(told) = MaxLeads /\ \A i \in DOMAIN told : i < n
        <5>1. MaxLeads \in Nat
          BY ActivityAssumption
        <5>2. PICK N \in Nat : N = Len(L)
          BY ListFacts
        <5>3. PICK T : T = Len(told)
          OBVIOUS
        <5>4. n \in 1..N /\ n \notin 1..T /\ T = IF N < MaxLeads THEN N ELSE MaxLeads
          BY <2>3, <2>5, <3>4, <3>8, <5>2, <5>3
        <5>5. T = MaxLeads /\ \A i \in 1..T : i < n
          BY <5>1, <5>2, <5>4
        <5>6. QED
          BY <2>5, <5>3, <5>5
      <4>2. \A i \in DOMAIN told : Rank(told[i].priority) <= Rank(g.class.priority)
        BY <2>3, <2>5, <3>3, <3>4, <4>1
      <4>3. \A i \in DOMAIN told : g \notin told[i].members
        BY <3>6, <3>8
      <4>4. QED
        BY <4>1, <4>2, <4>3
    <3>9. QED
      BY <3>7, <3>8
  <2>10. QED
    BY <1>1, <2>4, <2>7, <2>9 DEF LeadsCoverUrgent
<1>4. QED
  BY <1>2, <1>3

THEOREM ConcernIsKept == ASpec => []UrgencyKept
<1>1. ASpec => []AInv
  BY InitAInv, NextAInv, PTL DEF ASpec
<1>2. AInv => UrgencyKept
  BY ConcernsSurface, EvidenceRaises, LeadsCover DEF UrgencyKept
<1>3. QED
  BY <1>1, <1>2, PTL
=============================================================================
