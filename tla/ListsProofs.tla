----------------------------- MODULE ListsProofs ------------------------------
(***************************************************************************)
(* What the operators of Lists return, for every set, order and list: the  *)
(* facts that the proofs about the analysis cite.                          *)
(***************************************************************************)
EXTENDS Lists, FiniteSetsExt, FiniteSetTheorems, FunctionTheorems, NaturalsInduction, TLAPS

(* R puts the elements of I one after the other.                           *)
Orders(I, R) ==
    /\ \A i \in I : <<i, i>> \notin R
    /\ \A i, j, k \in I : <<i, j>> \in R /\ <<j, k>> \in R => <<i, k>> \in R
    /\ \A i, k \in I : i = k \/ <<i, k>> \in R \/ <<k, i>> \in R

Below(I, R, i) == {k \in I : <<k, i>> \in R}

LEMMA BelowGrows ==
  ASSUME NEW I, NEW R, IsFiniteSet(I), Orders(I, R), NEW i \in I, NEW k \in I
  PROVE  /\ Cardinality(Below(I, R, i)) \in 0..(Cardinality(I) - 1)
         /\ <<i, k>> \in R <=> Cardinality(Below(I, R, i)) < Cardinality(Below(I, R, k))
<1> DEFINE B(j) == Below(I, R, j)
<1>1. ASSUME NEW j \in I
      PROVE  /\ IsFiniteSet(B(j)) /\ Cardinality(B(j)) \in Nat
             /\ Cardinality(B(j)) < Cardinality(I)
  <2>1. B(j) \subseteq I /\ j \notin B(j)
    BY DEF Below, Orders
  <2>2. QED
    BY <2>1, FS_Subset, FS_CardinalityType
<1>2. ASSUME NEW j \in I, NEW h \in I, <<j, h>> \in R
      PROVE  Cardinality(B(j)) < Cardinality(B(h))
  <2>1. B(j) \subseteq B(h)
    BY <1>2 DEF Below, Orders
  <2>2. j \in B(h) /\ j \notin B(j)
    BY <1>2 DEF Below, Orders
  <2>3. QED
    BY <1>1, <2>1, <2>2, FS_Subset
<1>3. Cardinality(B(i)) \in 0..(Cardinality(I) - 1)
  BY <1>1, FS_CardinalityType
<1>4. <<i, k>> \in R => Cardinality(B(i)) < Cardinality(B(k))
  BY <1>2
<1>5. ASSUME Cardinality(B(i)) < Cardinality(B(k))
      PROVE  <<i, k>> \in R
  <2>1. i # k
    BY <1>1, <1>5
  <2>2. <<k, i>> \notin R
    BY <1>1, <1>2, <1>5
  <2>3. QED
    BY <2>1, <2>2 DEF Orders
<1>6. QED
  BY <1>3, <1>4, <1>5

(* A list of a set holds each of its elements once, in order.              *)
LEMMA OrderedInOrder ==
  ASSUME NEW I, NEW R, IsFiniteSet(I), Orders(I, R)
  PROVE  LET l == Ordered(I, R)
         IN  /\ l \in Seq(I) /\ Len(l) = Cardinality(I) /\ DOMAIN l = 1..Len(l)
             /\ \A i \in I : \E n \in DOMAIN l : l[n] = i
             /\ \A m, n \in DOMAIN l : m < n <=> <<l[m], l[n]>> \in R
             /\ \A m, n \in DOMAIN l : l[m] = l[n] => m = n
<1> DEFINE N == Cardinality(I)
           l == Ordered(I, R)
           place == [i \in I |-> Cardinality(Below(I, R, i))]
<1>1. N \in Nat
  BY FS_CardinalityType
<1>2. /\ place \in [I -> 0..(N - 1)]
      /\ \A i, k \in I : <<i, k>> \in R <=> place[i] < place[k]
  BY BelowGrows
<1>3. place \in Surjection(I, 0..(N - 1))
  <2>1. place \in Injection(I, 0..(N - 1))
    <3>1. ASSUME NEW i \in I, NEW k \in I, place[i] = place[k]
          PROVE  i = k
      <4>1. <<i, k>> \notin R /\ <<k, i>> \notin R
        BY <1>1, <1>2, <3>1
      <4>2. QED
        BY <4>1 DEF Orders
    <3>2. QED
      BY <1>2, <3>1 DEF Injection, IsInjective
  <2>2. IsFiniteSet(0..(N - 1)) /\ Cardinality(0..(N - 1)) = N
    BY <1>1, FS_Interval
  <2>3. QED
    BY <2>1, <2>2, FS_Injection
<1>4. ASSUME NEW n \in 1..N
      PROVE  l[n] \in I /\ place[l[n]] = n - 1
  <2>0. n - 1 \in 0..(N - 1)
    BY <1>1
  <2>1. \E i \in I : place[i] = n - 1
    BY <2>0, <1>3 DEF Surjection
  <2>2. \E i \in I : Cardinality({k \in I : <<k, i>> \in R}) = n - 1
    BY <2>1 DEF Below
  <2>3. l[n] = CHOOSE i \in I : Cardinality({k \in I : <<k, i>> \in R}) = n - 1
    BY DEF Ordered
  <2>4. l[n] \in I /\ Cardinality({k \in I : <<k, l[n]>> \in R}) = n - 1
    BY <2>2, <2>3
  <2>5. QED
    BY <2>4 DEF Below
<1>5. l \in Seq(I) /\ Len(l) = N /\ DOMAIN l = 1..N
  <2>1. l \in [1..N -> I]
    BY <1>4 DEF Ordered
  <2>2. QED
    BY <1>1, <2>1
<1>6. ASSUME NEW i \in I
      PROVE  \E n \in 1..N : l[n] = i
  <2>1. place[i] + 1 \in 1..N /\ (place[i] + 1) - 1 = place[i]
    BY <1>1, <1>2
  <2>2. l[place[i] + 1] \in I /\ place[l[place[i] + 1]] = place[i]
    BY <1>4, <2>1
  <2>3. l[place[i] + 1] = i
    BY <2>2, <1>2, <1>1 DEF Orders
  <2>4. QED
    BY <2>1, <2>3
<1>7. ASSUME NEW m \in 1..N, NEW n \in 1..N
      PROVE  /\ m < n <=> <<l[m], l[n]>> \in R
             /\ l[m] = l[n] => m = n
  <2>1. l[m] \in I /\ l[n] \in I /\ place[l[m]] = m - 1 /\ place[l[n]] = n - 1
    BY <1>4
  <2>2. QED
    BY <1>1, <1>2, <2>1
<1>8. QED
  BY <1>5, <1>6, <1>7

LEMMA AscendingOrders ==
  ASSUME NEW D, D \subseteq Int, NEW I, I \subseteq D
  PROVE  Orders(I, Ascending(D))
  BY DEF Orders, Ascending

(* at has the positions of s whose entries are in T, once and in order.    *)
Picks(s, T, at) ==
    /\ DOMAIN at = 1..Len(at) /\ Where(s, T) = [n \in DOMAIN at |-> s[at[n]]]
    /\ \A n \in DOMAIN at : at[n] \in DOMAIN s /\ s[at[n]] \in T
    /\ \A i \in DOMAIN s : s[i] \in T => \E n \in DOMAIN at : at[n] = i
    /\ \A m, n \in DOMAIN at : at[m] = at[n] => m = n
    /\ \A m, n \in DOMAIN at : m < n <=> at[m] < at[n]

LEMMA WherePicks ==
  ASSUME NEW S, NEW s \in Seq(S), NEW T
  PROVE  \E at \in Seq(DOMAIN s) : Picks(s, T, at)
<1>1. PICK I : I = {i \in DOMAIN s : s[i] \in T}
  OBVIOUS
<1>2. IsFiniteSet(I) /\ I \subseteq DOMAIN s /\ DOMAIN s = 1..Len(s)
  <2>1. IsFiniteSet(1..Len(s)) /\ DOMAIN s = 1..Len(s)
    BY FS_Interval
  <2>2. QED
    BY <1>1, <2>1, FS_Subset
<1>3. PICK R : R = Ascending(DOMAIN s)
  OBVIOUS
<1>4. Orders(I, R)
  <2>1. DOMAIN s \subseteq Int
    BY <1>2
  <2>2. QED
    BY <1>2, <1>3, <2>1, AscendingOrders
<1>5. PICK at : at = Ordered(I, R)
  OBVIOUS
<1>6. /\ at \in Seq(I) /\ DOMAIN at = 1..Len(at)
      /\ \A i \in I : \E n \in DOMAIN at : at[n] = i
      /\ \A m, n \in DOMAIN at : m < n <=> <<at[m], at[n]>> \in R
      /\ \A m, n \in DOMAIN at : at[m] = at[n] => m = n
  BY <1>2, <1>4, <1>5, OrderedInOrder
<1>7. Where(s, T) = [n \in DOMAIN at |-> s[at[n]]]
  BY <1>1, <1>3, <1>5 DEF Where
<1>8. \A n \in DOMAIN at : at[n] \in I
  BY <1>6
<1>9. at \in Seq(DOMAIN s)
  BY <1>2, <1>6
<1>10. \A m, n \in DOMAIN at : m < n <=> at[m] < at[n]
  BY <1>2, <1>3, <1>6, <1>8 DEF Ascending
<1>11. QED
  BY <1>1, <1>6, <1>7, <1>8, <1>9, <1>10 DEF Picks

(* What is chosen from a list is all of it that qualifies.                 *)
LEMMA WhereSelects ==
  ASSUME NEW S, NEW s \in Seq(S), NEW T
  PROVE  LET w == Where(s, T)
         IN  /\ w \in Seq(S) /\ DOMAIN w = 1..Len(w)
             /\ \A n \in DOMAIN w : w[n] \in T /\ \E i \in DOMAIN s : w[n] = s[i]
             /\ \A i \in DOMAIN s : s[i] \in T => \E n \in DOMAIN w : w[n] = s[i]
<1>1. PICK at \in Seq(DOMAIN s) : Picks(s, T, at)
  BY WherePicks
<1>2. PICK w : w = Where(s, T)
  OBVIOUS
<1>3. /\ DOMAIN w = DOMAIN at /\ \A n \in DOMAIN w : w[n] = s[at[n]]
      /\ \A n \in DOMAIN w : w[n] \in S
  BY <1>1, <1>2 DEF Picks
<1>4. w \in Seq(S) /\ DOMAIN w = 1..Len(w)
  BY <1>1, <1>2, <1>3 DEF Picks
<1>5. QED
  BY <1>1, <1>2, <1>3, <1>4 DEF Picks

LEMMA UpToShortens ==
  ASSUME NEW S, NEW s \in Seq(S), NEW n \in Nat
  PROVE  LET u == UpTo(s, n)
         IN  /\ u \in Seq(S) /\ DOMAIN u = 1..Len(u)
             /\ Len(u) = IF Len(s) < n THEN Len(s) ELSE n
             /\ \A i \in DOMAIN u : i \in DOMAIN s /\ u[i] = s[i]
  BY DEF UpTo

LEMMA LeastOf ==
  ASSUME NEW S \in SUBSET Nat, S # {}
  PROVE  Min(S) \in S /\ \A y \in S : Min(S) <= y
<1> DEFINE R == {ss \in Nat \X Nat : ss[1] < ss[2]}
<1>1. IsWellFoundedOn(R, Nat)
  BY NatLessThanWellFounded DEF OpToRel
<1>2. \A x, y \in Nat : <<y, x>> \in R <=> y < x
  OBVIOUS
<1> HIDE DEF R
<1>3. PICK x \in S : \A y \in S : ~(<<y, x>> \in R)
  BY <1>1, WFMin
<1>4. ASSUME NEW y \in S PROVE x <= y
  <2>1. x \in Nat /\ y \in Nat
    OBVIOUS
  <2>2. ~(y < x)
    BY <1>2, <1>3, <2>1
  <2>3. QED
    BY <2>1, <2>2
<1>5. QED
  BY <1>3, <1>4 DEF Min

LEMMA GreatestOf ==
  ASSUME NEW S \in SUBSET Nat, S # {}, IsFiniteSet(S)
  PROVE  Max(S) \in S
<1>1. PICK R : R = {p \in S \X S : p[2] < p[1]}
  OBVIOUS
<1>2. Orders(S, R)
  BY <1>1 DEF Orders
<1>3. PICK l : l = Ordered(S, R)
  OBVIOUS
<1>4. /\ l \in Seq(S) /\ DOMAIN l = 1..Len(l)
      /\ \A i \in S : \E n \in DOMAIN l : l[n] = i
      /\ \A m, n \in DOMAIN l : m < n <=> <<l[m], l[n]>> \in R
  BY <1>2, <1>3, OrderedInOrder
<1>5. 1 \in DOMAIN l /\ l[1] \in S
  <2>1. PICK y \in S : TRUE
    OBVIOUS
  <2>2. PICK n \in 1..Len(l) : l[n] = y
    BY <1>4, <2>1
  <2>3. 1 \in 1..Len(l)
    BY <1>4, <2>2
  <2>4. QED
    BY <1>4, <2>3
<1>6. \A y \in S : l[1] >= y
  <2>1. ASSUME NEW n \in DOMAIN l PROVE l[1] >= l[n]
    <3>1. n = 1 \/ 1 < n
      BY <1>4
    <3>2. l[n] \in S
      BY <1>4
    <3>3. l[n] \in Nat /\ l[1] \in Nat
      BY <1>5, <3>2
    <3>4. 1 < n => <<l[1], l[n]>> \in R
      BY <1>4, <1>5
    <3>5. 1 < n => l[n] < l[1]
      BY <1>1, <3>4
    <3>6. QED
      BY <3>1, <3>3, <3>5
  <2>2. QED
    BY <1>4, <2>1
<1>7. QED
  BY <1>5, <1>6 DEF Max

LEMMA ImageFinite ==
  ASSUME NEW S, IsFiniteSet(S), NEW f, DOMAIN f = S, NEW T, T = {f[s] : s \in S}
  PROVE  IsFiniteSet(T)
<1>1. PICK g : g = [s \in S |-> f[s]]
  OBVIOUS
<1>2. g \in [S -> T] /\ \A t \in T : \E s \in S : g[s] = t
  BY <1>1
<1>3. g \in Surjection(S, T)
  BY <1>2, Fun_IsSurj
<1>4. QED
  BY <1>3, FS_Surjection

LEMMA ListFacts ==
  ASSUME NEW S, NEW u \in Seq(S)
  PROVE  Len(u) \in Nat /\ DOMAIN u = 1..Len(u) /\ \A i \in 1..Len(u) : u[i] \in S
  OBVIOUS

LEMMA ListOf ==
  ASSUME NEW S, NEW n \in Nat, NEW u \in [1..n -> S]
  PROVE  u \in Seq(S)
OBVIOUS

LEMMA JoinedLists ==
  ASSUME NEW S, NEW u \in Seq(S), NEW v \in Seq(S)
  PROVE  /\ u \o v \in Seq(S) /\ Len(u \o v) = Len(u) + Len(v)
         /\ \A i \in 1..Len(u) : (u \o v)[i] = u[i]
         /\ \A i \in 1..Len(v) : (u \o v)[Len(u) + i] = v[i]
  OBVIOUS

(* As many pairs as there are elements to pair with x.                     *)
LEMMA TaggedAsMany ==
  ASSUME NEW S, IsFiniteSet(S), NEW x
  PROVE  LET T == {<<x, s>> : s \in S} IN IsFiniteSet(T) /\ Cardinality(T) = Cardinality(S)
<1> DEFINE T == {<<x, s>> : s \in S}
<1>1. PICK tag : tag = [s \in S |-> <<x, s>>]
  OBVIOUS
<1>2. tag \in [S -> T]
  BY <1>1
<1>3. \A r, s \in S : tag[r] = tag[s] => r = s
  BY <1>1
<1>4. \A t \in T : \E s \in S : tag[s] = t
  BY <1>1
<1> HIDE DEF T
<1>5. tag \in Injection(S, T) /\ tag \in Surjection(S, T)
  BY <1>2, <1>3, <1>4, Fun_IsInj, Fun_IsSurj
<1>6. tag \in Bijection(S, T)
  BY <1>5 DEF Bijection
<1>7. IsFiniteSet(T) /\ Cardinality(T) = Cardinality(S)
  BY <1>6, FS_Bijection DEF ExistsBijection
<1>8. QED
  BY <1>7 DEF T

(* No entry of s comes twice.                                              *)
Distinct(s) == \A m, n \in DOMAIN s : s[m] = s[n] => m = n

(* A list without repetition has as many entries as elements.              *)
LEMMA DistinctCounted ==
  ASSUME NEW S, NEW s \in Seq(S), Distinct(s), NEW T, T = {s[n] : n \in DOMAIN s}
  PROVE  IsFiniteSet(T) /\ Cardinality(T) = Len(s)
<1>1. DOMAIN s = 1..Len(s) /\ Len(s) \in Nat
  OBVIOUS
<1>2. s \in [1..Len(s) -> T] /\ \A t \in T : \E n \in 1..Len(s) : s[n] = t
  BY <1>1
<1>3. \A m, n \in 1..Len(s) : s[m] = s[n] => m = n
  BY <1>1 DEF Distinct, Picks
<1>4. s \in Injection(1..Len(s), T) /\ s \in Surjection(1..Len(s), T)
  BY <1>2, <1>3, Fun_IsInj, Fun_IsSurj
<1>5. s \in Bijection(1..Len(s), T)
  BY <1>4 DEF Bijection
<1>6. IsFiniteSet(1..Len(s)) /\ Cardinality(1..Len(s)) = Len(s)
  <2>1. 1 \in Int /\ Len(s) \in Int
    BY <1>1
  <2>2. IsFiniteSet(1..Len(s)) /\ Cardinality(1..Len(s)) = IF 1 > Len(s) THEN 0 ELSE Len(s) - 1 + 1
    BY <2>1, FS_Interval
  <2>3. QED
    BY <1>1, <2>2
<1>7. QED
  BY <1>5, <1>6, FS_Bijection DEF ExistsBijection

LEMMA WhereDistinct ==
  ASSUME NEW S, NEW s \in Seq(S), NEW T, Distinct(s)
  PROVE  Distinct(Where(s, T))
<1>1. PICK at \in Seq(DOMAIN s) : Picks(s, T, at)
  BY WherePicks
<1>2. QED
  BY <1>1 DEF Distinct, Picks

LEMMA JoinedAre ==
  ASSUME NEW S, NEW u \in Seq(S), NEW v \in Seq(S), NEW w, w = u \o v
  PROVE  /\ w \in Seq(S) /\ DOMAIN w = 1..(Len(u) + Len(v)) /\ Len(w) = Len(u) + Len(v)
         /\ \A n \in DOMAIN u : n \in DOMAIN w /\ w[n] = u[n]
         /\ \A n \in DOMAIN v : Len(u) + n \in DOMAIN w /\ w[Len(u) + n] = v[n]
         /\ \A n \in DOMAIN w : n \in DOMAIN u \/ (n - Len(u) \in DOMAIN v /\ w[n] = v[n - Len(u)])
<1>1. /\ Len(u) \in Nat /\ DOMAIN u = 1..Len(u) /\ Len(v) \in Nat /\ DOMAIN v = 1..Len(v)
  OBVIOUS
<1>2. /\ w \in Seq(S) /\ Len(w) = Len(u) + Len(v)
      /\ \A n \in 1..Len(u) : w[n] = u[n]
      /\ \A n \in 1..Len(v) : w[Len(u) + n] = v[n]
  BY JoinedLists
<1>3. DOMAIN w = 1..Len(w)
  BY <1>2
<1>4. \A n \in DOMAIN w : n \in 1..Len(u) \/ (n - Len(u) \in 1..Len(v) /\ n = Len(u) + (n - Len(u)))
  BY <1>1, <1>2, <1>3
<1>5. \A n \in 1..Len(u) : n \in DOMAIN w
  BY <1>1, <1>2, <1>3
<1>6. \A n \in 1..Len(v) : Len(u) + n \in DOMAIN w
  BY <1>1, <1>2, <1>3
<1>7. \A n \in DOMAIN w : n \in DOMAIN u \/ (n - Len(u) \in DOMAIN v /\ w[n] = v[n - Len(u)])
  <2>1. ASSUME NEW n \in DOMAIN w, n \notin 1..Len(u)
        PROVE  n - Len(u) \in 1..Len(v) /\ w[n] = v[n - Len(u)]
    <3>1. n - Len(u) \in 1..Len(v) /\ n = Len(u) + (n - Len(u))
      BY <1>4, <2>1
    <3>2. w[Len(u) + (n - Len(u))] = v[n - Len(u)]
      BY <1>2, <3>1
    <3>3. QED
      BY <3>1, <3>2
  <2>2. QED
    BY <1>1, <2>1
<1>8. QED
  BY <1>1, <1>2, <1>3, <1>5, <1>6, <1>7

LEMMA JoinedDistinct ==
  ASSUME NEW S, NEW u \in Seq(S), NEW v \in Seq(S), Distinct(u), Distinct(v),
         \A m \in DOMAIN u, n \in DOMAIN v : u[m] # v[n], NEW w, w = u \o v
  PROVE  Distinct(w)
<1>1. /\ Len(u) \in Nat /\ DOMAIN u = 1..Len(u) /\ Len(v) \in Nat /\ DOMAIN v = 1..Len(v)
  OBVIOUS
<1>2. /\ DOMAIN w = 1..(Len(u) + Len(v))
      /\ \A n \in DOMAIN u : n \in DOMAIN w /\ w[n] = u[n]
      /\ \A n \in DOMAIN w : n \in DOMAIN u \/ (n - Len(u) \in DOMAIN v /\ w[n] = v[n - Len(u)])
  BY JoinedAre
<1>3. ASSUME NEW m \in DOMAIN w, NEW n \in DOMAIN w, w[m] = w[n] PROVE m = n
  <2>1. m \in Int /\ n \in Int
    BY <1>1, <1>2
  <2>2. CASE m \in DOMAIN u /\ n \in DOMAIN u
    BY <1>2, <1>3, <2>2 DEF Distinct
  <2>3. CASE m \in DOMAIN u /\ n \notin DOMAIN u
    BY <1>2, <1>3, <2>3
  <2>4. CASE m \notin DOMAIN u /\ n \in DOMAIN u
    BY <1>2, <1>3, <2>4
  <2>5. CASE m \notin DOMAIN u /\ n \notin DOMAIN u
    <3>1. /\ m - Len(u) \in DOMAIN v /\ n - Len(u) \in DOMAIN v
          /\ v[m - Len(u)] = v[n - Len(u)]
      BY <1>2, <1>3, <2>5
    <3>2. m - Len(u) = n - Len(u)
      BY <3>1 DEF Distinct
    <3>3. QED
      BY <1>1, <2>1, <3>2
  <2>6. QED
    BY <2>2, <2>3, <2>4, <2>5
<1>4. QED
  BY <1>3 DEF Distinct

(* w holds the entries of s that are of three kinds, one after the other.  *)
InKinds(w, s, A, B, C) ==
    /\ Distinct(w)
    /\ \A n \in DOMAIN w : w[n] \in A \cup B \cup C /\ \E i \in DOMAIN s : s[i] = w[n]
    /\ \A i \in DOMAIN s : s[i] \in A \cup B \cup C => \E n \in DOMAIN w : w[n] = s[i]
    /\ \A m, n \in DOMAIN w : /\ m <= n /\ w[n] \in A => w[m] \in A
                              /\ m <= n /\ w[n] \in B => w[m] \in A \cup B

LEMMA ThreeKinds ==
  ASSUME NEW S, NEW s \in Seq(S), Distinct(s),
         NEW A, NEW B, NEW C, A \cap B = {}, A \cap C = {}, B \cap C = {},
         NEW w, w = Where(s, A) \o Where(s, B) \o Where(s, C)
  PROVE  w \in Seq(S) /\ InKinds(w, s, A, B, C)
<1>1. PICK a, b, c : a = Where(s, A) /\ b = Where(s, B) /\ c = Where(s, C)
  OBVIOUS
<1>2. /\ a \in Seq(S) /\ DOMAIN a = 1..Len(a) /\ Distinct(a)
      /\ \A n \in DOMAIN a : a[n] \in A /\ \E i \in DOMAIN s : a[n] = s[i]
      /\ \A i \in DOMAIN s : s[i] \in A => \E n \in DOMAIN a : a[n] = s[i]
  BY <1>1, WhereSelects, WhereDistinct
<1>3. /\ b \in Seq(S) /\ DOMAIN b = 1..Len(b) /\ Distinct(b)
      /\ \A n \in DOMAIN b : b[n] \in B /\ \E i \in DOMAIN s : b[n] = s[i]
      /\ \A i \in DOMAIN s : s[i] \in B => \E n \in DOMAIN b : b[n] = s[i]
  BY <1>1, WhereSelects, WhereDistinct
<1>4. /\ c \in Seq(S) /\ DOMAIN c = 1..Len(c) /\ Distinct(c)
      /\ \A n \in DOMAIN c : c[n] \in C /\ \E i \in DOMAIN s : c[n] = s[i]
      /\ \A i \in DOMAIN s : s[i] \in C => \E n \in DOMAIN c : c[n] = s[i]
  BY <1>1, WhereSelects, WhereDistinct
<1>5. PICK u : u = a \o b
  OBVIOUS
<1>6. w = u \o c
  BY <1>1, <1>5
<1>7. /\ Len(a) \in Nat /\ Len(b) \in Nat /\ Len(c) \in Nat
  BY <1>2, <1>3, <1>4
<1>8. /\ u \in Seq(S) /\ DOMAIN u = 1..(Len(a) + Len(b)) /\ Len(u) = Len(a) + Len(b)
      /\ \A n \in DOMAIN a : n \in DOMAIN u /\ u[n] = a[n]
      /\ \A n \in DOMAIN b : Len(a) + n \in DOMAIN u /\ u[Len(a) + n] = b[n]
      /\ \A n \in DOMAIN u : n \in DOMAIN a \/ (n - Len(a) \in DOMAIN b /\ u[n] = b[n - Len(a)])
  <2>1. a \in Seq(S) /\ b \in Seq(S)
    BY <1>2, <1>3
  <2>2. QED
    BY <1>5, <2>1, JoinedAre
<1>9. /\ w \in Seq(S) /\ DOMAIN w = 1..(Len(u) + Len(c)) /\ Len(w) = Len(u) + Len(c)
      /\ \A n \in DOMAIN u : n \in DOMAIN w /\ w[n] = u[n]
      /\ \A n \in DOMAIN c : Len(u) + n \in DOMAIN w /\ w[Len(u) + n] = c[n]
      /\ \A n \in DOMAIN w : n \in DOMAIN u \/ (n - Len(u) \in DOMAIN c /\ w[n] = c[n - Len(u)])
  <2>1. u \in Seq(S) /\ c \in Seq(S)
    BY <1>4, <1>8
  <2>2. QED
    BY <1>6, <2>1, JoinedAre
<1>10. \A n \in DOMAIN w :
          \/ n \in DOMAIN a /\ w[n] = a[n]
          \/ n \in DOMAIN u /\ n \notin DOMAIN a /\ n - Len(a) \in DOMAIN b /\ w[n] = b[n - Len(a)]
          \/ n \notin DOMAIN u /\ n - Len(u) \in DOMAIN c /\ w[n] = c[n - Len(u)]
  BY <1>8, <1>9
<1>11. ASSUME NEW n \in DOMAIN w
       PROVE  /\ w[n] \in A <=> n \in DOMAIN a
              /\ w[n] \in B <=> n \in DOMAIN u /\ n \notin DOMAIN a
              /\ w[n] \in A \cup B \cup C
              /\ \E i \in DOMAIN s : s[i] = w[n]
  <2>1. CASE n \in DOMAIN a /\ w[n] = a[n]
    <3>1. w[n] \in A /\ \E i \in DOMAIN s : s[i] = w[n]
      BY <1>2, <2>1
    <3>2. QED
      BY <2>1, <3>1
  <2>2. CASE n \in DOMAIN u /\ n \notin DOMAIN a /\ n - Len(a) \in DOMAIN b /\ w[n] = b[n - Len(a)]
    <3>1. w[n] \in B /\ \E i \in DOMAIN s : s[i] = w[n]
      BY <1>3, <2>2
    <3>2. QED
      BY <2>2, <3>1
  <2>3. CASE n \notin DOMAIN u /\ n - Len(u) \in DOMAIN c /\ w[n] = c[n - Len(u)]
    <3>1. w[n] \in C /\ \E i \in DOMAIN s : s[i] = w[n]
      BY <1>4, <2>3
    <3>2. n \notin DOMAIN a
      BY <1>8, <2>3
    <3>3. QED
      BY <2>3, <3>1, <3>2
  <2>4. QED
    BY <1>10, <2>1, <2>2, <2>3
<1>12. Distinct(w)
  <2>1. Distinct(u)
    <3>1. \A m \in DOMAIN a, n \in DOMAIN b : a[m] # b[n]
      BY <1>2, <1>3
    <3>2. QED
      BY <1>2, <1>3, <1>5, <3>1, JoinedDistinct
  <2>2. \A m \in DOMAIN u, n \in DOMAIN c : u[m] # c[n]
    <3>1. \A m \in DOMAIN u : u[m] \in A \cup B
      BY <1>2, <1>3, <1>8
    <3>2. QED
      BY <1>4, <3>1
  <2>3. u \in Seq(S) /\ c \in Seq(S) /\ Distinct(c)
    BY <1>4, <1>8
  <2>4. QED
    BY <1>6, <2>1, <2>2, <2>3, JoinedDistinct
<1>13. ASSUME NEW i \in DOMAIN s, s[i] \in A \cup B \cup C PROVE \E n \in DOMAIN w : w[n] = s[i]
  <2>1. CASE s[i] \in A
    <3>1. PICK n \in DOMAIN a : a[n] = s[i]
      BY <1>2, <2>1
    <3>2. n \in DOMAIN u /\ u[n] = s[i]
      BY <1>8, <3>1
    <3>3. QED
      BY <1>9, <3>2
  <2>2. CASE s[i] \in B
    <3>1. PICK n \in DOMAIN b : b[n] = s[i]
      BY <1>3, <2>2
    <3>2. Len(a) + n \in DOMAIN u /\ u[Len(a) + n] = s[i]
      BY <1>8, <3>1
    <3>3. QED
      BY <1>9, <3>2
  <2>3. CASE s[i] \in C
    <3>1. PICK n \in DOMAIN c : c[n] = s[i]
      BY <1>4, <2>3
    <3>2. Len(u) + n \in DOMAIN w /\ w[Len(u) + n] = s[i]
      BY <1>9, <3>1
    <3>3. QED
      BY <3>2
  <2>4. QED
    BY <1>13, <2>1, <2>2, <2>3
<1>14. ASSUME NEW m \in DOMAIN w, NEW n \in DOMAIN w, m <= n
       PROVE  /\ n \in DOMAIN a => m \in DOMAIN a
              /\ n \in DOMAIN u => m \in DOMAIN u
  BY <1>2, <1>7, <1>8, <1>9, <1>14
<1>15. \A m, n \in DOMAIN w : /\ m <= n /\ w[n] \in A => w[m] \in A
                              /\ m <= n /\ w[n] \in B => w[m] \in A \cup B
  <2>1. ASSUME NEW m \in DOMAIN w, NEW n \in DOMAIN w, m <= n
        PROVE  /\ w[n] \in A => w[m] \in A
               /\ w[n] \in B => w[m] \in A \cup B
    <3>1. /\ n \in DOMAIN a => m \in DOMAIN a
          /\ n \in DOMAIN u => m \in DOMAIN u
      BY <1>14, <2>1
    <3>2. QED
      BY <1>11, <3>1
  <2>2. QED
    BY <2>1
<1>16. QED
  BY <1>9, <1>11, <1>12, <1>13, <1>15 DEF InKinds

(* A list in the order of a relation is the ordered list of its entries.   *)
LEMMA OrderedIs ==
  ASSUME NEW T, NEW R, NEW s \in Seq(T), \A t \in T : \E n \in 1..Len(s) : s[n] = t,
         \A m, n \in 1..Len(s) : m < n <=> <<s[m], s[n]>> \in R
  PROVE  Ordered(T, R) = s
<1>1. DOMAIN s = 1..Len(s) /\ Len(s) \in Nat /\ \A n \in 1..Len(s) : s[n] \in T
  BY ListFacts
<1>2. Distinct(s)
  <2>1. ASSUME NEW m \in 1..Len(s), NEW n \in 1..Len(s), s[m] = s[n] PROVE m = n
    <3>1. ~(m < n) /\ ~(n < m)
      <4>1. ~(m < m) /\ ~(n < n)
        BY <1>1
      <4>2. QED
        BY <2>1, <4>1
    <3>2. QED
      BY <1>1, <3>1
  <2>2. QED
    BY <1>1, <2>1 DEF Distinct
<1>3. T = {s[n] : n \in DOMAIN s}
  BY <1>1
<1>4. IsFiniteSet(T) /\ Cardinality(T) = Len(s)
  BY <1>2, <1>3, DistinctCounted
<1>5. ASSUME NEW n \in 1..Len(s)
      PROVE  Cardinality({k \in T : <<k, s[n]>> \in R}) = n - 1
  <2>1. PICK b : b = SubSeq(s, 1, n - 1)
    OBVIOUS
  <2>2. /\ b \in Seq(T) /\ Len(b) = n - 1 /\ DOMAIN b = 1..(n - 1)
        /\ \A i \in 1..(n - 1) : b[i] = s[i] /\ i \in 1..Len(s)
    BY <1>1, <2>1
  <2>3. Distinct(b)
    BY <1>1, <1>2, <2>2 DEF Distinct
  <2>4. {k \in T : <<k, s[n]>> \in R} = {b[i] : i \in DOMAIN b}
    <3>1. ASSUME NEW k \in T, <<k, s[n]>> \in R PROVE \E i \in 1..(n - 1) : b[i] = k
      <4>1. PICK i \in 1..Len(s) : s[i] = k
        OBVIOUS
      <4>2. i < n
        BY <3>1, <4>1
      <4>3. i \in 1..(n - 1)
        BY <1>1, <4>2
      <4>4. QED
        BY <2>2, <4>1, <4>3
    <3>2. ASSUME NEW i \in 1..(n - 1) PROVE b[i] \in T /\ <<b[i], s[n]>> \in R
      <4>1. i \in 1..Len(s) /\ i < n
        BY <1>1
      <4>2. QED
        BY <1>1, <2>2, <4>1
    <3>3. QED
      BY <2>2, <3>1, <3>2
  <2>5. QED
    BY <2>2, <2>3, <2>4, DistinctCounted
<1>6. ASSUME NEW n \in 1..Len(s)
      PROVE  (CHOOSE i \in T : Cardinality({k \in T : <<k, i>> \in R}) = n - 1) = s[n]
  <2>1. \A i \in T : Cardinality({k \in T : <<k, i>> \in R}) = n - 1 => i = s[n]
    <3>1. SUFFICES ASSUME NEW m \in 1..Len(s), Cardinality({k \in T : <<k, s[m]>> \in R}) = n - 1
                   PROVE  m = n
      OBVIOUS
    <3>2. m - 1 = n - 1
      BY <1>5, <3>1
    <3>3. QED
      BY <1>1, <3>2
  <2>2. QED
    BY <1>1, <1>5, <2>1
<1>7. Ordered(T, R) = [n \in 1..Len(s) |-> s[n]]
  BY <1>4, <1>6 DEF Ordered
<1>8. QED
  BY <1>1, <1>7
=============================================================================
