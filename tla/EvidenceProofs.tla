--------------------------- MODULE EvidenceProofs ---------------------------
(***************************************************************************)
(* What EvidenceStore guarantees for every set of files, sources, analyses *)
(* and threads.                                                            *)
(***************************************************************************)
EXTENDS EvidenceStore, FiniteSetTheorems, WellFoundedInduction, TLAPS

(* Where each request stands says what it has in hand.                     *)
Looking == {"observed", "recorded"}
Analysing == {"begin", "analyse", "finish"}

Placed(w) ==
    LET r == request[w] IN
    /\ r.op = "idle" => r = Idle
    /\ r.op # "idle" => r.file \in File
    /\ r.op \in {"hashed", "insert"} => r.seen \in Content
    /\ r.op = "hashed" => r.late = {}
    /\ r.op \in Looking => /\ r.source \in Registered /\ r.seen \in Content
                           /\ r.file = source[r.source].file
    /\ r.op \in Looking \cup {"begin"} => r.read = {}
    /\ r.op \in Analysing \cup {"recorded"} => r.analysing
    /\ r.op \in Analysing => /\ r.source \in Registered \cup {None}
                             /\ r.source = None => r.digest = None
                             /\ r.source # None => r.digest = source[r.source].digest
    /\ IF r.op \in {"analyse", "finish"}
       THEN /\ r.analysis \in DOMAIN analysis \ stranded
            /\ analysis[r.analysis].status = "RUNNING"
            /\ analysis[r.analysis].source = r.source
            /\ analysis[r.analysis].digest = r.digest
       ELSE r.analysis = None

AllPlaced == \A w \in Thread : Placed(w)

(* What nobody disturbed still is as it was seen.                          *)
Undisturbed(w) ==
    LET r == request[w]
        f == disk[r.file] IN
    ~r.doubt /\ r.analysing =>
        /\ r.op \in Looking => f = r.seen
        /\ r.op = "recorded" =>
              source[r.source].verdict = Judge(source[r.source].digest, r.seen)
        /\ r.op \in {"begin", "analyse"} /\ r.digest # None => f \notin Bytes \ {r.digest}
        /\ r.op \in Analysing /\ r.digest # None => r.read \subseteq {r.digest}

AllUndisturbed == \A w \in Thread : Undisturbed(w)

(* Nobody else was registered since it looked back, but those in late.     *)
LookedBack ==
    \A w \in Thread :
        LET r == request[w] IN
        Is(w, "insert") =>
            IsLatest(r.source, {i \in Copies(r.seen) :
                                   r.seen \in Bytes /\ order[i] \notin r.late})

LEMMA IdleType == Idle \in Request
  BY DEF Idle, Request

LEMMA VerdictType ==
  ASSUME NEW c \in Content, NEW d \in Bytes \cup {None}
  PROVE  /\ FirstVerdict(c) \in {"VERIFIED", "MISSING", "UNVERIFIED"}
         /\ Judge(d, c) \in {"VERIFIED", "MISMATCH", "MISSING", "UNVERIFIED"}
  BY DEF FirstVerdict, Judge, Content

LEMMA InitType == Init => TypeOK /\ AllPlaced
<1> SUFFICES ASSUME Init PROVE TypeOK /\ AllPlaced
  OBVIOUS
<1>1. /\ Registered = {} /\ DOMAIN analysis = {} /\ DOMAIN log = {}
      /\ DOMAIN missed = {}
  BY DEF Init, Registered
<1>2. TypeOK
  BY <1>1, IdleType, EvidenceAssumption DEF Init, TypeOK
<1>3. AllPlaced
  BY DEF Init, AllPlaced, Placed, Idle, Looking, Analysing
<1>4. QED
  BY <1>2, <1>3

(* A table with one more row.                                              *)
LEMMA WithType ==
  ASSUME NEW K, NEW V, NEW table \in [K -> V], NEW id, NEW row \in V
  PROVE  /\ With(table, id, row) \in [K \cup {id} -> V]
         /\ With(table, id, row)[id] = row
         /\ \A k \in K \ {id} : With(table, id, row)[k] = table[k]
  BY DEF With

(* Steps that only move one request on.                                    *)
Moves(w, r) ==
    /\ request' = [request EXCEPT ![w] = r]
    /\ UNCHANGED <<source, order, log, analysis>>

LEMMA MoveTypeOK ==
  ASSUME TypeOK, NEW w \in Thread, NEW r \in Request, Moves(w, r),
         UNCHANGED <<disk, changes, missed, doubtful>>,
         requests' \in 0..MaxRequests, stranded' \subseteq Analysis
  PROVE  TypeOK'
  BY DEF TypeOK, Moves, Registered

(* Steps of requests that touch no table.                                  *)
Quiet(w) ==
    \/ \E f \in File : HashToRegister(w, f) \/ AnalysePath(w, f)
    \/ \E s \in Source, analysing \in BOOLEAN : HashToVerify(w, s, analysing)
    \/ LookBack(w)
    \/ ReadVerdict(w)
    \/ ReadImage(w)
    \/ \E ok \in BOOLEAN : EndAnalysis(w, ok)
    \/ RequestFails(w)

LEMMA AcceptTypeOK ==
  ASSUME TypeOK, NEW w \in Thread, NEW r \in Request, Accept(w, r)
  PROVE  TypeOK'
<1>1. requests' \in 0..MaxRequests
  BY EvidenceAssumption DEF TypeOK, Accept
<1>2. Moves(w, r) /\ UNCHANGED <<disk, changes, missed, doubtful, stranded>>
  BY DEF Accept, Moves, rows, history
<1>3. QED
  BY <1>1, <1>2, MoveTypeOK DEF TypeOK

(* A set of natural numbers that is not empty has a least element.         *)
LEMMA LeastNatural ==
  ASSUME NEW T \in SUBSET Nat, T # {}
  PROVE  \E x \in T : \A y \in T : x <= y
<1> DEFINE R == {ss \in Nat \X Nat : ss[1] < ss[2]}
<1>1. IsWellFoundedOn(R, Nat)
  BY NatLessThanWellFounded DEF OpToRel
<1>2. \A x, y \in Nat : <<y, x>> \in R <=> y < x
  OBVIOUS
<1> HIDE DEF R
<1>3. PICK x \in T : \A y \in T : ~(<<y, x>> \in R)
  BY <1>1, WFMin
<1>4. ASSUME NEW y \in T PROVE x <= y
  <2>1. x \in Nat /\ y \in Nat
    OBVIOUS
  <2>2. ~(y < x)
    BY <1>2, <1>3, <2>1
  <2>3. QED
    BY <2>1, <2>2
<1>5. QED
  BY <1>4

LEMMA LatestCopyType ==
  ASSUME TypeOK, NEW b \in Bytes
  PROVE  Copies(b) # {} => \E i \in Copies(b) :
              LatestCopy(b) = order[i] /\ \A j \in Copies(b) : j <= i
<1> SUFFICES ASSUME Copies(b) # {}
    PROVE \E i \in Copies(b) : LatestCopy(b) = order[i] /\ \A j \in Copies(b) : j <= i
  OBVIOUS
<1> DEFINE n == Len(order)
           T == {n - i : i \in Copies(b)}
<1>1. n \in Nat /\ Copies(b) \subseteq 1..n
  BY DEF TypeOK, Copies
<1>2. T \subseteq Nat /\ T # {}
  BY <1>1
<1> HIDE DEF T
<1>3. PICK x \in T : \A y \in T : x <= y
  BY <1>2, LeastNatural
<1>4. PICK i \in Copies(b) : x = n - i
  BY DEF T
<1>5. \A j \in Copies(b) : j <= i
  <2> SUFFICES ASSUME NEW j \in Copies(b) PROVE j <= i
    OBVIOUS
  <2>1. n - j \in T
    BY DEF T
  <2>2. n - i <= n - j
    BY <1>3, <1>4, <2>1
  <2>3. i \in Nat /\ j \in Nat
    BY <1>1
  <2> HIDE DEF n
  <2>4. QED
    BY <1>1, <2>2, <2>3
<1>6. QED
  BY <1>5 DEF LatestCopy

(* A request that moves on stays a request.                                *)
LEMMA MovedType ==
  ASSUME NEW r \in Request
  PROVE  /\ \A x \in Source \cup {None} : [r EXCEPT !.op = "insert", !.source = x] \in Request
         /\ [r EXCEPT !.op = "recorded"] \in Request
         /\ \A d \in Bytes \cup {None} : [r EXCEPT !.op = "begin", !.digest = d] \in Request
         /\ \A a \in Analysis : [r EXCEPT !.op = "analyse", !.analysis = a] \in Request
         /\ \A R \in SUBSET Bytes : [r EXCEPT !.read = R] \in Request
         /\ \A R \in SUBSET Bytes, ok \in BOOLEAN :
                [r EXCEPT !.op = "finish", !.ok = ok, !.read = R] \in Request
         /\ \A s \in Source : [r EXCEPT !.late = r.late \cup {s}] \in Request
         /\ [r EXCEPT !.late = r.late] \in Request
         /\ \A ok \in BOOLEAN : [r EXCEPT !.doubt = ok] \in Request
<1>1. \A x \in Source \cup {None} : [r EXCEPT !.op = "insert", !.source = x] \in Request
  BY DEF Request
<1>2. [r EXCEPT !.op = "recorded"] \in Request
  BY DEF Request
<1>3. \A d \in Bytes \cup {None} : [r EXCEPT !.op = "begin", !.digest = d] \in Request
  BY DEF Request
<1>4. \A a \in Analysis : [r EXCEPT !.op = "analyse", !.analysis = a] \in Request
  BY DEF Request
<1>5. \A R \in SUBSET Bytes : [r EXCEPT !.read = R] \in Request
  BY DEF Request
<1>6. \A R \in SUBSET Bytes, ok \in BOOLEAN :
        [r EXCEPT !.op = "finish", !.ok = ok, !.read = R] \in Request
  BY DEF Request
<1>7. \A s \in Source : [r EXCEPT !.late = r.late \cup {s}] \in Request
  BY DEF Request
<1>8. [r EXCEPT !.late = r.late] \in Request
  BY DEF Request
<1>9. \A ok \in BOOLEAN : [r EXCEPT !.doubt = ok] \in Request
  BY DEF Request
<1>10. QED
  BY <1>1, <1>2, <1>3, <1>4, <1>5, <1>6, <1>7, <1>8, <1>9

LEMMA DiskType ==
  ASSUME TypeOK, AllPlaced, NEW w \in Thread
  PROVE  /\ ~Is(w, "idle") => disk[request[w].file] \in Content
         /\ Is(w, "observed") \/ Is(w, "recorded") => request[w].source \in Registered
         /\ Is(w, "analyse") \/ Is(w, "finish") => request[w].analysis \in DOMAIN analysis
  BY DEF TypeOK, AllPlaced, Placed, Is, Looking

LEMMA LookBackTypeOK ==
  ASSUME TypeOK, NEW w \in Thread, LookBack(w)
  PROVE  TypeOK'
<1> DEFINE seen == request[w].seen
           x == IF seen \in Bytes THEN LatestCopy(seen) ELSE None
<1>1. ASSUME seen \in Bytes, Copies(seen) # {} PROVE LatestCopy(seen) \in Source
  <2>1. PICK i \in Copies(seen) : LatestCopy(seen) = order[i]
    BY <1>1, LatestCopyType
  <2>2. QED
    BY <2>1 DEF Copies, TypeOK
<1>2. x \in Source \cup {None}
  BY <1>1 DEF LatestCopy
<1>3. request' = [request EXCEPT ![w] = [request[w] EXCEPT !.op = "insert", !.source = x]]
  BY DEF LookBack, TypeOK
<1> HIDE DEF x
<1>4. [request[w] EXCEPT !.op = "insert", !.source = x] \in Request
  BY <1>2, MovedType DEF TypeOK
<1>5. QED
  BY <1>3, <1>4, MoveTypeOK DEF LookBack, Moves, rows, history, TypeOK

LEMMA QuietTypeOK ==
  ASSUME TypeOK, AllPlaced, NEW w \in Thread, Quiet(w)
  PROVE  TypeOK'
<1> USE DEF rows, history
<1>1. ASSUME NEW f \in File, HashToRegister(w, f) PROVE TypeOK'
  <2>1. [Idle EXCEPT !.op = "hashed", !.file = f, !.seen = disk[f]] \in Request
    BY IdleType DEF TypeOK, Request
  <2>2. QED
    BY <1>1, <2>1, AcceptTypeOK DEF HashToRegister
<1>2. ASSUME NEW f \in File, AnalysePath(w, f) PROVE TypeOK'
  <2>1. [Idle EXCEPT !.op = "begin", !.analysing = TRUE, !.file = f] \in Request
    BY IdleType DEF TypeOK, Request
  <2>2. QED
    BY <1>2, <2>1, AcceptTypeOK DEF AnalysePath
<1>3. ASSUME NEW s \in Source, NEW analysing \in BOOLEAN, HashToVerify(w, s, analysing)
      PROVE  TypeOK'
  <2>1. source[s].file \in File
    BY <1>3 DEF HashToVerify, TypeOK, SourceRow
  <2>2. [Idle EXCEPT !.op = "observed", !.source = s, !.analysing = analysing,
                     !.file = source[s].file, !.seen = disk[source[s].file]] \in Request
    BY <2>1, IdleType DEF TypeOK, Request
  <2>3. QED
    BY <1>3, <2>2, AcceptTypeOK DEF HashToVerify
<1>4. CASE LookBack(w)
  BY <1>4, LookBackTypeOK
<1>5. CASE ReadVerdict(w)
  <2>1. source[request[w].source].digest \in Bytes \cup {None}
    BY <1>5, DiskType DEF ReadVerdict, TypeOK, SourceRow
  <2>2. [request[w] EXCEPT !.op = "begin", !.digest = source[request[w].source].digest]
            \in Request
    BY <2>1, MovedType DEF TypeOK
  <2>3. QED
    BY <1>5, <2>2, IdleType, MoveTypeOK DEF ReadVerdict, Moves, TypeOK
<1>6. CASE ReadImage(w)
  <2> DEFINE R == request[w].read \cup {disk[request[w].file]}
  <2>1. R \in SUBSET Bytes
    BY <1>6 DEF ReadImage, TypeOK, Request
  <2>2. request' = [request EXCEPT ![w] = [request[w] EXCEPT !.read = R]]
    BY <1>6 DEF ReadImage, TypeOK
  <2> HIDE DEF R
  <2>3. [request[w] EXCEPT !.read = R] \in Request
    BY <2>1, MovedType DEF TypeOK
  <2>4. QED
    BY <1>6, <2>2, <2>3, MoveTypeOK DEF ReadImage, Moves, TypeOK
<1>7. ASSUME NEW ok \in BOOLEAN, EndAnalysis(w, ok) PROVE TypeOK'
  <2> DEFINE R == IF ok THEN request[w].read ELSE {}
  <2>1. R \in SUBSET Bytes
    BY DEF TypeOK, Request
  <2>2. request' = [request EXCEPT ![w] =
                       [request[w] EXCEPT !.op = "finish", !.ok = ok, !.read = R]]
    BY <1>7 DEF EndAnalysis, TypeOK
  <2> HIDE DEF R
  <2>3. [request[w] EXCEPT !.op = "finish", !.ok = ok, !.read = R] \in Request
    BY <2>1, MovedType DEF TypeOK
  <2>4. QED
    BY <1>7, <2>2, <2>3, MoveTypeOK DEF EndAnalysis, Moves, TypeOK
<1>8. CASE RequestFails(w)
  <2>1. stranded' \subseteq Analysis
    BY <1>8 DEF RequestFails, TypeOK, Request
  <2>2. QED
    BY <1>8, <2>1, IdleType DEF RequestFails, Done, TypeOK, Registered
<1>9. QED
  BY <1>1, <1>2, <1>3, <1>4, <1>5, <1>6, <1>7, <1>8 DEF Quiet

LEMMA RegisterTypeOK ==
  ASSUME TypeOK, AllPlaced, NEW w \in Thread, NEW s \in Source, Register(w, s)
  PROVE  TypeOK'
<1> DEFINE r == request[w]
           row == [file |-> r.file, verdict |-> FirstVerdict(r.seen),
                   digest |-> IF r.seen \in Bytes THEN r.seen ELSE None,
                   processing |-> "REGISTERED", supersedes |-> r.source]
<1>1. r \in Request /\ r.file \in File /\ r.seen \in Content /\ s \notin Registered
  BY DEF TypeOK, AllPlaced, Placed, Register, Is
<1>2. row \in SourceRow
  BY <1>1, VerdictType DEF SourceRow, Request
<1>3. source' = With(source, s, row) /\ log' = With(log, s, <<r.seen>>)
      /\ missed' = With(missed, s, r.late) /\ order' = Append(order, s)
  BY DEF Register
<1> HIDE DEF row
<1>4. source' \in [Registered \cup {s} -> SourceRow]
  BY <1>2, <1>3, WithType DEF TypeOK
<1>5. Registered' = Registered \cup {s}
  BY <1>4 DEF Registered
<1>6. log' \in [Registered' -> Seq(Content)]
  <2>1. <<r.seen>> \in Seq(Content)
    BY <1>1
  <2>2. QED
    BY <1>3, <1>5, <2>1, WithType DEF TypeOK
<1>7. missed' \in [Registered' -> SUBSET Source]
  <2>1. r.late \in SUBSET Source
    BY <1>1 DEF Request
  <2>2. QED
    BY <1>3, <1>5, <2>1, WithType DEF TypeOK
<1>8. order' \in Seq(Registered')
  <2>1. order \in Seq(Registered')
    BY <1>5 DEF TypeOK
  <2>2. QED
    BY <1>3, <1>5, <2>1
<1>9. request' \in [Thread -> Request]
  <2>1. ASSUME NEW v \in Thread PROVE request'[v] \in Request
    BY IdleType, MovedType DEF Register, TypeOK
  <2>2. QED
    BY <2>1 DEF Register
<1>10. QED
  BY <1>4, <1>5, <1>6, <1>7, <1>8, <1>9 DEF TypeOK, Register

(* A row whose verdict or processing is overwritten stays one.             *)
LEMMA RowType ==
  ASSUME NEW row \in SourceRow
  PROVE  /\ \A v \in {"VERIFIED", "MISMATCH", "MISSING", "UNVERIFIED"} :
                [row EXCEPT !.verdict = v] \in SourceRow
         /\ \A p \in {"ANALYSED", "ANALYSIS_FAILED"} :
                [row EXCEPT !.processing = p] \in SourceRow
  BY DEF SourceRow

LEMMA AnalysisType ==
  ASSUME NEW row \in AnalysisRow, NEW R \in SUBSET Bytes,
         NEW st \in {"RUNNING", "COMPLETED", "FAILED"}
  PROVE  [row EXCEPT !.status = st, !.read = R] \in AnalysisRow
  BY DEF AnalysisRow

LEMMA RecordVerdictTypeOK ==
  ASSUME TypeOK, AllPlaced, NEW w \in Thread, RecordVerdict(w)
  PROVE  TypeOK'
<1> DEFINE r == request[w]
           v == Judge(source[r.source].digest, r.seen)
<1>1. r \in Request /\ r.source \in Registered /\ r.seen \in Content
  BY DEF TypeOK, AllPlaced, Placed, Looking, RecordVerdict, Is
<1>2. v \in {"VERIFIED", "MISMATCH", "MISSING", "UNVERIFIED"}
  <2>1. source[r.source].digest \in Bytes \cup {None}
    BY <1>1 DEF TypeOK, SourceRow
  <2>2. QED
    BY <1>1, <2>1, VerdictType
<1>3. source' = [source EXCEPT ![r.source] = [source[r.source] EXCEPT !.verdict = v]]
  BY <1>1 DEF RecordVerdict, TypeOK
<1> HIDE DEF v
<1>4. source' \in [Registered -> SourceRow]
  BY <1>1, <1>2, <1>3, RowType DEF TypeOK
<1>5. Registered' = Registered
  BY <1>4 DEF Registered
<1>6. log' \in [Registered -> Seq(Content)]
  BY <1>1 DEF RecordVerdict, TypeOK
<1>7. request' \in [Thread -> Request]
  <2>1. ASSUME NEW u \in Thread PROVE request'[u] \in Request
    <3>1. CASE u = w
      BY <1>1, <3>1, IdleType, MovedType DEF RecordVerdict
    <3>2. CASE u # w
      <4> DEFINE d == request[u].doubt \/ (Is(u, "recorded") /\ request[u].source = r.source)
      <4>1. d \in BOOLEAN
        OBVIOUS
      <4>2. request'[u] = [request[u] EXCEPT !.doubt = d]
        BY <3>2 DEF RecordVerdict
      <4> HIDE DEF d
      <4>3. request[u] \in Request
        BY DEF TypeOK
      <4>4. QED
        BY <4>1, <4>2, <4>3, MovedType, Zenon
    <3>3. QED
      BY <3>1, <3>2
  <2>2. QED
    BY <2>1 DEF RecordVerdict
<1>8. UNCHANGED <<disk, order, analysis, changes, requests, missed, doubtful, stranded>>
  BY DEF RecordVerdict, history
<1>9. QED
  BY <1>4, <1>5, <1>6, <1>7, <1>8 DEF TypeOK

LEMMA BeginTypeOK ==
  ASSUME TypeOK, NEW w \in Thread, NEW a \in Analysis, Begin(w, a)
  PROVE  TypeOK'
<1> DEFINE row == [status |-> "RUNNING", source |-> request[w].source,
                   digest |-> request[w].digest, read |-> {}]
<1>1. row \in AnalysisRow
  BY DEF TypeOK, Request, AnalysisRow
<1>2. analysis' = With(analysis, a, row)
  BY DEF Begin
<1> HIDE DEF row
<1>3. analysis' \in [DOMAIN analysis \cup {a} -> AnalysisRow]
  BY <1>1, <1>2, WithType DEF TypeOK
<1>4. request' = [request EXCEPT ![w] = [request[w] EXCEPT !.op = "analyse", !.analysis = a]]
  BY DEF Begin, TypeOK
<1>5. request' \in [Thread -> Request]
  BY <1>4, MovedType DEF TypeOK
<1>6. DOMAIN analysis' \subseteq Analysis /\ analysis' \in [DOMAIN analysis' -> AnalysisRow]
  BY <1>3 DEF TypeOK
<1>7. UNCHANGED <<disk, source, order, log, changes, requests, missed, doubtful, stranded>>
  BY DEF Begin, history
<1>8. QED
  BY <1>5, <1>6, <1>7 DEF TypeOK, Registered

LEMMA FinishTypeOK ==
  ASSUME TypeOK, AllPlaced, NEW w \in Thread, Finish(w)
  PROVE  TypeOK'
<1> DEFINE r == request[w]
           p == IF r.ok THEN "ANALYSED" ELSE "ANALYSIS_FAILED"
<1>1. r \in Request /\ r.analysis \in DOMAIN analysis /\ r.source \in Registered \cup {None}
  BY DEF TypeOK, AllPlaced, Placed, Analysing, Finish, Is
<1>2. source' \in [Registered -> SourceRow]
  <2>1. CASE r.source = None
    BY <2>1 DEF Finish, TypeOK
  <2>2. CASE r.source # None
    <3>1. r.source \in Registered
      BY <1>1, <2>2
    <3>2. source' = [source EXCEPT ![r.source] = [source[r.source] EXCEPT !.processing = p]]
      BY <2>2, <3>1 DEF Finish, TypeOK
    <3>3. p \in {"ANALYSED", "ANALYSIS_FAILED"}
      OBVIOUS
    <3> HIDE DEF p
    <3>4. QED
      BY <3>1, <3>2, <3>3, RowType DEF TypeOK
  <2>3. QED
    BY <2>1, <2>2
<1>3. analysis' \in [DOMAIN analysis -> AnalysisRow]
  <2>1. Status(r.ok) \in {"RUNNING", "COMPLETED", "FAILED"} /\ r.read \in SUBSET Bytes
    BY <1>1 DEF Status, Request
  <2> DEFINE row == [analysis[r.analysis] EXCEPT !.status = Status(r.ok), !.read = r.read]
  <2>2. row \in AnalysisRow
    BY <1>1, <2>1, AnalysisType DEF TypeOK
  <2>3. analysis' = [analysis EXCEPT ![r.analysis] = row]
    BY <1>1 DEF Finish, TypeOK
  <2> HIDE DEF row
  <2>4. QED
    BY <1>1, <2>2, <2>3 DEF TypeOK
<1>4. DOMAIN analysis' = DOMAIN analysis /\ Registered' = Registered
  BY <1>2, <1>3 DEF Registered
<1>5. doubtful' \subseteq Analysis
  BY <1>1 DEF Finish, TypeOK
<1>6. QED
  BY <1>2, <1>3, <1>4, <1>5, IdleType DEF TypeOK, Finish, Done

LEMMA FileChangesTypeOK ==
  ASSUME TypeOK, NEW f \in File, NEW c \in Content, FileChanges(f, c)
  PROVE  TypeOK'
<1>1. ASSUME NEW w \in Thread PROVE request'[w] \in Request
  <2> DEFINE d == request[w].doubt \/ (request[w].analysing /\ request[w].file = f)
  <2>1. d \in BOOLEAN
    OBVIOUS
  <2>2. request'[w] = [request[w] EXCEPT !.doubt = d]
    BY DEF FileChanges
  <2> HIDE DEF d
  <2>3. request[w] \in Request
    BY DEF TypeOK
  <2>4. QED
    BY <2>1, <2>2, <2>3, MovedType, Zenon
<1>2. request' \in [Thread -> Request]
  BY <1>1 DEF FileChanges
<1>3. changes' \in 0..MaxChanges
  BY EvidenceAssumption DEF FileChanges, TypeOK
<1>4. QED
  BY <1>2, <1>3 DEF TypeOK, FileChanges, rows, history, Registered

LEMMA NextTypeOK == TypeOK /\ AllPlaced /\ [Next]_vars => TypeOK'
<1> SUFFICES ASSUME TypeOK, AllPlaced, [Next]_vars PROVE TypeOK'
  OBVIOUS
<1>1. ASSUME NEW w \in Thread, RegisterEvidence(w) \/ Verify(w) \/ Analyse(w) \/ RequestFails(w)
      PROVE  TypeOK'
  BY <1>1, QuietTypeOK, RegisterTypeOK, RecordVerdictTypeOK, BeginTypeOK, FinishTypeOK
  DEF RegisterEvidence, Verify, Analyse, Quiet
<1>2. CASE UNCHANGED vars
  BY <1>2 DEF vars, rows, history, TypeOK, Registered
<1>3. QED
  BY <1>1, <1>2, FileChangesTypeOK DEF Next

(* Nothing a step of another thread does displaces a request.              *)
Kept(v) ==
    /\ request'[v].op = request[v].op
    /\ request'[v].analysing = request[v].analysing
    /\ request'[v].file = request[v].file
    /\ request'[v].seen = request[v].seen
    /\ request'[v].source = request[v].source
    /\ request'[v].analysis = request[v].analysis
    /\ request'[v].digest = request[v].digest
    /\ request'[v].read = request[v].read
    /\ request[v].op # "insert" => request'[v].late = request[v].late

TablesKept ==
    \A s \in Registered : /\ s \in Registered'
                          /\ source'[s].file = source[s].file
                          /\ source'[s].digest = source[s].digest

HoldKept(v) ==
    Is(v, "analyse") \/ Is(v, "finish") =>
        LET a == request[v].analysis IN
        /\ a \in DOMAIN analysis' \ stranded'
        /\ analysis'[a] = analysis[a]

LEMMA PlacedKept ==
  ASSUME NEW v \in Thread, Placed(v), Kept(v), TablesKept, HoldKept(v),
         Is(v, "idle") => request'[v] = request[v]
  PROVE  Placed(v)'
<1> DEFINE r == request[v]
<1>1. CASE Is(v, "idle")
  BY <1>1 DEF Placed, Is, Idle, Looking, Analysing
<1>2. CASE r.op \in {"hashed", "insert"}
  BY <1>2 DEF Placed, Is, Looking, Analysing, Kept
<1>3. CASE r.op \in Looking
  BY <1>3 DEF Placed, Is, Looking, Analysing, Kept, TablesKept
<1>4. CASE r.op = "begin"
  BY <1>4, EvidenceAssumption DEF Placed, Is, Looking, Analysing, Kept, TablesKept
<1>5. CASE r.op \in {"analyse", "finish"}
  BY <1>5 DEF Placed, Is, Looking, Analysing, Kept, TablesKept, HoldKept
<1>6. CASE r.op \notin {"idle", "hashed", "insert", "begin", "analyse", "finish"} \cup Looking
  BY <1>6 DEF Placed, Is, Looking, Analysing, Kept
<1>7. QED
  BY <1>1, <1>2, <1>3, <1>4, <1>5, <1>6 DEF Is

(* The request of w is gone or the only one that moved.                    *)
LEMMA PlacedOthers ==
  ASSUME TypeOK, AllPlaced, NEW w \in Thread, UNCHANGED rows,
         \E r : request' = [request EXCEPT ![w] = r],
         stranded' \subseteq stranded \cup {request[w].analysis}, RunningIsHeld,
         Placed(w)'
  PROVE  AllPlaced'
<1>1. ASSUME NEW v \in Thread, v # w PROVE Placed(v)'
  <2>1. request'[v] = request[v]
    BY <1>1 DEF TypeOK
  <2>2. TablesKept
    BY DEF TablesKept, rows, Registered
  <2>3. HoldKept(v)
    BY <1>1, EvidenceAssumption DEF HoldKept, rows, RunningIsHeld, AllPlaced, Placed, Is, TypeOK
  <2>4. QED
    BY <2>1, <2>2, <2>3, PlacedKept DEF Kept, AllPlaced
<1>2. QED
  BY <1>1 DEF AllPlaced

LEMMA StillIdle ==
  ASSUME NEW d \in BOOLEAN, ~d
  PROVE  [Idle EXCEPT !.doubt = d] = Idle
<1>1. d = FALSE
  OBVIOUS
<1>2. \A r \in Request : r.doubt = FALSE => [r EXCEPT !.doubt = FALSE] = r
  BY DEF Request
<1>3. Idle.doubt = FALSE
  BY DEF Idle
<1>4. QED
  BY <1>1, <1>2, <1>3, IdleType

LEMMA IdlePlaced ==
  ASSUME NEW w \in Thread, request'[w] = Idle
  PROVE  Placed(w)'
  BY DEF Placed, Idle, Looking, Analysing

LEMMA QuietPlaced ==
  ASSUME TypeOK, AllPlaced, RunningIsHeld, NEW w \in Thread, Quiet(w)
  PROVE  AllPlaced'
<1> USE DEF rows, history
<1> DEFINE r == request[w]
<1>1. ASSUME NEW f \in File, HashToRegister(w, f) PROVE AllPlaced'
  <2>1. request'[w] = [Idle EXCEPT !.op = "hashed", !.file = f, !.seen = disk[f]]
    BY <1>1 DEF HashToRegister, Accept, TypeOK
  <2>2. Placed(w)'
    BY <2>1 DEF Placed, Idle, Looking, Analysing, TypeOK
  <2>3. QED
    BY <1>1, <2>2, PlacedOthers DEF HashToRegister, Accept
<1>2. ASSUME NEW f \in File, AnalysePath(w, f) PROVE AllPlaced'
  <2>1. request'[w] = [Idle EXCEPT !.op = "begin", !.analysing = TRUE, !.file = f]
    BY <1>2 DEF AnalysePath, Accept, TypeOK
  <2>2. Placed(w)'
    BY <2>1 DEF Placed, Idle, Looking, Analysing
  <2>3. QED
    BY <1>2, <2>2, PlacedOthers DEF AnalysePath, Accept
<1>3. ASSUME NEW s \in Source, NEW analysing \in BOOLEAN, HashToVerify(w, s, analysing)
      PROVE  AllPlaced'
  <2>1. request'[w] = [Idle EXCEPT !.op = "observed", !.source = s,
                          !.analysing = analysing, !.file = source[s].file,
                          !.seen = disk[source[s].file]]
    BY <1>3 DEF HashToVerify, Accept, TypeOK
  <2>2. s \in Registered' /\ source'[s].file = source[s].file /\ source[s].file \in File
    BY <1>3 DEF HashToVerify, Accept, TypeOK, SourceRow, Registered
  <2>3. Placed(w)'
    BY <2>1, <2>2 DEF Placed, Idle, Looking, Analysing, TypeOK
  <2>4. QED
    BY <1>3, <2>3, PlacedOthers DEF HashToVerify, Accept
<1>4. CASE LookBack(w)
  <2>1. r.op = "hashed" /\ r.file \in File /\ r.seen \in Content /\ r.analysis = None
    BY <1>4 DEF LookBack, Is, AllPlaced, Placed
  <2>2. /\ request'[w].op = "insert" /\ request'[w].file = r.file
        /\ request'[w].seen = r.seen /\ request'[w].analysis = r.analysis
    BY <1>4 DEF LookBack, TypeOK, Request
  <2>3. Placed(w)'
    BY <2>1, <2>2 DEF Placed, Looking, Analysing
  <2>4. QED
    BY <1>4, <2>3, PlacedOthers DEF LookBack, TypeOK
<1>5. CASE ReadVerdict(w)
  <2>1. CASE source[r.source].verdict \in Refused
    <3>1. request' = [request EXCEPT ![w] = Idle]
      BY <1>5, <2>1 DEF ReadVerdict
    <3>2. QED
      BY <1>5, <3>1, IdlePlaced, PlacedOthers DEF ReadVerdict, TypeOK
  <2>2. CASE source[r.source].verdict \notin Refused
    <3>1. /\ r.op = "recorded" /\ r.file \in File /\ r.analysis = None
          /\ r.source \in Registered /\ r.read = {} /\ r.analysing
      BY <1>5 DEF ReadVerdict, Is, AllPlaced, Placed, Looking
    <3>2. request'[w] = [r EXCEPT !.op = "begin", !.digest = source[r.source].digest]
      BY <1>5, <2>2 DEF ReadVerdict, TypeOK
    <3>3. /\ request'[w].op = "begin" /\ request'[w].file = r.file
          /\ request'[w].analysis = None /\ request'[w].source = r.source
          /\ request'[w].read = {} /\ request'[w].analysing
          /\ request'[w].digest = source[r.source].digest
      BY <3>1, <3>2 DEF TypeOK, Request
    <3>4. r.source # None /\ r.source \in Registered' /\ source' = source
      BY <1>5, <3>1, EvidenceAssumption DEF ReadVerdict, TypeOK, Registered
    <3>5. Placed(w)'
      BY <3>1, <3>3, <3>4 DEF Placed, Looking, Analysing
    <3>6. QED
      BY <1>5, <3>5, PlacedOthers DEF ReadVerdict
  <2>3. QED
    BY <2>1, <2>2
<1>6. CASE ReadImage(w)
  <2>1. /\ request'[w].op = "analyse" /\ request'[w].file = r.file
        /\ request'[w].source = r.source /\ request'[w].analysis = r.analysis
        /\ request'[w].digest = r.digest /\ request'[w].analysing = r.analysing
        /\ r.op = "analyse" /\ UNCHANGED <<source, analysis, stranded>>
    BY <1>6 DEF ReadImage, Is, TypeOK, Request
  <2>2. Placed(w)'
    BY <2>1 DEF AllPlaced, Placed, Looking, Analysing, Registered
  <2>3. QED
    BY <1>6, <2>2, PlacedOthers DEF ReadImage, TypeOK
<1>7. ASSUME NEW ok \in BOOLEAN, EndAnalysis(w, ok) PROVE AllPlaced'
  <2>1. /\ request'[w].op = "finish" /\ request'[w].file = r.file
        /\ request'[w].source = r.source /\ request'[w].analysis = r.analysis
        /\ request'[w].digest = r.digest /\ request'[w].analysing = r.analysing
        /\ r.op = "analyse" /\ UNCHANGED <<source, analysis, stranded>>
    BY <1>7 DEF EndAnalysis, Is, TypeOK, Request
  <2>2. Placed(w)'
    BY <2>1 DEF AllPlaced, Placed, Looking, Analysing, Registered
  <2>3. QED
    BY <1>7, <2>2, PlacedOthers DEF EndAnalysis, TypeOK
<1>8. CASE RequestFails(w)
  <2>1. request'[w] = Idle
    BY <1>8 DEF RequestFails, Done, TypeOK
  <2>2. QED
    BY <1>8, <2>1, IdlePlaced, PlacedOthers DEF RequestFails, Done
<1>9. QED
  BY <1>1, <1>2, <1>3, <1>4, <1>5, <1>6, <1>7, <1>8 DEF Quiet

LEMMA RegisterPlaced ==
  ASSUME TypeOK, AllPlaced, NEW w \in Thread, NEW s \in Source, Register(w, s)
  PROVE  AllPlaced' /\ TablesKept
<1>1. \A t \in Registered : source'[t] = source[t] /\ t \in Registered'
  BY DEF Register, With, Registered
<1>2. TablesKept
  BY <1>1 DEF TablesKept
<1>3. ASSUME NEW v \in Thread, v # w PROVE Placed(v)'
  <2>1. request'[v] = [request[v] EXCEPT !.late =
                          IF Is(v, "insert") THEN request[v].late \cup {s} ELSE request[v].late]
    BY <1>3 DEF Register
  <2>2. Kept(v)
    BY <2>1 DEF Kept, TypeOK, Request, Is
  <2>3. HoldKept(v)
    BY DEF HoldKept, Register, AllPlaced, Placed, Is
  <2>4. Is(v, "idle") => request'[v] = request[v]
    BY <2>1 DEF Is, TypeOK, Request
  <2>5. QED
    BY <1>2, <2>2, <2>3, <2>4, PlacedKept DEF AllPlaced
<1>4. request'[w] = Idle
  BY DEF Register
<1>5. QED
  BY <1>2, <1>3, <1>4, IdlePlaced DEF AllPlaced

LEMMA RecordVerdictPlaced ==
  ASSUME TypeOK, AllPlaced, NEW w \in Thread, RecordVerdict(w)
  PROVE  AllPlaced' /\ TablesKept
<1> DEFINE r == request[w]
<1>1. r.source \in Registered /\ r.op = "observed"
  BY DEF AllPlaced, Placed, Looking, RecordVerdict, Is
<1>2. TablesKept
  BY <1>1 DEF TablesKept, RecordVerdict, TypeOK, SourceRow, Registered
<1>3. ASSUME NEW v \in Thread, v # w PROVE Placed(v)'
  <2> DEFINE d == request[v].doubt \/ (Is(v, "recorded") /\ request[v].source = r.source)
  <2>1. request'[v] = [request[v] EXCEPT !.doubt = d]
    BY <1>3 DEF RecordVerdict
  <2>2. Kept(v)
    BY <2>1 DEF Kept, TypeOK, Request
  <2>3. HoldKept(v)
    BY DEF HoldKept, RecordVerdict, AllPlaced, Placed, Is, history
  <2>4. Is(v, "idle") => request'[v] = request[v]
    <3> SUFFICES ASSUME Is(v, "idle") PROVE request'[v] = request[v]
      OBVIOUS
    <3>1. request[v] = Idle
      BY DEF AllPlaced, Placed, Is
    <3>2. ~d /\ d \in BOOLEAN
      BY <3>1 DEF Is, Idle
    <3> HIDE DEF d
    <3>3. QED
      BY <2>1, <3>1, <3>2, StillIdle
  <2>5. QED
    BY <1>2, <2>2, <2>3, <2>4, PlacedKept DEF AllPlaced
<1>4. CASE ~r.analysing
  BY <1>2, <1>3, <1>4, IdlePlaced DEF AllPlaced, RecordVerdict
<1>5. CASE r.analysing
  <2>1. request'[w] = [r EXCEPT !.op = "recorded"]
    BY <1>5 DEF RecordVerdict
  <2>2. /\ request'[w].op = "recorded" /\ request'[w].analysing
        /\ request'[w].file = r.file /\ request'[w].seen = r.seen
        /\ request'[w].source = r.source /\ request'[w].analysis = r.analysis
        /\ request'[w].read = r.read
    BY <1>5, <2>1 DEF TypeOK, Request
  <2>3. Placed(w)'
    BY <1>1, <1>2, <2>2 DEF AllPlaced, Placed, Looking, Analysing, TablesKept
  <2>4. QED
    BY <1>2, <1>3, <2>3 DEF AllPlaced
<1>6. QED
  BY <1>4, <1>5

LEMMA BeginPlaced ==
  ASSUME TypeOK, AllPlaced, NEW w \in Thread, NEW a \in Analysis, Begin(w, a),
         a \notin stranded
  PROVE  AllPlaced'
<1> DEFINE r == request[w]
<1>1. request'[w] = [r EXCEPT !.op = "analyse", !.analysis = a]
  BY DEF Begin, TypeOK
<1>2. /\ request'[w].op = "analyse" /\ request'[w].analysing = r.analysing
      /\ request'[w].file = r.file /\ request'[w].source = r.source
      /\ request'[w].digest = r.digest /\ request'[w].analysis = a
  BY <1>1 DEF TypeOK, Request
<1>3. /\ a \in DOMAIN analysis' \ stranded' /\ analysis'[a].status = "RUNNING"
      /\ analysis'[a].source = r.source /\ analysis'[a].digest = r.digest
      /\ \A b \in DOMAIN analysis : b \in DOMAIN analysis' /\ analysis'[b] = analysis[b]
      /\ UNCHANGED <<source, stranded>>
  BY DEF Begin, With, history
<1>4. Placed(w)'
  <2>1. /\ r.op = "begin" /\ r.file \in File /\ r.analysing
        /\ r.source \in Registered \cup {None}
        /\ r.source = None => r.digest = None
        /\ r.source # None => r.digest = source[r.source].digest
    BY DEF Begin, Is, AllPlaced, Placed, Looking, Analysing
  <2>2. QED
    BY <1>2, <1>3, <2>1 DEF Placed, Looking, Analysing, Registered
<1>5. ASSUME NEW v \in Thread, v # w PROVE Placed(v)'
  <2>1. request'[v] = request[v]
    BY <1>5 DEF Begin, TypeOK
  <2>2. TablesKept
    BY <1>3 DEF TablesKept, Registered
  <2>3. HoldKept(v)
    BY <1>3 DEF HoldKept, AllPlaced, Placed, Is
  <2>4. QED
    BY <2>1, <2>2, <2>3, PlacedKept DEF Kept, AllPlaced
<1>6. QED
  BY <1>4, <1>5 DEF AllPlaced

LEMMA FinishPlaced ==
  ASSUME TypeOK, AllPlaced, RunningIsHeld, NEW w \in Thread, Finish(w)
  PROVE  AllPlaced' /\ TablesKept
<1> DEFINE r == request[w]
<1>1. r.analysis \in DOMAIN analysis /\ r.analysis # None /\ r.source \in Registered \cup {None}
  BY EvidenceAssumption DEF AllPlaced, Placed, Analysing, Finish, Is, TypeOK
<1>2. TablesKept
  BY <1>1 DEF TablesKept, Finish, TypeOK, SourceRow, Registered
<1>3. ASSUME NEW v \in Thread, v # w PROVE Placed(v)'
  <2>1. request'[v] = request[v]
    BY <1>3 DEF Finish, Done, TypeOK
  <2>2. request[v].analysis # r.analysis
    BY <1>1, <1>3 DEF RunningIsHeld
  <2>3. HoldKept(v)
    BY <1>1, <2>2 DEF HoldKept, Finish, AllPlaced, Placed, Is, TypeOK
  <2>4. QED
    BY <1>2, <2>1, <2>3, PlacedKept DEF Kept, AllPlaced
<1>4. request'[w] = Idle
  BY DEF Finish, Done, TypeOK
<1>5. QED
  BY <1>2, <1>3, <1>4, IdlePlaced DEF AllPlaced

LEMMA FileChangesPlaced ==
  ASSUME TypeOK, AllPlaced, NEW f \in File, NEW c \in Content, FileChanges(f, c)
  PROVE  AllPlaced'
<1>1. ASSUME NEW v \in Thread PROVE Placed(v)'
  <2> DEFINE d == request[v].doubt \/ (request[v].analysing /\ request[v].file = f)
  <2>1. request'[v] = [request[v] EXCEPT !.doubt = d]
    BY DEF FileChanges
  <2>2. Kept(v)
    BY <2>1 DEF Kept, TypeOK, Request
  <2>3. TablesKept /\ HoldKept(v)
    BY DEF TablesKept, HoldKept, FileChanges, rows, history, AllPlaced, Placed, Is, Registered
  <2>4. Is(v, "idle") => request'[v] = request[v]
    <3> SUFFICES ASSUME Is(v, "idle") PROVE request'[v] = request[v]
      OBVIOUS
    <3>1. request[v] = Idle
      BY DEF AllPlaced, Placed, Is
    <3>2. ~d /\ d \in BOOLEAN
      BY <3>1 DEF Idle
    <3> HIDE DEF d
    <3>3. QED
      BY <2>1, <3>1, <3>2, StillIdle
  <2>5. QED
    BY <2>2, <2>3, <2>4, PlacedKept DEF AllPlaced
<1>2. QED
  BY <1>1 DEF AllPlaced

(* A failed request was one for an analysis that has begun.                *)
StrandedKnown == stranded \subseteq DOMAIN analysis

(* No step but Begin, Finish and RequestFails changes who holds what.      *)
LEMMA HeldKept ==
  ASSUME TypeOK, AllPlaced, RunningIsHeld, StrandedKnown,
         \A v \in Thread : request'[v].analysis = request[v].analysis,
         UNCHANGED <<analysis, stranded>>
  PROVE  RunningIsHeld' /\ StrandedKnown'
  BY DEF RunningIsHeld, StrandedKnown

LEMMA QuietHeld ==
  ASSUME TypeOK, AllPlaced, RunningIsHeld, StrandedKnown, NEW w \in Thread, Quiet(w)
  PROVE  RunningIsHeld' /\ StrandedKnown'
<1> USE DEF rows, history
<1> DEFINE r == request[w]
<1>1. \A v \in Thread : v # w => request'[v] = request[v]
  BY DEF Quiet, HashToRegister, AnalysePath, HashToVerify, Accept, LookBack, ReadVerdict,
         ReadImage, EndAnalysis, RequestFails, Done, TypeOK
<1>2. ~RequestFails(w) => request'[w].analysis = r.analysis
  <2> SUFFICES ASSUME ~RequestFails(w) PROVE request'[w].analysis = r.analysis
    OBVIOUS
  <2>1. ASSUME NEW f \in File, HashToRegister(w, f) \/ AnalysePath(w, f)
        PROVE  request'[w].analysis = r.analysis
    <3>1. r = Idle
      BY <2>1 DEF HashToRegister, AnalysePath, Accept, Is, AllPlaced, Placed
    <3>2. request'[w].analysis = None
      BY <2>1 DEF HashToRegister, AnalysePath, Accept, Idle, TypeOK
    <3>3. QED
      BY <3>1, <3>2 DEF Idle
  <2>2. ASSUME NEW s \in Source, NEW a \in BOOLEAN, HashToVerify(w, s, a)
        PROVE  request'[w].analysis = r.analysis
    BY <2>2 DEF HashToVerify, Accept, Is, AllPlaced, Placed, Idle, TypeOK
  <2>3. CASE LookBack(w)
    BY <2>3 DEF LookBack, TypeOK, Request
  <2>4. CASE ReadVerdict(w)
    <3>1. r.analysis = None
      BY <2>4 DEF ReadVerdict, AllPlaced, Placed, Is
    <3>2. \/ request'[w] = Idle
          \/ request'[w] = [r EXCEPT !.op = "begin", !.digest = source[r.source].digest]
      BY <2>4 DEF ReadVerdict, TypeOK
    <3>3. Idle.analysis = None
      BY DEF Idle
    <3>4. r \in Request
      BY DEF TypeOK
    <3>5. [r EXCEPT !.op = "begin", !.digest = source[r.source].digest].analysis = r.analysis
      BY <3>4 DEF Request
    <3>6. QED
      BY <3>1, <3>2, <3>3, <3>5
  <2>5. CASE ReadImage(w)
    BY <2>5 DEF ReadImage, TypeOK, Request
  <2>6. ASSUME NEW ok \in BOOLEAN, EndAnalysis(w, ok) PROVE request'[w].analysis = r.analysis
    BY <2>6 DEF EndAnalysis, TypeOK, Request
  <2> HIDE DEF r
  <2>7. QED
    BY <2>1, <2>2, <2>3, <2>4, <2>5, <2>6, Zenon DEF Quiet
<1>3. CASE ~RequestFails(w)
  <2>1. UNCHANGED <<analysis, stranded>>
    BY <1>3 DEF Quiet, HashToRegister, AnalysePath, HashToVerify, Accept, LookBack,
                ReadVerdict, ReadImage, EndAnalysis
  <2>2. QED
    BY <1>1, <1>2, <1>3, <2>1, HeldKept
<1>4. CASE RequestFails(w)
  <2>1. /\ request'[w].analysis = None /\ analysis' = analysis
        /\ stranded' = stranded \cup ({r.analysis} \ {None})
    BY <1>4 DEF RequestFails, Done, Idle, TypeOK
  <2>2. r.analysis # None => r.analysis \in DOMAIN analysis
    BY DEF AllPlaced, Placed
  <2>3. \A a \in DOMAIN analysis : a # None
    BY EvidenceAssumption DEF TypeOK
  <2>4. StrandedKnown'
    BY <2>1, <2>2 DEF StrandedKnown
  <2>5. ASSUME NEW a \in DOMAIN analysis
        PROVE  (analysis'[a].status = "RUNNING" /\ a \notin stranded')
                   <=> \E v \in Thread : request'[v].analysis = a
    <3>1. CASE a = r.analysis
      BY <1>1, <2>1, <2>3, <3>1 DEF RunningIsHeld
    <3>2. CASE a # r.analysis
      BY <1>1, <2>1, <2>3, <3>2 DEF RunningIsHeld
    <3>3. QED
      BY <3>1, <3>2
  <2>6. QED
    BY <1>1, <2>1, <2>4, <2>5 DEF RunningIsHeld
<1>5. QED
  BY <1>3, <1>4

LEMMA BeginHeld ==
  ASSUME TypeOK, AllPlaced, RunningIsHeld, StrandedKnown, NEW w \in Thread,
         NEW a \in Analysis, Begin(w, a)
  PROVE  RunningIsHeld' /\ StrandedKnown'
<1>1. /\ DOMAIN analysis' = DOMAIN analysis \cup {a} /\ a \notin DOMAIN analysis
      /\ analysis'[a].status = "RUNNING" /\ stranded' = stranded
      /\ \A b \in DOMAIN analysis : analysis'[b] = analysis[b]
  BY DEF Begin, With, history
<1>2. /\ request'[w].analysis = a /\ request[w].analysis = None
      /\ \A v \in Thread : v # w => request'[v] = request[v]
  BY DEF Begin, TypeOK, Request, AllPlaced, Placed, Is
<1>3. a # None /\ \A v \in Thread : request[v].analysis # a
  BY <1>1, EvidenceAssumption DEF AllPlaced, Placed
<1>4. ASSUME NEW b \in DOMAIN analysis'
      PROVE  (analysis'[b].status = "RUNNING" /\ b \notin stranded')
                 <=> \E v \in Thread : request'[v].analysis = b
  <2>1. CASE b = a
    BY <1>1, <1>2, <2>1 DEF StrandedKnown
  <2>2. CASE b # a
    <3>1. b # None
      BY <1>1, <2>2, EvidenceAssumption DEF TypeOK
    <3>2. QED
      BY <1>1, <1>2, <2>2, <3>1 DEF RunningIsHeld
  <2>3. QED
    BY <2>1, <2>2
<1>5. \A u, v \in Thread :
          request'[u].analysis = request'[v].analysis /\ request'[u].analysis # None => u = v
  BY <1>2, <1>3 DEF RunningIsHeld
<1>6. QED
  BY <1>1, <1>4, <1>5 DEF RunningIsHeld, StrandedKnown

LEMMA FinishHeld ==
  ASSUME TypeOK, AllPlaced, RunningIsHeld, StrandedKnown, NEW w \in Thread, Finish(w)
  PROVE  RunningIsHeld' /\ StrandedKnown'
<1> DEFINE a == request[w].analysis
<1>1. a \in DOMAIN analysis /\ a # None
  BY EvidenceAssumption DEF Finish, Is, AllPlaced, Placed, TypeOK
<1>2. /\ DOMAIN analysis' = DOMAIN analysis /\ stranded' = stranded
      /\ analysis'[a].status # "RUNNING"
      /\ \A b \in DOMAIN analysis : b # a => analysis'[b] = analysis[b]
  BY <1>1 DEF Finish, Status, TypeOK, AnalysisRow
<1>3. /\ request'[w].analysis = None
      /\ \A v \in Thread : v # w => request'[v] = request[v] /\ request[v].analysis # a
  BY <1>1 DEF Finish, Done, Idle, TypeOK, RunningIsHeld
<1>4. \A b \in DOMAIN analysis : b # None
  BY EvidenceAssumption DEF TypeOK
<1> HIDE DEF a
<1>5. ASSUME NEW b \in DOMAIN analysis
      PROVE  (analysis'[b].status = "RUNNING" /\ b \notin stranded')
                 <=> \E v \in Thread : request'[v].analysis = b
  <2>1. CASE b = a
    BY <1>2, <1>3, <1>4, <2>1
  <2>2. CASE b # a
    BY <1>2, <1>3, <1>4, <2>2 DEF RunningIsHeld, a
  <2>3. QED
    BY <2>1, <2>2
<1>6. QED
  BY <1>2, <1>3, <1>5 DEF RunningIsHeld, StrandedKnown

(* What a verdict says of what was seen.                                   *)
LEMMA JudgeRight ==
  ASSUME NEW c \in Content, NEW d \in Bytes \cup {None}
  PROVE  /\ Judge(d, c) = "VERIFIED" <=> c \in Bytes /\ d \in {None, c}
         /\ Judge(d, c) = "MISMATCH" <=> c \in Bytes /\ d \notin {None, c}
         /\ Judge(d, c) = "MISSING" <=> c = Missing
         /\ Judge(d, c) = "UNVERIFIED" <=> c = Unreadable
  BY EvidenceAssumption DEF Judge, FirstVerdict, Content

(* The verdict of a source is the judgement of its newest event.           *)
JudgedLast(s) ==
    log[s] # <<>> /\ source[s].verdict = Judge(source[s].digest, log[s][Len(log[s])])

AllJudged == \A s \in Registered : JudgedLast(s)

LEMMA JudgedIsVerdict == TypeOK /\ AllJudged => VerdictIsLastLook
<1> SUFFICES ASSUME TypeOK, AllJudged, NEW s \in Registered PROVE
         LET last == log[s][Len(log[s])] IN
         /\ source[s].verdict = "VERIFIED" =>
               last \in Bytes /\ source[s].digest \in {None, last}
         /\ source[s].verdict = "MISMATCH" =>
               last \in Bytes /\ source[s].digest \notin {None, last}
         /\ source[s].verdict = "MISSING" <=> last = Missing
         /\ source[s].verdict = "UNVERIFIED" <=> last = Unreadable
  BY DEF VerdictIsLastLook
<1>1. log[s] \in Seq(Content) /\ log[s] # <<>>
  BY DEF TypeOK, AllJudged, JudgedLast
<1>2. log[s][Len(log[s])] \in Content
  BY <1>1
<1>3. source[s].digest \in Bytes \cup {None}
  BY DEF TypeOK, SourceRow
<1>4. QED
  BY <1>2, <1>3, JudgeRight DEF AllJudged, JudgedLast

LEMMA RegisterJudged ==
  ASSUME TypeOK, AllPlaced, AllJudged, NEW w \in Thread, NEW s \in Source, Register(w, s)
  PROVE  AllJudged'
<1> DEFINE c == request[w].seen
<1>1. c \in Content
  BY DEF AllPlaced, Placed, Register, Is
<1>2. ASSUME NEW t \in Registered' PROVE JudgedLast(t)'
  <2>1. CASE t = s
    <3>1. /\ source'[s].verdict = FirstVerdict(c) /\ log'[s] = <<c>>
          /\ source'[s].digest = IF c \in Bytes THEN c ELSE None
      BY DEF Register, With
    <3>2. FirstVerdict(c) = Judge(IF c \in Bytes THEN c ELSE None, c)
      BY <1>1, EvidenceAssumption DEF Judge, Content
    <3>3. log'[s] # <<>> /\ log'[s][Len(log'[s])] = c
      BY <3>1
    <3> HIDE DEF c
    <3>4. QED
      BY <2>1, <3>1, <3>2, <3>3 DEF JudgedLast
  <2>2. CASE t # s
    <3>1. t \in Registered /\ source'[t] = source[t] /\ log'[t] = log[t]
      BY <2>2 DEF Register, With, Registered, TypeOK
    <3>2. QED
      BY <3>1 DEF AllJudged, JudgedLast
  <2>3. QED
    BY <2>1, <2>2
<1>3. QED
  BY <1>2 DEF AllJudged

LEMMA RecordVerdictJudged ==
  ASSUME TypeOK, AllPlaced, AllJudged, NEW w \in Thread, RecordVerdict(w)
  PROVE  AllJudged'
<1> DEFINE r == request[w]
           s == r.source
           d == source[s].digest
<1>1. s \in Registered /\ r.seen \in Content
  BY DEF AllPlaced, Placed, Looking, RecordVerdict, Is
<1>2. Registered' = Registered
  BY DEF RecordVerdict, TypeOK, Registered
<1>3. ASSUME NEW t \in Registered PROVE JudgedLast(t)'
  <2>1. CASE t = s
    <3>1. source'[s] = [source[s] EXCEPT !.verdict = Judge(d, r.seen)]
      BY <1>1 DEF RecordVerdict, TypeOK
    <3>2. source'[s].verdict = Judge(d, r.seen) /\ source'[s].digest = d
      BY <1>1, <3>1 DEF TypeOK, SourceRow
    <3>3. log'[s] = Append(log[s], r.seen) /\ log[s] \in Seq(Content)
      BY <1>1 DEF RecordVerdict, TypeOK
    <3>4. log'[s] # <<>> /\ log'[s][Len(log'[s])] = r.seen
      BY <1>1, <3>3
    <3>5. QED
      BY <2>1, <3>2, <3>4 DEF JudgedLast
  <2>2. CASE t # s
    <3>1. source'[t] = source[t] /\ log'[t] = log[t]
      BY <2>2 DEF RecordVerdict, TypeOK
    <3>2. QED
      BY <3>1 DEF AllJudged, JudgedLast
  <2>3. QED
    BY <2>1, <2>2
<1>4. QED
  BY <1>2, <1>3 DEF AllJudged

LEMMA FinishJudged ==
  ASSUME TypeOK, AllPlaced, AllJudged, NEW w \in Thread, Finish(w)
  PROVE  AllJudged'
<1>1. request[w].source \in Registered \cup {None}
  BY DEF AllPlaced, Placed, Analysing, Finish, Is
<1>2. Registered' = Registered /\ log' = log
  BY <1>1 DEF Finish, TypeOK, Registered
<1>3. \A s \in Registered : /\ source'[s].verdict = source[s].verdict
                            /\ source'[s].digest = source[s].digest
  BY <1>1 DEF Finish, TypeOK, SourceRow
<1>4. QED
  BY <1>2, <1>3 DEF AllJudged, JudgedLast

LEMMA NextJudged == TypeOK /\ AllPlaced /\ AllJudged /\ [Next]_vars => AllJudged'
<1> SUFFICES ASSUME TypeOK, AllPlaced, AllJudged, [Next]_vars PROVE AllJudged'
  OBVIOUS
<1>1. ASSUME UNCHANGED <<source, log>> PROVE AllJudged'
  BY <1>1 DEF AllJudged, JudgedLast, Registered
<1>2. ASSUME NEW w \in Thread, RegisterEvidence(w) \/ Verify(w) \/ Analyse(w) \/ RequestFails(w)
      PROVE  AllJudged'
  <2>1. CASE Quiet(w)
    BY <1>1, <2>1
    DEF Quiet, HashToRegister, AnalysePath, HashToVerify, Accept, LookBack, ReadVerdict,
        ReadImage, EndAnalysis, RequestFails, rows
  <2>2. CASE \E a \in Analysis : Begin(w, a)
    BY <1>1, <2>2 DEF Begin
  <2>3. QED
    BY <1>2, <2>1, <2>2, RegisterJudged, RecordVerdictJudged, FinishJudged
    DEF RegisterEvidence, Verify, Analyse, Quiet
<1>3. ASSUME NEW f \in File, NEW c \in Content, FileChanges(f, c) PROVE AllJudged'
  BY <1>1, <1>3 DEF FileChanges, rows
<1>4. CASE UNCHANGED vars
  BY <1>1, <1>4 DEF vars, rows
<1>5. QED
  BY <1>2, <1>3, <1>4 DEF Next

(* A step that leaves the file and the verdict alone, or says that it did  *)
(* not, leaves a request undisturbed.                                      *)
LEMMA UndisturbedKept ==
  ASSUME NEW v \in Thread, Placed(v), Undisturbed(v), Kept(v), TablesKept,
         disk'[request[v].file] = disk[request[v].file] \/ request'[v].doubt
                                                        \/ ~request[v].analysing,
         \/ request'[v].doubt
         \/ /\ request'[v].doubt = request[v].doubt
            /\ Is(v, "recorded") => source'[request[v].source].verdict
                                        = source[request[v].source].verdict
  PROVE  Undisturbed(v)'
<1> DEFINE r == request[v]
<1>1. CASE request'[v].doubt \/ ~r.analysing
  BY <1>1 DEF Undisturbed, Kept
<1>2. CASE ~request'[v].doubt /\ r.analysing
  <2>1. r.op \in Looking => source'[r.source].digest = source[r.source].digest
    BY DEF Placed, TablesKept
  <2>2. QED
    BY <1>2, <2>1 DEF Undisturbed, Kept, Is, Judge, FirstVerdict, Looking, Analysing
<1>3. QED
  BY <1>1, <1>2

LEMMA IdleUndisturbed ==
  ASSUME NEW w \in Thread, request'[w] = Idle
  PROVE  Undisturbed(w)'
  BY DEF Undisturbed, Idle

LEMMA OthersUndisturbed ==
  ASSUME TypeOK, AllPlaced, AllUndisturbed, NEW w \in Thread, UNCHANGED <<disk, source>>,
         \A v \in Thread : v # w => request'[v] = request[v],
         Undisturbed(w)'
  PROVE  AllUndisturbed'
<1>1. ASSUME NEW v \in Thread, v # w PROVE Undisturbed(v)'
  <2>1. Kept(v) /\ TablesKept
    BY <1>1 DEF Kept, TablesKept, Registered
  <2>2. QED
    BY <1>1, <2>1, UndisturbedKept DEF AllPlaced, AllUndisturbed
<1>2. QED
  BY <1>1 DEF AllUndisturbed

LEMMA QuietUndisturbed ==
  ASSUME TypeOK, AllPlaced, AllUndisturbed, NEW w \in Thread, Quiet(w)
  PROVE  AllUndisturbed'
<1> DEFINE r == request[w]
<1>1. /\ UNCHANGED <<disk, source>>
      /\ \A v \in Thread : v # w => request'[v] = request[v]
  BY DEF Quiet, HashToRegister, AnalysePath, HashToVerify, Accept, LookBack, ReadVerdict,
         ReadImage, EndAnalysis, RequestFails, Done, TypeOK, rows
<1> SUFFICES Undisturbed(w)'
  BY <1>1, OthersUndisturbed
<1>2. ASSUME NEW f \in File, HashToRegister(w, f) PROVE Undisturbed(w)'
  <2>1. ~request'[w].analysing
    BY <1>2 DEF HashToRegister, Accept, TypeOK, Idle
  <2>2. QED
    BY <2>1 DEF Undisturbed
<1>3. ASSUME NEW f \in File, AnalysePath(w, f) PROVE Undisturbed(w)'
  <2>1. request'[w].op = "begin" /\ request'[w].digest = None
    BY <1>3 DEF AnalysePath, Accept, TypeOK, Idle
  <2>2. QED
    BY <2>1 DEF Undisturbed, Looking
<1>4. ASSUME NEW s \in Source, NEW analysing \in BOOLEAN, HashToVerify(w, s, analysing)
      PROVE  Undisturbed(w)'
  <2>1. /\ request'[w].op = "observed" /\ request'[w].file = source[s].file
        /\ request'[w].seen = disk[source[s].file]
    BY <1>4 DEF HashToVerify, Accept, TypeOK, Idle
  <2>2. QED
    BY <1>1, <2>1 DEF Undisturbed, Looking, Analysing
<1>5. CASE LookBack(w)
  <2>1. request'[w].op = "insert"
    BY <1>5 DEF LookBack, TypeOK, Request
  <2>2. QED
    BY <2>1 DEF Undisturbed, Looking, Analysing
<1>6. CASE ReadVerdict(w)
  <2> DEFINE d == source[r.source].digest
  <2>1. CASE request'[w] = Idle
    BY <2>1, IdleUndisturbed
  <2>2. CASE request'[w] # Idle
    <3>1. /\ request'[w] = [r EXCEPT !.op = "begin", !.digest = d]
          /\ source[r.source].verdict \notin Refused /\ r.op = "recorded"
      BY <1>6, <2>2 DEF ReadVerdict, TypeOK, Is
    <3>2. /\ request'[w].op = "begin" /\ request'[w].digest = d
          /\ request'[w].file = r.file /\ request'[w].doubt = r.doubt
          /\ request'[w].analysing = r.analysing /\ request'[w].read = r.read
      BY <3>1 DEF TypeOK, Request
    <3>3. r.seen \in Content /\ r.read = {} /\ r.source \in Registered
      BY <3>1 DEF AllPlaced, Placed, Looking
    <3>4. d \in Bytes \cup {None}
      BY <3>3 DEF TypeOK, SourceRow
    <3>5. ~r.doubt /\ r.analysing /\ d # None => r.seen \notin Bytes \ {d}
      BY <3>1, <3>3, <3>4, JudgeRight DEF AllUndisturbed, Undisturbed, Refused
    <3>6. ~r.doubt /\ r.analysing => disk'[r.file] = r.seen
      BY <1>1, <3>1 DEF AllUndisturbed, Undisturbed, Looking
    <3> HIDE DEF d
    <3>7. QED
      BY <3>2, <3>3, <3>5, <3>6 DEF Undisturbed, Looking, Analysing
  <2>3. QED
    BY <2>1, <2>2
<1>7. CASE ReadImage(w)
  <2>1. /\ r.op = "analyse" /\ disk[r.file] \in Bytes
        /\ request'[w] = [r EXCEPT !.read = r.read \cup {disk[r.file]}]
    BY <1>7 DEF ReadImage, TypeOK, Is
  <2>2. /\ request'[w].op = r.op /\ request'[w].digest = r.digest
        /\ request'[w].file = r.file /\ request'[w].doubt = r.doubt
        /\ request'[w].analysing = r.analysing
        /\ request'[w].read = r.read \cup {disk[r.file]}
    BY <2>1 DEF TypeOK, Request
  <2>3. ~r.doubt /\ r.analysing /\ r.digest # None =>
            disk[r.file] = r.digest /\ r.read \subseteq {r.digest}
    BY <2>1 DEF AllUndisturbed, Undisturbed, Analysing
  <2>4. QED
    BY <1>1, <2>1, <2>2, <2>3 DEF Undisturbed, Looking, Analysing
<1>8. ASSUME NEW ok \in BOOLEAN, EndAnalysis(w, ok) PROVE Undisturbed(w)'
  <2>1. /\ r.op = "analyse" /\ request'[w].op = "finish" /\ request'[w].digest = r.digest
        /\ request'[w].doubt = r.doubt /\ request'[w].analysing = r.analysing
        /\ request'[w].read \subseteq r.read
    BY <1>8 DEF EndAnalysis, TypeOK, Request, Is
  <2>2. QED
    BY <2>1 DEF AllUndisturbed, Undisturbed, Looking, Analysing
<1>9. CASE RequestFails(w)
  BY <1>9, IdleUndisturbed DEF RequestFails, Done, TypeOK
<1>10. QED
  BY <1>2, <1>3, <1>4, <1>5, <1>6, <1>7, <1>8, <1>9 DEF Quiet

LEMMA RegisterUndisturbed ==
  ASSUME TypeOK, AllPlaced, AllUndisturbed, NEW w \in Thread, NEW s \in Source,
         Register(w, s)
  PROVE  AllUndisturbed'
<1>1. request'[w] = Idle
  BY DEF Register
<1>2. ASSUME NEW v \in Thread, v # w PROVE Undisturbed(v)'
  <2>1. request'[v] = [request[v] EXCEPT !.late =
                          IF Is(v, "insert") THEN request[v].late \cup {s} ELSE request[v].late]
    BY <1>2 DEF Register
  <2>2. Kept(v) /\ request'[v].doubt = request[v].doubt
    BY <2>1 DEF Kept, TypeOK, Request, Is
  <2>3. \A t \in Registered : source'[t] = source[t]
    BY DEF Register, With, Registered
  <2>4. Is(v, "recorded") => request[v].source \in Registered
    BY DEF AllPlaced, Placed, Looking, Is
  <2>5. TablesKept /\ disk' = disk
    BY RegisterPlaced DEF Register
  <2>6. QED
    BY <2>2, <2>3, <2>4, <2>5, UndisturbedKept DEF AllPlaced, AllUndisturbed
<1>3. QED
  BY <1>1, <1>2, IdleUndisturbed DEF AllUndisturbed

LEMMA RecordVerdictUndisturbed ==
  ASSUME TypeOK, AllPlaced, AllUndisturbed, NEW w \in Thread, RecordVerdict(w)
  PROVE  AllUndisturbed'
<1> DEFINE r == request[w]
<1>1. r.source \in Registered /\ r.op = "observed" /\ disk' = disk
  BY DEF AllPlaced, Placed, Looking, RecordVerdict, Is
<1>2. TablesKept
  BY RecordVerdictPlaced
<1>3. ASSUME NEW v \in Thread, v # w PROVE Undisturbed(v)'
  <2> DEFINE d == request[v].doubt \/ (Is(v, "recorded") /\ request[v].source = r.source)
  <2>1. request'[v] = [request[v] EXCEPT !.doubt = d]
    BY <1>3 DEF RecordVerdict
  <2>2. Kept(v) /\ request'[v].doubt = d
    BY <2>1 DEF Kept, TypeOK, Request
  <2>3. Is(v, "recorded") /\ request[v].source # r.source =>
            source'[request[v].source] = source[request[v].source]
    BY DEF RecordVerdict, AllPlaced, Placed, Looking, Is, TypeOK
  <2>4. \/ request'[v].doubt
        \/ /\ request'[v].doubt = request[v].doubt
           /\ Is(v, "recorded") => source'[request[v].source].verdict
                                       = source[request[v].source].verdict
    <3>1. CASE d
      BY <2>2, <3>1
    <3>2. CASE ~d
      <4>1. request[v].doubt \in BOOLEAN
        BY DEF TypeOK, Request
      <4>2. request'[v].doubt = request[v].doubt
        BY <2>2, <3>2, <4>1
      <4>3. QED
        BY <2>3, <3>2, <4>2
    <3>3. QED
      BY <3>1, <3>2
  <2>5. QED
    BY <1>1, <1>2, <2>2, <2>4, UndisturbedKept DEF AllPlaced, AllUndisturbed
<1>4. Undisturbed(w)'
  <2>1. CASE ~r.analysing
    BY <2>1, IdleUndisturbed DEF RecordVerdict
  <2>2. CASE r.analysing
    <3>1. request'[w] = [r EXCEPT !.op = "recorded"]
      BY <2>2 DEF RecordVerdict
    <3>2. /\ request'[w].op = "recorded" /\ request'[w].file = r.file
          /\ request'[w].seen = r.seen /\ request'[w].source = r.source
          /\ request'[w].doubt = r.doubt
      BY <3>1 DEF TypeOK, Request
    <3>3. ~r.doubt => disk[r.file] = r.seen
      BY <1>1, <2>2 DEF AllUndisturbed, Undisturbed, Looking
    <3>4. /\ source'[r.source].verdict = Judge(source[r.source].digest, r.seen)
          /\ source'[r.source].digest = source[r.source].digest
      BY <1>1 DEF RecordVerdict, TypeOK, SourceRow
    <3>5. source'[r.source].verdict = Judge(source'[r.source].digest, r.seen)
      BY <3>4
    <3>6. QED
      BY <1>1, <3>2, <3>3, <3>5
      DEF Undisturbed, Looking, Analysing, Judge, FirstVerdict
  <2>3. QED
    BY <2>1, <2>2
<1>5. QED
  BY <1>3, <1>4 DEF AllUndisturbed

LEMMA BeginUndisturbed ==
  ASSUME TypeOK, AllPlaced, AllUndisturbed, NEW w \in Thread, NEW a \in Analysis,
         Begin(w, a)
  PROVE  AllUndisturbed'
<1> DEFINE r == request[w]
<1>1. /\ UNCHANGED <<disk, source>> /\ r.op = "begin"
      /\ request' = [request EXCEPT ![w] = [r EXCEPT !.op = "analyse", !.analysis = a]]
  BY DEF Begin, Is, TypeOK
<1>2. /\ request'[w].op = "analyse" /\ request'[w].digest = r.digest
      /\ request'[w].doubt = r.doubt /\ request'[w].analysing = r.analysing
      /\ request'[w].read = r.read /\ request'[w].file = r.file
  BY <1>1 DEF TypeOK, Request
<1>3. Undisturbed(w)'
  BY <1>1, <1>2 DEF AllUndisturbed, Undisturbed, Looking, Analysing
<1>4. QED
  BY <1>1, <1>3, OthersUndisturbed DEF TypeOK

LEMMA FinishUndisturbed ==
  ASSUME TypeOK, AllPlaced, AllUndisturbed, RunningIsHeld, NEW w \in Thread, Finish(w)
  PROVE  AllUndisturbed'
<1>1. request' = [request EXCEPT ![w] = Idle] /\ disk' = disk
  BY DEF Finish, Done
<1>2. TablesKept
  BY FinishPlaced
<1>3. \A s \in Registered : source'[s].verdict = source[s].verdict
  BY DEF Finish, TypeOK, SourceRow
<1>4. ASSUME NEW v \in Thread, v # w PROVE Undisturbed(v)'
  <2>1. request'[v] = request[v]
    BY <1>1, <1>4
  <2>2. Is(v, "recorded") => request[v].source \in Registered
    BY DEF AllPlaced, Placed, Looking, Is
  <2>3. QED
    BY <1>1, <1>2, <1>3, <2>1, <2>2, UndisturbedKept DEF AllPlaced, AllUndisturbed, Kept
<1>5. request'[w] = Idle
  BY <1>1 DEF TypeOK
<1>6. QED
  BY <1>4, <1>5, IdleUndisturbed DEF AllUndisturbed

LEMMA FileChangesUndisturbed ==
  ASSUME TypeOK, AllPlaced, AllUndisturbed, NEW f \in File, NEW c \in Content,
         FileChanges(f, c)
  PROVE  AllUndisturbed'
<1>1. ASSUME NEW v \in Thread PROVE Undisturbed(v)'
  <2> DEFINE d == request[v].doubt \/ (request[v].analysing /\ request[v].file = f)
  <2>1. request'[v] = [request[v] EXCEPT !.doubt = d]
    BY DEF FileChanges
  <2>2. Kept(v) /\ request'[v].doubt = d
    BY <2>1 DEF Kept, TypeOK, Request
  <2>3. TablesKept /\ source' = source
    BY DEF TablesKept, FileChanges, rows, Registered
  <2>4. CASE d \/ ~request[v].analysing
    BY <2>2, <2>4 DEF Undisturbed, Kept
  <2>5. CASE ~d /\ request[v].analysing
    <3>1. request[v].doubt \in BOOLEAN
      BY DEF TypeOK, Request
    <3>2. request'[v].doubt = request[v].doubt
      BY <2>2, <2>5, <3>1
    <3>3. disk'[request[v].file] = disk[request[v].file]
      BY <2>5 DEF FileChanges, TypeOK
    <3>4. QED
      BY <2>2, <2>3, <3>2, <3>3, UndisturbedKept DEF AllPlaced, AllUndisturbed
  <2>6. QED
    BY <2>4, <2>5
<1>2. QED
  BY <1>1 DEF AllUndisturbed

(* What a finished analysis found comes from what its request was given.   *)
LEMMA NextAttributed ==
  ASSUME TypeOK, AllPlaced, AllUndisturbed, Attributed, [Next]_vars
  PROVE  Attributed'
<1>1. ASSUME UNCHANGED <<analysis, doubtful>> PROVE Attributed'
  BY <1>1 DEF Attributed
<1>2. ASSUME NEW w \in Thread, NEW a \in Analysis, Begin(w, a) PROVE Attributed'
  <2>1. /\ DOMAIN analysis' = DOMAIN analysis \cup {a} /\ doubtful' = doubtful
        /\ analysis'[a].read = {}
        /\ \A b \in DOMAIN analysis : analysis'[b] = analysis[b]
    BY <1>2 DEF Begin, With, history
  <2>2. QED
    BY <2>1 DEF Attributed
<1>3. ASSUME NEW w \in Thread, Finish(w) PROVE Attributed'
  <2> DEFINE r == request[w]
             a == r.analysis
  <2>1. /\ a \in DOMAIN analysis /\ analysis[a].digest = r.digest
        /\ r.op = "finish" /\ r.analysing
    BY <1>3 DEF Finish, Is, AllPlaced, Placed, Analysing
  <2>2. /\ DOMAIN analysis' = DOMAIN analysis /\ doubtful \subseteq doubtful'
        /\ analysis'[a].read = r.read /\ analysis'[a].digest = r.digest
        /\ \A b \in DOMAIN analysis : b # a => analysis'[b] = analysis[b]
        /\ r.doubt => a \in doubtful'
    BY <1>3, <2>1 DEF Finish, TypeOK, AnalysisRow
  <2>3. ~r.doubt /\ r.digest # None => r.read \subseteq {r.digest}
    BY <2>1 DEF AllUndisturbed, Undisturbed, Analysing
  <2> HIDE DEF a
  <2>4. QED
    BY <2>1, <2>2, <2>3 DEF Attributed
<1>4. ASSUME NEW w \in Thread, RegisterEvidence(w) \/ Verify(w) \/ Analyse(w) \/ RequestFails(w)
      PROVE  Attributed'
  <2>1. CASE Quiet(w)
    BY <1>1, <2>1
    DEF Quiet, HashToRegister, AnalysePath, HashToVerify, Accept, LookBack, ReadVerdict,
        ReadImage, EndAnalysis, RequestFails, rows, history
  <2>2. CASE RecordVerdict(w) \/ \E s \in Source : Register(w, s)
    BY <1>1, <2>2 DEF RecordVerdict, Register, history
  <2>3. QED
    BY <1>2, <1>3, <1>4, <2>1, <2>2 DEF RegisterEvidence, Verify, Analyse, Quiet
<1>5. ASSUME NEW f \in File, NEW c \in Content, FileChanges(f, c) PROVE Attributed'
  BY <1>1, <1>5 DEF FileChanges, rows, history
<1>6. CASE UNCHANGED vars
  BY <1>1, <1>6 DEF vars, rows, history
<1>7. QED
  BY <1>4, <1>5, <1>6 DEF Next

(* The positions a request or a row must have taken into account.          *)
KnownTo(w) == {i \in Copies(request[w].seen) :
                  request[w].seen \in Bytes /\ order[i] \notin request[w].late}
KnownAt(p) == {i \in 1..(p - 1) : /\ source[order[p]].digest # None
                                  /\ source[order[i]].digest = source[order[p]].digest
                                  /\ order[i] \notin missed[order[p]]}

LEMMA LineageForms ==
  /\ LookedBack <=> \A w \in Thread : Is(w, "insert") => IsLatest(request[w].source, KnownTo(w))
  /\ LineageComplete <=> \A p \in 1..Len(order) :
                             IsLatest(source[order[p]].supersedes, KnownAt(p))
  BY DEF LookedBack, LineageComplete, KnownTo, KnownAt

LEMMA LookedBackKept ==
  ASSUME TypeOK, LookedBack, TablesKept, order' = order,
         NEW w \in Thread, Is(w, "insert"),
         /\ request'[w].source = request[w].source
         /\ request'[w].seen = request[w].seen
         /\ request'[w].late = request[w].late
  PROVE  IsLatest(request[w].source, KnownTo(w))'
<1>1. \A i \in 1..Len(order) : order[i] \in Registered
  BY DEF TypeOK
<1>2. KnownTo(w)' = KnownTo(w)
  BY <1>1 DEF KnownTo, Copies, TablesKept
<1>3. IsLatest(request[w].source, KnownTo(w))
  BY LineageForms
<1>4. QED
  BY <1>2, <1>3 DEF IsLatest

LEMMA LineageKept ==
  ASSUME TypeOK, LineageComplete, order' = order, missed' = missed,
         \A s \in Registered : /\ source'[s].digest = source[s].digest
                               /\ source'[s].supersedes = source[s].supersedes
  PROVE  LineageComplete'
<1>1. \A i \in 1..Len(order) : order[i] \in Registered
  BY DEF TypeOK
<1>2. ASSUME NEW p \in 1..Len(order)
      PROVE  IsLatest(source[order[p]].supersedes, KnownAt(p))'
  <2>1. \A i \in 1..(p - 1) : i \in 1..Len(order)
    BY DEF TypeOK
  <2>2. KnownAt(p)' = KnownAt(p)
    BY <1>1, <2>1 DEF KnownAt
  <2>3. source'[order'[p]].supersedes = source[order[p]].supersedes
    BY <1>1
  <2>4. IsLatest(source[order[p]].supersedes, KnownAt(p))
    BY LineageForms
  <2>5. QED
    BY <2>2, <2>3, <2>4 DEF IsLatest
<1>3. QED
  BY <1>2 DEF LineageComplete, KnownAt, IsLatest

(* Where a source is registered, its request's look back becomes lineage.  *)
LEMMA RegisterLineage ==
  ASSUME TypeOK, AllPlaced, LookedBack, LineageComplete, NEW w \in Thread,
         NEW s \in Source, Register(w, s)
  PROVE  LookedBack' /\ LineageComplete'
<1> DEFINE r == request[w]
<1>1. PICK n \in Nat : n = Len(order)
  <2>1. order \in Seq(Registered)
    BY DEF TypeOK
  <2>2. Len(order) \in Nat
    BY <2>1
  <2>3. QED
    BY <2>2
<1>2. /\ n = Len(order) /\ order' = Append(order, s) /\ Len(order') = n + 1
      /\ order'[n + 1] = s
      /\ \A i \in 1..n : order'[i] = order[i] /\ order[i] \in Registered /\ order[i] # s
  BY <1>1 DEF Register, TypeOK
<1>3. /\ \A t \in Registered : source'[t] = source[t] /\ missed'[t] = missed[t]
      /\ source'[s].digest = (IF r.seen \in Bytes THEN r.seen ELSE None)
      /\ source'[s].supersedes = r.source /\ missed'[s] = r.late
  BY DEF Register, With, Registered, TypeOK
<1>4. ASSUME NEW v \in Thread, v # w, Is(v, "insert")
      PROVE  IsLatest(request[v].source, KnownTo(v))'
  <2>1. /\ request'[v].source = request[v].source /\ request'[v].seen = request[v].seen
        /\ request'[v].late = request[v].late \cup {s}
    BY <1>4 DEF Register, TypeOK, Request
  <2>2. KnownTo(v)' = KnownTo(v)
    <3>1. \A i \in 1..n : i \in KnownTo(v)' <=> i \in KnownTo(v)
      BY <1>2, <1>3, <2>1 DEF KnownTo, Copies
    <3>2. n + 1 \notin KnownTo(v)'
      BY <1>2, <2>1 DEF KnownTo
    <3>3. KnownTo(v)' \subseteq 1..(n + 1) /\ KnownTo(v) \subseteq 1..n
      BY <1>2 DEF KnownTo, Copies
    <3>4. QED
      BY <3>1, <3>2, <3>3
  <2>3. IsLatest(request[v].source, KnownTo(v))
    BY <1>4, LineageForms
  <2>4. KnownTo(v) \subseteq 1..n
    BY <1>2 DEF KnownTo, Copies
  <2>5. QED
    BY <1>2, <2>1, <2>2, <2>3, <2>4 DEF IsLatest
<1>5. LookedBack'
  <2>1. ASSUME NEW v \in Thread, Is(v, "insert")'
        PROVE  IsLatest(request[v].source, KnownTo(v))'
    <3>1. v # w
      BY <2>1 DEF Register, Is, Idle
    <3>2. Is(v, "insert")
      BY <2>1, <3>1 DEF Register, Is, TypeOK, Request
    <3>3. QED
      BY <1>4, <3>1, <3>2
  <2>2. QED
    BY <2>1 DEF LookedBack, KnownTo
<1>6. ASSUME NEW p \in 1..n
      PROVE  IsLatest(source[order[p]].supersedes, KnownAt(p))'
  <2>1. \A i \in 1..(p - 1) : i \in 1..n
    BY <1>2
  <2>2. KnownAt(p)' = KnownAt(p)
    BY <1>2, <1>3, <2>1 DEF KnownAt
  <2>3. IsLatest(source[order[p]].supersedes, KnownAt(p))
    BY <1>2, LineageForms
  <2>4. KnownAt(p) \subseteq 1..n
    BY <2>1 DEF KnownAt
  <2>5. QED
    BY <1>2, <1>3, <2>2, <2>3, <2>4 DEF IsLatest
<1>7. IsLatest(source[order[n + 1]].supersedes, KnownAt(n + 1))'
  <2>1. KnownAt(n + 1)' = KnownTo(w)
    <3>1. \A i \in 1..n : order'[i] = order[i] /\ source'[order'[i]] = source[order[i]]
      BY <1>2, <1>3
    <3>2. 1..((n + 1) - 1) = 1..n /\ 1..n = 1..Len(order) /\ None \notin Bytes
      BY <1>2, EvidenceAssumption
    <3>3. KnownAt(n + 1)' = {i \in 1..n : /\ source'[s].digest # None
                                          /\ source[order[i]].digest = source'[s].digest
                                          /\ order[i] \notin r.late}
      BY <1>2, <1>3, <3>1, <3>2 DEF KnownAt
    <3>4. KnownTo(w) = {i \in 1..n : /\ r.seen \in Bytes
                                     /\ source[order[i]].digest = r.seen
                                     /\ order[i] \notin r.late}
      BY <3>2 DEF KnownTo, Copies
    <3>5. QED
      BY <1>3, <3>2, <3>3, <3>4
  <2>2. IsLatest(r.source, KnownTo(w))
    BY LineageForms DEF Register
  <2>3. KnownTo(w) \subseteq 1..n
    BY <1>2 DEF KnownTo, Copies
  <2>4. QED
    BY <1>2, <1>3, <2>1, <2>2, <2>3 DEF IsLatest
<1>8. LineageComplete'
  <2>1. \A p \in 1..Len(order') : p \in 1..n \/ p = n + 1
    BY <1>2
  <2>2. \A p \in 1..Len(order') : IsLatest(source[order[p]].supersedes, KnownAt(p))'
    BY <1>6, <1>7, <2>1
  <2>3. QED
    BY <2>2 DEF LineageComplete, KnownAt
<1>9. QED
  BY <1>5, <1>8

LEMMA LookBackLineage ==
  ASSUME TypeOK, AllPlaced, LookedBack, NEW w \in Thread, LookBack(w)
  PROVE  IsLatest(request[w].source, KnownTo(w))'
<1> DEFINE r == request[w]
           x == IF r.seen \in Bytes THEN LatestCopy(r.seen) ELSE None
<1>1. r.late = {} /\ order' = order /\ source' = source
  BY DEF LookBack, Is, AllPlaced, Placed, rows
<1>2. request'[w] = [r EXCEPT !.op = "insert", !.source = x]
  BY DEF LookBack, TypeOK
<1> HIDE DEF x
<1>3. request'[w].source = x /\ request'[w].late = {} /\ request'[w].seen = r.seen
  BY <1>1, <1>2 DEF TypeOK, Request
<1>4. KnownTo(w)' = IF r.seen \in Bytes THEN Copies(r.seen) ELSE {}
  BY <1>1, <1>3 DEF KnownTo, Copies
<1>5. CASE r.seen \notin Bytes
  BY <1>3, <1>4, <1>5 DEF IsLatest, x
<1>6. CASE r.seen \in Bytes
  <2>1. x = LatestCopy(r.seen)
    BY <1>6 DEF x
  <2>2. CASE Copies(r.seen) = {}
    BY <1>3, <1>4, <1>6, <2>1, <2>2 DEF IsLatest, LatestCopy
  <2>3. CASE Copies(r.seen) # {}
    <3>1. PICK i \in Copies(r.seen) : x = order[i] /\ \A j \in Copies(r.seen) : j <= i
      BY <1>6, <2>1, <2>3, LatestCopyType
    <3>2. QED
      BY <1>1, <1>3, <1>4, <1>6, <2>3, <3>1 DEF IsLatest
  <2>4. QED
    BY <2>2, <2>3
<1>7. QED
  BY <1>5, <1>6

LEMMA NextLineage ==
  ASSUME TypeOK, AllPlaced, LookedBack, LineageComplete, RunningIsHeld, [Next]_vars
  PROVE  LookedBack' /\ LineageComplete'
<1> USE DEF rows, history
<1>1. ASSUME UNCHANGED <<order, missed>>, TablesKept,
             \A s \in Registered : source'[s].supersedes = source[s].supersedes,
             \A v \in Thread : Is(v, "insert")' =>
                 \/ /\ Is(v, "insert")
                    /\ request'[v].source = request[v].source
                    /\ request'[v].seen = request[v].seen
                    /\ request'[v].late = request[v].late
                 \/ LookBack(v)
      PROVE  LookedBack' /\ LineageComplete'
  <2>1. LineageComplete'
    BY <1>1, LineageKept DEF TablesKept
  <2>2. ASSUME NEW v \in Thread, Is(v, "insert")'
        PROVE  IsLatest(request[v].source, KnownTo(v))'
    BY <1>1, <2>2, LookedBackKept, LookBackLineage
  <2>3. QED
    BY <2>1, <2>2 DEF LookedBack, KnownTo
<1>2. ASSUME NEW w \in Thread, Quiet(w) PROVE LookedBack' /\ LineageComplete'
  <2>1. /\ UNCHANGED <<order, missed, source>>
        /\ \A v \in Thread : v # w => request'[v] = request[v]
    BY <1>2 DEF Quiet, HashToRegister, AnalysePath, HashToVerify, Accept, LookBack,
                ReadVerdict, ReadImage, EndAnalysis, RequestFails, Done, TypeOK
  <2>2. Is(w, "insert")' => LookBack(w)
    <3>1. ASSUME NEW f \in File, HashToRegister(w, f) \/ AnalysePath(w, f)
          PROVE  ~Is(w, "insert")'
      BY <3>1 DEF HashToRegister, AnalysePath, Accept, Is, Idle, TypeOK
    <3>2. ASSUME NEW s \in Source, NEW a \in BOOLEAN, HashToVerify(w, s, a)
          PROVE  ~Is(w, "insert")'
      BY <3>2 DEF HashToVerify, Accept, Is, Idle, TypeOK
    <3>3. ASSUME ReadVerdict(w) PROVE ~Is(w, "insert")'
      BY <3>3 DEF ReadVerdict, Is, Idle, TypeOK, Request
    <3>4. ASSUME ReadImage(w) PROVE ~Is(w, "insert")'
      BY <3>4 DEF ReadImage, Is, TypeOK, Request
    <3>5. ASSUME NEW ok \in BOOLEAN, EndAnalysis(w, ok) PROVE ~Is(w, "insert")'
      BY <3>5 DEF EndAnalysis, Is, TypeOK, Request
    <3>6. ASSUME RequestFails(w) PROVE ~Is(w, "insert")'
      BY <3>6 DEF RequestFails, Done, Is, Idle, TypeOK
    <3>7. QED
      BY <1>2, <3>1, <3>2, <3>3, <3>4, <3>5, <3>6 DEF Quiet
  <2>3. \A s \in Registered : source'[s].supersedes = source[s].supersedes
    BY <2>1
  <2>4. TablesKept
    BY <2>1 DEF TablesKept, Registered
  <2>5. QED
    BY <1>1, <2>1, <2>2, <2>3, <2>4 DEF Is
<1>3. ASSUME NEW w \in Thread, RecordVerdict(w) PROVE LookedBack' /\ LineageComplete'
  <2>1. TablesKept
    BY <1>3, RecordVerdictPlaced
  <2>2. request[w].source \in Registered
    BY <1>3 DEF RecordVerdict, Is, AllPlaced, Placed, Looking
  <2>3. \A s \in Registered : source'[s].supersedes = source[s].supersedes
    BY <1>3, <2>2 DEF RecordVerdict, TypeOK, SourceRow
  <2>4. ASSUME NEW v \in Thread, Is(v, "insert")'
        PROVE  /\ Is(v, "insert") /\ request'[v].source = request[v].source
               /\ request'[v].seen = request[v].seen /\ request'[v].late = request[v].late
    <3>1. v # w
      <4>1. \A r \in Request : [r EXCEPT !.op = "recorded"].op = "recorded"
        BY DEF Request
      <4>2. request'[w].op \in {"recorded", "idle"}
        BY <1>3, <4>1 DEF RecordVerdict, Idle, TypeOK
      <4>3. QED
        BY <2>4, <4>2 DEF Is
    <3>2. request'[v] = [request[v] EXCEPT !.doubt =
              @ \/ (Is(v, "recorded") /\ request[v].source = request[w].source)]
      BY <1>3, <3>1 DEF RecordVerdict
    <3>3. QED
      BY <2>4, <3>2 DEF Is, TypeOK, Request
  <2>5. QED
    BY <1>1, <1>3, <2>1, <2>3, <2>4 DEF RecordVerdict
<1>4. ASSUME NEW w \in Thread, NEW a \in Analysis, Begin(w, a)
      PROVE  LookedBack' /\ LineageComplete'
  <2>1. request'[w].op = "analyse" /\ \A v \in Thread : v # w => request'[v] = request[v]
    BY <1>4 DEF Begin, TypeOK, Request
  <2>2. UNCHANGED <<order, missed, source>>
    BY <1>4 DEF Begin
  <2>3. QED
    BY <1>1, <2>1, <2>2 DEF TablesKept, Registered, Is
<1>5. ASSUME NEW w \in Thread, Finish(w) PROVE LookedBack' /\ LineageComplete'
  <2>1. TablesKept
    BY <1>5, FinishPlaced
  <2>2. request'[w] = Idle /\ \A v \in Thread : v # w => request'[v] = request[v]
    BY <1>5 DEF Finish, Done, TypeOK
  <2>3. \A s \in Registered : source'[s].supersedes = source[s].supersedes
    BY <1>5 DEF Finish, TypeOK, SourceRow
  <2>4. QED
    BY <1>1, <1>5, <2>1, <2>2, <2>3 DEF Is, Idle, Finish
<1>6. ASSUME NEW f \in File, NEW c \in Content, FileChanges(f, c)
      PROVE  LookedBack' /\ LineageComplete'
  <2>1. ASSUME NEW v \in Thread
        PROVE  /\ request'[v].op = request[v].op /\ request'[v].source = request[v].source
               /\ request'[v].seen = request[v].seen /\ request'[v].late = request[v].late
    <3>1. request'[v] = [request[v] EXCEPT !.doubt =
              @ \/ (request[v].analysing /\ request[v].file = f)]
      BY <1>6 DEF FileChanges
    <3>2. QED
      BY <3>1 DEF TypeOK, Request
  <2>2. UNCHANGED <<order, missed, source>>
    BY <1>6 DEF FileChanges
  <2>3. QED
    BY <1>1, <2>1, <2>2 DEF TablesKept, Registered, Is
<1>7. CASE UNCHANGED vars
  BY <1>1, <1>7 DEF vars, TablesKept, Registered, Is
<1>8. QED
  <2>1. ASSUME NEW w \in Thread,
               RegisterEvidence(w) \/ Verify(w) \/ Analyse(w) \/ RequestFails(w)
        PROVE  LookedBack' /\ LineageComplete'
    BY <1>2, <1>3, <1>4, <1>5, <2>1, RegisterLineage
    DEF RegisterEvidence, Verify, Analyse, Quiet
  <2>2. QED
    BY <1>6, <1>7, <2>1 DEF Next

AnalysesKnown == \A a \in DOMAIN analysis : analysis[a].source \in Registered \cup {None}

Explained == AnalysesKnown /\ ProcessedByAnalysis

LEMMA ExplainedKept ==
  ASSUME Explained, analysis' = analysis,
         \A s \in Registered : /\ s \in Registered'
                               /\ source'[s].processing = source[s].processing,
         \A s \in Registered' \ Registered : /\ source'[s].processing = "REGISTERED"
                                             /\ s # None
  PROVE  Explained'
<1>1. \A s : Ended(s)' = {analysis[a].status : a \in {b \in DOMAIN analysis : analysis[b].source = s}}
  BY DEF Ended
<1>2. \A s \in Registered' \ Registered : Ended(s)' = {}
  BY <1>1 DEF Explained, AnalysesKnown
<1>3. \A s \in Registered : Ended(s)' = Ended(s)
  BY <1>1 DEF Ended
<1>4. AnalysesKnown'
  BY DEF Explained, AnalysesKnown
<1>5. ProcessedByAnalysis'
  <2>1. ASSUME NEW s \in Registered'
        PROVE  /\ source'[s].processing = "ANALYSED" => "COMPLETED" \in Ended(s)'
               /\ source'[s].processing = "ANALYSIS_FAILED" => "FAILED" \in Ended(s)'
               /\ source'[s].processing = "REGISTERED" => Ended(s)' \subseteq {"RUNNING"}
    <3>1. CASE s \in Registered
      BY <1>3, <3>1 DEF Explained, ProcessedByAnalysis
    <3>2. CASE s \notin Registered
      BY <1>2, <3>2
    <3>3. QED
      BY <3>1, <3>2
  <2>2. QED
    BY <2>1 DEF ProcessedByAnalysis
<1>6. QED
  BY <1>4, <1>5 DEF Explained

LEMMA BeginExplained ==
  ASSUME TypeOK, AllPlaced, Explained, NEW w \in Thread, NEW a \in Analysis, Begin(w, a)
  PROVE  Explained'
<1>1. /\ DOMAIN analysis' = DOMAIN analysis \cup {a} /\ a \notin DOMAIN analysis
      /\ analysis'[a].status = "RUNNING" /\ analysis'[a].source = request[w].source
      /\ \A b \in DOMAIN analysis : analysis'[b] = analysis[b]
      /\ source' = source /\ Registered' = Registered
  BY DEF Begin, With, Registered
<1>2. request[w].source \in Registered \cup {None}
  BY DEF Begin, Is, AllPlaced, Placed, Analysing
<1>3. AnalysesKnown'
  BY <1>1, <1>2 DEF Explained, AnalysesKnown
<1>4. ASSUME NEW s \in Registered
      PROVE  Ended(s) \subseteq Ended(s)' /\ Ended(s)' \subseteq Ended(s) \cup {"RUNNING"}
  BY <1>1 DEF Ended
<1>5. QED
  BY <1>1, <1>3, <1>4 DEF Explained, ProcessedByAnalysis

LEMMA FinishExplained ==
  ASSUME TypeOK, AllPlaced, Explained, NEW w \in Thread, Finish(w)
  PROVE  Explained'
<1> DEFINE r == request[w]
           a == r.analysis
<1>1. /\ a \in DOMAIN analysis /\ analysis[a].source = r.source
      /\ analysis[a].status = "RUNNING" /\ r.source \in Registered \cup {None}
  BY DEF Finish, Is, AllPlaced, Placed, Analysing
<1>2. /\ DOMAIN analysis' = DOMAIN analysis /\ Registered' = Registered
      /\ analysis'[a].status = Status(r.ok) /\ analysis'[a].source = r.source
      /\ \A b \in DOMAIN analysis : b # a => analysis'[b] = analysis[b]
  BY <1>1 DEF Finish, TypeOK, AnalysisRow, Registered
<1>3. /\ \A s \in Registered : s # r.source => source'[s].processing = source[s].processing
      /\ r.source # None => source'[r.source].processing =
                                IF r.ok THEN "ANALYSED" ELSE "ANALYSIS_FAILED"
  BY <1>1 DEF Finish, TypeOK, SourceRow
<1> HIDE DEF a
<1>4. AnalysesKnown'
  BY <1>1, <1>2 DEF Explained, AnalysesKnown
<1>5. ASSUME NEW s \in Registered
      PROVE  /\ source'[s].processing = "ANALYSED" => "COMPLETED" \in Ended(s)'
             /\ source'[s].processing = "ANALYSIS_FAILED" => "FAILED" \in Ended(s)'
             /\ source'[s].processing = "REGISTERED" => Ended(s)' \subseteq {"RUNNING"}
  <2>1. CASE s = r.source
    <3>1. Status(r.ok) \in Ended(s)'
      BY <1>1, <1>2, <2>1 DEF Ended
    <3>2. source'[s].processing = IF r.ok THEN "ANALYSED" ELSE "ANALYSIS_FAILED"
      <4>1. s # None
        BY EvidenceAssumption DEF TypeOK
      <4>2. QED
        BY <1>3, <2>1, <4>1
    <3>3. QED
      BY <3>1, <3>2 DEF Status
  <2>2. CASE s # r.source
    <3>1. Ended(s)' = Ended(s)
      <4>1. \A b \in DOMAIN analysis : analysis'[b].source = s <=> analysis[b].source = s
        BY <1>1, <1>2
      <4>2. \A b \in DOMAIN analysis : analysis[b].source = s => analysis'[b] = analysis[b]
        BY <1>1, <1>2, <2>2
      <4>3. QED
        BY <1>2, <4>1, <4>2 DEF Ended
    <3>2. QED
      BY <1>3, <2>2, <3>1 DEF Explained, ProcessedByAnalysis
  <2>3. QED
    BY <2>1, <2>2
<1>6. QED
  BY <1>2, <1>4, <1>5 DEF Explained, ProcessedByAnalysis

LEMMA NextExplained ==
  ASSUME TypeOK, AllPlaced, Explained, [Next]_vars
  PROVE  Explained'
<1> USE DEF rows, history
<1>1. ASSUME UNCHANGED <<source, analysis>> PROVE Explained'
  BY <1>1, ExplainedKept DEF Registered
<1>2. ASSUME NEW w \in Thread, NEW s \in Source, Register(w, s) PROVE Explained'
  <2>1. /\ Registered' = Registered \cup {s} /\ analysis' = analysis
        /\ source'[s].processing = "REGISTERED"
        /\ \A t \in Registered : source'[t] = source[t]
    BY <1>2 DEF Register, With, Registered
  <2>2. s # None
    BY EvidenceAssumption
  <2>3. QED
    BY <2>1, <2>2, ExplainedKept
<1>3. ASSUME NEW w \in Thread, RecordVerdict(w) PROVE Explained'
  <2>1. request[w].source \in Registered
    BY <1>3 DEF RecordVerdict, Is, AllPlaced, Placed, Looking
  <2>2. /\ Registered' = Registered /\ analysis' = analysis
        /\ \A s \in Registered : source'[s].processing = source[s].processing
    BY <1>3, <2>1 DEF RecordVerdict, TypeOK, SourceRow, Registered
  <2>3. QED
    BY <2>2, ExplainedKept
<1>4. ASSUME NEW w \in Thread, Quiet(w) PROVE Explained'
  BY <1>1, <1>4
  DEF Quiet, HashToRegister, AnalysePath, HashToVerify, Accept, LookBack, ReadVerdict,
      ReadImage, EndAnalysis, RequestFails
<1>5. ASSUME NEW w \in Thread, RegisterEvidence(w) \/ Verify(w) \/ Analyse(w) \/ RequestFails(w)
      PROVE  Explained'
  BY <1>2, <1>3, <1>4, <1>5, BeginExplained, FinishExplained
  DEF RegisterEvidence, Verify, Analyse, Quiet
<1>6. ASSUME NEW f \in File, NEW c \in Content, FileChanges(f, c) PROVE Explained'
  BY <1>1, <1>6 DEF FileChanges
<1>7. CASE UNCHANGED vars
  BY <1>1, <1>7 DEF vars
<1>8. QED
  BY <1>5, <1>6, <1>7 DEF Next

LEMMA NextPlaced ==
  ASSUME TypeOK, AllPlaced, RunningIsHeld, StrandedKnown, [Next]_vars
  PROVE  AllPlaced' /\ RunningIsHeld' /\ StrandedKnown'
<1> USE DEF rows, history
<1>1. ASSUME NEW w \in Thread, NEW s \in Source, Register(w, s)
      PROVE  AllPlaced' /\ RunningIsHeld' /\ StrandedKnown'
  <2>1. \A v \in Thread : request'[v].analysis = request[v].analysis
    <3>1. request[w].analysis = None
      BY <1>1 DEF Register, Is, AllPlaced, Placed
    <3>2. QED
      BY <1>1, <3>1 DEF Register, Idle, TypeOK, Request
  <2>2. QED
    BY <1>1, <2>1, RegisterPlaced, HeldKept DEF Register
<1>2. ASSUME NEW w \in Thread, RecordVerdict(w)
      PROVE  AllPlaced' /\ RunningIsHeld' /\ StrandedKnown'
  <2>1. request[w].analysis = None /\ Idle.analysis = None
    BY <1>2 DEF RecordVerdict, Is, AllPlaced, Placed, Idle
  <2>2. \A r \in Request : [r EXCEPT !.op = "recorded"].analysis = r.analysis
    BY DEF Request
  <2>3. request'[w].analysis = request[w].analysis
    BY <1>2, <2>1, <2>2 DEF RecordVerdict, TypeOK
  <2>4. ASSUME NEW v \in Thread, v # w PROVE request'[v].analysis = request[v].analysis
    <3>1. request'[v] = [request[v] EXCEPT !.doubt =
              @ \/ (Is(v, "recorded") /\ request[v].source = request[w].source)]
      BY <1>2, <2>4 DEF RecordVerdict
    <3>2. QED
      BY <3>1 DEF TypeOK, Request
  <2>5. QED
    BY <1>2, <2>3, <2>4, RecordVerdictPlaced, HeldKept DEF RecordVerdict
<1>3. ASSUME NEW w \in Thread, Quiet(w)
      PROVE  AllPlaced' /\ RunningIsHeld' /\ StrandedKnown'
  BY <1>3, QuietPlaced, QuietHeld
<1>4. ASSUME NEW w \in Thread, NEW a \in Analysis, Begin(w, a)
      PROVE  AllPlaced' /\ RunningIsHeld' /\ StrandedKnown'
  <2>1. a \notin stranded
    BY <1>4 DEF StrandedKnown, Begin
  <2>2. QED
    BY <1>4, <2>1, BeginPlaced, BeginHeld
<1>5. ASSUME NEW w \in Thread, RegisterEvidence(w) \/ Verify(w) \/ Analyse(w) \/ RequestFails(w)
      PROVE  AllPlaced' /\ RunningIsHeld' /\ StrandedKnown'
  BY <1>1, <1>2, <1>3, <1>4, <1>5, FinishPlaced, FinishHeld
  DEF RegisterEvidence, Verify, Analyse, Quiet
<1>6. ASSUME NEW f \in File, NEW c \in Content, FileChanges(f, c)
      PROVE  AllPlaced' /\ RunningIsHeld' /\ StrandedKnown'
  <2>1. ASSUME NEW v \in Thread PROVE request'[v].analysis = request[v].analysis
    <3>1. request'[v] = [request[v] EXCEPT !.doubt =
              @ \/ (request[v].analysing /\ request[v].file = f)]
      BY <1>6 DEF FileChanges
    <3>2. QED
      BY <3>1 DEF TypeOK, Request
  <2>2. QED
    BY <1>6, <2>1, FileChangesPlaced, HeldKept DEF FileChanges
<1>7. CASE UNCHANGED vars
  BY <1>7 DEF vars, AllPlaced, Placed, RunningIsHeld, StrandedKnown, Registered
<1>8. QED
  BY <1>5, <1>6, <1>7 DEF Next

LEMMA NextUndisturbed ==
  ASSUME TypeOK, AllPlaced, RunningIsHeld, AllUndisturbed, [Next]_vars
  PROVE  AllUndisturbed'
<1>1. ASSUME NEW w \in Thread, RegisterEvidence(w) \/ Verify(w) \/ Analyse(w) \/ RequestFails(w)
      PROVE  AllUndisturbed'
  BY <1>1, QuietUndisturbed, RegisterUndisturbed, RecordVerdictUndisturbed,
     BeginUndisturbed, FinishUndisturbed
  DEF RegisterEvidence, Verify, Analyse, Quiet
<1>2. CASE UNCHANGED vars
  BY <1>2 DEF vars, rows, AllUndisturbed, Undisturbed, Judge, FirstVerdict
<1>3. QED
  BY <1>1, <1>2, FileChangesUndisturbed DEF Next

-----------------------------------------------------------------------------
IInv ==
    /\ TypeOK /\ AllPlaced /\ RunningIsHeld /\ StrandedKnown
    /\ AllJudged
    /\ Explained
    /\ AllUndisturbed /\ Attributed
    /\ LookedBack /\ LineageComplete

LEMMA InitIInv == Init => IInv
<1> SUFFICES ASSUME Init PROVE IInv
  OBVIOUS
<1>1. TypeOK /\ AllPlaced
  BY InitType
<1>2. Registered = {} /\ DOMAIN analysis = {} /\ stranded = {} /\ Len(order) = 0
  BY DEF Init, Registered
<1>3. \A w \in Thread : request[w] = Idle
  BY DEF Init
<1>4. RunningIsHeld /\ StrandedKnown /\ AllJudged /\ Attributed /\ Explained
  BY <1>2, <1>3
  DEF RunningIsHeld, StrandedKnown, AllJudged, Attributed, Explained, AnalysesKnown,
      ProcessedByAnalysis, Idle
<1>5. AllUndisturbed /\ LookedBack
  BY <1>3 DEF AllUndisturbed, Undisturbed, LookedBack, Is, Idle
<1>6. LineageComplete
  BY <1>2 DEF LineageComplete
<1>7. QED
  BY <1>1, <1>4, <1>5, <1>6 DEF IInv

LEMMA NextIInv == IInv /\ [Next]_vars => IInv'
  BY NextTypeOK, NextPlaced, NextJudged, NextExplained, NextUndisturbed, NextAttributed,
     NextLineage
  DEF IInv

LEMMA Invariant == Spec => []IInv
<1>1. QED
  BY InitIInv, NextIInv, PTL DEF Spec

(* Every variable of the evidence store keeps its type.                    *)
THEOREM TypeCorrect == Spec => []TypeOK
<1>1. IInv => TypeOK
  BY DEF IInv
<1>2. QED
  BY <1>1, Invariant, PTL

(* The verdict of a source always is what its newest integrity event says  *)
(* of the digest it was registered with.                                   *)
THEOREM VerdictFromLog == Spec => []VerdictIsLastLook
<1>1. IInv => VerdictIsLastLook
  BY JudgedIsVerdict DEF IInv
<1>2. QED
  BY <1>1, Invariant, PTL

(* A registration misses no earlier copy, those registered since its look  *)
(* back excepted.                                                          *)
THEOREM LineageKnown == Spec => []LineageComplete
<1>1. IInv => LineageComplete
  BY DEF IInv
<1>2. QED
  BY <1>1, Invariant, PTL

(* Findings come from the registered bytes unless the file or the verdict  *)
(* changed between the hash and the last read of the image.                *)
THEOREM FindingsAttributed == Spec => []Attributed
<1>1. IInv => Attributed
  BY DEF IInv
<1>2. QED
  BY <1>1, Invariant, PTL

(* A running analysis is in one thread's hands or its request has failed.  *)
THEOREM RunningHeld == Spec => []RunningIsHeld
<1>1. IInv => RunningIsHeld
  BY DEF IInv
<1>2. QED
  BY <1>1, Invariant, PTL

(* The processing status of a source is that of an analysis that ended.    *)
THEOREM ProcessingExplained == Spec => []ProcessedByAnalysis
<1>1. IInv => ProcessedByAnalysis
  BY DEF IInv, Explained
<1>2. QED
  BY <1>1, Invariant, PTL

-----------------------------------------------------------------------------
(* A changed image.  The log remembers the own look of an analysis, and a  *)
(* later one when the verdict it read back was not of its own look.        *)
Remembered(w) ==
    LET r == request[w]
        events == log[r.source]
    IN  /\ r.op = "recorded" => \E i \in 1..Len(events) : events[i] = r.seen
        /\ (r.op \in Analysing /\ r.digest # None /\ r.seen \in Bytes \ {r.digest}) =>
               \E i, j \in 1..Len(events) :
                   /\ i < j
                   /\ events[i] = r.seen
                   /\ events[j] \in {r.digest, Unreadable}

AllRemembered == \A w \in Thread : Remembered(w)

LogGrows ==
    \A s \in Registered :
        /\ Len(log[s]) \in Nat /\ Len(log'[s]) \in Nat
        /\ Len(log[s]) <= Len(log'[s])
        /\ \A i \in 1..Len(log[s]) : log'[s][i] = log[s][i]

LEMMA NextLogGrows == TypeOK /\ AllPlaced /\ [Next]_vars => LogGrows
<1> SUFFICES ASSUME TypeOK, AllPlaced, [Next]_vars PROVE LogGrows
  OBVIOUS
<1>1. \A s \in Registered : log[s] \in Seq(Content)
  BY DEF TypeOK
<1>2. CASE log' = log
  BY <1>1, <1>2 DEF LogGrows
<1>3. ASSUME NEW w \in Thread, NEW s \in Source, Register(w, s) PROVE LogGrows
  <2>1. \A t \in Registered : log'[t] = log[t]
    BY <1>3 DEF Register, With, TypeOK
  <2>2. QED
    BY <1>1, <2>1 DEF LogGrows
<1>4. ASSUME NEW w \in Thread, RecordVerdict(w) PROVE LogGrows
  <2> DEFINE q == request[w].source
  <2>1. q \in Registered /\ request[w].seen \in Content
    BY <1>4 DEF AllPlaced, Placed, Looking, RecordVerdict, Is
  <2>2. \A t \in Registered : t # q => log'[t] = log[t]
    BY <1>4 DEF RecordVerdict, TypeOK
  <2>3. log'[q] = Append(log[q], request[w].seen)
    BY <1>4, <2>1 DEF RecordVerdict, TypeOK
  <2> HIDE DEF q
  <2>4. /\ Len(log[q]) \in Nat /\ Len(log'[q]) = Len(log[q]) + 1
        /\ \A i \in 1..Len(log[q]) : log'[q][i] = log[q][i]
    BY <1>1, <2>1, <2>3
  <2>5. ASSUME NEW t \in Registered
        PROVE  /\ Len(log[t]) \in Nat /\ Len(log'[t]) \in Nat
               /\ Len(log[t]) <= Len(log'[t])
               /\ \A i \in 1..Len(log[t]) : log'[t][i] = log[t][i]
    <3>1. CASE t = q
      BY <2>4, <3>1
    <3>2. CASE t # q
      BY <1>1, <2>2, <3>2
    <3>3. QED
      BY <3>1, <3>2
  <2>6. QED
    BY <2>5 DEF LogGrows
<1>5. ASSUME NEW w \in Thread,
             \/ Quiet(w) \/ Finish(w)
             \/ \E a \in Analysis : Begin(w, a)
      PROVE  log' = log
  BY <1>5 DEF Quiet, HashToRegister, AnalysePath, HashToVerify, Accept, LookBack, ReadVerdict,
              ReadImage, EndAnalysis, RequestFails, Finish, Begin, rows
<1>6. CASE (\E f \in File, c \in Content : FileChanges(f, c)) \/ UNCHANGED vars
  BY <1>2, <1>6 DEF FileChanges, rows, vars
<1>7. ASSUME NEW w \in Thread, RegisterEvidence(w) \/ Verify(w) \/ Analyse(w) \/ RequestFails(w)
      PROVE  LogGrows
  BY <1>2, <1>3, <1>4, <1>5, <1>7 DEF RegisterEvidence, Verify, Analyse, Quiet
<1>8. QED
  BY <1>6, <1>7 DEF Next

(* The log only grows: what it showed of a request it goes on showing.     *)
LEMMA StillRemembered ==
  ASSUME LogGrows, NEW v \in Thread, Placed(v), Remembered(v),
         request'[v].source = request[v].source, request'[v].seen = request[v].seen,
         request'[v].digest = request[v].digest,
         \/ request'[v].op = request[v].op
         \/ request'[v].op \in Analysing /\ request[v].op \in Analysing
  PROVE  Remembered(v)'
<1> DEFINE r == request[v]
<1>1. CASE r.op = "recorded"
  <2>1. r.source \in Registered
    BY <1>1 DEF Placed, Looking
  <2>2. PICK i \in 1..Len(log[r.source]) : log[r.source][i] = r.seen
    BY <1>1 DEF Remembered
  <2>3. i \in 1..Len(log'[r.source]) /\ log'[r.source][i] = r.seen
    BY <2>1, <2>2 DEF LogGrows
  <2>4. request'[v].op = "recorded"
    BY <1>1 DEF Analysing
  <2>5. QED
    BY <2>3, <2>4 DEF Remembered, Analysing
<1>2. CASE r.op \in Analysing /\ r.digest # None /\ r.seen \in Bytes \ {r.digest}
  <2>1. r.source \in Registered
    BY <1>2 DEF Placed
  <2>2. PICK i \in 1..Len(log[r.source]), j \in 1..Len(log[r.source]) :
            i < j /\ log[r.source][i] = r.seen /\ log[r.source][j] \in {r.digest, Unreadable}
    BY <1>2 DEF Remembered
  <2>3. /\ i \in 1..Len(log'[r.source]) /\ log'[r.source][i] = r.seen
        /\ j \in 1..Len(log'[r.source]) /\ log'[r.source][j] = log[r.source][j]
    BY <2>1, <2>2 DEF LogGrows
  <2>4. request'[v].op # "recorded"
    BY <1>2 DEF Analysing
  <2>5. log'[r.source][j] \in {r.digest, Unreadable}
    BY <2>2, <2>3
  <2>6. QED
    BY <2>2, <2>3, <2>4, <2>5 DEF Remembered
<1>3. QED
  BY <1>1, <1>2 DEF Remembered, Analysing

LEMMA NothingToRemember ==
  ASSUME NEW w \in Thread, request'[w].op # "recorded",
         request'[w].op \notin Analysing \/ request'[w].digest = None
  PROVE  Remembered(w)'
  BY DEF Remembered

(* A verdict that is not refused is of the registered bytes or of a file   *)
(* that could not be read.                                                 *)
LEMMA NotRefused ==
  ASSUME NEW c \in Content, NEW d \in Bytes, Judge(d, c) \notin Refused
  PROVE  c \in {d, Unreadable}
<1>1. Judge(d, c) # "MISMATCH" /\ Judge(d, c) # "MISSING"
  BY DEF Refused
<1>2. d # None /\ d \in Bytes \cup {None}
  BY EvidenceAssumption
<1>3. QED
  BY <1>1, <1>2, JudgeRight DEF Content

LEMMA QuietRemembered ==
  ASSUME TypeOK, AllPlaced, AllJudged, LogGrows, NEW w \in Thread, Remembered(w), Quiet(w)
  PROVE  Remembered(w)'
<1> DEFINE r == request[w]
<1>1. ASSUME NEW f \in File, HashToRegister(w, f) \/ AnalysePath(w, f) PROVE Remembered(w)'
  <2>1. request'[w].op = "hashed" \/ (request'[w].op = "begin" /\ request'[w].digest = None)
    BY <1>1 DEF HashToRegister, AnalysePath, Accept, Idle, TypeOK
  <2>2. QED
    BY <2>1, NothingToRemember DEF Analysing
<1>2. ASSUME NEW s \in Source, NEW analysing \in BOOLEAN, HashToVerify(w, s, analysing)
      PROVE  Remembered(w)'
  <2>1. request'[w].op = "observed"
    BY <1>2 DEF HashToVerify, Accept, Idle, TypeOK
  <2>2. QED
    BY <2>1, NothingToRemember DEF Analysing
<1>3. CASE LookBack(w)
  <2>1. request'[w].op = "insert"
    BY <1>3 DEF LookBack, TypeOK, Request
  <2>2. QED
    BY <2>1, NothingToRemember DEF Analysing
<1>4. CASE ReadVerdict(w)
  <2> DEFINE d == source[r.source].digest
             events == log[r.source]
  <2>1. CASE request'[w] = Idle
    BY <2>1, NothingToRemember DEF Idle, Analysing
  <2>2. CASE request'[w] # Idle
    <3>1. /\ request'[w] = [r EXCEPT !.op = "begin", !.digest = d]
          /\ source[r.source].verdict \notin Refused /\ r.op = "recorded"
          /\ log' = log
      BY <1>4, <2>2 DEF ReadVerdict, TypeOK, Is, rows
    <3>2. /\ request'[w].op = "begin" /\ request'[w].digest = d
          /\ request'[w].seen = r.seen /\ request'[w].source = r.source
      BY <3>1 DEF TypeOK, Request
    <3>3. r.seen \in Content /\ r.source \in Registered
      BY <3>1 DEF AllPlaced, Placed, Looking
    <3>4. d \in Bytes \cup {None} /\ events \in Seq(Content)
      BY <3>3 DEF TypeOK, SourceRow
    <3>5. events # <<>> /\ Judge(d, events[Len(events)]) \notin Refused
      BY <3>1, <3>3 DEF AllJudged, JudgedLast
    <3>6. PICK i \in 1..Len(events) : events[i] = r.seen
      BY <3>1 DEF Remembered
    <3>7. Len(events) \in 1..Len(events)
      BY <3>4, <3>5
    <3>8. d # None /\ r.seen \in Bytes \ {d} => i < Len(events)
      <4>1. d # None /\ r.seen \in Bytes \ {d} => Judge(d, r.seen) = "MISMATCH"
        BY <3>3, <3>4, JudgeRight
      <4>2. d # None /\ r.seen \in Bytes \ {d} => i # Len(events)
        BY <3>5, <3>6, <4>1 DEF Refused
      <4>3. QED
        BY <3>6, <3>7, <4>2
    <3>9. /\ i \in 1..Len(log'[r.source]) /\ Len(events) \in 1..Len(log'[r.source])
          /\ log'[r.source][i] = r.seen
          /\ d # None => log'[r.source][Len(events)] \in {d, Unreadable}
      <4>1. events[Len(events)] \in Content
        BY <3>4, <3>7
      <4>2. d # None => events[Len(events)] \in {d, Unreadable}
        BY <3>4, <3>5, <4>1, NotRefused
      <4>3. QED
        BY <3>1, <3>6, <3>7, <4>2
    <3> HIDE DEF d
    <3> DEFINE j == Len(events)
    <3>10. d # None /\ r.seen \in Bytes \ {d} => i < j
      BY <3>8
    <3>11. j \in 1..Len(log'[r.source]) /\ (d # None => log'[r.source][j] \in {d, Unreadable})
      BY <3>9
    <3> HIDE DEF j
    <3>12. QED
      BY <3>2, <3>9, <3>10, <3>11 DEF Remembered
  <2>3. QED
    BY <2>1, <2>2
<1>5. CASE ReadImage(w)
  <2>1. /\ request'[w].op = "analyse" /\ r.op = "analyse" /\ request'[w].digest = r.digest
        /\ request'[w].seen = r.seen /\ request'[w].source = r.source
    BY <1>5 DEF ReadImage, Is, TypeOK, Request
  <2>2. QED
    BY <2>1, StillRemembered DEF AllPlaced, Analysing
<1>6. ASSUME NEW ok \in BOOLEAN, EndAnalysis(w, ok) PROVE Remembered(w)'
  <2>1. /\ request'[w].op = "finish" /\ r.op = "analyse" /\ request'[w].digest = r.digest
        /\ request'[w].seen = r.seen /\ request'[w].source = r.source
    BY <1>6 DEF EndAnalysis, Is, TypeOK, Request
  <2>2. QED
    BY <2>1, StillRemembered DEF AllPlaced, Analysing
<1>7. CASE RequestFails(w)
  <2>1. request'[w].op = "idle"
    BY <1>7 DEF RequestFails, Done, Idle, TypeOK
  <2>2. QED
    BY <2>1, NothingToRemember DEF Analysing
<1>8. QED
  BY <1>1, <1>2, <1>3, <1>4, <1>5, <1>6, <1>7 DEF Quiet

LEMMA ActorRemembered ==
  ASSUME TypeOK, AllPlaced, AllJudged, LogGrows, NEW w \in Thread, Remembered(w),
         RegisterEvidence(w) \/ Verify(w) \/ Analyse(w) \/ RequestFails(w)
  PROVE  Remembered(w)'
<1> DEFINE r == request[w]
<1>1. CASE (\E s \in Source : Register(w, s)) \/ Finish(w)
  <2>1. request'[w].op = "idle"
    BY <1>1 DEF Register, Finish, Done, Idle, TypeOK
  <2>2. QED
    BY <2>1, NothingToRemember DEF Analysing
<1>2. CASE RecordVerdict(w)
  <2>1. CASE ~r.analysing
    <3>1. request'[w].op = "idle"
      BY <1>2, <2>1 DEF RecordVerdict, Idle
    <3>2. QED
      BY <3>1, NothingToRemember DEF Analysing
  <2>2. CASE r.analysing
    <3>1. request'[w] = [r EXCEPT !.op = "recorded"]
      BY <1>2, <2>2 DEF RecordVerdict
    <3>2. /\ request'[w].op = "recorded" /\ request'[w].seen = r.seen
          /\ request'[w].source = r.source
      BY <3>1 DEF TypeOK, Request
    <3>3. r.source \in Registered /\ r.seen \in Content
      BY <1>2 DEF RecordVerdict, Is, AllPlaced, Placed, Looking
    <3>4. log'[r.source] = Append(log[r.source], r.seen) /\ log[r.source] \in Seq(Content)
      BY <1>2, <3>3 DEF RecordVerdict, TypeOK
    <3> DEFINE i == Len(log'[r.source])
    <3>5. i \in 1..Len(log'[r.source]) /\ log'[r.source][i] = r.seen
      BY <3>3, <3>4
    <3> HIDE DEF i
    <3>6. QED
      BY <3>2, <3>5 DEF Remembered, Analysing
  <2>3. QED
    BY <2>1, <2>2
<1>3. ASSUME NEW a \in Analysis, Begin(w, a) PROVE Remembered(w)'
  <2>1. /\ request'[w].op \in Analysing /\ r.op \in Analysing
        /\ request'[w].digest = r.digest
        /\ request'[w].seen = r.seen /\ request'[w].source = r.source
    BY <1>3 DEF Begin, Is, TypeOK, Request, Analysing
  <2>2. QED
    BY <2>1, StillRemembered DEF AllPlaced
<1>4. QED
  BY <1>1, <1>2, <1>3, QuietRemembered DEF RegisterEvidence, Verify, Analyse, Quiet

(* What another thread or a changed file does to a request.                *)
LEMMA OthersCarry ==
  ASSUME TypeOK, [Next]_vars, NEW v \in Thread
  PROVE  \/ RegisterEvidence(v) \/ Verify(v) \/ Analyse(v) \/ RequestFails(v)
         \/ /\ request'[v].op = request[v].op /\ request'[v].source = request[v].source
            /\ request'[v].seen = request[v].seen /\ request'[v].digest = request[v].digest
<1> DEFINE Same == /\ request'[v].op = request[v].op /\ request'[v].source = request[v].source
                   /\ request'[v].seen = request[v].seen
                   /\ request'[v].digest = request[v].digest
<1>1. ASSUME NEW w \in Thread, w # v,
             \/ Quiet(w) \/ Finish(w)
             \/ \E a \in Analysis : Begin(w, a)
      PROVE  request'[v] = request[v]
  BY <1>1 DEF Quiet, HashToRegister, AnalysePath, HashToVerify, Accept, LookBack, ReadVerdict,
              ReadImage, EndAnalysis, RequestFails, Finish, Begin, Done, TypeOK
<1>2. ASSUME NEW w \in Thread, w # v, NEW s \in Source, Register(w, s) PROVE Same
  <2>1. request'[v] = [request[v] EXCEPT !.late =
                          IF Is(v, "insert") THEN request[v].late \cup {s} ELSE request[v].late]
    BY <1>2 DEF Register
  <2>2. QED
    BY <2>1 DEF TypeOK, Request
<1>3. ASSUME NEW w \in Thread, w # v, RecordVerdict(w) PROVE Same
  <2> DEFINE d == request[v].doubt \/ (Is(v, "recorded") /\ request[v].source = request[w].source)
  <2>1. request'[v] = [request[v] EXCEPT !.doubt = d]
    BY <1>3 DEF RecordVerdict
  <2> HIDE DEF d
  <2>2. QED
    BY <2>1 DEF TypeOK, Request
<1>4. ASSUME NEW f \in File, NEW c \in Content, FileChanges(f, c) PROVE Same
  <2> DEFINE d == request[v].doubt \/ (request[v].analysing /\ request[v].file = f)
  <2>1. request'[v] = [request[v] EXCEPT !.doubt = d]
    BY <1>4 DEF FileChanges
  <2> HIDE DEF d
  <2>2. QED
    BY <2>1 DEF TypeOK, Request
<1>5. ASSUME NEW w \in Thread, w # v,
             RegisterEvidence(w) \/ Verify(w) \/ Analyse(w) \/ RequestFails(w)
      PROVE  Same
  BY <1>1, <1>2, <1>3, <1>5 DEF RegisterEvidence, Verify, Analyse, Quiet
<1>6. CASE UNCHANGED vars
  BY <1>6 DEF vars
<1>7. QED
  BY <1>4, <1>5, <1>6 DEF Next

LEMMA NextRemembered ==
  ASSUME TypeOK, AllPlaced, AllJudged, AllRemembered, [Next]_vars
  PROVE  AllRemembered'
<1> SUFFICES ASSUME NEW v \in Thread PROVE Remembered(v)'
  BY DEF AllRemembered
<1>1. LogGrows /\ Remembered(v) /\ Placed(v)
  BY NextLogGrows DEF AllRemembered, AllPlaced
<1>2. CASE RegisterEvidence(v) \/ Verify(v) \/ Analyse(v) \/ RequestFails(v)
  BY <1>1, <1>2, ActorRemembered
<1>3. CASE /\ request'[v].op = request[v].op /\ request'[v].source = request[v].source
           /\ request'[v].seen = request[v].seen /\ request'[v].digest = request[v].digest
  BY <1>1, <1>3, StillRemembered
<1>4. QED
  BY <1>2, <1>3, OthersCarry

(* On any number of threads an image that the analysis itself found        *)
(* changed is refused, as docs/EvidenceModel.md says, unless a later       *)
(* verification overwrote the verdict first (MemoryWorkflow.analyse).      *)
THEOREM ChangedImageKeptOut == Spec => []RefusedUnlessOvertaken
<1>1. Init => AllRemembered
  BY DEF Init, AllRemembered, Remembered, Idle, Analysing
<1>2. IInv /\ AllRemembered /\ [Next]_vars => AllRemembered'
  BY NextRemembered DEF IInv
<1>3. AllRemembered => RefusedUnlessOvertaken
  BY DEF AllRemembered, Remembered, RefusedUnlessOvertaken, Analysing
<1>4. QED
  BY <1>1, <1>2, <1>3, Invariant, PTL DEF Spec

(* The verdict of a source and the copy it replaces are right              *)
(* (verify_evidence, register_evidence).                                   *)
THEOREM SourcesAreTrusted == Spec => []SourcesTrusted
  BY VerdictFromLog, LineageKnown, PTL DEF SourcesTrusted

(* Every analysis is accounted for: that it may run, its findings, its end *)
(* and its source (analyse).                                               *)
THEOREM AnalysesAreAccounted == Spec => []AnalysesAccounted
  BY ChangedImageKeptOut, FindingsAttributed, RunningHeld, ProcessingExplained, PTL DEF AnalysesAccounted
=============================================================================
