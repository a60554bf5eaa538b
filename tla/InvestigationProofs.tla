-------------------------- MODULE InvestigationProofs -------------------------
(***************************************************************************)
(* What hashing and exporting a file guarantee (FileReads), whoever        *)
(* rewrites or exchanges the file meanwhile; what joining activities into  *)
(* threads guarantees (Threads), whatever order the words come in; what    *)
(* reading, planning and answering a program guarantee (Program), for      *)
(* every text, playbook, guard and predicate.  With the proofs about the   *)
(* other parts they type the whole of the analysis (MCAnalysis).           *)
(***************************************************************************)
EXTENDS MCAnalysis, AnalysisProofs

-----------------------------------------------------------------------------
(* Hashing and exporting a file                                            *)

(* No stamp is ahead of the clock, so that every change gets a fresh one.  *)
Stamped == \A i \in Inode : inode[i].stamp <= stamps

(* What a thread knows of the versions it has read: a version it still     *)
(* finds is one that has not been touched since.                           *)
Watching(r) ==
    LET row == reader[r]
    IN  /\ row.before.stamp <= stamps /\ row.opened.stamp <= stamps
        /\ row.pc \in {1, 2} => row.got = {}
        /\ row.pc \in 2..4 => row.opened.inode = row.fd
        /\ row.pc \in {3, 4} /\ VersionOf(row.fd) = row.opened => row.got = {inode[row.fd].data}

(* The hashing thread and the path: the version it looked at first is the  *)
(* content it remembers, and the file it opened as long as nothing moved.  *)
Hashing(r) ==
    LET row == reader[r]
    IN  row.op = "hash" =>
            /\ VersionOf(row.before.inode) = row.before => inode[row.before.inode].data = row.was
            /\ row.pc \in 2..4 /\ VersionOf(path) = row.before => row.fd = path
            /\ row.pc = 5 => row.got = {row.was}

Exporting(r) == At(r, "export", 5) => Cardinality(reader[r].got) = 1

TargetSound ==
    /\ target.state = "partial" <=> target.by \in Reader
    /\ ExportOfOneVersion

FInv == /\ FTypeOK /\ Stamped
        /\ \A r \in Reader : Watching(r) /\ Hashing(r) /\ Exporting(r)
        /\ TargetSound
        /\ DigestOfOneVersion /\ ComparedWithPrevious

-----------------------------------------------------------------------------
(* Types                                                                   *)

LEMMA VersionType ==
  ASSUME FTypeOK, NEW i \in Inode
  PROVE  VersionOf(i) \in Version /\ inode[i].data \in Data /\ inode[i].stamp \in 0..MaxStamps
  BY DEF FTypeOK, VersionOf, Version

LEMMA RestingType ==
  ASSUME FTypeOK
  PROVE  Resting(path) \in ReaderRow
  BY VersionType DEF FTypeOK, Resting, ReaderRow

LEMMA ReadsType ==
  ASSUME FTypeOK, NEW r \in Reader, NEW row \in ReaderRow, Reads(r, row)
  PROVE  /\ reader' \in [Reader -> ReaderRow] /\ reader'[r] = row
         /\ \A q \in Reader \ {r} : reader'[q] = reader[q]
  BY DEF FTypeOK, Reads

LEMMA RestsType ==
  ASSUME FTypeOK, NEW r \in Reader, Rests(r)
  PROVE  /\ reader' \in [Reader -> ReaderRow] /\ reader'[r] = Resting(path)
         /\ \A q \in Reader \ {r} : reader'[q] = reader[q]
  BY ReadsType, RestingType DEF Rests

(* The rows the actions write, by what they write.                         *)
LEMMA ChunkRow ==
  ASSUME NEW row \in ReaderRow, NEW d \in Data, row.pc \in {2, 3}
  PROVE  [row EXCEPT !.pc = @ + 1, !.got = @ \cup {d}] \in ReaderRow
<1>1. row.pc + 1 \in 0..5 /\ row.got \cup {d} \in SUBSET Data
  BY DEF ReaderRow
<1>2. QED
  BY <1>1 DEF ReaderRow

LEMMA WrittenRows ==
  ASSUME FTypeOK, NEW r \in Reader
  PROVE  /\ [Resting(path) EXCEPT !.op = "hash", !.pc = 1] \in ReaderRow
         /\ [Resting(path) EXCEPT !.op = "export", !.pc = 2] \in ReaderRow
         /\ [reader[r] EXCEPT !.pc = 2, !.fd = path, !.opened = VersionOf(path)] \in ReaderRow
         /\ [reader[r] EXCEPT !.pc = 5] \in ReaderRow
         /\ reader[r].pc \in {2, 3} =>
               [reader[r] EXCEPT !.pc = @ + 1, !.got = @ \cup {inode[reader[r].fd].data}]
                  \in ReaderRow
<1>1. Resting(path) \in ReaderRow /\ reader[r] \in ReaderRow /\ path \in Inode
  BY RestingType DEF FTypeOK
<1>2. VersionOf(path) \in Version /\ inode[reader[r].fd].data \in Data
  BY <1>1, VersionType DEF ReaderRow
<1>3. \A n \in 0..5 : /\ [Resting(path) EXCEPT !.op = "hash", !.pc = n] \in ReaderRow
                      /\ [Resting(path) EXCEPT !.op = "export", !.pc = n] \in ReaderRow
                      /\ [reader[r] EXCEPT !.pc = n] \in ReaderRow
  <2> TAKE n \in 0..5
  <2>1. [Resting(path) EXCEPT !.op = "hash", !.pc = n] \in ReaderRow
    BY <1>1 DEF ReaderRow
  <2>2. [Resting(path) EXCEPT !.op = "export", !.pc = n] \in ReaderRow
    BY <1>1 DEF ReaderRow
  <2>3. [reader[r] EXCEPT !.pc = n] \in ReaderRow
    BY <1>1 DEF ReaderRow
  <2>4. QED
    BY <2>1, <2>2, <2>3
<1>4. \A n \in 0..5, v \in Version :
         [reader[r] EXCEPT !.pc = n, !.fd = path, !.opened = v] \in ReaderRow
  BY <1>1 DEF ReaderRow
<1>5. ASSUME reader[r].pc \in {2, 3}
      PROVE  [reader[r] EXCEPT !.pc = @ + 1, !.got = @ \cup {inode[reader[r].fd].data}] \in ReaderRow
  BY <1>1, <1>2, <1>5, ChunkRow
<1>6. [reader[r] EXCEPT !.pc = 2, !.fd = path, !.opened = VersionOf(path)] \in ReaderRow
  <2>1. PICK n \in 0..5, v \in Version : n = 2 /\ v = VersionOf(path)
    BY <1>2
  <2>2. [reader[r] EXCEPT !.pc = n, !.fd = path, !.opened = v] \in ReaderRow
    BY <1>4
  <2>3. QED
    BY <2>1, <2>2
<1>7. QED
  BY <1>3, <1>5, <1>6

LEMMA InitFInv == FInit => FInv
<1> SUFFICES ASSUME FInit PROVE FInv
  OBVIOUS
<1>1. FTypeOK
  <2>1. inode \in [Inode -> [data : Data, stamp : 0..MaxStamps]]
    BY FileAssumption DEF FInit
  <2>2. VersionOf(path) \in Version /\ inode[path].data \in Data
    BY <2>1, FileAssumption DEF FInit, VersionOf, Version
  <2>3. Resting(path) \in ReaderRow
    BY <2>2 DEF FInit, Resting, ReaderRow
  <2>4. target \in Target
    BY DEF FInit, Absent, Target
  <2>5. QED
    BY <2>1, <2>3, <2>4, FileAssumption DEF FInit, FTypeOK
<1>2. Stamped
  BY DEF FInit, Stamped
<1>3. ASSUME NEW r \in Reader PROVE Watching(r) /\ Hashing(r) /\ Exporting(r)
  <2>1. reader[r] = Resting(path) /\ inode[path].stamp = 0 /\ stamps = 0
    BY DEF FInit
  <2>2. QED
    BY <2>1 DEF Watching, Hashing, Exporting, At, Resting, VersionOf
<1>4. TargetSound
  BY FileAssumption DEF FInit, Absent, TargetSound, ExportOfOneVersion
<1>5. DigestOfOneVersion /\ ComparedWithPrevious
  BY DEF FInit, DigestOfOneVersion, ComparedWithPrevious
<1>6. QED
  BY <1>1, <1>2, <1>3, <1>4, <1>5 DEF FInv

LEMMA NextFTypeOK ==
  ASSUME FInv, [FNext]_fvars
  PROVE  FTypeOK'
<1> USE DEF FInv
<1>1. ASSUME NEW i \in Inode, Renamed(i) PROVE FTypeOK'
  <2>1. stamps + 1 \in 0..MaxStamps
    BY <1>1, FileAssumption DEF Renamed, FTypeOK
  <2>2. inode' \in [Inode -> [data : Data, stamp : 0..MaxStamps]]
    BY <1>1, <2>1 DEF Renamed, FTypeOK
  <2>3. QED
    BY <1>1, <2>1, <2>2 DEF Renamed, FTypeOK
<1>2. ASSUME NEW i \in Inode, NEW d \in Data, Rewritten(i, d) PROVE FTypeOK'
  <2>1. stamps + 1 \in 0..MaxStamps
    BY <1>2, FileAssumption DEF Rewritten, FTypeOK
  <2>2. inode' \in [Inode -> [data : Data, stamp : 0..MaxStamps]]
    BY <1>2, <2>1 DEF Rewritten, FTypeOK
  <2>3. QED
    BY <1>2, <2>1, <2>2 DEF Rewritten, FTypeOK
<1>3. ASSUME NEW r \in Reader, HashStats(r) PROVE FTypeOK'
  BY <1>3, ReadsType, WrittenRows DEF HashStats, FTypeOK
<1>4. ASSUME NEW r \in Reader, Opens(r, "hash") PROVE FTypeOK'
  BY <1>4, ReadsType, WrittenRows DEF Opens, FTypeOK
<1>5. ASSUME NEW r \in Reader, NEW op \in {"hash", "export"}, ReadsChunk(r, op) PROVE FTypeOK'
  BY <1>5, ReadsType, WrittenRows DEF ReadsChunk, FTypeOK
<1>6. ASSUME NEW r \in Reader, HashCompares(r) PROVE FTypeOK'
  BY <1>6, ReadsType, RestsType, WrittenRows DEF HashCompares, FTypeOK
<1>7. ASSUME NEW r \in Reader, HashObserves(r) PROVE FTypeOK'
  <2> DEFINE o == [digest |-> reader[r].got, was |-> reader[r].was,
                   found |-> CompareToLast(reader[r].got)]
  <2>1. o \in Observation
    BY DEF FTypeOK, ReaderRow, Observation, CompareToLast, Verdict
  <2>2. observed' = Append(observed, o)
    BY <1>7 DEF HashObserves
  <2> HIDE DEF o
  <2>3. observed' \in Seq(Observation)
    BY <2>1, <2>2 DEF FTypeOK
  <2>4. QED
    BY <1>7, <2>3, RestsType DEF HashObserves, FTypeOK
<1>8. ASSUME NEW r \in Reader, ExportBegins(r) PROVE FTypeOK'
  BY <1>8, ReadsType, WrittenRows DEF ExportBegins, FTypeOK
<1>9. ASSUME NEW r \in Reader, ExportCompletes(r) PROVE FTypeOK'
  BY <1>9, ReadsType, RestsType, WrittenRows DEF ExportCompletes, FTypeOK
<1>10. ASSUME NEW r \in Reader, Creates(r) PROVE FTypeOK'
  <2>1. [state |-> "partial", holds |-> reader[r].got, by |-> r] \in Target
    BY DEF FTypeOK, ReaderRow, Target
  <2>2. QED
    BY <1>10, <2>1, RestsType DEF Creates, FTypeOK
<1>11. ASSUME NEW r \in Reader, NEW ok \in BOOLEAN, Publishes(r, ok) PROVE FTypeOK'
  <2>1. target' \in Target
    BY <1>11 DEF Publishes, FTypeOK, Target, Absent
  <2>2. QED
    BY <1>11, <2>1, RestsType DEF Publishes, FTypeOK
<1>12. CASE Crashes
  <2>1. target' \in Target
    BY <1>12 DEF Crashes, FTypeOK, Target
  <2>2. QED
    BY <1>12, <2>1, RestingType, FileAssumption DEF Crashes, FTypeOK
<1>13. CASE UNCHANGED fvars
  BY <1>13 DEF fvars, FTypeOK
<1>14. QED
  BY <1>1, <1>2, <1>3, <1>4, <1>5, <1>6, <1>7, <1>8, <1>9, <1>10, <1>11, <1>12, <1>13 DEF FNext

-----------------------------------------------------------------------------
(* The threads                                                             *)

(* A change gets a stamp nobody has seen: whoever compares afterwards finds*)
(* another version of what changed, and the same of what did not.          *)
LEMMA FreshStamp ==
  ASSUME FInv, NEW i \in Inode, stamps' = stamps + 1, inode'[i].stamp = stamps + 1,
         \A j \in Inode \ {i} : inode'[j] = inode[j],
         path' = path \/ path' = i, UNCHANGED reader, NEW r \in Reader
  PROVE  Watching(r)' /\ Hashing(r)' /\ Exporting(r)'
<1> USE DEF FInv
<1>1. /\ reader[r].before \in Version /\ reader[r].opened \in Version
      /\ reader[r].fd \in Inode /\ stamps \in Nat /\ path \in Inode
  BY FileAssumption DEF FTypeOK, ReaderRow
<1>2. /\ reader[r].before.stamp # stamps + 1 /\ reader[r].opened.stamp # stamps + 1
      /\ reader[r].before.stamp <= stamps + 1 /\ reader[r].opened.stamp <= stamps + 1
  BY <1>1 DEF Watching, Version
<1>3. ASSUME NEW j \in Inode, VersionOf(j)' = reader[r].before \/ VersionOf(j)' = reader[r].opened
      PROVE  j # i /\ inode'[j] = inode[j] /\ VersionOf(j)' = VersionOf(j)
  BY <1>2, <1>3 DEF VersionOf
<1>4. Watching(r)'
  BY <1>1, <1>2, <1>3 DEF Watching
<1>5. Hashing(r)'
  <2>1. reader[r].before.inode \in Inode
    BY <1>1 DEF Version
  <2>2. path' \in Inode /\ (path' # path => path' = i)
    BY <1>1
  <2>3. QED
    BY <1>1, <1>2, <1>3, <2>1, <2>2 DEF Hashing
<1>6. Exporting(r)'
  BY DEF Exporting, At
<1>7. QED
  BY <1>4, <1>5, <1>6

(* Nothing that only one thread does concerns another.                     *)
LEMMA OtherThread ==
  ASSUME FInv, UNCHANGED <<path, inode, stamps>>, NEW q \in Reader, reader'[q] = reader[q]
  PROVE  Watching(q)' /\ Hashing(q)' /\ Exporting(q)'
  BY DEF FInv, Watching, Hashing, Exporting, At, VersionOf

LEMMA AtRest ==
  ASSUME FInv, UNCHANGED <<path, inode>>, stamps' \in {stamps, stamps + 1},
         NEW r \in Reader, reader'[r] = Resting(path)
  PROVE  Watching(r)' /\ Hashing(r)' /\ Exporting(r)'
<1>1. inode[path].stamp <= stamps' /\ path \in Inode
  BY FileAssumption DEF FInv, FTypeOK, Stamped
<1>2. QED
  BY <1>1 DEF Watching, Hashing, Exporting, At, Resting, VersionOf

Turn(r) == Watching(r) /\ Hashing(r) /\ Exporting(r)

LEMMA NextThreads ==
  ASSUME FInv, [FNext]_fvars, NEW q \in Reader
  PROVE  Turn(q)'
<1> USE DEF FInv
<1>1. ASSUME UNCHANGED <<path, inode, stamps>>, reader'[q] = reader[q] PROVE Turn(q)'
  BY <1>1, OtherThread DEF Turn
<1>2. ASSUME UNCHANGED <<path, inode, stamps>>, reader'[q] = Resting(path) PROVE Turn(q)'
  BY <1>2, AtRest DEF Turn
<1>3. ASSUME NEW r \in Reader, Rests(r), UNCHANGED <<path, inode, stamps>> PROVE Turn(q)'
  BY <1>1, <1>2, <1>3, RestsType
<1>4. ASSUME NEW i \in Inode, Renamed(i) PROVE Turn(q)'
  <2>1. /\ stamps' = stamps + 1 /\ inode'[i].stamp = stamps + 1 /\ path' = i
        /\ \A j \in Inode \ {i} : inode'[j] = inode[j]
        /\ UNCHANGED reader
    BY <1>4 DEF Renamed, FTypeOK
  <2>2. QED
    BY <2>1, FreshStamp DEF Turn
<1>5. ASSUME NEW i \in Inode, NEW d \in Data, Rewritten(i, d) PROVE Turn(q)'
  <2>1. /\ stamps' = stamps + 1 /\ inode'[i].stamp = stamps + 1 /\ path' = path
        /\ \A j \in Inode \ {i} : inode'[j] = inode[j]
        /\ UNCHANGED reader
    BY <1>5 DEF Rewritten, FTypeOK
  <2>2. QED
    BY <2>1, FreshStamp DEF Turn
<1>6. ASSUME NEW r \in Reader, NEW row \in ReaderRow, Reads(r, row), UNCHANGED <<path, inode, stamps>>,
             q = r => Turn(q)'
      PROVE  Turn(q)'
  BY <1>1, <1>6, ReadsType
<1>7. inode[path].stamp <= stamps /\ path \in Inode /\ stamps \in Nat
  BY FileAssumption DEF Stamped, FTypeOK
<1>8. reader[q] \in ReaderRow /\ Watching(q) /\ Hashing(q) /\ Exporting(q)
  BY DEF FTypeOK
<1>9. ASSUME NEW r \in Reader, HashStats(r) PROVE Turn(q)'
  <2> DEFINE row == [Resting(path) EXCEPT !.op = "hash", !.pc = 1]
  <2>1. row \in ReaderRow /\ Reads(r, row) /\ UNCHANGED <<path, inode, stamps>>
    BY <1>9, WrittenRows DEF HashStats
  <2>2. ASSUME q = r PROVE Turn(q)'
    <3>1. /\ reader'[q].op = "hash" /\ reader'[q].pc = 1 /\ reader'[q].got = {}
          /\ reader'[q].before = VersionOf(path) /\ reader'[q].opened = VersionOf(path)
          /\ reader'[q].was = inode[path].data
      <4>1. reader'[q] = row
        BY <2>1, <2>2, ReadsType
      <4>2. QED
        BY <4>1 DEF Resting
    <3>2. QED
      BY <1>7, <2>1, <3>1 DEF Turn, Watching, Hashing, Exporting, At, VersionOf
  <2>3. QED
    BY <1>6, <2>1, <2>2
<1>10. ASSUME NEW r \in Reader, Opens(r, "hash") PROVE Turn(q)'
  <2> DEFINE row == [reader[r] EXCEPT !.pc = 2, !.fd = path, !.opened = VersionOf(path)]
  <2>1. row \in ReaderRow /\ Reads(r, row) /\ UNCHANGED <<path, inode, stamps>>
    BY <1>10, WrittenRows DEF Opens
  <2>2. ASSUME q = r PROVE Turn(q)'
    <3>1. reader[q].op = "hash" /\ reader[q].pc = 1
      BY <1>10, <2>2 DEF Opens, At
    <3>2. /\ reader'[q].op = "hash" /\ reader'[q].pc = 2 /\ reader'[q].fd = path
          /\ reader'[q].opened = VersionOf(path) /\ reader'[q].got = {}
          /\ reader'[q].before = reader[q].before /\ reader'[q].was = reader[q].was
      <4>1. reader'[q] = [reader[q] EXCEPT !.pc = 2, !.fd = path, !.opened = VersionOf(path)]
        BY <2>1, <2>2, ReadsType
      <4>2. reader[q].got = {}
        BY <1>8, <3>1 DEF Watching
      <4>3. QED
        BY <1>8, <3>1, <4>1, <4>2 DEF ReaderRow
    <3>3. QED
      BY <1>7, <1>8, <2>1, <3>1, <3>2 DEF Turn, Watching, Hashing, Exporting, At, VersionOf
  <2>3. QED
    BY <1>6, <2>1, <2>2
<1>11. ASSUME NEW r \in Reader, NEW op \in {"hash", "export"}, ReadsChunk(r, op)
       PROVE  Turn(q)'
  <2> DEFINE row == [reader[r] EXCEPT !.pc = @ + 1, !.got = @ \cup {inode[reader[r].fd].data}]
  <2>1. row \in ReaderRow /\ Reads(r, row) /\ UNCHANGED <<path, inode, stamps>>
    BY <1>11, WrittenRows DEF ReadsChunk
  <2>2. ASSUME q = r PROVE Turn(q)'
    <3>1. reader[q].pc \in {2, 3}
      BY <1>11, <2>2 DEF ReadsChunk
    <3>2. /\ reader'[q].op = reader[q].op /\ reader'[q].pc = reader[q].pc + 1
          /\ reader'[q].fd = reader[q].fd /\ reader'[q].opened = reader[q].opened
          /\ reader'[q].before = reader[q].before /\ reader'[q].was = reader[q].was
          /\ reader'[q].got = reader[q].got \cup {inode[reader[q].fd].data}
      <4>1. reader'[q] = [reader[q] EXCEPT !.pc = @ + 1, !.got = @ \cup {inode[reader[q].fd].data}]
        BY <2>1, <2>2, ReadsType
      <4>2. QED
        BY <1>8, <4>1 DEF ReaderRow
    <3>3. reader'[q].pc \in {3, 4}
      BY <3>1, <3>2
    <3>4. Watching(q)'
      BY <1>8, <2>1, <3>1, <3>2, <3>3 DEF Watching, VersionOf
    <3>5. Hashing(q)'
      BY <1>8, <2>1, <3>1, <3>2, <3>3 DEF Hashing, VersionOf
    <3>6. Exporting(q)'
      BY <3>3 DEF Exporting, At
    <3>7. QED
      BY <3>4, <3>5, <3>6 DEF Turn
  <2>3. QED
    BY <1>6, <2>1, <2>2
<1>12. ASSUME NEW r \in Reader, Reads(r, [reader[r] EXCEPT !.pc = 5]), reader[r].pc = 4,
              UNCHANGED <<path, inode, stamps>>,
              VersionOf(reader[r].fd) = reader[r].opened,
              reader[r].op = "hash" => VersionOf(path) = reader[r].before
       PROVE  Turn(q)'
  <2> DEFINE row == [reader[r] EXCEPT !.pc = 5]
  <2>1. row \in ReaderRow
    BY WrittenRows
  <2>2. ASSUME q = r PROVE Turn(q)'
    <3>1. /\ reader'[q].op = reader[q].op /\ reader'[q].pc = 5
          /\ reader'[q].fd = reader[q].fd /\ reader'[q].opened = reader[q].opened
          /\ reader'[q].before = reader[q].before /\ reader'[q].was = reader[q].was
          /\ reader'[q].got = reader[q].got
      BY <1>8, <1>12, <2>1, <2>2, ReadsType DEF ReaderRow
    <3>2. reader[q].got = {inode[reader[q].fd].data}
      BY <1>8, <1>12, <2>2 DEF Watching
    <3>3. Watching(q)'
      BY <1>8, <1>12, <3>1 DEF Watching
    <3>4. Hashing(q)'
      <4> SUFFICES ASSUME reader[q].op = "hash" PROVE Hashing(q)'
        BY <3>1 DEF Hashing
      <4>1. reader[q].fd = path /\ reader[q].before.inode = path
        BY <1>8, <1>12, <2>2 DEF Hashing, VersionOf
      <4>2. inode[path].data = reader[q].was
        BY <1>8, <1>12, <2>2, <4>1 DEF Hashing
      <4>3. QED
        BY <1>12, <3>1, <3>2, <4>1, <4>2 DEF Hashing, VersionOf
    <3>5. Exporting(q)'
      BY <3>1, <3>2, FS_Singleton DEF Exporting
    <3>6. QED
      BY <3>3, <3>4, <3>5 DEF Turn
  <2>3. QED
    BY <1>6, <1>12, <2>1, <2>2
<1>13. ASSUME NEW r \in Reader, HashCompares(r) PROVE Turn(q)'
  BY <1>3, <1>12, <1>13 DEF HashCompares, At, SameVersion
<1>14. ASSUME NEW r \in Reader, ExportCompletes(r) PROVE Turn(q)'
  BY <1>3, <1>12, <1>14 DEF ExportCompletes, At
<1>15. ASSUME NEW r \in Reader, ExportBegins(r) PROVE Turn(q)'
  <2> DEFINE row == [Resting(path) EXCEPT !.op = "export", !.pc = 2]
  <2>1. row \in ReaderRow /\ Reads(r, row) /\ UNCHANGED <<path, inode, stamps>>
    BY <1>15, WrittenRows DEF ExportBegins
  <2>2. ASSUME q = r PROVE Turn(q)'
    <3>1. /\ reader'[q].op = "export" /\ reader'[q].pc = 2 /\ reader'[q].got = {}
          /\ reader'[q].before = VersionOf(path) /\ reader'[q].opened = VersionOf(path)
          /\ reader'[q].fd = path
      <4>1. reader'[q] = row
        BY <2>1, <2>2, ReadsType
      <4>2. QED
        BY <4>1 DEF Resting
    <3>2. QED
      BY <1>7, <2>1, <3>1 DEF Turn, Watching, Hashing, Exporting, At, VersionOf
  <2>3. QED
    BY <1>6, <2>1, <2>2
<1>16. ASSUME NEW r \in Reader, HashObserves(r) PROVE Turn(q)'
  BY <1>3, <1>16 DEF HashObserves
<1>17. ASSUME NEW r \in Reader, Creates(r) PROVE Turn(q)'
  BY <1>1, <1>3, <1>17 DEF Creates
<1>18. ASSUME NEW r \in Reader, NEW ok \in BOOLEAN, Publishes(r, ok) PROVE Turn(q)'
  BY <1>3, <1>18 DEF Publishes
<1>19. CASE Crashes
  BY <1>19, AtRest DEF Crashes, Turn
<1>20. CASE UNCHANGED fvars
  BY <1>1, <1>20 DEF fvars
<1>21. QED
  BY <1>4, <1>5, <1>9, <1>10, <1>11, <1>13, <1>14, <1>15, <1>16, <1>17, <1>18, <1>19, <1>20
  DEF FNext

-----------------------------------------------------------------------------
(* What is recorded and copied                                             *)

LEMMA NextStamped ==
  ASSUME FInv, [FNext]_fvars
  PROVE  Stamped'
<1> USE DEF FInv
<1>0. stamps \in Nat /\ \A i \in Inode : inode[i].stamp \in Nat
  BY FileAssumption DEF FTypeOK
<1>1. ASSUME NEW i \in Inode, Renamed(i) PROVE Stamped'
  BY <1>0, <1>1 DEF Renamed, FTypeOK, Stamped
<1>2. ASSUME NEW i \in Inode, NEW d \in Data, Rewritten(i, d) PROVE Stamped'
  BY <1>0, <1>2 DEF Rewritten, FTypeOK, Stamped
<1>3. CASE Crashes
  BY <1>0, <1>3 DEF Crashes, Stamped
<1>4. CASE UNCHANGED <<inode, stamps>>
  BY <1>4 DEF Stamped
<1>5. QED
  BY <1>1, <1>2, <1>3, <1>4
  DEF FNext, fvars, HashStats, Opens, ReadsChunk, HashCompares, HashObserves, ExportBegins,
      ExportCompletes, Creates, Publishes

LEMMA NextObserved ==
  ASSUME FInv, [FNext]_fvars
  PROVE  DigestOfOneVersion' /\ ComparedWithPrevious'
<1> USE DEF FInv
<1>1. ASSUME NEW r \in Reader, HashObserves(r) PROVE DigestOfOneVersion' /\ ComparedWithPrevious'
  <2> DEFINE o == [digest |-> reader[r].got, was |-> reader[r].was,
                   found |-> CompareToLast(reader[r].got)]
             n == Len(observed)
  <2>1. observed \in Seq(Observation) /\ n \in Nat
    BY DEF FTypeOK
  <2>2. observed' = Append(observed, o)
    BY <1>1 DEF HashObserves
  <2>3. o.digest = {o.was} /\ o.found = CompareToLast(o.digest)
    BY <1>1 DEF HashObserves, At, Hashing
  <2> HIDE DEF o
  <2>4. /\ DOMAIN observed' = 1..(n + 1) /\ DOMAIN observed = 1..n
        /\ \A k \in 1..n : observed'[k] = observed[k]
        /\ observed'[n + 1] = o
    BY <2>1, <2>2
  <2>5. DigestOfOneVersion'
    BY <2>1, <2>3, <2>4 DEF DigestOfOneVersion
  <2>6. ASSUME NEW k \in 1..(n + 1)
        PROVE  observed'[k].found =
                  IF k = 1 THEN "first_recorded"
                  ELSE IF observed'[k - 1].digest = observed'[k].digest THEN "unchanged"
                  ELSE "altered"
    <3>1. CASE k = n + 1
      <4>1. CASE n = 0
        BY <2>1, <2>3, <2>4, <3>1, <4>1 DEF CompareToLast
      <4>2. CASE n # 0
        <5>1. observed # <<>> /\ k # 1 /\ k - 1 = n /\ observed'[n] = observed[n]
          BY <2>1, <2>4, <3>1, <4>2
        <5>2. QED
          BY <2>3, <2>4, <3>1, <5>1 DEF CompareToLast
      <4>3. QED
        BY <4>1, <4>2
    <3>2. CASE k \in 1..n
      <4>1. observed'[k] = observed[k] /\ (k # 1 => observed'[k - 1] = observed[k - 1])
        BY <2>1, <2>4, <3>2
      <4>2. QED
        BY <2>4, <3>2, <4>1 DEF ComparedWithPrevious
    <3>3. QED
      BY <2>1, <3>1, <3>2
  <2>7. QED
    BY <2>4, <2>5, <2>6 DEF ComparedWithPrevious
<1>2. CASE UNCHANGED observed
  BY <1>2 DEF DigestOfOneVersion, ComparedWithPrevious
<1>3. QED
  BY <1>1, <1>2
  DEF FNext, fvars, Renamed, Rewritten, HashStats, Opens, ReadsChunk, HashCompares,
      ExportBegins, ExportCompletes, Creates, Publishes, Crashes

(* Only the thread that is copying touches its copy, and only it stops.    *)
LEMMA NextTarget ==
  ASSUME FInv, [FNext]_fvars
  PROVE  TargetSound'
<1> USE DEF FInv
<1>1. ASSUME UNCHANGED target, target.state = "partial" => reader'[target.by] = reader[target.by]
      PROVE  TargetSound'
  BY <1>1 DEF TargetSound, ExportOfOneVersion, At
<1>2. target.state = "partial" => target.by \in Reader /\ At(target.by, "export", 5)
  BY DEF TargetSound, ExportOfOneVersion
<1>3. ASSUME NEW r \in Reader, UNCHANGED target, ~At(r, "export", 5),
             \A q \in Reader \ {r} : reader'[q] = reader[q]
      PROVE  TargetSound'
  BY <1>1, <1>2, <1>3
<1>4. ASSUME NEW r \in Reader, Creates(r) PROVE TargetSound'
  <2>1. CASE target.state = "absent"
    <3>1. /\ target' = [state |-> "partial", holds |-> reader[r].got, by |-> r]
          /\ UNCHANGED reader /\ At(r, "export", 5)
      BY <1>4, <2>1 DEF Creates
    <3>2. Cardinality(reader[r].got) = 1
      BY <3>1 DEF Exporting
    <3>3. QED
      BY <3>1, <3>2 DEF TargetSound, ExportOfOneVersion, At
  <2>2. CASE target.state # "absent"
    <3>1. UNCHANGED target /\ Rests(r) /\ target.by # r
      BY <1>4, <2>2 DEF Creates
    <3>2. QED
      BY <1>1, <1>2, <3>1, RestsType
  <2>3. QED
    BY <2>1, <2>2
<1>5. ASSUME NEW r \in Reader, NEW ok \in BOOLEAN, Publishes(r, ok) PROVE TargetSound'
  <2>1. target.state = "partial" /\ Cardinality(target.holds) = 1 /\ target \in Target
    BY <1>5 DEF Publishes, TargetSound, ExportOfOneVersion, FTypeOK
  <2>2. target'.state \in {"whole", "absent"} /\ target'.by = NoReader
        /\ (target'.state = "whole" => target'.holds = target.holds)
    BY <1>5, <2>1 DEF Publishes, Target, Absent
  <2>3. QED
    BY <2>1, <2>2, FileAssumption DEF TargetSound, ExportOfOneVersion
<1>6. CASE Crashes
  <2>1. CASE target.state = "partial"
    <3>1. target'.state = "orphan" /\ target'.by = NoReader /\ target'.holds = target.holds
      BY <1>6, <2>1 DEF Crashes, FTypeOK, Target
    <3>2. QED
      BY <2>1, <3>1, FileAssumption DEF TargetSound, ExportOfOneVersion
  <2>2. CASE target.state # "partial"
    BY <1>1, <1>6, <2>2 DEF Crashes
  <2>3. QED
    BY <2>1, <2>2
<1>7. ASSUME NEW r \in Reader, HashStats(r) \/ Opens(r, "hash") \/ ExportBegins(r)
      PROVE  TargetSound'
  <2>1. ~At(r, "export", 5) /\ UNCHANGED target /\ \A q \in Reader \ {r} : reader'[q] = reader[q]
    BY <1>7 DEF HashStats, Opens, ExportBegins, Reads, At, FTypeOK
  <2>2. QED
    BY <1>3, <2>1
<1>8. ASSUME NEW r \in Reader, NEW op \in {"hash", "export"}, ReadsChunk(r, op)
      PROVE  TargetSound'
  <2>1. ~At(r, "export", 5) /\ UNCHANGED target /\ \A q \in Reader \ {r} : reader'[q] = reader[q]
    BY <1>8 DEF ReadsChunk, Reads, At, FTypeOK
  <2>2. QED
    BY <1>3, <2>1
<1>9. ASSUME NEW r \in Reader, HashCompares(r) \/ ExportCompletes(r) \/ HashObserves(r)
      PROVE  TargetSound'
  <2>1. ~At(r, "export", 5) /\ UNCHANGED target /\ \A q \in Reader \ {r} : reader'[q] = reader[q]
    BY <1>9 DEF HashCompares, ExportCompletes, HashObserves, Rests, Reads, At, FTypeOK
  <2>2. QED
    BY <1>3, <2>1
<1>10. CASE UNCHANGED <<target, reader>>
  BY <1>1, <1>10
<1>11. QED
  BY <1>4, <1>5, <1>6, <1>7, <1>8, <1>9, <1>10 DEF FNext, fvars, Renamed, Rewritten

-----------------------------------------------------------------------------
(* The theorems                                                            *)

LEMMA NextFInv == FInv /\ [FNext]_fvars => FInv'
<1> SUFFICES ASSUME FInv, [FNext]_fvars PROVE FInv'
  OBVIOUS
<1>1. \A r \in Reader : Turn(r)'
  BY NextThreads
<1>2. QED
  BY <1>1, NextFTypeOK, NextStamped, NextObserved, NextTarget DEF FInv, Turn

LEMMA AlwaysFInv == FSpec => []FInv
  BY InitFInv, NextFInv, PTL DEF FSpec

(* Every variable keeps the shape the code gives it.                       *)
THEOREM FileReadsTypes == FSpec => []FTypeOK
<1>1. FInv => FTypeOK
  BY DEF FInv
<1>2. QED
  BY <1>1, AlwaysFInv, PTL

(* A digest on record, the verdict beside it and an exported copy are of   *)
(* one version of the file, whoever writes or moves it meanwhile           *)
(* (hash_file, observe_hash, encrypt_file).                                *)
THEOREM FileReadsHold == FSpec => []ReadsHold
<1>1. FInv => ReadsHold
  BY DEF FInv, TargetSound, ReadsHold
<1>2. QED
  BY <1>1, AlwaysFInv, PTL

(* An exported copy is never replaced or removed by another export         *)
(* (_output, _publish).                                                    *)
THEOREM ExportsKept == FSpec => ExportKept
<1>1. ASSUME FInv, FNext, target.state = "whole" PROVE target' = target
  <2>1. target.by \notin Reader
    BY <1>1 DEF FInv, TargetSound
  <2>2. QED
    BY <1>1, <2>1
    DEF FNext, Renamed, Rewritten, HashStats, Opens, ReadsChunk, HashCompares, HashObserves,
        ExportBegins, ExportCompletes, Creates, Publishes, Crashes
<1>2. FInv /\ [FNext]_fvars => [target.state = "whole" => target' = target]_fvars
  BY <1>1
<1>3. QED
  BY <1>2, AlwaysFInv, PTL DEF FSpec, ExportKept

-----------------------------------------------------------------------------
(* Threads                                                                 *)

(* Two activities that keep each other in a thread.                        *)
Tied(i, j) ==
    /\ Rare(i) \cap Rare(j) # {}
    /\ Near(considered[i], considered[j]) \/ considered[i].installs \/ considered[j].installs

(* A pair that has been tried is in one thread, or stays apart for good.   *)
Settled(i, j) ==
    \/ Link(i, j) = NoReason \/ root[i] = root[j]
    \/ Size(root[i]) + Size(root[j]) > MaxMembers
Tried == \A t \in done : \A i, j \in With(t) : i < j => <<i, j>> \in pairs \/ Settled(i, j)

Capped == \A k \in Indices : Size(k) <= 1 \/ Size(k) <= MaxMembers
Explained ==
    \A k \in Indices : Members(k) # {} /\ reason[k] # NoReason =>
        \E i, j \in Members(k) : i < j /\ reason[k] = Link(i, j)
Reasoned == \A k \in Indices : Size(k) > 1 => reason[k] # NoReason
InCompany ==
    \A k \in Indices : Size(k) > 1 => \A i \in Members(k) : \E j \in Members(k) \ {i} : Tied(i, j)

TInv == TTypeOK /\ Tried /\ Capped /\ Explained /\ Reasoned /\ InCompany

-----------------------------------------------------------------------------
(* Members of threads                                                      *)

LEMMA Counted ==
  ASSUME TTypeOK
  PROVE  /\ Indices \subseteq Nat /\ IsFiniteSet(Indices)
         /\ \A k : /\ Members(k) \subseteq Indices /\ IsFiniteSet(Members(k))
                   /\ Size(k) \in Nat
         /\ \A i \in Indices : i \in Members(root[i])
<1>1. considered \in Seq(Thing) /\ Indices = 1..Len(considered) /\ Len(considered) \in Nat
  BY DEF TTypeOK, Indices
<1>2. 1 \in Int /\ Len(considered) \in Int
  BY <1>1
<1>3. IsFiniteSet(1..Len(considered))
  BY <1>2, FS_Interval
<1>4. IsFiniteSet(Indices) /\ Indices \subseteq Nat
  BY <1>1, <1>3
<1>5. ASSUME NEW k PROVE Members(k) \subseteq Indices /\ IsFiniteSet(Members(k)) /\ Size(k) \in Nat
  <2>1. Members(k) \in SUBSET Indices
    BY DEF Members
  <2>2. IsFiniteSet(Members(k))
    BY <1>4, <2>1, FS_Subset
  <2>3. QED
    BY <2>1, <2>2, FS_CardinalityType DEF Size
<1>6. \A i \in Indices : i \in Members(root[i])
  BY DEF Members
<1>7. QED
  BY <1>4, <1>5, <1>6

LEMMA Alone ==
  ASSUME TTypeOK, NEW k, NEW i \in Members(k), NEW j \in Members(k), Size(k) <= 1
  PROVE  i = j
<1>1. /\ IsFiniteSet(Members(k)) /\ Size(k) \in Nat
  BY Counted
<1>2. Cardinality(Members(k)) # 0
  BY <1>1, FS_EmptySet
<1>3. Cardinality(Members(k)) = 1
  BY <1>1, <1>2 DEF Size
<1>4. QED
  BY <1>1, <1>3, FS_Singleton

LEMMA LinkMeans ==
  ASSUME TTypeOK, NEW i \in Indices, NEW j \in Indices
  PROVE  /\ Link(i, j) \in [token : Nat, by : {"none", "near", "install"}]
         /\ Link(i, j) # NoReason => Tied(i, j) /\ Tied(j, i)
                                     /\ \E t \in Tokens : i \in With(t) /\ j \in With(t)
<1>1. PICK shared : shared = Rare(i) \cap Rare(j)
  OBVIOUS
<1>2. /\ considered[i] \in Thing /\ considered[j] \in Thing
      /\ shared \subseteq Nat
  BY <1>1, ThreadsAssumption DEF TTypeOK, Indices, Rare
<1>3. shared # {} => Min(shared) \in shared
  BY <1>2, LeastOf
<1>4. Link(i, j) \in [token : Nat, by : {"none", "near", "install"}]
  BY <1>1, <1>2, <1>3 DEF Link, NoReason
<1>5. ASSUME Near(considered[i], considered[j]) PROVE Near(considered[j], considered[i])
  <2>1. \A a, b \in Nat : Distance(a, b) = Distance(b, a)
    BY DEF Distance
  <2>2. \A k \in {i, j} : Ends(considered[k].times) \subseteq Nat
    <3>1. ASSUME NEW k \in {i, j} PROVE Ends(considered[k].times) \subseteq Nat
      <4>1. PICK T : T = considered[k].times
        OBVIOUS
      <4>2. T \in SUBSET Nat /\ IsFiniteSet(T)
        BY <1>2, <4>1, ThreadsAssumption
      <4>3. T # {} => Min(T) \in T /\ Max(T) \in T
        BY <4>2, LeastOf, GreatestOf
      <4>4. QED
        BY <4>1, <4>2, <4>3 DEF Ends
    <3>2. QED
      BY <3>1
  <2>3. considered[i].lines \subseteq Nat /\ considered[j].lines \subseteq Nat
    BY <1>2, ThreadsAssumption
  <2>4. CASE \E a \in considered[i].lines, b \in considered[j].lines : Distance(a, b) <= LineGap
    BY <2>1, <2>3, <2>4 DEF Near
  <2>5. CASE \E a \in Ends(considered[i].times), b \in Ends(considered[j].times) : Distance(a, b) <= TimeGap
    BY <2>1, <2>2, <2>5 DEF Near
  <2>6. QED
    BY <1>5, <2>4, <2>5 DEF Near
<1>6. ASSUME Link(i, j) # NoReason
      PROVE  Tied(i, j) /\ Tied(j, i) /\ \E t \in Tokens : i \in With(t) /\ j \in With(t)
  <2>1. shared # {}
    BY <1>1, <1>6 DEF Link
  <2>2. Near(considered[i], considered[j]) \/ considered[i].installs \/ considered[j].installs
    BY <1>1, <1>6, <2>1 DEF Link
  <2>3. PICK t \in shared : TRUE
    BY <2>1
  <2>4. t \in Tokens /\ i \in With(t) /\ j \in With(t)
    BY <1>1, <2>3 DEF Tokens, With
  <2>5. QED
    BY <1>1, <1>5, <2>1, <2>2, <2>4 DEF Tied
<1>7. QED
  BY <1>4, <1>6

-----------------------------------------------------------------------------
(* Steps                                                                   *)

LEMMA SameActivities ==
  ASSUME UNCHANGED considered
  PROVE  /\ Indices' = Indices /\ Tokens' = Tokens
         /\ \A t : With(t)' = With(t)
         /\ \A i, j : Link(i, j)' = Link(i, j) /\ Tied(i, j)' = Tied(i, j)
<1>1. Indices' = Indices
  BY DEF Indices
<1>2. \A t : Frequency(t)' = Frequency(t)
  BY <1>1 DEF Frequency
<1>3. \A i : Rare(i)' = Rare(i)
  BY <1>2 DEF Rare
<1>4. \A t : With(t)' = With(t)
  BY <1>1, <1>3 DEF With
<1>5. Tokens' = Tokens
  BY <1>1, <1>3 DEF Tokens
<1>6. \A i, j : Tied(i, j)' = Tied(i, j)
  BY <1>3 DEF Tied
<1>7. \A i, j : Link(i, j)' = Link(i, j)
  BY <1>3 DEF Link
<1>8. QED
  BY <1>1, <1>4, <1>5, <1>6, <1>7

LEMMA SameThreads ==
  ASSUME UNCHANGED <<considered, root, reason>>
  PROVE  /\ \A k : Members(k)' = Members(k) /\ Size(k)' = Size(k)
         /\ \A i, j : Settled(i, j)' = Settled(i, j)
<1>1. \A k : Members(k)' = Members(k)
  BY DEF Members, Indices
<1>2. \A k : Size(k)' = Size(k)
  BY <1>1 DEF Size
<1>3. QED
  BY <1>1, <1>2, SameActivities DEF Settled

(* When a pair joins two threads, one takes the members of the other.      *)
LEMMA Joined ==
  ASSUME TTypeOK, NEW i \in Indices, NEW j \in Indices, Fits(i, j), Joins(i, j),
         UNCHANGED considered, NEW l, NEW r, l = root[i], r = root[j]
  PROVE  /\ Members(l)' = Members(l) \cup Members(r)
         /\ Members(r)' = {}
         /\ \A k : k # l /\ k # r => Members(k)' = Members(k)
         /\ Size(l)' = Size(l) + Size(r)
         /\ Size(r)' = 0
         /\ \A k : k # l /\ k # r => Size(k)' = Size(k)
<1>2. l # r /\ Indices' = Indices /\ root' = [k \in Indices |-> IF root[k] = r THEN l ELSE root[k]]
  BY SameActivities DEF Fits, Joins
<1>3. /\ Members(l)' = Members(l) \cup Members(r)
      /\ Members(r)' = {}
      /\ \A k : k # l /\ k # r => Members(k)' = Members(k)
  BY <1>2 DEF Members
<1>4. Members(l) \cap Members(r) = {}
  BY <1>2 DEF Members
<1>5. PICK L, R : L = Members(l) /\ R = Members(r)
  OBVIOUS
<1>6. IsFiniteSet(L) /\ IsFiniteSet(R) /\ Cardinality(L) \in Nat /\ Cardinality(R) \in Nat
  BY <1>5, Counted, FS_CardinalityType
<1>7. Cardinality(L \cup R) = Cardinality(L) + Cardinality(R)
  <2>1. Cardinality(L \cap R) = 0
    BY <1>4, <1>5, FS_EmptySet
  <2>2. Cardinality(L \cup R) = Cardinality(L) + Cardinality(R) - Cardinality(L \cap R)
    BY <1>6, FS_Union
  <2>3. QED
    BY <1>6, <2>1, <2>2
<1>8. Size(l)' = Size(l) + Size(r)
  BY <1>3, <1>5, <1>7 DEF Size
<1>9. Size(r)' = 0
  BY <1>3, FS_EmptySet DEF Size
<1>10. \A k : k # l /\ k # r => Size(k)' = Size(k)
  BY <1>3 DEF Size
<1>11. QED
  BY <1>3, <1>8, <1>9, <1>10

(* What is settled stays so.                                               *)
LEMMA SettledStays ==
  ASSUME TTypeOK, NEW i \in Indices, NEW j \in Indices, Fits(i, j), Joins(i, j),
         UNCHANGED considered, NEW m \in Indices, NEW n \in Indices, Settled(m, n)
  PROVE  Settled(m, n)'
<1>1. PICK l, r, a, b : l = root[i] /\ r = root[j] /\ a = root[m] /\ b = root[n]
  OBVIOUS
<1>2. /\ l # r /\ Indices' = Indices
      /\ root'[m] = (IF a = r THEN l ELSE a) /\ root'[n] = (IF b = r THEN l ELSE b)
  BY <1>1, SameActivities DEF Fits, Joins
<1>3. CASE Link(m, n) = NoReason
  BY <1>3, SameActivities DEF Settled, NoReason
<1>4. CASE a = b
  BY <1>1, <1>2, <1>4 DEF Settled
<1>5. CASE a # b /\ Size(a) + Size(b) > MaxMembers
  <2>1. /\ Size(l)' = Size(l) + Size(r) /\ Size(r)' = 0
        /\ \A k : k # l /\ k # r => Size(k)' = Size(k)
    BY <1>1, Joined
  <2>2. \A k : Size(k) \in Nat
    BY Counted
  <2>3. MaxMembers \in Nat
    BY ThreadsAssumption
  <2>4. PICK size : size = [k \in {a, b, l, r} |-> Size(k)]
    OBVIOUS
  <2>5. CASE a = r /\ b = l
    BY <1>2, <2>5 DEF Settled
  <2>6. CASE a = l /\ b = r
    BY <1>2, <2>6 DEF Settled
  <2>7. CASE a \in {l, r} /\ b \notin {l, r}
    <3>1. root'[m] = l /\ root'[n] = b
      BY <1>2, <2>7
    <3>2. Size(l)' + Size(b)' > MaxMembers
      BY <1>5, <2>1, <2>2, <2>3, <2>7
    <3>3. (Size(root[m]) + Size(root[n]) > MaxMembers)'
      BY <3>1, <3>2 DEF Size, Members
    <3>4. QED
      BY <3>3 DEF Settled
  <2>8. CASE b \in {l, r} /\ a \notin {l, r}
    <3>1. root'[m] = a /\ root'[n] = l
      BY <1>2, <2>8
    <3>2. Size(a)' + Size(l)' > MaxMembers
      BY <1>5, <2>1, <2>2, <2>3, <2>8
    <3>3. (Size(root[m]) + Size(root[n]) > MaxMembers)'
      BY <3>1, <3>2 DEF Size, Members
    <3>4. QED
      BY <3>3 DEF Settled
  <2>9. CASE a \notin {l, r} /\ b \notin {l, r}
    <3>1. root'[m] = a /\ root'[n] = b
      BY <1>2, <2>9
    <3>2. Size(a)' + Size(b)' > MaxMembers
      BY <1>5, <2>1, <2>2, <2>3, <2>9
    <3>3. (Size(root[m]) + Size(root[n]) > MaxMembers)'
      BY <3>1, <3>2 DEF Size, Members
    <3>4. QED
      BY <3>3 DEF Settled
  <2>10. QED
    BY <1>5, <2>5, <2>6, <2>7, <2>8, <2>9
<1>6. QED
  BY <1>1, <1>3, <1>4, <1>5 DEF Settled

LEMMA InitTInv == TInit => TInv
<1> SUFFICES ASSUME TInit PROVE TInv
  OBVIOUS
<1>1. considered \in Seq(Thing)
  <2>1. considered \in SeqOf(Thing, MaxThings) /\ MaxThings \in Nat
    BY ThreadsAssumption DEF TInit
  <2>2. PICK n \in 0..MaxThings : considered \in [1..n -> Thing]
    BY <2>1 DEF SeqOf
  <2>3. QED
    BY <2>1, <2>2
<1>2. root \in [Indices -> Indices] /\ \A k \in Indices : root[k] = k
  BY DEF TInit
<1>3. reason \in [Indices -> [token : Nat, by : {"none", "near", "install"}]]
      /\ \A k \in Indices : reason[k] = NoReason
  BY DEF TInit, NoReason
<1>4. TTypeOK
  BY <1>1, <1>2, <1>3 DEF TTypeOK, TInit
<1>5. ASSUME NEW k \in Indices PROVE Size(k) = 1
  <2>1. Members(k) = {k}
    BY <1>2 DEF Members
  <2>2. QED
    BY <2>1, FS_Singleton DEF Size
<1>6. Tried
  BY DEF Tried, TInit
<1>7. Capped /\ Explained /\ Reasoned /\ InCompany
  BY <1>3, <1>5 DEF Capped, Explained, Reasoned, InCompany
<1>8. QED
  BY <1>4, <1>6, <1>7 DEF TInv

(* As long as no thread changes, neither does what is said of threads.     *)
LEMMA ThreadsStay ==
  ASSUME TInv, UNCHANGED <<considered, root, reason>>
  PROVE  Capped' /\ Explained' /\ Reasoned' /\ InCompany'
<1>1. /\ Indices' = Indices /\ reason' = reason
      /\ \A k : Members(k)' = Members(k) /\ Size(k)' = Size(k)
      /\ \A i, j : Link(i, j)' = Link(i, j) /\ Tied(i, j)' = Tied(i, j)
  BY SameThreads, SameActivities
<1>2. Capped'
  BY <1>1 DEF TInv, Capped
<1>3. Explained'
  BY <1>1 DEF TInv, Explained, NoReason
<1>4. Reasoned'
  BY <1>1 DEF TInv, Reasoned, NoReason
<1>5. InCompany'
  BY <1>1 DEF TInv, InCompany
<1>6. QED
  BY <1>2, <1>3, <1>4, <1>5

LEMMA TakesTokenTInv ==
  ASSUME TInv, NEW t \in Tokens, TakesToken(t)
  PROVE  TInv'
<1>1. UNCHANGED <<considered, root, reason>> /\ pairs = {} /\ done' = done \cup {t}
      /\ pairs' = {p \in With(t) \X With(t) : p[1] < p[2]}
  BY DEF TakesToken
<1>2. /\ Indices' = Indices /\ Tokens' = Tokens /\ \A u : With(u)' = With(u)
      /\ \A i, j : Settled(i, j)' = Settled(i, j)
  BY <1>1, SameThreads, SameActivities
<1>3. TTypeOK'
  <2>1. With(t) \subseteq Indices
    BY DEF With
  <2>2. QED
    BY <1>1, <1>2, <2>1 DEF TInv, TTypeOK
<1>4. Tried'
  <2>1. ASSUME NEW u \in done', NEW i \in With(u), NEW j \in With(u), i < j
        PROVE  <<i, j>> \in pairs' \/ Settled(i, j)
    <3>1. CASE u = t
      BY <1>1, <2>1, <3>1
    <3>2. CASE u \in done
      BY <1>1, <2>1, <3>2 DEF TInv, Tried
    <3>3. QED
      BY <1>1, <3>1, <3>2
  <2>2. QED
    BY <1>2, <2>1 DEF Tried
<1>5. QED
  BY <1>1, <1>3, <1>4, ThreadsStay DEF TInv

LEMMA TriedStays ==
  ASSUME TInv, NEW i \in Indices, NEW j \in Indices, UNCHANGED <<considered, done>>,
         pairs' = pairs \ {<<i, j>>}, Settled(i, j)',
         \A m, n \in Indices : Settled(m, n) => Settled(m, n)'
  PROVE  Tried'
<1>1. \A u : With(u)' = With(u)
  BY SameActivities
<1>2. ASSUME NEW u \in done, NEW m \in With(u), NEW n \in With(u), m < n
      PROVE  <<m, n>> \in pairs' \/ Settled(m, n)'
  <2>1. m \in Indices /\ n \in Indices
    BY DEF With
  <2>2. CASE m = i /\ n = j
    BY <2>2
  <2>3. CASE <<m, n>> # <<i, j>> /\ <<m, n>> \in pairs
    BY <2>3
  <2>4. CASE Settled(m, n)
    BY <2>1, <2>4
  <2>5. QED
    BY <1>2, <2>2, <2>3, <2>4 DEF TInv, Tried
<1>3. QED
  BY <1>1, <1>2 DEF Tried

LEMMA PassesTInv ==
  ASSUME TInv, NEW i \in Indices, NEW j \in Indices, TriesPair(i, j),
         ~(Fits(i, j) /\ Link(i, j) # NoReason)
  PROVE  TInv'
<1>1. /\ UNCHANGED <<considered, done, root, reason>> /\ pairs' = pairs \ {<<i, j>>}
  BY DEF TriesPair
<1>2. /\ Indices' = Indices /\ Tokens' = Tokens
      /\ \A m, n : Settled(m, n)' = Settled(m, n)
  BY <1>1, SameThreads, SameActivities
<1>3. TTypeOK'
  BY <1>1, <1>2 DEF TInv, TTypeOK
<1>4. Settled(i, j)
  <2>1. Size(root[i]) \in Nat /\ Size(root[j]) \in Nat /\ MaxMembers \in Nat
    BY Counted, ThreadsAssumption DEF TInv
  <2>2. QED
    BY <2>1 DEF Fits, Settled
<1>5. Tried'
  BY <1>1, <1>2, <1>4, TriedStays
<1>6. QED
  BY <1>1, <1>3, <1>5, ThreadsStay DEF TInv

LEMMA JoinsTInv ==
  ASSUME TInv, NEW i \in Indices, NEW j \in Indices, TriesPair(i, j),
         Fits(i, j), Link(i, j) # NoReason
  PROVE  TInv'
<1>1. /\ UNCHANGED <<considered, done>> /\ pairs' = pairs \ {<<i, j>>} /\ Joins(i, j) /\ TTypeOK
      /\ i < j
  <2>1. <<i, j>> \in pairs
    BY DEF TriesPair
  <2>2. i < j
    BY <2>1 DEF TInv, TTypeOK
  <2>3. QED
    BY <2>2 DEF TriesPair, TInv
<1>2. PICK l \in Indices, r \in Indices : l = root[i] /\ r = root[j]
  BY <1>1 DEF TTypeOK
<1>3. /\ Indices' = Indices /\ Tokens' = Tokens
      /\ \A m, n : Link(m, n)' = Link(m, n) /\ Tied(m, n)' = Tied(m, n)
  BY <1>1, SameActivities
<1>4. l # r /\ Size(l) + Size(r) <= MaxMembers
  BY <1>2 DEF Fits
<1>5. /\ Members(l)' = Members(l) \cup Members(r) /\ Members(r)' = {}
      /\ \A k : k # l /\ k # r => Members(k)' = Members(k)
      /\ Size(l)' = Size(l) + Size(r) /\ Size(r)' = 0
      /\ \A k : k # l /\ k # r => Size(k)' = Size(k)
  BY <1>1, <1>2, Joined
<1>6. i \in Members(l) /\ j \in Members(r) /\ \A k : Members(k) \subseteq Indices /\ Size(k) \in Nat
  BY <1>1, <1>2, Counted
<1>7. PICK why : why = ReasonKept(i, j)
  OBVIOUS
<1>8. /\ why = IF reason[l] = NoReason THEN Link(i, j) ELSE reason[l]
      /\ why \in [token : Nat, by : {"none", "near", "install"}] /\ why # NoReason
  BY <1>1, <1>2, <1>7, LinkMeans DEF ReasonKept, TTypeOK
<1>9. reason' = [reason EXCEPT ![l] = why]
  BY <1>1, <1>2, <1>7 DEF Joins
<1>10. /\ reason'[l] = why /\ \A k \in Indices : k # l => reason'[k] = reason[k]
  BY <1>1, <1>9 DEF TTypeOK
<1>11. TTypeOK'
  <2>1. root' \in [Indices -> Indices]
    BY <1>1, <1>2 DEF Joins, TTypeOK
  <2>2. reason' \in [Indices -> [token : Nat, by : {"none", "near", "install"}]]
    BY <1>1, <1>8, <1>9 DEF TTypeOK
  <2>3. QED
    BY <1>1, <1>3, <2>1, <2>2 DEF TTypeOK
<1>12. Tried'
  <2>1. Settled(i, j)'
    <3>1. root'[i] = l /\ root'[j] = l
      BY <1>1, <1>2 DEF Joins
    <3>2. QED
      BY <3>1 DEF Settled
  <2>2. \A m, n \in Indices : Settled(m, n) => Settled(m, n)'
    BY <1>1, SettledStays
  <2>3. QED
    BY <1>1, <2>1, <2>2, TriedStays
<1>13. Capped'
  BY <1>3, <1>4, <1>5, <1>6 DEF TInv, Capped
<1>14. Explained'
  <2>1. ASSUME NEW k \in Indices, Members(k)' # {}, reason'[k] # NoReason
        PROVE  \E m, n \in Members(k)' : m < n /\ reason'[k] = Link(m, n)
    <3>1. CASE k = l /\ reason[l] = NoReason
      BY <1>1, <1>5, <1>6, <1>8, <1>10, <3>1
    <3>2. CASE k = l /\ reason[l] # NoReason
      <4>1. PICK m, n \in Members(l) : m < n /\ reason[l] = Link(m, n)
        BY <1>6, <3>2 DEF TInv, Explained
      <4>2. QED
        BY <1>5, <1>8, <1>10, <3>2, <4>1
    <3>3. CASE k # l
      BY <1>5, <1>10, <2>1, <3>3 DEF TInv, Explained
    <3>4. QED
      BY <3>1, <3>2, <3>3
  <2>2. QED
    BY <1>3, <2>1 DEF Explained, NoReason
<1>15. Reasoned'
  <2>1. ASSUME NEW k \in Indices, Size(k)' > 1 PROVE reason'[k] # NoReason
    BY <1>5, <1>8, <1>10, <2>1 DEF TInv, Reasoned
  <2>2. QED
    BY <1>3, <2>1 DEF Reasoned, NoReason
<1>16. InCompany'
  <2>1. Tied(i, j) /\ Tied(j, i) /\ i # j
    BY <1>1, <1>4, <1>2, LinkMeans
  <2>2. ASSUME NEW k \in {l, r}, NEW m \in Members(k)
        PROVE  \E n \in Members(l) \cup Members(r) : n # m /\ Tied(m, n)
    <3>1. CASE Size(k) > 1
      <4>1. PICK n \in Members(k) \ {m} : Tied(m, n)
        BY <3>1 DEF TInv, InCompany
      <4>2. QED
        BY <4>1
    <3>2. CASE Size(k) <= 1
      <4>1. k = l => m = i
        BY <1>1, <1>6, <3>2, Alone
      <4>2. k = r => m = j
        BY <1>1, <1>6, <3>2, Alone
      <4>3. QED
        BY <1>6, <2>1, <4>1, <4>2
    <3>3. QED
      BY <1>6, <3>1, <3>2
  <2>3. ASSUME NEW k \in Indices, Size(k)' > 1, NEW m \in Members(k)'
        PROVE  \E n \in Members(k)' \ {m} : Tied(m, n)
    <3>1. CASE k = l
      BY <1>5, <2>2, <2>3, <3>1
    <3>2. CASE k # l /\ k # r
      BY <1>5, <2>3, <3>2 DEF TInv, InCompany
    <3>3. QED
      BY <1>5, <2>3, <3>1, <3>2
  <2>4. QED
    BY <1>3, <2>3 DEF InCompany
<1>17. QED
  BY <1>11, <1>12, <1>13, <1>14, <1>15, <1>16 DEF TInv

LEMMA NextTInv == TInv /\ [TNext]_tvars => TInv'
<1> SUFFICES ASSUME TInv, [TNext]_tvars PROVE TInv'
  OBVIOUS
<1>1. CASE \E t \in Tokens : TakesToken(t)
  BY <1>1, TakesTokenTInv
<1>2. ASSUME NEW i \in Indices, NEW j \in Indices, TriesPair(i, j) PROVE TInv'
  BY <1>2, JoinsTInv, PassesTInv
<1>3. CASE UNCHANGED tvars
  <2>1. UNCHANGED <<considered, root, reason, done, pairs>>
    BY <1>3 DEF tvars
  <2>2. /\ Indices' = Indices /\ Tokens' = Tokens /\ \A u : With(u)' = With(u)
        /\ \A i, j : Settled(i, j)' = Settled(i, j)
    BY <2>1, SameThreads, SameActivities
  <2>3. TTypeOK'
    BY <2>1, <2>2 DEF TInv, TTypeOK
  <2>4. Tried'
    BY <2>1, <2>2 DEF TInv, Tried
  <2>5. QED
    BY <2>1, <2>3, <2>4, ThreadsStay DEF TInv
<1>4. QED
  BY <1>1, <1>2, <1>3 DEF TNext

LEMMA SplitsAtCap == TInv => SplitOnlyAtCap
<1> SUFFICES ASSUME TInv PROVE SplitOnlyAtCap
  OBVIOUS
<1>1. TTypeOK
  BY DEF TInv
<1>2. ASSUME NEW C \in Clusters PROVE Cardinality(C) <= MaxMembers
  <2>1. PICK k \in Indices : Size(k) > 1 /\ C = Members(k)
    BY DEF Clusters
  <2>2. Size(k) \in Nat /\ MaxMembers \in Nat
    BY <1>1, Counted, ThreadsAssumption
  <2>3. Size(k) <= MaxMembers
    BY <2>1, <2>2 DEF TInv, Capped
  <2>4. QED
    BY <2>1, <2>3 DEF Size
<1>3. ASSUME Built, NEW i \in Indices, NEW j \in Indices, i < j, Link(i, j) # NoReason
      PROVE  root[i] = root[j] \/ Size(root[i]) + Size(root[j]) > MaxMembers
  <2>1. PICK t \in Tokens : i \in With(t) /\ j \in With(t)
    BY <1>1, <1>3, LinkMeans
  <2>2. Settled(i, j)
    BY <1>3, <2>1 DEF Built, TInv, Tried
  <2>3. QED
    BY <1>3, <2>2 DEF Settled
<1>4. QED
  BY <1>2, <1>3 DEF SplitOnlyAtCap

LEMMA ReasonsHold == TInv => ReasonHolds
<1> SUFFICES ASSUME TInv, NEW C \in Clusters
             PROVE  /\ \E i, j \in C : /\ i < j /\ reason[root[i]] = Link(i, j)
                                       /\ reason[root[i]] # NoReason
                    /\ \A i \in C : \E j \in C \ {i} : Tied(i, j)
  BY DEF ReasonHolds, Tied
<1>1. TTypeOK
  BY DEF TInv
<1>2. PICK k \in Indices : Size(k) > 1 /\ C = Members(k)
  BY DEF Clusters
<1>3. \A i \in C : root[i] = k
  BY <1>2 DEF Members
<1>4. C # {}
  BY <1>2, FS_EmptySet DEF Size
<1>5. reason[k] # NoReason
  BY <1>2 DEF TInv, Reasoned
<1>6. \E i, j \in C : i < j /\ reason[k] = Link(i, j)
  BY <1>2, <1>4, <1>5 DEF TInv, Explained
<1>7. \A i \in C : \E j \in C \ {i} : Tied(i, j)
  BY <1>2 DEF TInv, InCompany
<1>8. QED
  BY <1>3, <1>5, <1>6, <1>7

-----------------------------------------------------------------------------
(* What is printed                                                         *)

LEMMA ClusterFacts ==
  ASSUME TTypeOK
  PROVE  /\ IsFiniteSet(Clusters)
         /\ \A C \in Clusters : ThreadRank(C) \in 0..2 /\ Weight(C) \in Nat /\ Min(C) \in Nat
         /\ \A C, D \in Clusters : Min(C) = Min(D) => C = D
<1>1. IsFiniteSet(Indices) /\ Indices \subseteq Nat
  BY Counted
<1>2. ASSUME NEW C \in Clusters
      PROVE  /\ C \in SUBSET Indices /\ C # {} /\ IsFiniteSet(C) /\ Min(C) \in C
             /\ \E k : C = Members(k)
  <2>1. PICK k \in Indices : Size(k) > 1 /\ C = Members(k)
    BY DEF Clusters
  <2>2. C # {}
    BY <2>1, FS_EmptySet DEF Size
  <2>3. C \in SUBSET Indices /\ IsFiniteSet(C)
    BY <2>1, Counted
  <2>4. C \in SUBSET Nat
    BY <1>1, <2>3
  <2>5. QED
    BY <2>1, <2>2, <2>3, <2>4, LeastOf
<1>3. IsFiniteSet(Clusters)
  <2>1. Clusters \in SUBSET SUBSET Indices
    BY <1>2
  <2>2. IsFiniteSet(SUBSET Indices)
    BY <1>1, FS_SUBSET
  <2>3. QED
    BY <2>1, <2>2, FS_Subset
<1>4. ASSUME NEW C \in Clusters PROVE ThreadRank(C) \in 0..2
  <2>1. PICK R : R = {considered[i].rank : i \in C}
    OBVIOUS
  <2>2. \A i \in C : considered[i] \in Thing
    BY <1>2 DEF TTypeOK, Indices
  <2>3. R \subseteq 0..2 /\ R # {}
    BY <1>2, <2>1, <2>2, ThreadsAssumption
  <2>4. R \in SUBSET Nat
    BY <2>3
  <2>5. Min(R) \in R
    BY <2>3, <2>4, LeastOf
  <2>6. QED
    BY <2>1, <2>3, <2>5 DEF ThreadRank
<1>5. ASSUME NEW C \in Clusters PROVE Weight(C) \in Nat
  <2>1. PICK piece : piece = [i \in C |-> {i} \X (1..considered[i].records)]
    OBVIOUS
  <2>2. PICK P : P = {piece[i] : i \in C}
    OBVIOUS
  <2>3. IsFiniteSet(P)
    <3>1. IsFiniteSet(C) /\ DOMAIN piece = C
      BY <1>2, <2>1
    <3>2. QED
      BY <2>2, <3>1, ImageFinite
  <2>4. ASSUME NEW i \in C PROVE IsFiniteSet(piece[i])
    <3>1. considered[i].records \in Nat
      <4>1. considered[i] \in Thing
        BY <1>2 DEF TTypeOK, Indices
      <4>2. QED
        BY <4>1, ThreadsAssumption
    <3>2. PICK n : n = considered[i].records
      OBVIOUS
    <3>3. 1 \in Int /\ n \in Int
      BY <3>1, <3>2
    <3>4. IsFiniteSet(1..n)
      BY <3>3, FS_Interval
    <3>5. IsFiniteSet({i})
      BY FS_Singleton
    <3>6. IsFiniteSet({i} \X (1..n))
      BY <3>4, <3>5, FS_Product
    <3>7. QED
      BY <2>1, <3>2, <3>6
  <2>5. IsFiniteSet(UNION P)
    BY <2>2, <2>3, <2>4, FS_UNION
  <2>6. UNION P = UNION {{i} \X (1..considered[i].records) : i \in C}
    <3>1. P = {{i} \X (1..considered[i].records) : i \in C}
      BY <2>1, <2>2
    <3>2. QED
      BY <3>1
  <2>7. QED
    BY <2>5, <2>6, FS_CardinalityType DEF Weight
<1>6. ASSUME NEW C \in Clusters, NEW D \in Clusters, Min(C) = Min(D) PROVE C = D
  <2>1. PICK k, l : C = Members(k) /\ D = Members(l)
    BY <1>2
  <2>2. Min(C) \in C /\ Min(C) \in D
    BY <1>2, <1>6
  <2>3. k = l
    BY <2>1, <2>2 DEF Members
  <2>4. QED
    BY <2>1, <2>3
<1>7. QED
  BY <1>1, <1>2, <1>3, <1>4, <1>5, <1>6

LEMMA OutranksOrders ==
  ASSUME TTypeOK, NEW R, R = {p \in Clusters \X Clusters : Outranks(p[1], p[2])}
  PROVE  /\ Orders(Clusters, R)
         /\ \A C, D \in Clusters : <<C, D>> \in R => ThreadRank(C) <= ThreadRank(D)
<1>1. \A C, D \in Clusters : <<C, D>> \in R <=> Outranks(C, D)
  OBVIOUS
<1>2. PICK rank : rank = [C \in Clusters |-> ThreadRank(C)]
  OBVIOUS
<1>3. PICK weight : weight = [C \in Clusters |-> Weight(C)]
  OBVIOUS
<1>4. PICK first : first = [C \in Clusters |-> Min(C)]
  OBVIOUS
<1>5. /\ \A C \in Clusters : rank[C] \in Int /\ weight[C] \in Int /\ first[C] \in Int
      /\ \A C, D \in Clusters : first[C] = first[D] => C = D
  BY <1>2, <1>3, <1>4, ClusterFacts
<1>6. \A C, D \in Clusters : <<C, D>> \in R <=>
          \/ rank[C] < rank[D]
          \/ rank[C] = rank[D] /\ weight[C] > weight[D]
          \/ rank[C] = rank[D] /\ weight[C] = weight[D] /\ first[C] < first[D]
  BY <1>1, <1>2, <1>3, <1>4 DEF Outranks
<1>7. \A C \in Clusters : <<C, C>> \notin R
  BY <1>5, <1>6
<1>8. ASSUME NEW C \in Clusters, NEW D \in Clusters, NEW E \in Clusters,
             <<C, D>> \in R, <<D, E>> \in R
      PROVE  <<C, E>> \in R
  BY <1>5, <1>6, <1>8
<1>9. ASSUME NEW C \in Clusters, NEW D \in Clusters
      PROVE  C = D \/ <<C, D>> \in R \/ <<D, C>> \in R
  BY <1>5, <1>6
<1>10. \A C, D \in Clusters : <<C, D>> \in R => ThreadRank(C) <= ThreadRank(D)
  <2>1. \A C, D \in Clusters : <<C, D>> \in R => rank[C] <= rank[D]
    BY <1>5, <1>6
  <2>2. QED
    BY <1>2, <2>1
<1>11. QED
  BY <1>7, <1>8, <1>9, <1>10 DEF Orders

LEMMA UrgentPrinted == TInv => UrgentThreadsFirst
<1> SUFFICES ASSUME TInv,
                    NEW told, told = ToSet(Reported(ThreadList)),
                    NEW C \in Clusters, ThreadRank(C) < 2, C \notin told
             PROVE  /\ Cardinality(told) >= Min({MaxReported, MaxThreads})
                    /\ \A D \in told : ThreadRank(D) <= ThreadRank(C)
  BY DEF UrgentThreadsFirst
<1>1. TTypeOK
  BY DEF TInv
<1>2. PICK R : R = {p \in Clusters \X Clusters : Outranks(p[1], p[2])}
  OBVIOUS
<1>3. PICK l : l = Ordered(Clusters, R)
  OBVIOUS
<1>4. PICK s : s = ThreadList
  OBVIOUS
<1>5. PICK w : w = Where(s, OfRank(0)) \o Where(s, OfRank(1)) \o Where(s, Noteworthy)
  OBVIOUS
<1>6. PICK u : u = UpTo(w, MaxReported)
  OBVIOUS
<1>7. MaxThreads \in Nat /\ MaxReported \in Nat
  BY ThreadsAssumption
<1>8. /\ l \in Seq(Clusters) /\ DOMAIN l = 1..Len(l)
      /\ \A D \in Clusters : \E n \in DOMAIN l : l[n] = D
      /\ \A m, n \in DOMAIN l : m < n <=> <<l[m], l[n]>> \in R
      /\ \A m, n \in DOMAIN l : l[m] = l[n] => m = n
  <2>1. IsFiniteSet(Clusters) /\ Orders(Clusters, R)
    BY <1>1, <1>2, ClusterFacts, OutranksOrders
  <2>2. QED
    BY <1>3, <2>1, OrderedInOrder
<1>9. s = UpTo(l, MaxThreads)
  BY <1>2, <1>3, <1>4 DEF ThreadList
<1>10. /\ s \in Seq(Clusters) /\ DOMAIN s = 1..Len(s)
       /\ Len(s) = IF Len(l) < MaxThreads THEN Len(l) ELSE MaxThreads
       /\ \A n \in DOMAIN s : n \in DOMAIN l /\ s[n] = l[n]
  BY <1>7, <1>8, <1>9, UpToShortens
<1>11. Distinct(s)
  BY <1>8, <1>10 DEF Distinct
<1>12. /\ \A D \in Clusters : ThreadRank(D) \in 0..2 /\ (ThreadRank(D) = 0 <=> D \in OfRank(0))
                             /\ (ThreadRank(D) = 1 <=> D \in OfRank(1))
       /\ \A D \in OfRank(0) \cup OfRank(1) \cup Noteworthy : D \in Clusters
       /\ \A D \in Noteworthy : ThreadRank(D) = 2
       /\ OfRank(0) \cap OfRank(1) = {} /\ OfRank(0) \cap Noteworthy = {} /\ OfRank(1) \cap Noteworthy = {}
  BY <1>1, ClusterFacts DEF OfRank, Noteworthy
<1>13. PICK A, B, N : A = OfRank(0) /\ B = OfRank(1) /\ N = Noteworthy
  OBVIOUS
<1>14. /\ w \in Seq(Clusters) /\ Distinct(w)
       /\ \A n \in DOMAIN w : w[n] \in A \cup B \cup N /\ \E i \in DOMAIN s : s[i] = w[n]
       /\ \A i \in DOMAIN s : s[i] \in A \cup B \cup N => \E n \in DOMAIN w : w[n] = s[i]
       /\ \A m, n \in DOMAIN w : /\ m <= n /\ w[n] \in A => w[m] \in A
                                 /\ m <= n /\ w[n] \in B => w[m] \in A \cup B
  <2>1. s \in Seq(Clusters) /\ Distinct(s) /\ A \cap B = {} /\ A \cap N = {} /\ B \cap N = {}
        /\ w = Where(s, A) \o Where(s, B) \o Where(s, N)
    BY <1>5, <1>10, <1>11, <1>12, <1>13
  <2>2. PICK K : K = Clusters
    OBVIOUS
  <2>3. s \in Seq(K)
    BY <2>1, <2>2
  <2>4. w \in Seq(K) /\ InKinds(w, s, A, B, N)
    BY <2>1, <2>3, ThreeKinds
  <2>5. w \in Seq(Clusters)
    BY <2>2, <2>4
  <2>6. QED
    BY <2>4, <2>5 DEF InKinds
<1>15. /\ u \in Seq(Clusters) /\ DOMAIN u = 1..Len(u) /\ DOMAIN w = 1..Len(w) /\ Len(w) \in Nat
       /\ Len(u) = IF Len(w) < MaxReported THEN Len(w) ELSE MaxReported
       /\ \A i \in DOMAIN u : i \in DOMAIN w /\ u[i] = w[i]
  BY <1>6, <1>7, <1>14, UpToShortens
<1>16. told = {u[n] : n \in DOMAIN u}
  BY <1>4, <1>5, <1>6 DEF Reported, ToSet
<1>17. Distinct(u)
  BY <1>14, <1>15 DEF Distinct
<1>18. Cardinality(told) = Len(u)
  BY <1>15, <1>16, <1>17, DistinctCounted
<1>19. /\ Min({MaxReported, MaxThreads}) <= MaxReported
       /\ Min({MaxReported, MaxThreads}) <= MaxThreads
       /\ Min({MaxReported, MaxThreads}) \in Nat
  <2>1. {MaxReported, MaxThreads} \in SUBSET Nat
    BY <1>7
  <2>2. QED
    BY <2>1, LeastOf
<1>20. C \in A \cup B
  BY <1>12, <1>13
<1>21. ASSUME NEW D \in A \cup B PROVE D \in Clusters /\ (D \in A <=> ThreadRank(D) = 0)
                                       /\ (D \in B <=> ThreadRank(D) = 1)
  BY <1>12, <1>13
<1>22. CASE \E i \in DOMAIN s : s[i] = C
  <2>1. PICK n \in DOMAIN w : w[n] = C
    BY <1>14, <1>20, <1>22
  <2>2. n \notin DOMAIN u
    BY <1>15, <1>16, <2>1
  <2>3. Len(u) = MaxReported /\ \A m \in DOMAIN u : m <= n
    <3>1. n \in 1..Len(w) /\ n \notin 1..Len(u) /\ Len(u) \in Nat
      BY <1>15, <2>1, <2>2
    <3>2. Len(u) < n
      BY <3>1
    <3>3. Len(u) = MaxReported
      BY <1>7, <1>15, <3>1, <3>2
    <3>4. QED
      BY <1>15, <3>1, <3>2, <3>3
  <2>4. \A m \in DOMAIN u : /\ C \in A => u[m] \in A
                            /\ C \in B => u[m] \in A \cup B
    BY <1>14, <1>15, <2>1, <2>3
  <2>5. ASSUME NEW D \in told PROVE ThreadRank(D) <= ThreadRank(C)
    <3>1. PICK m \in DOMAIN u : D = u[m]
      BY <1>16
    <3>2. (C \in A => D \in A) /\ (C \in B => D \in A \cup B)
      BY <2>4, <3>1
    <3>3. QED
      BY <1>20, <1>21, <3>2
  <2>6. QED
    BY <1>7, <1>18, <1>19, <2>3, <2>5
<1>23. CASE ~(\E i \in DOMAIN s : s[i] = C)
  <2>1. PICK n \in DOMAIN l : l[n] = C
    BY <1>8
  <2>2. n \notin DOMAIN s
    BY <1>10, <1>23, <2>1
  <2>3. Len(s) = MaxThreads /\ \A m \in DOMAIN s : m < n
    <3>1. n \in 1..Len(l) /\ n \notin 1..Len(s) /\ Len(s) \in Nat /\ Len(l) \in Nat
      BY <1>8, <1>10, <2>1, <2>2
    <3>2. Len(s) < n
      BY <3>1
    <3>3. Len(s) = MaxThreads
      BY <1>7, <1>10, <3>1, <3>2
    <3>4. QED
      BY <1>10, <3>1, <3>2, <3>3
  <2>4. ASSUME NEW m \in DOMAIN s
        PROVE  s[m] \in Clusters /\ ThreadRank(s[m]) <= ThreadRank(C) /\ s[m] \in A \cup B
    <3>1. <<l[m], l[n]>> \in R /\ s[m] = l[m] /\ s[m] \in Clusters
      BY <1>8, <1>10, <2>1, <2>3
    <3>2. ThreadRank(s[m]) <= ThreadRank(C)
      BY <1>1, <1>2, <2>1, <3>1, OutranksOrders
    <3>3. ThreadRank(s[m]) \in 0..2 /\ ThreadRank(C) \in 0..2
      BY <1>12, <3>1
    <3>4. ThreadRank(s[m]) = 0 \/ ThreadRank(s[m]) = 1
      BY <3>2, <3>3
    <3>5. QED
      BY <1>12, <1>13, <3>1, <3>2, <3>4
  <2>5. PICK S, W : S = {s[m] : m \in DOMAIN s} /\ W = {w[m] : m \in DOMAIN w}
    OBVIOUS
  <2>6. /\ IsFiniteSet(S) /\ Cardinality(S) = MaxThreads
        /\ IsFiniteSet(W) /\ Cardinality(W) = Len(w)
    <3>1. s \in Seq(Clusters) /\ w \in Seq(Clusters) /\ Distinct(s) /\ Distinct(w)
      BY <1>10, <1>11, <1>14
    <3>2. IsFiniteSet(S) /\ Cardinality(S) = Len(s)
      BY <2>5, <3>1, DistinctCounted
    <3>3. IsFiniteSet(W) /\ Cardinality(W) = Len(w)
      BY <2>5, <3>1, DistinctCounted
    <3>4. QED
      BY <2>3, <3>2, <3>3
  <2>7. S \subseteq W
    <3>1. \A m \in DOMAIN s : \E k \in DOMAIN w : w[k] = s[m]
      BY <1>14, <2>4
    <3>2. QED
      BY <2>5, <3>1
  <2>8. MaxThreads <= Len(w)
    BY <2>6, <2>7, FS_Subset
  <2>9. ASSUME NEW D \in told PROVE ThreadRank(D) <= ThreadRank(C)
    <3>1. PICK m \in DOMAIN w : D = w[m]
      BY <1>15, <1>16
    <3>2. PICK i \in DOMAIN s : s[i] = D
      BY <1>14, <3>1
    <3>3. QED
      BY <2>4, <3>2
  <2>10. QED
    BY <1>7, <1>15, <1>18, <1>19, <2>8, <2>9
<1>24. QED
  BY <1>22, <1>23

(* Threads stay readable, hold what is linked unless they would grow past  *)
(* their bound, give a reason that holds of two members, keep none that is *)
(* tied to no other, and are withheld from the report least urgent first,  *)
(* for any number of activities and whatever order their words come in     *)
(* (build_threads, select_reported_threads).                               *)
THEOREM ThreadsAreReadable == TSpec => [](TTypeOK /\ ThreadsReadable)
<1>1. TInv => TTypeOK /\ ThreadsReadable
  BY SplitsAtCap, ReasonsHold, UrgentPrinted DEF TInv, ThreadsReadable
<1>2. QED
  BY <1>1, InitTInv, NextTInv, PTL DEF TSpec

-----------------------------------------------------------------------------
(* Predicates are trees: what is said of one from its parts is well said.  *)

(* G gives a value to a predicate from the values of its parts.            *)
FromParts(G, V) ==
    /\ \A p \in Predicate, D \in [Predicate -> V] : G[<<p, D>>] \in V
    /\ \A p \in Predicate, D, E \in [Predicate -> V] :
          (\A q \in Parts(p) : D[q] = E[q]) => G[<<p, D>>] = G[<<p, E>>]

(* D has the values that G gives to the predicates of A, all parts of      *)
(* which are in A.                                                         *)
Gives(G, V, D, A) ==
    /\ D \in [Predicate -> V]
    /\ \A p \in A : Parts(p) \subseteq A /\ D[p] = G[<<p, D>>]

LEMMA PartsFacts ==
  /\ \A p \in Predicate : Parts(p) \subseteq Predicate
  /\ \A P \in SUBSET Predicate : P # {} => \E p \in P : Parts(p) \cap P = {}
  BY ProgramAssumption

LEMMA GivesOnce ==
  ASSUME NEW G, NEW V, FromParts(G, V), NEW A \in SUBSET Predicate, NEW B \in SUBSET Predicate,
         NEW D, NEW E, Gives(G, V, D, A), Gives(G, V, E, B)
  PROVE  \A p \in A \cap B : D[p] = E[p]
<1>1. PICK P : P = {p \in A \cap B : D[p] # E[p]}
  OBVIOUS
<1>2. SUFFICES ASSUME P # {} PROVE FALSE
  BY <1>1
<1>3. PICK p \in P : Parts(p) \cap P = {}
  <2>1. P \in SUBSET Predicate
    BY <1>1
  <2>2. QED
    BY <1>2, <2>1, PartsFacts
<1>4. p \in A /\ p \in B /\ p \in Predicate /\ D[p] # E[p]
  BY <1>1, <1>3
<1>5. \A q \in Parts(p) : D[q] = E[q]
  BY <1>1, <1>3, <1>4 DEF Gives
<1>6. G[<<p, D>>] = G[<<p, E>>]
  BY <1>4, <1>5 DEF FromParts, Gives
<1>7. QED
  BY <1>4, <1>6 DEF Gives

(* There are values for all predicates that agree with those of the parts. *)
LEMMA ValuesExist ==
  ASSUME NEW G, NEW V, V # {}, FromParts(G, V)
  PROVE  \E D \in [Predicate -> V] : \A p \in Predicate : D[p] = G[<<p, D>>]
<1>1. PICK U : U = {p \in Predicate : \E A \in SUBSET Predicate : \E D \in [Predicate -> V] :
                                          p \in A /\ Gives(G, V, D, A)}
  OBVIOUS
<1>2. PICK v : v \in V
  OBVIOUS
<1>3. PICK S : S = [p \in Predicate |->
                 IF p \in U
                 THEN (CHOOSE D \in [Predicate -> V] :
                          \E A \in SUBSET Predicate : p \in A /\ Gives(G, V, D, A))[p]
                 ELSE v]
  OBVIOUS
<1>4. ASSUME NEW A \in SUBSET Predicate, NEW D \in [Predicate -> V], Gives(G, V, D, A),
             NEW p \in A
      PROVE  p \in U /\ S[p] = D[p]
  <2>1. p \in U
    BY <1>1, <1>4
  <2>2. PICK C : C = CHOOSE E \in [Predicate -> V] :
                        \E B \in SUBSET Predicate : p \in B /\ Gives(G, V, E, B)
    OBVIOUS
  <2>3. C \in [Predicate -> V] /\ \E B \in SUBSET Predicate : p \in B /\ Gives(G, V, C, B)
    BY <1>4, <2>2
  <2>4. PICK B \in SUBSET Predicate : p \in B /\ Gives(G, V, C, B)
    BY <2>3
  <2>5. C[p] = D[p]
    BY <1>4, <2>4, GivesOnce
  <2>6. S[p] = C[p]
    BY <1>3, <2>1, <2>2
  <2>7. QED
    BY <2>1, <2>5, <2>6
<1>5. S \in [Predicate -> V]
  <2>1. ASSUME NEW p \in Predicate PROVE S[p] \in V
    <3>1. CASE p \in U
      <4>1. PICK A \in SUBSET Predicate, D \in [Predicate -> V] : p \in A /\ Gives(G, V, D, A)
        BY <1>1, <3>1
      <4>2. S[p] = D[p]
        BY <1>4, <4>1
      <4>3. QED
        BY <4>2
    <3>2. CASE p \notin U
      BY <1>2, <1>3, <3>2
    <3>3. QED
      BY <3>1, <3>2
  <2>2. DOMAIN S = Predicate /\ S = [p \in DOMAIN S |-> S[p]]
    BY <1>3
  <2>3. QED
    BY <2>1, <2>2
<1>6. Gives(G, V, S, U)
  <2>1. ASSUME NEW p \in U PROVE Parts(p) \subseteq U /\ S[p] = G[<<p, S>>]
    <3>1. PICK A \in SUBSET Predicate, D \in [Predicate -> V] : p \in A /\ Gives(G, V, D, A)
      BY <1>1
    <3>2. Parts(p) \subseteq A /\ D[p] = G[<<p, D>>]
      BY <3>1 DEF Gives
    <3>3. \A q \in A : q \in U /\ S[q] = D[q]
      BY <1>4, <3>1
    <3>4. G[<<p, S>>] = G[<<p, D>>]
      BY <1>5, <3>1, <3>2, <3>3 DEF FromParts
    <3>5. QED
      BY <3>1, <3>2, <3>3, <3>4
  <2>2. QED
    BY <1>5, <2>1 DEF Gives
<1>7. U = Predicate
  <2>1. U \subseteq Predicate
    BY <1>1
  <2>2. SUFFICES ASSUME Predicate \ U # {} PROVE FALSE
    BY <2>1
  <2>3. PICK p \in Predicate \ U : Parts(p) \cap (Predicate \ U) = {}
    BY <2>2, PartsFacts
  <2>4. p \notin U /\ Parts(p) \subseteq U
    BY <2>3, PartsFacts
  <2>5. PICK T : T = [S EXCEPT ![p] = G[<<p, S>>]]
    OBVIOUS
  <2>6. /\ T \in [Predicate -> V] /\ T[p] = G[<<p, S>>]
        /\ \A q \in U : T[q] = S[q]
    <3>1. G[<<p, S>>] \in V
      BY <1>5 DEF FromParts
    <3>2. QED
      BY <1>5, <2>1, <2>4, <2>5, <3>1
  <2>7. ASSUME NEW q \in U \cup {p} PROVE Parts(q) \subseteq U /\ T[q] = G[<<q, T>>]
    <3>1. Parts(q) \subseteq U
      BY <1>6, <2>4 DEF Gives
    <3>2. q \in Predicate
      BY <2>1
    <3>3. G[<<q, S>>] = G[<<q, T>>]
      BY <1>5, <2>6, <3>1, <3>2 DEF FromParts
    <3>4. T[q] = G[<<q, S>>]
      BY <1>6, <2>6 DEF Gives
    <3>5. QED
      BY <3>1, <3>3, <3>4
  <2>8. Gives(G, V, T, U \cup {p})
    BY <2>6, <2>7 DEF Gives
  <2>9. U \cup {p} \in SUBSET Predicate
    BY <2>1
  <2>10. p \in U
    BY <1>4, <2>6, <2>8, <2>9
  <2>11. QED
    BY <2>4, <2>10
<1>8. QED
  BY <1>5, <1>6, <1>7 DEF Gives

(* The three functions on predicates are what their definitions say.       *)
LEMMA ComparisonsAre ==
  \A p \in Predicate :
      Comparisons[p] = IF p.type = "comparison" THEN {p} ELSE UNION {Comparisons[q] : q \in Parts(p)}
<1>1. PICK V : V = SUBSET Predicate
  OBVIOUS
<1>2. PICK G : G = [x \in Predicate \X [Predicate -> V] |->
                 IF x[1].type = "comparison" THEN {x[1]} ELSE UNION {x[2][q] : q \in Parts(x[1])}]
  OBVIOUS
<1>3. \A p \in Predicate, D \in [Predicate -> V] :
         G[<<p, D>>] = IF p.type = "comparison" THEN {p} ELSE UNION {D[q] : q \in Parts(p)}
  BY <1>2
<1>4. FromParts(G, V)
  <2>1. ASSUME NEW p \in Predicate, NEW D \in [Predicate -> V] PROVE G[<<p, D>>] \in V
    <3>1. \A q \in Parts(p) : D[q] \subseteq Predicate
      BY <1>1, PartsFacts
    <3>2. UNION {D[q] : q \in Parts(p)} \subseteq Predicate
      BY <3>1
    <3>3. QED
      BY <1>1, <1>3, <3>2
  <2>2. ASSUME NEW p \in Predicate, NEW D \in [Predicate -> V], NEW E \in [Predicate -> V],
               \A q \in Parts(p) : D[q] = E[q]
        PROVE  G[<<p, D>>] = G[<<p, E>>]
    <3>1. {D[q] : q \in Parts(p)} = {E[q] : q \in Parts(p)}
      BY <2>2
    <3>2. QED
      BY <1>3, <3>1
  <2>3. QED
    BY <2>1, <2>2 DEF FromParts
<1>5. PICK D \in [Predicate -> V] : \A p \in Predicate : D[p] = G[<<p, D>>]
  <2>1. V # {}
    BY <1>1
  <2>2. QED
    BY <1>4, <2>1, ValuesExist
<1>6. D = [p \in Predicate |->
             IF p.type = "comparison" THEN {p} ELSE UNION {D[q] : q \in Parts(p)}]
  BY <1>3, <1>5
<1>7. Comparisons = [p \in Predicate |->
             IF p.type = "comparison" THEN {p} ELSE UNION {Comparisons[q] : q \in Parts(p)}]
  BY Zenon, <1>6 DEF Comparisons
<1>8. QED
  BY <1>7

LEMMA OperandsAreParts ==
  ASSUME NEW p \in Predicate, p.type # "comparison"
  PROVE  /\ \A i \in DOMAIN p.operands : p.operands[i] \in Parts(p)
         /\ \A q \in Parts(p) : \E i \in DOMAIN p.operands : q = p.operands[i]
  BY DEF Parts, ToSet

LEMMA DenotesAre ==
  \A p \in Predicate :
      Denotes[p] =
        CASE p.type = "and" -> {r \in Listed : \A q \in Parts(p) : r \in Denotes[q]}
          [] p.type = "or" -> UNION {Denotes[q] : q \in Parts(p)}
          [] p.type = "not" -> Listed \ UNION {Denotes[q] : q \in Parts(p)}
          [] OTHER -> {r \in Listed : \E v \in ToSet(p.value.items) : \E candidate \in r[p.field] :
                         v = candidate \/ (p.operator = "STARTS" /\ <<v, candidate>> \in Starting)}
<1>1. PICK V : V = SUBSET Listed
  OBVIOUS
<1>2. PICK M : M = [p \in Predicate |->
                 {r \in Listed : \E v \in ToSet(p.value.items) : \E candidate \in r[p.field] :
                    v = candidate \/ (p.operator = "STARTS" /\ <<v, candidate>> \in Starting)}]
  OBVIOUS
<1>3. PICK G : G = [x \in Predicate \X [Predicate -> V] |->
                 CASE x[1].type = "and" -> {r \in Listed : \A q \in Parts(x[1]) : r \in x[2][q]}
                   [] x[1].type = "or" -> UNION {x[2][q] : q \in Parts(x[1])}
                   [] x[1].type = "not" -> Listed \ UNION {x[2][q] : q \in Parts(x[1])}
                   [] OTHER -> M[x[1]]]
  OBVIOUS
<1>4. ASSUME NEW p \in Predicate, NEW D \in [Predicate -> V]
      PROVE  G[<<p, D>>] =
                 CASE p.type = "and" -> {r \in Listed : \A q \in Parts(p) : r \in D[q]}
                   [] p.type = "or" -> UNION {D[q] : q \in Parts(p)}
                   [] p.type = "not" -> Listed \ UNION {D[q] : q \in Parts(p)}
                   [] OTHER -> M[p]
  BY <1>3
<1>5. FromParts(G, V)
  <2>1. ASSUME NEW p \in Predicate, NEW D \in [Predicate -> V] PROVE G[<<p, D>>] \in V
    <3>1. \A q \in Parts(p) : D[q] \subseteq Listed
      BY <1>1, PartsFacts
    <3>2. UNION {D[q] : q \in Parts(p)} \subseteq Listed
      BY <3>1
    <3>3. M[p] \subseteq Listed
      BY <1>2
    <3>4. {r \in Listed : \A q \in Parts(p) : r \in D[q]} \subseteq Listed
      OBVIOUS
    <3>5. PICK a, o : /\ a = {r \in Listed : \A q \in Parts(p) : r \in D[q]}
                      /\ o = UNION {D[q] : q \in Parts(p)}
      OBVIOUS
    <3>6. G[<<p, D>>] = CASE p.type = "and" -> a [] p.type = "or" -> o
                          [] p.type = "not" -> Listed \ o [] OTHER -> M[p]
      BY <1>4, <3>5
    <3>7. a \subseteq Listed /\ o \subseteq Listed /\ Listed \ o \subseteq Listed
      BY <3>2, <3>4, <3>5
    <3>8. QED
      BY <1>1, <3>3, <3>6, <3>7
  <2>2. ASSUME NEW p \in Predicate, NEW D \in [Predicate -> V], NEW E \in [Predicate -> V],
               \A q \in Parts(p) : D[q] = E[q]
        PROVE  G[<<p, D>>] = G[<<p, E>>]
    <3>1. {D[q] : q \in Parts(p)} = {E[q] : q \in Parts(p)}
      BY <2>2
    <3>2. {r \in Listed : \A q \in Parts(p) : r \in D[q]}
            = {r \in Listed : \A q \in Parts(p) : r \in E[q]}
      BY <2>2
    <3>3. PICK a, o : /\ a = {r \in Listed : \A q \in Parts(p) : r \in D[q]}
                      /\ o = UNION {D[q] : q \in Parts(p)}
      OBVIOUS
    <3>4. G[<<p, D>>] = CASE p.type = "and" -> a [] p.type = "or" -> o
                          [] p.type = "not" -> Listed \ o [] OTHER -> M[p]
      BY <1>4, <3>3
    <3>5. a = {r \in Listed : \A q \in Parts(p) : r \in E[q]} /\ o = UNION {E[q] : q \in Parts(p)}
      BY <3>1, <3>2, <3>3
    <3>6. G[<<p, E>>] = CASE p.type = "and" -> a [] p.type = "or" -> o
                          [] p.type = "not" -> Listed \ o [] OTHER -> M[p]
      BY <1>4, <3>5
    <3>7. QED
      BY <3>4, <3>6
  <2>3. QED
    BY <2>1, <2>2 DEF FromParts
<1>6. PICK D \in [Predicate -> V] : \A p \in Predicate : D[p] = G[<<p, D>>]
  <2>1. V # {}
    BY <1>1
  <2>2. QED
    BY <1>5, <2>1, ValuesExist
<1>7. D = [p \in Predicate |->
        CASE p.type = "and" -> {r \in Listed : \A q \in Parts(p) : r \in D[q]}
          [] p.type = "or" -> UNION {D[q] : q \in Parts(p)}
          [] p.type = "not" -> Listed \ UNION {D[q] : q \in Parts(p)}
          [] OTHER -> {r \in Listed : \E v \in ToSet(p.value.items) : \E candidate \in r[p.field] :
                         v = candidate \/ (p.operator = "STARTS" /\ <<v, candidate>> \in Starting)}]
  <2>1. \A p \in Predicate : D[p] =
          CASE p.type = "and" -> {r \in Listed : \A q \in Parts(p) : r \in D[q]}
            [] p.type = "or" -> UNION {D[q] : q \in Parts(p)}
            [] p.type = "not" -> Listed \ UNION {D[q] : q \in Parts(p)}
            [] OTHER -> M[p]
    BY <1>4, <1>6
  <2>2. QED
    BY <1>2, <2>1
<1>8. Denotes = [p \in Predicate |->
        CASE p.type = "and" -> {r \in Listed : \A q \in Parts(p) : r \in Denotes[q]}
          [] p.type = "or" -> UNION {Denotes[q] : q \in Parts(p)}
          [] p.type = "not" -> Listed \ UNION {Denotes[q] : q \in Parts(p)}
          [] OTHER -> {r \in Listed : \E v \in ToSet(p.value.items) : \E candidate \in r[p.field] :
                         v = candidate \/ (p.operator = "STARTS" /\ <<v, candidate>> \in Starting)}]
  BY Zenon, <1>7 DEF Denotes
<1>9. QED
  BY <1>8

LEMMA EvaluateIs ==
  \A p \in Predicate, r \in Listed :
      Evaluate[<<p, r>>] =
        CASE p.type = "and" -> \A i \in DOMAIN p.operands : Evaluate[<<p.operands[i], r>>]
          [] p.type = "or" -> \E i \in DOMAIN p.operands : Evaluate[<<p.operands[i], r>>]
          [] p.type = "not" -> ~Evaluate[<<p.operands[1], r>>]
          [] OTHER -> \E candidate \in r[p.field] : Matches(p, candidate)
<1>1. PICK V : V = SUBSET Listed
  OBVIOUS
<1>2. PICK M : M = [p \in Predicate |->
                 {r \in Listed : \E candidate \in r[p.field] : Matches(p, candidate)}]
  OBVIOUS
<1>3. PICK G : G = [x \in Predicate \X [Predicate -> V] |->
          CASE x[1].type = "and" -> {r \in Listed : \A q \in Parts(x[1]) : r \in x[2][q]}
            [] x[1].type = "or" -> {r \in Listed : \E q \in Parts(x[1]) : r \in x[2][q]}
            [] x[1].type = "not" -> {r \in Listed : \A q \in Parts(x[1]) : r \notin x[2][q]}
            [] OTHER -> M[x[1]]]
  OBVIOUS
<1>4. ASSUME NEW p \in Predicate, NEW D \in [Predicate -> V]
      PROVE  G[<<p, D>>] =
          CASE p.type = "and" -> {r \in Listed : \A q \in Parts(p) : r \in D[q]}
            [] p.type = "or" -> {r \in Listed : \E q \in Parts(p) : r \in D[q]}
            [] p.type = "not" -> {r \in Listed : \A q \in Parts(p) : r \notin D[q]}
            [] OTHER -> M[p]
  BY <1>3
<1>5. FromParts(G, V)
  <2>1. ASSUME NEW p \in Predicate, NEW D \in [Predicate -> V] PROVE G[<<p, D>>] \in V
    <3>1. M[p] \subseteq Listed
      BY <1>2
    <3>2. /\ {r \in Listed : \A q \in Parts(p) : r \in D[q]} \subseteq Listed
          /\ {r \in Listed : \E q \in Parts(p) : r \in D[q]} \subseteq Listed
          /\ {r \in Listed : \A q \in Parts(p) : r \notin D[q]} \subseteq Listed
      OBVIOUS
    <3>3. QED
      BY <1>1, <1>4, <3>1, <3>2
  <2>2. ASSUME NEW p \in Predicate, NEW D \in [Predicate -> V], NEW E \in [Predicate -> V],
               \A q \in Parts(p) : D[q] = E[q]
        PROVE  G[<<p, D>>] = G[<<p, E>>]
    <3>1. /\ {r \in Listed : \A q \in Parts(p) : r \in D[q]}
               = {r \in Listed : \A q \in Parts(p) : r \in E[q]}
          /\ {r \in Listed : \E q \in Parts(p) : r \in D[q]}
               = {r \in Listed : \E q \in Parts(p) : r \in E[q]}
          /\ {r \in Listed : \A q \in Parts(p) : r \notin D[q]}
               = {r \in Listed : \A q \in Parts(p) : r \notin E[q]}
      BY <2>2
    <3>2. PICK a, o, n : /\ a = {r \in Listed : \A q \in Parts(p) : r \in D[q]}
                         /\ o = {r \in Listed : \E q \in Parts(p) : r \in D[q]}
                         /\ n = {r \in Listed : \A q \in Parts(p) : r \notin D[q]}
      OBVIOUS
    <3>3. G[<<p, D>>] = CASE p.type = "and" -> a [] p.type = "or" -> o
                          [] p.type = "not" -> n [] OTHER -> M[p]
      BY <1>4, <3>2
    <3>4. /\ a = {r \in Listed : \A q \in Parts(p) : r \in E[q]}
          /\ o = {r \in Listed : \E q \in Parts(p) : r \in E[q]}
          /\ n = {r \in Listed : \A q \in Parts(p) : r \notin E[q]}
      BY <3>1, <3>2
    <3>5. G[<<p, E>>] = CASE p.type = "and" -> a [] p.type = "or" -> o
                          [] p.type = "not" -> n [] OTHER -> M[p]
      BY <1>4, <3>4
    <3>6. QED
      BY <3>3, <3>5
  <2>3. QED
    BY <2>1, <2>2 DEF FromParts
<1>6. PICK D \in [Predicate -> V] : \A p \in Predicate : D[p] = G[<<p, D>>]
  <2>1. V # {}
    BY <1>1
  <2>2. QED
    BY <1>5, <2>1, ValuesExist
<1>7. PICK E : E = [x \in Predicate \X Listed |-> x[2] \in D[x[1]]]
  OBVIOUS
<1>8. ASSUME NEW p \in Predicate, NEW r \in Listed
      PROVE  E[<<p, r>>] =
        CASE p.type = "and" -> \A i \in DOMAIN p.operands : E[<<p.operands[i], r>>]
          [] p.type = "or" -> \E i \in DOMAIN p.operands : E[<<p.operands[i], r>>]
          [] p.type = "not" -> ~E[<<p.operands[1], r>>]
          [] OTHER -> \E candidate \in r[p.field] : Matches(p, candidate)
  <2>1. \A q \in Predicate : E[<<q, r>>] = (r \in D[q])
    BY <1>7
  <2>9. E[<<p, r>>] \in BOOLEAN
    <3>1. E \in [Predicate \X Listed -> BOOLEAN]
      BY <1>7
    <3>2. <<p, r>> \in Predicate \X Listed
      OBVIOUS
    <3>3. QED
      BY Zenon, <3>1, <3>2
  <2>10. E[<<p, r>>] <=> r \in D[p]
    BY <2>1
  <2>2. p.type \in {"and", "or", "not", "comparison"}
    BY ProgramAssumption
  <2>3. D[p] = G[<<p, D>>]
    BY <1>6
  <2>4. CASE p.type = "and"
    <3>1. D[p] = {s \in Listed : \A q \in Parts(p) : s \in D[q]}
      BY <1>4, <2>3, <2>4
    <3>2. r \in D[p] <=> \A i \in DOMAIN p.operands : r \in D[p.operands[i]]
      <4>1. r \in D[p] <=> \A q \in Parts(p) : r \in D[q]
        BY <3>1
      <4>2. QED
        BY <2>4, <4>1, OperandsAreParts
    <3>3. \A i \in DOMAIN p.operands : E[<<p.operands[i], r>>] = (r \in D[p.operands[i]])
      BY <2>1, <2>4, OperandsAreParts, PartsFacts
    <3>4. E[<<p, r>>] \in BOOLEAN /\ (E[<<p, r>>] <=> r \in D[p])
      BY <2>9, <2>10
    <3>5. E[<<p, r>>] <=> \A i \in DOMAIN p.operands : E[<<p.operands[i], r>>]
      BY <3>2, <3>3, <3>4
    <3>6. E[<<p, r>>] = (\A i \in DOMAIN p.operands : E[<<p.operands[i], r>>])
      BY <3>4, <3>5
    <3>7. QED
      BY <2>4, <3>6
  <2>5. CASE p.type = "or"
    <3>1. D[p] = {s \in Listed : \E q \in Parts(p) : s \in D[q]}
      BY <1>4, <2>3, <2>5
    <3>2. r \in D[p] <=> \E i \in DOMAIN p.operands : r \in D[p.operands[i]]
      <4>1. r \in D[p] <=> \E q \in Parts(p) : r \in D[q]
        BY <3>1
      <4>2. QED
        BY <2>5, <4>1, OperandsAreParts
    <3>3. \A i \in DOMAIN p.operands : E[<<p.operands[i], r>>] = (r \in D[p.operands[i]])
      BY <2>1, <2>5, OperandsAreParts, PartsFacts
    <3>4. E[<<p, r>>] \in BOOLEAN /\ (E[<<p, r>>] <=> r \in D[p])
      BY <2>9, <2>10
    <3>5. E[<<p, r>>] <=> \E i \in DOMAIN p.operands : E[<<p.operands[i], r>>]
      BY <3>2, <3>3, <3>4
    <3>6. E[<<p, r>>] = (\E i \in DOMAIN p.operands : E[<<p.operands[i], r>>])
      BY <3>4, <3>5
    <3>7. QED
      BY <2>5, <3>6
  <2>6. CASE p.type = "not"
    <3>1. D[p] = {s \in Listed : \A q \in Parts(p) : s \notin D[q]}
      BY <1>4, <2>3, <2>6
    <3>2. DOMAIN p.operands = {1}
      BY <2>6, ProgramAssumption
    <3>3. (r \in D[p]) = (r \notin D[p.operands[1]])
      BY <2>6, <3>1, <3>2, OperandsAreParts
    <3>4. E[<<p.operands[1], r>>] = (r \in D[p.operands[1]])
      BY <2>1, <2>6, <3>2, OperandsAreParts, PartsFacts
    <3>5. E[<<p, r>>] = (~E[<<p.operands[1], r>>])
      BY <2>1, <3>3, <3>4
    <3>6. QED
      BY <2>6, <3>5
  <2>7. CASE p.type = "comparison"
    <3>1. D[p] = {s \in Listed : \E candidate \in s[p.field] : Matches(p, candidate)}
      BY <1>2, <1>4, <2>3, <2>7
    <3>2. r \in D[p] <=> \E candidate \in r[p.field] : Matches(p, candidate)
      BY <3>1
    <3>3. E[<<p, r>>] \in BOOLEAN /\ (E[<<p, r>>] <=> r \in D[p])
      BY <2>9, <2>10
    <3>4. E[<<p, r>>] <=> \E candidate \in r[p.field] : Matches(p, candidate)
      BY <3>2, <3>3
    <3>5. E[<<p, r>>] = (\E candidate \in r[p.field] : Matches(p, candidate))
      BY <3>3, <3>4
    <3>6. QED
      BY <2>7, <3>5
  <2>8. QED
    BY <2>2, <2>4, <2>5, <2>6, <2>7
<1>9. E = [x \in Predicate \X Listed |->
        CASE x[1].type = "and" -> \A i \in DOMAIN x[1].operands : E[<<x[1].operands[i], x[2]>>]
          [] x[1].type = "or" -> \E i \in DOMAIN x[1].operands : E[<<x[1].operands[i], x[2]>>]
          [] x[1].type = "not" -> ~E[<<x[1].operands[1], x[2]>>]
          [] OTHER -> \E candidate \in x[2][x[1].field] : Matches(x[1], candidate)]
  BY <1>7, <1>8
<1>10. Evaluate = [x \in Predicate \X Listed |->
        CASE x[1].type = "and" -> \A i \in DOMAIN x[1].operands : Evaluate[<<x[1].operands[i], x[2]>>]
          [] x[1].type = "or" -> \E i \in DOMAIN x[1].operands : Evaluate[<<x[1].operands[i], x[2]>>]
          [] x[1].type = "not" -> ~Evaluate[<<x[1].operands[1], x[2]>>]
          [] OTHER -> \E candidate \in x[2][x[1].field] : Matches(x[1], candidate)]
  BY Zenon, <1>9 DEF Evaluate
<1>11. QED
  BY <1>10

(* What a filter of a valid program evaluates to is what it denotes.       *)
LEMMA EvaluateMeans ==
  ASSUME NEW p \in Predicate, \A c \in Comparisons[p] : Comparable(c)
  PROVE  \A r \in Listed : Evaluate[<<p, r>>] <=> r \in Denotes[p]
<1> DEFINE Wrong(q) == /\ \A c \in Comparisons[q] : Comparable(c)
                       /\ \E r \in Listed : ~(Evaluate[<<q, r>>] <=> r \in Denotes[q])
<1>1. PICK P : P = {q \in Predicate : Wrong(q)}
  OBVIOUS
<1>2. SUFFICES ASSUME P # {} PROVE FALSE
  BY <1>1
<1>3. PICK q \in P : Parts(q) \cap P = {}
  <2>1. P \in SUBSET Predicate
    BY <1>1
  <2>2. QED
    BY <1>2, <2>1, PartsFacts
<1>4. q \in Predicate /\ \A c \in Comparisons[q] : Comparable(c)
  BY <1>1, <1>3
<1>5. PICK r \in Listed : ~(Evaluate[<<q, r>>] <=> r \in Denotes[q])
  BY <1>1, <1>3
<1>6. q.type \in {"and", "or", "not", "comparison"}
  BY <1>4, ProgramAssumption
<1>7. ASSUME q.type # "comparison", NEW o \in Parts(q)
      PROVE  Evaluate[<<o, r>>] <=> r \in Denotes[o]
  <2>1. o \in Predicate /\ o \notin P
    BY <1>3, <1>4, <1>7, PartsFacts
  <2>2. Comparisons[q] = UNION {Comparisons[s] : s \in Parts(q)}
    BY <1>4, <1>7, ComparisonsAre
  <2>3. Comparisons[o] \subseteq Comparisons[q]
    BY <1>7, <2>2
  <2>4. \A c \in Comparisons[o] : Comparable(c)
    BY <1>4, <2>3
  <2>5. QED
    BY <1>1, <2>1, <2>4
<1> HIDE DEF Wrong
<1>8. CASE q.type = "and"
  <2>1. Evaluate[<<q, r>>] <=> \A i \in DOMAIN q.operands : Evaluate[<<q.operands[i], r>>]
    BY <1>4, <1>8, EvaluateIs
  <2>2. r \in Denotes[q] <=> \A o \in Parts(q) : r \in Denotes[o]
    BY <1>4, <1>8, DenotesAre
  <2>3. (\A i \in DOMAIN q.operands : Evaluate[<<q.operands[i], r>>])
           <=> \A o \in Parts(q) : Evaluate[<<o, r>>]
    BY <1>4, <1>8, OperandsAreParts
  <2>4. (\A o \in Parts(q) : Evaluate[<<o, r>>]) <=> \A o \in Parts(q) : r \in Denotes[o]
    BY <1>7, <1>8
  <2>5. QED
    BY <1>5, <2>1, <2>2, <2>3, <2>4
<1>9. CASE q.type = "or"
  <2>1. Evaluate[<<q, r>>] <=> \E i \in DOMAIN q.operands : Evaluate[<<q.operands[i], r>>]
    BY <1>4, <1>9, EvaluateIs
  <2>2. r \in Denotes[q] <=> \E o \in Parts(q) : r \in Denotes[o]
    <3>1. Denotes[q] = UNION {Denotes[o] : o \in Parts(q)}
      BY <1>4, <1>9, DenotesAre
    <3>2. QED
      BY <3>1
  <2>3. (\E i \in DOMAIN q.operands : Evaluate[<<q.operands[i], r>>])
           <=> \E o \in Parts(q) : Evaluate[<<o, r>>]
    BY <1>4, <1>9, OperandsAreParts
  <2>4. (\E o \in Parts(q) : Evaluate[<<o, r>>]) <=> \E o \in Parts(q) : r \in Denotes[o]
    BY <1>7, <1>9
  <2>5. QED
    BY <1>5, <2>1, <2>2, <2>3, <2>4
<1>10. CASE q.type = "not"
  <2>1. Evaluate[<<q, r>>] <=> ~Evaluate[<<q.operands[1], r>>]
    BY <1>4, <1>10, EvaluateIs
  <2>2. DOMAIN q.operands = {1}
    BY <1>4, <1>10, ProgramAssumption
  <2>3. Parts(q) = {q.operands[1]}
    BY <1>4, <1>10, <2>2, OperandsAreParts
  <2>4. Denotes[q] = Listed \ UNION {Denotes[o] : o \in Parts(q)}
    BY <1>4, <1>10, DenotesAre
  <2>5. r \in Denotes[q] <=> r \notin Denotes[q.operands[1]]
    BY <2>3, <2>4
  <2>6. Evaluate[<<q.operands[1], r>>] <=> r \in Denotes[q.operands[1]]
    BY <1>7, <1>10, <2>3
  <2>7. QED
    BY <1>5, <2>1, <2>5, <2>6
<1>11. CASE q.type = "comparison"
  <2>1. Evaluate[<<q, r>>] <=> \E candidate \in r[q.field] : Matches(q, candidate)
    BY <1>4, <1>11, EvaluateIs
  <2>2. r \in Denotes[q] <=>
           \E v \in ToSet(q.value.items) : \E candidate \in r[q.field] :
               v = candidate \/ (q.operator = "STARTS" /\ <<v, candidate>> \in Starting)
    BY <1>4, <1>11, DenotesAre
  <2>3. Comparable(q)
    <3>1. Comparisons[q] = {q}
      BY <1>4, <1>11, ComparisonsAre
    <3>2. QED
      BY <1>4, <3>1
  <2>4. q.operator \in {"EQUALS", "ONEOF", "STARTS"} /\ (q.value.list \/ DOMAIN q.value.items = {1})
    BY <1>4, <1>11, ProgramAssumption
  <2>5. CASE q.operator # "STARTS"
    <3>1. \A candidate : Matches(q, candidate) <=> candidate \in ToSet(q.value.items)
      BY <2>4, <2>5 DEF Matches
    <3>2. QED
      BY <1>5, <2>1, <2>2, <2>5, <3>1
  <2>6. CASE q.operator = "STARTS"
    <3>1. DOMAIN q.value.items = {1}
      BY <2>3, <2>4, <2>6 DEF Comparable
    <3>2. ToSet(q.value.items) = {q.value.items[1]}
      BY <3>1 DEF ToSet
    <3>3. <<q.value.items[1], q.value.items[1]>> \in Starting
      BY <1>4, <1>11, <2>6, <3>2, ProgramAssumption
    <3>4. \A candidate : Matches(q, candidate) <=> <<q.value.items[1], candidate>> \in Starting
      BY <2>6 DEF Matches
    <3>5. QED
      BY <1>5, <2>1, <2>2, <2>6, <3>2, <3>3, <3>4
  <2>7. QED
    BY <2>5, <2>6
<1>12. QED
  BY <1>6, <1>8, <1>9, <1>10, <1>11

-----------------------------------------------------------------------------
(* The rows selected                                                       *)

(* The first MaxSelected entries of a list that are in a set.              *)
LEMMA FirstOfThose ==
  ASSUME NEW S, NEW s \in Seq(S), NEW T, NEW n \in Nat,
         NEW u, u = UpTo(Where(s, T), n), NEW hits, hits = {i \in DOMAIN s : s[i] \in T}
  PROVE  /\ ToSet(u) \subseteq T
         /\ \A i \in hits : Cardinality({j \in hits : j <= i}) <= n => s[i] \in ToSet(u)
         /\ Len(u) <= Cardinality(hits)
<1>1. PICK at \in Seq(DOMAIN s) : Picks(s, T, at)
  BY WherePicks
<1>2. PICK w : w = Where(s, T)
  OBVIOUS
<1>3. w \in Seq(S) /\ DOMAIN w = 1..Len(w)
  BY <1>2, WhereSelects
<1>4. /\ DOMAIN at = 1..Len(at) /\ DOMAIN w = DOMAIN at /\ \A m \in DOMAIN at : w[m] = s[at[m]]
      /\ \A m \in DOMAIN at : at[m] \in DOMAIN s /\ s[at[m]] \in T
      /\ \A i \in hits : \E m \in DOMAIN at : at[m] = i
      /\ \A l, m \in DOMAIN at : l < m <=> at[l] < at[m]
      /\ Distinct(at)
  BY <1>1, <1>2 DEF Picks, Distinct
<1>5. Len(w) = Len(at) /\ Len(at) \in Nat
  <2>1. Len(w) \in Nat /\ Len(at) \in Nat
    BY <1>1, <1>3
  <2>2. 1..Len(w) = 1..Len(at)
    BY <1>3, <1>4
  <2>3. QED
    BY <2>1, <2>2
<1>6. /\ u \in Seq(S) /\ DOMAIN u = 1..Len(u) /\ Len(u) = IF Len(w) < n THEN Len(w) ELSE n
      /\ \A i \in DOMAIN u : i \in DOMAIN w /\ u[i] = w[i]
  BY <1>2, <1>3, UpToShortens
<1>7. ToSet(u) \subseteq T
  BY <1>4, <1>6 DEF ToSet
<1>8. hits = {at[m] : m \in DOMAIN at}
  BY <1>4
<1>9. Cardinality(hits) = Len(at)
  BY <1>4, <1>8, DistinctCounted
<1>10. ASSUME NEW i \in hits, Cardinality({j \in hits : j <= i}) <= n
       PROVE  s[i] \in ToSet(u)
  <2>1. PICK m \in DOMAIN at : at[m] = i
    BY <1>4
  <2>2. PICK b : b = UpTo(at, m)
    OBVIOUS
  <2>3. m \in Nat /\ m <= Len(at)
    BY <1>4, <1>5
  <2>4. /\ b \in Seq(DOMAIN s) /\ DOMAIN b = 1..Len(b) /\ Len(b) = m
        /\ \A k \in DOMAIN b : k \in DOMAIN at /\ b[k] = at[k]
    <3>1. /\ b \in Seq(DOMAIN s) /\ DOMAIN b = 1..Len(b)
          /\ Len(b) = IF Len(at) < m THEN Len(at) ELSE m
          /\ \A k \in DOMAIN b : k \in DOMAIN at /\ b[k] = at[k]
      BY <2>2, <2>3, UpToShortens
    <3>2. QED
      BY <1>5, <2>3, <3>1
  <2>5. Distinct(b)
    BY <1>4, <2>4 DEF Distinct
  <2>6. {j \in hits : j <= i} = {b[k] : k \in DOMAIN b}
    <3>1. ASSUME NEW j \in hits, j <= i PROVE \E k \in DOMAIN b : j = b[k]
      <4>1. PICK k \in DOMAIN at : at[k] = j
        BY <1>4
      <4>2. j \in Int /\ i \in Int /\ k \in Int /\ m \in Int
        BY <1>4, <1>5
      <4>3. ~(m < k)
        BY <1>4, <2>1, <3>1, <4>1, <4>2
      <4>4. k \in DOMAIN b
        BY <1>4, <2>4, <4>1, <4>2, <4>3
      <4>5. QED
        BY <2>4, <4>1, <4>4
    <3>2. ASSUME NEW k \in DOMAIN b PROVE b[k] \in hits /\ b[k] <= i
      <4>1. k \in DOMAIN at /\ b[k] = at[k] /\ k <= m
        BY <2>4
      <4>2. b[k] \in hits /\ at[k] \in Int /\ i \in Int
        BY <1>4, <4>1
      <4>3. k = m \/ k < m
        BY <1>4, <2>3, <4>1
      <4>4. QED
        BY <1>4, <2>1, <4>1, <4>2, <4>3
    <3>3. QED
      BY <3>1, <3>2
  <2>7. Cardinality({j \in hits : j <= i}) = m
    BY <2>4, <2>5, <2>6, DistinctCounted
  <2>8. m \in DOMAIN u /\ u[m] = s[i]
    BY <1>4, <1>5, <1>6, <1>10, <2>1, <2>3, <2>7
  <2>9. QED
    BY <2>8 DEF ToSet
<1>11. QED
  BY <1>5, <1>6, <1>7, <1>9, <1>10

-----------------------------------------------------------------------------
(* What reading keeps                                                      *)

Guarding == {n.guard : n \in Node}
Titles == {n.name : n \in Node}
(* The statements that can stand in a text, those of ticked sources too.   *)
Standing ==
    Node \cup {[kind |-> "case"]}
         \cup [kind : {"collect"}, source : Selectable, arguments : {<<>>}, from : BOOLEAN]
Frame == [nodes : Seq(Standing), conditions : Seq(Guarding), stack : Seq(Titles)]

Framed ==
    /\ frames \in Seq(Frame)
    /\ \A i \in DOMAIN frames :
         Len(frames[i].stack) <= MaxDepth /\ IsInjective(frames[i].stack)

Gathered ==
    /\ \A name \in DOMAIN definitions : definitions[name] \in Seq(Standing)
    /\ collections \in Seq(ToSet(collections)) /\ correlations \in Seq(ToSet(correlations))
    /\ filters \in Seq([predicate : Predicate, conditions : Seq(Guarding)])
    /\ rows \in Seq(Listed)

Phased ==
    /\ phase \in {"reading", "rejected", "compiled", "planned", "ran"}
    /\ phase # "reading" => frames = <<>>
    /\ phase \in {"compiled", "planned", "ran"} => Valid

(* The plan of a program is what its clauses ask of the platform.          *)
Planned ==
    phase \in {"planned", "ran"} =>
        /\ plan.platform \in {"linux", "windows"}
        /\ plan.tasks = [i \in DOMAIN collections |-> TaskFor(plan.platform, collections[i])]
        /\ plan.filters = Active(plan.platform, filters)
        /\ plan.correlations = Active(plan.platform, correlations)

LEMMA StandingFacts ==
  ASSUME NEW n \in Standing
  PROVE  /\ n.kind \in {"when", "define"} => n.body \in Seq(Standing)
         /\ n.kind = "when" => n.guard \in Guarding
         /\ n.kind = "run" => n.name \in Titles
         /\ n.kind = "filter" => n.predicate \in Predicate
<1>1. CASE n \in Node
  <2>1. n.kind \in {"when", "define"} => n.body \in Seq(Standing)
    <3>1. ASSUME n.kind \in {"when", "define"} PROVE n.body \in Seq(Standing)
      <4>1. n.body \in Seq(Node)
        BY <1>1, <3>1, ProgramAssumption
      <4>2. Node \subseteq Standing
        BY DEF Standing
      <4>3. QED
        BY <4>1, <4>2
    <3>2. QED
      BY <3>1
  <2>2. n.guard \in Guarding /\ n.name \in Titles
    BY <1>1 DEF Guarding, Titles
  <2>3. n.kind = "filter" => n.predicate \in Predicate
    BY <1>1, ProgramAssumption
  <2>4. QED
    BY <2>1, <2>2, <2>3
<1>2. CASE n \notin Node
  BY <1>2 DEF Standing
<1>3. QED
  BY <1>1, <1>2

LEMMA AppendedList ==
  ASSUME NEW s, s \in Seq(ToSet(s)), NEW e
  PROVE  Append(s, e) \in Seq(ToSet(Append(s, e)))
<1>1. s \in Seq(ToSet(s) \cup {e})
  OBVIOUS
<1>2. PICK t : t = Append(s, e)
  OBVIOUS
<1>3. /\ t \in Seq(ToSet(s) \cup {e}) /\ Len(t) = Len(s) + 1 /\ t[Len(s) + 1] = e
      /\ DOMAIN s = 1..Len(s) /\ Len(s) \in Nat /\ DOMAIN t = 1..(Len(s) + 1)
      /\ \A i \in 1..Len(s) : t[i] = s[i]
  BY <1>1, <1>2
<1>4. \A i \in DOMAIN t : t[i] \in ToSet(t)
  BY DEF ToSet
<1>5. t \in Seq(ToSet(t))
  BY <1>3, <1>4
<1>6. QED
  BY <1>2, <1>5

(* What a rest, an entered block and a left one are made of.               *)
LEMMA RestFramed ==
  ASSUME Framed, frames # <<>>, Innermost.nodes # <<>>
  PROVE  /\ Read \in Standing /\ Innermost \in Frame
         /\ Len(Innermost.stack) <= MaxDepth /\ IsInjective(Innermost.stack)
         /\ Rest \in Seq(Frame) /\ Len(Rest) = Len(frames)
         /\ \A i \in DOMAIN Rest : Len(Rest[i].stack) <= MaxDepth /\ IsInjective(Rest[i].stack)
<1>1. /\ Len(frames) \in Nat \ {0} /\ DOMAIN frames = 1..Len(frames)
      /\ \A i \in DOMAIN frames : frames[i] \in Frame
  BY DEF Framed
<1>2. Len(frames) \in DOMAIN frames
  BY <1>1
<1>3. /\ Innermost = frames[Len(frames)] /\ Innermost \in Frame
      /\ Len(Innermost.stack) <= MaxDepth /\ IsInjective(Innermost.stack)
  BY <1>1, <1>2 DEF Innermost, Last, Framed
<1>4. Innermost.nodes \in Seq(Standing)
  BY <1>3 DEF Frame
<1>5. Read \in Standing /\ Tail(Innermost.nodes) \in Seq(Standing)
  BY <1>4 DEF Read
<1>6. PICK r : r = Rest
  OBVIOUS
<1>7. r = [frames EXCEPT ![Len(frames)] =
             [frames[Len(frames)] EXCEPT !.nodes = Tail(frames[Len(frames)].nodes)]]
  BY <1>6 DEF Rest
<1>8. ASSUME NEW i \in 1..Len(frames)
      PROVE  r[i] \in Frame /\ r[i].stack = frames[i].stack
  <2>1. CASE i = Len(frames)
    <3>1. r[i] = [frames[i] EXCEPT !.nodes = Tail(frames[i].nodes)]
      BY <1>1, <1>2, <1>7, <2>1
    <3>2. frames[i] \in Frame /\ Tail(frames[i].nodes) \in Seq(Standing)
      BY <1>3, <1>5, <2>1
    <3>3. QED
      BY <3>1, <3>2 DEF Frame
  <2>2. CASE i # Len(frames)
    BY <1>1, <1>7, <2>2
  <2>3. QED
    BY <2>1, <2>2
<1>9. DOMAIN r = 1..Len(frames)
  BY <1>1, <1>7
<1>10. r \in Seq(Frame) /\ Len(r) = Len(frames)
  <2>1. r \in [1..Len(frames) -> Frame]
    BY <1>7, <1>8, <1>9
  <2>2. QED
    BY <1>1, <2>1
<1>11. \A i \in DOMAIN r : Len(r[i].stack) <= MaxDepth /\ IsInjective(r[i].stack)
  BY <1>1, <1>8, <1>9 DEF Framed
<1>12. QED
  BY <1>3, <1>5, <1>6, <1>10, <1>11

LEMMA EnteredFramed ==
  ASSUME NEW r \in Seq(Frame), \A i \in DOMAIN r : Len(r[i].stack) <= MaxDepth /\ IsInjective(r[i].stack),
         NEW f \in Frame, Len(f.stack) <= MaxDepth, IsInjective(f.stack)
  PROVE  /\ Append(r, f) \in Seq(Frame)
         /\ \A i \in DOMAIN Append(r, f) :
              Len(Append(r, f)[i].stack) <= MaxDepth /\ IsInjective(Append(r, f)[i].stack)
<1>1. PICK t : t = Append(r, f)
  OBVIOUS
<1>2. /\ t \in Seq(Frame) /\ DOMAIN t = 1..(Len(r) + 1) /\ Len(r) \in Nat /\ DOMAIN r = 1..Len(r)
      /\ t[Len(r) + 1] = f /\ \A i \in 1..Len(r) : t[i] = r[i]
  BY <1>1
<1>3. ASSUME NEW i \in DOMAIN t PROVE Len(t[i].stack) <= MaxDepth /\ IsInjective(t[i].stack)
  <2>1. i = Len(r) + 1 \/ i \in 1..Len(r)
    BY <1>2
  <2>2. QED
    BY <1>2, <2>1
<1>4. QED
  BY <1>1, <1>2, <1>3

LEMMA NextFramed ==
  ASSUME Framed, Gathered, [PNext]_pvars
  PROVE  Framed'
<1>1. MaxDepth \in Nat /\ Len(<<>>) <= MaxDepth /\ IsInjective(<<>>) /\ <<>> \in Seq(Titles)
      /\ <<>> \in Seq(Guarding)
  BY ProgramAssumption DEF IsInjective
<1>2. ASSUME NEW nodes \in Seq(Standing),
             frames' = <<[nodes |-> nodes, conditions |-> <<>>, stack |-> <<>>]>>
      PROVE  Framed'
  <2>1. PICK f : f = [nodes |-> nodes, conditions |-> <<>>, stack |-> <<>>]
    OBVIOUS
  <2>2. f \in Frame /\ f.stack = <<>>
    BY <1>1, <2>1 DEF Frame
  <2>3. frames' = <<f>>
    BY <1>2, <2>1
  <2>4. frames' \in Seq(Frame) /\ DOMAIN frames' = {1} /\ frames'[1] = f
    BY <2>2, <2>3
  <2>5. QED
    BY <1>1, <2>2, <2>4 DEF Framed
<1>3. ASSUME frames' = <<>> PROVE Framed'
  BY <1>3 DEF Framed
<1>4. ASSUME frames # <<>>, Innermost.nodes # <<>>, frames' = Rest PROVE Framed'
  BY <1>4, RestFramed DEF Framed
<1>5. ASSUME frames # <<>>, Innermost.nodes # <<>>, NEW f \in Frame,
             Len(f.stack) <= MaxDepth, IsInjective(f.stack), frames' = Append(Rest, f)
      PROVE  Framed'
  <2>1. PICK r : r = Rest
    OBVIOUS
  <2>2. /\ r \in Seq(Frame)
        /\ \A i \in DOMAIN r : Len(r[i].stack) <= MaxDepth /\ IsInjective(r[i].stack)
    BY <1>5, <2>1, RestFramed
  <2>3. frames' = Append(r, f)
    BY <1>5, <2>1
  <2>4. PICK t : t = Append(r, f)
    OBVIOUS
  <2>5. /\ t \in Seq(Frame)
        /\ \A i \in DOMAIN t : Len(t[i].stack) <= MaxDepth /\ IsInjective(t[i].stack)
    BY <1>5, <2>2, <2>4, EnteredFramed
  <2>6. QED
    BY <2>3, <2>4, <2>5 DEF Framed
<1>6. ASSUME NEW s \in Statement, Writes(s) PROVE Framed'
  <2>1. s \in Standing
    BY ProgramAssumption DEF Standing
  <2>2. <<s>> \in Seq(Standing)
    BY <2>1
  <2>3. frames' = <<[nodes |-> <<s>>, conditions |-> <<>>, stack |-> <<>>]>>
    BY <1>6 DEF Writes
  <2>4. QED
    BY <1>2, <2>2, <2>3
<1>7. ASSUME NEW names \in Ticked, Ticks(names) PROVE Framed'
  <2>1. PICK lines : lines = [i \in DOMAIN names |->
                        [kind |-> "collect", source |-> names[i], arguments |-> <<>>,
                         from |-> names[i] = "MEMORY"]]
    OBVIOUS
  <2>2. CASE \A i \in DOMAIN names : names[i] \in Selectable
    <3>1. PICK nodes : nodes = <<[kind |-> "case"]>> \o lines
      OBVIOUS
    <3>2. frames' = <<[nodes |-> nodes, conditions |-> <<>>, stack |-> <<>>]>>
      BY <1>7, <2>1, <2>2, <3>1 DEF Ticks
    <3>3. DOMAIN names = 1..Len(names) /\ Len(names) \in Nat
      <4>1. names \in Seq(ToSet(names))
        BY ProgramAssumption
      <4>2. QED
        BY <4>1
    <3>4. \A i \in DOMAIN names : lines[i] \in Standing
      BY <2>1, <2>2 DEF Standing
    <3>5. lines \in Seq(Standing)
      <4>1. lines \in [1..Len(names) -> Standing]
        BY <2>1, <3>3, <3>4
      <4>2. QED
        BY <3>3, <4>1
    <3>6. <<[kind |-> "case"]>> \in Seq(Standing)
      BY DEF Standing
    <3>7. nodes \in Seq(Standing)
      BY <3>1, <3>5, <3>6
    <3>8. QED
      BY <1>2, <3>2, <3>7
  <2>3. CASE ~ \A i \in DOMAIN names : names[i] \in Selectable
    BY <1>3, <1>7, <2>3 DEF Ticks, Rejects
  <2>4. QED
    BY <2>2, <2>3
<1>8. CASE ReadsTarget
  BY <1>4, <1>8 DEF ReadsTarget, Reading, Goes
<1>9. CASE Lets
  <2>1. CASE Known(Read.value)
    BY <1>4, <1>9, <2>1 DEF Lets, Reading, Goes
  <2>2. CASE ~Known(Read.value)
    BY <1>3, <1>9, <2>2 DEF Lets, Rejects
  <2>3. QED
    BY <2>1, <2>2
<1>10. CASE Defines
  <2>1. CASE Read.name \in DOMAIN definitions
    BY <1>3, <1>10, <2>1 DEF Defines, Rejects
  <2>2. CASE Read.name \notin DOMAIN definitions
    BY <1>4, <1>10, <2>2 DEF Defines, Reading, Goes
  <2>3. QED
    BY <2>1, <2>2
<1>11. CASE Runs
  <2>1. CASE MayRun(Read.name)
    <3>1. frames # <<>> /\ Innermost.nodes # <<>> /\ Read.kind = "run"
      BY <1>11 DEF Runs, Reading
    <3>2. PICK name : name = Read.name
      OBVIOUS
    <3>3. /\ Read \in Standing /\ Innermost \in Frame
          /\ Len(Innermost.stack) <= MaxDepth /\ IsInjective(Innermost.stack)
      BY <3>1, RestFramed
    <3>4. name \in Titles
      BY <3>1, <3>2, <3>3, StandingFacts
    <3>5. PICK stack, grown : stack = Innermost.stack /\ grown = Append(stack, name)
      OBVIOUS
    <3>6. /\ name \in DOMAIN definitions /\ name \notin ToSet(stack) /\ Len(stack) < MaxDepth
      BY <2>1, <3>2, <3>5 DEF MayRun
    <3>7. stack \in Seq(Titles) /\ Innermost.conditions \in Seq(Guarding)
      BY <3>3, <3>5 DEF Frame
    <3>8. grown \in Seq(Titles) /\ Len(grown) <= MaxDepth
      BY <1>1, <3>4, <3>5, <3>6, <3>7
    <3>9. IsInjective(grown)
      <4>1. /\ DOMAIN grown = 1..(Len(stack) + 1) /\ Len(stack) \in Nat /\ DOMAIN stack = 1..Len(stack)
            /\ grown[Len(stack) + 1] = name /\ \A i \in 1..Len(stack) : grown[i] = stack[i]
        BY <3>5, <3>7
      <4>2. \A i \in 1..Len(stack) : stack[i] # name
        BY <3>6, <4>1 DEF ToSet
      <4>3. \A i, j \in 1..Len(stack) : stack[i] = stack[j] => i = j
        BY <3>3, <3>5, <4>1 DEF IsInjective
      <4>4. ASSUME NEW i \in DOMAIN grown, NEW j \in DOMAIN grown, grown[i] = grown[j] PROVE i = j
        <5>1. /\ i = Len(stack) + 1 \/ i \in 1..Len(stack)
              /\ j = Len(stack) + 1 \/ j \in 1..Len(stack)
          BY <4>1
        <5>2. QED
          BY <4>1, <4>2, <4>3, <4>4, <5>1
      <4>5. QED
        BY <4>4 DEF IsInjective
    <3>10. PICK f : f = Playbook(name)
      OBVIOUS
    <3>11. f = [nodes |-> definitions[name], conditions |-> Innermost.conditions, stack |-> grown]
      BY <3>5, <3>10 DEF Playbook
    <3>12. definitions[name] \in Seq(Standing)
      BY <3>6 DEF Gathered
    <3>13. f \in Frame /\ f.stack = grown
      BY <3>7, <3>8, <3>11, <3>12 DEF Frame
    <3>14. frames' = Append(Rest, f)
      BY <1>11, <2>1, <3>2, <3>10 DEF Runs, Enters
    <3>15. QED
      BY <1>5, <3>1, <3>8, <3>9, <3>13, <3>14
  <2>2. CASE ~MayRun(Read.name)
    BY <1>3, <1>11, <2>2 DEF Runs, Rejects
  <2>3. QED
    BY <2>1, <2>2
<1>12. CASE Whens
  <2>1. frames # <<>> /\ Innermost.nodes # <<>> /\ Read.kind = "when"
    BY <1>12 DEF Whens, Reading
  <2>2. /\ Read \in Standing /\ Innermost \in Frame
        /\ Len(Innermost.stack) <= MaxDepth /\ IsInjective(Innermost.stack)
    BY <2>1, RestFramed
  <2>3. Read.body \in Seq(Standing) /\ Read.guard \in Guarding
    BY <2>1, <2>2, StandingFacts
  <2>4. PICK guards : guards = Append(Innermost.conditions, Read.guard)
    OBVIOUS
  <2>5. guards \in Seq(Guarding) /\ Innermost.stack \in Seq(Titles)
    <3>1. Innermost.conditions \in Seq(Guarding) /\ Innermost.stack \in Seq(Titles)
      BY <2>2 DEF Frame
    <3>2. QED
      BY <2>3, <2>4, <3>1
  <2>6. PICK f : f = [nodes |-> Read.body, conditions |-> guards, stack |-> Innermost.stack]
    OBVIOUS
  <2>7. f \in Frame /\ f.stack = Innermost.stack
    BY <2>3, <2>5, <2>6 DEF Frame
  <2>8. frames' = Append(Rest, f)
    BY <1>12, <2>4, <2>6 DEF Whens, Enters
  <2>9. QED
    BY <1>5, <2>1, <2>2, <2>7, <2>8
<1>13. CASE Collects
  <2>1. CASE \A i \in DOMAIN Read.arguments : Known(Read.arguments[i])
    BY <1>4, <1>13, <2>1 DEF Collects, Reading, Goes
  <2>2. CASE ~ \A i \in DOMAIN Read.arguments : Known(Read.arguments[i])
    BY <1>3, <1>13, <2>2 DEF Collects, Rejects
  <2>3. QED
    BY <2>1, <2>2
<1>14. CASE Filters
  BY <1>4, <1>14 DEF Filters, Reading, Goes
<1>15. CASE RelatesSubjects
  BY <1>4, <1>15 DEF RelatesSubjects, Reading, Goes
<1>16. CASE Leaves
  <2>1. frames # <<>> /\ frames' = Front(frames) /\ frames \in Seq(Frame)
    BY <1>16 DEF Leaves, Framed
  <2>2. /\ frames' \in Seq(Frame) /\ DOMAIN frames' \subseteq DOMAIN frames
        /\ \A i \in DOMAIN frames' : frames'[i] = frames[i]
    BY <2>1 DEF Front
  <2>3. QED
    BY <2>2 DEF Framed
<1>17. CASE UNCHANGED frames
  BY <1>17 DEF Framed
<1>18. CASE Compiles
  BY <1>17, <1>18 DEF Compiles
<1>19. ASSUME NEW platform \in {"linux", "windows"}, Plans(platform) PROVE Framed'
  BY <1>17, <1>19 DEF Plans
<1>20. ASSUME NEW here \in BOOLEAN, RunsPlan(here) PROVE Framed'
  BY <1>17, <1>20 DEF RunsPlan
<1>21. ASSUME NEW r \in Listed, Lists(r) PROVE Framed'
  BY <1>17, <1>21 DEF Lists
<1>22. CASE UNCHANGED pvars
  BY <1>17, <1>22 DEF pvars
<1>23. QED
  BY <1>6, <1>7, <1>8, <1>9, <1>10, <1>11, <1>12, <1>13, <1>14, <1>15, <1>16, <1>18, <1>19,
     <1>20, <1>21, <1>22 DEF PNext

LEMMA NextGathered ==
  ASSUME Framed, Gathered, [PNext]_pvars
  PROVE  Gathered'
<1>1. ASSUME UNCHANGED <<definitions, collections, correlations, filters, rows>> PROVE Gathered'
  BY <1>1 DEF Gathered
<1>2. CASE \E s \in Statement : Writes(s)
  BY <1>1, <1>2 DEF Writes, ast
<1>3. CASE \E names \in Ticked : Ticks(names)
  BY <1>1, <1>3 DEF Ticks, Rejects, ast
<1>4. CASE ReadsTarget
  BY <1>1, <1>4 DEF ReadsTarget, Goes, ast
<1>5. CASE Lets
  BY <1>1, <1>5 DEF Lets, Goes, Rejects, ast
<1>6. CASE Defines
  <2>1. CASE Read.name \in DOMAIN definitions
    BY <1>1, <1>6, <2>1 DEF Defines, Rejects, ast
  <2>2. CASE Read.name \notin DOMAIN definitions
    <3>1. Read \in Standing /\ Read.kind = "define"
      BY <1>6, RestFramed DEF Defines, Reading
    <3>2. Read.body \in Seq(Standing)
      BY <3>1, StandingFacts
    <3>3. definitions' = Bind(definitions, Read.name, Read.body)
      BY <1>6, <2>2 DEF Defines
    <3>4. \A name \in DOMAIN definitions' : definitions'[name] \in Seq(Standing)
      BY <3>2, <3>3 DEF Gathered, Bind
    <3>5. UNCHANGED <<collections, correlations, filters, rows>>
      BY <1>6, <2>2 DEF Defines, Goes
    <3>6. QED
      BY <3>4, <3>5 DEF Gathered
  <2>3. QED
    BY <2>1, <2>2
<1>7. CASE Runs
  BY <1>1, <1>7 DEF Runs, Enters, Rejects, ast
<1>8. CASE Whens
  BY <1>1, <1>8 DEF Whens, Enters, ast
<1>9. CASE Collects
  <2>1. CASE \A i \in DOMAIN Read.arguments : Known(Read.arguments[i])
    <3>1. PICK c : c = [source |-> Read.source, from |-> Read.from,
                        arguments |-> [i \in DOMAIN Read.arguments |-> Value(Read.arguments[i])],
                        conditions |-> Innermost.conditions]
      OBVIOUS
    <3>2. collections' = Append(collections, c)
      BY <1>9, <2>1, <3>1 DEF Collects
    <3>3. PICK t : t = Append(collections, c)
      OBVIOUS
    <3>4. t \in Seq(ToSet(t))
      BY <3>3, AppendedList DEF Gathered
    <3>5. collections' \in Seq(ToSet(collections'))
      BY <3>2, <3>3, <3>4 DEF ToSet
    <3>6. UNCHANGED <<definitions, correlations, filters, rows>>
      BY <1>9, <2>1 DEF Collects, Goes
    <3>7. correlations' \in Seq(ToSet(correlations'))
      BY <3>6 DEF Gathered, ToSet
    <3>8. QED
      BY <3>5, <3>6, <3>7 DEF Gathered
  <2>2. CASE ~ \A i \in DOMAIN Read.arguments : Known(Read.arguments[i])
    BY <1>1, <1>9, <2>2 DEF Collects, Rejects, ast
  <2>3. QED
    BY <2>1, <2>2
<1>10. CASE Filters
  <2>1. Read \in Standing /\ Read.kind = "filter" /\ Innermost \in Frame
    BY <1>10, RestFramed DEF Filters, Reading
  <2>2. Read.predicate \in Predicate /\ Innermost.conditions \in Seq(Guarding)
    BY <2>1, StandingFacts DEF Frame
  <2>3. PICK f : f = [predicate |-> Read.predicate, conditions |-> Innermost.conditions]
    OBVIOUS
  <2>4. f \in [predicate : Predicate, conditions : Seq(Guarding)]
    BY <2>2, <2>3
  <2>5. filters' = Append(filters, f) /\ UNCHANGED <<definitions, collections, correlations, rows>>
    BY <1>10, <2>3 DEF Filters, Goes
  <2>6. filters' \in Seq([predicate : Predicate, conditions : Seq(Guarding)])
    BY <2>4, <2>5 DEF Gathered
  <2>7. QED
    BY <2>5, <2>6 DEF Gathered
<1>11. CASE RelatesSubjects
  <2>1. PICK c : c = [left |-> Read.left, right |-> Read.right, conditions |-> Innermost.conditions]
    OBVIOUS
  <2>2. correlations' = Append(correlations, c) /\ UNCHANGED <<definitions, collections, filters, rows>>
    BY <1>11, <2>1 DEF RelatesSubjects, Goes
  <2>3. PICK t : t = Append(correlations, c)
    OBVIOUS
  <2>4. t \in Seq(ToSet(t))
    BY <2>3, AppendedList DEF Gathered
  <2>5. correlations' \in Seq(ToSet(correlations'))
    BY <2>2, <2>3, <2>4 DEF ToSet
  <2>6. QED
    BY <2>2, <2>5 DEF Gathered
<1>12. CASE Leaves
  BY <1>1, <1>12 DEF Leaves, ast
<1>13. CASE Compiles
  BY <1>1, <1>13 DEF Compiles, ast
<1>14. CASE \E platform \in {"linux", "windows"} : Plans(platform)
  BY <1>1, <1>14 DEF Plans, ast
<1>15. CASE \E here \in BOOLEAN : RunsPlan(here)
  BY <1>1, <1>15 DEF RunsPlan, ast
<1>16. ASSUME NEW r \in Listed, Lists(r) PROVE Gathered'
  <2>1. rows' \in Seq(Listed) /\ UNCHANGED <<definitions, collections, correlations, filters>>
    BY <1>16 DEF Lists, ast, Gathered
  <2>2. QED
    BY <2>1 DEF Gathered
<1>17. CASE UNCHANGED pvars
  BY <1>1, <1>17 DEF pvars, ast
<1>18. QED
  BY <1>2, <1>3, <1>4, <1>5, <1>6, <1>7, <1>8, <1>9, <1>10, <1>11, <1>12, <1>13, <1>14, <1>15,
     <1>16, <1>17 DEF PNext

-----------------------------------------------------------------------------
(* What compiling and planning keep                                        *)

LEMMA ValidStays ==
  ASSUME UNCHANGED <<written, collections, filters, correlations>>
  PROVE  Valid' <=> Valid
  BY DEF Valid, Requested, Answerable

(* While a text is read nothing is compiled; then the phases follow.       *)
LEMMA PhaseSteps ==
  ASSUME Phased, [PNext]_pvars
  PROVE  /\ phase' \in {"reading", "rejected", "compiled", "planned", "ran"}
         /\ phase' # "reading" => frames' = <<>>
         /\ phase' = "compiled" => Valid
         /\ phase' = "planned" => phase \in {"compiled", "planned"}
         /\ phase' = "ran" => phase \in {"planned", "ran"}
         /\ phase' \in {"compiled", "planned", "ran"} => UNCHANGED <<written, ast>>
<1>1. ASSUME phase = "reading", phase' = "reading" PROVE phase' = "reading"
  BY <1>1
<1>2. CASE \E s \in Statement : Writes(s)
  BY <1>2 DEF Writes
<1>3. CASE \E names \in Ticked : Ticks(names)
  BY <1>3 DEF Ticks, Rejects
<1>4. CASE ReadsTarget
  BY <1>4 DEF ReadsTarget, Reading, Goes
<1>5. CASE Lets
  BY <1>5 DEF Lets, Reading, Goes, Rejects
<1>6. CASE Defines
  BY <1>6 DEF Defines, Reading, Goes, Rejects
<1>7. CASE Runs
  BY <1>7 DEF Runs, Reading, Enters, Rejects
<1>8. CASE Whens
  BY <1>8 DEF Whens, Reading, Enters
<1>9. CASE Collects
  BY <1>9 DEF Collects, Reading, Goes, Rejects
<1>10. CASE Filters
  BY <1>10 DEF Filters, Reading, Goes
<1>11. CASE RelatesSubjects
  BY <1>11 DEF RelatesSubjects, Reading, Goes
<1>12. CASE Leaves
  BY <1>12 DEF Leaves, Phased
<1>13. CASE Compiles
  BY <1>13 DEF Compiles
<1>14. CASE \E platform \in {"linux", "windows"} : Plans(platform)
  BY <1>14 DEF Plans, Phased
<1>15. CASE \E here \in BOOLEAN : RunsPlan(here)
  BY <1>15 DEF RunsPlan, Phased
<1>16. CASE \E r \in Listed : Lists(r)
  BY <1>16 DEF Lists, Phased
<1>17. CASE UNCHANGED pvars
  BY <1>17 DEF pvars, ast, Phased
<1>18. QED
  BY <1>2, <1>3, <1>4, <1>5, <1>6, <1>7, <1>8, <1>9, <1>10, <1>11, <1>12, <1>13, <1>14, <1>15,
     <1>16, <1>17 DEF PNext

LEMMA NextPhased ==
  ASSUME Phased, [PNext]_pvars
  PROVE  Phased'
<1>1. ASSUME phase' \in {"compiled", "planned", "ran"} PROVE Valid'
  <2>1. UNCHANGED <<written, collections, filters, correlations>>
    BY <1>1, PhaseSteps DEF ast
  <2>2. Valid
    BY <1>1, PhaseSteps DEF Phased
  <2>3. QED
    BY <2>1, <2>2, ValidStays
<1>2. QED
  BY <1>1, PhaseSteps DEF Phased

LEMMA NextPlanned ==
  ASSUME Phased, Planned, [PNext]_pvars
  PROVE  Planned'
<1>1. SUFFICES ASSUME phase' \in {"planned", "ran"} PROVE Planned'
  BY DEF Planned
<1>2. UNCHANGED <<collections, filters, correlations>>
  BY <1>1, PhaseSteps DEF ast
<1>3. phase \in {"compiled", "planned", "ran"}
  BY <1>1, PhaseSteps
<1>4. ASSUME NEW platform \in {"linux", "windows"}, Plans(platform) PROVE Planned'
  <2>1. plan' = [platform |-> platform,
                 tasks |-> [i \in DOMAIN collections |-> TaskFor(platform, collections[i])],
                 filters |-> Active(platform, filters),
                 correlations |-> Active(platform, correlations)]
    BY <1>1, <1>4 DEF Plans
  <2>2. /\ plan'.platform = platform
        /\ plan'.tasks = [i \in DOMAIN collections |-> TaskFor(platform, collections[i])]
        /\ plan'.filters = Active(platform, filters)
        /\ plan'.correlations = Active(platform, correlations)
    BY <2>1
  <2>3. QED
    BY <1>2, <2>2 DEF Planned
<1>5. ASSUME phase \in {"planned", "ran"}, UNCHANGED plan PROVE Planned'
  BY <1>2, <1>5 DEF Planned
<1>6. ASSUME NEW here \in BOOLEAN, RunsPlan(here) PROVE Planned'
  BY <1>5, <1>6 DEF RunsPlan
<1>7. ASSUME NEW r \in Listed, Lists(r) PROVE Planned'
  BY <1>5, <1>7 DEF Lists
<1>8. CASE UNCHANGED pvars
  BY <1>1, <1>5, <1>8 DEF pvars
<1>9. CASE Compiles
  BY <1>1, <1>9 DEF Compiles
<1>10. CASE Leaves
  BY <1>3, <1>10 DEF Leaves, Phased
<1>11. QED
  BY <1>3, <1>4, <1>6, <1>7, <1>8, <1>9, <1>10
     DEF PNext, Writes, Ticks, ReadsTarget, Lets, Defines, Runs, Whens, Collects, Filters,
         RelatesSubjects, Reading

-----------------------------------------------------------------------------
(* Following a text                                                        *)

(* A step of a trail, and the trails of a text w whose playbooks are d.    *)
Footing == [node : Standing, place : Nat \ {0}, conditions : Seq(Guarding)]
Unfolds(n, d) == n.kind = "when" \/ (n.kind = "run" /\ n.name \in DOMAIN d)
BlockIn(n, d) == IF n.kind = "when" THEN n.body ELSE d[n.name]
EnteredIn(s, d) == IF Unfolds(s.node, d) THEN StandsIn(BlockIn(s.node, d), Guards(s)) ELSE {}
Trail(t, w, d) ==
    /\ t \in Seq(Footing) /\ Len(t) > 0 /\ t[1] \in StandsIn(w, <<>>)
    /\ \A j \in 1..(Len(t) - 1) : t[j + 1] \in EnteredIn(t[j], d)
Books(d) == \A name \in DOMAIN d : d[name] \in Seq(Standing)

(* How far the reader is: the steps whose blocks are open, and the place   *)
(* in the innermost of them.                                               *)
Stood(f, nodes, conditions, p) ==
    /\ p \in 0..Len(nodes) /\ f.conditions = conditions
    /\ Len(f.nodes) = Len(nodes) - p /\ \A i \in 1..Len(f.nodes) : f.nodes[i] = nodes[p + i]
BlockOf(open, k, w, d) == IF k = 1 THEN w ELSE BlockIn(open[k - 1].node, d)
Around(open, k) == IF k = 1 THEN <<>> ELSE Guards(open[k - 1])
PlaceOf(open, p, k) == IF k \in DOMAIN open THEN open[k].place ELSE p
Located(open, p, f, w, d) ==
    /\ open \in Seq(Footing) /\ p \in Nat /\ Len(f) = Len(open) + 1
    /\ open # <<>> => Trail(open, w, d)
    /\ \A k \in DOMAIN open : Unfolds(open[k].node, d)
    /\ \A k \in 1..Len(f) : Stood(f[k], BlockOf(open, k, w, d), Around(open, k), PlaceOf(open, p, k))

(* The trails that end where the reader has been, n blocks being open.     *)
Passed(t, open, p, n) ==
    \A k \in DOMAIN t : k <= n /\ (\A i \in 1..(k - 1) : t[i] = open[i])
                        => t[k].place <= PlaceOf(open, p, k)
Explored(open, p, n, w, d) == {t \in Seq(Footing) : Trail(t, w, d) /\ Passed(t, open, p, n)}

LEMMA GuardsTyped ==
  ASSUME NEW s \in Footing
  PROVE  Guards(s) \in Seq(Guarding)
<1>1. s.conditions \in Seq(Guarding) /\ s.node \in Standing
  BY DEF Footing
<1>2. s.node.kind = "when" => s.node.guard \in Guarding
  BY <1>1, StandingFacts
<1>3. QED
  BY <1>1, <1>2 DEF Guards

LEMMA BlockTyped ==
  ASSUME NEW n \in Standing, NEW d, Books(d), Unfolds(n, d)
  PROVE  BlockIn(n, d) \in Seq(Standing)
  BY StandingFacts DEF Unfolds, BlockIn, Books

(* A step that stands in a block is known by its place.                    *)
LEMMA StandsAt ==
  ASSUME NEW nodes \in Seq(Standing), NEW c \in Seq(Guarding), NEW s
  PROVE  s \in StandsIn(nodes, c) <=>
            /\ s \in Footing /\ s.place \in 1..Len(nodes)
            /\ s.node = nodes[s.place] /\ s.conditions = c
<1>1. DOMAIN nodes = 1..Len(nodes) /\ Len(nodes) \in Nat /\ \A i \in 1..Len(nodes) : nodes[i] \in Standing
  OBVIOUS
<1>2. ASSUME s \in StandsIn(nodes, c)
      PROVE  /\ s \in Footing /\ s.place \in 1..Len(nodes)
             /\ s.node = nodes[s.place] /\ s.conditions = c
  <2>1. PICK i \in 1..Len(nodes) : s = [node |-> nodes[i], place |-> i, conditions |-> c]
    BY <1>1, <1>2 DEF StandsIn
  <2>2. QED
    BY <1>1, <2>1 DEF Footing
<1>3. ASSUME s \in Footing, s.place \in 1..Len(nodes), s.node = nodes[s.place], s.conditions = c
      PROVE  s \in StandsIn(nodes, c)
  <2>1. s = [node |-> s.node, place |-> s.place, conditions |-> s.conditions]
    BY <1>3 DEF Footing
  <2>2. QED
    BY <1>1, <1>3, <2>1 DEF StandsIn
<1>4. QED
  BY <1>2, <1>3

LEMMA EntersAt ==
  ASSUME NEW s \in Footing, NEW d, Books(d), NEW r
  PROVE  r \in EnteredIn(s, d) <=>
            /\ Unfolds(s.node, d)
            /\ r \in Footing /\ r.place \in 1..Len(BlockIn(s.node, d))
            /\ r.node = BlockIn(s.node, d)[r.place] /\ r.conditions = Guards(s)
<1>1. CASE Unfolds(s.node, d)
  <2>1. BlockIn(s.node, d) \in Seq(Standing) /\ Guards(s) \in Seq(Guarding)
    BY <1>1, BlockTyped, GuardsTyped DEF Footing
  <2>2. r \in EnteredIn(s, d) <=> r \in StandsIn(BlockIn(s.node, d), Guards(s))
    BY <1>1 DEF EnteredIn
  <2>3. QED
    BY <1>1, <2>1, <2>2, StandsAt
<1>2. CASE ~Unfolds(s.node, d)
  BY <1>2 DEF EnteredIn
<1>3. QED
  BY <1>1, <1>2

LEMMA TrailTyped ==
  ASSUME NEW t \in Seq(Footing)
  PROVE  /\ DOMAIN t = 1..Len(t) /\ Len(t) \in Nat
         /\ \A k \in DOMAIN t : /\ t[k] \in Footing /\ t[k].place \in Nat \ {0}
                               /\ t[k].node \in Standing
<1>1. DOMAIN t = 1..Len(t) /\ Len(t) \in Nat /\ \A k \in 1..Len(t) : t[k] \in Footing
  BY ListFacts
<1>2. \A s \in Footing : s.place \in Nat \ {0} /\ s.node \in Standing
  BY DEF Footing
<1>3. QED
  BY <1>1, <1>2

LEMMA FootingSame ==
  ASSUME NEW r \in Footing, NEW s \in Footing,
         r.node = s.node, r.place = s.place, r.conditions = s.conditions
  PROVE  r = s
  BY DEF Footing

(* What leads to a place leads there only once.                            *)
LEMMA SameStep ==
  ASSUME NEW w \in Seq(Standing), NEW d, Books(d),
         NEW t, Trail(t, w, d), NEW u, Trail(u, w, d)
  PROVE  \A j \in DOMAIN t \cap DOMAIN u :
            (\A i \in 1..(j - 1) : t[i] = u[i]) /\ t[j].place = u[j].place => t[j] = u[j]
<1> SUFFICES ASSUME NEW k \in DOMAIN t \cap DOMAIN u, \A i \in 1..(k - 1) : t[i] = u[i],
                    t[k].place = u[k].place
             PROVE  t[k] = u[k]
  OBVIOUS
<1>1. /\ DOMAIN t = 1..Len(t) /\ Len(t) \in Nat /\ \A i \in 1..Len(t) : t[i] \in Footing
      /\ DOMAIN u = 1..Len(u) /\ Len(u) \in Nat /\ \A i \in 1..Len(u) : u[i] \in Footing
  BY DEF Trail
<1>2. CASE k = 1
  <2>1. t[1] \in StandsIn(w, <<>>) /\ u[1] \in StandsIn(w, <<>>)
    BY DEF Trail
  <2>2. <<>> \in Seq(Guarding)
    OBVIOUS
  <2>3. PICK c : c = <<>>
    OBVIOUS
  <2>4. ASSUME NEW s \in StandsIn(w, c)
        PROVE  s \in Footing /\ s.node = w[s.place] /\ s.conditions = c
    <3>1. c \in Seq(Guarding)
      BY <2>2, <2>3
    <3>2. /\ s \in StandsIn(w, c)
             <=> /\ s \in Footing /\ s.place \in 1..Len(w)
                 /\ s.node = w[s.place] /\ s.conditions = c
      BY <3>1, StandsAt
    <3>3. QED
      BY <2>4, <3>2
  <2>5. t[1] = u[1]
    BY <1>2, <2>1, <2>3, <2>4, FootingSame
  <2>6. QED
    BY <1>2, <2>5
<1>3. CASE k # 1
  <2>1. /\ k - 1 \in 1..(Len(t) - 1) /\ k - 1 \in 1..(Len(u) - 1) /\ k - 1 \in 1..Len(t)
        /\ (k - 1) + 1 = k /\ k - 1 \in 1..(k - 1)
    BY <1>1, <1>3
  <2>2. t[k] \in EnteredIn(t[k - 1], d) /\ u[k] \in EnteredIn(t[k - 1], d) /\ t[k - 1] \in Footing
    BY <1>1, <2>1 DEF Trail
  <2>3. QED
    BY <1>1, <2>2, EntersAt, FootingSame
<1>4. QED
  BY <1>2, <1>3

(* A trail goes one step further.                                          *)
LEMMA TrailGrows ==
  ASSUME NEW w \in Seq(Standing), NEW d, Books(d), NEW open \in Seq(Footing),
         open # <<>> => Trail(open, w, d), NEW s \in Footing,
         open = <<>> => s \in StandsIn(w, <<>>),
         open # <<>> => s \in EnteredIn(open[Len(open)], d)
  PROVE  Trail(Append(open, s), w, d)
<1>1. PICK u : u = Append(open, s)
  OBVIOUS
<1>2. /\ u \in Seq(Footing) /\ Len(u) = Len(open) + 1 /\ Len(open) \in Nat
      /\ u[Len(open) + 1] = s /\ \A i \in 1..Len(open) : u[i] = open[i]
  BY <1>1
<1>3. CASE open = <<>>
  BY <1>1, <1>2, <1>3 DEF Trail
<1>4. CASE open # <<>>
  <2>1. Len(open) > 0
    BY <1>4
  <2>2. u[1] = open[1] /\ open[1] \in StandsIn(w, <<>>)
    BY <1>2, <1>4, <2>1 DEF Trail
  <2>3. ASSUME NEW j \in 1..(Len(u) - 1) PROVE u[j + 1] \in EnteredIn(u[j], d)
    <3>1. CASE j = Len(open)
      BY <1>2, <1>4, <2>1, <3>1
    <3>2. CASE j # Len(open)
      <4>1. j \in 1..(Len(open) - 1) /\ j \in 1..Len(open) /\ j + 1 \in 1..Len(open)
        BY <1>2, <2>3, <3>2
      <4>2. open[j + 1] \in EnteredIn(open[j], d)
        BY <1>4, <4>1 DEF Trail
      <4>3. QED
        BY <1>2, <4>1, <4>2
    <3>3. QED
      BY <3>1, <3>2
  <2>4. QED
    BY <1>1, <1>2, <2>2, <2>3 DEF Trail
<1>5. QED
  BY <1>3, <1>4

(* The next statement of the innermost block, as a step.                   *)
NextStep(f, p) ==
    [node |-> Head(f[Len(f)].nodes), place |-> p + 1, conditions |-> f[Len(f)].conditions]

LEMMA SameList ==
  ASSUME NEW S, NEW t \in Seq(S), NEW u \in Seq(S), Len(t) = Len(u),
         \A i \in 1..Len(t) : t[i] = u[i]
  PROVE  t = u
  OBVIOUS

LEMMA NextTrail ==
  ASSUME NEW w \in Seq(Standing), NEW d, Books(d), NEW f \in Seq(Frame), f # <<>>,
         NEW open, NEW p, Located(open, p, f, w, d), f[Len(f)].nodes # <<>>
  PROVE  LET s == NextStep(f, p)
             b == BlockOf(open, Len(f), w, d)
         IN  /\ s \in Footing /\ Trail(Append(open, s), w, d)
             /\ b \in Seq(Standing) /\ p + 1 \in 1..Len(b) /\ s.node = b[p + 1]
             /\ s.node = f[Len(f)].nodes[1]
             /\ s.place = p + 1 /\ s.conditions = Around(open, Len(f))
<1>1. PICK n : n = Len(f)
  OBVIOUS
<1>2. /\ n \in Nat \ {0} /\ n \in 1..Len(f) /\ DOMAIN f = 1..n /\ f[n] \in Frame
      /\ open \in Seq(Footing) /\ Len(open) = n - 1 /\ DOMAIN open = 1..(n - 1) /\ p \in Nat
  BY <1>1 DEF Located
<1>3. PICK b : b = BlockOf(open, n, w, d)
  OBVIOUS
<1>4. b \in Seq(Standing) /\ Around(open, n) \in Seq(Guarding)
  <2>1. CASE n = 1
    BY <1>3, <2>1 DEF BlockOf, Around
  <2>2. CASE n # 1
    <3>1. n - 1 \in DOMAIN open /\ open[n - 1] \in Footing
      BY <1>2, <2>2
    <3>2. Unfolds(open[n - 1].node, d)
      BY <3>1 DEF Located
    <3>3. open[n - 1].node \in Standing
      BY <3>1 DEF Footing
    <3>4. QED
      BY <1>3, <2>2, <3>1, <3>2, <3>3, BlockTyped, GuardsTyped DEF BlockOf, Around
  <2>3. QED
    BY <2>1, <2>2
<1>5. Stood(f[n], b, Around(open, n), p)
  <2>1. n \notin DOMAIN open
    BY <1>2
  <2>2. QED
    BY <1>1, <1>2, <1>3, <2>1 DEF Located, PlaceOf
<1>6. PICK ns : ns = f[n].nodes
  OBVIOUS
<1>7. ns \in Seq(Standing) /\ ns # <<>> /\ Head(ns) = ns[1] /\ Len(ns) >= 1 /\ Len(ns) \in Nat
      /\ Len(b) \in Nat
  BY <1>1, <1>2, <1>4, <1>6 DEF Frame
<1>8. p + 1 \in 1..Len(b) /\ ns[1] = b[p + 1] /\ b[p + 1] \in Standing
  BY <1>2, <1>4, <1>5, <1>6, <1>7 DEF Stood
<1>9. PICK s : s = NextStep(f, p)
  OBVIOUS
<1>10. s = [node |-> b[p + 1], place |-> p + 1, conditions |-> Around(open, n)]
  BY <1>1, <1>5, <1>6, <1>7, <1>8, <1>9 DEF NextStep, Stood
<1>11. s \in Footing
  BY <1>2, <1>4, <1>8, <1>10 DEF Footing
<1>12. open = <<>> => s \in StandsIn(w, <<>>)
  <2>1. ASSUME open = <<>> PROVE s \in StandsIn(w, <<>>)
    <3>1. n = 1 /\ <<>> \in Seq(Guarding)
      BY <1>2, <2>1
    <3>2. b = w /\ Around(open, n) = <<>>
      BY <1>3, <3>1 DEF BlockOf, Around
    <3>3. QED
      BY <1>8, <1>10, <1>11, <3>1, <3>2, StandsAt
  <2>2. QED
    BY <2>1
<1>13. open # <<>> => s \in EnteredIn(open[Len(open)], d)
  <2>1. ASSUME open # <<>> PROVE s \in EnteredIn(open[n - 1], d)
    <3>1. n # 1 /\ n - 1 \in DOMAIN open /\ open[n - 1] \in Footing
      BY <1>2, <2>1
    <3>2. Unfolds(open[n - 1].node, d)
      BY <3>1 DEF Located
    <3>3. b = BlockIn(open[n - 1].node, d) /\ Around(open, n) = Guards(open[n - 1])
      BY <1>3, <3>1 DEF BlockOf, Around
    <3>4. QED
      BY <1>8, <1>10, <1>11, <3>1, <3>2, <3>3, EntersAt
  <2>2. QED
    BY <1>2, <2>1
<1>14. Trail(Append(open, s), w, d)
  BY <1>2, <1>11, <1>12, <1>13, TrailGrows DEF Located
<1>15. QED
  BY <1>1, <1>3, <1>4, <1>6, <1>8, <1>9, <1>10, <1>11, <1>14

(* Reading a statement that opens no block explores just that statement.   *)
LEMMA ReadsOne ==
  ASSUME NEW w \in Seq(Standing), NEW d, Books(d), NEW f \in Seq(Frame), f # <<>>,
         NEW open, NEW p, Located(open, p, f, w, d), f[Len(f)].nodes # <<>>,
         ~Unfolds(NextStep(f, p).node, d)
  PROVE  Explored(open, p + 1, Len(f), w, d)
            = Explored(open, p, Len(f), w, d) \cup {Append(open, NextStep(f, p))}
<1>1. PICK n : n = Len(f)
  OBVIOUS
<1>2. PICK s, u : s = NextStep(f, p) /\ u = Append(open, s)
  OBVIOUS
<1>3. s \in Footing /\ Trail(u, w, d) /\ s.place = p + 1 /\ ~Unfolds(s.node, d)
  BY <1>2, NextTrail
<1>4. /\ n \in Nat \ {0} /\ open \in Seq(Footing) /\ DOMAIN open = 1..(n - 1) /\ Len(open) = n - 1
      /\ p \in Nat
  BY <1>1 DEF Located
<1>5. /\ u \in Seq(Footing) /\ Len(u) = n /\ DOMAIN u = 1..n /\ u[n] = s
      /\ \A i \in 1..(n - 1) : u[i] = open[i]
  BY <1>2, <1>3, <1>4
<1>6. /\ \A k \in 1..(n - 1) : PlaceOf(open, p, k) = u[k].place /\ PlaceOf(open, p + 1, k) = u[k].place
      /\ PlaceOf(open, p, n) = p /\ PlaceOf(open, p + 1, n) = p + 1
      /\ \A k \in 1..(n - 1) : u[k].place \in Nat
  BY <1>4, <1>5, TrailTyped DEF PlaceOf
<1>7. ASSUME NEW t \in Seq(Footing), Passed(t, open, p, n) PROVE Passed(t, open, p + 1, n)
  <2>1. DOMAIN t \subseteq Nat \ {0} /\ \A k \in DOMAIN t : t[k].place \in Nat
    BY TrailTyped
  <2>2. ASSUME NEW k \in DOMAIN t, k <= n, \A i \in 1..(k - 1) : t[i] = open[i]
        PROVE  t[k].place <= PlaceOf(open, p + 1, k)
    <3>1. t[k].place <= PlaceOf(open, p, k)
      BY <1>7, <2>2 DEF Passed
    <3>2. k \in 1..(n - 1) \/ k = n
      BY <1>4, <2>1, <2>2
    <3>3. CASE k \in 1..(n - 1)
      BY <1>6, <3>1, <3>3
    <3>4. CASE k = n
      <4>1. t[n].place <= p /\ t[n].place \in Nat
        BY <1>6, <2>1, <3>1, <3>4
      <4>2. QED
        BY <1>4, <1>6, <3>4, <4>1
    <3>5. QED
      BY <3>2, <3>3, <3>4
  <2>3. QED
    BY <2>2 DEF Passed
<1>8. Passed(u, open, p + 1, n)
  <2>1. \A k \in 1..n : u[k].place <= PlaceOf(open, p + 1, k)
    BY <1>3, <1>4, <1>5, <1>6
  <2>2. QED
    BY <1>5, <2>1 DEF Passed
<1>9. ASSUME NEW t \in Seq(Footing), Trail(t, w, d), Passed(t, open, p + 1, n), ~Passed(t, open, p, n)
      PROVE  t = u
  <2>1. /\ DOMAIN t = 1..Len(t) /\ Len(t) \in Nat
        /\ \A k \in DOMAIN t : t[k] \in Footing /\ t[k].place \in Nat
    BY TrailTyped
  <2>2. PICK k \in DOMAIN t : /\ k <= n /\ (\A i \in 1..(k - 1) : t[i] = open[i])
                              /\ ~(t[k].place <= PlaceOf(open, p, k))
    BY <1>9 DEF Passed
  <2>3. t[k].place <= PlaceOf(open, p + 1, k)
    BY <1>9, <2>2 DEF Passed
  <2>4. k = n
    <3>1. k \in 1..(n - 1) \/ k = n
      BY <1>4, <2>1, <2>2
    <3>2. QED
      BY <1>6, <2>2, <2>3, <3>1
  <2>5. t[n].place = p + 1
    <3>1. /\ ~(t[n].place <= p) /\ t[n].place <= p + 1 /\ t[n].place \in Nat
      BY <1>6, <2>1, <2>2, <2>3, <2>4
    <3>2. QED
      BY <1>4, <3>1
  <2>6. \A i \in 1..(n - 1) : t[i] = u[i]
    BY <1>5, <2>2, <2>4
  <2>7. n \in DOMAIN t /\ n \in DOMAIN u /\ u[n].place = p + 1
    BY <1>3, <1>4, <1>5, <2>2, <2>4
  <2>8. t[n] = u[n]
    <3>1. t[n].place = u[n].place
      BY <2>5, <2>7
    <3>2. QED
      <4>1. \A j \in DOMAIN t \cap DOMAIN u :
               (\A i \in 1..(j - 1) : t[i] = u[i]) /\ t[j].place = u[j].place => t[j] = u[j]
        <5>1. PICK v : v = u
          OBVIOUS
        <5>2. Trail(t, w, d) /\ Trail(v, w, d)
          BY <1>3, <1>9, <5>1
        <5>3. \A j \in DOMAIN t \cap DOMAIN v :
                 (\A i \in 1..(j - 1) : t[i] = v[i]) /\ t[j].place = v[j].place => t[j] = v[j]
          BY <5>2, SameStep
        <5>4. QED
          BY <5>1, <5>3
      <4>2. QED
        BY <2>6, <2>7, <3>1, <4>1
  <2>9. Len(t) = n
    <3>1. ASSUME Len(t) # n PROVE FALSE
      <4>1. n \in 1..(Len(t) - 1)
        <5>1. Len(t) \in Nat /\ n \in 1..Len(t) /\ n # Len(t)
          BY <2>1, <2>7, <3>1
        <5>2. QED
          BY <1>4, <5>1
      <4>2. t[n + 1] \in EnteredIn(s, d)
        BY <1>5, <1>9, <2>8, <4>1 DEF Trail
      <4>3. QED
        BY <1>3, <4>2 DEF EnteredIn
    <3>2. QED
      BY <3>1
  <2>10. \A i \in 1..n : t[i] = u[i]
    BY <1>4, <2>6, <2>8
  <2>11. QED
    BY <1>5, <2>9, <2>10, SameList
<1>10. QED
  BY <1>1, <1>2, <1>3, <1>5, <1>7, <1>8, <1>9 DEF Explored

(* So does opening a block.                                                *)
LEMMA EntersOne ==
  ASSUME NEW w \in Seq(Standing), NEW d, Books(d), NEW f \in Seq(Frame), f # <<>>,
         NEW open, NEW p, Located(open, p, f, w, d), f[Len(f)].nodes # <<>>
  PROVE  Explored(Append(open, NextStep(f, p)), 0, Len(f) + 1, w, d)
            = Explored(open, p, Len(f), w, d) \cup {Append(open, NextStep(f, p))}
<1>1. PICK n : n = Len(f)
  OBVIOUS
<1>2. PICK s, u : s = NextStep(f, p) /\ u = Append(open, s)
  OBVIOUS
<1>3. s \in Footing /\ Trail(u, w, d) /\ s.place = p + 1
  BY <1>2, NextTrail
<1>4. /\ n \in Nat \ {0} /\ open \in Seq(Footing) /\ DOMAIN open = 1..(n - 1) /\ Len(open) = n - 1
      /\ p \in Nat
  BY <1>1 DEF Located
<1>5. /\ u \in Seq(Footing) /\ Len(u) = n /\ DOMAIN u = 1..n /\ u[n] = s
      /\ \A i \in 1..(n - 1) : u[i] = open[i]
  BY <1>2, <1>3, <1>4
<1>6. /\ \A k \in 1..(n - 1) : PlaceOf(open, p, k) = u[k].place
      /\ PlaceOf(open, p, n) = p
      /\ \A k \in 1..n : PlaceOf(u, 0, k) = u[k].place
      /\ PlaceOf(u, 0, n + 1) = 0
      /\ \A k \in 1..n : u[k].place \in Nat
  <2>1. \A k \in 1..n : u[k].place \in Nat
    BY <1>5, TrailTyped
  <2>2. n \notin 1..(n - 1) /\ n + 1 \notin 1..n
    BY <1>4
  <2>3. QED
    BY <1>4, <1>5, <2>1, <2>2 DEF PlaceOf
<1>7. ASSUME NEW t \in Seq(Footing), Passed(t, open, p, n) PROVE Passed(t, u, 0, n + 1)
  <2>1. DOMAIN t \subseteq Nat \ {0} /\ \A k \in DOMAIN t : t[k].place \in Nat
    BY TrailTyped
  <2>2. ASSUME NEW k \in DOMAIN t, k <= n + 1, \A i \in 1..(k - 1) : t[i] = u[i]
        PROVE  t[k].place <= PlaceOf(u, 0, k)
    <3>1. CASE k <= n
      <4>1. \A i \in 1..(k - 1) : t[i] = open[i]
        BY <1>4, <1>5, <2>1, <2>2, <3>1
      <4>2. t[k].place <= PlaceOf(open, p, k)
        BY <1>7, <2>2, <3>1, <4>1 DEF Passed
      <4>3. k \in 1..(n - 1) \/ k = n
        BY <1>4, <2>1, <2>2, <3>1
      <4>4. QED
        <5>1. CASE k \in 1..(n - 1)
          <6>1. k \in 1..n
            BY <1>4, <5>1
          <6>2. QED
            BY <1>6, <4>2, <5>1, <6>1
        <5>2. CASE k = n
          <6>1. PlaceOf(u, 0, n) = p + 1 /\ t[n].place <= p /\ t[n].place \in Nat
            BY <1>3, <1>4, <1>5, <1>6, <2>1, <2>2, <4>2, <5>2
          <6>2. QED
            BY <1>4, <5>2, <6>1
        <5>3. QED
          BY <4>3, <5>1, <5>2
    <3>2. CASE ~(k <= n)
      <4>1. k = n + 1 /\ n \in 1..(k - 1)
        BY <1>4, <2>1, <2>2, <3>2
      <4>2. t[n] = s /\ n \in DOMAIN t /\ \A i \in 1..(n - 1) : t[i] = open[i]
        BY <1>4, <1>5, <2>2, <4>1
      <4>3. t[n].place <= p
        BY <1>4, <1>6, <1>7, <4>2 DEF Passed
      <4>4. QED
        BY <1>3, <1>4, <4>2, <4>3
    <3>3. QED
      BY <3>1, <3>2
  <2>3. QED
    BY <2>2 DEF Passed
<1>8. Passed(u, u, 0, n + 1)
  BY <1>5, <1>6 DEF Passed
<1>9. ASSUME NEW t \in Seq(Footing), Trail(t, w, d), Passed(t, u, 0, n + 1), ~Passed(t, open, p, n)
      PROVE  t = u
  <2>1. /\ DOMAIN t = 1..Len(t) /\ Len(t) \in Nat
        /\ \A k \in DOMAIN t : t[k] \in Footing /\ t[k].place \in Nat \ {0}
    BY TrailTyped
  <2>2. PICK k \in DOMAIN t : /\ k <= n /\ (\A i \in 1..(k - 1) : t[i] = open[i])
                              /\ ~(t[k].place <= PlaceOf(open, p, k))
    BY <1>9 DEF Passed
  <2>3. \A i \in 1..(k - 1) : t[i] = u[i]
    BY <1>4, <1>5, <2>1, <2>2
  <2>4. t[k].place <= u[k].place
    <3>1. k <= n + 1 /\ k \in 1..n
      BY <1>4, <2>1, <2>2
    <3>2. t[k].place <= PlaceOf(u, 0, k)
      BY <1>9, <2>3, <3>1 DEF Passed
    <3>3. QED
      BY <1>6, <3>1, <3>2
  <2>5. k = n
    <3>1. k \in 1..(n - 1) \/ k = n
      BY <1>4, <2>1, <2>2
    <3>2. QED
      BY <1>6, <2>2, <2>4, <3>1
  <2>6. t[n].place = p + 1
    <3>1. t[n].place <= p + 1
      BY <1>3, <1>5, <2>4, <2>5
    <3>2. ~(t[n].place <= p) /\ t[n].place \in Nat
      BY <1>6, <2>1, <2>2, <2>5
    <3>3. QED
      BY <1>4, <3>1, <3>2
  <2>7. n \in DOMAIN t /\ n \in DOMAIN u /\ u[n].place = p + 1 /\ \A i \in 1..(n - 1) : t[i] = u[i]
    BY <1>3, <1>4, <1>5, <2>2, <2>3, <2>5
  <2>8. t[n] = u[n]
    <3>1. t[n].place = u[n].place
      BY <2>6, <2>7
    <3>2. QED
      <4>1. \A j \in DOMAIN t \cap DOMAIN u :
               (\A i \in 1..(j - 1) : t[i] = u[i]) /\ t[j].place = u[j].place => t[j] = u[j]
        <5>1. PICK v : v = u
          OBVIOUS
        <5>2. Trail(t, w, d) /\ Trail(v, w, d)
          BY <1>3, <1>9, <5>1
        <5>3. \A j \in DOMAIN t \cap DOMAIN v :
                 (\A i \in 1..(j - 1) : t[i] = v[i]) /\ t[j].place = v[j].place => t[j] = v[j]
          BY <5>2, SameStep
        <5>4. QED
          BY <5>1, <5>3
      <4>2. QED
        BY <2>7, <3>1, <4>1
  <2>9. Len(t) = n
    <3>1. ASSUME Len(t) # n PROVE FALSE
      <4>1. n + 1 \in DOMAIN t /\ n + 1 <= n + 1 /\ (n + 1) - 1 = n
        <5>1. PICK l : l = Len(t)
          OBVIOUS
        <5>2. l \in Nat /\ n \in 1..l /\ n # l /\ DOMAIN t = 1..l
          BY <2>1, <2>7, <3>1, <5>1
        <5>3. n + 1 \in 1..l /\ n + 1 <= n + 1 /\ (n + 1) - 1 = n
          BY <1>4, <5>2
        <5>4. QED
          BY <5>2, <5>3
      <4>2. \A i \in 1..((n + 1) - 1) : t[i] = u[i]
        BY <1>4, <2>7, <2>8
      <4>3. t[n + 1].place <= PlaceOf(u, 0, n + 1)
        BY <1>9, <4>1, <4>2 DEF Passed
      <4>4. QED
        BY <1>6, <2>1, <4>1, <4>3
    <3>2. QED
      BY <3>1
  <2>10. \A i \in 1..n : t[i] = u[i]
    BY <1>4, <2>7, <2>8
  <2>11. QED
    BY <1>5, <2>9, <2>10, SameList
<1>10. QED
  BY <1>1, <1>2, <1>3, <1>5, <1>7, <1>8, <1>9 DEF Explored

(* What is left once the first is taken.                                   *)
LEMMA TailFacts ==
  ASSUME NEW S, NEW t \in Seq(S), t # <<>>
  PROVE  /\ Len(t) \in Nat \ {0} /\ Len(Tail(t)) = Len(t) - 1
         /\ \A i \in 1..Len(Tail(t)) : Tail(t)[i] = t[i + 1]
  OBVIOUS

(* Where the reader is then.                                               *)
LEMMA ReadsLocated ==
  ASSUME NEW w, NEW d, NEW f \in Seq(Frame), f # <<>>,
         NEW open, NEW p, Located(open, p, f, w, d), f[Len(f)].nodes # <<>>,
         NEW g \in Seq(Frame), Len(g) = Len(f), \A i \in 1..(Len(f) - 1) : g[i] = f[i],
         g[Len(f)].nodes = Tail(f[Len(f)].nodes), g[Len(f)].conditions = f[Len(f)].conditions
  PROVE  Located(open, p + 1, g, w, d)
<1>1. PICK n : n = Len(f)
  OBVIOUS
<1>2. /\ n \in Nat \ {0} /\ n \in 1..Len(f) /\ DOMAIN f = 1..n /\ f[n] \in Frame
      /\ open \in Seq(Footing) /\ Len(open) = n - 1 /\ DOMAIN open = 1..(n - 1) /\ p \in Nat
      /\ \A k \in 1..n : Stood(f[k], BlockOf(open, k, w, d), Around(open, k), PlaceOf(open, p, k))
  BY <1>1 DEF Located
<1>3. PICK b, c : b = BlockOf(open, n, w, d) /\ c = Around(open, n)
  OBVIOUS
<1>4. Stood(g[n], b, c, p + 1)
  <2>1. PICK ns, ms : ns = f[n].nodes /\ ms = g[n].nodes
    OBVIOUS
  <2>2. /\ ns \in Seq(Standing) /\ ns # <<>> /\ ms = Tail(ns) /\ Len(ns) \in Nat \ {0}
        /\ Len(ms) = Len(ns) - 1 /\ \A i \in 1..Len(ms) : ms[i] = ns[i + 1]
    <3>1. ns \in Seq(Standing) /\ ns # <<>> /\ ms = Tail(ns)
      BY <1>1, <1>2, <2>1 DEF Frame
    <3>2. QED
      BY <3>1, TailFacts
  <2>3. Stood(f[n], b, c, p)
    <3>1. PlaceOf(open, p, n) = p
      BY <1>2 DEF PlaceOf
    <3>2. QED
      BY <1>2, <1>3, <3>1
  <2>4. /\ p \in 0..Len(b) /\ Len(ns) = Len(b) - p /\ \A i \in 1..Len(ns) : ns[i] = b[p + i]
        /\ g[n].conditions = c
    BY <1>1, <2>1, <2>3 DEF Stood
  <2>5. p + 1 \in 0..Len(b) /\ Len(ms) = Len(b) - (p + 1)
    BY <1>2, <2>2, <2>4
  <2>6. ASSUME NEW i \in 1..Len(ms) PROVE ms[i] = b[(p + 1) + i]
    <3>1. i + 1 \in 1..Len(ns) /\ p + (i + 1) = (p + 1) + i
      <4>1. p \in Nat /\ Len(ns) \in Nat \ {0} /\ i \in 1..(Len(ns) - 1)
        BY <1>2, <2>2, <2>6
      <4>2. QED
        BY <4>1
    <3>2. ms[i] = ns[i + 1] /\ ns[i + 1] = b[p + (i + 1)]
      BY <2>2, <2>4, <2>6, <3>1
    <3>3. QED
      BY <3>1, <3>2
  <2>7. QED
    BY <2>1, <2>4, <2>5, <2>6 DEF Stood
<1>5. ASSUME NEW k \in 1..n
      PROVE  Stood(g[k], BlockOf(open, k, w, d), Around(open, k), PlaceOf(open, p + 1, k))
  <2>1. CASE k = n
    <3>1. PlaceOf(open, p + 1, n) = p + 1
      BY <1>2 DEF PlaceOf
    <3>2. QED
      BY <1>3, <1>4, <2>1, <3>1
  <2>2. CASE k # n
    <3>1. k \in 1..(n - 1) /\ PlaceOf(open, p + 1, k) = PlaceOf(open, p, k)
      BY <1>2, <2>2 DEF PlaceOf
    <3>2. g[k] = f[k]
      BY <1>1, <3>1
    <3>3. QED
      BY <1>2, <3>1, <3>2
  <2>3. QED
    BY <2>1, <2>2
<1>6. QED
  BY <1>1, <1>2, <1>5 DEF Located

(* A block that is opened is read from its first statement.                *)
LEMMA EntersLocated ==
  ASSUME NEW w \in Seq(Standing), NEW d, Books(d), NEW f \in Seq(Frame), f # <<>>,
         NEW open, NEW p, Located(open, p, f, w, d), f[Len(f)].nodes # <<>>,
         NEW g \in Seq(Frame), Len(g) = Len(f), \A i \in 1..(Len(f) - 1) : g[i] = f[i],
         g[Len(f)].nodes = Tail(f[Len(f)].nodes), g[Len(f)].conditions = f[Len(f)].conditions,
         NEW s, s = NextStep(f, p), Unfolds(s.node, d),
         NEW e \in Frame, e.nodes = BlockIn(s.node, d), e.conditions = Guards(s)
  PROVE  Located(Append(open, s), 0, Append(g, e), w, d)
<1>1. PICK n : n = Len(f)
  OBVIOUS
<1>2. Located(open, p + 1, g, w, d)
  BY ReadsLocated
<1>3. PICK q : q = s
  OBVIOUS
<1>4. q \in Footing /\ Trail(Append(open, q), w, d) /\ q.place = p + 1 /\ Unfolds(q.node, d)
  BY <1>3, NextTrail
<1>5. PICK u, h : u = Append(open, q) /\ h = Append(g, e)
  OBVIOUS
<1>6. /\ n \in Nat \ {0} /\ open \in Seq(Footing) /\ Len(open) = n - 1 /\ DOMAIN open = 1..(n - 1)
      /\ p \in Nat /\ \A k \in DOMAIN open : Unfolds(open[k].node, d)
      /\ \A k \in 1..n : Stood(g[k], BlockOf(open, k, w, d), Around(open, k), PlaceOf(open, p + 1, k))
  BY <1>1, <1>2 DEF Located
<1>7. /\ u \in Seq(Footing) /\ Len(u) = n /\ DOMAIN u = 1..n /\ u[n] = q
      /\ \A k \in 1..(n - 1) : u[k] = open[k]
  BY <1>4, <1>5, <1>6
<1>8. Len(h) = n + 1 /\ h[n + 1] = e /\ \A k \in 1..n : h[k] = g[k]
  BY <1>1, <1>5, <1>6
<1>9. \A k \in DOMAIN u : Unfolds(u[k].node, d)
  <2>1. \A k \in 1..n : k \in 1..(n - 1) \/ k = n
    BY <1>6
  <2>2. QED
    BY <1>4, <1>6, <1>7, <2>1
<1>10. ASSUME NEW k \in 1..(n + 1)
       PROVE  Stood(h[k], BlockOf(u, k, w, d), Around(u, k), PlaceOf(u, 0, k))
  <2>1. CASE k = n + 1
    <3>1. BlockIn(q.node, d) \in Seq(Standing)
      BY <1>4, BlockTyped DEF Footing
    <3>2. PICK b : b = BlockIn(q.node, d)
      OBVIOUS
    <3>3. /\ BlockOf(u, k, w, d) = b /\ Around(u, k) = Guards(q) /\ PlaceOf(u, 0, k) = 0
      <4>1. k # 1 /\ k - 1 = n /\ k \notin 1..n
        BY <1>6, <2>1
      <4>2. QED
        BY <1>7, <3>2, <4>1 DEF BlockOf, Around, PlaceOf
    <3>4. h[k].nodes = b /\ h[k].conditions = Guards(q)
      BY <1>3, <1>8, <2>1, <3>2
    <3>5. Len(b) \in Nat /\ \A i \in 1..Len(b) : b[i] = b[0 + i]
      BY <3>1, <3>2
    <3>6. QED
      BY <3>3, <3>4, <3>5 DEF Stood
  <2>2. CASE k # n + 1
    <3>1. k \in 1..n /\ (k # 1 => k - 1 \in 1..(n - 1))
      BY <1>6, <2>2
    <3>2. BlockOf(u, k, w, d) = BlockOf(open, k, w, d) /\ Around(u, k) = Around(open, k)
      BY <1>7, <3>1 DEF BlockOf, Around
    <3>3. PlaceOf(u, 0, k) = PlaceOf(open, p + 1, k)
      <4>1. k \in 1..(n - 1) \/ (k = n /\ n \notin 1..(n - 1))
        BY <1>6, <3>1
      <4>2. QED
        BY <1>4, <1>6, <1>7, <3>1, <4>1 DEF PlaceOf
    <3>4. QED
      BY <1>6, <1>8, <3>1, <3>2, <3>3
  <2>3. QED
    BY <2>1, <2>2
<1>11. u # <<>> /\ Trail(u, w, d)
  BY <1>4, <1>5, <1>6, <1>7
<1>12. Located(u, 0, h, w, d)
  BY <1>7, <1>8, <1>9, <1>10, <1>11 DEF Located
<1>13. QED
  BY <1>3, <1>5, <1>12

(* The start of a trail is one.                                            *)
LEMMA TrailStarts ==
  ASSUME NEW w, NEW d, NEW t, Trail(t, w, d), NEW m \in 1..Len(t),
         NEW u \in Seq(Footing), Len(u) = m, \A i \in 1..m : u[i] = t[i]
  PROVE  Trail(u, w, d)
<1>1. t \in Seq(Footing) /\ Len(t) \in Nat /\ m \in Nat \ {0} /\ m <= Len(t)
  BY DEF Trail
<1>2. u[1] = t[1]
  BY <1>1
<1>3. ASSUME NEW j \in 1..(m - 1) PROVE u[j + 1] \in EnteredIn(u[j], d)
  <2>1. j \in 1..(Len(t) - 1) /\ j \in 1..m /\ j + 1 \in 1..m
    BY <1>1, <1>3
  <2>2. t[j + 1] \in EnteredIn(t[j], d)
    BY <2>1 DEF Trail
  <2>3. QED
    BY <2>1, <2>2
<1>4. QED
  BY <1>1, <1>2, <1>3 DEF Trail

(* Leaving a block explores nothing new.                                   *)
LEMMA LeavesNone ==
  ASSUME NEW w \in Seq(Standing), NEW d, Books(d), NEW f \in Seq(Frame), Len(f) > 1,
         NEW open, NEW p, Located(open, p, f, w, d), f[Len(f)].nodes = <<>>
  PROVE  \E o \in Seq(Footing), q \in Nat :
            /\ Located(o, q, Front(f), w, d) /\ PlaceOf(o, q, 1) = PlaceOf(open, p, 1)
            /\ Explored(o, q, Len(f) - 1, w, d) = Explored(open, p, Len(f), w, d)
<1>0. PICK g : g = Front(f)
  OBVIOUS
<1>1. PICK n : n = Len(f)
  OBVIOUS
<1>2. /\ n \in Nat /\ n >= 2 /\ n - 1 \in 1..(n - 1) /\ n \in 1..n
      /\ open \in Seq(Footing) /\ Len(open) = n - 1 /\ DOMAIN open = 1..(n - 1)
      /\ p \in Nat /\ \A k \in DOMAIN open : Unfolds(open[k].node, d)
      /\ \A k \in 1..n : Stood(f[k], BlockOf(open, k, w, d), Around(open, k), PlaceOf(open, p, k))
      /\ open # <<>> /\ Trail(open, w, d)
  BY <1>1 DEF Located
<1>13. g \in Seq(Frame) /\ Len(g) = n - 1 /\ \A i \in 1..Len(g) : g[i] = f[i]
  BY <1>0, <1>1 DEF Front
<1>3. PICK o, q : o = SubSeq(open, 1, n - 2) /\ q = open[n - 1].place
  OBVIOUS
<1>4. /\ o \in Seq(Footing) /\ Len(o) = n - 2 /\ DOMAIN o = 1..(n - 2)
      /\ \A k \in 1..(n - 2) : o[k] = open[k]
  BY <1>2, <1>3
<1>5. q \in Nat
  BY <1>2, <1>3, TrailTyped
<1>6. \A k \in 1..(n - 1) : PlaceOf(o, q, k) = PlaceOf(open, p, k)
  <2>1. \A k \in 1..(n - 1) : k \in 1..(n - 2) \/ (k = n - 1 /\ k \notin 1..(n - 2))
    BY <1>2
  <2>2. QED
    BY <1>2, <1>3, <1>4, <2>1 DEF PlaceOf
<1>7. Located(o, q, g, w, d)
  <2>1. o # <<>> => Trail(o, w, d)
    <3>1. ASSUME o # <<>> PROVE Trail(o, w, d)
      <4>1. n - 2 \in 1..Len(open)
        BY <1>2, <1>4, <3>1
      <4>2. QED
        BY <1>2, <1>4, <4>1, TrailStarts
    <3>2. QED
      BY <3>1
  <2>2. \A k \in DOMAIN o : Unfolds(o[k].node, d)
    <3>1. \A k \in 1..(n - 2) : k \in 1..(n - 1)
      BY <1>2
    <3>2. QED
      BY <1>2, <1>4, <3>1
  <2>3. ASSUME NEW k \in 1..(n - 1)
        PROVE  Stood(g[k], BlockOf(o, k, w, d), Around(o, k), PlaceOf(o, q, k))
    <3>1. k \in 1..n /\ (k # 1 => k - 1 \in 1..(n - 2)) /\ k \in 1..Len(g)
      BY <1>1, <1>2, <1>13
    <3>2. BlockOf(o, k, w, d) = BlockOf(open, k, w, d) /\ Around(o, k) = Around(open, k)
      BY <1>4, <3>1 DEF BlockOf, Around
    <3>3. QED
      BY <1>2, <1>6, <1>13, <3>1, <3>2
  <2>4. Len(g) = n - 1 /\ Len(g) = Len(o) + 1
    BY <1>2, <1>4, <1>13
  <2>5. QED
    BY <1>4, <1>5, <2>1, <2>2, <2>3, <2>4 DEF Located
<1>8. ASSUME NEW t \in Seq(Footing), Passed(t, open, p, n) PROVE Passed(t, o, q, n - 1)
  <2>1. DOMAIN t \subseteq Nat \ {0}
    BY TrailTyped
  <2>2. ASSUME NEW k \in DOMAIN t, k <= n - 1, \A i \in 1..(k - 1) : t[i] = o[i]
        PROVE  t[k].place <= PlaceOf(o, q, k)
    <3>1. k \in 1..(n - 1) /\ k <= n
      BY <1>2, <2>1, <2>2
    <3>2. \A i \in 1..(k - 1) : i \in 1..(n - 2)
      BY <1>2, <3>1
    <3>3. \A i \in 1..(k - 1) : t[i] = open[i]
      BY <1>4, <2>2, <3>2
    <3>4. t[k].place <= PlaceOf(open, p, k)
      BY <1>8, <3>1, <3>3 DEF Passed
    <3>5. QED
      BY <1>6, <3>1, <3>4
  <2>3. QED
    BY <2>2 DEF Passed
<1>9. ASSUME NEW t \in Seq(Footing), Trail(t, w, d), Passed(t, o, q, n - 1)
      PROVE  Passed(t, open, p, n)
  <2>1. DOMAIN t = 1..Len(t) /\ Len(t) \in Nat
    BY TrailTyped
  <2>2. ASSUME NEW k \in DOMAIN t, k <= n, \A i \in 1..(k - 1) : t[i] = open[i]
        PROVE  t[k].place <= PlaceOf(open, p, k)
    <3>1. CASE k <= n - 1
      <4>1. k \in 1..(n - 1) /\ \A i \in 1..(k - 1) : i \in 1..(n - 2)
        BY <1>2, <2>1, <3>1
      <4>2. \A i \in 1..(k - 1) : t[i] = o[i]
        BY <1>4, <2>2, <4>1
      <4>3. t[k].place <= PlaceOf(o, q, k)
        BY <1>9, <3>1, <4>2 DEF Passed
      <4>4. QED
        BY <1>6, <4>1, <4>3
    <3>2. CASE ~(k <= n - 1)
      <4>1. k = n /\ n - 1 \in 1..(k - 1) /\ n - 1 \in 1..(Len(t) - 1) /\ (n - 1) + 1 = n
        BY <1>2, <2>1, <2>2, <3>2
      <4>2. PICK s : s = open[n - 1]
        OBVIOUS
      <4>3. s \in Footing /\ t[n - 1] = s /\ Unfolds(s.node, d)
        BY <1>2, <2>2, <4>1, <4>2, TrailTyped
      <4>4. t[n] \in EnteredIn(s, d)
        BY <1>9, <4>1, <4>3 DEF Trail
      <4>5. t[n].place \in 1..Len(BlockIn(s.node, d))
        BY <4>3, <4>4, EntersAt
      <4>6. Stood(f[n], BlockIn(s.node, d), Guards(s), p)
        <5>1. BlockOf(open, n, w, d) = BlockIn(s.node, d) /\ Around(open, n) = Guards(s)
          BY <1>2, <4>2 DEF BlockOf, Around
        <5>2. PlaceOf(open, p, n) = p
          BY <1>2 DEF PlaceOf
        <5>3. QED
          BY <1>2, <5>1, <5>2
      <4>7. Len(BlockIn(s.node, d)) \in Nat
        BY <4>3, BlockTyped DEF Footing
      <4>8. p = Len(BlockIn(s.node, d))
        <5>1. 0 = Len(BlockIn(s.node, d)) - p
          BY <1>1, <4>6 DEF Stood
        <5>2. QED
          BY <1>2, <4>7, <5>1
      <4>9. PlaceOf(open, p, k) = p
        BY <1>2, <4>1 DEF PlaceOf
      <4>10. QED
        BY <4>1, <4>5, <4>7, <4>8, <4>9
    <3>3. QED
      BY <3>1, <3>2
  <2>3. QED
    BY <2>2 DEF Passed
<1>10. Explored(o, q, n - 1, w, d) = Explored(open, p, n, w, d)
  BY <1>8, <1>9 DEF Explored
<1>11. 1 \in 1..(n - 1)
  BY <1>2
<1>12. QED
  BY <1>0, <1>1, <1>4, <1>5, <1>6, <1>7, <1>10, <1>11

(* The clause of a statement comes after those of the text before it.      *)
LEMMA BeforeNext ==
  ASSUME NEW w \in Seq(Standing), NEW d, Books(d), NEW f \in Seq(Frame), f # <<>>,
         NEW open, NEW p, Located(open, p, f, w, d), f[Len(f)].nodes # <<>>,
         NEW u, u = Append(open, NextStep(f, p)),
         NEW t \in Explored(open, p, Len(f), w, d), ~Unfolds(t[Len(t)].node, d)
  PROVE  Before(t, u)
<1>1. PICK n : n = Len(f)
  OBVIOUS
<1>2. PICK s : s = NextStep(f, p)
  OBVIOUS
<1>3. s \in Footing /\ Trail(u, w, d) /\ s.place = p + 1
  BY <1>2, NextTrail
<1>4. /\ n \in Nat \ {0} /\ open \in Seq(Footing) /\ DOMAIN open = 1..(n - 1) /\ Len(open) = n - 1
      /\ p \in Nat /\ \A k \in DOMAIN open : Unfolds(open[k].node, d)
  BY <1>1 DEF Located
<1>5. /\ u \in Seq(Footing) /\ Len(u) = n /\ DOMAIN u = 1..n /\ u[n] = s
      /\ \A i \in 1..(n - 1) : u[i] = open[i]
  BY <1>2, <1>3, <1>4
<1>6. /\ \A k \in 1..(n - 1) : PlaceOf(open, p, k) = u[k].place /\ u[k].place \in Nat
      /\ PlaceOf(open, p, n) = p
  BY <1>4, <1>5, TrailTyped DEF PlaceOf
<1>7. t \in Seq(Footing) /\ Trail(t, w, d) /\ Passed(t, open, p, n)
  BY <1>1 DEF Explored
<1>8. /\ DOMAIN t = 1..Len(t) /\ Len(t) \in Nat \ {0}
      /\ \A k \in DOMAIN t : t[k] \in Footing /\ t[k].place \in Nat
  BY <1>7, TrailTyped DEF Trail
<1>9. PICK D : D = {k \in 1..n : ~(k \in DOMAIN t /\ t[k] = u[k])}
  OBVIOUS
<1>10. D # {}
  <2>1. SUFFICES ASSUME \A k \in 1..n : k \in DOMAIN t /\ t[k] = u[k] PROVE FALSE
    BY <1>9
  <2>2. n \in DOMAIN t /\ t[n].place = p + 1
    BY <1>3, <1>4, <1>5, <2>1
  <2>3. \A i \in 1..(n - 1) : t[i] = open[i]
    BY <1>4, <1>5, <2>1
  <2>4. t[n].place <= p
    <3>1. n <= n
      BY <1>4
    <3>2. t[n].place <= PlaceOf(open, p, n)
      BY <1>7, <2>2, <2>3, <3>1 DEF Passed
    <3>3. QED
      BY <1>6, <3>2
  <2>5. QED
    BY <1>4, <2>2, <2>4
<1>11. PICK k \in D : \A l \in D : k <= l
  <2>1. D \in SUBSET Nat
    BY <1>4, <1>9
  <2>2. QED
    BY <1>10, <2>1, LeastOf
<1>12. k \in 1..n /\ ~(k \in DOMAIN t /\ t[k] = u[k])
  BY <1>9, <1>11
<1>13. \A i \in 1..(k - 1) : i \in DOMAIN t /\ t[i] = u[i] /\ t[i] = open[i]
  <2>1. ASSUME NEW i \in 1..(k - 1) PROVE i \in DOMAIN t /\ t[i] = u[i]
    <3>1. i \in 1..n /\ ~(k <= i)
      BY <1>4, <1>12, <2>1
    <3>2. i \notin D
      BY <1>11, <3>1
    <3>3. QED
      BY <1>9, <3>1, <3>2
  <2>2. \A i \in 1..(k - 1) : i \in 1..(n - 1)
    BY <1>4, <1>12
  <2>3. QED
    BY <1>5, <2>1, <2>2
<1>14. k \in DOMAIN t
  <2>1. SUFFICES ASSUME k \notin 1..Len(t) PROVE FALSE
    BY <1>8
  <2>2. Len(t) \in 1..(k - 1)
    BY <1>4, <1>8, <1>12, <2>1
  <2>3. t[Len(t)] = open[Len(t)] /\ Len(t) \in DOMAIN open
    BY <1>4, <1>12, <1>13, <2>2
  <2>4. QED
    BY <1>4, <2>3
<1>15. t[k].place <= PlaceOf(open, p, k)
  <2>1. k <= n
    BY <1>4, <1>12
  <2>2. QED
    BY <1>7, <1>13, <1>14, <2>1 DEF Passed
<1>16. t[k].place < u[k].place
  <2>1. CASE k = n
    <3>1. u[k].place = p + 1 /\ t[k].place <= p
      BY <1>3, <1>5, <1>6, <1>15, <2>1
    <3>2. t[k].place \in Nat /\ p \in Nat
      BY <1>4, <1>8, <1>14
    <3>3. QED
      BY <3>1, <3>2
  <2>2. CASE k # n
    <3>1. k \in 1..(n - 1)
      BY <1>4, <1>12, <2>2
    <3>2. t[k].place <= u[k].place /\ u[k].place \in Nat /\ t[k].place \in Nat
      BY <1>6, <1>8, <1>14, <1>15, <3>1
    <3>3. t[k].place # u[k].place
      <4>1. PICK v : v = u
        OBVIOUS
      <4>2. \A j \in DOMAIN t \cap DOMAIN v :
               (\A i \in 1..(j - 1) : t[i] = v[i]) /\ t[j].place = v[j].place => t[j] = v[j]
        <5>1. Trail(t, w, d) /\ Trail(v, w, d)
          BY <1>3, <1>7, <4>1
        <5>2. QED
          BY <5>1, SameStep
      <4>3. QED
        BY <1>5, <1>12, <1>13, <1>14, <4>1, <4>2
    <3>4. \A a, b \in Nat : a <= b /\ a # b => a < b
      OBVIOUS
    <3>5. QED
      BY <3>2, <3>3, <3>4
  <2>3. QED
    BY <2>1, <2>2
<1>17. QED
  BY <1>5, <1>12, <1>13, <1>14, <1>16 DEF Before

(* Of two trails, one is before the other.                                 *)
LEMMA BeforeOneWay ==
  ASSUME NEW t \in Seq(Footing), NEW u \in Seq(Footing), Before(t, u)
  PROVE  ~Before(u, t)
<1>1. PICK k \in DOMAIN t \cap DOMAIN u :
         t[k].place < u[k].place /\ \A i \in 1..(k - 1) : t[i] = u[i]
  BY DEF Before
<1>2. SUFFICES ASSUME NEW l \in DOMAIN u \cap DOMAIN t,
                      u[l].place < t[l].place, \A i \in 1..(l - 1) : u[i] = t[i]
               PROVE  FALSE
  BY DEF Before
<1>3. /\ k \in Nat \ {0} /\ l \in Nat \ {0}
      /\ t[k].place \in Nat /\ u[k].place \in Nat /\ t[l].place \in Nat /\ u[l].place \in Nat
  <2>1. \A s \in Seq(Footing) : \A i \in DOMAIN s : i \in Nat \ {0} /\ s[i].place \in Nat
    BY TrailTyped
  <2>2. QED
    BY <2>1
<1>4. k \in 1..(l - 1) \/ l \in 1..(k - 1) \/ k = l
  BY <1>3
<1>5. QED
  BY <1>1, <1>2, <1>3, <1>4

(* The text goes on; ticked sources are one.                               *)
TopFrame(nodes) == [nodes |-> nodes, conditions |-> <<>>, stack |-> <<>>]

LEMMA WritesText ==
  ASSUME NEW w \in Seq(Standing), NEW d, Books(d), NEW s \in Standing, NEW v, v = Append(w, s),
         NEW c, c = <<>>
  PROVE  /\ Located(c, Len(w), <<TopFrame(<<s>>)>>, v, d)
         /\ Explored(c, Len(w), 1, v, d) = Explored(c, Len(w), 0, w, d)
<1>1. /\ v \in Seq(Standing) /\ Len(v) = Len(w) + 1 /\ Len(w) \in Nat
      /\ v[Len(w) + 1] = s /\ \A i \in 1..Len(w) : v[i] = w[i]
  OBVIOUS
<1>2. /\ c \in Seq(Guarding) /\ c \in Seq(Footing) /\ Len(c) = 0 /\ DOMAIN c = {}
  OBVIOUS
<1>3. \A r : r \in StandsIn(w, c) <=> r \in StandsIn(v, c) /\ r.place <= Len(w)
  <2>1. ASSUME NEW r
        PROVE  /\ r \in StandsIn(w, c) <=> /\ r \in Footing /\ r.place \in 1..Len(w)
                                           /\ r.node = w[r.place] /\ r.conditions = c
               /\ r \in StandsIn(v, c) <=> /\ r \in Footing /\ r.place \in 1..Len(v)
                                           /\ r.node = v[r.place] /\ r.conditions = c
    <3>1. PICK z, y : z = v /\ y = c
      OBVIOUS
    <3>2. z \in Seq(Standing) /\ y \in Seq(Guarding)
      BY <1>1, <1>2, <3>1
    <3>3. r \in StandsIn(w, y) <=> /\ r \in Footing /\ r.place \in 1..Len(w)
                                   /\ r.node = w[r.place] /\ r.conditions = y
      BY <3>2, StandsAt
    <3>4. r \in StandsIn(z, y) <=> /\ r \in Footing /\ r.place \in 1..Len(z)
                                   /\ r.node = z[r.place] /\ r.conditions = y
      BY <3>2, StandsAt
    <3>5. QED
      BY <3>1, <3>3, <3>4
  <2>2. ASSUME NEW r, r \in Footing
        PROVE  r.place \in 1..Len(w) <=> r.place \in 1..Len(v) /\ r.place <= Len(w)
    BY <1>1, <2>2 DEF Footing
  <2>3. QED
    BY <1>1, <2>1, <2>2
<1>4. PICK f, ns : ns = <<s>> /\ f = TopFrame(ns)
  OBVIOUS
<1>5. f.nodes = ns /\ f.conditions = c /\ Len(ns) = 1 /\ ns[1] = s
  BY <1>4 DEF TopFrame
<1>6. Stood(f, v, c, Len(w))
  <2>1. \A i \in 1..1 : ns[i] = v[Len(w) + i]
    BY <1>1, <1>5
  <2>2. Len(w) \in 0..Len(v) /\ Len(ns) = Len(v) - Len(w)
    BY <1>1, <1>5
  <2>3. QED
    BY <1>5, <2>1, <2>2 DEF Stood
<1>7. PICK g : g = <<f>>
  OBVIOUS
<1>8. Len(g) = 1 /\ g[1] = f
  BY <1>7
<1>9. \A k \in 1..1 : Stood(g[k], BlockOf(c, k, v, d), Around(c, k), PlaceOf(c, Len(w), k))
  <2>1. Stood(g[1], BlockOf(c, 1, v, d), Around(c, 1), PlaceOf(c, Len(w), 1))
    BY <1>2, <1>6, <1>8 DEF BlockOf, Around, PlaceOf
  <2>2. QED
    BY <2>1
<1>10. Located(c, Len(w), g, v, d)
  BY <1>1, <1>2, <1>8, <1>9 DEF Located
<1>11. ASSUME NEW t \in Seq(Footing)
       PROVE  Trail(t, w, d) <=> Trail(t, v, d) /\ Passed(t, c, Len(w), 1)
  <2>1. DOMAIN t = 1..Len(t) /\ Len(t) \in Nat
    BY TrailTyped
  <2>2. Len(t) > 0 => (Passed(t, c, Len(w), 1) <=> t[1].place <= Len(w))
    <3>1. PlaceOf(c, Len(w), 1) = Len(w)
      BY <1>2 DEF PlaceOf
    <3>2. ASSUME Len(t) > 0 PROVE \A k \in DOMAIN t : k <= 1 <=> k = 1
      BY <2>1
    <3>3. ASSUME Len(t) > 0 PROVE 1 \in DOMAIN t /\ \A i \in 1..(1 - 1) : t[i] = c[i]
      BY <2>1, <3>3
    <3>4. QED
      BY <3>1, <3>2, <3>3 DEF Passed
  <2>3. t[1] \in StandsIn(w, c) <=> t[1] \in StandsIn(v, c) /\ t[1].place <= Len(w)
    BY <1>3
  <2>4. QED
    BY <2>2, <2>3 DEF Trail
<1>12. ASSUME NEW t \in Seq(Footing) PROVE Passed(t, c, Len(w), 0)
  <2>1. \A k \in DOMAIN t : ~(k <= 0)
    BY TrailTyped
  <2>2. QED
    BY <2>1 DEF Passed
<1>13. Explored(c, Len(w), 1, v, d) = Explored(c, Len(w), 0, w, d)
  BY <1>11, <1>12 DEF Explored
<1>14. QED
  BY <1>4, <1>7, <1>10, <1>13

LEMMA TicksText ==
  ASSUME NEW d, Books(d), NEW v \in Seq(Standing), NEW c, c = <<>>
  PROVE  /\ Located(c, 0, <<TopFrame(v)>>, v, d)
         /\ Explored(c, 0, 1, v, d) = {}
<1>1. Len(v) \in Nat /\ c \in Seq(Footing) /\ Len(c) = 0 /\ DOMAIN c = {}
  OBVIOUS
<1>2. PICK f, g : f = TopFrame(v) /\ g = <<f>>
  OBVIOUS
<1>3. f.nodes = v /\ f.conditions = c /\ Len(g) = 1 /\ g[1] = f
  BY <1>2 DEF TopFrame
<1>4. Stood(f, v, c, 0)
  <2>1. \A i \in 1..Len(v) : v[i] = v[0 + i]
    OBVIOUS
  <2>2. QED
    BY <1>1, <1>3, <2>1 DEF Stood
<1>5. \A k \in 1..1 : Stood(g[k], BlockOf(c, k, v, d), Around(c, k), PlaceOf(c, 0, k))
  <2>1. Stood(g[1], BlockOf(c, 1, v, d), Around(c, 1), PlaceOf(c, 0, 1))
    BY <1>1, <1>3, <1>4 DEF BlockOf, Around, PlaceOf
  <2>2. QED
    BY <2>1
<1>6. Located(c, 0, g, v, d)
  BY <1>1, <1>3, <1>5 DEF Located
<1>7. ASSUME NEW t \in Explored(c, 0, 1, v, d) PROVE FALSE
  <2>1. t \in Seq(Footing) /\ Len(t) > 0 /\ Passed(t, c, 0, 1)
    BY <1>7 DEF Explored, Trail
  <2>2. DOMAIN t = 1..Len(t) /\ Len(t) \in Nat /\ \A k \in DOMAIN t : t[k].place \in Nat \ {0}
    BY <2>1, TrailTyped
  <2>3. 1 \in DOMAIN t /\ 1 <= 1 /\ \A i \in 1..(1 - 1) : t[i] = c[i]
    BY <2>1, <2>2
  <2>4. PlaceOf(c, 0, 1) = 0
    BY <1>1 DEF PlaceOf
  <2>5. t[1].place <= PlaceOf(c, 0, 1)
    BY <2>1, <2>3 DEF Passed
  <2>6. t[1].place \in Nat \ {0} /\ t[1].place <= 0
    BY <2>2, <2>3, <2>4, <2>5
  <2>7. QED
    BY <2>6
<1>8. QED
  BY <1>2, <1>6, <1>7

LEMMA LeavesText ==
  ASSUME NEW w \in Seq(Standing), NEW d, Books(d), NEW f \in Seq(Frame), Len(f) = 1,
         NEW open, NEW p, Located(open, p, f, w, d), f[1].nodes = <<>>
  PROVE  /\ open = <<>> /\ p = Len(w)
         /\ Explored(open, p, 0, w, d) = Explored(open, p, 1, w, d)
<1>1. /\ open \in Seq(Footing) /\ Len(open) = 0 /\ p \in Nat
      /\ Stood(f[1], BlockOf(open, 1, w, d), Around(open, 1), PlaceOf(open, p, 1))
  BY DEF Located
<1>2. open = <<>> /\ DOMAIN open = {}
  BY <1>1
<1>3. Stood(f[1], w, <<>>, p)
  BY <1>1, <1>2 DEF BlockOf, Around, PlaceOf
<1>4. p = Len(w)
  <2>1. Len(f[1].nodes) = 0 /\ Len(w) \in Nat
    OBVIOUS
  <2>2. QED
    BY <1>1, <1>3, <2>1 DEF Stood
<1>5. ASSUME NEW t \in Seq(Footing), Trail(t, w, d)
      PROVE  Passed(t, open, p, 0) /\ Passed(t, open, p, 1)
  <2>1. DOMAIN t = 1..Len(t) /\ Len(t) \in Nat \ {0}
    BY <1>5, TrailTyped DEF Trail
  <2>2. t[1].place <= Len(w)
    <3>1. PICK c : c = <<>>
      OBVIOUS
    <3>2. c \in Seq(Guarding) /\ t[1] \in StandsIn(w, c)
      BY <1>5, <3>1 DEF Trail
    <3>3. t[1].place \in 1..Len(w)
      BY <3>2, StandsAt
    <3>4. QED
      BY <3>3
  <2>3. PlaceOf(open, p, 1) = Len(w)
    BY <1>2, <1>4 DEF PlaceOf
  <2>4. \A k \in DOMAIN t : ~(k <= 0) /\ (k <= 1 => k = 1)
    BY <2>1
  <2>5. QED
    BY <2>2, <2>3, <2>4 DEF Passed
<1>6. QED
  BY <1>2, <1>4, <1>5 DEF Explored

(* A playbook that nothing read so far runs leads nowhere new.             *)
LEMMA GrownSame ==
  ASSUME NEW w \in Seq(Standing), NEW d, Books(d), NEW name, name \notin DOMAIN d, NEW body,
         NEW e, e = Bind(d, name, body), NEW p, NEW open, open = <<>>,
         \A t \in Explored(open, p, 1, w, d) :
            t[Len(t)].node.kind = "run" => t[Len(t)].node.name \in DOMAIN d
  PROVE  Explored(open, p, 1, w, e) = Explored(open, p, 1, w, d)
<1>1. DOMAIN e = DOMAIN d \cup {name} /\ \A m \in DOMAIN d : e[m] = d[m]
  BY DEF Bind
<1>2. ASSUME NEW s \in Footing, s.node.kind = "run" => s.node.name \in DOMAIN d
      PROVE  EnteredIn(s, e) = EnteredIn(s, d)
  BY <1>1, <1>2 DEF EnteredIn, Unfolds, BlockIn
<1>3. ASSUME NEW s \in Footing, s.node.kind # "run" \/ s.node.name \in DOMAIN d \/ EnteredIn(s, d) # {}
      PROVE  EnteredIn(s, e) = EnteredIn(s, d)
  <2>1. s.node.kind = "run" => s.node.name \in DOMAIN d
    BY <1>3 DEF EnteredIn, Unfolds
  <2>2. QED
    BY <1>2, <2>1
<1>4. ASSUME NEW t \in Explored(open, p, 1, w, d) PROVE t \in Explored(open, p, 1, w, e)
  <2>1. t \in Seq(Footing) /\ Trail(t, w, d) /\ Passed(t, open, p, 1)
    BY <1>4 DEF Explored
  <2>2. DOMAIN t = 1..Len(t) /\ Len(t) \in Nat \ {0} /\ \A k \in DOMAIN t : t[k] \in Footing
    BY <2>1, TrailTyped DEF Trail
  <2>3. ASSUME NEW j \in 1..(Len(t) - 1) PROVE t[j + 1] \in EnteredIn(t[j], e)
    <3>1. t[j + 1] \in EnteredIn(t[j], d)
      BY <2>1 DEF Trail
    <3>2. t[j] \in Footing
      BY <2>2
    <3>3. QED
      BY <1>3, <3>1, <3>2
  <2>4. QED
    BY <2>1, <2>3 DEF Explored, Trail
<1>5. ASSUME NEW t \in Explored(open, p, 1, w, e) PROVE t \in Explored(open, p, 1, w, d)
  <2>1. t \in Seq(Footing) /\ Trail(t, w, e) /\ Passed(t, open, p, 1)
    BY <1>5 DEF Explored
  <2>2. DOMAIN t = 1..Len(t) /\ Len(t) \in Nat \ {0} /\ \A k \in DOMAIN t : t[k] \in Footing
    BY <2>1, TrailTyped DEF Trail
  <2>3. SUFFICES ASSUME NEW D, D = {j \in 1..(Len(t) - 1) : t[j + 1] \notin EnteredIn(t[j], d)}, D # {}
                 PROVE  FALSE
    BY <2>1 DEF Explored, Trail
  <2>4. PICK k \in D : \A l \in D : k <= l
    <3>1. D \in SUBSET Nat
      BY <2>2, <2>3
    <3>2. QED
      BY <2>3, <3>1, LeastOf
  <2>5. k \in 1..(Len(t) - 1) /\ t[k + 1] \notin EnteredIn(t[k], d) /\ k \in Nat \ {0} /\ k \in DOMAIN t
    BY <2>2, <2>3, <2>4
  <2>6. PICK u : u = SubSeq(t, 1, k)
    OBVIOUS
  <2>7. u \in Seq(Footing) /\ Len(u) = k /\ DOMAIN u = 1..k /\ \A i \in 1..k : u[i] = t[i] /\ i \in DOMAIN t
    BY <2>1, <2>2, <2>5, <2>6
  <2>8. ASSUME NEW j \in 1..(k - 1) PROVE u[j + 1] \in EnteredIn(u[j], d)
    <3>1. j \in 1..(Len(t) - 1) /\ ~(k <= j) /\ j + 1 \in 1..k /\ j \in 1..k
      BY <2>2, <2>5
    <3>2. j \notin D
      BY <2>4, <3>1
    <3>3. t[j + 1] \in EnteredIn(t[j], d)
      BY <2>3, <3>1, <3>2
    <3>4. QED
      BY <2>7, <3>1, <3>3
  <2>9. Trail(u, w, d)
    <3>1. 1 \in 1..k
      BY <2>5
    <3>2. u[1] = t[1]
      BY <2>7, <3>1
    <3>3. Len(u) > 0
      BY <2>5, <2>7
    <3>4. QED
      BY <2>1, <2>7, <2>8, <3>2, <3>3 DEF Trail
  <2>10. Passed(u, open, p, 1)
    <3>1. ASSUME NEW i \in DOMAIN u, i <= 1, \A h \in 1..(i - 1) : u[h] = open[h]
          PROVE  u[i].place <= PlaceOf(open, p, i)
      <4>1. i = 1
        BY <2>7, <3>1
      <4>2. i \in DOMAIN t /\ u[i] = t[i] /\ \A h \in 1..(i - 1) : t[h] = open[h]
        BY <2>7, <4>1
      <4>3. QED
        BY <2>1, <3>1, <4>2 DEF Passed
    <3>2. QED
      BY <3>1 DEF Passed
  <2>11. u \in Explored(open, p, 1, w, d)
    BY <2>7, <2>9, <2>10 DEF Explored
  <2>12. t[k].node.kind = "run" => t[k].node.name \in DOMAIN d
    <3>1. u[Len(u)] = t[k]
      BY <2>5, <2>7
    <3>2. QED
      BY <2>11, <3>1
  <2>13. EnteredIn(t[k], e) = EnteredIn(t[k], d)
    BY <1>2, <2>2, <2>5, <2>12
  <2>14. t[k + 1] \in EnteredIn(t[k], e)
    BY <2>1, <2>5 DEF Trail
  <2>15. QED
    BY <2>5, <2>13, <2>14
<1>6. QED
  BY <1>4, <1>5

(* Of each clause of a kind, the trail to its statement, in their order.   *)
Traced(kind, log, X, clauses) ==
    /\ log \in Seq(X) /\ Len(log) = Len(clauses)
    /\ \A i \in 1..Len(log) : Last(log[i]).node.kind = kind /\ Says(clauses[i], Last(log[i]))
    /\ \A i, j \in 1..Len(log) : i < j => Before(log[i], log[j])
    /\ \A t \in X : Last(t).node.kind = kind => \E i \in 1..Len(log) : log[i] = t

(* What says no clause of the kind leaves its log as it is.                *)
LEMMA TracedStays ==
  ASSUME NEW kind, NEW log, NEW X, NEW clauses, Traced(kind, log, X, clauses),
         NEW Y, X \subseteq Y, \A t \in Y : t \in X \/ Last(t).node.kind # kind
  PROVE  Traced(kind, log, Y, clauses)
<1>1. log \in Seq(Y)
  BY DEF Traced
<1>2. QED
  BY <1>1 DEF Traced

(* What says one, after all those before, is the last of its log.          *)
LEMMA TracedGrows ==
  ASSUME NEW kind, NEW log, NEW X, NEW C, NEW clauses \in Seq(C), Traced(kind, log, X, clauses),
         NEW u, NEW Y, Y = X \cup {u}, Last(u).node.kind = kind,
         NEW c, Says(c, Last(u)), \A t \in X : Last(t).node.kind = kind => Before(t, u)
  PROVE  Traced(kind, Append(log, u), Y, Append(clauses, c))
<1>1. PICK l, e : l = Append(log, u) /\ e = Append(clauses, c)
  OBVIOUS
<1>2. /\ log \in Seq(X) /\ Len(log) \in Nat /\ Len(clauses) = Len(log)
      /\ \A i \in 1..Len(log) : log[i] \in X
  BY ListFacts DEF Traced
<1>3. /\ l \in Seq(Y) /\ Len(l) = Len(log) + 1 /\ l[Len(log) + 1] = u
      /\ \A i \in 1..Len(log) : l[i] = log[i]
  <2>1. log \in Seq(Y) /\ u \in Y
    BY <1>2
  <2>2. QED
    BY <1>1, <2>1
<1>4. Len(e) = Len(log) + 1 /\ e[Len(log) + 1] = c /\ \A i \in 1..Len(log) : e[i] = clauses[i]
  BY <1>1, <1>2
<1>5. \A i \in 1..Len(l) : i = Len(log) + 1 \/ i \in 1..Len(log)
  BY <1>2, <1>3
<1>6. ASSUME NEW i \in 1..Len(l)
      PROVE  Last(l[i]).node.kind = kind /\ Says(e[i], Last(l[i]))
  BY <1>3, <1>4, <1>5 DEF Traced
<1>7. ASSUME NEW i \in 1..Len(l), NEW j \in 1..Len(l), i < j PROVE Before(l[i], l[j])
  <2>1. i \in 1..Len(log)
    BY <1>2, <1>3, <1>7
  <2>2. CASE j \in 1..Len(log)
    BY <1>3, <1>7, <2>1, <2>2 DEF Traced
  <2>3. CASE j = Len(log) + 1
    <3>1. l[i] \in X /\ Last(l[i]).node.kind = kind /\ l[j] = u
      BY <1>2, <1>3, <2>1, <2>3 DEF Traced
    <3>2. QED
      BY <3>1
  <2>4. QED
    BY <1>5, <2>2, <2>3
<1>8. ASSUME NEW t \in Y, Last(t).node.kind = kind PROVE \E i \in 1..Len(l) : l[i] = t
  <2>1. CASE t = u
    BY <1>2, <1>3, <2>1
  <2>2. CASE t # u
    <3>1. PICK i \in 1..Len(log) : log[i] = t
      BY <1>8, <2>2 DEF Traced
    <3>2. i \in 1..Len(l)
      BY <1>2, <1>3
    <3>3. QED
      BY <1>3, <3>1, <3>2
  <2>3. QED
    BY <2>1, <2>2
<1>9. Traced(kind, l, Y, e)
  BY <1>3, <1>4, <1>6, <1>7, <1>8 DEF Traced
<1>10. QED
  BY <1>1, <1>9

(* The trails of the program read, by their lengths.                       *)
Long(k) == {t \in Seq(Footing) : Len(t) = k /\ Trail(t, written, definitions)}

(* The trails of one step more, as Trails is defined.                      *)
LEMMA Lengthens ==
  ASSUME written \in Seq(Standing), Books(definitions)
  PROVE  /\ Long(1) = {<<s>> : s \in StandsIn(written, <<>>)}
         /\ \A k \in Nat : k > 1 =>
              Long(k) = UNION {{Append(t, s) : s \in Entered(Last(t))} : t \in Long(k - 1)}
<1>1. ASSUME NEW s PROVE Entered(s) = EnteredIn(s, definitions)
  BY DEF Entered, EnteredIn, Expands, Unfolds, Block, BlockIn
<1>2. ASSUME NEW t \in Long(1) PROVE t \in {<<s>> : s \in StandsIn(written, <<>>)}
  <2>1. t \in Seq(Footing) /\ Len(t) = 1 /\ t[1] \in StandsIn(written, <<>>)
    BY <1>2 DEF Long, Trail
  <2>2. t = <<t[1]>>
    BY <2>1
  <2>3. QED
    BY <2>1, <2>2
<1>3. ASSUME NEW s \in StandsIn(written, <<>>) PROVE <<s>> \in Long(1)
  <2>1. PICK c : c = <<>>
    OBVIOUS
  <2>2. c \in Seq(Guarding) /\ s \in StandsIn(written, c)
    BY <2>1
  <2>3. s \in Footing
    BY <2>2, StandsAt
  <2>4. PICK t : t = <<s>>
    OBVIOUS
  <2>5. t \in Seq(Footing) /\ Len(t) = 1 /\ t[1] = s
    BY <2>3, <2>4
  <2>6. t \in Long(1)
    <3>1. t[1] \in StandsIn(written, <<>>) /\ Len(t) > 0
      BY <1>3, <2>5
    <3>2. \A j \in 1..(Len(t) - 1) : FALSE
      BY <2>5
    <3>3. Trail(t, written, definitions)
      BY <2>5, <3>1, <3>2 DEF Trail
    <3>4. QED
      BY <2>5, <3>3 DEF Long
  <2>7. QED
    BY <2>4, <2>6
<1>4. ASSUME NEW k \in Nat, k > 1, NEW t \in Long(k)
      PROVE  \E r \in Long(k - 1) : \E s \in Entered(Last(r)) : t = Append(r, s)
  <2>1. t \in Seq(Footing) /\ Len(t) = k /\ Trail(t, written, definitions)
    BY <1>4 DEF Long
  <2>2. PICK r : r = SubSeq(t, 1, k - 1)
    OBVIOUS
  <2>3. r \in Seq(Footing) /\ Len(r) = k - 1 /\ \A i \in 1..(k - 1) : r[i] = t[i]
    BY <1>4, <2>1, <2>2
  <2>4. k - 1 \in 1..Len(t) /\ k - 1 \in 1..(Len(t) - 1) /\ (k - 1) + 1 = k /\ k - 1 \in 1..(k - 1)
    BY <1>4, <2>1
  <2>5. r \in Long(k - 1)
    <3>1. PICK m : m = k - 1
      OBVIOUS
    <3>2. m \in 1..Len(t) /\ Len(r) = m /\ \A i \in 1..m : r[i] = t[i]
      BY <2>3, <2>4, <3>1
    <3>3. Trail(r, written, definitions)
      BY <2>1, <2>3, <3>2, TrailStarts
    <3>4. QED
      BY <2>3, <3>3 DEF Long
  <2>6. t[k] \in Entered(Last(r))
    <3>1. Last(r) = t[k - 1]
      BY <2>3, <2>4 DEF Last
    <3>2. t[(k - 1) + 1] \in EnteredIn(t[k - 1], definitions)
      BY <2>1, <2>4 DEF Trail
    <3>3. QED
      BY <1>1, <2>4, <3>1, <3>2
  <2>7. PICK v : v = Append(r, t[k])
    OBVIOUS
  <2>8. v = t
    <3>1. t[k] \in Footing
      BY <1>4, <2>1
    <3>2. v \in Seq(Footing) /\ Len(v) = k /\ v[k] = t[k] /\ \A i \in 1..(k - 1) : v[i] = t[i]
      BY <1>4, <2>3, <2>7, <3>1
    <3>3. \A i \in 1..k : v[i] = t[i]
      BY <1>4, <3>2
    <3>4. QED
      BY <2>1, <3>2, <3>3, SameList
  <2>9. QED
    BY <2>5, <2>6, <2>7, <2>8
<1>5. ASSUME NEW k \in Nat, k > 1, NEW r \in Long(k - 1), NEW s \in Entered(Last(r))
      PROVE  Append(r, s) \in Long(k)
  <2>1. r \in Seq(Footing) /\ Len(r) = k - 1 /\ Trail(r, written, definitions)
    BY <1>5 DEF Long
  <2>2. r # <<>> /\ Len(r) \in 1..Len(r)
    BY <1>5, <2>1
  <2>3. r[Len(r)] \in Footing /\ s \in EnteredIn(r[Len(r)], definitions)
    BY <1>1, <2>1, <2>2 DEF Last
  <2>4. s \in Footing
    BY <2>3, EntersAt
  <2>5. PICK w, d : w = written /\ d = definitions
    OBVIOUS
  <2>6. Trail(Append(r, s), w, d)
    BY <2>1, <2>2, <2>3, <2>4, <2>5, TrailGrows
  <2>7. Append(r, s) \in Seq(Footing) /\ Len(Append(r, s)) = k
    BY <1>5, <2>1, <2>4
  <2>8. QED
    BY <2>5, <2>6, <2>7 DEF Long
<1>6. Long(1) = {<<s>> : s \in StandsIn(written, <<>>)}
  BY <1>2, <1>3
<1>7. ASSUME NEW k \in Nat, k > 1
      PROVE  Long(k) = UNION {{Append(t, s) : s \in Entered(Last(t))} : t \in Long(k - 1)}
  <2> DEFINE K(t) == {Append(t, s) : s \in Entered(Last(t))}
  <2>1. \A t, v : v \in K(t) <=> \E s \in Entered(Last(t)) : v = Append(t, s)
    OBVIOUS
  <2> HIDE DEF K
  <2>2. \A v \in Long(k) : \E t \in Long(k - 1) : v \in K(t)
    BY <1>4, <1>7, <2>1
  <2>3. \A t \in Long(k - 1) : \A v \in K(t) : v \in Long(k)
    <3>1. SUFFICES ASSUME NEW r \in Long(k - 1), NEW v \in K(r) PROVE v \in Long(k)
      OBVIOUS
    <3>2. PICK s \in Entered(Last(r)) : v = Append(r, s)
      BY <2>1
    <3>3. Append(r, s) \in Long(k)
      BY <1>5, <1>7
    <3>4. QED
      BY <3>2, <3>3
  <2>4. Long(k) = UNION {K(t) : t \in Long(k - 1)}
    BY <2>2, <2>3
  <2>5. QED
    BY <2>4 DEF K
<1>8. QED
  BY <1>6, <1>7

(* Trails is what it is written to be.                                     *)
LEMMA TrailsAre ==
  ASSUME written \in Seq(Standing), Books(definitions)
  PROVE  \A k \in 1..(MaxBlocks + 1) : Trails[k] = Long(k)
<1>1. MaxBlocks \in Nat
  BY ProgramAssumption
<1>2. PICK M : M = 1..(MaxBlocks + 1)
  OBVIOUS
<1> DEFINE Longer(f, k) == IF k = 1 THEN {<<s>> : s \in StandsIn(written, <<>>)}
                          ELSE UNION {{Append(t, s) : s \in Entered(Last(t))} : t \in f[k - 1]}
<1>3. PICK g : g = [k \in M |-> Long(k)]
  OBVIOUS
<1>4. ASSUME NEW k \in M PROVE g[k] = Longer(g, k)
  <2>1. k = 1 \/ (k \in Nat /\ k > 1 /\ k - 1 \in M)
    BY <1>1, <1>2
  <2>2. CASE k = 1
    BY <1>3, <2>2, Lengthens
  <2>3. CASE k \in Nat /\ k > 1 /\ k - 1 \in M
    <3>1. g[k - 1] = Long(k - 1) /\ g[k] = Long(k)
      BY <1>3, <2>3
    <3>2. Long(k) = UNION {{Append(t, s) : s \in Entered(Last(t))} : t \in Long(k - 1)}
      BY <2>3, Lengthens
    <3>3. QED
      BY <2>3, <3>1, <3>2
  <2>4. QED
    BY <2>1, <2>2, <2>3
<1>5. \E f : f = [k \in M |-> Longer(f, k)]
  <2>1. g = [k \in M |-> Longer(g, k)]
    BY <1>3, <1>4
  <2>2. QED
    BY <2>1
<1>6. Trails = CHOOSE f : f = [k \in M |-> Longer(f, k)]
  BY Zenon, <1>2 DEF Trails
<1>7. Trails = [k \in M |-> Longer(Trails, k)]
  BY Zenon, <1>5, <1>6
<1>8. \A k \in M : Trails[k] = Longer(Trails, k)
  BY Zenon, <1>7
<1> HIDE DEF Longer
<1>9. SUFFICES ASSUME NEW D, D = {k \in M : Trails[k] # g[k]}, D # {} PROVE FALSE
  <2>1. \A k \in M : Trails[k] = g[k]
    OBVIOUS
  <2>2. \A k \in M : g[k] = Long(k)
    BY <1>3
  <2>3. QED
    BY Zenon, <1>2, <2>1, <2>2
<1>10. PICK k \in D : \A l \in D : k <= l
  <2>1. D \in SUBSET Nat
    BY <1>1, <1>2, <1>9
  <2>2. QED
    BY <1>9, <2>1, LeastOf
<1>11. k \in M /\ Trails[k] # g[k]
  BY <1>9, <1>10
<1>12. CASE k = 1
  <2>1. Longer(Trails, k) = Longer(g, k)
    BY <1>12 DEF Longer
  <2>2. QED
    BY <1>4, <1>8, <1>11, <2>1
<1>13. CASE k # 1
  <2>1. k - 1 \in M /\ ~(k <= k - 1)
    BY <1>1, <1>2, <1>11, <1>13
  <2>2. Trails[k - 1] = g[k - 1]
    BY <1>9, <1>10, <2>1
  <2>3. Longer(Trails, k) = Longer(g, k)
    BY <2>2 DEF Longer
  <2>4. QED
    BY <1>4, <1>8, <1>11, <2>3
<1>14. QED
  BY <1>12, <1>13

-----------------------------------------------------------------------------
(* How the reader follows a text                                          *)

(* What blocks and playbooks hold.                                         *)
InBlocks == {"collect", "filter", "correlate", "run", "when"}
Clausal == {"collect", "filter", "correlate"}
Plain == \A name \in DOMAIN definitions :
            \A i \in DOMAIN definitions[name] : definitions[name][i].kind \in InBlocks


(* The reader stands in the open blocks at place p, and for each kind of   *)
(* clause there is a log of the trails it has been told on, in order.  The *)
(* playbooks of the statements before it are in the book, and every RUN    *)
(* it has read names one.                                                  *)
Seen(open, p) == Explored(open, p, Len(frames), written, definitions)
Along(open, p) == Append(open, NextStep(frames, p))
Booked(m) ==
    \A i \in 1..m : written[i].kind = "define" =>
        written[i].name \in DOMAIN definitions /\ definitions[written[i].name] = written[i].body
Follows(open, p) ==
    /\ open \in Seq(Footing) /\ p \in Nat
    /\ frames # <<>> => Located(open, p, frames, written, definitions)
    /\ frames = <<>> => open = <<>> /\ p = Len(written)
    /\ Booked(PlaceOf(open, p, 1))
    /\ \A t \in Seen(open, p) : Last(t).node.kind = "run" => Last(t).node.name \in DOMAIN definitions
    /\ \A kind \in Clausal : \E log : Traced(kind, log, Seen(open, p), Clauses(kind))
Unfolding ==
    /\ written \in Seq(Standing) /\ Plain
    /\ phase # "rejected" => \E open, p : Follows(open, p)

(* The blocks once the next statement is taken.                            *)
LEMMA RestIs ==
  ASSUME Framed, frames # <<>>, Innermost.nodes # <<>>
  PROVE  LET n == Len(frames)
         IN  /\ Rest \in Seq(Frame) /\ Len(Rest) = n /\ n \in Nat \ {0}
             /\ \A i \in 1..(n - 1) : Rest[i] = frames[i]
             /\ Rest[n].nodes = Tail(frames[n].nodes) /\ Rest[n].conditions = frames[n].conditions
             /\ Innermost = frames[n] /\ frames[n].nodes # <<>> /\ Read = Head(frames[n].nodes)
             /\ frames \in Seq(Frame) /\ Read \in Standing /\ Innermost \in Frame
<1>1. PICK n : n = Len(frames)
  OBVIOUS
<1>2. /\ frames \in Seq(Frame) /\ n \in Nat \ {0} /\ DOMAIN frames = 1..n
      /\ Innermost = frames[n] /\ Read = Head(frames[n].nodes) /\ n \in 1..n
  BY <1>1 DEF Framed, Innermost, Last, Read
<1>3. PICK r : r = Rest
  OBVIOUS
<1>4. r = [frames EXCEPT ![n] = [frames[n] EXCEPT !.nodes = Tail(frames[n].nodes)]]
  BY <1>1, <1>3 DEF Rest
<1>5. \A i \in 1..(n - 1) : r[i] = frames[i]
  <2>1. \A i \in 1..(n - 1) : i \in 1..n /\ i # n
    BY <1>2
  <2>2. QED
    BY <1>2, <1>4, <2>1
<1>6. r[n] = [frames[n] EXCEPT !.nodes = Tail(frames[n].nodes)]
  BY <1>2, <1>4
<1>7. frames[n] \in Frame
  BY <1>2
<1>8. r[n].nodes = Tail(frames[n].nodes) /\ r[n].conditions = frames[n].conditions
  BY <1>6, <1>7 DEF Frame
<1>9. Rest \in Seq(Frame) /\ Len(Rest) = Len(frames) /\ Read \in Standing /\ Innermost \in Frame
  BY RestFramed
<1>10. QED
  BY <1>1, <1>2, <1>3, <1>5, <1>8, <1>9

LEMMA ReadIsNext ==
  ASSUME Framed, frames # <<>>, Innermost.nodes # <<>>, NEW p
  PROVE  NextStep(frames, p).node = Read /\ NextStep(frames, p).conditions = Innermost.conditions
  BY RestIs DEF NextStep

(* Reading the next statement: where the reader then is, and what it has   *)
(* seen.                                                                   *)
LEMMA StepRead ==
  ASSUME Framed, written \in Seq(Standing), Books(definitions), NEW open, NEW p, Follows(open, p),
         frames # <<>>, Innermost.nodes # <<>>
  PROVE  /\ NextStep(frames, p) \in Footing /\ NextStep(frames, p).node = Read
         /\ NextStep(frames, p).conditions = Innermost.conditions
         /\ Along(open, p) \in Seq(Footing) /\ Last(Along(open, p)) = NextStep(frames, p)
         /\ \A t \in Seen(open, p) : ~Unfolds(Last(t).node, definitions) => Before(t, Along(open, p))
         /\ \A i \in 1..PlaceOf(open, p + 1, 1) :
               i \in 1..PlaceOf(open, p, 1) \/ (Len(frames) = 1 /\ written[i] = Read)
         /\ PlaceOf(Along(open, p), 0, 1) = PlaceOf(open, p + 1, 1)
<1>0. PICK s : s = NextStep(frames, p)
  OBVIOUS
<1>20. PICK u : u = Along(open, p)
  OBVIOUS
<1>21. u = Append(open, s)
  BY <1>0, <1>20 DEF Along
<1>1. PICK n : n = Len(frames)
  OBVIOUS
<1>2. /\ frames \in Seq(Frame) /\ n \in Nat \ {0} /\ Innermost = frames[n]
      /\ frames[n].nodes # <<>> /\ Read = Head(frames[n].nodes) /\ Read \in Standing
  BY <1>1, RestIs
<1>3. Located(open, p, frames, written, definitions)
  BY DEF Follows
<1>4. PICK f, w, d : f = frames /\ w = written /\ d = definitions
  OBVIOUS
<1>5. PICK q : q = NextStep(f, p)
  OBVIOUS
<1>6. /\ f \in Seq(Frame) /\ f # <<>> /\ w \in Seq(Standing) /\ Books(d)
      /\ Located(open, p, f, w, d) /\ f[Len(f)].nodes # <<>>
  BY <1>1, <1>2, <1>3, <1>4
<1>7. /\ q \in Footing /\ Trail(Append(open, q), w, d) /\ q.place = p + 1
      /\ p + 1 \in 1..Len(BlockOf(open, Len(f), w, d)) /\ q.node = BlockOf(open, Len(f), w, d)[p + 1]
  BY <1>5, <1>6, NextTrail
<1>8. q = s /\ s.node = Read /\ s.conditions = Innermost.conditions
  BY <1>0, <1>1, <1>2, <1>4, <1>5 DEF NextStep
<1>9. /\ open \in Seq(Footing) /\ p \in Nat /\ Len(open) = n - 1 /\ DOMAIN open = 1..(n - 1)
  BY <1>1, <1>3 DEF Located
<1>10. PICK v : v = Append(open, q)
  OBVIOUS
<1>11. /\ v = u /\ v \in Seq(Footing) /\ Len(v) = n /\ v[n] = q /\ DOMAIN v = 1..n
       /\ \A i \in 1..(n - 1) : v[i] = open[i]
  <2>1. /\ v \in Seq(Footing) /\ Len(v) = Len(open) + 1 /\ v[Len(open) + 1] = q
        /\ \A i \in 1..Len(open) : v[i] = open[i]
    BY <1>7, <1>9, <1>10
  <2>2. v = u
    BY <1>8, <1>10, <1>21
  <2>3. Len(open) + 1 = n /\ DOMAIN v = 1..Len(v)
    BY <1>2, <1>9, <2>1
  <2>4. QED
    BY <1>9, <2>1, <2>2, <2>3
<1>12. Last(u) = s
  BY <1>8, <1>11 DEF Last
<1>13. ASSUME NEW t \in Seen(open, p), ~Unfolds(Last(t).node, definitions) PROVE Before(t, u)
  <2>1. t \in Explored(open, p, Len(f), w, d) /\ ~Unfolds(t[Len(t)].node, d)
    BY <1>4, <1>13 DEF Seen, Last
  <2>2. v = Append(open, NextStep(f, p))
    BY <1>5, <1>10
  <2>3. Before(t, v)
    BY <1>6, <2>1, <2>2, BeforeNext
  <2>4. QED
    BY <1>11, <2>3
<1>14. ASSUME NEW i \in 1..PlaceOf(open, p + 1, 1)
       PROVE  i \in 1..PlaceOf(open, p, 1) \/ (n = 1 /\ written[i] = Read)
  <2>1. CASE n = 1
    <3>1. PlaceOf(open, p + 1, 1) = p + 1 /\ PlaceOf(open, p, 1) = p
      BY <1>9, <2>1 DEF PlaceOf
    <3>2. i \in 1..p \/ i = p + 1
      BY <1>9, <3>1
    <3>3. written[p + 1] = Read
      <4>1. BlockOf(open, Len(f), w, d) = w
        BY <1>1, <1>4, <2>1 DEF BlockOf
      <4>2. QED
        BY <1>4, <1>7, <1>8, <4>1
    <3>4. QED
      BY <2>1, <3>1, <3>2, <3>3
  <2>2. CASE n # 1
    <3>1. 1 \in DOMAIN open
      BY <1>2, <1>9, <2>2
    <3>2. QED
      BY <1>14, <3>1 DEF PlaceOf
  <2>3. QED
    BY <2>1, <2>2
<1>15. PlaceOf(u, 0, 1) = PlaceOf(open, p + 1, 1)
  <2>1. 1 \in 1..n /\ (1 \in 1..(n - 1) <=> n # 1)
    BY <1>2
  <2>2. CASE n = 1
    BY <1>7, <1>9, <1>11, <2>1, <2>2 DEF PlaceOf
  <2>3. CASE n # 1
    BY <1>9, <1>11, <2>1, <2>3 DEF PlaceOf
  <2>4. QED
    BY <2>2, <2>3
<1>16. QED
  BY <1>0, <1>20, <1>1, <1>7, <1>8, <1>11, <1>12, <1>13, <1>14, <1>15

(* Taking a statement that opens no block.                                 *)
LEMMA ReadsOn ==
  ASSUME Framed, written \in Seq(Standing), Books(definitions), NEW open, NEW p, Follows(open, p),
         frames # <<>>, Innermost.nodes # <<>>,
         ~Unfolds(Read, definitions)
  PROVE  /\ Located(open, p + 1, Rest, written, definitions)
         /\ Explored(open, p + 1, Len(frames), written, definitions)
              = Seen(open, p) \cup {Along(open, p)}
<1>1. PICK f, w, d, g : f = frames /\ w = written /\ d = definitions /\ g = Rest
  OBVIOUS
<1>2. PICK n : n = Len(f)
  OBVIOUS
<1>3. /\ f \in Seq(Frame) /\ f # <<>> /\ w \in Seq(Standing) /\ Books(d) /\ f[n].nodes # <<>>
      /\ Located(open, p, f, w, d)
      /\ g \in Seq(Frame) /\ Len(g) = n /\ \A i \in 1..(n - 1) : g[i] = f[i]
  BY <1>1, <1>2, RestIs DEF Follows
<1>4. g[n].nodes = Tail(f[n].nodes) /\ g[n].conditions = f[n].conditions
  BY <1>1, <1>2, RestIs
<1>5. Located(open, p + 1, g, w, d)
  BY <1>2, <1>3, <1>4, ReadsLocated
<1>6. NextStep(frames, p).node = Read
  BY ReadIsNext
<1>7. ~Unfolds(NextStep(f, p).node, d)
  BY <1>1, <1>6
<1>8. f[Len(f)].nodes # <<>>
  BY <1>2, <1>3
<1>9. Explored(open, p + 1, Len(f), w, d)
        = Explored(open, p, Len(f), w, d) \cup {Append(open, NextStep(f, p))}
  BY <1>3, <1>7, <1>8, ReadsOne
<1>10. QED
  BY <1>1, <1>5, <1>9 DEF Seen, Along

(* Taking one that opens its block.                                        *)
LEMMA ReadsIn ==
  ASSUME Framed, written \in Seq(Standing), Books(definitions), NEW open, NEW p, Follows(open, p),
         frames # <<>>, Innermost.nodes # <<>>, Unfolds(Read, definitions),
         NEW e \in Frame, e.nodes = BlockIn(Read, definitions),
         e.conditions = Guards(NextStep(frames, p))
  PROVE  /\ Located(Along(open, p), 0, Append(Rest, e), written, definitions)
         /\ Explored(Along(open, p), 0, Len(frames) + 1, written, definitions)
              = Seen(open, p) \cup {Along(open, p)}
<1>1. PICK f, w, d, g : f = frames /\ w = written /\ d = definitions /\ g = Rest
  OBVIOUS
<1>2. PICK n : n = Len(f)
  OBVIOUS
<1>3. /\ f \in Seq(Frame) /\ f # <<>> /\ w \in Seq(Standing) /\ Books(d) /\ f[n].nodes # <<>>
      /\ Located(open, p, f, w, d)
      /\ g \in Seq(Frame) /\ Len(g) = n /\ \A i \in 1..(n - 1) : g[i] = f[i]
  BY <1>1, <1>2, RestIs DEF Follows
<1>4. g[n].nodes = Tail(f[n].nodes) /\ g[n].conditions = f[n].conditions
  BY <1>1, <1>2, RestIs
<1>5. PICK q : q = NextStep(f, p)
  OBVIOUS
<1>7. q.node = Read
  <2>1. NextStep(frames, p).node = Read
    BY ReadIsNext
  <2>2. QED
    BY <1>1, <1>5, <2>1
<1>8. Unfolds(q.node, d) /\ e.nodes = BlockIn(q.node, d) /\ e.conditions = Guards(q)
  BY <1>1, <1>5, <1>7
<1>9. Located(Append(open, q), 0, Append(g, e), w, d)
  BY <1>2, <1>3, <1>4, <1>5, <1>8, EntersLocated
<1>11. f[Len(f)].nodes # <<>>
  BY <1>2, <1>3
<1>12. Explored(Append(open, NextStep(f, p)), 0, Len(f) + 1, w, d)
         = Explored(open, p, Len(f), w, d) \cup {Append(open, NextStep(f, p))}
  BY <1>3, <1>11, EntersOne
<1>13. QED
  BY <1>1, <1>5, <1>9, <1>12 DEF Seen, Along

(* The logs once the next statement is taken.                              *)
LEMMA TracedOn ==
  ASSUME Framed, written \in Seq(Standing), Books(definitions), NEW open, NEW p, Follows(open, p),
         frames # <<>>, Innermost.nodes # <<>>, NEW kind \in Clausal, NEW after,
         Read.kind # kind => after = Clauses(kind),
         Read.kind = kind =>
            \E C, c : /\ Clauses(kind) \in Seq(C) /\ after = Append(Clauses(kind), c)
                      /\ Says(c, NextStep(frames, p))
  PROVE  \E log : Traced(kind, log, Seen(open, p) \cup {Along(open, p)}, after)
<1>1. PICK log : Traced(kind, log, Seen(open, p), Clauses(kind))
  BY DEF Follows
<1>2. PICK u, X, Y : u = Along(open, p) /\ X = Seen(open, p) /\ Y = X \cup {u}
  OBVIOUS
<1>3. Last(u) = NextStep(frames, p) /\ Last(u).node = Read
  BY <1>2, StepRead
<1>4. CASE Read.kind = kind
  <2>1. PICK C, c : /\ Clauses(kind) \in Seq(C) /\ after = Append(Clauses(kind), c)
                    /\ Says(c, NextStep(frames, p))
    BY <1>4
  <2>2. PICK clauses : clauses = Clauses(kind)
    OBVIOUS
  <2>3. clauses \in Seq(C) /\ Traced(kind, log, X, clauses) /\ Last(u).node.kind = kind /\ Says(c, Last(u))
    BY <1>1, <1>2, <1>3, <1>4, <2>1, <2>2
  <2>4. \A t \in X : Last(t).node.kind = kind => Before(t, u)
    <3>1. ASSUME NEW t \in X, Last(t).node.kind = kind PROVE Before(t, u)
      <4>1. ~Unfolds(Last(t).node, definitions)
        BY <3>1 DEF Unfolds, Clausal
      <4>2. \A r \in Seen(open, p) : ~Unfolds(Last(r).node, definitions) => Before(r, Along(open, p))
        BY StepRead
      <4>3. QED
        BY <1>2, <4>1, <4>2
    <3>2. QED
      BY <3>1
  <2>5. Y = X \cup {u}
    BY <1>2
  <2>6. Traced(kind, Append(log, u), Y, Append(clauses, c))
    BY <2>3, <2>4, <2>5, TracedGrows
  <2>7. QED
    BY <1>2, <2>1, <2>2, <2>6
<1>5. CASE Read.kind # kind
  <2>1. Traced(kind, log, X, after)
    BY <1>1, <1>2, <1>5
  <2>2. X \subseteq Y /\ \A t \in Y : t \in X \/ Last(t).node.kind # kind
    BY <1>2, <1>3, <1>5
  <2>3. Traced(kind, log, Y, after)
    BY <2>1, <2>2, TracedStays
  <2>4. QED
    BY <1>2, <2>3
<1>6. QED
  BY <1>4, <1>5

(* The statements that open no block.                                      *)
LEMMA Continues ==
  ASSUME Framed, written \in Seq(Standing), Books(definitions), NEW open, NEW p, Follows(open, p),
         frames # <<>>, Innermost.nodes # <<>>, Read.kind \notin {"when", "run", "define"},
         frames' = Rest, UNCHANGED <<written, definitions>>,
         \A kind \in Clausal : \E log :
            Traced(kind, log, Seen(open, p) \cup {Along(open, p)}, Clauses(kind)')
  PROVE  Follows(open, p + 1)'
<1>1. ~Unfolds(Read, definitions)
  BY DEF Unfolds
<1>2. /\ Located(open, p + 1, Rest, written, definitions)
      /\ Explored(open, p + 1, Len(frames), written, definitions)
           = Seen(open, p) \cup {Along(open, p)}
  BY <1>1, ReadsOn
<1>3. Len(Rest) = Len(frames) /\ Len(frames) \in Nat \ {0}
  BY RestIs
<1>4. PICK X : X = Seen(open, p) \cup {Along(open, p)}
  OBVIOUS
<1>5. Seen(open, p + 1)' = X
  BY <1>2, <1>3, <1>4 DEF Seen
<1>6. open \in Seq(Footing) /\ p + 1 \in Nat
  BY DEF Follows
<1>7. Located(open, p + 1, frames, written, definitions)' /\ frames' # <<>>
  BY <1>2, <1>3
<1>8. Booked(PlaceOf(open, p + 1, 1))'
  <2>1. \A i \in 1..PlaceOf(open, p + 1, 1) : i \in 1..PlaceOf(open, p, 1) \/ written[i] = Read
    BY StepRead
  <2>2. Booked(PlaceOf(open, p, 1))
    BY DEF Follows
  <2>3. QED
    BY <2>1, <2>2 DEF Booked
<1>9. \A t \in X : Last(t).node.kind = "run" => Last(t).node.name \in DOMAIN definitions'
  <2>1. Last(Along(open, p)).node = Read
    BY StepRead
  <2>2. \A t \in Seen(open, p) : Last(t).node.kind = "run" => Last(t).node.name \in DOMAIN definitions
    BY DEF Follows
  <2>3. QED
    BY <1>4, <2>1, <2>2
<1>10. \A kind \in Clausal : \E log : Traced(kind, log, X, Clauses(kind)')
  BY <1>4
<1>11. QED
  BY <1>5, <1>6, <1>7, <1>8, <1>9, <1>10 DEF Follows

(* RUN and WHEN.                                                           *)
LEMMA OpensBlock ==
  ASSUME Framed, written \in Seq(Standing), Books(definitions), NEW open, NEW p, Follows(open, p),
         frames # <<>>, Innermost.nodes # <<>>, Read.kind \in {"when", "run"},
         Unfolds(Read, definitions), NEW e \in Frame, e.nodes = BlockIn(Read, definitions),
         e.conditions = Guards(NextStep(frames, p)), frames' = Append(Rest, e),
         UNCHANGED <<written, ast>>
  PROVE  \E o, q : Follows(o, q)'
<1>1. PICK u : u = Along(open, p)
  OBVIOUS
<1>2. /\ Located(u, 0, Append(Rest, e), written, definitions)
      /\ Explored(u, 0, Len(frames) + 1, written, definitions) = Seen(open, p) \cup {u}
  <2>1. /\ Located(Along(open, p), 0, Append(Rest, e), written, definitions)
        /\ Explored(Along(open, p), 0, Len(frames) + 1, written, definitions)
             = Seen(open, p) \cup {Along(open, p)}
    BY ReadsIn
  <2>2. QED
    BY <1>1, <2>1
<1>3. Len(frames') = Len(frames) + 1 /\ frames' # <<>>
  <2>1. Rest \in Seq(Frame) /\ Len(Rest) = Len(frames)
    BY RestIs
  <2>2. QED
    BY <2>1
<1>4. PICK X : X = Seen(open, p) \cup {u}
  OBVIOUS
<1>5. Seen(u, 0)' = X
  BY <1>2, <1>3, <1>4 DEF Seen, ast
<1>6. u \in Seq(Footing) /\ 0 \in Nat
  BY <1>1, StepRead
<1>7. Located(u, 0, frames, written, definitions)'
  BY <1>2 DEF ast
<1>8. Booked(PlaceOf(u, 0, 1))'
  <2>1. \A i \in 1..PlaceOf(open, p + 1, 1) : i \in 1..PlaceOf(open, p, 1) \/ written[i] = Read
    BY StepRead
  <2>2. PlaceOf(u, 0, 1) = PlaceOf(open, p + 1, 1)
    BY <1>1, StepRead
  <2>3. Booked(PlaceOf(open, p, 1))
    BY DEF Follows
  <2>4. QED
    BY <2>1, <2>2, <2>3 DEF Booked, ast
<1>9. \A t \in X : Last(t).node.kind = "run" => Last(t).node.name \in DOMAIN definitions'
  <2>1. Last(u).node = Read
    BY <1>1, StepRead
  <2>2. \A t \in Seen(open, p) : Last(t).node.kind = "run" => Last(t).node.name \in DOMAIN definitions
    BY DEF Follows
  <2>3. definitions' = definitions
    BY DEF ast
  <2>4. QED
    BY <1>4, <2>1, <2>2, <2>3 DEF Unfolds
<1>10. ASSUME NEW kind \in Clausal PROVE \E log : Traced(kind, log, X, Clauses(kind)')
  <2>1. PICK after : after = Clauses(kind)'
    OBVIOUS
  <2>2. after = Clauses(kind)
    BY <2>1 DEF Clauses, ast
  <2>3. Read.kind # kind
    BY DEF Clausal
  <2>4. \E log : Traced(kind, log, Seen(open, p) \cup {Along(open, p)}, after)
    BY <2>2, <2>3, TracedOn
  <2>5. QED
    BY <1>1, <1>4, <2>1, <2>4
<1>11. Follows(u, 0)'
  BY <1>3, <1>5, <1>6, <1>7, <1>8, <1>9, <1>10 DEF Follows
<1>12. QED
  BY <1>11

(* No block holds a DEFINE.                                                *)
LEMMA BlocksPlain ==
  ASSUME Plain, NEW n \in Standing, Unfolds(n, definitions)
  PROVE  \A i \in DOMAIN BlockIn(n, definitions) : BlockIn(n, definitions)[i].kind # "define"
<1>1. CASE n.kind = "when"
  <2>1. n \in Node
    BY <1>1 DEF Standing
  <2>2. \A i \in DOMAIN n.body : n.body[i].kind \in {"collect", "filter", "correlate", "run", "when"}
    BY <1>1, <2>1, ProgramAssumption
  <2>3. QED
    BY <1>1, <2>2 DEF BlockIn
<1>2. CASE n.kind # "when"
  <2>1. n.name \in DOMAIN definitions /\ BlockIn(n, definitions) = definitions[n.name]
    BY <1>2 DEF Unfolds, BlockIn
  <2>2. QED
    BY <2>1 DEF Plain, InBlocks
<1>3. QED
  BY <1>1, <1>2

(* DEFINE stands in no block, and no statement before it runs its playbook. *)
LEMMA DefinesFollow ==
  ASSUME Framed, written \in Seq(Standing), Books(definitions), Plain, NEW open, NEW p,
         Follows(open, p), frames # <<>>, Innermost.nodes # <<>>, Read.kind = "define",
         Read.name \notin DOMAIN definitions, frames' = Rest,
         definitions' = Bind(definitions, Read.name, Read.body),
         UNCHANGED <<written, collections, filters, correlations>>
  PROVE  Follows(open, p + 1)'
<1>1. PICK f, w, d, e, n : f = frames /\ w = written /\ d = definitions /\ e = definitions' /\ n = Len(frames)
  OBVIOUS
<1>2. /\ f \in Seq(Frame) /\ n \in Nat \ {0} /\ f # <<>> /\ f[n].nodes # <<>> /\ Len(Rest) = n
      /\ Located(open, p, f, w, d) /\ w \in Seq(Standing) /\ Books(d)
  BY <1>1, RestIs DEF Follows
<1>3. /\ NextStep(f, p).node = BlockOf(open, Len(f), w, d)[p + 1]
      /\ p + 1 \in 1..Len(BlockOf(open, Len(f), w, d))
      /\ BlockOf(open, Len(f), w, d) \in Seq(Standing)
  BY <1>1, <1>2, NextTrail
<1>4. n = 1
  <2>1. SUFFICES ASSUME n # 1 PROVE FALSE
    OBVIOUS
  <2>2. PICK b : b = BlockOf(open, n, w, d)
    OBVIOUS
  <2>3. b \in Seq(Standing) /\ p + 1 \in DOMAIN b /\ b[p + 1] = Read
    <3>1. NextStep(frames, p).node = Read
      BY ReadIsNext
    <3>2. QED
      BY <1>1, <1>3, <2>2, <3>1
  <2>4. open \in Seq(Footing) /\ DOMAIN open = 1..(n - 1) /\ n - 1 \in 1..(n - 1)
    BY <1>1, <1>2, <2>1 DEF Located
  <2>5. Unfolds(open[n - 1].node, definitions) /\ open[n - 1].node \in Standing
    BY <1>1, <1>2, <2>4, TrailTyped DEF Located
  <2>6. b = BlockIn(open[n - 1].node, definitions)
    BY <1>1, <2>1, <2>2 DEF BlockOf
  <2>7. QED
    BY <2>3, <2>5, <2>6, BlocksPlain
<1>5. /\ open \in Seq(Footing) /\ open = <<>> /\ p \in Nat /\ DOMAIN open = {}
  <2>1. open \in Seq(Footing) /\ Len(open) = 0 /\ p \in Nat
    BY <1>1, <1>2, <1>4 DEF Located
  <2>2. QED
    BY <2>1
<1>6. ~Unfolds(Read, definitions)
  BY DEF Unfolds
<1>7. PICK X, u : X = Seen(open, p) \cup {u} /\ u = Along(open, p)
  OBVIOUS
<1>8. Located(open, p + 1, Rest, w, d) /\ Explored(open, p + 1, 1, w, d) = X
  BY <1>1, <1>4, <1>6, <1>7, ReadsOn
<1>9. \A t \in X : Last(t).node.kind = "run" => Last(t).node.name \in DOMAIN d
  <2>1. Last(u).node = Read
    BY <1>7, StepRead
  <2>2. \A t \in Seen(open, p) : Last(t).node.kind = "run" => Last(t).node.name \in DOMAIN definitions
    BY DEF Follows
  <2>3. QED
    BY <1>1, <1>7, <2>1, <2>2
<1>10. e = Bind(d, Read.name, Read.body) /\ Read.name \notin DOMAIN d
  BY <1>1
<1>11. DOMAIN e = DOMAIN d \cup {Read.name} /\ e[Read.name] = Read.body /\ \A m \in DOMAIN d : e[m] = d[m]
  BY <1>10 DEF Bind
<1>12. Explored(open, p + 1, 1, w, e) = X
  <2>1. PICK q, o, name, body : q = p + 1 /\ o = open /\ name = Read.name /\ body = Read.body
    OBVIOUS
  <2>2. o = <<>>
    BY <1>5, <2>1
  <2>3. e = Bind(d, name, body) /\ name \notin DOMAIN d
    BY <1>10, <2>1
  <2>4. \A t \in Explored(o, q, 1, w, d) :
           t[Len(t)].node.kind = "run" => t[Len(t)].node.name \in DOMAIN d
    BY <1>8, <1>9, <2>1 DEF Last
  <2>5. Explored(o, q, 1, w, e) = Explored(o, q, 1, w, d)
    BY <1>2, <2>2, <2>3, <2>4, GrownSame
  <2>6. QED
    BY <1>8, <2>1, <2>5
<1>13. Seen(open, p + 1)' = X
  BY <1>1, <1>2, <1>4, <1>12 DEF Seen
<1>14. Located(open, p + 1, Rest, w, e)
  <2>1. \A k \in 1..1 : BlockOf(open, k, w, e) = BlockOf(open, k, w, d)
    BY DEF BlockOf
  <2>2. QED
    BY <1>2, <1>4, <1>5, <1>8, <2>1 DEF Located
<1>15. Located(open, p + 1, frames, written, definitions)'
  BY <1>1, <1>14
<1>16. frames' # <<>>
  BY <1>2
<1>17. Booked(PlaceOf(open, p + 1, 1))'
  <2>1. \A i \in 1..PlaceOf(open, p + 1, 1) : i \in 1..PlaceOf(open, p, 1) \/ written[i] = Read
    BY StepRead
  <2>2. Booked(PlaceOf(open, p, 1))
    BY DEF Follows
  <2>3. ASSUME NEW i \in 1..PlaceOf(open, p + 1, 1), w[i].kind = "define"
        PROVE  w[i].name \in DOMAIN e /\ e[w[i].name] = w[i].body
    <3>1. CASE w[i] = Read
      BY <1>11, <3>1
    <3>2. CASE i \in 1..PlaceOf(open, p, 1)
      BY <1>1, <1>11, <2>2, <2>3, <3>2 DEF Booked
    <3>3. QED
      BY <1>1, <2>1, <3>1, <3>2
  <2>4. QED
    BY <1>1, <2>3 DEF Booked
<1>18. \A t \in X : Last(t).node.kind = "run" => Last(t).node.name \in DOMAIN definitions'
  BY <1>1, <1>9, <1>11
<1>19. ASSUME NEW kind \in Clausal PROVE \E log : Traced(kind, log, X, Clauses(kind)')
  <2>1. PICK after : after = Clauses(kind)'
    OBVIOUS
  <2>2. after = Clauses(kind)
    BY <2>1 DEF Clauses
  <2>3. Read.kind # kind
    BY DEF Clausal
  <2>4. \E log : Traced(kind, log, Seen(open, p) \cup {Along(open, p)}, after)
    BY <2>2, <2>3, TracedOn
  <2>5. QED
    BY <1>7, <2>1, <2>4
<1>20. p + 1 \in Nat
  BY <1>5
<1>21. QED
  BY <1>5, <1>13, <1>15, <1>16, <1>17, <1>18, <1>19, <1>20 DEF Follows

(* The end of a block.                                                     *)
LEMMA LeavesFollow ==
  ASSUME Framed, written \in Seq(Standing), Books(definitions), NEW open, NEW p,
         Follows(open, p), frames # <<>>, Innermost.nodes = <<>>, frames' = Front(frames),
         UNCHANGED <<written, ast>>
  PROVE  \E o, q : Follows(o, q)'
<1>1. PICK f, g, w, d, n : f = frames /\ g = frames' /\ w = written /\ d = definitions /\ n = Len(frames)
  OBVIOUS
<1>2. /\ f \in Seq(Frame) /\ n \in Nat \ {0} /\ f[n].nodes = <<>>
      /\ Located(open, p, f, w, d) /\ w \in Seq(Standing) /\ Books(d)
  <2>1. f[n].nodes = <<>>
    BY <1>1 DEF Innermost, Last
  <2>2. QED
    BY <1>1, <2>1 DEF Follows, Framed
<1>3. g \in Seq(Frame) /\ Len(g) = n - 1 /\ \A i \in 1..(n - 1) : g[i] = f[i]
  BY <1>1, <1>2 DEF Front
<1>4. \E o \in Seq(Footing), q \in Nat :
         /\ g # <<>> => Located(o, q, g, w, d)
         /\ g = <<>> => o = <<>> /\ q = Len(w)
         /\ PlaceOf(o, q, 1) = PlaceOf(open, p, 1)
         /\ Explored(o, q, Len(g), w, d) = Explored(open, p, n, w, d)
  <2>1. CASE n = 1
    <3>1. g = <<>> /\ Len(g) = 0
      BY <1>3, <2>1
    <3>2. open \in Seq(Footing) /\ p \in Nat
      BY <1>2 DEF Located
    <3>3. open = <<>> /\ p = Len(w) /\ Explored(open, p, 0, w, d) = Explored(open, p, 1, w, d)
      <4>1. Len(f) = 1 /\ f[1].nodes = <<>>
        BY <1>1, <1>2, <2>1
      <4>2. QED
        BY <1>2, <4>1, LeavesText
    <3>4. QED
      BY <2>1, <3>1, <3>2, <3>3
  <2>2. CASE n # 1
    <3>1. Len(f) > 1 /\ f[Len(f)].nodes = <<>> /\ Len(g) = Len(f) - 1 /\ g = Front(f)
      BY <1>1, <1>2, <1>3, <2>2
    <3>2. \E o \in Seq(Footing), q \in Nat :
             /\ Located(o, q, Front(f), w, d) /\ PlaceOf(o, q, 1) = PlaceOf(open, p, 1)
             /\ Explored(o, q, Len(f) - 1, w, d) = Explored(open, p, Len(f), w, d)
      <4>1. Len(f) > 1 /\ f[Len(f)].nodes = <<>>
        BY <3>1
      <4>2. QED
        BY <1>2, <4>1, LeavesNone
    <3>3. g # <<>>
      BY <1>1, <1>3, <3>1
    <3>4. QED
      BY <1>1, <3>1, <3>2, <3>3
  <2>3. QED
    BY <2>1, <2>2
<1>5. PICK o \in Seq(Footing), q \in Nat :
         /\ g # <<>> => Located(o, q, g, w, d)
         /\ g = <<>> => o = <<>> /\ q = Len(w)
         /\ PlaceOf(o, q, 1) = PlaceOf(open, p, 1)
         /\ Explored(o, q, Len(g), w, d) = Explored(open, p, n, w, d)
  BY <1>4
<1>6. written' = w /\ definitions' = d /\ \A kind \in Clausal : Clauses(kind)' = Clauses(kind)
  BY <1>1 DEF ast, Clauses
<1>7. Seen(o, q)' = Seen(open, p)
  BY <1>1, <1>5, <1>6 DEF Seen
<1>8. Located(o, q, frames, written, definitions)' <=> Located(o, q, g, w, d)
  BY <1>1, <1>6
<1>9. Booked(PlaceOf(o, q, 1))'
  <2>1. Booked(PlaceOf(open, p, 1))
    BY DEF Follows
  <2>2. QED
    BY <1>1, <1>5, <1>6, <2>1 DEF Booked
<1>10. PICK X : X = Seen(open, p)
  OBVIOUS
<1>11. \A t \in X : Last(t).node.kind = "run" => Last(t).node.name \in DOMAIN definitions'
  BY <1>1, <1>6, <1>10 DEF Follows
<1>12. \A kind \in Clausal : \E log : Traced(kind, log, X, Clauses(kind)')
  BY <1>6, <1>10 DEF Follows
<1>13. Follows(o, q)'
  BY <1>1, <1>5, <1>6, <1>7, <1>8, <1>9, <1>10, <1>11, <1>12 DEF Follows
<1>14. QED
  BY <1>13

(* The next statement of the text.                                         *)
LEMMA WritesFollow ==
  ASSUME written \in Seq(Standing), Books(definitions), NEW open, NEW p, Follows(open, p),
         NEW s \in Standing, frames = <<>>, written' = Append(written, s),
         frames' = <<TopFrame(<<s>>)>>, UNCHANGED ast
  PROVE  Follows(open, p)'
<1>1. PICK w, d, v : w = written /\ d = definitions /\ v = written'
  OBVIOUS
<1>2. /\ w \in Seq(Standing) /\ Books(d) /\ v = Append(w, s) /\ Len(frames) = 0
      /\ Len(frames') = 1 /\ frames' # <<>>
  BY <1>1
<1>3. open = <<>> /\ p = Len(w) /\ open \in Seq(Footing) /\ p \in Nat /\ DOMAIN open = {}
  BY <1>1 DEF Follows
<1>4. /\ Located(open, Len(w), <<TopFrame(<<s>>)>>, v, d)
      /\ Explored(open, Len(w), 1, v, d) = Explored(open, Len(w), 0, w, d)
  <2>1. w \in Seq(Standing) /\ Books(d) /\ v = Append(w, s) /\ open = <<>>
    BY <1>2, <1>3
  <2>2. QED
    BY <2>1, WritesText, Zenon
<1>5. definitions' = d /\ \A kind \in Clausal : Clauses(kind)' = Clauses(kind)
  BY <1>1 DEF ast, Clauses
<1>6. Seen(open, p)' = Seen(open, p)
  BY <1>1, <1>2, <1>3, <1>4, <1>5 DEF Seen
<1>7. Located(open, p, frames, written, definitions)'
  BY <1>1, <1>3, <1>4, <1>5
<1>8. Booked(PlaceOf(open, p, 1))'
  <2>1. PlaceOf(open, p, 1) = Len(w)
    BY <1>3 DEF PlaceOf
  <2>2. Booked(Len(w))
    BY <2>1 DEF Follows
  <2>3. \A i \in 1..Len(w) : v[i] = w[i]
    BY <1>2
  <2>4. QED
    BY <1>1, <1>5, <2>1, <2>2, <2>3 DEF Booked
<1>9. PICK X : X = Seen(open, p)
  OBVIOUS
<1>10. \A t \in X : Last(t).node.kind = "run" => Last(t).node.name \in DOMAIN definitions'
  BY <1>1, <1>5, <1>9 DEF Follows
<1>11. \A kind \in Clausal : \E log : Traced(kind, log, X, Clauses(kind)')
  BY <1>5, <1>9 DEF Follows
<1>12. QED
  BY <1>2, <1>3, <1>6, <1>7, <1>8, <1>9, <1>10, <1>11 DEF Follows

(* The text of ticked sources.                                             *)
LEMMA TicksFollow ==
  ASSUME Books(definitions), NEW open, NEW p, Follows(open, p), written = <<>>,
         written' \in Seq(Standing), frames' = <<TopFrame(written')>>, UNCHANGED ast
  PROVE  Follows(<<>>, 0)'
<1>1. PICK w, d, v : w = written /\ d = definitions /\ v = written'
  OBVIOUS
<1>2. v \in Seq(Standing) /\ Books(d) /\ Len(frames') = 1 /\ frames' # <<>>
  BY <1>1
<1>3. PICK c : c = <<>>
  OBVIOUS
<1>4. c \in Seq(Footing) /\ DOMAIN c = {}
  BY <1>3
<1>5. Located(c, 0, <<TopFrame(v)>>, v, d) /\ Explored(c, 0, 1, v, d) = {}
  BY <1>2, <1>3, TicksText
<1>6. definitions' = d /\ \A kind \in Clausal : Clauses(kind)' = Clauses(kind)
  BY <1>1 DEF ast, Clauses
<1>7. Seen(open, p) = {}
  <2>1. ASSUME NEW t \in Seen(open, p) PROVE FALSE
    <3>1. t[1] \in StandsIn(written, <<>>)
      BY <2>1 DEF Seen, Explored, Trail
    <3>2. DOMAIN written = {}
      OBVIOUS
    <3>3. QED
      BY <3>1, <3>2 DEF StandsIn
  <2>2. QED
    BY <2>1
<1>8. Seen(c, 0)' = {}
  BY <1>1, <1>2, <1>5, <1>6 DEF Seen
<1>9. Located(c, 0, frames, written, definitions)'
  BY <1>1, <1>5, <1>6
<1>10. Booked(PlaceOf(c, 0, 1))'
  <2>1. PlaceOf(c, 0, 1) = 0
    BY <1>4 DEF PlaceOf
  <2>2. QED
    BY <2>1 DEF Booked
<1>11. ASSUME NEW kind \in Clausal PROVE \E log : Traced(kind, log, {}, Clauses(kind)')
  <2>1. PICK log : Traced(kind, log, Seen(open, p), Clauses(kind))
    BY DEF Follows
  <2>2. Traced(kind, log, {}, Clauses(kind))
    BY <1>7, <2>1
  <2>3. QED
    BY <1>6, <2>2
<1>12. Follows(c, 0)'
  BY <1>2, <1>4, <1>8, <1>9, <1>10, <1>11 DEF Follows
<1>13. QED
  BY <1>3, <1>12

LEMMA InitUnfolding == PInit => Unfolding
<1>1. SUFFICES ASSUME PInit PROVE Unfolding
  OBVIOUS
<1>2. written = <<>> /\ frames = <<>> /\ definitions = <<>> /\ \A kind \in Clausal : Clauses(kind) = <<>>
  BY <1>1 DEF PInit, Clauses, Clausal
<1>3. PICK c : c = <<>>
  OBVIOUS
<1>4. c \in Seq(Footing) /\ DOMAIN c = {} /\ c \in Seq({}) /\ Len(c) = 0
  BY <1>3
<1>5. Seen(c, 0) = {}
  <2>1. ASSUME NEW t \in Seen(c, 0) PROVE FALSE
    <3>1. t[1] \in StandsIn(written, <<>>)
      BY <2>1 DEF Seen, Explored, Trail
    <3>2. DOMAIN written = {}
      BY <1>2
    <3>3. QED
      BY <3>1, <3>2 DEF StandsIn
  <2>2. QED
    BY <2>1
<1>6. ASSUME NEW kind \in Clausal PROVE Traced(kind, c, {}, Clauses(kind))
  <2>1. Clauses(kind) = c
    BY <1>2, <1>3
  <2>2. \A i \in 1..Len(c) : FALSE
    BY <1>4
  <2>3. QED
    BY <1>4, <2>1, <2>2 DEF Traced
<1>7. Booked(PlaceOf(c, 0, 1))
  <2>1. PlaceOf(c, 0, 1) = 0
    BY <1>4 DEF PlaceOf
  <2>2. QED
    BY <2>1 DEF Booked
<1>8. Follows(c, 0)
  BY <1>2, <1>3, <1>4, <1>5, <1>6, <1>7 DEF Follows
<1>9. Plain
  BY <1>2 DEF Plain
<1>10. QED
  BY <1>2, <1>8, <1>9 DEF Unfolding

(* A statement that says a clause adds one, and no other statement does.   *)
LEMMA Continued ==
  ASSUME Framed, Gathered, NEW open, NEW p, Follows(open, p), written \in Seq(Standing),
         phase' # "rejected", frames # <<>>, Innermost.nodes # <<>>,
         Read.kind \notin {"when", "run", "define"}, frames' = Rest, UNCHANGED <<written, definitions>>,
         NEW c, \A kind \in Clausal :
            Clauses(kind)' = IF Read.kind = kind THEN Append(Clauses(kind), c) ELSE Clauses(kind),
         Read.kind \in Clausal => Says(c, NextStep(frames, p))
  PROVE  \E o, q : Follows(o, q)'
<1>1. Books(definitions)
  BY DEF Books, Gathered
<1>2. ASSUME NEW kind \in Clausal
      PROVE  \E log : Traced(kind, log, Seen(open, p) \cup {Along(open, p)}, Clauses(kind)')
  <2>1. PICK after : after = Clauses(kind)'
    OBVIOUS
  <2>2. Read.kind # kind => after = Clauses(kind)
    BY <2>1
  <2>3. \E C : Clauses(kind) \in Seq(C)
    BY DEF Gathered, Clausal, Clauses
  <2>4. Read.kind = kind =>
           \E C, e : /\ Clauses(kind) \in Seq(C) /\ after = Append(Clauses(kind), e)
                     /\ Says(e, NextStep(frames, p))
    BY <2>1, <2>3
  <2>5. \E log : Traced(kind, log, Seen(open, p) \cup {Along(open, p)}, after)
    BY <1>1, <2>2, <2>4, TracedOn
  <2>6. QED
    BY <2>1, <2>5
<1>3. Follows(open, p + 1)'
  BY <1>1, <1>2, Continues
<1>4. PICK q : q = p + 1
  OBVIOUS
<1>5. Follows(open, q)'
  BY <1>3, <1>4
<1>6. QED
  BY <1>5

LEMMA CollectsFollow ==
  ASSUME Framed, Gathered, written \in Seq(Standing), NEW open, NEW p, Follows(open, p), Collects,
         phase' # "rejected"
  PROVE  \E o, q : Follows(o, q)'
<1>1. PICK c : c = [source |-> Read.source, from |-> Read.from,
                    arguments |-> [i \in DOMAIN Read.arguments |-> Value(Read.arguments[i])],
                    conditions |-> Innermost.conditions]
  OBVIOUS
<1>2. /\ frames # <<>> /\ Innermost.nodes # <<>> /\ Read.kind = "collect"
      /\ collections' = Append(collections, c) /\ frames' = Rest
      /\ UNCHANGED <<written, definitions, filters, correlations>>
  BY <1>1 DEF Collects, Reading, Goes, Rejects
<1>3. \A kind \in Clausal :
         Clauses(kind)' = IF Read.kind = kind THEN Append(Clauses(kind), c) ELSE Clauses(kind)
  BY <1>2 DEF Clauses, Clausal
<1>4. Says(c, NextStep(frames, p))
  BY <1>1, <1>2, ReadIsNext DEF Says
<1>5. QED
  BY <1>2, <1>3, <1>4, Continued

LEMMA FiltersFollow ==
  ASSUME Framed, Gathered, written \in Seq(Standing), NEW open, NEW p, Follows(open, p), Filters,
         phase' # "rejected"
  PROVE  \E o, q : Follows(o, q)'
<1>1. PICK c : c = [predicate |-> Read.predicate, conditions |-> Innermost.conditions]
  OBVIOUS
<1>2. /\ frames # <<>> /\ Innermost.nodes # <<>> /\ Read.kind = "filter"
      /\ filters' = Append(filters, c) /\ frames' = Rest
      /\ UNCHANGED <<written, definitions, collections, correlations>>
  BY <1>1 DEF Filters, Reading, Goes
<1>3. \A kind \in Clausal :
         Clauses(kind)' = IF Read.kind = kind THEN Append(Clauses(kind), c) ELSE Clauses(kind)
  BY <1>2 DEF Clauses, Clausal
<1>4. Says(c, NextStep(frames, p))
  BY <1>1, <1>2, ReadIsNext DEF Says
<1>5. QED
  BY <1>2, <1>3, <1>4, Continued

LEMMA RelatesFollow ==
  ASSUME Framed, Gathered, written \in Seq(Standing), NEW open, NEW p, Follows(open, p),
         RelatesSubjects, phase' # "rejected"
  PROVE  \E o, q : Follows(o, q)'
<1>1. PICK c : c = [left |-> Read.left, right |-> Read.right, conditions |-> Innermost.conditions]
  OBVIOUS
<1>2. /\ frames # <<>> /\ Innermost.nodes # <<>> /\ Read.kind = "correlate"
      /\ correlations' = Append(correlations, c) /\ frames' = Rest
      /\ UNCHANGED <<written, definitions, collections, filters>>
  BY <1>1 DEF RelatesSubjects, Reading, Goes
<1>3. \A kind \in Clausal :
         Clauses(kind)' = IF Read.kind = kind THEN Append(Clauses(kind), c) ELSE Clauses(kind)
  BY <1>2 DEF Clauses, Clausal
<1>4. Says(c, NextStep(frames, p))
  BY <1>1, <1>2, ReadIsNext DEF Says
<1>5. QED
  BY <1>2, <1>3, <1>4, Continued

LEMMA ReadsTargetFollow ==
  ASSUME Framed, Gathered, written \in Seq(Standing), NEW open, NEW p, Follows(open, p),
         ReadsTarget \/ Lets, phase' # "rejected"
  PROVE  \E o, q : Follows(o, q)'
<1>1. /\ frames # <<>> /\ Innermost.nodes # <<>> /\ Read.kind \in {"case", "target", "let"}
      /\ frames' = Rest /\ UNCHANGED <<written, definitions, collections, filters, correlations>>
  <2>1. CASE ReadsTarget
    BY <2>1 DEF ReadsTarget, Reading, Goes, ast
  <2>2. CASE Lets
    BY <2>2 DEF Lets, Reading, Goes, Rejects
  <2>3. QED
    BY <2>1, <2>2
<1>2. PICK c : c = Read
  OBVIOUS
<1>3. \A kind \in Clausal :
         Clauses(kind)' = IF Read.kind = kind THEN Append(Clauses(kind), c) ELSE Clauses(kind)
  BY <1>1 DEF Clauses, Clausal
<1>4. Read.kind \notin Clausal
  BY <1>1 DEF Clausal
<1>5. QED
  BY <1>1, <1>3, <1>4, Continued

LEMMA RunsFollow ==
  ASSUME Framed, Gathered, written \in Seq(Standing), NEW open, NEW p, Follows(open, p), Runs,
         phase' # "rejected"
  PROVE  \E o, q : Follows(o, q)'
<1>1. PICK e, name : e = Playbook(Read.name) /\ name = Read.name
  OBVIOUS
<1>2. /\ frames # <<>> /\ Innermost.nodes # <<>> /\ Read.kind = "run" /\ MayRun(Read.name)
      /\ frames' = Append(Rest, e) /\ UNCHANGED <<written, ast>>
  BY <1>1 DEF Runs, Reading, Enters, Rejects
<1>3. name \in DOMAIN definitions /\ definitions[name] \in Seq(Standing) /\ Books(definitions)
  BY <1>1, <1>2 DEF MayRun, Gathered, Books
<1>4. Read \in Standing /\ Innermost \in Frame
  BY <1>2, RestFramed
<1>5. e = [nodes |-> definitions[name], conditions |-> Innermost.conditions,
           stack |-> Append(Innermost.stack, name)]
  BY <1>1 DEF Playbook
<1>6. e \in Frame
  <2>1. PICK stack : stack = Innermost.stack
    OBVIOUS
  <2>2. stack \in Seq(Titles) /\ Innermost.conditions \in Seq(Guarding) /\ name \in Titles
    BY <1>1, <1>2, <1>4, <2>1, StandingFacts DEF Frame
  <2>3. Append(stack, name) \in Seq(Titles)
    BY <2>2
  <2>4. QED
    BY <1>3, <1>5, <2>1, <2>2, <2>3 DEF Frame
<1>7. Unfolds(Read, definitions) /\ e.nodes = BlockIn(Read, definitions)
  BY <1>1, <1>2, <1>3, <1>5 DEF Unfolds, BlockIn
<1>8. e.conditions = Guards(NextStep(frames, p))
  BY <1>2, <1>5, ReadIsNext DEF Guards
<1>9. QED
  BY <1>2, <1>3, <1>6, <1>7, <1>8, OpensBlock

LEMMA WhensFollow ==
  ASSUME Framed, Gathered, written \in Seq(Standing), NEW open, NEW p, Follows(open, p), Whens,
         phase' # "rejected"
  PROVE  \E o, q : Follows(o, q)'
<1>1. PICK e : e = [nodes |-> Read.body, conditions |-> Append(Innermost.conditions, Read.guard),
                    stack |-> Innermost.stack]
  OBVIOUS
<1>2. /\ frames # <<>> /\ Innermost.nodes # <<>> /\ Read.kind = "when"
      /\ frames' = Append(Rest, e) /\ UNCHANGED <<written, ast>>
  BY <1>1 DEF Whens, Reading, Enters
<1>3. Books(definitions) /\ Read \in Standing /\ Innermost \in Frame
  BY <1>2, RestFramed DEF Gathered, Books
<1>4. e \in Frame
  <2>1. PICK c, g : c = Innermost.conditions /\ g = Read.guard
    OBVIOUS
  <2>2. c \in Seq(Guarding) /\ g \in Guarding
    BY <1>2, <1>3, <2>1, StandingFacts DEF Frame
  <2>3. Append(c, g) \in Seq(Guarding)
    BY <2>2
  <2>4. Read.body \in Seq(Standing) /\ Innermost.stack \in Seq(Titles)
    BY <1>2, <1>3, StandingFacts DEF Frame
  <2>5. QED
    BY <1>1, <2>1, <2>3, <2>4 DEF Frame
<1>5. Unfolds(Read, definitions) /\ e.nodes = BlockIn(Read, definitions)
  BY <1>1, <1>2 DEF Unfolds, BlockIn
<1>6. e.conditions = Guards(NextStep(frames, p))
  BY <1>1, <1>2, ReadIsNext DEF Guards
<1>7. QED
  BY <1>2, <1>3, <1>4, <1>5, <1>6, OpensBlock

LEMMA NextPlain ==
  ASSUME Framed, Plain, [PNext]_pvars
  PROVE  Plain'
<1>1. CASE UNCHANGED definitions
  BY <1>1 DEF Plain
<1>2. CASE Defines /\ phase' # "rejected" /\ Read.name \notin DOMAIN definitions
  <2>1. PICK name, body, e, d : name = Read.name /\ body = Read.body /\ e = definitions' /\ d = definitions
    OBVIOUS
  <2>2. e = Bind(d, name, body) /\ Read \in Standing /\ Read.kind = "define"
    BY <1>2, <2>1, RestFramed DEF Defines, Reading
  <2>3. \A i \in DOMAIN body : body[i].kind \in InBlocks
    <3>1. Read \in Node
      BY <2>2 DEF Standing
    <3>2. QED
      BY <2>1, <2>2, <3>1, ProgramAssumption DEF InBlocks
  <2>4. \A m \in DOMAIN e : e[m] = body \/ (m \in DOMAIN d /\ e[m] = d[m])
    BY <2>2 DEF Bind
  <2>5. \A m \in DOMAIN e : \A i \in DOMAIN e[m] : e[m][i].kind \in InBlocks
    BY <2>1, <2>3, <2>4 DEF Plain
  <2>6. QED
    BY <2>1, <2>5 DEF Plain
<1>3. CASE Defines /\ Read.name \in DOMAIN definitions
  BY <1>1, <1>3 DEF Defines, Rejects, ast
<1>4. CASE Defines /\ Read.name \notin DOMAIN definitions /\ phase' = "rejected"
  BY <1>4 DEF Defines, Reading, Goes
<1>5. CASE UNCHANGED pvars
  BY <1>1, <1>5 DEF pvars, ast
<1>6. QED
  BY <1>1, <1>2, <1>3, <1>4, <1>5
     DEF PNext, Writes, Ticks, ReadsTarget, Lets, Runs, Whens, Collects, Filters, RelatesSubjects,
         Leaves, Compiles, Plans, RunsPlan, Lists, Goes, Enters, Rejects, ast

LEMMA NextWritten ==
  ASSUME written \in Seq(Standing), Framed, Gathered, [PNext]_pvars
  PROVE  written' \in Seq(Standing)
<1>1. CASE UNCHANGED written
  BY <1>1
<1>2. ASSUME NEW s \in Statement, Writes(s) PROVE written' \in Seq(Standing)
  <2>1. s \in Standing
    BY ProgramAssumption DEF Standing
  <2>2. QED
    BY <1>2, <2>1 DEF Writes
<1>3. ASSUME NEW names \in Ticked, Ticks(names) PROVE written' \in Seq(Standing)
  <2>1. CASE \A i \in DOMAIN names : names[i] \in Selectable
    <3>1. frames' = <<TopFrame(written')>>
      BY <1>3, <2>1 DEF Ticks, TopFrame
    <3>2. frames' \in Seq(Frame)
      BY NextFramed DEF Framed
    <3>3. PICK g, v : g = frames' /\ v = written'
      OBVIOUS
    <3>4. g = <<TopFrame(v)>> /\ g \in Seq(Frame)
      BY <3>1, <3>2, <3>3
    <3>5. g[1] \in Frame /\ g[1].nodes = v
      BY <3>4 DEF TopFrame
    <3>6. QED
      BY <3>3, <3>5 DEF Frame
  <2>2. CASE ~ \A i \in DOMAIN names : names[i] \in Selectable
    BY <1>1, <1>3, <2>2 DEF Ticks, Rejects
  <2>3. QED
    BY <2>1, <2>2
<1>4. CASE UNCHANGED pvars
  BY <1>1, <1>4 DEF pvars
<1>5. QED
  BY <1>1, <1>2, <1>3, <1>4
     DEF PNext, ReadsTarget, Lets, Defines, Runs, Whens, Collects, Filters, RelatesSubjects,
         Leaves, Compiles, Plans, RunsPlan, Lists, Goes, Enters, Rejects

(* What reads nothing leaves the reader where it was.                      *)
LEMMA FollowsStill ==
  ASSUME NEW open, NEW p, Follows(open, p), UNCHANGED <<written, frames, ast>>
  PROVE  \E o, q : Follows(o, q)'
<1>1. \A kind \in Clausal : Clauses(kind)' = Clauses(kind)
  BY DEF ast, Clauses
<1>2. PICK X : X = Seen(open, p)
  OBVIOUS
<1>3. Seen(open, p)' = X
  BY <1>2 DEF Seen, ast
<1>4. \A kind \in Clausal : \E log : Traced(kind, log, X, Clauses(kind)')
  BY <1>1, <1>2 DEF Follows
<1>5. \A t \in X : Last(t).node.kind = "run" => Last(t).node.name \in DOMAIN definitions'
  BY <1>2 DEF Follows, ast
<1>6. Booked(PlaceOf(open, p, 1))'
  BY DEF Follows, Booked, ast
<1>7. /\ open \in Seq(Footing) /\ p \in Nat
      /\ frames' # <<>> => Located(open, p, frames, written, definitions)'
      /\ frames' = <<>> => open = <<>> /\ p = Len(written)'
  BY DEF Follows, ast
<1>8. Follows(open, p)'
  BY <1>3, <1>4, <1>5, <1>6, <1>7 DEF Follows
<1>9. QED
  BY <1>8

(* Every step of the reader keeps it.                                      *)
LEMMA NextUnfolding ==
  ASSUME Framed, Gathered, Phased, Unfolding, [PNext]_pvars
  PROVE  Unfolding'
<1>1. Plain' /\ written' \in Seq(Standing) /\ written \in Seq(Standing) /\ Books(definitions) /\ Plain
  BY NextPlain, NextWritten DEF Unfolding, Gathered, Books
<1>2. SUFFICES ASSUME phase' # "rejected" PROVE \E o, q : Follows(o, q)'
  BY <1>1 DEF Unfolding
<1>3. phase # "rejected"
  <2>1. SUFFICES ASSUME phase = "rejected" PROVE phase' = "rejected"
    BY <1>2
  <2>2. frames = <<>>
    BY <2>1 DEF Phased
  <2>3. QED
    BY <2>1, <2>2
       DEF PNext, Writes, Ticks, ReadsTarget, Lets, Defines, Runs, Whens, Collects, Filters,
           RelatesSubjects, Reading, Leaves, Compiles, Plans, RunsPlan, Lists, pvars
<1>4. PICK open, p : Follows(open, p)
  BY <1>3 DEF Unfolding
<1>5. ASSUME NEW s \in Statement, Writes(s) PROVE \E o, q : Follows(o, q)'
  <2>1. s \in Standing
    BY ProgramAssumption DEF Standing
  <2>2. /\ frames = <<>> /\ written' = Append(written, s)
        /\ frames' = <<TopFrame(<<s>>)>> /\ UNCHANGED ast
    BY <1>5 DEF Writes, TopFrame
  <2>3. Follows(open, p)'
    BY <1>1, <1>4, <2>1, <2>2, WritesFollow
  <2>4. QED
    BY <2>3
<1>6. ASSUME NEW names \in Ticked, Ticks(names) PROVE \E o, q : Follows(o, q)'
  <2>1. written = <<>> /\ frames' = <<TopFrame(written')>> /\ UNCHANGED ast
    BY <1>2, <1>6 DEF Ticks, TopFrame, Rejects
  <2>2. Follows(<<>>, 0)'
    BY <1>1, <1>4, <2>1, TicksFollow
  <2>3. PICK c, z : c = <<>> /\ z = 0
    OBVIOUS
  <2>4. Follows(c, z)'
    BY <2>2, <2>3
  <2>5. QED
    BY <2>4
<1>7. CASE ReadsTarget \/ Lets
  BY <1>1, <1>2, <1>4, <1>7, ReadsTargetFollow
<1>8. CASE Defines
  <2>1. /\ frames # <<>> /\ Innermost.nodes # <<>> /\ Read.kind = "define"
        /\ Read.name \notin DOMAIN definitions /\ frames' = Rest
        /\ definitions' = Bind(definitions, Read.name, Read.body)
        /\ UNCHANGED <<written, collections, filters, correlations>>
    BY <1>2, <1>8 DEF Defines, Reading, Goes, Rejects
  <2>2. Follows(open, p + 1)'
    BY <1>1, <1>4, <2>1, DefinesFollow
  <2>3. PICK q : q = p + 1
    OBVIOUS
  <2>4. Follows(open, q)'
    BY <2>2, <2>3
  <2>5. QED
    BY <2>4
<1>9. CASE Runs
  BY <1>1, <1>2, <1>4, <1>9, RunsFollow
<1>10. CASE Whens
  BY <1>1, <1>2, <1>4, <1>10, WhensFollow
<1>11. CASE Collects
  BY <1>1, <1>2, <1>4, <1>11, CollectsFollow
<1>12. CASE Filters
  BY <1>1, <1>2, <1>4, <1>12, FiltersFollow
<1>13. CASE RelatesSubjects
  BY <1>1, <1>2, <1>4, <1>13, RelatesFollow
<1>14. CASE Leaves
  <2>1. /\ frames # <<>> /\ Innermost.nodes = <<>> /\ frames' = Front(frames)
        /\ UNCHANGED <<written, ast>>
    BY <1>14 DEF Leaves
  <2>2. QED
    BY <1>1, <1>4, <2>1, LeavesFollow
<1>15. ASSUME UNCHANGED <<written, frames, ast>> PROVE \E o, q : Follows(o, q)'
  BY <1>4, <1>15, FollowsStill
<1>16. CASE UNCHANGED pvars
  BY <1>15, <1>16 DEF pvars
<1>17. QED
  BY <1>5, <1>6, <1>7, <1>8, <1>9, <1>10, <1>11, <1>12, <1>13, <1>14, <1>15, <1>16
     DEF PNext, Compiles, Plans, RunsPlan, Lists

(* A log of what was met is the list of it as read.                        *)
LEMMA LogIsOrdered ==
  ASSUME NEW kind, NEW log, NEW X, X \subseteq Seq(Footing), NEW clauses,
         Traced(kind, log, X, clauses), NEW met, met = {t \in X : Last(t).node.kind = kind}
  PROVE  Ordered(met, AsRead(met)) = log
<1>1. /\ log \in Seq(X) /\ Len(log) \in Nat /\ DOMAIN log = 1..Len(log)
      /\ \A i \in 1..Len(log) : log[i] \in X
  BY ListFacts DEF Traced
<1>2. \A i \in 1..Len(log) : log[i] \in met
  BY <1>1 DEF Traced
<1>3. log \in Seq(met)
  <2>1. PICK n : n = Len(log)
    OBVIOUS
  <2>2. log \in [1..n -> X]
    BY <1>1, <2>1
  <2>3. log \in [1..n -> met]
    BY <1>2, <2>1, <2>2
  <2>4. n \in Nat
    BY <1>1, <2>1
  <2>5. QED
    BY <2>3, <2>4
<1>4. \A t \in met : \E n \in 1..Len(log) : log[n] = t
  BY DEF Traced
<1>5. ASSUME NEW m \in 1..Len(log), NEW n \in 1..Len(log)
      PROVE  m < n <=> <<log[m], log[n]>> \in AsRead(met)
  <2>1. <<log[m], log[n]>> \in AsRead(met) <=> Before(log[m], log[n])
    BY <1>2 DEF AsRead
  <2>2. log[m] \in Seq(Footing) /\ log[n] \in Seq(Footing)
    BY <1>1
  <2>3. CASE m < n
    BY <2>1, <2>3 DEF Traced
  <2>4. CASE n < m
    <3>1. Before(log[n], log[m]) /\ ~(m < n)
      BY <2>4 DEF Traced
    <3>2. ~Before(log[m], log[n])
      BY <2>2, <3>1, BeforeOneWay
    <3>3. QED
      BY <2>1, <3>1, <3>2
  <2>5. CASE m = n
    <3>1. ~Before(log[m], log[m])
      BY <2>2, BeforeOneWay
    <3>2. QED
      BY <2>1, <2>5, <3>1
  <2>6. QED
    BY <1>1, <2>3, <2>4, <2>5
<1>6. QED
  BY <1>3, <1>4, <1>5, OrderedIs

(* At the end of a text that goes no deeper than MaxBlocks, every trail    *)
(* has been explored.                                                      *)
LEMMA AllExplored ==
  ASSUME Unfolding, Books(definitions), frames = <<>>, Trails[MaxBlocks + 1] = {},
         NEW open, NEW p, Follows(open, p)
  PROVE  /\ Seen(open, p) = AllTrails /\ AllTrails \subseteq Seq(Footing)
         /\ \A i \in DOMAIN written : i \in 1..PlaceOf(open, p, 1)
<1>1. MaxBlocks \in Nat /\ written \in Seq(Standing)
  BY ProgramAssumption DEF Unfolding
<1>2. \A k \in 1..(MaxBlocks + 1) : Trails[k] = Long(k)
  BY <1>1, TrailsAre
<1>3. open = <<>> /\ p = Len(written) /\ Len(frames) = 0
  BY DEF Follows
<1>4. AllTrails \subseteq Seq(Footing)
  <2>1. \A k \in 1..MaxBlocks : k \in 1..(MaxBlocks + 1)
    BY <1>1
  <2>2. QED
    BY <1>2, <2>1 DEF AllTrails, Long
<1>5. ASSUME NEW t \in Seq(Footing), Trail(t, written, definitions) PROVE t \in AllTrails
  <2>1. Len(t) \in Nat \ {0}
    BY <1>5 DEF Trail
  <2>2. Len(t) <= MaxBlocks
    <3>1. SUFFICES ASSUME ~(Len(t) <= MaxBlocks) PROVE FALSE
      OBVIOUS
    <3>2. PICK m, u : m = MaxBlocks + 1 /\ u = SubSeq(t, 1, m)
      OBVIOUS
    <3>3. m \in 1..Len(t) /\ m \in 1..(MaxBlocks + 1)
      BY <1>1, <2>1, <3>1, <3>2
    <3>4. u \in Seq(Footing) /\ Len(u) = m /\ \A i \in 1..m : u[i] = t[i]
      BY <3>2, <3>3
    <3>5. Trail(u, written, definitions)
      BY <1>5, <3>3, <3>4, TrailStarts
    <3>6. u \in Trails[m]
      BY <1>2, <3>3, <3>4, <3>5 DEF Long
    <3>7. QED
      BY <3>2, <3>6
  <2>3. Len(t) \in 1..MaxBlocks /\ Len(t) \in 1..(MaxBlocks + 1)
    BY <1>1, <2>1, <2>2
  <2>4. t \in Long(Len(t))
    BY <1>5 DEF Long
  <2>5. t \in Trails[Len(t)]
    BY <1>2, <2>3, <2>4
  <2>6. QED
    BY <2>3, <2>5 DEF AllTrails
<1>6. ASSUME NEW t \in AllTrails PROVE Trail(t, written, definitions)
  <2>1. PICK k \in 1..MaxBlocks : t \in Trails[k]
    BY DEF AllTrails
  <2>2. k \in 1..(MaxBlocks + 1)
    BY <1>1
  <2>3. t \in Long(k)
    BY <1>2, <2>1, <2>2
  <2>4. QED
    BY <2>3 DEF Long
<1>7. ASSUME NEW t \in Seq(Footing) PROVE Passed(t, open, p, 0)
  <2>1. \A k \in DOMAIN t : ~(k <= 0)
    BY TrailTyped
  <2>2. QED
    BY <2>1 DEF Passed
<1>8. Seen(open, p) = AllTrails
  BY <1>3, <1>4, <1>5, <1>6, <1>7 DEF Seen, Explored
<1>9. PlaceOf(open, p, 1) = Len(written)
  BY <1>3 DEF PlaceOf
<1>10. QED
  BY <1>1, <1>4, <1>8, <1>9

(* A compiled program unfolds as it is written.                            *)
LEMMA UnfoldsRead ==
  ASSUME Framed, Gathered, Phased, Unfolding
  PROVE  UnfoldsAsWritten
<1>1. SUFFICES ASSUME phase = "compiled", Trails[MaxBlocks + 1] = {}
               PROVE  /\ \A i \in DOMAIN written : written[i].kind = "define" =>
                            /\ written[i].name \in DOMAIN definitions
                            /\ definitions[written[i].name] = written[i].body
                      /\ \A t \in AllTrails : Last(t).node.kind = "run" => Expands(Last(t).node)
                      /\ \A kind \in Clausal :
                            LET met == {t \in AllTrails : Last(t).node.kind = kind}
                                told == Ordered(met, AsRead(met))
                            IN  /\ Len(Clauses(kind)) = Len(told)
                                /\ \A i \in DOMAIN told : Says(Clauses(kind)[i], Last(told[i]))
  BY DEF UnfoldsAsWritten, Clausal
<1>2. frames = <<>> /\ Books(definitions)
  BY <1>1 DEF Phased, Gathered, Books
<1>3. PICK open, p : Follows(open, p)
  BY <1>1 DEF Unfolding
<1>4. /\ Seen(open, p) = AllTrails /\ AllTrails \subseteq Seq(Footing)
      /\ \A i \in DOMAIN written : i \in 1..PlaceOf(open, p, 1)
  BY <1>1, <1>2, <1>3, AllExplored
<1>5. \A i \in DOMAIN written : written[i].kind = "define" =>
         /\ written[i].name \in DOMAIN definitions
         /\ definitions[written[i].name] = written[i].body
  BY <1>3, <1>4 DEF Follows, Booked
<1>6. \A t \in AllTrails : Last(t).node.kind = "run" => Expands(Last(t).node)
  BY <1>3, <1>4 DEF Follows, Expands
<1>7. ASSUME NEW kind \in Clausal
      PROVE  LET met == {t \in AllTrails : Last(t).node.kind = kind}
                 told == Ordered(met, AsRead(met))
             IN  /\ Len(Clauses(kind)) = Len(told)
                 /\ \A i \in DOMAIN told : Says(Clauses(kind)[i], Last(told[i]))
  <2>1. PICK X, met : X = AllTrails /\ met = {t \in X : Last(t).node.kind = kind}
    OBVIOUS
  <2>2. PICK log : Traced(kind, log, X, Clauses(kind))
    BY <1>3, <1>4, <2>1 DEF Follows
  <2>3. Ordered(met, AsRead(met)) = log
    <3>1. X \subseteq Seq(Footing)
      BY <1>4, <2>1
    <3>2. met = {t \in X : Last(t).node.kind = kind}
      BY <2>1
    <3>3. QED
      BY <2>2, <3>1, <3>2, LogIsOrdered
  <2>4. Len(log) = Len(Clauses(kind)) /\ \A i \in DOMAIN log : Says(Clauses(kind)[i], Last(log[i]))
    <3>1. DOMAIN log = 1..Len(log)
      BY <2>2, ListFacts DEF Traced
    <3>2. QED
      BY <2>2, <3>1 DEF Traced
  <2>5. QED
    BY <2>1, <2>3, <2>4
<1>8. QED
  BY <1>5, <1>6, <1>7

-----------------------------------------------------------------------------
(* What a program promises                                                 *)

PInv == Framed /\ Gathered /\ Phased /\ Planned /\ Unfolding /\ EveryRequestAnswered

LEMMA TaskFacts ==
  ASSUME NEW platform, NEW c
  PROVE  LET t == TaskFor(platform, c)
         IN  /\ t.source = c.source /\ t.arguments = c.arguments /\ t.from = c.from
             /\ t.status = "READY" <=>
                  /\ \A j \in DOMAIN c.conditions : GuardHolds(platform, c.conditions[j])
                  /\ c.source \in DOMAIN Supported(platform)
<1>1. Unmet(platform, c.conditions) = {} <=>
         \A j \in DOMAIN c.conditions : GuardHolds(platform, c.conditions[j])
  BY DEF Unmet, ToSet
<1>2. QED
  BY <1>1 DEF TaskFor

LEMMA SupportedFacts ==
  ASSUME NEW platform \in {"linux", "windows"}, NEW source \in DOMAIN Supported(platform)
  PROVE  source \in DOMAIN Registry /\ Registry[source] = Supported(platform)[source]
<1>1. CASE platform = "linux"
  BY <1>1 DEF Supported, Linux, Registry
<1>2. CASE platform = "windows"
  BY <1>2 DEF Supported, Windows, Registry
<1>3. QED
  BY <1>1, <1>2

(* Every request of a valid plan that is run is answered.                  *)
LEMMA RunAnswers ==
  ASSUME Valid, Planned, phase = "planned", NEW here \in BOOLEAN, RunsPlan(here)
  PROVE  EveryRequestAnswered'
<1>1. /\ plan.platform \in {"linux", "windows"}
      /\ plan.tasks = [i \in DOMAIN collections |-> TaskFor(plan.platform, collections[i])]
  BY DEF Planned
<1>2. PICK chosen : chosen = {i \in Ready : here => plan.tasks[i].source \notin Baseline}
  OBVIOUS
<1>3. PICK completed : completed = {i \in chosen : Runnable(i)}
  OBVIOUS
<1>4. PICK failing \in SUBSET completed :
        steps' = [i \in IF here THEN completed ELSE chosen |->
                    IF i \notin completed THEN "refused"
                    ELSE IF i \in failing THEN "failed" ELSE Called(i)]
  BY <1>2, <1>3 DEF RunsPlan
<1>5. UNCHANGED <<collections, plan>>
  BY DEF RunsPlan, ast
<1>6. ASSUME NEW i \in DOMAIN collections
      PROVE  LET c == collections[i]
                 wanted == /\ \A j \in DOMAIN c.conditions : GuardHolds(plan.platform, c.conditions[j])
                           /\ c.source \in DOMAIN Supported(plan.platform)
             IN  IF wanted
                 THEN \/ c.source \in Baseline
                      \/ i \in DOMAIN steps' /\ steps'[i] \in {"collected", "failed"}
                      \/ i \in DOMAIN steps' /\ c.from
                 ELSE plan.tasks[i].status # "READY" /\ i \notin DOMAIN steps'
  <2>1. PICK c : c = collections[i]
    OBVIOUS
  <2>2. PICK wanted \in BOOLEAN :
           wanted <=> /\ \A j \in DOMAIN c.conditions : GuardHolds(plan.platform, c.conditions[j])
                      /\ c.source \in DOMAIN Supported(plan.platform)
    OBVIOUS
  <2>3. plan.tasks[i] = TaskFor(plan.platform, c)
    BY <1>1, <2>1
  <2>4. /\ plan.tasks[i].source = c.source /\ plan.tasks[i].arguments = c.arguments
        /\ plan.tasks[i].status = "READY" <=> wanted
    BY <2>2, <2>3, TaskFacts
  <2>5. i \in Ready <=> wanted
    BY <1>1, <2>4 DEF Ready
  <2>6. CASE ~wanted
    <3>1. i \notin chosen /\ i \notin completed
      BY <1>2, <1>3, <2>5, <2>6
    <3>2. i \notin DOMAIN steps'
      BY <1>4, <3>1
    <3>3. QED
      BY <2>1, <2>2, <2>4, <2>6, <3>2
  <2>7. CASE wanted /\ c.source \notin Baseline
    <3>1. i \in chosen
      BY <1>2, <2>4, <2>5, <2>7
    <3>2. Runnable(i)
      <4>1. c.source \in DOMAIN Registry /\ Registry[c.source] = Supported(plan.platform)[c.source]
        BY <1>1, <2>2, <2>7, SupportedFacts
      <4>2. QED
        BY <2>4, <4>1 DEF Runnable, Collector
    <3>3. i \in completed
      BY <1>3, <3>1, <3>2
    <3>4. i \in DOMAIN steps' /\ steps'[i] \in {"failed", Called(i)}
      BY <1>3, <1>4, <3>1, <3>3
    <3>5. Called(i) = "collected" \/ (c.source = "MEMORY" /\ c.arguments = <<>>)
      BY <2>4 DEF Called
    <3>6. Collectable(c)
      BY <2>1 DEF Valid
    <3>7. Called(i) = "collected" \/ c.from
      BY <3>5, <3>6 DEF Collectable
    <3>8. QED
      BY <2>1, <2>2, <2>7, <3>4, <3>7
  <2>8. CASE wanted /\ c.source \in Baseline
    BY <2>1, <2>2, <2>8
  <2>9. QED
    BY <2>6, <2>7, <2>8
<1>7. QED
  BY <1>5, <1>6 DEF EveryRequestAnswered

LEMMA NextAnswered ==
  ASSUME Phased, Planned, EveryRequestAnswered, [PNext]_pvars
  PROVE  EveryRequestAnswered'
<1>1. SUFFICES ASSUME phase' = "ran" PROVE EveryRequestAnswered'
  BY DEF EveryRequestAnswered
<1>2. phase \in {"planned", "ran"} /\ UNCHANGED collections
  BY <1>1, PhaseSteps DEF ast
<1>3. ASSUME phase = "ran", UNCHANGED <<plan, steps>> PROVE EveryRequestAnswered'
  BY <1>2, <1>3 DEF EveryRequestAnswered
<1>4. ASSUME NEW here \in BOOLEAN, RunsPlan(here) PROVE EveryRequestAnswered'
  <2>1. phase = "planned" /\ Valid
    BY <1>4 DEF RunsPlan, Phased
  <2>2. QED
    BY <1>4, <2>1, RunAnswers
<1>5. ASSUME NEW r \in Listed, Lists(r) PROVE EveryRequestAnswered'
  BY <1>3, <1>5 DEF Lists
<1>6. CASE UNCHANGED pvars
  BY <1>1, <1>3, <1>6 DEF pvars
<1>7. CASE Leaves
  BY <1>2, <1>7 DEF Leaves, Phased
<1>8. QED
  BY <1>2, <1>4, <1>5, <1>6, <1>7
     DEF PNext, Writes, Ticks, ReadsTarget, Lets, Defines, Runs, Whens, Collects, Filters,
         RelatesSubjects, Reading, Compiles, Plans

LEMMA SubjectsPlanned == PInv => CorrelationsHaveSubjects
<1>1. SUFFICES ASSUME PInv, phase = "planned", NEW c \in ToSet(plan.correlations),
                      NEW s \in {Needed(c.left), Needed(c.right)}
               PROVE  \/ \E i \in Ready : plan.tasks[i].source = s
                      \/ /\ s \in Requested
                         /\ \/ s \notin DOMAIN Supported(plan.platform)
                            \/ \A i \in DOMAIN collections : collections[i].source = s =>
                                  ~(ToSet(collections[i].conditions) \subseteq ToSet(c.conditions))
  BY DEF CorrelationsHaveSubjects
<1>2. /\ plan.tasks = [i \in DOMAIN collections |-> TaskFor(plan.platform, collections[i])]
      /\ plan.correlations = Active(plan.platform, correlations) /\ Valid
  BY <1>1 DEF PInv, Planned, Phased
<1>3. c \in ToSet(correlations) /\ Unmet(plan.platform, c.conditions) = {}
  <2>1. PICK T : T = {d \in ToSet(correlations) : Unmet(plan.platform, d.conditions) = {}}
    OBVIOUS
  <2>2. PICK w : w = Where(correlations, T)
    OBVIOUS
  <2>3. correlations \in Seq(ToSet(correlations))
    BY <1>1 DEF PInv, Gathered
  <2>4. \A n \in DOMAIN w : w[n] \in T
    BY <2>2, <2>3, WhereSelects
  <2>5. plan.correlations = w
    BY <1>2, <2>1, <2>2 DEF Active
  <2>6. c \in T
    BY <1>1, <2>4, <2>5 DEF ToSet
  <2>7. QED
    BY <2>1, <2>6
<1>4. s \in Requested
  <2>1. Answerable(c)
    BY <1>2, <1>3 DEF Valid, ToSet
  <2>2. QED
    BY <1>1, <2>1 DEF Answerable
<1>5. ASSUME s \in DOMAIN Supported(plan.platform), NEW i \in DOMAIN collections,
             collections[i].source = s, ToSet(collections[i].conditions) \subseteq ToSet(c.conditions)
      PROVE  i \in Ready /\ plan.tasks[i].source = s
  <2>1. PICK d : d = collections[i]
    OBVIOUS
  <2>2. plan.tasks[i] = TaskFor(plan.platform, d)
    BY <1>2, <2>1
  <2>3. \A j \in DOMAIN d.conditions : GuardHolds(plan.platform, d.conditions[j])
    BY <1>3, <1>5, <2>1 DEF Unmet, ToSet
  <2>4. plan.tasks[i].status = "READY" /\ plan.tasks[i].source = s
    BY <1>5, <2>1, <2>2, <2>3, TaskFacts
  <2>5. QED
    BY <1>2, <2>4 DEF Ready
<1>6. QED
  BY <1>4, <1>5

LEMMA SelectionHolds == PInv => SelectionAnswersProgram
<1>1. SUFFICES ASSUME PInv, phase = "ran", filters # <<>>, plan.filters = filters
               PROVE  SelectionAnswersProgram
  BY DEF SelectionAnswersProgram
<1>2. PICK admitted : admitted = {r \in Listed : \A f \in ToSet(plan.filters) : r \in Denotes[f.predicate]}
  OBVIOUS
<1>3. PICK hits : hits = {i \in DOMAIN rows : rows[i] \in admitted}
  OBVIOUS
<1>4. rows \in Seq(Listed) /\ Valid /\ \A i \in DOMAIN filters : filters[i].predicate \in Predicate
  <2>1. filters \in Seq([predicate : Predicate, conditions : Seq(Guarding)])
    BY <1>1 DEF PInv, Gathered
  <2>2. \A i \in DOMAIN filters : filters[i] \in [predicate : Predicate, conditions : Seq(Guarding)]
    BY <2>1, ListFacts
  <2>3. QED
    BY <1>1, <2>2 DEF PInv, Gathered, Phased
<1>5. ASSUME NEW r \in Listed PROVE Keeps(r) <=> r \in admitted
  <2>1. ASSUME NEW i \in DOMAIN filters
        PROVE  Evaluate[<<filters[i].predicate, r>>] <=> r \in Denotes[filters[i].predicate]
    <3>1. PICK p \in Predicate : p = filters[i].predicate
      BY <1>4
    <3>2. \A c \in Comparisons[p] : Comparable(c)
      BY <1>4, <3>1 DEF Valid
    <3>3. Evaluate[<<p, r>>] <=> r \in Denotes[p]
      BY <3>2, EvaluateMeans
    <3>4. QED
      BY <3>1, <3>3
  <2>2. r \in admitted <=> \A i \in DOMAIN filters : r \in Denotes[filters[i].predicate]
    BY <1>1, <1>2 DEF ToSet
  <2>3. QED
    BY <2>1, <2>2 DEF Keeps
<1>6. PICK T : T = {r \in ToSet(rows) : Keeps(r)}
  OBVIOUS
<1>7. \A i \in DOMAIN rows : rows[i] \in Listed /\ rows[i] \in ToSet(rows)
  BY <1>4 DEF ToSet
<1>8. T \subseteq admitted /\ hits = {i \in DOMAIN rows : rows[i] \in T}
  <2>1. T \subseteq Listed
    BY <1>4, <1>6 DEF ToSet
  <2>2. T \subseteq admitted
    BY <1>5, <1>6, <2>1
  <2>3. \A i \in DOMAIN rows : rows[i] \in T <=> rows[i] \in admitted
    BY <1>5, <1>6, <1>7
  <2>4. QED
    BY <1>3, <2>2, <2>3
<1>9. PICK u : u = UpTo(Where(rows, T), MaxSelected)
  OBVIOUS
<1>10. Selection = u
  BY <1>6, <1>9 DEF Selection
<1>11. MaxSelected \in Nat
  BY ProgramAssumption
<1>12. /\ ToSet(u) \subseteq T
       /\ \A i \in hits : Cardinality({j \in hits : j <= i}) <= MaxSelected => rows[i] \in ToSet(u)
       /\ Len(u) <= Cardinality(hits)
  BY <1>4, <1>8, <1>9, <1>11, FirstOfThose
<1>13. QED
  BY <1>2, <1>3, <1>8, <1>10, <1>12 DEF SelectionAnswersProgram

LEMMA InvTypes == PInv => PTypeOK
<1>1. SUFFICES ASSUME PInv PROVE PTypeOK
  OBVIOUS
<1>2. phase \in {"compiled", "planned", "ran"} => Len(collections) \in 1..MaxCollections
  <2>1. SUFFICES ASSUME Valid PROVE Len(collections) \in 1..MaxCollections
    BY <1>1 DEF PInv, Phased
  <2>2. collections # <<>> /\ Len(collections) <= MaxCollections /\ MaxCollections \in Nat
    BY <2>1, ProgramAssumption DEF Valid
  <2>3. PICK S : collections \in Seq(S)
    BY <1>1 DEF PInv, Gathered
  <2>4. Len(collections) \in Nat /\ Len(collections) # 0
    BY <2>2, <2>3
  <2>5. QED
    BY <2>2, <2>4
<1>3. QED
  BY <1>1, <1>2 DEF PTypeOK, PInv, Phased, Framed

LEMMA InitPInv == PInit => PInv
<1>1. SUFFICES ASSUME PInit PROVE PInv
  OBVIOUS
<1>2. Framed
  BY <1>1 DEF PInit, Framed
<1>3. Gathered
  BY <1>1 DEF PInit, Gathered
<1>4. QED
  BY <1>1, <1>2, <1>3, InitUnfolding DEF PInit, PInv, Phased, Planned, EveryRequestAnswered

LEMMA NextPInv == PInv /\ [PNext]_pvars => PInv'
  BY NextFramed, NextGathered, NextPhased, NextPlanned, NextUnfolding, NextAnswered DEF PInv

(* Whatever statements, playbooks, guards and predicates a program is made *)
(* of: what is compiled is the text with every playbook written out, in    *)
(* order and under its guards, every request is answered or named, a       *)
(* planned correlation has its subjects, and the selection is what the     *)
(* filters denote.                                                         *)
THEOREM ProgramIsCarriedOut == PSpec => [](PTypeOK /\ ProgramCarriedOut)
<1>1. PInv => PTypeOK /\ ProgramCarriedOut
  BY InvTypes, UnfoldsRead, SubjectsPlanned, SelectionHolds DEF ProgramCarriedOut, PInv
<1>2. QED
  BY InitPInv, NextPInv, <1>1, PTL DEF PSpec

-----------------------------------------------------------------------------
(* The analysis as a whole                                                 *)

AllInv == HInv /\ TInv /\ FInv /\ PInv

LEMMA RestingThreads ==
  ASSUME considered = <<>>, done = {}, pairs = {}, root = <<>>, reason = <<>>
  PROVE  TInit
<1>1. MaxThings \in Nat
  BY ThreadsAssumption
<1>2. considered \in {s \in SeqOf(Thing, MaxThings) : IsInjective(s)}
  <2>1. <<>> \in [1..0 -> Thing] /\ 0 \in 0..MaxThings
    BY <1>1
  <2>2. <<>> \in SeqOf(Thing, MaxThings)
    BY <2>1 DEF SeqOf
  <2>3. QED
    BY <2>2 DEF IsInjective
<1>3. Indices = {}
  BY DEF Indices
<1>4. root = [i \in Indices |-> i] /\ reason = [i \in Indices |-> NoReason]
  BY <1>3
<1>5. QED
  BY <1>2, <1>3, <1>4 DEF TInit

LEMMA RestingReads ==
  ASSUME NEW i \in Inode, Quiet(i)
  PROVE  FInit
<1>1. PICK d \in Data : d = CHOOSE e \in Data : TRUE
  BY MCAssumption
<1>2. inode = [k \in Inode |-> [data |-> d, stamp |-> 0]]
  BY <1>1 DEF Quiet
<1>3. path = i /\ reader = [r \in Reader |-> Resting(path)]
  BY DEF Quiet
<1>4. QED
  BY <1>2, <1>3 DEF Quiet, FInit

LEMMA InitAllInv == MCInit => AllInv
<1>1. SUFFICES ASSUME MCInit PROVE AllInv
  OBVIOUS
<1>2. HInv
  BY <1>1, InitHInv DEF MCInit, BInit, CInit, AInit
<1>3. TInit
  BY <1>1, RestingThreads DEF MCInit
<1>4. FInit
  <2>1. CASE part = "reads"
    BY <1>1, <2>1 DEF MCInit
  <2>2. CASE part # "reads"
    <3>1. PICK i \in Inode : i = CHOOSE k \in Inode : TRUE
      BY MCAssumption
    <3>2. Quiet(i)
      BY <1>1, <2>2, <3>1 DEF MCInit
    <3>3. QED
      BY <3>2, RestingReads
  <2>3. QED
    BY <2>1, <2>2
<1>5. PInit
  BY <1>1 DEF MCInit
<1>6. QED
  BY <1>2, <1>3, <1>4, <1>5, InitTInv, InitFInv, InitPInv DEF AllInv

(* One part moves by a step of its own and the others rest.                *)
LEMMA StepsOfParts ==
  ASSUME [MCNext]_<<bvars, tvars, fvars, pvars, dvars, part>>
  PROVE  [HNext]_hvars /\ [TNext]_tvars /\ [FNext]_fvars /\ [PNext]_pvars
<1>1. CASE UNCHANGED <<bvars, tvars, fvars, pvars, dvars, part>>
  BY <1>1 DEF bvars, cvars, avars
<1>2. CASE MCHistory /\ UNCHANGED <<tvars, fvars, pvars, dvars>>
  BY <1>2 DEF MCHistory
<1>3. CASE MCActivity /\ UNCHANGED <<tvars, fvars, pvars, dvars>>
  BY <1>3 DEF MCActivity, ANext, Analyzes
<1>4. CASE MCFindings /\ UNCHANGED <<tvars, fvars, pvars, dvars>>
  BY <1>4 DEF MCFindings, CNext, ANext, Analyzes, Correlates, avars
<1>5. CASE MCBriefs /\ UNCHANGED <<tvars, fvars, pvars, dvars>>
  <2>1. CNext => [HNext]_hvars
    BY DEF CNext, ANext, Analyzes, Correlates, avars
  <2>2. BNext => CNext \/ UNCHANGED cvars
    BY DEF BNext, Reports, Commands, Describes, Summarizes
  <2>3. QED
    BY <1>5, <2>1, <2>2 DEF MCBriefs, cvars, avars
<1>6. CASE TNext /\ UNCHANGED <<bvars, fvars, pvars, dvars>>
  BY <1>6 DEF bvars, cvars, avars
<1>7. CASE FNext /\ UNCHANGED <<bvars, tvars, pvars, dvars>>
  BY <1>7 DEF bvars, cvars, avars
<1>8. CASE MCProgram /\ UNCHANGED <<bvars, tvars, fvars, dvars>>
  BY <1>8 DEF MCProgram, bvars, cvars, avars
<1>9. CASE DNext /\ UNCHANGED <<bvars, tvars, fvars, pvars>>
  BY <1>9 DEF bvars, cvars, avars
<1>10. QED
  BY <1>1, <1>2, <1>3, <1>4, <1>5, <1>6, <1>7, <1>8, <1>9 DEF MCNext

LEMMA NextAllInv == AllInv /\ [MCNext]_<<bvars, tvars, fvars, pvars, dvars, part>> => AllInv'
<1>1. SUFFICES ASSUME AllInv, [MCNext]_<<bvars, tvars, fvars, pvars, dvars, part>> PROVE AllInv'
  OBVIOUS
<1>2. [HNext]_hvars /\ [TNext]_tvars /\ [FNext]_fvars /\ [PNext]_pvars
  BY <1>1, StepsOfParts
<1>3. HInv' /\ TInv' /\ PInv'
  BY <1>1, <1>2, NextHInv, NextTInv, NextPInv DEF AllInv
<1>4. FInv'
  BY <1>1, <1>2, NextFInv DEF AllInv
<1>5. QED
  BY <1>3, <1>4 DEF AllInv

(* Whichever part of the analysis moves, every variable keeps the shape    *)
(* the code gives it.                                                      *)
THEOREM AnalysisTyped == MCSpec => []AnalysisTypes
<1>1. AllInv => AnalysisTypes
  BY InvTypes DEF AllInv, AnalysisTypes, HInv, TInv, FInv
<1>2. QED
  BY InitAllInv, NextAllInv, <1>1, PTL DEF MCSpec
=============================================================================
