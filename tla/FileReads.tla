----------------------------- MODULE FileReads -----------------------------
(***************************************************************************)
(* Reading a file that somebody may be changing: hash_file of              *)
(* analysis/hashing.py with the observation it leaves (observe_hash of     *)
(* backend/storage.py, compare_to_last of analysis/ledger.py), and the     *)
(* encrypted export of crypto/crypto.py with its publication under a name  *)
(* that two exports may want.  A file has two chunks; writing it stamps    *)
(* its inode, and so does moving it to or from the path.                   *)
(***************************************************************************)
EXTENDS Naturals, Sequences, FiniteSets

CONSTANTS
    Inode,      \* files on the device
    Data,       \* contents; a digest is the content it was taken of
    Reader,     \* threads that hash or export the file at the path
    NoReader,   \* nobody is writing the destination
    MaxStamps,  \* bound: changes of files, and crashes
    MaxObserved \* bound: observations on record

ASSUME FileAssumption == NoReader \notin Reader /\ {MaxStamps, MaxObserved} \subseteq Nat

VARIABLES
    path,       \* the inode at the path
    inode,      \* content and stamp of each inode
    reader,     \* what each thread is doing
    observed,   \* the rows of hash_observations for the path, oldest first
    target,     \* the destination of the exports
    stamps      \* changes and crashes so far

fvars == <<path, inode, reader, observed, target, stamps>>

(* The identity of a version: st_ino and the time stamps; what begins as 0 *)
(* is not yet known.                                                       *)
Version == [inode : Inode, stamp : 0..MaxStamps]
VersionOf(i) == [inode |-> i, stamp |-> inode[i].stamp]

(* before and opened are the identities the thread has read, was the       *)
(* content at the path when it looked, got what its chunks contained.      *)
ReaderRow == [op : {"idle", "hash", "export"}, pc : 0..5, fd : Inode,
              before : Version, opened : Version, was : Data, got : SUBSET Data]

Verdict == {"first_recorded", "unchanged", "altered"}
Observation == [digest : SUBSET Data, found : Verdict, was : Data]

Absent == [state |-> "absent", holds |-> {}, by |-> NoReader]
Target == [state : {"absent", "partial", "whole", "orphan"}, holds : SUBSET Data,
           by : Reader \cup {NoReader}]

Resting(i) == [op |-> "idle", pc |-> 0, fd |-> i, before |-> VersionOf(i),
               opened |-> VersionOf(i), was |-> inode[i].data, got |-> {}]

FInit ==
    /\ path \in Inode
    /\ \E d \in Data : inode = [i \in Inode |-> [data |-> d, stamp |-> 0]]
    /\ reader = [r \in Reader |-> Resting(path)]
    /\ observed = <<>>
    /\ target = Absent
    /\ stamps = 0

At(r, op, pc) == reader[r].op = op /\ reader[r].pc = pc
Reads(r, row) == reader' = [reader EXCEPT ![r] = row]
Rests(r) == Reads(r, Resting(path))

-----------------------------------------------------------------------------
(* Whoever else has the files                                              *)

(* In place: the inode keeps its name and gets a new stamp.                *)
Rewritten(i, d) ==
    /\ stamps < MaxStamps
    /\ stamps' = stamps + 1
    /\ inode' = [inode EXCEPT ![i] = [data |-> d, stamp |-> stamps + 1]]
    /\ UNCHANGED <<path, reader, observed, target>>

(* Another inode takes the name; moving it changes its stamp.              *)
Renamed(i) ==
    /\ stamps < MaxStamps
    /\ i # path
    /\ stamps' = stamps + 1
    /\ path' = i
    /\ inode' = [inode EXCEPT ![i].stamp = stamps + 1]
    /\ UNCHANGED <<reader, observed, target>>

-----------------------------------------------------------------------------
(* hash_file                                                               *)

HashStats(r) ==
    /\ At(r, "idle", 0)
    /\ Reads(r, [Resting(path) EXCEPT !.op = "hash", !.pc = 1])
    /\ UNCHANGED <<path, inode, observed, target, stamps>>

(* open and fstat of the handle: the path may mean another file by now.    *)
Opens(r, op) ==
    /\ At(r, op, 1)
    /\ Reads(r, [reader[r] EXCEPT !.pc = 2, !.fd = path, !.opened = VersionOf(path)])
    /\ UNCHANGED <<path, inode, observed, target, stamps>>

ReadsChunk(r, op) ==
    /\ reader[r].op = op
    /\ reader[r].pc \in {2, 3}
    /\ Reads(r, [reader[r] EXCEPT !.pc = @ + 1, !.got = @ \cup {inode[reader[r].fd].data}])
    /\ UNCHANGED <<path, inode, observed, target, stamps>>

(* Mutant: only the handle is compared.                                    *)
ComparesHandle(r) == VersionOf(reader[r].fd) = reader[r].opened

(* The handle before and after, the path before and after.                 *)
SameVersion(r) ==
    /\ VersionOf(reader[r].fd) = reader[r].opened
    /\ VersionOf(path) = reader[r].before

HashCompares(r) ==
    /\ At(r, "hash", 4)
    /\ IF SameVersion(r) THEN Reads(r, [reader[r] EXCEPT !.pc = 5]) ELSE Rests(r)
    /\ UNCHANGED <<path, inode, observed, target, stamps>>

(* Mutant: a verdict that nobody who reads it knows.                       *)
CompareToLastModified(digest) ==
    IF observed = <<>> THEN "first_recorded"
    ELSE IF observed[Len(observed)].digest = digest THEN "unchanged" ELSE "modified"

(* Mutant: compared with the first observation on record.                  *)
CompareToFirst(digest) ==
    IF observed = <<>> THEN "first_recorded"
    ELSE IF observed[1].digest = digest THEN "unchanged" ELSE "altered"

CompareToLast(digest) ==
    IF observed = <<>> THEN "first_recorded"
    ELSE IF observed[Len(observed)].digest = digest THEN "unchanged" ELSE "altered"

(* observe_hash looks up the last row and inserts in one transaction.      *)
HashObserves(r) ==
    /\ At(r, "hash", 5)
    /\ Len(observed) < MaxObserved
    /\ observed' = Append(observed, [digest |-> reader[r].got, was |-> reader[r].was,
                                     found |-> CompareToLast(reader[r].got)])
    /\ Rests(r)
    /\ UNCHANGED <<path, inode, target, stamps>>

-----------------------------------------------------------------------------
(* encrypt_file: everything goes through the handle                        *)

(* _output refuses a destination that is there.                            *)
ExportBegins(r) ==
    /\ At(r, "idle", 0)
    /\ target.state = "absent"
    /\ Reads(r, [Resting(path) EXCEPT !.op = "export", !.pc = 2])
    /\ UNCHANGED <<path, inode, observed, target, stamps>>

(* Mutant: the source is not compared after it was read.                   *)
CompletesUnchecked(r) ==
    /\ At(r, "export", 4)
    /\ Reads(r, [reader[r] EXCEPT !.pc = 5])
    /\ UNCHANGED <<path, inode, observed, target, stamps>>

ExportCompletes(r) ==
    /\ At(r, "export", 4)
    /\ IF VersionOf(reader[r].fd) = reader[r].opened
       THEN Reads(r, [reader[r] EXCEPT !.pc = 5]) ELSE Rests(r)
    /\ UNCHANGED <<path, inode, observed, target, stamps>>

(* Mutant: an existing destination is replaced.                            *)
CreatesOver(r) ==
    /\ At(r, "export", 5)
    /\ target.by # r
    /\ target' = [state |-> "partial", holds |-> reader[r].got, by |-> r]
    /\ UNCHANGED <<path, inode, reader, observed, stamps>>

(* _publish creates the destination exclusively, or fails.                 *)
Creates(r) ==
    /\ At(r, "export", 5)
    /\ target.by # r
    /\ IF target.state = "absent"
       THEN /\ target' = [state |-> "partial", holds |-> reader[r].got, by |-> r]
            /\ UNCHANGED reader
       ELSE Rests(r) /\ UNCHANGED target
    /\ UNCHANGED <<path, inode, observed, stamps>>

(* The copy is complete, or it raises and the incomplete copy is removed.  *)
Publishes(r, ok) ==
    /\ At(r, "export", 5)
    /\ target.by = r
    /\ target' = IF ok THEN [target EXCEPT !.state = "whole", !.by = NoReader] ELSE Absent
    /\ Rests(r)
    /\ UNCHANGED <<path, inode, observed, stamps>>

(* The process is lost; what it was writing stays behind.                  *)
Crashes ==
    /\ stamps < MaxStamps
    /\ stamps' = stamps + 1
    /\ reader' = [r \in Reader |-> Resting(path)]
    /\ target' = IF target.state = "partial"
                 THEN [target EXCEPT !.state = "orphan", !.by = NoReader] ELSE target
    /\ UNCHANGED <<path, inode, observed>>

-----------------------------------------------------------------------------
FNext ==
    \/ \E i \in Inode : Renamed(i) \/ \E d \in Data : Rewritten(i, d)
    \/ \E r \in Reader :
          \/ HashStats(r) \/ Opens(r, "hash") \/ HashCompares(r) \/ HashObserves(r)
          \/ \E op \in {"hash", "export"} : ReadsChunk(r, op)
          \/ ExportBegins(r) \/ ExportCompletes(r) \/ Creates(r)
          \/ \E ok \in BOOLEAN : Publishes(r, ok)
    \/ Crashes

FSpec == FInit /\ [][FNext]_fvars

-----------------------------------------------------------------------------
(* Properties                                                              *)

(* Every variable has the shape the code gives it.                         *)
FTypeOK ==
    /\ path \in Inode
    /\ inode \in [Inode -> [data : Data, stamp : 0..MaxStamps]]
    /\ reader \in [Reader -> ReaderRow]
    /\ observed \in Seq(Observation)
    /\ target \in Target
    /\ stamps \in 0..MaxStamps

(* A digest on record is that of one version of the file, the one that was *)
(* at the path when the hashing began: no change or exchange of the file   *)
(* in the middle leaves a digest of neither (hash_file).                   *)
DigestOfOneVersion ==
    \A k \in DOMAIN observed : observed[k].digest = {observed[k].was}

(* Every verdict of change compares an observation with the one recorded   *)
(* just before it, however hashings overlap (observe_hash).                *)
ComparedWithPrevious ==
    \A k \in DOMAIN observed :
        observed[k].found =
            IF k = 1 THEN "first_recorded"
            ELSE IF observed[k-1].digest = observed[k].digest THEN "unchanged"
            ELSE "altered"

(* What stands at the destination is a copy of one version of the source,  *)
(* complete unless its export is still copying or was lost in the middle.  *)
ExportOfOneVersion ==
    /\ target.state # "absent" => Cardinality(target.holds) = 1
    /\ target.state = "partial" => At(target.by, "export", 5)

(* Whatever happens to the file meanwhile, what is recorded or copied is   *)
(* one version of it (hash_file, observe_hash, encrypt_file).              *)
ReadsHold == DigestOfOneVersion /\ ComparedWithPrevious /\ ExportOfOneVersion

(* An exported copy is never replaced or removed by another export.        *)
ExportKept == [][target.state = "whole" => target' = target]_fvars
=============================================================================
