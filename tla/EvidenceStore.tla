---------------------------- MODULE EvidenceStore ----------------------------
(***************************************************************************)
(* Evidence sources and memory analyses: registration and verification in  *)
(* backend/casework.py, analysis in backend/memory_workflow.py, over files *)
(* that anybody may change.  A request reads a file, reads rows and writes *)
(* in transactions, each a step of its own, on one of the server's threads.*)
(* Nothing of a request is held anywhere but on its thread, so a crash is  *)
(* the failure of every request in flight.                                 *)
(***************************************************************************)
EXTENDS Naturals, Sequences

CONSTANTS
    File,           \* absolute paths
    Bytes,          \* contents of a file, told apart by their digest
    Missing,        \* there is no such file
    Unreadable,     \* the file cannot be opened
    Source,         \* identifiers of evidence sources
    Analysis,       \* identifiers of memory analyses
    None,           \* no file, source, analysis or digest
    Thread,         \* threads of the HTTP server
    MaxChanges,     \* bound: changes of files in one behaviour
    MaxRequests     \* bound: requests in one behaviour

ASSUME EvidenceAssumption ==
    /\ Missing \notin Bytes /\ Unreadable \notin Bytes /\ Missing # Unreadable
    /\ None \notin File \cup Bytes \cup Source \cup Analysis
    /\ MaxChanges \in Nat /\ MaxRequests \in Nat

VARIABLES
    disk,       \* what is at each path
    source,     \* the rows of evidence_sources
    order,      \* the registered sources, oldest first
    log,        \* what each integrity event of a source found
    analysis,   \* the rows of memory_analyses
    request,    \* what each thread is working on
    changes,    \* changes of files so far
    requests,   \* requests so far
    missed,     \* history: what was registered since a source looked back
    doubtful,   \* history: analyses whose image or verdict changed meanwhile
    stranded    \* history: analyses whose request failed

rows == <<source, order, log, analysis>>
history == <<missed, doubtful, stranded>>
vars == <<disk, rows, request, changes, requests, history>>

Content == Bytes \cup {Missing, Unreadable}

SourceRow == [file : File, digest : Bytes \cup {None},
              verdict : {"VERIFIED", "MISMATCH", "MISSING", "UNVERIFIED"},
              processing : {"REGISTERED", "ANALYSED", "ANALYSIS_FAILED"},
              supersedes : Source \cup {None}]
AnalysisRow == [status : {"RUNNING", "COMPLETED", "FAILED"},
                source : Source \cup {None}, digest : Bytes \cup {None},
                read : SUBSET Bytes]

(* source is the one to verify or, for a registration, the one superseded; *)
(* read is all that the tool was given to read; late what was registered   *)
(* since the look back; doubt that the file or the verdict changed since   *)
(* this thread looked.                                                     *)
Request == [op : {"idle", "hashed", "insert", "observed", "recorded", "begin",
                  "analyse", "finish"},
            analysing : BOOLEAN, file : File \cup {None},
            seen : Content \cup {None}, source : Source \cup {None},
            analysis : Analysis \cup {None}, digest : Bytes \cup {None},
            read : SUBSET Bytes, ok : BOOLEAN, late : SUBSET Source,
            doubt : BOOLEAN]

Idle == [op |-> "idle", analysing |-> FALSE, file |-> None, seen |-> None,
         source |-> None, analysis |-> None, digest |-> None, read |-> {},
         ok |-> FALSE, late |-> {}, doubt |-> FALSE]

Registered == DOMAIN source

Init ==
    /\ disk \in [File -> Content]
    /\ source = <<>> /\ order = <<>> /\ log = <<>> /\ analysis = <<>>
    /\ request = [w \in Thread |-> Idle]
    /\ changes = 0 /\ requests = 0
    /\ missed = <<>> /\ doubtful = {} /\ stranded = {}

Is(w, op) == request[w].op = op
Done(w) == request' = [request EXCEPT ![w] = Idle]

(* A table maps the identifiers of its rows to the rows.                   *)
With(table, id, row) ==
    [x \in DOMAIN table \cup {id} |-> IF x = id THEN row ELSE table[x]]

(* A request arrives at an idle thread.                                    *)
Accept(w, r) ==
    /\ Is(w, "idle")
    /\ requests < MaxRequests
    /\ requests' = requests + 1
    /\ request' = [request EXCEPT ![w] = r]
    /\ UNCHANGED <<disk, rows, changes, history>>

-----------------------------------------------------------------------------
(* register_evidence                                                       *)

HashToRegister(w, f) ==
    Accept(w, [Idle EXCEPT !.op = "hashed", !.file = f, !.seen = disk[f]])

(* The positions in order of the sources with these bytes.                 *)
Copies(b) == {i \in 1..Len(order) : source[order[i]].digest = b}

(* Mutant: the oldest copy instead of the latest.                          *)
OldestCopy(b) ==
    IF Copies(b) = {} THEN None
    ELSE order[CHOOSE i \in Copies(b) : \A j \in Copies(b) : i <= j]
LatestCopy(b) ==
    IF Copies(b) = {} THEN None
    ELSE order[CHOOSE i \in Copies(b) : \A j \in Copies(b) : j <= i]

(* What the new row supersedes is looked up before its transaction.        *)
LookBack(w) ==
    LET seen == request[w].seen IN
    /\ Is(w, "hashed")
    /\ request' = [request EXCEPT ![w].op = "insert",
          ![w].source = IF seen \in Bytes THEN LatestCopy(seen) ELSE None]
    /\ UNCHANGED <<disk, rows, changes, requests, history>>

(* Mutant: the acquisition status where the verification state belongs.    *)
FirstAcquisition(c) == IF c \in Bytes THEN "HASHED" ELSE "FAILED"
FirstVerdict(c) == CASE c = Missing    -> "MISSING"
                     [] c = Unreadable -> "UNVERIFIED"
                     [] OTHER          -> "VERIFIED"

(* The transaction: the row and its first integrity event.                 *)
Register(w, s) ==
    LET r == request[w] IN
    /\ Is(w, "insert")
    /\ s \notin Registered
    /\ source' = With(source, s, [file |-> r.file, verdict |-> FirstVerdict(r.seen),
                                  digest |-> IF r.seen \in Bytes THEN r.seen ELSE None,
                                  processing |-> "REGISTERED",
                                  supersedes |-> r.source])
    /\ log' = With(log, s, <<r.seen>>)
    /\ order' = Append(order, s)
    /\ missed' = With(missed, s, r.late)
    /\ request' = [v \in Thread |->
          IF v = w THEN Idle
          ELSE [request[v] EXCEPT !.late = IF Is(v, "insert") THEN @ \cup {s} ELSE @]]
    /\ UNCHANGED <<disk, analysis, changes, requests, doubtful, stranded>>

-----------------------------------------------------------------------------
(* verify_evidence, on its own or as the first part of an analysis         *)

HashToVerify(w, s, analysing) ==
    /\ s \in Registered
    /\ Accept(w, [Idle EXCEPT !.op = "observed", !.source = s,
                              !.analysing = analysing, !.file = source[s].file,
                              !.seen = disk[source[s].file]])

(* Mutant: whatever can be read is verified.                               *)
JudgeReadable(expected, seen) == FirstVerdict(seen)
Judge(expected, seen) ==
    IF seen \in Bytes /\ expected # None /\ expected # seen THEN "MISMATCH"
    ELSE FirstVerdict(seen)

(* The verdict and its event in one transaction; it overwrites a verdict   *)
(* another thread has recorded and not read back.                          *)
RecordVerdict(w) ==
    LET r == request[w] IN
    /\ Is(w, "observed")
    /\ source' = [source EXCEPT ![r.source].verdict =
                                    Judge(source[r.source].digest, r.seen)]
    /\ log' = [log EXCEPT ![r.source] = Append(@, r.seen)]
    /\ request' = [v \in Thread |->
          IF v = w THEN IF r.analysing THEN [r EXCEPT !.op = "recorded"] ELSE Idle
          ELSE [request[v] EXCEPT
                   !.doubt = @ \/ (Is(v, "recorded") /\ request[v].source = r.source)]]
    /\ UNCHANGED <<disk, order, analysis, changes, requests, history>>

-----------------------------------------------------------------------------
(* MemoryWorkflow.analyse                                                  *)

(* Mutant: only an absent image is refused.                                *)
RefuseMissing == {"MISSING"}
Refused == {"MISMATCH", "MISSING"}

(* What verify_evidence returns is read back on a connection of its own.   *)
ReadVerdict(w) ==
    LET r == request[w] IN
    /\ Is(w, "recorded")
    /\ request' = [request EXCEPT ![w] =
          IF source[r.source].verdict \in Refused THEN Idle
          ELSE [r EXCEPT !.op = "begin", !.digest = source[r.source].digest]]
    /\ UNCHANGED <<disk, rows, changes, requests, history>>

(* An image that is not registered is analysed without verification.       *)
AnalysePath(w, f) == Accept(w, [Idle EXCEPT !.op = "begin", !.analysing = TRUE, !.file = f])

Begin(w, a) ==
    LET r == request[w] IN
    /\ Is(w, "begin")
    /\ a \notin DOMAIN analysis
    /\ analysis' = With(analysis, a, [status |-> "RUNNING", source |-> r.source,
                                      digest |-> r.digest, read |-> {}])
    /\ request' = [request EXCEPT ![w].op = "analyse", ![w].analysis = a]
    /\ UNCHANGED <<disk, source, order, log, changes, requests, history>>

(* One plugin of the tool reads the image; several do, one after another.  *)
ReadImage(w) ==
    LET c == disk[request[w].file] IN
    /\ Is(w, "analyse")
    /\ c \in Bytes \ request[w].read
    /\ request' = [request EXCEPT ![w].read = @ \cup {c}]
    /\ UNCHANGED <<disk, rows, changes, requests, history>>

(* The result; an exception leaves a failed analysis without one.          *)
EndAnalysis(w, ok) ==
    /\ Is(w, "analyse")
    /\ request' = [request EXCEPT ![w].op = "finish", ![w].ok = ok,
                                  ![w].read = IF ok THEN @ ELSE {}]
    /\ UNCHANGED <<disk, rows, changes, requests, history>>

(* Mutant: an analysis that raised counts as one that found nothing.       *)
StatusSwallowed(ok) == "COMPLETED"
(* Mutant: only success ends an analysis.                                  *)
StatusOfSuccess(ok) == IF ok THEN "COMPLETED" ELSE "RUNNING"
Status(ok) == IF ok THEN "COMPLETED" ELSE "FAILED"

Finish(w) ==
    LET r == request[w] IN
    /\ Is(w, "finish")
    /\ analysis' = [analysis EXCEPT ![r.analysis].status = Status(r.ok),
                                    ![r.analysis].read = r.read]
    /\ source' = IF r.source = None THEN source
                 ELSE [source EXCEPT ![r.source].processing =
                          IF r.ok THEN "ANALYSED" ELSE "ANALYSIS_FAILED"]
    /\ doubtful' = IF r.doubt THEN doubtful \cup {r.analysis} ELSE doubtful
    /\ Done(w)
    /\ UNCHANGED <<disk, order, log, changes, requests, missed, stranded>>

-----------------------------------------------------------------------------
(* A request ends early: an exception, or the process is lost.             *)
RequestFails(w) ==
    /\ ~Is(w, "idle")
    /\ Done(w)
    /\ stranded' = stranded \cup ({request[w].analysis} \ {None})
    /\ UNCHANGED <<disk, rows, changes, requests, missed, doubtful>>

(* Somebody else writes, removes or protects a file.                       *)
FileChanges(f, c) ==
    /\ changes < MaxChanges
    /\ disk[f] # c
    /\ disk' = [disk EXCEPT ![f] = c]
    /\ changes' = changes + 1
    /\ request' = [w \in Thread |-> [request[w] EXCEPT
          !.doubt = @ \/ (request[w].analysing /\ request[w].file = f)]]
    /\ UNCHANGED <<rows, requests, history>>

Verify(w) ==
    \/ \E s \in Source, analysing \in BOOLEAN : HashToVerify(w, s, analysing)
    \/ RecordVerdict(w)

Analyse(w) ==
    \/ ReadVerdict(w)
    \/ \E f \in File : AnalysePath(w, f)
    \/ \E a \in Analysis : Begin(w, a)
    \/ ReadImage(w)
    \/ \E ok \in BOOLEAN : EndAnalysis(w, ok)
    \/ Finish(w)

RegisterEvidence(w) ==
    \/ \E f \in File : HashToRegister(w, f)
    \/ LookBack(w)
    \/ \E s \in Source : Register(w, s)

Next ==
    \/ \E w \in Thread : RegisterEvidence(w) \/ Verify(w) \/ Analyse(w) \/ RequestFails(w)
    \/ \E f \in File, c \in Content : FileChanges(f, c)

Spec == Init /\ [][Next]_vars

-----------------------------------------------------------------------------
(* Every variable keeps its type, and the tables agree on their keys.      *)
TypeOK ==
    /\ disk \in [File -> Content]
    /\ Registered \subseteq Source /\ source \in [Registered -> SourceRow]
    /\ order \in Seq(Registered)
    /\ log \in [Registered -> Seq(Content)]
    /\ DOMAIN analysis \subseteq Analysis
    /\ analysis \in [DOMAIN analysis -> AnalysisRow]
    /\ request \in [Thread -> Request]
    /\ changes \in 0..MaxChanges /\ requests \in 0..MaxRequests
    /\ missed \in [Registered -> SUBSET Source]
    /\ doubtful \subseteq Analysis /\ stranded \subseteq Analysis

(* Custody: the verdict of a source is what its newest integrity event     *)
(* says of the digest it was registered with: VERIFIED means exactly those *)
(* bytes, MISMATCH other bytes (verify_evidence, register_evidence).       *)
VerdictIsLastLook ==
    \A s \in Registered :
        LET last == log[s][Len(log[s])] IN
        /\ source[s].verdict = "VERIFIED" =>
              last \in Bytes /\ source[s].digest \in {None, last}
        /\ source[s].verdict = "MISMATCH" =>
              last \in Bytes /\ source[s].digest \notin {None, last}
        /\ source[s].verdict = "MISSING" <=> last = Missing
        /\ source[s].verdict = "UNVERIFIED" <=> last = Unreadable

(* x is at the last of these positions, None when there is none.           *)
IsLatest(x, positions) ==
    IF positions = {} THEN x = None
    ELSE \E i \in positions : x = order[i] /\ \A j \in positions : j <= i

(* Lineage: a source supersedes the latest source of the same bytes that   *)
(* was registered before it, those excepted that were registered between   *)
(* its look back and its own transaction (register_evidence).              *)
LineageComplete ==
    \A p \in 1..Len(order) :
        LET row == source[order[p]]
        IN IsLatest(row.supersedes,
                    {i \in 1..(p - 1) : /\ row.digest # None
                                        /\ source[order[i]].digest = row.digest
                                        /\ order[i] \notin missed[order[p]]})

(* Findings of a completed analysis of a registered source come from the   *)
(* bytes it was registered with, unless the file changed or another        *)
(* verification overwrote the verdict meanwhile (MemoryWorkflow.analyse).  *)
Attributed ==
    \A a \in DOMAIN analysis :
        a \notin doubtful /\ analysis[a].digest # None =>
            analysis[a].read \subseteq {analysis[a].digest}

(* A running analysis is in the hands of a thread, and of one only, unless *)
(* its request failed; then nothing ever ends it (analyse has no recovery).*)
RunningIsHeld ==
    /\ \A v, w \in Thread :
          request[v].analysis = request[w].analysis /\ request[v].analysis # None => v = w
    /\ \A a \in DOMAIN analysis :
          (analysis[a].status = "RUNNING" /\ a \notin stranded)
              <=> \E w \in Thread : request[w].analysis = a

Ended(s) == {analysis[a].status : a \in {b \in DOMAIN analysis : analysis[b].source = s}}

(* A source is marked by the outcome of an analysis of it that has ended   *)
(* so, and stays REGISTERED until one has (the last transaction of         *)
(* analyse).                                                               *)
ProcessedByAnalysis ==
    \A s \in Registered :
        /\ source[s].processing = "ANALYSED" => "COMPLETED" \in Ended(s)
        /\ source[s].processing = "ANALYSIS_FAILED" => "FAILED" \in Ended(s)
        /\ source[s].processing = "REGISTERED" => Ended(s) \subseteq {"RUNNING"}

(* A changed image is refused: no analysis goes on whose own re-hash found *)
(* other bytes than those registered (docs/EvidenceModel.md).              *)
ChangedImageRefused ==
    \A w \in Thread :
        request[w].op \in {"begin", "analyse", "finish"} /\ request[w].digest # None =>
            request[w].seen \notin Bytes \ {request[w].digest}

(* ... unless the log shows a later look at the same source, one that      *)
(* found the registered bytes or could not read the file (verify_evidence, *)
(* analyse).                                                               *)
RefusedUnlessOvertaken ==
    \A w \in Thread :
        LET r == request[w]
            events == log[r.source]
        IN  (/\ r.op \in {"begin", "analyse", "finish"}
             /\ r.digest # None /\ r.seen \in Bytes \ {r.digest}) =>
                \E i, j \in 1..Len(events) :
                    /\ i < j
                    /\ events[i] = r.seen
                    /\ events[j] \in {r.digest, Unreadable}

(* What is said of a source: its verdict and the copy it replaces          *)
(* (verify_evidence, register_evidence).                                   *)
SourcesTrusted == VerdictIsLastLook /\ LineageComplete

(* What is said of an analysis: that it may run, whose its findings are,   *)
(* whether it still runs, and what became of its source (analyse).         *)
AnalysesAccounted ==
    RefusedUnlessOvertaken /\ Attributed /\ RunningIsHeld /\ ProcessedByAnalysis
=============================================================================
