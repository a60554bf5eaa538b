------------------------------- MODULE JobLog -------------------------------
(***************************************************************************)
(* The job log beside the forensic record: Command Center commands,        *)
(* reports and assessments of backend/service.py, the clearing of the log  *)
(* and the import of former records of backend/workstation_view.py, served *)
(* by several threads.  A handler reads rows on one connection and writes  *)
(* in a later transaction.  Collections are modelled in Workstation; here  *)
(* one is the three moments at which its rows become visible.              *)
(***************************************************************************)
EXTENDS Naturals

CONSTANTS
    Case,           \* identifiers of investigations
    NoCase,         \* a command that names no investigation
    LegacyCase,     \* the investigation a former record store holds
    Job,            \* identifiers of executions, drawn afresh
    LegacyJob,      \* the execution that store holds
    NoJob,          \* a report of a collection, or a detached one
    Caller,         \* threads of the HTTP server
    MaxClears       \* bound: clearings, restarts and failed or interrupted writes

ASSUME JobLogAssumption ==
    /\ NoCase \notin Case /\ LegacyCase \in Case
    /\ NoJob \notin Job /\ LegacyJob \in Job
    /\ MaxClears \in Nat

VARIABLES
    stage,          \* how much of each investigation is on record
    job,            \* the rows of executions
    report,         \* the rows of reports: how many of them say what
    hashed,         \* the executions the rows of hash_observations refer to
    assessment,     \* the rows of investigator_assessments
    marker,         \* the metadata row of the import
    backup,         \* the copy of the record store the import makes first
    caller,         \* the request of each thread
    clears,         \* clearings, restarts and failed or interrupted writes so far
    unended         \* executions whose end raised since the process started

jvars == <<stage, job, report, hashed, assessment, marker, backup, caller, clears, unended>>

(* "analyzed" has its classifications stored, "reported" its report too;   *)
(* one interrupted after its analysis is "shelved".                        *)
Stage == {"absent", "created", "collecting", "analyzed", "reported",
          "interrupted", "shelved"}

JobRow == [state : {"unused", "running", "completed", "failed", "interrupted",
                    "cleared"},
           case : Case \cup {NoCase}]
ReportRow == [kind : {"collection", "command"}, case : Case \cup {NoCase},
              job : Job \cup {NoJob}]

(* What is on record when an assessment commits and what the investigator  *)
(* was shown; late when the analysis became visible in between.            *)
AssessmentRow == [case : Case, saw : BOOLEAN, stood : BOOLEAN, late : BOOLEAN]

CallerRow == [op : {"idle", "command", "ran", "assess", "import",
                    "copied"},
              job : Job \cup {NoJob}, case : Case \cup {NoCase}, ok : BOOLEAN,
              saw : BOOLEAN, late : BOOLEAN]

NoCall == [op |-> "idle", job |-> NoJob, case |-> NoCase, ok |-> FALSE,
           saw |-> FALSE, late |-> FALSE]

JInit ==
    /\ stage = [c \in Case |-> "absent"]
    /\ job = [x \in Job |-> [state |-> "unused", case |-> NoCase]]
    /\ report = [r \in ReportRow |-> 0]
    /\ hashed = {}
    /\ assessment = {}
    /\ marker = FALSE
    /\ backup = "none"
    /\ caller = [q \in Caller |-> NoCall]
    /\ clears = 0
    /\ unended = {}

Calls(q, op) == caller[q].op = op
Returns(q) == caller' = [caller EXCEPT ![q] = NoCall]
Known(c) == c \in Case => stage[c] # "absent"
Live(x) == job[x].state \notin {"unused", "cleared"}

CollectionReport(c) == [kind |-> "collection", case |-> c, job |-> NoJob]
CommandReport(c, x) == [kind |-> "command", case |-> c, job |-> x]
Stores(row) == report' = [report EXCEPT ![row] = @ + 1]

-----------------------------------------------------------------------------
(* A collection, as far as its rows become visible to other requests       *)

CaseOpens(c) ==
    /\ stage[c] = "absent"
    /\ stage' = [stage EXCEPT ![c] = "created"]
    /\ UNCHANGED <<job, report, hashed, assessment, marker, backup, caller, clears, unended>>

Submits(c) ==
    /\ stage[c] = "created"
    /\ stage' = [stage EXCEPT ![c] = "collecting"]
    /\ UNCHANGED <<job, report, hashed, assessment, marker, backup, caller, clears, unended>>

(* _persist_analysis stores the classifications in one transaction.        *)
Analyzes(c) ==
    /\ stage[c] = "collecting"
    /\ stage' = [stage EXCEPT ![c] = "analyzed"]
    /\ caller' = [q \in Caller |->
          IF Calls(q, "assess") /\ caller[q].case = c
          THEN [caller[q] EXCEPT !.late = TRUE] ELSE caller[q]]
    /\ UNCHANGED <<job, report, hashed, assessment, marker, backup, clears, unended>>

Reports(c) ==
    /\ stage[c] = "analyzed"
    /\ stage' = [stage EXCEPT ![c] = "reported"]
    /\ Stores(CollectionReport(c))
    /\ UNCHANGED <<job, hashed, assessment, marker, backup, caller, clears, unended>>

-----------------------------------------------------------------------------
(* command: a transaction, the run, a transaction                          *)

Begins(q, x, c) ==
    /\ Calls(q, "idle")
    /\ job[x].state = "unused" /\ x # LegacyJob
    /\ Known(c)
    /\ job' = [job EXCEPT ![x] = [state |-> "running", case |-> c]]
    /\ caller' = [caller EXCEPT ![q] = [NoCall EXCEPT !.op = "command", !.job = x, !.case = c]]
    /\ UNCHANGED <<stage, report, hashed, assessment, marker, backup, clears, unended>>

(* A HASH command writes its observation in between; without its execution *)
(* row that violates the foreign key and the command fails.                *)
Runs(q, hashes, ok) ==
    /\ Calls(q, "command")
    /\ LET row == hashes /\ ok /\ Live(caller[q].job)
       IN  /\ hashed' = IF row THEN hashed \cup {caller[q].job} ELSE hashed
           /\ caller' = [caller EXCEPT ![q].op = "ran",
                                       ![q].ok = ok /\ (hashes => row)]
    /\ UNCHANGED <<stage, job, report, assessment, marker, backup, clears, unended>>

(* Mutant: the report is stored without asking for its execution.          *)
EndsAnyway(q) ==
    /\ Calls(q, "ran")
    /\ LET x == caller[q].job
       IN  /\ job' = [job EXCEPT ![x].state =
                 IF Live(x) THEN (IF caller[q].ok THEN "completed" ELSE "failed") ELSE @]
           /\ Stores(CommandReport(caller[q].case, x))
    /\ Returns(q)
    /\ UNCHANGED <<stage, hashed, assessment, marker, backup, clears, unended>>

(* Mutant: a command that went well ends with the status of a task.        *)
EndsSucceeded(q) ==
    /\ Calls(q, "ran")
    /\ LET x == caller[q].job
       IN  IF Live(x)
           THEN /\ job' = [job EXCEPT ![x].state = IF caller[q].ok THEN "succeeded" ELSE "failed"]
                /\ Stores(CommandReport(caller[q].case, x))
           ELSE UNCHANGED <<job, report>>
    /\ Returns(q)
    /\ UNCHANGED <<stage, hashed, assessment, marker, backup, clears, unended>>

(* The report refers to the execution: without the row the transaction     *)
(* fails and nothing of the command is kept.                               *)
Ends(q) ==
    /\ Calls(q, "ran")
    /\ LET x == caller[q].job
       IN  IF Live(x)
           THEN /\ job' = [job EXCEPT ![x].state = IF caller[q].ok THEN "completed" ELSE "failed"]
                /\ Stores(CommandReport(caller[q].case, x))
           ELSE UNCHANGED <<job, report>>
    /\ Returns(q)
    /\ UNCHANGED <<stage, hashed, assessment, marker, backup, clears, unended>>

(* Assembling the report, encoding the result or the second transaction    *)
(* raises: the request ends with an error and nothing of its end is        *)
(* stored, so the row it began with stays as it was.                       *)
EndRaises(q) ==
    /\ Calls(q, "ran")
    /\ clears < MaxClears
    /\ clears' = clears + 1
    /\ unended' = unended \cup {caller[q].job}
    /\ Returns(q)
    /\ UNCHANGED <<stage, job, report, hashed, assessment, marker, backup>>

-----------------------------------------------------------------------------
(* assess: the machine's classification is read, and copied later         *)

(* Mutant: nothing is read from the record.                                *)
AssessesBlind(q, c) ==
    /\ Calls(q, "idle")
    /\ stage[c] # "absent"
    /\ caller' = [caller EXCEPT ![q] = [NoCall EXCEPT !.op = "assess", !.case = c]]
    /\ UNCHANGED <<stage, job, report, hashed, assessment, marker, backup, clears, unended>>

Classified(c) == stage[c] \in {"analyzed", "reported", "shelved"}
Assesses(q, c) ==
    /\ Calls(q, "idle")
    /\ stage[c] # "absent"
    /\ caller' = [caller EXCEPT ![q] = [NoCall EXCEPT
          !.op = "assess", !.case = c, !.saw = Classified(c)]]
    /\ UNCHANGED <<stage, job, report, hashed, assessment, marker, backup, clears, unended>>

AssessmentStored(q) ==
    /\ Calls(q, "assess")
    /\ LET c == caller[q].case
       IN  assessment' = assessment \cup
              {[case |-> c, saw |-> caller[q].saw, stood |-> Classified(c), late |-> caller[q].late]}
    /\ Returns(q)
    /\ UNCHANGED <<stage, job, report, hashed, marker, backup, clears, unended>>

-----------------------------------------------------------------------------
(* import_legacy: look for the marker, make the backup, one transaction    *)

ImportReads(q) ==
    /\ Calls(q, "idle")
    /\ ~marker
    /\ caller' = [caller EXCEPT ![q] = [NoCall EXCEPT !.op = "import"]]
    /\ UNCHANGED <<stage, job, report, hashed, assessment, marker, backup, clears, unended>>

(* Mutant: a backup that is there is taken for a good one.                 *)
CopiesUnchecked(q) ==
    /\ Calls(q, "import")
    /\ backup' = IF backup = "partial" THEN "partial" ELSE "whole"
    /\ caller' = [caller EXCEPT ![q].op = "copied"]
    /\ UNCHANGED <<stage, job, report, hashed, assessment, marker, clears, unended>>

(* The file is created exclusively, written and compared with the source;  *)
(* one that is there and differs, half of one included, refuses the import.*)
ImportCopies(q) ==
    /\ Calls(q, "import")
    /\ IF backup = "partial"
       THEN Returns(q) /\ UNCHANGED backup
       ELSE backup' = "whole" /\ caller' = [caller EXCEPT ![q].op = "copied"]
    /\ UNCHANGED <<stage, job, report, hashed, assessment, marker, clears, unended>>

(* An investigation that exists, of an import that came first for example, *)
(* is a conflict and rolls everything back.                                *)
ImportCommits(q) ==
    /\ Calls(q, "copied")
    /\ IF stage[LegacyCase] # "absent" \/ job[LegacyJob].state # "unused" \/ marker
       THEN UNCHANGED <<stage, job, report, marker>>
       ELSE /\ stage' = [stage EXCEPT ![LegacyCase] = "created"]
            /\ job' = [job EXCEPT ![LegacyJob] = [state |-> "completed", case |-> LegacyCase]]
            /\ Stores(CommandReport(LegacyCase, LegacyJob))
            /\ marker' = TRUE
    /\ Returns(q)
    /\ UNCHANGED <<hashed, assessment, backup, clears, unended>>

-----------------------------------------------------------------------------
(* Clearing the log, and the end of the process                            *)

(* Mutant: the observations are not detached.                              *)
ClearsReports ==
    /\ clears < MaxClears
    /\ clears' = clears + 1
    /\ job' = [x \in Job |-> IF Live(x) THEN [job[x] EXCEPT !.state = "cleared"] ELSE job[x]]
    /\ report' = [r \in ReportRow |-> IF r.job = NoJob THEN report[r] ELSE 0]
    /\ UNCHANGED <<stage, hashed, assessment, marker, backup, caller, unended>>

(* clear_history detaches what stays and deletes what refers to the log,   *)
(* in one transaction.                                                     *)
Clears ==
    /\ clears < MaxClears
    /\ clears' = clears + 1
    /\ hashed' = {}
    /\ job' = [x \in Job |-> IF Live(x) THEN [job[x] EXCEPT !.state = "cleared"] ELSE job[x]]
    /\ report' = [r \in ReportRow |-> IF r.job = NoJob THEN report[r] ELSE 0]
    /\ UNCHANGED <<stage, assessment, marker, backup, caller, unended>>

(* Mutant: the executions that were running are forgotten.                 *)
RestartsQuietly ==
    /\ clears < MaxClears
    /\ clears' = clears + 1
    /\ caller' = [q \in Caller |-> NoCall]
    /\ unended' = {}
    /\ UNCHANGED <<stage, job, report, hashed, assessment, marker, backup>>

(* The process is lost and started again: a backup being written may stay  *)
(* half written, running executions and collections are interrupted.       *)
Restarts ==
    /\ clears < MaxClears
    /\ clears' = clears + 1
    /\ \/ UNCHANGED backup
       \/ /\ backup = "none"
          /\ \E q \in Caller : Calls(q, "import")
          /\ backup' = "partial"
    /\ caller' = [q \in Caller |-> NoCall]
    /\ unended' = {}
    /\ job' = [x \in Job |-> IF job[x].state = "running"
                             THEN [job[x] EXCEPT !.state = "interrupted"] ELSE job[x]]
    /\ stage' = [c \in Case |-> IF stage[c] = "collecting" THEN "interrupted"
                                ELSE IF stage[c] = "analyzed" THEN "shelved"
                                ELSE stage[c]]
    /\ UNCHANGED <<report, hashed, assessment, marker>>

-----------------------------------------------------------------------------
JNext ==
    \/ \E c \in Case : CaseOpens(c) \/ Submits(c) \/ Analyzes(c) \/ Reports(c)
    \/ \E q \in Caller :
          \/ \E x \in Job, c \in Case \cup {NoCase} : Begins(q, x, c)
          \/ \E hashes, ok \in BOOLEAN : Runs(q, hashes, ok)
          \/ Ends(q) \/ EndRaises(q)
          \/ \E c \in Case : Assesses(q, c)
          \/ AssessmentStored(q)
          \/ ImportReads(q) \/ ImportCopies(q) \/ ImportCommits(q)
    \/ Clears
    \/ Restarts

JSpec == JInit /\ [][JNext]_jvars

-----------------------------------------------------------------------------
(* Properties                                                              *)

(* Every variable has the shape the code gives it.                         *)
JTypeOK ==
    /\ stage \in [Case -> Stage]
    /\ job \in [Job -> JobRow]
    /\ report \in [ReportRow -> Nat]
    /\ hashed \subseteq Job
    /\ assessment \subseteq AssessmentRow
    /\ marker \in BOOLEAN
    /\ backup \in {"none", "partial", "whole"}
    /\ caller \in [Caller -> CallerRow]
    /\ clears \in 0..MaxClears
    /\ unended \subseteq Job

OnRecord == {r \in ReportRow : report[r] > 0}

(* Nothing on record refers to an execution that was cleared, whatever     *)
(* commands were running at the time; a report that refers to one belongs  *)
(* to an execution that ended, of the same investigation, and is its only  *)
(* one, so that the History screen lists it once; and a collection has one *)
(* report once it has reported, which no clearing takes or repeats         *)
(* (clear_history, command, view).                                         *)
ReportsAnchored ==
    /\ \A x \in hashed : Live(x)
    /\ \A r \in OnRecord :
          r.job # NoJob =>
              /\ job[r.job].state \in {"completed", "failed"}
              /\ job[r.job].case = r.case
              /\ report[r] = 1
              /\ \A k \in OnRecord : k.job = r.job => k = r
    /\ \A c \in Case :
          report[CollectionReport(c)] = IF stage[c] = "reported" THEN 1 ELSE 0

(* An execution row is running only while a request works on it, or when   *)
(* the end of its request raised and no start has settled it since; and    *)
(* what was cleared never comes back to the log (command, clear_history).  *)
NothingComesBack ==
    /\ \A x \in Job : job[x].state = "running" =>
          \/ \E q \in Caller : caller[q].job = x /\ caller[q].op \in {"command", "ran"}
          \/ x \in unended
    /\ marker => Live(LegacyJob) \/ job[LegacyJob].state = "cleared"

(* Former records are imported whole, once, and only behind a verified     *)
(* copy of the file they come from (import_legacy).                        *)
ImportedWhole ==
    /\ marker => backup = "whole" /\ stage[LegacyCase] # "absent"
    /\ marker <=> job[LegacyJob].state # "unused"

(* What an assessment keeps of the machine's classification is what was on *)
(* record when it was made, unless the analysis became visible between its *)
(* read and its transaction (assess).                                      *)
AssessmentsCurrent ==
    \A a \in assessment : a.saw = a.stood \/ a.late

(* The log and the record stay consistent with one another, whatever is    *)
(* cleared, imported or assessed meanwhile.                                *)
LogHolds == ReportsAnchored /\ NothingComesBack /\ ImportedWhole /\ AssessmentsCurrent
=============================================================================
