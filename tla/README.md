# JOCKY: a TLA+ verification project

This directory holds TLA+ models of the JOCKY forensic workstation, the TLC
configurations that check them on small instances, and proofs that TLAPS checks
for instances of any size.  It is meant to be read beside the source.

    tlc -workers 2 -config Workstation_safety.cfg MCWorkstation
    tlapm WorkstationProofs.tla

## 1. The system

JOCKY is a local forensic workstation: a Python process that owns one workspace
(an SQLite database and its files), a Flutter client that starts and supervises
that process, and agents on other machines that collect on its behalf.

| Part | Source | State | Operations | What is hard |
|--|--|--|--|--|
| Collection service | `backend/service.py` | investigations, transitions, reports, evidence, executions; in memory a queue of 8 jobs, `cancel_events`, one worker thread, `lock` | create, collect, cancel, `_work`, `_collect`, `_step`, `_finalize`, recovery in `__init__`, close; briefs, assessments, commands | hand-over from request to queue to worker, cancellation, faults between transactions, crash recovery |
| Job log and client projection | `backend/workstation_view.py` | the executions table, `metadata` rows | view, save_metadata, import_legacy, clear_history | clearing while a step runs |
| Fleet control plane | `backend/fleet.py` | endpoints, enrollment_tokens, endpoint_tasks, endpoint_events | issue token, enroll, authenticate, heartbeat, dispatch, claim, submit result, sweep, revoke | handlers that read on one connection and write in a later transaction, retries, stale requests |
| Endpoint agent | `endpoint/agent.py` | its identity file; in memory one batch | enroll, heartbeat, poll, run a task, report | lost and late messages, timeouts, reboots |
| HTTP interface | `backend/api.py` | none | one route per operation, two kinds of credential | four server threads |
| Storage | `backend/storage.py` | the database file, backups, hash_observations | transaction, rows, migrations, observe_hash, migrate_ledger | atomicity, failure of a commit |
| Process runtime | `backend/runtime.py` | the workspace lock | start, serve, shut down | a worker that outlives the join, the end of the owning client |
| Client's supervisor | `flutter_client/lib/services/backend/backend_supervisor.dart` | the process, its session, a phase | probe, start, waitForReady, stop, restart | calls that interleave at every await, exits heard late |
| Casework | `backend/casework.py` | cases, evidence_sources, integrity events, notes, audit_events | create, close, register, verify, note, audit | files that change between registration, verification and use |
| Memory workflow | `backend/memory_workflow.py` | memory_analyses | register an image, analyse | verification and use are separate steps, no recovery after a crash |
| Plan runner | `backend/plan_runner.py` | none | which tasks of a plan run, with which arguments | every task must be answered, also on another platform |
| Investigation language | `compiler/`, `analysis/selection.py` | none | parse, validate, build a plan, evaluate predicates | blocks, playbooks and guards that nest; agreement of program, plan and selection |
| Integrity ledger | `analysis/hashing.py`, `analysis/ledger.py`, `crypto/` | digests per path | hash, record, compare, export | files that change while they are read, two exports to one name |
| Collectors | `analysis/execution_*.py`, `drivers.py`, `artifacts.py` | a cached reference | observe the host | bounds and duplicates, what is lost at a bound |
| Analysis | `analysis/triage.py`, `activity.py`, `correlation.py`, `threads.py`, `detections.py` | none | classify, group, rank, correlate, link | bounds that hide what matters, the order rows come back in |
| Briefs and summaries | `analysis/briefs.py`, `case_summary.py` | stored briefs | say what is on record about one subject | a text that outlives or exceeds its evidence |
| Rendering | `backend/*pdf*.py`, `backend/evidence_package.py`, `reports/` | none | documents and archives | - |
| Client state | `flutter_client/lib/state` | records, one running command | optimistic commits | a commit that fails after it was shown |

Parts interact through the database (every handler opens its own connections),
through the in-memory queue and the events of `cancel_events`, and over HTTP
between agent and control plane.  The runtime guarantees one process per
workspace; recovery relies on it.

What makes each part correct:

- *Collection service*: nothing submitted is lost or collected twice; an
  investigation moves along one path; the outcome, the report and the evidence
  agree; a finished investigation never changes; whatever a crash leaves behind
  is settled by the next start; everything submitted ends.
- *Job log*: clearing it leaves the forensic record and running work alone.
- *Fleet*: revocation is final, a closed task is closed, attempts and quota are
  bounded, a closed task says why it is closed, a stored result is evidence that
  this endpoint collected, every task ends.
- *Agent*: works only on what it was handed.
- *Enrollment*: an endpoint exists only because an operator granted a token naming it, a
  token makes one endpoint, and a credential is nowhere twice.
- *Ownership*: recovery runs alone, and the client holds the only engine.
- *Hashing and export*: a digest is that of one version of a file; an export is a copy of
  one version and is never replaced.
- *Analysis*: every record is counted once and keeps its identity; concern is never shown
  as routine and more evidence never lowers urgency; what a bound leaves out is less urgent
  than what it keeps, or is said to be missing; findings, leads, threads and briefs cite
  records that say what they are cited for.
- *Language*: what runs is what was written, every request has an answer, and a filter
  selects what the program says.
- *Casework and memory analysis*: the verdict of a source is what its newest look found;
  what a source supersedes is the latest earlier copy; findings are attributed to the
  bytes they came from; an analysis that ended says how, and only a failed request
  leaves one running.

`PROJECT.json` lists the hazards at their lines, with the property that watches
each of them.

## 2. Modules

| Module | Models | About |
|--|--|--|
| `Lifecycle` | abstract specification | what an investigator is promised about the durable record of an investigation |
| `Workstation` | `service.py`, `clear_history`, the process of `runtime.py` | EXTENDS nothing of the project; implements `Lifecycle` through `Life == INSTANCE Lifecycle` |
| `MCWorkstation` | | which steps of an instance are of the baseline |
| `WorkstationProofs` | | invariants, the verdict, the implementation of `Lifecycle`, finality |
| `Fleet` | `fleet.py` | the control plane, any number of server threads |
| `MCFleet`, `FleetProofs` | | symmetry and a bound; the theorems about `Fleet` and `FleetAgent` |
| `FleetAgent` | `endpoint/agent.py` over `Fleet` | agents, the network between them and the control plane |
| `MCFleetAgent` | | symmetry and a bound |
| `EvidenceStore` | registration and verification in `casework.py`, `analyse` of `memory_workflow.py`, the tool of `analysis/memory.py` | evidence sources over files that change |
| `MCEvidence`, `EvidenceProofs` | | symmetry; the theorems about `EvidenceStore` |
| `Authority` | abstract specification | what an operator is promised about the authority to collect |
| `Enrollment` | tokens and enrollment in `fleet.py`, the identity in `endpoint/agent.py` | implements `Authority` through `Authorities == INSTANCE Authority` |
| `JobLog` | commands, reports and assessments of `service.py`, `workstation_view.py` | the job log beside the record |
| `Ownership` | `runtime.py`, `Workstation.close`, `backend_supervisor.dart` | engines and the supervisor's calls |
| `RecordsProofs` | | theorems about `Enrollment`, `JobLog`, `Ownership` and their composition `MCRecords` |
| `MCRecords` | | `EvidenceStore`, `Enrollment`, `JobLog` and `Ownership`, one at a time |
| `FileReads` | `hashing.py`, `observe_hash`, `ledger.py`, `crypto.py` | reading files that change |
| `Lists` | | ordered lists, filters and joins, in a form that can be proved about |
| `ListsProofs` | | what those operators return |
| `Triage` | `triage.py` | operators on one record |
| `History` | `execution_history.py`, the artifacts of `service.py` | EXTENDS `Triage`: the records of a collection |
| `Activity` | `activity.py` | EXTENDS `History`: groups and leads |
| `Findings` | `correlation.py`, `cross_source.py`, the timeline, `_persist_analysis` | EXTENDS `Activity` |
| `ActivityProofs` | | theorems about `History` and `Activity` |
| `Briefs` | `briefs.py`, `case_summary.py`, `report_payload` | EXTENDS `Findings` |
| `Threads` | `threads.py` | activities linked by rare words |
| `Program` | `compiler/investigation.py`, `plan.py`, `plan_runner.py`, `selection.py` | from statements to a selection |
| `Detections` | `drivers.py`, `detections.py` | the driver inventory and the rules |
| `AnalysisProofs` | | theorems about `Findings`, `Briefs` and `Detections` |
| `MCAnalysis` | | the records, statements and files the modules above are checked on |
| `InvestigationProofs` | | theorems about `FileReads`, `Threads`, `Program` and the composition `MCAnalysis` |

### Workstation

One action is one SQLite transaction, or one read or write of memory that
another thread can see.  `collect` is five actions (`CollectCheck`,
`CollectCommit`, `CollectRegister`, `CollectAudit`, `CollectEnqueue`) because
only the lock, not a transaction, spans them: `handler` is the one request
inside it.  The worker's program counter follows `_collect` from
`_record_program` to the `finally` clause; `worker.draft` is the report that
`_finalize` has assembled and not yet committed, `worker.failures` and
`worker.incomplete` are the accumulators of `_collect`.  `StageRaises` sends any
transaction or analysis stage to the `except` clause, `FailRaises` is a second
failure there, and `CollectRaises` one inside `collect`.  `ProcessEnds` is a
crash, or the exit after a `join` that may have timed out, with the worker
anywhere; `Start` is `Workstation.__init__`.

Abstractions: a collection has `Steps` observation steps, the first being SYSTEM
INFO (which cannot be cancelled or truncated); a step's result is one of five
outcomes.  "incomplete" is what a collector says of itself; "truncated" was cut at a bound
beside `complete`, or not collected for want of an argument.  Of the latter only the first
`Baseline` steps of the investigation count towards a partial completion, as in `_collect`: ARTIFACTS and the
sources a program adds count only what says it is incomplete (`CountsIncomplete`).
A report is its outcome and the set of evidence it lists.  Rows derived
by the analysis, hashes, programs and audit rows are written in the transactions
shown but carry no state here.

### Fleet

The state of a request between two of its steps is a record in `thread[w]`: what
its thread has read (`submit_result` and `sweep` read first and write later;
`heartbeat` and `claim_tasks` act on an endpoint that `authenticate` read).
`Dispatch`, `Revoke` and `Claim` are single transactions.  Of time only the
comparisons remain: `due` (the backoff has elapsed) and `overdue`
(`STALE_AFTER_SECONDS` have).  A result is represented by the attempt it was
collected for.  A dispatch names each endpoint once.  Enrollment is not part of
this module: all endpoints are enrolled.  A result with an accompanying error,
which no agent sends, is not an input.

### FleetAgent

Every agent is sequential (`pc`, the batch, the job, the thread that serves its
request).  `Answer` delivers a response, loses it, or finds the agent gone;
`TimesOut` leaves a request in flight behind; `GiveUp` is the `AgentError` path
that forgets the rest of the batch; `Reboot` loses everything in memory.  A
request lost on the way is the response lost, as far as anybody can tell, or a
timeout; a request rejected by the conflict answer ends the batch like any error.
The eight-batch cap of `poll_once` and the pause between polls only delay.

### EvidenceStore

A registration, a verification and an analysis are each worked off by one server thread:
`request[w]` is its stack.  Hashing a file, looking up the copy to supersede, and every
transaction are steps of their own, as is the read with which `get_evidence` returns the
row that `verify_evidence` has just updated; other threads and whoever writes the files
come in between.  `log` holds what each integrity event found, from which its outcome
follows.  The tool reads the image once per plugin (`ReadImage`), so one analysis may see
several contents.  A request that raises and a process that is lost look the same
(`RequestFails`): nothing of these requests is kept outside their threads, and the next
start repairs neither sources nor analyses.  An analysis of a path that is not registered
is not verified (`AnalysePath`).

Three history variables record what the code does not: `missed`, the sources registered
between the look back of a registration and its transaction; `doubtful`, the analyses
whose file or verdict changed after their thread had looked; `stranded`, those whose request
failed.  They only make the properties exact: each states what holds of all other cases.

Abstractions: a file is missing, unreadable or has one of a few contents, and a digest is
the content (no collisions).  Timestamps of registrations follow the order of the
transactions.  Fixtures, which read no image, are not modelled, and a registered path is
not refused for its size: that request fails before it writes anything.

### Enrollment, over Authority

`issue_enrollment_token` counts the endpoints, then inserts; `enroll` reads the token, then
redeems it in a later transaction; `revoke` empties the credential.  The answer of `enroll`
may be lost, and the agent may fail to save its identity or be given another token.  A token
and a credential are their rows, time is whether a token has expired.  `lapsed` remembers
the endpoints whose credential nobody holds any more.  The refinement takes a token that
expired while a request was past its read as still granted: this is how far "before it
lapses" goes.

### JobLog

A command is its row, the work, and the transaction that ends it, which may raise
(`EndRaises`): the request is then over and its row still running, and `unended` remembers
it until the next start settles it.  An assessment reads and
then writes; clearing and the two halves of the import are actions.  A collection is the
three moments at which its rows become visible.  Reports are a bag, since nothing in the
table keeps a job from having two: that each has one at most is a property.  Threads
interleave everywhere.

### Ownership

Each engine goes from launch over the workspace lock and recovery to serving and, told to
close, releases the lock after two joins that a busy worker may outlive (`outlived`).  The
supervisor's `start`, `stop` and `restart` run from one await to the next, in any number of
calls at a time; the frames an engine wrote and its exit are heard later, in either order.
An engine that is not started by the supervisor (`adopting`) is a session that answers.
`overlap` remembers that two calls were both between the check of `_process` and its
assignment, which the code does not prevent.

### FileReads

A file has two chunks and an identity (`st_ino` and time stamps), which every write and every
rename of a file to or from the path changes: this is the assumption `hash_file` rests on.
Hashing is: stat, open and fstat, two reads, stat, record.  An export reads through one
descriptor in the same way, then creates its destination exclusively and copies into it, and
leaves a partial file when the process is lost in the middle.  Digests are contents; a change of the algorithm is not modelled.

### Triage, History, Activity, Findings, Briefs

One investigation is analysed in a line: records are read from sources in any order
(`Gathers`), `Finalizes` bounds, de-duplicates and sorts them, the paths they name are
observed (`Observes`), `Analyzes` classifies and groups, `Correlates` makes findings and the
timeline, then reports, briefs and the narrative are written, in any order with commands
that report too.  A report made before the analysis is stored, during a collection or by one that
failed, is grouped from the evidence payload (`FromEvidence`): records without references, nothing
recognized, no artifacts and no findings.  The analysis is a set of operators named for the functions they translate.
A command is its text and the shapes the patterns of `triage.py` find in it, an image its path
and the kind of directory; regular expressions are not modelled.  What a text names is given by
two relations, since the code asks twice: `Words` (the path is a word of the text, for downloads and
media: one with a space is a word of none, its own record's included) and `Mentions` (the text
contains the path, for the briefs).  `correlate_downloads` never applies its window, so `Links` has
none.  The timeline holds records, artifacts with the time of their file (`Modified`), findings, and
the times of processes and states of the investigation (`Beside`), under one bound.  `Reread` is the
order in which a report finds the rows it groups again: the undated first.  The record that
stands for a group is the first of the most urgent in that order, so the presentation of an
activity may change between collection and report where its reading does not:
`ReportAgreesWithStore` claims the reading and the records.

A list that Python sorts and cuts is `Ordered`, `Where`, `UpTo` of `Lists`: it is said which
function it is (a position is taken by the element that has so many before it), not by which
recursion it is computed.

### Threads

An activity is its words, where its lines and times lie, and what it installs or fetches.
`TakesToken` begins a pass of the outer loop of `build_threads`, `TriesPair` is the union of one
pair of `pairs`, those of the word in hand; words come in any order (a dict), and so do pairs.
The constants stand for the numbers in the code.

### Program

`Writes` adds a statement to the text, `Ticks` a list of sources ticked in the client; then the
reader takes the next node of the innermost block (`frames`), one action per kind of statement,
and `Leaves` a block at its end.  `Compiles` validates; `Plans` and `RunsPlan` are the planner
and the runner here or on an endpoint; `Lists` adds a row to the report, and `Selection` is the
answer to the filters.  A statement is a record, a predicate a tree of records; `Evaluate` and
`Denotes`, what the code computes of a predicate and what the predicate means, are recursive
functions on these trees, and `Parts` is what they recur on.

`UnfoldsAsWritten` compares what was compiled with a definition that reads no text: a trail
(`Trails`) leads through the blocks around a statement to the statement, with the guards met on
the way, and the clauses of a program are those of its trails, in the order of their places
(`Before`).  `EveryRequestAnswered`, `CorrelationsHaveSubjects` and `SelectionAnswersProgram` say
what running the plan and filtering its report then do; `ProgramCarriedOut` is all four.

### Detections

The reference data may be absent; its first reading, or the failure of it, is kept while the
process lives (`cache`).  `CollectsDrivers`, `AnalysesImage` and `Detects` follow in any order.

## 3. What is checked

| Run | Shows |
|--|--|
| `workstation_safety` | the invariants of the service and `TerminalIsFinal`, with two investigations, two steps, a queue of one, two processes, one fault, and clearing of the job log; the second step of one investigation is of the baseline, that of the other was added by its program |
| `workstation_liveness` | `SubmittedEnds`, `RestartSettles`, the implementation of `Lifecycle`, and, without clearing, that no collector fails its collection; one step, two processes, one fault |
| `workstation_clearing` | a violation: see section 6 |
| `fleet_bounds` | the quota and the number of attempts are kept by every step of two concurrent requests but the end of one that was overtaken: one endpoint, two tasks, two attempts, a quota of one |
| `fleet_agent_safety` | what holds for concurrent requests: two server threads, two agents with batches of two tasks, one loss or reboot |
| `fleet_agent_liveness` | every queued task is closed, with one loss and two server threads |
| `fleet_agent_revocation`, `fleet_agent_evidence` | violations: see section 6 |
| `records_safety` | the invariants of the evidence store (one file with two contents and two changes, three sources, two analyses, two threads, three requests), of enrollment with its implementation of `Authority` (two tokens, two machines, one endpoint allowed, one mishap), of the job log (two jobs, two clearings or restarts) and of the workspace (two engines, two calls, one trouble) |
| `analysis` | the properties of `Activity`, `Findings`, `Briefs`, `Threads`, `FileReads`, `Program` (`ProgramCarriedOut`) and `Detections`, each over every input of its small sets |
| `evidence_overlap`, `briefs_supported` | violations: see section 6 |

Bounds.  Two investigations are what one worker, one lock and a queue can confuse:
with a queue of one there is one in the worker and one queued or being submitted,
so the full queue, the check before the put and the hand-over all occur.  Two steps
are the first one, which differs, and one of the others; the loop condition has the
same form at each; that other one counts differently in the two investigations (`MCBaseline`),
which are therefore not interchangeable.  Two starts give a crash or a stop and the recovery that follows
it.  `MaxFaults` bounds exceptions, `MaxLosses` lost messages, timeouts of answered
requests, failed requests and reboots, and `FewAttempts` the number of times
stale updates may hand a task out beyond its limit; `TwoClaims` stops an instance after two
claims, which one batch of two tasks, or two claims of one task or by two agents, need.  Two server threads suffice for
every race of two requests; a third one only delays.  In `EvidenceStore` three requests are
three registrations of the same bytes (the least that tells the latest copy from an older
one), or a registration and two overlapping verifications or analyses of it; two changes let
a file change and change back; `MaxRequests` and `MaxChanges` are its only bounds, and more
files than one only repeat the same races on rows that have nothing in common.
`MCRecords` and `MCAnalysis` put modules that share no state into one run: `part` chooses the
one that moves, the others keep their initial values, so the instance is the sum and not the
product of the parts.  In `Enrollment` a second token for the same name, one for another, and
a limit of one endpoint give every race of issue and redemption; in `Ownership` a third
engine or call adds no pair.  In `Analysis` a collection reads four records and keeps three
(one record more than the bound), one lead, two links, a timeline of six entries and five rows: every
bound of the code is reached and left by one.  The fourth record is read in a part (`history`)
that stops there, since only three can be analysed, and a brief and a narrative, neither of
which is written from the other, are not combined.  The records are those whose classifications
differ: urgent, uncertain and routine ones, repeated ones, undated ones, and pairs that are
linked or only near one another; one path has a space, so that it is named by no word.  The
timeline bounds are reached and passed, by records, artifacts and what is beside them together.  Programs have up to five statements, which is what a
playbook, a guard, two collections and a filter need, and trails of up to five blocks
(`MaxBlocks`), which is as deep as these texts go: a sixth is looked for and not found.  Symmetry is used only in
runs without liveness properties.  Deadlock is not checked because every instance
stops at its bounds (no more starts, investigations, losses) and the real system may
simply be idle.

Fairness.  In `Workstation` the worker loop and the request that holds the lock go
on, a process that was told to stop exits (`runtime.main` returns after a join with a
timeout), and a process that is gone is started again by its client.  Nothing is
assumed of investigators, cancels, faults and crashes.  `CollectionEnds` and
`CancelEnds` are stated for behaviours without faults, since a fault in `collect` can
leave an investigation collecting until a restart; `RestartSettles` covers that.  In
`FleetAgent` agents keep polling and reporting, the server answers, time passes and
the operator keeps calling sweep (nothing in the repository does it by itself, which
is listed as a hazard).  Sends compete with other requests for a free thread, hence
strong fairness for them.

A property such as `HandedOver` or `FindingsSupported` is a conjunction of named statements
about one subject, each stated and commented where it is defined; the type invariants of the
combined runs are collected in `RecordTypes` and `AnalysisTypes`.  `EveryRequestAnswered`,
`DownloadsReported`, `TimelineHolds`, `UrgentThreadsFirst` and `DriversNotPassedOver` name the
cases the code leaves out (an image named with FROM, a download that no record names by a word,
entries beyond a bound), so that they are exact about all others.

Every property has at least one mutant in the modules (operators marked "Mutant"
beside the definition they replace), and a conjunction one for each of its statements: a
plausible mistake in the code that makes the property fail.

## 4. What is proved

`WorkstationProofs` proves for any number of investigations, steps, starts and
faults that `Spec` implies `TypeOK`, `NoOrphan`, `PutNeverFails` and `CollectedOnce` (together
`HandedOver`), `ReportMatchesRecord`, `TerminalIsFinal`, and that it implements `Lifecycle`.  None of
these is inductive alone.  The inductive invariant `IInv` adds

- `HandlerPlaced`, `QueuePlaced`, `WorkerPlaced`: at each program counter, the status
  of the investigation in hand, and that in a live process a submitted one is not yet
  reported.  This is the argument that an investigation is in one place: it enters
  `handler` only when created, the queue only from `handler`, the worker only from the
  queue, and the status changes at each hand-over;
- `DraftCurrent`: between `_finalize`'s read and its commit nobody else adds evidence
  to the investigation, so the report lists what is there when it becomes visible.
  Clearing the job log does not disturb this because evidence rows are detached, not
  deleted.

Each fact is preserved action by action; the implementation proof maps every action of
`Workstation` to an action of `Lifecycle` or a stutter.

The verdict (`VerdictMatchesEvidence`, `CancelBetweenSteps`) needs the worker's bookkeeping to
be true, and `VInv` adds it to `IInv`: `Accumulated` (the rows written so far are those of the
steps done, and the two accumulators say what they hold), `CutShort` (a step is cancelled and
a loop is left early only after a cancel, which nobody takes back), `DraftSupported` (a drafted
report claims what the rows bear out), `LateCounted` (the one step whose check had passed) and
`NotBegun` (an investigation that waits has no rows).  `NoStrayExecution` follows from where
`execs` can be running; that collectors never fail a collection is proved under `~Clearing`,
the assumption without which `workstation_clearing` refutes it.

`FleetProofs` proves for any number of threads: `TypeOK`, `ClosedIsExplained`,
`RevokedStays` and `ClosedStays` (together `FinalUnlessInFlight`).  The last two say exactly how far the documented
finality of revocation and closure goes under concurrency: it is lost only to a
request that had read the row before.  `BoundsUnlessOvertaken` says the same of the quota and of
the attempts: an endpoint whose queue is within its bounds (`Within`) leaves them only in the last
step of a request that puts a task back on the queue which was closed, or handed out again, since
the request read it (`Overtaken`).  Dispatch counts in its own transaction (`DispatchQuota`), no
other step makes a task outstanding (`NoNewOutstanding`) unless it was overtaken (`ActsOnOpen`), and
a claim takes a task that has an attempt left (`NextAttempts`).  No theorem assumes that requests
are served one after the other: `runtime.py` runs four server threads.

For the agents it proves `ATypeOK`, `ResultIsEvidence`, `BatchWasHandedOut` and
`RevokedGetsNoWork`, for any number of agents and losses.  `AInv` follows evidence from the
tool to the row: an agent waits for the answer to its own request (`AwaitsOwn`), reports work
of its batch and no success it did not collect (`ReportsItsWork`), and so a result in flight
is that of a collection (`CarriesEvidence`), duplicated and late ones included.
`AgentsImplementFleet` shows that every step of agents, network and server is a step of
`Fleet` or a stutter, so what is proved of `Fleet` holds of the whole (`AgentsKeepClosure`).

`EvidenceProofs` proves for any number of files, contents, sources, threads, changes and
requests the invariants of the evidence store in `records_safety`: `TypeOK`, `VerdictIsLastLook`
and `LineageComplete` (`SourcesTrusted`), `Attributed`, `RunningIsHeld` and
`ProcessedByAnalysis` (`AnalysesAccounted`).  The inductive invariant `IInv` adds

- `AllPlaced`: at each step of a request, which of its fields are set, and that its source
  and its analysis exist; `StrandedKnown` the same of the analyses of failed requests;
- `AllJudged`: the verdict of a source is the judgement of its newest event, of which
  `VerdictIsLastLook` is the readable consequence;
- `AllUndisturbed`: while nothing disturbs it, an analysis knows what its file holds and what
  its verdict row says, and has read only the registered bytes; this links the re-hash, the
  verdict that was not refused, and the reads of the tool;
- `AnalysesKnown`: the source of an analysis is registered, so a new source starts without any;
- `LookedBack`: what a registration is about to supersede is the latest copy but for
  those registered since, which `late` collects and `missed` keeps.  That a finite set of
  positions has a greatest one is an induction, obtained from the well-foundedness of the
  naturals (`LeastNatural`).

It also proves, for any number of threads, `RefusedUnlessOvertaken`: an analysis goes on with an
image its own re-hash found changed only if the log shows a later look at that source which found
the registered bytes, or nothing to read.  `Remembered` follows the two looks: what the analysis
recorded stays in the log, which only grows (`LogGrows`), and the verdict it read back is that of the
newest event.  `ChangedImageRefused`, without the exception, is refuted by `evidence_overlap`.

`RecordsProofs` has four parts.

- *Enrollment*, for any sets of names, tokens, machines and threads: `EnrolledOnce`,
  `FullGrantsNothing`, and that it implements `Authority`.  `EInv` accounts for every credential:
  it is in one identity file, or in one answer on its way, or has lapsed (`CredentialsPlaced`); a request
  past its first read is about rows that exist (`Underway`).  The refinement maps the status of a
  token (`Standing`), one that expired past its read being still granted; it needs one name to
  exist (`Name # {}`), since `Authority` gives every grant a name, also before it is issued.
- *Job log*: `LogHolds`; a row is running only while a request works on it or when it is
  `unended`.  `JInv` adds `Owned` (a command in progress has its execution row, running
  or cleared, to itself), `Informed` (an assessment has seen the investigation as it stands, or the
  analysis came in between), `Copied` (nothing is imported before the copy), and that reports
  are counted once per collection and per job.
- *Ownership*: `RecoveryAlone` and `SoleEngine`.  For the first, `OIInv` has `LockExclusive` (the
  workspace lock has one holder) and `WorkerPlaced` (a worker is busy only in an engine that serves,
  closes, or gave the lock up without it): the lock alone keeps recovery apart from other workers,
  whatever the supervisor believes.  For the second, `SInv` adds what holds as long as no two calls
  have overlapped: one call is between its check and its end (`OneCall`), every engine whose exit
  is not handled is the one held (`OneEngine`), a launch finds none (`LaunchesAlone`).  `overlap` is
  therefore exactly the condition under which a client keeps one backend.
- *Composition*: `RecordTypes` of `MCRecords`.  The protocols share no variable, so a step of the
  whole is a step of one and a stutter of the others (`OneAtATime`), and the four inductive
  invariants, that of `EvidenceStore` included, hold side by side (`RecordInv`).

`ListsProofs` states what the operators of `Lists` return: an ordered list has each element once,
`p` before `q` where the order says so; cutting it keeps those that come first; joining and
filtering keep elements and order.  The proofs below never look at how a list is made.

`ActivityProofs` proves, for any records, paths and bounds:

- `CollectionHonest` of `History`: `HInv` says that what is finalized is the ordered list of the first
  readings, cut at the bound (`FinalizedFrom`).
- `ActivityAccounted`: the groups partition the records (`RowsOf` are those of one key), a reference
  leads to one record because it is a pair of time and number among those of one time
  (`Tallies` is the bijection from records to the counts of the groups), and rows read back in the
  stored order, which is a rearrangement, give groups with the same records and the same reading.
- `UrgencyKept`: more evidence only raises the reading, because priority and category are the least
  of `Mildness` over the records and the score only adds; a harmful category comes with concern;
  the leads cut at the bound cover what is more urgent than what they leave out, because
  `LeadKey` is a total order on groups with different first records.

`AnalysisProofs` proves `FindingsSupported`: each citation leads to a row of the collection, two
findings of one category about one path are downloads with different numbers, and the timeline
holds every entry and every finding when they are within its bounds.  And `DetectionsSound`: the verdict on a driver is that
of the reference the collection used, which stays empty for the life of the process when reading
it failed, and alerts agree with what the rules examined, up to their bound.

It also proves `BriefsFaithful`, in two parts.  A report of the collection is true of it
(`Truthful`): the records of a group it tells are rows of the collection, and some stored group has
the same records and the same priority, because grouping the rows in the order they are read back
gives the same groups (`OrderDoesNotMatter`) with the same references (`ReferencesKept`); its
leads hold such groups, ran if a record did, and there is an urgent one if a stored group is
urgent.  From that each kind of brief cites and ranks what is on record.  And `BInv` says of
every brief that it was made from that report, or is `Untraced`: the brief of a lead in a report of
which nothing was stored, which cites nothing (`FromEvidence` has leads, but no references, findings
or artifacts to cite, and the report of a command is empty).  Once the analysis is stored, what was
collected and analysed no longer changes.

`InvestigationProofs` has five parts.

- *Files*: `FTypeOK`, `ReadsHold` and `ExportKept` of `FileReads`, for any contents, number of
  inodes, threads, writes and renames.  The argument is that a stamp is never used twice
  (`Stamped`), so a version that is found again has not been touched since (`Watching`), and what a
  thread read in between is that version (`Hashing`, `Exporting`); a partial export belongs to the
  thread that created it exclusively (`TargetSound`).
- *Threads*: `ThreadsReadable` for any activities, words and bounds, whatever order the
  words and pairs come in.  `TInv`: a pair that has been tried is in one thread, or has no link, or
  was too large to join, and stays too large because threads only grow (`Tried`, `Settled`); threads
  respect their bound (`Capped`); the reason of a thread is the link of two of its members
  (`Explained`, `Reasoned`), and each member has one it is tied to (`InCompany`).
- *Programs*: `PTypeOK` and `ProgramCarriedOut`, for any statements, playbooks, guards, predicates,
  rows and bounds.  `PInv` says what the blocks being read are made of and that the playbooks on
  their way are distinct (`Framed`), what the statements read so far have gathered (`Gathered`),
  that a program past `Valid` still satisfies it (`Phased`), and that a plan is that of its program
  (`Planned`); `EveryRequestAnswered` is inductive with it, and the other two statements follow.
  That the filters select what they mean needs `Evaluate` and `Denotes` to agree
  (`EvaluateMeans`).  Neither definition tells a prover what it computes before some function
  satisfies it; such a function is built from the sets that are closed under `Parts`
  (`ValuesExist`), and that two of them agree (`GivesOnce`), like every induction over predicates
  here, asks for a predicate that is wrong with no part that is: one exists because a predicate is
  read from a finite text (`ProgramAssumption`).  That the bound keeps the first rows
  (`FirstOfThose`) counts those that come earlier.
- *Reading* (`UnfoldsAsWritten` of `ProgramCarriedOut`): `Unfolding` says that the reader is
  somewhere in the text: the open blocks are the trail `open`, and it has passed place `p` of the
  innermost (`Located`, `Stood`).  The trails it has seen (`Seen`) are the starts of the
  open one and those that leave it at a place already passed (`Passed`).  Each step adds the trail of the statement it
  takes and no other (`ReadsOne`, `EntersOne`), and a block that ends adds none (`LeavesNone`);
  that trail comes after every statement seen so far (`BeforeNext`).  So for each kind of clause
  there is a list of trails (`Traced`), in order and complete, that the clauses say one by one.  A
  playbook defined now changes nothing that was seen, since every RUN seen names one that was there
  (`GrownSame`), and no block holds a DEFINE (`BlocksPlain`, the grammar).  At the end of the text the
  trails seen are all there are (`AllExplored`), and the list of a kind is the ordered set of
  them, since an order determines its list (`OrderedIs`).  `Trails` is recursive; that it
  holds the trails of each length (`TrailsAre`) again asks for a least length where it does not.
- *Composition*: `AnalysisTypes` of `MCAnalysis`, from the invariants of history, threads, files and
  programs side by side (`AllInv`) and the types of what is derived from them.

The only assumptions are those on the constants, which the modules name and TLC evaluates in
the runs, and `~Clearing`, which is stated with its theorem.
That of `MCAnalysis` (there is a file, with some content) is what `FInit` needs to have a state.
Of the constants they say
what the code gives: identifiers and times are naturals, paths and the times of an activity are
finite in number, session records have no command and no image, bounds are naturals (positive
where the code would otherwise not work, as `MaxRelated`: a brief that may cite none of its records
cites nothing), a model value such as `None` is no element of the set
it is missing from, a predicate is finite, has the operands its type takes and compares a field
with the values its operator takes, blocks hold only what a playbook may hold
(`playbook_statement` of the grammar), and every value starts with itself.

Only model-checked:

- `SubmittedEnds`, `RestartSettles`, `TaskEnds`: liveness, with everything about ENABLED, is out of the
  prover's reach.

## 5. Plan

1. `Package`: the members of an evidence package are read one after the other
   (`evidence_package.py`, `api.py` 557-580), its manifest and `verify_package`.
2. The client's records: `_commit` of `records_controller.dart` over the store of
   `workstation_view.py`, two commits and a refresh at a time.
3. The remaining findings (telemetry, completeness, indicators), briefs of threads and events,
   the significant events of a summary, and decryption.

## 6. Where code and documents differ

- Clearing the job log while a step runs (`workstation_clearing`): `clear_history`
  deletes the execution row that `_step` will refer to; the INSERT of the evidence row
  then violates its foreign key, the observation is lost and the investigation ends
  `failed`.  Rule 15 of `docs/Rules.md` says one failing collector never fails a
  collection, and the docstring of `clear_history` that it does not cascade into the
  evidence.
- Revocation (`fleet_agent_revocation`): a heartbeat that passed `authenticate` before a
  revocation writes `active` after it.  `docs/EndpointProtocol.md`: "The endpoint can no
  longer authenticate."
- Returned evidence (`fleet_agent_evidence`): a sweep that read its rows before a result
  was stored puts the succeeded task back on the queue, where a later failure or result
  replaces the stored one.
- A changed image (`evidence_overlap`): an analysis re-hashes its image, records MISMATCH and
  reads the row back; a verification of the same source that had hashed the file before it
  changed may put VERIFIED there in between, and the changed image is analysed.
  `docs/EvidenceModel.md`: "A changed image is refused".
- Briefs (`briefs_supported`): the brief of an artifact says that the file was present at
  analysis time whatever its status, MISSING included; and a brief never says that an
  execution is established, because the records a report keeps of an activity do not carry the
  kind of evidence it looks at.  `analysis/briefs.py`: "a brief may only say what some stored
  record supports".

Also seen, without a run of its own:

- Of the sources a program adds, `_collect` counts only `complete is False`; their collectors return
  `truncated` beside `complete`, and `plan_runner.call` returns NOT_COLLECTED without either, so that
  such a collection ends `completed`, where `contracts/CLIENT.md` says "Partial completion means some
  bounded sources failed," "were skipped or truncated".  `VerdictMatchesEvidence` names the exception.
- While no normalized rows are stored, `report_payload` groups the events of the evidence payload,
  which have no references; the brief of a lead in such a report cites nothing, where
  `analysis/briefs.py` promises "every statement traceable to the record it rests" "on.".
  `CitesSubject` names the exception.
- `correlate_downloads` computes the gap from `started_at`, the browser collector writes
  `downloaded_at`: the gap is never known, and the window of 24 hours never applies, although
  `analysis/cross_source.py` says "A download and an execution further apart than this are not
  treated as one" "sequence.".  A test passes because its download has the other field.
- A source registered while its file is missing has no digest and never gains one, although
  `verify_evidence` logs "First successful hash for this source." each time and calls it
  VERIFIED; an image that cannot be read is not refused by `analyse`, the tool then fails.
- `contracts/CLIENT.md` speaks of one backend process per workspace; two calls that overlap
  may start two (`overlap`), of which the lock lets one serve.
- `select_reported_threads` cuts its list at the limit after urgent threads were put first, so
  that an urgent one may be left out when there are more than the limit, although its docstring
  says that urgent threads always appear.  `INFORMATIVE_SHAPES` names shapes nothing produces.
- `finalize` keeps the oldest `MAX_TOTAL_EVENTS` records while its warning speaks of "older or
  additional events"; `build_timeline` keeps the newest entries and `_persist_analysis` the
  oldest of those.
- `correlate_downloads` relates a download to the first record that names its target and looks at
  no later one; a MISSING artifact counts as there; and a path with a space is named by no record,
  because `_paths_in` splits executable and command at white space.
- The finding `artifact_hash_changed` cites a path, which leads to no artifact row.
- `_latest_report` takes the last report of any kind, that of a command included; the "largest"
  thread of a case summary is the first one; the stored score of an activity may differ from
  that of the report (its priority does not); the priority of a thread's brief is the most
  common among its members, not the most urgent.
- The detection rules look at a first part of drivers and processes and drop the rest without a
  word; the modules of a Linux kernel have no digest and are never compared by name, although a
  warning says that names were compared; a failure to read the reference is kept; a memory step
  that failed yields no MEM-002.
- `COLLECT MEMORY FROM` puts the path where `_arguments` does not look: the image is not
  analysed.  `WINDOW` is never applied; `service.selection` uses the filters of the program
  whatever guards them; paths, `LIMIT` and `DEPTH` of `COLLECT FILES` are not used by a local
  collection; `validate` accepts a correlation of sources requested under any guard; two
  collections of a source that differ in options are one, and of two under different guards the
  supplementary report keeps the last.
- `observe_artifact` leaves an artifact COLLECTED without a digest when hashing it fails; a
  comment of `triage.py` says that any corroborating signal lifts an install script to the first
  tier, which a confirmed execution alone does not.
- The members of an evidence package are read at separate moments.

## 7. What is not modelled, and why

Rendering is output of a report that is already made, the user interface layout, grammars the
data of a parser generator; packaging and validation scripts are tooling, and schema migrations
straight-line SQL in one transaction.  Collectors other than those of execution history,
artifacts and drivers only read the host: what they may return is the outcome of a step, or a
set of records.  Recognition is a table of names and paths, of which a record carries the
answer.  Words, patterns and regular expressions of the triage rules are shapes and kinds.  The
JSON ledger that preceded the database is read once.  The rest of section 1 that section 2 does
not name is planned in section 5.
