---------------------------- MODULE Workstation ----------------------------
(***************************************************************************)
(* The collection service of backend/service.py: the HTTP handlers that    *)
(* create, submit and cancel an investigation, the bounded queue, the one  *)
(* worker thread that collects, the clearing of the job log, and the       *)
(* recovery that a new process performs.  A step of this module is one     *)
(* SQLite transaction or one read or write of memory another thread sees.  *)
(***************************************************************************)
EXTENDS Naturals, Sequences

CONSTANTS
    Case,           \* identifiers of investigations
    NoCase,         \* what an idle worker or handler works on
    Steps,          \* observation steps of one collection; the first is SYSTEM INFO
    Baseline,       \* of each investigation, how many of them come before ARTIFACTS
                    \* and what its program adds: more with the paths it names
    QueueCap,       \* capacity of the job queue (8 in the code)
    MaxStarts,      \* bound: processes started in one behaviour
    MaxFaults,      \* bound: transactions or analysis stages that raise
    Clearing        \* whether the operator clears the job log

ASSUME ConstantsAssumption ==
    /\ NoCase \notin Case
    /\ Steps \in Nat \ {0}
    /\ Baseline \in [Case -> 1..Steps]
    /\ QueueCap \in Nat \ {0}
    /\ MaxStarts \in Nat
    /\ MaxFaults \in Nat
    /\ Clearing \in BOOLEAN

VARIABLES
    \* the database
    status,         \* investigations.status
    history,        \* transitions of an investigation, oldest first
    reports,        \* reports of an investigation, oldest first
    evidence,       \* outcome stored in the evidence row of a step
    execs,          \* executions.state of a step, "none" without a row
    \* the process
    up,             \* "down", "serving" or "stopping"
    queue,          \* jobs submitted and not yet taken
    event,          \* cancel_events: "none" when unregistered, "clear", "set"
    worker,         \* the worker thread inside _work and _collect
    handler,        \* the HTTP thread inside collect, which holds the lock
    storageFailure, \* storage_failure has been recorded
    \* bounds and history
    starts,         \* processes started so far
    faults,         \* transactions and stages that raised so far
    late            \* steps begun since the cancel event was set, at most 2

vars == <<status, history, reports, evidence, execs, up, queue, event, worker,
          handler, storageFailure, starts, faults, late>>

durable == <<status, history, reports, evidence, execs>>

Step == 1..Steps

Finished   == {"completed", "partially_completed", "cancelled", "failed"}
Terminal   == Finished \cup {"interrupted"}
Unfinished == {"collecting", "analyzing", "finalizing"}
Status     == {"absent", "created"} \cup Unfinished \cup Terminal

(* What a step can come to.  A collector says of an "incomplete" result    *)
(* that it is; a "truncated" one was cut at a bound, or not collected for  *)
(* want of an argument, without saying so of itself in complete.           *)
Outcome   == {"complete", "incomplete", "truncated", "failed", "cancelled"}
ExecState == {"none", "running", "interrupted"} \cup Outcome
Report    == [status : Finished, evidence : SUBSET Step]

(* The places where _collect can be, in program order.                     *)
Raising == {"program", "begin", "store", "device", "analyze", "persist",
            "finalizing", "decide", "finish"}
WorkerPC == Raising \cup {"idle", "waiting", "gate", "observe", "next",
                          "recover", "fail", "leave"}
HandlerPC == {"none", "commit", "register", "audit", "enqueue"}

NoDraft == [status |-> "failed", evidence |-> {}]
Idle == [pc |-> "idle", case |-> NoCase, step |-> 1, outcome |-> "complete",
         failures |-> FALSE, incomplete |-> FALSE, draft |-> NoDraft]
NoHandler == [pc |-> "none", case |-> NoCase]

Worker == [pc : WorkerPC, case : Case \cup {NoCase}, step : Step,
           outcome : Outcome, failures : BOOLEAN, incomplete : BOOLEAN,
           draft : Report]
Handler == [pc : HandlerPC, case : Case \cup {NoCase}]

(* The evidence rows an investigation holds, which report_payload lists.   *)
Collected(c) == {s \in Step : evidence[c][s] # "none"}

Queued == {queue[i] : i \in 1..Len(queue)}

Init ==
    /\ status   = [c \in Case |-> "absent"]
    /\ history  = [c \in Case |-> <<>>]
    /\ reports  = [c \in Case |-> <<>>]
    /\ evidence = [c \in Case |-> [s \in Step |-> "none"]]
    /\ execs    = [c \in Case |-> [s \in Step |-> "none"]]
    /\ up = "down"
    /\ queue = <<>>
    /\ event = [c \in Case |-> "none"]
    /\ worker = Idle
    /\ handler = NoHandler
    /\ storageFailure = FALSE
    /\ starts = 0
    /\ faults = 0
    /\ late = [c \in Case |-> 0]

Move(c, s) ==
    /\ status'  = [status  EXCEPT ![c] = s]
    /\ history' = [history EXCEPT ![c] = Append(@, s)]

Fault ==
    /\ faults < MaxFaults
    /\ faults' = faults + 1

-----------------------------------------------------------------------------
(* The process                                                             *)

(* What an earlier process left behind becomes interrupted.                *)
InterruptFrom(S) ==
    /\ status' = [c \in Case |-> IF status[c] \in S THEN "interrupted" ELSE status[c]]
    /\ history' = [c \in Case |-> IF status[c] \in S
                                  THEN Append(history[c], "interrupted")
                                  ELSE history[c]]

(* Mutants: finished investigations too; only those still collecting.      *)
InterruptEverything == InterruptFrom(Unfinished \cup Finished)
InterruptCollecting == InterruptFrom({"collecting"})
InterruptInvestigations == InterruptFrom(Unfinished)

(* Mutant: the job log is forgotten.                                       *)
KeepExecutions == execs' = execs
InterruptExecutions ==
    execs' = [c \in Case |-> [s \in Step |->
                IF execs[c][s] = "running" THEN "interrupted" ELSE execs[c][s]]]

(* Workstation.__init__: one transaction interrupts whatever an earlier    *)
(* process left behind, then the worker starts.                            *)
Start ==
    /\ up = "down"
    /\ starts < MaxStarts
    /\ starts' = starts + 1
    /\ up' = "serving"
    /\ InterruptExecutions
    /\ InterruptInvestigations
    /\ UNCHANGED <<reports, evidence, queue, event, worker, handler,
                   storageFailure, faults, late>>

(* close(): the worker is told to stop and every registered event is set.  *)
Stop ==
    /\ up = "serving"
    /\ starts < MaxStarts
    /\ up' = "stopping"
    /\ event' = [c \in Case |-> IF event[c] = "none" THEN "none" ELSE "set"]
    /\ UNCHANGED <<status, history, reports, evidence, execs, queue, worker,
                   handler, storageFailure, starts, faults, late>>

(* The process is gone, with or without a close() before: a crash, or the  *)
(* exit that follows the join, whose timeout may expire with the worker in *)
(* the middle of anything.  Everything in memory is lost.                  *)
ProcessEnds ==
    /\ up # "down"
    /\ starts < MaxStarts
    /\ up' = "down"
    /\ queue' = <<>>
    /\ event' = [c \in Case |-> "none"]
    /\ worker' = Idle
    /\ handler' = NoHandler
    /\ storageFailure' = FALSE
    /\ UNCHANGED <<durable, starts, faults, late>>

-----------------------------------------------------------------------------
(* HTTP handlers                                                           *)

(* create_case: the row, its transition and the audit row in one           *)
(* transaction.                                                            *)
CreateCase(c) ==
    /\ up # "down"
    /\ status[c] = "absent"
    /\ Move(c, "created")
    /\ UNCHANGED <<reports, evidence, execs, up, queue, event, worker, handler,
                   storageFailure, starts, faults, late>>

Admit(c) ==
    /\ up = "serving"
    /\ handler.pc = "none"
    /\ handler' = [pc |-> "commit", case |-> c]
    /\ UNCHANGED <<durable, up, queue, event, worker, storageFailure, starts,
                   faults, late>>

HasRoom == Len(queue) < QueueCap

(* Mutants: the fullness check is dropped; a running investigation passes. *)
CollectCheckUnbounded(c) == status[c] = "created" /\ Admit(c)
CollectCheckAgain(c) == status[c] \in {"created", "collecting"} /\ HasRoom /\ Admit(c)

(* collect takes the lock and makes its three checks.                      *)
CollectCheck(c) == status[c] = "created" /\ HasRoom /\ Admit(c)

CollectCommit ==
    /\ handler.pc = "commit"
    /\ Move(handler.case, "collecting")
    /\ handler' = [handler EXCEPT !.pc = "register"]
    /\ UNCHANGED <<reports, evidence, execs, up, queue, event, worker,
                   storageFailure, starts, faults, late>>

CollectRegister ==
    /\ handler.pc = "register"
    /\ event' = [event EXCEPT ![handler.case] = "clear"]
    /\ handler' = [handler EXCEPT !.pc = "audit"]
    /\ UNCHANGED <<durable, up, queue, worker, storageFailure, starts, faults,
                   late>>

(* The audit row is a transaction of its own.                              *)
CollectAudit ==
    /\ handler.pc = "audit"
    /\ handler' = [handler EXCEPT !.pc = "enqueue"]
    /\ UNCHANGED <<durable, up, queue, event, worker, storageFailure, starts,
                   faults, late>>

(* Mutant: the job is never put.                                           *)
CollectForgets ==
    /\ handler.pc = "enqueue"
    /\ handler' = NoHandler
    /\ UNCHANGED <<durable, up, queue, event, worker, storageFailure, starts,
                   faults, late>>

CollectEnqueue ==
    /\ handler.pc = "enqueue"
    /\ queue' = Append(queue, handler.case)
    /\ handler' = NoHandler
    /\ UNCHANGED <<durable, up, event, worker, storageFailure, starts, faults,
                   late>>

(* Either transaction of collect raises: the request ends with an error    *)
(* and what was done before stays done.                                    *)
CollectRaises ==
    /\ handler.pc \in {"commit", "audit"}
    /\ Fault
    /\ handler' = NoHandler
    /\ UNCHANGED <<durable, up, queue, event, worker, storageFailure, starts,
                   late>>

(* cancel does not take the lock.  It reads the status before it looks up  *)
(* the event, so an event still registered can be set although the final   *)
(* status was committed in between: the guard is the event alone.          *)
Cancel(c) ==
    /\ event[c] # "none"
    /\ event' = [event EXCEPT ![c] = "set"]
    /\ UNCHANGED <<durable, up, queue, worker, handler, storageFailure, starts,
                   faults, late>>

(* clear_history: every execution row goes, evidence is detached first.    *)
ClearHistory ==
    /\ Clearing
    /\ up # "down"
    /\ \E c \in Case, s \in Step : execs[c][s] # "none"
    /\ execs' = [c \in Case |-> [s \in Step |-> "none"]]
    /\ UNCHANGED <<status, history, reports, evidence, up, queue, event, worker,
                   handler, storageFailure, starts, faults, late>>

-----------------------------------------------------------------------------
(* The worker: the loop of _work                                           *)

Goto(pc) == worker' = [worker EXCEPT !.pc = pc]

WorkerPoll ==
    /\ up = "serving"
    /\ worker.pc = "idle"
    /\ Goto("waiting")
    /\ UNCHANGED <<durable, up, queue, event, handler, storageFailure, starts,
                   faults, late>>

(* queue.get times out and the loop looks at stopping again.               *)
WorkerEmpty ==
    /\ worker.pc = "waiting"
    /\ queue = <<>>
    /\ Goto("idle")
    /\ UNCHANGED <<durable, up, queue, event, handler, storageFailure, starts,
                   faults, late>>

WorkerTake ==
    /\ worker.pc = "waiting"
    /\ queue # <<>>
    /\ queue' = Tail(queue)
    /\ worker' = [Idle EXCEPT !.pc = "program", !.case = Head(queue)]
    /\ UNCHANGED <<durable, up, event, handler, storageFailure, starts, faults,
                   late>>

-----------------------------------------------------------------------------
(* The worker: _collect                                                    *)

c0 == worker.case

Cancelled == event[c0] = "set"

(* _record_program stores what drove the collection; nothing reads it here.*)
RecordProgram ==
    /\ worker.pc = "program"
    /\ Goto("gate")
    /\ UNCHANGED <<durable, up, queue, event, handler, storageFailure, starts,
                   faults, late>>

(* Mutant: a cancelled job is dropped without a report.                    *)
GateDrops ==
    /\ worker.pc = "gate"
    /\ Goto(IF Cancelled THEN "leave" ELSE "begin")
    /\ UNCHANGED <<durable, up, queue, event, handler, storageFailure, starts,
                   faults, late>>

(* The check before the first observation; a cancelled job is reported     *)
(* without having observed anything.                                       *)
Gate ==
    /\ worker.pc = "gate"
    /\ IF Cancelled
       THEN worker' = [worker EXCEPT !.pc = "finish",
                          !.draft = [status |-> "cancelled",
                                     evidence |-> Collected(c0)]]
       ELSE Goto("begin")
    /\ UNCHANGED <<durable, up, queue, event, handler, storageFailure, starts,
                   faults, late>>

(* First transaction of _step.                                             *)
BeginStep ==
    /\ worker.pc = "begin"
    /\ execs' = [execs EXCEPT ![c0][worker.step] = "running"]
    /\ late' = [late EXCEPT ![c0] = IF Cancelled /\ @ < 2 THEN @ + 1 ELSE @]
    /\ Goto("observe")
    /\ UNCHANGED <<status, history, reports, evidence, up, queue, event,
                   handler, storageFailure, starts, faults>>

(* The collector runs and cannot raise out of _step.  SYSTEM INFO is       *)
(* neither interruptible nor ever cut; the others answer a set event with  *)
(* InterruptedError, or finish regardless.                                 *)
Observe ==
    /\ worker.pc = "observe"
    /\ \E o \in Outcome :
          /\ o = "cancelled" => Cancelled /\ worker.step > 1
          /\ o \in {"incomplete", "truncated"} => worker.step > 1
          /\ worker' = [worker EXCEPT !.pc = "store", !.outcome = o]
    /\ UNCHANGED <<durable, up, queue, event, handler, storageFailure, starts,
                   faults, late>>

(* Mutant: what the program added is not counted at all.                   *)
CountsBaseline(c, s, o) == s <= Baseline[c] /\ o \in {"incomplete", "truncated"}

(* What adds to the incomplete accumulator: the baseline sources count     *)
(* when they were truncated as well, ARTIFACTS and the sources a program   *)
(* added only by their own claim.                                          *)
CountsIncomplete(c, s, o) == o = "incomplete" \/ (o = "truncated" /\ s <= Baseline[c])

(* Second transaction of _step: the evidence row refers to the execution   *)
(* row, which must still exist.                                            *)
StoreStep ==
    /\ worker.pc = "store"
    /\ execs[c0][worker.step] # "none"
    /\ execs' = [execs EXCEPT ![c0][worker.step] = worker.outcome]
    /\ evidence' = [evidence EXCEPT ![c0][worker.step] = worker.outcome]
    /\ worker' = [worker EXCEPT
                     !.pc = IF worker.step = 1 THEN "device" ELSE "next",
                     !.failures = @ \/ worker.outcome = "failed",
                     !.incomplete = @ \/ CountsIncomplete(c0, worker.step, worker.outcome)]
    /\ UNCHANGED <<status, history, reports, up, queue, event, handler,
                   storageFailure, starts, faults, late>>

(* Mutant: a failing collector takes the same way out.                     *)
StoreRejectsFailures ==
    /\ worker.pc = "store"
    /\ execs[c0][worker.step] = "none" \/ worker.outcome = "failed"
    /\ Goto("recover")
    /\ UNCHANGED <<durable, up, queue, event, handler, storageFailure, starts,
                   faults, late>>

(* The execution row was deleted meanwhile: the foreign key of evidence    *)
(* rejects the row and the exception leaves _step.                         *)
StoreRejected ==
    /\ worker.pc = "store"
    /\ execs[c0][worker.step] = "none"
    /\ Goto("recover")
    /\ UNCHANGED <<durable, up, queue, event, handler, storageFailure, starts,
                   faults, late>>

RecordDevice ==
    /\ worker.pc = "device"
    /\ Goto("next")
    /\ UNCHANGED <<durable, up, queue, event, handler, storageFailure, starts,
                   faults, late>>

ContinueIf(more) ==
    /\ worker.pc = "next"
    /\ IF more
       THEN worker' = [worker EXCEPT !.pc = "begin", !.step = @ + 1]
       ELSE Goto("analyze")
    /\ UNCHANGED <<durable, up, queue, event, handler, storageFailure, starts,
                   faults, late>>

(* Mutants: the event is not looked at; one step too many.                 *)
NextStepUnasked == ContinueIf(worker.step < Steps)
NextStepTooFar == ContinueIf(worker.step <= Steps /\ ~Cancelled)

(* The loops over baseline steps, ARTIFACTS and supplementary sources all  *)
(* look at the event before each step; once set it stays set.              *)
NextStep == ContinueIf(worker.step < Steps /\ ~Cancelled)

Analyze ==
    /\ worker.pc = "analyze"
    /\ Move(c0, "analyzing")
    /\ Goto("persist")
    /\ UNCHANGED <<reports, evidence, execs, up, queue, event, handler,
                   storageFailure, starts, faults, late>>

(* _record_recognition_sources, correlation and _persist_analysis: rows    *)
(* derived from the evidence, which no property here looks at.             *)
PersistAnalysis ==
    /\ worker.pc = "persist"
    /\ Goto("finalizing")
    /\ UNCHANGED <<durable, up, queue, event, handler, storageFailure, starts,
                   faults, late>>

Finalizing ==
    /\ worker.pc = "finalizing"
    /\ Move(c0, "finalizing")
    /\ Goto("decide")
    /\ UNCHANGED <<reports, evidence, execs, up, queue, event, handler,
                   storageFailure, starts, faults, late>>

(* Mutant: incomplete results count as complete.                           *)
VerdictOfFailures == IF Cancelled THEN "cancelled"
                     ELSE IF worker.failures THEN "partially_completed"
                     ELSE "completed"
Verdict == IF Cancelled THEN "cancelled"
           ELSE IF worker.failures \/ worker.incomplete THEN "partially_completed"
           ELSE "completed"

(* Mutants: the last step is not listed; the status is committed before    *)
(* the report is.                                                          *)
DecideOneShort ==
    /\ worker.pc = "decide"
    /\ worker' = [worker EXCEPT !.pc = "finish",
                     !.draft = [status |-> Verdict,
                                evidence |-> Collected(c0) \ {worker.step}]]
    /\ UNCHANGED <<durable, up, queue, event, handler, storageFailure, starts,
                   faults, late>>
DecideAndMark ==
    /\ worker.pc = "decide"
    /\ Move(c0, Verdict)
    /\ worker' = [worker EXCEPT !.pc = "finish",
                     !.draft = [status |-> Verdict, evidence |-> Collected(c0)]]
    /\ UNCHANGED <<reports, evidence, execs, up, queue, event, handler,
                   storageFailure, starts, faults, late>>

(* The verdict, then report_payload, which reads what is stored; a cancel  *)
(* from here on is accepted and changes nothing.                           *)
Decide ==
    /\ worker.pc = "decide"
    /\ worker' = [worker EXCEPT !.pc = "finish",
                     !.draft = [status |-> Verdict, evidence |-> Collected(c0)]]
    /\ UNCHANGED <<durable, up, queue, event, handler, storageFailure, starts,
                   faults, late>>

(* The transaction of _finalize: status, transition, report, audit row.    *)
Commit(from, to) ==
    /\ worker.pc = from
    /\ Move(c0, worker.draft.status)
    /\ reports' = [reports EXCEPT ![c0] = Append(@, worker.draft)]
    /\ Goto(to)
    /\ UNCHANGED <<evidence, execs, up, queue, event, handler, storageFailure,
                   starts, faults, late>>

Finish == Commit("finish", "leave")

(* Any transaction, analysis stage or report that raises sends _collect to *)
(* its except clause.                                                      *)
StageRaises ==
    /\ worker.pc \in Raising
    /\ Fault
    /\ Goto("recover")
    /\ UNCHANGED <<durable, up, queue, event, handler, storageFailure, starts,
                   late>>

(* The except clause: a report with status failed ...                      *)
Recover ==
    /\ worker.pc = "recover"
    /\ worker' = [worker EXCEPT !.pc = "fail",
                     !.draft = [status |-> "failed", evidence |-> Collected(c0)]]
    /\ UNCHANGED <<durable, up, queue, event, handler, storageFailure, starts,
                   faults, late>>

Fail == Commit("fail", "leave")

(* ... or, when that raises too, nothing more than the recorded failure:   *)
(* the exception runs through the finally clause and is caught in _work.   *)
FailRaises ==
    /\ worker.pc \in {"recover", "fail"}
    /\ Fault
    /\ storageFailure' = TRUE
    /\ event' = [event EXCEPT ![c0] = "none"]
    /\ worker' = Idle
    /\ UNCHANGED <<durable, up, queue, handler, starts, late>>

(* Mutant: the event is left registered.                                   *)
LeaveRegistered ==
    /\ worker.pc = "leave"
    /\ worker' = Idle
    /\ UNCHANGED <<durable, up, queue, event, handler, storageFailure, starts,
                   faults, late>>

(* The finally clause.                                                     *)
Leave ==
    /\ worker.pc = "leave"
    /\ event' = [event EXCEPT ![c0] = "none"]
    /\ worker' = Idle
    /\ UNCHANGED <<durable, up, queue, handler, storageFailure, starts, faults,
                   late>>

-----------------------------------------------------------------------------
CollectHandler == CollectCommit \/ CollectRegister \/ CollectAudit \/ CollectEnqueue

Collecting ==
    \/ RecordProgram \/ Gate \/ BeginStep \/ Observe \/ StoreStep
    \/ StoreRejected \/ RecordDevice \/ NextStep \/ Analyze
    \/ PersistAnalysis \/ Finalizing \/ Decide \/ Finish
    \/ Recover \/ Fail \/ Leave

WorkerLoop == WorkerPoll \/ WorkerEmpty \/ WorkerTake \/ Collecting

Next ==
    \/ Start \/ Stop \/ ProcessEnds
    \/ \E c \in Case : CreateCase(c) \/ CollectCheck(c) \/ Cancel(c)
    \/ CollectHandler \/ CollectRaises
    \/ ClearHistory
    \/ WorkerLoop \/ StageRaises \/ FailRaises

Spec == Init /\ [][Next]_vars

(* The worker and a request once begun go on; a process told to stop       *)
(* exits, and the owning client starts a new one.  Nothing is assumed of   *)
(* the investigator, of cancels, of faults or of crashes.                  *)
FairSpec ==
    /\ Spec
    /\ WF_vars(WorkerLoop)
    /\ WF_vars(CollectHandler)
    /\ WF_vars(up = "stopping" /\ ProcessEnds)
    /\ WF_vars(Start)
-----------------------------------------------------------------------------
(* Properties                                                              *)

(* Every variable has the shape the code gives it.                         *)
TypeOK ==
    /\ status \in [Case -> Status]
    /\ history \in [Case -> Seq(Status)]
    /\ reports \in [Case -> Seq(Report)]
    /\ evidence \in [Case -> [Step -> {"none"} \cup Outcome]]
    /\ execs \in [Case -> [Step -> ExecState]]
    /\ up \in {"down", "serving", "stopping"}
    /\ queue \in Seq(Case)
    /\ event \in [Case -> {"none", "clear", "set"}]
    /\ worker \in Worker
    /\ handler \in Handler
    /\ storageFailure \in BOOLEAN
    /\ starts \in Nat
    /\ faults \in Nat
    /\ late \in [Case -> 0..2]

(* An unfinished investigation is in somebody's hands: the request that    *)
(* submits it, the queue, or the worker.                                   *)
Owned(c) == c \in {handler.case, worker.case} \cup Queued

(* As long as no transaction raised, the serving process never leaves an   *)
(* investigation in an unfinished state that nothing will move on: the     *)
(* hand-over from collect to the queue to the worker to the final commit   *)
(* loses nothing (service.py collect, _work, _collect).                    *)
NoOrphan ==
    (up # "down" /\ faults = 0) =>
        \A c \in Case : status[c] \in Unfinished => Owned(c)

(* The fullness check of collect and the later put_nowait are separate     *)
(* steps; under the lock the queue still has room at the put, so the job   *)
(* is never refused after its investigation was marked collecting.         *)
PutNeverFails ==
    /\ Len(queue) <= QueueCap
    /\ handler.pc # "none" => Len(queue) < QueueCap

(* A job is queued once and belongs to one place: no investigation is      *)
(* collected twice, whatever is submitted or cancelled meanwhile.          *)
CollectedOnce ==
    /\ \A i, j \in 1..Len(queue) : queue[i] = queue[j] => i = j
    /\ worker.case \in Case => worker.case \notin Queued
    /\ handler.case \in Case => handler.case \notin Queued \cup {worker.case}

(* What is submitted is in one place at a time and never in none: from the *)
(* request to the queue to the worker (collect, _work).                    *)
HandedOver == NoOrphan /\ PutNeverFails /\ CollectedOnce

(* A finished investigation has exactly one report; it carries the same    *)
(* outcome and lists every evidence row the investigation holds.  An       *)
(* unfinished or interrupted one has none (_finalize).                     *)
ReportMatchesRecord ==
    \A c \in Case :
        reports[c] = IF status[c] \in Finished
                     THEN <<[status |-> status[c], evidence |-> Collected(c)]>>
                     ELSE <<>>

(* What the verdict claims, the evidence rows show: "completed" means that *)
(* every step was observed and none but ARTIFACTS and what the program     *)
(* added was cut short of what it would have read, "partially_completed"   *)
(* that every step was attempted and some fell short, and neither was cut  *)
(* short by a cancel (_collect, the failures and incomplete accumulators). *)
VerdictMatchesEvidence ==
    \A c \in Case :
        /\ status[c] = "completed" =>
              \A s \in Step : \/ evidence[c][s] = "complete"
                              \/ s > Baseline[c] /\ evidence[c][s] = "truncated"
        /\ status[c] = "partially_completed" =>
              /\ \A s \in Step : evidence[c][s] \notin {"none", "cancelled"}
              /\ \E s \in Step : \/ evidence[c][s] \in {"failed", "incomplete"}
                                 \/ s <= Baseline[c] /\ evidence[c][s] = "truncated"

(* Cancellation is honoured between steps: once the event of an            *)
(* investigation is set, at most the step whose check had already passed   *)
(* begins.                                                                 *)
CancelBetweenSteps == \A c \in Case : late[c] <= 1

(* Without a fault no execution row is left running by anything but the    *)
(* step the worker is in, so the job log never shows work nobody does.     *)
NoStrayExecution ==
    (up # "down" /\ faults = 0) =>
        \A c \in Case, s \in Step :
            execs[c][s] = "running" =>
                /\ worker.case = c
                /\ worker.step = s
                /\ worker.pc \in {"observe", "store"}

(* "One failing collector degrades a collection, never fails it": as long  *)
(* as no transaction or analysis stage raised, no investigation ends       *)
(* failed, however its collectors fail.                                    *)
CollectorNeverFailsCollection ==
    faults = 0 => \A c \in Case : status[c] # "failed"

(* A terminal investigation is history: its status, its transitions, its   *)
(* report and its evidence never change again, through any restart.        *)
TerminalIsFinal ==
    [][\A c \in Case : status[c] \in Terminal =>
          /\ status'[c] = status[c]
          /\ history'[c] = history[c]
          /\ reports'[c] = reports[c]
          /\ evidence'[c] = evidence[c]]_vars

(* The record an investigator sees follows the promised life cycle.        *)
Life == INSTANCE Lifecycle WITH
            Case <- Case, Step <- Step,
            status <- status, history <- history, reports <- reports
ImplementsLifecycle == Life!Spec

(* Every submitted collection reaches a terminal state when no transaction *)
(* raises: collected, cancelled, or interrupted by the next start.         *)
CollectionEnds ==
    \A c \in Case :
        status[c] = "collecting" ~> (status[c] \in Terminal \/ faults > 0)

(* Whatever was lost to a fault or a crash is settled by the next start:   *)
(* unfinished work of a process that is gone does not stay unfinished.     *)
RestartSettles ==
    \A c \in Case :
        (up = "down" /\ status[c] \in Unfinished) ~> status[c] \in Terminal

(* A cancel or a close that reached a registered event ends the            *)
(* collection when no transaction raises: the event never stays set on     *)
(* work that goes on for ever.                                             *)
CancelEnds ==
    \A c \in Case : event[c] = "set" ~> (event[c] = "none" \/ faults > 0)

(* Every submitted collection, and every one told to stop, ends (_work,    *)
(* cancel, close).                                                         *)
SubmittedEnds == CollectionEnds /\ CancelEnds
=============================================================================
