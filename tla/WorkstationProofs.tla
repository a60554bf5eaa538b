------------------------- MODULE WorkstationProofs -------------------------
(***************************************************************************)
(* What Workstation guarantees for every set of investigations, every      *)
(* number of steps and every queue capacity.                               *)
(***************************************************************************)
EXTENDS Workstation, TLAPS

USE DEF durable

(* Whoever works has a case, and a process that is gone has nobody working *)
Assigned ==
    /\ worker.case = NoCase <=> worker.pc \in {"idle", "waiting"}
    /\ handler.case = NoCase <=> handler.pc = "none"
    /\ up = "down" => worker.pc = "idle" /\ handler.pc = "none" /\ queue = <<>>

(* The status of an investigation is known from where its job is: nobody   *)
(* else moves it meanwhile.                                                *)
BeforeAnalysis == {"program", "gate", "begin", "observe", "store", "device", "next",
                   "analyze"}

HandlerPlaced ==
    /\ handler.pc = "commit" => status[handler.case] = "created"
    /\ handler.pc \in {"register", "audit", "enqueue"} =>
          status[handler.case] = "collecting"

QueuePlaced == \A i \in 1..Len(queue) : status[queue[i]] = "collecting"

WorkerPlaced ==
    /\ worker.pc \in BeforeAnalysis => status[c0] = "collecting"
    /\ worker.pc \in {"persist", "finalizing"} => status[c0] = "analyzing"
    /\ worker.pc = "decide" => status[c0] = "finalizing"
    /\ worker.pc = "finish" =>
          \/ status[c0] = "finalizing"
          \/ status[c0] = "collecting" /\ worker.draft.status = "cancelled"
    /\ worker.pc \in {"recover", "fail"} => status[c0] \in Unfinished
    /\ worker.pc = "leave" => status[c0] \in Finished

(* The report about to be committed lists what is stored by then.          *)
DraftCurrent ==
    /\ worker.pc \in {"finish", "fail"} => worker.draft.evidence = Collected(c0)
    /\ worker.pc = "fail" => worker.draft.status = "failed"

Shape == TypeOK /\ Assigned

IInv ==
    /\ Shape
    /\ HandlerPlaced /\ QueuePlaced /\ WorkerPlaced
    /\ CollectedOnce
    /\ PutNeverFails
    /\ NoOrphan
    /\ DraftCurrent
    /\ ReportMatchesRecord

LEMMA NobodyAtWork == Idle \in Worker /\ NoHandler \in Handler
<1>1. 1 \in Step
  BY ConstantsAssumption DEF Step
<1>2. NoDraft \in Report
  BY DEF NoDraft, Report, Finished
<1>3. QED
  BY <1>1, <1>2 DEF Idle, Worker, WorkerPC, Outcome, NoHandler, Handler, HandlerPC

LEMMA InitShape == Init => Shape
<1> SUFFICES ASSUME Init PROVE Shape
  OBVIOUS
<1>1. /\ status \in [Case -> Status]
      /\ evidence \in [Case -> [Step -> {"none"} \cup Outcome]]
      /\ execs \in [Case -> [Step -> ExecState]]
      /\ event \in [Case -> {"none", "clear", "set"}]
      /\ late \in [Case -> 0..2]
  BY DEF Init, Status, ExecState
<1>2. /\ history \in [Case -> Seq(Status)]
      /\ reports \in [Case -> Seq(Report)]
      /\ queue \in Seq(Case)
  BY DEF Init
<1>3. QED
  BY <1>1, <1>2, NobodyAtWork DEF Init, Shape, TypeOK, Assigned, Idle, NoHandler

(* One transition row more, and nothing else of an investigation.          *)
LEMMA MoveType ==
  ASSUME TypeOK, NEW c, NEW s \in Status, Move(c, s)
  PROVE  status' \in [Case -> Status] /\ history' \in [Case -> Seq(Status)]
<1>1. status' \in [Case -> Status]
  BY DEF TypeOK, Move
<1>2. \A d \in Case : Append(history[d], s) \in Seq(Status)
  BY DEF TypeOK
<1>3. history' \in [Case -> Seq(Status)]
  BY <1>2 DEF TypeOK, Move
<1>4. QED
  BY <1>1, <1>3

LEMMA GotoType ==
  ASSUME TypeOK, NEW pc \in WorkerPC, Goto(pc)
  PROVE  /\ worker' \in Worker
         /\ worker'.pc = pc
         /\ worker'.case = worker.case
  BY DEF TypeOK, Goto, Worker

(* The draft of a report is one whatever the outcome.                      *)
LEMMA DraftType ==
  ASSUME TypeOK, NEW s \in Finished, NEW pc \in WorkerPC,
         worker' = [worker EXCEPT !.pc = pc,
                       !.draft = [status |-> s, evidence |-> Collected(c0)]]
  PROVE  /\ worker' \in Worker
         /\ worker'.pc = pc
         /\ worker'.case = worker.case
<1>1. [status |-> s, evidence |-> Collected(c0)] \in Report
  BY DEF Report, Collected
<1>2. QED
  BY <1>1 DEF TypeOK, Worker

LEMMA NextShape == Shape /\ [Next]_vars => Shape'
<1> SUFFICES ASSUME Shape, [Next]_vars PROVE Shape'
  OBVIOUS
<1> USE ConstantsAssumption DEF Shape, TypeOK, Assigned
<1>a. CASE UNCHANGED vars
  BY <1>a DEF vars
<1>b. CASE Start
  <2>1. "interrupted" \in Status /\ "interrupted" \in ExecState
    BY DEF Status, Terminal, ExecState
  <2>2. execs' \in [Case -> [Step -> ExecState]]
    BY <1>b, <2>1 DEF Start, InterruptExecutions, InterruptInvestigations, InterruptFrom
  <2>3. status' \in [Case -> Status]
    BY <1>b, <2>1 DEF Start, InterruptExecutions, InterruptInvestigations, InterruptFrom
  <2>4. \A c \in Case : Append(history[c], "interrupted") \in Seq(Status)
    BY <2>1
  <2>5. history' \in [Case -> Seq(Status)]
    BY <1>b, <2>4 DEF Start, InterruptExecutions, InterruptInvestigations, InterruptFrom
  <2>6. QED
    BY <1>b, <2>2, <2>3, <2>5 DEF Start, InterruptExecutions, InterruptInvestigations, InterruptFrom
<1>c. CASE Stop
  BY <1>c DEF Stop
<1>d. CASE ProcessEnds
  <2>1. event' \in [Case -> {"none", "clear", "set"}]
    BY <1>d DEF ProcessEnds
  <2>2. /\ worker' \in Worker /\ worker'.pc = "idle" /\ worker'.case = NoCase
        /\ handler' \in Handler /\ handler'.pc = "none" /\ handler'.case = NoCase
    BY <1>d, NobodyAtWork DEF ProcessEnds, Idle, NoHandler
  <2>3. queue' \in Seq(Case) /\ storageFailure' \in BOOLEAN
    <3>1. queue' = <<>> /\ storageFailure' = FALSE
      BY <1>d DEF ProcessEnds
    <3>2. <<>> \in Seq(Case)
      OBVIOUS
    <3>3. QED
      BY <3>1, <3>2, Zenon
  <2>4. TypeOK'
    BY <1>d, <2>1, <2>2, <2>3 DEF ProcessEnds
  <2>5. Assigned'
    BY <1>d, <2>2 DEF ProcessEnds
  <2>6. QED
    BY <2>4, <2>5
<1>e. ASSUME NEW c \in Case, CreateCase(c) PROVE Shape'
  <2>1. "created" \in Status
    BY DEF Status
  <2>2. QED
    BY <1>e, <2>1, MoveType DEF CreateCase
<1>f. ASSUME NEW c \in Case, CollectCheck(c) PROVE Shape'
  BY <1>f DEF CollectCheck, Admit, Handler, HandlerPC
<1>g. ASSUME NEW c \in Case, Cancel(c) PROVE Shape'
  BY <1>g DEF Cancel
<1>h. CASE CollectCommit
  <2>1. "collecting" \in Status
    BY DEF Status, Unfinished
  <2>2. status' \in [Case -> Status] /\ history' \in [Case -> Seq(Status)]
    BY <1>h, <2>1, MoveType DEF CollectCommit
  <2>3. QED
    BY <1>h, <2>2 DEF CollectCommit, Handler, HandlerPC
<1>i. CASE CollectRegister \/ CollectAudit
  BY <1>i DEF CollectRegister, CollectAudit, Handler, HandlerPC
<1>j. CASE CollectEnqueue
  <2>1. handler.case \in Case
    BY <1>j DEF CollectEnqueue, Handler
  <2>2. QED
    BY <1>j, <2>1, NobodyAtWork DEF CollectEnqueue, NoHandler
<1>k. CASE CollectRaises
  BY <1>k, NobodyAtWork DEF CollectRaises, Fault, NoHandler
<1>l. CASE ClearHistory
  BY <1>l DEF ClearHistory, ExecState
<1>m. CASE WorkerPoll \/ WorkerEmpty
  BY <1>m, GotoType DEF WorkerPoll, WorkerEmpty, WorkerPC
<1>n. CASE WorkerTake
  <2>1. Head(queue) \in Case /\ Tail(queue) \in Seq(Case)
    BY <1>n DEF WorkerTake
  <2>2. worker' \in Worker /\ worker'.pc = "program" /\ worker'.case = Head(queue)
    BY <1>n, <2>1, NobodyAtWork DEF WorkerTake, Worker, WorkerPC, Raising, Idle
  <2>3. QED
    BY <1>n, <2>1, <2>2 DEF WorkerTake
<1>o. CASE RecordProgram \/ RecordDevice \/ PersistAnalysis \/ StoreRejected
  BY <1>o, GotoType
  DEF RecordProgram, RecordDevice, PersistAnalysis, StoreRejected, WorkerPC, Raising
<1>p. CASE StageRaises
  BY <1>p, GotoType DEF StageRaises, Fault, WorkerPC, Raising
<1>q. CASE Gate
  <2>1. /\ worker' \in Worker
        /\ worker'.pc \in {"begin", "finish"}
        /\ worker'.case = worker.case
    BY <1>q, GotoType, DraftType DEF Gate, WorkerPC, Raising, Finished
  <2>2. QED
    BY <1>q, <2>1 DEF Gate
<1>r. CASE BeginStep
  <2>1. worker' \in Worker /\ worker'.pc = "observe" /\ worker'.case = worker.case
    BY <1>r, GotoType DEF BeginStep, WorkerPC
  <2>2. execs' \in [Case -> [Step -> ExecState]]
    BY <1>r DEF BeginStep, ExecState
  <2>3. late' \in [Case -> 0..2]
    <3>1. \A c \in Case : (IF Cancelled /\ late[c] < 2 THEN late[c] + 1 ELSE late[c]) \in 0..2
      OBVIOUS
    <3>2. late' = [late EXCEPT ![c0] = IF Cancelled /\ @ < 2 THEN @ + 1 ELSE @]
      BY <1>r DEF BeginStep
    <3>3. late \in [Case -> 0..2]
      OBVIOUS
    <3> HIDE DEF Shape, TypeOK, Assigned
    <3>4. QED
      BY <3>1, <3>2, <3>3
  <2>4. QED
    BY <1>r, <2>1, <2>2, <2>3 DEF BeginStep
<1>s. CASE Observe
  <2>1. PICK o \in Outcome : worker' = [worker EXCEPT !.pc = "store", !.outcome = o]
    BY <1>s DEF Observe
  <2>2. worker' \in Worker /\ worker'.pc = "store" /\ worker'.case = worker.case
    BY <2>1 DEF Worker, WorkerPC, Raising
  <2>3. QED
    BY <1>s, <2>2 DEF Observe
<1>t. CASE StoreStep
  BY <1>t DEF StoreStep, Worker, WorkerPC, Raising, ExecState
<1>u. CASE NextStep
  <2>1. /\ worker' \in Worker
        /\ worker'.pc \in {"begin", "analyze"}
        /\ worker'.case = worker.case
    <3>1. CASE worker.step < Steps /\ ~Cancelled
      <4>1. worker.step + 1 \in Step
        BY <3>1 DEF Step, Worker
      <4>2. QED
        <5>1. worker' = [worker EXCEPT !.pc = "begin", !.step = @ + 1]
          BY <1>u, <3>1 DEF NextStep, ContinueIf
        <5>2. QED
          BY <4>1, <5>1 DEF Worker, WorkerPC, Raising
    <3>2. CASE ~(worker.step < Steps /\ ~Cancelled)
      BY <1>u, <3>2, GotoType DEF NextStep, ContinueIf, WorkerPC, Raising
    <3>3. QED
      BY <3>1, <3>2
  <2>2. QED
    BY <1>u, <2>1 DEF NextStep, ContinueIf
<1>v. CASE Analyze \/ Finalizing
  <2>1. {"analyzing", "finalizing"} \subseteq Status
    BY DEF Status, Unfinished
  <2>2. status' \in [Case -> Status] /\ history' \in [Case -> Seq(Status)]
    BY <1>v, <2>1, MoveType DEF Analyze, Finalizing
  <2>3. QED
    BY <1>v, <2>2, GotoType DEF Analyze, Finalizing, WorkerPC, Raising
<1>w. CASE Decide \/ Recover
  <2>1. Verdict \in Finished /\ "failed" \in Finished
    BY DEF Verdict, Finished
  <2>2. /\ worker' \in Worker
        /\ worker'.pc \in {"finish", "fail"}
        /\ worker'.case = worker.case
    BY <1>w, <2>1, DraftType DEF Decide, Recover, WorkerPC, Raising
  <2>3. QED
    BY <1>w, <2>2 DEF Decide, Recover
<1>x. CASE Finish \/ Fail
  <2>1. worker.draft \in Report /\ worker.draft.status \in Status
    BY DEF Worker, Report, Status, Terminal
  <2>2. status' \in [Case -> Status] /\ history' \in [Case -> Seq(Status)]
    BY <1>x, <2>1, MoveType DEF Finish, Fail, Commit
  <2>3. \A c \in Case : Append(reports[c], worker.draft) \in Seq(Report)
    BY <2>1
  <2>4. reports' \in [Case -> Seq(Report)]
    <3>1. reports' = [reports EXCEPT ![c0] = Append(@, worker.draft)]
      BY <1>x DEF Finish, Fail, Commit
    <3>2. reports \in [Case -> Seq(Report)]
      OBVIOUS
    <3> HIDE DEF Shape, TypeOK, Assigned
    <3>3. QED
      BY <2>3, <3>1, <3>2
  <2>5. worker' \in Worker /\ worker'.pc = "leave" /\ worker'.case = worker.case
    BY <1>x, GotoType DEF Finish, Fail, Commit, WorkerPC
  <2>6. QED
    BY <1>x, <2>2, <2>4, <2>5 DEF Finish, Fail, Commit
<1>y. CASE FailRaises
  <2>1. event' \in [Case -> {"none", "clear", "set"}]
    BY <1>y DEF FailRaises
  <2>2. worker' \in Worker /\ worker'.pc = "idle" /\ worker'.case = NoCase
    BY <1>y, NobodyAtWork DEF FailRaises, Idle
  <2>3. QED
    BY <1>y, <2>1, <2>2 DEF FailRaises, Fault
<1>z. CASE Leave
  <2>1. event' \in [Case -> {"none", "clear", "set"}]
    BY <1>z DEF Leave
  <2>2. worker' \in Worker /\ worker'.pc = "idle" /\ worker'.case = NoCase
    BY <1>z, NobodyAtWork DEF Leave, Idle
  <2>3. QED
    BY <1>z, <2>1, <2>2 DEF Leave
<1>. QED
  BY <1>a, <1>b, <1>c, <1>d, <1>e, <1>f, <1>g, <1>h, <1>i, <1>j, <1>k, <1>l, <1>m,
     <1>n, <1>o, <1>p, <1>q, <1>r, <1>s, <1>t, <1>u, <1>v, <1>w, <1>x, <1>y, <1>z
  DEF Next, CollectHandler, WorkerLoop, Collecting

(* The record, the queue and the threads keep the shapes of the code.      *)
THEOREM TypeCorrect == Spec => []TypeOK
  BY InitShape, NextShape, PTL DEF Spec, Shape

-----------------------------------------------------------------------------
(* The hand-over of a job, and what is reported of it                      *)

LEMMA InitIInv == Init => IInv
<1> SUFFICES ASSUME Init PROVE IInv
  OBVIOUS
<1>1. Shape
  BY InitShape
<1>2. ReportMatchesRecord
  BY DEF Init, ReportMatchesRecord, Finished
<1>3. QED
  BY <1>1, <1>2, ConstantsAssumption
  DEF Init, IInv, HandlerPlaced, QueuePlaced, WorkerPlaced, BeforeAnalysis, CollectedOnce,
      PutNeverFails, NoOrphan, DraftCurrent, Idle, NoHandler, Queued

(* While a worker is busy its investigation is a real one.                 *)
LEMMA WorkerHasCase ==
  ASSUME Shape, worker.pc \notin {"idle", "waiting"}
  PROVE  c0 \in Case
  BY DEF Shape, TypeOK, Assigned, Worker, c0

LEMMA HandlerHasCase ==
  ASSUME Shape, handler.pc # "none"
  PROVE  handler.case \in Case
  BY DEF Shape, TypeOK, Assigned, Handler

(* A step of the worker on its own job leaves every hand-over as it is.    *)
LEMMA WorkerAlone ==
  ASSUME IInv, UNCHANGED <<status, queue, handler, up>>, worker'.case = worker.case,
         faults' \in {faults, faults + 1}
  PROVE  HandlerPlaced' /\ QueuePlaced' /\ CollectedOnce' /\ PutNeverFails' /\ NoOrphan'
<1>1. HandlerPlaced' /\ QueuePlaced'
  BY DEF IInv, HandlerPlaced, QueuePlaced
<1>2. CollectedOnce'
  BY DEF IInv, CollectedOnce, Queued
<1>3. PutNeverFails'
  BY DEF IInv, PutNeverFails
<1>4. NoOrphan'
  <2>1. \A c \in Case : Owned(c) => Owned(c)'
    BY DEF Owned, Queued
  <2>2. faults \in Nat
    BY DEF IInv, Shape, TypeOK
  <2>3. NoOrphan
    BY DEF IInv
  <2>4. faults' = 0 => faults = 0
    BY <2>2
  <2>5. QED
    BY <2>1, <2>3, <2>4 DEF NoOrphan
<1>5. QED
  BY <1>1, <1>2, <1>3, <1>4

LEMMA RecordAlone ==
  ASSUME IInv, UNCHANGED <<status, reports, evidence>>
  PROVE  ReportMatchesRecord'
  BY DEF IInv, ReportMatchesRecord, Collected

(* The steps that touch no record and hand nothing over.                   *)
LEMMA WorkerSteps ==
  ASSUME IInv, Shape',
         \/ RecordProgram \/ Gate \/ BeginStep \/ Observe \/ StoreRejected
         \/ RecordDevice \/ NextStep \/ PersistAnalysis \/ Decide \/ Recover
         \/ StageRaises
  PROVE  IInv'
<1>1. /\ UNCHANGED <<status, reports, evidence, queue, handler, up>>
      /\ faults' \in {faults, faults + 1}
  BY DEF RecordProgram, Gate, BeginStep, Observe, StoreRejected, RecordDevice, NextStep, ContinueIf,
         PersistAnalysis, Decide, Recover, StageRaises, Fault
<1>2. worker'.case = worker.case
  BY DEF RecordProgram, Gate, BeginStep, Observe, StoreRejected, RecordDevice, NextStep, ContinueIf,
         PersistAnalysis, Decide, Recover, StageRaises, Goto, IInv, Shape, TypeOK, Worker
<1>3. WorkerPlaced' /\ DraftCurrent'
  <2>1. /\ worker \in Worker /\ WorkerPlaced
        /\ status' = status /\ evidence' = evidence
        /\ c0' = c0
    BY <1>1, <1>2 DEF IInv, Shape, TypeOK, c0
  <2> USE DEF WorkerPlaced, DraftCurrent, Worker, Collected
  <2>2. CASE RecordProgram \/ RecordDevice \/ PersistAnalysis \/ StoreRejected
    BY <2>1, <2>2 DEF RecordProgram, RecordDevice, PersistAnalysis, StoreRejected, Goto,
       BeforeAnalysis, Unfinished
  <2>3. CASE Gate
    <3>1. CASE Cancelled
      <4>1. /\ worker.pc = "gate" /\ worker'.pc = "finish"
            /\ worker'.draft = [status |-> "cancelled", evidence |-> Collected(c0)]
        BY <2>1, <2>3, <3>1 DEF Gate
      <4>2. QED
        BY <2>1, <4>1 DEF BeforeAnalysis
    <3>2. CASE ~Cancelled
      BY <2>1, <2>3, <3>2 DEF Gate, Goto, BeforeAnalysis
    <3>3. QED
      BY <3>1, <3>2
  <2>4. CASE BeginStep \/ Observe \/ NextStep
    BY <2>1, <2>4 DEF BeginStep, Observe, NextStep, ContinueIf, Goto, BeforeAnalysis
  <2>5. CASE Decide
    BY <2>1, <2>5 DEF Decide, BeforeAnalysis
  <2>6. CASE Recover
    BY <2>1, <2>6 DEF Recover, BeforeAnalysis
  <2>7. CASE StageRaises
    BY <2>1, <2>7 DEF StageRaises, Goto, Raising, BeforeAnalysis, Unfinished
  <2>8. QED
    BY <2>2, <2>3, <2>4, <2>5, <2>6, <2>7
<1>4. QED
  BY <1>1, <1>2, <1>3, WorkerAlone, RecordAlone DEF IInv

LEMMA StoreStepIInv == ASSUME IInv, Shape', StoreStep PROVE IInv'
<1>1. /\ UNCHANGED <<status, reports, queue, handler, up, faults>>
      /\ worker \in Worker
      /\ worker'.case = worker.case
      /\ worker'.pc \in {"device", "next"}
      /\ worker.pc = "store"
  BY DEF StoreStep, IInv, Shape, TypeOK, Worker
<1>2. WorkerPlaced' /\ DraftCurrent'
  BY <1>1 DEF IInv, WorkerPlaced, DraftCurrent, BeforeAnalysis, c0
<1>3. c0 \in Case /\ status[c0] \notin Finished
  BY <1>1, WorkerHasCase DEF IInv, WorkerPlaced, BeforeAnalysis, Finished
<1>4. ReportMatchesRecord'
  <2> SUFFICES ASSUME NEW c \in Case
               PROVE  reports'[c] = IF status'[c] \in Finished
                          THEN <<[status |-> status'[c], evidence |-> Collected(c)']>>
                          ELSE <<>>
    BY DEF ReportMatchesRecord
  <2>1. c # c0 => Collected(c)' = Collected(c)
    BY DEF StoreStep, Collected, IInv, Shape, TypeOK
  <2>2. QED
    BY <1>1, <1>3, <2>1 DEF IInv, ReportMatchesRecord
<1>5. QED
  BY <1>1, <1>2, <1>4, WorkerAlone DEF IInv

(* The worker moves its own investigation on: no other place names it.     *)
LEMMA WorkerMoves ==
  ASSUME IInv, Shape', NEW s \in Unfinished \cup Finished, Move(c0, s),
         worker.pc \notin {"idle", "waiting"},
         UNCHANGED <<queue, handler, up, faults>>, worker'.case = worker.case
  PROVE  HandlerPlaced' /\ QueuePlaced' /\ CollectedOnce' /\ PutNeverFails' /\ NoOrphan'
<1>1. c0 \in Case /\ status' = [status EXCEPT ![c0] = s]
  BY WorkerHasCase DEF IInv, Move
<1>2. HandlerPlaced'
  BY <1>1, HandlerHasCase DEF IInv, Shape, TypeOK, HandlerPlaced, CollectedOnce, c0
<1>3. QueuePlaced'
  <2>1. \A i \in 1..Len(queue) : queue[i] \in Case /\ queue[i] # c0
    BY <1>1 DEF IInv, Shape, TypeOK, CollectedOnce, Queued, c0
  <2>2. QED
    BY <1>1, <2>1 DEF IInv, Shape, TypeOK, QueuePlaced
<1>4. CollectedOnce' /\ PutNeverFails'
  BY DEF IInv, CollectedOnce, PutNeverFails, Queued
<1>5. NoOrphan'
  <2> SUFFICES ASSUME up # "down", faults = 0, NEW c \in Case, status'[c] \in Unfinished
               PROVE  Owned(c)'
    BY DEF NoOrphan
  <2>1. CASE c = c0
    BY <2>1 DEF Owned, c0
  <2>2. CASE c # c0
    <3>1. status[c] \in Unfinished
      BY <1>1, <2>2 DEF IInv, Shape, TypeOK
    <3>2. QED
      BY <3>1 DEF IInv, NoOrphan, Owned, Queued
  <2>3. QED
    BY <2>1, <2>2
<1>6. QED
  BY <1>2, <1>3, <1>4, <1>5

LEMMA AnalyzeFinalizingIInv ==
  ASSUME IInv, Shape', Analyze \/ Finalizing PROVE IInv'
<1>1. PICK s \in {"analyzing", "finalizing"} :
         /\ Move(c0, s)
         /\ worker'.pc = (IF s = "analyzing" THEN "persist" ELSE "decide")
         /\ status[c0] \in Unfinished
         /\ worker.pc \notin {"idle", "waiting"}
         /\ worker'.case = worker.case
         /\ UNCHANGED <<reports, evidence, queue, handler, up, faults>>
  BY DEF Analyze, Finalizing, Goto, IInv, Shape, TypeOK, Worker, WorkerPlaced,
         BeforeAnalysis, Unfinished
<1>2. c0 \in Case /\ c0' = c0 /\ status' = [status EXCEPT ![c0] = s]
  BY <1>1, WorkerHasCase DEF IInv, Move, c0
<1>3. WorkerPlaced' /\ DraftCurrent'
  BY <1>1, <1>2 DEF IInv, Shape, TypeOK, WorkerPlaced, DraftCurrent, BeforeAnalysis
<1>4. ReportMatchesRecord'
  BY <1>1, <1>2 DEF IInv, Shape, TypeOK, ReportMatchesRecord, Collected, Unfinished, Finished
<1>5. QED
  BY <1>1, <1>3, <1>4, WorkerMoves DEF IInv, Unfinished

(* The transaction that ends a collection.                                 *)
LEMMA CommitIInv ==
  ASSUME IInv, Shape', Finish \/ Fail PROVE IInv'
<1>1. /\ Move(c0, worker.draft.status)
      /\ reports' = [reports EXCEPT ![c0] = Append(@, worker.draft)]
      /\ worker.pc \in {"finish", "fail"}
      /\ worker'.pc = "leave"
      /\ worker'.case = worker.case
      /\ worker.draft \in Report
      /\ worker.draft.status \in Finished
      /\ UNCHANGED <<evidence, queue, handler, up, faults>>
  BY DEF Finish, Fail, Commit, Goto, IInv, Shape, TypeOK, Worker, Report
<1>2. /\ c0 \in Case /\ c0' = c0
      /\ status' = [status EXCEPT ![c0] = worker.draft.status]
  BY <1>1, WorkerHasCase DEF IInv, Move, c0
<1>3. WorkerPlaced' /\ DraftCurrent'
  BY <1>1, <1>2 DEF IInv, Shape, TypeOK, WorkerPlaced, DraftCurrent, BeforeAnalysis
<1>4. ReportMatchesRecord'
  <2>1. reports[c0] = <<>>
    BY <1>1, <1>2 DEF IInv, ReportMatchesRecord, WorkerPlaced, Unfinished, Finished
  <2>2. worker.draft = [status |-> worker.draft.status, evidence |-> Collected(c0)]
    BY <1>1 DEF IInv, DraftCurrent, Report
  <2>3. reports'[c0] = <<[status |-> worker.draft.status, evidence |-> Collected(c0)]>>
    BY <1>1, <1>2, <2>1, <2>2 DEF IInv, Shape, TypeOK
  <2>4. QED
    BY <1>1, <1>2, <2>3 DEF IInv, Shape, TypeOK, ReportMatchesRecord, Collected
<1>5. QED
  BY <1>1, <1>3, <1>4, WorkerMoves DEF IInv

(* Nothing of the record or of a hand-over changes: only memory, the job   *)
(* log, or the way to ask for a cancel.                                    *)
LEMMA SideSteps ==
  ASSUME IInv, Shape',
         \/ Stop \/ ClearHistory \/ WorkerPoll \/ WorkerEmpty \/ CollectAudit
         \/ CollectRegister \/ (\E c \in Case : Cancel(c)) \/ UNCHANGED vars
  PROVE  IInv'
<1>1. /\ UNCHANGED <<status, reports, evidence, queue, faults>>
      /\ up = "down" => up' = "down"
      /\ worker'.case = worker.case /\ worker'.draft = worker.draft
      /\ \/ worker'.pc = worker.pc
         \/ worker.pc \in {"idle", "waiting"} /\ worker'.pc \in {"idle", "waiting"}
      /\ handler'.case = handler.case
      /\ \/ handler'.pc = handler.pc
         \/ /\ handler.pc \in {"register", "audit"}
            /\ handler'.pc \in {"audit", "enqueue"}
  <2>1. worker \in Worker /\ handler \in Handler
    BY DEF IInv, Shape, TypeOK
  <2>2. CASE Stop \/ ClearHistory \/ (\E c \in Case : Cancel(c)) \/ UNCHANGED vars
    BY <2>2 DEF Stop, ClearHistory, Cancel, vars
  <2>3. CASE WorkerPoll \/ WorkerEmpty
    BY <2>1, <2>3 DEF WorkerPoll, WorkerEmpty, Goto, Worker
  <2>4. CASE CollectAudit \/ CollectRegister
    BY <2>1, <2>4 DEF CollectAudit, CollectRegister, Handler
  <2>5. QED
    BY <2>2, <2>3, <2>4
<1>2. HandlerPlaced' /\ QueuePlaced' /\ WorkerPlaced'
  BY <1>1 DEF IInv, HandlerPlaced, QueuePlaced, WorkerPlaced, BeforeAnalysis, c0
<1>3. CollectedOnce' /\ PutNeverFails'
  BY <1>1 DEF IInv, CollectedOnce, PutNeverFails, Queued
<1>4. NoOrphan'
  BY <1>1 DEF IInv, NoOrphan, Owned, Queued
<1>5. DraftCurrent' /\ ReportMatchesRecord'
  BY <1>1, RecordAlone DEF IInv, DraftCurrent, Collected, c0
<1>6. QED
  BY <1>2, <1>3, <1>4, <1>5 DEF IInv

(* With nobody at work and nothing queued only the reports matter.         *)
LEMMA NobodyThere ==
  ASSUME Shape', worker'.pc = "idle", handler'.pc = "none", queue' = <<>>
  PROVE  /\ HandlerPlaced' /\ QueuePlaced' /\ WorkerPlaced'
         /\ CollectedOnce' /\ PutNeverFails' /\ DraftCurrent'
<1>1. worker'.case = NoCase /\ handler'.case = NoCase
  BY DEF Shape, Assigned
<1>2. QED
  BY <1>1, ConstantsAssumption
  DEF HandlerPlaced, QueuePlaced, WorkerPlaced, BeforeAnalysis, CollectedOnce,
      PutNeverFails, DraftCurrent, Queued

LEMMA StartIInv == ASSUME IInv, Shape', Start PROVE IInv'
<1>1. /\ worker'.pc = "idle" /\ handler'.pc = "none" /\ queue' = <<>>
      /\ UNCHANGED <<reports, evidence>>
      /\ \A c \in Case : status'[c] = IF status[c] \in Unfinished
                                      THEN "interrupted" ELSE status[c]
  BY DEF Start, InterruptExecutions, InterruptInvestigations, InterruptFrom, IInv, Shape, Assigned
<1>2. NoOrphan'
  BY <1>1 DEF NoOrphan, Unfinished
<1>3. ReportMatchesRecord'
  BY <1>1 DEF IInv, ReportMatchesRecord, Collected, Unfinished, Finished
<1>4. QED
  BY <1>1, <1>2, <1>3, NobodyThere DEF IInv

LEMMA ProcessEndsIInv == ASSUME IInv, Shape', ProcessEnds PROVE IInv'
<1>1. /\ worker'.pc = "idle" /\ handler'.pc = "none" /\ queue' = <<>> /\ up' = "down"
      /\ UNCHANGED <<status, reports, evidence>>
  BY DEF ProcessEnds, Idle, NoHandler
<1>2. QED
  BY <1>1, NobodyThere, RecordAlone DEF IInv, NoOrphan

(* An investigation nobody submitted is in nobody's hands.                 *)
LEMMA Idlers ==
  ASSUME IInv, NEW c \in Case, status[c] \in {"absent", "created"}
  PROVE  c \notin Queued \cup {worker.case}
<1>1. c \notin Queued
  BY DEF IInv, QueuePlaced, Queued
<1>2. c # worker.case
  BY ConstantsAssumption
  DEF IInv, Shape, TypeOK, Assigned, WorkerPlaced, BeforeAnalysis, Worker, WorkerPC, Raising,
      Unfinished, Finished, c0
<1>3. QED
  BY <1>1, <1>2

LEMMA CreateCaseIInv ==
  ASSUME IInv, Shape', NEW c \in Case, CreateCase(c) PROVE IInv'
<1>1. /\ status[c] = "absent" /\ status' = [status EXCEPT ![c] = "created"]
      /\ UNCHANGED <<reports, evidence, queue, worker, handler, up, faults>>
  BY DEF CreateCase, Move
<1>2. c \notin Queued \cup {worker.case}
  BY <1>1, Idlers
<1>3. HandlerPlaced'
  BY <1>1, HandlerHasCase DEF IInv, Shape, TypeOK, HandlerPlaced
<1>4. QueuePlaced' /\ WorkerPlaced'
  BY <1>1, <1>2, WorkerHasCase
  DEF IInv, Shape, TypeOK, QueuePlaced, WorkerPlaced, BeforeAnalysis, Queued, c0
<1>5. CollectedOnce' /\ PutNeverFails' /\ DraftCurrent'
  BY <1>1 DEF IInv, CollectedOnce, PutNeverFails, DraftCurrent, Queued, Collected, c0
<1>6. NoOrphan'
  <2>1. \A d \in Case : status'[d] \in Unfinished => status[d] \in Unfinished
    BY <1>1 DEF IInv, Shape, TypeOK, Unfinished
  <2>2. QED
    BY <1>1, <2>1 DEF IInv, NoOrphan, Owned, Queued
<1>7. ReportMatchesRecord'
  BY <1>1 DEF IInv, Shape, TypeOK, ReportMatchesRecord, Collected, Finished
<1>8. QED
  BY <1>3, <1>4, <1>5, <1>6, <1>7 DEF IInv

LEMMA CollectCheckIInv ==
  ASSUME IInv, Shape', NEW c \in Case, CollectCheck(c) PROVE IInv'
<1>1. /\ handler.pc = "none" /\ handler'.pc = "commit" /\ handler'.case = c
      /\ status[c] = "created" /\ Len(queue) < QueueCap
      /\ UNCHANGED <<status, reports, evidence, queue, worker, up, faults>>
  BY DEF CollectCheck, Admit, HasRoom
<1>2. c \notin Queued \cup {worker.case}
  BY <1>1, Idlers
<1>3. HandlerPlaced' /\ QueuePlaced' /\ WorkerPlaced'
  BY <1>1 DEF IInv, HandlerPlaced, QueuePlaced, WorkerPlaced, BeforeAnalysis, c0
<1>4. CollectedOnce' /\ PutNeverFails'
  BY <1>1, <1>2 DEF IInv, CollectedOnce, PutNeverFails, Queued
<1>5. NoOrphan'
  <2>1. handler.case \notin Case
    BY <1>1, ConstantsAssumption DEF IInv, Shape, Assigned
  <2>2. QED
    BY <1>1, <2>1 DEF IInv, NoOrphan, Owned, Queued
<1>6. DraftCurrent' /\ ReportMatchesRecord'
  BY <1>1, RecordAlone DEF IInv, DraftCurrent, Collected, c0
<1>7. QED
  BY <1>3, <1>4, <1>5, <1>6 DEF IInv

LEMMA CollectCommitIInv == ASSUME IInv, Shape', CollectCommit PROVE IInv'
<1> DEFINE h == handler.case
<1>1. /\ handler.pc = "commit" /\ handler'.pc = "register" /\ handler'.case = h
      /\ status' = [status EXCEPT ![h] = "collecting"]
      /\ UNCHANGED <<reports, evidence, queue, worker, up, faults>>
  BY DEF CollectCommit, Move, IInv, Shape, TypeOK, Handler
<1>2. h \in Case /\ status[h] = "created"
  BY <1>1, HandlerHasCase DEF IInv, HandlerPlaced
<1>3. HandlerPlaced' /\ QueuePlaced'
  BY <1>1, <1>2 DEF IInv, Shape, TypeOK, HandlerPlaced, QueuePlaced
<1>4. WorkerPlaced'
  BY <1>1, <1>2, Idlers
  DEF IInv, Shape, TypeOK, WorkerPlaced, BeforeAnalysis, c0
<1>5. CollectedOnce' /\ PutNeverFails' /\ DraftCurrent'
  BY <1>1 DEF IInv, CollectedOnce, PutNeverFails, DraftCurrent, Queued, Collected, c0
<1>6. NoOrphan'
  BY <1>1, <1>2 DEF IInv, Shape, TypeOK, NoOrphan, Owned, Queued
<1>7. ReportMatchesRecord'
  BY <1>1, <1>2 DEF IInv, Shape, TypeOK, ReportMatchesRecord, Collected, Finished
<1>8. QED
  BY <1>3, <1>4, <1>5, <1>6, <1>7 DEF IInv

LEMMA CollectRaisesIInv == ASSUME IInv, Shape', CollectRaises PROVE IInv'
<1>1. /\ handler'.pc = "none" /\ handler'.case = NoCase /\ faults' = faults + 1
      /\ UNCHANGED <<status, reports, evidence, queue, worker, up>>
  BY DEF CollectRaises, Fault, NoHandler
<1>2. HandlerPlaced' /\ QueuePlaced' /\ WorkerPlaced'
  BY <1>1 DEF IInv, HandlerPlaced, QueuePlaced, WorkerPlaced, BeforeAnalysis, c0
<1>3. CollectedOnce' /\ PutNeverFails'
  BY <1>1, ConstantsAssumption DEF IInv, CollectedOnce, PutNeverFails, Queued
<1>4. NoOrphan'
  BY <1>1 DEF IInv, Shape, TypeOK, NoOrphan
<1>5. DraftCurrent' /\ ReportMatchesRecord'
  BY <1>1, RecordAlone DEF IInv, DraftCurrent, Collected, c0
<1>6. QED
  BY <1>2, <1>3, <1>4, <1>5 DEF IInv

LEMMA CollectEnqueueIInv == ASSUME IInv, Shape', CollectEnqueue PROVE IInv'
<1> DEFINE h == handler.case
<1>1. /\ handler.pc = "enqueue" /\ handler'.pc = "none" /\ handler'.case = NoCase
      /\ queue' = Append(queue, h)
      /\ UNCHANGED <<status, reports, evidence, worker, up, faults>>
  BY DEF CollectEnqueue, NoHandler
<1>2. /\ h \in Case /\ status[h] = "collecting"
      /\ h \notin Queued \cup {worker.case}
  BY <1>1, HandlerHasCase DEF IInv, HandlerPlaced, CollectedOnce
<1>3. /\ queue \in Seq(Case) /\ Len(queue') = Len(queue) + 1 /\ queue'[Len(queue) + 1] = h
      /\ \A i \in 1..Len(queue) : queue'[i] = queue[i]
  BY <1>1, <1>2 DEF IInv, Shape, TypeOK
<1>4. Queued' = Queued \cup {h}
  BY <1>3 DEF Queued
<1>5. HandlerPlaced' /\ QueuePlaced' /\ WorkerPlaced'
  BY <1>1, <1>2, <1>3
  DEF IInv, HandlerPlaced, QueuePlaced, WorkerPlaced, BeforeAnalysis, c0
<1>6. CollectedOnce'
  <2>1. \A i, j \in 1..Len(queue') : queue'[i] = queue'[j] => i = j
    BY <1>2, <1>3 DEF IInv, CollectedOnce, Queued
  <2>2. QED
    BY <1>1, <1>2, <1>4, <2>1, ConstantsAssumption DEF IInv, CollectedOnce
<1>7. PutNeverFails'
  BY <1>1, <1>3, ConstantsAssumption DEF IInv, PutNeverFails
<1>8. NoOrphan'
  BY <1>1, <1>4 DEF IInv, NoOrphan, Owned
<1>9. DraftCurrent' /\ ReportMatchesRecord'
  BY <1>1, RecordAlone DEF IInv, DraftCurrent, Collected, c0
<1>10. QED
  BY <1>5, <1>6, <1>7, <1>8, <1>9 DEF IInv

LEMMA WorkerTakeIInv == ASSUME IInv, Shape', WorkerTake PROVE IInv'
<1>1. /\ worker.pc = "waiting" /\ worker'.pc = "program" /\ worker'.case = Head(queue)
      /\ queue # <<>> /\ queue' = Tail(queue)
      /\ UNCHANGED <<status, reports, evidence, handler, up, faults>>
  BY DEF WorkerTake, Idle
<1>2. /\ queue \in Seq(Case) /\ Len(queue) \in Nat /\ Len(queue) > 0
      /\ Head(queue) = queue[1] /\ Len(queue') = Len(queue) - 1
      /\ \A i \in 1..Len(queue') : queue'[i] = queue[i + 1] /\ i + 1 \in 1..Len(queue)
  BY <1>1 DEF IInv, Shape, TypeOK
<1>3. Queued = Queued' \cup {Head(queue)} /\ Head(queue) \in Case
  <2>1. \A i \in 1..Len(queue) : i = 1 \/ i - 1 \in 1..Len(queue')
    BY <1>2
  <2>2. QED
    BY <1>1, <1>2, <2>1 DEF Queued
<1>4. Head(queue) \notin Queued'
  BY <1>2 DEF IInv, CollectedOnce, Queued
<1>5. HandlerPlaced' /\ QueuePlaced' /\ WorkerPlaced'
  BY <1>1, <1>2 DEF IInv, HandlerPlaced, QueuePlaced, WorkerPlaced, BeforeAnalysis, c0
<1>6. CollectedOnce'
  <2>1. \A i, j \in 1..Len(queue') : queue'[i] = queue'[j] => i = j
    BY <1>2 DEF IInv, CollectedOnce
  <2>2. QED
    BY <1>1, <1>3, <1>4, <2>1 DEF IInv, CollectedOnce
<1>7. PutNeverFails'
  BY <1>1, <1>2, ConstantsAssumption DEF IInv, PutNeverFails
<1>8. NoOrphan'
  <2>1. worker.case \notin Case
    BY <1>1, ConstantsAssumption DEF IInv, Shape, Assigned
  <2>2. QED
    BY <1>1, <1>3, <2>1 DEF IInv, NoOrphan, Owned
<1>9. DraftCurrent' /\ ReportMatchesRecord'
  BY <1>1, RecordAlone DEF IInv, DraftCurrent
<1>10. QED
  BY <1>5, <1>6, <1>7, <1>8, <1>9 DEF IInv

(* The worker lets go of an investigation: it is finished, or a fault is   *)
(* on record.                                                              *)
LEMMA LetGoIInv == ASSUME IInv, Shape', Leave \/ FailRaises PROVE IInv'
<1>1. /\ worker'.pc = "idle" /\ worker'.case = NoCase
      /\ UNCHANGED <<status, reports, evidence, queue, handler, up>>
      /\ \/ worker.pc = "leave" /\ faults' = faults
         \/ faults' = faults + 1
  BY DEF Leave, FailRaises, Fault, Idle
<1>2. HandlerPlaced' /\ QueuePlaced' /\ WorkerPlaced'
  BY <1>1 DEF IInv, HandlerPlaced, QueuePlaced, WorkerPlaced, BeforeAnalysis
<1>3. CollectedOnce' /\ PutNeverFails'
  BY <1>1, ConstantsAssumption DEF IInv, CollectedOnce, PutNeverFails, Queued, Shape, Assigned
<1>4. NoOrphan'
  <2>1. worker.pc = "leave" => status[worker.case] \notin Unfinished
    BY DEF IInv, WorkerPlaced, c0, Finished, Unfinished
  <2>2. faults \in Nat
    BY DEF IInv, Shape, TypeOK
  <2>3. CASE faults' = faults + 1
    BY <2>2, <2>3 DEF NoOrphan
  <2>4. CASE worker.pc = "leave" /\ faults' = faults
    BY <1>1, <2>1, <2>4 DEF IInv, NoOrphan, Owned, Queued
  <2>5. QED
    BY <1>1, <2>3, <2>4
<1>5. DraftCurrent' /\ ReportMatchesRecord'
  BY <1>1, RecordAlone DEF IInv, DraftCurrent
<1>6. QED
  BY <1>2, <1>3, <1>4, <1>5 DEF IInv

LEMMA NextIInv == IInv /\ [Next]_vars => IInv'
<1> SUFFICES ASSUME IInv, [Next]_vars PROVE IInv'
  OBVIOUS
<1>1. Shape'
  BY NextShape DEF IInv
<1>2. CASE Start \/ ProcessEnds
  BY <1>1, <1>2, StartIInv, ProcessEndsIInv
<1>3. CASE \E c \in Case : CreateCase(c) \/ CollectCheck(c)
  BY <1>1, <1>3, CreateCaseIInv, CollectCheckIInv
<1>4. CASE CollectCommit \/ CollectRaises \/ CollectEnqueue
  BY <1>1, <1>4, CollectCommitIInv, CollectRaisesIInv, CollectEnqueueIInv
<1>5. CASE \/ Stop \/ ClearHistory \/ WorkerPoll \/ WorkerEmpty \/ CollectAudit
           \/ CollectRegister \/ (\E c \in Case : Cancel(c)) \/ UNCHANGED vars
  BY <1>1, <1>5, SideSteps
<1>6. CASE \/ RecordProgram \/ Gate \/ BeginStep \/ Observe \/ StoreRejected
           \/ RecordDevice \/ NextStep \/ PersistAnalysis \/ Decide \/ Recover
           \/ StageRaises
  BY <1>1, <1>6, WorkerSteps
<1>7. CASE WorkerTake \/ StoreStep \/ Leave \/ FailRaises
  BY <1>1, <1>7, WorkerTakeIInv, StoreStepIInv, LetGoIInv
<1>8. CASE Analyze \/ Finalizing \/ Finish \/ Fail
  BY <1>1, <1>8, AnalyzeFinalizingIInv, CommitIInv
<1>9. QED
  BY <1>2, <1>3, <1>4, <1>5, <1>6, <1>7, <1>8
  DEF Next, CollectHandler, WorkerLoop, Collecting

LEMMA Invariant == Spec => []IInv
  BY InitIInv, NextIInv, PTL DEF Spec

(* Without a fault, the hand-over from the request to the queue to the     *)
(* worker to the final commit loses no investigation.                      *)
THEOREM NothingOrphaned == Spec => []NoOrphan
  BY Invariant, PTL DEF IInv

(* The put that follows the fullness check always finds room.              *)
THEOREM QueueBounded == Spec => []PutNeverFails
  BY Invariant, PTL DEF IInv

(* No investigation is in two places of the hand-over, or twice in one.    *)
THEOREM HandedOverOnce == Spec => []CollectedOnce
  BY Invariant, PTL DEF IInv

(* Exactly the finished investigations have a report, and it is true to    *)
(* the status and to the evidence stored.                                  *)
THEOREM OneTrueReport == Spec => []ReportMatchesRecord
  BY Invariant, PTL DEF IInv

-----------------------------------------------------------------------------
(* The durable record moves along the promised life cycle                  *)

LEMMA LifeDefs ==
  /\ Life!Finished = Finished /\ Life!Unfinished = Unfinished
  /\ Life!Report = Report
  /\ \A c, s : Life!Move(c, s) <=> Move(c, s)
  BY DEF Life!Finished, Finished, Life!Unfinished, Unfinished, Life!Report, Report,
         Life!Move, Move

LEMMA LifeInit == Init => Life!Init
  BY DEF Init, Life!Init

(* The steps that leave the record alone.                                  *)
LEMMA RecordUnchanged ==
  ASSUME \/ Stop \/ ProcessEnds \/ CollectRaises \/ ClearHistory \/ FailRaises
         \/ CollectRegister \/ CollectAudit \/ CollectEnqueue \/ WorkerPoll
         \/ WorkerEmpty \/ WorkerTake \/ RecordProgram \/ Gate \/ BeginStep
         \/ Observe \/ StoreStep \/ StoreRejected \/ RecordDevice \/ NextStep
         \/ PersistAnalysis \/ Decide \/ Recover \/ StageRaises \/ Leave
         \/ (\E c \in Case : CollectCheck(c) \/ Cancel(c)) \/ UNCHANGED vars
  PROVE  UNCHANGED <<status, history, reports>>
  BY DEF Stop, ProcessEnds, CollectRaises, ClearHistory, FailRaises, CollectRegister,
         CollectAudit, CollectEnqueue, WorkerPoll, WorkerEmpty, WorkerTake, RecordProgram,
         Gate, BeginStep, Observe, StoreStep, StoreRejected, RecordDevice, NextStep, ContinueIf,
         PersistAnalysis, Decide, Recover, StageRaises, Leave, CollectCheck, Admit, Cancel, vars

LEMMA LifeNext == IInv /\ [Next]_vars => [Life!Next]_Life!vars
<1> SUFFICES ASSUME IInv, [Next]_vars PROVE [Life!Next]_Life!vars
  OBVIOUS
<1>1. CASE Start
  <2>1. Life!Interrupt
    BY <1>1 DEF Start, InterruptExecutions, InterruptInvestigations, InterruptFrom, Life!Interrupt, Life!Unfinished, Unfinished
  <2>2. QED
    BY <2>1 DEF Life!Next
<1>2. ASSUME NEW c \in Case, CreateCase(c) PROVE Life!Next
  <2>1. Life!Advance(c, "absent", "created")
    BY <1>2, LifeDefs DEF CreateCase, Life!Advance
  <2>2. QED
    BY <2>1 DEF Life!Next
<1>3. CASE CollectCommit
  <2>1. handler.case \in Case /\ status[handler.case] = "created"
    BY <1>3, HandlerHasCase DEF CollectCommit, IInv, HandlerPlaced
  <2>2. Life!Advance(handler.case, "created", "collecting")
    BY <1>3, <2>1, LifeDefs DEF CollectCommit, Life!Advance
  <2>3. QED
    BY <2>1, <2>2 DEF Life!Next
<1>4. CASE Analyze
  <2>1. c0 \in Case /\ status[c0] = "collecting"
    BY <1>4, WorkerHasCase DEF Analyze, IInv, WorkerPlaced, BeforeAnalysis
  <2>2. Life!Advance(c0, "collecting", "analyzing")
    BY <1>4, <2>1, LifeDefs DEF Analyze, Life!Advance
  <2>3. QED
    BY <2>1, <2>2 DEF Life!Next
<1>5. CASE Finalizing
  <2>1. c0 \in Case /\ status[c0] = "analyzing"
    BY <1>5, WorkerHasCase DEF Finalizing, IInv, WorkerPlaced
  <2>2. Life!Advance(c0, "analyzing", "finalizing")
    BY <1>5, <2>1, LifeDefs DEF Finalizing, Life!Advance
  <2>3. QED
    BY <2>1, <2>2 DEF Life!Next
<1>6. CASE Finish \/ Fail
  <2>1. /\ c0 \in Case /\ worker.draft \in Report
        /\ Move(c0, worker.draft.status)
        /\ reports' = [reports EXCEPT ![c0] = Append(@, worker.draft)]
    BY <1>6, WorkerHasCase DEF Finish, Fail, Commit, IInv, Shape, TypeOK, Worker
  <2>2. worker.draft.status \in Life!MayEnd(status[c0])
    BY <1>6, <2>1
    DEF Finish, Fail, Commit, IInv, WorkerPlaced, DraftCurrent, Life!MayEnd, Life!Finished,
        Report, Finished, Unfinished
  <2>3. Life!Finish(c0, worker.draft)
    BY <2>1, <2>2, LifeDefs DEF Life!Finish
  <2>4. QED
    BY <2>1, <2>3, LifeDefs DEF Life!Next
<1>7. CASE UNCHANGED <<status, history, reports>>
  BY <1>7 DEF Life!vars
<1>8. QED
  BY <1>1, <1>2, <1>3, <1>4, <1>5, <1>6, <1>7, RecordUnchanged
  DEF Next, CollectHandler, WorkerLoop, Collecting

(* Threads, queue and restarts implement the life cycle of Lifecycle.tla.  *)
THEOREM Implements == Spec => ImplementsLifecycle
<1>1. Spec => Life!Init /\ [][Life!Next]_Life!vars
  BY Invariant, LifeInit, LifeNext, PTL DEF Spec
<1>2. QED
  BY <1>1 DEF ImplementsLifecycle, Life!Spec

(* Status, transitions, report and evidence of a terminal investigation    *)
(* never change again.                                                     *)
LEMMA EvidenceKept ==
  ASSUME IInv, [Next]_vars, NEW c \in Case, status[c] \in Terminal
  PROVE  evidence'[c] = evidence[c]
<1>1. CASE StoreStep
  <2>1. c # c0
    BY <1>1 DEF StoreStep, IInv, WorkerPlaced, BeforeAnalysis, Terminal, Finished
  <2>2. QED
    BY <1>1, <2>1 DEF StoreStep, IInv, Shape, TypeOK
<1>2. CASE UNCHANGED evidence
  BY <1>2
<1>3. QED
  BY <1>1, <1>2
  DEF Next, CollectHandler, WorkerLoop, Collecting, vars, Start, Stop, ProcessEnds, CreateCase,
      CollectCheck, Admit, Cancel, CollectCommit, CollectRegister, CollectAudit, CollectEnqueue,
      CollectRaises, ClearHistory, WorkerPoll, WorkerEmpty, WorkerTake, RecordProgram, Gate,
      BeginStep, Observe, StoreRejected, RecordDevice, NextStep, ContinueIf, Analyze, PersistAnalysis,
      Finalizing, Decide, Finish, Fail, Commit, Recover, StageRaises, FailRaises, Leave

LEMMA TerminalStep ==
  ASSUME IInv, [Next]_vars, NEW c \in Case, status[c] \in Terminal
  PROVE  status'[c] = status[c] /\ history'[c] = history[c] /\ reports'[c] = reports[c]
<1> USE DEF Terminal, Finished, Unfinished
<1>1. CASE Life!Interrupt
  BY <1>1 DEF Life!Interrupt, Life!Unfinished
<1>2. ASSUME NEW d \in Case, NEW from \in Unfinished \cup {"absent", "created"}, NEW to,
             Life!Advance(d, from, to)
      PROVE  status'[c] = status[c] /\ history'[c] = history[c] /\ reports'[c] = reports[c]
  <2>1. c # d
    BY <1>2 DEF Life!Advance
  <2>2. QED
    BY <1>2, <2>1 DEF Life!Advance, Life!Move, IInv, Shape, TypeOK
<1>3. ASSUME NEW d \in Case, NEW r \in Report, Life!Finish(d, r)
      PROVE  status'[c] = status[c] /\ history'[c] = history[c] /\ reports'[c] = reports[c]
  <2>1. c # d
    BY <1>3 DEF Life!Finish, Life!MayEnd
  <2>2. QED
    BY <1>3, <2>1 DEF Life!Finish, Life!Move, IInv, Shape, TypeOK
<1>4. CASE UNCHANGED <<status, history, reports>>
  BY <1>4
<1>5. QED
  BY <1>1, <1>2, <1>3, <1>4, LifeNext, LifeDefs DEF Life!Next, Life!vars

THEOREM TerminalForGood == Spec => TerminalIsFinal
<1>1. IInv /\ [Next]_vars =>
         [\A c \in Case : status[c] \in Terminal =>
             /\ status'[c] = status[c]
             /\ history'[c] = history[c]
             /\ reports'[c] = reports[c]
             /\ evidence'[c] = evidence[c]]_vars
  BY TerminalStep, EvidenceKept
<1>2. QED
  BY Invariant, <1>1, PTL DEF Spec, TerminalIsFinal

(* What is submitted is in one place at a time and never in none (collect, *)
(* _work).                                                                 *)
THEOREM HandOver == Spec => []HandedOver
  BY NothingOrphaned, QueueBounded, HandedOverOnce, PTL DEF HandedOver
-----------------------------------------------------------------------------
(* The verdict and the evidence.  Until a worker takes an investigation it *)
(* has no evidence and no late step.                                       *)
Blank(c) == late[c] = 0 /\ \A s \in Step : evidence[c][s] = "none"
Pending(c) == status[c] \in {"absent", "created"} \/ c \in Queued \cup {handler.case}
NotBegun == \A c \in Case : Pending(c) => Blank(c)

(* Until the verdict, the evidence rows are those of the steps done, and   *)
(* the two accumulators say what they hold.                                *)
Attempting == BeforeAnalysis \cup {"persist", "finalizing", "decide"}
Done == IF worker.pc \in {"program", "gate", "begin", "observe", "store"}
        THEN worker.step - 1 ELSE worker.step

Accumulated ==
    worker.pc \in Attempting =>
        /\ \A s \in Step : evidence[c0][s] # "none" <=> s <= Done
        /\ worker.failures <=> \E s \in Step : evidence[c0][s] = "failed"
        /\ worker.incomplete <=> \E s \in Step : CountsIncomplete(c0, s, evidence[c0][s])

(* What is cut short was cancelled, and is still.                          *)
CutShort ==
    /\ worker.pc \in Attempting => \A s \in Step : evidence[c0][s] = "cancelled" => Cancelled
    /\ worker.pc = "store" /\ worker.outcome = "cancelled" => Cancelled
    /\ worker.pc \in {"analyze", "persist", "finalizing", "decide"} =>
          worker.step = Steps \/ Cancelled
    /\ worker.pc \in {"program", "gate"} => worker.step = 1

(* What a status claims of the evidence, and that the draft of a report    *)
(* can claim it already.                                                   *)
Supports(c, row, st) ==
    /\ st = "completed" =>
          \A s \in Step : row[s] = "complete" \/ (s > Baseline[c] /\ row[s] = "truncated")
    /\ st = "partially_completed" =>
          /\ \A s \in Step : row[s] \notin {"none", "cancelled"}
          /\ \E s \in Step : \/ row[s] \in {"failed", "incomplete"}
                             \/ s <= Baseline[c] /\ row[s] = "truncated"
DraftSupported == worker.pc = "finish" => Supports(c0, evidence[c0], worker.draft.status)

(* No step begins late but the one whose check had passed.                 *)
LateCounted ==
    /\ worker.pc \in {"program", "gate", "begin"} => late[c0] = 0
    /\ worker.pc \in {"observe", "store", "device", "next"} /\ late[c0] # 0 => Cancelled

WorkTrue == Accumulated /\ CutShort /\ DraftSupported /\ LateCounted
RecordTrue == NotBegun /\ VerdictMatchesEvidence /\ CancelBetweenSteps
VInv == IInv /\ RecordTrue /\ WorkTrue

LEMMA VerdictSupported == VerdictMatchesEvidence <=> \A c \in Case : Supports(c, evidence[c], status[c])
  BY DEF VerdictMatchesEvidence, Supports

LEMMA InitVInv == Init => VInv
<1> SUFFICES ASSUME Init PROVE VInv
  OBVIOUS
<1>1. RecordTrue
  BY DEF Init, RecordTrue, NotBegun, Blank, VerdictMatchesEvidence, CancelBetweenSteps
<1>2. WorkTrue
  BY DEF Init, Idle, WorkTrue, Attempting, BeforeAnalysis, Accumulated, CutShort,
         DraftSupported, LateCounted
<1>3. QED
  BY <1>1, <1>2, InitIInv DEF VInv

(* A worker without an investigation, or on its way out, claims nothing.   *)
LEMMA NothingClaimed ==
  ASSUME worker'.pc \in {"idle", "waiting", "recover", "fail", "leave"}
  PROVE  WorkTrue'
  BY DEF WorkTrue, Attempting, BeforeAnalysis, Accumulated, CutShort, DraftSupported, LateCounted

(* Steps that store no evidence and begin none.                            *)
LEMMA RecordStays ==
  ASSUME VInv, UNCHANGED <<evidence, late>>,
         \A c \in Case : Pending(c)' => Pending(c),
         \A c \in Case : status'[c] # status[c] =>
             status'[c] \notin {"completed", "partially_completed"}
  PROVE  RecordTrue'
<1>1. NotBegun' /\ CancelBetweenSteps'
  BY DEF VInv, RecordTrue, NotBegun, Blank, CancelBetweenSteps
<1>2. VerdictMatchesEvidence'
  BY DEF VInv, RecordTrue, VerdictMatchesEvidence
<1>3. QED
  BY <1>1, <1>2 DEF RecordTrue

(* Nothing but the worker itself disturbs what is true of its work: nobody *)
(* takes a cancel back.                                                    *)
LEMMA WorkStays ==
  ASSUME VInv, UNCHANGED <<evidence, late, worker>>,
         c0 \in Case => (Cancelled => Cancelled')
  PROVE  WorkTrue'
<1>1. CASE worker.pc \in {"idle", "waiting"}
  BY <1>1, NothingClaimed
<1>2. CASE worker.pc \notin {"idle", "waiting"}
  <2>1. c0 \in Case
    BY <1>2, WorkerHasCase DEF VInv, IInv
  <2>2. QED
    BY <2>1 DEF VInv, WorkTrue, Accumulated, CutShort, DraftSupported, LateCounted, Done, c0
<1>3. QED
  BY <1>1, <1>2

(* The request that registers an event is not for the investigation the    *)
(* worker has.                                                             *)
LEMMA OthersVInv ==
  ASSUME VInv, IInv', IInv, Shape,
         \/ Start \/ Stop \/ ClearHistory \/ CollectCommit \/ CollectRegister
         \/ CollectAudit \/ CollectEnqueue \/ CollectRaises
         \/ (\E c \in Case : CreateCase(c) \/ CollectCheck(c) \/ Cancel(c))
         \/ UNCHANGED vars
  PROVE  VInv'
<1>1. UNCHANGED <<evidence, late, worker>>
  BY DEF Start, Stop, ClearHistory, CollectCommit, CollectRegister, CollectAudit,
         CollectEnqueue, CollectRaises, CreateCase, CollectCheck, Admit, Cancel, vars
<1>2. c0 \in Case => (Cancelled => Cancelled')
  <2> SUFFICES ASSUME c0 \in Case PROVE Cancelled => Cancelled'
    OBVIOUS
  <2>1. CASE Stop
    BY <2>1, <1>1 DEF Stop, Cancelled, c0
  <2>2. CASE CollectRegister
    <3>1. handler.case # c0
      BY <2>2, HandlerHasCase DEF CollectRegister, IInv, CollectedOnce, c0
    <3>2. QED
      BY <2>2, <3>1, <1>1 DEF CollectRegister, Cancelled, Shape, TypeOK, c0
  <2>3. ASSUME NEW c \in Case, Cancel(c) PROVE Cancelled => Cancelled'
    BY <2>3, <1>1 DEF Cancel, Cancelled, Shape, TypeOK, c0
  <2>4. CASE event' = event
    BY <2>4, <1>1 DEF Cancelled, c0
  <2>5. QED
    BY <2>1, <2>2, <2>3, <2>4
    DEF Start, ClearHistory, CollectCommit, CollectAudit, CollectEnqueue, CollectRaises,
        CreateCase, CollectCheck, Admit, vars
<1>3. \A c \in Case : Pending(c)' => Pending(c)
  <2> USE DEF Pending
  <2>1. CASE Start
    BY <2>1 DEF Start, InterruptInvestigations, InterruptFrom, Queued
  <2>2. CASE CollectCommit
    BY <2>2, HandlerHasCase
    DEF CollectCommit, Move, Shape, TypeOK, Handler, Queued
  <2>3. CASE CollectEnqueue
    <3>1. Queued' = Queued \cup {handler.case}
      <4>1. /\ handler.case \in Case /\ queue' = Append(queue, handler.case)
            /\ queue \in Seq(Case)
        BY <2>3, HandlerHasCase DEF CollectEnqueue, Shape, TypeOK
      <4>2. /\ Len(queue') = Len(queue) + 1 /\ queue'[Len(queue) + 1] = handler.case
            /\ \A i \in 1..Len(queue) : queue'[i] = queue[i]
        BY <4>1
      <4>3. QED
        BY <4>1, <4>2 DEF Queued
    <3>2. handler'.case \notin Case /\ status' = status
      BY <2>3, ConstantsAssumption DEF CollectEnqueue, NoHandler
    <3>3. QED
      BY <3>1, <3>2
  <2>4. CASE CollectRaises
    BY <2>4, ConstantsAssumption DEF CollectRaises, NoHandler, Queued
  <2>5. ASSUME NEW d \in Case, CreateCase(d) PROVE \A c \in Case : Pending(c)' => Pending(c)
    BY <2>5 DEF CreateCase, Move, Shape, TypeOK, Queued
  <2>6. ASSUME NEW d \in Case, CollectCheck(d) PROVE \A c \in Case : Pending(c)' => Pending(c)
    BY <2>6 DEF CollectCheck, Admit, Queued
  <2>7. CASE CollectRegister \/ CollectAudit
    BY <2>7 DEF CollectRegister, CollectAudit, Shape, TypeOK, Handler, Queued
  <2>8. CASE UNCHANGED <<status, queue, handler>>
    BY <2>8 DEF Queued
  <2>9. QED
    BY <2>1, <2>2, <2>3, <2>4, <2>5, <2>6, <2>7, <2>8
    DEF Stop, ClearHistory, Cancel, vars
<1>4. \A c \in Case : status'[c] # status[c] => status'[c] \notin {"completed", "partially_completed"}
  BY HandlerHasCase
  DEF Start, InterruptInvestigations, InterruptFrom, CollectCommit, CreateCase, Move, Stop, ClearHistory,
      CollectRegister, CollectAudit, CollectEnqueue, CollectRaises, CollectCheck, Admit, Cancel,
      vars, Shape, TypeOK
<1>5. QED
  BY <1>1, <1>2, <1>3, <1>4, RecordStays, WorkStays DEF VInv

LEMMA WorkerTakeVInv == ASSUME VInv, IInv, Shape, IInv', WorkerTake PROVE VInv'
<1>1. /\ worker'.pc = "program" /\ worker'.case = Head(queue) /\ worker'.step = 1
      /\ ~worker'.failures /\ ~worker'.incomplete
      /\ queue # <<>> /\ queue' = Tail(queue)
      /\ UNCHANGED <<status, handler, evidence, late>>
  BY DEF WorkerTake, Idle
<1>2. queue \in Seq(Case) /\ Head(queue) = queue[1] /\ 1 \in 1..Len(queue)
  BY <1>1 DEF Shape, TypeOK
<1>3. Head(queue) \in Queued /\ Head(queue) \in Case
  BY <1>2 DEF Queued
<1>4. Blank(Head(queue))
  BY <1>3 DEF VInv, RecordTrue, NotBegun, Pending
<1>5. \A c \in Case : Pending(c)' => Pending(c)
  <2>1. Queued' \subseteq Queued
    <3>1. /\ Len(queue') = Len(queue) - 1
          /\ \A i \in 1..Len(queue') : queue'[i] = queue[i + 1] /\ i + 1 \in 1..Len(queue)
      BY <1>1, <1>2
    <3>2. QED
      BY <3>1 DEF Queued
  <2>2. QED
    BY <1>1, <2>1 DEF Pending
<1>6. WorkTrue'
  <2>1. c0' = Head(queue) /\ Done' = 0
    BY <1>1 DEF c0, Done
  <2>2. \A s \in Step : evidence'[c0'][s] = "none" /\ ~(s <= 0)
    BY <1>1, <1>4, <2>1 DEF Blank, Step
  <2>3. Accumulated'
    BY <1>1, <2>1, <2>2 DEF Accumulated, CountsIncomplete
  <2>4. CutShort' /\ DraftSupported' /\ LateCounted'
    BY <1>1, <1>4, <2>1, <2>2 DEF Blank, CutShort, DraftSupported, LateCounted
  <2>5. QED
    BY <2>3, <2>4 DEF WorkTrue
<1>7. QED
  BY <1>1, <1>5, <1>6, RecordStays DEF VInv

(* What a step of the worker leaves alone.                                 *)
LEMMA WorkerLeavesOthers ==
  ASSUME VInv, UNCHANGED <<queue, handler, evidence, late>>,
         \A c \in Case : status'[c] # status[c] => c = c0
                         /\ status'[c] \notin {"absent", "created"}
  PROVE  \A c \in Case : Pending(c)' => Pending(c)
  BY DEF Pending, Queued

(* The steps that neither observe, decide nor commit.                      *)
LEMMA PassVInv ==
  ASSUME VInv, IInv, Shape, IInv',
         \/ RecordProgram \/ RecordDevice \/ Analyze \/ PersistAnalysis \/ Finalizing
  PROVE  VInv'
<1>1. /\ UNCHANGED <<queue, handler, evidence, late, event>>
      /\ worker \in Worker /\ c0 \in Case
      /\ \/ worker.pc = "program" /\ worker' = [worker EXCEPT !.pc = "gate"]
         \/ worker.pc = "device" /\ worker' = [worker EXCEPT !.pc = "next"]
         \/ worker.pc = "analyze" /\ worker' = [worker EXCEPT !.pc = "persist"]
         \/ worker.pc = "persist" /\ worker' = [worker EXCEPT !.pc = "finalizing"]
         \/ worker.pc = "finalizing" /\ worker' = [worker EXCEPT !.pc = "decide"]
  BY WorkerHasCase
  DEF RecordProgram, RecordDevice, Analyze, PersistAnalysis, Finalizing, Goto, Shape, TypeOK
<1>2. \/ status' = status
      \/ status' = [status EXCEPT ![c0] = "analyzing"]
      \/ status' = [status EXCEPT ![c0] = "finalizing"]
  BY DEF RecordProgram, RecordDevice, Analyze, PersistAnalysis, Finalizing, Move
<1>3. RecordTrue'
  BY <1>1, <1>2, WorkerLeavesOthers, RecordStays DEF Shape, TypeOK
<1>4. c0' = c0 /\ (Cancelled' <=> Cancelled) /\ Done' = Done
  BY <1>1 DEF c0, Cancelled, Done, Worker
<1>5. WorkTrue'
  BY <1>1, <1>4
  DEF VInv, WorkTrue, Accumulated, CutShort, DraftSupported, LateCounted, Attempting,
      BeforeAnalysis, Worker
<1>6. QED
  BY <1>3, <1>5 DEF VInv

LEMMA GateVInv == ASSUME VInv, IInv, Shape, IInv', Gate PROVE VInv'
<1>1. /\ UNCHANGED <<status, queue, handler, evidence, late, event>>
      /\ worker \in Worker /\ worker.pc = "gate"
  BY DEF Gate, Shape, TypeOK
<1>2. RecordTrue'
  BY <1>1, WorkerLeavesOthers, RecordStays
<1>3. CASE Cancelled
  <2>1. worker'.pc = "finish" /\ worker'.draft.status = "cancelled"
    <3>1. worker' = [worker EXCEPT !.pc = "finish",
                        !.draft = [status |-> "cancelled", evidence |-> Collected(c0)]]
      BY <1>3 DEF Gate
    <3>2. QED
      BY <1>1, <3>1 DEF Worker
  <2>2. WorkTrue'
    BY <2>1 DEF WorkTrue, Accumulated, CutShort, DraftSupported, Supports, LateCounted,
                Attempting, BeforeAnalysis
  <2>3. QED
    BY <1>2, <2>2 DEF VInv
<1>4. CASE ~Cancelled
  <2>1. worker' = [worker EXCEPT !.pc = "begin"]
    BY <1>4 DEF Gate, Goto
  <2>2. c0' = c0 /\ (Cancelled' <=> Cancelled) /\ Done' = Done
    BY <1>1, <2>1 DEF c0, Cancelled, Done, Worker
  <2>3. WorkTrue'
    BY <1>1, <2>1, <2>2
    DEF VInv, WorkTrue, Accumulated, CutShort, DraftSupported, LateCounted, Attempting,
        BeforeAnalysis, Worker
  <2>4. QED
    BY <1>2, <2>3 DEF VInv
<1>5. QED
  BY <1>3, <1>4

(* The one step that may count as late.                                    *)
LEMMA BeginStepVInv == ASSUME VInv, IInv, Shape, IInv', BeginStep PROVE VInv'
<1>1. /\ UNCHANGED <<status, queue, handler, evidence, event>>
      /\ worker \in Worker /\ c0 \in Case /\ worker.pc = "begin"
      /\ worker' = [worker EXCEPT !.pc = "observe"]
  BY WorkerHasCase DEF BeginStep, Goto, Shape, TypeOK
<1>2. c0' = c0 /\ (Cancelled' <=> Cancelled) /\ Done' = Done
  BY <1>1 DEF c0, Cancelled, Done, Worker
<1>3. /\ late[c0] = 0
      /\ late' = [late EXCEPT ![c0] = IF Cancelled THEN 1 ELSE 0]
  <2>1. late[c0] = 0
    BY <1>1 DEF VInv, WorkTrue, LateCounted
  <2>2. QED
    BY <2>1 DEF BeginStep
<1>4. ~Pending(c0)
  BY <1>1 DEF IInv, Pending, CollectedOnce, WorkerPlaced, BeforeAnalysis, c0
<1>5. NotBegun' /\ CancelBetweenSteps'
  BY <1>1, <1>3, <1>4
  DEF VInv, RecordTrue, NotBegun, Pending, Queued, Blank, CancelBetweenSteps, Shape, TypeOK
<1>6. VerdictMatchesEvidence'
  BY <1>1 DEF VInv, RecordTrue, VerdictMatchesEvidence
<1>7. LateCounted'
  BY <1>1, <1>2, <1>3 DEF LateCounted, Worker, Shape, TypeOK
<1>8. Accumulated' /\ CutShort' /\ DraftSupported'
  BY <1>1, <1>2
  DEF VInv, WorkTrue, Accumulated, CutShort, DraftSupported, Attempting, BeforeAnalysis, Worker
<1>9. QED
  BY <1>5, <1>6, <1>7, <1>8 DEF VInv, RecordTrue, WorkTrue

LEMMA ObserveVInv == ASSUME VInv, IInv, Shape, IInv', Observe PROVE VInv'
<1>1. /\ UNCHANGED <<status, queue, handler, evidence, late, event>>
      /\ worker \in Worker /\ worker.pc = "observe"
  BY DEF Observe, Shape, TypeOK
<1>2. PICK o \in Outcome :
         /\ o = "cancelled" => Cancelled
         /\ worker' = [worker EXCEPT !.pc = "store", !.outcome = o]
  BY DEF Observe
<1>3. c0' = c0 /\ (Cancelled' <=> Cancelled) /\ Done' = Done
  BY <1>1, <1>2 DEF c0, Cancelled, Done, Worker
<1>4. RecordTrue'
  BY <1>1, WorkerLeavesOthers, RecordStays
<1>5. WorkTrue'
  BY <1>1, <1>2, <1>3
  DEF VInv, WorkTrue, Accumulated, CutShort, DraftSupported, LateCounted, Attempting,
      BeforeAnalysis, Worker
<1>6. QED
  BY <1>4, <1>5 DEF VInv

(* The evidence row and the accumulators are stored together.              *)
LEMMA StoreStepVInv == ASSUME VInv, IInv, Shape, IInv', StoreStep PROVE VInv'
<1> DEFINE k == worker.step
           o == worker.outcome
<1>1. /\ UNCHANGED <<status, queue, handler, late, event>>
      /\ worker \in Worker /\ c0 \in Case /\ worker.pc = "store"
      /\ k \in Step /\ o \in Outcome
      /\ evidence' = [evidence EXCEPT ![c0][k] = o]
      /\ worker'.pc \in {"device", "next"}
      /\ worker'.case = worker.case /\ worker'.step = k
      /\ worker'.failures = (worker.failures \/ o = "failed")
      /\ worker'.incomplete = (worker.incomplete \/ CountsIncomplete(c0, k, o))
  BY WorkerHasCase DEF StoreStep, Shape, TypeOK, Worker
<1>2. c0' = c0 /\ (Cancelled' <=> Cancelled)
  BY <1>1 DEF c0, Cancelled
<1>3. /\ evidence'[c0][k] = o
      /\ \A s \in Step \ {k} : evidence'[c0][s] = evidence[c0][s]
      /\ \A c \in Case \ {c0} : evidence'[c] = evidence[c]
  BY <1>1 DEF Shape, TypeOK
<1>4. ~Pending(c0) /\ status[c0] = "collecting"
  BY <1>1 DEF IInv, Pending, CollectedOnce, WorkerPlaced, BeforeAnalysis, c0
<1>5. RecordTrue'
  <2>1. NotBegun' /\ CancelBetweenSteps'
    BY <1>1, <1>3, <1>4 DEF VInv, RecordTrue, NotBegun, Pending, Queued, Blank, CancelBetweenSteps
  <2>2. VerdictMatchesEvidence'
    BY <1>1, <1>3, <1>4 DEF VInv, RecordTrue, VerdictMatchesEvidence
  <2>3. QED
    BY <2>1, <2>2 DEF RecordTrue
<1>6. Done = k - 1 /\ Done' = k
  BY <1>1 DEF Done
<1>7. Accumulated'
  <2>1. /\ \A s \in Step : evidence[c0][s] # "none" <=> s <= k - 1
        /\ worker.failures <=> \E s \in Step : evidence[c0][s] = "failed"
        /\ worker.incomplete <=> \E s \in Step : CountsIncomplete(c0, s, evidence[c0][s])
    BY <1>1, <1>6 DEF VInv, WorkTrue, Accumulated, Attempting, BeforeAnalysis
  <2>2. evidence[c0][k] = "none"
    BY <1>1, <2>1 DEF Step
  <2>3. \A s \in Step : evidence'[c0][s] # "none" <=> s <= k
    <3> TAKE s \in Step
    <3>1. CASE s = k
      BY <1>1, <1>3, <3>1 DEF Outcome, Step
    <3>2. CASE s # k
      <4>1. s <= k - 1 <=> s <= k
        BY <1>1, <3>2 DEF Step
      <4>2. QED
        BY <1>3, <2>1, <3>2, <4>1
    <3>3. QED
      BY <3>1, <3>2
  <2>4. worker'.failures <=> \E s \in Step : evidence'[c0][s] = "failed"
    <3>1. (\E s \in Step : evidence'[c0][s] = "failed") <=>
             (o = "failed" \/ \E s \in Step : evidence[c0][s] = "failed")
      BY <1>1, <1>3, <2>2
    <3>2. QED
      BY <1>1, <2>1, <3>1, Zenon
  <2>5. worker'.incomplete <=> \E s \in Step : CountsIncomplete(c0, s, evidence'[c0][s])
    <3>1. (\E s \in Step : CountsIncomplete(c0, s, evidence'[c0][s])) <=>
             (CountsIncomplete(c0, k, o) \/ \E s \in Step : CountsIncomplete(c0, s, evidence[c0][s]))
      BY <1>1, <1>3, <2>2 DEF CountsIncomplete
    <3>2. QED
      BY <1>1, <2>1, <3>1, Zenon
  <2>6. QED
    BY <1>2, <1>6, <2>3, <2>4, <2>5 DEF Accumulated
<1>8. CutShort' /\ DraftSupported' /\ LateCounted'
  BY <1>1, <1>2, <1>3
  DEF VInv, WorkTrue, CutShort, DraftSupported, LateCounted, Attempting, BeforeAnalysis
<1>9. QED
  BY <1>5, <1>7, <1>8 DEF VInv, WorkTrue

LEMMA NextStepVInv == ASSUME VInv, IInv, Shape, IInv', NextStep PROVE VInv'
<1>1. /\ UNCHANGED <<status, queue, handler, evidence, late, event>>
      /\ worker \in Worker /\ worker.pc = "next" /\ worker.step \in 1..Steps
  BY DEF NextStep, ContinueIf, Shape, TypeOK, Worker, Step
<1>2. RecordTrue'
  BY <1>1, WorkerLeavesOthers, RecordStays
<1>3. CASE worker.step < Steps /\ ~Cancelled
  <2>1. /\ worker'.pc = "begin" /\ worker'.case = worker.case
        /\ worker'.step = worker.step + 1
        /\ worker'.failures = worker.failures /\ worker'.incomplete = worker.incomplete
    BY <1>1, <1>3 DEF NextStep, ContinueIf, Worker
  <2>2. c0' = c0 /\ (Cancelled' <=> Cancelled) /\ Done' = Done
    BY <1>1, <2>1 DEF c0, Cancelled, Done
  <2>3. late[c0] = 0
    BY <1>1, <1>3 DEF VInv, WorkTrue, LateCounted
  <2>4. WorkTrue'
    BY <1>1, <2>1, <2>2, <2>3
    DEF VInv, WorkTrue, Accumulated, CutShort, DraftSupported, LateCounted, Attempting,
        BeforeAnalysis
  <2>5. QED
    BY <1>2, <2>4 DEF VInv
<1>4. CASE ~(worker.step < Steps /\ ~Cancelled)
  <2>1. worker' = [worker EXCEPT !.pc = "analyze"]
    BY <1>4 DEF NextStep, ContinueIf, Goto
  <2>2. c0' = c0 /\ (Cancelled' <=> Cancelled) /\ Done' = Done
    BY <1>1, <2>1 DEF c0, Cancelled, Done, Worker
  <2>3. worker.step = Steps \/ Cancelled
    BY <1>1, <1>4, ConstantsAssumption
  <2>4. WorkTrue'
    BY <1>1, <2>1, <2>2, <2>3
    DEF VInv, WorkTrue, Accumulated, CutShort, DraftSupported, LateCounted, Attempting,
        BeforeAnalysis, Worker
  <2>5. QED
    BY <1>2, <2>4 DEF VInv
<1>5. QED
  BY <1>3, <1>4

(* The verdict: without a cancel every step was attempted and none cut     *)
(* short, and the accumulators tell the rest.                              *)
LEMMA DecideVInv == ASSUME VInv, IInv, Shape, IInv', Decide PROVE VInv'
<1>1. /\ UNCHANGED <<status, queue, handler, evidence, late, event>>
      /\ worker \in Worker /\ worker.pc = "decide" /\ c0 \in Case
      /\ worker'.pc = "finish" /\ worker'.case = worker.case
      /\ worker'.draft.status = Verdict
  BY WorkerHasCase DEF Decide, Shape, TypeOK, Worker
<1>2. RecordTrue'
  BY <1>1, WorkerLeavesOthers, RecordStays
<1>3. Supports(c0, evidence[c0], Verdict)
  <2>1. CASE Cancelled
    BY <2>1 DEF Verdict, Supports
  <2>2. CASE ~Cancelled
    <3>1. worker.step = Steps /\ Done = Steps
      BY <1>1, <2>2 DEF VInv, WorkTrue, CutShort, Done
    <3>2. \A s \in Step : evidence[c0][s] \notin {"none", "cancelled"}
      BY <1>1, <2>2, <3>1, ConstantsAssumption
      DEF VInv, WorkTrue, CutShort, Accumulated, Attempting, Step
    <3>3. \A s \in Step : evidence[c0][s] \in {"complete", "failed", "incomplete", "truncated"}
      BY <1>1, <3>2 DEF Shape, TypeOK, Outcome
    <3>4. /\ worker.failures <=> \E s \in Step : evidence[c0][s] = "failed"
          /\ worker.incomplete <=> \E s \in Step : CountsIncomplete(c0, s, evidence[c0][s])
      BY <1>1 DEF VInv, WorkTrue, Accumulated, Attempting
    <3>5. \A s \in Step : ~CountsIncomplete(c0, s, evidence[c0][s]) =>
             evidence[c0][s] \in {"complete", "failed"} \/ (s > Baseline[c0] /\ evidence[c0][s] = "truncated")
      <4>1. Baseline[c0] \in Nat /\ \A s \in Step : s \in Nat
        BY <1>1, ConstantsAssumption DEF Step
      <4>2. QED
        BY <3>3, <4>1 DEF CountsIncomplete
    <3>6. QED
      BY <2>2, <3>2, <3>3, <3>4, <3>5 DEF Verdict, Supports, CountsIncomplete
  <2>3. QED
    BY <2>1, <2>2
<1>4. WorkTrue'
  BY <1>1, <1>3
  DEF WorkTrue, Accumulated, CutShort, DraftSupported, LateCounted, Attempting, BeforeAnalysis, c0
<1>5. QED
  BY <1>2, <1>4 DEF VInv

LEMMA CommitVInv == ASSUME VInv, IInv, Shape, IInv', Finish \/ Fail PROVE VInv'
<1>1. /\ UNCHANGED <<queue, handler, evidence, late>>
      /\ worker \in Worker /\ c0 \in Case
      /\ worker.pc \in {"finish", "fail"} /\ worker'.pc = "leave"
      /\ status' = [status EXCEPT ![c0] = worker.draft.status]
  BY WorkerHasCase DEF Finish, Fail, Commit, Goto, Move, Shape, TypeOK, Worker
<1>2. worker.draft.status \in Finished
  BY <1>1 DEF Worker, Report
<1>3. Supports(c0, evidence[c0], worker.draft.status)
  BY <1>1 DEF VInv, WorkTrue, DraftSupported, IInv, DraftCurrent, Supports
<1>4. VerdictMatchesEvidence'
  <2>1. \A c \in Case : Supports(c, evidence[c], status[c])
    BY VerdictSupported DEF VInv, RecordTrue
  <2>2. \A c \in Case : Supports(c, evidence'[c], status'[c])
    BY <1>1, <1>3, <2>1 DEF Shape, TypeOK
  <2>3. QED
    BY <2>2 DEF Supports, VerdictMatchesEvidence
<1>5. \A c \in Case : Pending(c)' => Pending(c)
  BY <1>1, <1>2 DEF Pending, Queued, Shape, TypeOK, Finished
<1>6. NotBegun' /\ CancelBetweenSteps'
  BY <1>1, <1>5 DEF VInv, RecordTrue, NotBegun, Blank, CancelBetweenSteps
<1>7. QED
  BY <1>1, <1>4, <1>6, NothingClaimed DEF VInv, RecordTrue

(* The worker polls, fails, or lets go.                                    *)
LEMMA LetGoVInv ==
  ASSUME VInv, IInv, Shape, IInv',
         \/ WorkerPoll \/ WorkerEmpty \/ StoreRejected \/ Recover \/ Leave
         \/ StageRaises \/ FailRaises \/ ProcessEnds
  PROVE  VInv'
<1>1. /\ UNCHANGED <<status, evidence, late>>
      /\ worker'.pc \in {"idle", "waiting", "recover", "fail", "leave"}
  <2>1. CASE WorkerPoll \/ WorkerEmpty \/ StoreRejected \/ StageRaises
    BY <2>1 DEF WorkerPoll, WorkerEmpty, StoreRejected, StageRaises, Goto, Shape, TypeOK, Worker
  <2>2. CASE Recover
    BY <2>2 DEF Recover, Shape, TypeOK, Worker
  <2>3. CASE Leave \/ FailRaises \/ ProcessEnds
    BY <2>3 DEF Leave, FailRaises, ProcessEnds, Idle
  <2>4. QED
    BY <2>1, <2>2, <2>3
<1>2. \A c \in Case : Pending(c)' => Pending(c)
  <2>1. CASE ProcessEnds
    BY <2>1, ConstantsAssumption DEF ProcessEnds, NoHandler, Pending, Queued
  <2>2. CASE UNCHANGED <<queue, handler>>
    BY <1>1, <2>2 DEF Pending, Queued
  <2>3. QED
    BY <2>1, <2>2
    DEF WorkerPoll, WorkerEmpty, StoreRejected, Recover, Leave, StageRaises, FailRaises
<1>3. QED
  BY <1>1, <1>2, RecordStays, NothingClaimed DEF VInv

LEMMA NextVInv == VInv /\ [Next]_vars => VInv'
<1> SUFFICES ASSUME VInv, [Next]_vars PROVE VInv'
  OBVIOUS
<1>1. IInv /\ Shape /\ IInv'
  BY NextIInv DEF VInv, IInv
<1>2. CASE \/ Start \/ Stop \/ ClearHistory \/ CollectCommit \/ CollectRegister
           \/ CollectAudit \/ CollectEnqueue \/ CollectRaises
           \/ (\E c \in Case : CreateCase(c) \/ CollectCheck(c) \/ Cancel(c))
           \/ UNCHANGED vars
  BY <1>1, <1>2, OthersVInv
<1>3. CASE RecordProgram \/ RecordDevice \/ Analyze \/ PersistAnalysis \/ Finalizing
  BY <1>1, <1>3, PassVInv
<1>4. CASE WorkerTake \/ Gate \/ BeginStep \/ Observe
  BY <1>1, <1>4, WorkerTakeVInv, GateVInv, BeginStepVInv, ObserveVInv
<1>5. CASE StoreStep \/ NextStep \/ Decide \/ Finish \/ Fail
  BY <1>1, <1>5, StoreStepVInv, NextStepVInv, DecideVInv, CommitVInv
<1>6. CASE \/ WorkerPoll \/ WorkerEmpty \/ StoreRejected \/ Recover \/ Leave
           \/ StageRaises \/ FailRaises \/ ProcessEnds
  BY <1>1, <1>6, LetGoVInv
<1>7. QED
  BY <1>2, <1>3, <1>4, <1>5, <1>6 DEF Next, CollectHandler, WorkerLoop, Collecting

LEMMA VInvariant == Spec => []VInv
  BY InitVInv, NextVInv, PTL DEF Spec

(* A verdict never claims more than the evidence rows show, whatever is    *)
(* cancelled, cleared, interrupted or failing meanwhile, but for a result  *)
(* past the baseline that was truncated and does not say so (_collect).    *)
THEOREM VerdictTrue == Spec => []VerdictMatchesEvidence
  BY VInvariant, PTL DEF VInv, RecordTrue

(* Once cancelled, a collection begins at most the one step whose check    *)
(* had passed (cancel, _collect).                                          *)
THEOREM CancelHonoured == Spec => []CancelBetweenSteps
  BY VInvariant, PTL DEF VInv, RecordTrue

-----------------------------------------------------------------------------
(* The job log and the way out through failure.  Without a fault a running *)
(* execution is the one the worker is in.                                  *)
LEMMA ExecutionsPlaced == ASSUME Shape, NoStrayExecution, [Next]_vars PROVE NoStrayExecution'
<1> SUFFICES ASSUME up' # "down", faults' = 0, NEW c \in Case, NEW s \in Step,
                    execs'[c][s] = "running"
             PROVE  worker'.case = c /\ worker'.step = s /\ worker'.pc \in {"observe", "store"}
  BY DEF NoStrayExecution
<1> USE DEF Shape, TypeOK
<1>1. CASE Start
  BY <1>1 DEF Start, InterruptExecutions
<1>2. CASE BeginStep
  <2>1. /\ worker.pc = "begin" /\ worker' = [worker EXCEPT !.pc = "observe"]
        /\ execs' = [execs EXCEPT ![c0][worker.step] = "running"]
        /\ up' = up /\ faults' = faults
    BY <1>2 DEF BeginStep, Goto
  <2>2. execs[c][s] # "running"
    BY <2>1 DEF NoStrayExecution
  <2>3. c = c0 /\ s = worker.step
    BY <2>1, <2>2
  <2>4. QED
    BY <2>1, <2>3 DEF c0, Worker
<1>3. CASE StoreStep
  <2>1. /\ execs' = [execs EXCEPT ![c0][worker.step] = worker.outcome]
        /\ worker.outcome # "running" /\ up' = up /\ faults' = faults
    BY <1>3 DEF StoreStep, Worker, Outcome
  <2>2. execs[c][s] = "running" /\ ~(c = c0 /\ s = worker.step)
    BY <2>1
  <2>3. QED
    BY <2>1, <2>2 DEF NoStrayExecution, c0
<1>4. CASE ClearHistory
  BY <1>4 DEF ClearHistory
<1>5. CASE Observe
  <2>1. /\ worker'.pc = "store" /\ worker'.case = worker.case /\ worker'.step = worker.step
        /\ UNCHANGED <<execs, up, faults>>
    BY <1>5 DEF Observe, Worker
  <2>2. QED
    BY <2>1 DEF NoStrayExecution
<1>6. CASE StoreRejected
  <2>1. worker.pc = "store" /\ execs[c0][worker.step] = "none" /\ UNCHANGED <<execs, up, faults>>
    BY <1>6 DEF StoreRejected
  <2>2. QED
    BY <2>1 DEF NoStrayExecution, c0
<1>7. CASE CollectRaises \/ StageRaises \/ FailRaises
  BY <1>7 DEF CollectRaises, StageRaises, FailRaises, Fault
<1>8. CASE ProcessEnds
  BY <1>8 DEF ProcessEnds
<1>9. CASE /\ UNCHANGED <<execs, faults>> /\ (up' = up \/ up # "down")
           /\ (worker' = worker \/ worker.pc \notin {"observe", "store"})
  BY <1>9 DEF NoStrayExecution
<1>10. QED
  BY <1>1, <1>2, <1>3, <1>4, <1>5, <1>6, <1>7, <1>8, <1>9
  DEF Next, CollectHandler, WorkerLoop, Collecting, vars, Stop, CreateCase, CollectCheck, Admit,
      Cancel, CollectCommit, CollectRegister, CollectAudit, CollectEnqueue, WorkerPoll,
      WorkerEmpty, WorkerTake, RecordProgram, Gate, RecordDevice, NextStep, ContinueIf, Analyze,
      PersistAnalysis, Finalizing, Decide, Finish, Fail, Commit, Recover, Leave

(* The job log shows no work nobody does, as long as no transaction raised *)
(* (_step, __init__, clear_history).                                       *)
THEOREM NoExecutionStrays == Spec => []NoStrayExecution
<1>1. Init => NoStrayExecution
  BY DEF Init, NoStrayExecution
<1>2. Shape /\ NoStrayExecution /\ [Next]_vars => NoStrayExecution'
  BY ExecutionsPlaced
<1>3. QED
  BY <1>1, <1>2, InitShape, NextShape, PTL DEF Spec

(* Without clearings the row of the step being done is there when its      *)
(* evidence is stored, so that without a fault nothing leads to failure.   *)
NoWayToFail ==
    (~Clearing /\ faults = 0) =>
        /\ worker.pc \notin {"recover", "fail"}
        /\ worker.pc = "finish" => worker.draft.status # "failed"
        /\ worker.pc \in {"observe", "store"} => execs[c0][worker.step] # "none"
        /\ \A c \in Case : status[c] # "failed"

LEMMA NoFailureStep == ASSUME Shape, NoWayToFail, [Next]_vars PROVE NoWayToFail'
<1> SUFFICES ASSUME ~Clearing, faults' = 0
             PROVE  /\ worker'.pc \notin {"recover", "fail"}
                    /\ worker'.pc = "finish" => worker'.draft.status # "failed"
                    /\ worker'.pc \in {"observe", "store"} => execs'[c0'][worker'.step] # "none"
                    /\ \A c \in Case : status'[c] # "failed"
  BY DEF NoWayToFail
<1> USE DEF Shape, TypeOK
<1>1. CASE CollectRaises \/ StageRaises \/ FailRaises
  BY <1>1 DEF CollectRaises, StageRaises, FailRaises, Fault
<1>2. faults = 0 \/ CollectRaises \/ StageRaises \/ FailRaises
  BY DEF Next, CollectHandler, WorkerLoop, Collecting, vars, Start, Stop, ProcessEnds, CreateCase,
      CollectCheck, Admit, Cancel, CollectCommit, CollectRegister, CollectAudit, CollectEnqueue,
      ClearHistory, WorkerPoll, WorkerEmpty, WorkerTake, RecordProgram, Gate, BeginStep, Observe,
      StoreStep, StoreRejected, RecordDevice, NextStep, ContinueIf, Analyze, PersistAnalysis,
      Finalizing, Decide, Finish, Fail, Commit, Recover, Leave
<1>3. CASE faults = 0
  <2>1. /\ worker.pc \notin {"recover", "fail"}
        /\ worker.pc = "finish" => worker.draft.status # "failed"
        /\ worker.pc \in {"observe", "store"} => execs[c0][worker.step] # "none"
        /\ \A c \in Case : status[c] # "failed"
    BY <1>3 DEF NoWayToFail
  <2>2. CASE Start
    <3>1. worker' = worker /\ worker.pc = "idle"
      BY <2>2 DEF Start, Assigned
    <3>2. \A c \in Case : status'[c] # "failed"
      BY <2>1, <2>2 DEF Start, InterruptInvestigations, InterruptFrom
    <3>3. QED
      BY <3>1, <3>2
  <2>3. CASE ProcessEnds \/ WorkerTake \/ Leave
    <3>1. worker'.pc \in {"idle", "program"} /\ status' = status
      <4>1. CASE ProcessEnds \/ Leave
        BY <4>1 DEF ProcessEnds, Leave, Idle
      <4>2. CASE WorkerTake
        BY <4>2 DEF WorkerTake, Idle
      <4>3. QED
        BY <2>3, <4>1, <4>2
    <3>2. QED
      BY <2>1, <3>1
  <2>4. CASE CollectCommit \/ Analyze \/ Finalizing \/ (\E c \in Case : CreateCase(c))
    <3>1. \A c \in Case : status'[c] # "failed"
      BY <2>1, <2>4 DEF CollectCommit, Analyze, Finalizing, CreateCase, Move
    <3>2. \/ worker' = worker /\ execs' = execs
          \/ worker'.pc \in {"persist", "decide"}
      BY <2>4 DEF CollectCommit, Analyze, Finalizing, CreateCase, Goto, Worker
    <3>3. QED
      BY <2>1, <3>1, <3>2 DEF c0
  <2>5. CASE ClearHistory
    BY <2>5 DEF ClearHistory
  <2>6. CASE \/ Stop \/ CollectRegister \/ CollectAudit \/ CollectEnqueue
             \/ (\E c \in Case : CollectCheck(c) \/ Cancel(c)) \/ UNCHANGED vars
    BY <2>1, <2>6
    DEF Stop, CollectRegister, CollectAudit, CollectEnqueue, CollectCheck, Admit, Cancel, vars, c0
  <2>7. CASE WorkerPoll \/ WorkerEmpty \/ RecordProgram \/ RecordDevice \/ PersistAnalysis
    BY <2>1, <2>7
    DEF WorkerPoll, WorkerEmpty, RecordProgram, RecordDevice, PersistAnalysis, Goto, Worker
  <2>8. CASE Gate \/ NextStep
    <3>1. /\ status' = status /\ worker'.pc \in {"begin", "analyze", "finish"}
          /\ worker'.pc = "finish" => worker'.draft.status = "cancelled"
      <4>1. CASE Gate
        <5>1. CASE Cancelled
          <6>1. worker' = [worker EXCEPT !.pc = "finish",
                              !.draft = [status |-> "cancelled", evidence |-> Collected(c0)]]
            BY <4>1, <5>1 DEF Gate
          <6>2. QED
            BY <4>1, <6>1 DEF Gate, Worker
        <5>2. CASE ~Cancelled
          BY <4>1, <5>2 DEF Gate, Goto, Worker
        <5>3. QED
          BY <5>1, <5>2
      <4>2. CASE NextStep
        BY <4>2 DEF NextStep, ContinueIf, Goto, Worker
      <4>3. QED
        BY <2>8, <4>1, <4>2
    <3>2. QED
      BY <2>1, <3>1
  <2>9. CASE BeginStep
    <3>1. /\ worker' = [worker EXCEPT !.pc = "observe"] /\ status' = status /\ c0 \in Case
          /\ execs' = [execs EXCEPT ![c0][worker.step] = "running"]
      BY <2>9, WorkerHasCase DEF BeginStep, Goto
    <3>2. c0' = c0 /\ worker'.pc = "observe" /\ worker'.step = worker.step /\ worker.step \in Step
      BY <3>1 DEF c0, Worker
    <3>3. execs'[c0][worker.step] = "running"
      BY <3>1, <3>2
    <3>4. QED
      BY <2>1, <3>1, <3>2, <3>3
  <2>10. CASE Observe
    <3>1. /\ worker'.pc = "store" /\ worker'.case = worker.case /\ worker'.step = worker.step
          /\ UNCHANGED <<execs, status>> /\ worker.pc = "observe"
      BY <2>10 DEF Observe, Worker
    <3>2. QED
      BY <2>1, <3>1 DEF c0
  <2>11. CASE StoreStep
    BY <2>1, <2>11 DEF StoreStep, Worker
  <2>12. CASE StoreRejected \/ Recover \/ Fail
    BY <2>1, <2>12 DEF StoreRejected, Recover, Fail, Commit
  <2>13. CASE Decide
    <3>1. Verdict # "failed"
      BY DEF Verdict
    <3>2. QED
      BY <2>1, <2>13, <3>1 DEF Decide, Worker
  <2>14. CASE Finish
    BY <2>1, <2>14 DEF Finish, Commit, Move, Goto, Worker
  <2>15. QED
    BY <1>1, <2>2, <2>3, <2>4, <2>5, <2>6, <2>7, <2>8, <2>9, <2>10, <2>11, <2>12, <2>13, <2>14
    DEF Next, CollectHandler, WorkerLoop, Collecting
<1>4. QED
  BY <1>1, <1>2, <1>3

(* One failing collector degrades a collection and never fails it, however *)
(* many fail - provided the operator does not clear the job log meanwhile: *)
(* with clearings it is refuted (_step, clear_history).                    *)
THEOREM CollectorsDegrade ==
  ASSUME ~Clearing PROVE Spec => []CollectorNeverFailsCollection
<1>1. Init => NoWayToFail
  BY DEF Init, Idle, NoWayToFail
<1>2. Shape /\ NoWayToFail /\ [Next]_vars => NoWayToFail'
  BY NoFailureStep
<1>3. NoWayToFail => CollectorNeverFailsCollection
  BY DEF NoWayToFail, CollectorNeverFailsCollection
<1>4. QED
  BY <1>1, <1>2, <1>3, InitShape, NextShape, PTL DEF Spec
=============================================================================
