------------------------------- MODULE Fleet -------------------------------
(***************************************************************************)
(* The control plane of backend/fleet.py for enrolled endpoints: dispatch, *)
(* claim, result, sweep, heartbeat and revocation, as the HTTP threads of  *)
(* the server interleave them.  A handler reads rows on one connection and *)
(* writes later in a transaction of another, so a request in flight is a   *)
(* record of what its thread has read; each action is one read or one      *)
(* transaction.  Timestamps appear only as what the code compares them     *)
(* for: whether a queued task is due and a dispatched one overdue.         *)
(***************************************************************************)
EXTENDS Naturals, FiniteSets

CONSTANTS
    Endpoint,       \* enrolled endpoints
    Task,           \* identifiers a dispatch may draw for its tasks
    Thread,         \* threads of the HTTP server
    None,           \* the endpoint and task of an idle thread
    MaxAttempts,    \* MAX_ATTEMPTS, 3 in the code
    MaxQueued,      \* MAX_QUEUED_PER_ENDPOINT, 64 in the code
    Batch           \* the limit a claim asks for, at most 16

ASSUME FleetAssumption ==
    /\ None \notin Endpoint \cup Task
    /\ IsFiniteSet(Task)
    /\ MaxAttempts \in Nat \ {0}
    /\ MaxQueued \in Nat \ {0}
    /\ Batch \in Nat \ {0}

VARIABLES
    estatus,    \* endpoints.status
    task,       \* the rows of endpoint_tasks
    thread      \* the request each server thread is working on

vars == <<estatus, task, thread>>

EndpointStatus == {"enrolled", "active", "revoked"}
Open   == {"queued", "dispatched"}
Closed == {"succeeded", "abandoned"}

(* result is the attempt whose collection the stored result holds, 0 when  *)
(* none is stored; error is what the stored error speaks of.               *)
TaskRow == [status : {"absent"} \cup Open \cup Closed,
            ep : Endpoint \cup {None}, attempts : Nat, due : BOOLEAN,
            overdue : BOOLEAN, result : Nat,
            error : {"none", "collector", "silent", "revoked"}]

Absent == [status |-> "absent", ep |-> None, attempts |-> 0, due |-> FALSE,
           overdue |-> FALSE, result |-> 0, error |-> "none"]

(* A request between two of its steps: "beat", "claim" and "result" have   *)
(* passed authenticate; "outcome" has read its task, "sweep" its rows.     *)
Request == [op : {"idle", "beat", "claim", "result", "outcome", "sweep"},
            ep : Endpoint \cup {None}, task : Task \cup {None}, run : Nat,
            ok : BOOLEAN, attempts : Nat, stranded : SUBSET Task,
            spent : SUBSET Task]

NoRequest == [op |-> "idle", ep |-> None, task |-> None, run |-> 0,
              ok |-> FALSE, attempts |-> 0, stranded |-> {}, spent |-> {}]

Init ==
    /\ estatus = [e \in Endpoint |-> "enrolled"]
    /\ task = [t \in Task |-> Absent]
    /\ thread = [w \in Thread |-> NoRequest]

Outstanding(e) == {t \in Task : task[t].ep = e /\ task[t].status \in Open}

Is(w, op) == thread[w].op = op
Done(w) == thread' = [thread EXCEPT ![w] = NoRequest]

-----------------------------------------------------------------------------
(* Requests of the operator: the first two are a single transaction on a   *)
(* free thread                                                             *)

(* Mutant: the quota is compared before the new tasks are counted.         *)
HasRoomBefore(e, n) == Cardinality(Outstanding(e)) <= MaxQueued
HasRoom(e, n) == Cardinality(Outstanding(e)) + n <= MaxQueued

(* dispatch_plan queues the same number of tasks on every named endpoint,  *)
(* or nothing at all when one of them is revoked or has too many.          *)
Dispatch(w, new) ==
    /\ Is(w, "idle")
    /\ DOMAIN new # {}
    /\ \A e \in DOMAIN new :
          /\ estatus[e] # "revoked"
          /\ new[e] # {}
          /\ HasRoom(e, Cardinality(new[e]))
          /\ \A t \in new[e] : task[t].status = "absent"
          /\ \A f \in DOMAIN new \ {e} :
                /\ new[e] \cap new[f] = {}
                /\ Cardinality(new[e]) = Cardinality(new[f])
    /\ task' = [t \in Task |->
          IF \E e \in DOMAIN new : t \in new[e]
          THEN [Absent EXCEPT !.status = "queued", !.due = TRUE,
                   !.ep = CHOOSE e \in DOMAIN new : t \in new[e]]
          ELSE task[t]]
    /\ UNCHANGED <<estatus, thread>>

(* Mutant: tasks that are already closed are abandoned too.                *)
RevokeEverything(w, e) ==
    /\ Is(w, "idle")
    /\ estatus' = [estatus EXCEPT ![e] = "revoked"]
    /\ task' = [t \in Task |->
          IF task[t].ep = e
          THEN [task[t] EXCEPT !.status = "abandoned", !.error = "revoked"]
          ELSE task[t]]
    /\ UNCHANGED thread

Revoke(w, e) ==
    /\ Is(w, "idle")
    /\ estatus' = [estatus EXCEPT ![e] = "revoked"]
    /\ task' = [t \in Task |->
          IF t \in Outstanding(e)
          THEN [task[t] EXCEPT !.status = "abandoned", !.error = "revoked"]
          ELSE task[t]]
    /\ UNCHANGED thread

(* sweep reads the dispatched rows, then opens its transaction.            *)
ReadSweep(w) ==
    /\ Is(w, "idle")
    /\ LET stranded == {t \in Task : task[t].status = "dispatched" /\ task[t].overdue}
       IN  thread' = [thread EXCEPT ![w] = [NoRequest EXCEPT
              !.op = "sweep", !.stranded = stranded,
              !.spent = {t \in stranded : task[t].attempts >= MaxAttempts}]]
    /\ UNCHANGED <<estatus, task>>

(* Mutant: only what has no attempt left is dealt with.                    *)
SweepSpent(w) ==
    /\ Is(w, "sweep")
    /\ task' = [t \in Task |->
          IF t \in thread[w].spent
          THEN [task[t] EXCEPT !.status = "abandoned", !.error = "silent"]
          ELSE task[t]]
    /\ Done(w)
    /\ UNCHANGED estatus

(* It updates by identifier: the status is not looked at again.            *)
Sweep(w) ==
    /\ Is(w, "sweep")
    /\ task' = [t \in Task |->
          IF t \notin thread[w].stranded THEN task[t]
          ELSE IF t \in thread[w].spent
          THEN [task[t] EXCEPT !.status = "abandoned", !.error = "silent"]
          ELSE [task[t] EXCEPT !.status = "queued", !.due = FALSE]]
    /\ Done(w)
    /\ UNCHANGED estatus

-----------------------------------------------------------------------------
(* Requests of an endpoint: authenticate, then the handler                 *)

(* Mutant: the status of the endpoint is not checked.                      *)
AuthenticateAnyone(w, e, request) ==
    /\ Is(w, "idle")
    /\ thread' = [thread EXCEPT ![w] = request]
    /\ UNCHANGED <<estatus, task>>

Authenticate(w, e, request) ==
    /\ Is(w, "idle")
    /\ estatus[e] # "revoked"
    /\ thread' = [thread EXCEPT ![w] = request]
    /\ UNCHANGED <<estatus, task>>

ArriveHeartbeat(w, e) ==
    Authenticate(w, e, [NoRequest EXCEPT !.op = "beat", !.ep = e])

(* heartbeat writes status active whatever the row says by now.            *)
Heartbeat(w) ==
    /\ Is(w, "beat")
    /\ estatus' = [estatus EXCEPT ![thread[w].ep] = "active"]
    /\ Done(w)
    /\ UNCHANGED task

ArriveClaim(w, e) ==
    Authenticate(w, e, [NoRequest EXCEPT !.op = "claim", !.ep = e])

(* Mutant: whosoever's the task is.                                        *)
DueToAnyone(e) == {t \in Task : task[t].status = "queued" /\ task[t].due}
Due(e) == {t \in Task : /\ task[t].ep = e
                        /\ task[t].status = "queued"
                        /\ task[t].due}

Hands(w, S) ==
    /\ S \subseteq Due(thread[w].ep)
    /\ \/ Cardinality(S) = Batch
       \/ Cardinality(S) < Batch /\ S = Due(thread[w].ep)

(* claim_tasks selects and marks in one transaction.                       *)
Claim(w) ==
    /\ Is(w, "claim")
    /\ \E S \in SUBSET Task :
          /\ Hands(w, S)
          /\ task' = [t \in Task |->
                IF t \in S
                THEN [task[t] EXCEPT !.status = "dispatched", !.overdue = FALSE,
                                     !.attempts = @ + 1]
                ELSE task[t]]
    /\ Done(w)
    /\ UNCHANGED estatus

(* The endpoint reports on a task of its own that it was handed, with a    *)
(* result or with an error, never both; run is the attempt it collected    *)
(* for, which may not be the latest.                                       *)
ArriveResult(w, e, t, run, ok) ==
    /\ task[t].ep = e
    /\ run \in 1..task[t].attempts
    /\ Authenticate(w, e, [NoRequest EXCEPT !.op = "result", !.ep = e,
                              !.task = t, !.run = run, !.ok = ok])

(* Mutant: a result is taken whatever the status of its task.              *)
ReadAnyResult(w) ==
    /\ Is(w, "result")
    /\ thread' = [thread EXCEPT ![w].op = "outcome",
                                ![w].attempts = task[thread[w].task].attempts]
    /\ UNCHANGED <<estatus, task>>

(* submit_result reads the row; a closed task is answered with a conflict. *)
ReadResult(w) ==
    /\ Is(w, "result")
    /\ LET row == task[thread[w].task]
       IN  IF row.status \in Closed
           THEN Done(w)
           ELSE thread' = [thread EXCEPT ![w].op = "outcome",
                                         ![w].attempts = row.attempts]
    /\ UNCHANGED <<estatus, task>>

(* Mutants: a status nothing else knows; one attempt too many.             *)
OutcomeFailed(r) == IF r.ok THEN "succeeded" ELSE "failed"
OutcomeOnceMore(r) ==
    IF r.ok THEN "succeeded"
    ELSE IF r.attempts > MaxAttempts THEN "abandoned" ELSE "queued"

(* What the row becomes is decided from what was read.                     *)
Outcome(r) ==
    IF r.ok THEN "succeeded"
    ELSE IF r.attempts >= MaxAttempts THEN "abandoned" ELSE "queued"

(* Mutants: an earlier error stays beside a result; a failed collection    *)
(* stores its result.                                                      *)
ReportedOverError(row, r) ==
    [row EXCEPT !.status = Outcome(r),
                !.result = IF r.ok THEN r.run ELSE 0,
                !.error  = IF r.ok THEN @ ELSE "collector",
                !.due    = IF Outcome(r) = "queued" THEN FALSE ELSE @]
ReportedAnyway(row, r) ==
    [row EXCEPT !.status = Outcome(r),
                !.result = r.run,
                !.error  = IF r.ok THEN "none" ELSE "collector",
                !.due    = IF Outcome(r) = "queued" THEN FALSE ELSE @]

Reported(row, r) ==
    [row EXCEPT !.status = Outcome(r),
                !.result = IF r.ok THEN r.run ELSE 0,
                !.error  = IF r.ok THEN "none" ELSE "collector",
                !.due    = IF Outcome(r) = "queued" THEN FALSE ELSE @]

Result(w) ==
    /\ Is(w, "outcome")
    /\ task' = [task EXCEPT ![thread[w].task] = Reported(@, thread[w])]
    /\ Done(w)
    /\ UNCHANGED estatus

(* The transaction raises, or the process ends with the request in hand.   *)
RequestFails(w) ==
    /\ ~Is(w, "idle")
    /\ Done(w)
    /\ UNCHANGED <<estatus, task>>

-----------------------------------------------------------------------------
(* Time                                                                    *)

(* RETRY_DELAYS have passed since the task was put back.                   *)
BackoffElapses(t) ==
    /\ task[t].status = "queued"
    /\ ~task[t].due
    /\ task' = [task EXCEPT ![t].due = TRUE]
    /\ UNCHANGED <<estatus, thread>>

(* STALE_AFTER_SECONDS have passed since the task was handed out.          *)
TaskAges(t) ==
    /\ task[t].status = "dispatched"
    /\ ~task[t].overdue
    /\ task' = [task EXCEPT ![t].overdue = TRUE]
    /\ UNCHANGED <<estatus, thread>>

-----------------------------------------------------------------------------
Operator ==
    \E w \in Thread :
        \/ \E E \in SUBSET Endpoint : \E new \in [E -> SUBSET Task] : Dispatch(w, new)
        \/ \E e \in Endpoint : Revoke(w, e)
        \/ ReadSweep(w)

Arrival ==
    \E w \in Thread, e \in Endpoint :
        \/ ArriveHeartbeat(w, e)
        \/ ArriveClaim(w, e)
        \/ \E t \in Task, ok \in BOOLEAN : \E run \in 1..task[t].attempts :
              ArriveResult(w, e, t, run, ok)

Handler ==
    \E w \in Thread :
        Sweep(w) \/ Heartbeat(w) \/ Claim(w) \/ ReadResult(w) \/ Result(w)

Time == \E t \in Task : BackoffElapses(t) \/ TaskAges(t)

Next == Operator \/ Arrival \/ Handler \/ Time \/ \E w \in Thread : RequestFails(w)

Spec == Init /\ [][Next]_vars

-----------------------------------------------------------------------------
(* Properties of the server with any number of threads                     *)

(* Every variable has the shape the code gives it.                         *)
TypeOK ==
    /\ estatus \in [Endpoint -> EndpointStatus]
    /\ task \in [Task -> TaskRow]
    /\ thread \in [Thread -> Request]

(* A closed task tells the investigator why, whatever was written over     *)
(* what: a succeeded one holds a result and no error, an abandoned one     *)
(* its last error (submit_result, revoke, sweep).                          *)
ClosedIsExplained ==
    \A t \in Task :
        /\ task[t].status = "succeeded" => task[t].result # 0 /\ task[t].error = "none"
        /\ task[t].status = "abandoned" => task[t].error # "none"

(* The only way back from revocation is a heartbeat that had passed        *)
(* authenticate before: with none in flight, a revoked endpoint stays      *)
(* revoked and no heartbeat of it comes into flight again.                 *)
BeatInFlight(e) == \E w \in Thread : Is(w, "beat") /\ thread[w].ep = e
RevokedStays ==
    [][\A e \in Endpoint :
          (estatus[e] = "revoked" /\ ~BeatInFlight(e)) =>
              (estatus[e] = "revoked" /\ ~BeatInFlight(e))']_vars

(* The only way back from a closed task is a request that had read the     *)
(* row while it was open: with none in flight, the row, its result         *)
(* included, never changes again and no request can get hold of it.        *)
Holds(w, t) ==
    \/ Is(w, "outcome") /\ thread[w].task = t
    \/ Is(w, "sweep") /\ t \in thread[w].stranded
ClosedStays ==
    [][\A t \in Task :
          (task[t].status \in Closed /\ \A w \in Thread : ~Holds(w, t)) =>
              /\ task'[t] = task[t]
              /\ (\A w \in Thread : ~Holds(w, t))']_vars

(* Revocation and closure are undone by nothing but the requests that were *)
(* past their read when it happened (heartbeat, submit_result, sweep).     *)
FinalUnlessInFlight == RevokedStays /\ ClosedStays

(* The queue of an endpoint is as documented: no more outstanding than     *)
(* MAX_QUEUED_PER_ENDPOINT and nothing for a revoked endpoint, no task     *)
(* handed out more than MAX_ATTEMPTS times nor waiting to be.              *)
Within(e) ==
    /\ Cardinality(Outstanding(e)) <= MaxQueued
    /\ estatus[e] = "revoked" => Outstanding(e) = {}
    /\ \A t \in Task : task[t].ep = e =>
          /\ task[t].attempts <= MaxAttempts
          /\ task[t].status = "queued" => task[t].attempts < MaxAttempts

(* A request about to put a task back on the queue that is no longer open, *)
(* or was handed out again, since the request read it; of what sweep read  *)
(* it remembers only which tasks had an attempt left.                      *)
Overtaken(w, t) ==
    \/ /\ Is(w, "outcome") /\ thread[w].task = t /\ ~thread[w].ok
       /\ task[t].status \notin Open \/ task[t].attempts > thread[w].attempts
    \/ /\ Is(w, "sweep") /\ t \in thread[w].stranded \ thread[w].spent
       /\ task[t].status \notin Open \/ task[t].attempts >= MaxAttempts

(* Dispatch, claim, revocation and the other threads' requests keep an     *)
(* endpoint's queue within its bounds in whatever order they interleave;   *)
(* the one step that takes it out of them is the end of a request whose    *)
(* reading of a task was overtaken (submit_result, sweep).                 *)
BoundsUnlessOvertaken ==
    [][\A e \in Endpoint : Within(e) =>
          \/ Within(e)'
          \/ \E w \in Thread, t \in Task :
                task[t].ep = e /\ Overtaken(w, t) /\ Is(w, "idle")']_vars

=============================================================================
