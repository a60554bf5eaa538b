---------------------------- MODULE FleetProofs ----------------------------
(***************************************************************************)
(* What the control plane guarantees for every set of endpoints, tasks and *)
(* server threads; then what holds when the requests come from the agents  *)
(* of FleetAgent.                                                          *)
(***************************************************************************)
EXTENDS FleetAgent, FiniteSetTheorems, TLAPS

(* A row of endpoint_tasks whose named columns are overwritten stays one.  *)
LEMMA RowType ==
  ASSUME NEW r \in TaskRow, NEW s \in {"queued", "dispatched", "succeeded", "abandoned"},
         NEW n \in Nat, NEW d \in BOOLEAN, NEW o \in BOOLEAN, NEW k \in Nat,
         NEW x \in {"none", "collector", "silent", "revoked"}
  PROVE  /\ [r EXCEPT !.status = s, !.error = x] \in TaskRow
         /\ [r EXCEPT !.status = s, !.due = d] \in TaskRow
         /\ [r EXCEPT !.status = s, !.overdue = o, !.attempts = n] \in TaskRow
         /\ [r EXCEPT !.status = s, !.result = k, !.error = x, !.due = d] \in TaskRow
         /\ [r EXCEPT !.due = d] \in TaskRow
         /\ [r EXCEPT !.overdue = o] \in TaskRow
  BY DEF TaskRow, Open, Closed

LEMMA ReportedType ==
  ASSUME NEW row \in TaskRow, NEW r \in Request
  PROVE  Reported(row, r) \in TaskRow
<1>1. /\ Outcome(r) \in {"queued", "succeeded", "abandoned"}
      /\ r.run \in Nat
  BY DEF Outcome, Request
<1>2. QED
  BY <1>1 DEF Reported, TaskRow, Open, Closed

LEMMA EmptyTypes == Absent \in TaskRow /\ NoRequest \in Request
  BY DEF Absent, TaskRow, NoRequest, Request

LEMMA DoneType ==
  ASSUME TypeOK, NEW w \in Thread, Done(w)
  PROVE  thread' \in [Thread -> Request]
  BY EmptyTypes DEF TypeOK, Done

LEMMA AuthenticateType ==
  ASSUME TypeOK, NEW w \in Thread, NEW e \in Endpoint, NEW r \in Request,
         Authenticate(w, e, r)
  PROVE  TypeOK'
  BY DEF TypeOK, Authenticate

(* A report in flight names a task and an attempt that was handed out.     *)
Reporting(w) == thread[w].op \in {"result", "outcome"}
ReportsNameWork ==
    \A w \in Thread : Reporting(w) => thread[w].task \in Task /\ thread[w].run > 0

FInv == TypeOK /\ ReportsNameWork /\ ClosedIsExplained

LEMMA InitFInv == Init => FInv
  BY EmptyTypes
  DEF Init, FInv, TypeOK, EndpointStatus, ReportsNameWork, Reporting, NoRequest,
      ClosedIsExplained, Absent

LEMMA DispatchTypeOK ==
  ASSUME TypeOK, NEW w \in Thread, NEW E \in SUBSET Endpoint,
         NEW new \in [E -> SUBSET Task], Dispatch(w, new)
  PROVE  TypeOK'
<1>1. ASSUME NEW t \in Task PROVE task'[t] \in TaskRow
  <2>1. CASE \E e \in DOMAIN new : t \in new[e]
    <3> DEFINE e == CHOOSE e \in DOMAIN new : t \in new[e]
    <3>1. e \in Endpoint
      BY <2>1
    <3>2. task'[t] = [Absent EXCEPT !.status = "queued", !.due = TRUE, !.ep = e]
      BY <2>1 DEF Dispatch
    <3>3. QED
      BY <3>1, <3>2, EmptyTypes DEF TaskRow, Absent, Open
  <2>2. CASE ~\E e \in DOMAIN new : t \in new[e]
    BY <2>2 DEF Dispatch, TypeOK
  <2>3. QED
    BY <2>1, <2>2
<1>2. QED
  BY <1>1 DEF TypeOK, Dispatch

LEMMA NextTypeOK == FInv /\ [Next]_vars => TypeOK'
<1> SUFFICES ASSUME FInv, TypeOK, [Next]_vars PROVE TypeOK'
  BY DEF FInv
<1>1. ASSUME NEW w \in Thread, NEW e \in Endpoint, Revoke(w, e) PROVE TypeOK'
  <2>1. \A t \in Task : task'[t] \in TaskRow
    BY <1>1, RowType DEF Revoke, TypeOK
  <2>2. QED
    BY <1>1, <2>1 DEF Revoke, TypeOK, EndpointStatus
<1>2. ASSUME NEW w \in Thread, ReadSweep(w) PROVE TypeOK'
  <2> DEFINE stranded == {t \in Task : task[t].status = "dispatched" /\ task[t].overdue}
             spent == {t \in stranded : task[t].attempts >= MaxAttempts}
             r == [NoRequest EXCEPT !.op = "sweep", !.stranded = stranded, !.spent = spent]
  <2>1. r \in Request
    BY EmptyTypes DEF Request
  <2>2. thread' = [thread EXCEPT ![w] = r] /\ UNCHANGED <<estatus, task>>
    BY <1>2 DEF ReadSweep
  <2> HIDE DEF r
  <2>3. QED
    BY <2>1, <2>2 DEF TypeOK
<1>3. ASSUME NEW w \in Thread, Sweep(w) PROVE TypeOK'
  <2>1. \A t \in Task : task'[t] \in TaskRow
    BY <1>3, RowType DEF Sweep, TypeOK
  <2>2. QED
    BY <1>3, <2>1, DoneType DEF Sweep, TypeOK
<1>4. ASSUME NEW w \in Thread, NEW e \in Endpoint, ArriveHeartbeat(w, e) \/ ArriveClaim(w, e)
      PROVE  TypeOK'
  <2>1. /\ [NoRequest EXCEPT !.op = "beat", !.ep = e] \in Request
        /\ [NoRequest EXCEPT !.op = "claim", !.ep = e] \in Request
    BY EmptyTypes DEF Request
  <2>2. QED
    BY <1>4, <2>1, AuthenticateType DEF ArriveHeartbeat, ArriveClaim
<1>5. ASSUME NEW w \in Thread, NEW e \in Endpoint, NEW t \in Task, NEW ok \in BOOLEAN,
             NEW run \in 1..task[t].attempts, ArriveResult(w, e, t, run, ok)
      PROVE  TypeOK'
  <2>1. run \in Nat
    BY DEF TypeOK, TaskRow
  <2>2. [NoRequest EXCEPT !.op = "result", !.ep = e, !.task = t, !.run = run, !.ok = ok]
           \in Request
    BY <2>1, EmptyTypes DEF Request
  <2>3. QED
    BY <1>5, <2>2, AuthenticateType DEF ArriveResult
<1>6. ASSUME NEW w \in Thread, Heartbeat(w) PROVE TypeOK'
  BY <1>6, DoneType DEF Heartbeat, TypeOK, EndpointStatus
<1>7. ASSUME NEW w \in Thread, Claim(w) PROVE TypeOK'
  <2>1. ASSUME NEW t \in Task PROVE task'[t] \in TaskRow
    <3>1. task[t] \in TaskRow /\ task[t].attempts + 1 \in Nat
      BY DEF TypeOK, TaskRow
    <3>2. \/ task'[t] = task[t]
          \/ task'[t] = [task[t] EXCEPT !.status = "dispatched", !.overdue = FALSE,
                                        !.attempts = @ + 1]
      BY <1>7 DEF Claim
    <3>3. [task[t] EXCEPT !.status = "dispatched", !.overdue = FALSE, !.attempts = @ + 1]
             \in TaskRow
      BY <3>1 DEF TaskRow, Open
    <3>4. QED
      BY <3>1, <3>2, <3>3
  <2>2. QED
    BY <1>7, <2>1, DoneType DEF Claim, TypeOK
<1>8. ASSUME NEW w \in Thread, ReadResult(w) PROVE TypeOK'
  <2>1. CASE task[thread[w].task].status \in Closed
    BY <1>8, <2>1, DoneType DEF ReadResult, TypeOK
  <2>2. CASE task[thread[w].task].status \notin Closed
    <3>1. task[thread[w].task].attempts \in Nat
      BY <1>8 DEF ReadResult, Is, FInv, ReportsNameWork, Reporting, TypeOK, TaskRow
    <3>2. thread' = [thread EXCEPT ![w].op = "outcome",
                                   ![w].attempts = task[thread[w].task].attempts]
      BY <1>8, <2>2 DEF ReadResult
    <3>3. [[thread[w] EXCEPT !.op = "outcome"]
             EXCEPT !.attempts = task[thread[w].task].attempts] \in Request
      BY <3>1 DEF TypeOK, Request
    <3>4. thread' \in [Thread -> Request]
      BY <3>2, <3>3 DEF TypeOK
    <3>5. QED
      BY <1>8, <3>4 DEF ReadResult, TypeOK
  <2>3. QED
    BY <2>1, <2>2
<1>9. ASSUME NEW w \in Thread, Result(w) PROVE TypeOK'
  <2> DEFINE r == thread[w]
  <2>1. r \in Request /\ r.task \in Task
    BY <1>9 DEF Result, Is, FInv, ReportsNameWork, Reporting, TypeOK
  <2>2. task[r.task] \in TaskRow /\ task' = [task EXCEPT ![r.task] = Reported(@, r)]
    BY <1>9, <2>1 DEF Result, TypeOK
  <2>3. task' \in [Task -> TaskRow]
    BY <2>1, <2>2, ReportedType DEF TypeOK
  <2>4. QED
    BY <1>9, <2>3, DoneType DEF Result, TypeOK
<1>10. ASSUME NEW w \in Thread, RequestFails(w) PROVE TypeOK'
  BY <1>10, DoneType DEF RequestFails, TypeOK
<1>11. ASSUME NEW t \in Task, BackoffElapses(t) \/ TaskAges(t) PROVE TypeOK'
  <2>1. /\ UNCHANGED <<estatus, thread>>
        /\ \/ task' = [task EXCEPT ![t] = [@ EXCEPT !.due = TRUE]]
           \/ task' = [task EXCEPT ![t] = [@ EXCEPT !.overdue = TRUE]]
    BY <1>11 DEF BackoffElapses, TaskAges
  <2>2. /\ [task[t] EXCEPT !.due = TRUE] \in TaskRow
        /\ [task[t] EXCEPT !.overdue = TRUE] \in TaskRow
    BY DEF TypeOK, TaskRow
  <2>3. QED
    BY <2>1, <2>2 DEF TypeOK
<1>12. CASE UNCHANGED vars
  BY <1>12 DEF vars, TypeOK
<1>13. QED
  BY <1>1, <1>2, <1>3, <1>4, <1>5, <1>6, <1>7, <1>8, <1>9, <1>10, <1>11, <1>12,
     DispatchTypeOK
  DEF Next, Operator, Arrival, Handler, Time

(* How a request comes into being and passes: by thread.                   *)
LEMMA ThreadStep ==
  ASSUME TypeOK, [Next]_vars, NEW v \in Thread
  PROVE  \/ thread'[v] = thread[v]
         \/ thread'[v] = NoRequest
         \/ \E e \in Endpoint : ArriveHeartbeat(v, e) \/ ArriveClaim(v, e)
         \/ \E e \in Endpoint, t \in Task, ok \in BOOLEAN : \E run \in 1..task[t].attempts :
               ArriveResult(v, e, t, run, ok)
         \/ ReadSweep(v)
         \/ ReadResult(v)
<1> DEFINE Kept(w) == v # w => thread'[v] = thread[v]
<1>1. ASSUME NEW w \in Thread,
             \/ \E e \in Endpoint : ArriveHeartbeat(w, e) \/ ArriveClaim(w, e)
             \/ \E e \in Endpoint, t \in Task, ok \in BOOLEAN :
                   \E run \in 1..task[t].attempts : ArriveResult(w, e, t, run, ok)
      PROVE  Kept(w)
  BY <1>1 DEF ArriveHeartbeat, ArriveClaim, ArriveResult, Authenticate, TypeOK
<1>2. ASSUME NEW w \in Thread, ReadSweep(w) \/ ReadResult(w) PROVE Kept(w)
  BY <1>2 DEF ReadSweep, ReadResult, Done, TypeOK
<1>3. ASSUME NEW w \in Thread,
             Sweep(w) \/ Heartbeat(w) \/ Claim(w) \/ Result(w) \/ RequestFails(w)
      PROVE  thread'[v] = thread[v] \/ thread'[v] = NoRequest
  BY <1>3 DEF Sweep, Heartbeat, Claim, Result, RequestFails, Done, TypeOK
<1>4. ASSUME NEW w \in Thread,
             \/ \E e \in Endpoint : Revoke(w, e)
             \/ \E E \in SUBSET Endpoint : \E new \in [E -> SUBSET Task] : Dispatch(w, new)
             \/ \E t \in Task : BackoffElapses(t) \/ TaskAges(t)
      PROVE  thread' = thread
  BY <1>4 DEF Revoke, Dispatch, BackoffElapses, TaskAges
<1>5. CASE UNCHANGED vars
  BY <1>5 DEF vars
<1>6. ASSUME NEW t \in Task, BackoffElapses(t) \/ TaskAges(t) PROVE thread' = thread
  BY <1>6 DEF BackoffElapses, TaskAges
<1>7. QED
  BY <1>1, <1>2, <1>3, <1>4, <1>5, <1>6 DEF Next, Operator, Arrival, Handler, Time

(* The two handlers that read rows first, and what they keep of them.      *)
LEMMA SweepIsRead ==
  ASSUME TypeOK, NEW v \in Thread, ReadSweep(v)
  PROVE  /\ thread'[v].op = "sweep"
         /\ thread'[v].stranded = {t \in Task : task[t].status = "dispatched" /\ task[t].overdue}
         /\ thread'[v].spent =
               {t \in thread'[v].stranded : task[t].attempts >= MaxAttempts}
<1> DEFINE S == {t \in Task : task[t].status = "dispatched" /\ task[t].overdue}
           U == {t \in S : task[t].attempts >= MaxAttempts}
<1>1. thread' = [thread EXCEPT ![v] = [NoRequest EXCEPT
                    !.op = "sweep", !.stranded = S, !.spent = U]]
  BY Zenon DEF ReadSweep
<1> HIDE DEF U, S
<1>2. thread'[v].op = "sweep" /\ thread'[v].stranded = S /\ thread'[v].spent = U
  BY <1>1 DEF NoRequest, TypeOK
<1>3. QED
  BY <1>2 DEF S, U

LEMMA ResultIsRead ==
  ASSUME TypeOK, NEW v \in Thread, ReadResult(v)
  PROVE  \/ thread'[v] = NoRequest
         \/ /\ thread'[v].op = "outcome"
            /\ thread'[v].task = thread[v].task
            /\ thread'[v].ep = thread[v].ep
            /\ thread'[v].run = thread[v].run
            /\ thread'[v].attempts = task[thread[v].task].attempts
            /\ task[thread[v].task].status \notin Closed
            /\ thread[v].op = "result"
  BY DEF ReadResult, Done, TypeOK, Request, Is

(* Only an arrival makes a report.                                         *)
LEMMA NextReports == FInv /\ [Next]_vars => ReportsNameWork'
<1> SUFFICES ASSUME FInv, TypeOK, [Next]_vars, NEW v \in Thread, Reporting(v)'
             PROVE  thread'[v].task \in Task /\ thread'[v].run > 0
  BY DEF ReportsNameWork, FInv
<1>1. CASE thread'[v] = thread[v]
  BY <1>1 DEF FInv, ReportsNameWork, Reporting
<1>2. CASE thread'[v] = NoRequest \/ ReadSweep(v)
  <2>1. thread'[v].op \in {"idle", "sweep"}
    <3>1. CASE thread'[v] = NoRequest
      BY <3>1 DEF NoRequest
    <3>2. CASE ReadSweep(v)
      BY <3>2, SweepIsRead
    <3>3. QED
      BY <1>2, <3>1, <3>2
  <2>2. QED
    BY <2>1 DEF Reporting
<1>3. CASE \E e \in Endpoint : ArriveHeartbeat(v, e) \/ ArriveClaim(v, e)
  <2>1. thread'[v].op \in {"beat", "claim"}
    BY <1>3 DEF ArriveHeartbeat, ArriveClaim, Authenticate, NoRequest, TypeOK
  <2>2. QED
    BY <2>1 DEF Reporting
<1>4. ASSUME NEW e \in Endpoint, NEW t \in Task, NEW ok \in BOOLEAN,
             NEW run \in 1..task[t].attempts, ArriveResult(v, e, t, run, ok)
      PROVE  thread'[v].task \in Task /\ thread'[v].run > 0
  BY <1>4 DEF ArriveResult, Authenticate, NoRequest, TypeOK, TaskRow
<1>5. CASE ReadResult(v)
  <2>1. CASE task[thread[v].task].status \in Closed
    BY <1>5, <2>1 DEF ReadResult, Done, NoRequest, Reporting, TypeOK
  <2>2. CASE task[thread[v].task].status \notin Closed
    <3>1. thread'[v].task = thread[v].task /\ thread'[v].run = thread[v].run
      BY <1>5, <2>2 DEF ReadResult, TypeOK, Request
    <3>2. Reporting(v)
      BY <1>5 DEF ReadResult, Is, Reporting
    <3>3. QED
      BY <3>1, <3>2 DEF FInv, ReportsNameWork
  <2>3. QED
    BY <2>1, <2>2
<1>6. QED
  BY <1>1, <1>2, <1>3, <1>4, <1>5, ThreadStep

(* What can become of a task in one step.                                  *)
Dispatches ==
    \E w \in Thread : \E E \in SUBSET Endpoint : \E new \in [E -> SUBSET Task] :
        Dispatch(w, new)

TaskMoves(t) ==
    \/ task'[t] = task[t]
    \/ Dispatches /\ task[t].status = "absent" /\ task'[t].status = "queued"
    \/ /\ task[t].status \in Open
       /\ task'[t] = [task[t] EXCEPT !.status = "abandoned", !.error = "revoked"]
    \/ \E w \in Thread :
          /\ Is(w, "sweep") /\ t \in thread[w].stranded /\ Done(w)
          /\ task'[t] = IF t \in thread[w].spent
                THEN [task[t] EXCEPT !.status = "abandoned", !.error = "silent"]
                ELSE [task[t] EXCEPT !.status = "queued", !.due = FALSE]
    \/ /\ task[t].status = "queued"
       /\ task'[t] = [task[t] EXCEPT !.status = "dispatched", !.overdue = FALSE,
                                     !.attempts = @ + 1]
    \/ \E w \in Thread :
          /\ Is(w, "outcome") /\ thread[w].task = t /\ Done(w)
          /\ task'[t] = Reported(task[t], thread[w])
    \/ task[t].status \in Open /\ task'[t] = [task[t] EXCEPT !.due = TRUE]
    \/ task[t].status \in Open /\ task'[t] = [task[t] EXCEPT !.overdue = TRUE]

LEMMA TaskStep ==
  ASSUME [Next]_vars, TypeOK, NEW t \in Task
  PROVE  TaskMoves(t)
<1>1. ASSUME NEW w \in Thread, NEW E \in SUBSET Endpoint, NEW new \in [E -> SUBSET Task],
             Dispatch(w, new)
      PROVE  TaskMoves(t)
  <2>1. CASE \E e \in DOMAIN new : t \in new[e]
    <3>1. task'[t].status = "queued"
      BY <1>1, <2>1 DEF Dispatch, Absent
    <3>2. task[t].status = "absent"
      BY <1>1, <2>1 DEF Dispatch
    <3>3. QED
      BY <1>1, <3>1, <3>2 DEF TaskMoves, Dispatches
  <2>2. CASE ~\E e \in DOMAIN new : t \in new[e]
    BY <1>1, <2>2 DEF TaskMoves, Dispatch
  <2>3. QED
    BY <2>1, <2>2
<1>2. ASSUME NEW w \in Thread, NEW e \in Endpoint, Revoke(w, e) PROVE TaskMoves(t)
  BY <1>2 DEF TaskMoves, Revoke, Outstanding
<1>3. ASSUME NEW w \in Thread, Sweep(w) PROVE TaskMoves(t)
  BY <1>3 DEF TaskMoves, Sweep
<1>4. ASSUME NEW w \in Thread, Claim(w) PROVE TaskMoves(t)
  BY <1>4 DEF TaskMoves, Claim, Hands, Due
<1>5. ASSUME NEW w \in Thread, Result(w) PROVE TaskMoves(t)
  BY <1>5 DEF TaskMoves, Result, TypeOK
<1>6. ASSUME NEW u \in Task, BackoffElapses(u) \/ TaskAges(u) PROVE TaskMoves(t)
  BY <1>6 DEF TaskMoves, BackoffElapses, TaskAges, TypeOK, Open
<1>7. ASSUME NEW w \in Thread, NEW e \in Endpoint,
             \/ ArriveHeartbeat(w, e) \/ ArriveClaim(w, e)
             \/ \E u \in Task, ok \in BOOLEAN : \E run \in 1..task[u].attempts :
                   ArriveResult(w, e, u, run, ok)
      PROVE  TaskMoves(t)
  BY <1>7 DEF TaskMoves, ArriveHeartbeat, ArriveClaim, ArriveResult, Authenticate
<1>8. ASSUME NEW w \in Thread,
             ReadSweep(w) \/ Heartbeat(w) \/ ReadResult(w) \/ RequestFails(w)
      PROVE  TaskMoves(t)
  BY <1>8 DEF TaskMoves, ReadSweep, Heartbeat, ReadResult, RequestFails
<1>9. CASE UNCHANGED vars
  BY <1>9 DEF TaskMoves, vars
<1>10. CASE Operator \/ Handler
  BY <1>1, <1>2, <1>3, <1>4, <1>5, <1>8, <1>10 DEF Operator, Handler
<1>11. CASE Arrival
  BY <1>7, <1>11 DEF Arrival
<1>12. CASE Time
  BY <1>6, <1>12 DEF Time
<1>13. QED
  BY <1>8, <1>9, <1>10, <1>11, <1>12 DEF Next

LEMMA NextExplained == FInv /\ [Next]_vars => ClosedIsExplained'
<1> SUFFICES ASSUME FInv, TypeOK, [Next]_vars, NEW t \in Task
             PROVE  /\ task'[t].status = "succeeded" =>
                          task'[t].result # 0 /\ task'[t].error = "none"
                    /\ task'[t].status = "abandoned" => task'[t].error # "none"
  BY DEF ClosedIsExplained, FInv
<1>1. /\ task[t] \in TaskRow
      /\ task[t].status = "succeeded" => task[t].result # 0 /\ task[t].error = "none"
      /\ task[t].status = "abandoned" => task[t].error # "none"
  BY DEF FInv, TypeOK, ClosedIsExplained
<1>2. ASSUME NEW w \in Thread, Is(w, "outcome"), task'[t] = Reported(task[t], thread[w])
      PROVE  /\ task'[t].status = "succeeded" =>
                   task'[t].result # 0 /\ task'[t].error = "none"
             /\ task'[t].status = "abandoned" => task'[t].error # "none"
  <2>1. thread[w].run > 0
    BY <1>2 DEF FInv, ReportsNameWork, Reporting, Is
  <2>2. QED
    BY <1>1, <1>2, <2>1 DEF Reported, Outcome, TaskRow
<1>3. QED
  BY <1>1, <1>2, TaskStep DEF TaskMoves, TaskRow, Open

LEMMA NextFInv == FInv /\ [Next]_vars => FInv'
  BY NextTypeOK, NextReports, NextExplained DEF FInv

(* The rows and the requests in flight keep the shapes of the code.        *)
THEOREM TypeCorrect == Spec => []TypeOK
  BY InitFInv, NextFInv, PTL DEF Spec, FInv

(* However requests overlap, a succeeded task holds its result and an      *)
(* abandoned one its reason.                                               *)
THEOREM ClosedExplained == Spec => []ClosedIsExplained
  BY InitFInv, NextFInv, PTL DEF Spec, FInv

-----------------------------------------------------------------------------
(* What can be undone only by a request that was already in flight         *)

LEMMA EndpointStep ==
  ASSUME [Next]_vars, TypeOK, NEW e \in Endpoint
  PROVE  \/ estatus'[e] = estatus[e]
         \/ estatus'[e] = "revoked" /\ \E w \in Thread : Revoke(w, e)
         \/ estatus'[e] = "active" /\ BeatInFlight(e)
<1>1. ASSUME NEW w \in Thread, NEW f \in Endpoint, Revoke(w, f)
      PROVE  \/ estatus'[e] = estatus[e]
             \/ estatus'[e] = "revoked" /\ f = e
  BY <1>1 DEF Revoke, TypeOK
<1>2. ASSUME NEW w \in Thread, Heartbeat(w)
      PROVE  \/ estatus'[e] = estatus[e]
             \/ estatus'[e] = "active" /\ BeatInFlight(e)
  BY <1>2 DEF Heartbeat, BeatInFlight, TypeOK
<1>3. ASSUME NEW w \in Thread,
             \/ ReadSweep(w) \/ Sweep(w) \/ Claim(w) \/ ReadResult(w) \/ Result(w)
             \/ RequestFails(w)
             \/ \E E \in SUBSET Endpoint : \E new \in [E -> SUBSET Task] : Dispatch(w, new)
             \/ \E f \in Endpoint : ArriveHeartbeat(w, f) \/ ArriveClaim(w, f)
             \/ \E f \in Endpoint, t \in Task, ok \in BOOLEAN :
                   \E run \in 1..task[t].attempts : ArriveResult(w, f, t, run, ok)
      PROVE  estatus' = estatus
  BY <1>3 DEF ReadSweep, Sweep, Claim, ReadResult, Result, RequestFails, Dispatch,
              ArriveHeartbeat, ArriveClaim, ArriveResult, Authenticate
<1>4. CASE Time \/ UNCHANGED vars
  BY <1>4 DEF Time, BackoffElapses, TaskAges, vars
<1>5. CASE Operator \/ Handler
  BY <1>1, <1>2, <1>3, <1>5 DEF Operator, Handler
<1>6. CASE Arrival
  BY <1>3, <1>6 DEF Arrival
<1>7. QED
  BY <1>3, <1>4, <1>5, <1>6 DEF Next

LEMMA RevokedStep ==
  ASSUME [Next]_vars, TypeOK, NEW e \in Endpoint, estatus[e] = "revoked", ~BeatInFlight(e)
  PROVE  estatus'[e] = "revoked" /\ ~BeatInFlight(e)'
<1>1. estatus'[e] = "revoked"
  BY EndpointStep
<1>2. SUFFICES ASSUME NEW v \in Thread, thread'[v].op = "beat", thread'[v].ep = e
               PROVE  FALSE
  BY <1>1 DEF BeatInFlight, Is
<1>3. CASE thread'[v] = thread[v]
  BY <1>2, <1>3 DEF BeatInFlight, Is
<1>4. CASE thread'[v] = NoRequest
  BY <1>2, <1>4 DEF NoRequest
<1>5. ASSUME NEW f \in Endpoint, ArriveHeartbeat(v, f) \/ ArriveClaim(v, f) PROVE FALSE
  <2>1. thread'[v].op = "claim" \/ (thread'[v].ep = f /\ estatus[f] # "revoked")
    BY <1>5 DEF ArriveHeartbeat, ArriveClaim, Authenticate, NoRequest, TypeOK
  <2>2. QED
    BY <1>2, <2>1
<1>6. ASSUME NEW f \in Endpoint, NEW t \in Task, NEW ok \in BOOLEAN,
             NEW run \in 1..task[t].attempts, ArriveResult(v, f, t, run, ok)
      PROVE  FALSE
  BY <1>2, <1>6 DEF ArriveResult, Authenticate, NoRequest, TypeOK
<1>7. CASE ReadSweep(v)
  BY <1>2, <1>7, SweepIsRead
<1>8. CASE ReadResult(v)
  BY <1>2, <1>8, ResultIsRead DEF NoRequest
<1>9. QED
  BY <1>2, <1>3, <1>4, <1>5, <1>6, <1>7, <1>8, ThreadStep

(* A heartbeat in flight is the only way back from revocation.             *)
THEOREM RevocationStays == Spec => RevokedStays
<1>1. TypeOK /\ [Next]_vars =>
         [\A e \in Endpoint :
             (estatus[e] = "revoked" /\ ~BeatInFlight(e)) =>
                 (estatus[e] = "revoked" /\ ~BeatInFlight(e))']_vars
  BY RevokedStep
<1>2. QED
  BY TypeCorrect, <1>1, PTL DEF Spec, RevokedStays

LEMMA ClosedStep ==
  ASSUME [Next]_vars, TypeOK, NEW t \in Task, task[t].status \in Closed,
         \A w \in Thread : ~Holds(w, t)
  PROVE  task'[t] = task[t] /\ \A w \in Thread : ~Holds(w, t)'
<1>1. task'[t] = task[t]
  BY TaskStep DEF TaskMoves, Holds, Open, Closed
<1>2. SUFFICES ASSUME NEW v \in Thread, Holds(v, t)' PROVE FALSE
  BY <1>1
<1>3. CASE thread'[v] = thread[v]
  BY <1>2, <1>3 DEF Holds, Is
<1>4. CASE thread'[v] = NoRequest
  BY <1>2, <1>4 DEF NoRequest, Holds, Is
<1>5. ASSUME NEW f \in Endpoint, ArriveHeartbeat(v, f) \/ ArriveClaim(v, f) PROVE FALSE
  <2>1. thread'[v].op \in {"beat", "claim"}
    BY <1>5 DEF ArriveHeartbeat, ArriveClaim, Authenticate, NoRequest, TypeOK
  <2>2. QED
    BY <1>2, <2>1 DEF Holds, Is
<1>6. ASSUME NEW f \in Endpoint, NEW u \in Task, NEW ok \in BOOLEAN,
             NEW run \in 1..task[u].attempts, ArriveResult(v, f, u, run, ok)
      PROVE  FALSE
  <2>1. thread'[v].op = "result"
    BY <1>6 DEF ArriveResult, Authenticate, NoRequest, TypeOK
  <2>2. QED
    BY <1>2, <2>1 DEF Holds, Is
<1>7. CASE ReadSweep(v)
  BY <1>2, <1>7, SweepIsRead DEF Holds, Is, Closed
<1>8. CASE ReadResult(v)
  BY <1>2, <1>8, ResultIsRead DEF Holds, Is, NoRequest
<1>9. QED
  BY <1>2, <1>3, <1>4, <1>5, <1>6, <1>7, <1>8, ThreadStep

(* A request that read the row while it was open is the only way back from *)
(* a closed task.                                                          *)
THEOREM ClosureStays == Spec => ClosedStays
<1>1. TypeOK /\ [Next]_vars =>
         [\A t \in Task :
             (task[t].status \in Closed /\ \A w \in Thread : ~Holds(w, t)) =>
                 /\ task'[t] = task[t]
                 /\ (\A w \in Thread : ~Holds(w, t))']_vars
  BY ClosedStep
<1>2. QED
  BY TypeCorrect, <1>1, PTL DEF Spec, ClosedStays

-----------------------------------------------------------------------------
(* The bounds of an endpoint's queue                                       *)

(* In this step no request ends that was overtaken on a task of e.         *)
NoneOvertaken(e) ==
    \A w \in Thread, t \in Task : task[t].ep = e /\ Overtaken(w, t) => ~Is(w, "idle")'

LEMMA EndsIdle ==
  ASSUME TypeOK, NEW w \in Thread, Done(w)
  PROVE  Is(w, "idle")'
  BY DEF TypeOK, Done, NoRequest, Is

(* Requests that are not overtaken find the row open, with as many         *)
(* attempts as they read.                                                  *)
LEMMA ActsOnOpen ==
  ASSUME FInv, NEW e \in Endpoint, NoneOvertaken(e),
         NEW t \in Task, task[t].ep = e, NEW w \in Thread, Done(w)
  PROVE  /\ Is(w, "outcome") /\ thread[w].task = t /\ ~thread[w].ok =>
               task[t].status \in Open /\ task[t].attempts <= thread[w].attempts
         /\ Is(w, "sweep") /\ t \in thread[w].stranded \ thread[w].spent =>
               task[t].status \in Open /\ task[t].attempts < MaxAttempts
<1>1. task[t] \in TaskRow /\ thread[w] \in Request
  BY DEF FInv, TypeOK
<1>2. task[t].attempts \in Nat /\ thread[w].attempts \in Nat
  BY <1>1 DEF TaskRow, Request
<1>3. ~Overtaken(w, t)
  BY EndsIdle DEF NoneOvertaken, FInv
<1>4. QED
  BY <1>2, <1>3, FleetAssumption DEF Overtaken

LEMMA DispatchedFresh ==
  ASSUME NEW t \in Task, task[t].status = "absent", task'[t].status = "queued", Dispatches
  PROVE  task'[t].attempts = 0
<1>1. PICK w \in Thread, E \in SUBSET Endpoint : \E new \in [E -> SUBSET Task] :
             Dispatch(w, new)
  BY DEF Dispatches
<1>2. PICK new \in [E -> SUBSET Task] : Dispatch(w, new)
  BY <1>1
<1>3. CASE \E e \in DOMAIN new : t \in new[e]
  BY <1>2, <1>3 DEF Dispatch, Absent
<1>4. CASE ~\E e \in DOMAIN new : t \in new[e]
  BY <1>2, <1>4 DEF Dispatch
<1>5. QED
  BY <1>3, <1>4

LEMMA NextAttempts ==
  ASSUME FInv, [Next]_vars, NEW e \in Endpoint, Within(e), NoneOvertaken(e),
         NEW t \in Task, task'[t].ep = e
  PROVE  /\ task'[t].attempts <= MaxAttempts
         /\ task'[t].status = "queued" => task'[t].attempts < MaxAttempts
<1>1. /\ task[t] \in TaskRow
      /\ task[t].ep = e => /\ task[t].attempts <= MaxAttempts
                           /\ task[t].status = "queued" => task[t].attempts < MaxAttempts
  BY DEF FInv, TypeOK, Within
<1>2. CASE Dispatches /\ task[t].status = "absent" /\ task'[t].status = "queued"
  BY <1>2, DispatchedFresh, FleetAssumption
<1>3. ASSUME NEW w \in Thread, Is(w, "sweep"), t \in thread[w].stranded, Done(w),
             task'[t] = IF t \in thread[w].spent
                THEN [task[t] EXCEPT !.status = "abandoned", !.error = "silent"]
                ELSE [task[t] EXCEPT !.status = "queued", !.due = FALSE]
      PROVE  /\ task'[t].attempts <= MaxAttempts
             /\ task'[t].status = "queued" => task'[t].attempts < MaxAttempts
  <2>1. task[t].ep = e
    BY <1>1, <1>3 DEF TaskRow
  <2>2. t \notin thread[w].spent => task[t].attempts < MaxAttempts
    BY <1>3, <2>1, ActsOnOpen
  <2>3. QED
    BY <1>1, <1>3, <2>1, <2>2, FleetAssumption DEF TaskRow
<1>4. ASSUME NEW w \in Thread, Is(w, "outcome"), thread[w].task = t, Done(w),
             task'[t] = Reported(task[t], thread[w])
      PROVE  /\ task'[t].attempts <= MaxAttempts
             /\ task'[t].status = "queued" => task'[t].attempts < MaxAttempts
  <2>1. /\ task'[t].attempts = task[t].attempts /\ task[t].ep = e
        /\ task'[t].status = Outcome(thread[w])
    BY <1>1, <1>4 DEF Reported, TaskRow
  <2>2. ~thread[w].ok => task[t].attempts <= thread[w].attempts
    BY <1>4, <2>1, ActsOnOpen
  <2>3. thread[w].attempts \in Nat /\ task[t].attempts \in Nat
    BY <1>1 DEF FInv, TypeOK, Request, TaskRow
  <2>4. QED
    BY <1>1, <2>1, <2>2, <2>3, FleetAssumption DEF Outcome
<1>5. CASE /\ task[t].status = "queued"
           /\ task'[t] = [task[t] EXCEPT !.status = "dispatched", !.overdue = FALSE,
                                         !.attempts = @ + 1]
  BY <1>1, <1>5, FleetAssumption DEF TaskRow
<1>6. CASE \/ task'[t] = task[t]
           \/ task'[t] = [task[t] EXCEPT !.status = "abandoned", !.error = "revoked"]
           \/ task'[t] = [task[t] EXCEPT !.due = TRUE]
           \/ task'[t] = [task[t] EXCEPT !.overdue = TRUE]
  BY <1>1, <1>6 DEF TaskRow
<1>7. TaskMoves(t)
  BY TaskStep DEF FInv
<1>8. QED
  BY <1>2, <1>3, <1>4, <1>5, <1>6, <1>7 DEF TaskMoves

(* Outside a dispatch no task becomes outstanding.                         *)
LEMMA NoNewOutstanding ==
  ASSUME FInv, [Next]_vars, ~Dispatches, NEW e \in Endpoint, NoneOvertaken(e)
  PROVE  Outstanding(e)' \subseteq Outstanding(e)
<1> SUFFICES ASSUME NEW t \in Task, task'[t].status \in Open, task'[t].ep = e
             PROVE  task[t].status \in Open /\ task[t].ep = e
  BY DEF Outstanding
<1>1. task[t] \in TaskRow
  BY DEF FInv, TypeOK
<1>2. ASSUME NEW w \in Thread, Is(w, "sweep"), t \in thread[w].stranded, Done(w),
             task'[t] = IF t \in thread[w].spent
                THEN [task[t] EXCEPT !.status = "abandoned", !.error = "silent"]
                ELSE [task[t] EXCEPT !.status = "queued", !.due = FALSE]
      PROVE  task[t].status \in Open /\ task[t].ep = e
  <2>1. t \notin thread[w].spent /\ task[t].ep = e
    BY <1>1, <1>2 DEF TaskRow, Open
  <2>2. QED
    BY <1>2, <2>1, ActsOnOpen
<1>3. ASSUME NEW w \in Thread, Is(w, "outcome"), thread[w].task = t, Done(w),
             task'[t] = Reported(task[t], thread[w])
      PROVE  task[t].status \in Open /\ task[t].ep = e
  <2>1. task[t].ep = e /\ task'[t].status = Outcome(thread[w])
    BY <1>1, <1>3 DEF Reported, TaskRow
  <2>2. ~thread[w].ok
    BY <2>1 DEF Outcome, Open
  <2>3. QED
    BY <1>3, <2>1, <2>2, ActsOnOpen
<1>4. CASE \/ task'[t] = task[t]
           \/ /\ task[t].status \in Open
              /\ \/ task'[t] = [task[t] EXCEPT !.status = "abandoned", !.error = "revoked"]
                 \/ task'[t] = [task[t] EXCEPT !.due = TRUE]
                 \/ task'[t] = [task[t] EXCEPT !.overdue = TRUE]
           \/ /\ task[t].status = "queued"
              /\ task'[t] = [task[t] EXCEPT !.status = "dispatched", !.overdue = FALSE,
                                            !.attempts = @ + 1]
  BY <1>1, <1>4 DEF TaskRow, Open
<1>5. TaskMoves(t)
  BY TaskStep DEF FInv
<1>6. QED
  BY <1>2, <1>3, <1>4, <1>5 DEF TaskMoves

LEMMA DispatchQuota ==
  ASSUME NEW e \in Endpoint, Within(e),
         NEW w \in Thread, NEW E \in SUBSET Endpoint,
         NEW new \in [E -> SUBSET Task], Dispatch(w, new)
  PROVE  /\ Cardinality(Outstanding(e)') <= MaxQueued
         /\ estatus'[e] = "revoked" => Outstanding(e)' = {}
<1>1. /\ Cardinality(Outstanding(e)) <= MaxQueued
      /\ estatus[e] = "revoked" => Outstanding(e) = {}
      /\ estatus' = estatus
  BY DEF Within, Dispatch
<1>2. CASE e \notin E
  <2>1. ASSUME NEW t \in Task PROVE t \in Outstanding(e)' => t \in Outstanding(e)
    <3>1. CASE \E f \in DOMAIN new : t \in new[f]
      <4>1. (CHOOSE f \in DOMAIN new : t \in new[f]) \in E
        BY <3>1
      <4>2. task'[t].ep # e
        BY <1>2, <3>1, <4>1 DEF Dispatch, Absent
      <4>3. QED
        BY <4>2 DEF Outstanding
    <3>2. CASE ~\E f \in DOMAIN new : t \in new[f]
      BY <3>2 DEF Dispatch, Outstanding
    <3>3. QED
      BY <3>1, <3>2
  <2>2. Outstanding(e)' = Outstanding(e)
    <3>1. ASSUME NEW t \in Outstanding(e) PROVE t \in Outstanding(e)'
      <4>1. task[t].status # "absent" /\ t \in Task
        BY DEF Outstanding, Open
      <4>2. task'[t] = task[t]
        BY <4>1 DEF Dispatch
      <4>3. QED
        BY <4>2 DEF Outstanding
    <3>2. QED
      BY <2>1, <3>1 DEF Outstanding
  <2>3. QED
    BY <1>1, <2>2
<1>3. CASE e \in E
  <2>1. Outstanding(e)' \subseteq Outstanding(e) \cup new[e]
    <3>1. ASSUME NEW t \in Task, t \in Outstanding(e)' PROVE t \in Outstanding(e) \cup new[e]
      <4>1. CASE \E f \in DOMAIN new : t \in new[f]
        <5> DEFINE g == CHOOSE f \in DOMAIN new : t \in new[f]
        <5>1. g \in E /\ t \in new[g]
          BY <4>1
        <5>2. task'[t].ep = g
          BY <4>1, <5>1 DEF Dispatch, Absent
        <5>3. QED
          BY <3>1, <5>1, <5>2 DEF Outstanding
      <4>2. CASE ~\E f \in DOMAIN new : t \in new[f]
        BY <3>1, <4>2 DEF Dispatch, Outstanding
      <4>3. QED
        BY <4>1, <4>2
    <3>2. QED
      BY <3>1 DEF Outstanding
  <2>2. /\ IsFiniteSet(Outstanding(e)) /\ IsFiniteSet(new[e])
        /\ IsFiniteSet(Outstanding(e) \cap new[e])
    BY <1>3, FS_Subset, FleetAssumption DEF Outstanding
  <2>3. /\ IsFiniteSet(Outstanding(e) \cup new[e])
        /\ Cardinality(Outstanding(e) \cup new[e]) <= Cardinality(Outstanding(e)) + Cardinality(new[e])
    <3>1. /\ IsFiniteSet(Outstanding(e) \cup new[e])
          /\ Cardinality(Outstanding(e) \cup new[e]) =
                Cardinality(Outstanding(e)) + Cardinality(new[e])
                   - Cardinality(Outstanding(e) \cap new[e])
      BY <2>2, FS_Union
    <3>2. /\ Cardinality(Outstanding(e)) \in Nat /\ Cardinality(new[e]) \in Nat
          /\ Cardinality(Outstanding(e) \cap new[e]) \in Nat
      BY <2>2, FS_CardinalityType
    <3>3. QED
      BY <3>1, <3>2
  <2>4. Cardinality(Outstanding(e)') <= Cardinality(Outstanding(e) \cup new[e])
    BY <2>1, <2>3, FS_Subset
  <2>5. Cardinality(Outstanding(e)) + Cardinality(new[e]) <= MaxQueued
    BY <1>3 DEF Dispatch, HasRoom
  <2>6. estatus[e] # "revoked"
    BY <1>3 DEF Dispatch
  <2>7. /\ Cardinality(Outstanding(e)') \in Nat
        /\ Cardinality(Outstanding(e)) \in Nat /\ Cardinality(new[e]) \in Nat
        /\ Cardinality(Outstanding(e) \cup new[e]) \in Nat
    BY <2>1, <2>2, <2>3, FS_CardinalityType, FS_Subset
  <2>8. QED
    BY <1>1, <2>3, <2>4, <2>5, <2>6, <2>7, FleetAssumption
<1>4. QED
  BY <1>2, <1>3

LEMMA NextQuota ==
  ASSUME FInv, [Next]_vars, NEW e \in Endpoint, Within(e), NoneOvertaken(e)
  PROVE  /\ Cardinality(Outstanding(e)') <= MaxQueued
         /\ estatus'[e] = "revoked" => Outstanding(e)' = {}
<1>1. CASE Dispatches
  <2>1. PICK w \in Thread, E \in SUBSET Endpoint : \E new \in [E -> SUBSET Task] :
               Dispatch(w, new)
    BY <1>1 DEF Dispatches
  <2>2. PICK new \in [E -> SUBSET Task] : Dispatch(w, new)
    BY <2>1
  <2>3. QED
    BY <2>2, DispatchQuota
<1>2. CASE ~Dispatches
  <2>1. Outstanding(e)' \subseteq Outstanding(e)
    BY <1>2, NoNewOutstanding
  <2>2. IsFiniteSet(Outstanding(e)) /\ IsFiniteSet(Outstanding(e)')
    BY <2>1, FS_Subset, FleetAssumption DEF Outstanding
  <2>3. Cardinality(Outstanding(e)') <= MaxQueued
    BY <2>1, <2>2, FS_Subset, FS_CardinalityType, FleetAssumption DEF Within
  <2>4. ASSUME estatus'[e] = "revoked" PROVE Outstanding(e)' = {}
    <3>1. CASE estatus[e] = "revoked"
      BY <2>1, <3>1 DEF Within
    <3>2. CASE estatus[e] # "revoked"
      <4>1. PICK w \in Thread : Revoke(w, e)
        BY <2>4, <3>2, EndpointStep DEF FInv
      <4>2. QED
        BY <4>1 DEF Revoke, Outstanding, Open, FInv, TypeOK, TaskRow
    <3>3. QED
      BY <3>1, <3>2
  <2>5. QED
    BY <2>3, <2>4
<1>3. QED
  BY <1>1, <1>2

LEMMA BoundsStep ==
  ASSUME FInv, [Next]_vars, NEW e \in Endpoint, Within(e)
  PROVE  \/ Within(e)'
         \/ \E w \in Thread, t \in Task :
               task[t].ep = e /\ Overtaken(w, t) /\ Is(w, "idle")'
<1>1. CASE NoneOvertaken(e)
  BY <1>1, NextAttempts, NextQuota DEF Within
<1>2. CASE ~NoneOvertaken(e)
  BY <1>2 DEF NoneOvertaken
<1>3. QED
  BY <1>1, <1>2

(* However requests interleave on any number of threads, the queue of an   *)
(* endpoint stays within its quota and its tasks within their attempts     *)
(* until a request ends whose reading of a task was overtaken              *)
(* (dispatch_plan, claim_tasks, revoke, submit_result, sweep).             *)
THEOREM BoundsKept == Spec => BoundsUnlessOvertaken
<1>1. FInv /\ [Next]_vars =>
         [\A e \in Endpoint : Within(e) =>
             \/ Within(e)'
             \/ \E w \in Thread, t \in Task :
                   task[t].ep = e /\ Overtaken(w, t) /\ Is(w, "idle")']_vars
  BY BoundsStep
<1>2. QED
  BY InitFInv, NextFInv, <1>1, PTL DEF Spec, BoundsUnlessOvertaken

(* Revocation and closure are undone by nothing but a request that was     *)
(* past its read when it happened (heartbeat, submit_result, sweep).       *)
THEOREM FinalityStays == Spec => FinalUnlessInFlight
  BY RevocationStays, ClosureStays DEF FinalUnlessInFlight

-----------------------------------------------------------------------------
(* Agents.  For any number of losses they only make the requests Fleet     *)
(* reckons with, work on what was handed to them and store nothing but     *)
(* evidence.                                                               *)

(* A row that does not exist yet belongs to nobody.                        *)
AbsentIsFree == \A t \in Task : task[t].status = "absent" => task[t].ep = None

LEMMA AbsentStep == FInv /\ AbsentIsFree /\ [Next]_vars => AbsentIsFree'
<1> SUFFICES ASSUME FInv, AbsentIsFree, [Next]_vars,
                    NEW t \in Task, task'[t].status = "absent"
             PROVE  task'[t].ep = None
  BY DEF AbsentIsFree
<1>1. task[t] \in TaskRow
  BY DEF FInv, TypeOK
<1>2. task'[t] = task[t]
  BY <1>1, TaskStep DEF FInv, TaskMoves, Reported, Outcome, TaskRow, Open
<1>3. QED
  BY <1>2 DEF AbsentIsFree

(* An agent that waits for an answer waits for that of a request of its    *)
(* own, of the kind it sent.                                               *)
AwaitsOwn(e) ==
    agent[e].via # NoThread =>
        /\ thread[agent[e].via].ep = e
        /\ \/ agent[e].pc = "beating" /\ Is(agent[e].via, "beat")
           \/ agent[e].pc = "claiming" /\ Is(agent[e].via, "claim")
           \/ agent[e].pc = "reporting" /\ Reporting(agent[e].via)

(* What an agent reports on is work of its batch, and no success is        *)
(* reported that was not collected.                                        *)
ReportsItsWork(e) ==
    agent[e].pc \in {"report", "reporting"} =>
        /\ agent[e].job \in agent[e].batch
        /\ agent[e].ok => agent[e].job \in collected

(* A result in flight is that of a collection.                             *)
CarriesEvidence(w) ==
    Reporting(w) /\ thread[w].ok =>
        [task |-> thread[w].task, attempt |-> thread[w].run] \in collected

AInv ==
    /\ FInv
    /\ AbsentIsFree
    /\ ATypeOK
    /\ \A e \in Endpoint : AwaitsOwn(e) /\ ReportsItsWork(e)
    /\ \A w \in Thread : CarriesEvidence(w)
    /\ BatchWasHandedOut
    /\ ResultIsEvidence

LEMMA IdleType ==
  /\ IdleAgent \in Agent
  /\ IdleAgent.pc = "idle" /\ IdleAgent.batch = {} /\ IdleAgent.job = NoWork
  /\ IdleAgent.via = NoThread /\ IdleAgent.ok = FALSE
  BY DEF IdleAgent, Agent, Waiting

LEMMA InitAInv == AInit => AInv
<1> SUFFICES ASSUME AInit PROVE AInv
  OBVIOUS
<1>1. FInv
  BY InitFInv DEF AInit
<1>2. ATypeOK
  BY <1>1, IdleType, AgentAssumption DEF ATypeOK, FInv, AInit
<1>3. AbsentIsFree /\ ResultIsEvidence
  BY DEF AInit, Init, AbsentIsFree, ResultIsEvidence, Absent
<1>4. \A e \in Endpoint : AwaitsOwn(e) /\ ReportsItsWork(e)
  BY IdleType DEF AInit, AwaitsOwn, ReportsItsWork
<1>5. \A w \in Thread : CarriesEvidence(w)
  BY DEF AInit, Init, CarriesEvidence, Reporting, NoRequest
<1>6. BatchWasHandedOut
  BY IdleType DEF AInit, BatchWasHandedOut
<1>7. QED
  BY <1>1, <1>2, <1>3, <1>4, <1>5, <1>6 DEF AInv

(* Every step of an agent, or of the server for one, is a step of the      *)
(* control plane or none of it: what an agent sends is one of the requests *)
(* the control plane reckons with.                                         *)
LEMMA SendResultArrives ==
  ASSUME AInv, NEW e \in Endpoint, NEW w \in Thread, SendResult(e, w)
  PROVE  \E t \in Task, ok \in BOOLEAN : \E run \in 1..task[t].attempts :
            ArriveResult(w, e, t, run, ok)
<1>1. agent[e] \in Agent /\ agent[e].job \in agent[e].batch
  BY DEF AInv, ATypeOK, SendResult, ReportsItsWork
<1>2. agent[e].job \in Work
  BY <1>1 DEF Agent
<1>3. agent[e].job.attempt \in 1..task[agent[e].job.task].attempts
  BY <1>1 DEF AInv, BatchWasHandedOut
<1>4. agent[e].job.task \in Task /\ agent[e].ok \in BOOLEAN
  BY <1>1, <1>2 DEF Agent, Work
<1>5. QED
  BY <1>3, <1>4 DEF SendResult

LEMMA AgentStepsAreServed == AInv /\ [ANext]_avars => [Next]_vars
<1> SUFFICES ASSUME AInv, [ANext]_avars PROVE [Next]_vars
  OBVIOUS
<1>1. ASSUME NEW e \in Endpoint, NEW w \in Thread, SendHeartbeat(e, w) \/ SendClaim(e, w)
      PROVE  [Next]_vars
  BY <1>1 DEF SendHeartbeat, SendClaim, Next, Arrival
<1>2. ASSUME NEW e \in Endpoint, NEW w \in Thread, SendResult(e, w) PROVE [Next]_vars
  BY <1>2, SendResultArrives DEF Next, Arrival
<1>3. ASSUME NEW e \in Endpoint, Collect(e) \/ Refused(e) \/ TimesOut(e) \/ Reboot(e)
      PROVE  UNCHANGED vars
  BY <1>3 DEF Collect, Refused, TimesOut, Reboot, vars
<1>4. ASSUME NEW w \in Thread, Served(w) \/ RequestBreaks(w) \/ Alone(Sweep(w))
      PROVE  [Next]_vars
  BY <1>4 DEF Served, HeartbeatServed, ClaimServed, ResultRead, ResultServed,
              RequestBreaks, Alone, Next, Handler
<1>5. CASE Alone(Operator) \/ Alone(Time)
  BY <1>5 DEF Alone, Next
<1>6. CASE UNCHANGED avars
  BY <1>6 DEF avars, vars
<1>7. QED
  BY <1>1, <1>2, <1>3, <1>4, <1>5, <1>6 DEF ANext, AgentStep

-----------------------------------------------------------------------------
(* What the control plane keeps for the agents                             *)

(* A task stays with its endpoint, and the count of its attempts only      *)
(* grows.                                                                  *)
LEMMA TaskStaysHome ==
  ASSUME FInv, AbsentIsFree, [Next]_vars, NEW t \in Task, task[t].ep \in Endpoint
  PROVE  task'[t].ep = task[t].ep /\ task'[t].attempts >= task[t].attempts
<1>1. task[t] \in TaskRow /\ TaskMoves(t)
  BY TaskStep DEF FInv, TypeOK
<1>2. task[t].status # "absent"
  BY FleetAssumption DEF AbsentIsFree
<1>3. task[t].attempts \in Nat
  BY <1>1 DEF TaskRow
<1>4. ASSUME NEW w \in Thread, task'[t] = Reported(task[t], thread[w])
      PROVE  task'[t].ep = task[t].ep /\ task'[t].attempts = task[t].attempts
  BY <1>1, <1>4 DEF Reported, TaskRow
<1>5. CASE task'[t] = [task[t] EXCEPT !.status = "dispatched", !.overdue = FALSE,
                                      !.attempts = @ + 1]
  BY <1>1, <1>3, <1>5 DEF TaskRow
<1>6. CASE \/ task'[t] = task[t]
           \/ task'[t] = [task[t] EXCEPT !.status = "abandoned", !.error = "revoked"]
           \/ task'[t] = [task[t] EXCEPT !.status = "abandoned", !.error = "silent"]
           \/ task'[t] = [task[t] EXCEPT !.status = "queued", !.due = FALSE]
           \/ task'[t] = [task[t] EXCEPT !.due = TRUE]
           \/ task'[t] = [task[t] EXCEPT !.overdue = TRUE]
  <2>1. task'[t].ep = task[t].ep /\ task'[t].attempts = task[t].attempts
    BY <1>1, <1>6 DEF TaskRow
  <2>2. QED
    BY <1>3, <2>1
<1>7. QED
  BY <1>1, <1>2, <1>3, <1>4, <1>5, <1>6 DEF TaskMoves

LEMMA HandedOutStays ==
  ASSUME AInv, [Next]_vars, NEW e \in Endpoint, NEW j \in agent[e].batch
  PROVE  task'[j.task].ep = e /\ j.attempt \in 1..task'[j.task].attempts
<1>1. agent[e].batch \subseteq Work
  BY DEF AInv, ATypeOK, Agent
<1>2. j.task \in Task /\ task[j.task].ep = e /\ j.attempt \in 1..task[j.task].attempts
  BY <1>1 DEF AInv, BatchWasHandedOut, Work
<1>3. /\ task'[j.task].ep = e
      /\ task'[j.task].attempts >= task[j.task].attempts
  BY <1>2, TaskStaysHome DEF AInv
<1>4. task[j.task].attempts \in Nat /\ task'[j.task].attempts \in Nat
  BY <1>2, NextFInv DEF AInv, FInv, TypeOK, TaskRow
<1>5. QED
  BY <1>2, <1>3, <1>4

(* Only a report that collected stores a result.                           *)
LEMMA ResultStaysEvidence ==
  ASSUME AInv, [Next]_vars, collected \subseteq collected'
  PROVE  ResultIsEvidence'
<1> SUFFICES ASSUME NEW t \in Task, task'[t].result # 0
             PROVE  [task |-> t, attempt |-> task'[t].result] \in collected
  BY DEF ResultIsEvidence
<1>1. task[t] \in TaskRow /\ TaskMoves(t)
  BY TaskStep DEF AInv, FInv, TypeOK
<1>2. CASE task'[t].result = task[t].result
  BY <1>2 DEF AInv, ResultIsEvidence
<1>3. CASE Dispatches /\ task[t].status = "absent" /\ task'[t].status = "queued"
  <2>1. PICK w \in Thread, E \in SUBSET Endpoint : \E new \in [E -> SUBSET Task] :
               Dispatch(w, new)
    BY <1>3 DEF Dispatches
  <2>2. PICK new \in [E -> SUBSET Task] : Dispatch(w, new)
    BY <2>1
  <2>3. task'[t] = task[t] \/ task'[t].result = 0
    BY <2>2 DEF Dispatch, Absent
  <2>4. QED
    BY <1>2, <2>3
<1>4. ASSUME NEW w \in Thread, Is(w, "outcome"), thread[w].task = t,
             task'[t] = Reported(task[t], thread[w])
      PROVE  [task |-> t, attempt |-> task'[t].result] \in collected
  <2>1. task'[t].result = IF thread[w].ok THEN thread[w].run ELSE 0
    BY <1>1, <1>4 DEF Reported, TaskRow
  <2>2. thread[w].ok /\ task'[t].result = thread[w].run
    BY <2>1
  <2>3. QED
    BY <1>4, <2>2 DEF AInv, CarriesEvidence, Reporting, Is
<1>5. QED
  BY <1>1, <1>2, <1>3, <1>4 DEF TaskMoves, TaskRow

-----------------------------------------------------------------------------
(* How an agent's control state changes                                    *)

LEMMA AnswerMoves ==
  ASSUME AInv, NEW w \in Thread, NEW accept, Answer(w, accept), NEW e \in Endpoint
  PROVE  \/ agent'[e] = agent[e] /\ agent[e].via # w
         \/ agent[e].via = w /\ agent'[e] = accept[e]
         \/ agent[e].via = w /\ agent'[e] = [agent[e] EXCEPT !.via = NoThread]
<1>1. agent \in [Endpoint -> Agent] /\ w # NoThread
  BY AgentAssumption DEF AInv, ATypeOK
<1>2. ASSUME NEW f \in Endpoint, agent[f].via = w PROVE thread[w].ep = f
  BY <1>1, <1>2 DEF AInv, AwaitsOwn
<1>3. ASSUME NEW f \in Endpoint, agent[f].via = w,
             \/ agent' = [agent EXCEPT ![f] = accept[f]]
             \/ agent' = [agent EXCEPT ![f].via = NoThread]
      PROVE  \/ agent'[e] = agent[e] /\ agent[e].via # w
             \/ agent[e].via = w /\ agent'[e] = accept[e]
             \/ agent[e].via = w /\ agent'[e] = [agent[e] EXCEPT !.via = NoThread]
  <2>1. CASE e = f
    BY <1>1, <1>3, <2>1
  <2>2. CASE e # f
    <3>1. agent[e].via # w
      BY <1>2, <1>3, <2>2
    <3>2. QED
      BY <1>1, <1>3, <2>2, <3>1
  <2>3. QED
    BY <2>1, <2>2
<1>4. QED
  BY <1>3 DEF Answer

(* An agent's thread is left to its request while the agent waits.         *)
StillServed(e) ==
    \A v \in Thread : agent[e].via = v =>
        /\ thread'[v].ep = thread[v].ep
        /\ \/ thread'[v].op = thread[v].op
           \/ Reporting(v) /\ Reporting(v)'

(* The work of a batch is counted by the server for this very endpoint.    *)
HandedTo(e, B) ==
    /\ B \subseteq Work
    /\ \A j \in B : task'[j.task].ep = e /\ j.attempt \in 1..task'[j.task].attempts
    /\ B \subseteq agent[e].batch \/ ClaimInFlight(e)

AgentMoves(e) ==
    \/ agent'[e] = agent[e] /\ StillServed(e)
    \/ agent'[e] = IdleAgent
    \/ agent'[e] = [agent[e] EXCEPT !.via = NoThread]
    \/ /\ agent[e].pc = "idle"
       /\ \E w \in Thread :
             /\ thread'[w].ep = e
             /\ \/ /\ agent'[e] = [agent[e] EXCEPT !.pc = "beating", !.via = w]
                   /\ thread'[w].op = "beat"
                \/ /\ agent'[e] = [agent[e] EXCEPT !.pc = "claiming", !.via = w]
                   /\ thread'[w].op = "claim"
    \/ /\ agent[e].pc = "report"
       /\ \E w \in Thread :
             /\ agent'[e] = [agent[e] EXCEPT !.pc = "reporting", !.via = w]
             /\ thread'[w].ep = e /\ thread'[w].op = "result"
    \/ \E j \in agent[e].batch, ok \in BOOLEAN :
          /\ agent'[e] = [agent[e] EXCEPT !.pc = "report", !.job = j, !.ok = ok]
          /\ agent[e].pc = "run"
          /\ ok => j \in collected'
    \/ \E B \in SUBSET Work :
          /\ agent'[e] = [IdleAgent EXCEPT !.pc = "run", !.batch = B]
          /\ HandedTo(e, B)

LEMMA ServedElsewhere ==
  ASSUME AInv, NEW w \in Thread, NEW r, thread' = [thread EXCEPT ![w] = r],
         NEW e \in Endpoint, agent[e].via # w
  PROVE  StillServed(e)
  BY DEF StillServed, AInv, FInv, TypeOK

(* A thread no agent waits for: it is idle, or it sweeps.                  *)
LEMMA FreeThread ==
  ASSUME AInv, NEW w \in Thread, thread[w].op \in {"idle", "sweep"}, NEW e \in Endpoint
  PROVE  agent[e].via # w
  BY AgentAssumption DEF AInv, AwaitsOwn, Is, Reporting

LEMMA SameThreads ==
  ASSUME thread' = thread, NEW e \in Endpoint
  PROVE  StillServed(e)
  BY DEF StillServed

LEMMA SendMoves ==
  ASSUME AInv, NEW f \in Endpoint, NEW w \in Thread, NEW e \in Endpoint,
         SendHeartbeat(f, w) \/ SendClaim(f, w) \/ SendResult(f, w)
  PROVE  AgentMoves(e)
<1>1. agent \in [Endpoint -> Agent] /\ thread \in [Thread -> Request]
  BY DEF AInv, ATypeOK, TypeOK
<1>2. PICK r : /\ thread' = [thread EXCEPT ![w] = r] /\ r.ep = f /\ Is(w, "idle")
               /\ \/ agent[f].pc = "idle" /\ Sends(f, w, "beating") /\ r.op = "beat"
                  \/ agent[f].pc = "idle" /\ Sends(f, w, "claiming") /\ r.op = "claim"
                  \/ agent[f].pc = "report" /\ Sends(f, w, "reporting") /\ r.op = "result"
  <2>1. CASE SendHeartbeat(f, w)
    <3> DEFINE r == [NoRequest EXCEPT !.op = "beat", !.ep = f]
    <3>1. r.op = "beat" /\ r.ep = f
      BY DEF NoRequest
    <3>2. thread' = [thread EXCEPT ![w] = r] /\ Is(w, "idle")
      BY <2>1 DEF SendHeartbeat, ArriveHeartbeat, Authenticate
    <3> HIDE DEF r
    <3>3. QED
      BY <2>1, <3>1, <3>2 DEF SendHeartbeat
  <2>2. CASE SendClaim(f, w)
    <3> DEFINE r == [NoRequest EXCEPT !.op = "claim", !.ep = f]
    <3>1. r.op = "claim" /\ r.ep = f
      BY DEF NoRequest
    <3>2. thread' = [thread EXCEPT ![w] = r] /\ Is(w, "idle")
      BY <2>2 DEF SendClaim, ArriveClaim, Authenticate
    <3> HIDE DEF r
    <3>3. QED
      BY <2>2, <3>1, <3>2 DEF SendClaim
  <2>3. CASE SendResult(f, w)
    <3> DEFINE r == [NoRequest EXCEPT !.op = "result", !.ep = f, !.task = agent[f].job.task,
                        !.run = agent[f].job.attempt, !.ok = agent[f].ok]
    <3>1. r.op = "result" /\ r.ep = f
      BY DEF NoRequest
    <3>2. thread' = [thread EXCEPT ![w] = r] /\ Is(w, "idle")
      BY <2>3 DEF SendResult, ArriveResult, Authenticate
    <3> HIDE DEF r
    <3>3. QED
      BY <2>3, <3>1, <3>2 DEF SendResult
  <2>4. QED
    BY <2>1, <2>2, <2>3
<1>3. CASE e = f
  BY <1>1, <1>2, <1>3 DEF AgentMoves, Sends
<1>4. CASE e # f
  <2>1. agent'[e] = agent[e]
    BY <1>1, <1>2, <1>4 DEF Sends
  <2>2. StillServed(e)
    BY <1>2, FreeThread, ServedElsewhere DEF Is
  <2>3. QED
    BY <2>1, <2>2 DEF AgentMoves
<1>5. QED
  BY <1>3, <1>4

LEMMA AloneMoves ==
  ASSUME AInv, NEW f \in Endpoint, NEW e \in Endpoint,
         Collect(f) \/ Refused(f) \/ TimesOut(f) \/ Reboot(f)
  PROVE  AgentMoves(e)
<1>1. agent \in [Endpoint -> Agent] /\ thread' = thread
  BY DEF AInv, ATypeOK, Collect, Refused, TimesOut, Reboot
<1>2. CASE Collect(f)
  <2>1. PICK j \in agent[f].batch, ok \in BOOLEAN :
               /\ agent[f].pc = "run"
               /\ agent' = [agent EXCEPT ![f].pc = "report", ![f].job = j, ![f].ok = ok]
               /\ ok => j \in collected'
    BY <1>2 DEF Collect
  <2>2. CASE e = f
    BY <1>1, <2>1, <2>2 DEF AgentMoves
  <2>3. CASE e # f
    BY <1>1, <2>1, <2>3, SameThreads DEF AgentMoves
  <2>4. QED
    BY <2>2, <2>3
<1>3. CASE Refused(f) \/ TimesOut(f) \/ Reboot(f)
  <2>1. agent' = [agent EXCEPT ![f] = IdleAgent]
    BY <1>3 DEF Refused, TimesOut, Reboot, GiveUp
  <2>2. QED
    BY <1>1, <2>1, SameThreads DEF AgentMoves
<1>4. QED
  BY <1>2, <1>3

(* What a claim hands out is queued for the endpoint that claims.          *)
LEMMA ClaimHands ==
  ASSUME AInv, NEW w \in Thread, Claim(w), NEW e \in Endpoint, thread[w].ep = e
  PROVE  HandedTo(e, Handed)
<1>1. PICK S \in SUBSET Task :
             /\ Hands(w, S)
             /\ task' = [t \in Task |->
                   IF t \in S
                   THEN [task[t] EXCEPT !.status = "dispatched", !.overdue = FALSE,
                                        !.attempts = @ + 1]
                   ELSE task[t]]
  BY DEF Claim
<1>2. task \in [Task -> TaskRow]
  BY DEF AInv, FInv, TypeOK
<1>3. ASSUME NEW j \in Handed
      PROVE  /\ j \in Work /\ task'[j.task].ep = e
             /\ j.attempt \in 1..task'[j.task].attempts
  <2>1. PICK t \in Task : /\ task'[t].attempts # task[t].attempts
                          /\ j = [task |-> t, attempt |-> task'[t].attempts]
    BY DEF Handed
  <2>2. t \in S
    BY <1>1, <2>1
  <2>3. task[t].ep = e
    BY <1>1, <2>2 DEF Hands, Due
  <2>4. task[t].attempts \in Nat /\ task'[t].attempts = task[t].attempts + 1 /\ task'[t].ep = e
    BY <1>1, <1>2, <2>2, <2>3 DEF TaskRow
  <2>5. QED
    BY <2>1, <2>4 DEF Work
<1>4. ClaimInFlight(e)
  BY DEF ClaimInFlight, Claim
<1>5. QED
  BY <1>3, <1>4 DEF HandedTo

LEMMA RestHanded ==
  ASSUME AInv, [Next]_vars, NEW e \in Endpoint
  PROVE  HandedTo(e, Rest(e))
<1>1. Rest(e) \subseteq agent[e].batch /\ agent[e].batch \subseteq Work
  BY DEF Rest, AInv, ATypeOK, Agent
<1>2. QED
  BY <1>1, HandedOutStays DEF HandedTo

LEMMA ServedMoves ==
  ASSUME AInv, [Next]_vars, NEW w \in Thread, Served(w), NEW e \in Endpoint
  PROVE  AgentMoves(e)
<1>1. ASSUME NEW accept, Answer(w, accept), Done(w),
             agent[e].via = w /\ agent'[e] = accept[e] => AgentMoves(e)
      PROVE  AgentMoves(e)
  <2>1. CASE agent'[e] = agent[e] /\ agent[e].via # w
    BY <1>1, <2>1, ServedElsewhere DEF Done, AgentMoves
  <2>2. CASE agent'[e] = [agent[e] EXCEPT !.via = NoThread]
    BY <2>2 DEF AgentMoves
  <2>3. QED
    BY <1>1, <2>1, <2>2, AnswerMoves
<1>2. ASSUME NEW B, HandedTo(e, B), agent'[e] = Running(B) PROVE AgentMoves(e)
  <2>1. CASE B = {}
    BY <1>2, <2>1 DEF Running, AgentMoves
  <2>2. CASE B # {}
    <3>1. B \in SUBSET Work
      BY <1>2 DEF HandedTo
    <3>2. QED
      BY <1>2, <2>2, <3>1 DEF Running, AgentMoves
  <2>3. QED
    BY <2>1, <2>2
<1>3. agent[e].via = w => thread[w].ep = e
  BY AgentAssumption DEF AInv, AwaitsOwn
<1>4. CASE HeartbeatServed(w)
  <2>1. PICK a : a = [f \in Endpoint |-> IdleAgent]
    OBVIOUS
  <2>2. Answer(w, a) /\ Done(w) /\ a[e] = IdleAgent
    BY <1>4, <2>1 DEF HeartbeatServed, Heartbeat
  <2>3. QED
    BY <1>1, <2>2 DEF AgentMoves
<1>5. CASE ClaimServed(w)
  <2>1. PICK a : a = [f \in Endpoint |-> Running(Handed)]
    OBVIOUS
  <2>2. Answer(w, a) /\ Done(w) /\ a[e] = Running(Handed)
    BY <1>5, <2>1 DEF ClaimServed, Claim
  <2>3. PICK B : B = Handed
    OBVIOUS
  <2>4. agent[e].via = w => HandedTo(e, B)
    BY <1>3, <1>5, <2>3, ClaimHands DEF ClaimServed
  <2>5. QED
    BY <1>1, <1>2, <2>2, <2>3, <2>4
<1>6. CASE ResultRead(w)
  <2>1. ReadResult(w) /\ thread \in [Thread -> Request]
    BY <1>6 DEF ResultRead, AInv, FInv, TypeOK
  <2>2. CASE thread'[w].op = "outcome"
    <3>1. agent' = agent
      BY <1>6, <2>2 DEF ResultRead
    <3>2. /\ thread'[w].ep = thread[w].ep
          /\ Reporting(w) /\ Reporting(w)'
      BY <2>1, <2>2, ResultIsRead DEF AInv, FInv, NoRequest, Reporting
    <3>3. \A v \in Thread : v # w => thread'[v] = thread[v]
      BY <2>1 DEF ReadResult, Done
    <3>4. StillServed(e)
      BY <3>2, <3>3 DEF StillServed
    <3>5. QED
      BY <3>1, <3>4 DEF AgentMoves
  <2>3. CASE thread'[w].op # "outcome"
    <3>1. PICK a : a = [f \in Endpoint |-> IdleAgent]
      OBVIOUS
    <3>2. Answer(w, a) /\ a[e] = IdleAgent
      BY <1>6, <2>3, <3>1 DEF ResultRead
    <3>3. Done(w)
      BY <2>1, <2>3 DEF ReadResult, Request
    <3>4. QED
      BY <1>1, <3>2, <3>3 DEF AgentMoves
  <2>4. QED
    BY <2>2, <2>3
<1>7. CASE ResultServed(w)
  <2>1. PICK a : a = [f \in Endpoint |-> Running(Rest(f))]
    OBVIOUS
  <2>2. Answer(w, a) /\ Done(w) /\ a[e] = Running(Rest(e))
    BY <1>7, <2>1 DEF ResultServed, Result
  <2>3. PICK B : B = Rest(e)
    OBVIOUS
  <2>4. HandedTo(e, B)
    BY <2>3, RestHanded
  <2>5. QED
    BY <1>1, <1>2, <2>2, <2>3, <2>4
<1>8. QED
  BY <1>4, <1>5, <1>6, <1>7 DEF Served

LEMMA AgentStepMoves ==
  ASSUME AInv, [ANext]_avars, NEW e \in Endpoint
  PROVE  AgentMoves(e)
<1>1. ASSUME NEW w \in Thread, RequestBreaks(w) PROVE AgentMoves(e)
  <2>1. agent'[e] = IF agent[e].via = w THEN IdleAgent ELSE agent[e]
    BY <1>1 DEF RequestBreaks
  <2>2. thread' = [thread EXCEPT ![w] = NoRequest]
    BY <1>1 DEF RequestBreaks, RequestFails, Done
  <2>3. QED
    BY <2>1, <2>2, ServedElsewhere DEF AgentMoves
<1>2. ASSUME NEW w \in Thread, Alone(Sweep(w)) PROVE AgentMoves(e)
  <2>1. agent'[e] = agent[e] /\ thread' = [thread EXCEPT ![w] = NoRequest] /\ Is(w, "sweep")
    BY <1>2 DEF Alone, Sweep, Done
  <2>2. QED
    BY <2>1, FreeThread, ServedElsewhere DEF AgentMoves, Is
<1>3. CASE Alone(Operator)
  <2>1. agent'[e] = agent[e]
    BY <1>3 DEF Alone
  <2>2. ASSUME NEW w \in Thread, ReadSweep(w) PROVE AgentMoves(e)
    <3>1. PICK r : thread' = [thread EXCEPT ![w] = r] /\ Is(w, "idle")
      BY <2>2 DEF ReadSweep
    <3>2. QED
      BY <2>1, <3>1, FreeThread, ServedElsewhere DEF AgentMoves, Is
  <2>3. ASSUME thread' = thread PROVE AgentMoves(e)
    BY <2>1, <2>3, SameThreads DEF AgentMoves
  <2>4. QED
    BY <1>3, <2>2, <2>3 DEF Alone, Operator, Dispatch, Revoke
<1>4. CASE Alone(Time)
  BY <1>4, SameThreads DEF Alone, Time, BackoffElapses, TaskAges, AgentMoves
<1>5. CASE UNCHANGED avars
  BY <1>5, SameThreads DEF avars, AgentMoves
<1>6. QED
  BY <1>1, <1>2, <1>3, <1>4, <1>5, SendMoves, AloneMoves, ServedMoves, AgentStepsAreServed
  DEF ANext, AgentStep

(* How a server thread changes, now that only an agent sends a result.     *)
LEMMA AgentThreadStep ==
  ASSUME AInv, [ANext]_avars, NEW v \in Thread
  PROVE  \/ thread'[v] = thread[v]
         \/ thread'[v].op \in {"idle", "beat", "claim", "sweep"}
         \/ \E e \in Endpoint : SendResult(e, v)
         \/ ReadResult(v)
<1> DEFINE Goal == \/ thread'[v] = thread[v]
                   \/ thread'[v].op \in {"idle", "beat", "claim", "sweep"}
                   \/ \E e \in Endpoint : SendResult(e, v)
                   \/ ReadResult(v)
<1>1. thread \in [Thread -> Request]
  BY DEF AInv, FInv, TypeOK
<1>2. ASSUME NEW w \in Thread, Done(w) PROVE Goal
  BY <1>1, <1>2 DEF Done, NoRequest
<1>3. ASSUME NEW e \in Endpoint, NEW w \in Thread, SendHeartbeat(e, w) \/ SendClaim(e, w)
      PROVE  Goal
  <2>1. CASE SendHeartbeat(e, w)
    BY <1>1, <2>1 DEF SendHeartbeat, ArriveHeartbeat, Authenticate, NoRequest
  <2>2. CASE SendClaim(e, w)
    BY <1>1, <2>2 DEF SendClaim, ArriveClaim, Authenticate, NoRequest
  <2>3. QED
    BY <1>3, <2>1, <2>2
<1>4. ASSUME NEW e \in Endpoint, NEW w \in Thread, SendResult(e, w) PROVE Goal
  <2>1. CASE w = v
    BY <1>4, <2>1
  <2>2. CASE w # v
    BY <1>1, <1>4, <2>2 DEF SendResult, ArriveResult, Authenticate
  <2>3. QED
    BY <2>1, <2>2
<1>5. ASSUME NEW w \in Thread, ReadResult(w) PROVE Goal
  <2>1. CASE w = v
    BY <1>5, <2>1
  <2>2. CASE w # v
    BY <1>1, <1>5, <2>2 DEF ReadResult, Done
  <2>3. QED
    BY <2>1, <2>2
<1>6. ASSUME NEW w \in Thread, ReadSweep(w) PROVE Goal
  <2>1. CASE w = v
    BY <1>6, <2>1, SweepIsRead DEF AInv, FInv
  <2>2. CASE w # v
    BY <1>1, <1>6, <2>2 DEF ReadSweep
  <2>3. QED
    BY <2>1, <2>2
<1>7. ASSUME thread' = thread PROVE Goal
  BY <1>7
<1>8. ASSUME NEW w \in Thread, Served(w) \/ RequestBreaks(w) \/ Alone(Sweep(w)) PROVE Goal
  <2>1. Done(w) \/ ReadResult(w)
    BY <1>8 DEF Served, HeartbeatServed, Heartbeat, ClaimServed, Claim, ResultRead,
                ResultServed, Result, RequestBreaks, RequestFails, Alone, Sweep
  <2>2. QED
    BY <1>2, <1>5, <2>1
<1>9. ASSUME NEW e \in Endpoint, Collect(e) \/ Refused(e) \/ TimesOut(e) \/ Reboot(e)
      PROVE  Goal
  BY <1>7, <1>9 DEF Collect, Refused, TimesOut, Reboot
<1>10. CASE Alone(Operator) \/ Alone(Time) \/ UNCHANGED avars
  <2>1. thread' = thread \/ \E w \in Thread : ReadSweep(w)
    BY <1>10 DEF Alone, Operator, Dispatch, Revoke, Time, BackoffElapses, TaskAges, avars
  <2>2. QED
    BY <1>6, <1>7, <2>1
<1>11. QED
  BY <1>3, <1>4, <1>8, <1>9, <1>10 DEF ANext, AgentStep

-----------------------------------------------------------------------------
(* The invariant is kept                                                   *)

LEMMA CollectedGrows ==
  ASSUME AInv, [ANext]_avars
  PROVE  collected \subseteq collected' /\ collected' \subseteq Work
<1>1. collected \subseteq Work
  BY DEF AInv, ATypeOK
<1>2. ASSUME NEW e \in Endpoint, Collect(e)
      PROVE  collected \subseteq collected' /\ collected' \subseteq Work
  <2>1. agent[e].batch \subseteq Work
    BY DEF AInv, ATypeOK, Agent
  <2>2. QED
    BY <1>1, <1>2, <2>1 DEF Collect
<1>3. ASSUME NEW e \in Endpoint, NEW w \in Thread,
             SendHeartbeat(e, w) \/ SendClaim(e, w) \/ SendResult(e, w)
      PROVE  collected' = collected
  BY <1>3 DEF SendHeartbeat, SendClaim, SendResult
<1>4. ASSUME NEW e \in Endpoint, Refused(e) \/ TimesOut(e) \/ Reboot(e)
      PROVE  collected' = collected
  BY <1>4 DEF Refused, TimesOut, Reboot
<1>5. ASSUME NEW w \in Thread, Served(w) \/ RequestBreaks(w) \/ Alone(Sweep(w))
      PROVE  collected' = collected
  BY <1>5 DEF Served, HeartbeatServed, ClaimServed, ResultRead, ResultServed,
              RequestBreaks, Alone
<1>6. CASE Alone(Operator) \/ Alone(Time) \/ UNCHANGED avars
  BY <1>1, <1>6 DEF Alone, avars
<1>7. QED
  BY <1>1, <1>2, <1>3, <1>4, <1>5, <1>6 DEF ANext, AgentStep

LEMMA LossesBounded ==
  ASSUME AInv, [ANext]_avars
  PROVE  losses' \in 0..MaxLosses
<1>1. losses \in 0..MaxLosses /\ MaxLosses \in Nat
  BY AgentAssumption DEF AInv, ATypeOK
<1>2. losses' = losses \/ Lose
  <2>1. ASSUME NEW w \in Thread, Served(w) PROVE losses' = losses \/ Lose
    BY <2>1 DEF Served, HeartbeatServed, ClaimServed, ResultRead, ResultServed, Answer
  <2>2. ASSUME NEW w \in Thread, RequestBreaks(w) \/ Alone(Sweep(w))
        PROVE  losses' = losses \/ Lose
    BY <2>2 DEF RequestBreaks, Alone
  <2>3. ASSUME NEW e \in Endpoint, NEW w \in Thread,
               SendHeartbeat(e, w) \/ SendClaim(e, w) \/ SendResult(e, w)
        PROVE  losses' = losses
    BY <2>3 DEF SendHeartbeat, SendClaim, SendResult
  <2>4. ASSUME NEW e \in Endpoint, Collect(e) \/ Refused(e) \/ TimesOut(e) \/ Reboot(e)
        PROVE  losses' = losses \/ Lose
    BY <2>4 DEF Collect, Refused, TimesOut, Reboot
  <2>5. CASE Alone(Operator) \/ Alone(Time) \/ UNCHANGED avars
    BY <2>5 DEF Alone, avars
  <2>6. QED
    BY <2>1, <2>2, <2>3, <2>4, <2>5 DEF ANext, AgentStep
<1>3. QED
  BY <1>1, <1>2 DEF Lose

LEMMA AgentMovesType ==
  ASSUME AInv, NEW e \in Endpoint, AgentMoves(e)
  PROVE  agent'[e] \in Agent
<1>1. agent[e] \in Agent /\ agent[e].batch \subseteq Work
  BY DEF AInv, ATypeOK, Agent
<1>2. CASE agent'[e] = agent[e] \/ agent'[e] = IdleAgent
  BY <1>1, <1>2, IdleType
<1>3. CASE agent'[e] = [agent[e] EXCEPT !.via = NoThread]
  BY <1>1, <1>3 DEF Agent
<1>4. ASSUME NEW w \in Thread, NEW p \in Waiting,
             agent'[e] = [agent[e] EXCEPT !.pc = p, !.via = w]
      PROVE  agent'[e] \in Agent
  BY <1>1, <1>4 DEF Agent
<1>5. ASSUME NEW j \in agent[e].batch, NEW ok \in BOOLEAN,
             agent'[e] = [agent[e] EXCEPT !.pc = "report", !.job = j, !.ok = ok]
      PROVE  agent'[e] \in Agent
  BY <1>1, <1>5 DEF Agent
<1>6. ASSUME NEW B \in SUBSET Work,
             agent'[e] = [IdleAgent EXCEPT !.pc = "run", !.batch = B]
      PROVE  agent'[e] \in Agent
  BY <1>6, IdleType DEF Agent
<1>7. QED
  BY <1>2, <1>3, <1>4, <1>5, <1>6 DEF AgentMoves, Waiting

LEMMA AgentsAreKept ==
  ASSUME AInv, [ANext]_avars
  PROVE  agent' = [e \in Endpoint |-> agent'[e]]
<1> DEFINE Goal == agent' = [e \in Endpoint |-> agent'[e]]
<1>1. agent = [e \in Endpoint |-> agent[e]]
  BY DEF AInv, ATypeOK
<1>3. ASSUME agent' = agent PROVE Goal
  BY <1>1, <1>3
<1>4. ASSUME NEW w \in Thread, NEW accept, Answer(w, accept) PROVE Goal
  BY <1>1, <1>4 DEF Answer
<1>5. ASSUME NEW w \in Thread, Served(w) PROVE Goal
  BY <1>3, <1>4, <1>5 DEF Served, HeartbeatServed, ClaimServed, ResultRead, ResultServed
<1>6. ASSUME NEW w \in Thread, RequestBreaks(w) \/ Alone(Sweep(w)) PROVE Goal
  BY <1>1, <1>6 DEF RequestBreaks, Alone
<1>7. ASSUME NEW e \in Endpoint, NEW w \in Thread,
             SendHeartbeat(e, w) \/ SendClaim(e, w) \/ SendResult(e, w)
      PROVE  Goal
  BY <1>1, <1>7 DEF SendHeartbeat, SendClaim, SendResult, Sends
<1>8. ASSUME NEW e \in Endpoint, Collect(e) \/ Refused(e) \/ TimesOut(e) \/ Reboot(e)
      PROVE  Goal
  BY <1>1, <1>8 DEF Collect, Refused, TimesOut, Reboot, GiveUp
<1>9. CASE Alone(Operator) \/ Alone(Time) \/ UNCHANGED avars
  BY <1>1, <1>9 DEF Alone, avars
<1>10. QED
  BY <1>5, <1>6, <1>7, <1>8, <1>9 DEF ANext, AgentStep

LEMMA NextATypeOK ==
  ASSUME AInv, [ANext]_avars
  PROVE  ATypeOK'
<1>1. TypeOK'
  BY AgentStepsAreServed, NextTypeOK DEF AInv
<1>2. \A e \in Endpoint : agent'[e] \in Agent
  BY AgentStepMoves, AgentMovesType
<1>3. agent' = [e \in Endpoint |-> agent'[e]]
  BY AgentsAreKept
<1>4. QED
  BY <1>1, <1>2, <1>3, CollectedGrows, LossesBounded DEF ATypeOK

LEMMA AwaitsOwnKept ==
  ASSUME AInv, NEW e \in Endpoint, AgentMoves(e)
  PROVE  AwaitsOwn(e)'
<1> USE DEF AwaitsOwn, Is, Reporting
<1>1. agent[e] \in Agent /\ AwaitsOwn(e)
  BY DEF AInv, ATypeOK
<1>2. CASE agent'[e] = agent[e] /\ StillServed(e)
  BY <1>1, <1>2 DEF StillServed, Agent
<1>3. CASE agent'[e] = IdleAgent
  BY <1>3, IdleType
<1>4. CASE agent'[e] = [agent[e] EXCEPT !.via = NoThread]
  BY <1>1, <1>4 DEF Agent
<1>5. ASSUME NEW w \in Thread, thread'[w].ep = e,
             \/ /\ agent'[e] = [agent[e] EXCEPT !.pc = "beating", !.via = w]
                /\ thread'[w].op = "beat"
             \/ /\ agent'[e] = [agent[e] EXCEPT !.pc = "claiming", !.via = w]
                /\ thread'[w].op = "claim"
             \/ /\ agent'[e] = [agent[e] EXCEPT !.pc = "reporting", !.via = w]
                /\ thread'[w].op = "result"
      PROVE  AwaitsOwn(e)'
  BY <1>1, <1>5 DEF Agent
<1>6. ASSUME NEW j \in agent[e].batch, NEW ok \in BOOLEAN, agent[e].pc = "run",
             agent'[e] = [agent[e] EXCEPT !.pc = "report", !.job = j, !.ok = ok]
      PROVE  AwaitsOwn(e)'
  BY <1>1, <1>6 DEF Agent
<1>7. ASSUME NEW B \in SUBSET Work,
             agent'[e] = [IdleAgent EXCEPT !.pc = "run", !.batch = B]
      PROVE  AwaitsOwn(e)'
  BY <1>7, IdleType DEF Agent
<1>8. QED
  BY <1>2, <1>3, <1>4, <1>5, <1>6, <1>7 DEF AgentMoves

LEMMA ReportsItsWorkKept ==
  ASSUME AInv, NEW e \in Endpoint, AgentMoves(e), collected \subseteq collected'
  PROVE  ReportsItsWork(e)'
<1> USE DEF ReportsItsWork
<1>1. agent[e] \in Agent /\ ReportsItsWork(e)
  BY DEF AInv, ATypeOK
<1>2. CASE agent'[e] = agent[e]
  BY <1>1, <1>2
<1>3. CASE agent'[e] = IdleAgent
  BY <1>3, IdleType
<1>4. CASE agent'[e] = [agent[e] EXCEPT !.via = NoThread]
  BY <1>1, <1>4 DEF Agent
<1>5. ASSUME NEW w \in Thread,
             \/ agent'[e] = [agent[e] EXCEPT !.pc = "beating", !.via = w]
             \/ agent'[e] = [agent[e] EXCEPT !.pc = "claiming", !.via = w]
             \/ /\ agent'[e] = [agent[e] EXCEPT !.pc = "reporting", !.via = w]
                /\ agent[e].pc = "report"
      PROVE  ReportsItsWork(e)'
  <2>1. /\ \/ agent'[e].pc \in {"beating", "claiming"}
           \/ agent'[e].pc = "reporting" /\ agent[e].pc = "report"
        /\ agent'[e].job = agent[e].job /\ agent'[e].batch = agent[e].batch
        /\ agent'[e].ok <=> agent[e].ok
    BY <1>1, <1>5 DEF Agent
  <2>2. QED
    BY <1>1, <2>1
<1>6. ASSUME NEW j \in agent[e].batch, NEW ok \in BOOLEAN, ok => j \in collected',
             agent'[e] = [agent[e] EXCEPT !.pc = "report", !.job = j, !.ok = ok]
      PROVE  ReportsItsWork(e)'
  BY <1>1, <1>6 DEF Agent
<1>7. ASSUME NEW B \in SUBSET Work,
             agent'[e] = [IdleAgent EXCEPT !.pc = "run", !.batch = B]
      PROVE  ReportsItsWork(e)'
  BY <1>7, IdleType DEF Agent
<1>8. QED
  BY <1>2, <1>3, <1>4, <1>5, <1>6, <1>7 DEF AgentMoves

(* An agent's batch stays as it was, shrinks, or is handed to it.          *)
LEMMA BatchMoves ==
  ASSUME AInv, NEW e \in Endpoint, AgentMoves(e)
  PROVE  agent'[e].batch \subseteq agent[e].batch \/ HandedTo(e, agent'[e].batch)
<1>1. agent[e] \in Agent
  BY DEF AInv, ATypeOK
<1>2. CASE \/ agent'[e] = agent[e]
           \/ agent'[e] = [agent[e] EXCEPT !.via = NoThread]
           \/ \E w \in Thread :
                \/ agent'[e] = [agent[e] EXCEPT !.pc = "beating", !.via = w]
                \/ agent'[e] = [agent[e] EXCEPT !.pc = "claiming", !.via = w]
                \/ agent'[e] = [agent[e] EXCEPT !.pc = "reporting", !.via = w]
           \/ \E j \in agent[e].batch, ok \in BOOLEAN :
                agent'[e] = [agent[e] EXCEPT !.pc = "report", !.job = j, !.ok = ok]
  BY <1>1, <1>2 DEF Agent
<1>3. CASE agent'[e] = IdleAgent
  BY <1>3, IdleType
<1>4. ASSUME NEW B \in SUBSET Work, HandedTo(e, B),
             agent'[e] = [IdleAgent EXCEPT !.pc = "run", !.batch = B]
      PROVE  HandedTo(e, agent'[e].batch)
  <2>1. agent'[e].batch = B
    BY <1>4, IdleType DEF Agent
  <2>2. PICK C : C = agent'[e].batch
    OBVIOUS
  <2>3. QED
    BY <1>4, <2>1
<1>5. QED
  BY <1>2, <1>3, <1>4 DEF AgentMoves

LEMMA NextBatches ==
  ASSUME AInv, [ANext]_avars
  PROVE  BatchWasHandedOut'
<1> SUFFICES ASSUME NEW e \in Endpoint, NEW j \in agent'[e].batch
             PROVE  task'[j.task].ep = e /\ j.attempt \in 1..task'[j.task].attempts
  BY DEF BatchWasHandedOut
<1>1. [Next]_vars
  BY AgentStepsAreServed
<1>2. CASE agent'[e].batch \subseteq agent[e].batch
  BY <1>1, <1>2, HandedOutStays
<1>3. CASE HandedTo(e, agent'[e].batch)
  BY <1>3 DEF HandedTo
<1>4. QED
  BY <1>2, <1>3, AgentStepMoves, BatchMoves

LEMMA NextEvidence ==
  ASSUME AInv, [ANext]_avars, NEW v \in Thread
  PROVE  CarriesEvidence(v)'
<1>1. /\ collected \subseteq collected' /\ CarriesEvidence(v)
      /\ thread \in [Thread -> Request] /\ TypeOK
  BY CollectedGrows DEF AInv, FInv, TypeOK
<1>2. CASE thread'[v] = thread[v]
  BY <1>1, <1>2 DEF CarriesEvidence, Reporting
<1>3. CASE thread'[v].op \in {"idle", "beat", "claim", "sweep"}
  BY <1>3 DEF CarriesEvidence, Reporting
<1>4. ASSUME NEW e \in Endpoint, SendResult(e, v) PROVE CarriesEvidence(v)'
  <2>1. /\ thread'[v].task = agent[e].job.task
        /\ thread'[v].run = agent[e].job.attempt
        /\ thread'[v].ok = agent[e].ok
    BY <1>1, <1>4 DEF SendResult, ArriveResult, Authenticate, NoRequest
  <2>2. /\ agent[e].ok => agent[e].job \in collected
        /\ agent[e].job \in Work
    BY <1>4 DEF SendResult, AInv, ReportsItsWork, ATypeOK, Agent
  <2>3. agent[e].job = [task |-> agent[e].job.task, attempt |-> agent[e].job.attempt]
    BY <2>2 DEF Work
  <2>4. QED
    BY <1>1, <2>1, <2>2, <2>3 DEF CarriesEvidence
<1>5. CASE ReadResult(v)
  <2>1. \/ thread'[v] = NoRequest
        \/ /\ thread'[v].task = thread[v].task /\ thread'[v].run = thread[v].run
           /\ (thread'[v].ok <=> thread[v].ok) /\ Reporting(v)
    <3>1. thread'[v] = NoRequest \/ (thread'[v].ok <=> thread[v].ok)
      BY <1>1, <1>5 DEF ReadResult, Done, Request
    <3>2. QED
      BY <1>1, <1>5, <3>1, ResultIsRead DEF Reporting
  <2>2. CASE thread'[v] = NoRequest
    BY <2>2 DEF CarriesEvidence, Reporting, NoRequest
  <2>3. CASE thread'[v] # NoRequest
    BY <1>1, <2>1, <2>3 DEF CarriesEvidence
  <2>4. QED
    BY <2>2, <2>3
<1>6. QED
  BY <1>2, <1>3, <1>4, <1>5, AgentThreadStep

LEMMA NextAInv == AInv /\ [ANext]_avars => AInv'
<1> SUFFICES ASSUME AInv, [ANext]_avars PROVE AInv'
  OBVIOUS
<1>1. [Next]_vars /\ collected \subseteq collected'
  BY AgentStepsAreServed, CollectedGrows
<1>2. FInv' /\ AbsentIsFree'
  BY <1>1, NextFInv, AbsentStep DEF AInv
<1>3. ATypeOK' /\ BatchWasHandedOut'
  BY NextATypeOK, NextBatches
<1>4. ASSUME NEW e \in Endpoint PROVE AwaitsOwn(e)' /\ ReportsItsWork(e)'
  BY <1>1, AgentStepMoves, AwaitsOwnKept, ReportsItsWorkKept
<1>5. \A v \in Thread : CarriesEvidence(v)'
  BY NextEvidence
<1>6. ResultIsEvidence'
  BY <1>1, ResultStaysEvidence
<1>7. QED
  BY <1>2, <1>3, <1>4, <1>5, <1>6 DEF AInv

LEMMA AgentInvariant == ASpec => []AInv
  BY InitAInv, NextAInv, PTL DEF ASpec

(* The rows, the requests, the agents and what they collected keep their   *)
(* shapes, however messages are lost and machines reboot.                  *)
THEOREM AgentTypes == ASpec => []ATypeOK
  BY AgentInvariant, PTL DEF AInv

(* No interleaving of claims, sweeps and late answers stores a result that *)
(* no collection of a handed-out attempt ended with (submit_result,        *)
(* run_task).                                                              *)
THEOREM EvidenceIsCollected == ASpec => []ResultIsEvidence
  BY AgentInvariant, PTL DEF AInv

(* What an agent works on was queued for its endpoint and counted by the   *)
(* server (claim_tasks, poll_once).                                        *)
THEOREM BatchesHandedOut == ASpec => []BatchWasHandedOut
  BY AgentInvariant, PTL DEF AInv

(* A revoked endpoint with no heartbeat and no claim in flight is never    *)
(* handed work again (authenticate, claim_tasks).                          *)
LEMMA RevokedStaysIdle ==
  ASSUME AInv, [ANext]_avars, NEW e \in Endpoint, estatus[e] = "revoked",
         ~BeatInFlight(e), ~ClaimInFlight(e)
  PROVE  /\ agent'[e].batch \subseteq agent[e].batch
         /\ ~BeatInFlight(e)' /\ ~ClaimInFlight(e)'
<1>1. TypeOK /\ [Next]_vars
  BY AgentStepsAreServed DEF AInv, FInv
<1>2. ~BeatInFlight(e)'
  BY <1>1, RevokedStep
<1>3. agent'[e].batch \subseteq agent[e].batch
  BY AgentStepMoves, BatchMoves DEF HandedTo
<1>4. SUFFICES ASSUME NEW v \in Thread, thread'[v].op = "claim", thread'[v].ep = e
               PROVE  FALSE
  BY <1>2, <1>3 DEF ClaimInFlight, Is
<1>5. CASE thread'[v] = thread[v] \/ thread'[v] = NoRequest
  BY <1>4, <1>5 DEF ClaimInFlight, Is, NoRequest
<1>6. ASSUME NEW f \in Endpoint, ArriveHeartbeat(v, f) \/ ArriveClaim(v, f) PROVE FALSE
  <2>1. thread'[v].op = "beat" \/ (thread'[v].ep = f /\ estatus[f] # "revoked")
    BY <1>1, <1>6 DEF ArriveHeartbeat, ArriveClaim, Authenticate, NoRequest, TypeOK
  <2>2. QED
    BY <1>4, <2>1
<1>7. ASSUME NEW f \in Endpoint, NEW t \in Task, NEW ok \in BOOLEAN,
             NEW run \in 1..task[t].attempts, ArriveResult(v, f, t, run, ok)
      PROVE  FALSE
  BY <1>1, <1>4, <1>7 DEF ArriveResult, Authenticate, NoRequest, TypeOK
<1>8. CASE ReadSweep(v)
  BY <1>1, <1>4, <1>8, SweepIsRead
<1>9. CASE ReadResult(v)
  BY <1>1, <1>4, <1>9, ResultIsRead DEF NoRequest
<1>10. QED
  BY <1>1, <1>5, <1>6, <1>7, <1>8, <1>9, ThreadStep

THEOREM RevokedIdles == ASpec => RevokedGetsNoWork
<1>1. AInv /\ [ANext]_avars =>
         [\A e \in Endpoint :
             (estatus[e] = "revoked" /\ ~BeatInFlight(e) /\ ~ClaimInFlight(e)) =>
                 /\ agent'[e].batch \subseteq agent[e].batch
                 /\ (~BeatInFlight(e) /\ ~ClaimInFlight(e))']_avars
  BY RevokedStaysIdle
<1>2. QED
  BY AgentInvariant, <1>1, PTL DEF ASpec, RevokedGetsNoWork

(* With its agents, the control plane still behaves as Fleet says of it    *)
(* alone: every step of an agent is a request Fleet reckons with, or none. *)
THEOREM AgentsImplementFleet == ASpec => Spec
<1>1. AInit => Init
  BY DEF AInit
<1>2. QED
  BY <1>1, AgentStepsAreServed, AgentInvariant, PTL DEF ASpec, Spec

(* What holds of the control plane for any requests holds with the agents: *)
(* closed tasks are explained, revocation and closure are undone by        *)
(* nothing but requests already in flight.                                 *)
THEOREM AgentsKeepClosure == ASpec => []ClosedIsExplained /\ FinalUnlessInFlight
  BY AgentsImplementFleet, ClosedExplained, FinalityStays

=============================================================================
