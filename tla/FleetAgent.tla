----------------------------- MODULE FleetAgent -----------------------------
(***************************************************************************)
(* The control plane of Fleet together with the agents of                  *)
(* endpoint/agent.py: one sequential agent per endpoint that heartbeats,   *)
(* claims a batch, collects its tasks one after the other and reports each *)
(* once.  Requests and responses can be lost, a request can outlive the    *)
(* agent's patience, and the agent's machine can reboot.                   *)
(***************************************************************************)
EXTENDS Fleet

CONSTANTS
    NoThread,   \* the server thread of an agent that waits for no answer
    NoWork,     \* the job of an agent that collects nothing
    MaxLosses   \* bound: lost messages, timeouts, failed requests, reboots

ASSUME AgentAssumption ==
    /\ NoThread \notin Thread
    /\ NoWork \notin [task : Task, attempt : Nat]
    /\ MaxLosses \in Nat

VARIABLES
    agent,      \* the control state of each endpoint's agent
    collected,  \* the work an agent collected with success so far
    losses      \* what was lost so far

avars == <<estatus, task, thread, agent, collected, losses>>

Work == [task : Task, attempt : Nat]

Waiting == {"beating", "claiming", "reporting"}
Agent == [pc : {"idle", "run", "report"} \cup Waiting, batch : SUBSET Work,
          job : Work \cup {NoWork}, ok : BOOLEAN, via : Thread \cup {NoThread}]

IdleAgent == [pc |-> "idle", batch |-> {}, job |-> NoWork, ok |-> FALSE,
              via |-> NoThread]

AInit ==
    /\ Init
    /\ agent = [e \in Endpoint |-> IdleAgent]
    /\ collected = {}
    /\ losses = 0

Lose ==
    /\ losses < MaxLosses
    /\ losses' = losses + 1

(* AgentError: what is left of the batch is forgotten, run() backs off.    *)
GiveUp(e) == agent' = [agent EXCEPT ![e] = IdleAgent]

Sends(e, w, pc) == agent' = [agent EXCEPT ![e].pc = pc, ![e].via = w]

-----------------------------------------------------------------------------
(* Steps of an agent                                                       *)

SendHeartbeat(e, w) ==
    /\ agent[e].pc = "idle"
    /\ ArriveHeartbeat(w, e)
    /\ Sends(e, w, "beating")
    /\ UNCHANGED <<collected, losses>>

SendClaim(e, w) ==
    /\ agent[e].pc = "idle"
    /\ ArriveClaim(w, e)
    /\ Sends(e, w, "claiming")
    /\ UNCHANGED <<collected, losses>>

(* run_task always ends, with a result or with an error.                   *)
Collect(e) ==
    /\ agent[e].pc = "run"
    /\ \E j \in agent[e].batch, ok \in BOOLEAN :
          /\ agent' = [agent EXCEPT ![e].pc = "report", ![e].job = j, ![e].ok = ok]
          /\ collected' = IF ok THEN collected \cup {j} ELSE collected
    /\ UNCHANGED <<estatus, task, thread, losses>>

SendResult(e, w) ==
    /\ agent[e].pc = "report"
    /\ ArriveResult(w, e, agent[e].job.task, agent[e].job.attempt, agent[e].ok)
    /\ Sends(e, w, "reporting")
    /\ UNCHANGED <<collected, losses>>

(* authenticate answers 403.                                               *)
Refused(e) ==
    /\ agent[e].pc = "report"
    /\ estatus[e] = "revoked"
    /\ GiveUp(e)
    /\ UNCHANGED <<estatus, task, thread, collected, losses>>

(* No answer within REQUEST_TIMEOUT: it was lost, or is still to come.     *)
TimesOut(e) ==
    /\ agent[e].pc \in Waiting
    /\ IF agent[e].via = NoThread THEN UNCHANGED losses ELSE Lose
    /\ GiveUp(e)
    /\ UNCHANGED <<estatus, task, thread, collected>>

Reboot(e) ==
    /\ agent[e].pc # "idle"
    /\ Lose
    /\ GiveUp(e)
    /\ UNCHANGED <<estatus, task, thread, collected>>

-----------------------------------------------------------------------------
(* Steps of the server, with the answer to the agent that waits for it     *)

(* The answer arrives, is lost, or finds nobody waiting any more.          *)
Answer(w, accept) ==
    \/ \E e \in Endpoint :
          /\ agent[e].via = w
          /\ \/ agent' = [agent EXCEPT ![e] = accept[e]] /\ UNCHANGED losses
             \/ agent' = [agent EXCEPT ![e].via = NoThread] /\ Lose
    \/ /\ \A e \in Endpoint : agent[e].via # w
       /\ UNCHANGED <<agent, losses>>

(* An agent with work left collects, one without polls again.              *)
Running(batch) ==
    IF batch = {} THEN IdleAgent
    ELSE [IdleAgent EXCEPT !.pc = "run", !.batch = batch]

HeartbeatServed(w) ==
    /\ Heartbeat(w)
    /\ Answer(w, [e \in Endpoint |-> IdleAgent])
    /\ UNCHANGED collected

(* The tasks this step hands out, with the attempt each is handed out for. *)
Handed == {[task |-> t, attempt |-> task'[t].attempts] :
              t \in {u \in Task : task'[u].attempts # task[u].attempts}}

ClaimServed(w) ==
    /\ Claim(w)
    /\ Answer(w, [e \in Endpoint |-> Running(Handed)])
    /\ UNCHANGED collected

(* The conflict is an HTTP error to the agent, like any other failure.     *)
ResultRead(w) ==
    /\ ReadResult(w)
    /\ IF thread'[w].op = "outcome"
       THEN UNCHANGED <<agent, losses>>
       ELSE Answer(w, [e \in Endpoint |-> IdleAgent])
    /\ UNCHANGED collected

Rest(e) == agent[e].batch \ {agent[e].job}
ResultServed(w) ==
    /\ Result(w)
    /\ Answer(w, [e \in Endpoint |-> Running(Rest(e))])
    /\ UNCHANGED collected

RequestBreaks(w) ==
    /\ RequestFails(w)
    /\ Lose
    /\ agent' = [e \in Endpoint |-> IF agent[e].via = w THEN IdleAgent ELSE agent[e]]
    /\ UNCHANGED collected

Served(w) == HeartbeatServed(w) \/ ClaimServed(w) \/ ResultRead(w) \/ ResultServed(w)

Alone(A) == A /\ UNCHANGED <<agent, collected, losses>>

-----------------------------------------------------------------------------
AgentStep(e) ==
    \/ \E w \in Thread : SendHeartbeat(e, w) \/ SendClaim(e, w) \/ SendResult(e, w)
    \/ Collect(e) \/ Refused(e) \/ TimesOut(e) \/ Reboot(e)

ANext ==
    \/ \E e \in Endpoint : AgentStep(e)
    \/ \E w \in Thread : Served(w) \/ RequestBreaks(w) \/ Alone(Sweep(w))
    \/ Alone(Operator)
    \/ Alone(Time)

ASpec == AInit /\ [][ANext]_avars

(* Agents keep polling, the server answers, the operator keeps sweeping -  *)
(* nothing in the repository sweeps by itself - and time passes.  Sends    *)
(* compete for threads, hence strong fairness.                             *)
FairASpec ==
    /\ ASpec
    /\ \A e \in Endpoint :
          /\ SF_avars(\E w \in Thread : SendClaim(e, w))
          /\ SF_avars(\E w \in Thread : SendResult(e, w))
          /\ WF_avars(Collect(e) \/ Refused(e))
          /\ WF_avars(agent[e].via = NoThread /\ TimesOut(e))
    /\ \A w \in Thread : WF_avars(Served(w)) /\ WF_avars(Alone(Sweep(w)))
    /\ SF_avars(\E w \in Thread : Alone(ReadSweep(w)))
    /\ \A t \in Task : WF_avars(Alone(BackoffElapses(t))) /\ WF_avars(Alone(TaskAges(t)))

-----------------------------------------------------------------------------
(* Properties                                                              *)

(* Every variable has the shape the code gives it.                         *)
ATypeOK ==
    /\ TypeOK
    /\ agent \in [Endpoint -> Agent]
    /\ collected \subseteq Work
    /\ losses \in 0..MaxLosses

(* A stored result is evidence: it is the outcome of a collection that the *)
(* endpoint the task was queued for ran and ended with success, for an     *)
(* attempt it was handed (submit_result, run_task).                        *)
ResultIsEvidence ==
    \A t \in Task : task[t].result # 0 =>
        [task |-> t, attempt |-> task[t].result] \in collected

(* An agent only ever works on tasks queued for its own endpoint, and      *)
(* never on an attempt the server has not counted (claim_tasks).           *)
BatchWasHandedOut ==
    \A e \in Endpoint : \A j \in agent[e].batch :
        /\ task[j.task].ep = e
        /\ j.attempt \in 1..task[j.task].attempts

(* Withdrawn authority: once an endpoint is revoked, with no heartbeat and *)
(* no claim of it in flight, its agent is never handed work again.         *)
ClaimInFlight(e) == \E w \in Thread : Is(w, "claim") /\ thread[w].ep = e
RevokedGetsNoWork ==
    [][\A e \in Endpoint :
          (estatus[e] = "revoked" /\ ~BeatInFlight(e) /\ ~ClaimInFlight(e)) =>
              /\ agent'[e].batch \subseteq agent[e].batch
              /\ (~BeatInFlight(e) /\ ~ClaimInFlight(e))']_avars

(* The endpoint can no longer authenticate after its revocation.           *)
RevocationHolds ==
    [][\A e \in Endpoint : estatus[e] = "revoked" => estatus'[e] = "revoked"]_avars

(* Evidence an endpoint already returned is untouched.                     *)
EvidenceHolds ==
    [][\A t \in Task : task[t].status = "succeeded" => task'[t] = task[t]]_avars

(* A machine rebooted mid-collection resumes instead of leaving a hole:    *)
(* every queued task is eventually closed, with its evidence or with a     *)
(* stated reason, unless its endpoint is revoked.                          *)
TaskEnds ==
    \A t \in Task : task[t].status = "queued" ~>
        \/ task[t].status \in Closed
        \/ task[t].ep # None /\ estatus[task[t].ep] = "revoked"
=============================================================================
