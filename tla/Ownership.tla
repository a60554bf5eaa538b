----------------------------- MODULE Ownership -----------------------------
(***************************************************************************)
(* Who owns the workspace: the engine process of backend/runtime.py with   *)
(* its workspace lock and a worker that may outlive the join of            *)
(* Workstation.close, and the client's supervisor                          *)
(* (backend_supervisor.dart), whose calls start, stop and restart          *)
(* interleave at every await with each other, with the frames an engine    *)
(* writes, and with its exit.                                              *)
(***************************************************************************)
EXTENDS Naturals, FiniteSets

CONSTANTS
    Engine,     \* processes that may be spawned
    NoEngine,   \* no process, no session
    Call,       \* calls of the user interface in progress
    MaxTrouble  \* bound: crashes, failed launches, timeouts

ASSUME OwnershipAssumption == NoEngine \notin Engine /\ MaxTrouble \in Nat

VARIABLES
    engine,     \* how far each process has come
    worker,     \* whether its worker thread is at work
    frame,      \* the frame it wrote that the client has not read
    seen,       \* the exits the client has handled
    process,    \* _process of the supervisor
    session,    \* the engine whose credential the client holds
    phase,      \* BackendStatus.phase
    managed,    \* BackendStatus.managedByClient
    hopeless,   \* _startupError is set
    call,       \* the calls in progress
    overlap,    \* history: two calls were past their check of _process
    outlived,   \* history: engines that gave the lock up with a worker busy
    trouble     \* crashes, failed launches, timeouts so far

client == <<process, session, phase, managed, hopeless>>
ovars == <<engine, worker, frame, seen, client, call, overlap, outlived, trouble>>

EnginePc == {"unused", "launched", "locked", "serving", "closing", "released",
             "refused", "gone"}
Phase == {"idle", "starting", "ready", "degraded", "unavailable", "stopping", "stopped"}
CallRow == [pc : {"idle", "start", "adopting", "spawning", "polling", "health",
                  "asking", "grace", "killing", "restart"},
            again : BOOLEAN, engine : Engine \cup {NoEngine}, up : BOOLEAN]

NoCallRow == [pc |-> "idle", again |-> FALSE, engine |-> NoEngine, up |-> FALSE]

OInit ==
    /\ engine = [e \in Engine |-> "unused"]
    /\ worker = [e \in Engine |-> "idle"]
    /\ frame = [e \in Engine |-> "none"]
    /\ seen = {}
    /\ process = NoEngine /\ session = NoEngine
    /\ phase = "idle" /\ managed = FALSE /\ hopeless = FALSE
    /\ call = [k \in Call |-> NoCallRow]
    /\ overlap = FALSE
    /\ outlived = {}
    /\ trouble = 0

Alive  == {e \in Engine : engine[e] \notin {"unused", "gone"}}
Owners == {e \in Engine : engine[e] \in {"locked", "serving", "closing"}}
Answers(e) == e # NoEngine /\ engine[e] \in {"serving", "closing"}

Troubled == trouble < MaxTrouble /\ trouble' = trouble + 1

-----------------------------------------------------------------------------
(* The engine process: main of runtime.py                                  *)

EngineMoves(e, pc) == engine' = [engine EXCEPT ![e] = pc]

(* Mutant: the lock is not exclusive.                                      *)
LocksAnyway(e) ==
    /\ engine[e] = "launched"
    /\ EngineMoves(e, "locked")
    /\ UNCHANGED <<worker, frame, seen, client, call, overlap, outlived, trouble>>

(* WorkspaceLock does not wait: a second engine says startup_error.        *)
Locks(e) ==
    /\ engine[e] = "launched"
    /\ IF Owners = {}
       THEN EngineMoves(e, "locked") /\ UNCHANGED frame
       ELSE EngineMoves(e, "refused") /\ frame' = [frame EXCEPT ![e] = "error"]
    /\ UNCHANGED <<worker, seen, client, call, overlap, outlived, trouble>>

(* Store, migration, recovery in Workstation.__init__, server, ready.      *)
Recovers(e) ==
    /\ engine[e] = "locked"
    /\ EngineMoves(e, "serving")
    /\ frame' = [frame EXCEPT ![e] = "ready"]
    /\ UNCHANGED <<worker, seen, client, call, overlap, outlived, trouble>>

InitFails(e) ==
    /\ engine[e] = "locked"
    /\ Troubled
    /\ EngineMoves(e, "refused")
    /\ frame' = [frame EXCEPT ![e] = "error"]
    /\ UNCHANGED <<worker, seen, client, call, overlap, outlived>>

WorkerTakes(e) ==
    /\ engine[e] = "serving" /\ worker[e] = "idle"
    /\ worker' = [worker EXCEPT ![e] = "busy"]
    /\ UNCHANGED <<engine, frame, seen, client, call, overlap, outlived, trouble>>

WorkerDone(e) ==
    /\ worker[e] = "busy"
    /\ worker' = [worker EXCEPT ![e] = "idle"]
    /\ UNCHANGED <<engine, frame, seen, client, call, overlap, outlived, trouble>>

(* Mutant: the lock is given up without waiting for the worker.            *)
ReleasesAtOnce(e) ==
    /\ engine[e] = "closing"
    /\ EngineMoves(e, "released")
    /\ UNCHANGED <<worker, frame, seen, client, call, overlap, outlived, trouble>>

(* close joins the worker, twice for five seconds, and then the lock is    *)
(* released all the same.                                                  *)
Releases(e) ==
    /\ engine[e] = "closing"
    /\ EngineMoves(e, "released")
    /\ IF worker[e] = "busy"
       THEN Troubled /\ outlived' = outlived \cup {e}
       ELSE UNCHANGED <<trouble, outlived>>
    /\ UNCHANGED <<worker, frame, seen, client, call, overlap>>

(* The process ends, and its daemon threads with it.                       *)
Dies(e) ==
    /\ EngineMoves(e, "gone")
    /\ worker' = [worker EXCEPT ![e] = "idle"]

Exits(e) ==
    /\ engine[e] \in {"released", "refused"}
    /\ Dies(e)
    /\ UNCHANGED <<frame, seen, client, call, overlap, outlived, trouble>>

EngineCrashes(e) ==
    /\ e \in Alive
    /\ Troubled
    /\ Dies(e)
    /\ UNCHANGED <<frame, seen, client, call, overlap, outlived>>

-----------------------------------------------------------------------------
(* What the supervisor hears                                               *)

(* A frame may be read after the exit of its engine.                       *)
FrameHeard(e) ==
    /\ frame[e] # "none"
    /\ frame' = [frame EXCEPT ![e] = "none"]
    /\ IF frame[e] = "ready"
       THEN session' = e /\ UNCHANGED hopeless
       ELSE hopeless' = TRUE /\ UNCHANGED session
    /\ UNCHANGED <<engine, worker, seen, process, phase, managed, call, overlap,
                   outlived, trouble>>

(* The handler of exitCode: whichever engine it was.                       *)
ExitHeard(e) ==
    /\ engine[e] = "gone" /\ e \notin seen
    /\ seen' = seen \cup {e}
    /\ process' = NoEngine /\ session' = NoEngine /\ phase' = "stopped"
    /\ UNCHANGED <<engine, worker, frame, managed, hopeless, call, overlap,
                   outlived, trouble>>

-----------------------------------------------------------------------------
(* The calls of the supervisor; each action runs up to the next await      *)

CallMoves(k, row) == call' = [call EXCEPT ![k] = row]
Goes(k, pc) == CallMoves(k, [call[k] EXCEPT !.pc = pc])

(* Between the check of _process and its assignment.                       *)
Unsettled(k) == call[k].pc \in {"start", "adopting", "spawning", "asking", "grace",
                                "killing", "restart"}
Overlaps(k) == overlap' = (overlap \/ \E j \in Call \ {k} : Unsettled(j))

(* start: one that is told an engine is there returns.                     *)
StartCalled(k) ==
    /\ call[k].pc = "idle"
    /\ process = NoEngine
    /\ Goes(k, "start")
    /\ Overlaps(k)
    /\ UNCHANGED <<engine, worker, frame, seen, client, outlived, trouble>>

Launching == phase' = "starting" /\ hopeless' = FALSE

StartRuns(k) ==
    /\ call[k].pc = "start"
    /\ IF process # NoEngine
       THEN CallMoves(k, NoCallRow) /\ UNCHANGED <<phase, hopeless>>
       ELSE IF session # NoEngine
       THEN /\ CallMoves(k, [call[k] EXCEPT !.pc = "adopting", !.up = Answers(session)])
            /\ UNCHANGED <<phase, hopeless>>
       ELSE Goes(k, "spawning") /\ Launching
    /\ UNCHANGED <<engine, worker, frame, seen, process, session, managed, overlap,
                   outlived, trouble>>

Adopts(k) ==
    /\ call[k].pc = "adopting"
    /\ IF call[k].up
       THEN /\ CallMoves(k, NoCallRow)
            /\ phase' = "ready" /\ managed' = FALSE
            /\ UNCHANGED hopeless
       ELSE Goes(k, "spawning") /\ Launching /\ UNCHANGED managed
    /\ UNCHANGED <<engine, worker, frame, seen, process, session, overlap, outlived, trouble>>

Spawns(k, e) ==
    /\ call[k].pc = "spawning"
    /\ engine[e] = "unused"
    /\ EngineMoves(e, "launched")
    /\ process' = e /\ managed' = TRUE
    /\ Goes(k, "polling")
    /\ UNCHANGED <<worker, frame, seen, session, phase, hopeless, overlap, outlived, trouble>>

SpawnFails(k) ==
    /\ call[k].pc = "spawning"
    /\ Troubled
    /\ phase' = "unavailable"
    /\ CallMoves(k, NoCallRow)
    /\ UNCHANGED <<engine, worker, frame, seen, process, session, managed, hopeless,
                   overlap, outlived>>

(* waitForReady: the exit, the startup error, then the health of whatever  *)
(* session there is.                                                       *)
Polls(k) ==
    /\ call[k].pc = "polling"
    /\ IF phase = "stopped" /\ process = NoEngine /\ managed
       THEN CallMoves(k, NoCallRow) /\ UNCHANGED phase
       ELSE IF hopeless
       THEN CallMoves(k, NoCallRow) /\ phase' = "unavailable"
       ELSE /\ session # NoEngine
            /\ CallMoves(k, [call[k] EXCEPT !.pc = "health", !.up = Answers(session)])
            /\ UNCHANGED phase
    /\ UNCHANGED <<engine, worker, frame, seen, process, session, managed, hopeless,
                   overlap, outlived, trouble>>

PollAnswered(k) ==
    /\ call[k].pc = "health"
    /\ IF call[k].up
       THEN phase' = "ready" /\ CallMoves(k, NoCallRow)
       ELSE UNCHANGED phase /\ Goes(k, "polling")
    /\ UNCHANGED <<engine, worker, frame, seen, process, session, managed, hopeless,
                   overlap, outlived, trouble>>

DeadlinePasses(k) ==
    /\ call[k].pc = "polling"
    /\ Troubled
    /\ phase' = IF process = NoEngine THEN "unavailable" ELSE "degraded"
    /\ CallMoves(k, NoCallRow)
    /\ UNCHANGED <<engine, worker, frame, seen, process, session, managed, hopeless,
                   overlap, outlived>>

(* stop, or restart when again: an engine of somebody else is left alone.  *)
StopCalled(k, again) ==
    /\ call[k].pc = "idle"
    /\ again => managed \/ process # NoEngine
    /\ Overlaps(k)
    /\ IF process = NoEngine
       THEN /\ phase' = IF managed THEN "stopped" ELSE phase
            /\ CallMoves(k, IF again THEN [NoCallRow EXCEPT !.pc = "restart"] ELSE NoCallRow)
       ELSE /\ phase' = "stopping"
            /\ CallMoves(k, [NoCallRow EXCEPT !.pc = "asking", !.again = again,
                                              !.engine = process])
    /\ UNCHANGED <<engine, worker, frame, seen, process, session, managed, hopeless,
                   outlived, trouble>>

(* The request to shut down goes to the session; without an answer the     *)
(* process is terminated, which before ready ends it there and then.       *)
Asks(k) ==
    /\ call[k].pc = "asking"
    /\ LET e == IF Answers(session) THEN session ELSE call[k].engine
       IN  IF engine[e] \in {"launched", "locked"} THEN Dies(e)
           ELSE /\ EngineMoves(e, IF engine[e] = "serving" THEN "closing" ELSE engine[e])
                /\ UNCHANGED worker
    /\ Goes(k, "grace")
    /\ UNCHANGED <<frame, seen, client, overlap, outlived, trouble>>

StopReturns(k) ==
    /\ process' = NoEngine
    /\ CallMoves(k, IF call[k].again THEN [NoCallRow EXCEPT !.pc = "restart"] ELSE NoCallRow)

(* Mutant: the exit is not waited for.                                     *)
GraceSkipped(k) ==
    /\ call[k].pc = "grace"
    /\ StopReturns(k)
    /\ UNCHANGED <<engine, worker, frame, seen, session, phase, managed, hopeless,
                   overlap, outlived, trouble>>

(* The exit handler runs before whoever else waits for the exit.           *)
GraceEnds(k) ==
    /\ call[k].pc = "grace"
    /\ call[k].engine \in seen
    /\ StopReturns(k)
    /\ UNCHANGED <<engine, worker, frame, seen, session, phase, managed, hopeless,
                   overlap, outlived, trouble>>

Kills(k) ==
    /\ call[k].pc = "grace"
    /\ call[k].engine \notin seen
    /\ Troubled
    /\ Dies(call[k].engine)
    /\ Goes(k, "killing")
    /\ UNCHANGED <<frame, seen, client, overlap, outlived>>

KillEnds(k) ==
    /\ call[k].pc = "killing"
    /\ call[k].engine \in seen
    /\ StopReturns(k)
    /\ UNCHANGED <<engine, worker, frame, seen, session, phase, managed, hopeless,
                   overlap, outlived, trouble>>

(* Mutant: a phase the status does not have.                               *)
RestartingPhase(k) ==
    /\ call[k].pc = "restart"
    /\ session' = NoEngine /\ phase' = "restarting" /\ managed' = FALSE
    /\ Goes(k, "start")
    /\ UNCHANGED <<engine, worker, frame, seen, process, hopeless, overlap, outlived, trouble>>

Restarting(k) ==
    /\ call[k].pc = "restart"
    /\ session' = NoEngine /\ phase' = "idle" /\ managed' = FALSE
    /\ Goes(k, "start")
    /\ UNCHANGED <<engine, worker, frame, seen, process, hopeless, overlap, outlived, trouble>>

-----------------------------------------------------------------------------
ONext ==
    \/ \E e \in Engine :
          \/ Locks(e) \/ Recovers(e) \/ InitFails(e) \/ WorkerTakes(e) \/ WorkerDone(e)
          \/ Releases(e) \/ Exits(e) \/ EngineCrashes(e) \/ FrameHeard(e) \/ ExitHeard(e)
    \/ \E k \in Call :
          \/ StartCalled(k) \/ StartRuns(k) \/ Adopts(k) \/ SpawnFails(k)
          \/ \E e \in Engine : Spawns(k, e)
          \/ Polls(k) \/ PollAnswered(k) \/ DeadlinePasses(k)
          \/ \E again \in BOOLEAN : StopCalled(k, again)
          \/ Asks(k) \/ GraceEnds(k) \/ Kills(k) \/ KillEnds(k) \/ Restarting(k)

OSpec == OInit /\ [][ONext]_ovars

-----------------------------------------------------------------------------
(* Properties                                                              *)

(* Every variable has the shape the code gives it.                         *)
OTypeOK ==
    /\ engine \in [Engine -> EnginePc]
    /\ worker \in [Engine -> {"idle", "busy"}]
    /\ frame \in [Engine -> {"none", "ready", "error"}]
    /\ seen \subseteq Engine /\ outlived \subseteq Engine
    /\ process \in Engine \cup {NoEngine} /\ session \in Engine \cup {NoEngine}
    /\ phase \in Phase /\ managed \in BOOLEAN /\ hopeless \in BOOLEAN
    /\ call \in [Call -> CallRow]
    /\ overlap \in BOOLEAN /\ trouble \in 0..MaxTrouble

(* Recovery runs alone: while an engine settles what an earlier one left   *)
(* behind, no worker of another engine can still write, unless it outlived *)
(* both joins of its close (WorkspaceLock, Workstation.close).             *)
RecoveryAlone ==
    \A e, f \in Engine :
        e # f /\ engine[e] \in {"locked", "serving"} /\ worker[f] = "busy" =>
            f \in outlived /\ engine[f] = "released"

(* "The Flutter client starts one bundled backend process per workspace":  *)
(* as long as no call came while another was between its check of _process *)
(* and its assignment, at most one engine is alive and the supervisor is   *)
(* the one that holds it (start, stop, restart).                           *)
SoleEngine ==
    ~overlap => Alive \subseteq {process}
=============================================================================
