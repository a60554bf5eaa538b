----------------------------- MODULE Lifecycle -----------------------------
(***************************************************************************)
(* What an investigator is promised about the durable record of an         *)
(* investigation, whatever threads, queues and restarts produce it: the    *)
(* record moves along one path, each move leaves a transition row, and the *)
(* final state and its report become visible in the same instant.          *)
(* Workstation.tla is shown to implement this module.                      *)
(***************************************************************************)
EXTENDS Naturals, Sequences

CONSTANTS Case,     \* identifiers of investigations
          Step      \* the observation steps of one collection

VARIABLES status,   \* investigations.status, "absent" before the row exists
          history,  \* the rows of transitions, oldest first
          reports   \* the rows of reports with no execution, oldest first

vars == <<status, history, reports>>

(* The states of service.py: the four that a finished collection can end   *)
(* in, "interrupted" which only a restart writes, and the ones in between. *)
Finished   == {"completed", "partially_completed", "cancelled", "failed"}
Terminal   == Finished \cup {"interrupted"}
Unfinished == {"collecting", "analyzing", "finalizing"}
Status     == {"absent", "created"} \cup Unfinished \cup Terminal

(* A report names the outcome and the steps whose evidence it lists.       *)
Report == [status : Finished, evidence : SUBSET Step]

(* The outcomes each unfinished state may end in.                          *)
MayEnd(s) ==
    CASE s = "collecting" -> {"cancelled", "failed"}
      [] s = "analyzing"  -> {"failed"}
      [] s = "finalizing" -> Finished
      [] OTHER            -> {}

Init ==
    /\ status  = [c \in Case |-> "absent"]
    /\ history = [c \in Case |-> <<>>]
    /\ reports = [c \in Case |-> <<>>]

(* Status and transition row are always written together.                  *)
Move(c, s) ==
    /\ status'  = [status  EXCEPT ![c] = s]
    /\ history' = [history EXCEPT ![c] = Append(@, s)]

Advance(c, from, to) ==
    /\ status[c] = from
    /\ Move(c, to)
    /\ UNCHANGED reports

Finish(c, r) ==
    /\ r.status \in MayEnd(status[c])
    /\ Move(c, r.status)
    /\ reports' = [reports EXCEPT ![c] = Append(@, r)]

(* A restart settles every unfinished investigation at once.               *)
Interrupt ==
    /\ status'  = [c \in Case |-> IF status[c] \in Unfinished
                                  THEN "interrupted" ELSE status[c]]
    /\ history' = [c \in Case |-> IF status[c] \in Unfinished
                                  THEN Append(history[c], "interrupted")
                                  ELSE history[c]]
    /\ UNCHANGED reports

Next ==
    \/ \E c \in Case :
          \/ Advance(c, "absent", "created")
          \/ Advance(c, "created", "collecting")
          \/ Advance(c, "collecting", "analyzing")
          \/ Advance(c, "analyzing", "finalizing")
          \/ \E r \in Report : Finish(c, r)
    \/ Interrupt

Spec == Init /\ [][Next]_vars
=============================================================================
