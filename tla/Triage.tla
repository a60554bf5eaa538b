------------------------------- MODULE Triage -------------------------------
(***************************************************************************)
(* analysis/triage.py: what the evidence supports about one record, and    *)
(* how much of an investigator's attention it asks for.  A command is its  *)
(* text and the shapes the patterns of triage.py find in it; an image is   *)
(* its path, the kind of directory it sits in and whether it is an         *)
(* interpreter.                                                            *)
(***************************************************************************)
EXTENDS Integers, FiniteSetsExt

Kinds == {"EXECUTION_EVIDENCE", "COMMAND_HISTORY", "SESSION_EVENT"}

NoCommand == [text |-> "none", shapes |-> {}]
NoImage == [path |-> "none", place |-> "none", interpreter |-> FALSE]

(* Shapes of a command; "installer" is a property of the URL it fetches.   *)
Shapes == {"fetch_run", "fetch_tmp", "encoded", "installer", "routine"}
Places == {"system", "transient", "other", "none"}

Priority == {"PRIORITY_1", "PRIORITY_2", "PRIORITY_3"}
Rank(priority) == CASE priority = "PRIORITY_1" -> 0
                    [] priority = "PRIORITY_2" -> 1
                    [] OTHER -> 2
CategoryRank(category) == CASE category = "POTENTIALLY_HARMFUL" -> 0
                            [] category = "NEEDS_REVIEW" -> 1
                            [] OTHER -> 2

Confirmed(e) == e.kind = "EXECUTION_EVIDENCE"

-----------------------------------------------------------------------------
(* Signals.  art is what the collection found at the image's path: "none", *)
(* "MISSING", "COLLECTED", or "ALTERED" since it was last hashed.          *)

ConcernWeight == [remote_content_to_interpreter |-> 3,
                  download_to_writable_location |-> 2,
                  encoded_powershell |-> 3,
                  execution_from_writable_location |-> 3,
                  image_absent_after_execution |-> 1]

Concerns(e, art) == {s \in DOMAIN ConcernWeight :
    CASE s = "remote_content_to_interpreter"    -> "fetch_run" \in e.command.shapes
      [] s = "download_to_writable_location"    -> "fetch_tmp" \in e.command.shapes
      [] s = "encoded_powershell"               -> "encoded" \in e.command.shapes
      [] s = "execution_from_writable_location" -> e.image.place = "transient"
      [] s = "image_absent_after_execution"     ->
            e.image.place = "transient" /\ art = "MISSING"}

(* Corroboration only matters once there is something to corroborate.      *)
Support(e, sources, art) ==
    (IF Confirmed(e) THEN 1 ELSE 0) + (IF sources > 1 THEN 2 ELSE 0)
        + (IF art \in {"COLLECTED", "ALTERED"} THEN 2 ELSE 0)
        - (IF {"fetch_run", "installer"} \subseteq e.command.shapes THEN 1 ELSE 0)

(* Context lowers priority, never the classification.                      *)
Context(e) ==
    LET recognized == CASE e.recognized \notin {"HIGH", "MODERATE"} -> 0
                        [] e.recognized = "HIGH" /\ ~e.image.interpreter -> 2
                        [] OTHER -> 1
        system == IF e.image.place # "system" THEN 0 ELSE IF e.image.interpreter THEN 1 ELSE 3
    IN  recognized + system + (IF "routine" \in e.command.shapes THEN 3 ELSE 0)
            + (IF e.unit THEN 2 ELSE 0) + (IF e.kind = "COMMAND_HISTORY" THEN 1 ELSE 0)

Score(e, sources, art) ==
    LET weight(s) == IF s \in Concerns(e, art) THEN ConcernWeight[s] ELSE 0
    IN  weight("remote_content_to_interpreter") + weight("download_to_writable_location")
            + weight("encoded_powershell") + weight("execution_from_writable_location")
            + weight("image_absent_after_execution")
            + (IF Concerns(e, art) # {} THEN Support(e, sources, art) ELSE 0) - Context(e)

-----------------------------------------------------------------------------
Category(e, art) ==
    IF Concerns(e, art) # {} THEN "POTENTIALLY_HARMFUL"
    ELSE IF "routine" \in e.command.shapes \/ (e.image.place = "system" /\ ~e.image.interpreter)
    THEN "NOT_HARMFUL" ELSE "NEEDS_REVIEW"

Presentation(e, art) ==
    IF Category(e, art) = "POTENTIALLY_HARMFUL" THEN "NEEDS_ATTENTION"
    ELSE IF \/ Category(e, art) = "NOT_HARMFUL"
            \/ e.recognized = "HIGH" /\ ~(e.image.interpreter /\ e.command = NoCommand)
    THEN "ROUTINE_RECOGNIZED" ELSE "FOR_REVIEW"

PriorityOf(score) ==
    IF score >= 4 THEN "PRIORITY_1" ELSE IF score >= 1 THEN "PRIORITY_2" ELSE "PRIORITY_3"

(* Mutant: what was recognized is not looked at further.                   *)
ShortCircuits(e, sources, art) ==
    IF e.kind = "SESSION_EVENT" \/ e.recognized = "HIGH"
    THEN [category |-> "NOT_HARMFUL", priority |-> "PRIORITY_3", score |-> 0,
          presentation |-> "ROUTINE_RECOGNIZED", concerns |-> {}]
    ELSE [category |-> Category(e, art), score |-> Score(e, sources, art),
          priority |-> PriorityOf(Score(e, sources, art)),
          presentation |-> Presentation(e, art), concerns |-> Concerns(e, art)]

(* classify_event                                                          *)
Classify(e, sources, art) ==
    IF e.kind = "SESSION_EVENT"
    THEN [category |-> "NOT_HARMFUL", priority |-> "PRIORITY_3", score |-> 0,
          presentation |-> "ROUTINE_RECOGNIZED", concerns |-> {}]
    ELSE [category |-> Category(e, art), score |-> Score(e, sources, art),
          priority |-> PriorityOf(Score(e, sources, art)),
          presentation |-> Presentation(e, art), concerns |-> Concerns(e, art)]
=============================================================================
