--------------------------- MODULE MCWorkstation ---------------------------
(***************************************************************************)
(* Instances of Workstation for TLC.                                       *)
(***************************************************************************)
EXTENDS Workstation

(* One investigation names no path and adds a source in its program, the   *)
(* other observes paths only, so that they are not interchangeable.        *)
Plain == CHOOSE c \in Case : TRUE
MCBaseline == [c \in Case |-> IF c = Plain THEN 1 ELSE Steps]
=============================================================================
