----------------------------- MODULE Authority -----------------------------
(***************************************************************************)
(* What an operator is promised about the authority to collect from a      *)
(* machine (docs/SecurityBoundaries.md, "Authorization precedes            *)
(* collection"): an endpoint exists only because an operator granted an    *)
(* authority naming it, an authority makes at most one endpoint and only   *)
(* before it lapses, and no two endpoints share a name.  Enrollment.tla is *)
(* shown to implement this module, whatever its threads interleave.        *)
(***************************************************************************)
CONSTANTS Token,    \* the authorities an operator may grant
          Id,       \* identifiers of endpoints
          Name,     \* names of machines
          Nobody    \* not a token: the authority of an absent endpoint

VARIABLES state,    \* state[t]: how far an authority has been used up
          names,    \* names[t]: the machine it names, once granted
          origin    \* origin[e]: the authority an endpoint rests on

vars == <<state, names, origin>>

Init ==
    /\ state = [t \in Token |-> "none"]
    /\ names \in [Token -> Name]
    /\ origin = [e \in Id |-> Nobody]

Grant(t, n) ==
    /\ state[t] = "none"
    /\ state' = [state EXCEPT ![t] = "granted"]
    /\ names' = [names EXCEPT ![t] = n]
    /\ UNCHANGED origin

Consume(t, e) ==
    /\ state[t] = "granted"
    /\ origin[e] = Nobody
    /\ \A f \in Id : origin[f] # Nobody => names[origin[f]] # names[t]
    /\ state' = [state EXCEPT ![t] = "consumed"]
    /\ origin' = [origin EXCEPT ![e] = t]
    /\ UNCHANGED names

Lapse(t) ==
    /\ state[t] = "granted"
    /\ state' = [state EXCEPT ![t] = "lapsed"]
    /\ UNCHANGED <<names, origin>>

Next == \E t \in Token :
    \/ \E n \in Name : Grant(t, n)
    \/ \E e \in Id : Consume(t, e)
    \/ Lapse(t)

Spec == Init /\ [][Next]_vars
=============================================================================
