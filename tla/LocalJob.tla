------------------------------ MODULE LocalJob ------------------------------
(***************************************************************************)
(* What a local executor promises for each request that the server can     *)
(* tell apart: it is worked on until it delivers one artefact, pauses for  *)
(* a runtime that is missing, or is over without a result.  An artefact is *)
(* delivered once and to one job; it may be withdrawn and nothing takes    *)
(* its place.                                                              *)
(***************************************************************************)
CONSTANTS
    Jobs,      \* the requests
    Artefacts, \* the files that may be delivered
    None       \* no artefact

VARIABLES
    phase,   \* of each job
    artefact \* what it delivered

vars == <<phase, artefact>>

Init ==
    /\ phase = [j \in Jobs |-> "new"]
    /\ artefact = [j \in Jobs |-> None]

Work(j) ==
    /\ phase[j] \in {"new", "paused"}
    /\ phase' = [phase EXCEPT ![j] = "working"]
    /\ UNCHANGED artefact

Pause(j) ==
    /\ phase[j] = "working"
    /\ phase' = [phase EXCEPT ![j] = "paused"]
    /\ UNCHANGED artefact

\* Work that delivers nothing.  A restart may end several jobs at once.
GiveUp(ended) ==
    /\ \A j \in ended : phase[j] = "working"
    /\ phase' = [j \in Jobs |-> IF j \in ended THEN "over" ELSE phase[j]]
    /\ UNCHANGED artefact

Deliver(j, f) ==
    /\ phase[j] = "working"
    /\ \A i \in Jobs : artefact[i] # f
    /\ phase' = [phase EXCEPT ![j] = "delivered"]
    /\ artefact' = [artefact EXCEPT ![j] = f]

Withdraw(j) ==
    /\ phase[j] = "delivered"
    /\ phase' = [phase EXCEPT ![j] = "withdrawn"]
    /\ UNCHANGED artefact

Next ==
    \/ \E j \in Jobs : Work(j) \/ Pause(j) \/ Withdraw(j)
    \/ \E ended \in SUBSET Jobs : GiveUp(ended)
    \/ \E j \in Jobs, f \in Artefacts : Deliver(j, f)

Spec == Init /\ [][Next]_vars
=============================================================================
