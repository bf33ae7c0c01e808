---------------------------- MODULE PaidDelivery ----------------------------
(***************************************************************************)
(* What paying for a Product Video job promises, without workers, leases,  *)
(* projections or the bridge: a job is delivered at most once, and Bot     *)
(* Core charges at most once for it, only after the delivery and never for *)
(* an acceptance job.                                                      *)
(***************************************************************************)
CONSTANTS Jobs, FreeJobs

VARIABLES
    delivered,  \* jobs whose video was delivered
    charged     \* charged[j]: the debits Bot Core has booked for j

deliveryVars == <<delivered, charged>>

Init ==
    /\ delivered = {}
    /\ charged = [j \in Jobs |-> {}]

Deliver(j) ==
    /\ j \notin delivered
    /\ delivered' = delivered \cup {j}
    /\ UNCHANGED charged

Charge(j) ==
    /\ j \in delivered \ FreeJobs
    /\ charged[j] = {}
    /\ \E debit \in charged'[j] : charged' = [charged EXCEPT ![j] = {debit}]
    /\ UNCHANGED delivered

Next == \E j \in Jobs : Deliver(j) \/ Charge(j)

Spec == Init /\ [][Next]_deliveryVars
=============================================================================
