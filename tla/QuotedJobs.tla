----------------------------- MODULE QuotedJobs -----------------------------
(***************************************************************************)
(* What estimates and confirmations promise, without the page, requests,   *)
(* keys, expiry or Core: a quote is for one input for good, a job is made  *)
(* from a quote for the input that was quoted and stays what it is, and    *)
(* where the feature is steady a quote is good for one job.                *)
(***************************************************************************)
CONSTANTS
    Ids,   \* what quotes and jobs are known by
    Inputs

VARIABLES
    steady, \* of the feature
    quoted, \* the input of each quote
    jobs    \* the quote and the input of each job

quoteVars == <<steady, quoted, jobs>>

Init ==
    /\ steady \in BOOLEAN
    /\ quoted = [q \in {} |-> q]
    /\ jobs = [k \in {} |-> k]

Quote(q, v) ==
    /\ q \notin DOMAIN quoted
    /\ quoted' = [p \in DOMAIN quoted \cup {q} |-> IF p = q THEN v ELSE quoted[p]]
    /\ UNCHANGED <<steady, jobs>>

Make(k, q) ==
    /\ k \notin DOMAIN jobs /\ q \in DOMAIN quoted
    /\ steady => \A j \in DOMAIN jobs : jobs[j].quote # q
    /\ jobs' = [j \in DOMAIN jobs \cup {k} |->
                    IF j = k THEN [quote |-> q, input |-> quoted[q]] ELSE jobs[j]]
    /\ UNCHANGED <<steady, quoted>>

Next ==
    \/ \E q \in Ids, v \in Inputs : Quote(q, v)
    \/ \E k \in Ids, q \in DOMAIN quoted : Make(k, q)

Spec == Init /\ [][Next]_quoteVars
=============================================================================
