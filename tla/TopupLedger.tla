---------------------------- MODULE TopupLedger ----------------------------
(***************************************************************************)
(* What manual top-up promises, without receipts, handlers or the bridge:  *)
(* a submitted request is decided at most once, Bot Core books at most one *)
(* credit for it, always of the request's own amount, and it is approved   *)
(* only after that credit is booked.  A rejection promises nothing about   *)
(* the credit: the code does not order the two.                            *)
(***************************************************************************)
CONSTANTS Requests, Users, Amount

VARIABLES
    decision,  \* decision[r]: absent, pending, approved or rejected
    credits    \* credits[r]: the ledger entries booked for r

ledgerVars == <<decision, credits>>

Init ==
    /\ decision = [r \in Requests |-> "absent"]
    /\ credits = [r \in Requests |-> {}]

Submit(r) ==
    /\ decision[r] = "absent"
    /\ decision' = [decision EXCEPT ![r] = "pending"]
    /\ UNCHANGED credits

\* One entry, for some user, of exactly the amount of the request.
Book(r) ==
    /\ decision[r] # "absent"
    /\ credits[r] = {}
    /\ \E entry \in credits'[r] :
           /\ entry.user \in Users
           /\ entry.xu = Amount[r]
           /\ credits' = [credits EXCEPT ![r] = {entry}]
    /\ UNCHANGED decision

Approve(r) ==
    /\ decision[r] = "pending"
    /\ credits[r] # {}
    /\ decision' = [decision EXCEPT ![r] = "approved"]
    /\ UNCHANGED credits

Reject(r) ==
    /\ decision[r] = "pending"
    /\ decision' = [decision EXCEPT ![r] = "rejected"]
    /\ UNCHANGED credits

Next ==
    \E r \in Requests : Submit(r) \/ Book(r) \/ Approve(r) \/ Reject(r)

Spec == Init /\ [][Next]_ledgerVars
=============================================================================
