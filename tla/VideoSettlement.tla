--------------------------- MODULE VideoSettlement ---------------------------
(***************************************************************************)
(* Settlement of Product Video jobs, composed with the dispatcher: the     *)
(* complete route commits the job and then, in the same request, asks Bot  *)
(* Core through the Core Bridge to debit the customer, and records the     *)
(* answer in a projection row.                                             *)
(*                                                                         *)
(* settle_product_video_job_completion runs once for each job, because a   *)
(* second complete call is refused.  It is a chain of transactions around  *)
(* one awaited bridge call; the pc of settler says which comes next.       *)
(***************************************************************************)
EXTENDS VideoDispatch

CONSTANTS
    Accounts,  \* Web customer accounts
    Owner,     \* Owner[j]: the account that created j
    MayCrash   \* whether the Web process may crash and restart

ASSUME OwnerAssumption == Owner \in [Jobs -> Accounts]
ASSUME CrashAssumption == MayCrash \in BOOLEAN

VARIABLES
    linked,     \* accounts with a canonical_user_id
    settler,    \* the settlement in progress of each completed job
    projection, \* web_product_video_settlement_projections, one row per job
    booked,     \* debits in Bot Core's ledger
    wire        \* settle calls the Web gave up on, which Bot Core may still receive

core == <<booked, wire>>
settlementVars == <<vars, linked, settler, projection, booked, wire>>

BridgeAttempts == 2

SettlerPc == {"none", "start", "waiting", "answered", "refused", "done", "lost"}
Settler == [pc: SettlerPc, attempt: 1..BridgeAttempts]

\* The statuses _sanitize_envelope lets through; it answers "failed" for others.
AllowedStatuses == {
    "draft", "awaiting_confirm", "queued", "processing", "completed",
    "failed", "failed_no_charge", "guarded", "cancelled", "refunded",
    "read_only", "pending_admin_review", "approved", "rejected",
    "unverified", "unlinked", "conflict",
    "prepared_provider_disabled", "PREPARED_PROVIDER_DISABLED"}
Unsanitized(status) == status
Sanitized(status) == IF status \in AllowedStatuses THEN status ELSE "failed"

\* The status of Bot Core's answer to a debit.
CoreStatus == "settled"

Projections == [status: AllowedStatuses \cup {"none", "exempt", "pending"},
                error: {"none", "unlinked", "bridge"}]

StableKeyPerAttempt(j) == <<j, settler[j].attempt>>
StableKey(j) == j

Debit(j) == [job |-> j, key |-> StableKey(j)]
Debits == [job: Jobs, key: Jobs]

\* Types: a recorded status is one the bridge lets through.
SettlementTypeOK ==
    /\ TypeOK
    /\ linked \subseteq Accounts
    /\ settler \in [Jobs -> Settler]
    /\ projection \in [Jobs -> Projections]
    /\ booked \subseteq Debits
    /\ wire \subseteq Debits

SettlementInit ==
    /\ Init
    /\ linked \in SUBSET Accounts
    /\ settler = [j \in Jobs |-> [pc |-> "none", attempt |-> 1]]
    /\ projection = [j \in Jobs |-> [status |-> "none", error |-> "none"]]
    /\ booked = {}
    /\ wire = {}

-----------------------------------------------------------------------------
(* The dispatcher's steps, of which only the complete route settles.       *)

\* validate_video_artifact_metadata accepts the artifact a second time, unless
\* its duration has been rounded to 0 s meanwhile: then nothing is settled.
CompleteAndSettle(p) ==
    /\ Complete(p)
    /\ \E pc \in {"start", "done"} : settler' = [settler EXCEPT ![run[p].job].pc = pc]
    /\ UNCHANGED <<linked, projection, core>>

Dispatching ==
    /\ \/ \E j \in Jobs : \/ CreateJob(j)
                          \/ Release(j)
                          \/ LeaseLapses(j)
       \/ \E p \in Procs : \/ \E j \in Jobs : ClaimTarget(p, j)
                           \/ ClaimOldest(p)
                           \/ Heartbeat(p)
                           \/ \E fatal \in BOOLEAN : Fail(p, fatal)
                           \/ Abandon(p)
       \/ AdminStep
    /\ UNCHANGED <<linked, settler, projection, core>>

\* The account gains a canonical user, or an Admin takes it away.
ChangeLink(a) ==
    /\ linked' = IF a \in linked THEN linked \ {a} ELSE linked \cup {a}
    /\ UNCHANGED <<vars, settler, projection, core>>

-----------------------------------------------------------------------------
(* Before the bridge call.                                                 *)

\* product_key and the acceptance_only flag of the persisted envelope.
IsAcceptance(j) == j \in AcceptanceJobs

SettleExempt(j) ==
    /\ settler[j].pc = "start"
    /\ IsAcceptance(j)
    /\ projection' = [projection EXCEPT ![j] = [status |-> "exempt", error |-> "none"]]
    /\ settler' = [settler EXCEPT ![j].pc = "done"]
    /\ UNCHANGED <<vars, linked, core>>

SettleUnlinked(j) ==
    /\ settler[j].pc = "start"
    /\ ~IsAcceptance(j)
    /\ Owner[j] \notin linked
    /\ projection' = [projection EXCEPT ![j] = [status |-> "failed", error |-> "unlinked"]]
    /\ settler' = [settler EXCEPT ![j].pc = "done"]
    /\ UNCHANGED <<vars, linked, core>>

PendingRowLate(row) == row
PendingRow(row) == [status |-> "pending", error |-> "none"]

SettlePending(j) ==
    /\ settler[j].pc = "start"
    /\ ~IsAcceptance(j)
    /\ Owner[j] \in linked
    /\ projection' = [projection EXCEPT ![j] = PendingRow(@)]
    /\ settler' = [settler EXCEPT ![j].pc = "waiting"]
    /\ UNCHANGED <<vars, linked, core>>

-----------------------------------------------------------------------------
(* The bridge call.  Bot Core books a key once.                            *)

Book(d) == booked' = IF \E b \in booked : b.key = d.key THEN booked ELSE booked \cup {d}

CoreSettles(j) ==
    /\ settler[j].pc = "waiting"
    /\ Book(Debit(j))
    /\ settler' = [settler EXCEPT ![j].pc = "answered"]
    /\ UNCHANGED <<vars, linked, projection, wire>>

CoreRefuses(j) ==
    /\ settler[j].pc = "waiting"
    /\ settler' = [settler EXCEPT ![j].pc = "refused"]
    /\ UNCHANGED <<vars, linked, projection, core>>

CoreReceivesLate(d) ==
    /\ Book(d)
    /\ wire' = wire \ {d}
    /\ UNCHANGED <<vars, linked, settler, projection>>

LoseCall(d) ==
    /\ wire' = wire \ {d}
    /\ UNCHANGED <<vars, linked, settler, projection, booked>>

InCall == {"waiting", "answered", "refused"}
GivenUp(js) == wire \cup {Debit(j) : j \in {k \in js : settler[k].pc = "waiting"}}

\* A transport error or a 502/503/504 answer on the first attempt.
RetrySettle(j) ==
    /\ settler[j].pc \in InCall
    /\ settler[j].attempt < BridgeAttempts
    /\ wire' = GivenUp({j})
    /\ settler' = [settler EXCEPT ![j] = [pc |-> "waiting", attempt |-> @.attempt + 1]]
    /\ UNCHANGED <<vars, linked, projection, booked>>

-----------------------------------------------------------------------------
(* After the bridge call.                                                  *)

AnsweredAtAll(j) == settler[j].pc \in {"answered", "refused"}
AnsweredOk(j) == settler[j].pc = "answered"

RecordSettlement(j) ==
    /\ AnsweredOk(j)
    /\ projection' = [projection EXCEPT ![j] =
                          [status |-> Sanitized(CoreStatus), error |-> "none"]]
    /\ settler' = [settler EXCEPT ![j].pc = "done"]
    /\ UNCHANGED <<vars, linked, core>>

FailedRowStillPending(row) == [row EXCEPT !.error = "bridge"]
FailedRow(row) == [row EXCEPT !.status = "failed", !.error = "bridge"]

\* A refusal, an unreadable or lost answer, or a bridge that is not configured.
RecordFailure(j) ==
    /\ settler[j].pc \in InCall
    /\ projection' = [projection EXCEPT ![j] = FailedRow(@)]
    /\ settler' = [settler EXCEPT ![j].pc = "done"]
    /\ wire' = GivenUp({j})
    /\ UNCHANGED <<vars, linked, booked>>

\* The Web process dies and restarts.  Nothing resumes its settlements.
Running == {j \in Jobs : settler[j].pc \in {"start"} \cup InCall}

Crash ==
    /\ MayCrash
    /\ Running # {}
    /\ settler' = [j \in Jobs |->
           IF j \in Running THEN [settler[j] EXCEPT !.pc = "lost"] ELSE settler[j]]
    /\ wire' = GivenUp(Running)
    /\ UNCHANGED <<vars, linked, projection, booked>>

-----------------------------------------------------------------------------

SettlerStep(j) ==
    \/ SettleExempt(j) \/ SettleUnlinked(j) \/ SettlePending(j)
    \/ CoreSettles(j) \/ CoreRefuses(j) \/ RetrySettle(j)
    \/ RecordSettlement(j) \/ RecordFailure(j)

SettlementNext ==
    \/ Dispatching
    \/ \E p \in Procs : CompleteAndSettle(p)
    \/ \E a \in Accounts : ChangeLink(a)
    \/ \E j \in Jobs : SettlerStep(j)
    \/ \E d \in wire : CoreReceivesLate(d) \/ LoseCall(d)
    \/ Crash

SettlementSpec == SettlementInit /\ [][SettlementNext]_settlementVars

\* The event loop resumes every request, and a timeout (12 s) ends every await.
FairSettlementSpec ==
    /\ SettlementSpec /\ DispatchFairness
    /\ \A j \in Jobs : WF_settlementVars(SettlerStep(j))

-----------------------------------------------------------------------------
(* Safety.                                                                 *)

Sent == booked \cup wire

\* Bot Core is asked for a debit only for a job whose video was delivered, and
\* never for an acceptance job, whichever attempt, retry or late call asks.
NoChargeWithoutDelivery ==
    \A d \in Sent : job[d.job].status = "completed" /\ d.job \notin AcceptanceJobs

\* Retries and late calls never debit a job twice.
DebitedOnce == \A b, d \in booked : b.job = d.job => b = d

\* No debit is asked for before its projection row exists, nor after the row
\* says the customer could not be charged.
DebitsAreProjected ==
    \A d \in Sent :
        /\ projection[d.job].status \notin {"none", "exempt"}
        /\ projection[d.job].error # "unlinked"

\* The row of j carries an answer of Bot Core, and no error.
IsRecorded(j) ==
    /\ settler[j].pc = "done"
    /\ projection[j].error = "none"
    /\ projection[j].status \notin {"none", "exempt"}

\* A bridge failure never fakes a settlement: a row that carries Bot Core's
\* answer and no error has its debit.
AnswersAreBooked ==
    \A j \in Jobs : IsRecorded(j) => \E b \in booked : b.job = j

\* The refinement: deliveries and debits are a behaviour of PaidDelivery.
Abstract == INSTANCE PaidDelivery
    WITH FreeJobs <- AcceptanceJobs,
         delivered <- {j \in Jobs : job[j].status = "completed"},
         charged <- [j \in Jobs |-> {b \in booked : b.job = j}]

\* The abstract promise: one delivery, then at most one charge.
ImplementsPaidDelivery == Abstract!Spec

-----------------------------------------------------------------------------
(* Liveness.                                                               *)

\* A projection does not stay pending unless the Web process died during the
\* call, which nothing repairs.
SettlementResolves ==
    \A j \in Jobs :
        projection[j].status = "pending" ~>
            projection[j].status # "pending" \/ settler[j].pc = "lost"

-----------------------------------------------------------------------------
(* What the code's tests say, and the code does not do.                    *)

\* "Valid completion triggers settlement bridge and persists projection": the
\* test expects status settled.  But the bridge sanitizes the status of Bot
\* Core's answer, which leaves "failed" to be recorded.
SettlementIsRecorded ==
    \A j \in Jobs : IsRecorded(j) => projection[j].status = "settled"
=============================================================================
