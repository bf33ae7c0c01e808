---------------------------- MODULE VideoDispatch ----------------------------
(***************************************************************************)
(* The Product Video dispatcher: external worker processes claim jobs,     *)
(* hold them under a lease, and complete, fail or abandon them; an Admin's *)
(* reconcile call requeues or fails the jobs whose lease has lapsed.       *)
(*                                                                         *)
(* Every function of copyfast_product_video_dispatcher.py is one           *)
(* transaction() and so one step.  A worker acts on what it remembers of   *)
(* its claim (run), which the row may have left behind.                    *)
(***************************************************************************)
EXTENDS Integers

CONSTANTS
    Jobs,            \* jobs that may be created
    AcceptanceJobs,  \* those created blocked, for the owner's acceptance only
    Procs,           \* worker processes
    Workers,         \* worker ids
    WorkerOf,        \* WorkerOf[p]: the id p sends with every call
    NoWorker,        \* worker_id IS NULL
    ReconcileLimits, \* max_attempts values Admins reconcile with
    AttemptLimit     \* the largest limit that is ever applied to attempts

MaxDispatchAttempts == 3  \* MAX_DISPATCH_ATTEMPTS

ASSUME JobsAssumption == AcceptanceJobs \subseteq Jobs
\* Rows name a worker by its id alone, so processes must not share one.
ASSUME WorkerAssumption ==
    /\ WorkerOf \in [Procs -> Workers]
    /\ \A p, q \in Procs : WorkerOf[p] = WorkerOf[q] => p = q
    /\ NoWorker \notin Workers
\* The route accepts 1..10.
ASSUME LimitAssumption ==
    /\ AttemptLimit \in Nat
    /\ MaxDispatchAttempts =< AttemptLimit
    /\ ReconcileLimits \subseteq 1..AttemptLimit

VARIABLES
    job,   \* web_product_video_jobs: status, worker_id, lease_expires_at, attempts
    older, \* created_at: the jobs created before each one
    run    \* what each worker process is working on

vars == <<job, older, run>>

Terminal == {"completed", "failed"}
Status == {"absent", "blocked", "queued", "processing"} \cup Terminal

\* lease_expires_at: NULL, in the future, or in the past.
Lease == {"none", "live", "lapsed"}

Row(status) == [status |-> status, worker |-> NoWorker, lease |-> "none", attempts |-> 0]
JobRow == [status: Status, worker: Workers \cup {NoWorker}, lease: Lease,
           attempts: 0..AttemptLimit]

\* A claim is known by the attempt it is.
Idle == [job |-> "none", attempt |-> 0]
Claims == [job: Jobs, attempt: 1..AttemptLimit]

\* Types: attempts never pass the largest limit that anyone applies.
TypeOK ==
    /\ job \in [Jobs -> JobRow]
    /\ older \in [Jobs -> SUBSET Jobs]
    /\ run \in [Procs -> {Idle} \cup Claims]

Init ==
    /\ job = [j \in Jobs |-> Row("absent")]
    /\ older = [j \in Jobs |-> {}]
    /\ run = [p \in Procs |-> Idle]

-----------------------------------------------------------------------------
(* Creation.  A repeated request or idempotency key replays the row.       *)

FirstStatus(j) == IF j \in AcceptanceJobs THEN "blocked" ELSE "queued"

CreateJob(j) ==
    /\ job[j].status = "absent"
    /\ job' = [job EXCEPT ![j] = Row(FirstStatus(j))]
    /\ older' = [older EXCEPT ![j] = {k \in Jobs : job[k].status # "absent"}]
    /\ UNCHANGED run

\* release_owner_acceptance_video_reference_job.
Release(j) ==
    /\ job[j].status = "blocked"
    /\ job' = [job EXCEPT ![j].status = "queued"]
    /\ UNCHANGED <<older, run>>

-----------------------------------------------------------------------------
(* The worker's calls.                                                     *)

Claimable(j) ==
    \/ job[j].status = "queued"
    \/ /\ job[j].status = "processing"
       /\ job[j].lease = "lapsed"
       /\ job[j].attempts < MaxDispatchAttempts

IsOldest(j) == \A k \in older[j] : ~Claimable(k)

ClaimedRowSameAttempt(j, p) ==
    [job[j] EXCEPT !.status = "processing", !.worker = WorkerOf[p], !.lease = "live"]
ClaimedRow(j, p) ==
    [status |-> "processing", worker |-> WorkerOf[p], lease |-> "live",
     attempts |-> job[j].attempts + 1]

Take(p, j) ==
    /\ run[p] = Idle
    /\ Claimable(j)
    /\ job' = [job EXCEPT ![j] = ClaimedRow(j, p)]
    /\ run' = [run EXCEPT ![p] = [job |-> j, attempt |-> ClaimedRow(j, p).attempts]]
    /\ UNCHANGED older

\* With target_job_id a worker claims that job, otherwise the oldest one.
ClaimTarget(p, j) == Take(p, j)
ClaimOldest(p) == \E j \in Jobs : IsOldest(j) /\ Take(p, j)

\* The row is still processing, and by this worker id.
OwnsUnchecked(p, j) == job[j].status = "processing"
Owns(p, j) == job[j].status = "processing" /\ job[j].worker = WorkerOf[p]

\* The lease is extended even when it has lapsed already.
Heartbeat(p) ==
    LET j == run[p].job IN
    /\ run[p] # Idle
    /\ Owns(p, j)
    /\ job' = [job EXCEPT ![j].lease = "live"]
    /\ UNCHANGED <<older, run>>

Complete(p) ==
    LET j == run[p].job IN
    /\ run[p] # Idle
    /\ Owns(p, j)
    /\ job' = [job EXCEPT ![j].status = "completed", ![j].lease = "none"]
    /\ run' = [run EXCEPT ![p] = Idle]
    /\ UNCHANGED older

IsSpentLate(j, limit) == job[j].attempts > limit
IsSpent(j, limit) == job[j].attempts >= limit

Fail(p, fatal) ==
    LET j == run[p].job IN
    /\ run[p] # Idle
    /\ Owns(p, j)
    /\ job' = [job EXCEPT
           ![j].status = IF fatal \/ IsSpent(j, MaxDispatchAttempts) THEN "failed" ELSE "queued",
           ![j].lease = "none"]
    /\ run' = [run EXCEPT ![p] = Idle]
    /\ UNCHANGED older

\* The call is answered 403 or 409, or the process dies: the row stays.
Abandon(p) ==
    /\ run[p] # Idle
    /\ run' = [run EXCEPT ![p] = Idle]
    /\ UNCHANGED <<job, older>>

-----------------------------------------------------------------------------
(* Time, and reconcile_stalled_product_video_jobs.                         *)

LeaseLapses(j) ==
    /\ job[j].lease = "live"
    /\ job' = [job EXCEPT ![j].lease = "lapsed"]
    /\ UNCHANGED <<older, run>>

StalledWithAttemptsLeft == {j \in Jobs : /\ job[j].status = "processing"
                                         /\ job[j].lease = "lapsed"
                                         /\ job[j].attempts < MaxDispatchAttempts}
Stalled == {j \in Jobs : job[j].status = "processing" /\ job[j].lease = "lapsed"}

\* lease_grace_seconds spares the leases that lapsed only lately.
Reconcile(limit, spared) ==
    /\ job' = [j \in Jobs |->
           IF j \in Stalled \ spared
           THEN [job[j] EXCEPT
                    !.status = IF IsSpent(j, limit) THEN "failed" ELSE "queued",
                    !.lease = "none"]
           ELSE job[j]]
    /\ UNCHANGED <<older, run>>

-----------------------------------------------------------------------------

WorkerStep(p) ==
    \/ \E j \in Jobs : ClaimTarget(p, j)
    \/ ClaimOldest(p)
    \/ Heartbeat(p)
    \/ Complete(p)
    \/ \E fatal \in BOOLEAN : Fail(p, fatal)
    \/ Abandon(p)

AdminStep ==
    \E limit \in ReconcileLimits, spared \in SUBSET Stalled : Reconcile(limit, spared)

Next ==
    \/ \E j \in Jobs : CreateJob(j) \/ Release(j) \/ LeaseLapses(j)
    \/ \E p \in Procs : WorkerStep(p)
    \/ AdminStep

Spec == Init /\ [][Next]_vars

\* Workers keep polling the queue and a claim ends one way or another; time
\* passes; and an Admin reconciles with no grace from time to time (nothing in
\* the code schedules it).
DispatchFairness ==
    /\ \A p \in Procs :
           /\ WF_vars(ClaimOldest(p))
           /\ WF_vars(Complete(p) \/ (\E fatal \in BOOLEAN : Fail(p, fatal)) \/ Abandon(p))
    /\ \A j \in Jobs : WF_vars(LeaseLapses(j))
    /\ WF_vars(\E limit \in ReconcileLimits : Reconcile(limit, {}))

-----------------------------------------------------------------------------
(* Safety.                                                                 *)

\* An attempt belongs to one process: however leases lapse, revive and are
\* reclaimed, no two processes hold the same attempt of a job, and none holds
\* one the row has not reached.
AttemptsAreExclusive ==
    \A p, q \in Procs :
        run[p] # Idle =>
            /\ run[p].attempt =< job[run[p].job].attempts
            /\ run[q] = run[p] => p = q

\* A job is completed only by the process that made its latest claim: a worker
\* whose lease lapsed and whose job was taken over cannot finish it.
CompletedByLatestClaim ==
    [][\A j \in Jobs :
           job[j].status # "completed" /\ job'[j].status = "completed" =>
               \E p \in Procs : run[p] = [job |-> j, attempt |-> job[j].attempts]]_vars

\* No late call, lapsed lease or reconcile pass changes a finished job.
TerminalIsFinal ==
    [][\A j \in Jobs : job[j].status \in Terminal => job'[j] = job[j]]_vars

\* Nobody takes a job away from a worker whose lease is live: until it reports
\* or its lease lapses, the claim stands.
LiveLeaseHolds ==
    [][\A j \in Jobs :
           job[j].lease = "live" =>
               job'[j].worker = job[j].worker /\ job'[j].attempts = job[j].attempts]_vars

-----------------------------------------------------------------------------
(* Liveness.                                                               *)

\* Every job that was queued is completed or failed in the end, whichever
\* workers die on it.
JobsTerminate ==
    \A j \in Jobs : job[j].status = "queued" ~> job[j].status \in Terminal
=============================================================================
