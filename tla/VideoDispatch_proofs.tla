------------------------ MODULE VideoDispatch_proofs ------------------------
(* Theorems about VideoDispatch, for every set of jobs and worker          *)
(* processes and every attempt limit.                                      *)
EXTENDS VideoDispatch, TLAPS

\* A job waiting to be claimed has an attempt left under every limit.
QueuedHasAttempt ==
    \A j \in Jobs :
        /\ job[j].status \in {"absent", "blocked"} => job[j].attempts = 0
        /\ job[j].status = "queued" => job[j].attempts < AttemptLimit

\* Only a claimed job has a lease.
LeaseIsClaimed == \A j \in Jobs : job[j].lease # "none" => job[j].status = "processing"

\* The process whose id the row carries made the job's latest claim, if it is
\* still working on the job.
OwnerIsLatest ==
    \A p \in Procs :
        run[p] # Idle /\ job[run[p].job].worker = WorkerOf[p]
            => run[p].attempt = job[run[p].job].attempts

IInv ==
    /\ TypeOK
    /\ QueuedHasAttempt
    /\ LeaseIsClaimed
    /\ AttemptsAreExclusive
    /\ OwnerIsLatest

-----------------------------------------------------------------------------

\* The dispatcher's own limit is one of the limits that bound attempts.
LEMMA Limits == AttemptLimit \in Nat /\ MaxDispatchAttempts \in 1..AttemptLimit
BY LimitAssumption DEF MaxDispatchAttempts

\* A process with no claim in hand is told apart from every claim.
LEMMA IdleIsNoClaim == Idle \notin Claims
BY DEF Idle, Claims

\* What a claim on j finds and writes.
LEMMA ClaimedRowIsRow ==
    ASSUME IInv, NEW j \in Jobs, NEW p \in Procs, Claimable(j)
    PROVE  /\ ClaimedRow(j, p) \in JobRow
           /\ ClaimedRow(j, p).attempts = job[j].attempts + 1
           /\ job[j].attempts \in Nat
           /\ ClaimedRow(j, p).attempts \in 1..AttemptLimit
<1>1. job[j] \in JobRow
    BY DEF IInv, TypeOK
<1>2. job[j].attempts \in Nat /\ job[j].attempts < AttemptLimit
    <2>1. CASE job[j].status = "queued"
        BY <1>1, <2>1, Limits DEF IInv, QueuedHasAttempt, JobRow
    <2>2. CASE job[j].status # "queued"
        BY <1>1, <2>2, Limits DEF Claimable, JobRow
    <2>. QED  BY <2>1, <2>2
<1>. QED  BY <1>1, <1>2, Limits, WorkerAssumption DEF ClaimedRow, JobRow, Status, Lease

\* Fields of a row that a step assigns without claiming it.
LEMMA RowMoves ==
    ASSUME NEW row \in JobRow, NEW st \in Status, NEW l \in Lease
    PROVE  /\ [row EXCEPT !.status = st, !.lease = l] \in JobRow
           /\ [row EXCEPT !.status = st] \in JobRow
           /\ [row EXCEPT !.lease = l] \in JobRow
BY DEF JobRow

\* A created job has a well-formed row.
LEMMA FreshRow ==
    ASSUME NEW j \in Jobs
    PROVE  Row(FirstStatus(j)) \in JobRow
BY Limits DEF Row, FirstStatus, JobRow, Status, Lease

\* With no jobs and idle processes the inductive invariant holds.
LEMMA InitIInv == Init => IInv
<1>. SUFFICES ASSUME Init PROVE IInv
    OBVIOUS
<1>1. Row("absent") \in JobRow
    BY Limits DEF Row, JobRow, Status, Lease
<1>. QED
    BY <1>1 DEF Init, IInv, TypeOK, QueuedHasAttempt, LeaseIsClaimed, AttemptsAreExclusive,
       OwnerIsLatest, Row

\* A step that touches no claim: workers and attempts stay, and nobody starts to
\* work.
LEMMA QuietStep ==
    ASSUME IInv, TypeOK',
           \A j \in Jobs : job'[j].worker = job[j].worker /\ job'[j].attempts = job[j].attempts,
           \A p \in Procs : run'[p] \in {run[p], Idle}
    PROVE  AttemptsAreExclusive' /\ OwnerIsLatest'
<1>1. \A p \in Procs : run'[p] # Idle => run'[p] = run[p] /\ run[p].job \in Jobs
    BY DEF IInv, TypeOK, Claims
<1>2. AttemptsAreExclusive'
    BY <1>1 DEF IInv, AttemptsAreExclusive
<1>3. OwnerIsLatest'
    BY <1>1 DEF IInv, OwnerIsLatest
<1>. QED  BY <1>2, <1>3

\* Creating a job gives it a row nobody has claimed.
LEMMA CreateKeepsIInv ==
    ASSUME IInv, NEW j \in Jobs, CreateJob(j)
    PROVE  IInv'
<1>0. job[j].attempts = 0
    BY DEF IInv, QueuedHasAttempt, CreateJob
<1>1. /\ job' = [job EXCEPT ![j] = Row(FirstStatus(j))]
      /\ run' = run
      /\ job'[j] = Row(FirstStatus(j))
      /\ \A k \in Jobs : k # j => job'[k] = job[k]
    BY DEF CreateJob, IInv, TypeOK
<1>2. TypeOK'
    <2>1. job' \in [Jobs -> JobRow]
        BY <1>1, FreshRow DEF IInv, TypeOK
    <2>2. older' \in [Jobs -> SUBSET Jobs]
        BY DEF CreateJob, IInv, TypeOK
    <2>. QED  BY <1>1, <2>1, <2>2 DEF IInv, TypeOK
<1>3. QueuedHasAttempt' /\ LeaseIsClaimed'
    BY <1>1, Limits DEF IInv, QueuedHasAttempt, LeaseIsClaimed, Row, FirstStatus
<1>4. \A p \in Procs : run[p] # Idle => run[p].job # j
    <2>. SUFFICES ASSUME NEW p \in Procs, run[p] # Idle, run[p].job = j PROVE FALSE
        OBVIOUS
    <2>1. run[p].attempt \in 1..AttemptLimit /\ run[p].attempt =< 0
        BY <1>0 DEF IInv, TypeOK, Claims, AttemptsAreExclusive
    <2>. QED  BY <2>1, Limits
<1>5. \A p \in Procs : run[p] # Idle => run[p].job \in Jobs
    BY DEF IInv, TypeOK, Claims
<1>6. AttemptsAreExclusive' /\ OwnerIsLatest'
    BY <1>1, <1>4, <1>5 DEF IInv, AttemptsAreExclusive, OwnerIsLatest
<1>. QED  BY <1>2, <1>3, <1>6 DEF IInv

\* A claim makes an attempt that no process has held before.
LEMMA TakeKeepsIInv ==
    ASSUME IInv, NEW p \in Procs, NEW j \in Jobs, Take(p, j)
    PROVE  IInv'
<1>. DEFINE n == job[j].attempts + 1
<1>1. /\ job[j].attempts \in Nat
      /\ n \in 1..AttemptLimit
      /\ ClaimedRow(j, p) \in JobRow
      /\ ClaimedRow(j, p).attempts = n
    BY ClaimedRowIsRow DEF Take
<1>2. /\ job' = [job EXCEPT ![j] = ClaimedRow(j, p)]
      /\ run' = [run EXCEPT ![p] = [job |-> j, attempt |-> n]]
      /\ older' = older
    BY <1>1 DEF Take
<1>. HIDE DEF n
<1>3. /\ job'[j] = ClaimedRow(j, p)
      /\ \A k \in Jobs : k # j => job'[k] = job[k]
      /\ run'[p] = [job |-> j, attempt |-> n]
      /\ \A q \in Procs : q # p => run'[q] = run[q]
    BY <1>2 DEF IInv, TypeOK
<1>4. /\ job'[j].attempts = n /\ job'[j].worker = WorkerOf[p]
      /\ job'[j].status = "processing"
    BY <1>1, <1>3 DEF ClaimedRow
<1>5. TypeOK'
    <2>1. job' \in [Jobs -> JobRow]
        BY <1>1, <1>2 DEF IInv, TypeOK
    <2>2. [job |-> j, attempt |-> n] \in Claims
        BY <1>1 DEF Claims
    <2>3. run' \in [Procs -> {Idle} \cup Claims]
        BY <1>2, <2>2 DEF IInv, TypeOK
    <2>. QED  BY <1>2, <2>1, <2>3 DEF IInv, TypeOK
<1>6. QueuedHasAttempt' /\ LeaseIsClaimed'
    BY <1>3, <1>4 DEF IInv, QueuedHasAttempt, LeaseIsClaimed
\* Every other process holds an earlier attempt of j, or none.
<1>7. \A q \in Procs \ {p} : run[q] # Idle =>
          /\ run[q].job \in Jobs /\ run[q].attempt \in Nat
          /\ run[q].attempt =< job[run[q].job].attempts
          /\ run[q].job = j => run[q].attempt < n
    <2>. SUFFICES ASSUME NEW q \in Procs \ {p}, run[q] # Idle
                  PROVE  /\ run[q].job \in Jobs /\ run[q].attempt \in Nat
                         /\ run[q].attempt =< job[run[q].job].attempts
                         /\ run[q].job = j => run[q].attempt < n
        OBVIOUS
    <2>1. run[q].job \in Jobs /\ run[q].attempt \in Nat
        BY Limits DEF IInv, TypeOK, Claims
    <2>2. run[q].attempt =< job[run[q].job].attempts
        BY DEF IInv, AttemptsAreExclusive
    <2>. QED  BY <1>1, <2>1, <2>2 DEF n
<1>8. AttemptsAreExclusive'
    <2>. SUFFICES ASSUME NEW q1 \in Procs, NEW q2 \in Procs, run'[q1] # Idle
                  PROVE  /\ run'[q1].attempt =< job'[run'[q1].job].attempts
                         /\ run'[q2] = run'[q1] => q1 = q2
        BY DEF AttemptsAreExclusive
    <2>0. Idle.job # j \/ Idle.attempt # n
        BY <1>1 DEF Idle
    <2>1. CASE q1 = p
      <3>1. run'[q1].attempt = n /\ run'[q1].job = j
          BY <1>3, <2>1
      <3>2. n =< job'[j].attempts
          BY <1>1, <1>4
      <3>3. q2 # p => run[q2] # [job |-> j, attempt |-> n]
          BY <1>1, <1>7, <2>0
      <3>. QED  BY <1>3, <2>1, <3>1, <3>2, <3>3
    <2>2. CASE q1 # p
      <3>1. run'[q1] = run[q1]
          BY <1>3, <2>2
      <3>2. run[q1] # [job |-> j, attempt |-> n]
          BY <1>1, <1>7, <2>2, <2>0, <3>1
      <3>3. run'[q2] = run'[q1] => q1 = q2
          BY <1>3, <2>2, <3>1, <3>2 DEF IInv, AttemptsAreExclusive
      <3>4. run[q1].attempt =< job'[run[q1].job].attempts
          BY <1>1, <1>3, <1>4, <1>7, <2>2, <3>1
      <3>. QED  BY <3>1, <3>3, <3>4
    <2>. QED  BY <2>1, <2>2
<1>9. OwnerIsLatest'
    <2>. SUFFICES ASSUME NEW q \in Procs, run'[q] # Idle,
                         job'[run'[q].job].worker = WorkerOf[q]
                  PROVE  run'[q].attempt = job'[run'[q].job].attempts
        BY DEF OwnerIsLatest
    <2>1. CASE q = p
        BY <1>3, <1>4, <2>1
    <2>2. CASE q # p
      <3>1. run'[q] = run[q] /\ WorkerOf[q] # WorkerOf[p]
          BY <1>3, <2>2, WorkerAssumption
      <3>2. run[q].job # j /\ run[q].job \in Jobs
          BY <1>4, <1>7, <2>2, <3>1
      <3>. QED  BY <1>3, <3>1, <3>2 DEF IInv, OwnerIsLatest
    <2>. QED  BY <2>1, <2>2
<1>. QED  BY <1>5, <1>6, <1>8, <1>9 DEF IInv

\* What a busy process remembers is a claim on a job that exists.
LEMMA RunsAreClaims ==
    ASSUME IInv, NEW p \in Procs, run[p] # Idle
    PROVE  run[p] \in Claims /\ run[p].job \in Jobs /\ job[run[p].job] \in JobRow
BY DEF IInv, TypeOK, Claims

\* A step that moves statuses and leases of claimed jobs, and claims nothing.
LEMMA RowsKeepIInv ==
    ASSUME IInv, job' \in [Jobs -> JobRow], UNCHANGED older,
           \A p \in Procs : run'[p] \in {run[p], Idle},
           run' \in [Procs -> {Idle} \cup Claims],
           \A j \in Jobs : job'[j].worker = job[j].worker /\ job'[j].attempts = job[j].attempts,
           \A j \in Jobs : job'[j] # job[j] =>
               /\ job'[j].status \notin {"absent", "blocked"}
               /\ job'[j].status = "queued" => job'[j].attempts < AttemptLimit
               /\ job'[j].lease # "none" => job'[j].status = "processing"
    PROVE  IInv'
<1>1. TypeOK'
    BY DEF IInv, TypeOK
<1>2. QueuedHasAttempt'
    BY DEF IInv, QueuedHasAttempt
<1>3. LeaseIsClaimed'
    BY DEF IInv, LeaseIsClaimed
<1>4. AttemptsAreExclusive' /\ OwnerIsLatest'
    BY <1>1, QuietStep
<1>. QED  BY <1>1, <1>2, <1>3, <1>4 DEF IInv

\* The owner releases a blocked job, which nobody has claimed.
LEMMA ReleaseKeepsIInv ==
    ASSUME IInv, NEW j \in Jobs, Release(j)
    PROVE  IInv'
<1>1. /\ job[j] \in JobRow /\ job[j].attempts = 0 /\ job[j].lease = "none"
      /\ job' = [job EXCEPT ![j] = [job[j] EXCEPT !.status = "queued"]]
    BY DEF IInv, TypeOK, QueuedHasAttempt, LeaseIsClaimed, Release, JobRow
<1>2. [job[j] EXCEPT !.status = "queued"] \in JobRow
    BY <1>1, RowMoves DEF Status, Lease
<1>3. /\ \A k \in Jobs : job'[k].worker = job[k].worker /\ job'[k].attempts = job[k].attempts
      /\ \A k \in Jobs : job'[k] # job[k] =>
             job'[k].status = "queued" /\ job'[k].attempts = 0 /\ job'[k].lease = "none"
    BY <1>1 DEF IInv, TypeOK, JobRow
<1>4. 0 < AttemptLimit
    BY Limits
<1>5. job' \in [Jobs -> JobRow]
    BY <1>1, <1>2 DEF IInv, TypeOK
<1>. QED  BY <1>3, <1>4, <1>5, RowsKeepIInv DEF Release, IInv, TypeOK

\* Time passing over a lease claims nothing.
LEMMA LapseKeepsIInv ==
    ASSUME IInv, NEW j \in Jobs, LeaseLapses(j)
    PROVE  IInv'
<1>1. /\ job[j] \in JobRow /\ job[j].status = "processing"
      /\ job' = [job EXCEPT ![j] = [job[j] EXCEPT !.lease = "lapsed"]]
    BY DEF IInv, TypeOK, LeaseIsClaimed, LeaseLapses
<1>2. [job[j] EXCEPT !.lease = "lapsed"] \in JobRow
    BY <1>1, RowMoves DEF Status, Lease
<1>3. /\ \A k \in Jobs : job'[k].worker = job[k].worker /\ job'[k].attempts = job[k].attempts
      /\ \A k \in Jobs : job'[k] # job[k] => job'[k].status = "processing"
    BY <1>1 DEF IInv, TypeOK, JobRow
<1>5. job' \in [Jobs -> JobRow]
    BY <1>1, <1>2 DEF IInv, TypeOK
<1>. QED  BY <1>3, <1>5, RowsKeepIInv DEF LeaseLapses, IInv, TypeOK

\* A worker's report on a job whose row it owns.
LEMMA ReportKeepsIInv ==
    ASSUME IInv, NEW p \in Procs, run[p] # Idle, NEW st \in Status \ {"absent", "blocked"},
           NEW l \in Lease,
           job' = [job EXCEPT ![run[p].job] = [job[run[p].job] EXCEPT !.status = st, !.lease = l]],
           st = "queued" => job[run[p].job].attempts < AttemptLimit,
           l # "none" => st = "processing",
           run' \in {run, [run EXCEPT ![p] = Idle]},
           UNCHANGED older
    PROVE  IInv'
<1>. DEFINE j == run[p].job
<1>1. j \in Jobs /\ job[j] \in JobRow
    BY RunsAreClaims
<1>2. [job[j] EXCEPT !.status = st, !.lease = l] \in JobRow
    BY <1>1, RowMoves
<1>3. job' = [job EXCEPT ![j] = [job[j] EXCEPT !.status = st, !.lease = l]]
    OBVIOUS
<1>4. st = "queued" => job[j].attempts < AttemptLimit
    OBVIOUS
<1>. HIDE DEF j
<1>5. /\ \A k \in Jobs : job'[k].worker = job[k].worker /\ job'[k].attempts = job[k].attempts
      /\ \A k \in Jobs : job'[k] # job[k] =>
             k = j /\ job'[k].status = st /\ job'[k].lease = l
    BY <1>1, <1>3 DEF IInv, TypeOK, JobRow
<1>6. job' \in [Jobs -> JobRow]
    BY <1>1, <1>2, <1>3 DEF IInv, TypeOK
<1>7. /\ \A q \in Procs : run'[q] \in {run[q], Idle}
      /\ run' \in [Procs -> {Idle} \cup Claims]
    BY DEF IInv, TypeOK
<1>. QED  BY <1>4, <1>5, <1>6, <1>7, RowsKeepIInv

\* Reconcile requeues or fails stalled rows and claims nothing.
LEMMA ReconcileKeepsIInv ==
    ASSUME IInv, NEW limit \in ReconcileLimits, NEW spared \in SUBSET Stalled,
           Reconcile(limit, spared)
    PROVE  IInv'
<1>1. \A j \in Jobs : job[j] \in JobRow
    BY DEF IInv, TypeOK
<1>2. limit \in 1..AttemptLimit
    BY LimitAssumption
<1>3. \A j \in Jobs :
          \/ job'[j] = job[j]
          \/ job'[j] = [job[j] EXCEPT !.status = "failed", !.lease = "none"]
          \/ /\ job[j].attempts < limit
             /\ job'[j] = [job[j] EXCEPT !.status = "queued", !.lease = "none"]
    <2>. SUFFICES ASSUME NEW j \in Jobs
                  PROVE  \/ job'[j] = job[j]
                         \/ job'[j] = [job[j] EXCEPT !.status = "failed", !.lease = "none"]
                         \/ /\ job[j].attempts < limit
                            /\ job'[j] = [job[j] EXCEPT !.status = "queued", !.lease = "none"]
        OBVIOUS
    <2>1. job[j].attempts \in Nat
        BY <1>1, Limits DEF JobRow
    <2>2. IsSpent(j, limit) \/ job[j].attempts < limit
        BY <1>2, <2>1, Limits DEF IsSpent
    <2>. QED  BY <2>2 DEF Reconcile
<1>4. job' \in [Jobs -> JobRow]
    <2>1. \A j \in Jobs : job'[j] \in JobRow
      <3>. SUFFICES ASSUME NEW j \in Jobs PROVE job'[j] \in JobRow
          OBVIOUS
      <3>1. {"failed", "queued"} \subseteq Status /\ "none" \in Lease
          BY DEF Status, Terminal, Lease
      <3>2. /\ [job[j] EXCEPT !.status = "failed", !.lease = "none"] \in JobRow
            /\ [job[j] EXCEPT !.status = "queued", !.lease = "none"] \in JobRow
          BY <1>1, <3>1, RowMoves
      <3>. QED  BY <1>1, <1>3, <3>2
    <2>2. job' = [j \in Jobs |-> job'[j]]
        BY DEF Reconcile
    <2>. QED  BY <2>1, <2>2
<1>5. \A j \in Jobs : job'[j].worker = job[j].worker /\ job'[j].attempts = job[j].attempts
    BY <1>1, <1>3 DEF JobRow
<1>6. \A j \in Jobs : job'[j] # job[j] =>
          /\ job'[j].status \in {"failed", "queued"}
          /\ job'[j].status = "queued" => job[j].attempts < limit
          /\ job'[j].lease = "none"
    BY <1>1, <1>3 DEF JobRow
<1>7. \A j \in Jobs : job[j].attempts < limit => job[j].attempts < AttemptLimit
    BY <1>1, <1>2, Limits DEF JobRow
<1>. QED  BY <1>4, <1>5, <1>6, <1>7, RowsKeepIInv DEF Reconcile, IInv, TypeOK

\* Every call of a worker keeps the inductive invariant.
LEMMA WorkerKeepsIInv ==
    ASSUME IInv, NEW p \in Procs, WorkerStep(p)
    PROVE  IInv'
<1>1. CASE \E j \in Jobs : Take(p, j)
    BY <1>1, TakeKeepsIInv
<1>2. CASE Heartbeat(p)
  <2>1. job[run[p].job] \in JobRow /\ run[p].job \in Jobs /\ job[run[p].job].status = "processing"
      BY <1>2, RunsAreClaims DEF Heartbeat, Owns
  <2>2. [job[run[p].job] EXCEPT !.lease = "live"] =
        [job[run[p].job] EXCEPT !.status = "processing", !.lease = "live"]
      BY <2>1 DEF JobRow
  <2>. QED  BY <1>2, <2>2, ReportKeepsIInv DEF Heartbeat, Status, Lease
<1>3. CASE Complete(p)
  <2>1. job' = [job EXCEPT ![run[p].job] =
                   [job[run[p].job] EXCEPT !.status = "completed", !.lease = "none"]]
      BY <1>3, RunsAreClaims DEF Complete, IInv, TypeOK
  <2>2. "completed" \in Status \ {"absent", "blocked"} /\ "none" \in Lease
      BY DEF Status, Terminal, Lease
  <2>. QED  BY <1>3, <2>1, <2>2, ReportKeepsIInv DEF Complete
<1>4. ASSUME NEW fatal \in BOOLEAN, Fail(p, fatal) PROVE IInv'
  <2>. DEFINE st == IF fatal \/ IsSpent(run[p].job, MaxDispatchAttempts)
                    THEN "failed" ELSE "queued"
  <2>1. job' = [job EXCEPT ![run[p].job] =
                   [job[run[p].job] EXCEPT !.status = st, !.lease = "none"]]
      BY <1>4, RunsAreClaims DEF Fail, IInv, TypeOK
  <2>2. st = "queued" => job[run[p].job].attempts < AttemptLimit
      BY <1>4, RunsAreClaims, Limits DEF Fail, IsSpent, JobRow
  <2>3. st \in Status \ {"absent", "blocked"}
      BY DEF Status, Terminal
  <2>. QED  BY <1>4, <2>1, <2>2, <2>3, ReportKeepsIInv DEF Fail, Lease
<1>5. CASE Abandon(p)
    BY <1>5, RowsKeepIInv DEF Abandon, IInv, TypeOK
<1>. QED  BY <1>1, <1>2, <1>3, <1>4, <1>5 DEF WorkerStep, ClaimTarget, ClaimOldest

\* Every step keeps the inductive invariant.
LEMMA NextKeepsIInv == IInv /\ [Next]_vars => IInv'
<1>. SUFFICES ASSUME IInv, [Next]_vars PROVE IInv'
    OBVIOUS
<1>1. CASE UNCHANGED vars
    BY <1>1 DEF vars, IInv, TypeOK, QueuedHasAttempt, LeaseIsClaimed, AttemptsAreExclusive,
       OwnerIsLatest
<1>2. ASSUME NEW j \in Jobs, CreateJob(j) \/ Release(j) \/ LeaseLapses(j) PROVE IInv'
    BY <1>2, CreateKeepsIInv, ReleaseKeepsIInv, LapseKeepsIInv
<1>3. CASE AdminStep
    BY <1>3, ReconcileKeepsIInv DEF AdminStep
<1>. QED  BY <1>1, <1>2, <1>3, WorkerKeepsIInv DEF Next

\* The inductive invariant holds.
THEOREM InvariantHolds == Spec => []IInv
BY InitIInv, NextKeepsIInv, PTL DEF Spec

\* Rows and runs keep their types; in particular no job is ever given more
\* attempts than the largest limit an Admin or the dispatcher applies.
THEOREM TypeCorrect == Spec => []TypeOK
<1>1. IInv => TypeOK
    BY DEF IInv
<1>. QED  BY <1>1, InvariantHolds, PTL

\* No two processes ever hold the same attempt of a job.
THEOREM ClaimsAreExclusive == Spec => []AttemptsAreExclusive
<1>1. IInv => AttemptsAreExclusive
    BY DEF IInv
<1>. QED  BY <1>1, InvariantHolds, PTL

-----------------------------------------------------------------------------
(* Action properties.                                                      *)

\* What a step may do to a row: create it, or leave its claim alone, or claim
\* it; what it may do to a finished row: nothing.
LEMMA RowSteps ==
    ASSUME IInv, Next, NEW j \in Jobs
    PROVE  \/ job'[j] = job[j]
           \/ job[j].status \in {"absent", "blocked"} /\ job'[j].status \in {"blocked", "queued"}
           \/ Claimable(j) /\ job'[j].status = "processing"
           \/ /\ job[j].status = "processing"
              /\ job'[j].worker = job[j].worker
              /\ job'[j].attempts = job[j].attempts
              /\ job'[j].status = "completed" =>
                     \E p \in Procs : run[p] # Idle /\ run[p].job = j /\ Owns(p, j)
<1>. DEFINE Goal ==
         \/ job'[j] = job[j]
         \/ job[j].status \in {"absent", "blocked"} /\ job'[j].status \in {"blocked", "queued"}
         \/ Claimable(j) /\ job'[j].status = "processing"
         \/ /\ job[j].status = "processing"
            /\ job'[j].worker = job[j].worker
            /\ job'[j].attempts = job[j].attempts
            /\ job'[j].status = "completed" =>
                   \E p \in Procs : run[p] # Idle /\ run[p].job = j /\ Owns(p, j)
<1>0. job[j] \in JobRow /\ job \in [Jobs -> JobRow]
    BY DEF IInv, TypeOK
<1>1. ASSUME NEW k \in Jobs, CreateJob(k) \/ Release(k) PROVE Goal
    BY <1>0, <1>1 DEF CreateJob, Release, Row, FirstStatus, JobRow
<1>2. ASSUME NEW k \in Jobs, LeaseLapses(k) PROVE Goal
    BY <1>0, <1>2 DEF LeaseLapses, JobRow, IInv, LeaseIsClaimed
<1>3. ASSUME NEW p \in Procs, NEW k \in Jobs, Take(p, k) PROVE Goal
    BY <1>0, <1>3 DEF Take, ClaimedRow
<1>4. ASSUME NEW p \in Procs, Heartbeat(p) PROVE Goal
    BY <1>0, <1>4, RunsAreClaims DEF Heartbeat, Owns, JobRow
<1>5. ASSUME NEW p \in Procs, Complete(p) PROVE Goal
  <2>1. CASE run[p].job = j
      BY <1>0, <1>5, <2>1, RunsAreClaims DEF Complete, Owns, JobRow
  <2>2. CASE run[p].job # j
      BY <1>0, <1>5, <2>2, RunsAreClaims DEF Complete
  <2>. QED  BY <2>1, <2>2
<1>6. ASSUME NEW p \in Procs, NEW fatal \in BOOLEAN, Fail(p, fatal) PROVE Goal
  <2>1. CASE run[p].job = j
      BY <1>0, <1>6, <2>1, RunsAreClaims DEF Fail, Owns, JobRow
  <2>2. CASE run[p].job # j
      BY <1>0, <1>6, <2>2, RunsAreClaims DEF Fail
  <2>. QED  BY <2>1, <2>2
<1>7. ASSUME NEW p \in Procs, Abandon(p) PROVE Goal
    BY <1>7 DEF Abandon
<1>8. ASSUME NEW limit, NEW spared, Reconcile(limit, spared) PROVE Goal
    BY <1>0, <1>8 DEF Reconcile, Stalled, JobRow
<1>. HIDE DEF Goal
<1>9. Goal
    BY <1>1, <1>2, <1>3, <1>4, <1>5, <1>6, <1>7, <1>8
       DEF Next, WorkerStep, AdminStep, ClaimTarget, ClaimOldest
<1>. QED  BY <1>9 DEF Goal

\* A finished job never changes again.
THEOREM FinishedStays == Spec => TerminalIsFinal
<1>1. ASSUME IInv, [Next]_vars, NEW j \in Jobs, job[j].status \in Terminal
      PROVE  job'[j] = job[j]
    BY <1>1, RowSteps DEF vars, Terminal, Claimable
<1>2. IInv /\ [Next]_vars =>
          [\A j \in Jobs : job[j].status \in Terminal => job'[j] = job[j]]_vars
    BY <1>1
<1>. QED  BY <1>2, InvariantHolds, PTL DEF Spec, TerminalIsFinal

\* A live lease is never taken over.
THEOREM LeasesHold == Spec => LiveLeaseHolds
<1>1. ASSUME IInv, [Next]_vars, NEW j \in Jobs, job[j].lease = "live"
      PROVE  job'[j].worker = job[j].worker /\ job'[j].attempts = job[j].attempts
    BY <1>1, RowSteps DEF vars, Claimable, IInv, LeaseIsClaimed
<1>2. IInv /\ [Next]_vars =>
          [\A j \in Jobs : job[j].lease = "live" =>
               job'[j].worker = job[j].worker /\ job'[j].attempts = job[j].attempts]_vars
    BY <1>1
<1>. QED  BY <1>2, InvariantHolds, PTL DEF Spec, LiveLeaseHolds

\* Only the process of the latest claim completes a job.
THEOREM LatestCompletes == Spec => CompletedByLatestClaim
<1>1. ASSUME IInv, [Next]_vars, NEW j \in Jobs,
             job[j].status # "completed", job'[j].status = "completed"
      PROVE  \E p \in Procs : run[p] = [job |-> j, attempt |-> job[j].attempts]
  <2>1. PICK p \in Procs : run[p] # Idle /\ run[p].job = j /\ Owns(p, j)
      BY <1>1, RowSteps DEF vars
  <2>2. run[p].attempt = job[j].attempts
      BY <1>1, <2>1 DEF IInv, OwnerIsLatest, Owns
  <2>3. run[p] \in Claims
      BY <1>1, <2>1, RunsAreClaims
  <2>. QED  BY <2>1, <2>2, <2>3 DEF Claims
<1>2. IInv /\ [Next]_vars =>
          [\A j \in Jobs :
               job[j].status # "completed" /\ job'[j].status = "completed" =>
                   \E p \in Procs : run[p] = [job |-> j, attempt |-> job[j].attempts]]_vars
    BY <1>1
<1>. QED  BY <1>2, InvariantHolds, PTL DEF Spec, CompletedByLatestClaim
=============================================================================
