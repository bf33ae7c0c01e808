----------------------- MODULE VideoSettlement_proofs -----------------------
(* Theorems about VideoSettlement, for every set of jobs, processes and    *)
(* accounts and every attempt limit.  The dispatcher's invariant is used   *)
(* as it is proved in VideoDispatch_proofs.                                *)
EXTENDS VideoSettlement, VideoDispatch_proofs

\* A settlement belongs to a completed job, and its row says how far it came.
FollowsJob(j) ==
    /\ settler[j].pc # "none" => job[j].status = "completed"
    /\ settler[j].pc \in {"none", "start"} => projection[j].status = "none"
    /\ settler[j].pc \in InCall =>
           /\ projection[j] = [status |-> "pending", error |-> "none"]
           /\ j \notin AcceptanceJobs
    /\ settler[j].pc = "answered" => \E b \in booked : b.job = j

SettlersFollowJobs == \A j \in Jobs : FollowsJob(j)

KeysNameJobs == \A d \in Sent : d.key = d.job

SettlementIInv ==
    /\ IInv
    /\ SettlementTypeOK
    /\ SettlersFollowJobs
    /\ KeysNameJobs
    /\ NoChargeWithoutDelivery
    /\ DebitedOnce
    /\ DebitsAreProjected
    /\ AnswersAreBooked

-----------------------------------------------------------------------------
(* Type correctness.                                                       *)

\* The debit of a job names that job and carries its key.
LEMMA DebitIsDebit == \A j \in Jobs : Debit(j) \in Debits /\ Debit(j).job = j /\ Debit(j).key = j
BY DEF Debit, StableKey, Debits

\* A settlement that changes its pc keeps its attempt.
LEMMA SettlerMoves ==
    ASSUME NEW s \in Settler, NEW pc \in SettlerPc
    PROVE  [s EXCEPT !.pc = pc] \in Settler /\ [s EXCEPT !.pc = pc].pc = pc
BY DEF Settler

\* d is the debit of a settlement in its bridge call.
SentBy(d) == d.key = d.job /\ d.job \in Jobs /\ settler[d.job].pc \in InCall

\* Calls given up were sent by settlements that were in their call.
LEMMA GivenUpAreDebits ==
    ASSUME SettlementTypeOK, NEW js \in SUBSET Jobs
    PROVE  /\ GivenUp(js) \subseteq Debits
           /\ \A d \in GivenUp(js) : d \in wire \/ SentBy(d)
BY DebitIsDebit DEF SettlementTypeOK, GivenUp, SentBy, InCall

\* Booking adds at most the debit that was asked for.
LEMMA BookedAreDebits ==
    ASSUME SettlementTypeOK, NEW d \in Debits, Book(d)
    PROVE  booked' \subseteq Debits /\ booked \subseteq booked' /\ booked' \subseteq booked \cup {d}
BY DEF SettlementTypeOK, Book

\* Every settler's step assigns its own settler and row, and types fit.
LEMMA SettlerStepTypes ==
    ASSUME SettlementTypeOK, NEW j \in Jobs, SettlerStep(j)
    PROVE  /\ settler' \in [Jobs -> Settler]
           /\ projection' \in [Jobs -> Projections]
           /\ booked' \subseteq Debits
           /\ wire' \subseteq Debits
<1>0. settler[j] \in Settler /\ projection[j] \in Projections /\ Debit(j) \in Debits
    BY DebitIsDebit DEF SettlementTypeOK
<1>1. settler' \in [Jobs -> Settler]
  <2>1. CASE RetrySettle(j)
    <3>1. [pc |-> "waiting", attempt |-> settler[j].attempt + 1] \in Settler
        BY <1>0, <2>1 DEF RetrySettle, Settler, SettlerPc, BridgeAttempts
    <3>. QED  BY <2>1, <3>1 DEF RetrySettle, SettlementTypeOK
  <2>2. CASE ~RetrySettle(j)
    <3>1. PICK pc \in SettlerPc : settler' = [settler EXCEPT ![j] = [settler[j] EXCEPT !.pc = pc]]
        BY <2>2 DEF SettlerStep, SettleExempt, SettleUnlinked, SettlePending, CoreSettles,
           CoreRefuses, RecordSettlement, RecordFailure, SettlerPc, SettlementTypeOK
    <3>2. [settler[j] EXCEPT !.pc = pc] \in Settler
        BY <1>0, SettlerMoves
    <3>. QED  BY <3>1, <3>2 DEF SettlementTypeOK
  <2>. QED  BY <2>1, <2>2
<1>2. projection' \in [Jobs -> Projections]
  <2>1. \A row \in Projections : FailedRow(row) \in Projections
      BY DEF FailedRow, Projections, AllowedStatuses
  <2>2. \A st \in AllowedStatuses \cup {"exempt", "pending"}, e \in {"none", "unlinked"} :
            [status |-> st, error |-> e] \in Projections
      BY DEF Projections
  <2>3. "failed" \in AllowedStatuses /\ Sanitized(CoreStatus) \in AllowedStatuses
      BY DEF AllowedStatuses, Sanitized
  <2>4. \E row \in Projections : projection' \in {projection, [projection EXCEPT ![j] = row]}
      BY <1>0, <2>1, <2>2, <2>3
         DEF SettlerStep, SettleExempt, SettleUnlinked, SettlePending, CoreSettles, CoreRefuses,
             RetrySettle, RecordSettlement, RecordFailure, PendingRow, SettlementTypeOK
  <2>. QED  BY <2>4 DEF SettlementTypeOK
<1>3. booked' \subseteq Debits
    BY <1>0, BookedAreDebits
       DEF SettlerStep, SettleExempt, SettleUnlinked, SettlePending, CoreSettles, CoreRefuses,
           RetrySettle, RecordSettlement, RecordFailure, core, SettlementTypeOK
<1>4. wire' \subseteq Debits
    BY GivenUpAreDebits
       DEF SettlerStep, SettleExempt, SettleUnlinked, SettlePending, CoreSettles, CoreRefuses,
           RetrySettle, RecordSettlement, RecordFailure, core, SettlementTypeOK
<1>. QED  BY <1>1, <1>2, <1>3, <1>4

\* The steps of the composition are steps of the dispatcher, or leave it alone.
LEMMA DispatchSteps == [SettlementNext]_settlementVars => [Next]_vars
<1>1. Dispatching => Next
    BY DEF Dispatching, Next, WorkerStep
<1>2. ASSUME NEW p \in Procs, CompleteAndSettle(p) PROVE Next
    BY <1>2 DEF CompleteAndSettle, Next, WorkerStep
<1>3. ASSUME NEW j \in Jobs, SettlerStep(j) PROVE UNCHANGED vars
    BY <1>3
       DEF SettlerStep, SettleExempt, SettleUnlinked, SettlePending, CoreSettles, CoreRefuses,
           RetrySettle, RecordSettlement, RecordFailure
<1>. QED
    BY <1>1, <1>2, <1>3
       DEF SettlementNext, settlementVars, ChangeLink, CoreReceivesLate, LoseCall, Crash

-----------------------------------------------------------------------------
(* The inductive invariant.                                                *)

\* Before any job exists the inductive invariant holds.
LEMMA InitSettlementIInv == SettlementInit => SettlementIInv
<1>. SUFFICES ASSUME SettlementInit PROVE SettlementIInv
    OBVIOUS
<1>1. IInv
    BY InitIInv DEF SettlementInit
<1>2. SettlementTypeOK
    BY <1>1 DEF SettlementInit, SettlementTypeOK, IInv, Settler, SettlerPc, BridgeAttempts, Projections
<1>3. SettlersFollowJobs
    BY DEF SettlementInit, SettlersFollowJobs, FollowsJob, InCall
<1>4. AnswersAreBooked
    BY DEF SettlementInit, AnswersAreBooked, IsRecorded
<1>. QED
    BY <1>1, <1>2, <1>3, <1>4
       DEF SettlementInit, SettlementIInv, KeysNameJobs, NoChargeWithoutDelivery, DebitedOnce,
           DebitsAreProjected, Sent

\* No step of the composition changes a completed job.
LEMMA CompletedStays ==
    ASSUME SettlementIInv, [SettlementNext]_settlementVars, NEW j \in Jobs,
           job[j].status = "completed"
    PROVE  job'[j] = job[j]
BY DispatchSteps, RowSteps DEF SettlementIInv, vars, Claimable

\* The debits of a step that sends, at most, the debits of waiting settlers, and
\* writes no row a sent debit may not have.
LEMMA DebitsStaySafe ==
    ASSUME SettlementIInv,
           \A j \in Jobs : job[j].status = "completed" => job'[j].status = "completed",
           \A d \in Sent' : d \in Sent \/ SentBy(d),
           \A j \in Jobs :
               \/ projection'[j] = projection[j]
               \/ settler[j].pc = "start"
               \/ /\ projection'[j].status \notin {"none", "exempt"}
                  /\ projection'[j].error # "unlinked"
    PROVE  KeysNameJobs' /\ NoChargeWithoutDelivery' /\ DebitsAreProjected'
<1>1. \A d \in Sent : d.job \in Jobs /\ settler[d.job].pc # "start"
    BY DEF SettlementIInv, SettlementTypeOK, Debits, Sent, SettlersFollowJobs, FollowsJob,
       DebitsAreProjected
<1>2. \A j \in Jobs : settler[j].pc \in InCall =>
          /\ job[j].status = "completed" /\ j \notin AcceptanceJobs
          /\ projection[j].status = "pending" /\ projection[j].error = "none"
          /\ settler[j].pc # "start"
    BY DEF SettlementIInv, SettlersFollowJobs, FollowsJob, InCall
<1>3. KeysNameJobs'
    BY DEF SettlementIInv, KeysNameJobs, SentBy
<1>4. NoChargeWithoutDelivery'
    BY <1>1, <1>2 DEF SentBy, SettlementIInv, NoChargeWithoutDelivery
<1>5. DebitsAreProjected'
    BY <1>1, <1>2 DEF SentBy, SettlementIInv, DebitsAreProjected
<1>. QED  BY <1>3, <1>4, <1>5

\* The case of a step that sends nothing and writes no row.
LEMMA QuietDebits ==
    ASSUME SettlementIInv,
           \A j \in Jobs : job[j].status = "completed" => job'[j].status = "completed",
           Sent' \subseteq Sent, projection' = projection
    PROVE  KeysNameJobs' /\ NoChargeWithoutDelivery' /\ DebitsAreProjected'
<1>1. \A d \in Sent : d.job \in Jobs
    BY DEF SettlementIInv, SettlementTypeOK, Debits, Sent
<1>2. KeysNameJobs'
    BY DEF SettlementIInv, KeysNameJobs
<1>3. NoChargeWithoutDelivery'
    BY <1>1 DEF SettlementIInv, NoChargeWithoutDelivery
<1>4. DebitsAreProjected'
    BY DEF SettlementIInv, DebitsAreProjected
<1>. QED  BY <1>2, <1>3, <1>4

\* Booking by key leaves the job one debit, its own.
LEMMA BookKeepsDebitedOnce ==
    ASSUME SettlementIInv, NEW d \in Debits, d.key = d.job, Book(d)
    PROVE  /\ DebitedOnce'
           /\ \E b \in booked' : b.job = d.job
<1>1. \A b \in booked : b.key = b.job
    BY DEF SettlementIInv, KeysNameJobs, Sent
<1>2. CASE \E b \in booked : b.key = d.key
    BY <1>1, <1>2 DEF SettlementIInv, DebitedOnce, Book
<1>3. CASE \A b \in booked : b.key # d.key
    <2>1. booked' = booked \cup {d} /\ \A b \in booked : b.job # d.job
        BY <1>1, <1>3 DEF Book
    <2>. QED  BY <2>1 DEF SettlementIInv, DebitedOnce
<1>. QED  BY <1>2, <1>3

\* A step that leaves settlers, rows and debits alone.
LEMMA StutterKeeps ==
    ASSUME SettlementIInv, IInv',
           \A j \in Jobs : job[j].status = "completed" => job'[j].status = "completed",
           linked' \subseteq Accounts, UNCHANGED <<settler, projection, core>>
    PROVE  SettlementIInv'
<1>1. UNCHANGED <<settler, projection, booked, wire>> /\ Sent' = Sent
    BY DEF core, Sent
<1>2. SettlementTypeOK'
    BY <1>1 DEF SettlementIInv, SettlementTypeOK, IInv
<1>3. SettlersFollowJobs'
    BY <1>1 DEF SettlementIInv, SettlersFollowJobs, FollowsJob
<1>4. KeysNameJobs' /\ NoChargeWithoutDelivery' /\ DebitsAreProjected'
    BY <1>1, QuietDebits
<1>5. DebitedOnce' /\ AnswersAreBooked'
    BY <1>1 DEF SettlementIInv, DebitedOnce, AnswersAreBooked, IsRecorded
<1>. QED  BY <1>2, <1>3, <1>4, <1>5 DEF SettlementIInv

\* Completing a job starts its settlement, with no row and no debit yet.
LEMMA CompleteKeeps ==
    ASSUME SettlementIInv, IInv', NEW p \in Procs, CompleteAndSettle(p)
    PROVE  SettlementIInv'
<1>0. PICK j \in Jobs : j = run[p].job
    BY RunsAreClaims DEF SettlementIInv, CompleteAndSettle, Complete
<1>1. /\ job[j].status = "processing"
      /\ job' = [job EXCEPT ![j].status = "completed", ![j].lease = "none"]
      /\ UNCHANGED <<linked, projection, booked, wire>>
    BY <1>0 DEF CompleteAndSettle, Complete, Owns, core
<1>2. PICK pc \in {"start", "done"} : settler' = [settler EXCEPT ![j] = [settler[j] EXCEPT !.pc = pc]]
    BY <1>0 DEF CompleteAndSettle, SettlementIInv, SettlementTypeOK
<1>3. settler[j].pc = "none" /\ projection[j].status = "none"
    BY <1>1 DEF SettlementIInv, SettlersFollowJobs, FollowsJob
<1>4. /\ job'[j].status = "completed"
      /\ \A k \in Jobs : k # j => job'[k] = job[k]
      /\ settler'[j].pc = pc
      /\ \A k \in Jobs : k # j => settler'[k] = settler[k]
    <2>1. job \in [Jobs -> JobRow] /\ settler \in [Jobs -> Settler]
        BY DEF SettlementIInv, SettlementTypeOK, TypeOK
    <2>. QED  BY <1>1, <1>2, <2>1 DEF JobRow, Settler
<1>5. settler' \in [Jobs -> Settler]
    <2>1. settler[j] \in Settler /\ pc \in SettlerPc
        BY <1>1 DEF SettlementIInv, SettlementTypeOK, SettlerPc
    <2>2. [settler[j] EXCEPT !.pc = pc] \in Settler
        BY <2>1, SettlerMoves
    <2>. QED  BY <1>2, <2>2 DEF SettlementIInv, SettlementTypeOK
<1>6. SettlementTypeOK'
    BY <1>1, <1>5 DEF SettlementIInv, SettlementTypeOK, IInv
<1>7. SettlersFollowJobs'
    <2>1. FollowsJob(j)'
        BY <1>1, <1>3, <1>4 DEF FollowsJob, InCall
    <2>2. ASSUME NEW k \in Jobs, k # j PROVE FollowsJob(k)'
      <3>1. /\ job'[k] = job[k] /\ settler'[k] = settler[k]
            /\ projection'[k] = projection[k] /\ booked' = booked
          BY <1>1, <1>4, <2>2
      <3>2. FollowsJob(k)
          BY DEF SettlementIInv, SettlersFollowJobs
      <3>. QED  BY <3>1, <3>2 DEF FollowsJob
    <2>. QED  BY <2>1, <2>2 DEF SettlersFollowJobs
<1>8. KeysNameJobs' /\ NoChargeWithoutDelivery' /\ DebitsAreProjected'
    <2>1. Sent' = Sent /\ projection' = projection
        BY <1>1 DEF Sent
    <2>. QED  BY <1>1, <1>4, <2>1, QuietDebits
<1>9. DebitedOnce'
    BY <1>1 DEF SettlementIInv, DebitedOnce
<1>10. AnswersAreBooked'
    BY <1>1, <1>3, <1>4 DEF SettlementIInv, AnswersAreBooked, IsRecorded
<1>. QED  BY <1>6, <1>7, <1>8, <1>9, <1>10 DEF SettlementIInv

\* What a settler's step does to its own settler and row; those of other jobs stay.
LEMMA SettlerStepLocal ==
    ASSUME SettlementIInv, NEW j \in Jobs, SettlerStep(j)
    PROVE  /\ \A k \in Jobs : k # j => settler'[k] = settler[k] /\ projection'[k] = projection[k]
           /\ settler'[j].pc \in {"done", "waiting", "answered", "refused"}
           /\ settler[j].pc \in {"start"} \cup InCall
           /\ UNCHANGED <<vars, linked>>
<1>1. settler \in [Jobs -> Settler] /\ projection \in [Jobs -> Projections]
    BY DEF SettlementIInv, SettlementTypeOK
<1>. QED
    BY <1>1
       DEF SettlerStep, SettleExempt, SettleUnlinked, SettlePending, CoreSettles, CoreRefuses,
           RetrySettle, RecordSettlement, RecordFailure, AnsweredOk, InCall, Settler

\* The row and the pc a step leaves behind fit each other.
LEMMA SettlerStepFollows ==
    ASSUME SettlementIInv, NEW j \in Jobs, SettlerStep(j)
    PROVE  FollowsJob(j)' /\ (IsRecorded(j)' => \E b \in booked' : b.job = j)
<1>0. /\ settler \in [Jobs -> Settler] /\ projection \in [Jobs -> Projections]
      /\ settler[j] \in Settler
      /\ FollowsJob(j)
    BY DEF SettlementIInv, SettlementTypeOK, SettlersFollowJobs
<1>1. CASE SettleExempt(j) \/ SettleUnlinked(j)
    BY <1>0, <1>1 DEF SettleExempt, SettleUnlinked, FollowsJob, IsRecorded, InCall, Settler, vars
<1>2. CASE SettlePending(j)
    BY <1>0, <1>2
       DEF SettlePending, FollowsJob, IsRecorded, InCall, Settler, PendingRow, IsAcceptance, vars
<1>3. CASE CoreSettles(j)
  <2>1. \E b \in booked' : b.job = j
      BY <1>3, DebitIsDebit, BookKeepsDebitedOnce DEF CoreSettles
  <2>. QED  BY <1>0, <1>3, <2>1 DEF CoreSettles, FollowsJob, IsRecorded, InCall, Settler, vars
<1>4. CASE CoreRefuses(j)
    BY <1>0, <1>4 DEF CoreRefuses, FollowsJob, IsRecorded, InCall, Settler, vars
<1>5. CASE RetrySettle(j)
    BY <1>0, <1>5 DEF RetrySettle, FollowsJob, IsRecorded, InCall, Settler, vars
<1>6. CASE RecordSettlement(j)
    BY <1>0, <1>6
       DEF RecordSettlement, AnsweredOk, FollowsJob, IsRecorded, InCall, Settler, core, vars
<1>7. CASE RecordFailure(j)
  <2>1. projection'[j].error = "bridge" /\ settler'[j].pc = "done"
      BY <1>0, <1>7 DEF RecordFailure, FailedRow, Settler, Projections
  <2>. QED  BY <1>0, <1>7, <2>1 DEF RecordFailure, FollowsJob, IsRecorded, InCall, vars
<1>. QED  BY <1>1, <1>2, <1>3, <1>4, <1>5, <1>6, <1>7 DEF SettlerStep

\* Every step of a settlement keeps the inductive invariant.
LEMMA SettlerKeeps ==
    ASSUME SettlementIInv, IInv', NEW j \in Jobs, SettlerStep(j)
    PROVE  SettlementIInv'
<1>1. SettlementTypeOK'
    BY SettlerStepTypes, SettlerStepLocal DEF SettlementIInv, SettlementTypeOK, IInv
<1>2. booked \subseteq booked' /\ DebitedOnce'
  <2>1. CASE CoreSettles(j)
      BY <2>1, DebitIsDebit, BookedAreDebits, BookKeepsDebitedOnce DEF CoreSettles, SettlementIInv
  <2>2. CASE ~CoreSettles(j)
      BY <2>2
         DEF SettlerStep, SettleExempt, SettleUnlinked, SettlePending, CoreRefuses, RetrySettle,
             RecordSettlement, RecordFailure, core, SettlementIInv, DebitedOnce
  <2>. QED  BY <2>1, <2>2
<1>3. SettlersFollowJobs'
  <2>1. ASSUME NEW k \in Jobs, k # j PROVE FollowsJob(k)'
      BY <1>2, <2>1, SettlerStepLocal DEF SettlementIInv, SettlersFollowJobs, FollowsJob, vars
  <2>. QED  BY <2>1, SettlerStepFollows DEF SettlersFollowJobs
<1>4. AnswersAreBooked'
  <2>1. ASSUME NEW k \in Jobs, k # j, IsRecorded(k)' PROVE \E b \in booked' : b.job = k
      BY <1>2, <2>1, SettlerStepLocal DEF SettlementIInv, AnswersAreBooked, IsRecorded
  <2>. QED  BY <2>1, SettlerStepFollows DEF AnswersAreBooked
<1>5. KeysNameJobs' /\ NoChargeWithoutDelivery' /\ DebitsAreProjected'
  <2>1. \A d \in Sent' : d \in Sent \/ SentBy(d)
    <3>1. CASE CoreSettles(j)
      <4>1. booked' \subseteq booked \cup {Debit(j)} /\ wire' = wire /\ settler[j].pc = "waiting"
          BY <3>1, DebitIsDebit, BookedAreDebits DEF CoreSettles, SettlementIInv
      <4>2. SentBy(Debit(j))
          BY <4>1, DebitIsDebit DEF SentBy, InCall
      <4>. QED  BY <4>1, <4>2 DEF Sent
    <3>2. CASE ~CoreSettles(j)
      <4>1. booked' = booked /\ wire' \in {wire, GivenUp({j})}
          BY <3>2
             DEF SettlerStep, SettleExempt, SettleUnlinked, SettlePending, CoreRefuses,
                 RetrySettle, RecordSettlement, RecordFailure, core
      <4>2. \A d \in GivenUp({j}) : d \in wire \/ SentBy(d)
          BY GivenUpAreDebits DEF SettlementIInv
      <4>. QED  BY <4>1, <4>2 DEF Sent
    <3>. QED  BY <3>1, <3>2
  <2>2. \/ projection'[j] = projection[j]
        \/ settler[j].pc = "start"
        \/ /\ projection'[j].status \notin {"none", "exempt"}
           /\ projection'[j].error # "unlinked"
    <3>1. projection \in [Jobs -> Projections] /\ projection[j] \in Projections
        BY DEF SettlementIInv, SettlementTypeOK
    <3>2. Sanitized(CoreStatus) \notin {"none", "exempt"}
        BY DEF Sanitized, AllowedStatuses
    <3>3. CASE RecordSettlement(j)
        BY <3>1, <3>2, <3>3 DEF RecordSettlement
    <3>4. CASE RecordFailure(j)
      <4>1. projection'[j] = FailedRow(projection[j])
          BY <3>1, <3>4 DEF RecordFailure
      <4>2. FailedRow(projection[j]).status = "failed" /\ FailedRow(projection[j]).error = "bridge"
          BY <3>1 DEF FailedRow, Projections
      <4>. QED  BY <4>1, <4>2
    <3>. QED
        BY <3>3, <3>4
           DEF SettlerStep, SettleExempt, SettleUnlinked, SettlePending, CoreSettles, CoreRefuses,
               RetrySettle, core
  <2>. QED  BY <2>1, <2>2, SettlerStepLocal, DebitsStaySafe DEF vars
<1>. QED  BY <1>1, <1>2, <1>3, <1>4, <1>5 DEF SettlementIInv

\* So does a late or a lost settle call.
LEMMA WireKeeps ==
    ASSUME SettlementIInv, IInv', NEW d \in wire, CoreReceivesLate(d) \/ LoseCall(d)
    PROVE  SettlementIInv'
<1>1. d \in Debits /\ d.key = d.job
    BY DEF SettlementIInv, SettlementTypeOK, KeysNameJobs, Sent
<1>2. /\ booked \subseteq booked' /\ booked' \subseteq booked \cup {d} /\ DebitedOnce'
      /\ booked' \subseteq Debits
  <2>1. CASE CoreReceivesLate(d)
      BY <1>1, <2>1, BookedAreDebits, BookKeepsDebitedOnce DEF CoreReceivesLate, SettlementIInv
  <2>2. CASE LoseCall(d)
      BY <2>2 DEF LoseCall, SettlementIInv, DebitedOnce, SettlementTypeOK
  <2>. QED  BY <2>1, <2>2
<1>3. UNCHANGED <<vars, linked, settler, projection>> /\ wire' = wire \ {d}
    BY DEF CoreReceivesLate, LoseCall
<1>4. SettlementTypeOK'
    BY <1>2, <1>3 DEF SettlementIInv, SettlementTypeOK, IInv
<1>5. SettlersFollowJobs' /\ AnswersAreBooked'
    BY <1>2, <1>3 DEF SettlementIInv, SettlersFollowJobs, FollowsJob, AnswersAreBooked, IsRecorded, vars
<1>6. Sent' \subseteq Sent
    BY <1>2, <1>3 DEF Sent
<1>7. KeysNameJobs' /\ NoChargeWithoutDelivery' /\ DebitsAreProjected'
    BY <1>3, <1>6, QuietDebits DEF vars
<1>. QED  BY <1>2, <1>4, <1>5, <1>7 DEF SettlementIInv

\* So does a crash of the Web process.
LEMMA CrashKeeps ==
    ASSUME SettlementIInv, IInv', Crash
    PROVE  SettlementIInv'
<1>1. settler \in [Jobs -> Settler]
    BY DEF SettlementIInv, SettlementTypeOK
<1>2. /\ \A j \in Jobs : settler'[j] = settler[j] \/ settler'[j] = [settler[j] EXCEPT !.pc = "lost"]
      /\ settler' = [j \in Jobs |-> settler'[j]]
      /\ \A j \in Jobs : settler'[j] # settler[j] => settler[j].pc # "none"
      /\ UNCHANGED <<vars, linked, projection, booked>>
      /\ wire' = GivenUp(Running)
    BY DEF Crash, Running, InCall
<1>3. \A j \in Jobs : settler'[j] # settler[j] => settler'[j].pc = "lost"
    BY <1>1, <1>2 DEF Settler
<1>4. settler' \in [Jobs -> Settler]
  <2>1. ASSUME NEW j \in Jobs PROVE settler'[j] \in Settler
    <3>1. settler[j] \in Settler /\ "lost" \in SettlerPc
        BY <1>1 DEF SettlerPc
    <3>2. [settler[j] EXCEPT !.pc = "lost"] \in Settler
        BY <3>1, SettlerMoves
    <3>. QED  BY <1>2, <3>1, <3>2
  <2>. QED  BY <1>2, <2>1
<1>5. SettlementTypeOK'
    BY <1>2, <1>4, GivenUpAreDebits DEF SettlementIInv, SettlementTypeOK, IInv, Running
<1>6. SettlersFollowJobs'
    BY <1>2, <1>3 DEF SettlementIInv, SettlersFollowJobs, FollowsJob, InCall, vars
<1>7. AnswersAreBooked' /\ DebitedOnce'
    BY <1>2, <1>3 DEF SettlementIInv, AnswersAreBooked, IsRecorded, DebitedOnce
<1>8. \A d \in Sent' : d \in Sent \/ SentBy(d)
  <2>1. \A d \in GivenUp(Running) : d \in wire \/ SentBy(d)
      BY GivenUpAreDebits DEF SettlementIInv, Running
  <2>. QED  BY <1>2, <2>1 DEF Sent
<1>9. KeysNameJobs' /\ NoChargeWithoutDelivery' /\ DebitsAreProjected'
    BY <1>2, <1>8, DebitsStaySafe DEF vars
<1>. QED  BY <1>5, <1>6, <1>7, <1>9 DEF SettlementIInv

\* Every step of the composition keeps the inductive invariant.
LEMMA NextKeepsSettlementIInv ==
    SettlementIInv /\ [SettlementNext]_settlementVars => SettlementIInv'
<1>. SUFFICES ASSUME SettlementIInv, [SettlementNext]_settlementVars PROVE SettlementIInv'
    OBVIOUS
<1>0. IInv'
    BY DispatchSteps, NextKeepsIInv DEF SettlementIInv
<1>1. \A j \in Jobs : job[j].status = "completed" => job'[j].status = "completed"
    BY CompletedStays
<1>2. CASE Dispatching
    BY <1>0, <1>1, <1>2, StutterKeeps DEF Dispatching, SettlementIInv, SettlementTypeOK
<1>3. ASSUME NEW a \in Accounts, ChangeLink(a) PROVE SettlementIInv'
    BY <1>0, <1>1, <1>3, StutterKeeps DEF ChangeLink, SettlementIInv, SettlementTypeOK
<1>4. CASE UNCHANGED settlementVars
    BY <1>0, <1>1, <1>4, StutterKeeps DEF settlementVars, core, SettlementIInv, SettlementTypeOK
<1>. QED
    BY <1>0, <1>2, <1>3, <1>4, CompleteKeeps, SettlerKeeps, WireKeeps, CrashKeeps
       DEF SettlementNext

\* The inductive invariant holds.
THEOREM SettlementInvariantHolds == SettlementSpec => []SettlementIInv
BY InitSettlementIInv, NextKeepsSettlementIInv, PTL DEF SettlementSpec

\* Jobs, settlers, projections and debits keep their types: whatever Bot Core
\* answers, a recorded status is one the bridge lets through.
THEOREM SettlementTypeCorrect == SettlementSpec => []SettlementTypeOK
<1>1. SettlementIInv => SettlementTypeOK
    BY DEF SettlementIInv
<1>. QED  BY <1>1, SettlementInvariantHolds, PTL

\* Bot Core is never asked to debit an undelivered or an acceptance job.
THEOREM ChargesAreDelivered == SettlementSpec => []NoChargeWithoutDelivery
<1>1. SettlementIInv => NoChargeWithoutDelivery
    BY DEF SettlementIInv
<1>. QED  BY <1>1, SettlementInvariantHolds, PTL

\* No job is ever debited twice.
THEOREM NoDoubleDebit == SettlementSpec => []DebitedOnce
<1>1. SettlementIInv => DebitedOnce
    BY DEF SettlementIInv
<1>. QED  BY <1>1, SettlementInvariantHolds, PTL

\* A debit is never asked for without its row, or after the row gave it up.
THEOREM DebitsHaveRows == SettlementSpec => []DebitsAreProjected
<1>1. SettlementIInv => DebitsAreProjected
    BY DEF SettlementIInv
<1>. QED  BY <1>1, SettlementInvariantHolds, PTL

\* A row with Bot Core's answer and no error has its debit.
THEOREM NoFakeSettlement == SettlementSpec => []AnswersAreBooked
<1>1. SettlementIInv => AnswersAreBooked
    BY DEF SettlementIInv
<1>. QED  BY <1>1, SettlementInvariantHolds, PTL

-----------------------------------------------------------------------------
(* Refinement.                                                             *)

\* Only the complete route completes a job.
LEMMA DispatchingCompletesNothing ==
    ASSUME SettlementIInv, Dispatching, NEW j \in Jobs
    PROVE  job'[j].status = "completed" <=> job[j].status = "completed"
<1>0. IInv /\ job \in [Jobs -> JobRow] /\ job[j] \in JobRow
    BY DEF SettlementIInv, IInv, TypeOK
<1>. DEFINE Goal == job'[j].status = "completed" <=> job[j].status = "completed"
<1>1. ASSUME NEW k \in Jobs, CreateJob(k) \/ Release(k) \/ LeaseLapses(k) PROVE Goal
    BY <1>0, <1>1 DEF CreateJob, Release, LeaseLapses, Row, FirstStatus, JobRow
<1>2. ASSUME NEW p \in Procs, NEW k \in Jobs, Take(p, k) PROVE Goal
    BY <1>0, <1>2 DEF Take, ClaimedRow, Claimable
<1>3. ASSUME NEW p \in Procs, Heartbeat(p) PROVE Goal
    BY <1>0, <1>3, RunsAreClaims DEF Heartbeat, JobRow
<1>4. ASSUME NEW p \in Procs, NEW fatal \in BOOLEAN, Fail(p, fatal) PROVE Goal
  <2>1. CASE run[p].job = j
      BY <1>0, <1>4, <2>1, RunsAreClaims DEF Fail, Owns, JobRow
  <2>2. CASE run[p].job # j
      BY <1>0, <1>4, <2>2, RunsAreClaims DEF Fail
  <2>. QED  BY <2>1, <2>2
<1>5. ASSUME NEW p \in Procs, Abandon(p) PROVE Goal
    BY <1>5 DEF Abandon
<1>6. ASSUME NEW limit, NEW spared, Reconcile(limit, spared) PROVE Goal
    BY <1>0, <1>6 DEF Reconcile, Stalled, JobRow
<1>. HIDE DEF Goal
<1>7. Goal
    BY <1>1, <1>2, <1>3, <1>4, <1>5, <1>6 DEF Dispatching, AdminStep, ClaimTarget, ClaimOldest
<1>. QED  BY <1>7 DEF Goal

\* The initial state maps to nothing delivered and nothing charged.
LEMMA PaidInit == SettlementInit => Abstract!Init
BY DEF SettlementInit, Init, Row, Abstract!Init

\* A step that completes no job and books nothing is an abstract stutter.
LEMMA PaidStutter ==
    ASSUME \A j \in Jobs : job'[j].status = "completed" <=> job[j].status = "completed",
           booked' = booked
    PROVE  [Abstract!Next]_(Abstract!deliveryVars)
BY DEF Abstract!deliveryVars

\* A booking of a delivered job is a charge, or nothing.
LEMMA PaidBook ==
    ASSUME SettlementIInv, NEW d \in Debits, d.key = d.job,
           job[d.job].status = "completed", d.job \notin AcceptanceJobs,
           UNCHANGED job, Book(d)
    PROVE  [Abstract!Next]_(Abstract!deliveryVars)
<1>1. CASE booked' = booked
    BY <1>1, PaidStutter
<1>2. CASE booked' # booked
  <2>1. booked' = booked \cup {d} /\ \A b \in booked : b.job # d.job
      BY <1>2 DEF Book, SettlementIInv, KeysNameJobs, Sent
  <2>2. {b \in booked' : b.job = d.job} = {d} /\ {b \in booked : b.job = d.job} = {}
      BY <2>1
  <2>3. d.job \in Jobs
      BY DEF Debits
  <2>4. [j \in Jobs |-> {b \in booked' : b.job = j}] =
        [[j \in Jobs |-> {b \in booked : b.job = j}] EXCEPT ![d.job] = {d}]
      BY <2>1, <2>2, <2>3
  <2>5. Abstract!Charge(d.job)
      BY <2>2, <2>3, <2>4 DEF Abstract!Charge
  <2>. QED  BY <2>3, <2>5 DEF Abstract!Next
<1>. QED  BY <1>1, <1>2

\* Every step is a step of PaidDelivery, or a stutter.
LEMMA PaidStep ==
    ASSUME SettlementIInv, [SettlementNext]_settlementVars
    PROVE  [Abstract!Next]_(Abstract!deliveryVars)
<1>1. CASE Dispatching
    BY <1>1, DispatchingCompletesNothing, PaidStutter DEF Dispatching, core
<1>2. ASSUME NEW p \in Procs, CompleteAndSettle(p) PROVE [Abstract!Next]_(Abstract!deliveryVars)
  <2>0. PICK j \in Jobs : j = run[p].job
      BY <1>2, RunsAreClaims DEF SettlementIInv, CompleteAndSettle, Complete
  <2>1. /\ job[j].status = "processing"
        /\ job' = [job EXCEPT ![j].status = "completed", ![j].lease = "none"]
        /\ booked' = booked
      BY <1>2, <2>0 DEF CompleteAndSettle, Complete, Owns, core
  <2>2. job'[j].status = "completed" /\ \A k \in Jobs : k # j => job'[k] = job[k]
    <3>1. job \in [Jobs -> JobRow]
        BY DEF SettlementIInv, IInv, TypeOK
    <3>. QED  BY <2>1, <3>1 DEF JobRow
  <2>3. {k \in Jobs : job'[k].status = "completed"} =
        {k \in Jobs : job[k].status = "completed"} \cup {j}
      BY <2>2
  <2>4. Abstract!Deliver(j)
      BY <2>1, <2>3 DEF Abstract!Deliver
  <2>. QED  BY <2>4 DEF Abstract!Next
<1>3. ASSUME NEW j \in Jobs, SettlerStep(j) PROVE [Abstract!Next]_(Abstract!deliveryVars)
  <2>1. CASE CoreSettles(j)
    <3>1. job[j].status = "completed" /\ j \notin AcceptanceJobs
        BY <2>1 DEF CoreSettles, SettlementIInv, SettlersFollowJobs, FollowsJob, InCall
    <3>. QED  BY <2>1, <3>1, DebitIsDebit, PaidBook DEF CoreSettles, vars
  <2>2. CASE ~CoreSettles(j)
      BY <1>3, <2>2, PaidStutter
         DEF SettlerStep, SettleExempt, SettleUnlinked, SettlePending, CoreRefuses, RetrySettle,
             RecordSettlement, RecordFailure, core, vars
  <2>. QED  BY <2>1, <2>2
<1>4. ASSUME NEW d \in wire, CoreReceivesLate(d) PROVE [Abstract!Next]_(Abstract!deliveryVars)
  <2>1. d \in Debits /\ d.key = d.job /\ job[d.job].status = "completed" /\ d.job \notin AcceptanceJobs
      BY DEF SettlementIInv, SettlementTypeOK, KeysNameJobs, NoChargeWithoutDelivery, Sent
  <2>. QED  BY <1>4, <2>1, PaidBook DEF CoreReceivesLate, vars
<1>. QED
    BY <1>1, <1>2, <1>3, <1>4, PaidStutter
       DEF SettlementNext, ChangeLink, LoseCall, Crash, settlementVars, core, vars

\* Settlement implements PaidDelivery: one delivery of each job and at most one
\* charge, after it.
THEOREM SettlementRefinement == SettlementSpec => ImplementsPaidDelivery
<1>1. SettlementIInv /\ [SettlementNext]_settlementVars =>
          [Abstract!Next]_(Abstract!deliveryVars)
    BY PaidStep
<1>. QED
    BY PaidInit, <1>1, SettlementInvariantHolds, PTL
       DEF SettlementSpec, ImplementsPaidDelivery, Abstract!Spec
=============================================================================
