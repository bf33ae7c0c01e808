------------------------ MODULE ManualTopup_proofs ------------------------
(* Theorems about ManualTopup, for every set of requests, sessions,        *)
(* handlers, users and accounts, and every amount.                         *)
EXTENDS ManualTopup, SequenceTheorems, TLAPS

-----------------------------------------------------------------------------
(* Type correctness.                                                       *)

\* The amount an approval credits is a natural number.
LEMMA XuIsNat == \A r \in Requests : Xu(r) \in Nat
BY AmountAssumption DEF Xu

\* A handler that is not idle holds a well-formed call.
LEMMA CallIsBusy ==
    ASSUME TypeOK, NEW h \in Handlers, handler[h].pc \in BusyPc
    PROVE  handler[h] \in Call
BY DEF TypeOK, Idle, BusyPc, BridgePc

\* What a handler sends is an entry Bot Core's ledger may hold.
LEMMA PayloadIsEntry ==
    ASSUME NEW c \in Call
    PROVE  Payload(c) \in CreditEntry
BY DEF Call, Payload, StableKey, CreditEntry

\* A handler record stays a Call whichever of its mutable fields are assigned.
LEMMA CallPc ==
    ASSUME NEW c \in Call, NEW p \in BusyPc
    PROVE  [c EXCEPT !.pc = p] \in Call
BY DEF Call

\* The same when a ledger_event_id is learned with the step.
LEMMA CallPcLedger ==
    ASSUME NEW c \in Call, NEW p \in BusyPc, NEW n \in Nat
    PROVE  [c EXCEPT !.pc = p, !.ledger = n] \in Call
BY DEF Call

\* The same for the second attempt of the bridge.
LEMMA CallPcAttempt ==
    ASSUME NEW c \in Call, NEW p \in BusyPc, NEW n \in Nat, NEW k \in 1..BridgeAttempts
    PROVE  [c EXCEPT !.pc = p, !.attempt = k, !.ledger = n] \in Call
BY DEF Call

\* The same for an operation row.
LEMMA OpRowUpdates ==
    ASSUME op \in OpRows, NEW r \in Requests, NEW st \in OpStatus
    PROVE  /\ [op EXCEPT ![r].status = st] \in OpRows
           /\ \A n \in Nat : [op EXCEPT ![r].status = st, ![r].ledger = n] \in OpRows
BY DEF OpRows

\* Booked and abandoned calls are all credit entries.
LEMMA SentAreEntries ==
    ASSUME TypeOK
    PROVE  Sent \subseteq CreditEntry
<1>1. \A i \in DOMAIN ledger : ledger[i] \in CreditEntry
    BY ElementOfSeq, LenProperties DEF TypeOK
<1>. QED  BY <1>1 DEF TypeOK, Sent

\* Freshly created tables have their types.
LEMMA InitTypeOK == Init => TypeOK
BY DEF Init, TypeOK, ReqRows, OpRows, NoOp, ReceiptState, NoLedgerId, Kinds, CreditEntry

\* Bot Core's ledger stays a sequence of credits.
LEMMA BookingKeepsType ==
    ASSUME TypeOK, NEW m \in CreditEntry, NEW i \in 1..(Len(ledger) + 1), CoreBooks(m, i)
    PROVE  ledger' \in Seq(CreditEntry)
<1>1. Append(ledger, m) \in Seq(CreditEntry) /\ ledger \in Seq(CreditEntry)
    BY DEF TypeOK
<1>. QED  BY <1>1 DEF CoreBooks

\* Giving up a call leaves only credit entries on the wire.
LEMMA AbandonKeepsType ==
    ASSUME TypeOK, NEW c \in Call
    PROVE  Abandoned(c) \subseteq CreditEntry
BY PayloadIsEntry DEF TypeOK, Abandoned

\* Only a busy handler takes a step of the confirm chain.
LEMMA StepperIsCall ==
    ASSUME TypeOK, NEW h \in Handlers, HandlerStep(h)
    PROVE  handler[h] \in Call
BY CallIsBusy DEF HandlerStep, ClaimNew, ClaimRetry, ClaimConfirmed, ClaimCompleted,
   ClaimRefused, Send, CoreCredits, CoreRefuses, RetryBridge, CreditFails, CreditConfirmed,
   HandlerAborts, AbortPc, FinalizeApproval, FinalizeReplay, FinalizeFails, HasLedgerId, BusyPc,
   BridgePc

\* One step per action; under it, what the action assigns.
LEMMA StepKeepsType == TypeOK /\ [Next]_vars => TypeOK'
<1> SUFFICES ASSUME TypeOK, [Next]_vars PROVE TypeOK'
    OBVIOUS
<1>1. ASSUME NEW r \in Requests, Submit(r) PROVE TypeOK'
  <2>1. req' \in ReqRows  BY <1>1 DEF TypeOK, Submit, ReqRows, Kinds
  <2>2. notices' \in [Requests -> [Kinds -> Nat]]  BY <1>1 DEF TypeOK, Submit, Kinds
  <2>. QED  BY <1>1, <2>1, <2>2 DEF TypeOK, Submit, core
<1>2. ASSUME NEW a \in Accounts, NEW u \in Users \cup {NoUser},
             LinkTelegram(a, u) \/ EditIdentity(a, u)
      PROVE TypeOK'
    BY <1>2 DEF TypeOK, LinkTelegram, EditIdentity, rows, core
<1>3. ASSUME NEW s \in Sessions, RevokeSession(s) \/ ChangeAuthority(s) PROVE TypeOK'
    BY <1>3 DEF TypeOK, RevokeSession, ChangeAuthority, rows, core
<1>4. ASSUME NEW s \in Sessions, NEW r \in Requests, AdminStep(s, r) PROVE TypeOK'
  <2>1. CASE DraftApprove(s, r)
    <3>1. approveReceipt' \in [Requests -> [Sessions -> ReceiptState]]
        BY <2>1 DEF TypeOK, DraftApprove, ReceiptState
    <3>. QED  BY <2>1, <3>1 DEF TypeOK, DraftApprove, core
  <2>2. CASE DraftReject(s, r)
    <3>1. rejectReceipt' \in [Requests -> [Sessions -> ReceiptState]]
        BY <2>2 DEF TypeOK, DraftReject, ReceiptState
    <3>. QED  BY <2>2, <3>1 DEF TypeOK, DraftReject, core
  <2>3. CASE ExpireReceipt(s, r)
    <3>1. CASE approveReceipt' = [approveReceipt EXCEPT ![r][s] = "expired"]
               /\ UNCHANGED rejectReceipt
      <4>1. approveReceipt' \in [Requests -> [Sessions -> ReceiptState]]
          BY <3>1 DEF TypeOK, ReceiptState
      <4>. QED  BY <2>3, <3>1, <4>1 DEF TypeOK, ExpireReceipt, core
    <3>2. CASE rejectReceipt' = [rejectReceipt EXCEPT ![r][s] = "expired"]
               /\ UNCHANGED approveReceipt
      <4>1. rejectReceipt' \in [Requests -> [Sessions -> ReceiptState]]
          BY <3>2 DEF TypeOK, ReceiptState
      <4>. QED  BY <2>3, <3>2, <4>1 DEF TypeOK, ExpireReceipt, core
    <3>. QED  BY <2>3, <3>1, <3>2 DEF ExpireReceipt
  <2>4. CASE ConfirmReject(s, r)
    <3>1. rejectReceipt' \in [Requests -> [Sessions -> ReceiptState]]
        BY <2>4 DEF TypeOK, ConfirmReject, ReceiptState
    <3>2. req' \in ReqRows  BY <2>4 DEF TypeOK, ConfirmReject, ReqRows, Kinds
    <3>3. notices' \in [Requests -> [Kinds -> Nat]]
        BY <2>4 DEF TypeOK, ConfirmReject, Kinds
    <3>. QED  BY <2>4, <3>1, <3>2, <3>3 DEF TypeOK, ConfirmReject, core
  <2>5. CASE ReplayReject(s, r) \/ ReplayApprove(s, r)
      BY <2>5 DEF TypeOK, ReplayReject, ReplayApprove, rows, core
  <2>6. ASSUME NEW h \in Handlers, BeginApprove(h, s, r) PROVE TypeOK'
    <3>1. identity[Owner[r]] \in Users
        BY <2>6, OwnerAssumption DEF TypeOK, BeginApprove
    <3>2. [pc |-> "claimed", r |-> r, s |-> s, user |-> identity[Owner[r]],
           xu |-> Xu(r), attempt |-> 1, ledger |-> NoLedgerId] \in Call
        BY <3>1, XuIsNat DEF Call, BusyPc, BridgeAttempts, NoLedgerId
    <3>. QED  BY <2>6, <3>2 DEF TypeOK, BeginApprove, rows, core
  <2>. QED  BY <1>4, <2>1, <2>2, <2>3, <2>4, <2>5, <2>6 DEF AdminStep
<1>5. ASSUME NEW h \in Handlers, HandlerStep(h) PROVE TypeOK'
  <2> DEFINE c == handler[h]
  <2>0. c \in Call  BY <1>5, StepperIsCall
  <2>1. c.r \in Requests /\ c.s \in Sessions /\ c.user \in Users
        /\ c.xu \in Nat /\ c.ledger \in Nat /\ c.attempt \in 1..BridgeAttempts
      BY <2>0 DEF Call
  <2> HIDE DEF c
  <2>2. CASE ClaimNew(h)
    <3>1. op' \in OpRows
        BY <2>1, <2>2 DEF TypeOK, ClaimNew, OpRows, OpStatus, NoLedgerId, c
    <3>2. handler' \in [Handlers -> {Idle} \cup Call]
        BY <2>0, <2>2, CallPc DEF TypeOK, ClaimNew, BusyPc, BridgePc, c
    <3>. QED  BY <2>2, <3>1, <3>2 DEF TypeOK, ClaimNew, core
  <2>3. CASE ClaimRetry(h)
    <3>1. op' \in OpRows
        BY <2>1, <2>3, OpRowUpdates DEF TypeOK, ClaimRetry, OpStatus, c
    <3>2. handler' \in [Handlers -> {Idle} \cup Call]
        BY <2>0, <2>3, CallPc DEF TypeOK, ClaimRetry, BusyPc, BridgePc, c
    <3>. QED  BY <2>3, <3>1, <3>2 DEF TypeOK, ClaimRetry, core
  <2>4. CASE ClaimConfirmed(h)
    <3>1. op[c.r].ledger \in Nat  BY <2>1 DEF TypeOK, OpRows
    <3>2. handler' \in [Handlers -> {Idle} \cup Call]
        BY <2>0, <2>4, <3>1, CallPcLedger DEF TypeOK, ClaimConfirmed, BusyPc, c
    <3>. QED  BY <2>4, <3>2 DEF TypeOK, ClaimConfirmed, rows, core
  <2>5. CASE ClaimCompleted(h) \/ ClaimRefused(h) \/ FinalizeReplay(h) \/ FinalizeFails(h)
      BY <2>1, <2>5
         DEF TypeOK, ClaimCompleted, ClaimRefused, FinalizeReplay, FinalizeFails,
             rows, core, c
  <2>6. CASE Send(h) \/ CoreRefuses(h)
    <3>1. handler' \in [Handlers -> {Idle} \cup Call]
      <4>1. CASE Send(h)
          BY <2>0, <4>1, CallPc DEF TypeOK, Send, BusyPc, BridgePc, c
      <4>2. CASE CoreRefuses(h)
          BY <2>0, <4>2, CallPc DEF TypeOK, CoreRefuses, BusyPc, BridgePc, c
      <4>. QED  BY <2>6, <4>1, <4>2
    <3>. QED  BY <2>6, <3>1 DEF TypeOK, Send, CoreRefuses, rows, core
  <2>7. CASE CoreCredits(h)
    <3>1. PICK i \in 1..(Len(ledger) + 1) :
              /\ CoreBooks(Payload(c), i)
              /\ handler' = [handler EXCEPT ![h].pc = "answered", ![h].ledger = i]
        BY <2>7 DEF CoreCredits, c
    <3>2. ledger' \in Seq(CreditEntry)
        BY <2>0, <3>1, PayloadIsEntry, BookingKeepsType
    <3>3. i \in Nat  BY DEF TypeOK
    <3>4. handler' \in [Handlers -> {Idle} \cup Call]
        BY <2>0, <3>1, <3>3, CallPcLedger DEF TypeOK, BusyPc, BridgePc, c
    <3>. QED  BY <2>7, <3>2, <3>4 DEF TypeOK, CoreCredits, rows
  <2>8. CASE RetryBridge(h)
    <3>1. c.attempt + 1 \in 1..BridgeAttempts
        BY <2>1, <2>8 DEF RetryBridge, MayRetry, BridgeAttempts, c
    <3>2. handler' \in [Handlers -> {Idle} \cup Call]
        BY <2>0, <2>8, <3>1, CallPcAttempt DEF TypeOK, RetryBridge, BusyPc, BridgePc, NoLedgerId, c
    <3>3. wire' \subseteq CreditEntry  BY <2>0, <2>8, AbandonKeepsType DEF RetryBridge, c
    <3>. QED  BY <2>8, <3>2, <3>3 DEF TypeOK, RetryBridge, rows
  <2>9. CASE CreditFails(h)
    <3>1. op' \in OpRows
        BY <2>1, <2>9, OpRowUpdates DEF TypeOK, CreditFails, FailureStatus, OpStatus, c
    <3>2. wire' \subseteq CreditEntry  BY <2>0, <2>9, AbandonKeepsType DEF CreditFails, c
    <3>. QED  BY <2>9, <3>1, <3>2 DEF TypeOK, CreditFails
  <2>10. CASE CreditConfirmed(h)
    <3>1. op' \in OpRows
        BY <2>1, <2>10, OpRowUpdates DEF TypeOK, CreditConfirmed, OpStatus, c
    <3>2. handler' \in [Handlers -> {Idle} \cup Call]
        BY <2>0, <2>10, CallPc DEF TypeOK, CreditConfirmed, BusyPc, c
    <3>. QED  BY <2>10, <3>1, <3>2 DEF TypeOK, CreditConfirmed, core
  <2>11. CASE FinalizeApproval(h)
    <3>1. req' \in ReqRows
        BY <2>1, <2>11 DEF TypeOK, FinalizeApproval, ReqRows, Kinds, c
    <3>2. op' \in OpRows
        BY <2>1, <2>11, OpRowUpdates DEF TypeOK, FinalizeApproval, OpStatus, c
    <3>3. approveReceipt' \in [Requests -> [Sessions -> ReceiptState]]
        BY <2>1, <2>11 DEF TypeOK, FinalizeApproval, ReceiptState, c
    <3>4. notices' \in [Requests -> [Kinds -> Nat]]
        BY <2>1, <2>11 DEF TypeOK, FinalizeApproval, Kinds, c
    <3>5. handler' \in [Handlers -> {Idle} \cup Call]
        BY <2>11 DEF TypeOK, FinalizeApproval
    <3>6. told' \subseteq Requests \X {"approved", "rejected"}
        BY <2>1, <2>11 DEF TypeOK, FinalizeApproval, c
    <3>. QED  BY <2>11, <3>1, <3>2, <3>3, <3>4, <3>5, <3>6 DEF TypeOK, FinalizeApproval, core
  <2>12. CASE HandlerAborts(h)
    <3>1. wire' \subseteq CreditEntry  BY <2>0, <2>12, AbandonKeepsType DEF HandlerAborts, c
    <3>. QED  BY <2>12, <3>1 DEF TypeOK, HandlerAborts, rows
  <2>. QED
      BY <1>5, <2>2, <2>3, <2>4, <2>5, <2>6, <2>7, <2>8, <2>9, <2>10, <2>11, <2>12
         DEF HandlerStep
<1>6. ASSUME NEW m \in wire, CoreReceivesLate(m) \/ LoseCall(m) PROVE TypeOK'
    BY <1>6, BookingKeepsType DEF TypeOK, CoreReceivesLate, LoseCall, rows
<1>7. CASE Crash
  <2>1. \A g \in Handlers : handler[g].pc = "waiting" => Payload(handler[g]) \in CreditEntry
      BY CallIsBusy, PayloadIsEntry DEF BusyPc, BridgePc
  <2>. QED  BY <1>7, <2>1 DEF TypeOK, Crash, rows
<1>8. CASE UNCHANGED vars
    BY <1>8 DEF TypeOK, vars
<1>. QED  BY <1>1, <1>2, <1>3, <1>4, <1>5, <1>6, <1>7, <1>8 DEF Next

\* Every reachable state has its type, for any number of Admins and requests.
THEOREM TypeCorrect == Spec => []TypeOK
BY InitTypeOK, StepKeepsType, PTL DEF Spec

-----------------------------------------------------------------------------
(* Safety.  None of the safety invariants is inductive alone: a step of    *)
(* one handler relies on what the rows, Bot Core's ledger and the other    *)
(* handlers were left in by earlier steps.  IInv is their conjunction with *)
(* the three facts that close the induction.                               *)

OperationsFollowRequests ==
    \A r \in Requests :
        op[r].status # "none" =>
            /\ req[r].status # "absent"
            /\ op[r].user \in Users
            /\ op[r].xu = Xu(r)

KeysNameRequests == \A m \in Sent : m.key = m.request

ReceiptsFollowDecisions ==
    \A r \in Requests, s \in Sessions :
        approveReceipt[r][s] = "consumed" => req[r].status = "approved"

IInv ==
    /\ TypeOK
    /\ SingleDispatcher
    /\ HandlersFollowRows
    /\ OperationsFollowRequests
    /\ CreditsAreClaimed
    /\ KeysNameRequests
    /\ CreditedOnce
    /\ ConfirmedIsBooked
    /\ ApprovalIsBacked
    /\ ReceiptsFollowDecisions
    /\ AnswersAreTrue
    /\ NoticesFollowStatus

\* Empty tables satisfy every part of the inductive invariant.
LEMMA InitIInv == Init => IInv
<1> SUFFICES ASSUME Init PROVE IInv
    OBVIOUS
<1>1. TypeOK  BY InitTypeOK
<1>2. SingleDispatcher /\ HandlersFollowRows
    BY DEF Init, SingleDispatcher, HandlersFollowRows, FollowsRows, Idle, BusyPc, BridgePc
<1>3. OperationsFollowRequests /\ ConfirmedIsBooked /\ ReceiptsFollowDecisions
    BY DEF Init, OperationsFollowRequests, ConfirmedIsBooked, ReceiptsFollowDecisions,
           Evidenced, NoOp
<1>4. Sent = {}  BY DEF Init, Sent
<1>5. CreditsAreClaimed /\ KeysNameRequests
    BY <1>4 DEF CreditsAreClaimed, KeysNameRequests
<1>6. CreditedOnce /\ AnswersAreTrue
    BY DEF Init, CreditedOnce, AnswersAreTrue
<1>7. ApprovalIsBacked
    BY DEF Init, ApprovalIsBacked, NoOp
<1>8. NoticesFollowStatus
    BY DEF Init, NoticesFollowStatus, Kinds
<1>. QED  BY <1>1, <1>2, <1>3, <1>5, <1>6, <1>7, <1>8 DEF IInv

\* Frames: a part holds again after a step that leaves what it reads alone.
LEMMA FrameOfRequests ==
    ASSUME IInv, UNCHANGED <<req, approveReceipt, notices, told>>
    PROVE  ReceiptsFollowDecisions' /\ AnswersAreTrue' /\ NoticesFollowStatus'
BY DEF IInv, ReceiptsFollowDecisions, AnswersAreTrue, NoticesFollowStatus

\* The same for what the ledger, the wire and the operations say.
LEMMA FrameOfMoney ==
    ASSUME IInv, UNCHANGED <<ledger, wire, op>>
    PROVE  /\ CreditsAreClaimed' /\ KeysNameRequests' /\ CreditedOnce'
           /\ ConfirmedIsBooked'
BY DEF IInv, CreditsAreClaimed, KeysNameRequests, CreditedOnce, ConfirmedIsBooked,
       Sent, Evidenced, IsCreditOf

\* The same for what handlers and decisions say together.
LEMMA FrameOfHandlers ==
    ASSUME IInv, UNCHANGED <<req, op, ledger, handler>>
    PROVE  /\ SingleDispatcher' /\ HandlersFollowRows' /\ OperationsFollowRequests'
           /\ ApprovalIsBacked'
BY DEF IInv, SingleDispatcher, HandlersFollowRows, FollowsRows, OperationsFollowRequests, ApprovalIsBacked,
       SameFingerprint, Evidenced, IsCreditOf

\* A handler that answers its caller and ends disturbs nothing.
LEMMA FrameOfRelease ==
    ASSUME IInv, NEW h \in Handlers, handler' = [handler EXCEPT ![h] = Idle],
           UNCHANGED <<req, op, ledger>>
    PROVE  /\ SingleDispatcher' /\ HandlersFollowRows' /\ OperationsFollowRequests'
           /\ ApprovalIsBacked'
<1>1. \A g \in Handlers : handler'[g] = handler[g] \/ handler'[g].pc = "idle"
    BY DEF IInv, TypeOK, Idle
<1>2. SingleDispatcher'
    BY <1>1 DEF IInv, SingleDispatcher, BridgePc
<1>3. HandlersFollowRows'
    BY <1>1 DEF IInv, HandlersFollowRows, FollowsRows, BridgePc, BusyPc, SameFingerprint, Evidenced, IsCreditOf
<1>4. OperationsFollowRequests' /\ ApprovalIsBacked'
    BY DEF IInv, OperationsFollowRequests, ApprovalIsBacked, IsCreditOf
<1>. QED  BY <1>2, <1>3, <1>4

\* What an assignment to the row of one handler, or of one operation, leaves.
SameCall(d, c) == d.r = c.r /\ d.s = c.s /\ d.user = c.user /\ d.xu = c.xu

\* A handler that only changes its pc keeps its call; the others are untouched.
LEMMA HandlerMoves ==
    ASSUME TypeOK, NEW h \in Handlers, handler[h] \in Call, NEW p \in BusyPc,
           handler' = [handler EXCEPT ![h].pc = p]
    PROVE  /\ SameCall(handler'[h], handler[h])
           /\ handler'[h].pc = p
           /\ \A g \in Handlers : g # h => handler'[g] = handler[g]
BY DEF TypeOK, Call, SameCall

\* The same when it also learns a ledger_event_id.
LEMMA HandlerLearns ==
    ASSUME TypeOK, NEW h \in Handlers, handler[h] \in Call, NEW p \in BusyPc, NEW n,
           handler' = [handler EXCEPT ![h].pc = p, ![h].ledger = n]
    PROVE  /\ SameCall(handler'[h], handler[h])
           /\ handler'[h].pc = p /\ handler'[h].ledger = n
           /\ \A g \in Handlers : g # h => handler'[g] = handler[g]
BY DEF TypeOK, Call, SameCall

\* The same when it also starts another attempt.
LEMMA HandlerRetries ==
    ASSUME TypeOK, NEW h \in Handlers, handler[h] \in Call, NEW p \in BusyPc, NEW n, NEW k,
           handler' = [handler EXCEPT ![h].pc = p, ![h].attempt = k, ![h].ledger = n]
    PROVE  /\ SameCall(handler'[h], handler[h])
           /\ handler'[h].pc = p
           /\ \A g \in Handlers : g # h => handler'[g] = handler[g]
BY DEF TypeOK, Call, SameCall

\* An operation that changes its status keeps its user and amount.
LEMMA OperationMoves ==
    ASSUME TypeOK, NEW r \in Requests, NEW st, op' = [op EXCEPT ![r].status = st]
    PROVE  /\ op'[r].status = st
           /\ op'[r].user = op[r].user /\ op'[r].xu = op[r].xu
           /\ \A q \in Requests : q # r => op'[q] = op[q]
BY DEF TypeOK, OpRows

\* The same when it also stores a ledger_event_id.
LEMMA OperationLearns ==
    ASSUME TypeOK, NEW r \in Requests, NEW st, NEW n,
           op' = [op EXCEPT ![r].status = st, ![r].ledger = n]
    PROVE  /\ op'[r].status = st /\ op'[r].ledger = n
           /\ op'[r].user = op[r].user /\ op'[r].xu = op[r].xu
           /\ \A q \in Requests : q # r => op'[q] = op[q]
BY DEF TypeOK, OpRows

\* A request whose status changes keeps its other columns.
LEMMA DecisionMoves ==
    ASSUME TypeOK, NEW r \in Requests, NEW st, req' = [req EXCEPT ![r].status = st]
    PROVE  /\ req'[r].status = st
           /\ req'[r].xu = req[r].xu /\ req'[r].ledger = req[r].ledger
           /\ \A q \in Requests : q # r => req'[q] = req[q]
BY DEF TypeOK, ReqRows

-----------------------------------------------------------------------------
(* The steps of customers and of the customer directory, and the draft and *)
(* the replay of a decision.                                               *)

\* Intake: a new pending request has no operation, receipt or credit yet.
LEMMA SubmitKeepsIInv ==
    ASSUME IInv, TypeOK', NEW r \in Requests, Submit(r)
    PROVE  IInv'
<1> USE DEF core
<1>1. /\ req'[r].status = "pending" /\ req[r].status = "absent"
      /\ \A q \in Requests : q # r => req'[q] = req[q]
    BY DecisionMoves DEF IInv, Submit
<1>2. op[r].status = "none"
    BY <1>1 DEF IInv, OperationsFollowRequests
<1>3. SingleDispatcher'
    BY DEF IInv, Submit, SingleDispatcher
<1>4. HandlersFollowRows'
    BY <1>1 DEF IInv, Submit, HandlersFollowRows, FollowsRows, SameFingerprint, IsCreditOf, Evidenced
<1>5. OperationsFollowRequests'
    BY <1>1 DEF IInv, Submit, OperationsFollowRequests
<1>6. ApprovalIsBacked'
    BY <1>1, <1>2 DEF IInv, Submit, ApprovalIsBacked, IsCreditOf
<1>7. CreditsAreClaimed' /\ KeysNameRequests' /\ CreditedOnce' /\ ConfirmedIsBooked'
    BY FrameOfMoney DEF Submit
<1>8. ReceiptsFollowDecisions'
    BY <1>1 DEF IInv, Submit, ReceiptsFollowDecisions
<1>9. AnswersAreTrue'
    BY <1>1 DEF IInv, TypeOK, Submit, AnswersAreTrue
<1>10. NoticesFollowStatus'
    BY <1>1 DEF IInv, TypeOK, Submit, NoticesFollowStatus, Kinds
<1>. QED  BY <1>3, <1>4, <1>5, <1>6, <1>7, <1>8, <1>9, <1>10 DEF IInv

\* Identity, session and draft steps touch nothing the invariant relates.
LEMMA ElsewhereKeepsIInv ==
    ASSUME IInv, TypeOK', UNCHANGED <<req, op, handler, core, told, notices>>,
           \A r \in Requests, s \in Sessions :
               approveReceipt'[r][s] = "consumed" => approveReceipt[r][s] = "consumed"
    PROVE  IInv'
<1>1. /\ SingleDispatcher' /\ HandlersFollowRows' /\ OperationsFollowRequests'
      /\ ApprovalIsBacked'
    BY FrameOfHandlers DEF core
<1>2. CreditsAreClaimed' /\ KeysNameRequests' /\ CreditedOnce' /\ ConfirmedIsBooked'
    BY FrameOfMoney DEF core
<1>3. ReceiptsFollowDecisions' /\ AnswersAreTrue' /\ NoticesFollowStatus'
    BY DEF IInv, ReceiptsFollowDecisions, AnswersAreTrue, NoticesFollowStatus
<1>. QED  BY <1>1, <1>2, <1>3 DEF IInv

\* A confirmed rejection decides a pending request and leaves the money alone.
LEMMA ConfirmRejectKeepsIInv ==
    ASSUME IInv, TypeOK', NEW s \in Sessions, NEW r \in Requests, ConfirmReject(s, r)
    PROVE  IInv'
<1> USE DEF core
<1>1. /\ req'[r].status = "rejected" /\ req[r].status = "pending"
      /\ \A q \in Requests : q # r => req'[q] = req[q]
    BY DecisionMoves DEF IInv, ConfirmReject, Decidable
<1>3. SingleDispatcher'
    BY DEF IInv, ConfirmReject, SingleDispatcher
<1>4. HandlersFollowRows'
    BY <1>1 DEF IInv, ConfirmReject, HandlersFollowRows, FollowsRows, SameFingerprint, IsCreditOf, Evidenced
<1>5. OperationsFollowRequests'
    BY <1>1 DEF IInv, ConfirmReject, OperationsFollowRequests
<1>6. ApprovalIsBacked'
    BY <1>1 DEF IInv, ConfirmReject, ApprovalIsBacked, IsCreditOf
<1>7. CreditsAreClaimed' /\ KeysNameRequests' /\ CreditedOnce' /\ ConfirmedIsBooked'
    BY FrameOfMoney DEF ConfirmReject
<1>8. ReceiptsFollowDecisions'
    BY <1>1 DEF IInv, ConfirmReject, ReceiptsFollowDecisions
<1>9. AnswersAreTrue'
    BY <1>1 DEF IInv, TypeOK, ConfirmReject, AnswersAreTrue
<1>10. NoticesFollowStatus'
    BY <1>1 DEF IInv, TypeOK, ConfirmReject, NoticesFollowStatus, Kinds
<1>. QED  BY <1>3, <1>4, <1>5, <1>6, <1>7, <1>8, <1>9, <1>10 DEF IInv

\* A replayed confirm repeats a decision the row already holds.
LEMMA ReplaysKeepIInv ==
    ASSUME IInv, TypeOK', NEW s \in Sessions, NEW r \in Requests,
           ReplayReject(s, r) \/ ReplayApprove(s, r)
    PROVE  IInv'
<1> USE DEF core, rows
<1>1. /\ SingleDispatcher' /\ HandlersFollowRows' /\ OperationsFollowRequests'
      /\ ApprovalIsBacked'
    BY FrameOfHandlers DEF ReplayReject, ReplayApprove
<1>2. CreditsAreClaimed' /\ KeysNameRequests' /\ CreditedOnce' /\ ConfirmedIsBooked'
    BY FrameOfMoney DEF ReplayReject, ReplayApprove
<1>3. ReceiptsFollowDecisions' /\ NoticesFollowStatus'
    BY DEF IInv, ReplayReject, ReplayApprove, ReceiptsFollowDecisions, NoticesFollowStatus
<1>4. AnswersAreTrue'
    BY DEF IInv, ReplayReject, ReplayApprove, ReplaysApproval, AnswersAreTrue, ReceiptsFollowDecisions
<1>. QED  BY <1>1, <1>2, <1>3, <1>4 DEF IInv

-----------------------------------------------------------------------------
(* The steps of the confirm chain.                                         *)

\* The decision of a request, its receipts and its notices are another
\* handler's business until the request is finalized.
LEMMA BeginApproveKeepsIInv ==
    ASSUME IInv, TypeOK', NEW h \in Handlers, NEW s \in Sessions, NEW r \in Requests,
           BeginApprove(h, s, r)
    PROVE  IInv'
<1> USE DEF core, rows
<1>1. /\ handler'[h].pc = "claimed" /\ handler'[h].r = r /\ handler'[h].xu = Xu(r)
      /\ \A g \in Handlers : g # h => handler'[g] = handler[g]
    BY DEF IInv, TypeOK, BeginApprove
<1>2. req[r].status # "absent"
    BY DEF BeginApprove, Decidable
<1>3. SingleDispatcher'
    BY <1>1 DEF IInv, BeginApprove, SingleDispatcher, BridgePc
<1>4. HandlersFollowRows'
    BY <1>1, <1>2 DEF IInv, BeginApprove, HandlersFollowRows, FollowsRows, SameFingerprint, IsCreditOf,
                      Evidenced, BridgePc
<1>5. OperationsFollowRequests' /\ ApprovalIsBacked'
    BY DEF IInv, BeginApprove, OperationsFollowRequests, ApprovalIsBacked, IsCreditOf
<1>6. CreditsAreClaimed' /\ KeysNameRequests' /\ CreditedOnce' /\ ConfirmedIsBooked'
    BY FrameOfMoney DEF BeginApprove
<1>7. ReceiptsFollowDecisions' /\ AnswersAreTrue' /\ NoticesFollowStatus'
    BY FrameOfRequests DEF BeginApprove
<1>. QED  BY <1>3, <1>4, <1>5, <1>6, <1>7 DEF IInv

\* A claim: the row becomes dispatched with the fingerprint of the handler.
LEMMA ClaimKeepsIInv ==
    ASSUME IInv, TypeOK', NEW h \in Handlers, ClaimNew(h) \/ ClaimRetry(h)
    PROVE  IInv'
<1> DEFINE c == handler[h]
<1> USE DEF core
<1>1. c \in Call
    BY StepperIsCall DEF IInv, HandlerStep
<1>2. c.r \in Requests /\ c.user \in Users
    BY <1>1 DEF Call
<1>3. c.pc = "claimed" /\ handler' = [handler EXCEPT ![h].pc = "sending"]
    BY DEF ClaimNew, ClaimRetry
<1>4. /\ handler'[h].pc = "sending" /\ SameCall(handler'[h], c)
      /\ \A g \in Handlers : g # h => handler'[g] = handler[g]
    BY <1>1, <1>3, HandlerMoves DEF IInv, BusyPc, BridgePc
<1>5. /\ op[c.r].status \in {"none", "not_sent", "reconcile_required"}
      /\ op'[c.r].status = "dispatched"
      /\ op'[c.r].user = c.user /\ op'[c.r].xu = c.xu
      /\ op[c.r].status # "none" => op'[c.r].user = op[c.r].user /\ op'[c.r].xu = op[c.r].xu
      /\ \A q \in Requests : q # c.r => op'[q] = op[q]
  <2>1. CASE ClaimNew(h)
      BY <1>2, <2>1 DEF IInv, TypeOK, OpRows, ClaimNew
  <2>2. CASE ClaimRetry(h)
      BY <1>2, <2>2, OperationMoves DEF IInv, ClaimRetry, MayRedispatch, SameFingerprint
  <2>. QED  BY <2>1, <2>2
<1>6. UNCHANGED <<req, approveReceipt, ledger, wire, told, notices>>
    BY DEF ClaimNew, ClaimRetry
<1>7. c.xu = Xu(c.r) /\ req[c.r].status # "absent"
    BY <1>3 DEF IInv, HandlersFollowRows, FollowsRows, BusyPc
<1> HIDE DEF c
<1>8. \A g \in Handlers : handler[g].pc \in BridgePc \cup {"finalize"} => handler[g].r # c.r
    BY <1>5 DEF IInv, SingleDispatcher, HandlersFollowRows, FollowsRows, Evidenced
<1>9. SingleDispatcher'
    BY <1>4, <1>5, <1>8, CallIsBusy DEF IInv, SingleDispatcher, SameCall, BridgePc, BusyPc, Call
<1>10. HandlersFollowRows'
  <2>1. ASSUME NEW g \in Handlers, g # h, handler[g].pc \in BusyPc
        PROVE  handler[g].r \in Requests
      BY <2>1, CallIsBusy DEF IInv, Call
  <2>. QED
      BY <1>2, <1>4, <1>5, <1>6, <1>7, <1>8, <2>1
         DEF IInv, HandlersFollowRows, FollowsRows, SameFingerprint, SameCall, IsCreditOf, Evidenced,
             BridgePc, BusyPc
<1>11. OperationsFollowRequests'
    BY <1>2, <1>5, <1>6, <1>7 DEF IInv, OperationsFollowRequests
<1>12. CreditsAreClaimed' /\ KeysNameRequests'
  <2>1. \A m \in Sent : m.request \in Requests
      BY SentAreEntries DEF IInv, CreditEntry
  <2>. QED
      BY <1>2, <1>5, <1>6, <2>1 DEF IInv, CreditsAreClaimed, KeysNameRequests, Sent
<1>13. CreditedOnce'
    BY <1>6 DEF IInv, CreditedOnce
<1>14. ConfirmedIsBooked'
    BY <1>2, <1>5, <1>6 DEF IInv, ConfirmedIsBooked, Evidenced, IsCreditOf
<1>15. ApprovalIsBacked'
    BY <1>2, <1>5, <1>6 DEF IInv, ApprovalIsBacked, IsCreditOf
<1>16. ReceiptsFollowDecisions' /\ AnswersAreTrue' /\ NoticesFollowStatus'
    BY <1>6, FrameOfRequests
<1>. QED  BY <1>9, <1>10, <1>11, <1>12, <1>13, <1>14, <1>15, <1>16 DEF IInv

\* The handler ends: it answers, or fails and leaves the rows alone.
LEMMA ReleaseKeepsIInv ==
    ASSUME IInv, TypeOK', NEW h \in Handlers,
           ClaimCompleted(h) \/ ClaimRefused(h) \/ FinalizeReplay(h) \/ FinalizeFails(h)
    PROVE  IInv'
<1> USE DEF core, rows
<1>1. handler' = [handler EXCEPT ![h] = Idle] /\ UNCHANGED <<rows, core>>
    BY DEF ClaimCompleted, ClaimRefused, FinalizeReplay, FinalizeFails
<1>2. /\ SingleDispatcher' /\ HandlersFollowRows' /\ OperationsFollowRequests'
      /\ ApprovalIsBacked'
    BY <1>1, FrameOfRelease
<1>3. CreditsAreClaimed' /\ KeysNameRequests' /\ CreditedOnce' /\ ConfirmedIsBooked'
    BY <1>1, FrameOfMoney
<1>4. ReceiptsFollowDecisions' /\ NoticesFollowStatus'
    BY <1>1 DEF IInv, ReceiptsFollowDecisions, NoticesFollowStatus
<1>5. AnswersAreTrue'
  <2>1. handler[h].r \in Requests
      BY StepperIsCall DEF IInv, HandlerStep, Call
  <2>2. \A a \in told' : a \in told \/ (a = <<handler[h].r, "approved">>
                                          /\ req[handler[h].r].status = "approved")
      BY <2>1 DEF IInv, ApprovalIsBacked, ClaimCompleted, ClaimRefused, FinalizeReplay, FinalizeFails
  <2>. QED  BY <1>1, <2>2 DEF IInv, AnswersAreTrue
<1>. QED  BY <1>2, <1>3, <1>4, <1>5 DEF IInv

\* The handler moves on and the rows stay: ready_to_finalize, the call is sent,
\* Bot Core answers an error.
LEMMA MoveKeepsIInv ==
    ASSUME IInv, TypeOK', NEW h \in Handlers,
           ClaimConfirmed(h) \/ Send(h) \/ CoreRefuses(h)
    PROVE  IInv'
<1> DEFINE c == handler[h]
<1> USE DEF core, rows
<1>1. c \in Call
    BY StepperIsCall DEF IInv, HandlerStep
<1>2. c.r \in Requests
    BY <1>1 DEF Call
<1>3. UNCHANGED <<rows, core, told>>
    BY DEF ClaimConfirmed, Send, CoreRefuses
<1>4. /\ SameCall(handler'[h], c)
      /\ \A g \in Handlers : g # h => handler'[g] = handler[g]
      /\ \/ /\ handler'[h].pc \in {"waiting", "refused"}
            /\ c.pc \in BridgePc
         \/ /\ handler'[h].pc = "finalize"
            /\ Evidenced(c.r) /\ SameFingerprint(op[c.r], c)
            /\ handler'[h].ledger = op[c.r].ledger
            /\ c.pc = "claimed"
  <2>1. CASE Send(h)
      BY <1>1, <2>1, HandlerMoves DEF IInv, Send, BusyPc, BridgePc
  <2>2. CASE CoreRefuses(h)
      BY <1>1, <2>2, HandlerMoves DEF IInv, CoreRefuses, BusyPc, BridgePc
  <2>3. CASE ClaimConfirmed(h)
    <3> DEFINE n == op[c.r].ledger
    <3>1. handler' = [handler EXCEPT ![h].pc = "finalize", ![h].ledger = n]
        BY <2>3 DEF ClaimConfirmed
    <3>2. c.pc = "claimed" /\ Evidenced(c.r) /\ SameFingerprint(op[c.r], c)
        BY <2>3 DEF ClaimConfirmed, Evidenced
    <3> HIDE DEF n
    <3>3. /\ handler'[h].pc = "finalize" /\ SameCall(handler'[h], c)
          /\ handler'[h].ledger = n
          /\ \A g \in Handlers : g # h => handler'[g] = handler[g]
        BY <1>1, <3>1, HandlerLearns DEF IInv, BusyPc
    <3>. QED  BY <3>2, <3>3 DEF n
  <2>. QED  BY <2>1, <2>2, <2>3
<1> HIDE DEF c
<1>5. SingleDispatcher'
    BY <1>3, <1>4 DEF IInv, SingleDispatcher, SameCall, BridgePc, c
<1>6. HandlersFollowRows'
    BY <1>2, <1>3, <1>4
       DEF IInv, HandlersFollowRows, FollowsRows, SameFingerprint, SameCall, IsCreditOf, Evidenced,
           BridgePc, BusyPc, c
<1>7. OperationsFollowRequests' /\ ApprovalIsBacked'
    BY <1>3 DEF IInv, OperationsFollowRequests, ApprovalIsBacked, IsCreditOf
<1>8. CreditsAreClaimed' /\ KeysNameRequests' /\ CreditedOnce' /\ ConfirmedIsBooked'
    BY <1>3, FrameOfMoney
<1>9. ReceiptsFollowDecisions' /\ AnswersAreTrue' /\ NoticesFollowStatus'
    BY <1>3, FrameOfRequests
<1>. QED  BY <1>5, <1>6, <1>7, <1>8, <1>9 DEF IInv

\* Bot Core books a credit that the operation of its request asked for: no
\* other entry, and no stored ledger_event_id, is affected.
LEMMA BookingIsSafe ==
    ASSUME IInv, NEW m \in CreditEntry, NEW i \in 1..(Len(ledger) + 1), CoreBooks(m, i),
           m.key = m.request,
           op[m.request].status # "none",
           op[m.request].user = m.user, op[m.request].xu = m.xu,
           wire' \subseteq wire, UNCHANGED op
    PROVE  /\ CreditsAreClaimed' /\ KeysNameRequests' /\ CreditedOnce' /\ ConfirmedIsBooked'
           /\ i \in DOMAIN ledger' /\ ledger'[i] = m
           /\ \A j \in DOMAIN ledger : j \in DOMAIN ledger' /\ ledger'[j] = ledger[j]
<1>1. ledger \in Seq(CreditEntry) /\ DOMAIN ledger = 1..Len(ledger) /\ Len(ledger) \in Nat
    BY LenProperties DEF IInv, TypeOK
<1>2. CASE BookedAt(m.key) = {} /\ i = Len(ledger) + 1 /\ ledger' = Append(ledger, m)
  <2>1. /\ DOMAIN ledger' = 1..(Len(ledger) + 1)
        /\ ledger'[i] = m
        /\ \A j \in DOMAIN ledger : ledger'[j] = ledger[j]
      BY <1>1, <1>2
  <2>2. \A e \in Sent' : e \in Sent \/ e = m
      BY <1>1, <1>2, <2>1 DEF Sent
  <2>3. CreditsAreClaimed' /\ KeysNameRequests'
      BY <2>2 DEF IInv, CreditsAreClaimed, KeysNameRequests
  <2>4. \A j \in DOMAIN ledger : ledger[j].request # m.request
      BY <1>2 DEF IInv, KeysNameRequests, Sent, BookedAt
  <2>5. CreditedOnce'
      BY <1>1, <1>2, <2>1, <2>4 DEF IInv, CreditedOnce
  <2>6. ConfirmedIsBooked'
      BY <1>1, <2>1 DEF IInv, ConfirmedIsBooked, Evidenced, IsCreditOf
  <2>. QED  BY <1>1, <1>2, <2>1, <2>3, <2>5, <2>6
<1>3. CASE i \in BookedAt(m.key) /\ ledger[i] = m /\ UNCHANGED ledger
  <2>1. CreditsAreClaimed' /\ KeysNameRequests'
      BY <1>3 DEF IInv, CreditsAreClaimed, KeysNameRequests, Sent
  <2>2. CreditedOnce' /\ ConfirmedIsBooked'
      BY <1>3 DEF IInv, CreditedOnce, ConfirmedIsBooked, Evidenced, IsCreditOf
  <2>. QED  BY <1>3, <2>1, <2>2 DEF BookedAt
<1>. QED  BY <1>2, <1>3 DEF CoreBooks

\* A growing ledger is no concern of the rows.
LEMMA FrameOfBooking ==
    ASSUME IInv, UNCHANGED <<req, op>>,
           \A j \in DOMAIN ledger : j \in DOMAIN ledger' /\ ledger'[j] = ledger[j]
    PROVE  OperationsFollowRequests' /\ ApprovalIsBacked'
<1>1. OperationsFollowRequests'
    BY DEF IInv, OperationsFollowRequests
<1>2. ApprovalIsBacked'
    BY DEF IInv, ApprovalIsBacked, IsCreditOf
<1>. QED  BY <1>1, <1>2

\* Bot Core's success: the handler learns the request's own entry.
LEMMA CoreCreditsKeepsIInv ==
    ASSUME IInv, TypeOK', NEW h \in Handlers, CoreCredits(h)
    PROVE  IInv'
<1> DEFINE c == handler[h]
<1>1. c \in Call /\ c.pc = "waiting"
    BY StepperIsCall DEF IInv, HandlerStep, CoreCredits
<1>2. c.r \in Requests /\ Payload(c) \in CreditEntry
    BY <1>1, PayloadIsEntry DEF Call
<1>3. PICK i \in 1..(Len(ledger) + 1) :
          /\ CoreBooks(Payload(c), i)
          /\ handler' = [handler EXCEPT ![h].pc = "answered", ![h].ledger = i]
    BY DEF CoreCredits
<1>4. UNCHANGED <<req, op, approveReceipt, notices, wire, told>>
    BY DEF CoreCredits, rows
<1>5. /\ handler'[h].pc = "answered" /\ handler'[h].ledger = i /\ SameCall(handler'[h], c)
      /\ \A g \in Handlers : g # h => handler'[g] = handler[g]
    BY <1>1, <1>3, HandlerLearns DEF IInv, BusyPc, BridgePc
<1>6. op[c.r].status = "dispatched" /\ SameFingerprint(op[c.r], c)
    BY <1>1 DEF IInv, SingleDispatcher, HandlersFollowRows, FollowsRows, BridgePc
<1>7. /\ CreditsAreClaimed' /\ KeysNameRequests' /\ CreditedOnce' /\ ConfirmedIsBooked'
      /\ i \in DOMAIN ledger' /\ ledger'[i] = Payload(c)
      /\ \A j \in DOMAIN ledger : j \in DOMAIN ledger' /\ ledger'[j] = ledger[j]
    BY <1>2, <1>3, <1>4, <1>6, BookingIsSafe DEF Payload, StableKey, SameFingerprint
<1> HIDE DEF c
<1>8. SingleDispatcher'
    BY <1>1, <1>4, <1>5 DEF IInv, SingleDispatcher, SameCall, BridgePc, c
<1>9. HandlersFollowRows'
    BY <1>1, <1>4, <1>5, <1>6, <1>7
       DEF IInv, HandlersFollowRows, FollowsRows, SameFingerprint, SameCall, IsCreditOf, Evidenced,
           Payload, BridgePc, BusyPc, c
<1>10. OperationsFollowRequests' /\ ApprovalIsBacked'
    BY <1>4, <1>7, FrameOfBooking
<1>11. ReceiptsFollowDecisions' /\ AnswersAreTrue' /\ NoticesFollowStatus'
    BY <1>4, FrameOfRequests
<1>. QED  BY <1>7, <1>8, <1>9, <1>10, <1>11 DEF IInv

\* The handler gives up a call that Bot Core may still receive.
LEMMA AbandonIsSafe ==
    ASSUME IInv, NEW h \in Handlers, handler[h].pc \in BridgePc, UNCHANGED <<op, ledger>>,
           wire' = Abandoned(handler[h])
    PROVE  CreditsAreClaimed' /\ KeysNameRequests' /\ CreditedOnce' /\ ConfirmedIsBooked'
<1> DEFINE c == handler[h]
<1>1. op[c.r].status = "dispatched" /\ SameFingerprint(op[c.r], c)
    BY DEF IInv, SingleDispatcher, HandlersFollowRows, FollowsRows
<1>2. \A m \in Sent' : m \in Sent \/ m = Payload(c)
    BY DEF Sent, Abandoned
<1>3. CreditsAreClaimed' /\ KeysNameRequests'
    BY <1>1, <1>2
       DEF IInv, CreditsAreClaimed, KeysNameRequests, Payload, StableKey, SameFingerprint
<1>4. CreditedOnce' /\ ConfirmedIsBooked'
    BY DEF IInv, CreditedOnce, ConfirmedIsBooked, Evidenced, IsCreditOf
<1>. QED  BY <1>3, <1>4

\* A retry sends the same key and payload as the call it gives up.
LEMMA RetryBridgeKeepsIInv ==
    ASSUME IInv, TypeOK', NEW h \in Handlers, RetryBridge(h)
    PROVE  IInv'
<1> DEFINE c == handler[h]
<1>1. c \in Call /\ c.pc \in BridgePc
    BY StepperIsCall DEF IInv, HandlerStep, RetryBridge
<1>2. c.r \in Requests
    BY <1>1 DEF Call
<1>3. /\ UNCHANGED <<req, op, approveReceipt, notices, ledger, told>>
      /\ wire' = Abandoned(c)
    BY DEF RetryBridge, rows
<1>4. /\ handler'[h].pc = "sending" /\ SameCall(handler'[h], c)
      /\ \A g \in Handlers : g # h => handler'[g] = handler[g]
  <2>1. handler' = [handler EXCEPT ![h].pc = "sending",
                                   ![h].attempt = handler[h].attempt + 1,
                                   ![h].ledger = NoLedgerId]
      BY DEF RetryBridge
  <2>. QED  BY <1>1, <2>1, HandlerRetries DEF IInv, BusyPc, BridgePc
<1>5. CreditsAreClaimed' /\ KeysNameRequests' /\ CreditedOnce' /\ ConfirmedIsBooked'
    BY <1>1, <1>3, AbandonIsSafe
<1> HIDE DEF c
<1>6. SingleDispatcher'
    BY <1>1, <1>3, <1>4 DEF IInv, SingleDispatcher, SameCall, BridgePc, c
<1>7. HandlersFollowRows'
    BY <1>1, <1>2, <1>3, <1>4
       DEF IInv, HandlersFollowRows, FollowsRows, SameFingerprint, SameCall, IsCreditOf, Evidenced,
           BridgePc, BusyPc, c
<1>8. OperationsFollowRequests' /\ ApprovalIsBacked'
    BY <1>3 DEF IInv, OperationsFollowRequests, ApprovalIsBacked, IsCreditOf
<1>9. ReceiptsFollowDecisions' /\ AnswersAreTrue' /\ NoticesFollowStatus'
    BY <1>3, FrameOfRequests
<1>. QED  BY <1>5, <1>6, <1>7, <1>8, <1>9 DEF IInv

\* A handler that ends in an exception leaves the rows, and what it has sent.
LEMMA HandlerAbortsKeepsIInv ==
    ASSUME IInv, TypeOK', NEW h \in Handlers, HandlerAborts(h)
    PROVE  IInv'
<1>1. /\ handler' = [handler EXCEPT ![h] = Idle]
      /\ UNCHANGED <<req, op, approveReceipt, notices, ledger, told>>
      /\ wire' = Abandoned(handler[h])
    BY DEF HandlerAborts, rows
<1>2. /\ SingleDispatcher' /\ HandlersFollowRows' /\ OperationsFollowRequests'
      /\ ApprovalIsBacked'
    BY <1>1, FrameOfRelease
<1>3. CreditsAreClaimed' /\ KeysNameRequests' /\ CreditedOnce' /\ ConfirmedIsBooked'
  <2>1. CASE handler[h].pc \in BridgePc
      BY <1>1, <2>1, AbandonIsSafe
  <2>2. CASE handler[h].pc \notin BridgePc
    <3>1. wire' = wire
        BY <1>1, <2>2 DEF Abandoned, BridgePc
    <3>. QED  BY <1>1, <3>1, FrameOfMoney
  <2>. QED  BY <2>1, <2>2
<1>4. ReceiptsFollowDecisions' /\ AnswersAreTrue' /\ NoticesFollowStatus'
    BY <1>1, FrameOfRequests
<1>. QED  BY <1>2, <1>3, <1>4 DEF IInv

\* Only the holder of the bridge call stores its outcome, and no outcome is
\* stored over a receipt.
LEMMA StoreKeepsRows ==
    ASSUME IInv, NEW h \in Handlers, handler[h] \in Call, handler[h].pc \in BridgePc,
           NEW st \in OpStatus \ {"local_approval_persisted"},
           op'[handler[h].r].status = st,
           op'[handler[h].r].user = op[handler[h].r].user,
           op'[handler[h].r].xu = op[handler[h].r].xu,
           \A q \in Requests : q # handler[h].r => op'[q] = op[q],
           UNCHANGED <<req, ledger>>
    PROVE  OperationsFollowRequests' /\ ApprovalIsBacked'
<1>1. handler[h].r \in Requests
    BY DEF Call
<1>2. op[handler[h].r].status = "dispatched"
    BY DEF IInv, SingleDispatcher
<1>3. OperationsFollowRequests'
    BY <1>1, <1>2 DEF IInv, OperationsFollowRequests
<1>4. ApprovalIsBacked'
    BY <1>1, <1>2 DEF IInv, ApprovalIsBacked, IsCreditOf
<1>. QED  BY <1>3, <1>4

\* A failed call releases the lock and keeps fingerprint and decision.
LEMMA CreditFailsKeepsIInv ==
    ASSUME IInv, TypeOK', NEW h \in Handlers, CreditFails(h)
    PROVE  IInv'
<1> DEFINE c == handler[h]
<1>1. c \in Call /\ c.pc \in BridgePc
    BY StepperIsCall DEF IInv, HandlerStep, CreditFails
<1>2. c.r \in Requests
    BY <1>1 DEF Call
<1>3. PICK st \in FailureStatus : op' = [op EXCEPT ![c.r].status = st]
    BY DEF CreditFails
<1>4. /\ UNCHANGED <<req, approveReceipt, notices, ledger, told>>
      /\ wire' = Abandoned(c)
      /\ handler' = [handler EXCEPT ![h] = Idle]
    BY DEF CreditFails
<1>5. /\ op'[c.r].status = st
      /\ op'[c.r].user = op[c.r].user /\ op'[c.r].xu = op[c.r].xu
      /\ \A q \in Requests : q # c.r => op'[q] = op[q]
    BY <1>2, <1>3, OperationMoves DEF IInv
<1>6. op[c.r].status = "dispatched" /\ SameFingerprint(op[c.r], c)
    BY <1>1 DEF IInv, SingleDispatcher, HandlersFollowRows, FollowsRows
<1>7. \A g \in Handlers : handler'[g] = handler[g] \/ handler'[g].pc = "idle"
    BY <1>4 DEF IInv, TypeOK, Idle
<1>8. \A g \in Handlers : handler'[g].pc \in BusyPc =>
          handler'[g] = handler[g] /\ g # h /\ handler[g].r \in Requests
    BY <1>4, <1>7, CallIsBusy DEF IInv, TypeOK, Idle, BusyPc, BridgePc, Call
<1>9. \A g \in Handlers : handler'[g].pc \in BridgePc \cup {"finalize"} => handler[g].r # c.r
    BY <1>1, <1>6, <1>8 DEF IInv, SingleDispatcher, HandlersFollowRows, FollowsRows, Evidenced, BusyPc
<1> HIDE DEF c
<1>10. SingleDispatcher'
    BY <1>5, <1>8, <1>9 DEF IInv, SingleDispatcher, BusyPc
<1>11. HandlersFollowRows'
    BY <1>4, <1>5, <1>8, <1>9
       DEF IInv, HandlersFollowRows, FollowsRows, SameFingerprint, IsCreditOf, Evidenced, BridgePc, BusyPc
<1>12. OperationsFollowRequests' /\ ApprovalIsBacked'
    BY <1>1, <1>4, <1>5, StoreKeepsRows DEF FailureStatus, OpStatus, c
<1>13. CreditsAreClaimed' /\ KeysNameRequests'
  <2>1. \A m \in Sent' : m \in Sent \/ m = Payload(c)
      BY <1>4 DEF Sent, Abandoned, c
  <2>2. \A m \in Sent : m.request \in Requests
      BY SentAreEntries DEF IInv, CreditEntry
  <2>. QED
      BY <1>2, <1>5, <1>6, <2>1, <2>2
         DEF IInv, CreditsAreClaimed, KeysNameRequests, Payload, StableKey, SameFingerprint,
             FailureStatus
<1>14. CreditedOnce' /\ ConfirmedIsBooked'
    BY <1>2, <1>4, <1>5
       DEF IInv, CreditedOnce, ConfirmedIsBooked, Evidenced, IsCreditOf, FailureStatus
<1>15. ReceiptsFollowDecisions' /\ AnswersAreTrue' /\ NoticesFollowStatus'
    BY <1>4, FrameOfRequests
<1>. QED  BY <1>10, <1>11, <1>12, <1>13, <1>14, <1>15 DEF IInv

\* The stored receipt is the entry the handler was answered with.
LEMMA CreditConfirmedKeepsIInv ==
    ASSUME IInv, TypeOK', NEW h \in Handlers, CreditConfirmed(h)
    PROVE  IInv'
<1> DEFINE c == handler[h]
<1> USE DEF core
<1>1. c \in Call /\ c.pc = "answered"
    BY StepperIsCall DEF IInv, HandlerStep, CreditConfirmed, HasLedgerId
<1>2. c.r \in Requests
    BY <1>1 DEF Call
<1>3. UNCHANGED <<req, approveReceipt, notices, ledger, wire, told>>
    BY DEF CreditConfirmed
<1>4. /\ handler'[h].pc = "finalize" /\ SameCall(handler'[h], c)
      /\ handler'[h].ledger = c.ledger
      /\ \A g \in Handlers : g # h => handler'[g] = handler[g]
  <2>1. handler' = [handler EXCEPT ![h].pc = "finalize"]
      BY DEF CreditConfirmed
  <2>2. handler'[h].ledger = c.ledger
      BY <1>1, <2>1 DEF IInv, TypeOK, Call
  <2>. QED  BY <1>1, <2>1, <2>2, HandlerMoves DEF IInv, BusyPc
<1>5. /\ op'[c.r].status = "credit_confirmed" /\ op'[c.r].ledger = c.ledger
      /\ op'[c.r].user = op[c.r].user /\ op'[c.r].xu = op[c.r].xu
      /\ \A q \in Requests : q # c.r => op'[q] = op[q]
  <2>1. op' = [op EXCEPT ![c.r].status = "credit_confirmed", ![c.r].ledger = c.ledger]
      BY DEF CreditConfirmed
  <2>. QED  BY <1>2, <2>1, OperationLearns DEF IInv
<1>6. /\ op[c.r].status = "dispatched" /\ SameFingerprint(op[c.r], c)
      /\ IsCreditOf(c.ledger, c.r) /\ c.xu = Xu(c.r)
    BY <1>1 DEF IInv, SingleDispatcher, HandlersFollowRows, FollowsRows, BridgePc, BusyPc
<1>7. \A g \in Handlers : g # h /\ handler[g].pc \in BridgePc \cup {"finalize"}
                              => handler[g].r # c.r
    BY <1>1, <1>6 DEF IInv, SingleDispatcher, HandlersFollowRows, FollowsRows, Evidenced, BridgePc
<1>8. \A g \in Handlers : handler[g].pc \in BusyPc => handler[g].r \in Requests
    BY CallIsBusy DEF IInv, Call
<1>9. req[c.r].status # "absent"
    BY <1>1 DEF IInv, HandlersFollowRows, FollowsRows, BridgePc, BusyPc
<1> HIDE DEF c
<1>10. SingleDispatcher'
    BY <1>4, <1>5, <1>7, <1>8 DEF IInv, SingleDispatcher, BridgePc, BusyPc
<1>11. HandlersFollowRows'
  <2>1. ASSUME NEW g \in Handlers, g # h PROVE FollowsRows(handler[g])'
      BY <1>3, <1>4, <1>5, <1>7, <1>8, <2>1
         DEF IInv, HandlersFollowRows, FollowsRows, SameFingerprint, IsCreditOf, Evidenced,
             BridgePc, BusyPc
  <2>2. FollowsRows(handler[h])'
      BY <1>2, <1>3, <1>4, <1>5, <1>6, <1>9
         DEF FollowsRows, SameFingerprint, SameCall, Evidenced, BridgePc
  <2>. QED  BY <2>1, <2>2 DEF HandlersFollowRows
<1>12. OperationsFollowRequests' /\ ApprovalIsBacked'
    BY <1>1, <1>3, <1>5, StoreKeepsRows DEF OpStatus, BridgePc, c
<1>13. CreditsAreClaimed' /\ KeysNameRequests' /\ CreditedOnce'
  <2>1. \A m \in Sent : m.request \in Requests
      BY SentAreEntries DEF IInv, CreditEntry
  <2>. QED
      BY <1>2, <1>3, <1>5, <1>6, <2>1
         DEF IInv, CreditsAreClaimed, KeysNameRequests, CreditedOnce, Sent
<1>14. ConfirmedIsBooked'
    BY <1>2, <1>3, <1>5, <1>6 DEF IInv, ConfirmedIsBooked, Evidenced, IsCreditOf
<1>15. ReceiptsFollowDecisions' /\ AnswersAreTrue' /\ NoticesFollowStatus'
    BY <1>3, FrameOfRequests
<1>. QED  BY <1>10, <1>11, <1>12, <1>13, <1>14, <1>15 DEF IInv

\* Two handlers may finalize the same request: the second one finds it decided.
LEMMA FinalizeApprovalKeepsIInv ==
    ASSUME IInv, TypeOK', NEW h \in Handlers, FinalizeApproval(h)
    PROVE  IInv'
<1> DEFINE c == handler[h]
<1> USE DEF core
<1>1. c \in Call /\ c.pc = "finalize"
    BY StepperIsCall DEF IInv, HandlerStep, FinalizeApproval
<1>2. c.r \in Requests /\ c.s \in Sessions
    BY <1>1 DEF Call
<1>3. /\ UNCHANGED <<ledger, wire>>
      /\ told' = told \cup {<<c.r, "approved">>}
      /\ handler' = [handler EXCEPT ![h] = Idle]
      /\ req[c.r].status = "pending"
    BY DEF FinalizeApproval, Decidable
<1>4. /\ SameFingerprint(op[c.r], c) /\ c.xu = Xu(c.r)
      /\ Evidenced(c.r) /\ op[c.r].ledger = c.ledger
    BY <1>1 DEF IInv, HandlersFollowRows, FollowsRows, BusyPc
<1>5. /\ op'[c.r].status = "local_approval_persisted" /\ op'[c.r].ledger = c.ledger
      /\ op'[c.r].user = op[c.r].user /\ op'[c.r].xu = op[c.r].xu
      /\ \A q \in Requests : q # c.r => op'[q] = op[q]
  <2>1. op' = [op EXCEPT ![c.r].status = "local_approval_persisted", ![c.r].ledger = c.ledger]
      BY DEF FinalizeApproval
  <2>. QED  BY <1>2, <2>1, OperationLearns DEF IInv
<1>6. /\ req'[c.r].status = "approved" /\ req'[c.r].xu = c.xu /\ req'[c.r].ledger = c.ledger
      /\ \A q \in Requests : q # c.r => req'[q] = req[q]
    BY <1>2 DEF IInv, TypeOK, ReqRows, FinalizeApproval
<1>7. \A g \in Handlers : handler'[g].pc \in BusyPc =>
          handler'[g] = handler[g] /\ handler[g].r \in Requests
  <2>1. \A g \in Handlers : handler'[g] = handler[g] \/ handler'[g].pc = "idle"
      BY <1>3 DEF IInv, TypeOK, Idle
  <2>. QED  BY <2>1, CallIsBusy DEF IInv, BusyPc, BridgePc, Call
<1>8. IsCreditOf(c.ledger, c.r)
    BY <1>2, <1>4 DEF IInv, ConfirmedIsBooked
<1> HIDE DEF c
<1>9. SingleDispatcher'
  <2>1. \A g \in Handlers : handler[g].pc \in BridgePc => handler[g].r # c.r
      BY <1>4 DEF IInv, SingleDispatcher, Evidenced
  <2>. QED  BY <1>5, <1>7, <2>1 DEF IInv, SingleDispatcher, BusyPc
<1>10. HandlersFollowRows'
  <2>1. ASSUME NEW g \in Handlers PROVE FollowsRows(handler[g])'
    <3>1. CASE handler'[g].pc \in BusyPc /\ handler[g].r # c.r
        BY <1>3, <1>5, <1>6, <1>7, <3>1
           DEF IInv, HandlersFollowRows, FollowsRows, SameFingerprint, IsCreditOf, Evidenced
    <3>2. CASE handler'[g].pc \in BusyPc /\ handler[g].r = c.r
        BY <1>3, <1>4, <1>5, <1>6, <1>7, <3>2
           DEF IInv, HandlersFollowRows, FollowsRows, SameFingerprint, IsCreditOf, Evidenced
    <3>3. CASE handler'[g].pc \notin BusyPc
        BY <3>3 DEF FollowsRows, BusyPc, BridgePc
    <3>. QED  BY <3>1, <3>2, <3>3
  <2>. QED  BY <2>1 DEF HandlersFollowRows
<1>11. OperationsFollowRequests'
    BY <1>2, <1>4, <1>5, <1>6 DEF IInv, OperationsFollowRequests, Evidenced
<1>12. CreditsAreClaimed' /\ KeysNameRequests' /\ CreditedOnce'
  <2>1. \A m \in Sent : m.request \in Requests
      BY SentAreEntries DEF IInv, CreditEntry
  <2>. QED
      BY <1>2, <1>3, <1>5, <2>1
         DEF IInv, CreditsAreClaimed, KeysNameRequests, CreditedOnce, Sent
<1>13. ConfirmedIsBooked'
    BY <1>2, <1>3, <1>5, <1>8 DEF IInv, ConfirmedIsBooked, Evidenced, IsCreditOf
<1>14. ApprovalIsBacked'
    BY <1>2, <1>3, <1>4, <1>5, <1>6, <1>8
       DEF IInv, ApprovalIsBacked, IsCreditOf, SameFingerprint
<1>15. ReceiptsFollowDecisions'
  <2>1. \A r \in Requests, s \in Sessions :
            approveReceipt'[r][s] = approveReceipt[r][s] \/ (r = c.r /\ s = c.s)
      BY <1>2 DEF IInv, TypeOK, FinalizeApproval, c
  <2>. QED  BY <1>6, <2>1 DEF IInv, ReceiptsFollowDecisions
<1>16. AnswersAreTrue'
    BY <1>2, <1>3, <1>6 DEF IInv, TypeOK, AnswersAreTrue
<1>17. NoticesFollowStatus'
  <2>1. notices' = [notices EXCEPT ![c.r]["approved"] = @ + 1]
      BY DEF FinalizeApproval, c
  <2>. QED  BY <1>2, <1>3, <1>6, <2>1 DEF IInv, TypeOK, NoticesFollowStatus, Kinds
<1>. QED  BY <1>9, <1>10, <1>11, <1>12, <1>13, <1>14, <1>15, <1>16, <1>17 DEF IInv

-----------------------------------------------------------------------------
(* The steps of the wire, a crash, and the theorem.                        *)

\* A late or lost call: its entry was claimed before it was sent.
LEMMA WireKeepsIInv ==
    ASSUME IInv, TypeOK', NEW m \in wire, CoreReceivesLate(m) \/ LoseCall(m)
    PROVE  IInv'
<1> USE DEF rows
<1>1. /\ UNCHANGED <<req, op, approveReceipt, notices, handler, told>>
      /\ wire' \subseteq wire
    BY DEF CoreReceivesLate, LoseCall
<1>2. ReceiptsFollowDecisions' /\ AnswersAreTrue' /\ NoticesFollowStatus'
    BY <1>1, FrameOfRequests
<1>3. SingleDispatcher'
    BY <1>1 DEF IInv, SingleDispatcher
<1>4. /\ CreditsAreClaimed' /\ KeysNameRequests' /\ CreditedOnce' /\ ConfirmedIsBooked'
      /\ \A j \in DOMAIN ledger : j \in DOMAIN ledger' /\ ledger'[j] = ledger[j]
  <2>1. CASE LoseCall(m)
      BY <1>1, <2>1
         DEF IInv, LoseCall, CreditsAreClaimed, KeysNameRequests, CreditedOnce,
             ConfirmedIsBooked, Sent, Evidenced, IsCreditOf
  <2>2. CASE CoreReceivesLate(m)
    <3>1. PICK i \in 1..(Len(ledger) + 1) : CoreBooks(m, i)
        BY <2>2 DEF CoreReceivesLate
    <3>2. m \in CreditEntry /\ m \in Sent
        BY DEF IInv, TypeOK, Sent
    <3>3. /\ m.key = m.request /\ op[m.request].status # "none"
          /\ op[m.request].user = m.user /\ op[m.request].xu = m.xu
        BY <3>2 DEF IInv, CreditsAreClaimed, KeysNameRequests
    <3>. QED  BY <1>1, <3>1, <3>2, <3>3, BookingIsSafe
  <2>. QED  BY <2>1, <2>2
<1>5. HandlersFollowRows'
    BY <1>1, <1>4 DEF IInv, HandlersFollowRows, FollowsRows, SameFingerprint, IsCreditOf, Evidenced
<1>6. OperationsFollowRequests' /\ ApprovalIsBacked'
    BY <1>1, <1>4, FrameOfBooking
<1>. QED  BY <1>2, <1>3, <1>4, <1>5, <1>6 DEF IInv

\* A crash drops the handlers and leaves rows and sent calls as they are.
LEMMA CrashKeepsIInv ==
    ASSUME IInv, TypeOK', Crash
    PROVE  IInv'
<1> USE DEF rows
<1>1. /\ UNCHANGED <<req, op, approveReceipt, notices, ledger, told>>
      /\ \A h \in Handlers : handler'[h].pc = "idle"
    BY DEF Crash, Idle
<1>2. SingleDispatcher' /\ HandlersFollowRows'
    BY <1>1 DEF SingleDispatcher, HandlersFollowRows, FollowsRows, BusyPc, BridgePc
<1>3. OperationsFollowRequests' /\ ApprovalIsBacked'
    BY <1>1 DEF IInv, OperationsFollowRequests, ApprovalIsBacked, IsCreditOf
<1>4. CreditsAreClaimed' /\ KeysNameRequests'
  <2>1. \A m \in Sent' : \/ m \in Sent
                         \/ \E g \in Handlers : handler[g].pc = "waiting" /\ m = Payload(handler[g])
      BY DEF Crash, Sent
  <2>2. \A g \in Handlers : handler[g].pc = "waiting" =>
            op[handler[g].r].status = "dispatched" /\ SameFingerprint(op[handler[g].r], handler[g])
      BY DEF IInv, SingleDispatcher, HandlersFollowRows, FollowsRows, BridgePc
  <2>. QED
      BY <1>1, <2>1, <2>2
         DEF IInv, CreditsAreClaimed, KeysNameRequests, Payload, StableKey, SameFingerprint
<1>5. CreditedOnce' /\ ConfirmedIsBooked'
    BY <1>1 DEF IInv, CreditedOnce, ConfirmedIsBooked, Evidenced, IsCreditOf
<1>6. ReceiptsFollowDecisions' /\ AnswersAreTrue' /\ NoticesFollowStatus'
    BY <1>1 DEF IInv, ReceiptsFollowDecisions, AnswersAreTrue, NoticesFollowStatus
<1>. QED  BY <1>2, <1>3, <1>4, <1>5, <1>6 DEF IInv

\* Every step keeps the inductive invariant.
LEMMA NextKeepsIInv == IInv /\ [Next]_vars => IInv'
<1> SUFFICES ASSUME IInv, [Next]_vars PROVE IInv'
    OBVIOUS
<1>0. TypeOK'
    BY StepKeepsType DEF IInv
<1>1. ASSUME NEW r \in Requests, Submit(r) PROVE IInv'
    BY <1>0, <1>1, SubmitKeepsIInv
<1>2. ASSUME NEW a \in Accounts, NEW u, LinkTelegram(a, u) \/ EditIdentity(a, u) PROVE IInv'
    BY <1>0, <1>2, ElsewhereKeepsIInv DEF LinkTelegram, EditIdentity, rows
<1>3. ASSUME NEW s \in Sessions, RevokeSession(s) \/ ChangeAuthority(s) PROVE IInv'
    BY <1>0, <1>3, ElsewhereKeepsIInv DEF RevokeSession, ChangeAuthority, rows
<1>4. ASSUME NEW s \in Sessions, NEW r \in Requests, AdminStep(s, r) PROVE IInv'
  <2>1. CASE DraftApprove(s, r) \/ DraftReject(s, r) \/ ExpireReceipt(s, r)
    <3>1. \A q \in Requests, t \in Sessions :
              approveReceipt'[q][t] = "consumed" => approveReceipt[q][t] = "consumed"
      <4>1. ASSUME NEW st \in {"open", "expired"},
                   approveReceipt' = [approveReceipt EXCEPT ![r][s] = st]
            PROVE  \A q \in Requests, t \in Sessions :
                       approveReceipt'[q][t] = "consumed" => approveReceipt[q][t] = "consumed"
          BY <4>1 DEF IInv, TypeOK
      <4>. QED  BY <2>1, <4>1 DEF DraftApprove, DraftReject, ExpireReceipt
    <3>. QED
        BY <1>0, <2>1, <3>1, ElsewhereKeepsIInv DEF DraftApprove, DraftReject, ExpireReceipt
  <2>2. CASE ConfirmReject(s, r)
      BY <1>0, <2>2, ConfirmRejectKeepsIInv
  <2>3. CASE ReplayReject(s, r) \/ ReplayApprove(s, r)
      BY <1>0, <2>3, ReplaysKeepIInv
  <2>4. CASE \E h \in Handlers : BeginApprove(h, s, r)
      BY <1>0, <2>4, BeginApproveKeepsIInv
  <2>. QED  BY <1>4, <2>1, <2>2, <2>3, <2>4 DEF AdminStep
<1>5. ASSUME NEW h \in Handlers, HandlerStep(h) PROVE IInv'
  <2>1. CASE ClaimNew(h) \/ ClaimRetry(h)
      BY <1>0, <2>1, ClaimKeepsIInv
  <2>2. CASE ClaimCompleted(h) \/ ClaimRefused(h) \/ FinalizeReplay(h) \/ FinalizeFails(h)
      BY <1>0, <2>2, ReleaseKeepsIInv
  <2>3. CASE ClaimConfirmed(h) \/ Send(h) \/ CoreRefuses(h)
      BY <1>0, <2>3, MoveKeepsIInv
  <2>4. CASE CoreCredits(h)
      BY <1>0, <2>4, CoreCreditsKeepsIInv
  <2>5. CASE RetryBridge(h)
      BY <1>0, <2>5, RetryBridgeKeepsIInv
  <2>6. CASE CreditFails(h)
      BY <1>0, <2>6, CreditFailsKeepsIInv
  <2>7. CASE CreditConfirmed(h)
      BY <1>0, <2>7, CreditConfirmedKeepsIInv
  <2>8. CASE FinalizeApproval(h)
      BY <1>0, <2>8, FinalizeApprovalKeepsIInv
  <2>9. CASE HandlerAborts(h)
      BY <1>0, <2>9, HandlerAbortsKeepsIInv
  <2>. QED  BY <1>5, <2>1, <2>2, <2>3, <2>4, <2>5, <2>6, <2>7, <2>8, <2>9 DEF HandlerStep
<1>6. ASSUME NEW m \in wire, CoreReceivesLate(m) \/ LoseCall(m) PROVE IInv'
    BY <1>0, <1>6, WireKeepsIInv
<1>7. CASE Crash
    BY <1>0, <1>7, CrashKeepsIInv
<1>8. CASE UNCHANGED vars
    BY <1>0, <1>8, ElsewhereKeepsIInv DEF vars, core
<1>. QED  BY <1>1, <1>2, <1>3, <1>4, <1>5, <1>6, <1>7, <1>8 DEF Next

\* The inductive invariant holds in every reachable state.
THEOREM InvariantHolds == Spec => []IInv
BY InitIInv, NextKeepsIInv, PTL DEF Spec

\* At most one confirm handler dispatches a request, however many run.
THEOREM DispatchIsExclusive == Spec => []SingleDispatcher
<1>1. IInv => SingleDispatcher  BY DEF IInv
<1>. QED  BY <1>1, InvariantHolds, PTL

\* Bot Core never credits one request twice, for any number of retries, late
\* deliveries, crashes and Admins.
THEOREM NoDoubleCredit == Spec => []CreditedOnce
<1>1. IInv => CreditedOnce  BY DEF IInv
<1>. QED  BY <1>1, InvariantHolds, PTL

\* Whatever is booked or in flight was asked for by a durable operation row.
THEOREM CreditsHaveClaims == Spec => []CreditsAreClaimed
<1>1. IInv => CreditsAreClaimed  BY DEF IInv
<1>. QED  BY <1>1, InvariantHolds, PTL

\* A handler's snapshot agrees with the rows wherever it is used.
THEOREM SnapshotsHold == Spec => []HandlersFollowRows
<1>1. IInv => HandlersFollowRows  BY DEF IInv
<1>. QED  BY <1>1, InvariantHolds, PTL

\* A stored ledger_event_id names the entry Bot Core booked for the request.
THEOREM ReceiptsAreEvidence == Spec => []ConfirmedIsBooked
<1>1. IInv => ConfirmedIsBooked  BY DEF IInv
<1>. QED  BY <1>1, InvariantHolds, PTL

\* An approved request is backed by one credit of its own amount.
THEOREM ApprovalsAreBacked == Spec => []ApprovalIsBacked
<1>1. IInv => ApprovalIsBacked  BY DEF IInv
<1>. QED  BY <1>1, InvariantHolds, PTL

\* No Admin is told of a decision that is not the one recorded.
THEOREM AnswersHold == Spec => []AnswersAreTrue
<1>1. IInv => AnswersAreTrue  BY DEF IInv
<1>. QED  BY <1>1, InvariantHolds, PTL

\* Each lifecycle event is notified exactly once.
THEOREM NoticesHold == Spec => []NoticesFollowStatus
<1>1. IInv => NoticesFollowStatus  BY DEF IInv
<1>. QED  BY <1>1, InvariantHolds, PTL

-----------------------------------------------------------------------------
(* What a step may never do.                                               *)

\* Only an open request is written: Submit opens it, one decision closes it.
LEMMA DecisionsChange ==
    ASSUME IInv, [Next]_vars, NEW q \in Requests, req'[q] # req[q]
    PROVE  \/ req[q].status = "absent" /\ req'[q].status = "pending"
           \/ req[q].status = "pending" /\ req'[q].status = "rejected"
           \/ /\ req[q].status = "pending" /\ req'[q].status = "approved"
              /\ \E h \in Handlers : FinalizeApproval(h) /\ handler[h].r = q
<1> USE DEF rows, core
<1>1. ASSUME NEW r \in Requests, Submit(r)
      PROVE  req[q].status = "absent" /\ req'[q].status = "pending"
    BY <1>1, DecisionMoves DEF IInv, Submit
<1>2. ASSUME NEW r \in Requests, NEW s \in Sessions, ConfirmReject(s, r)
      PROVE  req[q].status = "pending" /\ req'[q].status = "rejected"
    BY <1>2, DecisionMoves DEF IInv, ConfirmReject, Decidable
<1>3. ASSUME NEW h \in Handlers, FinalizeApproval(h)
      PROVE  req[q].status = "pending" /\ req'[q].status = "approved" /\ handler[h].r = q
  <2>1. handler[h].r \in Requests
      BY <1>3, StepperIsCall DEF IInv, HandlerStep, Call
  <2>. QED  BY <1>3, <2>1 DEF IInv, TypeOK, ReqRows, FinalizeApproval, Decidable
<1>4. ASSUME NEW h \in Handlers, HandlerStep(h), ~FinalizeApproval(h) PROVE FALSE
    BY <1>4 DEF HandlerStep, ClaimNew, ClaimRetry, ClaimConfirmed, ClaimCompleted, ClaimRefused,
       Send, CoreCredits, CoreRefuses, RetryBridge, CreditFails, CreditConfirmed, HandlerAborts,
       FinalizeReplay, FinalizeFails
<1>5. ASSUME NEW s \in Sessions, NEW r \in Requests, AdminStep(s, r), ~ConfirmReject(s, r)
      PROVE  FALSE
    BY <1>5 DEF AdminStep, DraftApprove, DraftReject, ExpireReceipt, ReplayReject, ReplayApprove,
       BeginApprove
<1>. QED
    BY <1>1, <1>2, <1>3, <1>4, <1>5
       DEF Next, LinkTelegram, EditIdentity, RevokeSession, ChangeAuthority,
           CoreReceivesLate, LoseCall, Crash, vars

\* A decision is final, whatever any later step does.
THEOREM DecisionsStay == Spec => DecisionsAreFinal
<1>1. IInv /\ [Next]_vars =>
          [\A r \in Requests :
               req[r].status \in {"approved", "rejected"} => req'[r] = req[r]]_vars
    BY DecisionsChange
<1>. QED  BY <1>1, InvariantHolds, PTL DEF Spec, DecisionsAreFinal

\* What Bot Core books is what it was sent.
LEMMA BookingSends ==
    ASSUME TypeOK, NEW m \in CreditEntry, NEW i \in 1..(Len(ledger) + 1), CoreBooks(m, i),
           wire' \subseteq wire
    PROVE  Sent' \subseteq Sent \cup {m}
<1>1. ledger \in Seq(CreditEntry) /\ DOMAIN ledger = 1..Len(ledger) /\ Len(ledger) \in Nat
    BY LenProperties DEF TypeOK
<1>2. \A j \in DOMAIN ledger' : ledger'[j] = m \/ (j \in DOMAIN ledger /\ ledger'[j] = ledger[j])
    BY <1>1 DEF CoreBooks
<1>. QED  BY <1>2 DEF Sent

\* What an orphaned operation is spared by a step.
OrphanSpared(q) ==
    /\ op'[q] = op[q]
    /\ ~InFlight(q)'
    /\ SentFor(q)' \subseteq SentFor(q)

\* A confirm handler never works on an orphaned operation: a claim refuses it, and
\* the holder of a call or of a receipt would contradict it.
LEMMA HandlerSparesOrphans ==
    ASSUME IInv, NEW h \in Handlers, HandlerStep(h), NEW q \in Requests, Orphaned(q)
    PROVE  OrphanSpared(q)
<1> USE DEF rows, core
<1>1. handler[h] \in Call
    BY StepperIsCall DEF IInv
<1>2. handler[h].r \in Requests /\ Payload(handler[h]) \in CreditEntry
    BY <1>1, PayloadIsEntry DEF Call
<1>3. handler[h].pc \in BridgePc \cup {"finalize"} => handler[h].r # q
    BY DEF IInv, HandlersFollowRows, FollowsRows, Evidenced, Orphaned, InFlight
<1>4. op[q].status = "dispatched" /\ \A g \in Handlers : handler[g].pc \in BridgePc => handler[g].r # q
    BY DEF Orphaned, InFlight
<1>5. op'[q] = op[q]
  <2>1. CASE ClaimNew(h)
      BY <1>2, <1>4, <2>1 DEF IInv, TypeOK, OpRows, ClaimNew
  <2>2. CASE ClaimRetry(h)
      BY <1>2, <1>4, <2>2 DEF IInv, TypeOK, OpRows, ClaimRetry, MayRedispatch
  <2>3. CASE CreditFails(h)
      BY <1>2, <1>3, <2>3 DEF IInv, TypeOK, OpRows, CreditFails
  <2>4. CASE CreditConfirmed(h)
      BY <1>2, <1>3, <2>4 DEF IInv, TypeOK, OpRows, CreditConfirmed, HasLedgerId, BridgePc
  <2>5. CASE FinalizeApproval(h)
      BY <1>2, <1>3, <2>5 DEF IInv, TypeOK, OpRows, FinalizeApproval
  <2>. QED
      BY <2>1, <2>2, <2>3, <2>4, <2>5
         DEF HandlerStep, ClaimConfirmed, ClaimCompleted, ClaimRefused, Send, CoreCredits,
             CoreRefuses, RetryBridge, HandlerAborts, FinalizeReplay, FinalizeFails
<1>6. \A g \in Handlers : g # h => handler'[g] = handler[g]
    BY DEF IInv, TypeOK, HandlerStep, ClaimNew, ClaimRetry, ClaimConfirmed, ClaimCompleted,
       ClaimRefused, Send, CoreCredits, CoreRefuses, RetryBridge, CreditFails, CreditConfirmed,
       HandlerAborts, FinalizeApproval, FinalizeReplay, FinalizeFails
<1>7. handler'[h].pc \in BridgePc => handler'[h].r # q
  <2>1. CASE ClaimNew(h) \/ ClaimRetry(h)
    <3>1. handler[h].r # q
        BY <1>4, <2>1 DEF ClaimNew, ClaimRetry, MayRedispatch
    <3>. QED  BY <1>1, <2>1, <3>1 DEF IInv, TypeOK, Call, ClaimNew, ClaimRetry
  <2>2. CASE Send(h) \/ CoreRefuses(h)
      BY <1>1, <1>3, <2>2 DEF IInv, TypeOK, Call, Send, CoreRefuses, BridgePc
  <2>3. CASE CoreCredits(h)
      BY <1>1, <1>3, <2>3 DEF IInv, TypeOK, Call, CoreCredits, BridgePc
  <2>4. CASE RetryBridge(h)
      BY <1>1, <1>3, <2>4 DEF IInv, TypeOK, Call, RetryBridge, BridgePc
  <2>5. CASE ClaimConfirmed(h)
      BY <1>1, <2>5 DEF IInv, TypeOK, Call, ClaimConfirmed, BridgePc
  <2>6. CASE CreditConfirmed(h)
      BY <1>1, <2>6 DEF IInv, TypeOK, Call, CreditConfirmed, BridgePc
  <2>. QED
      BY <2>1, <2>2, <2>3, <2>4, <2>5, <2>6
         DEF IInv, TypeOK, Idle, BridgePc, HandlerStep, ClaimCompleted, ClaimRefused, CreditFails,
             HandlerAborts, FinalizeApproval, FinalizeReplay, FinalizeFails
<1>8. SentFor(q)' \subseteq SentFor(q)
  <2>1. CASE CoreCredits(h)
    <3>1. PICK i \in 1..(Len(ledger) + 1) : CoreBooks(Payload(handler[h]), i)
        BY <2>1 DEF CoreCredits
    <3>2. Sent' \subseteq Sent \cup {Payload(handler[h])}
        BY <1>2, <2>1, <3>1, BookingSends DEF IInv, CoreCredits
    <3>3. Payload(handler[h]).request # q
        BY <1>3, <2>1 DEF CoreCredits, Payload, BridgePc
    <3>. QED  BY <3>2, <3>3 DEF SentFor
  <2>2. CASE RetryBridge(h) \/ CreditFails(h) \/ HandlerAborts(h)
    <3>1. /\ ledger' = ledger
          /\ wire' = wire \/ (handler[h].r # q /\ wire' = wire \cup {Payload(handler[h])})
        BY <1>3, <2>2 DEF RetryBridge, CreditFails, HandlerAborts, Abandoned, BridgePc
    <3>. QED  BY <3>1 DEF SentFor, Sent, Payload
  <2>3. CASE UNCHANGED <<ledger, wire>>
      BY <2>3 DEF SentFor, Sent
  <2>. QED
      BY <2>1, <2>2, <2>3
         DEF HandlerStep, ClaimNew, ClaimRetry, ClaimConfirmed, ClaimCompleted, ClaimRefused,
             Send, CoreRefuses, CreditConfirmed, FinalizeApproval, FinalizeReplay, FinalizeFails
<1>9. ~InFlight(q)'
    BY <1>4, <1>6, <1>7 DEF InFlight
<1>. QED  BY <1>5, <1>8, <1>9 DEF OrphanSpared

\* Nor does any other step: a new confirmation starts before its claim, a crash
\* ends handlers of other requests, a late delivery books what was sent.
LEMMA StepSparesOrphans ==
    ASSUME IInv, [Next]_vars, NEW q \in Requests, Orphaned(q)
    PROVE  OrphanSpared(q)
<1> USE DEF rows, core
<1>1. CASE \E h \in Handlers : HandlerStep(h)
    BY <1>1, HandlerSparesOrphans
<1>2. CASE \E h \in Handlers, s \in Sessions, r \in Requests : BeginApprove(h, s, r)
  <2>1. PICK h \in Handlers, s \in Sessions, r \in Requests : BeginApprove(h, s, r)
      BY <1>2
  <2>2. \A g \in Handlers : handler'[g].pc \in BridgePc => handler'[g] = handler[g]
      BY <2>1 DEF IInv, TypeOK, BeginApprove, BridgePc
  <2>3. UNCHANGED <<op, ledger, wire>>
      BY <2>1 DEF BeginApprove
  <2>. QED  BY <2>2, <2>3 DEF OrphanSpared, Orphaned, InFlight, SentFor, Sent
<1>3. CASE Crash
  <2>1. \A m \in Sent' : \/ m \in Sent
                         \/ \E g \in Handlers : handler[g].pc = "waiting" /\ m = Payload(handler[g])
      BY <1>3 DEF Crash, Sent
  <2>2. \A g \in Handlers : handler[g].pc = "waiting" => Payload(handler[g]).request # q
      BY DEF Orphaned, InFlight, BridgePc, Payload
  <2>3. op' = op /\ \A g \in Handlers : handler'[g] = Idle
      BY <1>3 DEF Crash
  <2>. QED  BY <2>1, <2>2, <2>3 DEF OrphanSpared, InFlight, Idle, BridgePc, SentFor
<1>4. ASSUME NEW m \in wire, CoreReceivesLate(m) \/ LoseCall(m) PROVE OrphanSpared(q)
  <2>1. Sent' \subseteq Sent
    <3>1. CASE LoseCall(m)
        BY <3>1 DEF LoseCall, Sent
    <3>2. CASE CoreReceivesLate(m)
      <4>1. PICK i \in 1..(Len(ledger) + 1) : CoreBooks(m, i)
          BY <3>2 DEF CoreReceivesLate
      <4>2. m \in CreditEntry /\ m \in Sent
          BY DEF IInv, TypeOK, Sent
      <4>3. wire' \subseteq wire
          BY <3>2 DEF CoreReceivesLate
      <4>. QED  BY <4>1, <4>2, <4>3, BookingSends DEF IInv
    <3>. QED  BY <1>4, <3>1, <3>2
  <2>2. UNCHANGED <<op, handler>>
      BY <1>4 DEF CoreReceivesLate, LoseCall
  <2>. QED  BY <2>1, <2>2 DEF OrphanSpared, Orphaned, InFlight, SentFor
<1>5. CASE UNCHANGED <<op, handler, ledger, wire>>
    BY <1>5 DEF OrphanSpared, Orphaned, InFlight, SentFor, Sent
<1>. QED
    BY <1>1, <1>2, <1>3, <1>4, <1>5
       DEF Next, Submit, LinkTelegram, EditIdentity, RevokeSession, ChangeAuthority, AdminStep,
           DraftApprove, DraftReject, ExpireReceipt, ConfirmReject, ReplayReject, ReplayApprove, vars

\* An operation whose outcome nobody stored is frozen: it is not dispatched again,
\* nothing more is sent for it, and its request is not approved.
THEOREM UnknownOutcomesAreNotRisked == Spec => UnknownOutcomesStayLocked
<1>1. ASSUME IInv, [Next]_vars, NEW q \in Requests, Orphaned(q)
      PROVE  /\ Orphaned(q)' /\ op'[q] = op[q] /\ SentFor(q)' \subseteq SentFor(q)
             /\ req'[q].status # "approved"
  <2>1. OrphanSpared(q)
      BY <1>1, StepSparesOrphans
  <2>2. req[q].status # "approved"
      BY <1>1 DEF IInv, ApprovalIsBacked, Orphaned
  <2>3. IInv'
      BY <1>1, NextKeepsIInv
  <2>4. Orphaned(q)'
      BY <1>1, <2>1 DEF OrphanSpared, Orphaned
  <2>5. req'[q].status # "approved"
      BY <2>3, <2>4 DEF IInv, ApprovalIsBacked, Orphaned
  <2>. QED  BY <2>1, <2>4, <2>5 DEF OrphanSpared
<1>2. IInv /\ [Next]_vars =>
          [\A r \in Requests :
               Orphaned(r) =>
                   /\ Orphaned(r)'
                   /\ op'[r] = op[r]
                   /\ SentFor(r)' \subseteq SentFor(r)
                   /\ req'[r].status # "approved"]_vars
    BY <1>1
<1>. QED  BY <1>2, InvariantHolds, PTL DEF Spec, UnknownOutcomesStayLocked

\* The operation of q after a step, as CreditEvidenceIsKept wants it.
EvidenceKept(q) ==
    Evidenced(q) =>
        /\ op'[q].status \in {op[q].status, "local_approval_persisted"}
        /\ op'[q].ledger = op[q].ledger
        /\ op'[q].user = op[q].user
        /\ op'[q].xu = op[q].xu

\* The outcome of a call is stored by the holder of the call only, so never
\* over a receipt.
LEMMA OutcomeSparesEvidence ==
    ASSUME IInv, NEW h \in Handlers, NEW q \in Requests,
           ClaimNew(h) \/ ClaimRetry(h) \/ CreditFails(h) \/ CreditConfirmed(h)
    PROVE  EvidenceKept(q)
<1>1. HandlerStep(h)
    BY DEF HandlerStep
<1>2. handler[h] \in Call
    BY <1>1, StepperIsCall DEF IInv
<1>3. handler[h].r \in Requests
    BY <1>2 DEF Call
<1>4. op[handler[h].r].status \in {"none", "not_sent", "reconcile_required", "dispatched"}
  <2>1. CASE handler[h].pc \in BridgePc
      BY <2>1 DEF IInv, SingleDispatcher
  <2>2. CASE ClaimNew(h) \/ ClaimRetry(h)
      BY <2>2 DEF ClaimNew, ClaimRetry, MayRedispatch
  <2>3. CASE CreditFails(h) \/ CreditConfirmed(h)
      BY <2>1, <2>3 DEF CreditFails, CreditConfirmed, HasLedgerId, BridgePc
  <2>. QED  BY <2>2, <2>3
<1>5. q # handler[h].r => op'[q] = op[q]
  <2>1. CASE ClaimNew(h)
      BY <1>3, <2>1 DEF IInv, TypeOK, OpRows, ClaimNew
  <2>2. CASE ClaimRetry(h)
      BY <1>3, <2>2 DEF IInv, TypeOK, OpRows, ClaimRetry
  <2>3. CASE CreditFails(h)
      BY <1>3, <2>3 DEF IInv, TypeOK, OpRows, CreditFails
  <2>4. CASE CreditConfirmed(h)
      BY <1>3, <2>4 DEF IInv, TypeOK, OpRows, CreditConfirmed
  <2>. QED  BY <2>1, <2>2, <2>3, <2>4
<1>. QED  BY <1>4, <1>5 DEF EvidenceKept, Evidenced

\* Finalizing an approval keeps the stored receipt of every request.
LEMMA FinalizeSparesEvidence ==
    ASSUME IInv, NEW h \in Handlers, NEW q \in Requests, FinalizeApproval(h)
    PROVE  EvidenceKept(q)
<1>1. HandlerStep(h) /\ handler[h].pc = "finalize"
    BY DEF HandlerStep, FinalizeApproval
<1>2. handler[h] \in Call
    BY <1>1, StepperIsCall DEF IInv
<1>3. handler[h].r \in Requests
    BY <1>2 DEF Call
<1>4. op[handler[h].r].ledger = handler[h].ledger
    BY <1>1 DEF IInv, HandlersFollowRows, FollowsRows
<1>5. op' = [op EXCEPT ![handler[h].r].status = "local_approval_persisted",
                       ![handler[h].r].ledger = handler[h].ledger]
    BY DEF FinalizeApproval
<1> DEFINE r == handler[h].r
           n == handler[h].ledger
<1> HIDE DEF r, n
<1>6. /\ op'[r].status = "local_approval_persisted" /\ op'[r].ledger = n
      /\ op'[r].user = op[r].user /\ op'[r].xu = op[r].xu
      /\ \A p \in Requests : p # r => op'[p] = op[p]
  <2>1. r \in Requests /\ op' = [op EXCEPT ![r].status = "local_approval_persisted", ![r].ledger = n]
      BY <1>3, <1>5 DEF r, n
  <2>. QED  BY <2>1, OperationLearns DEF IInv
<1>. QED  BY <1>4, <1>6 DEF EvidenceKept, Evidenced, r, n

\* So does every other step.
LEMMA StepSparesEvidence ==
    ASSUME IInv, [Next]_vars, NEW q \in Requests
    PROVE  EvidenceKept(q)
<1> USE DEF rows, core
<1>1. CASE op' = op
    BY <1>1 DEF EvidenceKept, Evidenced
<1>2. ASSUME NEW h \in Handlers, HandlerStep(h) PROVE EvidenceKept(q)
  <2>1. CASE ClaimNew(h) \/ ClaimRetry(h) \/ CreditFails(h) \/ CreditConfirmed(h)
      BY <2>1, OutcomeSparesEvidence
  <2>2. CASE FinalizeApproval(h)
      BY <2>2, FinalizeSparesEvidence
  <2>. QED
      BY <1>1, <1>2, <2>1, <2>2
         DEF HandlerStep, ClaimConfirmed, ClaimCompleted, ClaimRefused, Send, CoreCredits,
             CoreRefuses, RetryBridge, HandlerAborts, FinalizeReplay, FinalizeFails
<1>3. ASSUME NEW s \in Sessions, NEW r \in Requests, AdminStep(s, r) PROVE op' = op
    BY <1>3 DEF AdminStep, DraftApprove, DraftReject, ExpireReceipt, ConfirmReject,
       ReplayReject, ReplayApprove, BeginApprove
<1>. QED
    BY <1>1, <1>2, <1>3
       DEF Next, Submit, LinkTelegram, EditIdentity, RevokeSession, ChangeAuthority,
           CoreReceivesLate, LoseCall, Crash, vars

\* Once Bot Core's receipt is stored, no outcome of any handler takes it away.
THEOREM EvidenceStays == Spec => CreditEvidenceIsKept
<1>1. IInv /\ [Next]_vars => [\A r \in Requests : EvidenceKept(r)]_vars
    BY StepSparesEvidence
<1>. QED  BY <1>1, InvariantHolds, PTL DEF Spec, CreditEvidenceIsKept, EvidenceKept

-----------------------------------------------------------------------------
(* The refinement of TopupLedger.                                          *)

decisions == [r \in Requests |-> req[r].status]
creditsOf == [r \in Requests |-> CreditsFor(r)]

\* Booking a call appends one credit to a request that had none, or nothing.
LEMMA BookingIsABook ==
    ASSUME IInv, NEW m \in CreditEntry, NEW i \in 1..(Len(ledger) + 1), CoreBooks(m, i),
           m.key = m.request, op[m.request].status # "none", op[m.request].xu = m.xu,
           UNCHANGED req
    PROVE  \/ creditsOf' = creditsOf
           \/ /\ Abstract!Book(m.request)
              /\ m.request \in Requests
<1>1. ledger \in Seq(CreditEntry) /\ DOMAIN ledger = 1..Len(ledger) /\ Len(ledger) \in Nat
    BY LenProperties DEF IInv, TypeOK
<1>2. m.request \in Requests /\ m.user \in Users /\ m.xu \in Nat
    BY DEF CreditEntry
<1>3. CASE UNCHANGED ledger
    BY <1>3 DEF creditsOf, CreditsFor
<1>4. CASE BookedAt(m.key) = {} /\ i = Len(ledger) + 1 /\ ledger' = Append(ledger, m)
  <2> DEFINE entry == [id |-> i, user |-> m.user, xu |-> m.xu]
  <2>1. /\ DOMAIN ledger' = DOMAIN ledger \cup {i} /\ i \notin DOMAIN ledger
        /\ ledger'[i] = m
        /\ \A j \in DOMAIN ledger : ledger'[j] = ledger[j]
      BY <1>1, <1>4
  <2>2. \A j \in DOMAIN ledger : ledger[j].request # m.request
      BY <1>4 DEF IInv, KeysNameRequests, Sent, BookedAt
  <2>3. CreditsFor(m.request) = {}
      BY <2>2 DEF CreditsFor
  <2>4. CreditsFor(m.request)' = {entry}
      BY <2>1, <2>2 DEF CreditsFor
  <2>5. ASSUME NEW q \in Requests, q # m.request PROVE CreditsFor(q)' = CreditsFor(q)
    <3>1. {j \in DOMAIN ledger' : ledger'[j].request = q}
              = {j \in DOMAIN ledger : ledger[j].request = q}
        BY <2>1, <2>5
    <3>. QED  BY <2>1, <3>1 DEF CreditsFor
  <2> HIDE DEF entry
  <2>6. creditsOf' = [creditsOf EXCEPT ![m.request] = {entry}]
      BY <1>2, <2>4, <2>5 DEF creditsOf
  <2>7. entry.user \in Users /\ entry.xu = Xu(m.request)
      BY <1>2 DEF IInv, OperationsFollowRequests, entry
  <2>8. req[m.request].status # "absent"
      BY <1>2 DEF IInv, OperationsFollowRequests
  <2>9. entry \in creditsOf'[m.request]
      BY <1>2, <2>4 DEF creditsOf
  <2>. QED
      BY <1>2, <2>3, <2>6, <2>7, <2>8, <2>9 DEF Abstract!Book, creditsOf
<1>. QED  BY <1>3, <1>4 DEF CoreBooks

\* The initial tables map to the initial abstract ledger.
LEMMA InitRefines == Init => Abstract!Init
BY DEF Init, Abstract!Init, CreditsFor

\* A step that writes a request is a Submit, an Approve or a Reject; an approval
\* finds its credit booked.
LEMMA DecisionRefines ==
    ASSUME IInv, IInv', [Next]_vars, NEW q \in Requests, req'[q] # req[q],
           \A r \in Requests : r # q => req'[r] = req[r],
           UNCHANGED ledger
    PROVE  Abstract!Next
<1>1. creditsOf' = creditsOf
    BY DEF creditsOf, CreditsFor
<1>2. decisions' = [decisions EXCEPT ![q] = req'[q].status]
    BY DEF decisions
<1>3. CASE req[q].status = "absent" /\ req'[q].status = "pending"
  <2>1. Abstract!Submit(q)
      BY <1>1, <1>2, <1>3 DEF Abstract!Submit, decisions, creditsOf
  <2>. QED  BY <2>1 DEF Abstract!Next
<1>4. CASE req[q].status = "pending" /\ req'[q].status = "rejected"
  <2>1. Abstract!Reject(q)
      BY <1>1, <1>2, <1>4 DEF Abstract!Reject, decisions, creditsOf
  <2>. QED  BY <2>1 DEF Abstract!Next
<1>5. CASE req[q].status = "pending" /\ req'[q].status = "approved"
  <2>1. req'[q].ledger \in DOMAIN ledger /\ ledger[req'[q].ledger].request = q
      BY <1>5 DEF IInv, ApprovalIsBacked, IsCreditOf
  <2>2. CreditsFor(q) # {}
      BY <2>1 DEF CreditsFor
  <2>3. Abstract!Approve(q)
      BY <1>1, <1>2, <1>5, <2>2 DEF Abstract!Approve, decisions, creditsOf
  <2>. QED  BY <2>3 DEF Abstract!Next
<1>. QED  BY <1>3, <1>4, <1>5, DecisionsChange

\* A step that leaves requests and ledger alone is an abstract stutter.
LEMMA StutterRefines ==
    ASSUME UNCHANGED <<req, ledger>>
    PROVE  UNCHANGED Abstract!ledgerVars
BY DEF Abstract!ledgerVars, CreditsFor

\* Every step is a step of the abstract ledger, or a stutter.
LEMMA StepRefines ==
    ASSUME IInv, IInv', [Next]_vars
    PROVE  [Abstract!Next]_(Abstract!ledgerVars)
<1> USE DEF rows, core
<1>1. ASSUME NEW m \in CreditEntry, NEW i \in 1..(Len(ledger) + 1), CoreBooks(m, i),
             m.key = m.request, op[m.request].status # "none", op[m.request].xu = m.xu,
             UNCHANGED req
      PROVE  [Abstract!Next]_(Abstract!ledgerVars)
  <2>1. CASE creditsOf' = creditsOf
      BY <1>1, <2>1 DEF creditsOf, Abstract!ledgerVars
  <2>2. CASE Abstract!Book(m.request) /\ m.request \in Requests
      BY <2>2 DEF Abstract!Next
  <2>. QED  BY <1>1, <2>1, <2>2, BookingIsABook
<1>2. ASSUME NEW r \in Requests, Submit(r) PROVE [Abstract!Next]_(Abstract!ledgerVars)
  <2>1. /\ req'[r].status = "pending" /\ req[r].status = "absent"
        /\ \A q \in Requests : q # r => req'[q] = req[q]
      BY <1>2, DecisionMoves DEF IInv, Submit
  <2>2. req'[r] # req[r]
      BY <2>1
  <2>. QED  BY <1>2, <2>1, <2>2, DecisionRefines DEF Submit
<1>3. ASSUME NEW s \in Sessions, NEW r \in Requests, AdminStep(s, r)
      PROVE  [Abstract!Next]_(Abstract!ledgerVars)
  <2>1. CASE ConfirmReject(s, r)
    <3>1. req'[r] # req[r] /\ \A q \in Requests : q # r => req'[q] = req[q]
        BY <2>1, DecisionMoves DEF IInv, ConfirmReject, Decidable
    <3>. QED  BY <2>1, <3>1, DecisionRefines DEF ConfirmReject
  <2>2. CASE ~ConfirmReject(s, r)
      BY <1>3, <2>2, StutterRefines
         DEF AdminStep, DraftApprove, DraftReject, ExpireReceipt, ReplayReject, ReplayApprove,
             BeginApprove
  <2>. QED  BY <2>1, <2>2
<1>4. ASSUME NEW h \in Handlers, HandlerStep(h) PROVE [Abstract!Next]_(Abstract!ledgerVars)
  <2>0. handler[h] \in Call
      BY <1>4, StepperIsCall DEF IInv
  <2>1. CASE FinalizeApproval(h)
    <3>1. handler[h].r \in Requests
        BY <2>0 DEF Call
    <3>2. /\ req'[handler[h].r] # req[handler[h].r]
          /\ \A q \in Requests : q # handler[h].r => req'[q] = req[q]
        BY <2>1, <3>1 DEF IInv, TypeOK, ReqRows, FinalizeApproval, Decidable
    <3>. QED  BY <2>1, <3>1, <3>2, DecisionRefines DEF FinalizeApproval
  <2>2. CASE CoreCredits(h)
    <3>1. PICK i \in 1..(Len(ledger) + 1) : CoreBooks(Payload(handler[h]), i)
        BY <2>2 DEF CoreCredits
    <3>2. op[handler[h].r].status = "dispatched" /\ op[handler[h].r].xu = handler[h].xu
        BY <2>2 DEF CoreCredits, IInv, SingleDispatcher, HandlersFollowRows, FollowsRows,
           SameFingerprint, BridgePc
    <3>. QED  BY <1>1, <2>0, <2>2, <3>1, <3>2, PayloadIsEntry DEF Payload, StableKey, CoreCredits
  <2>3. CASE ~FinalizeApproval(h) /\ ~CoreCredits(h)
      BY <1>4, <2>3, StutterRefines
         DEF HandlerStep, ClaimNew, ClaimRetry, ClaimConfirmed, ClaimCompleted, ClaimRefused,
             Send, CoreRefuses, RetryBridge, CreditFails, CreditConfirmed, HandlerAborts,
             FinalizeReplay, FinalizeFails
  <2>. QED  BY <2>1, <2>2, <2>3
<1>5. ASSUME NEW m \in wire, CoreReceivesLate(m) PROVE [Abstract!Next]_(Abstract!ledgerVars)
  <2>1. PICK i \in 1..(Len(ledger) + 1) : CoreBooks(m, i)
      BY <1>5 DEF CoreReceivesLate
  <2>2. m \in CreditEntry /\ m \in Sent
      BY DEF IInv, TypeOK, Sent
  <2>3. m.key = m.request /\ op[m.request].status # "none" /\ op[m.request].xu = m.xu
      BY <2>2 DEF IInv, CreditsAreClaimed, KeysNameRequests
  <2>. QED  BY <1>1, <1>5, <2>1, <2>2, <2>3 DEF CoreReceivesLate
<1>. QED
    BY <1>2, <1>3, <1>4, <1>5, StutterRefines
       DEF Next, LinkTelegram, EditIdentity, RevokeSession, ChangeAuthority, LoseCall, Crash, vars

\* Manual top-up implements TopupLedger: one decision and at most one credit of
\* the request's own amount, the credit before the approval.
THEOREM Refinement == Spec => ImplementsTopupLedger
<1>1. IInv /\ IInv' /\ [Next]_vars => [Abstract!Next]_(Abstract!ledgerVars)
    BY StepRefines
<1>. QED
    BY InitRefines, <1>1, InvariantHolds, PTL DEF Spec, ImplementsTopupLedger, Abstract!Spec
=============================================================================
