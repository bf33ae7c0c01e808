---------------------------- MODULE ManualTopup ----------------------------
(***************************************************************************)
(* Manual top-up: a customer reports a bank transfer, an Admin drafts and  *)
(* confirms a decision, and an approval credits the customer's wallet in   *)
(* the external Bot Core ledger through the Core Bridge.                   *)
(*                                                                         *)
(* Every database function of copyfast_db.py runs in one transaction()     *)
(* (BEGIN IMMEDIATE), so each is one step.  The confirm handler of         *)
(* copyfast_api.py is a chain of such steps around an awaited bridge call; *)
(* the row pc of a handler says which step comes next.  A crash may fall   *)
(* between any two of them.                                                *)
(***************************************************************************)
EXTENDS Integers, Sequences, FiniteSets

CONSTANTS
    Requests,    \* (account, idempotency key) pairs a customer may submit
    Accounts,    \* Web customer accounts
    Owner,       \* Owner[r]: the account that submits r
    AmountVnd,   \* AmountVnd[r]: the transfer r reports
    Users,       \* canonical (Bot Core) user ids
    NoUser,      \* canonical_user_id IS NULL
    Sessions,    \* signed Admin sessions, each of one Admin
    Handlers,    \* confirm requests that may run at the same time
    MaxPending,  \* WEB_MANUAL_TOPUP_MAX_PENDING_PER_ACCOUNT
    MayCrash     \* whether the process may crash and restart

ASSUME RequestsAssumption == IsFiniteSet(Requests)
ASSUME OwnerAssumption == Owner \in [Requests -> Accounts]
ASSUME AmountAssumption == AmountVnd \in [Requests -> Nat \ {0}]
ASSUME UserAssumption == NoUser \notin Users
ASSUME PendingAssumption == MaxPending \in Nat \ {0}
ASSUME CrashAssumption == MayCrash \in BOOLEAN

VARIABLES
    req,            \* web_manual_topup_requests: status, approved_xu, ledger_event_id
    op,             \* web_manual_topup_credit_operations, one row per request
    approveReceipt, \* web_manual_topup_approve_receipts, by request and session
    rejectReceipt,  \* web_manual_topup_decision_receipts, by request and session
    session,        \* web_sessions with the role and activity of the Admin's account
    identity,       \* web_accounts.canonical_user_id
    handler,        \* the confirm handlers in flight
    ledger,         \* Bot Core's ledger; an entry's position is its ledger_event_id
    wire,           \* credit calls the Web gave up on, which Bot Core may still receive
    told,           \* decisions some Admin was told had been made
    notices         \* lifecycle notifications materialized, by request and kind

rows == <<req, op, approveReceipt, rejectReceipt, notices>>
core == <<ledger, wire>>
vars == <<req, op, approveReceipt, rejectReceipt, session, identity,
          handler, ledger, wire, told, notices>>

NoLedgerId == 0
BridgeAttempts == 2

Kinds == {"pending", "approved", "rejected"}
OpStatus == {"not_sent", "dispatched", "reconcile_required",
             "credit_confirmed", "local_approval_persisted"}
ReceiptState == {"none", "open", "expired", "consumed"}
BridgePc == {"sending", "waiting", "answered", "refused"}
BusyPc == {"claimed", "finalize"} \cup BridgePc

\* approved_xu of a draft: one Xu for each full 100 VND.
Xu(r) == AmountVnd[r] \div 100

NoOp == [status |-> "none", user |-> NoUser, xu |-> 0, ledger |-> NoLedgerId]
Idle == [pc |-> "idle"]
Call == [pc: BusyPc, r: Requests, s: Sessions, user: Users, xu: Nat,
         attempt: 1..BridgeAttempts, ledger: Nat]

ReqRows == [Requests -> [status: {"absent"} \cup Kinds, xu: Nat, ledger: Nat]]
OpRows == [Requests -> [status: {"none"} \cup OpStatus, user: Users \cup {NoUser},
                        xu: Nat, ledger: Nat]]

\* What a credit call carries; the idempotency key names the request and
\* nothing else, so that every retry by any Admin presents the same key.
CreditEntry == [request: Requests, key: Requests, user: Users, xu: Nat]

StableKeyPerSession(c) == <<c.r, c.s>>
StableKey(c) == c.r

Payload(c) == [request |-> c.r, key |-> StableKey(c), user |-> c.user, xu |-> c.xu]

\* Types: no ledger_event_id without a position in the ledger, no status the
\* tables' CHECK constraints refuse, never a third bridge attempt.
TypeOK ==
    /\ req \in ReqRows
    /\ op \in OpRows
    /\ approveReceipt \in [Requests -> [Sessions -> ReceiptState]]
    /\ rejectReceipt \in [Requests -> [Sessions -> ReceiptState]]
    /\ session \in [Sessions -> {"valid", "suspended", "revoked"}]
    /\ identity \in [Accounts -> Users \cup {NoUser}]
    /\ handler \in [Handlers -> {Idle} \cup Call]
    /\ ledger \in Seq(CreditEntry)
    /\ wire \subseteq CreditEntry
    /\ told \subseteq Requests \X {"approved", "rejected"}
    /\ notices \in [Requests -> [Kinds -> Nat]]

Init ==
    /\ req = [r \in Requests |-> [status |-> "absent", xu |-> 0, ledger |-> NoLedgerId]]
    /\ op = [r \in Requests |-> NoOp]
    /\ approveReceipt = [r \in Requests |-> [s \in Sessions |-> "none"]]
    /\ rejectReceipt = [r \in Requests |-> [s \in Sessions |-> "none"]]
    /\ session = [s \in Sessions |-> "valid"]
    /\ identity = [a \in Accounts |-> NoUser]
    /\ handler = [h \in Handlers |-> Idle]
    /\ ledger = <<>>
    /\ wire = {}
    /\ told = {}
    /\ notices = [r \in Requests |-> [k \in Kinds |-> 0]]

-----------------------------------------------------------------------------
(* Intake and identity.                                                    *)

PendingOf(a) == {r \in Requests : Owner[r] = a /\ req[r].status = "pending"}

MayAdmit(a) == Cardinality(PendingOf(a)) < MaxPending

\* A repeat of the same key replays the row or is a conflict: no state changes.
Submit(r) ==
    /\ req[r].status = "absent"
    /\ MayAdmit(Owner[r])
    /\ req' = [req EXCEPT ![r].status = "pending"]
    /\ notices' = [notices EXCEPT ![r]["pending"] = @ + 1]
    /\ UNCHANGED <<op, approveReceipt, rejectReceipt, session, identity,
                   handler, core, told>>

\* The customer completes a Bot-confirmed link; a linked account cannot relink
\* and canonical_user_id is UNIQUE over accounts.
LinkTelegram(a, u) ==
    /\ identity[a] = NoUser
    /\ \A b \in Accounts : identity[b] # u
    /\ identity' = [identity EXCEPT ![a] = u]
    /\ UNCHANGED <<rows, session, handler, core, told>>

\* An Admin edits a customer's canonical identity in the customer directory.
EditIdentity(a, u) ==
    /\ u # identity[a]
    /\ u \in Users => \A b \in Accounts : identity[b] # u
    /\ identity' = [identity EXCEPT ![a] = u]
    /\ UNCHANGED <<rows, session, handler, core, told>>

\* Logout, a ban or the expiry of the session: never undone.
RevokeSession(s) ==
    /\ session[s] # "revoked"
    /\ session' = [session EXCEPT ![s] = "revoked"]
    /\ UNCHANGED <<rows, identity, handler, core, told>>

\* The directory takes the Admin's role or activity away, or gives it back.
ChangeAuthority(s) ==
    /\ session[s] # "revoked"
    /\ session' = [session EXCEPT ![s] = IF @ = "valid" THEN "suspended" ELSE "valid"]
    /\ UNCHANGED <<rows, identity, handler, core, told>>

-----------------------------------------------------------------------------
(* Drafts: a short-lived confirmation receipt per request, session, action. *)
(* A new draft replaces an unconsumed one.                                  *)

IsAdminSession(s) == session[s] = "valid"

DecidableUnlessApproved(r) == req[r].status \in {"pending", "rejected"}
Decidable(r) == req[r].status = "pending"

DraftApprove(s, r) ==
    /\ IsAdminSession(s)
    /\ Decidable(r)
    /\ Xu(r) > 0
    /\ approveReceipt[r][s] # "consumed"
    /\ approveReceipt' = [approveReceipt EXCEPT ![r][s] = "open"]
    /\ UNCHANGED <<req, op, rejectReceipt, session, identity, handler,
                   core, told, notices>>

DraftReject(s, r) ==
    /\ IsAdminSession(s)
    /\ Decidable(r)
    /\ rejectReceipt[r][s] # "consumed"
    /\ rejectReceipt' = [rejectReceipt EXCEPT ![r][s] = "open"]
    /\ UNCHANGED <<req, op, approveReceipt, session, identity, handler,
                   core, told, notices>>

\* MANUAL_ADMIN_RECEIPT_TTL_SECONDS pass.
ExpireReceipt(s, r) ==
    /\ \/ /\ approveReceipt[r][s] = "open"
          /\ approveReceipt' = [approveReceipt EXCEPT ![r][s] = "expired"]
          /\ UNCHANGED rejectReceipt
       \/ /\ rejectReceipt[r][s] = "open"
          /\ rejectReceipt' = [rejectReceipt EXCEPT ![r][s] = "expired"]
          /\ UNCHANGED approveReceipt
    /\ UNCHANGED <<req, op, session, identity, handler, core, told, notices>>

-----------------------------------------------------------------------------
(* Confirm a rejection: one transaction, no bridge call, no look at op.    *)

ConfirmReject(s, r) ==
    /\ IsAdminSession(s)
    /\ rejectReceipt[r][s] = "open"
    /\ Decidable(r)
    /\ rejectReceipt' = [rejectReceipt EXCEPT ![r][s] = "consumed"]
    /\ req' = [req EXCEPT ![r].status = "rejected"]
    /\ notices' = [notices EXCEPT ![r]["rejected"] = @ + 1]
    /\ told' = told \cup {<<r, "rejected">>}
    /\ UNCHANGED <<op, approveReceipt, session, identity, handler, core>>

\* The same receipt and key again: the recorded decision is repeated.
ReplayReject(s, r) ==
    /\ IsAdminSession(s)
    /\ rejectReceipt[r][s] = "consumed"
    /\ req[r].status = "rejected"
    /\ told' = told \cup {<<r, "rejected">>}
    /\ UNCHANGED <<rows, session, identity, handler, core>>

-----------------------------------------------------------------------------
(* Confirm an approval, step 1: claim_web_manual_topup_approve_decision.   *)

ReplaysAnyDecision(r, receipt) ==
    receipt = "consumed" \/ (receipt = "open" /\ req[r].status \in {"approved", "rejected"})
ReplaysApproval(r, receipt) ==
    receipt = "consumed" \/ (receipt = "open" /\ req[r].status = "approved")

\* The Admin, or another one, has already approved the request.
ReplayApprove(s, r) ==
    /\ IsAdminSession(s)
    /\ ReplaysApproval(r, approveReceipt[r][s])
    /\ told' = told \cup {<<r, "approved">>}
    /\ UNCHANGED <<rows, session, identity, handler, core>>

\* The handler keeps a snapshot of the customer's identity and of the amount.
BeginApprove(h, s, r) ==
    /\ handler[h] = Idle
    /\ IsAdminSession(s)
    /\ approveReceipt[r][s] = "open"
    /\ Decidable(r)
    /\ identity[Owner[r]] # NoUser
    /\ handler' = [handler EXCEPT ![h] =
           [pc |-> "claimed", r |-> r, s |-> s, user |-> identity[Owner[r]],
            xu |-> Xu(r), attempt |-> 1, ledger |-> NoLedgerId]]
    /\ UNCHANGED <<rows, session, identity, core, told>>

-----------------------------------------------------------------------------
(* Step 2: claim_web_credit_operation_for_dispatch.  The operation row is  *)
(* the lock over the bridge call: only its holder may dispatch.            *)

SameAmount(o, c) == o.xu = c.xu
SameFingerprint(o, c) == o.user = c.user /\ o.xu = c.xu

MayRedispatchInFlight(o) == o.status \in {"not_sent", "reconcile_required", "dispatched"}
MayRedispatch(o) == o.status \in {"not_sent", "reconcile_required"}

ClaimNew(h) ==
    LET c == handler[h] IN
    /\ c.pc = "claimed"
    /\ op[c.r].status = "none"
    /\ op' = [op EXCEPT ![c.r] = [status |-> "dispatched", user |-> c.user,
                                  xu |-> c.xu, ledger |-> NoLedgerId]]
    /\ handler' = [handler EXCEPT ![h].pc = "sending"]
    /\ UNCHANGED <<req, approveReceipt, rejectReceipt, session, identity,
                   core, told, notices>>

ClaimRetry(h) ==
    LET c == handler[h] IN
    /\ c.pc = "claimed"
    /\ MayRedispatch(op[c.r])
    /\ SameFingerprint(op[c.r], c)
    /\ op' = [op EXCEPT ![c.r].status = "dispatched"]
    /\ handler' = [handler EXCEPT ![h].pc = "sending"]
    /\ UNCHANGED <<req, approveReceipt, rejectReceipt, session, identity,
                   core, told, notices>>

\* ready_to_finalize: an earlier handler stored the credit and did not finalize.
ClaimConfirmed(h) ==
    LET c == handler[h] IN
    /\ c.pc = "claimed"
    /\ op[c.r].status = "credit_confirmed"
    /\ SameFingerprint(op[c.r], c)
    /\ handler' = [handler EXCEPT ![h].pc = "finalize", ![h].ledger = op[c.r].ledger]
    /\ UNCHANGED <<rows, session, identity, core, told>>

\* already_completed: the Admin is told the request had been approved before.
ClaimCompleted(h) ==
    LET c == handler[h] IN
    /\ c.pc = "claimed"
    /\ op[c.r].status = "local_approval_persisted"
    /\ SameFingerprint(op[c.r], c)
    /\ handler' = [handler EXCEPT ![h] = Idle]
    /\ told' = told \cup {<<c.r, "approved">>}
    /\ UNCHANGED <<rows, session, identity, core>>

\* MANUAL_ADMIN_IDEMPOTENCY_CONFLICT, or ..._IN_PROGRESS while another dispatches.
ClaimRefused(h) ==
    LET c == handler[h] IN
    /\ c.pc = "claimed"
    /\ op[c.r].status # "none"
    /\ ~SameFingerprint(op[c.r], c) \/ op[c.r].status = "dispatched"
    /\ handler' = [handler EXCEPT ![h] = Idle]
    /\ UNCHANGED <<rows, session, identity, core, told>>

-----------------------------------------------------------------------------
(* Step 3: the bridge call.  Bot Core books a key once and answers every   *)
(* later call with that key and payload with the same entry.               *)

BookedAt(key) == {i \in DOMAIN ledger : ledger[i].key = key}

CoreBooks(m, i) ==
    \/ /\ BookedAt(m.key) = {}
       /\ i = Len(ledger) + 1
       /\ ledger' = Append(ledger, m)
    \/ /\ i \in BookedAt(m.key)
       /\ ledger[i] = m
       /\ UNCHANGED ledger

\* The handler stops waiting; a call not yet received may still arrive.
Abandoned(c) == IF c.pc = "waiting" THEN wire \cup {Payload(c)} ELSE wire

Send(h) ==
    /\ handler[h].pc = "sending"
    /\ handler' = [handler EXCEPT ![h].pc = "waiting"]
    /\ UNCHANGED <<rows, session, identity, core, told>>

CoreCredits(h) ==
    /\ handler[h].pc = "waiting"
    /\ \E i \in 1..(Len(ledger) + 1) :
           /\ CoreBooks(Payload(handler[h]), i)
           /\ handler' = [handler EXCEPT ![h].pc = "answered", ![h].ledger = i]
    /\ UNCHANGED <<rows, session, identity, wire, told>>

\* Bot Core answers an error and books nothing (a key bound to another payload
\* is one such answer).
CoreRefuses(h) ==
    /\ handler[h].pc = "waiting"
    /\ handler' = [handler EXCEPT ![h].pc = "refused"]
    /\ UNCHANGED <<rows, session, identity, core, told>>

CoreReceivesLate(m) ==
    /\ \E i \in 1..(Len(ledger) + 1) : CoreBooks(m, i)
    /\ wire' = wire \ {m}
    /\ UNCHANGED <<rows, session, identity, handler, told>>

LoseCall(m) ==
    /\ wire' = wire \ {m}
    /\ UNCHANGED <<rows, session, identity, handler, ledger, told>>

MayRetryOnceMore(c) == c.attempt =< BridgeAttempts
MayRetry(c) == c.attempt < BridgeAttempts

\* A transport error or a 502/503/504 answer on the first attempt.
RetryBridge(h) ==
    LET c == handler[h] IN
    /\ c.pc \in BridgePc \ {"sending"}
    /\ MayRetry(c)
    /\ wire' = Abandoned(c)
    /\ handler' = [handler EXCEPT ![h].pc = "sending", ![h].attempt = @ + 1,
                                  ![h].ledger = NoLedgerId]
    /\ UNCHANGED <<rows, session, identity, ledger, told>>

-----------------------------------------------------------------------------
(* Step 4: store the outcome of the call in the operation row.             *)

FailureStatus == {"not_sent", "reconcile_required"}

\* An unusable outcome leaves the request pending and the operation retryable:
\* not_sent when the bridge is unconfigured or CORE_BRIDGE_UNAVAILABLE (which a
\* lost answer also is), reconcile_required for every other error, an
\* exception, and a success without a ledger_event_id.
CreditFails(h) ==
    LET c == handler[h] IN
    /\ c.pc \in BridgePc
    /\ \E st \in FailureStatus :
           /\ c.pc = "sending" => st = "not_sent" /\ c.attempt = 1
           /\ op' = [op EXCEPT ![c.r].status = st]
    /\ wire' = Abandoned(c)
    /\ handler' = [handler EXCEPT ![h] = Idle]
    /\ UNCHANGED <<req, approveReceipt, rejectReceipt, session, identity,
                   ledger, told, notices>>

\* The handler ends in an exception: the database refuses the claim or the write
\* of the outcome (only the write of the finalization is guarded), the data of a
\* success is no object, or the request is cancelled.  The row keeps what it says.
AbortPc == {"claimed"} \cup BridgePc

HandlerAborts(h) ==
    LET c == handler[h] IN
    /\ c.pc \in AbortPc
    /\ wire' = Abandoned(c)
    /\ handler' = [handler EXCEPT ![h] = Idle]
    /\ UNCHANGED <<rows, session, identity, ledger, told>>

HasAnswer(c) == c.pc \in {"answered", "refused"}
HasLedgerId(c) == c.pc = "answered"

CreditConfirmed(h) ==
    LET c == handler[h] IN
    /\ HasLedgerId(c)
    /\ op' = [op EXCEPT ![c.r].status = "credit_confirmed", ![c.r].ledger = c.ledger]
    /\ handler' = [handler EXCEPT ![h].pc = "finalize"]
    /\ UNCHANGED <<req, approveReceipt, rejectReceipt, session, identity,
                   core, told, notices>>

-----------------------------------------------------------------------------
(* Step 5: finalize_web_manual_topup_approval_with_operation.              *)

\* The session's receipt is consumed whatever became of it since the claim.
FinalizeApproval(h) ==
    LET c == handler[h] IN
    /\ c.pc = "finalize"
    /\ c.ledger # NoLedgerId
    /\ Decidable(c.r)
    /\ op' = [op EXCEPT ![c.r].status = "local_approval_persisted", ![c.r].ledger = c.ledger]
    /\ req' = [req EXCEPT ![c.r] = [status |-> "approved", xu |-> c.xu, ledger |-> c.ledger]]
    /\ approveReceipt' = [approveReceipt EXCEPT ![c.r][c.s] =
                              IF @ = "none" THEN "none" ELSE "consumed"]
    /\ notices' = [notices EXCEPT ![c.r]["approved"] = @ + 1]
    /\ told' = told \cup {<<c.r, "approved">>}
    /\ handler' = [handler EXCEPT ![h] = Idle]
    /\ UNCHANGED <<rejectReceipt, session, identity, core>>

FinalizeReplay(h) ==
    LET c == handler[h] IN
    /\ c.pc = "finalize"
    /\ c.ledger # NoLedgerId
    /\ req[c.r].status = "approved"
    /\ told' = told \cup {<<c.r, "approved">>}
    /\ handler' = [handler EXCEPT ![h] = Idle]
    /\ UNCHANGED <<rows, session, identity, core>>

\* WALLET_CREDIT_RECEIPT_REQUIRED, MANUAL_ADMIN_NOT_PENDING, or a storage
\* failure that rolls the step back.
FinalizeFails(h) ==
    /\ handler[h].pc = "finalize"
    /\ handler' = [handler EXCEPT ![h] = Idle]
    /\ UNCHANGED <<rows, session, identity, core, told>>

\* The process dies and restarts: rows survive, handlers do not.
Crash ==
    /\ MayCrash
    /\ \E h \in Handlers : handler[h] # Idle
    /\ handler' = [h \in Handlers |-> Idle]
    /\ wire' = wire \cup {Payload(handler[h]) : h \in {g \in Handlers : handler[g].pc = "waiting"}}
    /\ UNCHANGED <<rows, session, identity, ledger, told>>

-----------------------------------------------------------------------------

HandlerStep(h) ==
    \/ ClaimNew(h) \/ ClaimRetry(h) \/ ClaimConfirmed(h) \/ ClaimCompleted(h)
    \/ ClaimRefused(h) \/ Send(h) \/ CoreCredits(h) \/ CoreRefuses(h)
    \/ RetryBridge(h) \/ CreditFails(h) \/ CreditConfirmed(h) \/ HandlerAborts(h)
    \/ FinalizeApproval(h) \/ FinalizeReplay(h) \/ FinalizeFails(h)

AdminStep(s, r) ==
    \/ DraftApprove(s, r) \/ DraftReject(s, r) \/ ExpireReceipt(s, r)
    \/ ConfirmReject(s, r) \/ ReplayReject(s, r) \/ ReplayApprove(s, r)
    \/ \E h \in Handlers : BeginApprove(h, s, r)

Next ==
    \/ \E r \in Requests : Submit(r)
    \/ \E a \in Accounts, u \in Users : LinkTelegram(a, u)
    \/ \E a \in Accounts, u \in Users \cup {NoUser} : EditIdentity(a, u)
    \/ \E s \in Sessions : RevokeSession(s) \/ ChangeAuthority(s)
    \/ \E s \in Sessions, r \in Requests : AdminStep(s, r)
    \/ \E h \in Handlers : HandlerStep(h)
    \/ \E m \in wire : CoreReceivesLate(m) \/ LoseCall(m)
    \/ Crash

Spec == Init /\ [][Next]_vars

\* The event loop resumes every handler, and a timeout (12 s) ends every await.
FairSpec == Spec /\ \A h \in Handlers : WF_vars(HandlerStep(h))

\* Besides, Admins keep drafting and confirming approvals.
RetryingSpec ==
    /\ FairSpec
    /\ \A s \in Sessions, r \in Requests :
           /\ SF_vars(DraftApprove(s, r))
           /\ SF_vars(\E h \in Handlers : BeginApprove(h, s, r))

-----------------------------------------------------------------------------
(* Safety.                                                                 *)

\* The operation row is a lock: while a confirm handler is between the claim
\* and the stored outcome of its bridge call, the row says dispatched and no
\* other handler is dispatching the same request
\* (claim_web_credit_operation_for_dispatch).
SingleDispatcher ==
    /\ \A h \in Handlers :
           handler[h].pc \in BridgePc => op[handler[h].r].status = "dispatched"
    /\ \A g, h \in Handlers :
           handler[g].pc \in BridgePc /\ handler[h].pc \in BridgePc
               /\ handler[g].r = handler[h].r => g = h

\* What Bot Core has booked, or may still book from a call the Web gave up on.
Sent == wire \cup {ledger[i] : i \in DOMAIN ledger}

\* Money moves only under a durable decision: whatever Bot Core has booked or
\* may still book matches the user and amount of the operation row written
\* before the first call.
CreditsAreClaimed ==
    \A m \in Sent :
        /\ op[m.request].status # "none"
        /\ op[m.request].user = m.user
        /\ op[m.request].xu = m.xu

\* Retries, lost answers, late deliveries, crashes and several Admins never
\* credit one request twice.
CreditedOnce ==
    \A i, j \in DOMAIN ledger : ledger[i].request = ledger[j].request => i = j

\* The operation of r holds Bot Core's receipt.
Evidenced(r) == op[r].status \in {"credit_confirmed", "local_approval_persisted"}

\* Entry i of Bot Core's ledger is the credit of r that r's operation asked for.
IsCreditOf(i, r) ==
    /\ i \in DOMAIN ledger
    /\ ledger[i].request = r
    /\ ledger[i].user = op[r].user
    /\ ledger[i].xu = op[r].xu

\* The snapshot a confirm handler took before its awaits is never stale where
\* it is used: its amount is the request's, from the claim on it agrees with the
\* operation row, an answer it holds is the request's own credit, and the
\* receipt it is about to finalize is the one the row stores, even when another
\* handler has finalized first.
FollowsRows(c) ==
    /\ c.pc \in BusyPc => req[c.r].status # "absent" /\ c.xu = Xu(c.r)
    /\ c.pc \in BridgePc \cup {"finalize"} => SameFingerprint(op[c.r], c)
    /\ c.pc = "answered" => IsCreditOf(c.ledger, c.r)
    /\ c.pc = "finalize" => Evidenced(c.r) /\ op[c.r].ledger = c.ledger

HandlersFollowRows == \A h \in Handlers : FollowsRows(handler[h])

\* A stored ledger_event_id is evidence: an operation that is credit_confirmed
\* or local_approval_persisted names the entry Bot Core booked for it.
ConfirmedIsBooked ==
    \A r \in Requests :
        Evidenced(r) => IsCreditOf(op[r].ledger, r)

\* A request is approved exactly when its operation is persisted, for the
\* request's own amount and with the entry that credits it, however the
\* customer was relinked and whoever finalized.
ApprovalIsBacked ==
    \A r \in Requests :
        /\ req[r].status = "approved" <=> op[r].status = "local_approval_persisted"
        /\ req[r].status = "approved" =>
               /\ IsCreditOf(req[r].ledger, r)
               /\ req[r].ledger = op[r].ledger
               /\ req[r].xu = Xu(r)
               /\ ledger[req[r].ledger].xu = Xu(r)

\* What an Admin was told was decided is what the row says, then and later:
\* replays and already_completed answers included.
AnswersAreTrue == \A a \in told : req[a[1]].status = a[2]

\* Each lifecycle event of a request is notified exactly once.
NoticesFollowStatus ==
    \A r \in Requests :
        /\ notices[r]["pending"] = IF req[r].status = "absent" THEN 0 ELSE 1
        /\ \A k \in {"approved", "rejected"} :
               notices[r][k] = IF req[r].status = k THEN 1 ELSE 0

\* A decision is never changed or rewritten.
DecisionsAreFinal ==
    [][\A r \in Requests :
           req[r].status \in {"approved", "rejected"} => req'[r] = req[r]]_vars

\* Once Bot Core's receipt for a credit is stored, no later outcome of any
\* handler takes it away, moves it to another user or amount, or reopens the
\* operation for dispatch.
CreditEvidenceIsKept ==
    [][\A r \in Requests :
           Evidenced(r) =>
               /\ op'[r].status \in {op[r].status, "local_approval_persisted"}
               /\ op'[r].ledger = op[r].ledger
               /\ op'[r].user = op[r].user
               /\ op'[r].xu = op[r].xu]_vars

InFlight(r) == \E h \in Handlers : handler[h].pc \in BridgePc /\ handler[h].r = r

\* A handler ended, in a crash or an exception, between its claim and the outcome
\* of its call: nobody knows whether Bot Core has booked the credit.
Orphaned(r) == op[r].status = "dispatched" /\ ~InFlight(r)

SentFor(r) == {m \in Sent : m.request = r}

\* A credit whose outcome is unknown is never risked again: however often Admins
\* draft and confirm the request anew, after a restart too, no handler takes the
\* orphaned operation over, no call is sent beside those Bot Core has booked or
\* may still receive, and the request is not approved without a receipt
\* (claim_web_credit_operation_for_dispatch refuses a dispatched row).
UnknownOutcomesStayLocked ==
    [][\A r \in Requests :
           Orphaned(r) =>
               /\ Orphaned(r)'
               /\ op'[r] = op[r]
               /\ SentFor(r)' \subseteq SentFor(r)
               /\ req'[r].status # "approved"]_vars

\* The refinement: what the requests and the ledger say is a behaviour of
\* TopupLedger.
CreditsFor(r) ==
    {[id |-> i, user |-> ledger[i].user, xu |-> ledger[i].xu] :
        i \in {j \in DOMAIN ledger : ledger[j].request = r}}

Abstract == INSTANCE TopupLedger
    WITH Amount <- [r \in Requests |-> Xu(r)],
         decision <- [r \in Requests |-> req[r].status],
         credits <- [r \in Requests |-> CreditsFor(r)]

\* The abstract promise: at most one decision and one credit per request, an
\* approval only after the credit.
ImplementsTopupLedger == Abstract!Spec

-----------------------------------------------------------------------------
(* What the code's tests and contracts say, and the code does not do.      *)

\* Rejecting a request credits nothing ("BOT_CREDIT_CALLS = 0" in the rejection
\* test), so none is rejected whose credit Bot Core has already booked.  But
\* confirm_web_manual_topup_reject does not look at the operation of an
\* approval that another handler has in flight.
RejectsOnlyUncredited ==
    [][\A r \in Requests :
           req[r].status = "pending" /\ req'[r].status = "rejected"
               => CreditsFor(r) = {}]_vars

-----------------------------------------------------------------------------
(* Liveness.                                                               *)

\* The recovery contract for a lost connection (release the marker, keep the
\* request pending, retry with the same key): once Admins stay signed in and
\* customers linked, and Admins keep retrying, a request whose handler ended in a
\* crash or an exception before it stored the outcome is decided, or its operation
\* leaves dispatched.
AdminsCanRetry ==
    /\ \A s \in Sessions : IsAdminSession(s)
    /\ \A a \in Accounts : identity[a] # NoUser

Stuck(r) == op[r].status = "dispatched" /\ Decidable(r)

DispatchRecovers == <>[]AdminsCanRetry => \A r \in Requests : Stuck(r) ~> ~Stuck(r)
=============================================================================
