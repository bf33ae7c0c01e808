---------------------------- MODULE FeatureQuotes ----------------------------
(***************************************************************************)
(* One feature page of the portal: the customer asks for an estimate, the  *)
(* server hands out a receipt for it, and a confirmation under the receipt *)
(* makes one job, here or at Core.  Requests and answers get lost and come *)
(* late, the form is edited at any time, a button is clicked again, a      *)
(* receipt expires, the server stops between two of its transactions.      *)
(*                                                                         *)
(* One session of one account.  A call has the number of its click; so has *)
(* the receipt that answers it, the key that a click makes and the intent  *)
(* that it opens.  0 is no receipt, no key, no intent.                     *)
(***************************************************************************)
EXTENDS Integers, FiniteSets

CONSTANTS
    Rows,           \* what the pages and their routes do
    Values,         \* what the form may hold
    None,           \* no value
    MaxAsks,        \* bound: clicks for a draft or an estimate
    MaxConfirms,    \* bound: clicks to confirm
    MaxClicks       \* bound: clicks

Row ==
    [route : {"native", "bridged"},     \* who makes the job
     source : BOOLEAN,                  \* whether the input is checked against an asset
     hides : BOOLEAN]                   \* an edited form hides the button to confirm

ASSUME RowAssumption == Rows \subseteq Row
ASSUME NoneAssumption == None \notin Values
ASSUME BoundAssumption == MaxAsks \in Nat /\ MaxConfirms \in Nat /\ MaxClicks \in Nat

VARIABLES
    row,
    form,           \* what the form holds
    flow,           \* featureFlows[route]
    asked, entry,   \* submissions.get of the scopes of asking and of confirming
    asks, confirms, \* clicks
    calls,          \* the submissions in flight
    doubt,          \* history: the last confirmation, while it was not seen to be accepted
    work,           \* where the server is with each request that may still get there
    fit,            \* the inputs that the route's validation lets pass
    receipts,       \* web_feature_quote_receipts
    kept,           \* web_idempotency
    atCore,         \* the calls that Core may still act on
    jobs,           \* the jobs, by their keys
    answers         \* on their way back

page == <<form, flow, asked, entry, asks, confirms, calls, doubt>>
tables == <<receipts, kept, jobs>>
vars == <<row, page, work, fit, tables, atCore, answers>>

Asking == {"draft", "estimate"}
Click == asks + confirms + 1
Clicks == 1..(asks + confirms)
Call ==
    [id : Clicks, phase : Asking \cup {"confirm"}, key : Clicks, intent : Clicks,
     input : Values, receipt : {0} \cup Clicks]

\* What has been done for a request: nothing that the server knows of, the
\* receipt is claimed, Core is asked, it is known what to answer.
Stages == {"sent", "claimed", "asking", "accepted", "refused"}

\* Types.
TypeOK ==
    /\ row \in Rows /\ fit \subseteq Values
    /\ form \in Values
    /\ flow \in [phase : Asking \cup {"none", "confirm"},
                 status : {"none", "awaiting_confirm", "accepted", "guarded"},
                 input : Values \cup {None}, estimated : Values \cup {None},
                 receipt : {0} \cup Clicks]
    /\ asked \in [Asking -> [id : {0} \cup Clicks, value : Values \cup {None}]]
    /\ entry \in [key : {0} \cup Clicks, value : Values \cup {None}]
    /\ asks \in 0..MaxAsks /\ confirms \in 0..MaxConfirms
    /\ doubt \in [intent : {0} \cup Clicks, value : Values \cup {None}]
    /\ calls \subseteq Call /\ DOMAIN work \subseteq Call /\ atCore \subseteq Call
    /\ \A q \in DOMAIN work : work[q] \in Stages
    /\ DOMAIN receipts \subseteq Clicks
    /\ \A r \in DOMAIN receipts :
        receipts[r] \in [input : Values, live : BOOLEAN, key : {0} \cup Clicks, consumed : BOOLEAN]
    /\ DOMAIN kept \subseteq Clicks
    /\ \A k \in DOMAIN kept :
        kept[k] \in [state : {"pending", "accepted", "refused"}, owner : Clicks]
    /\ DOMAIN jobs \subseteq Clicks
    /\ \A k \in DOMAIN jobs :
        jobs[k] \in [input : Values, receipt : Clicks, intent : Clicks]
    /\ answers \subseteq [call : calls, end : {"quoted", "unquoted", "accepted", "refused"}]

NoFlow == [phase |-> "none", status |-> "none", input |-> None, estimated |-> None, receipt |-> 0]
NoDoubt == [intent |-> 0, value |-> None]
Nothing == [x \in {} |-> None]

Init ==
    /\ row \in Rows
    /\ fit \in SUBSET Values /\ (row.route = "bridged" => fit = Values)
    /\ form \in Values /\ flow = NoFlow
    /\ asked = [p \in Asking |-> [id |-> 0, value |-> None]]
    /\ entry = [key |-> 0, value |-> None]
    /\ asks = 0 /\ confirms = 0
    /\ calls = {} /\ answers = {} /\ atCore = {}
    /\ doubt = NoDoubt
    /\ work = Nothing /\ receipts = Nothing /\ kept = Nothing /\ jobs = Nothing

Put(f, x, y) == [z \in DOMAIN f \cup {x} |-> IF z = x THEN y ELSE f[z]]
Drop(f, x) == [z \in DOMAIN f \ {x} |-> f[z]]

-----------------------------------------------------------------------------
(* The page.                                                               *)

Edit ==
    /\ form' \in Values \ {form}
    /\ UNCHANGED <<row, flow, asked, entry, asks, confirms, calls, doubt, work, fit, tables,
                   atCore, answers>>

Send(c) == calls' = calls \cup {c} /\ work' = Put(work, c, "sent")

\* A draft goes the way of an estimate.  The same form is not sent again while
\* its last request is in flight.
Ask(p) ==
    /\ asks < MaxAsks /\ Click <= MaxClicks
    /\ asked[p].value = form => \A c \in calls : c.id # asked[p].id
    /\ asks' = asks + 1
    /\ asked' = [asked EXCEPT ![p] = [id |-> Click, value |-> form]]
    /\ Send([id |-> Click, phase |-> p, key |-> Click, intent |-> Click,
             input |-> form, receipt |-> 0])
    /\ UNCHANGED <<row, form, flow, entry, confirms, doubt, fit, tables, atCore, answers>>

\* The button to confirm is there for an estimate with a receipt.
Offered ==
    /\ flow.phase = "estimate" /\ flow.status = "awaiting_confirm" /\ flow.receipt # 0
    /\ row.hides => form = flow.estimated

KeyEachClick == Click

\* acquireSubmission: a form that was edited takes a key of its own, whether or
\* not the confirmation is then sent.
Key == IF entry.value = form THEN entry.key ELSE Click
Idle == \A c \in calls : c.key # Key
Intent == IF doubt.intent # 0 /\ doubt.value = form THEN doubt.intent ELSE Click

Confirm ==
    /\ confirms < MaxConfirms /\ Click <= MaxClicks
    /\ Offered /\ Idle /\ flow.estimated = form
    /\ confirms' = confirms + 1
    /\ entry' = [key |-> Key, value |-> form]
    /\ Send([id |-> Click, phase |-> "confirm", key |-> Key, intent |-> Intent,
             input |-> form, receipt |-> flow.receipt])
    /\ doubt' = [intent |-> Intent, value |-> form]
    /\ UNCHANGED <<row, form, flow, asked, asks, fit, tables, atCore, answers>>

\* The form is not what was estimated.
ConfirmOther ==
    /\ confirms < MaxConfirms /\ Click <= MaxClicks
    /\ Offered /\ Idle /\ flow.estimated # form
    /\ confirms' = confirms + 1
    /\ entry' = [key |-> Key, value |-> form]
    /\ UNCHANGED <<row, form, flow, asked, asks, calls, doubt, work, fit, tables, atCore, answers>>

\* releaseSubmission; the key stays.
Release(c) == calls' = calls \ {c} /\ answers' = {a \in answers : a.call # c}

Show(c, status, estimated, receipt) ==
    flow' = [phase |-> c.phase, status |-> status, input |-> c.input,
             estimated |-> estimated, receipt |-> receipt]

\* No answer: the page stays as it was.  The request may still be on its way.
Lost(c) ==
    /\ Release(c)
    /\ UNCHANGED <<row, form, flow, asked, entry, asks, confirms, doubt, work, fit, tables, atCore>>

QuotedForForm(a) ==
    /\ a.end = "quoted"
    /\ Release(a.call)
    /\ Show(a.call, "awaiting_confirm", form, a.call.id)
    /\ UNCHANGED <<row, form, asked, entry, asks, confirms, doubt, work, fit, tables, atCore>>

\* The answer is shown for the input that was sent, whatever the form holds now.
Quoted(a) ==
    /\ a.end = "quoted"
    /\ Release(a.call)
    /\ Show(a.call, "awaiting_confirm", a.call.input, a.call.id)
    /\ UNCHANGED <<row, form, asked, entry, asks, confirms, doubt, work, fit, tables, atCore>>

Unquoted(a) ==
    /\ a.end = "unquoted"
    /\ Release(a.call)
    /\ Show(a.call, "guarded", None, 0)
    /\ UNCHANGED <<row, form, asked, entry, asks, confirms, doubt, work, fit, tables, atCore>>

Accepted(a) ==
    /\ a.end = "accepted"
    /\ Release(a.call)
    /\ Show(a.call, "accepted", None, 0)
    /\ doubt' = IF doubt.intent = a.call.intent THEN NoDoubt ELSE doubt
    /\ UNCHANGED <<row, form, asked, entry, asks, confirms, work, fit, tables, atCore>>

\* A refusal, or the status of a gateway in the server's place, leaves the
\* estimate that was there, but not as one to be confirmed.
Refused(a) ==
    /\ a.end = "refused"
    /\ Release(a.call)
    /\ Show(a.call, "guarded", flow.estimated, flow.receipt)
    /\ UNCHANGED <<row, form, asked, entry, asks, confirms, doubt, work, fit, tables, atCore>>

-----------------------------------------------------------------------------
(* The server.                                                             *)

Answer(q, end) ==
    answers' = IF q \in calls THEN answers \cup {[call |-> q, end |-> end]} ELSE answers
Over(q) == work' = Drop(work, q)
Goes(q, stage) == work' = [work EXCEPT ![q] = stage]

\* Core answers a draft or an estimate; an estimate that is available gets a
\* receipt, bound to the digest of the input.
Estimate(q) ==
    /\ q.phase = "estimate" /\ work[q] = "sent"
    /\ receipts' = Put(receipts, q.id,
                       [input |-> q.input, live |-> TRUE, key |-> 0, consumed |-> FALSE])
    /\ Answer(q, "quoted") /\ Over(q)
    /\ UNCHANGED <<row, page, fit, kept, jobs, atCore>>

Plan(q) ==
    /\ q.phase \in Asking /\ work[q] = "sent"
    /\ \E end \in {"unquoted", "refused"} : Answer(q, end)
    /\ Over(q)
    /\ UNCHANGED <<row, page, fit, tables, atCore>>

\* _feature_quote_expiry has passed.
Expire(r) ==
    /\ receipts[r].live
    /\ receipts' = [receipts EXCEPT ![r].live = FALSE]
    /\ UNCHANGED <<row, page, work, fit, kept, jobs, atCore, answers>>

ClaimableAgain(q) ==
    /\ q.receipt \in DOMAIN receipts
    /\ receipts[q.receipt].live /\ receipts[q.receipt].input = q.input

\* _claim_feature_quote_receipt: the receipt is for this input, and no other key
\* has it.
Claimable(q) ==
    /\ q.receipt \in DOMAIN receipts
    /\ receipts[q.receipt].live /\ receipts[q.receipt].input = q.input
    /\ receipts[q.receipt].key \in {0, q.key}

Claim(q) ==
    /\ q.phase = "confirm" /\ work[q] = "sent" /\ Claimable(q)
    /\ receipts' = [receipts EXCEPT ![q.receipt].key = q.key]
    /\ Goes(q, "claimed")
    /\ UNCHANGED <<row, page, fit, kept, jobs, atCore, answers>>

\* FEATURE_ESTIMATE_REQUIRED, FEATURE_ESTIMATE_ALREADY_USED, and what is refused
\* before a receipt is looked at.
Decline(q) ==
    /\ q.phase = "confirm" /\ work[q] = "sent"
    /\ Answer(q, "refused") /\ Over(q)
    /\ UNCHANGED <<row, page, fit, tables, atCore>>

NewJob(q) == [input |-> q.input, receipt |-> q.receipt, intent |-> q.intent]
MakeJob(q) == jobs' = IF q.key \in DOMAIN jobs THEN jobs ELSE Put(jobs, q.key, NewJob(q))

\* create_or_replay_..._job: validation, then the job of the key or a new one,
\* in one transaction.
Conflict(q) == q.key \in DOMAIN jobs /\ jobs[q.key].input # q.input
Fits(q) == q.input \in fit /\ ~Conflict(q)

Make(q) ==
    /\ row.route = "native" /\ work[q] = "claimed" /\ Fits(q)
    /\ MakeJob(q) /\ Goes(q, "accepted")
    /\ UNCHANGED <<row, page, fit, receipts, kept, atCore, answers>>

Refuse(q) ==
    /\ row.route = "native" /\ work[q] = "claimed" /\ ~Fits(q)
    /\ Goes(q, "refused")
    /\ UNCHANGED <<row, page, fit, tables, atCore, answers>>

\* The asset that an input names goes, or comes back.
Turn(v) ==
    /\ row.route = "native" /\ row.source
    /\ fit' = IF v \in fit THEN fit \ {v} ELSE fit \cup {v}
    /\ UNCHANGED <<row, page, work, tables, atCore, answers>>

\* _reserve_idempotency: a reservation may be taken over once it is old.
Reserve(q) ==
    /\ row.route = "bridged" /\ work[q] = "claimed"
    /\ q.key \in DOMAIN kept => kept[q.key].state = "pending"
    /\ kept' = Put(kept, q.key, [state |-> "pending", owner |-> q.id])
    /\ Goes(q, "asking") /\ atCore' = atCore \cup {q}
    /\ UNCHANGED <<row, page, fit, receipts, jobs, answers>>

\* IDEMPOTENCY_IN_PROGRESS is an answer like any other.
Busy(q) ==
    /\ row.route = "bridged" /\ work[q] = "claimed"
    /\ q.key \in DOMAIN kept /\ kept[q.key].state = "pending"
    /\ Goes(q, "refused")
    /\ UNCHANGED <<row, page, fit, tables, atCore, answers>>

ReplayAccepted(q) ==
    /\ row.route = "bridged" /\ work[q] = "claimed"
    /\ q.key \in DOMAIN kept /\ kept[q.key].state # "pending"
    /\ Goes(q, "accepted")
    /\ UNCHANGED <<row, page, fit, tables, atCore, answers>>

Replay(q) ==
    /\ row.route = "bridged" /\ work[q] = "claimed"
    /\ q.key \in DOMAIN kept /\ kept[q.key].state # "pending"
    /\ Goes(q, kept[q.key].state)
    /\ UNCHANGED <<row, page, fit, tables, atCore, answers>>

\* Core makes one job under one key (external), or takes no notice.
CoreActs(q) ==
    /\ atCore' = atCore \ {q}
    /\ MakeJob(q)
    /\ UNCHANGED <<row, page, work, fit, receipts, kept, answers>>

CoreIgnores(q) ==
    /\ atCore' = atCore \ {q}
    /\ UNCHANGED <<row, page, work, fit, tables, answers>>

\* The reservation is kept or set free by the request that still owns it.
Owns(q) == q.key \in DOMAIN kept /\ kept[q.key] = [state |-> "pending", owner |-> q.id]

CoreAnswers(q) ==
    /\ work[q] = "asking" /\ q \notin atCore
    /\ LET outcome == IF q.key \in DOMAIN jobs THEN "accepted" ELSE "refused"
       IN /\ kept' = IF Owns(q)
                     THEN [kept EXCEPT ![q.key] = [state |-> outcome, owner |-> q.id]]
                     ELSE kept
          /\ Goes(q, outcome)
    /\ UNCHANGED <<row, page, fit, receipts, jobs, atCore, answers>>

\* CORE_BRIDGE_UNAVAILABLE and its like, or an exception: the receipt stays
\* claimed for the same key.
CoreUnavailable(q) ==
    /\ work[q] = "asking"
    /\ kept' = IF Owns(q) THEN Drop(kept, q.key) ELSE kept
    /\ Answer(q, "refused") /\ Over(q)
    /\ UNCHANGED <<row, page, fit, receipts, jobs, atCore>>

\* _settle_feature_quote_receipt: consumes the receipt of what was accepted and
\* releases that of what was refused.
Settled(q) ==
    LET r == receipts[q.receipt]
    IN IF r.key # q.key \/ r.consumed THEN r
       ELSE IF work[q] = "accepted" THEN [r EXCEPT !.consumed = TRUE]
       ELSE [r EXCEPT !.key = 0]

Settle(q) ==
    /\ work[q] \in {"accepted", "refused"}
    /\ receipts' = [receipts EXCEPT ![q.receipt] = Settled(q)]
    /\ Answer(q, work[q]) /\ Over(q)
    /\ UNCHANGED <<row, page, fit, kept, jobs, atCore>>

\* The request is lost on its way, or the server stops with it.
Dies(q) ==
    /\ Over(q)
    /\ UNCHANGED <<row, page, fit, tables, atCore, answers>>

-----------------------------------------------------------------------------
Next ==
    \/ Edit \/ Confirm \/ ConfirmOther
    \/ \E p \in Asking : Ask(p)
    \/ \E c \in calls : Lost(c)
    \/ \E a \in answers : Quoted(a) \/ Unquoted(a) \/ Accepted(a) \/ Refused(a)
    \/ \E q \in DOMAIN work :
        \/ Estimate(q) \/ Plan(q)
        \/ Claim(q) \/ Decline(q) \/ Make(q) \/ Refuse(q)
        \/ Reserve(q) \/ Busy(q) \/ Replay(q) \/ CoreAnswers(q) \/ CoreUnavailable(q)
        \/ Settle(q) \/ Dies(q)
    \/ \E q \in atCore : CoreActs(q) \/ CoreIgnores(q)
    \/ \E r \in DOMAIN receipts : Expire(r)
    \/ \E v \in Values : Turn(v)

Spec == Init /\ [][Next]_vars

-----------------------------------------------------------------------------
(* Properties.                                                             *)

\* A receipt that may be confirmed is for the input that the page compares the
\* form with, however late the answer came.
QuoteIsOfItsInput ==
    flow.status = "awaiting_confirm" =>
        flow.receipt \in DOMAIN receipts /\ receipts[flow.receipt].input = flow.estimated

\* Where an edited form cannot be confirmed, or the answer to a key depends on the
\* input alone, one estimate is turned into one job, whatever is lost, repeated or
\* edited (_claim_feature_quote_receipt: any other key is refused).
Steady == row.hides \/ (row.route = "native" /\ ~row.source)
OneJobPerEstimate ==
    Steady => \A j, k \in DOMAIN jobs : jobs[j].receipt = jobs[k].receipt => j = k

Deal == INSTANCE QuotedJobs
    WITH Ids <- 1..(MaxAsks + MaxConfirms), Inputs <- Values, steady <- Steady,
         quoted <- [r \in DOMAIN receipts |-> receipts[r].input],
         jobs <- [k \in DOMAIN jobs |->
                     [quote |-> jobs[k].receipt, input |-> jobs[k].input]]

\* Behind the clicks, repeats and lost answers is the plain deal: what is made was
\* quoted, for the input that was quoted, and once where the feature is steady.
ImplementsQuotedJobs == Deal!Spec

\* On a page that hides the confirmation of an edited form (row.hides), one that
\* is repeated because its outcome was not seen makes no second job, not even
\* under a new estimate.  Elsewhere the edited form may be confirmed in between,
\* and the repeat then goes out under another key.
RepeatsMakeOneJob ==
    row.hides => \A j, k \in DOMAIN jobs : jobs[j].intent = jobs[k].intent => j = k

\* The page says that a job is accepted only if there is one for the input that
\* it shows.
AcceptedHasJob ==
    flow.status = "accepted" => \E k \in DOMAIN jobs : jobs[k].input = flow.input
=============================================================================
