------------------------ MODULE FeatureQuotes_proofs ------------------------
(***************************************************************************)
(* Proofs about FeatureQuotes, for every set of rows and values and any    *)
(* number of clicks.  The inductive invariant is IInv.                     *)
(***************************************************************************)
EXTENDS FeatureQuotes, TLAPS

\* Whatever may still become a job under a receipt, or became one.
Confirmations == {c \in calls \cup DOMAIN work \cup atCore : c.phase = "confirm"}
UseOf(c) == [key |-> c.key, receipt |-> c.receipt, input |-> c.input, intent |-> c.intent]
UseOfJob(k) ==
    [key |-> k, receipt |-> jobs[k].receipt, input |-> jobs[k].input, intent |-> jobs[k].intent]
Uses == {UseOf(c) : c \in Confirmations} \cup {UseOfJob(k) : k \in DOMAIN jobs}

\* A receipt is used for its own input, and a key for one input.
UsesAreSound ==
    /\ \A u \in Uses :
        /\ u.key \in Clicks /\ u.intent \in Clicks /\ u.input \in Values
        /\ u.receipt \in DOMAIN receipts /\ receipts[u.receipt].input = u.input
        /\ u.key = entry.key => u.input = entry.value
    /\ \A u, w \in Uses : u.key = w.key => u.input = w.input
    /\ entry.key = 0 => entry.value = None

Awaiting == flow.status = "awaiting_confirm"

FlowIsSound ==
    /\ flow.receipt # 0 => flow.receipt \in DOMAIN receipts
    /\ Awaiting =>
        /\ flow.phase = "estimate" /\ flow.receipt \in DOMAIN receipts
        /\ receipts[flow.receipt].input = flow.estimated

\* A receipt that the page has not seen has not been used.
QuotesAreNew ==
    /\ \A c, d \in calls \cup DOMAIN work : c.id = d.id => c = d
    /\ \A q \in DOMAIN work : q.phase = "estimate" => q.id \notin DOMAIN receipts
    /\ \A a \in answers : a.end = "quoted" =>
        /\ a.call.phase = "estimate" /\ a.call.id # flow.receipt
        /\ a.call.id \in DOMAIN receipts /\ receipts[a.call.id].input = a.call.input
        /\ \A u \in Uses : u.receipt # a.call.id

WorkIsSound ==
    /\ \A q \in DOMAIN work : work[q] # "sent" => q.phase = "confirm"
    /\ \A q \in atCore : q.phase = "confirm"
    /\ row.route = "native" => atCore = {} /\ \A q \in DOMAIN work : work[q] # "asking"

\* What is said to be accepted is there.
AcceptedIsThere ==
    /\ \A q \in DOMAIN work : work[q] = "accepted" => q.key \in DOMAIN jobs
    /\ \A k \in DOMAIN kept : kept[k].state = "accepted" => k \in DOMAIN jobs
    /\ \A a \in answers : a.end = "accepted" =>
        a.call.phase = "confirm" /\ a.call.key \in DOMAIN jobs
    /\ AcceptedHasJob

\* Where the verdict on an input never changes, the key that holds a receipt
\* keeps it until its job is made.
NativeHoldsReceipts ==
    row.route = "native" /\ ~row.source =>
        /\ \A q \in DOMAIN work :
            /\ work[q] = "refused" => q.input \notin fit
            /\ work[q] = "claimed" /\ q.input \in fit => receipts[q.receipt].key = q.key
        /\ \A k \in DOMAIN jobs :
            jobs[k].input \in fit /\ receipts[jobs[k].receipt].key = k

\* Where an edited form cannot be confirmed, the page has one key for a receipt.
PageHoldsKey ==
    row.hides =>
        /\ \A u, w \in Uses : u.receipt = w.receipt \/ u.intent = w.intent => u.key = w.key
        /\ Awaiting => \A u \in Uses : u.receipt = flow.receipt =>
            u.key = entry.key /\ entry.value = flow.estimated
        /\ doubt.intent # 0 =>
            /\ doubt.value = entry.value
            /\ \A u \in Uses : u.intent = doubt.intent => u.key = entry.key

IInv ==
    /\ TypeOK /\ UsesAreSound /\ FlowIsSound /\ QuotesAreNew /\ WorkIsSound
    /\ AcceptedIsThere /\ NativeHoldsReceipts /\ PageHoldsKey

-----------------------------------------------------------------------------
(* Types.                                                                  *)

FlowType ==
    [phase : Asking \cup {"none", "confirm"},
     status : {"none", "awaiting_confirm", "accepted", "guarded"},
     input : Values \cup {None}, estimated : Values \cup {None}, receipt : {0} \cup Clicks]
AskedType == [Asking -> [id : {0} \cup Clicks, value : Values \cup {None}]]
EntryType == [key : {0} \cup Clicks, value : Values \cup {None}]
DoubtType == [intent : {0} \cup Clicks, value : Values \cup {None}]
ReceiptType == [input : Values, live : BOOLEAN, key : {0} \cup Clicks, consumed : BOOLEAN]
KeptType == [state : {"pending", "accepted", "refused"}, owner : Clicks]
JobType == [input : Values, receipt : Clicks, intent : Clicks]
AnswerType == [call : calls, end : {"quoted", "unquoted", "accepted", "refused"}]

PageType ==
    /\ row \in Rows /\ fit \subseteq Values /\ form \in Values
    /\ flow \in FlowType /\ asked \in AskedType /\ entry \in EntryType
    /\ asks \in 0..MaxAsks /\ confirms \in 0..MaxConfirms /\ doubt \in DoubtType
CallType == calls \subseteq Call /\ atCore \subseteq Call /\ answers \subseteq AnswerType
WorkType == DOMAIN work \subseteq Call /\ \A q \in DOMAIN work : work[q] \in Stages
Typed(f, T) == DOMAIN f \subseteq Clicks /\ \A k \in DOMAIN f : f[k] \in T
TableType == Typed(receipts, ReceiptType) /\ Typed(kept, KeptType) /\ Typed(jobs, JobType)

LEMMA TypeParts == TypeOK <=> PageType /\ CallType /\ WorkType /\ TableType
BY DEF TypeOK, PageType, CallType, WorkType, TableType, Typed, FlowType, AskedType, EntryType,
       DoubtType, ReceiptType, KeptType, JobType, AnswerType

LEMMA TypePartsNext == TypeOK' <=> PageType' /\ CallType' /\ WorkType' /\ TableType'
BY DEF TypeOK, PageType, CallType, WorkType, TableType, Typed, FlowType, AskedType, EntryType,
       DoubtType, ReceiptType, KeptType, JobType, AnswerType

LEMMA RowType ==
    ASSUME TypeOK
    PROVE row.route \in {"native", "bridged"} /\ row.source \in BOOLEAN /\ row.hides \in BOOLEAN
BY RowAssumption DEF TypeOK, Row

LEMMA ClickType ==
    ASSUME TypeOK
    PROVE /\ asks \in Nat /\ confirms \in Nat /\ Click \in Nat /\ Click \notin Clicks
          /\ 0 \notin Clicks /\ Clicks \subseteq Nat
BY BoundAssumption DEF TypeOK, Click, Clicks

\* A click adds a number and takes none away.
LEMMA Grows ==
    ASSUME TypeOK, asks' \in Nat, confirms' \in Nat,
           asks <= asks' /\ confirms <= confirms'
    PROVE /\ Clicks \subseteq Clicks' /\ Call \subseteq Call' /\ FlowType \subseteq FlowType'
          /\ AskedType \subseteq AskedType' /\ EntryType \subseteq EntryType'
          /\ DoubtType \subseteq DoubtType' /\ ReceiptType \subseteq ReceiptType'
          /\ KeptType \subseteq KeptType' /\ JobType \subseteq JobType'
<1>1. Clicks \subseteq Clicks'
    BY ClickType DEF Clicks
<1>2. QED
    BY <1>1 DEF Call, FlowType, AskedType, EntryType, DoubtType, ReceiptType, KeptType, JobType

\* What a click sends.
LEMMA NewCall ==
    ASSUME TypeOK, asks' + confirms' = Click, asks' \in Nat, confirms' \in Nat,
           asks <= asks' /\ confirms <= confirms',
           NEW p \in Asking \cup {"confirm"}, NEW k \in Clicks \cup {Click},
           NEW i \in Clicks \cup {Click}, NEW v \in Values, NEW r \in {0} \cup Clicks
    PROVE /\ Click \in Clicks'
          /\ [id |-> Click, phase |-> p, key |-> k, intent |-> i, input |-> v, receipt |-> r]
                \in Call'
<1>1. Click \in Clicks' /\ Clicks \subseteq Clicks'
    BY ClickType, Grows DEF Click, Clicks
<1>2. QED
    BY <1>1 DEF Call

LEMMA KeyType ==
    ASSUME TypeOK, UsesAreSound, PageHoldsKey
    PROVE /\ Key \in Clicks \cup {Click} /\ Intent \in Clicks \cup {Click}
BY NoneAssumption DEF TypeOK, UsesAreSound, Key, Intent

\* Only clicks change the types.
LEMMA Calm ==
    ASSUME UNCHANGED <<asks, confirms>>
    PROVE /\ Clicks' = Clicks /\ Call' = Call /\ FlowType' = FlowType /\ AskedType' = AskedType
          /\ EntryType' = EntryType /\ DoubtType' = DoubtType /\ ReceiptType' = ReceiptType
          /\ KeptType' = KeptType /\ JobType' = JobType
<1>1. Clicks' = Clicks
    BY DEF Clicks
<1>2. QED
    BY <1>1 DEF Call, FlowType, AskedType, EntryType, DoubtType, ReceiptType, KeptType, JobType

LEMMA PutType ==
    ASSUME NEW f, NEW T, NEW k \in Clicks, NEW x \in T, Typed(f, T)
    PROVE Typed(Put(f, k, x), T)
BY DEF Typed, Put

LEMMA DropType ==
    ASSUME NEW f, NEW T, NEW k, Typed(f, T)
    PROVE Typed(Drop(f, k), T)
BY DEF Typed, Drop

LEMMA AnswerTypes ==
    ASSUME NEW q, NEW end \in {"quoted", "unquoted", "accepted", "refused"}, CallType,
           Answer(q, end), UNCHANGED calls
    PROVE answers' \subseteq AnswerType'
BY DEF Answer, AnswerType, CallType

\* What releaseSubmission leaves.
LEMMA ReleaseType ==
    ASSUME NEW c, CallType, Release(c), UNCHANGED <<asks, confirms, atCore>>
    PROVE CallType'
<1>1. calls' \subseteq Call'
    BY Calm DEF CallType, Release
<1>2. answers' \subseteq AnswerType'
    BY DEF CallType, Release, AnswerType
<1>3. QED
    BY <1>1, <1>2, Calm DEF CallType

LEMMA OverType ==
    ASSUME NEW q, WorkType, Over(q), UNCHANGED <<asks, confirms>>
    PROVE WorkType'
BY Calm DEF WorkType, Over, Drop

LEMMA GoesType ==
    ASSUME NEW q, NEW stage \in Stages, WorkType, Goes(q, stage), UNCHANGED <<asks, confirms>>
    PROVE WorkType'
<1>1. DOMAIN work' = DOMAIN work
    BY DEF Goes
<1>2. \A p \in DOMAIN work : work'[p] \in Stages
    BY DEF Goes, WorkType
<1>3. QED
    BY <1>1, <1>2, Calm DEF WorkType

\* A use under a receipt has the receipt's number.
LEMMA CallOfUse ==
    ASSUME TypeOK, UsesAreSound, NEW q \in Confirmations
    PROVE /\ q \in Call /\ UseOf(q) \in Uses
          /\ q.receipt \in DOMAIN receipts /\ q.receipt \in Clicks
          /\ receipts[q.receipt].input = q.input
<1>1. q \in Call /\ UseOf(q) \in Uses
    BY DEF TypeOK, Confirmations, Uses
<1>2. QED
    BY <1>1 DEF UsesAreSound, UseOf, TypeOK

LEMMA MakeJobType ==
    ASSUME TypeOK, UsesAreSound, NEW q \in Confirmations, MakeJob(q)
    PROVE Typed(jobs', JobType)
<1>1. q.key \in Clicks /\ NewJob(q) \in JobType
    BY CallOfUse DEF Call, NewJob, JobType
<1>2. Typed(jobs, JobType)
    BY TypeParts DEF TableType
<1>3. QED
    BY <1>1, <1>2, PutType DEF MakeJob

LEMMA CalmTypes ==
    ASSUME UNCHANGED <<asks, confirms>>
    PROVE /\ PageType /\ UNCHANGED <<row, fit, page>> => PageType'
          /\ PageType /\ UNCHANGED <<row, form, fit, asked, entry>> /\ doubt' \in DoubtType
                /\ flow' \in FlowType => PageType'
          /\ CallType /\ UNCHANGED <<calls, answers>> /\ atCore' \subseteq Call => CallType'
          /\ CallType /\ UNCHANGED <<calls, atCore>> /\ answers' \subseteq AnswerType' => CallType'
          /\ WorkType /\ UNCHANGED work => WorkType'
          /\ TableType /\ UNCHANGED tables => TableType'
BY Calm DEF PageType, CallType, WorkType, TableType, Typed, page, tables, AnswerType

LEMMA ShowType ==
    ASSUME TypeOK, NEW c \in calls, NEW status \in {"awaiting_confirm", "accepted", "guarded"},
           NEW v \in Values \cup {None}, NEW r \in {0} \cup Clicks, Show(c, status, v, r)
    PROVE flow' \in FlowType
BY DEF TypeOK, Call, Show, FlowType

LEMMA PageStepType ==
    ASSUME TypeOK, UsesAreSound, PageHoldsKey, WorkIsSound,
           \/ Edit \/ Confirm \/ ConfirmOther
           \/ \E p \in Asking : Ask(p)
           \/ \E c \in calls : Lost(c)
           \/ \E a \in answers : Quoted(a) \/ Unquoted(a) \/ Accepted(a) \/ Refused(a)
    PROVE TypeOK'
<1> USE TypeParts, TypePartsNext
<1>1. CASE Edit
    <2>1. PageType'
        BY <1>1, Calm DEF Edit, PageType
    <2>2. QED
        BY <1>1, <2>1, CalmTypes, Calm DEF Edit, CallType
<1>2. ASSUME NEW p \in Asking, Ask(p) PROVE TypeOK'
    <2>1. /\ asks' \in Nat /\ confirms' \in Nat /\ asks' + confirms' = Click
          /\ asks <= asks' /\ confirms <= confirms' /\ asks' \in 0..MaxAsks
        BY <1>2, ClickType, BoundAssumption DEF Ask, Click, PageType
    <2> DEFINE c == [id |-> Click, phase |-> p, key |-> Click, intent |-> Click,
                     input |-> form, receipt |-> 0]
    <2>2. c \in Call' /\ Click \in Clicks'
        BY <2>1, NewCall DEF PageType
    <2>3. asked' \in AskedType'
        BY <1>2, <2>1, <2>2, Grows DEF Ask, PageType, AskedType
    <2>4. PageType'
        BY <1>2, <2>1, <2>3, Grows DEF Ask, PageType
    <2>5. CallType' /\ WorkType'
        BY <1>2, <2>1, <2>2, Grows
        DEF Ask, Send, CallType, WorkType, AnswerType, Put, Stages
    <2>6. TableType'
        BY <1>2, <2>1, Grows DEF Ask, TableType, Typed, tables
    <2>7. QED
        BY <2>4, <2>5, <2>6
<1>3. CASE Confirm
    <2>1. /\ asks' \in Nat /\ confirms' \in Nat /\ asks' + confirms' = Click
          /\ asks <= asks' /\ confirms <= confirms' /\ confirms' \in 0..MaxConfirms
        BY <1>3, ClickType, BoundAssumption DEF Confirm, Click, PageType
    <2> DEFINE c == [id |-> Click, phase |-> "confirm", key |-> Key, intent |-> Intent,
                     input |-> form, receipt |-> flow.receipt]
    <2>2. c \in Call' /\ Click \in Clicks'
        BY <2>1, NewCall, KeyType DEF PageType, FlowType
    <2>3. entry' \in EntryType' /\ doubt' \in DoubtType'
        BY <1>3, <2>1, <2>2, Grows, KeyType DEF Confirm, PageType, EntryType, DoubtType
    <2>4. PageType'
        BY <1>3, <2>1, <2>3, Grows DEF Confirm, PageType
    <2>5. CallType' /\ WorkType'
        BY <1>3, <2>1, <2>2, Grows
        DEF Confirm, Send, CallType, WorkType, AnswerType, Put, Stages
    <2>6. TableType'
        BY <1>3, <2>1, Grows DEF Confirm, TableType, Typed, tables
    <2>7. QED
        BY <2>4, <2>5, <2>6
<1>4. CASE ConfirmOther
    <2>1. /\ asks' \in Nat /\ confirms' \in Nat /\ asks' + confirms' = Click
          /\ asks <= asks' /\ confirms <= confirms' /\ confirms' \in 0..MaxConfirms
        BY <1>4, ClickType, BoundAssumption DEF ConfirmOther, Click, PageType
    <2>2. Click \in Clicks'
        BY <2>1, ClickType DEF Click, Clicks
    <2>3. PageType'
        BY <1>4, <2>1, <2>2, Grows, KeyType DEF ConfirmOther, PageType, EntryType
    <2>4. QED
        BY <1>4, <2>1, <2>3, Grows
        DEF ConfirmOther, CallType, WorkType, TableType, Typed, tables, AnswerType
<1>5. ASSUME NEW c \in calls, Lost(c) PROVE TypeOK'
    <2>1. PageType'
        BY <1>5, Calm DEF Lost, PageType
    <2>2. QED
        BY <1>5, <2>1, ReleaseType, CalmTypes DEF Lost
<1>6. ASSUME NEW a \in answers, Quoted(a) \/ Unquoted(a) \/ Accepted(a) \/ Refused(a)
      PROVE TypeOK'
    <2>1. a.call \in calls /\ a.call.id \in Clicks /\ a.call.input \in Values
        BY DEF CallType, AnswerType, Call
    <2>2. flow.receipt \in {0} \cup Clicks /\ flow.estimated \in Values \cup {None}
        BY DEF PageType, FlowType
    <2>3. flow' \in FlowType
        <3>1. CASE Quoted(a)
            BY <2>1, <3>1, ShowType DEF Quoted
        <3>2. CASE Unquoted(a)
            BY <2>1, <3>2, ShowType DEF Unquoted
        <3>3. CASE Accepted(a)
            BY <2>1, <3>3, ShowType DEF Accepted
        <3>4. CASE Refused(a)
            BY <2>1, <2>2, <3>4, ShowType DEF Refused
        <3>5. QED
            BY <1>6, <3>1, <3>2, <3>3, <3>4
    <2>4. doubt' \in DoubtType
        BY <1>6 DEF Quoted, Unquoted, Accepted, Refused, PageType, DoubtType, NoDoubt
    <2>5. /\ Release(a.call) /\ UNCHANGED <<row, form, fit, asked, entry, asks, confirms>>
          /\ UNCHANGED <<work, tables, atCore>>
        BY <1>6 DEF Quoted, Unquoted, Accepted, Refused
    <2>6. PageType' /\ CallType'
        BY <2>3, <2>4, <2>5, ReleaseType, CalmTypes
    <2>7. QED
        BY <2>5, <2>6, CalmTypes
<1>7. QED
    BY <1>1, <1>2, <1>3, <1>4, <1>5, <1>6

ServerStep ==
    \/ \E q \in DOMAIN work :
        \/ Estimate(q) \/ Plan(q)
        \/ Claim(q) \/ Decline(q) \/ Make(q) \/ Refuse(q)
        \/ Reserve(q) \/ Busy(q) \/ Replay(q) \/ CoreAnswers(q) \/ CoreUnavailable(q)
        \/ Settle(q) \/ Dies(q)
    \/ \E q \in atCore : CoreActs(q) \/ CoreIgnores(q)
    \/ \E r \in DOMAIN receipts : Expire(r)
    \/ \E v \in Values : Turn(v)

LEMMA ReceiptStaysTyped ==
    ASSUME TypeOK, NEW r \in DOMAIN receipts, NEW x \in ReceiptType,
           receipts' = [receipts EXCEPT ![r] = x]
    PROVE Typed(receipts', ReceiptType)
<1>1. Typed(receipts, ReceiptType)
    BY TypeParts DEF TableType
<1>2. QED
    BY <1>1 DEF Typed

LEMMA SettledType ==
    ASSUME TypeOK, NEW q, q.receipt \in DOMAIN receipts
    PROVE Settled(q) \in ReceiptType
<1>1. receipts[q.receipt] \in ReceiptType
    BY TypeParts DEF TableType, Typed
<1>2. QED
    BY <1>1 DEF Settled, ReceiptType

LEMMA ServerStepType ==
    ASSUME TypeOK, UsesAreSound, WorkIsSound, ServerStep
    PROVE TypeOK'
<1> USE TypeParts, TypePartsNext
<1>1. UNCHANGED <<asks, confirms, row, page>>
    BY DEF ServerStep, Estimate, Plan, Claim, Decline, Make, Refuse, Reserve, Busy, Replay,
           CoreAnswers, CoreUnavailable, Settle, Dies, CoreActs, CoreIgnores, Expire, Turn, page
<1>2. UNCHANGED calls
    BY <1>1 DEF page
<1>3. \A q \in DOMAIN work : work[q] # "sent" => q \in Confirmations
    BY DEF WorkIsSound, Confirmations
<1>4. /\ JobType' = JobType /\ ReceiptType' = ReceiptType /\ KeptType' = KeptType
      /\ Clicks' = Clicks /\ Call' = Call
    BY <1>1, Calm
<1>5. \A q \in DOMAIN work : q \in Call /\ work[q] \in Stages
    BY DEF WorkType
<1>6. PageType /\ CallType /\ WorkType /\ TableType /\ atCore \subseteq Call
    BY DEF CallType
<1>7. ASSUME NEW q \in DOMAIN work, Estimate(q) PROVE TypeOK'
    <2>1. Typed(receipts', ReceiptType)
        BY <1>5, <1>6, <1>7, PutType DEF Estimate, TableType, Call, ReceiptType
    <2>2. TableType'
        BY <1>4, <1>6, <1>7, <2>1 DEF Estimate, TableType, Typed
    <2>3. PageType' /\ CallType' /\ WorkType'
        BY <1>1, <1>2, <1>7, AnswerTypes, OverType, CalmTypes DEF Estimate
    <2>4. QED
        BY <2>2, <2>3
<1>8. ASSUME NEW q \in DOMAIN work, Plan(q) \/ Decline(q) \/ Dies(q) PROVE TypeOK'
    <2>1. answers' \subseteq AnswerType' \/ UNCHANGED answers
        BY <1>2, <1>8, AnswerTypes DEF Plan, Decline, Dies
    <2>2. UNCHANGED <<fit, tables, atCore>> /\ Over(q)
        BY <1>8 DEF Plan, Decline, Dies
    <2>3. QED
        BY <1>1, <1>2, <1>6, <2>1, <2>2, OverType, CalmTypes
<1>9. ASSUME NEW q \in DOMAIN work, Claim(q) PROVE TypeOK'
    <2>1. /\ q.receipt \in DOMAIN receipts /\ q.key \in Clicks
          /\ receipts[q.receipt] \in ReceiptType
        BY <1>5, <1>9 DEF Claim, Claimable, Call, TableType, Typed
    <2>2. [receipts[q.receipt] EXCEPT !.key = q.key] \in ReceiptType
        BY <2>1 DEF ReceiptType
    <2>3. Typed(receipts', ReceiptType)
        BY <1>9, <2>1, <2>2, ReceiptStaysTyped DEF Claim
    <2>4. TableType'
        BY <1>4, <1>9, <2>3 DEF Claim, TableType, Typed
    <2>5. PageType' /\ CallType' /\ WorkType'
        BY <1>1, <1>2, <1>6, <1>9, GoesType, CalmTypes DEF Claim, Stages
    <2>6. QED
        BY <2>4, <2>5
<1>10. ASSUME NEW q \in DOMAIN work, Make(q) PROVE TypeOK'
    <2>1. Typed(jobs', JobType)
        BY <1>3, <1>10, MakeJobType DEF Make
    <2>2. TableType'
        BY <1>4, <1>10, <2>1 DEF Make, TableType, Typed
    <2>3. PageType' /\ CallType' /\ WorkType'
        BY <1>1, <1>2, <1>6, <1>10, GoesType, CalmTypes DEF Make, Stages
    <2>4. QED
        BY <2>2, <2>3
<1>11. ASSUME NEW q \in DOMAIN work, Refuse(q) \/ Busy(q) \/ Replay(q) PROVE TypeOK'
    <2>1. Goes(q, "refused") \/ Replay(q)
        BY <1>11 DEF Refuse, Busy
    <2>2. Replay(q) => kept[q.key].state \in Stages
        BY DEF Replay, TableType, Typed, KeptType, Stages
    <2>3. WorkType'
        BY <1>1, <2>1, <2>2, GoesType DEF Replay, Stages
    <2>4. UNCHANGED <<fit, tables, atCore, answers>>
        BY <1>11 DEF Refuse, Busy, Replay
    <2>5. QED
        BY <1>1, <1>2, <1>6, <2>3, <2>4, CalmTypes
<1>12. ASSUME NEW q \in DOMAIN work, Reserve(q) PROVE TypeOK'
    <2>1. Typed(kept', KeptType)
        BY <1>5, <1>12, PutType DEF Reserve, TableType, Call, KeptType
    <2>2. TableType' /\ atCore' \subseteq Call
        BY <1>4, <1>5, <1>12, <2>1 DEF Reserve, TableType, Typed, CallType
    <2>3. PageType' /\ CallType' /\ WorkType'
        BY <1>1, <1>2, <1>12, <2>2, GoesType, CalmTypes DEF Reserve, Stages
    <2>4. QED
        BY <2>2, <2>3
<1>13. ASSUME NEW q \in DOMAIN work, CoreAnswers(q) PROVE TypeOK'
    <2> DEFINE outcome == IF q.key \in DOMAIN jobs THEN "accepted" ELSE "refused"
    <2>1. /\ kept' = IF Owns(q)
                     THEN [kept EXCEPT ![q.key] = [state |-> outcome, owner |-> q.id]] ELSE kept
          /\ Goes(q, outcome) /\ UNCHANGED <<fit, receipts, jobs, atCore, answers>>
        BY <1>13 DEF CoreAnswers
    <2>2. [state |-> outcome, owner |-> q.id] \in KeptType /\ outcome \in Stages
        BY <1>5 DEF KeptType, Call, Stages
    <2>3. Typed(kept', KeptType)
        BY <1>6, <2>1, <2>2 DEF TableType, Typed
    <2>4. TableType'
        BY <1>4, <1>6, <2>1, <2>3 DEF TableType, Typed
    <2>5. PageType' /\ CallType' /\ WorkType'
        BY <1>1, <1>2, <1>6, <2>1, <2>2, GoesType, CalmTypes
    <2>6. QED
        BY <2>4, <2>5
<1>14. ASSUME NEW q \in DOMAIN work, CoreUnavailable(q) PROVE TypeOK'
    <2>1. Typed(kept', KeptType)
        BY <1>6, <1>14, DropType DEF CoreUnavailable, TableType
    <2>2. TableType'
        BY <1>4, <1>14, <2>1 DEF CoreUnavailable, TableType, Typed
    <2>3. PageType' /\ CallType' /\ WorkType'
        BY <1>1, <1>2, <1>14, AnswerTypes, OverType, CalmTypes DEF CoreUnavailable
    <2>4. QED
        BY <2>2, <2>3
<1>15. ASSUME NEW q \in DOMAIN work, Settle(q) PROVE TypeOK'
    <2>1. work[q] \in {"accepted", "refused"} /\ q \in Confirmations
        BY <1>3, <1>15 DEF Settle
    <2>2. Typed(receipts', ReceiptType)
        BY <1>15, <2>1, CallOfUse, SettledType, ReceiptStaysTyped DEF Settle
    <2>3. TableType'
        BY <1>4, <1>15, <2>2 DEF Settle, TableType, Typed
    <2>4. PageType' /\ CallType' /\ WorkType'
        BY <1>1, <1>2, <1>15, <2>1, AnswerTypes, OverType, CalmTypes DEF Settle
    <2>5. QED
        BY <2>3, <2>4
<1>16. ASSUME NEW q \in atCore, CoreActs(q) \/ CoreIgnores(q) PROVE TypeOK'
    <2>1. q \in Confirmations
        BY DEF WorkIsSound, Confirmations
    <2>2. Typed(jobs', JobType)
        BY <1>6, <1>16, <2>1, MakeJobType DEF CoreActs, CoreIgnores, tables, TableType
    <2>3. TableType'
        BY <1>4, <1>16, <2>2 DEF CoreActs, CoreIgnores, tables, TableType, Typed
    <2>4. atCore' \subseteq Call /\ UNCHANGED <<fit, work, answers>>
        BY <1>16 DEF CoreActs, CoreIgnores, CallType
    <2>5. PageType' /\ CallType' /\ WorkType'
        BY <1>1, <1>2, <2>4, CalmTypes
    <2>6. QED
        BY <2>3, <2>5
<1>17. ASSUME NEW r \in DOMAIN receipts, Expire(r) PROVE TypeOK'
    <2>1. [receipts[r] EXCEPT !.live = FALSE] \in ReceiptType
        BY DEF TableType, Typed, ReceiptType
    <2>2. Typed(receipts', ReceiptType)
        BY <1>17, <2>1, ReceiptStaysTyped DEF Expire
    <2>3. TableType'
        BY <1>4, <1>17, <2>2 DEF Expire, TableType, Typed
    <2>4. QED
        BY <1>1, <1>2, <1>6, <1>17, <2>3, CalmTypes DEF Expire
<1>18. ASSUME NEW v \in Values, Turn(v) PROVE TypeOK'
    <2>1. PageType'
        BY <1>1, <1>18, Calm DEF Turn, PageType, page
    <2>2. QED
        BY <1>1, <1>2, <1>18, <2>1, CalmTypes DEF Turn, CallType
<1>19. QED
    BY <1>7, <1>8, <1>9, <1>10, <1>11, <1>12, <1>13, <1>14, <1>15, <1>16, <1>17, <1>18
    DEF ServerStep

-----------------------------------------------------------------------------
(* Uses: only Confirm makes a new one.                                     *)

LEMMA UsesOfJobs ==
    ASSUME Confirmations' \subseteq Confirmations,
           \/ UNCHANGED jobs
           \/ \E q \in Confirmations : MakeJob(q)
    PROVE Uses' \subseteq Uses
<1> SUFFICES ASSUME NEW u \in Uses' PROVE u \in Uses
    OBVIOUS
<1>1. CASE \E c \in Confirmations' : u = UseOf(c)
    BY <1>1 DEF Uses, UseOf
<1>2. ASSUME NEW k \in DOMAIN jobs',
             u = [key |-> k, receipt |-> jobs'[k].receipt, input |-> jobs'[k].input,
                  intent |-> jobs'[k].intent]
      PROVE u \in Uses
    <2>1. CASE UNCHANGED jobs
        BY <1>2, <2>1 DEF Uses, UseOfJob
    <2>2. ASSUME NEW q \in Confirmations, MakeJob(q) PROVE u \in Uses
        <3>1. CASE k \in DOMAIN jobs /\ jobs'[k] = jobs[k]
            BY <1>2, <3>1 DEF Uses, UseOfJob
        <3>2. CASE k = q.key /\ jobs'[k] = NewJob(q)
            BY <1>2, <3>2 DEF Uses, UseOf, NewJob
        <3>3. QED
            BY <1>2, <2>2, <3>1, <3>2 DEF MakeJob, Put
    <2>3. QED
        BY <2>1, <2>2
<1>3. QED
    BY <1>1, <1>2 DEF Uses, UseOf, UseOfJob

LEMMA PageKeepsUses ==
    ASSUME \/ Edit \/ ConfirmOther
           \/ \E p \in Asking : Ask(p)
           \/ \E c \in calls : Lost(c)
           \/ \E a \in answers : Quoted(a) \/ Unquoted(a) \/ Accepted(a) \/ Refused(a)
    PROVE Uses' \subseteq Uses
<1>1. UNCHANGED jobs
    BY DEF Edit, ConfirmOther, Ask, Lost, Quoted, Unquoted, Accepted, Refused, tables
<1>2. CASE UNCHANGED <<calls, work, atCore>>
    BY <1>1, <1>2, UsesOfJobs DEF Confirmations
<1>3. ASSUME NEW p \in Asking, Ask(p) PROVE Uses' \subseteq Uses
    <2>1. Confirmations' \subseteq Confirmations
        BY <1>3 DEF Ask, Asking, Send, Put, Confirmations
    <2>2. QED
        BY <1>1, <2>1, UsesOfJobs
<1>4. CASE calls' \subseteq calls /\ UNCHANGED <<work, atCore>>
    BY <1>1, <1>4, UsesOfJobs DEF Confirmations
<1>5. QED
    BY <1>2, <1>3, <1>4
    DEF Edit, ConfirmOther, Lost, Quoted, Unquoted, Accepted, Refused, Release

LEMMA ServerKeepsUses ==
    ASSUME WorkIsSound, ServerStep
    PROVE Uses' \subseteq Uses
<1>1. UNCHANGED calls
    BY DEF ServerStep, Estimate, Plan, Claim, Decline, Make, Refuse, Reserve, Busy, Replay,
           CoreAnswers, CoreUnavailable, Settle, Dies, CoreActs, CoreIgnores, Expire, Turn, page
<1>2. \A q \in DOMAIN work : work[q] # "sent" => q \in Confirmations
    BY DEF WorkIsSound, Confirmations
<1>3. \A q \in atCore : q \in Confirmations
    BY DEF WorkIsSound, Confirmations
<1>4. DOMAIN work' \subseteq DOMAIN work
    BY DEF ServerStep, Estimate, Plan, Claim, Decline, Make, Refuse, Reserve, Busy, Replay,
           CoreAnswers, CoreUnavailable, Settle, Dies, CoreActs, CoreIgnores, Expire, Turn,
           Over, Drop, Goes
<1>5. \/ atCore' \subseteq atCore
      \/ \E q \in Confirmations : atCore' = atCore \cup {q}
    BY <1>2 DEF ServerStep, Estimate, Plan, Claim, Decline, Make, Refuse, Reserve, Busy, Replay,
           CoreAnswers, CoreUnavailable, Settle, Dies, CoreActs, CoreIgnores, Expire, Turn
<1>6. Confirmations' \subseteq Confirmations
    BY <1>1, <1>4, <1>5 DEF Confirmations
<1>7. UNCHANGED jobs \/ \E q \in Confirmations : MakeJob(q)
    BY <1>2, <1>3
    DEF ServerStep, Estimate, Plan, Claim, Decline, Make, Refuse, Reserve, Busy, Replay,
        CoreAnswers, CoreUnavailable, Settle, Dies, CoreActs, CoreIgnores, Expire, Turn, tables
<1>8. QED
    BY <1>6, <1>7, UsesOfJobs

LEMMA ConfirmAddsUse ==
    ASSUME Confirm
    PROVE Uses' \subseteq Uses \cup
            {[key |-> Key, receipt |-> flow.receipt, input |-> form, intent |-> Intent]}
<1> DEFINE c == [id |-> Click, phase |-> "confirm", key |-> Key, intent |-> Intent,
                 input |-> form, receipt |-> flow.receipt]
<1>1. Confirmations' \subseteq Confirmations \cup {c} /\ UNCHANGED jobs
    BY DEF Confirm, Send, Put, Confirmations, tables
<1>2. UseOf(c) = [key |-> Key, receipt |-> flow.receipt, input |-> form, intent |-> Intent]
    BY DEF UseOf
<1>3. QED
    BY <1>1, <1>2 DEF Uses, UseOf, UseOfJob

\* A receipt stays, with its input.
LEMMA ReceiptsStay ==
    ASSUME TypeOK, QuotesAreNew, Next
    PROVE \A r \in DOMAIN receipts :
            r \in DOMAIN receipts' /\ receipts'[r].input = receipts[r].input
<1>1. CASE UNCHANGED receipts
    BY <1>1
<1>2. ASSUME NEW q \in DOMAIN work, Estimate(q)
      PROVE \A r \in DOMAIN receipts :
                r \in DOMAIN receipts' /\ receipts'[r].input = receipts[r].input
    <2>1. q.id \notin DOMAIN receipts
        BY <1>2 DEF Estimate, QuotesAreNew
    <2>2. QED
        BY <1>2, <2>1 DEF Estimate, Put
<1>3. \A r \in DOMAIN receipts : receipts[r] \in ReceiptType
    BY TypeParts DEF TableType, Typed
<1>4. ASSUME NEW q \in DOMAIN work, Claim(q) \/ Settle(q)
      PROVE \A r \in DOMAIN receipts :
                r \in DOMAIN receipts' /\ receipts'[r].input = receipts[r].input
    BY <1>3, <1>4 DEF Claim, Settle, Settled, ReceiptType
<1>5. ASSUME NEW q \in DOMAIN receipts, Expire(q)
      PROVE \A r \in DOMAIN receipts :
                r \in DOMAIN receipts' /\ receipts'[r].input = receipts[r].input
    BY <1>3, <1>5 DEF Expire, ReceiptType
<1>6. QED
    BY <1>1, <1>2, <1>4, <1>5
    DEF Next, Edit, Confirm, ConfirmOther, Ask, Lost, Quoted, Unquoted, Accepted, Refused, Plan,
        Decline, Make, Refuse, Reserve, Busy, Replay, CoreAnswers, CoreUnavailable, Dies,
        CoreActs, CoreIgnores, Turn, tables

-----------------------------------------------------------------------------
(* The parts of the invariant, one after the other.                        *)

Offer ==
    [key |-> Key, receipt |-> flow.receipt, input |-> form, intent |-> Intent]

\* The key of a click is new, or that of the uses of what the form holds.
LEMMA KeyFits ==
    ASSUME TypeOK, UsesAreSound, NEW u \in Uses
    PROVE /\ u.key = Key => u.input = form
          /\ Key # 0
<1>1. u.key \in Clicks /\ Click \notin Clicks /\ Click # 0 /\ form # None
    BY ClickType, NoneAssumption DEF UsesAreSound, TypeOK, Click
<1>2. QED
    BY <1>1 DEF UsesAreSound, Key

LEMMA KeyIsNew ==
    ASSUME TypeOK, UsesAreSound
    PROVE Key # 0
BY ClickType, NoneAssumption DEF UsesAreSound, TypeOK, Key, Click

LEMMA ConfirmUses ==
    ASSUME TypeOK, UsesAreSound, FlowIsSound, PageHoldsKey, QuotesAreNew, Confirm
    PROVE UsesAreSound'
<1>1. Uses' \subseteq Uses \cup {Offer} /\ form \in Values
    BY ConfirmAddsUse DEF Offer, TypeOK
<1>2. /\ entry' = [key |-> Key, value |-> form] /\ UNCHANGED receipts
      /\ Awaiting /\ flow.estimated = form
    BY DEF Confirm, Offered, Awaiting, tables
<1>3. flow.receipt \in DOMAIN receipts /\ receipts[flow.receipt].input = form
    BY <1>2 DEF FlowIsSound
<1>4. /\ asks' \in Nat /\ confirms' \in Nat /\ asks' + confirms' = Click
      /\ asks <= asks' /\ confirms <= confirms'
    BY ClickType DEF Confirm, Click
<1>5. Clicks \subseteq Clicks' /\ Click \in Clicks'
    BY <1>4, ClickType, Grows DEF Clicks, Click
<1>6. Key \in Clicks' /\ Intent \in Clicks'
    BY <1>5, KeyType
<1>7. \A u \in Uses : u.key = Key => u.input = form
    BY KeyFits
<1>8. \A u \in Uses' :
        /\ u.key \in Clicks' /\ u.intent \in Clicks' /\ u.input \in Values
        /\ u.receipt \in DOMAIN receipts' /\ receipts'[u.receipt].input = u.input
        /\ u.key = entry'.key => u.input = entry'.value
    BY <1>1, <1>2, <1>3, <1>5, <1>6, <1>7 DEF UsesAreSound, Offer
<1>9. \A u, w \in Uses' : u.key = w.key => u.input = w.input
    BY <1>1, <1>7 DEF UsesAreSound, Offer
<1>10. entry'.key # 0
    BY <1>2, KeyIsNew
<1>11. QED
    BY <1>8, <1>9, <1>10 DEF UsesAreSound

LEMMA OtherUses ==
    ASSUME TypeOK, UsesAreSound, QuotesAreNew, WorkIsSound, Next, ~Confirm
    PROVE UsesAreSound' /\ Uses' \subseteq Uses
<1>1. Uses' \subseteq Uses
    BY PageKeepsUses, ServerKeepsUses DEF Next, ServerStep
<1>2. \A r \in DOMAIN receipts : r \in DOMAIN receipts' /\ receipts'[r].input = receipts[r].input
    BY ReceiptsStay
<1>3. asks' \in Nat /\ confirms' \in Nat /\ asks <= asks' /\ confirms <= confirms'
    <2>1. \/ UNCHANGED <<asks, confirms>>
          \/ asks' = asks + 1 /\ UNCHANGED confirms
          \/ confirms' = confirms + 1 /\ UNCHANGED asks
        BY DEF Next, Edit, ConfirmOther, Ask, Lost, Quoted, Unquoted, Accepted, Refused, Plan,
            Decline, Make, Refuse, Reserve, Busy, Replay, CoreAnswers, CoreUnavailable, Dies,
            CoreActs, CoreIgnores, Turn, Estimate, Claim, Settle, Expire, page
    <2>2. QED
        BY <2>1, ClickType
<1>4. Clicks \subseteq Clicks'
    BY <1>3, Grows
<1>5. \/ UNCHANGED entry
      \/ entry' = [key |-> Key, value |-> form]
    BY DEF Next, Edit, ConfirmOther, Ask, Lost, Quoted, Unquoted, Accepted, Refused, Plan, Decline,
        Make, Refuse, Reserve, Busy, Replay, CoreAnswers, CoreUnavailable, Dies, CoreActs,
        CoreIgnores, Turn, Estimate, Claim, Settle, Expire, page
<1>6. \A u \in Uses : u.key = entry'.key => u.input = entry'.value
    BY <1>5, KeyFits DEF UsesAreSound
<1>7. entry'.key = 0 => entry'.value = None
    BY <1>5, KeyIsNew DEF UsesAreSound
<1>8. QED
    BY <1>1, <1>2, <1>4, <1>6, <1>7 DEF UsesAreSound

LEMMA FlowStays ==
    ASSUME TypeOK, UsesAreSound, FlowIsSound, QuotesAreNew, Next
    PROVE FlowIsSound'
<1>1. \A r \in DOMAIN receipts : r \in DOMAIN receipts' /\ receipts'[r].input = receipts[r].input
    BY ReceiptsStay
<1>2. CASE UNCHANGED flow
    BY <1>1, <1>2 DEF FlowIsSound, Awaiting
<1>3. ASSUME NEW a \in answers, Quoted(a) PROVE FlowIsSound'
    BY <1>1, <1>3 DEF Quoted, Show, FlowIsSound, Awaiting, QuotesAreNew
<1>4. ASSUME NEW a \in answers, Unquoted(a) \/ Accepted(a) \/ Refused(a) PROVE FlowIsSound'
    BY <1>1, <1>4 DEF Unquoted, Accepted, Refused, Show, FlowIsSound, Awaiting
<1>5. QED
    BY <1>2, <1>3, <1>4
    DEF Next, Edit, Confirm, ConfirmOther, Ask, Lost, Plan, Decline, Make, Refuse, Reserve, Busy,
        Replay, CoreAnswers, CoreUnavailable, Dies, CoreActs, CoreIgnores, Turn, Estimate,
        Claim, Settle, Expire, page

LEMMA WorkStays ==
    ASSUME TypeOK, WorkIsSound, Next
    PROVE WorkIsSound'
<1>1. CASE UNCHANGED <<row, atCore>> /\ (\A q \in DOMAIN work' : q \in DOMAIN work /\ work'[q] = work[q])
    BY <1>1 DEF WorkIsSound
<1>2. ASSUME NEW c, Send(c), UNCHANGED <<row, atCore>> PROVE WorkIsSound'
    BY <1>2 DEF Send, Put, WorkIsSound
<1>3. ASSUME NEW q \in DOMAIN work, Claim(q) \/ Make(q) \/ Refuse(q) \/ Busy(q) \/ Replay(q)
      PROVE WorkIsSound'
    <2>1. q.phase = "confirm" /\ UNCHANGED <<row, atCore>>
        BY <1>3 DEF Claim, Make, Refuse, Busy, Replay, WorkIsSound
    <2>2. \E stage \in Stages \ {"asking"} : Goes(q, stage)
        BY <1>3, TypeParts DEF Claim, Make, Refuse, Busy, Replay, Stages, TableType, Typed, KeptType
    <2>3. QED
        BY <2>1, <2>2 DEF Goes, WorkIsSound
<1>4. ASSUME NEW q \in DOMAIN work, Reserve(q) PROVE WorkIsSound'
    BY <1>4 DEF Reserve, Goes, WorkIsSound
<1>5. ASSUME NEW q \in DOMAIN work, CoreAnswers(q) PROVE WorkIsSound'
    BY <1>5 DEF CoreAnswers, Goes, WorkIsSound
<1>6. ASSUME NEW q \in atCore, CoreActs(q) \/ CoreIgnores(q) PROVE WorkIsSound'
    BY <1>6 DEF CoreActs, CoreIgnores, WorkIsSound
<1>7. ASSUME NEW q \in DOMAIN work,
             Estimate(q) \/ Plan(q) \/ Decline(q) \/ CoreUnavailable(q) \/ Settle(q) \/ Dies(q)
      PROVE WorkIsSound'
    BY <1>7
    DEF Estimate, Plan, Decline, CoreUnavailable, Settle, Dies, Over, Drop, WorkIsSound
<1>8. QED
    BY <1>1, <1>2, <1>3, <1>4, <1>5, <1>6, <1>7
    DEF Next, Edit, Confirm, ConfirmOther, Ask, Lost, Quoted, Unquoted, Accepted, Refused,
        Turn, Expire

\* A job stays as it was made.
LEMMA JobsStay ==
    ASSUME Next
    PROVE \A k \in DOMAIN jobs : k \in DOMAIN jobs' /\ jobs'[k] = jobs[k]
<1>1. UNCHANGED jobs \/ \E q : MakeJob(q)
    BY DEF Next, Edit, Confirm, ConfirmOther, Ask, Lost, Quoted, Unquoted, Accepted, Refused,
        Plan, Decline, Make, Refuse, Reserve, Busy, Replay, CoreAnswers, CoreUnavailable, Dies,
        CoreActs, CoreIgnores, Turn, Estimate, Claim, Settle, Expire, tables
<1>2. ASSUME NEW q, MakeJob(q)
      PROVE \A k \in DOMAIN jobs : k \in DOMAIN jobs' /\ jobs'[k] = jobs[k]
    BY <1>2 DEF MakeJob, Put
<1>3. QED
    BY <1>1, <1>2

\* The work that is found done, and what is kept of it.
LEMMA AcceptedWork ==
    ASSUME TypeOK, AcceptedIsThere, Next
    PROVE /\ \A q \in DOMAIN work' : work'[q] = "accepted" => q.key \in DOMAIN jobs'
          /\ \A k \in DOMAIN kept' : kept'[k].state = "accepted" => k \in DOMAIN jobs'
<1>1. \A k \in DOMAIN jobs : k \in DOMAIN jobs'
    BY JobsStay
<1> DEFINE WorkIsThere == \A q \in DOMAIN work' : work'[q] = "accepted" => q.key \in DOMAIN jobs'
           KeptIsThere == \A k \in DOMAIN kept' : kept'[k].state = "accepted" => k \in DOMAIN jobs'
<1>2. UNCHANGED kept => KeptIsThere
    BY <1>1 DEF AcceptedIsThere
<1>3. UNCHANGED work => WorkIsThere
    BY <1>1 DEF AcceptedIsThere
<1>4. ASSUME NEW q, Over(q) PROVE WorkIsThere
    BY <1>1, <1>4 DEF Over, Drop, AcceptedIsThere
<1>5. ASSUME NEW q, NEW stage, Goes(q, stage), stage = "accepted" => q.key \in DOMAIN jobs'
      PROVE WorkIsThere
    BY <1>1, <1>5 DEF Goes, AcceptedIsThere
<1>6. ASSUME NEW c, Send(c) PROVE WorkIsThere
    BY <1>1, <1>6 DEF Send, Put, AcceptedIsThere
<1>7. CASE Edit \/ Confirm \/ ConfirmOther \/ \E p \in Asking : Ask(p)
    BY <1>2, <1>3, <1>6, <1>7 DEF Edit, Confirm, ConfirmOther, Ask, tables
<1>8. CASE \/ \E c \in calls : Lost(c)
           \/ \E a \in answers : Quoted(a) \/ Unquoted(a) \/ Accepted(a) \/ Refused(a)
           \/ \E q \in atCore : CoreActs(q) \/ CoreIgnores(q)
           \/ \E r \in DOMAIN receipts : Expire(r)
           \/ \E v \in Values : Turn(v)
    BY <1>2, <1>3, <1>8
    DEF Lost, Quoted, Unquoted, Accepted, Refused, CoreActs, CoreIgnores, Expire, Turn, tables
<1>9. ASSUME NEW q \in DOMAIN work,
             Estimate(q) \/ Plan(q) \/ Decline(q) \/ Settle(q) \/ Dies(q)
      PROVE WorkIsThere /\ KeptIsThere
    BY <1>2, <1>4, <1>9 DEF Estimate, Plan, Decline, Settle, Dies, tables
<1>10. ASSUME NEW q \in DOMAIN work, Claim(q) \/ Refuse(q) \/ Busy(q) \/ Replay(q)
       PROVE WorkIsThere /\ KeptIsThere
    <2>1. \E stage : Goes(q, stage) /\ (stage = "accepted" => q.key \in DOMAIN jobs)
        BY <1>10 DEF Claim, Refuse, Busy, Replay, AcceptedIsThere
    <2>2. QED
        BY <1>1, <1>2, <1>5, <1>10, <2>1 DEF Claim, Refuse, Busy, Replay, tables
<1>11. ASSUME NEW q \in DOMAIN work, Make(q) PROVE WorkIsThere /\ KeptIsThere
    <2>1. q.key \in DOMAIN jobs'
        BY <1>11 DEF Make, MakeJob, Put
    <2>2. QED
        BY <1>2, <1>5, <1>11, <2>1 DEF Make
<1>12. ASSUME NEW q \in DOMAIN work, Reserve(q) PROVE WorkIsThere /\ KeptIsThere
    <2>1. KeptIsThere
        BY <1>1, <1>12 DEF Reserve, Put, AcceptedIsThere
    <2>2. QED
        BY <1>5, <1>12, <2>1 DEF Reserve
<1>13. ASSUME NEW q \in DOMAIN work, CoreAnswers(q) PROVE WorkIsThere /\ KeptIsThere
    <2> DEFINE outcome == IF q.key \in DOMAIN jobs THEN "accepted" ELSE "refused"
    <2>1. /\ kept' = IF Owns(q)
                     THEN [kept EXCEPT ![q.key] = [state |-> outcome, owner |-> q.id]] ELSE kept
          /\ Goes(q, outcome) /\ UNCHANGED jobs
        BY <1>13 DEF CoreAnswers
    <2>2. outcome = "accepted" => q.key \in DOMAIN jobs'
        BY <2>1
    <2>3. WorkIsThere
        BY <1>5, <2>1, <2>2
    <2>4. KeptIsThere
        BY <2>1, <2>2 DEF AcceptedIsThere
    <2>5. QED
        BY <2>3, <2>4
<1>14. ASSUME NEW q \in DOMAIN work, CoreUnavailable(q) PROVE WorkIsThere /\ KeptIsThere
    <2>1. KeptIsThere
        BY <1>1, <1>14 DEF CoreUnavailable, Drop, AcceptedIsThere
    <2>2. QED
        BY <1>4, <1>14, <2>1 DEF CoreUnavailable
<1>15. QED
    BY <1>7, <1>8, <1>9, <1>10, <1>11, <1>12, <1>13, <1>14 DEF Next

LEMMA AcceptedStays ==
    ASSUME TypeOK, UsesAreSound, WorkIsSound, AcceptedIsThere, Next
    PROVE AcceptedIsThere'
<1>1. \A k \in DOMAIN jobs : k \in DOMAIN jobs' /\ jobs'[k] = jobs[k]
    BY JobsStay
<1>2. \A a \in answers' : a.end = "accepted" =>
        a.call.phase = "confirm" /\ a.call.key \in DOMAIN jobs'
    <2>1. CASE answers' \subseteq answers
        BY <1>1, <2>1 DEF AcceptedIsThere
    <2>2. ASSUME NEW q, NEW end, Answer(q, end), end # "accepted"
          PROVE \A a \in answers' : a.end = "accepted" => a \in answers
        BY <2>2 DEF Answer
    <2>3. ASSUME NEW q \in DOMAIN work, Estimate(q) \/ Plan(q) \/ Decline(q) \/ CoreUnavailable(q)
          PROVE \A a \in answers' : a.end = "accepted" => a \in answers
        BY <2>2, <2>3 DEF Estimate, Plan, Decline, CoreUnavailable
    <2>4. ASSUME NEW q \in DOMAIN work, Settle(q)
          PROVE \A a \in answers' : a.end = "accepted" =>
                    a \in answers \/ (a.call.phase = "confirm" /\ a.call.key \in DOMAIN jobs)
        BY <2>4 DEF Settle, Answer, WorkIsSound, AcceptedIsThere
    <2>5. QED
        BY <1>1, <2>1, <2>3, <2>4
        DEF AcceptedIsThere, Next, Edit, Confirm, ConfirmOther, Ask, Lost, Quoted, Unquoted,
            Accepted, Refused, Release, Make, Refuse, Reserve, Busy, Replay, CoreAnswers, Dies,
            CoreActs, CoreIgnores, Turn, Claim, Expire
<1>3. AcceptedHasJob'
    <2>1. CASE UNCHANGED flow
        BY <1>1, <2>1 DEF AcceptedIsThere, AcceptedHasJob
    <2>2. ASSUME NEW a \in answers, Accepted(a) PROVE AcceptedHasJob'
        <3>1. a.call.phase = "confirm" /\ a.call.key \in DOMAIN jobs /\ a.call \in calls
            BY <2>2, TypeParts DEF Accepted, AcceptedIsThere, CallType, AnswerType
        <3>2. UseOf(a.call) \in Uses /\ UseOfJob(a.call.key) \in Uses
            BY <3>1 DEF Uses, Confirmations
        <3>3. jobs[a.call.key].input = a.call.input
            BY <3>2 DEF UsesAreSound, UseOf, UseOfJob
        <3>4. flow'.input = a.call.input
            BY <2>2 DEF Accepted, Show
        <3>5. QED
            BY <1>1, <3>1, <3>3, <3>4 DEF AcceptedHasJob
    <2>3. ASSUME NEW a \in answers, Quoted(a) \/ Unquoted(a) \/ Refused(a) PROVE AcceptedHasJob'
        BY <2>3 DEF Quoted, Unquoted, Refused, Show, AcceptedHasJob
    <2>4. QED
        BY <2>1, <2>2, <2>3
        DEF Next, Edit, Confirm, ConfirmOther, Ask, Lost, Plan, Decline, Make, Refuse, Reserve,
            Busy, Replay, CoreAnswers, CoreUnavailable, Dies, CoreActs, CoreIgnores, Turn,
            Estimate, Claim, Settle, Expire, page
<1>4. QED
    BY <1>2, <1>3, AcceptedWork DEF AcceptedIsThere

\* A call that is sent has a number that no call and no receipt has.
LEMMA SentIsNew ==
    ASSUME TypeOK, QuotesAreNew, NEW c, Send(c), c.id = Click, UNCHANGED receipts
    PROVE /\ \A d, e \in calls' \cup DOMAIN work' : d.id = e.id => d = e
          /\ \A q \in DOMAIN work' : q.phase = "estimate" => q.id \notin DOMAIN receipts'
<1>1. \A d \in calls \cup DOMAIN work : d.id # Click
    BY ClickType DEF TypeOK, Call
<1>2. Click \notin DOMAIN receipts
    BY ClickType DEF TypeOK
<1>3. QED
    BY <1>1, <1>2 DEF Send, Put, QuotesAreNew

LEMMA CallsAreNew ==
    ASSUME TypeOK, QuotesAreNew, Next
    PROVE /\ \A d, e \in calls' \cup DOMAIN work' : d.id = e.id => d = e
          /\ \A q \in DOMAIN work' : q.phase = "estimate" => q.id \notin DOMAIN receipts'
<1>1. CASE Confirm \/ \E p \in Asking : Ask(p)
    BY <1>1, SentIsNew DEF Confirm, Ask, tables
<1>2. CASE calls' \subseteq calls /\ DOMAIN work' \subseteq DOMAIN work
            /\ DOMAIN receipts' \subseteq DOMAIN receipts
    BY <1>2 DEF QuotesAreNew
<1>3. ASSUME NEW q \in DOMAIN work, Estimate(q)
      PROVE /\ \A d, e \in calls' \cup DOMAIN work' : d.id = e.id => d = e
            /\ \A p \in DOMAIN work' : p.phase = "estimate" => p.id \notin DOMAIN receipts'
    BY <1>3 DEF Estimate, Over, Drop, Put, page, QuotesAreNew
<1>4. QED
    BY <1>1, <1>2, <1>3
    DEF Next, Edit, ConfirmOther, Lost, Quoted, Unquoted, Accepted, Refused, Release, Plan,
        Decline, Make, Refuse, Reserve, Busy, Replay, CoreAnswers, CoreUnavailable, Dies,
        CoreActs, CoreIgnores, Turn, Claim, Settle, Expire, Over, Drop, Goes, page, tables

LEMMA QuotesStayNew ==
    ASSUME TypeOK, UsesAreSound, FlowIsSound, QuotesAreNew, WorkIsSound, Next
    PROVE QuotesAreNew'
<1> DEFINE New(a) ==
        /\ a.call.phase = "estimate" /\ a.call.id # flow.receipt
        /\ a.call.id \in DOMAIN receipts /\ receipts[a.call.id].input = a.call.input
        /\ \A u \in Uses : u.receipt # a.call.id
<1>1. \A r \in DOMAIN receipts : r \in DOMAIN receipts' /\ receipts'[r].input = receipts[r].input
    BY ReceiptsStay
<1>2. \A a \in answers : a.call \in calls /\ a.call.id \in Clicks
    BY TypeParts DEF CallType, AnswerType, Call
<1>3. \A a \in answers : a.end = "quoted" => \A u \in Uses' : u.receipt # a.call.id
    <2>1. CASE Confirm
        <3>1. Uses' \subseteq Uses \cup {Offer} /\ Offer.receipt = flow.receipt
            BY <2>1, ConfirmAddsUse DEF Offer
        <3>2. QED
            BY <3>1 DEF QuotesAreNew
    <2>2. CASE ~Confirm
        BY <2>2, OtherUses DEF QuotesAreNew
    <2>3. QED
        BY <2>1, <2>2
<1>4. ASSUME flow'.receipt \in {0, flow.receipt},
             \A a \in answers' : a.end = "quoted" => a \in answers
      PROVE \A a \in answers' : a.end = "quoted" => New(a)'
    BY <1>1, <1>2, <1>3, <1>4, ClickType DEF QuotesAreNew
<1>5. ASSUME NEW b \in answers, Quoted(b) PROVE \A a \in answers' : a.end = "quoted" => New(a)'
    <2>1. \A a \in answers' : a \in answers /\ a.call # b.call
        BY <1>5 DEF Quoted, Release
    <2>2. \A a \in answers' : a.call.id # b.call.id
        BY <1>2, <2>1 DEF QuotesAreNew
    <2>3. flow'.receipt = b.call.id
        BY <1>5 DEF Quoted, Show
    <2>4. QED
        BY <1>1, <1>3, <2>1, <2>2, <2>3 DEF QuotesAreNew
<1>6. ASSUME NEW q \in DOMAIN work, Estimate(q)
      PROVE \A a \in answers' : a.end = "quoted" => New(a)'
    <2>1. q.id \notin DOMAIN receipts /\ q.id # flow.receipt /\ q.phase = "estimate"
        <3>1. q.id \notin DOMAIN receipts /\ q.id \in Clicks /\ q.phase = "estimate"
            BY <1>6, TypeParts DEF Estimate, QuotesAreNew, WorkType, Call
        <3>2. QED
            BY <3>1, ClickType DEF FlowIsSound
    <2>2. q.id \in DOMAIN receipts' /\ receipts'[q.id].input = q.input
        BY <1>6 DEF Estimate, Put
    <2>3. UNCHANGED flow /\ ~Confirm
        BY <1>6, ClickType DEF Estimate, Confirm, page
    <2>4. \A u \in Uses' : u.receipt # q.id
        BY <2>1, <2>3, OtherUses DEF UsesAreSound
    <2>5. \A a \in answers' : a \in answers \/ a.call = q
        BY <1>6 DEF Estimate, Answer
    <2>6. QED
        BY <1>1, <1>3, <2>1, <2>2, <2>3, <2>4, <2>5 DEF QuotesAreNew
<1>7. ASSUME NEW q, NEW end, Answer(q, end), end # "quoted"
      PROVE \A a \in answers' : a.end = "quoted" => a \in answers
    BY <1>7 DEF Answer
<1>8. ASSUME NEW q \in DOMAIN work,
             Plan(q) \/ Decline(q) \/ CoreUnavailable(q) \/ Settle(q)
      PROVE /\ \A a \in answers' : a.end = "quoted" => a \in answers
            /\ UNCHANGED flow
    <2>1. \E end \in {"unquoted", "refused", "accepted"} : Answer(q, end)
        BY <1>8 DEF Plan, Decline, CoreUnavailable, Settle
    <2>2. QED
        BY <1>7, <1>8, <2>1 DEF Plan, Decline, CoreUnavailable, Settle, page
<1>9. ASSUME answers' \subseteq answers, flow'.receipt \in {0, flow.receipt}
      PROVE \A a \in answers' : a.end = "quoted" => New(a)'
    BY <1>4, <1>9
<1>10. \A a \in answers' : a.end = "quoted" => New(a)'
    <2> HIDE DEF New
    <2>1. CASE Edit \/ Confirm \/ ConfirmOther \/ \E p \in Asking : Ask(p)
        BY <1>9, <2>1 DEF Edit, Confirm, ConfirmOther, Ask
    <2>2. ASSUME NEW c \in calls, Lost(c) PROVE \A a \in answers' : a.end = "quoted" => New(a)'
        BY <1>9, <2>2 DEF Lost, Release
    <2>3. ASSUME NEW b \in answers, Unquoted(b) \/ Accepted(b) \/ Refused(b)
          PROVE \A a \in answers' : a.end = "quoted" => New(a)'
        BY <1>9, <2>3 DEF Unquoted, Accepted, Refused, Release, Show
    <2>4. ASSUME NEW q \in DOMAIN work,
                 \/ Make(q) \/ Refuse(q) \/ Reserve(q) \/ Busy(q) \/ Replay(q)
                 \/ CoreAnswers(q) \/ Dies(q) \/ Claim(q)
          PROVE \A a \in answers' : a.end = "quoted" => New(a)'
        BY <1>9, <2>4
        DEF Make, Refuse, Reserve, Busy, Replay, CoreAnswers, Dies, Claim, page
    <2>5. CASE \/ \E q \in atCore : CoreActs(q) \/ CoreIgnores(q)
               \/ \E r \in DOMAIN receipts : Expire(r)
               \/ \E v \in Values : Turn(v)
        BY <1>9, <2>5 DEF CoreActs, CoreIgnores, Turn, Expire, page
    <2>6. ASSUME NEW q \in DOMAIN work,
                 Plan(q) \/ Decline(q) \/ CoreUnavailable(q) \/ Settle(q)
          PROVE \A a \in answers' : a.end = "quoted" => New(a)'
        BY <1>4, <1>8, <2>6
    <2>7. QED
        BY <1>5, <1>6, <2>1, <2>2, <2>3, <2>4, <2>5, <2>6 DEF Next
<1>11. QED
    BY <1>10, CallsAreNew DEF QuotesAreNew

Settles == row.route = "native" /\ ~row.source

\* What NativeHoldsReceipts says once its premise holds.
HoldsReceipts ==
    /\ \A q \in DOMAIN work :
        /\ work[q] = "refused" => q.input \notin fit
        /\ work[q] = "claimed" /\ q.input \in fit => receipts[q.receipt].key = q.key
    /\ \A k \in DOMAIN jobs :
        jobs[k].input \in fit /\ receipts[jobs[k].receipt].key = k

\* Requests at work and jobs are uses.
LEMMA WorkIsUse ==
    ASSUME TypeOK, UsesAreSound, WorkIsSound
    PROVE /\ \A q \in DOMAIN work : work[q] # "sent" =>
                /\ q.key \in Clicks /\ q.receipt \in DOMAIN receipts
                /\ receipts[q.receipt].input = q.input
          /\ \A k \in DOMAIN jobs :
                /\ jobs[k].receipt \in DOMAIN receipts
                /\ receipts[jobs[k].receipt].input = jobs[k].input
          /\ \A q \in DOMAIN work : work[q] # "sent" /\ q.key \in DOMAIN jobs =>
                jobs[q.key].input = q.input
<1>1. \A q \in DOMAIN work : work[q] # "sent" => UseOf(q) \in Uses
    BY DEF WorkIsSound, Uses, Confirmations
<1>2. \A k \in DOMAIN jobs : UseOfJob(k) \in Uses
    BY DEF Uses
<1>3. QED
    BY <1>1, <1>2 DEF UsesAreSound, UseOf, UseOfJob

LEMMA ReceiptsStayHeld ==
    ASSUME TypeOK, UsesAreSound, QuotesAreNew, WorkIsSound, NativeHoldsReceipts, Next, Settles
    PROVE HoldsReceipts'
<1>1. HoldsReceipts /\ UNCHANGED <<row, fit>>
    <2>1. row.route = "native" /\ ~row.source
        BY DEF Settles
    <2>2. \A v : ~Turn(v)
        BY <2>1 DEF Turn
    <2>3. UNCHANGED <<row, fit>>
        BY <2>2
        DEF Next, Edit, Confirm, ConfirmOther, Ask, Lost, Quoted, Unquoted, Accepted, Refused,
            Plan, Decline, Make, Refuse, Reserve, Busy, Replay, CoreAnswers, CoreUnavailable,
            Dies, CoreActs, CoreIgnores, Estimate, Claim, Settle, Expire
    <2>4. QED
        BY <2>1, <2>3 DEF NativeHoldsReceipts, HoldsReceipts
<1>2. \A r \in DOMAIN receipts : receipts[r] \in ReceiptType
    BY TypeParts DEF TableType, Typed
<1>3. CASE UNCHANGED <<work, receipts, jobs>>
    BY <1>1, <1>3 DEF HoldsReceipts
<1>4. ASSUME NEW c, Send(c), UNCHANGED <<receipts, jobs>> PROVE HoldsReceipts'
    BY <1>1, <1>4 DEF Send, Put, HoldsReceipts
<1>5. ASSUME NEW q \in DOMAIN work, Plan(q) \/ Decline(q) \/ Dies(q) PROVE HoldsReceipts'
    BY <1>1, <1>5 DEF Plan, Decline, Dies, Over, Drop, tables, HoldsReceipts
<1>6. ASSUME NEW q \in DOMAIN work, Estimate(q) PROVE HoldsReceipts'
    <2>1. q.id \notin DOMAIN receipts
        BY <1>6 DEF Estimate, QuotesAreNew
    <2>2. \A r \in DOMAIN receipts : receipts'[r] = receipts[r]
        BY <1>6, <2>1 DEF Estimate, Put
    <2>3. /\ \A p \in DOMAIN work' : p \in DOMAIN work /\ work'[p] = work[p]
          /\ UNCHANGED jobs
        BY <1>6 DEF Estimate, Over, Drop
    <2>4. QED
        BY <1>1, <2>2, <2>3, WorkIsUse DEF HoldsReceipts
<1>7. ASSUME NEW q \in DOMAIN work, Claim(q) PROVE HoldsReceipts'
    <2>1. /\ q.receipt \in DOMAIN receipts /\ receipts[q.receipt].key \in {0, q.key}
          /\ receipts' = [receipts EXCEPT ![q.receipt].key = q.key]
          /\ work' = [work EXCEPT ![q] = "claimed"] /\ UNCHANGED jobs
        BY <1>7 DEF Claim, Claimable, Goes
    <2>2. receipts'[q.receipt].key = q.key
        BY <1>2, <2>1 DEF ReceiptType
    <2>3. \A r \in DOMAIN receipts : r # q.receipt => receipts'[r] = receipts[r]
        BY <2>1
    <2>4. ASSUME NEW p \in DOMAIN work, p # q, work[p] = "claimed", p.input \in fit
          PROVE receipts'[p.receipt].key = p.key
        <3>1. receipts[p.receipt].key = p.key /\ p.key # 0 /\ p.receipt \in DOMAIN receipts
            BY <1>1, <2>4, WorkIsUse, ClickType DEF HoldsReceipts
        <3>2. QED
            BY <2>1, <2>2, <2>3, <3>1
    <2>5. ASSUME NEW k \in DOMAIN jobs PROVE receipts'[jobs[k].receipt].key = k
        <3>1. receipts[jobs[k].receipt].key = k /\ k # 0 /\ jobs[k].receipt \in DOMAIN receipts
            BY <1>1, WorkIsUse, ClickType DEF HoldsReceipts, TypeOK
        <3>2. QED
            BY <2>1, <2>2, <2>3, <3>1
    <2>6. QED
        BY <1>1, <2>1, <2>2, <2>4, <2>5 DEF HoldsReceipts
<1>8. ASSUME NEW q \in DOMAIN work, Make(q) PROVE HoldsReceipts'
    <2>1. /\ work' = [work EXCEPT ![q] = "accepted"] /\ UNCHANGED receipts
          /\ q.input \in fit /\ receipts[q.receipt].key = q.key
        BY <1>1, <1>8 DEF Make, Fits, Goes, HoldsReceipts
    <2>2. \A k \in DOMAIN jobs' :
            \/ k \in DOMAIN jobs /\ jobs'[k] = jobs[k]
            \/ k = q.key /\ jobs'[k] = NewJob(q)
        BY <1>8 DEF Make, MakeJob, Put
    <2>3. \A k \in DOMAIN jobs' : jobs'[k].input \in fit /\ receipts[jobs'[k].receipt].key = k
        BY <1>1, <2>1, <2>2 DEF HoldsReceipts, NewJob
    <2>4. QED
        BY <1>1, <2>1, <2>3 DEF HoldsReceipts
<1>9. ASSUME NEW q \in DOMAIN work, Refuse(q) PROVE HoldsReceipts'
    <2>1. q.input \notin fit
        BY <1>9, WorkIsUse DEF Refuse, Fits, Conflict
    <2>2. work' = [work EXCEPT ![q] = "refused"] /\ UNCHANGED <<receipts, jobs>>
        BY <1>9 DEF Refuse, Goes, tables
    <2>3. QED
        BY <1>1, <2>1, <2>2 DEF HoldsReceipts
<1>10. ASSUME NEW q \in DOMAIN work, Settle(q) PROVE HoldsReceipts'
    <2>1. /\ \A p \in DOMAIN work' : p \in DOMAIN work /\ work'[p] = work[p]
          /\ UNCHANGED jobs /\ work[q] \in {"accepted", "refused"}
          /\ receipts' = [receipts EXCEPT ![q.receipt] = Settled(q)]
        BY <1>10 DEF Settle, Over, Drop
    <2>2. q.receipt \in DOMAIN receipts /\ receipts[q.receipt].input = q.input
        BY <2>1, WorkIsUse
    <2>3. \A r \in DOMAIN receipts : r # q.receipt => receipts'[r] = receipts[r]
        BY <2>1
    <2>4. CASE work[q] = "accepted"
        <3>1. receipts'[q.receipt].key = receipts[q.receipt].key
            BY <1>2, <2>1, <2>2, <2>4 DEF Settled, ReceiptType
        <3>2. \A r \in DOMAIN receipts : receipts'[r].key = receipts[r].key
            BY <2>3, <3>1
        <3>3. QED
            BY <1>1, <2>1, <3>2, WorkIsUse DEF HoldsReceipts
    <2>5. CASE work[q] = "refused"
        <3>1. q.input \notin fit
            BY <1>1, <2>5 DEF HoldsReceipts
        <3>2. \A p \in DOMAIN work : work[p] = "claimed" /\ p.input \in fit =>
                p.receipt \in DOMAIN receipts /\ p.receipt # q.receipt
            BY <2>2, <3>1, WorkIsUse
        <3>3. \A k \in DOMAIN jobs :
                jobs[k].receipt \in DOMAIN receipts /\ jobs[k].receipt # q.receipt
            BY <1>1, <2>2, <3>1, WorkIsUse DEF HoldsReceipts
        <3>4. QED
            BY <1>1, <2>1, <2>3, <3>2, <3>3 DEF HoldsReceipts
    <2>6. QED
        BY <2>1, <2>4, <2>5
<1>11. ASSUME NEW r \in DOMAIN receipts, Expire(r) PROVE HoldsReceipts'
    <2>1. \A s \in DOMAIN receipts : receipts'[s].key = receipts[s].key
        BY <1>2, <1>11 DEF Expire, ReceiptType
    <2>2. UNCHANGED <<work, jobs>>
        BY <1>11 DEF Expire
    <2>3. QED
        BY <1>1, <2>1, <2>2, WorkIsUse DEF HoldsReceipts
<1>12. \A q \in DOMAIN work :
        ~(Reserve(q) \/ Busy(q) \/ Replay(q) \/ CoreAnswers(q) \/ CoreUnavailable(q))
    BY DEF Settles, WorkIsSound, Reserve, Busy, Replay, CoreAnswers, CoreUnavailable
<1>13. atCore = {}
    BY DEF Settles, WorkIsSound
<1>14. CASE Edit \/ Confirm \/ ConfirmOther \/ \E p \in Asking : Ask(p)
    BY <1>3, <1>4, <1>14 DEF Edit, Confirm, ConfirmOther, Ask, tables
<1>15. CASE \/ \E c \in calls : Lost(c)
            \/ \E a \in answers : Quoted(a) \/ Unquoted(a) \/ Accepted(a) \/ Refused(a)
            \/ \E v \in Values : Turn(v)
    BY <1>3, <1>15 DEF Lost, Quoted, Unquoted, Accepted, Refused, Turn, tables
<1>16. QED
    BY <1>5, <1>6, <1>7, <1>8, <1>9, <1>10, <1>11, <1>12, <1>13, <1>14, <1>15 DEF Next

LEMMA NativeStays ==
    ASSUME TypeOK, UsesAreSound, QuotesAreNew, WorkIsSound, NativeHoldsReceipts, Next
    PROVE NativeHoldsReceipts'
<1>1. UNCHANGED row
    BY DEF Next, Edit, Confirm, ConfirmOther, Ask, Lost, Quoted, Unquoted, Accepted, Refused,
        Plan, Decline, Make, Refuse, Reserve, Busy, Replay, CoreAnswers, CoreUnavailable, Turn,
        Dies, CoreActs, CoreIgnores, Estimate, Claim, Settle, Expire
<1>2. QED
    BY <1>1, ReceiptsStayHeld DEF NativeHoldsReceipts, Settles, HoldsReceipts

LEMMA KeyStays ==
    ASSUME TypeOK, UsesAreSound, FlowIsSound, QuotesAreNew, WorkIsSound, PageHoldsKey, Next
    PROVE PageHoldsKey'
<1> SUFFICES ASSUME row'.hides
             PROVE /\ \A u, w \in Uses' :
                        u.receipt = w.receipt \/ u.intent = w.intent => u.key = w.key
                   /\ Awaiting' => \A u \in Uses' : u.receipt = flow'.receipt =>
                        u.key = entry'.key /\ entry'.value = flow'.estimated
                   /\ doubt'.intent # 0 =>
                        /\ doubt'.value = entry'.value
                        /\ \A u \in Uses' : u.intent = doubt'.intent => u.key = entry'.key
    BY DEF PageHoldsKey
<1>1. UNCHANGED row /\ row.hides
    BY DEF Next, Edit, Confirm, ConfirmOther, Ask, Lost, Quoted, Unquoted, Accepted, Refused,
        Plan, Decline, Make, Refuse, Reserve, Busy, Replay, CoreAnswers, CoreUnavailable, Turn,
        Dies, CoreActs, CoreIgnores, Estimate, Claim, Settle, Expire
<1>2. CASE Confirm
    <2>1. Uses' \subseteq Uses \cup {Offer}
        BY <1>2, ConfirmAddsUse DEF Offer
    <2>2. /\ Awaiting /\ flow.estimated = form /\ UNCHANGED flow
          /\ entry' = [key |-> Key, value |-> form] /\ doubt' = [intent |-> Intent, value |-> form]
        BY <1>2 DEF Confirm, Offered, Awaiting
    <2>3. \A u \in Uses : u.receipt = flow.receipt => u.key = Key
        BY <1>1, <2>2 DEF PageHoldsKey, Key
    <2>4. \A u \in Uses : u.intent = Intent => u.key = Key
        <3>1. CASE doubt.intent # 0 /\ doubt.value = form
            BY <1>1, <3>1 DEF PageHoldsKey, Key, Intent
        <3>2. CASE Intent = Click
            BY <3>2, ClickType DEF UsesAreSound
        <3>3. QED
            BY <3>1, <3>2 DEF Intent
    <2>5. QED
        BY <1>1, <2>1, <2>2, <2>3, <2>4 DEF PageHoldsKey, Offer
<1>3. ~ConfirmOther
    BY <1>1 DEF ConfirmOther, Offered
<1>4. ~Confirm => Uses' \subseteq Uses
    BY OtherUses
<1>5. CASE ~Confirm /\ UNCHANGED <<flow, entry, doubt>>
    BY <1>1, <1>4, <1>5 DEF PageHoldsKey, Awaiting
<1>6. ASSUME NEW a \in answers, Quoted(a), ~Confirm
      PROVE PageHoldsKey'
    <2>1. /\ \A u \in Uses : u.receipt # flow'.receipt
          /\ UNCHANGED <<entry, doubt>>
        BY <1>6 DEF Quoted, Show, QuotesAreNew
    <2>2. QED
        BY <1>1, <1>4, <1>6, <2>1 DEF PageHoldsKey
<1>7. ASSUME NEW a \in answers, Unquoted(a) \/ Accepted(a) \/ Refused(a), ~Confirm
      PROVE PageHoldsKey'
    <2>1. ~Awaiting' /\ UNCHANGED entry /\ doubt' \in {doubt, NoDoubt}
        BY <1>7 DEF Unquoted, Accepted, Refused, Show, Awaiting
    <2>2. QED
        BY <1>1, <1>4, <1>7, <2>1 DEF PageHoldsKey, NoDoubt
<1>8. QED
    <2>1. CASE ~Confirm
        BY <1>1, <1>3, <1>5, <1>6, <1>7, <2>1
        DEF PageHoldsKey, Next, Edit, Ask, Lost, Plan, Decline, Make, Refuse, Reserve, Busy,
            Replay, CoreAnswers, CoreUnavailable, Turn, Dies, CoreActs, CoreIgnores, Estimate,
            Claim, Settle, Expire, page
    <2>2. QED
        BY <1>2, <2>1

-----------------------------------------------------------------------------
(* The theorems.                                                           *)

LEMMA InitIInv == Init => IInv
<1> SUFFICES ASSUME Init PROVE IInv
    OBVIOUS
<1>1. TypeOK
    BY NoneAssumption, BoundAssumption
    DEF Init, TypeOK, NoFlow, NoDoubt, Nothing, Asking, Clicks
<1>2. Uses = {} /\ DOMAIN work = {} /\ DOMAIN jobs = {} /\ DOMAIN kept = {}
    BY DEF Init, Uses, Confirmations, Nothing
<1>3. UsesAreSound /\ FlowIsSound /\ QuotesAreNew /\ WorkIsSound
    BY <1>2
    DEF Init, UsesAreSound, FlowIsSound, Awaiting, QuotesAreNew, WorkIsSound, NoFlow, Nothing
<1>4. AcceptedIsThere /\ NativeHoldsReceipts /\ PageHoldsKey
    BY <1>2
    DEF Init, AcceptedIsThere, AcceptedHasJob, NativeHoldsReceipts, PageHoldsKey, Awaiting,
        NoFlow, NoDoubt
<1>5. QED
    BY <1>1, <1>3, <1>4 DEF IInv

LEMMA StepIInv == IInv /\ [Next]_vars => IInv'
<1> SUFFICES ASSUME IInv, [Next]_vars PROVE IInv'
    OBVIOUS
<1>1. CASE Next
    <2>1. TypeOK'
        BY <1>1, PageStepType, ServerStepType DEF IInv, Next, ServerStep
    <2>2. UsesAreSound'
        BY <1>1, ConfirmUses, OtherUses DEF IInv
    <2>3. QED
        BY <1>1, <2>1, <2>2, FlowStays, QuotesStayNew, WorkStays, AcceptedStays, NativeStays,
           KeyStays
        DEF IInv
<1>2. CASE UNCHANGED vars
    <2>1. TypeOK'
        BY <1>2, Calm DEF IInv, TypeOK, vars, page, tables, Clicks, Call
    <2>2. UNCHANGED <<Uses, Clicks, entry, receipts>>
        BY <1>2 DEF vars, page, tables, Uses, Confirmations, UseOfJob, Clicks
    <2>3. UsesAreSound' /\ FlowIsSound' /\ QuotesAreNew' /\ WorkIsSound'
        BY <1>2, <2>2
        DEF IInv, UsesAreSound, FlowIsSound, Awaiting, QuotesAreNew, WorkIsSound, vars, page,
            tables
    <2>4. AcceptedIsThere' /\ NativeHoldsReceipts' /\ PageHoldsKey'
        BY <1>2, <2>2
        DEF IInv, AcceptedIsThere, AcceptedHasJob, NativeHoldsReceipts, PageHoldsKey, Awaiting,
            vars, page, tables
    <2>5. QED
        BY <2>1, <2>3, <2>4 DEF IInv
<1>3. QED
    BY <1>1, <1>2

LEMMA Inductive == Spec => []IInv
BY InitIInv, StepIInv, PTL DEF Spec

\* What the page, the requests and the three tables hold: calls, receipts, keys and
\* intents that clicks have made, and inputs that the form has held.
THEOREM TypeCorrect == Spec => []TypeOK
<1>1. IInv => TypeOK
    BY DEF IInv
<1>2. QED
    BY <1>1, Inductive, PTL

\* The receipt that the page offers to confirm is the one that the server made for
\* the input the page compares the form with: answers to estimates that were
\* overtaken by an edit or by another estimate do not mix the two.
THEOREM QuotesMatch == Spec => []QuoteIsOfItsInput
<1>1. IInv => QuoteIsOfItsInput
    BY DEF IInv, FlowIsSound, Awaiting, QuoteIsOfItsInput
<1>2. QED
    BY <1>1, Inductive, PTL

\* _claim_feature_quote_receipt and _settle_feature_quote_receipt let one estimate
\* become one job, if either the page or the steadiness of the route's answer
\* keeps a second key from a receipt that was released.
THEOREM OneJob == Spec => []OneJobPerEstimate
<1>1. ASSUME IInv, Steady, NEW j \in DOMAIN jobs, NEW k \in DOMAIN jobs,
             jobs[j].receipt = jobs[k].receipt
      PROVE j = k
    <2>1. CASE row.hides
        <3>1. UseOfJob(j) \in Uses /\ UseOfJob(k) \in Uses
            BY DEF Uses
        <3>2. QED
            BY <1>1, <2>1, <3>1 DEF IInv, PageHoldsKey, UseOfJob
    <2>2. CASE row.route = "native" /\ ~row.source
        BY <1>1, <2>2 DEF IInv, NativeHoldsReceipts
    <2>3. QED
        BY <1>1, <2>1, <2>2 DEF Steady
<1>2. IInv => OneJobPerEstimate
    BY <1>1 DEF OneJobPerEstimate
<1>3. QED
    BY <1>2, Inductive, PTL

\* acquireSubmission and releaseSubmission: a customer who confirms again because no
\* answer came gets the job of the first confirmation, even under a new estimate.
THEOREM RepeatsAreOneJob == Spec => []RepeatsMakeOneJob
<1>1. ASSUME IInv, row.hides, NEW j \in DOMAIN jobs, NEW k \in DOMAIN jobs,
             jobs[j].intent = jobs[k].intent
      PROVE j = k
    <2>1. UseOfJob(j) \in Uses /\ UseOfJob(k) \in Uses
        BY DEF Uses
    <2>2. QED
        BY <1>1, <2>1 DEF IInv, PageHoldsKey, UseOfJob
<1>2. IInv => RepeatsMakeOneJob
    BY <1>1 DEF RepeatsMakeOneJob
<1>3. QED
    BY <1>2, Inductive, PTL

\* The page shows "accepted" for an input only if a job was made for this input.
THEOREM AcceptedIsTrue == Spec => []AcceptedHasJob
<1>1. IInv => AcceptedHasJob
    BY DEF IInv, AcceptedIsThere
<1>2. QED
    BY <1>1, Inductive, PTL

-----------------------------------------------------------------------------
(* The deal behind the clicks: every step is a step of QuotedJobs, or none *)
(* of it is seen.                                                          *)

DealQuoted == [r \in DOMAIN receipts |-> receipts[r].input]
DealJobs == [k \in DOMAIN jobs |-> [quote |-> jobs[k].receipt, input |-> jobs[k].input]]

LEMMA DealInit == Init => Deal!Init
<1> SUFFICES ASSUME Init PROVE Deal!Init
    OBVIOUS
<1>1. Steady \in BOOLEAN
    BY RowAssumption DEF Init, Row, Steady
<1>2. DOMAIN receipts = {} /\ DOMAIN jobs = {}
    BY DEF Init, Nothing
<1>3. DealQuoted = [q \in {} |-> q] /\ DealJobs = [k \in {} |-> k]
    BY <1>2 DEF DealQuoted, DealJobs
<1>4. QED
    BY <1>1, <1>3 DEF Deal!Init, DealQuoted, DealJobs

LEMMA ClicksAreIds ==
    ASSUME TypeOK
    PROVE Clicks \subseteq 1..(MaxAsks + MaxConfirms)
BY BoundAssumption DEF TypeOK, Clicks

\* An estimate that is available: the receipt is new.
LEMMA EstimateDeals ==
    ASSUME IInv, NEW q \in DOMAIN work, Estimate(q)
    PROVE Deal!Next
<1>1. /\ q.id \notin DOMAIN receipts /\ UNCHANGED <<row, jobs>>
      /\ receipts' = Put(receipts, q.id,
                         [input |-> q.input, live |-> TRUE, key |-> 0, consumed |-> FALSE])
    BY DEF Estimate, IInv, QuotesAreNew
<1>2. q \in Call
    BY DEF IInv, TypeOK
<1>3. PICK i \in 1..(MaxAsks + MaxConfirms) : i = q.id
    BY <1>2, ClicksAreIds DEF Call, IInv
<1>4. PICK v \in Values : v = q.input
    BY <1>2 DEF Call
<1>5. DOMAIN receipts' = DOMAIN receipts \cup {i}
    BY <1>1, <1>3 DEF Put
<1>6. /\ receipts'[i].input = v
      /\ \A p \in DOMAIN receipts : receipts'[p] = receipts[p]
    BY <1>1, <1>3, <1>4 DEF Put
<1>7. DealQuoted' = [p \in DOMAIN DealQuoted \cup {i} |-> IF p = i THEN v ELSE DealQuoted[p]]
    BY <1>5, <1>6 DEF DealQuoted
<1>8. UNCHANGED <<Steady, DealJobs>>
    BY <1>1 DEF Steady, DealJobs
<1>9. i \notin DOMAIN DealQuoted
    BY <1>1, <1>3 DEF DealQuoted
<1>10. Deal!Quote(i, v)
    BY <1>7, <1>8, <1>9 DEF Deal!Quote, DealQuoted, DealJobs
<1>11. QED
    BY <1>10 DEF Deal!Next

\* The job of a key, made here or at Core: of the receipt that the request claimed,
\* for the receipt's input.
LEMMA JobDeals ==
    ASSUME IInv, OneJobPerEstimate', NEW q \in Confirmations, MakeJob(q),
           UNCHANGED <<row, receipts>>
    PROVE [Deal!Next]_(Deal!quoteVars)
<1>1. UNCHANGED <<Steady, DealQuoted>>
    BY DEF Steady, DealQuoted
<1>2. CASE q.key \in DOMAIN jobs
    <2>1. UNCHANGED DealJobs
        BY <1>2 DEF MakeJob, DealJobs
    <2>2. QED
        BY <1>1, <2>1 DEF Deal!quoteVars, DealQuoted, DealJobs
<1>3. CASE q.key \notin DOMAIN jobs
    <2>1. /\ q \in Call /\ q.receipt \in DOMAIN receipts
          /\ receipts[q.receipt].input = q.input
        BY CallOfUse DEF IInv
    <2>2. PICK k \in 1..(MaxAsks + MaxConfirms) : k = q.key
        BY <2>1, ClicksAreIds DEF Call, IInv
    <2>3. PICK r \in DOMAIN receipts : r = q.receipt
        BY <2>1
    <2>4. jobs' = Put(jobs, k, NewJob(q)) /\ k \notin DOMAIN jobs
        BY <1>3, <2>2 DEF MakeJob
    <2>5. DOMAIN jobs' = DOMAIN jobs \cup {k}
        BY <2>4 DEF Put
    <2>6. /\ jobs'[k].receipt = r /\ jobs'[k].input = receipts[r].input
          /\ \A j \in DOMAIN jobs : jobs'[j] = jobs[j]
        BY <2>1, <2>3, <2>4 DEF Put, NewJob
    <2>7. DOMAIN DealQuoted = DOMAIN receipts /\ DealQuoted[r] = receipts[r].input
          /\ DOMAIN DealJobs = DOMAIN jobs
        BY DEF DealQuoted, DealJobs
    <2>8. DealJobs' = [j \in DOMAIN DealJobs \cup {k} |->
                IF j = k THEN [quote |-> r, input |-> DealQuoted[r]] ELSE DealJobs[j]]
        BY <2>5, <2>6, <2>7 DEF DealJobs
    <2>9. Steady => \A j \in DOMAIN DealJobs : DealJobs[j].quote # r
        <3>1. SUFFICES ASSUME Steady, NEW j \in DOMAIN jobs PROVE jobs[j].receipt # r
            BY <2>7 DEF DealJobs
        <3>2. jobs'[j].receipt = jobs'[k].receipt => j = k
            BY <1>1, <2>5, <3>1 DEF OneJobPerEstimate
        <3>3. QED
            BY <2>4, <2>6, <3>2
    <2>10. Deal!Make(k, r)
        BY <1>1, <2>4, <2>7, <2>8, <2>9 DEF Deal!Make, DealQuoted, DealJobs
    <2>11. QED
        BY <2>7, <2>10 DEF Deal!Next, DealQuoted
<1>4. QED
    BY <1>2, <1>3

\* What the claim, the end and the expiry of a receipt, and the steps of the page,
\* leave of the deal.
LEMMA RestDeals ==
    ASSUME UNCHANGED <<row, jobs>>, DOMAIN receipts' = DOMAIN receipts,
           \A r \in DOMAIN receipts : receipts'[r].input = receipts[r].input
    PROVE [Deal!Next]_(Deal!quoteVars)
<1>1. UNCHANGED <<Steady, DealJobs>>
    BY DEF Steady, DealJobs
<1>2. UNCHANGED DealQuoted
    BY DEF DealQuoted
<1>3. QED
    BY <1>1, <1>2 DEF Deal!quoteVars, DealQuoted, DealJobs

LEMMA DealStep ==
    ASSUME IInv, OneJobPerEstimate', [Next]_vars
    PROVE [Deal!Next]_(Deal!quoteVars)
<1>1. CASE UNCHANGED vars
    BY <1>1, RestDeals DEF vars, tables
<1>2. CASE Next
    <2>1. ASSUME NEW q \in DOMAIN work, Estimate(q) PROVE [Deal!Next]_(Deal!quoteVars)
        BY <2>1, EstimateDeals
    <2>2. ASSUME NEW q \in DOMAIN work, Make(q) PROVE [Deal!Next]_(Deal!quoteVars)
        <3>1. q \in Confirmations
            BY <2>2 DEF Make, Confirmations, IInv, WorkIsSound
        <3>2. QED
            BY <2>2, <3>1, JobDeals DEF Make
    <2>3. ASSUME NEW q \in atCore, CoreActs(q) PROVE [Deal!Next]_(Deal!quoteVars)
        <3>1. q \in Confirmations
            BY DEF Confirmations, IInv, WorkIsSound
        <3>2. QED
            BY <2>3, <3>1, JobDeals DEF CoreActs
    <2>4. CASE /\ \A q \in DOMAIN work : ~Estimate(q) /\ ~Make(q)
               /\ \A q \in atCore : ~CoreActs(q)
        <3>1. UNCHANGED <<row, jobs>> /\ DOMAIN receipts' = DOMAIN receipts
            BY <1>2, <2>4
            DEF Next, Edit, Confirm, ConfirmOther, Ask, Lost, Quoted, Unquoted, Accepted, Refused,
                Plan, Decline, Refuse, Reserve, Busy, Replay, CoreAnswers, CoreUnavailable, Dies,
                CoreIgnores, Turn, Claim, Settle, Expire, tables
        <3>2. \A r \in DOMAIN receipts : receipts'[r].input = receipts[r].input
            BY <1>2, ReceiptsStay DEF IInv
        <3>3. QED
            BY <3>1, <3>2, RestDeals
    <2>5. QED
        BY <2>1, <2>2, <2>3, <2>4
<1>3. QED
    BY <1>1, <1>2

\* Behind every sequence of edits, clicks, repeats, losses and restarts is the plain
\* deal of QuotedJobs.
THEOREM Refinement == Spec => ImplementsQuotedJobs
<1>1. Init => Deal!Init
    BY DealInit
<1>2. IInv /\ OneJobPerEstimate' /\ [Next]_vars => [Deal!Next]_(Deal!quoteVars)
    BY DealStep
<1>3. QED
    BY <1>1, <1>2, Inductive, OneJob, PTL DEF Spec, ImplementsQuotedJobs, Deal!Spec
=============================================================================
