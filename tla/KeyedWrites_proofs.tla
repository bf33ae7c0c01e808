------------------------- MODULE KeyedWrites_proofs -------------------------
(***************************************************************************)
(* Proofs about KeyedWrites, for every set of rows and values and any      *)
(* number of clicks.  The inductive invariant is IInv.                     *)
(***************************************************************************)
EXTENDS KeyedWrites, TLAPS

\* Whatever carries an intent and the key it was sent under.
Sent == calls \cup requests \cup effects
Marked(i, k) ==
    \/ \E x \in Sent : x.intent = i /\ x.key = k
    \/ k \in DOMAIN receipts /\ receipts[k].of = i

\* A careful action sends an intent under one key, and keeps it as long as the
\* intent is in doubt.
OneKeyPerIntent ==
    Careful =>
        /\ \A i, k, l \in 1..clicks : Marked(i, k) /\ Marked(i, l) => k = l
        /\ doubt.intent # 0 =>
            /\ entry.key # 0 /\ entry.value = doubt.value /\ entry.rev = doubt.rev
            /\ \A k \in 1..clicks : Marked(doubt.intent, k) => k = entry.key

\* The key that the page keeps is not in flight.
Idle == \A c \in calls : c.key # entry.key

\* An attentive action uses a key for one intent: a key that is kept and not in
\* flight is that of the intent in doubt.
OneIntentPerKey ==
    Attentive =>
        /\ \A i, j, k \in 1..clicks : Marked(i, k) /\ Marked(j, k) => i = j
        /\ entry.key # 0 /\ Idle =>
            /\ doubt.intent # 0 /\ doubt.value = entry.value /\ doubt.rev = entry.rev
            /\ \A i \in 1..clicks : Marked(i, entry.key) => i = doubt.intent

\* The key in flight is that of the last click, which is not in doubt.
LatestCall ==
    /\ \A c, d \in calls \cup requests : c.id = d.id => c = d
    /\ \A c \in calls : c.id = clicks =>
        /\ doubt.intent = 0
        /\ entry.key = c.key /\ entry.value = c.value /\ entry.rev = c.rev
    /\ \A c \in calls : c.key = entry.key => c.id = clicks

\* Under one key one thing is done, and the receipts of a native route say what.
OneEffectPerKey ==
    /\ \A e, f \in effects : e.key = f.key => e = f
    /\ row.route = "native" =>
        /\ working = {}
        /\ \A e \in effects : e.key \in DOMAIN receipts
        /\ \A k \in DOMAIN receipts :
            /\ receipts[k].state \in Outcomes
            /\ receipts[k].state = "refused" => \A e \in effects : e.key # k
            /\ receipts[k].state = "done" =>
                \E e \in effects : e.key = k /\ e.intent = receipts[k].of

\* An intent is that of one revision, and a write that moves the revision is the
\* only one that was checked with it.
OneRevisionPerIntent ==
    /\ ~Revised => rev = 0
    /\ \A x, y \in Sent : x.intent = y.intent => x.rev = y.rev
    /\ doubt.intent # 0 => \A x \in Sent : x.intent = doubt.intent => x.rev = doubt.rev
    /\ row.revision = "moved" =>
        \A e \in effects : e.rev < rev /\ \A f \in effects : e.rev = f.rev => e = f

IInv ==
    /\ TypeOK /\ OneKeyPerIntent /\ OneIntentPerKey /\ LatestCall
    /\ OneEffectPerKey /\ OneRevisionPerIntent /\ AnswersAreOwn

-----------------------------------------------------------------------------
(* Types.                                                                  *)

AnswerType ==
    [call : calls, end : {"done", "status"}, tells : Outcomes \cup {""}, of : 0..clicks]
ReceiptType ==
    [state : Outcomes \cup {"pending"}, owner : 1..clicks, of : 1..clicks, value : Values]
Receipts ==
    DOMAIN receipts \subseteq 1..clicks /\ \A k \in DOMAIN receipts : receipts[k] \in ReceiptType
EffectType == [intent : 1..clicks, key : 1..clicks, rev : 0..rev]
PageType ==
    /\ row \in Rows /\ proxied \in BOOLEAN
    /\ form \in Values /\ rev \in Nat /\ seen \in 0..rev
    /\ clicks \in 0..MaxClicks /\ elsewhere \in 0..MaxElsewhere
    /\ entry \in [key : 0..clicks, value : Values, rev : 0..rev]
    /\ doubt \in [intent : 0..clicks, value : Values, rev : 0..rev]
ServerType ==
    /\ calls \subseteq Call /\ requests \subseteq Call /\ working \subseteq requests
    /\ answers \subseteq AnswerType /\ Receipts /\ effects \subseteq EffectType

LEMMA TypeParts == TypeOK <=> PageType /\ ServerType
BY DEF TypeOK, PageType, ServerType, AnswerType, Receipts, ReceiptType, EffectType

LEMMA NoEntryType ==
    ASSUME form \in Values
    PROVE AnyValue \in Values
BY DEF AnyValue

LEMMA RowType ==
    ASSUME TypeOK
    PROVE /\ row \in Row
          /\ row.route \in {"native", "bridged"} /\ row.revision \in {"none", "checked", "moved"}
          /\ row.keeps \subseteq Outcomes /\ row.forgets \subseteq Ends
          /\ row.throws \subseteq {"status", "bare"}
          /\ row.leaves \in BOOLEAN /\ row.coarse \in BOOLEAN
          /\ row.route = "bridged" => row.revision = "none" /\ ~row.coarse
BY RowAssumption DEF TypeOK, Row

\* The types only grow.
LEMMA Grows ==
    ASSUME TypeOK, clicks' \in Nat, rev' \in Nat, clicks <= clicks', rev <= rev'
    PROVE /\ Call \subseteq Call' /\ EffectType \subseteq EffectType'
          /\ ReceiptType \subseteq ReceiptType'
          /\ 0..clicks \subseteq 0..clicks' /\ 1..clicks \subseteq 1..clicks'
          /\ 0..rev \subseteq 0..rev'
<1>1. clicks \in Nat /\ rev \in Nat
    BY TypeParts, BoundAssumption DEF PageType
<1>2. 0..clicks \subseteq 0..clicks' /\ 1..clicks \subseteq 1..clicks' /\ 0..rev \subseteq 0..rev'
    BY <1>1
<1>3. QED
    BY <1>2 DEF Call, EffectType, ReceiptType

LEMMA KeepType ==
    ASSUME NEW q, NEW state \in Outcomes \cup {"pending"}, NEW of \in 1..clicks,
           q.id \in 1..clicks, q.key \in 1..clicks, q.value \in Values,
           Receipts, Keep(q, state, of), clicks' = clicks
    PROVE Receipts'
<1>1. DOMAIN receipts' = DOMAIN receipts \cup {q.key}
    BY DEF Keep
<1>2. ASSUME NEW k \in DOMAIN receipts'
      PROVE receipts'[k] \in ReceiptType
    <2>1. CASE k = q.key
        BY <2>1, <1>1 DEF Keep, ReceiptType
    <2>2. CASE k # q.key
        BY <2>2, <1>1 DEF Keep, Receipts
    <2>3. QED
        BY <2>1, <2>2
<1>3. QED
    BY <1>1, <1>2 DEF Receipts, ReceiptType

LEMMA ReleaseType ==
    ASSUME NEW q, Receipts, Release(q), clicks' = clicks
    PROVE Receipts'
BY DEF Receipts, Release, ReceiptType

LEMMA SettleType ==
    ASSUME NEW q \in Call, NEW outcome, NEW of \in 0..clicks, TypeOK,
           outcome \in Outcomes => of \in 1..clicks,
           Settle(q, outcome, of), clicks' = clicks
    PROVE Receipts'
<1>1. q.id \in 1..clicks /\ q.key \in 1..clicks /\ q.value \in Values
    BY DEF Call
<1>2. Receipts
    BY TypeParts DEF ServerType
<1>3. CASE Keep(q, outcome, of) /\ outcome \in row.keeps
    <2>1. outcome \in Outcomes
        BY <1>3, RowType
    <2>2. QED
        BY <1>1, <1>2, <1>3, <2>1, KeepType
<1>4. CASE Release(q)
    BY <1>2, <1>4, ReleaseType
<1>5. CASE UNCHANGED receipts
    BY <1>2, <1>5 DEF Receipts, ReceiptType
<1>6. QED
    BY <1>3, <1>4, <1>5 DEF Settle

LEMMA AnswerTypes ==
    ASSUME NEW q, NEW end \in {"done", "status"}, NEW tells \in Outcomes \cup {""},
           NEW of \in 0..clicks, answers \subseteq AnswerType,
           Answer(q, end, tells, of), UNCHANGED <<calls, clicks>>
    PROVE answers' \subseteq AnswerType'
<1>1. AnswerType' = AnswerType
    BY DEF AnswerType
<1>2. CASE q \in calls
    BY <1>1, <1>2 DEF Answer, AnswerType
<1>3. CASE q \notin calls
    BY <1>1, <1>3 DEF Answer
<1>4. QED
    BY <1>2, <1>3

LEMMA DoesType ==
    ASSUME NEW q \in Call, TypeOK, Does(q), UNCHANGED <<clicks, elsewhere>>
    PROVE rev' \in Nat /\ rev <= rev' /\ effects' \subseteq EffectType'
<1>1. rev \in Nat /\ clicks \in Nat /\ effects \subseteq EffectType
    BY TypeParts, BoundAssumption DEF PageType, ServerType
<1>2. rev' \in Nat /\ rev <= rev'
    BY <1>1 DEF Does
<1>3. [intent |-> q.intent, key |-> q.key, rev |-> q.rev] \in EffectType
    BY DEF Call, EffectType
<1>4. EffectType \subseteq EffectType'
    BY <1>1, <1>2, Grows
<1>5. QED
    BY <1>1, <1>2, <1>3, <1>4 DEF Does

LEMMA CoreDoesType ==
    ASSUME NEW q \in Call, TypeOK, CoreDoes(q) \/ DoesNothing, UNCHANGED <<clicks, elsewhere>>
    PROVE rev' \in Nat /\ rev <= rev' /\ effects' \subseteq EffectType'
<1>1. rev \in Nat /\ effects \subseteq EffectType
    BY TypeParts DEF PageType, ServerType
<1>2. CASE Does(q)
    BY <1>2, DoesType
<1>3. CASE DoesNothing
    BY <1>1, <1>3 DEF DoesNothing, EffectType
<1>4. QED
    BY <1>2, <1>3 DEF CoreDoes

\* What the steps other than a click leave to show.
LEMMA Still ==
    ASSUME TypeOK, UNCHANGED <<row, proxied, clicks>>,
           calls' \subseteq calls, requests' \subseteq requests, working' \subseteq requests',
           rev' \in Nat, rev <= rev', form' \in Values, seen' \in 0..rev',
           elsewhere' \in 0..MaxElsewhere, entry' \in {entry, NoEntry},
           \/ doubt' \in {doubt, NoDoubt}
           \/ \E c \in calls :
                doubt' = [intent |-> c.intent, value |-> c.value, rev |-> c.rev],
           answers' \subseteq AnswerType', Receipts', effects' \subseteq EffectType'
    PROVE TypeOK'
<1>1. PageType /\ ServerType /\ clicks \in Nat
    BY TypeParts, BoundAssumption DEF PageType
<1>2. /\ Call \subseteq Call' /\ 0..clicks \subseteq 0..clicks' /\ 1..clicks \subseteq 1..clicks'
      /\ 0..rev \subseteq 0..rev'
    BY <1>1, Grows
<1>3. calls' \subseteq Call' /\ requests' \subseteq Call' /\ working' \subseteq requests'
    BY <1>1, <1>2 DEF ServerType
<1>4. NoEntry \in [key : 0..clicks', value : Values, rev : 0..rev']
      /\ NoDoubt \in [intent : 0..clicks', value : Values, rev : 0..rev']
    BY <1>1, NoEntryType DEF NoEntry, NoDoubt, PageType
<1>5. entry' \in [key : 0..clicks', value : Values, rev : 0..rev']
    BY <1>1, <1>2, <1>4 DEF PageType
<1>6. doubt' \in [intent : 0..clicks', value : Values, rev : 0..rev']
    <2>1. CASE doubt' \in {doubt, NoDoubt}
        BY <1>1, <1>2, <1>4, <2>1 DEF PageType
    <2>2. ASSUME NEW c \in calls,
                 doubt' = [intent |-> c.intent, value |-> c.value, rev |-> c.rev]
          PROVE doubt' \in [intent : 0..clicks', value : Values, rev : 0..rev']
        <3>1. c \in Call
            BY <1>1 DEF ServerType
        <3>2. c.intent \in 1..clicks /\ c.value \in Values /\ c.rev \in 0..rev
            BY <3>1 DEF Call
        <3>3. c.intent \in 0..clicks' /\ c.rev \in 0..rev'
            BY <1>1, <1>2, <3>2
        <3>4. QED
            BY <2>2, <3>2, <3>3
    <2>3. QED
        BY <2>1, <2>2
<1>7. PageType'
    BY <1>1, <1>5, <1>6 DEF PageType
<1>8. ServerType'
    BY <1>3 DEF ServerType
<1>9. QED
    BY <1>7, <1>8, TypeParts, PTL

LEMMA TypeInit == Init => TypeOK
<1> SUFFICES ASSUME Init PROVE TypeOK
    OBVIOUS
<1>1. AnyValue \in Values
    BY NoEntryType DEF Init
<1>2. 0 \in 0..0 /\ 0 \in 0..MaxClicks /\ 0 \in 0..MaxElsewhere
    BY BoundAssumption
<1>3. PageType
    BY <1>1, <1>2 DEF Init, PageType, NoEntry, NoDoubt
<1>4. ServerType
    BY DEF Init, ServerType, Receipts
<1>5. QED
    BY <1>3, <1>4, TypeParts

LEMMA TypeForgets ==
    ASSUME TypeOK, NEW c, NEW end, Forgets(c, end), clicks' = clicks
    PROVE answers' \subseteq AnswerType' /\ calls' \subseteq calls /\ entry' \in {entry, NoEntry}
<1>1. answers \subseteq AnswerType
    BY TypeParts DEF ServerType
<1>2. QED
    BY <1>1 DEF Forgets, AnswerType

LEMMA TypeClick == TypeOK /\ Click => TypeOK'
<1> SUFFICES ASSUME TypeOK, Click PROVE TypeOK'
    OBVIOUS
<1>1. PageType /\ ServerType /\ clicks \in Nat
    BY TypeParts, BoundAssumption DEF PageType
<1>2. clicks' = clicks + 1 /\ clicks' \in 1..MaxClicks /\ UNCHANGED rev
    BY <1>1, BoundAssumption DEF Click, PageType
<1>3. /\ Call \subseteq Call' /\ EffectType \subseteq EffectType' /\ ReceiptType \subseteq ReceiptType'
      /\ 0..clicks \subseteq 0..clicks' /\ 1..clicks \subseteq 1..clicks'
    BY <1>1, <1>2, Grows DEF PageType
<1>4. Key \in 1..clicks'
    BY <1>1, <1>2 DEF Key, SamePrint, PageType
<1>5. Intent \in 1..clicks'
    BY <1>1, <1>2 DEF Intent, PageType
<1> DEFINE c == [id |-> clicks + 1, intent |-> Intent, key |-> Key, value |-> form, rev |-> seen]
<1>6. c \in Call'
    BY <1>1, <1>2, <1>4, <1>5 DEF Call, PageType
<1>7. calls' = calls \cup {c} /\ requests' = requests \cup {c}
    BY DEF Click
<1>8. PageType'
    <2>1. entry' \in [key : 0..clicks', value : Values, rev : 0..rev']
        BY <1>1, <1>2, <1>4 DEF Click, PageType
    <2>2. NoDoubt \in [intent : 0..clicks', value : Values, rev : 0..rev']
        BY <1>1, <1>2, NoEntryType DEF NoDoubt, PageType
    <2>3. QED
        BY <1>1, <1>2, <2>1, <2>2 DEF Click, PageType
<1>9. calls' \subseteq Call' /\ requests' \subseteq Call' /\ working' \subseteq requests'
    BY <1>1, <1>3, <1>6, <1>7 DEF Click, ServerType
<1>10. answers' \subseteq AnswerType'
    BY <1>1, <1>3, <1>7 DEF Click, ServerType, AnswerType
<1>11. Receipts'
    BY <1>1, <1>3 DEF Click, ServerType, Receipts
<1>12. effects' \subseteq EffectType'
    BY <1>1, <1>3 DEF Click, ServerType
<1>13. ServerType'
    BY <1>9, <1>10, <1>11, <1>12 DEF ServerType
<1>14. QED
    BY <1>8, <1>13, TypeParts, PTL

LEMMA TypePage ==
    ASSUME TypeOK, \/ Edit \/ Refresh \/ Elsewhere
                   \/ \E c \in calls : Lost(c) \/ GatewayAnswers(c)
                   \/ \E a \in answers : Fails(a) \/ RefreshFails(a) \/ Succeeds(a) \/ Leaves(a)
    PROVE TypeOK'
<1>1. PageType /\ ServerType
    BY TypeParts
<1>2. UNCHANGED <<clicks, receipts>> => Receipts'
    BY <1>1 DEF ServerType, Receipts, ReceiptType
<1>3. UNCHANGED <<clicks, rev, effects>> => effects' \subseteq EffectType'
    BY <1>1 DEF ServerType, EffectType
<1>4. UNCHANGED <<clicks, calls, answers>> => answers' \subseteq AnswerType'
    BY <1>1 DEF ServerType, AnswerType
<1>5. CASE Edit
    BY <1>1, <1>2, <1>3, <1>4, <1>5, Still DEF Edit, server, PageType, ServerType
<1>6. CASE Refresh
    BY <1>1, <1>2, <1>3, <1>4, <1>6, Still DEF Refresh, server, PageType, ServerType
<1>7. CASE Elsewhere
    <2>1. rev' \in Nat /\ rev <= rev' /\ seen' \in 0..rev' /\ elsewhere' \in 0..MaxElsewhere
        BY <1>1, <1>7, BoundAssumption DEF Elsewhere, page, PageType
    <2>2. effects' \subseteq EffectType'
        BY <1>1, <1>7, <2>1, Grows DEF Elsewhere, page, PageType, ServerType
    <2>3. QED
        BY <1>1, <1>2, <1>4, <1>7, <2>1, <2>2, Still DEF Elsewhere, page, PageType, ServerType
<1>8. ASSUME NEW c \in calls, NEW end, NEW told, Ended(c, end, told)
      PROVE TypeOK'
    <2>1. answers' \subseteq AnswerType' /\ calls' \subseteq calls /\ entry' \in {entry, NoEntry}
        BY <1>8, TypeForgets DEF Ended
    <2>2. \/ doubt' = doubt
          \/ \E d \in calls :
                doubt' = [intent |-> d.intent, value |-> d.value, rev |-> d.rev]
        BY <1>8 DEF Ended
    <2>3. QED
        BY <1>1, <1>2, <1>3, <1>8, <2>1, <2>2, Still DEF Ended, server, PageType, ServerType
<1>9. ASSUME NEW a \in answers
      PROVE a.call \in calls
    BY <1>1 DEF ServerType, AnswerType
<1>10. ASSUME NEW a \in answers, Succeeds(a)
       PROVE TypeOK'
    <2>1. answers' \subseteq AnswerType' /\ calls' \subseteq calls /\ entry' \in {entry, NoEntry}
        BY <1>10, TypeForgets DEF Succeeds
    <2>2. QED
        BY <1>1, <1>2, <1>3, <1>10, <2>1, Still DEF Succeeds, server, PageType, ServerType
<1>11. ASSUME NEW a \in answers, Leaves(a)
       PROVE TypeOK'
    BY <1>1, <1>2, <1>3, <1>11, Still DEF Leaves, server, PageType, ServerType
<1>12. QED
    BY <1>5, <1>6, <1>7, <1>8, <1>9, <1>10, <1>11 DEF Lost, GatewayAnswers, Fails, RefreshFails

ServerStep(q) ==
    \/ Conflict(q) \/ Busy(q) \/ Replay(q) \/ Decline(q) \/ Write(q) \/ Refuse(q) \/ Reserve(q)
    \/ CoreAccepts(q) \/ CoreRefuses(q) \/ CoreUnavailable(q) \/ Dies(q) \/ Vanishes(q)

LEMMA TypeServer ==
    ASSUME TypeOK, NEW q \in requests, ServerStep(q)
    PROVE TypeOK'
<1>1. PageType /\ ServerType /\ q \in Call /\ clicks \in Nat
    BY TypeParts, BoundAssumption DEF PageType, ServerType
<1>2. q.id \in 1..clicks /\ q.intent \in 1..clicks /\ q.key \in 1..clicks /\ q.value \in Values
      /\ q.intent \in 0..clicks /\ 0 \in 0..clicks /\ 1..clicks \subseteq 0..clicks
    BY <1>1 DEF Call
<1>3. UNCHANGED <<row, proxied, page, elsewhere>>
    BY DEF ServerStep, Conflict, Busy, Replay, Decline, Write, Refuse, Reserve, CoreAccepts,
           CoreRefuses, CoreUnavailable, Dies, Vanishes, Over
<1>4. requests' \subseteq requests /\ working' \subseteq requests'
    <2>1. q \notin working /\ working' = working /\ requests' = requests \ {q}
          => requests' \subseteq requests /\ working' \subseteq requests'
        BY <1>1 DEF ServerType
    <2>2. CASE Conflict(q) \/ Busy(q) \/ Replay(q) \/ Decline(q) \/ Write(q) \/ Refuse(q) \/ Vanishes(q)
        BY <2>1, <2>2 DEF Conflict, Busy, Replay, Decline, Write, Refuse, Vanishes, Known, Unknown
    <2>3. CASE Reserve(q)
        BY <1>1, <2>3 DEF Reserve, ServerType
    <2>4. CASE CoreAccepts(q) \/ CoreRefuses(q) \/ CoreUnavailable(q) \/ Dies(q)
        BY <1>1, <2>4 DEF CoreAccepts, CoreRefuses, CoreUnavailable, Dies, Over, ServerType
    <2>5. QED
        BY <2>2, <2>3, <2>4 DEF ServerStep
<1>5. rev' \in Nat /\ rev <= rev' /\ effects' \subseteq EffectType'
    <2>1. UNCHANGED <<effects, rev>> => rev' \in Nat /\ rev <= rev' /\ effects' \subseteq EffectType'
        BY <1>1, <1>3 DEF page, PageType, ServerType, EffectType
    <2>2. Does(q) => rev' \in Nat /\ rev <= rev' /\ effects' \subseteq EffectType'
        BY <1>1, <1>3, DoesType DEF page
    <2>3. CoreDoes(q) => rev' \in Nat /\ rev <= rev' /\ effects' \subseteq EffectType'
        BY <1>1, <1>3, CoreDoesType DEF page
    <2>4. QED
        BY <2>1, <2>2, <2>3
        DEF ServerStep, Conflict, Busy, Replay, Decline, Write, Refuse, Reserve, CoreAccepts,
            CoreRefuses, CoreUnavailable, Dies, Vanishes, DoesNothing
<1>6. ASSUME CoreAccepts(q)
      PROVE \E of \in 1..clicks : Settle(q, "done", of) /\ Answer(q, "done", "done", of)
    <2>1. ASSUME DoneUnder(q.key) # {}
          PROVE (CHOOSE e \in DoneUnder(q.key) : TRUE).intent \in 1..clicks
        <3>1. (CHOOSE e \in DoneUnder(q.key) : TRUE) \in DoneUnder(q.key)
            BY <2>1
        <3>2. QED
            BY <1>1, <3>1 DEF DoneUnder, ServerType, EffectType
    <2>2. QED
        BY <1>2, <1>6, <2>1 DEF CoreAccepts
<1>7. Receipts'
    <2>1. UNCHANGED receipts => Receipts'
        BY <1>1, <1>3 DEF page, ServerType, Receipts, ReceiptType
    <2>2. ASSUME NEW state \in Outcomes \cup {"pending"}, Keep(q, state, q.intent)
          PROVE Receipts'
        BY <1>1, <1>2, <1>3, <2>2, KeepType DEF page, ServerType
    <2>3. ASSUME NEW outcome, NEW of \in 0..clicks, outcome \in Outcomes => of \in 1..clicks,
                 Settle(q, outcome, of)
          PROVE Receipts'
        BY <1>1, <1>3, <2>3, SettleType DEF page
    <2>4. CASE CoreAccepts(q)
        BY <1>2, <1>6, <2>3, <2>4
    <2>5. CASE Write(q) \/ Refuse(q) \/ Reserve(q)
        BY <2>2, <2>5 DEF Write, Refuse, Reserve, Outcomes
    <2>6. CASE CoreRefuses(q) \/ CoreUnavailable(q)
        <3>1. "" \notin Outcomes
            BY DEF Outcomes
        <3>2. QED
            BY <1>2, <2>3, <2>6, <3>1 DEF CoreRefuses, CoreUnavailable
    <2>7. CASE Conflict(q) \/ Busy(q) \/ Replay(q) \/ Decline(q) \/ Dies(q) \/ Vanishes(q)
        BY <2>1, <2>7 DEF Conflict, Busy, Replay, Decline, Dies, Vanishes
    <2>8. QED
        BY <2>4, <2>5, <2>6, <2>7 DEF ServerStep
<1>8. answers' \subseteq AnswerType'
    <2>1. UNCHANGED answers => answers' \subseteq AnswerType'
        BY <1>1, <1>3 DEF page, ServerType, AnswerType
    <2>2. ASSUME NEW end \in {"done", "status"}, NEW tells \in Outcomes \cup {""},
                 NEW of \in 0..clicks, Answer(q, end, tells, of)
          PROVE answers' \subseteq AnswerType'
        BY <1>1, <1>3, <2>2, AnswerTypes DEF page, ServerType
    <2>3. CASE CoreAccepts(q)
        BY <1>2, <1>6, <2>2, <2>3 DEF Outcomes
    <2>4. CASE Replay(q)
        <3>1. /\ receipts[q.key].state \in Outcomes /\ receipts[q.key].of \in 0..clicks
              /\ EndOf(receipts[q.key].state) \in {"done", "status"}
            BY <1>1, <1>2, <2>4 DEF Replay, Known, ServerType, Receipts, ReceiptType, EndOf
        <3>2. QED
            BY <2>2, <2>4, <3>1 DEF Replay
    <2>5. CASE Conflict(q) \/ Busy(q) \/ CoreUnavailable(q)
        BY <1>2, <2>2, <2>5 DEF Conflict, Busy, CoreUnavailable
    <2>6. CASE Decline(q) \/ Write(q) \/ Refuse(q) \/ CoreRefuses(q)
        BY <1>2, <2>2, <2>6 DEF Decline, Write, Refuse, CoreRefuses, Outcomes
    <2>7. CASE Reserve(q) \/ Dies(q) \/ Vanishes(q)
        BY <2>1, <2>7 DEF Reserve, Dies, Vanishes
    <2>8. QED
        BY <2>3, <2>4, <2>5, <2>6, <2>7 DEF ServerStep
<1>9. entry' = entry /\ doubt' = doubt /\ calls' = calls /\ form' = form /\ clicks' = clicks
      /\ seen' \in 0..rev' /\ elsewhere' \in 0..MaxElsewhere
    BY <1>1, <1>3, <1>5 DEF page, PageType
<1>10. QED
    BY <1>1, <1>3, <1>4, <1>5, <1>7, <1>8, <1>9, Still DEF PageType

LEMMA TypeStutter == TypeOK /\ UNCHANGED vars => TypeOK'
BY DEF TypeOK, vars, page, server, Call

LEMMA NextParts ==
    ASSUME Next
    PROVE \/ Click \/ Edit \/ Refresh \/ Elsewhere
          \/ \E c \in calls : Lost(c) \/ GatewayAnswers(c)
          \/ \E a \in answers : Fails(a) \/ RefreshFails(a) \/ Succeeds(a) \/ Leaves(a)
          \/ \E q \in requests : ServerStep(q)
BY DEF Next, ServerStep

LEMMA TypeNext == TypeOK /\ [Next]_vars => TypeOK'
BY NextParts, TypeClick, TypePage, TypeServer, TypeStutter

\* Every reachable state is well typed.
THEOREM TypeCorrect == Spec => []TypeOK
BY TypeInit, TypeNext, PTL DEF Spec

-----------------------------------------------------------------------------
(* The server's steps.                                                     *)

\* What they do to the receipts and to the effects.
LEMMA ServerFrame ==
    ASSUME TypeOK, NEW q \in requests, ServerStep(q)
    PROVE /\ UNCHANGED <<row, proxied, page, elsewhere>>
          /\ requests' \subseteq requests
          /\ UNCHANGED <<effects, rev>> \/ Does(q)
          /\ \/ UNCHANGED receipts
             \/ Release(q)
             \/ \E state : Keep(q, state, q.intent)
             \/ \E state : \E e \in effects : e.key = q.key /\ Keep(q, state, e.intent)
<1>1. UNCHANGED <<row, proxied, page, elsewhere>> /\ requests' \subseteq requests
    BY DEF ServerStep, Conflict, Busy, Replay, Decline, Write, Refuse, Reserve, CoreAccepts,
           CoreRefuses, CoreUnavailable, Dies, Vanishes, Over
<1>2. UNCHANGED <<effects, rev>> \/ Does(q)
    BY DEF ServerStep, Conflict, Busy, Replay, Decline, Write, Refuse, Reserve, CoreAccepts,
           CoreRefuses, CoreUnavailable, Dies, Vanishes, CoreDoes, DoesNothing
<1> DEFINE Parts == \/ UNCHANGED receipts
                    \/ Release(q)
                    \/ \E state : Keep(q, state, q.intent)
                    \/ \E state : \E e \in effects : e.key = q.key /\ Keep(q, state, e.intent)
<1>3. Parts
    <2>1. CASE CoreAccepts(q)
        <3>1. CASE DoneUnder(q.key) = {}
            BY <2>1, <3>1 DEF CoreAccepts, Settle
        <3>2. CASE DoneUnder(q.key) # {}
            <4> DEFINE e == CHOOSE e \in DoneUnder(q.key) : TRUE
            <4>1. e \in effects /\ e.key = q.key
                BY <3>2 DEF DoneUnder
            <4>2. Settle(q, "done", e.intent)
                BY <2>1, <3>2 DEF CoreAccepts
            <4>3. Keep(q, "done", e.intent) \/ Release(q) \/ UNCHANGED receipts
                BY <4>2 DEF Settle
            <4> HIDE DEF e
            <4>4. QED
                BY <4>1, <4>3
        <3>3. QED
            BY <3>1, <3>2
    <2>2. CASE CoreRefuses(q)
        BY <2>2 DEF CoreRefuses, Settle
    <2>3. CASE CoreUnavailable(q)
        <3>1. "" \notin row.keeps
            BY RowType DEF Outcomes
        <3>2. QED
            BY <2>3, <3>1 DEF CoreUnavailable, Settle
    <2>4. CASE Write(q) \/ Refuse(q) \/ Reserve(q)
        BY <2>4 DEF Write, Refuse, Reserve
    <2>5. CASE Conflict(q) \/ Busy(q) \/ Replay(q) \/ Decline(q) \/ Dies(q) \/ Vanishes(q)
        BY <2>5 DEF Conflict, Busy, Replay, Decline, Dies, Vanishes
    <2>6. QED
        BY <2>1, <2>2, <2>3, <2>4, <2>5 DEF ServerStep
<1>4. QED
    BY <1>1, <1>2, <1>3

\* An effect and a receipt carry what the request carried.
LEMMA ServerMarks ==
    ASSUME TypeOK, NEW q \in requests, ServerStep(q)
    PROVE /\ \A x \in Sent' : \E y \in Sent :
                y.intent = x.intent /\ y.key = x.key /\ y.rev = x.rev
          /\ \A i, k : Marked(i, k)' => Marked(i, k)
<1>1. q \in Sent /\ effects \subseteq Sent
    BY DEF Sent
<1>2. calls' = calls
    BY ServerFrame DEF page
<1>3. \A x \in Sent' : \E y \in Sent : y.intent = x.intent /\ y.key = x.key /\ y.rev = x.rev
    <2>1. TAKE x \in Sent'
    <2>2. CASE x \in Sent
        BY <2>2
    <2>3. CASE x \notin Sent
        <3>1. x \in effects' \ effects
            BY <1>2, <2>3, ServerFrame DEF Sent
        <3>2. x = [intent |-> q.intent, key |-> q.key, rev |-> q.rev]
            BY <3>1, ServerFrame DEF Does
        <3>3. QED
            BY <1>1, <3>2
    <2>4. QED
        BY <2>2, <2>3
<1>4. ASSUME NEW i, NEW k, k \in DOMAIN receipts', receipts'[k].of = i
      PROVE Marked(i, k)
    <2>1. CASE UNCHANGED receipts
        BY <1>4, <2>1 DEF Marked
    <2>2. CASE Release(q)
        BY <1>4, <2>2 DEF Marked, Release
    <2>3. ASSUME NEW state, NEW y \in Sent, y.key = q.key, Keep(q, state, y.intent)
          PROVE Marked(i, k)
        <3>1. CASE k = q.key
            BY <1>4, <2>3, <3>1 DEF Marked, Keep
        <3>2. CASE k # q.key
            BY <1>4, <2>3, <3>2 DEF Marked, Keep
        <3>3. QED
            BY <3>1, <3>2
    <2>4. QED
        BY <1>1, <2>1, <2>2, <2>3, ServerFrame
<1>5. ASSUME NEW i, NEW k, Marked(i, k)'
      PROVE Marked(i, k)
    <2>1. CASE \E x \in Sent' : x.intent = i /\ x.key = k
        BY <1>3, <2>1 DEF Marked
    <2>2. CASE k \in DOMAIN receipts' /\ receipts'[k].of = i
        BY <1>4, <2>2
    <2>3. QED
        BY <1>5, <2>1, <2>2 DEF Marked
<1>6. QED
    BY <1>3, <1>5

LEMMA ServerKeys ==
    ASSUME IInv, NEW q \in requests, ServerStep(q)
    PROVE OneKeyPerIntent' /\ OneIntentPerKey' /\ LatestCall'
<1>1. TypeOK
    BY DEF IInv
<1>2. /\ form' = form /\ seen' = seen /\ entry' = entry /\ clicks' = clicks /\ calls' = calls
      /\ doubt' = doubt /\ row' = row /\ proxied' = proxied /\ requests' \subseteq requests
    BY <1>1, ServerFrame DEF page
<1>3. \A i, k : Marked(i, k)' => Marked(i, k)
    BY <1>1, ServerMarks
<1>4. OneKeyPerIntent'
    <2>1. Careful' = Careful
        BY <1>2 DEF Careful, Unsure
    <2>2. ASSUME Careful, NEW i \in 1..clicks, NEW k \in 1..clicks, NEW l \in 1..clicks,
                 Marked(i, k)', Marked(i, l)'
          PROVE k = l
        BY <1>3, <2>2 DEF IInv, OneKeyPerIntent
    <2>3. ASSUME Careful, doubt.intent # 0
          PROVE /\ entry.key # 0 /\ entry.value = doubt.value /\ entry.rev = doubt.rev
                /\ \A k \in 1..clicks : Marked(doubt.intent, k)' => k = entry.key
        <3>1. \A k \in 1..clicks : Marked(doubt.intent, k)' => Marked(doubt.intent, k)
            BY <1>2, <1>3 DEF Marked
        <3>2. QED
            BY <2>3, <3>1 DEF IInv, OneKeyPerIntent
    <2>4. QED
        BY <1>2, <2>1, <2>2, <2>3 DEF OneKeyPerIntent
<1>5. OneIntentPerKey'
    <2>1. Attentive' = Attentive /\ Idle' = Idle
        BY <1>2 DEF Attentive, Idle
    <2>2. ASSUME Attentive, NEW i \in 1..clicks, NEW j \in 1..clicks, NEW k \in 1..clicks,
                 Marked(i, k)', Marked(j, k)'
          PROVE i = j
        BY <1>3, <2>2 DEF IInv, OneIntentPerKey
    <2>3. ASSUME Attentive, entry.key # 0, Idle
          PROVE /\ doubt.intent # 0 /\ doubt.value = entry.value /\ doubt.rev = entry.rev
                /\ \A i \in 1..clicks : Marked(i, entry.key)' => i = doubt.intent
        <3>1. \A i \in 1..clicks : Marked(i, entry.key)' => Marked(i, entry.key)
            BY <1>2, <1>3 DEF Marked
        <3>2. QED
            BY <2>3, <3>1 DEF IInv, OneIntentPerKey
    <2>4. QED
        BY <1>2, <2>1, <2>2, <2>3 DEF OneIntentPerKey
<1>6. LatestCall'
    BY <1>2 DEF IInv, LatestCall
<1>7. QED
    BY <1>4, <1>5, <1>6

NativeStep(q) ==
    Conflict(q) \/ Busy(q) \/ Replay(q) \/ Decline(q) \/ Write(q) \/ Refuse(q) \/ Vanishes(q)

LEMMA NativeParts ==
    ASSUME IInv, row.route = "native", NEW q \in requests, ServerStep(q)
    PROVE NativeStep(q)
BY DEF IInv, OneEffectPerKey, NativeStep, ServerStep, Reserve, CoreAccepts, CoreRefuses,
       CoreUnavailable, Dies

\* Nothing is done twice under one key.
LEMMA Fresh ==
    ASSUME IInv, NEW q \in requests, ServerStep(q)
    PROVE \/ UNCHANGED <<effects, rev>>
          \/ /\ Does(q) /\ \A e \in effects : e.key # q.key
             /\ row.route = "native" => Write(q)
<1>1. CASE row.route = "native"
    <2>1. CASE Write(q)
        BY <1>1, <2>1 DEF IInv, OneEffectPerKey, Write, Unknown
    <2>2. QED
        BY <1>1, <2>1, NativeParts DEF NativeStep, Conflict, Busy, Replay, Decline, Refuse, Vanishes
<1>2. CASE row.route # "native"
    BY <1>2 DEF ServerStep, Conflict, Busy, Replay, Decline, Write, Refuse, Reserve, CoreAccepts,
                CoreRefuses, CoreUnavailable, Dies, Vanishes, CoreDoes, DoneUnder, DoesNothing
<1>3. QED
    BY <1>1, <1>2

LEMMA ServerEffects ==
    ASSUME IInv, NEW q \in requests, ServerStep(q)
    PROVE OneEffectPerKey'
<1>1. TypeOK /\ q.key \notin {} /\ row' = row
    BY ServerFrame DEF IInv
<1>2. \A e, f \in effects' : e.key = f.key => e = f
    BY Fresh DEF IInv, OneEffectPerKey, Does
<1>3. ASSUME row.route = "native"
      PROVE /\ working' = {}
            /\ \A e \in effects' : e.key \in DOMAIN receipts'
            /\ \A k \in DOMAIN receipts' :
                /\ receipts'[k].state \in Outcomes
                /\ receipts'[k].state = "refused" => \A e \in effects' : e.key # k
                /\ receipts'[k].state = "done" =>
                    \E e \in effects' : e.key = k /\ e.intent = receipts'[k].of
    <2>1. NativeStep(q)
        BY <1>3, NativeParts
    <2>2. CASE UNCHANGED <<working, receipts, effects>>
        BY <1>3, <2>2 DEF IInv, OneEffectPerKey
    <2>3. ASSUME Write(q) \/ Refuse(q)
          PROVE /\ working' = {} /\ q.key \notin DOMAIN receipts
                /\ \A e \in effects : e.key \in DOMAIN receipts
                /\ DOMAIN receipts' = DOMAIN receipts \cup {q.key}
                /\ \A k \in DOMAIN receipts : receipts'[k] = receipts[k]
        BY <1>3, <2>3 DEF IInv, OneEffectPerKey, Write, Refuse, Unknown, Keep
    <2>4. CASE Write(q)
        <3>1. /\ receipts'[q.key].state = "done" /\ receipts'[q.key].of = q.intent
              /\ effects' = effects \cup {[intent |-> q.intent, key |-> q.key, rev |-> q.rev]}
            BY <2>4 DEF Write, Keep, Does
        <3>2. \A e \in effects' : e.key \in DOMAIN receipts'
            BY <2>3, <2>4, <3>1
        <3>3. ASSUME NEW k \in DOMAIN receipts'
              PROVE /\ receipts'[k].state \in Outcomes
                    /\ receipts'[k].state = "refused" => \A e \in effects' : e.key # k
                    /\ receipts'[k].state = "done" =>
                        \E e \in effects' : e.key = k /\ e.intent = receipts'[k].of
            <4>1. CASE k = q.key
                <5> DEFINE e == [intent |-> q.intent, key |-> q.key, rev |-> q.rev]
                <5>1. e \in effects' /\ e.key = q.key /\ e.intent = q.intent
                    BY <3>1
                <5> HIDE DEF e
                <5>2. QED
                    BY <3>1, <4>1, <5>1 DEF Outcomes
            <4>2. CASE k # q.key
                BY <1>3, <2>3, <2>4, <3>1, <4>2 DEF IInv, OneEffectPerKey
            <4>3. QED
                BY <4>1, <4>2
        <3>4. QED
            BY <2>3, <2>4, <3>2, <3>3
    <2>5. CASE Refuse(q)
        <3>1. receipts'[q.key].state = "refused" /\ effects' = effects
            BY <2>5 DEF Refuse, Keep
        <3>2. ASSUME NEW k \in DOMAIN receipts'
              PROVE /\ receipts'[k].state \in Outcomes
                    /\ receipts'[k].state = "refused" => \A e \in effects' : e.key # k
                    /\ receipts'[k].state = "done" =>
                        \E e \in effects' : e.key = k /\ e.intent = receipts'[k].of
            <4>1. CASE k = q.key
                BY <2>3, <2>5, <3>1, <4>1 DEF Outcomes
            <4>2. CASE k # q.key
                BY <1>3, <2>3, <2>5, <3>1, <4>2 DEF IInv, OneEffectPerKey
            <4>3. QED
                BY <4>1, <4>2
        <3>3. QED
            BY <2>3, <2>5, <3>1, <3>2
    <2>6. QED
        BY <2>1, <2>2, <2>4, <2>5 DEF NativeStep, Conflict, Busy, Replay, Decline, Vanishes
<1>4. QED
    BY <1>1, <1>2, <1>3 DEF OneEffectPerKey

LEMMA ServerRevisions ==
    ASSUME IInv, NEW q \in requests, ServerStep(q)
    PROVE OneRevisionPerIntent'
<1>1. TypeOK /\ q \in Call /\ rev \in Nat /\ q.rev \in Nat
    <2>1. TypeOK /\ q \in Call /\ rev \in Nat
        BY TypeParts DEF IInv, PageType, ServerType
    <2>2. q.rev \in 0..rev
        BY <2>1 DEF Call
    <2>3. QED
        BY <2>1, <2>2
<1>2. row' = row /\ doubt' = doubt
    BY <1>1, ServerFrame DEF page
<1>3. \A x \in Sent' : \E y \in Sent : y.intent = x.intent /\ y.key = x.key /\ y.rev = x.rev
    BY <1>1, ServerMarks
<1>4. ~Revised => rev' = 0
    BY Fresh DEF IInv, OneRevisionPerIntent, Does, Revised
<1>5. \A x, y \in Sent' : x.intent = y.intent => x.rev = y.rev
    BY <1>3 DEF IInv, OneRevisionPerIntent
<1>6. doubt.intent # 0 => \A x \in Sent' : x.intent = doubt.intent => x.rev = doubt.rev
    BY <1>3 DEF IInv, OneRevisionPerIntent
<1>7. ASSUME row.revision = "moved"
      PROVE \A e \in effects' : e.rev < rev' /\ \A f \in effects' : e.rev = f.rev => e = f
    <2>1. row.route = "native"
        BY <1>1, <1>7, RowType
    <2>2. \A e \in effects : e.rev \in 0..rev
        BY <1>1, TypeParts DEF ServerType, EffectType
    <2>3. CASE UNCHANGED <<effects, rev>>
        BY <1>7, <2>3 DEF IInv, OneRevisionPerIntent
    <2>4. CASE Write(q)
        <3>1. q.rev = rev /\ rev' = rev + 1
            BY <1>7, <2>4 DEF Write, Does, Revised
        <3>2. effects' = effects \cup {[intent |-> q.intent, key |-> q.key, rev |-> q.rev]}
            BY <2>4 DEF Write, Does
        <3>3. \A e \in effects : e.rev < rev /\ \A f \in effects : e.rev = f.rev => e = f
            BY <1>7 DEF IInv, OneRevisionPerIntent
        <3>4. QED
            BY <1>1, <2>2, <3>1, <3>2, <3>3
    <2>5. QED
        BY <2>1, <2>3, <2>4, Fresh
<1>8. Revised' = Revised
    BY <1>2 DEF Revised
<1>9. QED
    BY <1>2, <1>4, <1>5, <1>6, <1>7, <1>8 DEF OneRevisionPerIntent

LEMMA ServerAnswers ==
    ASSUME IInv, NEW q \in requests, ServerStep(q)
    PROVE AnswersAreOwn'
<1>1. TypeOK /\ q \in Call /\ q \in Sent
    BY DEF IInv, TypeOK, Sent
<1>2. row' = row
    BY <1>1, ServerFrame
<1>3. SUFFICES ASSUME Attentive, NEW a \in answers' \ answers, a.tells # ""
               PROVE a.of = a.call.intent
    BY <1>2 DEF IInv, AnswersAreOwn, Attentive
<1>4. q.intent \in 1..clicks /\ q.key \in 1..clicks /\ Marked(q.intent, q.key)
    BY <1>1 DEF Call, Marked
<1>5. ASSUME NEW end, NEW tells, NEW of, Answer(q, end, tells, of)
      PROVE a.call = q /\ a.of = of /\ a.tells = tells
    <2>1. a = [call |-> q, end |-> end, tells |-> tells, of |-> of]
        BY <1>3, <1>5 DEF Answer
    <2>2. QED
        BY <2>1
<1>6. CASE Replay(q)
    <2>1. q.key \in DOMAIN receipts /\ a.call = q /\ a.of = receipts[q.key].of
        BY <1>5, <1>6 DEF Replay, Known
    <2>2. receipts[q.key].of \in 1..clicks /\ Marked(receipts[q.key].of, q.key)
        BY <1>1, <2>1 DEF TypeOK, Marked
    <2>3. QED
        BY <1>3, <1>4, <2>1, <2>2 DEF IInv, OneIntentPerKey
<1>7. CASE CoreAccepts(q)
    <2>1. CASE DoneUnder(q.key) = {}
        BY <1>5, <1>7, <2>1 DEF CoreAccepts
    <2>2. CASE DoneUnder(q.key) # {}
        <3> DEFINE e == CHOOSE e \in DoneUnder(q.key) : TRUE
        <3>1. e \in effects /\ e.key = q.key
            BY <2>2 DEF DoneUnder
        <3>2. a.call = q /\ a.of = e.intent
            BY <1>5, <1>7, <2>2 DEF CoreAccepts
        <3> HIDE DEF e
        <3>3. e.intent \in 1..clicks /\ Marked(e.intent, q.key)
            BY <1>1, <3>1 DEF TypeOK, Marked, Sent
        <3>4. QED
            BY <1>3, <1>4, <3>2, <3>3 DEF IInv, OneIntentPerKey
    <2>3. QED
        BY <2>1, <2>2
<1>8. CASE Conflict(q) \/ Busy(q) \/ CoreUnavailable(q)
    BY <1>3, <1>5, <1>8 DEF Conflict, Busy, CoreUnavailable
<1>9. CASE Decline(q) \/ Write(q) \/ Refuse(q) \/ CoreRefuses(q)
    BY <1>5, <1>9 DEF Decline, Write, Refuse, CoreRefuses
<1>10. CASE Reserve(q) \/ Dies(q) \/ Vanishes(q)
    BY <1>3, <1>10 DEF Reserve, Dies, Vanishes
<1>11. QED
    BY <1>6, <1>7, <1>8, <1>9, <1>10 DEF ServerStep

LEMMA ServerKeepsIInv ==
    ASSUME IInv, NEW q \in requests, ServerStep(q)
    PROVE IInv'
BY TypeServer, ServerKeys, ServerEffects, ServerRevisions, ServerAnswers DEF IInv

-----------------------------------------------------------------------------
(* The page's steps.                                                       *)

LEMMA CallParts ==
    ASSUME TypeOK, NEW c \in calls
    PROVE c.id \in 1..clicks /\ c.intent \in 1..clicks /\ c.key \in 1..clicks /\ clicks \in Nat
BY TypeParts, BoundAssumption DEF PageType, ServerType, Call

LEMMA MarkedType ==
    ASSUME TypeOK, NEW i, NEW k, Marked(i, k)
    PROVE i \in 1..clicks /\ k \in 1..clicks
<1>1. ServerType
    BY TypeParts
<1>2. \A x \in Sent : x.intent \in 1..clicks /\ x.key \in 1..clicks
    BY <1>1 DEF Sent, ServerType, Call, EffectType
<1>3. \A l \in DOMAIN receipts : l \in 1..clicks /\ receipts[l].of \in 1..clicks
    BY <1>1 DEF ServerType, Receipts, ReceiptType
<1>4. QED
    BY <1>2, <1>3 DEF Marked

\* A step that takes nothing to the server leaves these.
LEMMA Quiet ==
    ASSUME IInv, calls' \subseteq calls, answers' \subseteq answers, rev' \in Nat, rev <= rev',
           Revised \/ rev' = rev,
           UNCHANGED <<row, proxied, clicks, requests, working, receipts, effects>>,
           \/ doubt' \in {doubt, NoDoubt}
           \/ \E c \in calls :
                doubt' = [intent |-> c.intent, value |-> c.value, rev |-> c.rev]
    PROVE /\ OneEffectPerKey' /\ OneRevisionPerIntent' /\ AnswersAreOwn'
          /\ \A i, k : Marked(i, k)' => Marked(i, k)
<1>1. Sent' \subseteq Sent /\ calls \subseteq Sent
    BY DEF Sent
<1>2. \A i, k : Marked(i, k)' => Marked(i, k)
    BY <1>1 DEF Marked
<1>3. OneEffectPerKey'
    BY DEF IInv, OneEffectPerKey
<1>4. AnswersAreOwn'
    BY DEF IInv, AnswersAreOwn, Attentive
<1>5. OneRevisionPerIntent'
    <2>1. Revised' = Revised /\ (~Revised => rev' = 0)
        BY DEF IInv, OneRevisionPerIntent, Revised
    <2>2. \A x, y \in Sent' : x.intent = y.intent => x.rev = y.rev
        BY <1>1 DEF IInv, OneRevisionPerIntent
    <2>3. doubt'.intent # 0 => \A x \in Sent' : x.intent = doubt'.intent => x.rev = doubt'.rev
        <3>1. CASE doubt' = doubt
            BY <1>1, <3>1 DEF IInv, OneRevisionPerIntent
        <3>2. CASE doubt' = NoDoubt
            BY <3>2 DEF NoDoubt
        <3>3. ASSUME NEW c \in calls,
                     doubt' = [intent |-> c.intent, value |-> c.value, rev |-> c.rev]
              PROVE \A x \in Sent' : x.intent = doubt'.intent => x.rev = doubt'.rev
            BY <1>1, <3>3 DEF IInv, OneRevisionPerIntent
        <3>4. QED
            BY <3>1, <3>2, <3>3
    <2>4. ASSUME row.revision = "moved"
          PROVE \A e \in effects : e.rev < rev' /\ \A f \in effects : e.rev = f.rev => e = f
        <3>1. rev \in Nat /\ \A e \in effects : e.rev \in 0..rev
            BY TypeParts DEF IInv, PageType, ServerType, EffectType
        <3>2. QED
            BY <2>4, <3>1 DEF IInv, OneRevisionPerIntent
    <2>5. QED
        BY <2>1, <2>2, <2>3, <2>4 DEF OneRevisionPerIntent
<1>6. QED
    BY <1>2, <1>3, <1>4, <1>5

\* A call ends.  Either the end told the page what became of it, and an action
\* that looks at the outcome forgets the key, or the click is in doubt, and an
\* action that is careful does not.
LEMMA ForgetsKeeps ==
    ASSUME IInv, NEW c \in calls, NEW end, Forgets(c, end),
           UNCHANGED <<row, proxied, clicks, server>>,
           \/ doubt' = doubt /\ (c.id = clicks /\ Attentive => end \in row.forgets)
           \/ /\ c.id = clicks /\ (Careful => end \notin row.forgets)
              /\ doubt' = [intent |-> c.intent, value |-> c.value, rev |-> c.rev]
    PROVE /\ OneKeyPerIntent' /\ OneIntentPerKey' /\ LatestCall'
          /\ OneEffectPerKey' /\ OneRevisionPerIntent' /\ AnswersAreOwn'
<1>1. TypeOK /\ c.intent \in 1..clicks /\ c.key \in 1..clicks /\ clicks \in Nat /\ rev \in Nat
    BY CallParts, TypeParts DEF IInv, PageType
<1>2. calls' = calls \ {c} /\ answers' \subseteq answers /\ entry' \in {entry, NoEntry}
      /\ UNCHANGED <<requests, working, receipts, effects, rev>>
    BY DEF Forgets, server
<1>3. /\ OneEffectPerKey' /\ OneRevisionPerIntent' /\ AnswersAreOwn'
      /\ \A i, k : Marked(i, k)' => Marked(i, k)
    BY <1>1, <1>2, Quiet
<1>4. entry' # entry => end \in row.forgets /\ c.key = entry.key /\ c.id = clicks
    BY DEF Forgets, IInv, LatestCall
<1>5. entry'.key # 0 => entry' = entry
    BY <1>2 DEF NoEntry
<1>6. \A d \in calls' : d.id # c.id /\ d.key # 0 /\ d \in calls
    BY <1>1, <1>2, CallParts DEF IInv, LatestCall
<1>7. LatestCall'
    <2>1. \A d, e \in calls' \cup requests' : d.id = e.id => d = e
        BY <1>2 DEF IInv, LatestCall
    <2>2. ASSUME NEW d \in calls', d.id = clicks
          PROVE /\ doubt'.intent = 0
                /\ entry'.key = d.key /\ entry'.value = d.value /\ entry'.rev = d.rev
        BY <1>4, <1>6, <2>2 DEF IInv, LatestCall
    <2>3. \A d \in calls' : d.key = entry'.key => d.id = clicks
        BY <1>5, <1>6 DEF IInv, LatestCall
    <2>4. QED
        BY <2>1, <2>2, <2>3 DEF LatestCall
<1>8. Marked(c.intent, c.key) /\ (c.id = clicks => /\ doubt.intent = 0 /\ entry.key = c.key
                                                /\ entry.value = c.value /\ entry.rev = c.rev)
    BY DEF Marked, Sent, IInv, LatestCall
<1>9. OneKeyPerIntent'
    <2>1. Careful' = Careful
        BY DEF Careful, Unsure
    <2>2. ASSUME Careful, NEW i \in 1..clicks, NEW k \in 1..clicks, NEW l \in 1..clicks,
                 Marked(i, k)', Marked(i, l)'
          PROVE k = l
        BY <1>3, <2>2 DEF IInv, OneKeyPerIntent
    <2>3. ASSUME Careful, doubt'.intent # 0
          PROVE /\ entry'.key # 0 /\ entry'.value = doubt'.value /\ entry'.rev = doubt'.rev
                /\ \A k \in 1..clicks : Marked(doubt'.intent, k) => k = entry'.key
        <3>1. entry' = entry
            BY <1>4, <1>8, <2>3
        <3>2. CASE doubt' = doubt
            BY <2>3, <3>1, <3>2 DEF IInv, OneKeyPerIntent
        <3>3. CASE c.id = clicks /\ doubt' = [intent |-> c.intent, value |-> c.value, rev |-> c.rev]
            BY <1>1, <1>8, <2>3, <3>1, <3>3 DEF IInv, OneKeyPerIntent
        <3>4. QED
            BY <3>2, <3>3
    <2>4. \A k : Marked(doubt.intent, k)' => Marked(doubt'.intent, k)
        BY <1>3 DEF Marked
    <2>5. QED
        BY <2>1, <2>2, <2>3, <2>4 DEF OneKeyPerIntent
<1>10. OneIntentPerKey'
    <2>1. Attentive' = Attentive
        BY DEF Attentive
    <2>2. ASSUME Attentive, NEW i \in 1..clicks, NEW j \in 1..clicks, NEW k \in 1..clicks,
                 Marked(i, k)', Marked(j, k)'
          PROVE i = j
        BY <1>3, <2>2 DEF IInv, OneIntentPerKey
    <2>3. ASSUME Attentive, entry'.key # 0, Idle'
          PROVE /\ doubt'.intent # 0 /\ doubt'.value = entry'.value /\ doubt'.rev = entry'.rev
                /\ \A i \in 1..clicks : Marked(i, entry'.key) => i = doubt'.intent
        <3>1. entry' = entry
            BY <1>5, <2>3
        <3>2. CASE c.key # entry.key
            <4>1. Idle
                BY <1>2, <2>3, <3>1, <3>2 DEF Idle
            <4>2. doubt' = doubt
                BY <1>8, <3>2
            <4>3. QED
                BY <2>3, <3>1, <4>1, <4>2 DEF IInv, OneIntentPerKey
        <3>3. CASE c.key = entry.key
            <4>1. c.id = clicks /\ end \notin row.forgets
                BY <1>1, <2>3, <3>1, <3>3 DEF IInv, LatestCall, Forgets, NoEntry
            <4>2. doubt' = [intent |-> c.intent, value |-> c.value, rev |-> c.rev]
                BY <2>3, <4>1
            <4>3. QED
                BY <1>1, <1>8, <2>3, <3>1, <3>3, <4>1, <4>2 DEF IInv, OneIntentPerKey
        <3>4. QED
            BY <3>2, <3>3
    <2>4. \A i : Marked(i, entry.key)' => Marked(i, entry'.key)
        BY <1>3 DEF Marked
    <2>5. QED
        BY <2>1, <2>2, <2>3, <2>4 DEF OneIntentPerKey
<1>11. QED
    BY <1>3, <1>7, <1>9, <1>10

LEMMA EndedKeeps ==
    ASSUME IInv, NEW c \in calls, NEW end, NEW told \in BOOLEAN, Ended(c, end, told),
           ~told => end \in Unsure, told => end = "status"
    PROVE IInv'
<1>1. TypeOK /\ TypeOK'
    <2>1. TypeOK
        BY DEF IInv
    <2>2. /\ answers' \subseteq AnswerType' /\ calls' \subseteq calls /\ entry' \in {entry, NoEntry}
          /\ PageType /\ ServerType
        BY <2>1, TypeForgets, TypeParts DEF Ended
    <2>3. Receipts' /\ effects' \subseteq EffectType'
        BY <2>2 DEF Ended, server, ServerType, Receipts, ReceiptType, EffectType
    <2>4. QED
        BY <2>1, <2>2, <2>3, Still DEF Ended, server, PageType, ServerType
<1>2. Forgets(c, end) /\ UNCHANGED <<row, proxied, clicks, server>>
    BY DEF Ended
<1>3. CASE ~told /\ c.id = clicks
    BY <1>1, <1>2, <1>3, ForgetsKeeps DEF Ended, Careful, IInv
<1>4. CASE told \/ c.id # clicks
    BY <1>1, <1>2, <1>4, ForgetsKeeps DEF Ended, Attentive, IInv
<1>5. QED
    BY <1>3, <1>4

LEMMA PageKeepsIInv ==
    ASSUME IInv, \/ Edit \/ Refresh \/ Elsewhere
                 \/ \E c \in calls : Lost(c) \/ GatewayAnswers(c)
                 \/ \E a \in answers :
                        Fails(a) \/ RefreshFails(a) \/ Succeeds(a) \/ Leaves(a)
    PROVE IInv'
<1>1. TypeOK /\ TypeOK' /\ rev \in Nat /\ rev' \in Nat
    BY TypePage DEF IInv, TypeOK
<1>2. \A a \in answers : a.call \in calls
    BY <1>1 DEF TypeOK
<1>3. CASE Edit \/ Refresh \/ Elsewhere
    <2>1. /\ UNCHANGED <<row, proxied, entry, clicks, calls, doubt, answers,
                          requests, working, receipts, effects>>
          /\ rev' = rev \/ (Revised /\ rev' = rev + 1)
        BY <1>3 DEF Edit, Refresh, Elsewhere, page, server
    <2>2. OneEffectPerKey' /\ OneRevisionPerIntent' /\ AnswersAreOwn'
        BY <1>1, <2>1, Quiet
    <2>3. OneKeyPerIntent'
        BY <2>1 DEF IInv, OneKeyPerIntent, Careful, Unsure, Marked, Sent
    <2>4. OneIntentPerKey'
        BY <2>1 DEF IInv, OneIntentPerKey, Attentive, Idle, Marked, Sent
    <2>5. LatestCall'
        BY <2>1 DEF IInv, LatestCall
    <2>6. QED
        BY <1>1, <2>2, <2>3, <2>4, <2>5 DEF IInv
<1>4. ASSUME NEW c \in calls, Lost(c) \/ GatewayAnswers(c)
      PROVE IInv'
    BY <1>4, EndedKeeps DEF Lost, GatewayAnswers, Unsure
<1>5. ASSUME NEW a \in answers, Fails(a)
      PROVE IInv'
    <2>1. row.route = "native" \/ row.route = "bridged"
        BY <1>1, RowType
    <2>2. QED
        BY <1>2, <1>5, <2>1, EndedKeeps DEF Fails, Unsure
<1>6. ASSUME NEW a \in answers, RefreshFails(a)
      PROVE IInv'
    BY <1>2, <1>6, EndedKeeps DEF RefreshFails, Unsure
<1>7. ASSUME NEW a \in answers, Succeeds(a)
      PROVE IInv'
    <2>1. Forgets(a.call, "done") /\ doubt' = doubt /\ UNCHANGED <<row, proxied, clicks, server>>
        BY <1>7 DEF Succeeds
    <2>2. Attentive => "done" \in row.forgets
        BY <1>7 DEF Attentive, Succeeds
    <2>3. QED
        BY <1>1, <1>2, <2>1, <2>2, ForgetsKeeps DEF IInv
<1>8. ASSUME NEW a \in answers, Leaves(a)
      PROVE IInv'
    <2>1. /\ calls' = {} /\ answers' = {} /\ entry' = NoEntry /\ doubt' = NoDoubt
          /\ UNCHANGED <<row, proxied, clicks, requests, working, receipts, effects, rev>>
        BY <1>8 DEF Leaves, server
    <2>2. /\ OneEffectPerKey' /\ OneRevisionPerIntent' /\ AnswersAreOwn'
          /\ \A i, k : Marked(i, k)' => Marked(i, k)
        BY <1>1, <2>1, Quiet
    <2>3. OneKeyPerIntent'
        <3>1. Careful' = Careful /\ doubt'.intent = 0
            BY <2>1 DEF Careful, Unsure, NoDoubt
        <3>2. ASSUME Careful, NEW i \in 1..clicks, NEW k \in 1..clicks, NEW l \in 1..clicks,
                     Marked(i, k)', Marked(i, l)'
              PROVE k = l
            BY <2>2, <3>2 DEF IInv, OneKeyPerIntent
        <3>3. QED
            BY <2>1, <3>1, <3>2 DEF OneKeyPerIntent
    <2>4. OneIntentPerKey'
        <3>1. Attentive' = Attentive /\ entry'.key = 0
            BY <2>1 DEF Attentive, NoEntry
        <3>2. ASSUME Attentive, NEW i \in 1..clicks, NEW j \in 1..clicks, NEW k \in 1..clicks,
                     Marked(i, k)', Marked(j, k)'
              PROVE i = j
            BY <2>2, <3>2 DEF IInv, OneIntentPerKey
        <3>3. QED
            BY <2>1, <3>1, <3>2 DEF OneIntentPerKey
    <2>5. LatestCall'
        BY <2>1 DEF IInv, LatestCall
    <2>6. QED
        BY <1>1, <2>2, <2>3, <2>4, <2>5 DEF IInv
<1>9. QED
    BY <1>3, <1>4, <1>5, <1>6, <1>7, <1>8

LEMMA ClickKeepsIInv ==
    ASSUME IInv, Click
    PROVE IInv'
<1>1. TypeOK /\ TypeOK' /\ PageType /\ clicks \in Nat /\ rev \in Nat
    BY TypeClick, TypeParts, BoundAssumption DEF IInv, PageType
<1> DEFINE c == [id |-> clicks + 1, intent |-> Intent, key |-> Key, value |-> form, rev |-> seen]
<1>2. /\ clicks' = clicks + 1 /\ calls' = calls \cup {c} /\ requests' = requests \cup {c}
      /\ entry' = [key |-> Key, value |-> form, rev |-> seen] /\ doubt' = NoDoubt
      /\ UNCHANGED <<row, proxied, form, seen, working, answers, receipts, effects, rev>>
      /\ \A d \in calls : d.key # Key
    BY DEF Click
<1>3. /\ c.id = clicks + 1 /\ c.intent = Intent /\ c.key = Key /\ c.value = form /\ c.rev = seen
      /\ doubt'.intent = 0
    BY <1>2 DEF NoDoubt
<1> HIDE DEF c
<1>4. Sent' = Sent \cup {c}
    BY <1>2 DEF Sent
<1>5. \A i, k : Marked(i, k)' <=> Marked(i, k) \/ (i = Intent /\ k = Key)
    BY <1>2, <1>3, <1>4 DEF Marked
<1>6. \A i, k : Marked(i, k) => i \in 1..clicks /\ k \in 1..clicks
    BY <1>1, MarkedType
<1>7. /\ Intent = clicks + 1 \/ (/\ Intent = doubt.intent /\ doubt.intent # 0
                                /\ doubt.value = form /\ doubt.rev = seen)
      /\ Key = clicks + 1 \/ (Key = entry.key /\ SamePrint)
    BY DEF Intent, Key
<1>8. OneKeyPerIntent'
    <2>1. Careful' = Careful
        BY <1>2 DEF Careful, Unsure
    <2>2. ASSUME Careful, NEW k, Marked(Intent, k)
          PROVE k = Key
        <3>1. Intent = doubt.intent /\ doubt.intent # 0 /\ doubt.value = form /\ doubt.rev = seen
            BY <1>1, <1>6, <1>7, <2>2
        <3>2. /\ entry.key # 0 /\ entry.value = form /\ entry.rev = seen /\ k = entry.key
            BY <1>6, <2>2, <3>1 DEF IInv, OneKeyPerIntent
        <3>3. QED
            BY <3>2 DEF Key, SamePrint
    <2>3. ASSUME Careful, NEW i, NEW k, NEW l, Marked(i, k)', Marked(i, l)'
          PROVE k = l
        <3>1. CASE Marked(i, k) /\ Marked(i, l)
            BY <1>6, <2>3, <3>1 DEF IInv, OneKeyPerIntent
        <3>2. CASE i = Intent
            BY <1>5, <2>2, <2>3, <3>2
        <3>3. QED
            BY <1>5, <2>3, <3>1, <3>2
    <2>4. QED
        BY <1>3, <2>1, <2>3 DEF OneKeyPerIntent
<1>9. OneIntentPerKey'
    <2>1. Attentive' = Attentive
        BY <1>2 DEF Attentive
    <2>2. ASSUME Attentive, NEW i, Marked(i, Key)
          PROVE i = Intent
        <3>1. Key = entry.key /\ SamePrint /\ entry.key # 0
            BY <1>1, <1>6, <1>7, <2>2 DEF SamePrint
        <3>2. Idle
            BY <1>2, <3>1 DEF Idle
        <3>3. /\ doubt.intent # 0 /\ doubt.value = entry.value /\ doubt.rev = entry.rev
              /\ i = doubt.intent
            BY <1>6, <2>2, <3>1, <3>2 DEF IInv, OneIntentPerKey
        <3>4. entry.value = form
            BY <2>2, <3>1 DEF SamePrint, Attentive
        <3>5. entry.rev = seen
            <4>1. CASE Revised
                BY <3>1, <4>1 DEF SamePrint
            <4>2. CASE ~Revised
                <5>1. rev = 0 /\ entry.rev \in 0..rev /\ seen \in 0..rev
                    BY <1>1, <4>2 DEF IInv, OneRevisionPerIntent, PageType
                <5>2. QED
                    BY <5>1
            <4>3. QED
                BY <4>1, <4>2
        <3>6. QED
            BY <3>3, <3>4, <3>5 DEF Intent
    <2>3. ASSUME Attentive, NEW i, NEW j, NEW k, Marked(i, k)', Marked(j, k)'
          PROVE i = j
        <3>1. CASE Marked(i, k) /\ Marked(j, k)
            BY <1>6, <2>3, <3>1 DEF IInv, OneIntentPerKey
        <3>2. CASE k = Key
            BY <1>5, <2>2, <2>3, <3>2
        <3>3. QED
            BY <1>5, <2>3, <3>1, <3>2
    <2>4. ~Idle'
        BY <1>2, <1>3 DEF Idle
    <2>5. QED
        BY <2>1, <2>3, <2>4 DEF OneIntentPerKey
<1>10. LatestCall'
    <2>1. \A d \in calls \cup requests : d.id \in 1..clicks
        BY <1>1, TypeParts DEF ServerType, Call
    <2>2. \A d, e \in calls' \cup requests' : d.id = e.id => d = e
        BY <1>1, <1>2, <1>3, <2>1 DEF IInv, LatestCall
    <2>3. \A d \in calls' : d.id = clicks' \/ d.key = entry'.key => d = c
        BY <1>1, <1>2, <1>3, <2>1
    <2>4. QED
        BY <1>2, <1>3, <2>2, <2>3 DEF LatestCall
<1>11. OneEffectPerKey'
    BY <1>2 DEF IInv, OneEffectPerKey
<1>12. OneRevisionPerIntent'
    <2>1. Revised' = Revised
        BY <1>2 DEF Revised
    <2>2. \A x \in Sent : x.intent \in 1..clicks
        BY <1>6 DEF Marked
    <2>3. \A x \in Sent : x.intent = c.intent => x.rev = c.rev
        BY <1>1, <1>3, <1>7, <2>2 DEF IInv, OneRevisionPerIntent
    <2>4. \A x, y \in Sent' : x.intent = y.intent => x.rev = y.rev
        BY <1>4, <2>3 DEF IInv, OneRevisionPerIntent
    <2>5. QED
        BY <1>2, <1>3, <2>1, <2>4 DEF IInv, OneRevisionPerIntent
<1>13. AnswersAreOwn'
    BY <1>2 DEF IInv, AnswersAreOwn, Attentive
<1>14. QED
    BY <1>1, <1>8, <1>9, <1>10, <1>11, <1>12, <1>13 DEF IInv

-----------------------------------------------------------------------------
(* Theorems.                                                               *)

LEMMA IInvInit == Init => IInv
<1> SUFFICES ASSUME Init PROVE IInv
    OBVIOUS
<1>1. TypeOK
    BY TypeInit
<1>2. Sent = {} /\ DOMAIN receipts = {} /\ entry.key = 0 /\ doubt.intent = 0
    BY DEF Init, Sent, NoEntry, NoDoubt
<1>3. \A i, k : ~Marked(i, k)
    BY <1>2 DEF Marked
<1>4. OneKeyPerIntent /\ OneIntentPerKey
    BY <1>2, <1>3 DEF OneKeyPerIntent, OneIntentPerKey
<1>5. LatestCall /\ OneEffectPerKey /\ AnswersAreOwn
    BY <1>2 DEF Init, LatestCall, OneEffectPerKey, AnswersAreOwn
<1>6. OneRevisionPerIntent
    BY <1>2 DEF Init, OneRevisionPerIntent, Sent
<1>7. QED
    BY <1>1, <1>4, <1>5, <1>6 DEF IInv

LEMMA IInvStutter == IInv /\ UNCHANGED vars => IInv'
<1> SUFFICES ASSUME IInv, UNCHANGED vars PROVE IInv'
    OBVIOUS
<1>1. TypeOK'
    BY TypeStutter DEF IInv
<1>2. OneKeyPerIntent' /\ OneIntentPerKey'
    BY DEF IInv, vars, page, server, OneKeyPerIntent, OneIntentPerKey, Careful, Unsure, Attentive,
           Idle, Marked, Sent
<1>3. LatestCall' /\ OneEffectPerKey' /\ OneRevisionPerIntent' /\ AnswersAreOwn'
    BY DEF IInv, vars, page, server, LatestCall, OneEffectPerKey, OneRevisionPerIntent, Revised,
           AnswersAreOwn, Attentive, Sent
<1>4. QED
    BY <1>1, <1>2, <1>3 DEF IInv

LEMMA IInvNext == IInv /\ [Next]_vars => IInv'
BY NextParts, ClickKeepsIInv, PageKeepsIInv, ServerKeepsIInv, IInvStutter

\* The inductive invariant holds in every reachable state.
THEOREM InvariantHolds == Spec => []IInv
BY IInvInit, IInvNext, PTL DEF Spec

LEMMA IInvRecognizes == IInv => RepeatsAreRecognized
<1> SUFFICES ASSUME IInv, row.revision = "moved" \/ Careful,
                    NEW e \in effects, NEW f \in effects, e.intent = f.intent
             PROVE e = f
    BY DEF RepeatsAreRecognized
<1>1. e \in Sent /\ f \in Sent
    BY DEF Sent
<1>2. CASE Careful
    <2>1. Marked(e.intent, e.key) /\ Marked(e.intent, f.key)
        BY <1>1 DEF Marked
    <2>2. e.intent \in 1..clicks /\ e.key \in 1..clicks /\ f.key \in 1..clicks
        BY <2>1, MarkedType DEF IInv
    <2>3. e.key = f.key
        BY <1>2, <2>1, <2>2 DEF IInv, OneKeyPerIntent
    <2>4. QED
        BY <2>3 DEF IInv, OneEffectPerKey
<1>3. CASE row.revision = "moved"
    BY <1>1, <1>3 DEF IInv, OneRevisionPerIntent
<1>4. QED
    BY <1>2, <1>3

\* Repeated clicks are recognized, for every row, however many clicks there are.
THEOREM RepeatsRecognized == Spec => []RepeatsAreRecognized
BY InvariantHolds, IInvRecognizes, PTL

\* A click made after an outcome was shown is not answered with that outcome.
THEOREM AnswersOwn == Spec => []AnswersAreOwn
<1>1. IInv => AnswersAreOwn
    BY DEF IInv
<1>2. QED
    BY <1>1, InvariantHolds, PTL

LEMMA StepAnswersTruly ==
    ASSUME IInv, [Next]_vars, row.route # "bridged",
           NEW a \in answers' \ answers, a.tells \in Outcomes
    PROVE a.tells = "done" <=> \E e \in effects' : e.key = a.call.key /\ e.intent = a.of
<1>1. row.route = "native"
    BY RowType DEF IInv
<1>2. PICK q \in requests : ServerStep(q)
    BY NextParts DEF vars, page, server, Click, Edit, Refresh, Elsewhere, Lost, GatewayAnswers, Fails,
       RefreshFails, Succeeds, Leaves, Ended, Forgets
<1>3. NativeStep(q)
    BY <1>1, <1>2, NativeParts
<1>4. ASSUME NEW end, NEW tells, NEW of, Answer(q, end, tells, of)
      PROVE a.call = q /\ a.of = of /\ a.tells = tells
    <2>1. a = [call |-> q, end |-> end, tells |-> tells, of |-> of]
        BY <1>4 DEF Answer
    <2>2. QED
        BY <2>1
<1>5. CASE Conflict(q) \/ Busy(q)
    <2>1. a.tells = ""
        BY <1>4, <1>5 DEF Conflict, Busy
    <2>2. QED
        BY <2>1 DEF Outcomes
<1>6. CASE Replay(q)
    <2>1. /\ q.key \in DOMAIN receipts /\ effects' = effects /\ a.call = q
          /\ a.of = receipts[q.key].of /\ a.tells = receipts[q.key].state
        BY <1>4, <1>6 DEF Replay, Known
    <2>2. QED
        BY <1>1, <2>1 DEF IInv, OneEffectPerKey, Outcomes
<1>7. CASE Decline(q) \/ Refuse(q)
    <2>1. a.call = q /\ a.tells = "refused" /\ effects' = effects /\ q.key \notin DOMAIN receipts
        BY <1>4, <1>7 DEF Decline, Refuse, Unknown
    <2>2. QED
        BY <1>1, <2>1 DEF IInv, OneEffectPerKey
<1>8. CASE Write(q)
    <2> DEFINE e == [intent |-> q.intent, key |-> q.key, rev |-> q.rev]
    <2>1. a.call = q /\ a.of = q.intent /\ a.tells = "done" /\ e \in effects'
        BY <1>4, <1>8 DEF Write, Does
    <2>2. e.key = q.key /\ e.intent = q.intent
        OBVIOUS
    <2> HIDE DEF e
    <2>3. QED
        BY <2>1, <2>2
<1>9. CASE Vanishes(q)
    BY <1>9 DEF Vanishes
<1>10. QED
    BY <1>3, <1>5, <1>6, <1>7, <1>8, <1>9 DEF NativeStep

\* A native route's answers tell the truth, first hand or replayed.
THEOREM AnswersTrue == Spec => AnswersAreTrue
<1>1. IInv /\ [Next]_vars =>
        [row.route # "bridged" =>
            \A a \in answers' \ answers : a.tells \in Outcomes =>
                (a.tells = "done" <=> \E e \in effects' : e.key = a.call.key /\ e.intent = a.of)]_vars
    BY StepAnswersTruly
<1>2. QED
    BY <1>1, InvariantHolds, PTL DEF Spec, AnswersAreTrue
=============================================================================
