----------------------------- MODULE KeyedWrites -----------------------------
(***************************************************************************)
(* How one form or button of the portal writes.  A click sends a request   *)
(* under an idempotency key.  The page keeps the key in `submissions`      *)
(* while it cannot tell what became of the request, so that the same click *)
(* made again is sent under the same key; the server keeps what it decided *)
(* under the key.  Requests are lost, late and overtaken, answers are      *)
(* lost, a gateway answers in the server's place, another tab writes.      *)
(*                                                                         *)
(* The machine is the same for every action: a row says what its lines and *)
(* its route do (see PortalWrites).  A call, the key that a click makes    *)
(* and the intent that it opens have the number of the click.              *)
(***************************************************************************)
EXTENDS Integers, FiniteSets

CONSTANTS
    Rows,           \* what the actions do
    Values,         \* what the form may hold
    MaxClicks,      \* bound: clicks
    MaxElsewhere    \* bound: writes of another tab

\* How a call may end for the page: ok, refused with an HTTP status, no answer
\* at all, or an exception of the page's own.
Ends == {"done", "status", "lost", "bare"}
Outcomes == {"done", "refused"}

Row ==
    [route : {"native", "bridged"},
     keeps : SUBSET Outcomes,       \* the outcomes that the server keeps under the key
     forgets : SUBSET Ends,         \* the ends after which the page drops the key
     throws : SUBSET Ends,          \* how the refresh after an ok answer may fail the action
     revision : {"none", "checked", "moved"},
                                    \* sends the revision that the page shows, which the
                                    \* server compares with the record's; and moves it
     leaves : BOOLEAN,              \* goes to another document after an ok answer
     coarse : BOOLEAN]              \* its fingerprint does not show what the form holds

ASSUME RowAssumption ==
    /\ Rows \subseteq Row
    /\ \A r \in Rows :
        /\ r.route = "native" => "done" \in r.keeps
        /\ r.route = "bridged" => r.revision = "none" /\ ~r.coarse
        /\ r.throws \subseteq {"status", "bare"}
ASSUME BoundAssumption == MaxClicks \in Nat /\ MaxElsewhere \in Nat

VARIABLES
    row,            \* the action
    proxied,        \* whether a status may come without the server's word: from a
                    \* gateway, or with a body that is cut off
    form, seen,     \* what the form holds, and the revision the page shows
    entry,          \* submissions.get(scope); key 0 if there is none
    clicks,
    calls,          \* the submissions in flight
    doubt,          \* history: the intent that the same click would repeat; 0 if none
    requests,       \* on their way to the server, or at it
    working,        \* those for which Core is asked
    answers,        \* on their way back
    receipts,       \* what the server keeps under a key
    effects,        \* what the requests did
    rev, elsewhere  \* the record's revision, and the writes of another tab

page == <<form, seen, entry, clicks, calls, doubt>>
server == <<requests, working, receipts, effects, rev>>
vars == <<row, proxied, page, answers, server, elsewhere>>

AnyValue == CHOOSE v \in Values : TRUE
NoEntry == [key |-> 0, value |-> AnyValue, rev |-> 0]
NoDoubt == [intent |-> 0, value |-> AnyValue, rev |-> 0]

Call == [id : 1..clicks, intent : 1..clicks, key : 1..clicks, value : Values, rev : 0..rev]

\* Types.  A page never shows a revision that the record has not had.
TypeOK ==
    /\ row \in Rows /\ proxied \in BOOLEAN
    /\ form \in Values /\ rev \in Nat /\ seen \in 0..rev
    /\ clicks \in 0..MaxClicks /\ elsewhere \in 0..MaxElsewhere
    /\ entry \in [key : 0..clicks, value : Values, rev : 0..rev]
    /\ doubt \in [intent : 0..clicks, value : Values, rev : 0..rev]
    /\ calls \subseteq Call /\ requests \subseteq Call /\ working \subseteq requests
    /\ answers \subseteq
        [call : calls, end : {"done", "status"}, tells : Outcomes \cup {""}, of : 0..clicks]
    /\ DOMAIN receipts \subseteq 1..clicks
    /\ \A k \in DOMAIN receipts :
        receipts[k] \in [state : Outcomes \cup {"pending"}, owner : 1..clicks,
                         of : 1..clicks, value : Values]
    /\ effects \subseteq [intent : 1..clicks, key : 1..clicks, rev : 0..rev]

Init ==
    /\ row \in Rows /\ proxied \in BOOLEAN
    /\ form \in Values /\ seen = 0 /\ rev = 0 /\ elsewhere = 0
    /\ entry = NoEntry /\ doubt = NoDoubt
    /\ clicks = 0 /\ calls = {}
    /\ requests = {} /\ working = {} /\ answers = {}
    /\ receipts = [k \in {} |-> NoEntry] /\ effects = {}

-----------------------------------------------------------------------------
(* The page.                                                               *)

Edit ==
    /\ form' \in Values \ {form}
    /\ UNCHANGED <<row, proxied, seen, entry, clicks, calls, doubt, answers, server, elsewhere>>

\* The page reads the record again.
Refresh ==
    /\ seen # rev
    /\ seen' = rev
    /\ UNCHANGED <<row, proxied, form, entry, clicks, calls, doubt, answers, server, elsewhere>>

\* acquireSubmission: the key of the last click, if the fingerprint is its own.
Revised == row.revision # "none"
SamePrint ==
    entry.key # 0 /\ (row.coarse \/ entry.value = form) /\ (Revised => entry.rev = seen)
KeyEachClick == clicks + 1
Key == IF SamePrint THEN entry.key ELSE clicks + 1
Intent ==
    IF doubt.intent # 0 /\ doubt.value = form /\ doubt.rev = seen THEN doubt.intent ELSE clicks + 1

\* A click while its key is in flight does nothing.
Click ==
    /\ clicks < MaxClicks
    /\ \A c \in calls : c.key # Key
    /\ clicks' = clicks + 1
    /\ entry' = [key |-> Key, value |-> form, rev |-> seen]
    /\ LET c == [id |-> clicks + 1, intent |-> Intent, key |-> Key, value |-> form, rev |-> seen]
       IN calls' = calls \cup {c} /\ requests' = requests \cup {c}
    /\ doubt' = NoDoubt
    /\ UNCHANGED <<row, proxied, form, seen, working, answers, receipts, effects, rev, elsewhere>>

ForgetsNothing(c, end) ==
    /\ calls' = calls \ {c}
    /\ answers' = {a \in answers : a.call # c}
    /\ entry' = entry

\* releaseSubmission; discardSubmission if the end is one that the action
\* takes for an acknowledgement.
Forgets(c, end) ==
    /\ calls' = calls \ {c}
    /\ answers' = {a \in answers : a.call # c}
    /\ entry' = IF end \in row.forgets /\ entry.key = c.key THEN NoEntry ELSE entry

\* An end that does not say what became of the last click leaves it in doubt.
Ended(c, end, told) ==
    /\ Forgets(c, end)
    /\ doubt' = IF ~told /\ c.id = clicks
                THEN [intent |-> c.intent, value |-> c.value, rev |-> c.rev] ELSE doubt
    /\ UNCHANGED <<row, proxied, form, seen, clicks, server, elsewhere>>

\* fetch fails; the request may still reach the server or be on it.
Lost(c) == Ended(c, "lost", FALSE)

\* A gateway's 502 or 504 has a status as any other refusal, and so has an ok
\* answer whose body cannot be read: api() throws it as well.
GatewayAnswers(c) == proxied /\ Ended(c, "status", FALSE)

\* api() throws what the server refuses.  Only a bridged route refuses without
\* saying what became of the request.
Fails(a) == a.end = "status" /\ Ended(a.call, "status", row.route = "native" \/ a.tells # "")

\* An ok answer, but the refresh fails the action.
RefreshFails(a) == a.end = "done" /\ \E end \in row.throws : Ended(a.call, end, FALSE)

\* An ok answer; the page reads the record again, unless it cannot.
Succeeds(a) ==
    /\ a.end = "done" /\ ~row.leaves
    /\ Forgets(a.call, "done")
    /\ seen' \in {seen, rev}
    /\ UNCHANGED <<row, proxied, form, clicks, doubt, server, elsewhere>>

\* location.assign: another document, with an empty submissions map.
Leaves(a) ==
    /\ a.end = "done" /\ row.leaves
    /\ calls' = {} /\ answers' = {} /\ entry' = NoEntry
    /\ seen' = rev /\ doubt' = NoDoubt
    /\ UNCHANGED <<row, proxied, form, clicks, server, elsewhere>>

-----------------------------------------------------------------------------
(* The server.                                                             *)

Answer(q, end, tells, of) ==
    answers' = IF q \in calls
               THEN answers \cup {[call |-> q, end |-> end, tells |-> tells, of |-> of]}
               ELSE answers
EndOf(outcome) == IF outcome = "done" THEN "done" ELSE "status"

Keep(q, state, of) ==
    receipts' = [k \in DOMAIN receipts \cup {q.key} |->
                   IF k = q.key
                   THEN [state |-> state, owner |-> q.id, of |-> of, value |-> q.value]
                   ELSE receipts[k]]
Release(q) == receipts' = [k \in DOMAIN receipts \ {q.key} |-> receipts[k]]

Does(q) ==
    /\ effects' = effects \cup {[intent |-> q.intent, key |-> q.key, rev |-> q.rev]}
    /\ rev' = IF row.revision = "moved" THEN rev + 1 ELSE rev
DoesNothing == UNCHANGED <<effects, rev>>

Unknown(q) == q \notin working /\ q.key \notin DOMAIN receipts
Known(q) == q \notin working /\ q.key \in DOMAIN receipts

\* The key was used for another request.  A bridged route does not look; nor
\* does that of the projects, where the page's own keys never meet the case.
Reused(q) == row.route # "bridged" /\ receipts[q.key].value # q.value

Conflict(q) ==
    /\ Known(q) /\ Reused(q)
    /\ Answer(q, "status", "", 0)
    /\ requests' = requests \ {q}
    /\ UNCHANGED <<row, proxied, page, working, receipts, effects, rev, elsewhere>>

\* IDEMPOTENCY_IN_PROGRESS: another request under this key asks Core.
Busy(q) ==
    /\ Known(q) /\ receipts[q.key].state = "pending"
    /\ Answer(q, "status", "", 0)
    /\ requests' = requests \ {q}
    /\ UNCHANGED <<row, proxied, page, working, receipts, effects, rev, elsewhere>>

\* What was decided is answered again.
Replay(q) ==
    /\ Known(q) /\ ~Reused(q) /\ receipts[q.key].state \in Outcomes
    /\ LET r == receipts[q.key] IN Answer(q, EndOf(r.state), r.state, r.of)
    /\ requests' = requests \ {q}
    /\ UNCHANGED <<row, proxied, page, working, receipts, effects, rev, elsewhere>>

\* Refused before anything is written: validation, a quota, a stale revision.
Decline(q) ==
    /\ Unknown(q)
    /\ Answer(q, "status", "refused", q.intent)
    /\ requests' = requests \ {q}
    /\ UNCHANGED <<row, proxied, page, working, receipts, effects, rev, elsewhere>>

WriteApart(q) ==
    /\ row.route = "native" /\ Unknown(q)
    /\ Revised => q.rev = rev
    /\ Does(q) \/ DoesNothing
    /\ Keep(q, "done", q.intent)
    /\ Answer(q, "done", "done", q.intent)
    /\ requests' = requests \ {q}
    /\ UNCHANGED <<row, proxied, page, working, elsewhere>>

\* A native route: the receipt, the revision and the write in one transaction.
Write(q) ==
    /\ row.route = "native" /\ Unknown(q)
    /\ Revised => q.rev = rev
    /\ Does(q) /\ Keep(q, "done", q.intent)
    /\ Answer(q, "done", "done", q.intent)
    /\ requests' = requests \ {q}
    /\ UNCHANGED <<row, proxied, page, working, elsewhere>>

\* A refusal that the route returns, instead of raising it, is kept as well.
Refuse(q) ==
    /\ row.route = "native" /\ "refused" \in row.keeps /\ Unknown(q)
    /\ Keep(q, "refused", q.intent)
    /\ Answer(q, "status", "refused", q.intent)
    /\ requests' = requests \ {q}
    /\ UNCHANGED <<row, proxied, page, working, effects, rev, elsewhere>>

\* _reserve_idempotency: a reservation may be taken over once it is old,
\* whether or not its owner has died.
Reserve(q) ==
    /\ row.route = "bridged"
    /\ Unknown(q) \/ (Known(q) /\ receipts[q.key].state = "pending")
    /\ working' = working \cup {q}
    /\ Keep(q, "pending", q.intent)
    /\ UNCHANGED <<row, proxied, page, answers, requests, effects, rev, elsewhere>>

\* Core does once what it is asked to under one key (external).
DoneUnder(k) == {e \in effects : e.key = k}
CoreDoes(q) == IF DoneUnder(q.key) = {} THEN Does(q) ELSE DoesNothing

\* The answer is kept, or the key set free, by the request that still owns it.
Settle(q, outcome, of) ==
    IF q.key \in DOMAIN receipts /\ receipts[q.key].state = "pending" /\ receipts[q.key].owner = q.id
    THEN IF outcome \in row.keeps THEN Keep(q, outcome, of) ELSE Release(q)
    ELSE UNCHANGED receipts

OverButWorking(q) ==
    /\ requests' = requests \ {q} /\ working' = working
    /\ UNCHANGED <<row, proxied, page, elsewhere>>
Over(q) ==
    /\ requests' = requests \ {q} /\ working' = working \ {q}
    /\ UNCHANGED <<row, proxied, page, elsewhere>>

CoreAccepts(q) ==
    /\ q \in working /\ CoreDoes(q)
    /\ LET of == IF DoneUnder(q.key) = {} THEN q.intent
                 ELSE (CHOOSE e \in DoneUnder(q.key) : TRUE).intent
       IN Settle(q, "done", of) /\ Answer(q, "done", "done", of)
    /\ Over(q)

CoreRefuses(q) ==
    /\ q \in working /\ DoneUnder(q.key) = {} /\ DoesNothing
    /\ Settle(q, "refused", q.intent) /\ Answer(q, "status", "refused", q.intent)
    /\ Over(q)

\* CORE_BRIDGE_UNAVAILABLE and its like: Core may have done it or not.
CoreUnavailable(q) ==
    /\ q \in working /\ (CoreDoes(q) \/ DoesNothing)
    /\ Settle(q, "", 0) /\ Answer(q, "status", "", 0)
    /\ Over(q)

\* The server stops while Core is asked; the reservation stays.
Dies(q) ==
    /\ q \in working
    /\ CoreDoes(q) \/ DoesNothing
    /\ UNCHANGED <<answers, receipts>>
    /\ Over(q)

\* A request that the page has given up never arrives.
Vanishes(q) ==
    /\ q \notin working /\ q \notin calls
    /\ requests' = requests \ {q}
    /\ UNCHANGED <<row, proxied, page, answers, working, receipts, effects, rev, elsewhere>>

\* Another tab writes the record.
Elsewhere ==
    /\ Revised /\ elsewhere < MaxElsewhere
    /\ elsewhere' = elsewhere + 1 /\ rev' = rev + 1
    /\ UNCHANGED <<row, proxied, page, answers, requests, working, receipts, effects>>

-----------------------------------------------------------------------------
Next ==
    \/ Edit \/ Refresh \/ Click \/ Elsewhere
    \/ \E c \in calls : Lost(c) \/ GatewayAnswers(c)
    \/ \E a \in answers : Fails(a) \/ RefreshFails(a) \/ Succeeds(a) \/ Leaves(a)
    \/ \E q \in requests :
        \/ Conflict(q) \/ Busy(q) \/ Replay(q) \/ Decline(q) \/ Write(q) \/ Refuse(q) \/ Reserve(q)
        \/ CoreAccepts(q) \/ CoreRefuses(q) \/ CoreUnavailable(q)
        \/ Dies(q) \/ Vanishes(q)

Spec == Init /\ [][Next]_vars

-----------------------------------------------------------------------------
(* Properties.                                                             *)

\* The ends that may hide what became of a request.  A row is careful if none
\* of them makes it drop the key.
Unsure ==
    {"lost"} \cup row.throws
    \cup (IF proxied \/ row.route = "bridged" THEN {"status"} ELSE {})
Careful == Unsure \cap row.forgets = {}

\* A click that repeats one whose answer was never seen is recognized: what it
\* asks for is done once, by a row that keeps its key through every doubt, and
\* by a row whose write moves the revision it was checked with whatever becomes
\* of its key.
RepeatsAreRecognized ==
    row.revision = "moved" \/ Careful => \A e, f \in effects : e.intent = f.intent => e = f

\* A click made after the outcome of the last one was shown is decided anew: it
\* is not answered with what was decided then.  For the rows that drop the key
\* once an outcome is shown.
Attentive ==
    /\ "done" \in row.forgets \/ row.leaves
    /\ "status" \in row.forgets /\ ~row.coarse
AnswersAreOwn ==
    Attentive => \A a \in answers : a.tells # "" => a.of = a.call.intent

\* An answer says "done" of what was done and "refused" of what was not.
AnswersAreTrue ==
    [][row.route # "bridged" =>
        \A a \in answers' \ answers : a.tells \in Outcomes =>
            (a.tells = "done" <=> \E e \in effects' : e.key = a.call.key /\ e.intent = a.of)]_vars
=============================================================================
