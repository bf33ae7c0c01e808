# TOAN AAS Web App: a verification development

The repository is a FastAPI application (`app.py`, `copyfast_*.py`) over one SQLite
database, in front of a private *Bot Core* that owns the wallet ledger. The Web App
never writes a wallet itself: it decides, asks Bot Core through the Core Bridge
(`copyfast_bridge.py`), and records what it was answered. Two clients of it are in the repository as well: the
portal (`static/portal/*.js`), a single document that asks for what it shows page by page,
and a Chrome extension that streams a tab's audio to be translated. This directory models
the parts where work goes through several steps, several actors and several failures:

* the **manual top-up** that credits a customer's wallet,
* the **Product Video** jobs whose delivery debits it,
* the **local OCR of images**, whose rows, files and decoder slot have to agree through
  errors and restarts,
* the **live stream** of audio frames between the extension and its gateway, over sockets
  that break,
* the **reads of the portal**, whose answers arrive in any order,
* the **writes of the portal**, whose answers get lost and which are clicked again,
* the **feature quotes**: an estimate, the receipt for it, and the one job that a
  confirmation under the receipt may make.

TLC checks the models on small instances; TLAPS proves the safety properties for every
value of the constants.

## 1. Inventory

| Component (source) | State | Operations | Interacts with |
|---|---|---|---|
| Manual top-up (`copyfast_db.py` 6844-8007, `copyfast_api.py` 5717-6060) | requests, credit operations, approve and reject receipts, lifecycle notices | submit, draft, confirm (approve or reject), replay, finalize | Core Bridge (awaited call), accounts, sessions, notifications |
| Product Video dispatcher (`copyfast_product_video_dispatcher.py` 178-576) | job rows: status, worker, lease, attempts | create, release, claim, heartbeat, complete, fail, reconcile | external worker processes, Admin |
| Product Video settlement (same file, 716-1062) | projection row per job | settle after complete | Core Bridge, dispatcher, accounts |
| Core Bridge (`copyfast_bridge.py`) | none | signed request, one retry of keyed writes, answer sanitizer | Bot Core |
| Database core (`copyfast_db.py` 1527-1546) | SQLite | `transaction()`: BEGIN IMMEDIATE, commit or rollback | everything |
| Accounts, sessions, Telegram identity (`copyfast_auth.py`, customer directory) | accounts, sessions, login and link codes | sign-in, logout, link, Admin edits | Bot callbacks |
| Two-factor sign-in, credential throttle (`copyfast_mfa.py`, `copyfast_auth_throttle.py`) | factors, challenges, recovery codes, two buckets | challenge, verify, lock | sign-in |
| Notification Center (`copyfast_notification_center.py`) | lease with fence, runs, notices | signed tick, materialize, finish | reminders |
| Operations Autopilot (`copyfast_autopilot.py`) | lease, runs, incidents, proposals, approvals | tick, triage, approve, expire | support desk |
| Image upscale and other provider bridges (`copyfast_*_bridge.py`) | job rows | prepare, finalize (dispatch gated off in this commit) | providers |
| Image OCR executor (`copyfast_document_operations.py` 4789-5027, 4135-4180, `copyfast_image_runtime.py`) | operation rows, output files, the process's decoder slot | request, threads of its handler, download, startup scan | Asset Vault, other image features, restarts |
| Live stream: extension (`extensions/chrome-live-translate/offscreen.js` 10-511) | frame numbers, unacknowledged frames, socket, reconnect budget | capture, send, reconnect, replay, evict | tab audio, gateway |
| Live stream: gateway (`copyfast_realtime_translate.py` 162-827, 1221-1503) | session: socket lease, mark, segments, claims | accept, receive, segment, bridge, commit, acknowledge | extension, Bot |
| Portal, reads (`static/portal/integration.js`: `hydrate()`, about 120 `hydrate...` readers, 100 pages) | what is on the screen, request and session epochs | bootstrap, page chain, button, move in the document | all read routes |
| Portal, writes (`integration.js` `handleAction` and the `...Mutation` helpers; the `_idempotent` of each router, `_run_idempotent` in `copyfast_api.py`) | `submissions` (scope, fingerprint, key, in flight), `web_idempotency`, the records' revisions | about 140 forms and buttons | write routes, Core Bridge |
| Feature quotes (`_feature_action` and its receipts in `copyfast_api.py`, `handleAction` of `integration.js`, `renderFormCard` of `portal.js`) | `featureFlows`, the confirmation's key, `web_feature_quote_receipts`, `web_idempotency`, jobs | draft, estimate, confirm; claim, make or ask Core, settle | job bridges, Core Bridge |
| Portal, rendering (`portal.js`, `portal-i18n.js`) | none of its own | views, texts | |
| Other local executors, Asset Vault, studios, support, workboard, ERP read models, policies, retired prototype | see `PROJECT.json` | mostly single-transaction edits, file work or reads | |

What is hard here: the confirm handler awaits the bridge between transactions, so its
view of the rows is old when it writes; two Admins may confirm at once, one to approve
and one to reject; a bridge call may be lost before or after Bot Core booked it, retried,
or received after the Web gave up on it; the process may die between any two
transactions; a worker's lease may lapse, be revived by a heartbeat or be taken over
while it still runs; a late report of a fenced worker arrives at a row that has moved on; the startup scan of
files and rows runs beside the first requests; a frame overtakes the replay of an older
one, an acknowledgement arrives over a socket that was given up, a coroutine comes back
from the Bot after its socket was superseded; an answer to the portal arrives after a
newer one, after the page, or after the session it was asked for; a click is made again
because its answer was lost, while the first request is still on its way.
The list, line by line, is `hazards` in `PROJECT.json`.

What makes each component correct, in a sentence:

* Manual top-up: one credit and one decision per request, a credit only under a durable
  operation row, an approval only with its credit, no second try while nobody knows what became of
  the first, and answers and notices that say what the row says.
* Dispatcher: an attempt belongs to one process; a live lease is not taken over; only the
  latest claim completes a job; a finished job stays finished; a queued job ends.
* Settlement: no charge without delivery, none for acceptance jobs, at most one per job,
  none without its projection, and no failure recorded as a settlement.
* Image OCR: one holder of the decoder slot, which always comes free; a completed operation
  keeps its file; no result replaces another; the scan spares what is being worked on.
* Live stream: no frame leaves the client before the Bot has answered it, no segment is
  processed or committed twice, and a reconnect comes to an end.
* Portal reads: a late answer never takes the place of a newer one or survives its session,
  and every page ends up showing what it promised or saying that it could not be read.
* Portal writes: a click repeated in doubt does nothing twice, and a click made after an
  outcome was shown is decided anew.
* Feature quotes: a receipt is confirmed with the input it was made for, one estimate makes
  one job, and a confirmation repeated in doubt makes no second one.
* Schedulers (planned): at most one current run, no occurrence materialized twice, no
  write by a run that lost its lease.
* Sign-in and linking (planned): a code or factor is used once, by the session it was
  made for; a canonical user belongs to one account.

## 2. Modules and their correspondence to the code

| Module | Models |
|---|---|
| `ManualTopup` | the manual top-up with Admin sessions, identities, concurrent confirm handlers, the bridge call and Bot Core's ledger |
| `TopupLedger` | what it promises: per request a decision and at most one credit |
| `VideoDispatch` | the dispatcher, its workers and the reconcile call |
| `VideoSettlement` (extends `VideoDispatch`) | the same system with settlement of completed jobs |
| `PaidDelivery` | what it promises: a delivery, then at most one charge |
| `ImageOcr` | the OCR request handlers, the shared decoder slot, downloads, the process and its startup scan |
| `LocalJob` | what it promises: work, pauses, and one artefact or none |
| `LiveStream` | one capture of the extension and the coroutines of its sockets at the gateway |
| `SpeechRelay` | what it promises: only what has something new is given to the Bot, each segment is answered for good once, and the client lets go of what the session stands by |
| `PortalReads` | the machine of the portal's reads: bootstrap, chains, buttons, epochs, answers |
| `PortalViews` | the table it runs on: one row per reader of `integration.js`, one entry per page |
| `PortalSettling` (extends `PortalReads`) | what a table must be like for its pages to settle: `Orderly`, a condition on readers, scripts and moves without any state |
| `KeyedWrites` | the machine of the portal's writes: clicks, keys, requests, receipts, revisions, Core |
| `PortalWrites` (extends it) | the table it runs on: one row per form or button of `integration.js`, from what its block and its route do |
| `FeatureQuotes` | a feature page with its estimates and confirmations, the routes behind it, and Core |
| `QuotedJobs` | what they promise: a quote is for one input, a job is of a quote and its input, and one per quote where the feature is steady |
| `MCManualTopup`, `MCVideoSettlement`, `MCImageOcr`, `MCLiveStream`, `MCPortalReads`, `MCKeyedWrites`, `MCFeatureQuotes` | instances for TLC |
| `ManualTopup_proofs`, `VideoDispatch_proofs`, `VideoSettlement_proofs`, `ImageOcr_proofs`, `LiveStream_proofs`, `PortalReads_proofs`, `KeyedWrites_proofs`, `FeatureQuotes_proofs` | theorems |

`map` in `PROJECT.json` gives the lines of every definition.

**Steps.** Every database function runs in one `transaction()`, which takes SQLite's
write lock at its start, so each is one action. The confirm route
(`manual_admin_confirm`) is a chain: claim the decision (`BeginApprove`), claim the
operation row (`Claim...`), the bridge call (`Send`, `CoreCredits`, `CoreRefuses`,
`RetryBridge`), store the outcome (`CreditFails`, `CreditConfirmed`), finalize
(`Finalize...`). From its claim to the stored outcome it may also end without one
(`HandlerAborts`): the writes of the outcome are not guarded against a database error, a
receipt that is a list raises, and a request may be cancelled; only finalize has a handler. `handler[h].pc` says where a handler stands and the rest of the record
is its local variables: the snapshot it took in its first transaction. Settlement is the
same kind of chain, one per job (`settler`), because `complete` refuses a second call.
An OCR handler is such a chain too: a transaction that reserves the slot and writes the row
(`Begin`), a thread that copies the source, a thread that reads it, publishes the text and
verifies it, a transaction that records it (`Complete`), and the error paths (`RefuseText`,
`CondemnSource`, `Settle`). `handler[o].at` says where it stands.

A coroutine of the gateway is a chain from one `await` to the next (`handler[s].pc`); a
client action is one callback of the browser, which runs to its end. In the portal an
action is what runs between two awaits: the start of `hydrate()`, its merge or a click
together with the first reads it asks for (`Asking`), the next
group of reads of a chain or script (`Ask`), the arrival of one answer. A write of the
portal is a click (`Click`: `acquireSubmission` and the request), what the route's one
transaction does with it (`Write`, `Refuse`, `Replay`, `Conflict`), or for a route that asks
Core its reservation, Core's answer and the end (`Reserve`, `CoreAccepts`, ...), and the end
of the call for the page (`Succeeds`, `Fails`, `RefreshFails`, `Lost`, `GatewayAnswers`,
`Leaves`), each with `releaseSubmission` and, where the block says so, `discardSubmission`.
A confirmation of a feature is a chain of transactions too: it claims the receipt (`Claim`),
makes the job or refuses it in one (`Make`, `Refuse`) or goes by its reservation and Core
(`Reserve`, `Busy`, `Replay`, `CoreAnswers`, `CoreUnavailable`), and settles the receipt
(`Settle`); it may die between any two of them (`Dies`).

**State.** `req`, `op`, `approveReceipt`, `rejectReceipt` and `notices` are the tables;
`session` and `identity` the columns of accounts and sessions that decisions read;
`ledger` (top-ups) and `booked` (video) what Bot Core has booked; `wire` the calls the
Web no longer waits for and Bot Core may still receive. `told` is a history variable:
the decisions an Admin was told. In the dispatcher `job` is the table, `older` the order
of `created_at`, `run` what each worker process remembers of its claim. A lease is `none`,
`live` or `lapsed`: only its comparison with the clock is ever used. In `ImageOcr`, `row` is the table, `disk` the directory `outputs/`, `permits`
the semaphore; `agedRows` and `agedFiles` say what is older than
`ORPHAN_RETENTION_SECONDS`, the only question the scan asks of a time stamp. `orphans` is
what the scan goes to unlink: the rows and the age limit it decides by are fixed before
it walks the directory.

In `LiveStream` the client's variables are those of `offscreen.js` under their own names,
the session's those of `RealtimeTranslateSession` and its `LiveAudioIngressBuffer`
(`ingress` is the partial segment, `segment` the closed ones, `outcome` what became of
each). A socket is a pair of queues `up` and `down` and a `link`: `readyState` together
with what the server made of it. `answered` is a history variable: the frames whose
segment the Bot has answered.

In `PortalReads` an epoch is the number of the ask that last advanced it, so that
"still current" is equality with the asking read's own number, as in the code's
`...RequestIsCurrent` functions. A slot is a group of keys of the merged view that are
always written together; it remembers the ask and the bootstrap it was written for.
`reads` are the requests under way, `tasks` the page chains and button scripts under way,
`owed` (history) the slots the page on the screen was promised. A `Link` is a move in the
document that hydrates, by `pushState` or by Back and Forward, which `popstate` turns into
the route and a `hydrate()`; a `Handoff` is a `pushState` that asks for its reads itself. Back and Forward
over a handoff is a link too. A draft may be attached long after it was asked for, so that its
handoff starts from whatever page of the document is then on the screen (`draftPages`). The
merge of a `hydrate()` carries the state it began with, and so puts its own page back. A row of `PortalViews`
says which epoch a reader advances, which slots it fills, empties and fails, and by what
its answer is fenced: `screen` (the path is still the one it asked on, and the page reads
this view), `any` (the path is still the same, whichever it is), `route` and `given` (the
path or record the script was started for), `none`.

In `KeyedWrites` `entry` is the one entry of `submissions` under the action's scope and
`calls` are the submissions in flight, which outlive it when the form is edited. `receipts`
is `web_idempotency`, `rev` the record's revision and `seen` the one the page sends.
`doubt` and `effects` are history: the intent of the last click while the page does not know
what became of it, and what the requests did. A click has the intent in doubt if form and
revision are still the same, else one of its own. Only the last click can be in doubt: a
customer who edits the form meanwhile has moved on.

The columns of `PortalWrites`: what the route keeps under a key (only what was done, or
also the refusals it returns instead of raising; nothing for payments), the ends after which
the block discards its key, how the refresh that follows an ok answer may fail the block
(without a status, or with that of the refused read), whether the page sends the record's
revision and whether the write moves it, whether the page goes to another document, and
whether the fingerprint shows what the form holds (not for an upload).

In `FeatureQuotes` a receipt has the number of the click whose estimate it answers, a key
that of the click that made it; 0 is none. `work[q]` says how far the server is with a
request, whether or not the page still waits for it (`calls`). A row is a kind of page:
whether the route makes the job itself or asks Core, whether the input names an asset that
may go, and whether the page hides the button once the form was edited. `fit` is what the
route's validation passes. `doubt` and the `intent` of a call are history, as in `KeyedWrites`;
here an intent outlives a new estimate of the same form.

**Abstractions.** A submission is its (account, idempotency key) pair; a repeat changes
nothing. A receipt hash and its key are known only to the session that drafted it, so a
receipt is the pair (request, session). Amounts, payloads and metadata are kept as far as
a property tells them apart; requests that validation refuses change nothing and are not
steps. The fingerprint's reference is a function of the request, so `SameFingerprint`
compares user and amount. In `ImageOcr` an operation is its server-derived key (source
revision and language); staging copies, audits and the download slots are left out; every
output has the same size, so that the quota counts outputs; owners archiving a source, which
stops requests as a condemned source does, is left out; a lost or altered file shows as
`Withdraw`. It is assumed that `_safe_unlink`, which swallows `OSError`, removes the file,
and that the database accepts the transactions of the error paths.

In `LiveStream` a frame is a run of audio long enough to close a segment, so every frame
may be the one at which `push_chunk` finds the boundary. A socket that the gateway closes
before accepting it reaches the browser as a terminal code or as 1006. The stream token
lives 300 s, so a socket may be refused at any time. A second close of one socket, and
`receive()` on one that is gone, may raise in the framework or not; where the raise would
fail the session, both outcomes are steps. The stop protocol (an unforced stop, a capture
started again), text to speech, metering and export are left out.

The rows of `PortalViews` are those of an account for which every feature is enabled and
the bridge is available. Left out are the sign-in pages (`hydratePublicAuth`), the Admin
navigation, the canonical voice, feature, progress and ticket readers, the epochs of the
review pack and of the composer, the media workspace outside the audio hub, `/reminders`,
drafts that are resumed from the dashboard or into forms other than the two of `draftPages`,
and the addresses that `portal.js` pushes within one page or among pages that are not in the
table (voice, music, dubbing). A handoff takes a session.
Reads asked between the start of a
`hydrate()` and its merge carry the new session epoch, as in the code. There is one record per
route: `/projects/id` is one project.

In `KeyedWrites` the checks that a block makes before it asks, and everything a route may
refuse, are `Decline`; receipts are taken to be those the page expects. The age of a
receipt is left out (routers prune theirs after a day or more; a page does not wait so
long with a doubt), and so are a change of the session or of the route while a call is
under way: `saveWorkspaceSetup`, for one, does not leave the document when its customer has
moved on, and the model's row always leaves it. A reservation may be taken over at any time: 90 s pass for an owner that still
waits as for one that died. Not in the table are: routes with a uniqueness rule besides
the key (creating schedules, analytics snapshots, follow-ups of handoffs, attachments of
and feedback on cases, starter kits, the erasure of an account), finance planning, saves
of compositions with a source record of their own (cinematic concept, image motion,
storyboard, script to screen, Prompt Studio), workspace drafts, changes of audio, the
executors of operations, campaigns, the Asset Vault, exports, voice cloning, the starts in
Telegram, and the top-ups, which `ManualTopup` models.

In `FeatureQuotes` one session asks on one page; a page that is loaded again forgets its
receipts, so it is a session of its own. An expired receipt is kept and never claimed again, where the
code deletes it. Uploads, prices and texts are left out, and so is the dispatch to Core that
follows the making of image, subtitle and music jobs: these rows end with the job.

**Bot Core is external.** It is modelled from how this code uses it: a key is booked once,
a later call with the same key and payload is answered with the same entry, everything
else with an error; a call may be lost, answered late or received late.

**Dead code.** `approve_web_manual_topup` and
`get_or_create_web_manual_topup_credit_operation` have no callers and are not modelled.

## 3. Runs

| Run | Instance | Result |
|---|---|---|
| `topup_one_request` | 1 request, 2 user ids, 2 Admin sessions, 2 concurrent handlers, crashes; symmetry | 8 safety properties hold, and `TopupLedger` is implemented (about 611,000 states) |
| `topup_reject_credited` | 1 request, 2 sessions, 1 handler | violated: a credited request is rejected |
| `topup_crash_dispatched` | 1 request, 1 session, crashes, retrying Admins | violated: a dispatched row is never recovered |
| `video_settlement` | 2 jobs (one acceptance), 2 workers, reconcile limits 1 and 4, one account, crashes, fairness | safety of dispatcher and settlement, refinement, termination and resolution hold (about 418,000 states) |
| `video_settled_recorded` | 1 job, 1 worker | violated: a settled debit is recorded as failed |
| `image_ocr` | 2 operations on one image, 4 file names, quota of 1 output, 2 crashes, fairness | safety, refinement of `LocalJob`, and liveness of the slot and of old rows hold (38,000 states) |
| `image_ocr_interrupted` | 1 operation, 1 crash, fairness | violated: an interrupted row stays `processing` |
| `live_stream` | 2 socket ids in turn, 3 frames, 2 segments, a buffer of 2 frames, 1 reconnect attempt, fairness | safety properties hold, `SpeechRelay` is implemented and a reconnect settles (769,000 states) |
| `live_stream_silent_drop` | the same with 3 segments, a buffer of 3 and 2 reconnect attempts | violated: a frame is let go of that was never processed (12 steps) |
| `portal_reads` | all readers and pages of the portal | answers are ordered, sessions kept apart, pages settle (104,600 states) |
| `feature_quotes` | the 4 kinds of pages that are enabled, 2 inputs, up to 2 asks and 3 confirmations in 4 clicks; symmetry | a receipt is of its input, `QuotedJobs` is implemented, repeats make one job, accepted is true (1,745,900 states) |
| `keyed_writes` | every row of `PortalWrites` (23 different ones), 2 form contents, 3 clicks, 1 write of another tab | repeats are recognized, answers are own and true (1,972,800 states) |

**Bounds.** Each interference needs at most two of a kind: two sessions to decide
differently, two handlers to race for one operation row, two user ids for a relink between
attempts, two bridge attempts (the code's own number), two workers for a takeover. One
request is enough for the races because requests share nothing but the pending cap and
the ledger, whose entries a step finds by their key; the cap itself is never met with one
request, and the theorems hold for any number of requests under any cap. `AttemptLimit` 4 with reconcile limits {1, 4} puts an Admin's limit on
both sides of `MAX_DISPATCH_ATTEMPTS` 3, and lets a job be claimed once more than three
times; the route accepts up to 10. Counters need no further cap: attempts end with
`MAX_DISPATCH_ATTEMPTS` and the reconcile limit, and the ledger with the keys. Sessions,
handlers and user ids are interchangeable and nothing singles one out, so the symmetry of
`topup_one_request`, which checks no liveness, is sound. In `image_ocr` two operations contend for the one slot and for a quota of 1,
so that the quota is refused after a text has been published; two crashes (`MaxCrashes`) let
a row or file of one process be met young by the second and old by the third. Four
file names are enough: beyond one recorded or live output per operation, only a crash
leaves a file behind.

In `live_stream` two socket ids are enough for a superseded socket whose coroutine is
still at the bridge: an id is used again once both its ends are gone, so the number of
reconnects is bounded only by the attempts. Two frames are the least with which one frame
overtakes another, and the third fills a buffer of 2, which ends the capture; two segments
are the least for one to be retried while another is open; a budget of 1 is met, and reset at
`session.ready` (the code has 500 and 5). A second attempt in one outage is left to the
theorems; that a reconnect settles has been checked with a budget of 2 and two frames as well
(261,000 states), and the safety properties with three frames, three segments and a budget of 2
(3.2 million states). In `portal_reads` every page of the table is a starting state of its own, and
`MaxMoves` bounds what happens on it besides its bootstrap: one more `hydrate()` or click,
two on `/analytics/id` and `/admin/topups`, where several scripts meet in one slot, and on
the pages that handoffs lead to, so that one may go there and back while either page's reads
are under way; none on the dashboard and the three
pages of content handoffs, whose chains of many
parallel reads are interference enough. One more ask is what it takes for an answer to be
late; the theorems have no such bound. The readers of unrelated workspaces share neither epochs nor slots, so their
product adds nothing. In `keyed_writes` three clicks (`MaxClicks`) are a click, its repeat and
another in between or after; two contents are enough for a form to be edited and edited
back; one write of another tab (`MaxElsewhere`) makes a revision stale. In `feature_quotes` two asks (`MaxAsks`) give two receipts, of which one
is late; four clicks (`MaxClicks`) in all are an estimate, a confirmation, its repeat after
another estimate, or a confirmation, an edit and a confirmation under a new key. Inputs are
interchangeable, so the symmetry is sound. The theorems have no such bounds.

`CHECK_DEADLOCK` is on for the server's models. It is off for `live_stream`,
`live_stream_silent_drop` and `portal_reads`: a capture that was ended and a page nobody
clicks on really do stop.

**Fairness.** Handlers and settlements have weak fairness: the event loop resumes every
coroutine, the bridge client's timeouts (12 s, 4 s to connect) end every await, and a
database step either commits or fails. Workers are assumed to keep polling and to end
their claims (by reporting, or by dying: `Abandon`), leases lapse because time passes.
*That an Admin calls reconcile from time to time is an assumption about operation, not
code*: no scheduler in the repository calls it, and without it a job whose third worker
dies stays `processing`. `RetryingSpec`, used only for the violated recovery property,
adds strong fairness of drafting and confirming: Admins who keep retrying.
In `ImageOcr` a handler goes on (Tesseract has a timeout of 30 s and files a limit of 20 MB),
other features give the slot back, the platform restarts the process, the scan runs in a
thread of its own, and an hour passes over a row nobody works on. Nothing is assumed of
requests, downloads or crashes.
In `LiveStream` the reconnect timer fires, the browser dispatches the events of a socket,
coroutines run and calls to the Bot return (they have a timeout). Nothing is assumed of
the network, of the speaker or of frames.
`KeyedWrites` and `FeatureQuotes` have safety properties only and assume no fairness.
That a dispatched operation gets an outcome is no property of the code, as
`topup_crash_dispatched` shows: a crash, an exception or a cancelled request leaves it without
a handler. What holds is stated as an action property (`UnknownOutcomesStayLocked`): then
nothing is risked on it any more.

**Mutants.** For every property of a passing run, `PROJECT.json` names a definition and a
faulty form of it (defined beside it: `SameAmount`, `StableKeyPerSession`, ...) under which
that property fails.

## 4. Findings

1. **A credited request can be rejected** (`RejectsOnlyUncredited`). `confirm_web_manual_topup_reject`
   does not read the credit operation. A rejection confirmed while another session's
   approval is at the bridge, or has its receipt stored, leaves a rejected request whose
   credit is booked; finalize then answers `MANUAL_ADMIN_NOT_PENDING`. The tests say a
   rejection means no Bot credit.
2. **A crash while dispatched locks the request** (`DispatchRecovers`), and so does an
   exception or a cancelled request before the outcome is stored. The `dispatched` row is a
   lock without expiry: every later confirm answers
   `MANUAL_ADMIN_CONFIRMATION_IN_PROGRESS`, though the audit's recovery contract promises
   that the marker is released and the client can retry with the same key.
3. **A successful settlement is recorded as failed** (`SettlementIsRecorded`).
   `_sanitize_envelope` does not know the status `settled`; the settlement records what it
   made of it. The tests mock `bridge_request` and so never pass the sanitizer.
4. **An interrupted OCR row stays `processing`** (`InterruptedSettles`). The startup scan
   fails only rows older than an hour and runs once per process. After a crash and a restart
   within the hour the row is too young, nothing scans again while that process lives, and
   the server-derived key makes every retry a replay of `processing`. The comment in
   `reconcile_document_operation_storage` says this must never last forever.
   `OldInterruptedSettles` is the part that holds.

5. **A frame is let go of unprocessed** (`NoSilentDrop`). Frame 1 is captured before the
   socket opens. `onopen` asks for `session.reconnect`; frame 2 is captured and sent at
   once, before `session.reconnected` starts the replay of frame 1. The gateway closes a
   segment with frame 2, commits it and acknowledges 2, cumulatively: the client evicts
   frame 1, and its replay, when it comes, is answered `duplicate_ignored`. The comment
   over the buffer promises `UNACKED_FRAME_SILENT_DROP=0`.

Consequences that no document contradicts, and so are in the models without a run: the
last answer of a settle call may be lost after the debit, which is recorded as failed; a
crash during settlement leaves its row `pending` or missing forever (`pc = "lost"` in
`SettlementResolves`); a video whose duration rounds to 0.000 s is delivered and not settled. At the gateway: a
waiter of a claim that failed transiently logs `bridge_res`, which it never bound, and
fails the session; after a session's end every frame is answered as a duplicate, which
evicts frames nobody has processed; `isReconnecting` stays set when the first reconnect
comes before any frame, because nothing is then confirmed. In the portal: the detail of a
top-up request may select the request again after a newer list has put the selection away
(the two readers have epochs of their own), a page reached by a handoff while a `hydrate()`
of the old page awaits its bootstrap loses what it asked for to the old page, which that
merge puts back, three readers do not look at the session
again when their answer arrives (`manualTopupHistory`, `adminManualTopupDetail`,
`storyboardGrid`, hence `Private`), and a link status that cannot be read says nothing. Not in the model either, which has one project: when drafts are
attached to two projects in one document, a late script of the first project's buttons reads its own
project without looking at the page; that revokes the read of the second one, which stays
`processing`.

In the feature quotes: a route whose input names an asset checks the asset before it looks for the job of
the key, so a repeat after the asset went is refused and releases the receipt of a job that
exists. The key of a confirmation is never discarded, so a second, deliberate confirmation of
the same form under a new estimate is answered with the first job and consumes the new
receipt. After a confirmation that Core could not take, the page asks for a new
estimate though the old receipt is still claimed for its key. A repeat that meets the first
at Core is answered `IDEMPOTENCY_IN_PROGRESS`, which `_feature_action` takes for a refusal:
it releases the receipt, which a confirmation under another key then claims. That makes two
jobs of one estimate for a feature that Core makes and whose page offers the confirmation of
an edited form. Of the features enabled in this commit only `voice_tts` is made by Core, and
its page hides the button, so `Steady` in `OneJobPerEstimate` holds for it.

In the writes of the portal (`Careful` and `Attentive` say which rows are meant):

* Memory Center, Projects and payments never discard a key. A form that is sent again
  unchanged on the same page is answered with what was decided before, also when another
  tab has written the record meanwhile (`projectUpdate` sends no revision), and also when
  that was a refusal, which Memory Center and Projects keep.
* The Admin's retry, refund and freeze discard their key at any answer with a status. The
  comment there says that "a server response is no longer ambiguous", but
  `CORE_BRIDGE_UNAVAILABLE` and `IDEMPOTENCY_IN_PROGRESS` are answers with a status, and the
  next click asks Core under a new key.
* `api()` throws the status of an answer whatever its body. Behind a gateway that answers
  502 or 504, or when the body is cut off, a block that discards at a status sends the next
  click under a new key. Where the write moves a revision that the page sends, the route
  then refuses it as stale; creates and the duplicates that move nothing are done twice.
* A reservation that is taken over while its owner still waits may keep a refusal although
  the owner's call is accepted later: `AnswersAreTrue` is about native routes.

## 5. Proofs

All theorems hold for every set of requests, accounts, users, sessions, handlers, jobs,
processes, operations, files, readers, pages and limits. They assume only what the `ASSUME`s of the modules name: owners are
accounts, amounts are positive, `NULL` is no user, `NoFile` is no file, workers have ids of their own, limits
are at least 1 and bounded by `AttemptLimit`. `OrderlyPagesSettle` and `PromisesAreKept` are
about tables that are `Orderly`, which `MCPortalReads` assumes of the portal's own table by
name and TLC evaluates.

* **Manual top-up.** No safety property is inductive alone: finalizing relies on the
  stored receipt being booked, which relies on the handler's answer, which relies on the
  row the claim wrote. `IInv` is the conjunction of the type invariant and all checked
  safety invariants with three facts that close the induction: an operation exists only
  for a submitted request and carries its amount (`OperationsFollowRequests`), what was
  sent carries its request's key (`KeysNameRequests`), and a consumed approval receipt
  means an approved request (`ReceiptsFollowDecisions`). `InvariantHolds` proves it, one
  lemma per group of actions, with frame lemmas for the parts a step does not touch. The
  safety theorems and the three action properties (`DecisionsStay`, `EvidenceStays`,
  `UnknownOutcomesAreNotRisked`) are its corollaries, and `Refinement` shows that every step is a step of `TopupLedger` or a
  stutter.
* **Dispatcher.** `IInv` adds to the types that a queued job has an attempt left under
  every limit (so that the next claim stays within the type), that only a claimed job has
  a lease, and that a process whose id the row carries made the job's latest claim
  (`OwnerIsLatest`). `LatestCompletes` is where the last is needed: the code compares ids,
  the theorem says that with ids of their own this compares claims.
* **Settlement.** `SettlementIInv` takes the dispatcher's invariant as it is proved, and
  adds that a settlement belongs to a completed job, that its row says how far it came
  (`SettlersFollowJobs`) and that debits carry their job's key. `SettlementRefinement` is
  the refinement of `PaidDelivery`.
* **Live stream.** `TypeCorrect`, `BufferIsTail`, `AcksStandBehind` and `OneBridge` prove
  the three invariants and the types for every number of
  sockets, frames and segments and every buffer and budget. What the client believes rests
  on what is on its way to it and that on what coroutines hold: the induction needs that
  every acknowledgement in a queue or in a woken coroutine is backed by the server's mark,
  that a segment claimed is a segment closed, and that a claim's leader is the only
  coroutine at the bridge with it. `Refinement` is the refinement of `SpeechRelay`, with one
  lemma per abstract action: an acknowledgement heard is a `Release` or nothing, a frame that
  closes a segment is a `Take` because the frame itself is new, one that leads back to a segment a `TakeAgain` or
  nothing, and an answer of the Bot the end of the one claim under way, whether its socket
  still counts or not. Everything else shows only in that the session may be over.
  `CommitsFinal` states a part of it on its own: an outcome stays. `SpeechRelay` lets the mark
  run over frames that were never answered, which is what `live_stream_silent_drop` shows.
* **Portal reads.** `PortalReads_proofs` is about any table of readers and pages, not
  only this one. `IInv` is the types, that a request under way has advanced its epochs and
  they have not gone back (`ReadsAreAsked`), and that a slot was written by a reader whose
  epochs are at least that far (`SlotsAreAsked`). With it `LatestWins` follows for the
  `Guarded` slots: those for which every pair of readers is ordered by an epoch they share
  or by one that watches the other. It says nothing of the other slots, where lists and
  records are ordered by their scripts, which is what `PagesSettle` is about.
  `OrderlyPagesSettle` proves that one for every table that is `Orderly`, and
  `PromisesAreKept` what is behind it: at any time a promised slot says what came of it or
  has a reader on its way. `Orderly` is about the table alone: a script that overtakes the
  reader of a promised slot, takes the slot down or empties it, brings it back itself, then or
  later, before an exception can end it; what a reader revokes fails with it; and what may still
  be under way from any page of the document does no harm to the page that comes after it
  (`Bygone`). The document's pages are those joined by links and handoffs, in either direction
  (`Closed`, `Joined`), so Back and Forward leave nothing out: what was asked on one page
  may be answered on any other, or on the same page once it is back. The first reads of a page are asked
  for in the step that promises them (a merge or a handoff), so a late answer that would empty one of its slots is
  overtaken by them (`Overtaken`), or its script brings the slot back. A refresh that asks for a
  list and a record at once, where the list's answer empties the record, is not orderly,
  and does leave a blank page. The portal's table is orderly: `MCPortalReads` assumes so and
  TLC evaluates the assumption on every run. The induction (`SettlingInv`) needs that the page on the
  screen counts on one of the `Duties`, a page with the chain or the script of the handoff that brought
  it there (`OnDuty`); that everything under way was begun on a page of this document
  (`PagesJoined`) and fits every duty that may still come to the screen (`TasksFit`,
  `ReadsFit`), so that it can be said again of whichever comes next; that what takes down
  something owed repairs it (`Repairs`); and that ids of scripts stay apart (`IdsFit`): only
  then is a reader that throws alone in its script, so that nothing counted on is lost with it.
* **Portal writes.** `KeyedWrites_proofs` is about any set of rows, values and any number of
  clicks. None of the three properties is inductive alone. `IInv` says how intents, keys,
  revisions and effects correspond: a careful action sends an intent under one key and keeps
  it while the intent is in doubt (`OneKeyPerIntent`); an attentive one uses a key for one
  intent (`OneIntentPerKey`); the key in flight is the last click's (`LatestCall`); under a key
  one thing is done, of which the receipts of a native route know (`OneEffectPerKey`); an
  intent is of one revision (`OneRevisionPerIntent`).
* **Feature quotes.** `IInv` is about *uses*: whatever may become a job under a receipt, or
  became one, wherever it is (in flight, at the server, at Core, in the table). Every use is of
  its receipt's input, a key is used for one input (`UsesAreSound`), and a receipt that the
  page has not shown has no use (`QuotesAreNew`). Only `Confirm` adds a use. Two arguments
  then give one job per estimate: the page has one key for a receipt and for an intent where
  an edited form cannot be confirmed (`PageHoldsKey`), and the key that holds a receipt keeps it where the
  route's verdict never changes (`NativeHoldsReceipts`). `AcceptedIsThere` carries the truth of
  an answer from the job to the page. `OneJob` says that an estimate becomes one job, and
  `Refinement`, with it, that every step is a step of `QuotedJobs` or a stutter: an available
  estimate is a `Quote`, the job of a new key, made here or at Core, is a `Make`, and claims,
  settlements and expiry of a receipt do not show.
* **Image OCR.** `IInv` adds that a handler has a file exactly from publishing to recording it
  or unlinking it (`HandlersFit`), that a row refers to a file exactly when it was delivered
  (`RowsFit`), and that a published file is young and unrecorded, and what the scan goes to
  unlink is old and unrecorded (`FilesFit`). That the slot has one holder is what makes
  the other files of a step its own. `Refinement` is the refinement of `LocalJob`.

**Only model-checked:** liveness (`JobsTerminate`, `SettlementResolves`,
`SlotComesFree`, `OldInterruptedSettles`, `ReconnectSettles`): they
need fairness and `ENABLED`, which are out of the prover's reach. That the portal's own table
is `Orderly` is evaluated by TLC: there is nothing to prove about a finite table.
The violated properties have TLC counterexamples.

**Only proved:** `CreditedOnce`, `DebitedOnce`, `NoChargeWithoutDelivery`, `CommitsAreFinal`
and `OneJobPerEstimate`, which the refinements imply, and the types of `PortalReads` and `FeatureQuotes` have theorems
and no place in a run.

## 6. Plan

Done: 1. `ManualTopup`, `TopupLedger`. 2. `VideoDispatch`, `VideoSettlement`,
`PaidDelivery`. 3. `ImageOcr`, `LocalJob`. 4. `LiveStream`, `SpeechRelay`. 5. `PortalReads`,
`PortalViews`. 6. `KeyedWrites`, `PortalWrites`. 7. `FeatureQuotes`, `QuotedJobs`. Each with its proofs.

Open, in this order:

8. `NotificationTick`: lease with fence token, run receipts and nonces, deadline and
   action budget, deduplicated materialization of reminders, expiry in the middle of a run,
   crash. Abstract specification: every due occurrence becomes at most one notice. The
   Autopilot's tick has the same shape and shares the module where the code does.
9. `TelegramLink`: link and login challenges, the Bot's callback, completion by the
   initiating browser, session revocation. To prove: a canonical user belongs to one
   account, a code is consumed once and by its session.
10. `MfaLogin`: password throttle, challenge supersede, TOTP step replay, recovery codes,
   attempt lock. To prove: no factor is accepted twice.
11. `AutopilotApproval`: compare-and-set decisions, expiry, proposals and incidents.
12. `ImageUpscale`: its status machine and the finalizing update without a status guard.
13. Further proofs: a refinement of `KeyedWrites`, and of `VideoDispatch` without settlement.

The executors whose scan is given the start time of the process (`interrupted_before`: image
operations, frame video and others) have a handler like that of `ImageOcr` and another
scan rule: a constant that chooses the rule would cover the scan, their handlers have to be
read first.

## 7. Not modelled

Request signing, schema migration, read projections and wording; file and media codecs;
what the studios' edits write (only how they are asked for and kept is modelled); the stateless policy engines and catalogs; of the
portal's JavaScript the writes listed under Abstractions, rendering and layout (`portal.js`), and
the texts (`portal-i18n.js`, the catalogs), which are data; the retired prototype modules
that `app.py` does not mount. `PROJECT.json` gives the reason for each component.

Deployment: the repository runs the application as one process (`Procfile`,
`railway.json`, and a systemd service). The models do not rely on that: the locks are
rows. `Crash` ends all handlers, as the death of that process does.

## 8. Reproducing

```
tlc -workers 2 -config topup_one_request.cfg MCManualTopup
tlc -workers 2 -config video_settlement.cfg MCVideoSettlement
tlc -workers 2 -config image_ocr.cfg MCImageOcr
tlc -workers 2 -config live_stream.cfg MCLiveStream
tlc -workers 2 -config portal_reads.cfg MCPortalReads
tlc -workers 2 -config keyed_writes.cfg MCKeyedWrites
tlc -workers 2 -config feature_quotes.cfg MCFeatureQuotes
tlapm ManualTopup_proofs.tla
tlapm VideoDispatch_proofs.tla
tlapm VideoSettlement_proofs.tla
tlapm ImageOcr_proofs.tla
tlapm LiveStream_proofs.tla
tlapm PortalReads_proofs.tla
tlapm KeyedWrites_proofs.tla
tlapm FeatureQuotes_proofs.tla
```
