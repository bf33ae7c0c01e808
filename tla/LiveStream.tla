----------------------------- MODULE LiveStream -----------------------------
(***************************************************************************)
(* One captured tab of the Live Translate extension (offscreen.js) and the *)
(* gateway it streams to (copyfast_realtime_translate.py).                 *)
(*                                                                         *)
(* The client numbers audio frames, keeps each one until the server        *)
(* acknowledges it, and replays what is left after a reconnect.  The       *)
(* server gathers frames into speech segments, has the Bot process each    *)
(* segment, and acknowledges cumulatively.  A socket is a pair of queues   *)
(* that a network failure cuts short; its server half, a coroutine, lives  *)
(* on until it notices.                                                    *)
(*                                                                         *)
(* A frame here is a run of audio long enough to close a segment, so any   *)
(* frame may be the one at which push_chunk finds the boundary.            *)
(***************************************************************************)
EXTENDS Integers, Sequences, FiniteSets

CONSTANTS
    Sockets,                \* socket ids; one is used again once both ends are gone
    NoSocket,               \* webSocket === null
    MaxSeq,                 \* bound: frames captured
    MaxSegments,            \* bound: segments the ingress buffer closes
    MAX_UNACKED_FRAMES,
    MAX_RECONNECT_ATTEMPTS

ASSUME SocketAssumption == NoSocket \notin Sockets
ASSUME BoundAssumption ==
    /\ MaxSeq \in Nat /\ MaxSegments \in Nat
    /\ MAX_UNACKED_FRAMES \in Nat \ {0}
    /\ MAX_RECONNECT_ATTEMPTS \in Nat \ {0}

VARIABLES
    \* offscreen.js
    currentSeq, lastAckSeq, isCapturing, reconnectAttempts, isReconnecting,
    reconnectTimer,         \* a reconnect is scheduled
    webSocket,              \* the socket frames are sent on
    unackedFrames,
    \* the connections
    link,                   \* readyState as the client sees it, and what the server made of it
    up, down,               \* messages under way
    \* RealtimeTranslateSession and its ingress buffer
    active,                 \* state is ACTIVE, not ENDED or ERROR
    lease,                  \* the socket that holds current_socket_lease
    lastProcessed,          \* last_processed_seq, which is also last_ack_seq
    processed, rejected, buffered,
    ingress,                \* the partial segment
    segment,                \* the segments closed so far
    pending,                \* pending_retry_segments
    inflight,               \* inflight_claims_by_seq
    outcome,                \* what became of each segment
    \* the coroutine of each socket
    handler,
    answered                \* history: the frames the Bot gave an answer to

client == <<currentSeq, lastAckSeq, isCapturing, reconnectAttempts, isReconnecting,
            reconnectTimer, webSocket, unackedFrames>>
wires == <<link, up, down>>
marks == <<lastProcessed, processed, rejected, answered>>
session == <<active, lease, marks, buffered, ingress, segment, pending, inflight, outcome>>
vars == <<client, wires, session, handler>>

Seqs == 1..MaxSeq
SegIds == 1..MaxSegments

Frame(q) == [type |-> "frame", seq |-> q]
Reconnect == [type |-> "session.reconnect", seq |-> 0]
Ready == [type |-> "session.ready", seq |-> 0]
Reconnected(q) == [type |-> "session.reconnected", seq |-> q]
Ack(q) == [type |-> "ack", seq |-> q]
Close == [type |-> "close", seq |-> 0]   \* 4409 or an abnormal end: never a terminal code

Upstream == {Frame(q) : q \in Seqs} \cup {Reconnect}
Downstream == {Ready, Close} \cup {Reconnected(q) : q \in 0..MaxSeq} \cup {Ack(q) : q \in Seqs}

Links == {"closed", "connecting", "accepted", "refused", "open"}
Outcomes == {"none", "inflight", "success", "rejected", "transient"}

NoHandler == [pc |-> "none", seg |-> 0, res |-> "none", ack |-> 0, called |-> FALSE]
Handlers == [pc: {"none", "receive", "bridge", "claim", "woken"}, seg: 0..MaxSegments,
             res: Outcomes, ack: 0..MaxSeq, called: BOOLEAN]

NoAudio == [start |-> 0, end |-> 0, frames |-> {}]
Audio == [start: 0..MaxSeq, end: 0..MaxSeq, frames: SUBSET Seqs]

\* Types.
TypeOK ==
    /\ currentSeq \in 0..MaxSeq /\ lastAckSeq \in 0..MaxSeq
    /\ isCapturing \in BOOLEAN /\ isReconnecting \in BOOLEAN /\ reconnectTimer \in BOOLEAN
    /\ reconnectAttempts \in 0..MAX_RECONNECT_ATTEMPTS
    /\ webSocket \in Sockets \cup {NoSocket}
    /\ unackedFrames \subseteq Seqs
    /\ link \in [Sockets -> Links]
    /\ up \in [Sockets -> Seq(Upstream)] /\ down \in [Sockets -> Seq(Downstream)]
    /\ active \in BOOLEAN /\ lease \in Sockets \cup {NoSocket}
    /\ lastProcessed \in 0..MaxSeq
    /\ processed \subseteq Seqs /\ rejected \subseteq Seqs /\ buffered \subseteq Seqs
    /\ answered \subseteq Seqs
    /\ ingress \in Audio
    /\ segment \in [SegIds -> Audio]
    /\ pending \in [Seqs -> 0..MaxSegments] /\ inflight \in [Seqs -> 0..MaxSegments]
    /\ outcome \in [SegIds -> Outcomes]
    /\ handler \in [Sockets -> Handlers]

Init ==
    /\ currentSeq = 0 /\ lastAckSeq = 0 /\ reconnectAttempts = 0
    /\ isCapturing = FALSE /\ isReconnecting = FALSE /\ reconnectTimer = FALSE
    /\ webSocket = NoSocket /\ unackedFrames = {}
    /\ link = [s \in Sockets |-> "closed"]
    /\ up = [s \in Sockets |-> <<>>] /\ down = [s \in Sockets |-> <<>>]
    /\ active = TRUE /\ lease = NoSocket /\ lastProcessed = 0
    /\ processed = {} /\ rejected = {} /\ buffered = {} /\ answered = {}
    /\ ingress = NoAudio
    /\ segment = [i \in SegIds |-> NoAudio]
    /\ pending = [q \in Seqs |-> 0] /\ inflight = [q \in Seqs |-> 0]
    /\ outcome = [i \in SegIds |-> "none"]
    /\ handler = [s \in Sockets |-> NoHandler]

-----------------------------------------------------------------------------
(* The client.                                                             *)

IsOpen(s) == s # NoSocket /\ link[s] = "open"

\* The client is done with the sockets in S and hears nothing more of them.
Shut(S) ==
    /\ link' = [s \in Sockets |-> IF s \in S THEN "closed" ELSE link[s]]
    /\ down' = [s \in Sockets |-> IF s \in S THEN <<>> ELSE down[s]]

\* stopCapture({force: true}), which notifyFailure calls.
ForceStop ==
    /\ isCapturing' = FALSE /\ reconnectTimer' = FALSE /\ isReconnecting' = FALSE
    /\ reconnectAttempts' = 0 /\ webSocket' = NoSocket

\* initWebSocket: an id is free when neither end is left.
OpenSocket(s) ==
    /\ link[s] = "closed" /\ handler[s].pc = "none"
    /\ webSocket' = s
    /\ link' = [link EXCEPT ![s] = "connecting"]
    /\ up' = [up EXCEPT ![s] = <<>>] /\ down' = [down EXCEPT ![s] = <<>>]

\* startCapture, once the tab's audio is there; one capture of one session.
StartCapture(s) ==
    /\ ~isCapturing /\ currentSeq = 0 /\ active /\ lease = NoSocket
    /\ \A t \in Sockets : link[t] = "closed"
    /\ OpenSocket(s)
    /\ isCapturing' = TRUE
    /\ UNCHANGED <<currentSeq, lastAckSeq, reconnectAttempts, isReconnecting,
                   reconnectTimer, unackedFrames, session, handler>>

\* The callback of scheduleReconnect's timer.
ReconnectTimer(s) ==
    /\ reconnectTimer
    /\ reconnectTimer' = FALSE
    /\ OpenSocket(s)
    /\ UNCHANGED <<currentSeq, lastAckSeq, isCapturing, reconnectAttempts, isReconnecting,
                   unackedFrames, session, handler>>

\* onaudioprocess and recordUnackedFrame.  A full buffer ends the capture.
AudioFrame ==
    /\ isCapturing /\ currentSeq < MaxSeq
    /\ currentSeq' = currentSeq + 1
    /\ IF Cardinality(unackedFrames) >= MAX_UNACKED_FRAMES
       THEN ForceStop /\ Shut({webSocket}) /\ UNCHANGED <<unackedFrames, up>>
       ELSE /\ unackedFrames' = unackedFrames \cup {currentSeq'}
            /\ up' = IF IsOpen(webSocket)
                     THEN [up EXCEPT ![webSocket] = Append(@, Frame(currentSeq'))] ELSE up
            /\ UNCHANGED <<isCapturing, reconnectAttempts, isReconnecting, reconnectTimer,
                           webSocket, link, down>>
    /\ UNCHANGED <<lastAckSeq, session, handler>>

\* onopen.
Opened(s) ==
    /\ link[s] = "accepted"
    /\ link' = [link EXCEPT ![s] = "open"]
    /\ IF currentSeq > 0 \/ lastAckSeq > 0
       THEN /\ isReconnecting' = TRUE
            /\ up' = [up EXCEPT ![s] = Append(@, Reconnect)]
       ELSE UNCHANGED <<isReconnecting, up>>
    /\ UNCHANGED <<currentSeq, lastAckSeq, isCapturing, reconnectAttempts, reconnectTimer,
                   webSocket, unackedFrames, down, session, handler>>

\* onclose.  What had not reached the server yet may be lost.
SocketClosed(s, terminal) ==
    /\ \E k \in 0..Len(up[s]) : up' = [up EXCEPT ![s] = SubSeq(@, 1, k)]
    /\ IF terminal \/ reconnectAttempts >= MAX_RECONNECT_ATTEMPTS
       THEN ForceStop /\ Shut({s, webSocket})
       ELSE /\ isReconnecting' = TRUE /\ reconnectTimer' = TRUE
            /\ reconnectAttempts' = reconnectAttempts + 1
            /\ Shut({s})
            /\ UNCHANGED <<isCapturing, webSocket>>
    /\ UNCHANGED <<currentSeq, lastAckSeq, unackedFrames, session, handler>>

\* The connection breaks, or never comes about.
Drop(s) == link[s] \in {"connecting", "accepted", "open"} /\ SocketClosed(s, FALSE)

\* The server refused the socket: with a terminal code, or (closed before it
\* was accepted) as a failed handshake, which a browser reports as 1006.
Refused(s) == link[s] = "refused" /\ \E terminal \in BOOLEAN : SocketClosed(s, terminal)

\* The server closed the socket with a code that is not terminal.
HearClose(s) == link[s] = "open" /\ down[s] # <<>> /\ Head(down[s]) = Close /\ SocketClosed(s, FALSE)

Hears(s, type) ==
    /\ link[s] = "open" /\ down[s] # <<>> /\ Head(down[s]).type = type
    /\ down' = [down EXCEPT ![s] = Tail(@)]

HearReadyResets(s) ==
    /\ Hears(s, "session.ready")
    /\ reconnectAttempts' = 0
    /\ UNCHANGED <<currentSeq, lastAckSeq, isCapturing, isReconnecting, reconnectTimer,
                   webSocket, unackedFrames, link, up, session, handler>>

\* session.ready: not an end of a reconnect.
HearReady(s) ==
    /\ Hears(s, "session.ready")
    /\ reconnectAttempts' = IF isReconnecting \/ currentSeq > 0 \/ lastAckSeq > 0
                            THEN reconnectAttempts ELSE 0
    /\ UNCHANGED <<currentSeq, lastAckSeq, isCapturing, isReconnecting, reconnectTimer,
                   webSocket, unackedFrames, link, up, session, handler>>

Larger(a, b) == IF a >= b THEN a ELSE b

AcknowledgeLatest(q) ==
    /\ lastAckSeq' = q
    /\ unackedFrames' = {f \in unackedFrames : f > lastAckSeq'}

\* evictAcknowledgedFrames, with lastAckSeq raised to q.
Acknowledge(q) ==
    /\ lastAckSeq' = Larger(lastAckSeq, q)
    /\ unackedFrames' = {f \in unackedFrames : f > lastAckSeq'}

\* Cumulative acknowledgement.
HearAck(s) ==
    /\ Hears(s, "ack")
    /\ Acknowledge(Head(down[s]).seq)
    /\ UNCHANGED <<currentSeq, isCapturing, reconnectAttempts, isReconnecting, reconnectTimer,
                   webSocket, link, up, session, handler>>

ReplayOneMore == [i \in 1..(currentSeq - lastAckSeq' + 1) |-> Frame(lastAckSeq' + i)]

\* replayUnackedFrames: the frames after lastAckSeq, in order (UnackedIsTail).
Replay == [i \in 1..(currentSeq - lastAckSeq') |-> Frame(lastAckSeq' + i)]

HearReconnected(s) ==
    /\ Hears(s, "session.reconnected")
    /\ isReconnecting' = FALSE /\ reconnectAttempts' = 0
    /\ Acknowledge(Head(down[s]).seq)
    /\ up' = IF IsOpen(webSocket) THEN [up EXCEPT ![webSocket] = @ \o Replay] ELSE up
    /\ UNCHANGED <<currentSeq, isCapturing, reconnectTimer, webSocket, link, session, handler>>

-----------------------------------------------------------------------------
(* The gateway: websocket_live_stream, from one await to the next.         *)

\* Sends to a client that is gone go nowhere.
Say(s, m) ==
    down' = IF link[s] \in {"accepted", "open"} THEN [down EXCEPT ![s] = Append(@, m)] ELSE down

Accept(s) ==
    /\ link[s] = "connecting" /\ active
    /\ link' = [link EXCEPT ![s] = "accepted"]
    /\ down' = [down EXCEPT ![s] = <<Ready>>]
    /\ lease' = s
    /\ handler' = [handler EXCEPT ![s].pc = "receive"]
    /\ UNCHANGED <<client, up, active, marks, buffered, ingress, segment, pending, inflight,
                   outcome>>

\* The session is over, or its stream token (TOKEN_TTL_SECONDS) has expired.
Refuse(s) ==
    /\ link[s] = "connecting"
    /\ link' = [link EXCEPT ![s] = "refused"]
    /\ UNCHANGED <<client, up, down, session, handler>>

Goes(s, h) == handler' = [handler EXCEPT ![s] = h]

Taken(s) == up' = [up EXCEPT ![s] = Tail(@)]
Receives(s, type) == handler[s].pc = "receive" /\ up[s] # <<>> /\ Head(up[s]).type = type

\* The recheck of the lease after receive().
LeaveStale(s) ==
    /\ handler[s].pc = "receive" /\ up[s] # <<>> /\ lease # s
    /\ Taken(s) /\ Goes(s, NoHandler) /\ Say(s, Close)
    /\ UNCHANGED <<client, link, session>>

\* handle_reconnect: the partial segment is dropped, to be replayed.
ReceiveReconnect(s) ==
    /\ Receives(s, "session.reconnect") /\ lease = s
    /\ Taken(s)
    /\ buffered' = {}
    /\ ingress' = [ingress EXCEPT !.start = 0, !.frames = {}]
    /\ Say(s, Reconnected(lastProcessed))
    /\ UNCHANGED <<client, link, active, lease, marks, segment, pending, inflight, outcome,
                   handler>>

Span(g) == IF g.start =< g.end THEN g.start..g.end ELSE {g.end}

\* is_range_processed.
RangeProcessed(g) == g.end =< lastProcessed \/ Span(g) \subseteq processed

AcceptsRefused(q) == active /\ q \notin processed /\ q > lastProcessed

\* accept_audio_sequence.
Accepts(q) == active /\ q \notin processed \cup rejected /\ q > lastProcessed

\* A frame that is already processed or rejected, or comes after the end.
ReceiveDuplicate(s) ==
    /\ Receives(s, "frame") /\ lease = s
    /\ ~Accepts(Head(up[s]).seq)
    /\ Taken(s)
    /\ Say(s, Ack(Head(up[s]).seq))
    /\ UNCHANGED <<client, link, session, handler>>

Fresh(s) == Receives(s, "frame") /\ lease = s /\ Accepts(Head(up[s]).seq)

HandleAgain(s, i, g) ==
    IF RangeProcessed(g)
    THEN Say(s, Ack(g.end)) /\ UNCHANGED <<buffered, inflight, outcome, handler>>
    ELSE /\ outcome' = [outcome EXCEPT ![i] = "inflight"]
         /\ inflight' = [q \in Seqs |-> IF q \in Span(g) THEN i ELSE inflight[q]]
         /\ buffered' = buffered \ Span(g)
         /\ handler' = [handler EXCEPT ![s].pc = "bridge", ![s].seg = i, ![s].called = TRUE]
         /\ UNCHANGED down

\* What a segment i, with audio g, meets when a frame completes or recalls it.
\* (Segments with a final outcome are not met again: BridgedOnce.)
Handle(s, i, g) ==
    IF RangeProcessed(g)
    THEN /\ Say(s, Ack(g.end))
         /\ UNCHANGED <<buffered, inflight, outcome, handler>>
    ELSE IF outcome[i] = "inflight"
    THEN /\ handler' = [handler EXCEPT ![s].pc = "claim", ![s].seg = i]
         /\ UNCHANGED <<down, buffered, inflight, outcome>>
    ELSE /\ outcome' = [outcome EXCEPT ![i] = "inflight"]
         /\ inflight' = [q \in Seqs |-> IF q \in Span(g) THEN i ELSE inflight[q]]
         /\ buffered' = buffered \ Span(g)
         /\ handler' = [handler EXCEPT ![s].pc = "bridge", ![s].seg = i, ![s].called = TRUE]
         /\ UNCHANGED down

Recalled(q) == IF pending[q] # 0 THEN pending[q] ELSE inflight[q]

\* A frame of a segment that awaits a retry, or that the Bot is working on.
ReceiveRecalled(s) ==
    /\ Fresh(s) /\ Recalled(Head(up[s]).seq) # 0
    /\ LET i == Recalled(Head(up[s]).seq) IN Handle(s, i, segment[i])
    /\ Taken(s)
    /\ UNCHANGED <<client, link, active, lease, marks, ingress, segment, pending>>

\* A frame that is in the partial segment already.
ReceiveBuffered(s) ==
    /\ Fresh(s) /\ Recalled(Head(up[s]).seq) = 0 /\ Head(up[s]).seq \in buffered
    /\ Taken(s)
    /\ UNCHANGED <<client, link, down, session, handler>>

\* push_chunk.
Pushed(q) == [start |-> IF ingress.frames = {} THEN q ELSE ingress.start,
              end |-> q, frames |-> ingress.frames \cup {q}]

New(s) == Fresh(s) /\ Recalled(Head(up[s]).seq) = 0 /\ Head(up[s]).seq \notin buffered

ReceivePartialAcked(s) ==
    /\ New(s)
    /\ LET q == Head(up[s]).seq
       IN  ingress' = Pushed(q) /\ buffered' = buffered \cup {q} /\ Say(s, Ack(q))
    /\ Taken(s)
    /\ UNCHANGED <<client, link, active, lease, marks, segment, pending, inflight, outcome,
                   handler>>

ReceivePartial(s) ==
    /\ New(s)
    /\ LET q == Head(up[s]).seq IN ingress' = Pushed(q) /\ buffered' = buffered \cup {q}
    /\ Taken(s)
    /\ UNCHANGED <<client, link, down, active, lease, marks, segment, pending, inflight,
                   outcome, handler>>

\* The frame closes the segment; i is the next segment_id.
ReceiveBoundary(s, i) ==
    /\ New(s)
    /\ \A j \in SegIds : (segment[j].frames = {}) <=> (j >= i)
    /\ LET g == Pushed(Head(up[s]).seq)
       IN  segment' = [segment EXCEPT ![i] = g] /\ Handle(s, i, g)
    /\ ingress' = [ingress EXCEPT !.start = 0, !.end = Head(up[s]).seq, !.frames = {}]
    /\ Taken(s)
    /\ UNCHANGED <<client, link, active, lease, marks, pending>>

\* unregister_inflight_claim, and the result handed to the handlers that wait
\* for segment i; the leader s goes on as h.
Resolve(s, i, r, ack, h) ==
    /\ outcome' = [outcome EXCEPT ![i] = r]
    /\ inflight' = [q \in Seqs |-> IF q \in Span(segment[i]) THEN 0 ELSE inflight[q]]
    /\ handler' = [t \in Sockets |->
                     IF t = s THEN h
                     ELSE IF handler[t].pc = "claim" /\ handler[t].seg = i
                     THEN [handler[t] EXCEPT !.pc = "woken", !.res = r, !.ack = ack]
                     ELSE handler[t]]

Resumed(s) == [handler[s] EXCEPT !.pc = "receive", !.seg = 0, !.res = "none", !.ack = 0]

\* A coroutine that finds its lease gone after the claim closes the socket in
\* the inner loop and once more in the outer one.  The framework refuses the
\* second close; if that is raised, the handler fails the session.
Superseded(s) == Say(s, Close) /\ active' \in {active, FALSE}

Settled(g) ==
    /\ buffered' = buffered \ Span(g)
    /\ pending' = [q \in Seqs |-> IF q \in Span(g) THEN 0 ELSE pending[q]]
    /\ answered' = answered \cup g.frames

\* commit_segment_success, whoever holds the lease by now.
BotSucceeds(s) ==
    LET i == handler[s].seg
        g == segment[i]
    IN /\ handler[s].pc = "bridge"
       /\ processed' = processed \cup Span(g)
       /\ lastProcessed' = Larger(lastProcessed, g.end)
       /\ Settled(g)
       /\ IF lease = s
          THEN /\ Resolve(s, i, "success", lastProcessed', Resumed(s))
               /\ Say(s, Ack(lastProcessed')) /\ UNCHANGED active
          ELSE Resolve(s, i, "success", lastProcessed', NoHandler) /\ Superseded(s)
       /\ UNCHANGED <<client, link, up, lease, rejected, ingress, segment>>

\* commit_segment_permanent_rejection; the client gets an error event, no ack.
BotRejects(s) ==
    LET i == handler[s].seg
        g == segment[i]
    IN /\ handler[s].pc = "bridge"
       /\ rejected' = rejected \cup Span(g)
       /\ Settled(g)
       /\ IF lease = s
          THEN Resolve(s, i, "rejected", 0, Resumed(s)) /\ UNCHANGED <<active, down>>
          ELSE Resolve(s, i, "rejected", 0, NoHandler) /\ Superseded(s)
       /\ UNCHANGED <<client, link, up, lease, processed, lastProcessed, ingress, segment>>

\* add_pending_retry_segment: nothing is stored for a range that runs backwards.
Retry(i) ==
    pending' = [q \in Seqs |-> IF q \in segment[i].start..segment[i].end THEN i ELSE pending[q]]

\* The Bot is unavailable: no acknowledgement, the segment is kept for a retry.
BotFails(s) ==
    LET i == handler[s].seg
    IN /\ handler[s].pc = "bridge"
       /\ Retry(i)
       /\ IF lease = s
          THEN Resolve(s, i, "transient", 0, Resumed(s)) /\ UNCHANGED down
          ELSE Resolve(s, i, "transient", 0, NoHandler) /\ Say(s, Close)
       /\ UNCHANGED <<client, link, up, active, lease, marks, buffered, ingress, segment>>

\* A handler that waited for another one's claim goes on with its result.
Wakes(s, r) == handler[s].pc = "woken" /\ handler[s].res = r

WakeCommitted(s) ==
    /\ \/ Wakes(s, "success") \/ Wakes(s, "rejected")
    /\ IF lease = s
       THEN /\ Goes(s, Resumed(s)) /\ UNCHANGED active
            /\ IF handler[s].res = "success" THEN Say(s, Ack(handler[s].ack))
               ELSE UNCHANGED down
       ELSE Goes(s, NoHandler) /\ Superseded(s)
    /\ UNCHANGED <<client, link, up, lease, marks, buffered, ingress, segment, pending,
                   inflight, outcome>>

\* The warning names bridge_res, which only a call made by this coroutine has
\* set: without one the UnboundLocalError fails the session.
WakeTransient(s) ==
    /\ Wakes(s, "transient")
    /\ Retry(handler[s].seg)
    /\ active' = (active /\ handler[s].called)
    /\ IF handler[s].called /\ lease = s
       THEN Goes(s, Resumed(s)) /\ UNCHANGED down
       ELSE Goes(s, NoHandler) /\ Say(s, Close)
    /\ UNCHANGED <<client, link, up, lease, marks, buffered, ingress, segment, inflight, outcome>>

\* The client is gone and everything it sent is read.  As WebSocketDisconnect
\* this leaves the session for a reconnect; any other error fails it.
NoticeDisconnect(s) ==
    /\ handler[s].pc = "receive" /\ link[s] = "closed" /\ up[s] = <<>>
    /\ Goes(s, NoHandler)
    /\ active' \in {active, FALSE}
    /\ UNCHANGED <<client, wires, lease, marks, buffered, ingress, segment, pending, inflight,
                   outcome>>

-----------------------------------------------------------------------------
\* What the browser reports of a socket that is up, or was refused.
Events(s) ==
    \/ Opened(s) \/ Refused(s)
    \/ HearReady(s) \/ HearAck(s) \/ HearReconnected(s) \/ HearClose(s)

Gateway(s) ==
    \/ Accept(s) \/ Refuse(s) \/ LeaveStale(s) \/ NoticeDisconnect(s)
    \/ ReceiveReconnect(s) \/ ReceiveDuplicate(s) \/ ReceiveRecalled(s)
    \/ ReceiveBuffered(s) \/ ReceivePartial(s) \/ \E i \in SegIds : ReceiveBoundary(s, i)
    \/ BotSucceeds(s) \/ BotRejects(s) \/ BotFails(s)
    \/ WakeCommitted(s) \/ WakeTransient(s)

Timer == \E s \in Sockets : ReconnectTimer(s)

Next ==
    \/ AudioFrame \/ Timer
    \/ \E s \in Sockets : StartCapture(s) \/ Drop(s) \/ Events(s) \/ Gateway(s)

Spec == Init /\ [][Next]_vars

\* Timers fire, events are dispatched, coroutines run and calls to the Bot
\* return.  Nothing is assumed of the network or of the tab's audio.
FairSpec ==
    /\ Spec /\ WF_vars(Timer)
    /\ \A s \in Sockets : WF_vars(Events(s)) /\ WF_vars(Gateway(s))

-----------------------------------------------------------------------------
(* Properties.                                                             *)

\* What the client keeps is exactly what it captured and has no
\* acknowledgement for, whatever reconnects and replays have done: no frame is
\* evicted early, none is kept for ever.
UnackedIsTail == isCapturing => unackedFrames = (lastAckSeq + 1)..currentSeq

\* The server's mark never falls behind the client's: while the session lives,
\* what the client takes as acknowledged was acknowledged by a Bot success or
\* a final rejection, over whichever socket and however late it was heard.
Backed(q) == q =< lastProcessed \/ q \in rejected
AcksAreBacked == active => Backed(lastAckSeq)

\* One coroutine at a time has the Bot process a segment, also when a socket
\* is superseded in the middle, and none does so again once it is committed.
BridgedOnce ==
    \A s, t \in Sockets :
        handler[s].pc = "bridge" =>
            /\ outcome[handler[s].seg] = "inflight"
            /\ handler[t].pc = "bridge" /\ handler[t].seg = handler[s].seg => s = t

CommitsAreFinal ==
    [][\A i \in SegIds : outcome[i] \in {"success", "rejected"} => outcome'[i] = outcome[i]]_vars

\* The frames a segment stands for.
Stretch(i) == IF segment[i].frames = {} THEN {} ELSE Span(segment[i])

Relay == INSTANCE SpeechRelay
    WITH Segments <- SegIds,
         captured <- currentSeq, released <- lastAckSeq, live <- active,
         mark <- lastProcessed, refused <- rejected, phase <- outcome,
         stretch <- [i \in SegIds |-> Stretch(i)]

\* Behind the sockets, the reconnects and the coroutines that outlive them is
\* the plain relay: the Bot is given only what has something new in it, answers
\* each segment for good once, and the client lets go of what is stood by.
ImplementsSpeechRelay == Relay!Spec

\* A reconnect is confirmed by the server, or given up, or ends on a connection
\* that holds: one that keeps opening, saying it is ready and dropping spends
\* the budget.
ReconnectSettles == reconnectTimer ~> (~isReconnecting \/ []IsOpen(webSocket))

\* "Prevents silent audio loss (UNACKED_FRAME_SILENT_DROP=0)": a frame that the
\* client has let go of was answered by the Bot, as audio or as a rejection.
NoSilentDrop ==
    isCapturing /\ active => 1..lastAckSeq \subseteq answered \cup rejected
=============================================================================
