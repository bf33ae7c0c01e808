------------------------- MODULE LiveStream_proofs -------------------------
(* Theorems about LiveStream, for every number of frames, sockets and      *)
(* segments, and every size of the client's buffer and budget.             *)
EXTENDS LiveStream, SequenceTheorems, TLAPS

\* What may be under way: no frame that was not captured, and no
\* acknowledgement that the live session does not stand by.
GoodUp == {m \in Upstream : m.seq =< currentSeq}
GoodDown ==
    {m \in Downstream :
        /\ m.seq =< currentSeq
        /\ active /\ m.type \in {"ack", "session.reconnected"} => Backed(m.seq)}

WiresFit == up \in [Sockets -> Seq(GoodUp)] /\ down \in [Sockets -> Seq(GoodDown)]

ClientFits ==
    /\ unackedFrames \subseteq 1..currentSeq
    /\ lastAckSeq =< currentSeq
    /\ UnackedIsTail
    /\ AcksAreBacked

\* The server knows only frames that were captured.
Real(g) == g.end =< currentSeq /\ (g.frames # {} => g.start \in Seqs /\ g.end \in Seqs)

MarksFit ==
    /\ lastProcessed =< currentSeq
    /\ processed \subseteq 1..lastProcessed
    /\ Real(ingress)
    /\ \A i \in SegIds : Real(segment[i])

\* A segment with an outcome exists; a committed one has its range marked; one
\* that a frame leads back to has the frame in its range.
SegmentsFit ==
    /\ \A i \in SegIds :
           /\ outcome[i] # "none" => segment[i].frames # {}
           /\ outcome[i] = "success" => Span(segment[i]) \subseteq processed
           /\ outcome[i] = "rejected" => Span(segment[i]) \subseteq rejected
    /\ \A q \in Seqs : pending[q] # 0 =>
           q \in Span(segment[pending[q]]) /\ outcome[pending[q]] # "none"
    /\ \A q \in Seqs : inflight[q] # 0 =>
           q \in Span(segment[inflight[q]]) /\ outcome[inflight[q]] = "inflight"

HandlersFit ==
    \A s \in Sockets :
        /\ handler[s].pc \in {"bridge", "claim", "woken"} =>
               handler[s].seg \in SegIds /\ outcome[handler[s].seg] # "none"
        /\ handler[s].pc = "woken" => handler[s].ack =< lastProcessed
        /\ handler[s].pc = "woken" /\ handler[s].res = "success" => handler[s].ack \in Seqs

IInv ==
    /\ TypeOK
    /\ WiresFit
    /\ ClientFits
    /\ MarksFit
    /\ SegmentsFit
    /\ HandlersFit
    /\ BridgedOnce

-----------------------------------------------------------------------------
(* Messages.                                                               *)

LEMMA Widen ==
    ASSUME NEW S, NEW T, S \subseteq T, NEW f \in [Sockets -> Seq(S)]
    PROVE  f \in [Sockets -> Seq(T)]
<1>1. \A s \in Sockets : f[s] \in Seq(T)
    BY SeqMonotonic
<1>. QED  BY <1>1

LEMMA MessageTypes ==
    /\ \A m \in Upstream : m.seq \in 0..MaxSeq /\ (m.type = "frame" => m.seq \in Seqs)
    /\ \A m \in Downstream : m.seq \in 0..MaxSeq
    /\ \A q \in Seqs : Frame(q) \in Upstream /\ Frame(q).seq = q /\ Frame(q).type = "frame"
    /\ Reconnect \in Upstream /\ Reconnect.seq = 0
    /\ \A q \in Seqs : Ack(q) \in Downstream /\ Ack(q).seq = q
    /\ \A q \in 0..MaxSeq : Reconnected(q) \in Downstream /\ Reconnected(q).seq = q
    /\ Close \in Downstream /\ Close.seq = 0 /\ Close.type = "close"
    /\ Ready \in Downstream /\ Ready.seq = 0 /\ Ready.type = "session.ready"
<1>1. \A q : Frame(q).seq = q /\ Frame(q).type = "frame" /\ Ack(q).seq = q /\ Reconnected(q).seq = q
    BY DEF Frame, Ack, Reconnected
<1>2. /\ Reconnect.seq = 0 /\ Reconnect.type = "session.reconnect"
      /\ Close.seq = 0 /\ Close.type = "close" /\ Ready.seq = 0 /\ Ready.type = "session.ready"
    BY DEF Reconnect, Close, Ready
<1>3. \A q \in Seqs : q \in 0..MaxSeq
    BY BoundAssumption DEF Seqs
<1>4. 0 \in 0..MaxSeq
    BY BoundAssumption
<1>5. \A m \in Upstream : m.seq \in 0..MaxSeq /\ (m.type = "frame" => m.seq \in Seqs)
    BY <1>1, <1>2, <1>3, <1>4 DEF Upstream
<1>6. \A m \in Downstream : m.seq \in 0..MaxSeq
    BY <1>1, <1>2, <1>3, <1>4 DEF Downstream
<1>. QED  BY <1>1, <1>2, <1>5, <1>6 DEF Upstream, Downstream

\* A queue of the client's or the server's is one message longer.
LEMMA Appended ==
    ASSUME NEW M, NEW f \in [Sockets -> Seq(M)], NEW s \in Sockets, NEW m \in M
    PROVE  [f EXCEPT ![s] = Append(@, m)] \in [Sockets -> Seq(M)]
<1>1. Append(f[s], m) \in Seq(M)
    BY AppendProperties
<1>. QED  BY <1>1

LEMMA Shortened ==
    ASSUME NEW M, NEW f \in [Sockets -> Seq(M)], NEW s \in Sockets, f[s] # <<>>
    PROVE  /\ [f EXCEPT ![s] = Tail(@)] \in [Sockets -> Seq(M)]
           /\ Head(f[s]) \in M
<1>1. Tail(f[s]) \in Seq(M) /\ Head(f[s]) \in M
    BY HeadTailProperties
<1>. QED  BY <1>1

LEMMA Said ==
    ASSUME NEW M, down \in [Sockets -> Seq(M)], NEW s \in Sockets, NEW m \in M, Say(s, m)
    PROVE  down' \in [Sockets -> Seq(M)]
BY Appended DEF Say

LEMMA Took ==
    ASSUME NEW M, up \in [Sockets -> Seq(M)], NEW s \in Sockets, up[s] # <<>>, Taken(s)
    PROVE  up' \in [Sockets -> Seq(M)] /\ Head(up[s]) \in M
BY Shortened DEF Taken

\* What was good stays good while the marks only rise.
LEMMA StaysGood ==
    ASSUME TypeOK, currentSeq' \in Int, currentSeq' >= currentSeq, active' => active,
           lastProcessed' \in Int, lastProcessed' >= lastProcessed, rejected \subseteq rejected'
    PROVE  GoodUp \subseteq GoodUp' /\ GoodDown \subseteq GoodDown'
<1>1. \A q \in 0..MaxSeq : Backed(q) => Backed(q)'
    BY BoundAssumption DEF Backed, TypeOK
<1>2. currentSeq \in Int /\ currentSeq' \in Int
    BY DEF TypeOK
<1>3. ASSUME NEW m \in GoodUp PROVE m \in GoodUp'
    <2>1. m \in Upstream /\ m.seq =< currentSeq /\ m.seq \in Int
        BY MessageTypes DEF GoodUp
    <2>. QED  BY <2>1, <1>2 DEF GoodUp
<1>4. ASSUME NEW m \in GoodDown PROVE m \in GoodDown'
    <2>1. m \in Downstream /\ m.seq =< currentSeq /\ m.seq \in 0..MaxSeq
        BY MessageTypes DEF GoodDown
    <2>2. m.seq =< currentSeq'
        BY <2>1, <1>2
    <2>3. active' /\ m.type \in {"ack", "session.reconnected"} => Backed(m.seq)'
        BY <2>1, <1>1 DEF GoodDown
    <2>. QED  BY <2>1, <2>2, <2>3 DEF GoodDown
<1>. QED  BY <1>3, <1>4

-----------------------------------------------------------------------------
(* One side's step, as far as the other side is concerned.                 *)

LEMMA ServerStays ==
    ASSUME IInv, currentSeq' \in 0..MaxSeq, currentSeq' >= currentSeq, UNCHANGED <<session, handler>>
    PROVE  MarksFit' /\ SegmentsFit' /\ HandlersFit' /\ BridgedOnce'
<1>1. MarksFit'
    <2>1. lastProcessed \in Int /\ currentSeq \in Int /\ ingress.end \in Int
          /\ \A i \in SegIds : segment[i].end \in Int
        BY DEF IInv, TypeOK, Audio
    <2>. QED  BY <2>1 DEF IInv, MarksFit, Real, session, marks
<1>2. SegmentsFit' /\ HandlersFit' /\ BridgedOnce'
    BY DEF IInv, SegmentsFit, HandlersFit, BridgedOnce, Span, session, marks
<1>. QED  BY <1>1, <1>2

LEMMA ClientStays ==
    ASSUME IInv, TypeOK', UNCHANGED client, active' => active,
           lastProcessed' >= lastProcessed, rejected \subseteq rejected'
    PROVE  ClientFits'
<1>1. \A q \in 0..MaxSeq : Backed(q) => Backed(q)'
    BY BoundAssumption DEF Backed, TypeOK, IInv
<1>2. lastAckSeq \in 0..MaxSeq
    BY DEF IInv, TypeOK
<1>. QED  BY <1>1, <1>2 DEF IInv, ClientFits, UnackedIsTail, AcksAreBacked, client

-----------------------------------------------------------------------------
(* The client.                                                             *)

LEMMA InitIInv == Init => IInv
<1>. SUFFICES ASSUME Init PROVE IInv
    OBVIOUS
<1>1. NoHandler \in Handlers /\ NoHandler.pc = "none"
    BY BoundAssumption DEF NoHandler, Handlers, Outcomes
<1>2. NoAudio \in Audio /\ NoAudio.frames = {} /\ NoAudio.end = 0
    BY BoundAssumption DEF NoAudio, Audio
<1>3. TypeOK
    <2>1. \A M : <<>> \in Seq(M)
        OBVIOUS
    <2>2. up \in [Sockets -> Seq(Upstream)] /\ down \in [Sockets -> Seq(Downstream)]
        BY <2>1 DEF Init
    <2>3. link \in [Sockets -> Links] /\ outcome \in [SegIds -> Outcomes]
        BY DEF Init, Links, Outcomes
    <2>4. pending \in [Seqs -> 0..MaxSegments] /\ inflight \in [Seqs -> 0..MaxSegments]
        BY BoundAssumption DEF Init
    <2>5. handler \in [Sockets -> Handlers] /\ segment \in [SegIds -> Audio] /\ ingress \in Audio
        BY <1>1, <1>2 DEF Init
    <2>6. 0 \in 0..MaxSeq /\ 0 \in 0..MAX_RECONNECT_ATTEMPTS
        BY BoundAssumption
    <2>. QED  BY <2>2, <2>3, <2>4, <2>5, <2>6 DEF Init, TypeOK
<1>4. WiresFit
    <2>1. \A M : <<>> \in Seq(M)
        OBVIOUS
    <2>. QED  BY <2>1 DEF Init, WiresFit
<1>5. ClientFits
    BY DEF Init, ClientFits, UnackedIsTail, AcksAreBacked, Backed
<1>6. MarksFit /\ SegmentsFit /\ HandlersFit /\ BridgedOnce
    BY <1>1, <1>2 DEF Init, MarksFit, Real, SegmentsFit, HandlersFit, BridgedOnce
<1>. QED  BY <1>3, <1>4, <1>5, <1>6 DEF IInv

\* A step of the client that leaves what it captured and kept alone, and sends
\* only good messages.
LEMMA QuietClient ==
    ASSUME IInv, UNCHANGED <<currentSeq, lastAckSeq, unackedFrames, session, handler>>,
           isCapturing' => isCapturing \/ currentSeq = 0,
           isCapturing' \in BOOLEAN, isReconnecting' \in BOOLEAN, reconnectTimer' \in BOOLEAN,
           reconnectAttempts' \in 0..MAX_RECONNECT_ATTEMPTS,
           webSocket' \in Sockets \cup {NoSocket}, link' \in [Sockets -> Links],
           up' \in [Sockets -> Seq(GoodUp)], down' \in [Sockets -> Seq(GoodDown)]
    PROVE  IInv'
<1>1. TypeOK'
    <2>1. up' \in [Sockets -> Seq(Upstream)] /\ down' \in [Sockets -> Seq(Downstream)]
        BY Widen DEF GoodUp, GoodDown
    <2>. QED  BY <2>1 DEF IInv, TypeOK, session, marks
<1>2. WiresFit'
    <2>1. GoodUp' = GoodUp /\ GoodDown' = GoodDown
        BY DEF GoodUp, GoodDown, Backed, session, marks
    <2>. QED  BY <2>1 DEF WiresFit
<1>3. ClientFits'
    <2>1. lastAckSeq \in 0..MaxSeq /\ currentSeq \in 0..MaxSeq
        BY DEF IInv, TypeOK
    <2>2. UnackedIsTail'
        <3>1. unackedFrames \subseteq 1..currentSeq /\ lastAckSeq =< currentSeq
            BY DEF IInv, ClientFits
        <3>2. ASSUME currentSeq = 0 PROVE unackedFrames = (lastAckSeq + 1)..currentSeq
            <4>1. lastAckSeq = 0
                BY <3>1, <3>2, <2>1
            <4>2. unackedFrames = {}
                BY <3>1, <3>2
            <4>. QED  BY <4>1, <4>2, <3>2
        <3>3. isCapturing => unackedFrames = (lastAckSeq + 1)..currentSeq
            BY DEF IInv, ClientFits, UnackedIsTail
        <3>. QED  BY <3>2, <3>3 DEF UnackedIsTail
    <2>. QED  BY <2>2 DEF IInv, ClientFits, AcksAreBacked, Backed, session, marks
<1>4. currentSeq' \in 0..MaxSeq /\ currentSeq' >= currentSeq
    BY DEF IInv, TypeOK
<1>. QED  BY <1>1, <1>2, <1>3, <1>4, ServerStays DEF IInv

\* Shutting sockets only forgets messages.
LEMMA Shuts ==
    ASSUME IInv, NEW S, Shut(S)
    PROVE  link' \in [Sockets -> Links] /\ down' \in [Sockets -> Seq(GoodDown)]
<1>1. <<>> \in Seq(GoodDown)
    OBVIOUS
<1>. QED  BY <1>1 DEF Shut, IInv, WiresFit, TypeOK, Links

\* stopCapture({force: true}).
LEMMA ForceStopTypes ==
    ASSUME ForceStop
    PROVE  /\ isCapturing' = FALSE /\ isReconnecting' \in BOOLEAN /\ reconnectTimer' \in BOOLEAN
           /\ reconnectAttempts' \in 0..MAX_RECONNECT_ATTEMPTS
           /\ webSocket' \in Sockets \cup {NoSocket}
<1>1. 0 \in 0..MAX_RECONNECT_ATTEMPTS
    BY BoundAssumption
<1>2. FALSE \in BOOLEAN
    OBVIOUS
<1>. QED  BY <1>1, <1>2, Zenon DEF ForceStop

\* initWebSocket.
LEMMA Opens ==
    ASSUME IInv, NEW s \in Sockets, OpenSocket(s)
    PROVE  /\ webSocket' \in Sockets \cup {NoSocket} /\ link' \in [Sockets -> Links]
           /\ up' \in [Sockets -> Seq(GoodUp)] /\ down' \in [Sockets -> Seq(GoodDown)]
<1>1. <<>> \in Seq(GoodDown) /\ <<>> \in Seq(GoodUp)
    OBVIOUS
<1>. QED  BY <1>1 DEF OpenSocket, IInv, WiresFit, TypeOK, Links

LEMMA StartCapturePreserves ==
    ASSUME IInv, NEW s \in Sockets, StartCapture(s)
    PROVE  IInv'
BY Opens, QuietClient DEF StartCapture, IInv, TypeOK

LEMMA ReconnectTimerPreserves ==
    ASSUME IInv, NEW s \in Sockets, ReconnectTimer(s)
    PROVE  IInv'
BY Opens, QuietClient DEF ReconnectTimer, IInv, TypeOK

LEMMA OpenedPreserves ==
    ASSUME IInv, NEW s \in Sockets, Opened(s)
    PROVE  IInv'
<1>1. Reconnect \in GoodUp
    BY MessageTypes DEF GoodUp, IInv, TypeOK
<1>2. up \in [Sockets -> Seq(GoodUp)] /\ down \in [Sockets -> Seq(GoodDown)]
    BY DEF IInv, WiresFit
<1>3. [up EXCEPT ![s] = Append(@, Reconnect)] \in [Sockets -> Seq(GoodUp)]
    BY <1>1, <1>2, Appended
<1>4. up' \in [Sockets -> Seq(GoodUp)] /\ down' \in [Sockets -> Seq(GoodDown)]
    BY <1>2, <1>3 DEF Opened
<1>5. link' \in [Sockets -> Links]
    BY DEF Opened, IInv, TypeOK, Links
<1>. QED  BY <1>4, <1>5, QuietClient DEF Opened, IInv, TypeOK

LEMMA SocketClosedPreserves ==
    ASSUME IInv, NEW s \in Sockets, NEW terminal \in BOOLEAN, SocketClosed(s, terminal)
    PROVE  IInv'
<1>1. up' \in [Sockets -> Seq(GoodUp)]
    <2>1. up \in [Sockets -> Seq(GoodUp)]
        BY DEF IInv, WiresFit
    <2>2. PICK k \in 0..Len(up[s]) : up' = [up EXCEPT ![s] = SubSeq(@, 1, k)]
        BY DEF SocketClosed
    <2>3. SubSeq(up[s], 1, k) \in Seq(GoodUp)
        <3>1. up[s] \in Seq(GoodUp) /\ Len(up[s]) \in Nat
            BY <2>1, LenProperties
        <3>2. \A i \in 1..k : i \in 1..Len(up[s])
            BY <3>1, <2>2
        <3>. QED  BY <3>1, <3>2, SubSeqProperties
    <2>. QED  BY <2>1, <2>2, <2>3
<1>2. CASE terminal \/ reconnectAttempts >= MAX_RECONNECT_ATTEMPTS
    <2>1. ForceStop /\ Shut({s, webSocket})
        BY <1>2 DEF SocketClosed
    <2>. QED  BY <1>1, <2>1, ForceStopTypes, Shuts, QuietClient DEF SocketClosed
<1>3. CASE ~(terminal \/ reconnectAttempts >= MAX_RECONNECT_ATTEMPTS)
    <2>1. Shut({s}) /\ UNCHANGED <<isCapturing, webSocket>>
        BY <1>3 DEF SocketClosed
    <2>2. reconnectAttempts' \in 0..MAX_RECONNECT_ATTEMPTS
        BY <1>3, BoundAssumption DEF SocketClosed, IInv, TypeOK
    <2>3. isReconnecting' \in BOOLEAN /\ reconnectTimer' \in BOOLEAN
        BY <1>3 DEF SocketClosed
    <2>4. isCapturing' \in BOOLEAN /\ webSocket' \in Sockets \cup {NoSocket}
        BY <2>1 DEF IInv, TypeOK
    <2>. QED  BY <1>1, <2>1, <2>2, <2>3, <2>4, Shuts, QuietClient DEF SocketClosed
<1>. QED  BY <1>2, <1>3

LEMMA ClosesPreserve ==
    ASSUME IInv, NEW s \in Sockets, Drop(s) \/ Refused(s) \/ HearClose(s)
    PROVE  IInv'
BY SocketClosedPreserves DEF Drop, Refused, HearClose

LEMMA AudioFramePreserves ==
    ASSUME IInv, AudioFrame
    PROVE  IInv'
<1>1. currentSeq \in 0..MaxSeq /\ currentSeq' = currentSeq + 1 /\ currentSeq' \in Seqs
      /\ currentSeq < MaxSeq
    BY BoundAssumption DEF AudioFrame, IInv, TypeOK, Seqs
<1>2. UNCHANGED <<lastAckSeq, session, handler>>
    BY DEF AudioFrame
<1>3. currentSeq' \in 0..MaxSeq /\ currentSeq' >= currentSeq
    BY <1>1, BoundAssumption
<1>4. MarksFit' /\ SegmentsFit' /\ HandlersFit' /\ BridgedOnce'
    BY <1>2, <1>3, ServerStays
<1>5. lastAckSeq' \in 0..MaxSeq /\ lastAckSeq' =< currentSeq' /\ AcksAreBacked'
    BY <1>1, <1>2 DEF IInv, TypeOK, ClientFits, AcksAreBacked, Backed, session, marks
<1>6. TypeOK /\ up \in [Sockets -> Seq(GoodUp)] /\ down \in [Sockets -> Seq(GoodDown)]
    BY DEF IInv, WiresFit
<1>9. /\ currentSeq' \in Int /\ active' = active /\ rejected' = rejected
      /\ lastProcessed' \in Int /\ lastProcessed' >= lastProcessed
    BY <1>1, <1>2 DEF IInv, TypeOK, session, marks
<1>7. CASE Cardinality(unackedFrames) >= MAX_UNACKED_FRAMES
    <2>1. ForceStop /\ Shut({webSocket}) /\ UNCHANGED <<unackedFrames, up>>
        BY <1>7 DEF AudioFrame
    <2>2. link' \in [Sockets -> Links] /\ down' \in [Sockets -> Seq(GoodDown)]
        BY <2>1, Shuts
    <2>3. up' \in [Sockets -> Seq(Upstream)] /\ down' \in [Sockets -> Seq(Downstream)]
        BY <2>1, <2>2, <1>6, Widen DEF GoodUp, GoodDown
    <2>4. TypeOK'
        BY <1>2, <1>3, <2>1, <2>2, <2>3, ForceStopTypes DEF IInv, TypeOK, session, marks
    <2>5. GoodUp \subseteq GoodUp' /\ GoodDown \subseteq GoodDown'
        BY <1>3, <1>6, <1>9, StaysGood
    <2>6. WiresFit'
        BY <1>6, <2>1, <2>2, <2>5, Widen DEF WiresFit
    <2>7. ClientFits'
        <3>1. isCapturing' = FALSE /\ unackedFrames' \subseteq 1..currentSeq'
            BY <1>1, <2>1, ForceStopTypes DEF IInv, ClientFits
        <3>. QED  BY <3>1, <1>5 DEF ClientFits, UnackedIsTail
    <2>. QED  BY <1>4, <2>4, <2>6, <2>7 DEF IInv
<1>8. CASE ~(Cardinality(unackedFrames) >= MAX_UNACKED_FRAMES)
    <2>1. /\ unackedFrames' = unackedFrames \cup {currentSeq'}
          /\ up' = IF IsOpen(webSocket)
                   THEN [up EXCEPT ![webSocket] = Append(@, Frame(currentSeq'))] ELSE up
          /\ UNCHANGED <<isCapturing, reconnectAttempts, isReconnecting, reconnectTimer,
                         webSocket, link, down>>
        BY <1>8 DEF AudioFrame
    <2>2. Frame(currentSeq') \in Upstream /\ Frame(currentSeq').seq = currentSeq'
        BY <1>1, MessageTypes
    <2>3. ASSUME NEW M, up \in [Sockets -> Seq(M)], Frame(currentSeq') \in M
          PROVE  up' \in [Sockets -> Seq(M)]
        <3>1. CASE IsOpen(webSocket)
            <4>1. webSocket \in Sockets
                BY <3>1 DEF IsOpen, IInv, TypeOK
            <4>2. [up EXCEPT ![webSocket] = Append(@, Frame(currentSeq'))] \in [Sockets -> Seq(M)]
                BY <2>3, <4>1, Appended
            <4>. QED  BY <4>2, <3>1, <2>1
        <3>2. CASE ~IsOpen(webSocket)
            BY <3>2, <2>3, <2>1
        <3>. QED  BY <3>1, <3>2
    <2>4. up' \in [Sockets -> Seq(Upstream)]
        BY <2>2, <2>3 DEF IInv, TypeOK
    <2>5. TypeOK'
        <3>1. unackedFrames' \subseteq Seqs
            BY <1>1, <2>1 DEF IInv, TypeOK
        <3>. QED  BY <1>2, <1>3, <2>1, <2>4, <3>1 DEF IInv, TypeOK, session, marks
    <2>6. GoodUp \subseteq GoodUp' /\ GoodDown \subseteq GoodDown'
        BY <1>3, <1>6, <1>9, StaysGood
    <2>7. WiresFit'
        <3>1. up \in [Sockets -> Seq(GoodUp')] /\ down \in [Sockets -> Seq(GoodDown')]
            BY <1>6, <2>6, Widen
        <3>2. Frame(currentSeq') \in GoodUp'
            BY <2>2, <1>3 DEF GoodUp
        <3>. QED  BY <3>1, <3>2, <2>1, <2>3 DEF WiresFit
    <2>8. ClientFits'
        <3>1. unackedFrames \subseteq 1..currentSeq /\ lastAckSeq =< currentSeq /\ lastAckSeq \in Nat
            BY DEF IInv, ClientFits, TypeOK
        <3>2. unackedFrames' \subseteq 1..currentSeq'
            BY <1>1, <2>1, <3>1
        <3>3. UnackedIsTail'
            <4>1. isCapturing => unackedFrames = (lastAckSeq + 1)..currentSeq
                BY DEF IInv, ClientFits, UnackedIsTail
            <4>2. ((lastAckSeq + 1)..currentSeq) \cup {currentSeq + 1} = (lastAckSeq + 1)..(currentSeq + 1)
                BY <3>1, <1>1
            <4>. QED  BY <4>1, <4>2, <1>1, <1>2, <2>1 DEF UnackedIsTail
        <3>. QED  BY <3>2, <3>3, <1>5 DEF ClientFits
    <2>. QED  BY <1>4, <2>5, <2>7, <2>8 DEF IInv
<1>. QED  BY <1>7, <1>8

LEMMA HearReadyPreserves ==
    ASSUME IInv, NEW s \in Sockets, HearReady(s)
    PROVE  IInv'
<1>1. up \in [Sockets -> Seq(GoodUp)] /\ down \in [Sockets -> Seq(GoodDown)]
    BY DEF IInv, WiresFit
<1>2. down' \in [Sockets -> Seq(GoodDown)]
    BY <1>1, Shortened DEF HearReady, Hears
<1>3. reconnectAttempts' \in 0..MAX_RECONNECT_ATTEMPTS
    BY BoundAssumption DEF HearReady, IInv, TypeOK
<1>. QED  BY <1>1, <1>2, <1>3, QuietClient DEF HearReady, IInv, TypeOK

\* evictAcknowledgedFrames keeps the tail, and what is acknowledged is backed.
LEMMA Acknowledges ==
    ASSUME IInv, NEW q \in 0..MaxSeq, q =< currentSeq, active => Backed(q), Acknowledge(q),
           UNCHANGED <<currentSeq, isCapturing, session>>
    PROVE  /\ lastAckSeq' \in 0..MaxSeq /\ unackedFrames' \subseteq Seqs
           /\ ClientFits'
<1>1. lastAckSeq \in 0..MaxSeq /\ currentSeq \in 0..MaxSeq /\ lastAckSeq =< currentSeq
    BY DEF IInv, TypeOK, ClientFits
<1>2. lastAckSeq' \in {lastAckSeq, q} /\ lastAckSeq' >= lastAckSeq
    BY <1>1 DEF Acknowledge, Larger
<1>3. unackedFrames' = {f \in unackedFrames : f > lastAckSeq'}
    BY DEF Acknowledge
<1>4. unackedFrames' \subseteq Seqs /\ unackedFrames' \subseteq 1..currentSeq'
    BY <1>3 DEF IInv, TypeOK, ClientFits
<1>5. UnackedIsTail'
    <2>1. SUFFICES ASSUME isCapturing PROVE unackedFrames' = (lastAckSeq' + 1)..currentSeq
        BY DEF UnackedIsTail
    <2>2. unackedFrames = (lastAckSeq + 1)..currentSeq
        BY <2>1 DEF IInv, ClientFits, UnackedIsTail
    <2>3. {f \in (lastAckSeq + 1)..currentSeq : f > lastAckSeq'} = (lastAckSeq' + 1)..currentSeq
        BY <1>1, <1>2
    <2>. QED  BY <1>3, <2>2, <2>3
<1>6. AcksAreBacked'
    BY <1>2 DEF IInv, ClientFits, AcksAreBacked, Backed, session, marks
<1>. QED  BY <1>1, <1>2, <1>4, <1>5, <1>6 DEF ClientFits

\* A message the client has heard, and that it can act on.
LEMMA HeardIsGood ==
    ASSUME IInv, NEW s \in Sockets, NEW type, Hears(s, type)
    PROVE  /\ Head(down[s]) \in GoodDown /\ Head(down[s]).type = type
           /\ Head(down[s]).seq \in 0..MaxSeq /\ Head(down[s]).seq =< currentSeq
           /\ down' \in [Sockets -> Seq(GoodDown)] /\ down' \in [Sockets -> Seq(Downstream)]
<1>1. down \in [Sockets -> Seq(GoodDown)]
    BY DEF IInv, WiresFit
<1>2. Head(down[s]) \in GoodDown /\ down' \in [Sockets -> Seq(GoodDown)]
    BY <1>1, Shortened DEF Hears
<1>3. down' \in [Sockets -> Seq(Downstream)]
    BY <1>2, Widen DEF GoodDown
<1>. QED  BY <1>2, <1>3, MessageTypes DEF Hears, GoodDown

LEMMA HearAckPreserves ==
    ASSUME IInv, NEW s \in Sockets, HearAck(s)
    PROVE  IInv'
<1>. DEFINE q == Head(down[s]).seq
<1>1. Hears(s, "ack") /\ Acknowledge(q)
    BY DEF HearAck
<1>2. q \in 0..MaxSeq /\ q =< currentSeq /\ (active => Backed(q))
    BY <1>1, HeardIsGood DEF GoodDown
<1>3. UNCHANGED <<currentSeq, isCapturing, reconnectAttempts, isReconnecting, reconnectTimer,
                  webSocket, link, up, session, handler>>
    BY DEF HearAck
<1>4. lastAckSeq' \in 0..MaxSeq /\ unackedFrames' \subseteq Seqs /\ ClientFits'
    BY <1>1, <1>2, <1>3, Acknowledges
<1>5. TypeOK'
    BY <1>1, <1>3, <1>4, HeardIsGood DEF IInv, TypeOK, session, marks
<1>6. WiresFit'
    <2>1. GoodUp' = GoodUp /\ GoodDown' = GoodDown
        BY <1>3 DEF GoodUp, GoodDown, Backed, session, marks
    <2>. QED  BY <1>1, <1>3, <2>1, HeardIsGood DEF WiresFit, IInv
<1>7. currentSeq' \in 0..MaxSeq /\ currentSeq' >= currentSeq
    BY <1>3 DEF IInv, TypeOK
<1>. QED  BY <1>3, <1>4, <1>5, <1>6, <1>7, ServerStays DEF IInv

\* The frames replayed are frames that were captured.
LEMMA ReplayIsGood ==
    ASSUME IInv, lastAckSeq' \in 0..MaxSeq
    PROVE  Replay \in Seq(GoodUp)
<1>1. currentSeq \in 0..MaxSeq
    BY DEF IInv, TypeOK
<1>2. ASSUME NEW i \in 1..(currentSeq - lastAckSeq') PROVE Frame(lastAckSeq' + i) \in GoodUp
    <2>1. lastAckSeq' + i \in Seqs /\ lastAckSeq' + i =< currentSeq
        <3>1. \A a, c \in 0..MaxSeq : \A j \in 1..(c - a) : a + j \in 1..MaxSeq /\ a + j =< c
            BY BoundAssumption
        <3>. QED  BY <1>1, <3>1 DEF Seqs
    <2>. QED  BY <2>1, MessageTypes DEF GoodUp
<1>3. CASE currentSeq - lastAckSeq' \in Nat
    BY <1>2, <1>3 DEF Replay
<1>4. CASE currentSeq - lastAckSeq' \notin Nat
    <2>1. \A c, a \in 0..MaxSeq : c - a \in Nat \/ 1..(c - a) = 1..0
        BY BoundAssumption
    <2>3. 1..(currentSeq - lastAckSeq') = 1..0
        BY <1>1, <1>4, <2>1
    <2>2. Replay \in [1..0 -> GoodUp]
        BY <1>2, <2>3 DEF Replay
    <2>. QED  BY <2>2
<1>. QED  BY <1>3, <1>4

LEMMA HearReconnectedPreserves ==
    ASSUME IInv, NEW s \in Sockets, HearReconnected(s)
    PROVE  IInv'
<1>. DEFINE q == Head(down[s]).seq
<1>1. Hears(s, "session.reconnected") /\ Acknowledge(q)
    BY DEF HearReconnected
<1>2. q \in 0..MaxSeq /\ q =< currentSeq /\ (active => Backed(q))
    BY <1>1, HeardIsGood DEF GoodDown
<1>3. UNCHANGED <<currentSeq, isCapturing, reconnectTimer, webSocket, link, session, handler>>
    BY DEF HearReconnected
<1>4. lastAckSeq' \in 0..MaxSeq /\ unackedFrames' \subseteq Seqs /\ ClientFits'
    BY <1>1, <1>2, <1>3, Acknowledges
<1>5. up' \in [Sockets -> Seq(GoodUp)]
    <2>1. up \in [Sockets -> Seq(GoodUp)]
        BY DEF IInv, WiresFit
    <2>2. CASE IsOpen(webSocket)
        <3>1. webSocket \in Sockets
            BY <2>2 DEF IsOpen, IInv, TypeOK
        <3>2. up[webSocket] \o Replay \in Seq(GoodUp)
            BY <1>4, <2>1, <3>1, ReplayIsGood, ConcatProperties
        <3>. QED  BY <2>1, <2>2, <3>2 DEF HearReconnected
    <2>3. CASE ~IsOpen(webSocket)
        BY <2>1, <2>3 DEF HearReconnected
    <2>. QED  BY <2>2, <2>3
<1>6. TypeOK'
    <2>1. up' \in [Sockets -> Seq(Upstream)]
        BY <1>5, Widen DEF GoodUp
    <2>2. isReconnecting' \in BOOLEAN /\ reconnectAttempts' \in 0..MAX_RECONNECT_ATTEMPTS
        <3>1. isReconnecting' = FALSE /\ reconnectAttempts' = 0
            BY DEF HearReconnected
        <3>2. FALSE \in BOOLEAN /\ 0 \in 0..MAX_RECONNECT_ATTEMPTS
            BY BoundAssumption
        <3>. QED  BY <3>1, <3>2, Zenon
    <2>. QED  BY <1>1, <1>3, <1>4, <2>1, <2>2, HeardIsGood DEF IInv, TypeOK, session, marks
<1>7. WiresFit'
    <2>1. GoodUp' = GoodUp /\ GoodDown' = GoodDown
        BY <1>3 DEF GoodUp, GoodDown, Backed, session, marks
    <2>. QED  BY <1>1, <1>5, <2>1, HeardIsGood DEF WiresFit
<1>8. currentSeq' \in 0..MaxSeq /\ currentSeq' >= currentSeq
    BY <1>3 DEF IInv, TypeOK
<1>. QED  BY <1>3, <1>4, <1>6, <1>7, <1>8, ServerStays DEF IInv

-----------------------------------------------------------------------------
(* The gateway.                                                            *)

\* A step of the server: the marks rise, and what it sends is good.
LEMMA ServerStep ==
    ASSUME IInv, UNCHANGED client,
           link' \in [Sockets -> Links],
           up' \in [Sockets -> Seq(GoodUp)], down' \in [Sockets -> Seq(GoodDown')],
           active' \in BOOLEAN, active' => active,
           lease' \in Sockets \cup {NoSocket},
           lastProcessed' \in 0..MaxSeq, lastProcessed' >= lastProcessed,
           lastProcessed' =< currentSeq,
           processed' \subseteq 1..lastProcessed', rejected \subseteq rejected',
           rejected' \subseteq Seqs, buffered' \subseteq Seqs, answered' \subseteq Seqs,
           ingress' \in Audio, segment' \in [SegIds -> Audio],
           pending' \in [Seqs -> 0..MaxSegments], inflight' \in [Seqs -> 0..MaxSegments],
           outcome' \in [SegIds -> Outcomes], handler' \in [Sockets -> Handlers]
    PROVE  TypeOK' /\ WiresFit' /\ ClientFits'
<1>1. currentSeq' \in Int /\ currentSeq' >= currentSeq /\ lastProcessed' \in Int
    BY DEF IInv, TypeOK, client
<1>2. GoodUp \subseteq GoodUp'
    BY <1>1, StaysGood DEF IInv
<1>3. WiresFit'
    BY <1>2, Widen DEF WiresFit
<1>4. TypeOK'
    <2>1. up' \in [Sockets -> Seq(Upstream)]
        BY Widen DEF GoodUp
    <2>2. down' \in [Sockets -> Seq(Downstream)]
        <3>1. GoodDown' \subseteq Downstream
            BY DEF GoodDown
        <3>. QED  BY <3>1, Widen
    <2>3. processed' \subseteq Seqs
        BY BoundAssumption DEF Seqs
    <2>. QED  BY <2>1, <2>2, <2>3 DEF IInv, TypeOK, client
<1>. QED  BY <1>3, <1>4, ClientStays

\* A message said, or none, on the wires after the step.
LEMMA SaysGood ==
    ASSUME IInv, NEW s \in Sockets, NEW m \in GoodDown', UNCHANGED currentSeq,
           active' => active, lastProcessed' \in 0..MaxSeq, lastProcessed' >= lastProcessed,
           rejected \subseteq rejected', Say(s, m) \/ UNCHANGED down
    PROVE  down' \in [Sockets -> Seq(GoodDown')]
<1>1. currentSeq' \in Int /\ currentSeq' >= currentSeq /\ lastProcessed' \in Int
    BY DEF IInv, TypeOK
<1>2. GoodDown \subseteq GoodDown'
    BY <1>1, StaysGood DEF IInv
<1>3. down \in [Sockets -> Seq(GoodDown')]
    BY <1>2, Widen DEF IInv, WiresFit
<1>. QED  BY <1>3, Said

LEMMA ControlIsGood ==
    ASSUME IInv, UNCHANGED currentSeq
    PROVE  Close \in GoodDown' /\ Ready \in GoodDown'
BY MessageTypes DEF GoodDown, IInv, TypeOK, Close, Ready

\* A step that settles nothing: no mark, segment, claim or outcome changes.
LEMMA QuietServer ==
    ASSUME IInv, UNCHANGED <<client, marks, segment, pending, inflight, outcome>>,
           link' \in [Sockets -> Links],
           up' \in [Sockets -> Seq(GoodUp)], down' \in [Sockets -> Seq(GoodDown')],
           active' \in BOOLEAN, active' => active, lease' \in Sockets \cup {NoSocket},
           buffered' \subseteq Seqs, ingress' \in Audio, Real(ingress)',
           handler' \in [Sockets -> Handlers],
           \A t \in Sockets : handler'[t] = handler[t] \/ handler'[t].pc \in {"none", "receive"}
    PROVE  IInv'
<1>1. TypeOK' /\ WiresFit' /\ ClientFits'
    <2>1. lastProcessed' \in 0..MaxSeq /\ lastProcessed' >= lastProcessed
          /\ lastProcessed' =< currentSeq /\ processed' \subseteq 1..lastProcessed'
          /\ rejected \subseteq rejected' /\ rejected' \subseteq Seqs /\ answered' \subseteq Seqs
        BY DEF IInv, TypeOK, MarksFit, marks
    <2>2. segment' \in [SegIds -> Audio] /\ pending' \in [Seqs -> 0..MaxSegments]
          /\ inflight' \in [Seqs -> 0..MaxSegments] /\ outcome' \in [SegIds -> Outcomes]
        BY DEF IInv, TypeOK
    <2>. QED  BY <2>1, <2>2, ServerStep
<1>2. MarksFit'
    BY DEF IInv, MarksFit, Real, marks, client
<1>3. SegmentsFit'
    BY DEF IInv, SegmentsFit, Span, marks
<1>4. HandlersFit'
    BY DEF IInv, HandlersFit, marks
<1>5. BridgedOnce'
    BY DEF IInv, BridgedOnce
<1>. QED  BY <1>1, <1>2, <1>3, <1>4, <1>5 DEF IInv

\* What stays of a handler that goes back to receive, or ends.
LEMMA Goings ==
    ASSUME IInv, NEW s \in Sockets
    PROVE  /\ NoHandler \in Handlers /\ NoHandler.pc = "none"
           /\ Resumed(s) \in Handlers /\ Resumed(s).pc = "receive"
           /\ [handler[s] EXCEPT !.pc = "receive"] \in Handlers
<1>1. 0 \in 0..MaxSegments /\ 0 \in 0..MaxSeq /\ "none" \in Outcomes
    BY BoundAssumption DEF Outcomes
<1>2. NoHandler \in Handlers /\ NoHandler.pc = "none"
    BY <1>1 DEF NoHandler, Handlers
<1>3. handler[s] \in Handlers
    BY DEF IInv, TypeOK
<1>4. [handler[s] EXCEPT !.pc = "receive"] \in Handlers
    BY <1>3 DEF Handlers
<1>5. Resumed(s) \in Handlers /\ Resumed(s).pc = "receive"
    BY <1>1, <1>3 DEF Resumed, Handlers
<1>. QED  BY <1>2, <1>4, <1>5

LEMMA Ends ==
    ASSUME IInv, NEW s \in Sockets, NEW h \in Handlers, h.pc \in {"none", "receive"}, Goes(s, h)
    PROVE  /\ handler' \in [Sockets -> Handlers]
           /\ \A t \in Sockets : handler'[t] = handler[t] \/ handler'[t].pc \in {"none", "receive"}
BY DEF Goes, IInv, TypeOK

LEMMA AcceptPreserves ==
    ASSUME IInv, NEW s \in Sockets, Accept(s)
    PROVE  IInv'
<1>1. UNCHANGED <<client, up, active, marks, buffered, ingress, segment, pending, inflight, outcome>>
    BY DEF Accept
<1>2. down' \in [Sockets -> Seq(GoodDown')]
    <2>1. Ready \in GoodDown' /\ GoodDown = GoodDown'
        BY <1>1, ControlIsGood DEF client, marks, GoodDown, Backed
    <2>2. <<Ready>> \in Seq(GoodDown')
        BY <2>1
    <2>. QED  BY <2>1, <2>2 DEF Accept, IInv, WiresFit
<1>3. handler' \in [Sockets -> Handlers]
      /\ \A t \in Sockets : handler'[t] = handler[t] \/ handler'[t].pc \in {"none", "receive"}
    <2>1. handler' = [handler EXCEPT ![s] = [handler[s] EXCEPT !.pc = "receive"]]
        BY DEF Accept
    <2>2. [handler[s] EXCEPT !.pc = "receive"] \in Handlers
          /\ [handler[s] EXCEPT !.pc = "receive"].pc = "receive"
        BY Goings DEF IInv, TypeOK, Handlers
    <2>. QED  BY <2>1, <2>2 DEF IInv, TypeOK
<1>4. link' \in [Sockets -> Links] /\ lease' \in Sockets \cup {NoSocket}
    BY DEF Accept, IInv, TypeOK, Links
<1>5. Real(ingress)' /\ up' \in [Sockets -> Seq(GoodUp)]
    BY <1>1 DEF IInv, MarksFit, WiresFit, Real, client
<1>6. active' \in BOOLEAN /\ buffered' \subseteq Seqs /\ ingress' \in Audio /\ (active' => active)
    BY <1>1 DEF IInv, TypeOK
<1>. QED  BY <1>1, <1>2, <1>3, <1>4, <1>5, <1>6, QuietServer

LEMMA RefusePreserves ==
    ASSUME IInv, NEW s \in Sockets, Refuse(s)
    PROVE  IInv'
<1>1. link' \in [Sockets -> Links]
    BY DEF Refuse, IInv, TypeOK, Links
<1>2. UNCHANGED <<currentSeq, lastAckSeq, unackedFrames, session, handler, client, up, down>>
    BY DEF Refuse, client
<1>3. up' \in [Sockets -> Seq(GoodUp)] /\ down' \in [Sockets -> Seq(GoodDown)]
    BY <1>2 DEF IInv, WiresFit
<1>. QED  BY <1>1, <1>2, <1>3, QuietClient DEF IInv, TypeOK, client

\* What a quiet step leaves of the types and the audio.
LEMMA QuietTypes ==
    ASSUME IInv
    PROVE  /\ link \in [Sockets -> Links] /\ lease \in Sockets \cup {NoSocket}
           /\ active \in BOOLEAN /\ buffered \subseteq Seqs /\ ingress \in Audio /\ Real(ingress)
           /\ up \in [Sockets -> Seq(GoodUp)] /\ down \in [Sockets -> Seq(GoodDown)]
           /\ handler \in [Sockets -> Handlers]
           /\ lastProcessed \in 0..MaxSeq /\ lastProcessed =< currentSeq /\ currentSeq \in 0..MaxSeq
BY DEF IInv, TypeOK, WiresFit, MarksFit

LEMMA TakenIsGood ==
    ASSUME IInv, NEW s \in Sockets, up[s] # <<>>, Taken(s)
    PROVE  /\ up' \in [Sockets -> Seq(GoodUp)]
           /\ Head(up[s]) \in Upstream /\ Head(up[s]).seq =< currentSeq
           /\ Head(up[s]).seq \in 0..MaxSeq
           /\ Head(up[s]).type = "frame" => Head(up[s]).seq \in Seqs
<1>1. up' \in [Sockets -> Seq(GoodUp)] /\ Head(up[s]) \in GoodUp
    BY Took, QuietTypes
<1>. QED  BY <1>1, MessageTypes DEF GoodUp

LEMMA LeaveStalePreserves ==
    ASSUME IInv, NEW s \in Sockets, LeaveStale(s)
    PROVE  IInv'
<1>1. UNCHANGED <<client, link, session>> /\ Goes(s, NoHandler) /\ Say(s, Close)
    BY DEF LeaveStale
<1>2. Close \in GoodDown'
    BY <1>1, ControlIsGood DEF client
<1>3. down' \in [Sockets -> Seq(GoodDown')]
    BY <1>1, <1>2, QuietTypes, SaysGood DEF client, session, marks
<1>4. up' \in [Sockets -> Seq(GoodUp)]
    BY TakenIsGood DEF LeaveStale
<1>. QED  BY <1>1, <1>3, <1>4, Goings, Ends, QuietTypes, QuietServer DEF session, marks, Real, client

LEMMA NoticeDisconnectPreserves ==
    ASSUME IInv, NEW s \in Sockets, NoticeDisconnect(s)
    PROVE  IInv'
<1>1. UNCHANGED <<client, wires, lease, marks, buffered, ingress, segment, pending, inflight, outcome>>
      /\ Goes(s, NoHandler) /\ active' \in {active, FALSE}
    BY DEF NoticeDisconnect
<1>2. UNCHANGED <<link, up, down>> /\ UNCHANGED currentSeq
    BY <1>1 DEF wires, client
<1>3. Close \in GoodDown'
    BY <1>2, ControlIsGood
<1>4. active' \in BOOLEAN /\ (active' => active)
    <2>1. active' = active \/ active' = FALSE
        BY <1>1
    <2>2. active \in BOOLEAN
        BY QuietTypes
    <2>3. CASE active' = active
        BY <2>2, <2>3
    <2>4. CASE active' = FALSE
        BY <2>4
    <2>. QED  BY <2>1, <2>3, <2>4
<1>5. down' \in [Sockets -> Seq(GoodDown')]
    <2>1. lastProcessed' \in 0..MaxSeq /\ lastProcessed' >= lastProcessed /\ rejected \subseteq rejected'
        BY <1>1, QuietTypes DEF marks
    <2>. QED  BY <1>2, <1>3, <1>4, <2>1, SaysGood
<1>. QED  BY <1>1, <1>2, <1>4, <1>5, Goings, Ends, QuietTypes, QuietServer DEF marks, Real

LEMMA ReceiveReconnectPreserves ==
    ASSUME IInv, NEW s \in Sockets, ReceiveReconnect(s)
    PROVE  IInv'
<1>1. /\ UNCHANGED <<client, link, active, lease, marks, segment, pending, inflight, outcome, handler>>
      /\ Say(s, Reconnected(lastProcessed)) /\ buffered' = {}
      /\ ingress' = [ingress EXCEPT !.start = 0, !.frames = {}]
    BY DEF ReceiveReconnect
<1>2. Reconnected(lastProcessed) \in GoodDown'
    BY <1>1, MessageTypes, QuietTypes DEF GoodDown, Backed, client, marks
<1>3. down' \in [Sockets -> Seq(GoodDown')]
    BY <1>1, <1>2, QuietTypes, SaysGood DEF client, marks
<1>4. up' \in [Sockets -> Seq(GoodUp)]
    BY TakenIsGood DEF ReceiveReconnect, Receives
<1>5. ingress' \in Audio /\ Real(ingress)'
    <2>1. ingress \in Audio /\ 0 \in 0..MaxSeq
        BY BoundAssumption, QuietTypes
    <2>. QED  BY <1>1, <2>1, QuietTypes DEF Audio, Real, client
<1>. QED  BY <1>1, <1>3, <1>4, <1>5, QuietTypes, QuietServer

LEMMA ReceiveDuplicatePreserves ==
    ASSUME IInv, NEW s \in Sockets, ReceiveDuplicate(s)
    PROVE  IInv'
<1>. DEFINE q == Head(up[s]).seq
<1>1. UNCHANGED <<client, link, session, handler>> /\ Say(s, Ack(q)) /\ ~Accepts(q)
    BY DEF ReceiveDuplicate
<1>2. q \in Seqs /\ q =< currentSeq /\ up' \in [Sockets -> Seq(GoodUp)]
    BY TakenIsGood DEF ReceiveDuplicate, Receives
<1>3. active => Backed(q)
    <2>1. processed \subseteq 1..lastProcessed /\ lastProcessed \in Int
        BY DEF IInv, MarksFit, TypeOK
    <2>2. q \in Int /\ \A n \in 1..lastProcessed : n =< lastProcessed
        BY <1>2, <2>1 DEF Seqs
    <2>. QED  BY <1>1, <2>1, <2>2 DEF Accepts, Backed
<1>4. Ack(q) \in GoodDown'
    BY <1>1, <1>2, <1>3, MessageTypes DEF GoodDown, Backed, client, session, marks
<1>5. down' \in [Sockets -> Seq(GoodDown')]
    BY <1>1, <1>4, QuietTypes, SaysGood DEF client, session, marks
<1>. QED  BY <1>1, <1>2, <1>5, QuietTypes, QuietServer DEF session, marks, Real, client

LEMMA ReceiveBufferedPreserves ==
    ASSUME IInv, NEW s \in Sockets, ReceiveBuffered(s)
    PROVE  IInv'
<1>1. UNCHANGED <<client, link, down, session, handler>>
    BY DEF ReceiveBuffered
<1>2. up' \in [Sockets -> Seq(GoodUp)]
    BY TakenIsGood DEF ReceiveBuffered, Fresh, Receives
<1>3. Close \in GoodDown'
    BY <1>1, ControlIsGood DEF client
<1>4. down' \in [Sockets -> Seq(GoodDown')]
    BY <1>1, <1>3, QuietTypes, SaysGood DEF client, session, marks
<1>. QED  BY <1>1, <1>2, <1>4, QuietTypes, QuietServer DEF session, marks, Real, client

\* The partial segment, one frame longer.
LEMMA PushedFits ==
    ASSUME IInv, NEW s \in Sockets, New(s), Taken(s)
    PROVE  LET q == Head(up[s]).seq
           IN  /\ q \in Seqs /\ q =< currentSeq /\ up' \in [Sockets -> Seq(GoodUp)]
               /\ Pushed(q) \in Audio /\ Pushed(q).end = q /\ Pushed(q).frames # {}
               /\ Real(Pushed(q))
<1>. DEFINE q == Head(up[s]).seq
<1>1. q \in Seqs /\ q \in 0..MaxSeq /\ q =< currentSeq /\ up' \in [Sockets -> Seq(GoodUp)]
    BY TakenIsGood DEF New, Fresh, Receives
<1>2. ingress \in Audio /\ Real(ingress)
    BY QuietTypes
<1>3. Pushed(q).end = q /\ Pushed(q).frames = ingress.frames \cup {q}
      /\ Pushed(q).start = IF ingress.frames = {} THEN q ELSE ingress.start
    BY DEF Pushed
<1>4. Pushed(q) \in Audio
    BY <1>1, <1>2 DEF Pushed, Audio
<1>5. Real(Pushed(q))
    BY <1>1, <1>2, <1>3 DEF Real
<1>. QED  BY <1>1, <1>3, <1>4, <1>5

LEMMA ReceivePartialPreserves ==
    ASSUME IInv, NEW s \in Sockets, ReceivePartial(s)
    PROVE  IInv'
<1>. DEFINE q == Head(up[s]).seq
<1>1. /\ UNCHANGED <<client, link, down, active, lease, marks, segment, pending, inflight,
                     outcome, handler>>
      /\ ingress' = Pushed(q) /\ buffered' = buffered \cup {q}
    BY DEF ReceivePartial
<1>2. q \in Seqs /\ up' \in [Sockets -> Seq(GoodUp)] /\ Pushed(q) \in Audio /\ Real(Pushed(q))
    BY PushedFits DEF ReceivePartial
<1>3. Close \in GoodDown'
    BY <1>1, ControlIsGood DEF client
<1>4. down' \in [Sockets -> Seq(GoodDown')]
    BY <1>1, <1>3, QuietTypes, SaysGood DEF client, marks
<1>5. Real(ingress)' /\ ingress' \in Audio /\ buffered' \subseteq Seqs
    BY <1>1, <1>2, QuietTypes DEF Real, client
<1>. QED  BY <1>1, <1>2, <1>4, <1>5, QuietTypes, QuietServer

LEMMA WakeCommittedPreserves ==
    ASSUME IInv, NEW s \in Sockets, WakeCommitted(s)
    PROVE  IInv'
<1>1. UNCHANGED <<client, link, up, lease, marks, buffered, ingress, segment, pending, inflight, outcome>>
    BY DEF WakeCommitted
<1>2. Close \in GoodDown' /\ UNCHANGED currentSeq
    BY <1>1, ControlIsGood DEF client
<1>3. active' \in BOOLEAN /\ (active' => active)
    BY QuietTypes DEF WakeCommitted, Superseded
<1>4. handler' \in [Sockets -> Handlers]
      /\ \A t \in Sockets : handler'[t] = handler[t] \/ handler'[t].pc \in {"none", "receive"}
    <2>1. Goes(s, Resumed(s)) \/ Goes(s, NoHandler)
        BY DEF WakeCommitted
    <2>. QED  BY <2>1, Goings, Ends
<1>5. handler[s].res = "success" => Ack(handler[s].ack) \in GoodDown'
    <2>1. SUFFICES ASSUME handler[s].res = "success" PROVE Ack(handler[s].ack) \in GoodDown'
        OBVIOUS
    <2>2. handler[s].pc = "woken"
        BY DEF WakeCommitted, Wakes
    <2>3. handler[s].ack \in Seqs /\ handler[s].ack =< lastProcessed
        BY <2>1, <2>2 DEF IInv, HandlersFit
    <2>4. handler[s].ack =< currentSeq
        BY <2>3, QuietTypes DEF Seqs
    <2>. QED  BY <1>1, <2>3, <2>4, MessageTypes DEF GoodDown, Backed, client, marks
<1>6. down' \in [Sockets -> Seq(GoodDown')]
    <2>1. \/ Say(s, Close) \/ UNCHANGED down
          \/ handler[s].res = "success" /\ Say(s, Ack(handler[s].ack))
        BY DEF WakeCommitted, Superseded
    <2>2. lastProcessed' \in 0..MaxSeq /\ lastProcessed' >= lastProcessed /\ rejected \subseteq rejected'
        BY <1>1, QuietTypes DEF marks
    <2>. QED  BY <1>2, <1>3, <1>5, <2>1, <2>2, SaysGood
<1>7. Real(ingress)'
    BY <1>1, QuietTypes DEF Real, client
<1>. QED  BY <1>1, <1>3, <1>4, <1>6, <1>7, QuietTypes, QuietServer

-----------------------------------------------------------------------------
(* A frame that completes or recalls a segment.                            *)

LEMMA SpanFits ==
    ASSUME NEW g \in Audio, Real(g), g.frames # {}, currentSeq \in 0..MaxSeq
    PROVE  Span(g) \subseteq Seqs /\ Span(g) \subseteq 1..g.end /\ g.end \in Span(g) /\ g.end \in Seqs
BY BoundAssumption DEF Span, Real, Audio, Seqs

LEMMA Processed ==
    ASSUME IInv, NEW g \in Audio, Real(g), g.frames # {}, RangeProcessed(g)
    PROVE  g.end =< lastProcessed
<1>1. currentSeq \in 0..MaxSeq /\ lastProcessed \in Int /\ processed \subseteq 1..lastProcessed
    BY QuietTypes DEF IInv, MarksFit
<1>2. g.end \in Span(g)
    BY <1>1, SpanFits
<1>3. g.end \in processed => g.end =< lastProcessed
    <2>1. \A n \in 1..lastProcessed : n =< lastProcessed
        BY <1>1
    <2>. QED  BY <1>1, <2>1
<1>. QED  BY <1>2, <1>3 DEF RangeProcessed

\* Segment i keeps, or is given, the audio g; it is not committed or, if it
\* is, its range is processed.
LEMMA HandlePreserves ==
    ASSUME IInv, NEW s \in Sockets, NEW i \in SegIds, NEW g \in Audio,
           Real(g), g.frames # {}, Handle(s, i, g), handler[s].pc = "receive",
           segment' = [segment EXCEPT ![i] = g],
           outcome[i] # "none" => segment[i] = g,
           outcome[i] # "rejected",
           UNCHANGED <<client, link, active, lease, marks, pending>>,
           up' \in [Sockets -> Seq(GoodUp)], ingress' \in Audio, Real(ingress)'
    PROVE  IInv'
<1>1. currentSeq' = currentSeq /\ currentSeq \in 0..MaxSeq /\ lastProcessed' = lastProcessed
    BY QuietTypes DEF client, marks
<1>2. Span(g) \subseteq Seqs /\ g.end \in Seqs /\ g.end =< currentSeq
    BY <1>1, SpanFits DEF Real
<1>3. segment \in [SegIds -> Audio] /\ outcome \in [SegIds -> Outcomes]
      /\ inflight \in [Seqs -> 0..MaxSegments] /\ pending \in [Seqs -> 0..MaxSegments]
    BY DEF IInv, TypeOK
<1>4. segment' \in [SegIds -> Audio] /\ segment'[i] = g
      /\ \A j \in SegIds : j # i => segment'[j] = segment[j]
    BY <1>3
<1>5. \A j \in SegIds : outcome[j] # "none" => segment'[j] = segment[j]
    BY <1>4
<1>7. down' \in [Sockets -> Seq(GoodDown')]
    <2>1. RangeProcessed(g) => Ack(g.end) \in GoodDown'
        <3>1. SUFFICES ASSUME RangeProcessed(g) PROVE Ack(g.end) \in GoodDown'
            OBVIOUS
        <3>2. g.end =< lastProcessed'
            BY <1>1, <3>1, Processed
        <3>. QED  BY <1>1, <1>2, <3>2, MessageTypes DEF GoodDown, Backed
    <2>2. \/ RangeProcessed(g) /\ Say(s, Ack(g.end))
          \/ UNCHANGED down
        BY DEF Handle
    <2>3. Close \in GoodDown'
        BY <1>1, ControlIsGood
    <2>4. active' => active
        OBVIOUS
    <2>5. lastProcessed' \in 0..MaxSeq /\ lastProcessed' >= lastProcessed /\ rejected \subseteq rejected'
        BY QuietTypes DEF marks
    <2>. QED  BY <1>1, <2>1, <2>2, <2>3, <2>4, <2>5, SaysGood
<1>8. /\ outcome' \in [SegIds -> Outcomes] /\ inflight' \in [Seqs -> 0..MaxSegments]
      /\ buffered' \subseteq Seqs
    <2>1. i \in 0..MaxSegments
        BY BoundAssumption DEF SegIds
    <2>. QED  BY <1>3, <2>1, QuietTypes DEF Handle, Outcomes
<1>9. handler' \in [Sockets -> Handlers]
    <2>1. i \in 0..MaxSegments /\ handler[s] \in Handlers /\ handler \in [Sockets -> Handlers]
        BY BoundAssumption DEF SegIds, IInv, TypeOK
    <2>2. [handler[s] EXCEPT !.pc = "claim", !.seg = i] \in Handlers
          /\ [handler[s] EXCEPT !.pc = "bridge", !.seg = i, !.called = TRUE] \in Handlers
        BY <2>1 DEF Handlers
    <2>. QED  BY <2>1, <2>2 DEF Handle
<1>10. TypeOK' /\ WiresFit' /\ ClientFits'
    <2>1. /\ lastProcessed' \in 0..MaxSeq /\ lastProcessed' >= lastProcessed
          /\ lastProcessed' =< currentSeq /\ processed' \subseteq 1..lastProcessed'
          /\ rejected \subseteq rejected' /\ rejected' \subseteq Seqs /\ answered' \subseteq Seqs
          /\ active' \in BOOLEAN /\ (active' => active) /\ lease' \in Sockets \cup {NoSocket}
          /\ link' \in [Sockets -> Links] /\ pending' \in [Seqs -> 0..MaxSegments]
        BY DEF IInv, TypeOK, MarksFit, marks
    <2>. QED  BY <1>4, <1>7, <1>8, <1>9, <2>1, ServerStep
<1>11. MarksFit'
    <2>1. \A j \in SegIds : Real(segment[j])'
        BY <1>1, <1>4 DEF Real, IInv, MarksFit
    <2>. QED  BY <1>1, <2>1 DEF IInv, MarksFit, marks
<1>12. /\ \A q \in Seqs : pending[q] # 0 => pending[q] \in SegIds
       /\ \A q \in Seqs : inflight[q] # 0 => inflight[q] \in SegIds
    BY <1>3, BoundAssumption DEF SegIds
<1>13. CASE UNCHANGED <<outcome, inflight>>
    <2>1. SegmentsFit'
        <3>1. \A j \in SegIds :
                /\ outcome'[j] # "none" => segment'[j].frames # {}
                /\ outcome'[j] = "success" => Span(segment'[j]) \subseteq processed'
                /\ outcome'[j] = "rejected" => Span(segment'[j]) \subseteq rejected'
            BY <1>5, <1>13 DEF IInv, SegmentsFit, marks
        <3>2. \A q \in Seqs : pending'[q] # 0 =>
                q \in Span(segment'[pending'[q]]) /\ outcome'[pending'[q]] # "none"
            BY <1>5, <1>12, <1>13 DEF IInv, SegmentsFit
        <3>3. \A q \in Seqs : inflight'[q] # 0 =>
                q \in Span(segment'[inflight'[q]]) /\ outcome'[inflight'[q]] = "inflight"
            BY <1>5, <1>12, <1>13 DEF IInv, SegmentsFit
        <3>. QED  BY <3>1, <3>2, <3>3 DEF SegmentsFit, Span
    <2>2. \/ UNCHANGED handler
          \/ /\ handler' = [handler EXCEPT ![s] = [handler[s] EXCEPT !.pc = "claim", !.seg = i]]
             /\ outcome[i] = "inflight"
        <3>1. outcome'[i] = "inflight" => outcome[i] = "inflight"
            BY <1>13
        <3>. QED  BY <1>3, <3>1 DEF Handle
    <2>3. CASE UNCHANGED handler
        BY <1>1, <1>10, <1>11, <1>13, <2>1, <2>3 DEF IInv, HandlersFit, BridgedOnce
    <2>4. CASE /\ handler' = [handler EXCEPT ![s] = [handler[s] EXCEPT !.pc = "claim", !.seg = i]]
               /\ outcome[i] = "inflight"
        <3>1. handler'[s].pc = "claim" /\ handler'[s].seg = i
              /\ \A t \in Sockets : t # s => handler'[t] = handler[t]
            BY <2>4 DEF IInv, TypeOK, Handlers
        <3>2. HandlersFit'
            BY <1>1, <1>13, <2>4, <3>1 DEF IInv, HandlersFit
        <3>3. BridgedOnce'
            BY <1>13, <3>1 DEF IInv, BridgedOnce
        <3>. QED  BY <1>10, <1>11, <2>1, <3>2, <3>3 DEF IInv
    <2>. QED  BY <2>2, <2>3, <2>4
<1>14. CASE ~(UNCHANGED <<outcome, inflight>>)
    <2>1. /\ outcome[i] # "inflight"
          /\ outcome' = [outcome EXCEPT ![i] = "inflight"]
          /\ inflight' = [q \in Seqs |-> IF q \in Span(g) THEN i ELSE inflight[q]]
          /\ handler' = [handler EXCEPT ![s] =
                           [handler[s] EXCEPT !.pc = "bridge", !.seg = i, !.called = TRUE]]
          /\ ~RangeProcessed(g)
        BY <1>14 DEF Handle
    <2>2. outcome[i] # "success"
        <3>1. outcome[i] = "success" => Span(g) \subseteq processed
            BY DEF IInv, SegmentsFit
        <3>. QED  BY <2>1, <3>1 DEF RangeProcessed
    <2>3. /\ outcome'[i] = "inflight"
          /\ \A j \in SegIds : j # i => outcome'[j] = outcome[j] /\ segment'[j] = segment[j]
        BY <1>3, <1>4, <2>1
    <2>4. SegmentsFit'
        <3>1. \A j \in SegIds :
                /\ outcome'[j] # "none" => segment'[j].frames # {}
                /\ outcome'[j] = "success" => Span(segment'[j]) \subseteq processed'
                /\ outcome'[j] = "rejected" => Span(segment'[j]) \subseteq rejected'
            BY <1>4, <2>3 DEF IInv, SegmentsFit, marks
        <3>2. \A q \in Seqs : pending'[q] # 0 =>
                q \in Span(segment'[pending'[q]]) /\ outcome'[pending'[q]] # "none"
            BY <1>5, <1>12, <2>3 DEF IInv, SegmentsFit
        <3>3. ASSUME NEW q \in Seqs, inflight'[q] # 0
              PROVE  q \in Span(segment'[inflight'[q]]) /\ outcome'[inflight'[q]] = "inflight"
            <4>1. CASE q \in Span(g)
                BY <1>4, <2>1, <2>3, <4>1
            <4>2. CASE q \notin Span(g)
                BY <1>5, <1>12, <2>1, <2>3, <3>3, <4>2 DEF IInv, SegmentsFit
            <4>. QED  BY <4>1, <4>2
        <3>. QED  BY <3>1, <3>2, <3>3 DEF SegmentsFit, Span
    <2>5. handler'[s].pc = "bridge" /\ handler'[s].seg = i
          /\ \A t \in Sockets : t # s => handler'[t] = handler[t]
        BY <2>1 DEF IInv, TypeOK, Handlers
    <2>6. HandlersFit'
        BY <1>1, <2>3, <2>5 DEF IInv, HandlersFit
    <2>7. BridgedOnce'
        <3>1. \A t \in Sockets : handler[t].pc = "bridge" => handler[t].seg # i
            BY <2>1 DEF IInv, BridgedOnce
        <3>2. \A t \in Sockets : handler[t].pc = "bridge" => handler[t].seg \in SegIds
            BY DEF IInv, HandlersFit
        <3>. QED  BY <2>3, <2>5, <3>1, <3>2 DEF IInv, BridgedOnce
    <2>. QED  BY <1>10, <1>11, <2>4, <2>6, <2>7 DEF IInv
<1>. QED  BY <1>13, <1>14

LEMMA ReceiveRecalledPreserves ==
    ASSUME IInv, NEW s \in Sockets, ReceiveRecalled(s)
    PROVE  IInv'
<1>. DEFINE q == Head(up[s]).seq
            i == Recalled(q)
<1>1. /\ Fresh(s) /\ i # 0 /\ Handle(s, i, segment[i]) /\ Taken(s)
      /\ UNCHANGED <<client, link, active, lease, marks, ingress, segment, pending>>
    BY DEF ReceiveRecalled
<1>2. q \in Seqs /\ up' \in [Sockets -> Seq(GoodUp)] /\ handler[s].pc = "receive" /\ q \notin rejected
    BY <1>1, TakenIsGood DEF Fresh, Receives, Accepts
<1>3. i \in SegIds /\ q \in Span(segment[i]) /\ outcome[i] # "none"
    <2>1. pending[q] \in 0..MaxSegments /\ inflight[q] \in 0..MaxSegments
        BY <1>2 DEF IInv, TypeOK
    <2>2. i \in SegIds
        BY <1>1, <2>1, BoundAssumption DEF Recalled, SegIds
    <2>. QED  BY <1>1, <1>2, <2>2 DEF Recalled, IInv, SegmentsFit
<1>4. outcome[i] # "rejected"
    BY <1>2, <1>3 DEF IInv, SegmentsFit
<1>5. segment[i] \in Audio /\ Real(segment[i]) /\ segment[i].frames # {}
    BY <1>3 DEF IInv, TypeOK, MarksFit, SegmentsFit
<1>6. segment' = [segment EXCEPT ![i] = segment[i]]
    BY <1>1, <1>3 DEF IInv, TypeOK
<1>7. ingress' \in Audio /\ Real(ingress)'
    BY <1>1, QuietTypes DEF Real, client
<1>. HIDE DEF i
<1>. QED  BY <1>1, <1>2, <1>3, <1>4, <1>5, <1>6, <1>7, HandlePreserves

LEMMA ReceiveBoundaryPreserves ==
    ASSUME IInv, NEW s \in Sockets, NEW i \in SegIds, ReceiveBoundary(s, i)
    PROVE  IInv'
<1>. DEFINE q == Head(up[s]).seq
            g == Pushed(q)
<1>1. /\ New(s) /\ Taken(s) /\ Handle(s, i, g)
      /\ segment' = [segment EXCEPT ![i] = g]
      /\ ingress' = [ingress EXCEPT !.start = 0, !.end = q, !.frames = {}]
      /\ UNCHANGED <<client, link, active, lease, marks, pending>>
    BY DEF ReceiveBoundary
<1>2. /\ q \in Seqs /\ q =< currentSeq /\ up' \in [Sockets -> Seq(GoodUp)]
      /\ g \in Audio /\ g.frames # {} /\ Real(g)
    BY <1>1, PushedFits
<1>3. outcome[i] = "none"
    <2>1. segment[i].frames = {}
        BY BoundAssumption DEF ReceiveBoundary, SegIds
    <2>. QED  BY <2>1 DEF IInv, SegmentsFit
<1>4. ingress' \in Audio /\ Real(ingress)'
    <2>1. 0 \in 0..MaxSeq /\ q \in 0..MaxSeq /\ ingress \in Audio
        BY <1>2, BoundAssumption, QuietTypes DEF Seqs
    <2>2. ingress' \in Audio /\ ingress'.frames = {} /\ ingress'.end = q
        BY <1>1, <2>1 DEF Audio
    <2>. QED  BY <1>1, <1>2, <2>2 DEF Real, client
<1>5. handler[s].pc = "receive"
    BY <1>1 DEF New, Fresh, Receives
<1>. HIDE DEF g
<1>. QED  BY <1>1, <1>2, <1>3, <1>4, <1>5, HandlePreserves

-----------------------------------------------------------------------------
(* The Bot's answer.                                                       *)

LEMMA RetryFits ==
    ASSUME IInv, NEW i \in SegIds, Retry(i)
    PROVE  /\ pending' \in [Seqs -> 0..MaxSegments]
           /\ \A q \in Seqs : pending'[q] = pending[q] \/ (pending'[q] = i /\ q \in Span(segment[i]))
<1>1. segment[i] \in Audio /\ i \in 0..MaxSegments
    BY BoundAssumption DEF IInv, TypeOK, SegIds
<1>2. segment[i].start..segment[i].end \subseteq Span(segment[i])
    BY <1>1, BoundAssumption DEF Span, Audio
<1>3. pending \in [Seqs -> 0..MaxSegments]
    BY DEF IInv, TypeOK
<1>4. pending' = [q \in Seqs |-> IF q \in segment[i].start..segment[i].end THEN i ELSE pending[q]]
    BY DEF Retry
<1>5. pending' \in [Seqs -> 0..MaxSegments]
    BY <1>1, <1>3, <1>4
<1>6. \A q \in Seqs :
          pending'[q] = pending[q] \/ (pending'[q] = i /\ q \in segment[i].start..segment[i].end)
    BY <1>4
<1>. QED  BY <1>2, <1>5, <1>6

\* The claim of segment i is given up with outcome r, and the waiters told.
LEMMA ResolvePreserves ==
    ASSUME IInv, NEW s \in Sockets, NEW i \in SegIds, handler[s].pc = "bridge", handler[s].seg = i,
           NEW r \in {"success", "rejected", "transient"}, NEW ack \in 0..MaxSeq,
           NEW h \in Handlers, h.pc \in {"none", "receive"}, Resolve(s, i, r, ack, h),
           UNCHANGED segment, lastProcessed' \in 0..MaxSeq, lastProcessed' >= lastProcessed,
           ack =< lastProcessed', r = "success" => ack \in Seqs,
           processed \subseteq processed', rejected \subseteq rejected',
           r = "success" => Span(segment[i]) \subseteq processed',
           r = "rejected" => Span(segment[i]) \subseteq rejected',
           \A q \in Seqs : \/ pending'[q] = pending[q] \/ pending'[q] = 0
                           \/ pending'[q] = i /\ q \in Span(segment[i])
    PROVE  /\ outcome' \in [SegIds -> Outcomes] /\ inflight' \in [Seqs -> 0..MaxSegments]
           /\ handler' \in [Sockets -> Handlers]
           /\ SegmentsFit' /\ HandlersFit' /\ BridgedOnce'
<1>1. outcome \in [SegIds -> Outcomes] /\ inflight \in [Seqs -> 0..MaxSegments]
      /\ handler \in [Sockets -> Handlers] /\ pending \in [Seqs -> 0..MaxSegments]
      /\ lastProcessed \in 0..MaxSeq
    BY DEF IInv, TypeOK
<1>2. outcome[i] = "inflight"
    BY DEF IInv, BridgedOnce
<1>3. outcome' = [outcome EXCEPT ![i] = r] /\ outcome' \in [SegIds -> Outcomes] /\ r \in Outcomes
    BY <1>1 DEF Resolve, Outcomes
<1>4. inflight' = [q \in Seqs |-> IF q \in Span(segment[i]) THEN 0 ELSE inflight[q]]
      /\ inflight' \in [Seqs -> 0..MaxSegments]
    <2>1. inflight' = [q \in Seqs |-> IF q \in Span(segment[i]) THEN 0 ELSE inflight[q]]
        BY DEF Resolve
    <2>2. 0 \in 0..MaxSegments
        BY BoundAssumption
    <2>. QED  BY <1>1, <2>1, <2>2
<1>5. /\ handler'[s] = h
      /\ \A t \in Sockets : t # s =>
            \/ handler'[t] = handler[t]
            \/ /\ handler[t].pc = "claim"
               /\ handler'[t] = [handler[t] EXCEPT !.pc = "woken", !.res = r, !.ack = ack]
    BY DEF Resolve
<1>6. \A t \in Sockets : t # s =>
          \/ handler'[t] = handler[t]
          \/ /\ handler[t].pc = "claim" /\ handler'[t] \in Handlers
             /\ handler'[t].pc = "woken" /\ handler'[t].seg = handler[t].seg
             /\ handler'[t].res = r /\ handler'[t].ack = ack
    <2>1. ASSUME NEW x \in Handlers
          PROVE  LET y == [x EXCEPT !.pc = "woken", !.res = r, !.ack = ack]
                 IN  y \in Handlers /\ y.pc = "woken" /\ y.seg = x.seg /\ y.res = r /\ y.ack = ack
        BY <1>3 DEF Handlers
    <2>2. \A t \in Sockets :
              LET y == [handler[t] EXCEPT !.pc = "woken", !.res = r, !.ack = ack]
              IN  y \in Handlers /\ y.pc = "woken" /\ y.seg = handler[t].seg /\ y.res = r /\ y.ack = ack
        BY <1>1, <2>1
    <2>. QED  BY <1>5, <2>2
<1>7. handler' \in [Sockets -> Handlers]
    <2>1. \A t \in Sockets : handler'[t] \in Handlers
        BY <1>1, <1>5, <1>6
    <2>2. handler' = [t \in Sockets |-> handler'[t]]
        BY DEF Resolve
    <2>. QED  BY <2>1, <2>2
<1>8. /\ \A q \in Seqs : pending[q] # 0 => pending[q] \in SegIds
      /\ \A q \in Seqs : inflight[q] # 0 => inflight[q] \in SegIds
      /\ i # 0
    BY <1>1, BoundAssumption DEF SegIds
<1>9. SegmentsFit'
    <2>1. \A j \in SegIds :
            /\ outcome'[j] # "none" => segment'[j].frames # {}
            /\ outcome'[j] = "success" => Span(segment'[j]) \subseteq processed'
            /\ outcome'[j] = "rejected" => Span(segment'[j]) \subseteq rejected'
        BY <1>1, <1>2, <1>3 DEF IInv, SegmentsFit
    <2>2. ASSUME NEW q \in Seqs, pending'[q] # 0
          PROVE  q \in Span(segment'[pending'[q]]) /\ outcome'[pending'[q]] # "none"
        BY <1>1, <1>3, <1>8, <2>2 DEF IInv, SegmentsFit
    <2>3. ASSUME NEW q \in Seqs, inflight'[q] # 0
          PROVE  q \in Span(segment'[inflight'[q]]) /\ outcome'[inflight'[q]] = "inflight"
        <3>1. inflight'[q] = inflight[q] /\ q \notin Span(segment[i])
            BY <1>4, <2>3
        <3>2. inflight[q] # i
            BY <1>8, <3>1, <2>3 DEF IInv, SegmentsFit
        <3>. QED  BY <1>1, <1>3, <1>8, <2>3, <3>1, <3>2 DEF IInv, SegmentsFit
    <2>. QED  BY <2>1, <2>2, <2>3 DEF SegmentsFit, Span
<1>10. \A t \in Sockets : handler[t].pc = "bridge" /\ t # s =>
           handler[t].seg \in SegIds /\ handler[t].seg # i
    BY DEF IInv, BridgedOnce, HandlersFit
<1>11. HandlersFit'
    <2>1. \A j \in SegIds : outcome[j] # "none" => outcome'[j] # "none"
        BY <1>1, <1>3
    <2>2. ASSUME NEW t \in Sockets
          PROVE /\ handler'[t].pc \in {"bridge", "claim", "woken"} =>
                       handler'[t].seg \in SegIds /\ outcome'[handler'[t].seg] # "none"
                /\ handler'[t].pc = "woken" => handler'[t].ack =< lastProcessed'
                /\ handler'[t].pc = "woken" /\ handler'[t].res = "success" => handler'[t].ack \in Seqs
        <3>1. CASE t = s
            BY <1>5, <3>1
        <3>2. CASE t # s /\ handler'[t] = handler[t]
            <4>1. handler[t].ack \in Int
                BY <1>1 DEF Handlers
            <4>. QED  BY <1>1, <2>1, <3>2, <4>1 DEF IInv, HandlersFit
        <3>3. CASE t # s /\ handler'[t] # handler[t]
            BY <1>6, <2>1, <3>3 DEF IInv, HandlersFit
        <3>. QED  BY <3>1, <3>2, <3>3
    <2>. QED  BY <2>2 DEF HandlersFit
<1>12. BridgedOnce'
    <2>1. \A t \in Sockets : handler'[t].pc = "bridge" => t # s /\ handler'[t] = handler[t]
        BY <1>5, <1>6
    <2>2. \A t \in Sockets : handler'[t].pc = "bridge" => outcome'[handler'[t].seg] = "inflight"
        BY <1>1, <1>3, <1>10, <2>1 DEF IInv, BridgedOnce
    <2>. QED  BY <2>1, <2>2 DEF IInv, BridgedOnce
<1>. QED  BY <1>3, <1>4, <1>7, <1>9, <1>11, <1>12

\* The segment a coroutine has the Bot work on.
LEMMA Bridged ==
    ASSUME IInv, NEW s \in Sockets, handler[s].pc = "bridge"
    PROVE  LET i == handler[s].seg
           IN  /\ i \in SegIds /\ segment[i] \in Audio /\ Real(segment[i])
               /\ Span(segment[i]) \subseteq Seqs /\ Span(segment[i]) \subseteq 1..segment[i].end
               /\ segment[i].end \in Seqs /\ segment[i].end =< currentSeq
<1>1. handler[s].seg \in SegIds /\ outcome[handler[s].seg] # "none"
    BY DEF IInv, HandlersFit
<1>2. segment[handler[s].seg] \in Audio /\ Real(segment[handler[s].seg])
      /\ segment[handler[s].seg].frames # {} /\ currentSeq \in 0..MaxSeq
    BY <1>1 DEF IInv, TypeOK, MarksFit, SegmentsFit
<1>3. segment[handler[s].seg].end =< currentSeq
    BY <1>2 DEF Real
<1>. QED  BY <1>1, <1>2, <1>3, SpanFits

LEMMA SettledFits ==
    ASSUME IInv, NEW g \in Audio, Settled(g)
    PROVE  /\ buffered' \subseteq Seqs /\ answered' \subseteq Seqs
           /\ pending' \in [Seqs -> 0..MaxSegments]
           /\ \A q \in Seqs : pending'[q] = pending[q] \/ pending'[q] = 0
<1>1. g.frames \subseteq Seqs /\ 0 \in 0..MaxSegments
    BY BoundAssumption DEF Audio
<1>. QED  BY <1>1 DEF Settled, IInv, TypeOK

\* The end of the claim, for a coroutine that was superseded or was not.
LEMMA Supersedes ==
    ASSUME IInv, NEW s \in Sockets, active' = active \/ Superseded(s)
    PROVE  active' \in BOOLEAN /\ (active' => active)
<1>1. active' = active \/ active' = FALSE
    BY DEF Superseded
<1>2. active \in BOOLEAN
    BY QuietTypes
<1>3. CASE active' = active
    BY <1>2, <1>3
<1>4. CASE active' = FALSE
    BY <1>4
<1>. QED  BY <1>1, <1>3, <1>4

LEMMA BotSucceedsPreserves ==
    ASSUME IInv, NEW s \in Sockets, BotSucceeds(s)
    PROVE  IInv'
<1>. DEFINE i == handler[s].seg
            g == segment[i]
<1>1. /\ handler[s].pc = "bridge" /\ Settled(g)
      /\ processed' = processed \cup Span(g) /\ lastProcessed' = Larger(lastProcessed, g.end)
      /\ UNCHANGED <<client, link, up, lease, rejected, ingress, segment>>
    BY DEF BotSucceeds
<1>2. /\ i \in SegIds /\ g \in Audio /\ Span(g) \subseteq Seqs /\ Span(g) \subseteq 1..g.end
      /\ g.end \in Seqs /\ g.end =< currentSeq
    BY <1>1, Bridged
<1>3. /\ lastProcessed' \in Seqs /\ lastProcessed' \in 0..MaxSeq /\ lastProcessed' >= lastProcessed
      /\ lastProcessed' =< currentSeq /\ lastProcessed' >= g.end
    BY <1>1, <1>2, QuietTypes, BoundAssumption DEF Larger, Seqs
<1>4. processed' \subseteq 1..lastProcessed' /\ processed \subseteq processed' /\ rejected \subseteq rejected'
    <2>1. processed \subseteq 1..lastProcessed
        BY DEF IInv, MarksFit
    <2>2. \A a, b \in 0..MaxSeq : a =< b => 1..a \subseteq 1..b
        BY BoundAssumption
    <2>3. g.end \in 0..MaxSeq /\ lastProcessed \in 0..MaxSeq
        BY <1>2, QuietTypes DEF Seqs
    <2>4. 1..g.end \subseteq 1..lastProcessed' /\ 1..lastProcessed \subseteq 1..lastProcessed'
        BY <1>3, <2>2, <2>3
    <2>. QED  BY <1>1, <1>2, <2>1, <2>4
<1>5. \E h \in Handlers : h.pc \in {"none", "receive"}
          /\ Resolve(s, i, "success", lastProcessed', h)
    BY Goings DEF BotSucceeds
<1>6. active' = active \/ Superseded(s)
    BY DEF BotSucceeds
<1>7. active' \in BOOLEAN /\ (active' => active)
    BY <1>6, Supersedes
<1>8. down' \in [Sockets -> Seq(GoodDown')]
    <2>1. Say(s, Close) \/ Say(s, Ack(lastProcessed'))
        BY DEF BotSucceeds, Superseded
    <2>2. currentSeq' = currentSeq
        BY <1>1 DEF client
    <2>3. Close \in GoodDown'
        BY <2>2, ControlIsGood
    <2>4. Ack(lastProcessed') \in GoodDown'
        BY <1>3, <2>2, MessageTypes DEF GoodDown, Backed, Seqs
    <2>. QED  BY <1>3, <1>4, <1>7, <2>1, <2>2, <2>3, <2>4, SaysGood
<1>9. /\ buffered' \subseteq Seqs /\ answered' \subseteq Seqs /\ pending' \in [Seqs -> 0..MaxSegments]
      /\ \A q \in Seqs : pending'[q] = pending[q] \/ pending'[q] = 0
    BY <1>1, <1>2, SettledFits
<1>10. /\ outcome' \in [SegIds -> Outcomes] /\ inflight' \in [Seqs -> 0..MaxSegments]
       /\ handler' \in [Sockets -> Handlers]
       /\ SegmentsFit' /\ HandlersFit' /\ BridgedOnce'
    <2>1. PICK h \in Handlers : h.pc \in {"none", "receive"}
              /\ Resolve(s, i, "success", lastProcessed', h)
        BY <1>5
    <2>2. Span(g) \subseteq processed'
        BY <1>1
    <2>3. lastProcessed' =< lastProcessed'
        BY <1>3
    <2>. HIDE DEF i
    <2>. QED  BY <1>1, <1>2, <1>3, <1>4, <1>9, <2>1, <2>2, <2>3, ResolvePreserves DEF i
<1>11. /\ lease' \in Sockets \cup {NoSocket} /\ link' \in [Sockets -> Links]
       /\ up' \in [Sockets -> Seq(GoodUp)] /\ rejected' \subseteq Seqs
       /\ ingress' \in Audio /\ segment' \in [SegIds -> Audio]
    BY <1>1 DEF IInv, TypeOK, WiresFit
<1>12. TypeOK' /\ WiresFit' /\ ClientFits'
    BY <1>1, <1>3, <1>4, <1>7, <1>8, <1>9, <1>10, <1>11, ServerStep
<1>13. MarksFit'
    <2>1. currentSeq' = currentSeq
        BY <1>1 DEF client
    <2>. QED  BY <1>1, <1>3, <1>4, <2>1 DEF IInv, MarksFit, Real
<1>. QED  BY <1>10, <1>12, <1>13 DEF IInv

\* The answers that leave last_processed_seq where it is.
LEMMA UnmovedPreserves ==
    ASSUME IInv, NEW s \in Sockets, UNCHANGED <<client, link, up, lease, processed, lastProcessed, ingress, segment>>,
           Say(s, Close) \/ UNCHANGED down,
           active' \in BOOLEAN, active' => active,
           rejected \subseteq rejected', rejected' \subseteq Seqs,
           buffered' \subseteq Seqs, answered' \subseteq Seqs,
           pending' \in [Seqs -> 0..MaxSegments], outcome' \in [SegIds -> Outcomes],
           inflight' \in [Seqs -> 0..MaxSegments], handler' \in [Sockets -> Handlers],
           SegmentsFit', HandlersFit', BridgedOnce'
    PROVE  IInv'
<1>1. currentSeq' = currentSeq /\ Close \in GoodDown'
    BY ControlIsGood DEF client
<1>2. lastProcessed' \in 0..MaxSeq /\ lastProcessed' >= lastProcessed /\ lastProcessed' =< currentSeq
    BY QuietTypes
<1>3. down' \in [Sockets -> Seq(GoodDown')]
    BY <1>1, <1>2, SaysGood
<1>4. /\ lease' \in Sockets \cup {NoSocket} /\ link' \in [Sockets -> Links]
      /\ up' \in [Sockets -> Seq(GoodUp)] /\ processed' \subseteq 1..lastProcessed'
      /\ ingress' \in Audio /\ segment' \in [SegIds -> Audio]
    BY DEF IInv, TypeOK, WiresFit, MarksFit
<1>5. TypeOK' /\ WiresFit' /\ ClientFits'
    BY <1>2, <1>3, <1>4, ServerStep
<1>6. MarksFit'
    BY <1>1 DEF IInv, MarksFit, Real
<1>. QED  BY <1>5, <1>6 DEF IInv

LEMMA BotRejectsPreserves ==
    ASSUME IInv, NEW s \in Sockets, BotRejects(s)
    PROVE  IInv'
<1>. DEFINE i == handler[s].seg
            g == segment[i]
<1>1. /\ handler[s].pc = "bridge" /\ Settled(g) /\ rejected' = rejected \cup Span(g)
      /\ UNCHANGED <<client, link, up, lease, processed, lastProcessed, ingress, segment>>
    BY DEF BotRejects
<1>2. i \in SegIds /\ g \in Audio /\ Span(g) \subseteq Seqs
    BY <1>1, Bridged
<1>3. PICK h \in Handlers : h.pc \in {"none", "receive"} /\ Resolve(s, i, "rejected", 0, h)
    BY Goings DEF BotRejects
<1>4. active' \in BOOLEAN /\ (active' => active)
    <2>1. active' = active \/ Superseded(s)
        BY DEF BotRejects
    <2>. QED  BY <2>1, Supersedes
<1>5. Say(s, Close) \/ UNCHANGED down
    BY DEF BotRejects, Superseded
<1>6. /\ buffered' \subseteq Seqs /\ answered' \subseteq Seqs /\ pending' \in [Seqs -> 0..MaxSegments]
      /\ \A q \in Seqs : pending'[q] = pending[q] \/ pending'[q] = 0
    BY <1>1, <1>2, SettledFits
<1>7. lastProcessed' \in 0..MaxSeq /\ lastProcessed' >= lastProcessed /\ 0 =< lastProcessed' /\ 0 \in 0..MaxSeq
    BY <1>1, QuietTypes, BoundAssumption
<1>8. rejected' \subseteq Seqs /\ rejected \subseteq rejected' /\ Span(g) \subseteq rejected'
    BY <1>1, <1>2 DEF IInv, TypeOK
<1>9. /\ outcome' \in [SegIds -> Outcomes] /\ inflight' \in [Seqs -> 0..MaxSegments]
      /\ handler' \in [Sockets -> Handlers]
      /\ SegmentsFit' /\ HandlersFit' /\ BridgedOnce'
    <2>. HIDE DEF i
    <2>. QED  BY <1>1, <1>2, <1>3, <1>6, <1>7, <1>8, ResolvePreserves DEF i
<1>. QED  BY <1>1, <1>4, <1>5, <1>6, <1>8, <1>9, UnmovedPreserves

LEMMA BotFailsPreserves ==
    ASSUME IInv, NEW s \in Sockets, BotFails(s)
    PROVE  IInv'
<1>. DEFINE i == handler[s].seg
<1>1. /\ handler[s].pc = "bridge" /\ Retry(i)
      /\ UNCHANGED <<client, link, up, active, lease, marks, buffered, ingress, segment>>
    BY DEF BotFails
<1>2. i \in SegIds
    BY <1>1, Bridged
<1>3. PICK h \in Handlers : h.pc \in {"none", "receive"} /\ Resolve(s, i, "transient", 0, h)
    BY Goings DEF BotFails
<1>4. Say(s, Close) \/ UNCHANGED down
    BY DEF BotFails
<1>5. /\ pending' \in [Seqs -> 0..MaxSegments]
      /\ \A q \in Seqs : pending'[q] = pending[q] \/ (pending'[q] = i /\ q \in Span(segment[i]))
    BY <1>1, <1>2, RetryFits
<1>6. lastProcessed' \in 0..MaxSeq /\ lastProcessed' >= lastProcessed /\ 0 =< lastProcessed' /\ 0 \in 0..MaxSeq
    BY <1>1, QuietTypes, BoundAssumption DEF marks
<1>7. /\ outcome' \in [SegIds -> Outcomes] /\ inflight' \in [Seqs -> 0..MaxSegments]
      /\ handler' \in [Sockets -> Handlers]
      /\ SegmentsFit' /\ HandlersFit' /\ BridgedOnce'
    <2>1. UNCHANGED <<processed, rejected>>
        BY <1>1 DEF marks
    <2>. HIDE DEF i
    <2>. QED  BY <1>1, <1>2, <1>3, <1>5, <1>6, <2>1, ResolvePreserves DEF i
<1>8. active' \in BOOLEAN /\ (active' => active) /\ buffered' \subseteq Seqs
    BY <1>1, QuietTypes
<1>9. rejected' \subseteq Seqs /\ rejected \subseteq rejected' /\ answered' \subseteq Seqs
      /\ UNCHANGED <<processed, lastProcessed>>
    BY <1>1 DEF IInv, TypeOK, marks
<1>. QED  BY <1>1, <1>4, <1>5, <1>7, <1>8, <1>9, UnmovedPreserves

LEMMA WakeTransientPreserves ==
    ASSUME IInv, NEW s \in Sockets, WakeTransient(s)
    PROVE  IInv'
<1>. DEFINE i == handler[s].seg
<1>1. /\ handler[s].pc = "woken" /\ Retry(i) /\ active' = (active /\ handler[s].called)
      /\ UNCHANGED <<client, link, up, lease, marks, buffered, ingress, segment, inflight, outcome>>
    BY DEF WakeTransient, Wakes
<1>2. i \in SegIds /\ outcome[i] # "none"
    BY <1>1 DEF IInv, HandlersFit
<1>3. Say(s, Close) \/ UNCHANGED down
    BY DEF WakeTransient
<1>4. /\ pending' \in [Seqs -> 0..MaxSegments]
      /\ \A q \in Seqs : pending'[q] = pending[q] \/ (pending'[q] = i /\ q \in Span(segment[i]))
    BY <1>1, <1>2, RetryFits
<1>5. /\ handler' \in [Sockets -> Handlers]
      /\ \A t \in Sockets : handler'[t] = handler[t] \/ handler'[t].pc \in {"none", "receive"}
    <2>1. Goes(s, Resumed(s)) \/ Goes(s, NoHandler)
        BY DEF WakeTransient
    <2>. QED  BY <2>1, Goings, Ends
<1>6. active' \in BOOLEAN /\ (active' => active)
    BY <1>1
<1>7. SegmentsFit'
    <2>1. \A q \in Seqs : pending'[q] # 0 =>
              q \in Span(segment'[pending'[q]]) /\ outcome'[pending'[q]] # "none"
        <3>. HIDE DEF i
        <3>. QED  BY <1>1, <1>2, <1>4 DEF IInv, SegmentsFit
    <2>. QED  BY <1>1, <2>1 DEF IInv, SegmentsFit, Span, marks
<1>8. HandlersFit' /\ BridgedOnce'
    BY <1>1, <1>5 DEF IInv, HandlersFit, BridgedOnce, marks
<1>9. /\ outcome' \in [SegIds -> Outcomes] /\ inflight' \in [Seqs -> 0..MaxSegments]
      /\ rejected' \subseteq Seqs /\ rejected \subseteq rejected' /\ answered' \subseteq Seqs
      /\ buffered' \subseteq Seqs /\ UNCHANGED <<processed, lastProcessed>>
    BY <1>1 DEF IInv, TypeOK, marks
<1>. QED  BY <1>1, <1>3, <1>4, <1>5, <1>6, <1>7, <1>8, <1>9, UnmovedPreserves

-----------------------------------------------------------------------------
(* Every step.                                                             *)

LEMMA NextPreserves ==
    ASSUME IInv, [Next]_vars
    PROVE  IInv'
<1>1. ASSUME UNCHANGED vars PROVE IInv'
    BY <1>1, QuietClient, QuietTypes DEF vars, client, wires, IInv, TypeOK
<1>2. CASE AudioFrame
    BY <1>2, AudioFramePreserves
<1>3. CASE Timer
    BY <1>3, ReconnectTimerPreserves DEF Timer
<1>4. ASSUME NEW s \in Sockets, StartCapture(s) \/ Drop(s) PROVE IInv'
    BY <1>4, StartCapturePreserves, ClosesPreserve
<1>5. ASSUME NEW s \in Sockets, Events(s) PROVE IInv'
    BY <1>5, OpenedPreserves, ClosesPreserve, HearReadyPreserves, HearAckPreserves,
       HearReconnectedPreserves DEF Events
<1>6. ASSUME NEW s \in Sockets, Gateway(s) PROVE IInv'
    <2>1. CASE Accept(s) \/ Refuse(s) \/ LeaveStale(s) \/ NoticeDisconnect(s)
        BY <2>1, AcceptPreserves, RefusePreserves, LeaveStalePreserves, NoticeDisconnectPreserves
    <2>2. CASE ReceiveReconnect(s) \/ ReceiveDuplicate(s) \/ ReceiveRecalled(s)
        BY <2>2, ReceiveReconnectPreserves, ReceiveDuplicatePreserves, ReceiveRecalledPreserves
    <2>3. CASE \/ ReceiveBuffered(s) \/ ReceivePartial(s)
               \/ \E i \in SegIds : ReceiveBoundary(s, i)
        BY <2>3, ReceiveBufferedPreserves, ReceivePartialPreserves, ReceiveBoundaryPreserves
    <2>4. CASE BotSucceeds(s) \/ BotRejects(s) \/ BotFails(s)
        BY <2>4, BotSucceedsPreserves, BotRejectsPreserves, BotFailsPreserves
    <2>5. CASE WakeCommitted(s) \/ WakeTransient(s)
        BY <2>5, WakeCommittedPreserves, WakeTransientPreserves
    <2>. QED  BY <1>6, <2>1, <2>2, <2>3, <2>4, <2>5 DEF Gateway
<1>. QED  BY <1>1, <1>2, <1>3, <1>4, <1>5, <1>6 DEF Next

LEMMA SpecIInv == Spec => []IInv
BY InitIInv, NextPreserves, PTL DEF Spec

\* Types: the budget of reconnects is kept, and every message is of the protocol.
THEOREM TypeCorrect == Spec => []TypeOK
<1>1. IInv => TypeOK
    BY DEF IInv
<1>. QED  BY <1>1, SpecIInv, PTL

\* The client keeps exactly the frames it captured that are not acknowledged,
\* over every sequence of drops, reconnects and late acknowledgements.
THEOREM BufferIsTail == Spec => []UnackedIsTail
<1>1. IInv => UnackedIsTail
    BY DEF IInv, ClientFits
<1>. QED  BY <1>1, SpecIInv, PTL

\* What the client takes as acknowledged, the live session stands by.
THEOREM AcksStandBehind == Spec => []AcksAreBacked
<1>1. IInv => AcksAreBacked
    BY DEF IInv, ClientFits
<1>. QED  BY <1>1, SpecIInv, PTL

\* One coroutine at a time has the Bot process a segment.
THEOREM OneBridge == Spec => []BridgedOnce
<1>1. IInv => BridgedOnce
    BY DEF IInv
<1>. QED  BY <1>1, SpecIInv, PTL

-----------------------------------------------------------------------------
(* A committed segment is never processed again.                           *)

Final == \A i \in SegIds : outcome[i] \in {"success", "rejected"} => outcome'[i] = outcome[i]

LEMMA RecallIsOpen ==
    ASSUME IInv, NEW s \in Sockets, ReceiveRecalled(s)
    PROVE  Final
<1>. DEFINE q == Head(up[s]).seq
            i == Recalled(q)
<1>1. /\ Fresh(s) /\ i # 0 /\ Handle(s, i, segment[i]) /\ Taken(s)
    BY DEF ReceiveRecalled
<1>2. q \in Seqs /\ q \notin rejected
    BY <1>1, TakenIsGood DEF Fresh, Receives, Accepts
<1>3. i \in SegIds /\ q \in Span(segment[i])
    <2>1. pending[q] \in 0..MaxSegments /\ inflight[q] \in 0..MaxSegments
        BY <1>2 DEF IInv, TypeOK
    <2>2. i \in SegIds
        BY <1>1, <2>1, BoundAssumption DEF Recalled, SegIds
    <2>. QED  BY <1>1, <1>2, <2>2 DEF Recalled, IInv, SegmentsFit
<1>4. outcome[i] # "rejected"
    BY <1>2, <1>3 DEF IInv, SegmentsFit
<1>5. outcome[i] = "success" => RangeProcessed(segment[i])
    BY <1>3 DEF IInv, SegmentsFit, RangeProcessed
<1>6. outcome' = outcome \/ (outcome' = [outcome EXCEPT ![i] = "inflight"] /\ ~RangeProcessed(segment[i]))
    BY <1>1 DEF Handle
<1>7. outcome \in [SegIds -> Outcomes]
    BY DEF IInv, TypeOK
<1>. HIDE DEF i
<1>. QED  BY <1>3, <1>4, <1>5, <1>6, <1>7 DEF Final

LEMMA BoundaryIsNew ==
    ASSUME IInv, NEW s \in Sockets, NEW i \in SegIds, ReceiveBoundary(s, i)
    PROVE  Final
<1>1. segment[i].frames = {}
    BY BoundAssumption DEF ReceiveBoundary, SegIds
<1>2. outcome[i] = "none"
    BY <1>1 DEF IInv, SegmentsFit
<1>3. outcome' = outcome \/ outcome' = [outcome EXCEPT ![i] = "inflight"]
    BY DEF ReceiveBoundary, Handle
<1>4. outcome \in [SegIds -> Outcomes]
    BY DEF IInv, TypeOK
<1>. QED  BY <1>2, <1>3, <1>4 DEF Final

LEMMA AnswersAreFirst ==
    ASSUME IInv, NEW s \in Sockets, BotSucceeds(s) \/ BotRejects(s) \/ BotFails(s)
    PROVE  Final
<1>. DEFINE i == handler[s].seg
<1>1. handler[s].pc = "bridge" /\ \E r : outcome' = [outcome EXCEPT ![i] = r]
    BY DEF BotSucceeds, BotRejects, BotFails, Resolve
<1>2. outcome[i] = "inflight"
    BY <1>1 DEF IInv, BridgedOnce
<1>3. outcome \in [SegIds -> Outcomes]
    BY DEF IInv, TypeOK
<1>. QED  BY <1>1, <1>2, <1>3 DEF Final

\* An outcome, once a success or a rejection, stays: no retry, late waiter or
\* second socket has the Bot process the segment again.
THEOREM CommitsFinal == Spec => CommitsAreFinal
<1>1. ASSUME IInv, [Next]_vars PROVE [Final]_vars
    <2>1. ASSUME UNCHANGED outcome PROVE Final
        BY <2>1 DEF Final
    <2>2. CASE Next
        <3>1. \/ UNCHANGED outcome
              \/ \E s \in Sockets :
                     \/ ReceiveRecalled(s) \/ (\E i \in SegIds : ReceiveBoundary(s, i))
                     \/ BotSucceeds(s) \/ BotRejects(s) \/ BotFails(s)
            BY <2>2 DEF Next, Timer, Events, Gateway, AudioFrame, ReconnectTimer, StartCapture, Drop,
               Refused, HearClose, SocketClosed, Opened, HearReady, HearAck, HearReconnected,
               Accept, Refuse, LeaveStale, NoticeDisconnect, ReceiveReconnect, ReceiveDuplicate,
               ReceiveBuffered, ReceivePartial, WakeCommitted, WakeTransient, session
        <3>2. CASE UNCHANGED outcome
            BY <2>1, <3>2
        <3>3. ASSUME NEW s \in Sockets,
                     \/ ReceiveRecalled(s) \/ (\E i \in SegIds : ReceiveBoundary(s, i))
                     \/ BotSucceeds(s) \/ BotRejects(s) \/ BotFails(s)
              PROVE  Final
            BY <1>1, <3>3, RecallIsOpen, BoundaryIsNew, AnswersAreFirst
        <3>. QED  BY <3>1, <3>2, <3>3
    <2>. QED  BY <1>1, <2>1, <2>2 DEF vars, session
<1>2. CommitsAreFinal <=> [][Final]_vars
    BY DEF CommitsAreFinal, Final
<1>. QED  BY <1>1, <1>2, SpecIInv, PTL DEF Spec

-----------------------------------------------------------------------------
(* The relay behind the sockets: every step is a step of SpeechRelay, or   *)
(* none of it is seen.                                                     *)

StretchMap == [i \in SegIds |-> Stretch(i)]

LEMMA RelayInit == Init => Relay!Init
<1>. SUFFICES ASSUME Init PROVE Relay!Init
    OBVIOUS
<1>1. \A i \in SegIds : Stretch(i) = {}
    BY DEF Init, Stretch, NoAudio
<1>. QED  BY <1>1 DEF Init, Relay!Init

\* While the segments keep their audio, they stand for the same frames.
LEMMA StretchKept ==
    ASSUME UNCHANGED segment
    PROVE  UNCHANGED StretchMap
BY DEF StretchMap, Stretch, Span

LEMMA CaptureRelayed ==
    ASSUME AudioFrame
    PROVE  Relay!Capture
<1>1. UNCHANGED StretchMap
    BY StretchKept DEF AudioFrame, session
<1>. QED  BY <1>1 DEF AudioFrame, Relay!Capture, StretchMap, session, marks

\* What the client hears as acknowledged, the session stands by or is over.
LEMMA AckRelayed ==
    ASSUME IInv, NEW s \in Sockets, HearAck(s) \/ HearReconnected(s)
    PROVE  [Relay!Next]_(Relay!relayVars)
<1>. DEFINE q == Head(down[s]).seq
<1>1. Acknowledge(q) /\ UNCHANGED <<currentSeq, session>>
      /\ (Hears(s, "ack") \/ Hears(s, "session.reconnected"))
    BY DEF HearAck, HearReconnected
<1>2. q \in 0..MaxSeq /\ q =< currentSeq /\ (active => Backed(q))
    BY <1>1, HeardIsGood DEF GoodDown
<1>3. UNCHANGED StretchMap
    BY <1>1, StretchKept DEF session
<1>4. lastAckSeq \in 0..MaxSeq /\ currentSeq \in 0..MaxSeq
    BY DEF IInv, TypeOK
<1>. HIDE DEF q
<1>5. CASE lastAckSeq' = lastAckSeq
    BY <1>1, <1>3, <1>5 DEF Relay!relayVars, StretchMap, session, marks
<1>6. CASE lastAckSeq' # lastAckSeq
    <2>1. lastAckSeq' = q /\ q \in (lastAckSeq + 1)..currentSeq /\ q \in 1..currentSeq
        BY <1>1, <1>2, <1>4, <1>6 DEF Acknowledge, Larger
    <2>2. Relay!Release(q)
        BY <1>1, <1>2, <1>3, <2>1
        DEF Relay!Release, Relay!StandsBy, Backed, StretchMap, session, marks
    <2>. QED  BY <2>1, <2>2 DEF Relay!Next
<1>. QED  BY <1>5, <1>6

\* A frame that closes a segment is new itself.
LEMMA BoundaryRelayed ==
    ASSUME IInv, NEW s \in Sockets, NEW i \in SegIds, ReceiveBoundary(s, i)
    PROVE  \E frames \in SUBSET (1..currentSeq) : Relay!Take(i, frames)
<1>. DEFINE q == Head(up[s]).seq
            g == Pushed(q)
<1>1. /\ New(s) /\ Taken(s) /\ Handle(s, i, g) /\ segment' = [segment EXCEPT ![i] = g]
      /\ UNCHANGED <<client, active, lease, marks>>
    BY DEF ReceiveBoundary
<1>2. q \in Seqs /\ q =< currentSeq /\ g \in Audio /\ g.end = q /\ g.frames # {} /\ Real(g)
    BY <1>1, PushedFits
<1>3. segment[i].frames = {} /\ outcome[i] = "none"
    <2>1. segment[i].frames = {}
        BY BoundAssumption DEF ReceiveBoundary, SegIds
    <2>. QED  BY <2>1 DEF IInv, SegmentsFit
<1>4. active /\ ~(q =< lastProcessed) /\ q \notin rejected
    <2>1. active /\ q > lastProcessed /\ q \notin rejected
        BY <1>1 DEF New, Fresh, Accepts
    <2>. QED  BY <1>2, <2>1, QuietTypes DEF Seqs
<1>5. ~RangeProcessed(g)
    BY <1>2, <1>4, Processed
<1>6. outcome' = [outcome EXCEPT ![i] = "inflight"]
    BY <1>1, <1>3, <1>5 DEF Handle
<1>7. Span(g) \subseteq 1..currentSeq /\ q \in Span(g)
    <2>1. Span(g) \subseteq 1..g.end /\ g.end \in Span(g)
        BY <1>2, QuietTypes, SpanFits
    <2>2. \A n \in 1..q : n \in 1..currentSeq
        BY <1>2, QuietTypes DEF Seqs
    <2>. QED  BY <1>2, <2>1, <2>2
<1>8. \A j \in SegIds : Stretch(j)' = IF j = i THEN Span(g) ELSE Stretch(j)
    <2>1. segment'[i] = g /\ \A j \in SegIds \ {i} : segment'[j] = segment[j]
        BY <1>1 DEF IInv, TypeOK
    <2>. HIDE DEF g
    <2>2. Stretch(i)' = Span(g)
        BY <1>2, <2>1 DEF Stretch, Span
    <2>3. \A j \in SegIds \ {i} : Stretch(j)' = Stretch(j)
        BY <2>1 DEF Stretch, Span
    <2>. QED  BY <2>2, <2>3
<1>9. Stretch(i) = {}
    BY <1>3 DEF Stretch
<1>10. PICK frames \in SUBSET (1..currentSeq) : frames = Span(g)
    BY <1>7
<1>. HIDE DEF g, q
<1>11. StretchMap' = [StretchMap EXCEPT ![i] = frames]
    BY <1>8, <1>10 DEF StretchMap
<1>12. \E n \in frames : ~Relay!StandsBy(n)
    BY <1>4, <1>7, <1>10 DEF Relay!StandsBy
<1>13. Relay!Take(i, frames)
    BY <1>1, <1>3, <1>4, <1>6, <1>9, <1>11, <1>12 DEF Relay!Take, StretchMap, client, marks
<1>. QED  BY <1>13

\* A frame leads back to a segment whose retry is due, or changes nothing.
LEMMA RecallRelayed ==
    ASSUME IInv, NEW s \in Sockets, ReceiveRecalled(s)
    PROVE  \/ \E i \in SegIds : Relay!TakeAgain(i)
           \/ UNCHANGED Relay!relayVars
<1>. DEFINE q == Head(up[s]).seq
            i == Recalled(q)
<1>1. /\ Fresh(s) /\ i # 0 /\ Handle(s, i, segment[i]) /\ Taken(s)
      /\ UNCHANGED <<client, active, lease, marks, segment>>
    BY DEF ReceiveRecalled
<1>2. q \in Seqs /\ q \notin rejected /\ active /\ q > lastProcessed
    BY <1>1, TakenIsGood DEF Fresh, Receives, Accepts
<1>3. i \in SegIds /\ q \in Span(segment[i]) /\ outcome[i] # "none"
    <2>1. pending[q] \in 0..MaxSegments /\ inflight[q] \in 0..MaxSegments
        BY <1>2 DEF IInv, TypeOK
    <2>2. i \in SegIds
        BY <1>1, <2>1, BoundAssumption DEF Recalled, SegIds
    <2>. QED  BY <1>1, <1>2, <2>2 DEF Recalled, IInv, SegmentsFit
<1>4. outcome[i] # "rejected"
    BY <1>2, <1>3 DEF IInv, SegmentsFit
<1>5. outcome[i] = "success" => RangeProcessed(segment[i])
    BY <1>3 DEF IInv, SegmentsFit, RangeProcessed
<1>6. \/ outcome' = outcome
      \/ /\ outcome' = [outcome EXCEPT ![i] = "inflight"]
         /\ ~RangeProcessed(segment[i]) /\ outcome[i] # "inflight"
    BY <1>1 DEF Handle
<1>7. UNCHANGED StretchMap
    BY <1>1, StretchKept
<1>8. segment[i].frames # {} /\ outcome[i] \in Outcomes
    BY <1>3 DEF IInv, TypeOK, SegmentsFit
<1>9. Stretch(i) = Span(segment[i])
    BY <1>8 DEF Stretch
<1>10. ~(q =< lastProcessed)
    BY <1>2, QuietTypes DEF Seqs
<1>. HIDE DEF i, q
<1>11. CASE outcome' = outcome
    BY <1>1, <1>7, <1>11 DEF Relay!relayVars, StretchMap, client, marks
<1>12. CASE outcome' # outcome
    <2>1. outcome[i] = "transient" /\ outcome' = [outcome EXCEPT ![i] = "inflight"]
        BY <1>3, <1>4, <1>5, <1>6, <1>8, <1>12 DEF Outcomes
    <2>2. q \in Stretch(i) /\ ~Relay!StandsBy(q)
        BY <1>2, <1>3, <1>9, <1>10 DEF Relay!StandsBy
    <2>3. Relay!TakeAgain(i)
        BY <1>1, <1>2, <1>3, <1>7, <2>1, <2>2 DEF Relay!TakeAgain, StretchMap, client, marks
    <2>. QED  BY <1>3, <2>3
<1>. QED  BY <1>11, <1>12

\* The segment that a coroutine has at the Bot, and what its answer does to it.
LEMMA BotAnswers ==
    ASSUME IInv, NEW s \in Sockets, BotSucceeds(s) \/ BotRejects(s) \/ BotFails(s)
    PROVE  LET i == handler[s].seg
           IN  /\ i \in SegIds /\ outcome[i] = "inflight" /\ UNCHANGED <<client, segment>>
               /\ Stretch(i) = Span(segment[i]) /\ StretchMap[i] = Span(segment[i])
               /\ UNCHANGED StretchMap
<1>. DEFINE i == handler[s].seg
<1>1. handler[s].pc = "bridge" /\ UNCHANGED <<client, segment>>
    BY DEF BotSucceeds, BotRejects, BotFails
<1>2. i \in SegIds /\ outcome[i] = "inflight"
    BY <1>1 DEF IInv, HandlersFit, BridgedOnce
<1>3. segment[i].frames # {}
    BY <1>2 DEF IInv, SegmentsFit
<1>4. Stretch(i) = Span(segment[i])
    BY <1>3 DEF Stretch
<1>. QED  BY <1>1, <1>2, <1>4, StretchKept DEF StretchMap

LEMMA SuccessRelayed ==
    ASSUME IInv, NEW s \in Sockets, BotSucceeds(s)
    PROVE  \E i \in SegIds : Relay!Translate(i)
<1>. DEFINE i == handler[s].seg
            g == segment[i]
<1>1. /\ i \in SegIds /\ outcome[i] = "inflight" /\ UNCHANGED <<client, segment, StretchMap>>
      /\ StretchMap[i] = Span(g)
    BY BotAnswers
<1>2. /\ handler[s].pc = "bridge" /\ lastProcessed' = Larger(lastProcessed, g.end)
      /\ outcome' = [outcome EXCEPT ![i] = "success"] /\ UNCHANGED rejected
      /\ active' \in {active, FALSE}
    BY DEF BotSucceeds, Resolve, Superseded
<1>3. g \in Audio /\ Real(g) /\ Span(g) \subseteq Seqs /\ Span(g) \subseteq 1..g.end /\ g.end \in Seqs
    BY <1>2, Bridged
<1>4. g.end \in Span(g)
    <2>1. g.end \in g.start..g.end \/ ~(g.start =< g.end)
        BY <1>3 DEF Audio, Seqs
    <2>. QED  BY <2>1 DEF Span
<1>5. lastProcessed \in 0..MaxSeq
    BY QuietTypes
<1>. HIDE DEF i, g
<1>6. lastProcessed' \in {lastProcessed} \cup Span(g)
    BY <1>2, <1>4 DEF Larger
<1>7. \A q \in {lastProcessed} \cup Span(g) : q =< lastProcessed'
    <2>1. lastProcessed =< lastProcessed' /\ g.end =< lastProcessed' /\ lastProcessed' \in Int
        BY <1>2, <1>3, <1>5 DEF Larger, Seqs
    <2>2. \A q \in 1..g.end : q =< lastProcessed'
        BY <1>3, <2>1 DEF Seqs
    <2>. QED  BY <1>3, <2>1, <2>2
<1>8. Relay!Translate(i)
    BY <1>1, <1>2, <1>6, <1>7 DEF Relay!Translate, StretchMap, client
<1>. QED  BY <1>1, <1>8

LEMMA RejectionRelayed ==
    ASSUME IInv, NEW s \in Sockets, BotRejects(s)
    PROVE  \E i \in SegIds : Relay!Refuse(i)
<1>. DEFINE i == handler[s].seg
<1>1. /\ i \in SegIds /\ outcome[i] = "inflight" /\ UNCHANGED <<client, segment, StretchMap>>
      /\ StretchMap[i] = Span(segment[i])
    BY BotAnswers
<1>2. /\ rejected' = rejected \cup Span(segment[i]) /\ UNCHANGED lastProcessed
      /\ outcome' = [outcome EXCEPT ![i] = "rejected"] /\ active' \in {active, FALSE}
    BY DEF BotRejects, Resolve, Superseded
<1>. HIDE DEF i
<1>3. Relay!Refuse(i)
    BY <1>1, <1>2 DEF Relay!Refuse, StretchMap, client
<1>. QED  BY <1>1, <1>3

LEMMA FailureRelayed ==
    ASSUME IInv, NEW s \in Sockets, BotFails(s)
    PROVE  \E i \in SegIds : Relay!Defer(i)
<1>. DEFINE i == handler[s].seg
<1>1. i \in SegIds /\ outcome[i] = "inflight" /\ UNCHANGED <<client, segment, StretchMap>>
    BY BotAnswers
<1>2. outcome' = [outcome EXCEPT ![i] = "transient"] /\ UNCHANGED <<active, marks>>
    BY DEF BotFails, Resolve
<1>. HIDE DEF i
<1>3. Relay!Defer(i)
    BY <1>1, <1>2 DEF Relay!Defer, StretchMap, client, marks
<1>. QED  BY <1>1, <1>3

\* Any other step shows only in that the session may be over.
LEMMA RestRelayed ==
    ASSUME IInv, UNCHANGED <<currentSeq, lastAckSeq, marks, segment, outcome>>,
           active' = active \/ active' = FALSE
    PROVE  [Relay!Next]_(Relay!relayVars)
<1>1. UNCHANGED StretchMap
    BY StretchKept
<1>2. active \in BOOLEAN
    BY QuietTypes
<1>3. CASE active' = active
    BY <1>1, <1>3 DEF Relay!relayVars, StretchMap, marks
<1>4. CASE active' = FALSE /\ active
    BY <1>1, <1>4 DEF Relay!Next, Relay!End, StretchMap, marks
<1>5. active = TRUE \/ active = FALSE
    BY <1>2
<1>6. active' = active \/ (active' = FALSE /\ active)
    BY <1>5
<1>. QED  BY <1>3, <1>4, <1>6

LEMMA RelayStep ==
    ASSUME IInv, [Next]_vars
    PROVE  [Relay!Next]_(Relay!relayVars)
<1>1. ASSUME UNCHANGED vars PROVE [Relay!Next]_(Relay!relayVars)
    BY <1>1, RestRelayed DEF vars, client, session
<1>2. CASE AudioFrame
    BY <1>2, CaptureRelayed DEF Relay!Next
<1>3. CASE Timer
    BY <1>3, RestRelayed DEF Timer, ReconnectTimer, session
<1>4. ASSUME NEW s \in Sockets, StartCapture(s) \/ Drop(s) PROVE [Relay!Next]_(Relay!relayVars)
    BY <1>4, RestRelayed DEF StartCapture, Drop, SocketClosed, session
<1>5. ASSUME NEW s \in Sockets, Events(s) PROVE [Relay!Next]_(Relay!relayVars)
    <2>1. CASE HearAck(s) \/ HearReconnected(s)
        BY <2>1, AckRelayed
    <2>2. CASE Opened(s) \/ Refused(s) \/ HearReady(s) \/ HearClose(s)
        BY <2>2, RestRelayed DEF Opened, Refused, HearReady, HearClose, SocketClosed, session
    <2>. QED  BY <1>5, <2>1, <2>2 DEF Events
<1>6. ASSUME NEW s \in Sockets, Gateway(s) PROVE [Relay!Next]_(Relay!relayVars)
    <2>1. CASE ReceiveRecalled(s)
        BY <2>1, RecallRelayed DEF Relay!Next
    <2>2. CASE \E i \in SegIds : ReceiveBoundary(s, i)
        BY <2>2, BoundaryRelayed DEF Relay!Next
    <2>3. CASE BotSucceeds(s) \/ BotRejects(s) \/ BotFails(s)
        BY <2>3, SuccessRelayed, RejectionRelayed, FailureRelayed DEF Relay!Next
    <2>4. CASE \/ Accept(s) \/ Refuse(s) \/ LeaveStale(s) \/ ReceiveReconnect(s)
               \/ ReceiveDuplicate(s) \/ ReceiveBuffered(s) \/ ReceivePartial(s)
        BY <2>4, RestRelayed
        DEF Accept, Refuse, LeaveStale, ReceiveReconnect, ReceiveDuplicate, ReceiveBuffered,
            ReceivePartial, client, session
    <2>5. CASE WakeCommitted(s) \/ WakeTransient(s) \/ NoticeDisconnect(s)
        <3>1. active' = active \/ active' = FALSE
            BY <2>5, QuietTypes DEF WakeCommitted, WakeTransient, NoticeDisconnect, Superseded
        <3>. QED
            BY <2>5, <3>1, RestRelayed DEF WakeCommitted, WakeTransient, NoticeDisconnect, client
    <2>. QED  BY <1>6, <2>1, <2>2, <2>3, <2>4, <2>5 DEF Gateway
<1>. QED  BY <1>1, <1>2, <1>3, <1>4, <1>5, <1>6 DEF Next

\* Behind every sequence of drops, replays, superseded sockets and late answers
\* the session is the plain relay of SpeechRelay.
THEOREM Refinement == Spec => ImplementsSpeechRelay
<1>1. Init => Relay!Init
    BY RelayInit
<1>2. IInv /\ [Next]_vars => [Relay!Next]_(Relay!relayVars)
    BY RelayStep
<1>. QED  BY <1>1, <1>2, SpecIInv, PTL DEF Spec, ImplementsSpeechRelay, Relay!Spec
=============================================================================
