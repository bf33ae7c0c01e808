----------------------------- MODULE SpeechRelay -----------------------------
(***************************************************************************)
(* What the live translation of a tab promises, without sockets, queues,   *)
(* coroutines or reconnects: the frames of the audio are numbered as they  *)
(* are captured; a stretch of them is given to the Bot, again only while   *)
(* the Bot could not answer, and answered for good once; and the client    *)
(* lets go of the frames up to one that the session stands by.             *)
(***************************************************************************)
EXTENDS Integers

CONSTANT Segments

VARIABLES
    captured, \* frames 1..captured exist
    released, \* the client no longer keeps frames 1..released
    live,     \* the session has not ended
    mark,     \* frames up to the mark count as translated
    refused,  \* frames the Bot refused for good
    stretch,  \* the frames each segment stands for; {} before it exists
    phase     \* what became of each segment

relayVars == <<captured, released, live, mark, refused, stretch, phase>>

Init ==
    /\ captured = 0 /\ released = 0 /\ mark = 0
    /\ live = TRUE
    /\ refused = {}
    /\ stretch = [i \in Segments |-> {}]
    /\ phase = [i \in Segments |-> "none"]

StandsBy(q) == q =< mark \/ q \in refused

Capture ==
    /\ captured' = captured + 1
    /\ UNCHANGED <<released, live, mark, refused, stretch, phase>>

\* Of a session that is over nothing is asked: what is kept is of no use.
Release(q) ==
    /\ q \in (released + 1)..captured
    /\ live => StandsBy(q)
    /\ released' = q
    /\ UNCHANGED <<captured, live, mark, refused, stretch, phase>>

\* There is something new in what the Bot is given.
Take(i, frames) ==
    /\ live
    /\ phase[i] = "none" /\ stretch[i] = {}
    /\ \E q \in frames : ~StandsBy(q)
    /\ stretch' = [stretch EXCEPT ![i] = frames]
    /\ phase' = [phase EXCEPT ![i] = "inflight"]
    /\ UNCHANGED <<captured, released, live, mark, refused>>

TakeAgain(i) ==
    /\ live
    /\ phase[i] = "transient"
    /\ \E q \in stretch[i] : ~StandsBy(q)
    /\ phase' = [phase EXCEPT ![i] = "inflight"]
    /\ UNCHANGED <<captured, released, live, mark, refused, stretch>>

Defer(i) ==
    /\ phase[i] = "inflight"
    /\ phase' = [phase EXCEPT ![i] = "transient"]
    /\ UNCHANGED <<captured, released, live, mark, refused, stretch>>

\* An answer that comes for a connection that is no more may end the session.
Translate(i) ==
    /\ phase[i] = "inflight"
    /\ phase' = [phase EXCEPT ![i] = "success"]
    /\ mark' \in {mark} \cup stretch[i]
    /\ \A q \in {mark} \cup stretch[i] : q =< mark'
    /\ live' \in {live, FALSE}
    /\ UNCHANGED <<captured, released, refused, stretch>>

Refuse(i) ==
    /\ phase[i] = "inflight"
    /\ phase' = [phase EXCEPT ![i] = "rejected"]
    /\ refused' = refused \cup stretch[i]
    /\ live' \in {live, FALSE}
    /\ UNCHANGED <<captured, released, mark, stretch>>

End ==
    /\ live
    /\ live' = FALSE
    /\ UNCHANGED <<captured, released, mark, refused, stretch, phase>>

Next ==
    \/ Capture \/ End
    \/ \E q \in 1..captured : Release(q)
    \/ \E i \in Segments :
           \/ \E frames \in SUBSET (1..captured) : Take(i, frames)
           \/ TakeAgain(i) \/ Defer(i) \/ Translate(i) \/ Refuse(i)

Spec == Init /\ [][Next]_relayVars
=============================================================================
