------------------------------- MODULE Uplink -------------------------------
(***************************************************************************)
(* The client's side of a meeting: the LoopbackCapture that records it     *)
(* (client/audio/capture.py), the StreamClient that keeps a websocket to   *)
(* the server (client/net/ws_client.py) and the MeetingSession that starts *)
(* both, carries the audio from one to the other and ends them             *)
(* (client/ui/session.py).                                                 *)
(*                                                                         *)
(* PortAudio's callback and the pump's read run on threads of their own,   *)
(* and each step is one operation on the queue they share.  The rest runs  *)
(* on one asyncio loop in tasks that change over at their awaits: run()    *)
(* with its connection, the sender and the receiver of a connection, and   *)
(* the meeting.  A step is what a task does between two awaits.  A chunk   *)
(* of audio is its number; how the callback's buffers are resampled and    *)
(* cut into chunks is left out, so a callback completes one at most.  Time *)
(* is abstract: a timeout (of the read, of the backoff, of the drain, of   *)
(* the wait for a connection or for the server's goodbye) may pass         *)
(* whenever its wait is on.  The server and the network are seen from      *)
(* here: they accept or not, upgrade the connection to a websocket or not, *)
(* answer the hello or reject it, hang up at any time, and answer a bye    *)
(* before they do.                                                         *)
(*                                                                         *)
(* A definition no action uses, directly above another one (FullOffByOne   *)
(* above Full, ...), is a broken form of it, which one of the              *)
(* properties at the end is there to catch.                                *)
(***************************************************************************)
EXTENDS Integers, Sequences, FiniteSets

CONSTANTS
  CaptureChunks, \* max_queued_chunks of the capture
  QueueChunks,   \* queue_chunks of the client
  MaxChunks,     \* bound: chunks of audio captured
  MaxConnects    \* bound: connections attempted

ASSUME QueueAssumption  ==
  CaptureChunks \in Nat \ {0} /\ QueueChunks \in Nat \ {0}
ASSUME BoundsAssumption == MaxChunks \in Nat /\ MaxConnects \in Nat \ {0}

Chunk == 1 .. MaxChunks
None  == 0

VARIABLES
  meeting,     \* how far MeetingSession._session is
  requested,   \* was request_stop() called?
  run,         \* where run() and the connection's _session() are: "ended"
               \*   when run() returned, "failed" when it raised
  connects,    \* connections attempted
  link,        \* is the socket of this connection open?
  connected,   \* the _connected event
  stopping,    \* the _stopping event of the client
  sender,      \* the send loop of this connection
  receiver,    \* is its receive loop running?
  callback,    \* PortAudio's callback: "idle", or holding the last chunk,
               \*   about to make "room" for it or to "put" it again
  recorded,    \* the capture's _queue, oldest first
  read,        \* the chunk on its way from read() to send(), or None
  queue,       \* the client's _queue, oldest first
  hand,        \* the chunk the sender is sending, or None
  captured,    \* chunks captured so far: 1 .. captured
  sent,        \* the chunks sent, in their order, over all connections
  dropped,     \* those a full queue gave up
  lost,        \* those a send that failed or was cancelled took along
  goodbye,     \* the bye: "unsaid", "said" or "answered"
  hurried      \* did stop() leave the queue to its fate?

control == <<meeting, requested, run, connects, link, connected, stopping>>
tasks   == <<sender, receiver>>
capture == <<callback, recorded, read>>
audio   == <<queue, hand, captured, sent, dropped, lost>>
vars == <<meeting, requested, run, connects, link, connected, stopping,
          sender, receiver, capture, queue, hand, captured, sent, dropped,
          lost, goodbye, hurried>>

Elements(q) == {q[i] : i \in 1 .. Len(q)}

Init ==
  /\ meeting = "connecting" /\ requested = FALSE
  /\ run = "top" /\ connects = 0 /\ link = FALSE
  /\ connected = FALSE /\ stopping = FALSE
  /\ sender = "off" /\ receiver = FALSE
  /\ callback = "idle" /\ recorded = <<>> /\ read = None
  /\ queue = <<>> /\ hand = None /\ captured = 0
  /\ sent = <<>> /\ dropped = {} /\ lost = {}
  /\ goodbye = "unsaid" /\ hurried = FALSE

-----------------------------------------------------------------------------
(* MeetingSession.                                                         *)

(* The user ends the meeting: request_stop() from the Qt thread. *)
Request ==
  /\ ~requested
  /\ requested' = TRUE
  /\ UNCHANGED <<meeting, run, connects, link, connected, stopping, tasks,
                 audio, goodbye, hurried, capture>>

(* The loop is closed on what still runs in it. *)
Abandoned ==
  /\ run' = "ended"
  /\ link' = FALSE /\ connected' = FALSE
  /\ sender' = "off" /\ receiver' = FALSE
  /\ lost' = IF hand # None THEN lost \cup {hand} ELSE lost
  /\ hand' = None

(* wait_connected() returns, or its ten seconds are over. *)
Listen ==
  /\ meeting = "connecting"
  /\ connected
  /\ meeting' = "pumping"
  /\ UNCHANGED <<requested, run, connects, link, connected, stopping, tasks,
                 audio, goodbye, hurried, capture>>

GiveUp ==
  /\ meeting = "connecting"
  /\ ~connected
  /\ meeting' = "givingUp"
  /\ UNCHANGED <<requested, run, connects, link, connected, stopping, tasks,
                 audio, goodbye, hurried, capture>>

(* The capture device cannot be opened: the exception leaves _session(),   *)
(* and run() and its connection go down with the loop, without a bye.      *)
DeviceFails ==
  /\ meeting = "connecting"
  /\ connected
  /\ meeting' = "over"
  /\ Abandoned
  /\ UNCHANGED <<requested, connects, stopping, queue, captured, sent,
                 dropped, goodbye, hurried, capture>>

(* The capture, from start() to stop(): a callback completes a chunk and   *)
(* puts it on the queue.  A full queue makes room by dropping its oldest,  *)
(* unless the pump has taken that one meanwhile; the callback is the only  *)
(* one who puts, so the second attempt finds room.                         *)
Recording == meeting \in {"pumping", "reading", "forwarding", "stopping"}

CallbackPuts ==
  /\ Recording /\ callback = "idle"
  /\ captured + 1 \in Chunk
  /\ captured' = captured + 1
  /\ IF Len(recorded) < CaptureChunks
       THEN recorded' = Append(recorded, captured') /\ UNCHANGED callback
       ELSE callback' = "room" /\ UNCHANGED recorded
  /\ UNCHANGED <<control, tasks, read, queue, hand, sent, dropped, lost,
                 goodbye, hurried>>

CallbackMakesRoom ==
  /\ callback = "room"
  /\ callback' = "put"
  /\ recorded' = IF recorded = <<>> THEN recorded ELSE Tail(recorded)
  /\ dropped' = dropped \cup (Elements(recorded) \ Elements(recorded'))
  /\ UNCHANGED <<control, tasks, read, queue, hand, captured, sent, lost,
                 goodbye, hurried>>

CallbackPutsAgain ==
  /\ callback = "put"
  /\ callback' = "idle"
  /\ recorded' = Append(recorded, captured)
  /\ UNCHANGED <<control, tasks, read, audio, goodbye, hurried>>

(* _pump() looks at the stop flag, ... *)
PumpChecks ==
  /\ meeting = "pumping"
  /\ meeting' = IF requested THEN "stopping" ELSE "reading"
  /\ UNCHANGED <<requested, run, connects, link, connected, stopping, tasks,
                 capture, audio, goodbye, hurried>>

(* ... reads a chunk, for half a second at most, on a pool's thread ... *)
PumpReads ==
  /\ meeting = "reading"
  /\ recorded # <<>>
  /\ read' = Head(recorded)
  /\ recorded' = Tail(recorded)
  /\ meeting' = "forwarding"
  /\ UNCHANGED <<requested, run, connects, link, connected, stopping, tasks,
                 callback, audio, goodbye, hurried>>

PumpTimesOut ==
  /\ meeting = "reading"
  /\ recorded = <<>>
  /\ meeting' = "pumping"
  /\ UNCHANGED <<requested, run, connects, link, connected, stopping, tasks,
                 capture, audio, goodbye, hurried>>

(* ... and sends it: a full queue makes room by dropping its oldest. *)
FullOffByOne == Len(queue) > QueueChunks
Full         == Len(queue) >= QueueChunks

Kept == IF Full THEN Tail(queue) ELSE queue

Evicted == IF Full THEN {Head(queue)} ELSE {}

PumpSends ==
  /\ meeting = "forwarding"
  /\ queue' = Append(Kept, read)
  /\ dropped' = dropped \cup Evicted
  /\ read' = None
  /\ meeting' = "pumping"
  /\ UNCHANGED <<requested, run, connects, link, connected, stopping, tasks,
                 callback, recorded, hand, captured, sent, lost, goodbye,
                 hurried>>

(* capture.stop() waits for the callback to be through and queues what the *)
(* resampler and the assembler still hold, two chunks at the most.  Nobody *)
(* reads the queue any more.                                               *)
StopsCapture ==
  /\ meeting = "stopping" /\ callback = "idle"
  /\ \E n \in 0 .. 2 :
       LET all    == recorded \o [i \in 1 .. n |-> captured + i]
           excess == IF Len(all) > CaptureChunks
                     THEN Len(all) - CaptureChunks ELSE 0
       IN /\ captured + n <= MaxChunks
          /\ captured' = captured + n
          /\ recorded' = SubSeq(all, excess + 1, Len(all))
          /\ dropped' = dropped \cup {all[i] : i \in 1 .. excess}
  /\ meeting' = "draining"
  /\ UNCHANGED <<requested, run, connects, link, connected, stopping, tasks,
                 callback, read, queue, hand, sent, lost, goodbye, hurried>>

(* StreamClient.stop(): while connected, queued audio gets a chance to go  *)
(* out, until a deadline.                                                  *)
AtOnce  == TRUE
Drained == ~connected \/ queue = <<>>

StopsClient(after, hurry) ==
  /\ stopping' = TRUE
  /\ meeting' = after
  /\ hurried' = hurry
  /\ UNCHANGED <<requested, run, connects, link, connected, tasks, audio,
                 goodbye, capture>>

Drain ==
  meeting = "draining" /\ Drained /\ StopsClient("joining", ~connected)
DrainDeadline ==
  meeting = "draining" /\ StopsClient("joining", TRUE)
StopUnheard ==
  meeting = "givingUp" /\ StopsClient("awaiting", FALSE)

(* The meeting is over when run() has returned, or raised.  After a        *)
(* meeting that was connected it waits for that ten seconds at the most    *)
(* and then cancels run(); after one that never was it just waits.         *)
RunIsOver == run \in {"ended", "failed"}

Joined ==
  /\ meeting \in {"joining", "awaiting"}
  /\ RunIsOver
  /\ meeting' = "over"
  /\ UNCHANGED <<requested, run, connects, link, connected, stopping, tasks,
                 audio, goodbye, hurried, capture>>

JoinTimesOut ==
  /\ meeting = "joining"
  /\ ~RunIsOver
  /\ meeting' = "over"
  /\ Abandoned
  /\ UNCHANGED <<requested, connects, stopping, queue, captured, sent,
                 dropped, goodbye, hurried, capture>>

-----------------------------------------------------------------------------
(* run().                                                                  *)

(* while not self._stopping.is_set() *)
Top ==
  /\ run = "top"
  /\ IF stopping
       THEN run' = "ended" /\ UNCHANGED connects
       ELSE /\ connects < MaxConnects
            /\ run' = "opening"
            /\ connects' = connects + 1
  /\ UNCHANGED <<meeting, requested, link, connected, stopping, tasks, audio,
                 goodbye, hurried, capture>>

(* connect() succeeds and the hello is sent, ... *)
Opens ==
  /\ run = "opening"
  /\ run' = "handshake"
  /\ link' = TRUE
  /\ UNCHANGED <<meeting, requested, connects, connected, stopping, tasks,
                 audio, goodbye, hurried, capture>>

(* ... or fails with an OSError: nobody listens, or ten seconds passed.    *)
(* When the hello is sent and the server rejects it or the connection      *)
(* breaks, that is a ProtocolError or a ConnectionClosed.  run() catches   *)
(* all three.                                                              *)
AfterSession == IF stopping THEN "ended" ELSE "backoff"

Fails ==
  /\ run = "opening" \/ (run = "handshake" /\ ~link)
  /\ run' = AfterSession
  /\ UNCHANGED <<meeting, requested, connects, link, connected, stopping,
                 tasks, audio, goodbye, hurried, capture>>

(* connect() fails with an InvalidHandshake: the connection was lost       *)
(* before the upgrade was answered, or it was refused.  run() does not     *)
(* catch that, and ends with it.                                           *)
HandshakeFails ==
  /\ run = "opening"
  /\ run' = "failed"
  /\ UNCHANGED <<meeting, requested, connects, link, connected, stopping,
                 tasks, audio, goodbye, hurried, capture>>

Rejected ==
  /\ run = "handshake" /\ link
  /\ run' = AfterSession
  /\ link' = FALSE
  /\ UNCHANGED <<meeting, requested, connects, connected, stopping, tasks,
                 audio, goodbye, hurried, capture>>

(* The server is ready: the two loops of the connection start. *)
Ready ==
  /\ run = "handshake" /\ link
  /\ run' = "streaming"
  /\ connected' = TRUE
  /\ sender' = "checking" /\ receiver' = TRUE
  /\ UNCHANGED <<meeting, requested, connects, link, stopping, audio,
                 goodbye, hurried, capture>>

(* The first of the two loops has ended.  When it is the sender and the    *)
(* client is stopping, the bye is sent, in vain if the link is down, and   *)
(* the receiver is given a grace period; otherwise the session is torn     *)
(* down.                                                                   *)
SenderEnded     == sender \in {"done", "failed"}
SenderEndedOnly == SenderEnded
EitherEnded     == SenderEnded \/ ~receiver

SaysBye == stopping /\ SenderEnded /\ receiver

OneEnded ==
  /\ run = "streaming"
  /\ EitherEnded
  /\ IF SaysBye
       THEN /\ run' = "goodbye"
            /\ goodbye' = IF link THEN "said" ELSE goodbye
       ELSE run' = "teardown" /\ UNCHANGED goodbye
  /\ UNCHANGED <<meeting, requested, connects, link, connected, stopping,
                 tasks, audio, hurried, capture>>

(* The grace period: the receiver ends, or two seconds are over. *)
GraceEnds ==
  /\ run = "goodbye"
  /\ run' = "teardown"
  /\ UNCHANGED <<meeting, requested, connects, link, connected, stopping,
                 tasks, audio, goodbye, hurried, capture>>

(* What still runs is cancelled, a send in progress with it, the socket is *)
(* closed, and run() goes on after _session().                             *)
Teardown ==
  /\ run = "teardown"
  /\ run' = AfterSession
  /\ link' = FALSE /\ connected' = FALSE
  /\ sender' = "off" /\ receiver' = FALSE
  /\ hand' = None
  /\ \/ /\ lost' = IF hand # None THEN lost \cup {hand} ELSE lost
        /\ UNCHANGED sent
     \/ /\ hand # None /\ link
        /\ sent' = Append(sent, hand)
        /\ UNCHANGED lost
  /\ UNCHANGED <<meeting, requested, connects, stopping, queue, captured,
                 dropped, goodbye, hurried, capture>>

(* The backoff passes, or stop() ends it. *)
BackoffEnds ==
  /\ run = "backoff"
  /\ run' = "top"
  /\ UNCHANGED <<meeting, requested, connects, link, connected, stopping,
                 tasks, audio, goodbye, hurried, capture>>

-----------------------------------------------------------------------------
(* _send_loop() and _receive_loop(): they run until run() cancels them.    *)

SenderChecks ==
  /\ sender = "checking"
  /\ sender' = IF stopping THEN "done" ELSE "getting"
  /\ UNCHANGED <<control, receiver, audio, goodbye, hurried, capture>>

SenderGets ==
  /\ sender = "getting"
  /\ queue # <<>>
  /\ hand' = Head(queue)
  /\ queue' = Tail(queue)
  /\ sender' = "sending"
  /\ UNCHANGED <<control, receiver, captured, sent, dropped, lost,
                 goodbye, hurried, capture>>

(* The 0.1 s timeout of the get lets the stop flag be noticed. *)
SenderTimesOut ==
  /\ sender = "getting"
  /\ queue = <<>>
  /\ sender' = "checking"
  /\ UNCHANGED <<control, receiver, audio, goodbye, hurried, capture>>

SenderSends ==
  /\ sender = "sending" /\ link
  /\ sent' = Append(sent, hand)
  /\ hand' = None
  /\ sender' = "checking"
  /\ UNCHANGED <<control, receiver, queue, captured, dropped, lost,
                 goodbye, hurried, capture>>

(* send() raises ConnectionClosed: the loop ends, and the chunk is gone. *)
PutBack    == Append(queue, hand)
NotPutBack == queue

SenderFails ==
  /\ sender = "sending" /\ ~link
  /\ queue' = NotPutBack
  /\ lost' = lost \cup {hand}
  /\ hand' = None
  /\ sender' = "failed"
  /\ UNCHANGED <<control, receiver, captured, sent, dropped, goodbye,
                 hurried, capture>>

(* The receive loop ends when the connection does. *)
ReceiverEnds ==
  /\ receiver /\ ~link
  /\ receiver' = FALSE
  /\ UNCHANGED <<control, sender, audio, goodbye, hurried, capture>>

-----------------------------------------------------------------------------
(* The server and the network.                                             *)

(* The connection ends from the other side. *)
HangUp ==
  /\ link
  /\ link' = FALSE
  /\ UNCHANGED <<meeting, requested, run, connects, connected, stopping,
                 tasks, audio, goodbye, hurried, capture>>

(* The closing messages of the session arrive, and the server hangs up. *)
ByeAnswered ==
  /\ goodbye = "said" /\ link /\ receiver
  /\ goodbye' = "answered"
  /\ link' = FALSE
  /\ UNCHANGED <<meeting, requested, run, connects, connected, stopping,
                 tasks, audio, hurried, capture>>

Next ==
  \/ Request \/ Listen \/ GiveUp \/ DeviceFails
  \/ CallbackPuts \/ CallbackMakesRoom \/ CallbackPutsAgain
  \/ PumpChecks \/ PumpReads \/ PumpTimesOut \/ PumpSends \/ StopsCapture
  \/ Drain \/ DrainDeadline \/ StopUnheard \/ Joined \/ JoinTimesOut
  \/ Top \/ Opens \/ Fails \/ HandshakeFails \/ Rejected \/ Ready
  \/ OneEnded \/ GraceEnds \/ Teardown \/ BackoffEnds
  \/ SenderChecks \/ SenderGets \/ SenderTimesOut \/ SenderSends
  \/ SenderFails \/ ReceiverEnds
  \/ HangUp \/ ByeAnswered

Spec == Init /\ [][Next]_vars

(* The tasks go on when they can, and the timeouts of their waits pass: of *)
(* the wait for a connection, the drain, the join, connect(), the grace    *)
(* period, the backoff, the read and the get; the callback never blocks.   *)
(* Nothing is assumed of the server, the network, the user or the audio:   *)
(* the wait for ready has no timeout.                                      *)
MeetingStep ==
  \/ Listen \/ GiveUp \/ PumpChecks \/ PumpReads \/ PumpTimesOut
  \/ PumpSends \/ StopsCapture \/ Drain \/ DrainDeadline \/ StopUnheard
  \/ Joined \/ JoinTimesOut
CallbackStep == CallbackMakesRoom \/ CallbackPutsAgain
RunStep ==
  \/ Top \/ Opens \/ Fails \/ HandshakeFails \/ OneEnded \/ GraceEnds
  \/ Teardown \/ BackoffEnds
SenderStep ==
  SenderChecks \/ SenderGets \/ SenderTimesOut \/ SenderSends \/ SenderFails

Fairness ==
  /\ WF_vars(MeetingStep) /\ WF_vars(CallbackStep)
  /\ WF_vars(RunStep)
  /\ WF_vars(SenderStep) /\ WF_vars(ReceiverEnds)

FairSpec == Spec /\ Fairness

-----------------------------------------------------------------------------
(* Properties.                                                             *)

(* Every variable has its type, and the queues keep to their sizes. *)
TypeOK ==
  /\ meeting \in {"connecting", "givingUp", "awaiting", "pumping",
                  "reading", "forwarding", "stopping", "draining",
                  "joining", "over"}
  /\ run \in {"top", "opening", "handshake", "streaming", "goodbye",
              "teardown", "backoff", "ended", "failed"}
  /\ requested \in BOOLEAN /\ link \in BOOLEAN /\ receiver \in BOOLEAN
  /\ connected \in BOOLEAN /\ stopping \in BOOLEAN /\ hurried \in BOOLEAN
  /\ connects \in 0 .. MaxConnects
  /\ sender \in {"off", "checking", "getting", "sending", "done", "failed"}
  /\ callback \in {"idle", "room", "put"}
  /\ recorded \in Seq(Chunk) /\ Len(recorded) <= CaptureChunks
  /\ read \in Chunk \cup {None}
  /\ queue \in Seq(Chunk) /\ Len(queue) <= QueueChunks
  /\ hand \in Chunk \cup {None}
  /\ captured \in 0 .. MaxChunks
  /\ sent \in Seq(Chunk)
  /\ dropped \subseteq Chunk /\ lost \subseteq Chunk
  /\ goodbye \in {"unsaid", "said", "answered"}

(* Audio reaches the socket in the order it was captured and never twice,  *)
(* across any number of connections.                                       *)
SentInOrder ==
  \A i, j \in 1 .. Len(sent) : i < j => sent[i] < sent[j]

(* No audio disappears unaccounted for, however the threads and tasks      *)
(* interleave: each chunk is in the callback's hand, recorded, on its way  *)
(* to the client, queued, in the hand of the sender, sent, dropped by a    *)
(* full queue, or it went down with a connection, one for each connection  *)
(* at the most.  What is recorded when the meeting stops stays there.      *)
AudioAccounted ==
  LET inHand == IF callback = "idle" THEN {} ELSE {captured}
      places == <<inHand, Elements(recorded), {read} \ {None},
                  Elements(queue), {hand} \ {None}, Elements(sent), dropped,
                  lost>>
  IN /\ UNION Elements(places) = 1 .. captured
     /\ \A i, j \in 1 .. Len(places) :
          i < j => places[i] \cap places[j] = {}
     /\ Cardinality(lost) <= connects

(* What is captured is sent, in its order, or accounted for. *)
AudioArrives == SentInOrder /\ AudioAccounted

(* stop() gives "queued audio a chance to go out": the bye comes after all *)
(* of it, unless the connection was down or the deadline passed.           *)
GoodbyeAfterAudio == goodbye # "unsaid" /\ ~hurried => queue = <<>>

(* A meeting the user ends is over some time later, whatever the network   *)
(* does, unless it never got a ready: then it waits for one for good.      *)
MeetingEnds ==
  requested ~> \/ meeting = "over"
               \/ meeting = "awaiting" /\ run = "handshake"

(* A server that hangs up does not go unnoticed, however empty the queue   *)
(* (the comment in _session on watching both directions).                  *)
HangupNoticed == run = "streaming" /\ ~link ~> run # "streaming"

(* Neither the meeting nor its connection hangs. *)
NothingHangs == MeetingEnds /\ HangupNoticed
=============================================================================
