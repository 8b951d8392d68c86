---------------------------- MODULE Conversation ----------------------------
(***************************************************************************)
(* The two machines together: the StreamClient of a meeting, which         *)
(* opens a connection, says hello, streams, says bye, waits a while and    *)
(* reconnects (client/net/ws_client.py), against the handlers of the       *)
(* server (server/app.py), with the frames that are on their way between   *)
(* them.                                                                   *)
(*                                                                         *)
(* The server is module Meetings: each of its steps is that module's       *)
(* action, with the frame it reads and the messages it sends.  The client  *)
(* is module Uplink's run() without the audio it keeps: here are only the  *)
(* steps the server takes part in.  A client of this program sends no bad  *)
(* frames, so Fail stays with Meetings.  Of what a session answers to      *)
(* audio nothing is kept; the answer to a hello is "ready", the answer to  *)
(* a bye is "closing": the last sentence and its translations.             *)
(*                                                                         *)
(* The network delivers in order until it breaks.  Then it has lost what   *)
(* was on its way to the client and the last of what was on its way to the *)
(* server, and each side learns of it in its own time.  It may also keep   *)
(* the client from opening a connection at all.  An error of connect() is  *)
(* retried after a while if it is an OSError, as a refused or a timed out  *)
(* connection is; if it is an InvalidHandshake, as of a link lost before   *)
(* the server's 101 or of another status, run() does not catch it and ends *)
(* with it: the run has failed, and the meeting goes on without it.        *)
(*                                                                         *)
(* A definition no action uses, directly above another one (NoGrace above  *)
(* GraceOver, ...), is a broken form of it, which one of the properties at *)
(* the end is there to catch.                                              *)
(***************************************************************************)
EXTENDS Meetings, Sequences

CONSTANTS
  NoConn,     \* the client has no connection
  MaxFlight,  \* bound: frames on their way to the server
  MaxDrops    \* bound: how often the network breaks, or cannot be reached

ASSUME NoConnAssumption == NoConn \notin Conn
(* There is a meeting, and they are numbered in their order. *)
ASSUME OrderAssumption  ==
  IsFiniteSet(Id) /\ Id # {} /\ Id = 1 .. Cardinality(Id)
ASSUME FlightAssumption == MaxFlight \in Nat \ {0} /\ MaxDrops \in Nat

VARIABLES
  run,       \* where run() is, "failed" if an exception left it
  conn,      \* the connection of the client's socket
  broken,    \* has the network broken it?
  me,        \* the session id of this meeting
  meeting,   \* how far MeetingSession._session is
  said,      \* was the bye said?
  heard,     \*   and the answer to it received?
  up,        \* frames on their way to each handler
  down,      \* messages on their way to the client
  drops,     \* how often the network broke or was not reached
  marred     \* meetings that lost a connection, had audio a model raised
             \*   on, or ended before the server answered their bye

(* The _stopping event of the client, set by its stop().                   *)
stopping == meeting \in {"awaiting", "joining"}

talk    == <<me, meeting, said, heard>>
network == <<up, down, drops>>
client_ == <<run, conn, broken, talk>>
all == <<vars, client_, network, marred>>

ConversationInit ==
  /\ Init
  /\ run = "top" /\ conn = NoConn /\ broken = FALSE
  /\ me = 1 /\ meeting = "connecting"
  /\ said = FALSE /\ heard = FALSE
  /\ up = [c \in Conn |-> <<>>] /\ down = <<>> /\ drops = 0
  /\ marred = {}

-----------------------------------------------------------------------------
(* The client.                                                             *)

(* The frames a client sends.                                              *)
HelloFrame(id) == [type |-> "hello", session_id |-> id]
AudioFrame     == [type |-> "audio"]
ByeFrame       == [type |-> "bye"]

(* A record of a connection is used again when its handler has returned,   *)
(* so that retries need no bound.                                          *)
Reusable(c) == at[c] \in {"none", "done"}

(* connect(): the server starts a handler, which is to accept. *)
Opens(c) ==
  /\ run = "top" /\ ~stopping /\ Reusable(c)
  /\ run' = "opening" /\ conn' = c /\ broken' = FALSE
  /\ client' = [client EXCEPT ![c] = "here"]
  /\ at' = [at EXCEPT ![c] = "accepting"]
  /\ state' = [state EXCEPT ![c] = "awaiting_hello"]
  /\ vad' = vad \ {c}
  /\ lost' = lost \ {c}
  /\ up' = [up EXCEPT ![c] = <<>>]
  /\ UNCHANGED <<sid, claimed, owns, closes, slot, history, busy, cut, raced,
                 talk, down, drops, marred>>

StopsAtTop ==
  /\ run = "top" /\ stopping
  /\ run' = "ended"
  /\ UNCHANGED <<vars, conn, broken, talk, network, marred>>

(* The socket of the session is closed, run() goes on after _session().    *)
AfterSession == IF stopping THEN "ended" ELSE "backoff"

Hangs(next) ==
  /\ run' = next
  /\ conn' = NoConn /\ broken' = FALSE
  /\ down' = <<>>
  /\ UNCHANGED <<vars, talk, up, drops>>

(* The receiver finds the connection over: it broke, or the server closed. *)
Over == broken \/ down = <<"close">>

Hears_(message) == down # <<>> /\ Head(down) = message

(* The connection is open, and the hello is sent.  A handler that has      *)
(* refused and returned does not read it.                                  *)
HelloSent == IF at[conn] = "done" THEN up
             ELSE [up EXCEPT ![conn] = Append(@, HelloFrame(me))]

SaysHello ==
  /\ run = "opening" /\ Hears_("open")
  /\ run' = "handshake"
  /\ up' = HelloSent
  /\ down' = Tail(down)
  /\ UNCHANGED <<vars, conn, broken, talk, drops, marred>>

(* The link is lost before the server's answer: connect() raises, and what *)
(* it raises is caught or not.                                             *)
OpeningFails ==
  /\ run = "opening" /\ broken
  /\ Hangs(AfterSession) \/ Hangs("failed")
  /\ UNCHANGED marred

Ready ==
  /\ run = "handshake" /\ Hears_("ready")
  /\ run' = "streaming"
  /\ down' = Tail(down)
  /\ UNCHANGED <<vars, conn, broken, talk, up, drops, marred>>

(* The error of _refuse_second_meeting is a ProtocolError here, which      *)
(* run() takes like a lost connection.                                     *)
RefusedForGood == "ended"
AfterRefusal   == AfterSession

Refused ==
  /\ run = "handshake" /\ Hears_("refusal")
  /\ Hangs(AfterRefusal)
  /\ UNCHANGED marred

ConnectionEnds ==
  /\ run \in {"handshake", "streaming", "goodbye"} /\ Over
  /\ Hangs(AfterSession)
  /\ UNCHANGED marred

SendsAudio ==
  /\ run = "streaming" /\ meeting = "listening" /\ ~broken
  /\ Len(up[conn]) < MaxFlight
  /\ up' = [up EXCEPT ![conn] = Append(@, AudioFrame)]
  /\ UNCHANGED <<vars, client_, down, drops, marred>>

(* MeetingSession.  The client is connected: audio is captured from now    *)
(* on, ...                                                                 *)
Listens ==
  /\ meeting = "connecting" /\ run = "streaming"
  /\ meeting' = "listening"
  /\ UNCHANGED <<vars, run, conn, broken, me, said, heard, network,
                 marred>>

(* ... or it was not within ten seconds; the user ends the meeting.  That  *)
(* run() has failed nobody sees before. *)
Stops ==
  /\ ~stopping
  /\ meeting' = IF meeting = "connecting" THEN "awaiting" ELSE "joining"
  /\ run # "ended"
  /\ meeting = "connecting" => run # "streaming"
  /\ UNCHANGED <<vars, run, conn, broken, me, said, heard, network,
                 marred>>

(* The sender stops and the bye is sent, ... *)
ByeSent == IF broken THEN up ELSE [up EXCEPT ![conn] = Append(@, ByeFrame)]

NoGrace ==
  /\ run = "streaming" /\ stopping
  /\ run' = "ended"
  /\ said' = TRUE
  /\ up' = ByeSent
  /\ conn' = NoConn /\ broken' = FALSE /\ down' = <<>>
  /\ UNCHANGED <<vars, me, meeting, heard, drops, marred>>
SaysBye ==
  /\ run = "streaming" /\ stopping
  /\ run' = "goodbye"
  /\ said' = TRUE
  /\ up' = ByeSent
  /\ UNCHANGED <<vars, conn, broken, me, meeting, heard, down, drops,
                 marred>>

(* ... and the receiver is left to run until the server closes ... *)
HearsClosing ==
  /\ run = "goodbye" /\ Hears_("closing")
  /\ heard' = TRUE
  /\ down' = Tail(down)
  /\ UNCHANGED <<vars, run, conn, broken, me, meeting, said, up,
                 drops, marred>>

(* ... or the grace period is over, be the bye answered or not. *)
Marred == IF heard THEN marred ELSE marred \cup {me}

GraceOver ==
  /\ run = "goodbye"
  /\ Hangs(AfterSession)
  /\ marred' = Marred

(* MeetingSession's loop is closed on the connection, without a bye: the   *)
(* device could not be opened, ...                                         *)
DeviceFails ==
  /\ meeting = "connecting" /\ run = "streaming"
  /\ Hangs("ended")
  /\ UNCHANGED marred

(* ... or the wait for run() at the end of a meeting timed out. *)
JoinTimesOut ==
  /\ meeting = "joining" /\ run \notin {"ended", "failed"}
  /\ Hangs("ended")
  /\ marred' = Marred

BackoffEnds ==
  /\ run = "backoff"
  /\ run' = "top"
  /\ UNCHANGED <<vars, conn, broken, talk, network, marred>>

(* The user starts another meeting, with another StreamClient; with a run  *)
(* that failed the last one ends when it is stopped.                       *)
NewMeeting ==
  /\ \/ run = "ended"
     \/ run = "failed" /\ stopping
  /\ run' = "top"
  /\ me + 1 \in Id
  /\ me' = me + 1
  /\ meeting' = "connecting" /\ said' = FALSE /\ heard' = FALSE
  /\ UNCHANGED <<vars, conn, broken, network, marred>>

-----------------------------------------------------------------------------
(* The network.                                                            *)
Drops ==
  /\ conn # NoConn /\ ~broken
  /\ drops < MaxDrops
  /\ drops' = drops + 1
  /\ broken' = TRUE
  /\ \E n \in 0 .. Len(up[conn]) :
       up' = [up EXCEPT ![conn] = SubSeq(@, 1, n)]
  /\ down' = <<>>
  /\ marred' = marred \cup {me}
  /\ UNCHANGED <<vars, run, conn, talk>>

(* No connection can be opened: it is refused, or times out, or a host on  *)
(* the way answers with another status than 101.                           *)
Unreachable ==
  /\ run = "top" /\ ~stopping
  /\ drops < MaxDrops
  /\ drops' = drops + 1
  /\ run' \in {"backoff", "failed"}
  /\ UNCHANGED <<vars, conn, broken, talk, up, down, marred>>

-----------------------------------------------------------------------------
(* The server.                                                             *)

TellsAnybody(c, messages) == down' = down \o messages
Tells(c, messages) ==
  down' = IF conn = c /\ ~broken THEN down \o messages ELSE down

Reads(c, frame) ==
  /\ up[c] # <<>> /\ Head(up[c]) = frame
  /\ up' = [up EXCEPT ![c] = Tail(@)]
  /\ UNCHANGED <<client_, down, drops>>

(* Sentences and their translations decide nothing of what follows, and    *)
(* are left out.                                                           *)
Wordless == history' = {} /\ busy' = {}

Quietly == UNCHANGED <<client_, network, marred>>

(* Every connection is accepted, and what the check of the slot then finds *)
(* the client learns later.                                                *)
Accepts(c) ==
  /\ Accepted(c)
  /\ Tells(c, <<"open">>)
  /\ UNCHANGED <<client_, up, drops, marred>>

Refuses(c) ==
  /\ Refuse(c)
  /\ Tells(c, <<"refusal", "close">>)
  /\ up' = [up EXCEPT ![c] = <<>>]
  /\ UNCHANGED <<client_, drops, marred>>

ReadsHello(c) ==
  /\ \E id \in Id : Reads(c, HelloFrame(id)) /\ Hello(c) /\ slot' = id
  /\ UNCHANGED marred

ReadsAudio(c) ==
  /\ Reads(c, AudioFrame) /\ Audio(c) /\ Wordless
  /\ UNCHANGED marred

RaisesOnAudio(c) ==
  /\ Reads(c, AudioFrame)
  /\ AudioRaises(c)
  /\ marred' = marred \cup {sid[c]}

ReadsBye(c) == Reads(c, ByeFrame) /\ Bye(c) /\ Wordless /\ UNCHANGED marred

(* Before its ready a client sends nothing but the hello, so what is sent  *)
(* to it then is the ready.                                                *)
Sends(c) ==
  /\ Sent(c)
  /\ Tells(c, CASE closes[c] -> <<"closing", "close">>
                [] ~closes[c] /\ run = "handshake" -> <<"ready">>
                [] OTHER -> <<>>)
  /\ UNCHANGED <<client_, up, drops, marred>>

FailsToSend(c) == SendRaises(c) /\ Quietly

(* The server learns that the client is gone after the frames it sent      *)
(* before, as long as somebody reads them.                                 *)
Notices(c) ==
  /\ Leave(c)
  /\ conn # c \/ broken
  /\ at[c] \in {"accepting", "receiving", "sending"} => up[c] = <<>>
  /\ Quietly

FindsGone(c) == Disconnected(c) /\ Quietly

(* A handler that is through: its connection is closed, if it was not, and *)
(* what is still on its way to it is read by nobody.                       *)
Through(c) ==
  /\ Tells(c, IF "close" \in {down[i] : i \in 1 .. Len(down)}
                THEN <<>> ELSE <<"close">>)
  /\ up' = [up EXCEPT ![c] = <<>>]
  /\ UNCHANGED <<client_, drops, marred>>

Finishes(c) ==
  /\ Finish(c) /\ Wordless
  /\ IF at'[c] = "done" THEN Through(c) ELSE Quietly

Releases(c) == Release(c) /\ Through(c)

-----------------------------------------------------------------------------
ServerStep(c) ==
  \/ Accepts(c) \/ Refuses(c) \/ ReadsHello(c) \/ ReadsAudio(c)
  \/ RaisesOnAudio(c) \/ ReadsBye(c) \/ Sends(c) \/ FailsToSend(c)
  \/ FindsGone(c) \/ Finishes(c) \/ Releases(c)

ClientStep ==
  \/ \E c \in Conn : Opens(c)
  \/ StopsAtTop \/ SaysHello \/ OpeningFails
  \/ Ready \/ Refused \/ ConnectionEnds
  \/ SaysBye \/ HearsClosing \/ GraceOver \/ BackoffEnds

ConversationNext ==
  \/ \E c \in Conn : ServerStep(c) \/ Notices(c)
  \/ ClientStep
  \/ SendsAudio \/ Listens \/ Stops \/ DeviceFails \/ JoinTimesOut
  \/ NewMeeting \/ Drops \/ Unreachable

Conversation ==
  /\ ConversationInit
  /\ [][ConversationNext]_all
  /\ WF_all(ClientStep)
  /\ \A c \in Conn : /\ WF_all(ServerStep(c))
                     /\ WF_all(Notices(c))

-----------------------------------------------------------------------------
(* Properties.                                                             *)

Frame   == {HelloFrame(id) : id \in Id} \cup {AudioFrame, ByeFrame}
Message == {"open", "ready", "refusal", "closing", "close"}

(* Every variable has its type, the server's and the client's; nothing is  *)
(* on its way to a client but on the connection it has.                    *)
ConversationTypeOK ==
  /\ TypeOK
  /\ run \in {"top", "opening", "handshake", "streaming", "goodbye",
               "backoff", "ended", "failed"}
  /\ conn \in Conn \cup {NoConn} /\ broken \in BOOLEAN
  /\ conn = NoConn <=> run \in {"top", "backoff", "ended", "failed"}
  /\ conn = NoConn \/ broken => down = <<>>
  /\ me \in Id
  /\ meeting \in {"connecting", "listening", "awaiting", "joining"}
  /\ said \in BOOLEAN /\ heard \in BOOLEAN
  /\ up \in [Conn -> Seq(Frame)] /\ down \in Seq(Message)
  /\ drops \in 0 .. MaxDrops /\ marred \subseteq Id
  /\ \A c \in Conn : Len(up[c]) <= MaxFlight + 1
  /\ Len(down) <= 3

(* "Tearing the receiver down first would discard that closing event, and  *)
(* the last sentence of the meeting with it" (_session): a client that     *)
(* said bye ends with the server's answer, unless the network broke the    *)
(* connection, a model raised, or it gave up waiting.                      *)
GoodbyeIsHeard == run = "ended" /\ said => heard \/ me \in marred

(* The slot in the two machines' eyes: some handler holds it and will      *)
(* release it, or it is lost in the name of a meeting that was marred; and *)
(* while a client streams on a connection whose handler is there, the slot *)
(* is its meeting's.                                                       *)
Held == \E c \in Conn :
          /\ sid[c] = slot
          /\ \/ claimed[c] /\ at[c] \in {"receiving", "sending"}
             \/ owns[c] /\ at[c] \in {"leaving", "finishing"}

Leaked == slot # Free /\ ~Held

SlotFollowsMeeting ==
  /\ Leaked => slot \in marred
  /\ run = "streaming" /\ at[conn] \in {"receiving", "sending"}
       => slot = me \/ raced

(* "Dropping the connection must not end the session: the client backs     *)
(* off, reconnects, sends a fresh hello and carries on" (ws_client.py:9),  *)
(* here for a meeting that listens already, and in runs where no model     *)
(* raises on a chunk and no connect() raises what run() does not catch.    *)
NothingRaised == run # "failed" /\ \A c \in lost : client[c] = "left"

Reconnects ==
  []NothingRaised =>
    (run = "backoff" /\ meeting = "listening" ~> run = "streaming" \/ stopping)

(* What holds: it carries on unless the slot of the server is lost, or the *)
(* network fails the opening of a connection with an error that run() does *)
(* not catch (ws_client.py:167).                                           *)
ReconnectsUnlessLeaked ==
  run = "backoff" ~>
    run = "streaming" \/ stopping \/ Leaked \/ run = "failed"
=============================================================================
