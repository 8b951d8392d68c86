------------------------------ MODULE Meetings ------------------------------
(***************************************************************************)
(* The single-session rule and what meetings share (server/app.py, and the *)
(* handshake of server/net/session.py).                                    *)
(*                                                                         *)
(* Every connection has a handler on one event loop.  A handler runs       *)
(* undisturbed until it awaits the socket, so an action is what it does    *)
(* between two awaits: of accept(), of receive(), of the sends of one      *)
(* response, of the refusal, of the closing messages.  AppState keeps the  *)
(* slot (active_session_id) and the models; of the models this module      *)
(* keeps the two whose state would mix two meetings: whose stream the      *)
(* recurrent VAD holds, and whose sentences are in the translator's        *)
(* history.  The worker thread of each session is module TranslationWorker *)
(* seen from here: busy says that it has a sentence with the translator,   *)
(* which it may still have after stop() gave up on joining it.             *)
(*                                                                         *)
(* A definition no action uses, directly above another one (NeverBusy above*)
(* SlotTaken, ...), is a broken form of it, which one of the properties at *)
(* the end is there to catch.                                              *)
(***************************************************************************)
EXTENDS Integers, FiniteSets

CONSTANTS
  Conn,       \* bound: the connections clients open, each once
  Id,         \* the session ids their hellos carry (a reconnect reuses one)
  NoId,       \* the empty session_id of a session without a hello
  Free        \* active_session_id is None

ASSUME IdAssumption == NoId \notin Id /\ Free \notin Id /\ Free # NoId

VARIABLES
  client,     \* is the client of the connection there?
  at,         \* where the handler of the connection awaits
  state,      \* ServerSession.state
  sid,        \* ServerSession.session_id
  claimed,    \* the local of _run_session
  owns,       \* the local `claimed` of stream()
  closes,     \* does the response being sent close the connection?
  slot,       \* AppState.active_session_id
  vad,        \* whose stream the VAD holds: those who fed it since its reset
  history,    \* whose turns the translator's context holds since its reset
  busy,       \* connections whose worker has a sentence with the translator
  cut,        \* those of them stop() no longer waits for
  lost,       \* claims forgotten when a send, or handle_binary, raised
  raced       \* were two connections past the check and before their hello?

handler == <<at, claimed, owns, closes>>
session == <<state, sid>>
models  == <<vad, history, busy, cut>>
vars == <<client, at, state, sid, claimed, owns, closes, slot, vad, history,
          busy, cut, lost, raced>>

Init ==
  /\ client = [c \in Conn |-> "away"]
  /\ at = [c \in Conn |-> "none"]
  /\ state = [c \in Conn |-> "awaiting_hello"]
  /\ sid = [c \in Conn |-> NoId]
  /\ claimed = [c \in Conn |-> FALSE]
  /\ owns = [c \in Conn |-> FALSE]
  /\ closes = [c \in Conn |-> FALSE]
  /\ slot = Free
  /\ vad = {} /\ history = {} /\ busy = {} /\ cut = {} /\ lost = {}
  /\ raced = FALSE

-----------------------------------------------------------------------------
(* The client. *)

Connect(c) ==
  /\ client[c] = "away"
  /\ client' = [client EXCEPT ![c] = "here"]
  /\ at' = [at EXCEPT ![c] = "accepting"]
  /\ UNCHANGED <<session, claimed, owns, closes, slot, models, lost, raced>>

(* It closes the socket, or the network does it for it. *)
Leave(c) ==
  /\ client[c] = "here"
  /\ client' = [client EXCEPT ![c] = "left"]
  /\ UNCHANGED <<handler, session, slot, models, lost, raced>>

-----------------------------------------------------------------------------
(* stream(): accept, then the check of the slot. *)

NeverBusy == FALSE
SlotTaken == slot # Free

(* Connections past the check whose hello may still come. *)
Awaiting == {c \in Conn : /\ at[c] \in {"receiving", "sending"}
                          /\ state[c] = "awaiting_hello"}

Accepted(c) ==
  /\ at[c] = "accepting"
  /\ at' = [at EXCEPT ![c] = IF SlotTaken THEN "refusing" ELSE "receiving"]
  /\ raced' = (raced \/ (~SlotTaken /\ Awaiting # {}))
  /\ UNCHANGED <<client, session, claimed, owns, closes, slot, models, lost>>

(* _refuse_second_meeting: the error and the close are sent, or fail; the  *)
(* handler returns or raises, with nothing to release either way.          *)
Refuse(c) ==
  /\ at[c] = "refusing"
  /\ at' = [at EXCEPT ![c] = "done"]
  /\ UNCHANGED <<client, session, claimed, owns, closes, slot, models, lost,
                 raced>>

-----------------------------------------------------------------------------
(* _run_session: one frame is received and handled, the response is sent.  *)

Hears(c) == at[c] = "receiving" /\ client[c] = "here"

Responds(c, close) ==
  /\ at' = [at EXCEPT ![c] = "sending"]
  /\ closes' = [closes EXCEPT ![c] = close]

(* The frames a client may send, as far as the session tells them apart.   *)
HelloFrames == {"hello", "anonymous hello", "mismatched hello"}
TextFrames  == HelloFrames \cup {"bye", "other type", "garbled"}
AudioFrames == {"chunk", "odd chunk"}

(* parse_message, from_dict, audio_mismatch and validate_audio_chunk. *)
Parses(frame)     == frame # "garbled"
HasName(frame)    == frame # "anonymous hello"
FitsFormat(frame) == frame # "mismatched hello"
WholeChunk(frame) == frame # "odd chunk"

TextRejected(c, frame) ==
  \/ ~Parses(frame)
  \/ frame = "other type"
  \/ frame \in HelloFrames /\ \/ state[c] # "awaiting_hello"
                               \/ ~HasName(frame)
                               \/ ~FitsFormat(frame)

AudioRejected(c, frame) == state[c] # "streaming" \/ ~WholeChunk(frame)

Rejected(c) == {frame \in TextFrames : TextRejected(c, frame)}
                 \cup {frame \in AudioFrames : AudioRejected(c, frame)}

(* A hello that is accepted: the session resets the models it is given,    *)
(* starts its worker, and _run_session claims the slot.                    *)
HistoryKept     == history
HistoryForgotten == {}

Hello(c) ==
  /\ Hears(c)
  /\ ~TextRejected(c, "hello")
  /\ state' = [state EXCEPT ![c] = "streaming"]
  /\ \E id \in Id : /\ sid' = [sid EXCEPT ![c] = id]
                    /\ slot' = id
  /\ claimed' = [claimed EXCEPT ![c] = TRUE]
  /\ vad' = {}
  /\ history' = HistoryForgotten
  /\ Responds(c, FALSE)
  /\ UNCHANGED <<client, owns, busy, cut, lost, raced>>

(* A frame the session fails on.  Only the state changes; there is no      *)
(* session_id to claim the slot with unless it is claimed already.         *)
ClaimedAnyway(c) == sid[c]
ClaimedAfterFailure(c) == slot

Fail(c) ==
  /\ Hears(c)
  /\ Rejected(c) # {}
  /\ state' = [state EXCEPT ![c] = "closed"]
  /\ slot' = ClaimedAfterFailure(c)
  /\ Responds(c, TRUE)
  /\ UNCHANGED <<client, sid, claimed, owns, models, lost, raced>>

(* What committing a sentence does to the translator: its source goes into *)
(* the history, and the worker has work to do.                             *)
Commits(c) ==
  \/ /\ history' = history \cup {c}
     /\ busy' = busy \cup {c}
  \/ UNCHANGED <<history, busy>>

Audio(c) ==
  /\ Hears(c)
  /\ ~AudioRejected(c, "chunk")
  /\ vad' = vad \cup {c}
  /\ Commits(c)
  /\ \/ Responds(c, FALSE)
     \/ UNCHANGED <<at, closes>>    \* nothing to say
  /\ UNCHANGED <<client, session, claimed, owns, slot, cut, lost, raced>>

(* _run_session returns or raises, and its locals are gone. *)
Leaves(c) ==
  /\ at' = [at EXCEPT ![c] = "leaving"]
  /\ claimed' = [claimed EXCEPT ![c] = FALSE]
  /\ closes' = [closes EXCEPT ![c] = FALSE]

(* handle_binary raises: the VAD's model or the speaker-change detector's, *)
(* which run outside _safely_announce.  What the handler had claimed is    *)
(* lost with the exception.                                                *)
AudioRaises(c) ==
  /\ Hears(c)
  /\ ~AudioRejected(c, "chunk")
  /\ vad' = vad \cup {c}
  /\ Leaves(c)
  /\ lost' = lost \cup {c}
  /\ UNCHANGED <<client, session, owns, slot, history, busy, cut, raced>>

(* _finalise(): the open sentence of a streaming session is committed and  *)
(* the worker is stopped, which waits for the translator for a while.      *)
Finalise(c) ==
  /\ state' = [state EXCEPT ![c] = "closed"]
  /\ history' \in {history}
       \cup (IF state[c] = "streaming" \/ c \in busy
               THEN {history \cup {c}} ELSE {})
  /\ \/ /\ busy' = busy \ {c}
        /\ UNCHANGED cut
     \/ /\ state[c] = "streaming" \/ c \in busy
        /\ busy' = busy \cup {c}
        /\ cut' = cut \cup {c}

Bye(c) ==
  /\ Hears(c)
  /\ Finalise(c)
  /\ Responds(c, TRUE)
  /\ UNCHANGED <<client, sid, claimed, owns, slot, vad, lost, raced>>

(* The messages of the response, and the close that may follow them, are   *)
(* sent.                                                                   *)
ForgetsClaim(c) == FALSE
ReturnsClaim(c) == claimed[c]

Sent(c) ==
  /\ at[c] = "sending"
  /\ IF closes[c]
       THEN /\ Leaves(c)
            /\ owns' = [owns EXCEPT ![c] = ReturnsClaim(c)]
       ELSE /\ at' = [at EXCEPT ![c] = "receiving"]
            /\ UNCHANGED <<claimed, closes, owns>>
  /\ UNCHANGED <<client, session, slot, models, lost, raced>>

(* The client is gone: the send raises WebSocketDisconnect, and            *)
(* _run_session does not get to return what it claimed.                    *)
SendRaises(c) ==
  /\ at[c] = "sending"
  /\ client[c] = "left"
  /\ Leaves(c)
  /\ lost' = IF claimed[c] THEN lost \cup {c} ELSE lost
  /\ UNCHANGED <<client, session, owns, slot, models, raced>>

(* receive() reports that the client is gone. *)
Disconnected(c) ==
  /\ at[c] = "receiving"
  /\ client[c] = "left"
  /\ Leaves(c)
  /\ owns' = [owns EXCEPT ![c] = ReturnsClaim(c)]
  /\ UNCHANGED <<client, session, slot, models, lost, raced>>

-----------------------------------------------------------------------------
(* _close_session: the session is finished; what it still has to say is    *)
(* sent, and an error of that send is logged; the slot is released.        *)

Released(c) == IF owns[c] /\ slot = sid[c] THEN Free ELSE slot

(* The handler returns, and its locals with the session are gone. *)
Returns(c) ==
  /\ at' = [at EXCEPT ![c] = "done"]
  /\ sid' = [sid EXCEPT ![c] = NoId]
  /\ owns' = [owns EXCEPT ![c] = FALSE]

Finish(c) ==
  /\ at[c] = "leaving"
  /\ Finalise(c)
  /\ \/ /\ at' = [at EXCEPT ![c] = "finishing"]
        /\ UNCHANGED <<slot, sid, owns>>
     \/ /\ Returns(c)
        /\ slot' = Released(c)
  /\ UNCHANGED <<client, claimed, closes, vad, lost, raced>>

RaisesUnreleased(c) ==
  /\ at[c] = "finishing"
  /\ Returns(c)
  /\ slot' = IF client[c] = "left" THEN slot ELSE Released(c)
  /\ UNCHANGED <<client, state, claimed, closes, models, lost, raced>>

Release(c) ==
  /\ at[c] = "finishing"
  /\ Returns(c)
  /\ slot' = Released(c)
  /\ UNCHANGED <<client, state, claimed, closes, models, lost, raced>>

-----------------------------------------------------------------------------
(* The worker thread of c gets the translator's answer: a translation is   *)
(* remembered in the history the models share, a refusal is not.           *)
Translate(c) ==
  /\ c \in busy
  /\ busy' = busy \ {c}
  /\ history' \in {history, history \cup {c}}
  /\ UNCHANGED <<client, handler, session, slot, vad, cut, lost, raced>>

Handle(c) ==    \* what the handler does of its own accord
  \/ Accepted(c) \/ Refuse(c) \/ Sent(c) \/ SendRaises(c) \/ Disconnected(c)
  \/ Finish(c) \/ Release(c)

Next ==
  \E c \in Conn :
    \/ Connect(c) \/ Leave(c)
    \/ Hello(c) \/ Fail(c) \/ Audio(c) \/ AudioRaises(c) \/ Bye(c)
    \/ Accepted(c) \/ Refuse(c) \/ Sent(c) \/ SendRaises(c)
    \/ Disconnected(c) \/ Finish(c) \/ Release(c)
    \/ Translate(c)

Spec == Init /\ [][Next]_vars

(* Awaited sends end, and a client is gone at some time: meetings end, and *)
(* uvicorn's pings find the connections that break silently.               *)
Fairness == \A c \in Conn : WF_vars(Handle(c)) /\ WF_vars(Leave(c))

FairSpec == Spec /\ Fairness

-----------------------------------------------------------------------------
(* Properties. *)

Place == {"none", "accepting", "refusing", "receiving", "sending", "leaving",
          "finishing", "done"}

(* Every variable has its type; the slot in particular is free or holds    *)
(* the id of a hello, never an empty one.                                  *)
TypeOK ==
  /\ client \in [Conn -> {"away", "here", "left"}]
  /\ at \in [Conn -> Place]
  /\ state \in [Conn -> {"awaiting_hello", "streaming", "closed"}]
  /\ sid \in [Conn -> Id \cup {NoId}]
  /\ claimed \in [Conn -> BOOLEAN]
  /\ owns \in [Conn -> BOOLEAN]
  /\ closes \in [Conn -> BOOLEAN]
  /\ slot \in Id \cup {Free}
  /\ vad \subseteq Conn /\ history \subseteq Conn
  /\ busy \subseteq Conn /\ cut \subseteq Conn /\ lost \subseteq Conn
  /\ raced \in BOOLEAN

Streaming == {c \in Conn : state[c] = "streaming"}

(* "One streaming session at a time" (app.py:10-14): two meetings never    *)
(* stream through the one VAD.                                             *)
OneMeeting == Cardinality(Streaming) <= 1

(* What the check in stream() does give: a meeting that streams holds the  *)
(* slot and has the VAD to itself from its hello to its end, unless two    *)
(* connections once were past the check before either said hello.          *)
OneMeetingUnlessRaced ==
  \A c \in Streaming : raced \/ (slot = sid[c] /\ vad \subseteq {c})

(* The slot is not lost: somebody on the way to releasing it holds it, or  *)
(* a claim was forgotten when _run_session raised.                         *)
SlotHasHolder ==
  slot # Free =>
    \/ lost # {}
    \/ \E c \in Conn :
         /\ sid[c] = slot
         /\ \/ claimed[c] /\ at[c] \in {"receiving", "sending"}
            \/ owns[c] /\ at[c] \in {"leaving", "finishing"}

(* "A new meeting carries none of the last one's context"                  *)
(* (session.py:324): while a meeting that raced with no other streams, the *)
(* translator's history holds no turn of another meeting, but for those a  *)
(* worker that stop() could not wait for remembers late.                   *)
HistoryIsOwnOrCut ==
  \A c \in Streaming : ~raced => history \subseteq {c} \cup cut

(* The slot is freed some time after it was claimed, unless the claim is   *)
(* forgotten: no handler waits for another, and the closing messages       *)
(* cannot keep it.                                                         *)
SlotIsFreed == slot # Free ~> (slot = Free \/ lost # {})
=============================================================================
