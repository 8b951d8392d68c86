-------------------------- MODULE ConversationProofs --------------------------
(* Theorems about Meetings, for every set of connections and of session    *)
(* ids, and about Conversation, for any number of connections, meetings,   *)
(* frames on their way and breaks of the network.  The second part uses    *)
(* the invariants of the first.                                            *)
EXTENDS Conversation, FiniteSetTheorems, SequenceTheorems, TLAPS

-----------------------------------------------------------------------------
(* Part one: the handlers, the slot and the models, of Meetings alone.     *)

(* What one connection may do. *)
Step(c) ==
  \/ Connect(c) \/ Leave(c)
  \/ Hello(c) \/ Fail(c) \/ Audio(c) \/ AudioRaises(c) \/ Bye(c)
  \/ Accepted(c) \/ Refuse(c) \/ Sent(c) \/ SendRaises(c)
  \/ Disconnected(c) \/ Finish(c) \/ Release(c)
  \/ Translate(c)

(* Next is such a step of some connection. *)
LEMMA NextIsStep == Next <=> \E c \in Conn : Step(c)
BY DEF Next, Step

(* Every step of a handler, a client or a worker keeps the types. *)
LEMMA TypeStep ==
  ASSUME TypeOK, NEW c \in Conn, Step(c)
  PROVE  TypeOK'
<1> USE IdAssumption DEF TypeOK, Place, handler, session, models
<1>1. CASE Connect(c)
  BY <1>1 DEF Connect
<1>2. CASE Leave(c)
  BY <1>2 DEF Leave
<1>3. CASE Hello(c)
  BY <1>3 DEF Hello, Hears, TextRejected, HelloFrames, Responds,
      HistoryForgotten
<1>4. CASE Fail(c)
  BY <1>4 DEF Fail, Hears, Responds, ClaimedAfterFailure
<1>5. CASE Audio(c)
  BY <1>5 DEF Audio, Hears, AudioRejected, Commits, Responds
<1>6. CASE AudioRaises(c)
  BY <1>6 DEF AudioRaises, Hears, AudioRejected, Leaves
<1>7. CASE Bye(c)
  BY <1>7 DEF Bye, Hears, Finalise, Responds
<1>8. CASE Accepted(c)
  BY <1>8 DEF Accepted, SlotTaken
<1>9. CASE Refuse(c)
  BY <1>9 DEF Refuse
<1>10. CASE Sent(c)
  BY <1>10 DEF Sent, Leaves, ReturnsClaim
<1>11. CASE SendRaises(c)
  BY <1>11 DEF SendRaises, Leaves
<1>12. CASE Disconnected(c)
  BY <1>12 DEF Disconnected, Leaves, ReturnsClaim
<1>13. CASE Finish(c)
  <2> USE <1>13 DEF Finish, Finalise
  <2>1. /\ UNCHANGED <<client, claimed, closes, vad, lost, raced>>
        /\ state' = [state EXCEPT ![c] = "closed"]
        /\ history' \subseteq Conn /\ busy' \subseteq Conn
        /\ cut' \subseteq Conn
    OBVIOUS
  <2>2. /\ at' \in [Conn -> Place] /\ sid' \in [Conn -> Id \cup {NoId}]
        /\ owns' \in [Conn -> BOOLEAN] /\ slot' \in Id \cup {Free}
    BY DEF Returns, Released
  <2> QED
    BY <2>1, <2>2, ZenonT(60)
<1>14. CASE Release(c)
  BY <1>14 DEF Release, Returns, Released
<1>15. CASE Translate(c)
  BY <1>15 DEF Translate
<1> QED
  BY <1>1, <1>2, <1>3, <1>4, <1>5, <1>6, <1>7, <1>8, <1>9, <1>10, <1>11,
      <1>12, <1>13, <1>14, <1>15 DEF Step

(* The types, and with them: the slot is free or holds an id that a hello  *)
(* brought, never an empty one.                                            *)
THEOREM TypeCorrect == Spec => []TypeOK
<1>1. Init => TypeOK
  BY IdAssumption DEF Init, TypeOK, Place
<1>2. TypeOK /\ [Next]_vars => TypeOK'
  <2>1. TypeOK /\ UNCHANGED vars => TypeOK'
    BY DEF TypeOK, vars
  <2> QED
    BY <2>1, TypeStep, NextIsStep
<1> QED
  BY <1>1, <1>2, PTL DEF Spec

-----------------------------------------------------------------------------
(* Where a handler may be with what it has in hand.  The session id is     *)
(* there from the hello until the handler returns, the claim until         *)
(* _run_session leaves, and then, unless it raised, the ownership.         *)
HandlerInv ==
  \A d \in Conn :
    /\ client[d] = "away" => at[d] = "none"
    /\ claimed[d] => at[d] \in {"receiving", "sending"} /\ sid[d] # NoId
    /\ owns[d] => at[d] \in {"leaving", "finishing"} /\ sid[d] # NoId
    /\ state[d] = "streaming" =>
         at[d] \in {"receiving", "sending", "leaving"} /\ sid[d] # NoId
    /\ sid[d] # NoId =>
         /\ at[d] \in {"receiving", "sending", "leaving", "finishing"}
         /\ state[d] # "awaiting_hello"

(* One handler's step moves only its own id, claim and ownership. *)
LEMMA HandlerStep ==
  ASSUME TypeOK, HandlerInv, NEW c \in Conn, Step(c)
  PROVE  HandlerInv'
<1> USE IdAssumption DEF TypeOK, HandlerInv, handler, session, models
<1>1. CASE Connect(c)
  BY <1>1 DEF Connect
<1>2. CASE Leave(c)
  BY <1>2 DEF Leave
<1>3. CASE Hello(c)
  BY <1>3 DEF Hello, Hears, TextRejected, HelloFrames, Responds,
      HistoryForgotten
<1>4. CASE Fail(c)
  BY <1>4 DEF Fail, Hears, Responds, ClaimedAfterFailure
<1>5. CASE Audio(c)
  BY <1>5 DEF Audio, Hears, AudioRejected, Commits, Responds
<1>6. CASE AudioRaises(c)
  BY <1>6 DEF AudioRaises, Hears, AudioRejected, Leaves
<1>7. CASE Bye(c)
  BY <1>7 DEF Bye, Hears, Finalise, Responds
<1>8. CASE Accepted(c)
  BY <1>8 DEF Accepted, SlotTaken
<1>9. CASE Refuse(c)
  BY <1>9 DEF Refuse
<1>10. CASE Sent(c)
  BY <1>10 DEF Sent, Leaves, ReturnsClaim
<1>11. CASE SendRaises(c)
  BY <1>11 DEF SendRaises, Leaves
<1>12. CASE Disconnected(c)
  BY <1>12 DEF Disconnected, Leaves, ReturnsClaim
<1>13. CASE Finish(c)
  BY <1>13 DEF Finish, Finalise, Returns, Released
<1>14. CASE Release(c)
  BY <1>14 DEF Release, Returns, Released
<1>15. CASE Translate(c)
  BY <1>15 DEF Translate
<1> QED
  BY <1>1, <1>2, <1>3, <1>4, <1>5, <1>6, <1>7, <1>8, <1>9, <1>10, <1>11,
      <1>12, <1>13, <1>14, <1>15 DEF Step

-----------------------------------------------------------------------------
(* Without a race the slot speaks for the one connection that has an id:   *)
(* who was accepted found it free, and found nobody else on the way to it. *)
SlotInv ==
  ~raced =>
    /\ \A d \in Conn : sid[d] # NoId => slot = sid[d]
    /\ \A d, e \in Conn : sid[d] # NoId /\ sid[e] # NoId => d = e
    /\ \A d \in Awaiting : slot = Free
    /\ \A d, e \in Awaiting : d = e

(* No step takes the slot away from the one that has an id, unless it races. *)
LEMMA SlotStep ==
  ASSUME TypeOK, HandlerInv, SlotInv, NEW c \in Conn, Step(c)
  PROVE  SlotInv'
<1> USE IdAssumption
    DEF TypeOK, HandlerInv, SlotInv, Awaiting, handler,
        session, models
<1>1. CASE Connect(c)
  BY <1>1 DEF Connect
<1>2. CASE Leave(c)
  BY <1>2 DEF Leave
<1>3. CASE Hello(c)
  BY <1>3 DEF Hello, Hears, TextRejected, HelloFrames, Responds,
      HistoryForgotten
<1>4. CASE Fail(c)
  BY <1>4 DEF Fail, Hears, Responds, ClaimedAfterFailure
<1>5. CASE Audio(c)
  BY <1>5 DEF Audio, Hears, AudioRejected, Commits, Responds
<1>6. CASE AudioRaises(c)
  BY <1>6 DEF AudioRaises, Hears, AudioRejected, Leaves
<1>7. CASE Bye(c)
  BY <1>7 DEF Bye, Hears, Finalise, Responds
<1>8. CASE Accepted(c)
  BY <1>8, ZenonT(60) DEF Accepted, SlotTaken
<1>9. CASE Refuse(c)
  BY <1>9 DEF Refuse
<1>10. CASE Sent(c)
  BY <1>10 DEF Sent, Leaves, ReturnsClaim
<1>11. CASE SendRaises(c)
  BY <1>11 DEF SendRaises, Leaves
<1>12. CASE Disconnected(c)
  BY <1>12 DEF Disconnected, Leaves, ReturnsClaim
<1>13. CASE Finish(c)
  BY <1>13 DEF Finish, Finalise, Returns, Released
<1>14. CASE Release(c)
  BY <1>14 DEF Release, Returns, Released
<1>15. CASE Translate(c)
  BY <1>15 DEF Translate
<1> QED
  BY <1>1, <1>2, <1>3, <1>4, <1>5, <1>6, <1>7, <1>8, <1>9, <1>10, <1>11,
      <1>12, <1>13, <1>14, <1>15 DEF Step

-----------------------------------------------------------------------------
(* What the models hold of others while a meeting streams.  A worker that  *)
(* is still busy belongs to a handler that has not finished, or to one     *)
(* that stop() no longer waited for.                                       *)
ModelsInv ==
  /\ \A d \in busy : \/ d \in cut
                      \/ /\ sid[d] # NoId
                         /\ at[d] \in {"receiving", "sending", "leaving"}
  /\ \A d \in Streaming :
       ~raced => vad \subseteq {d} /\ history \subseteq {d} \cup cut

(* No step mixes a second connection into the models a meeting uses,       *)
(* but for the answer a worker left behind.                                *)
LEMMA ModelsStep ==
  ASSUME TypeOK, HandlerInv, SlotInv, ModelsInv, NEW c \in Conn, Step(c)
  PROVE  ModelsInv'
<1> USE IdAssumption
    DEF TypeOK, HandlerInv, SlotInv, ModelsInv, Streaming, handler,
        session, models
<1>1. CASE Connect(c)
  BY <1>1 DEF Connect
<1>2. CASE Leave(c)
  BY <1>2 DEF Leave
<1>3. CASE Hello(c)
  BY <1>3 DEF Hello, Hears, TextRejected, HelloFrames, Responds,
      HistoryForgotten
<1>4. CASE Fail(c)
  BY <1>4 DEF Fail, Hears, Responds, ClaimedAfterFailure
<1>5. CASE Audio(c)
  BY <1>5 DEF Audio, Hears, AudioRejected, Commits, Responds
<1>6. CASE AudioRaises(c)
  BY <1>6 DEF AudioRaises, Hears, AudioRejected, Leaves
<1>7. CASE Bye(c)
  BY <1>7 DEF Bye, Hears, Finalise, Responds
<1>8. CASE Accepted(c)
  BY <1>8 DEF Accepted, SlotTaken
<1>9. CASE Refuse(c)
  BY <1>9 DEF Refuse
<1>10. CASE Sent(c)
  BY <1>10 DEF Sent, Leaves, ReturnsClaim
<1>11. CASE SendRaises(c)
  BY <1>11 DEF SendRaises, Leaves
<1>12. CASE Disconnected(c)
  BY <1>12 DEF Disconnected, Leaves, ReturnsClaim
<1>13. CASE Finish(c)
  BY <1>13 DEF Finish, Finalise, Returns, Released
<1>14. CASE Release(c)
  BY <1>14 DEF Release, Returns, Released
<1>15. CASE Translate(c)
  BY <1>15 DEF Translate
<1> QED
  BY <1>1, <1>2, <1>3, <1>4, <1>5, <1>6, <1>7, <1>8, <1>9, <1>10, <1>11,
      <1>12, <1>13, <1>14, <1>15 DEF Step

(* No step frees the holder of its claim without freeing the slot. *)
LEMMA HolderStep ==
  ASSUME TypeOK, HandlerInv, SlotHasHolder, NEW c \in Conn, Step(c)
  PROVE  SlotHasHolder'
<1> USE IdAssumption
    DEF TypeOK, HandlerInv, SlotHasHolder, handler,
        session, models
<1>1. CASE Connect(c)
  BY <1>1 DEF Connect
<1>2. CASE Leave(c)
  BY <1>2 DEF Leave
<1>3. CASE Hello(c)
  BY <1>3 DEF Hello, Hears, TextRejected, HelloFrames, Responds,
      HistoryForgotten
<1>4. CASE Fail(c)
  BY <1>4 DEF Fail, Hears, Responds, ClaimedAfterFailure
<1>5. CASE Audio(c)
  BY <1>5 DEF Audio, Hears, AudioRejected, Commits, Responds
<1>6. CASE AudioRaises(c)
  BY <1>6 DEF AudioRaises, Hears, AudioRejected, Leaves
<1>7. CASE Bye(c)
  BY <1>7 DEF Bye, Hears, Finalise, Responds
<1>8. CASE Accepted(c)
  BY <1>8 DEF Accepted, SlotTaken
<1>9. CASE Refuse(c)
  BY <1>9 DEF Refuse
<1>10. CASE Sent(c)
  BY <1>10 DEF Sent, Leaves, ReturnsClaim
<1>11. CASE SendRaises(c)
  BY <1>11 DEF SendRaises, Leaves
<1>12. CASE Disconnected(c)
  BY <1>12 DEF Disconnected, Leaves, ReturnsClaim
<1>13. CASE Finish(c)
  BY <1>13 DEF Finish, Finalise, Returns, Released
<1>14. CASE Release(c)
  BY <1>14 DEF Release, Returns, Released
<1>15. CASE Translate(c)
  BY <1>15 DEF Translate
<1> QED
  BY <1>1, <1>2, <1>3, <1>4, <1>5, <1>6, <1>7, <1>8, <1>9, <1>10, <1>11,
      <1>12, <1>13, <1>14, <1>15 DEF Step

-----------------------------------------------------------------------------
(* What the handlers, the slot and the models keep together, in every      *)
(* state the program reaches.                                              *)
Kept == TypeOK /\ HandlerInv /\ SlotInv /\ ModelsInv /\ SlotHasHolder

(* Kept is inductive. *)
LEMMA KeptAlways == Spec => []Kept
<1>1. Init => Kept
  BY IdAssumption, ZenonT(60)
     DEF Init, Kept, TypeOK, Place, HandlerInv, SlotInv,
    Awaiting, ModelsInv, Streaming, SlotHasHolder
<1>2. Kept /\ [Next]_vars => Kept'
  <2>1. Kept /\ UNCHANGED vars => Kept'
    BY DEF Kept, vars, TypeOK, HandlerInv, SlotInv, Awaiting, ModelsInv,
      Streaming, SlotHasHolder
  <2>2. ASSUME Kept, NEW c \in Conn, Step(c)  PROVE Kept'
    BY <2>2, TypeStep, HandlerStep, SlotStep, ModelsStep, HolderStep DEF Kept
  <2> QED
    BY <2>1, <2>2, NextIsStep
<1> QED
  BY <1>1, <1>2, PTL DEF Spec

(* The slot is not lost: whoever took it still has the claim or the        *)
(* ownership that will free it, at a place that leads to the release, or   *)
(* an exception dropped the claim in _run_session.                         *)
THEOREM SlotNotLost == Spec => []SlotHasHolder
<1>1. Kept => SlotHasHolder
  BY DEF Kept
<1> QED
  BY <1>1, KeptAlways, PTL

(* As long as no two connections were past the check in stream() before a  *)
(* hello, a streaming session holds the slot under its own id and its VAD  *)
(* state is its own.                                                       *)
THEOREM SlotGuardsTheModels == Spec => []OneMeetingUnlessRaced
<1>1. Kept => OneMeetingUnlessRaced
  BY DEF Kept, HandlerInv, SlotInv, ModelsInv, Streaming,
    OneMeetingUnlessRaced
<1> QED
  BY <1>1, KeptAlways, PTL

(* "One streaming session at a time" (app.py:10-14) is broken by that race *)
(* alone: two sessions never stream without it, whatever the number of     *)
(* connections and even when they reuse an id.                             *)
THEOREM OnlyTheRaceMakesTwo == Spec => [](~raced => OneMeeting)
<1>1. ASSUME Kept, ~raced  PROVE OneMeeting
  <2>1. CASE Streaming = {}
    BY <2>1, FS_EmptySet DEF OneMeeting
  <2>2. CASE Streaming # {}
    <3>1. PICK c \in Conn : c \in Streaming
      BY <2>2 DEF Streaming
    <3>2. Streaming = {c}
      BY <1>1, <3>1 DEF Kept, HandlerInv, SlotInv, Streaming
    <3>3. Cardinality({c}) = 1
      BY FS_Singleton
    <3> QED
      BY <3>2, <3>3 DEF OneMeeting
  <2> QED
    BY <2>1, <2>2
<1>2. Kept => (~raced => OneMeeting)
  BY <1>1
<1> QED
  BY <1>2, KeptAlways, PTL

(* "A new meeting carries none of the last one's context"                  *)
(* (session.py:324), but for the turn of a worker that stop() left behind. *)
THEOREM ContextStartsFresh == Spec => []HistoryIsOwnOrCut
<1>1. Kept => HistoryIsOwnOrCut
  BY DEF Kept, ModelsInv, HistoryIsOwnOrCut
<1> QED
  BY <1>1, KeptAlways, PTL

-----------------------------------------------------------------------------
(* Part two: the conversation with a client.                               *)

(* The inductive invariant: the types and what Meetings keeps of its       *)
(* handlers and its slot, and what is on its way between the two machines. *)

(* Nothing was read from this connection yet, not even its hello. *)
Early(c) ==
  \/ at[c] \in {"accepting", "refusing"}
  \/ at[c] = "receiving" /\ sid[c] = NoId

(* Its hello is on its way. *)
HelloOf(c, id) == Early(c) /\ Len(up[c]) > 0 /\ up[c][1] = HelloFrame(id)

(* The client will hear no more on this connection. *)
Gone(c) == conn # c \/ broken

(* The types of what Conversation adds. *)
NetType ==
  /\ run \in {"top", "opening", "handshake", "streaming", "goodbye",
               "backoff", "ended", "failed"}
  /\ conn \in Conn \cup {NoConn} /\ broken \in BOOLEAN
  /\ conn = NoConn <=> run \in {"top", "backoff", "ended", "failed"}
  /\ me \in Id
  /\ meeting \in {"connecting", "listening", "awaiting", "joining"}
  /\ said \in BOOLEAN /\ heard \in BOOLEAN
  /\ up \in [Conn -> Seq(Frame)]
  /\ drops \in 0 .. MaxDrops /\ marred \subseteq Id
  /\ \A c \in Conn : Len(up[c]) <= MaxFlight + 1
  /\ conn = NoConn \/ broken => down = <<>>

(* How far run() and the meeting it serves are.                            *)
RunInv ==
  /\ run = "goodbye" => said /\ meeting \in {"awaiting", "joining"}
  /\ said => run \in {"goodbye", "ended"}
  /\ heard => said
  /\ broken => conn # NoConn /\ me \in marred
  /\ GoodbyeIsHeard

(* The hello is the first frame and the only one until it is answered, a   *)
(* session that answers has an id, and the server finds nobody gone before *)
(* it has read what they sent.                                             *)
FramesOf(c) ==
  /\ at[c] = "sending" => sid[c] # NoId
  /\ closes[c] => at[c] = "sending"
  /\ Early(c) => \/ Len(up[c]) = 0
                 \/ Len(up[c]) = 1 /\ \E id \in Id : up[c][1] = HelloFrame(id)
  /\ ~Early(c) =>
       \A i \in 1 .. Len(up[c]) : up[c][i] \in {AudioFrame, ByeFrame}
  /\ client[c] = "left" =>
       /\ Gone(c)
       /\ at[c] \in {"accepting", "receiving", "sending"} => Len(up[c]) = 0

(* What a client left for the server to read or to answer when it hung up, *)
(* it left in the name of a meeting that was marred.                       *)
GoneOf(c) ==
  Gone(c) =>
    /\ at[c] = "sending" => sid[c] \in marred
    /\ at[c] = "receiving" /\ Len(up[c]) > 0 /\ sid[c] # NoId =>
         sid[c] \in marred
    /\ \A id \in Id : HelloOf(c, id) => id \in marred

(* How far the two sides of an unbroken connection are from each other:    *)
(* as long as the client does not know that it is open, ...                *)
OpeningInv(c) ==
  /\ \/ down = <<>> /\ at[c] = "accepting"
     \/ down = <<"open">> /\ Early(c) /\ at[c] # "accepting"
     \/ down = <<"open", "refusal", "close">> /\ at[c] = "done"
  /\ Len(up[c]) = 0

(* ... in the handshake, ...                                               *)
HandshakeInv(c) ==
  /\ \/ down = <<>> /\ at[c] # "accepting" /\ (Early(c) \/ at[c] = "sending")
     \/ down = <<"ready">> /\ at[c] = "receiving" /\ sid[c] # NoId
     \/ down = <<"refusal", "close">> /\ at[c] = "done"
  /\ ~Early(c) => Len(up[c]) = 0

(* ... while the client streams, ... *)
StreamInv(c) ==
  /\ \/ down = <<>> /\ at[c] \in {"receiving", "sending"}
     \/ down = <<>> /\ at[c] \in {"leaving", "finishing"} /\ me \in marred
     \/ down = <<"close">> /\ at[c] = "done" /\ me \in marred
  /\ meeting = "connecting" => at[c] # "sending" /\ Len(up[c]) = 0

(* ... and after its bye. *)
ByeInv(c) ==
  \/ down = <<>> /\ at[c] \in {"receiving", "sending"} /\ ~heard
  \/ down = <<>> /\ at[c] \in {"leaving", "finishing"} /\ me \in marred
  \/ down = <<"closing", "close">> /\ at[c] \in {"leaving", "finishing", "done"}
  \/ /\ down = <<"close">> /\ at[c] \in {"leaving", "finishing", "done"}
     /\ heard \/ me \in marred

(* On the connection the client has, whole or broken.                      *)
ConnOf(c) ==
  conn = c =>
    /\ sid[c] \in {NoId, me}
    /\ \A id \in Id : HelloOf(c, id) => id = me
    /\ run \in {"streaming", "goodbye"} => ~Early(c)
    /\ run \in {"opening", "handshake", "streaming"} =>
         /\ ~closes[c] /\ Len(up[c]) <= MaxFlight
         /\ \A i \in 1 .. Len(up[c]) : up[c][i] # ByeFrame
    /\ ~broken =>
         /\ run = "opening" => OpeningInv(c)
         /\ run = "handshake" => HandshakeInv(c)
         /\ run = "streaming" => StreamInv(c)
         /\ run = "goodbye" => ByeInv(c)

(* The slot has somebody who will release it, or a marred meeting's id. *)
LeakInv == slot # Free => slot \in marred \/ Held

LinkInv == \A c \in Conn : FramesOf(c) /\ GoneOf(c) /\ ConnOf(c)

ConversationInv ==
  /\ TypeOK /\ HandlerInv /\ SlotInv
  /\ NetType /\ RunInv /\ LinkInv /\ LeakInv

-----------------------------------------------------------------------------
(* Frames and sequences.                                                   *)

(* The frames are different, and a hello says whose it is. *)
LEMMA FramesDiffer ==
  /\ AudioFrame # ByeFrame
  /\ \A i : HelloFrame(i) # AudioFrame /\ HelloFrame(i) # ByeFrame
  /\ \A i, j : HelloFrame(i) = HelloFrame(j) => i = j
<1>1. AudioFrame # ByeFrame
  BY DEF AudioFrame, ByeFrame
<1>2. ASSUME NEW i  PROVE HelloFrame(i) # AudioFrame /\ HelloFrame(i) # ByeFrame
  <2>1. HelloFrame(i).type = "hello" /\ AudioFrame.type = "audio"
        /\ ByeFrame.type = "bye"
    BY DEF HelloFrame, AudioFrame, ByeFrame
  <2> QED
    BY <2>1
<1>3. ASSUME NEW i, NEW j, HelloFrame(i) = HelloFrame(j)  PROVE i = j
  <2>1. HelloFrame(i).session_id = i /\ HelloFrame(j).session_id = j
    BY DEF HelloFrame
  <2> QED
    BY <1>3, <2>1
<1> QED
  BY <1>1, <1>2, <1>3

(* A sequence without its first element. *)
LEMMA TailIs ==
  ASSUME NEW T, NEW q \in Seq(T), Len(q) > 0
  PROVE  /\ Tail(q) \in Seq(T) /\ Len(Tail(q)) = Len(q) - 1
         /\ \A i \in 1 .. Len(Tail(q)) :
              i + 1 \in 1 .. Len(q) /\ Tail(q)[i] = q[i + 1]
<1>1. Len(q) \in Nat /\ q # <<>>
  OBVIOUS
<1>2. Tail(q) \in Seq(T) /\ Len(Tail(q)) = Len(q) - 1
      /\ \A i \in 1 .. Len(Tail(q)) : Tail(q)[i] = q[i + 1]
  BY <1>1
<1> QED
  BY <1>1, <1>2

(* One with another element. *)
LEMMA AppendIs ==
  ASSUME NEW T, NEW q \in Seq(T), NEW x \in T
  PROVE  /\ Append(q, x) \in Seq(T) /\ Len(Append(q, x)) = Len(q) + 1
         /\ \A i \in 1 .. Len(Append(q, x)) :
              Append(q, x)[i] = IF i = Len(q) + 1 THEN x ELSE q[i]
         /\ \A i \in 1 .. Len(Append(q, x)) :
              i \in 1 .. Len(q) \/ i = Len(q) + 1
OBVIOUS

(* The first n of one. *)
LEMMA FrontIs ==
  ASSUME NEW T, NEW q \in Seq(T), NEW n \in 0 .. Len(q)
  PROVE  /\ SubSeq(q, 1, n) \in Seq(T) /\ Len(SubSeq(q, 1, n)) = n
         /\ \A i \in 1 .. n : SubSeq(q, 1, n)[i] = q[i] /\ i \in 1 .. Len(q)
<1>1. Len(q) \in Nat /\ n \in Nat /\ n <= Len(q)
  OBVIOUS
<1>2. \A i \in 1 .. n : i \in 1 .. Len(q)
  BY <1>1
<1>3. SubSeq(q, 1, n) = [i \in 1 .. n |-> q[i]]
  BY <1>1
<1>4. \A i \in 1 .. n : q[i] \in T
  BY <1>2
<1> QED
  BY <1>1, <1>2, <1>3, <1>4

(* A refusal that follows an accept. *)
LEMMA OpenThenRefusal ==
  ASSUME NEW T, NEW x \in T, NEW y \in T, NEW z \in T
  PROVE  <<x>> \o <<y, z>> = <<x, y, z>>
<1> DEFINE s == <<x>>
           t == <<y, z>>
           u == <<x, y, z>>
<1>1. s \in Seq(T) /\ t \in Seq(T) /\ u \in Seq(T)
  OBVIOUS
<1>2. Len(s) = 1 /\ Len(t) = 2 /\ Len(u) = 3
      /\ s[1] = u[1] /\ t[1] = u[2] /\ t[2] = u[3]
  OBVIOUS
<1> HIDE DEF s, t, u
<1>3. /\ s \o t \in Seq(T) /\ Len(s \o t) = Len(s) + Len(t)
      /\ \A i \in 1 .. Len(s) + Len(t) :
           (s \o t)[i] = IF i <= Len(s) THEN s[i] ELSE t[i - Len(s)]
  BY <1>1, ConcatProperties
<1>4. Len(s \o t) = 3
      /\ \A i \in 1 .. 3 : (s \o t)[i] = IF i <= 1 THEN s[i] ELSE t[i - 1]
  BY <1>2, <1>3
<1>5. \A i \in 1 .. 3 : (s \o t)[i] = u[i]
  <2>1. \A i \in 1 .. 3 : i = 1 \/ i = 2 \/ i = 3
    OBVIOUS
  <2> QED
    BY <1>2, <1>4, <2>1
<1>6. s \o t = u
  BY <1>1, <1>2, <1>3, <1>4, <1>5, SeqEqual
<1> QED
  BY <1>6 DEF s, t, u

(* A handler reads a frame: the first of those on their way to it.         *)
LEMMA ReadsIs ==
  ASSUME NetType, NEW c \in Conn, NEW f, Reads(c, f)
  PROVE  /\ Len(up[c]) > 0 /\ up[c][1] = f
         /\ up' \in [Conn -> Seq(Frame)]
         /\ \A d \in Conn : d # c => up'[d] = up[d]
         /\ Len(up'[c]) = Len(up[c]) - 1
         /\ \A i \in 1 .. Len(up'[c]) :
              i + 1 \in 1 .. Len(up[c]) /\ up'[c][i] = up[c][i + 1]
         /\ run' = run /\ conn' = conn /\ broken' = broken
         /\ me' = me /\ meeting' = meeting /\ said' = said /\ heard' = heard
         /\ down' = down /\ drops' = drops
<1>1. up \in [Conn -> Seq(Frame)] /\ up[c] \in Seq(Frame)
  BY DEF NetType
<1>2. up[c] # <<>> /\ up[c][1] = f /\ up' = [up EXCEPT ![c] = Tail(up[c])]
  BY <1>1 DEF Reads
<1>3. Len(up[c]) > 0
  BY <1>1, <1>2
<1>4. up'[c] = Tail(up[c]) /\ Tail(up[c]) \in Seq(Frame)
      /\ up' \in [Conn -> Seq(Frame)]
  BY <1>1, <1>2, <1>3, TailIs
<1>5. /\ run' = run /\ conn' = conn /\ broken' = broken
      /\ me' = me /\ meeting' = meeting /\ said' = said /\ heard' = heard
      /\ down' = down /\ drops' = drops
  BY DEF Reads, client_, talk
<1> QED
  BY <1>1, <1>2, <1>3, <1>4, <1>5, TailIs

-----------------------------------------------------------------------------
(* The server's steps.  What is to be shown of a step of c's handler is    *)
(* what it leaves of c: of the others it moves nothing.                    *)

Same(d) ==
  /\ at'[d] = at[d] /\ sid'[d] = sid[d] /\ closes'[d] = closes[d]
  /\ client'[d] = client[d] /\ up'[d] = up[d]

Only(c) ==
  /\ run' = run /\ conn' = conn /\ broken' = broken
  /\ me' = me /\ meeting' = meeting /\ said' = said /\ heard' = heard
  /\ drops' = drops /\ marred \subseteq marred' /\ marred' \subseteq Id
  /\ up' \in [Conn -> Seq(Frame)] /\ Len(up'[c]) <= Len(up[c])
  /\ \A d \in Conn : d # c => Same(d)
  /\ Gone(c) => down' = down

(* The links of the others stay as they are, and so does the client. *)
LEMMA OthersKeep ==
  ASSUME ConversationInv, NEW c \in Conn, Only(c),
         FramesOf(c)', GoneOf(c)', ConnOf(c)'
  PROVE  NetType' /\ RunInv' /\ LinkInv'
<1> USE DEF ConversationInv
<1>1. NetType'
  <2>1. \A d \in Conn : Len(up'[d]) <= MaxFlight + 1
    <3> SUFFICES ASSUME NEW d \in Conn  PROVE Len(up'[d]) <= MaxFlight + 1
      OBVIOUS
    <3>1. /\ Len(up[d]) \in Nat /\ Len(up'[d]) \in Nat /\ MaxFlight \in Nat
          /\ Len(up[d]) <= MaxFlight + 1
      BY FlightAssumption DEF NetType, Only
    <3>2. Len(up'[d]) <= Len(up[d])
      BY <3>1 DEF Only, Same
    <3> QED
      BY <3>1, <3>2
  <2>2. conn' = NoConn \/ broken' => down' = <<>>
    BY NoConnAssumption DEF NetType, Only, Gone
  <2> QED
    BY <2>1, <2>2 DEF NetType, Only
<1>2. RunInv'
  BY DEF RunInv, Only, GoodbyeIsHeard
<1>3. ASSUME NEW d \in Conn, d # c
      PROVE  FramesOf(d)' /\ GoneOf(d)' /\ ConnOf(d)'
  <2>1. /\ run' = run /\ conn' = conn /\ broken' = broken
        /\ me' = me /\ meeting' = meeting /\ heard' = heard
        /\ marred \subseteq marred' /\ Same(d)
    BY <1>3 DEF Only
  <2>2. conn = d => down' = down
    BY <1>3 DEF Only, Gone
  <2>3. FramesOf(d) /\ GoneOf(d) /\ ConnOf(d)
    BY DEF LinkInv
  <2>4. Early(d)' <=> Early(d)
    BY <2>1 DEF Same, Early
  <2>5. \A id \in Id : HelloOf(d, id)' <=> HelloOf(d, id)
    BY <2>1, <2>4 DEF Same, HelloOf
  <2>6. Gone(d)' <=> Gone(d)
    BY <2>1 DEF Gone
  <2>7. FramesOf(d)'
    BY <2>1, <2>3, <2>4, <2>6 DEF Same, FramesOf
  <2>8. GoneOf(d)'
    BY <2>1, <2>3, <2>5, <2>6 DEF Same, GoneOf
  <2>9. ASSUME conn = d
        PROVE  /\ OpeningInv(d) => OpeningInv(d)'
               /\ HandshakeInv(d) => HandshakeInv(d)'
               /\ StreamInv(d) => StreamInv(d)'
               /\ ByeInv(d) => ByeInv(d)'
    BY <2>1, <2>2, <2>4, <2>9
       DEF Same, OpeningInv, HandshakeInv, StreamInv, ByeInv
  <2>10. ConnOf(d)'
    BY <2>1, <2>3, <2>4, <2>5, <2>9 DEF Same, ConnOf
  <2> QED
    BY <2>7, <2>8, <2>10
<1> QED
  BY <1>1, <1>2, <1>3 DEF LinkInv

(* Accepted, past the check or to be refused: the client will learn that   *)
(* the connection is open.                                                 *)
LEMMA AcceptsKeeps ==
  ASSUME ConversationInv, NEW c \in Conn, Accepts(c)
  PROVE  Only(c) /\ FramesOf(c)' /\ GoneOf(c)' /\ ConnOf(c)'
<1> USE DEF ConversationInv
<1>1. /\ run' = run /\ conn' = conn /\ broken' = broken
      /\ me' = me /\ meeting' = meeting /\ said' = said /\ heard' = heard
      /\ drops' = drops /\ marred' = marred /\ up' = up
      /\ down' = IF conn = c /\ ~broken THEN down \o <<"open">> ELSE down
  BY DEF Accepts, Tells, client_, talk
<1>2. /\ at[c] = "accepting" /\ at'[c] \in {"refusing", "receiving"}
      /\ sid'[c] = sid[c] /\ closes'[c] = closes[c] /\ client'[c] = client[c]
      /\ \A d \in Conn : d # c => Same(d)
  BY <1>1 DEF Accepts, Accepted, TypeOK, Same, session
<1>3. Only(c)
  BY <1>1, <1>2 DEF Only, NetType, Gone
<1>4. FramesOf(c) /\ GoneOf(c) /\ ConnOf(c) /\ sid[c] = NoId
  BY <1>2 DEF LinkInv, HandlerInv
<1>5. Early(c) /\ Early(c)'
  BY <1>2, <1>4 DEF Early
<1>6. /\ Gone(c)' <=> Gone(c)
      /\ \A id \in Id : HelloOf(c, id)' <=> HelloOf(c, id)
  BY <1>1, <1>5 DEF Gone, HelloOf
<1>7. FramesOf(c)'
  BY <1>1, <1>2, <1>4, <1>5, <1>6 DEF FramesOf
<1>8. GoneOf(c)'
  BY <1>1, <1>2, <1>4, <1>6 DEF GoneOf
<1>9. ASSUME conn = c, ~broken
      PROVE  run = "opening" /\ OpeningInv(c)'
  <2>1. run \in {"opening", "handshake", "streaming", "goodbye"}
    BY <1>9, NoConnAssumption DEF NetType
  <2>2. run = "opening" /\ OpeningInv(c)
    BY <1>2, <1>4, <1>5, <1>9, <2>1 DEF ConnOf, HandshakeInv
  <2>3. down = <<>> /\ Len(up[c]) = 0
    BY <1>2, <2>2 DEF OpeningInv
  <2>4. down' = <<"open">>
    BY <1>1, <1>9, <2>3
  <2> QED
    BY <1>1, <1>2, <1>5, <2>2, <2>3, <2>4 DEF OpeningInv
<1>10. ConnOf(c)'
  BY <1>1, <1>2, <1>4, <1>5, <1>6, <1>9 DEF ConnOf
<1> QED
  BY <1>3, <1>7, <1>8, <1>10

(* Refused: the refusal and the close are on their way, if anybody listens. *)
LEMMA RefusesKeeps ==
  ASSUME ConversationInv, NEW c \in Conn, Refuses(c)
  PROVE  Only(c) /\ FramesOf(c)' /\ GoneOf(c)' /\ ConnOf(c)'
<1> USE DEF ConversationInv
<1>1. /\ run' = run /\ conn' = conn /\ broken' = broken
      /\ me' = me /\ meeting' = meeting /\ said' = said /\ heard' = heard
      /\ drops' = drops /\ marred' = marred
      /\ up' = [up EXCEPT ![c] = <<>>]
      /\ down' = IF conn = c /\ ~broken THEN down \o <<"refusal", "close">>
                 ELSE down
  BY DEF Refuses, Tells, client_, talk
<1>2. up' \in [Conn -> Seq(Frame)] /\ Len(up'[c]) = 0 /\ Len(up[c]) \in Nat
      /\ \A d \in Conn : d # c => up'[d] = up[d]
  BY <1>1 DEF NetType
<1>3. /\ at[c] = "refusing" /\ at'[c] = "done"
      /\ sid'[c] = sid[c] /\ closes'[c] = closes[c] /\ client'[c] = client[c]
      /\ \A d \in Conn : d # c => Same(d)
  BY <1>2 DEF Refuses, Refuse, TypeOK, Same, session
<1>4. Only(c)
  BY <1>1, <1>2, <1>3 DEF Only, NetType, Gone
<1>5. FramesOf(c) /\ GoneOf(c) /\ ConnOf(c) /\ sid[c] = NoId
  BY <1>3 DEF LinkInv, HandlerInv
<1>6. Early(c) /\ ~Early(c)' /\ (Gone(c)' <=> Gone(c))
  BY <1>1, <1>3 DEF Early, Gone
<1>7. FramesOf(c)' /\ GoneOf(c)'
  BY <1>1, <1>2, <1>3, <1>5, <1>6 DEF FramesOf, GoneOf, HelloOf
<1>8. ASSUME conn = c, ~broken
      PROVE  \/ run = "handshake" /\ down' = <<"refusal", "close">>
             \/ run = "opening" /\ down' = <<"open", "refusal", "close">>
  <2>1. run \in {"opening", "handshake", "streaming", "goodbye"}
    BY <1>8, NoConnAssumption DEF NetType
  <2>2. CASE run = "opening"
    <3>1. down = <<"open">>
      BY <1>3, <1>5, <1>8, <2>2 DEF ConnOf, OpeningInv
    <3>2. <<"open">> \o <<"refusal", "close">> = <<"open", "refusal", "close">>
      <4>1. "open" \in Message /\ "refusal" \in Message /\ "close" \in Message
        BY DEF Message
      <4> QED
        BY <4>1, OpenThenRefusal
    <3>3. down' = <<"open">> \o <<"refusal", "close">>
      BY <1>1, <1>8, <3>1
    <3> QED
      BY <2>2, <3>2, <3>3
  <2>3. CASE run = "handshake"
    <3>1. down = <<>>
      BY <1>3, <1>5, <1>6, <1>8, <2>3 DEF ConnOf, HandshakeInv
    <3> QED
      BY <1>1, <1>8, <2>3, <3>1
  <2> QED
    BY <1>5, <1>6, <1>8, <2>1, <2>2, <2>3 DEF ConnOf
<1>9. ASSUME conn = c, ~broken
      PROVE  /\ run \in {"opening", "handshake"}
             /\ run = "opening" => OpeningInv(c)'
             /\ run = "handshake" => HandshakeInv(c)'
  BY <1>2, <1>3, <1>6, <1>8, <1>9 DEF OpeningInv, HandshakeInv
<1>10. ConnOf(c)'
  BY <1>1, <1>2, <1>3, <1>5, <1>6, <1>9, FlightAssumption
     DEF ConnOf, HelloOf
<1> QED
  BY <1>4, <1>7, <1>10

(* A hello: it was alone, and the session has the id it brought. *)
LEMMA ReadsHelloKeeps ==
  ASSUME ConversationInv, NEW c \in Conn, ReadsHello(c)
  PROVE  Only(c) /\ FramesOf(c)' /\ GoneOf(c)' /\ ConnOf(c)'
<1> USE DEF ConversationInv
<1>1. PICK id \in Id : Reads(c, HelloFrame(id)) /\ Hello(c) /\ slot' = id
  BY DEF ReadsHello
<1>2. /\ run' = run /\ conn' = conn /\ broken' = broken
      /\ me' = me /\ meeting' = meeting /\ said' = said /\ heard' = heard
      /\ drops' = drops /\ down' = down
      /\ Len(up[c]) > 0 /\ up[c][1] = HelloFrame(id)
      /\ up' \in [Conn -> Seq(Frame)] /\ Len(up'[c]) = Len(up[c]) - 1
      /\ \A d \in Conn : d # c => up'[d] = up[d]
  BY <1>1, ReadsIs
<1>3. marred' = marred /\ marred \subseteq Id /\ Len(up[c]) \in Nat
  BY DEF ReadsHello, NetType
<1>4. /\ at[c] = "receiving" /\ at'[c] = "sending" /\ client[c] = "here"
      /\ sid'[c] = id /\ id # NoId /\ closes'[c] = FALSE
      /\ client'[c] = client[c]
      /\ \A d \in Conn : d # c => Same(d)
  BY <1>1, <1>2, IdAssumption DEF Hello, Hears, Responds, TypeOK, Same
<1>5. FramesOf(c) /\ GoneOf(c) /\ ConnOf(c)
  BY DEF LinkInv
<1>6. Early(c) /\ ~Early(c)'
  BY <1>2, <1>4, <1>5, FramesDiffer DEF FramesOf, Early
<1>7. HelloOf(c, id) /\ Len(up'[c]) = 0 /\ (Gone(c)' <=> Gone(c))
  BY <1>2, <1>3, <1>5, <1>6 DEF FramesOf, HelloOf, Gone
<1>8. Only(c)
  BY <1>2, <1>3, <1>4 DEF Only
<1>9. FramesOf(c)'
  BY <1>4, <1>6, <1>7 DEF FramesOf
<1>10. GoneOf(c)'
  BY <1>3, <1>4, <1>5, <1>6, <1>7 DEF GoneOf, HelloOf
<1>11. ConnOf(c)'
  <2>1. ASSUME conn = c  PROVE id = me
    BY <1>5, <1>7, <2>1 DEF ConnOf
  <2>2. ASSUME conn = c
        PROVE  run \notin {"streaming", "goodbye"} /\ (~broken => run # "opening")
    BY <1>2, <1>3, <1>5, <1>6, <2>2 DEF ConnOf, OpeningInv
  <2>3. ASSUME conn = c, ~broken, run = "handshake"  PROVE HandshakeInv(c)'
    <3>1. down = <<>>
      BY <1>4, <1>5, <1>6, <2>3 DEF ConnOf, HandshakeInv, Early
    <3> QED
      BY <1>2, <1>4, <1>7, <3>1 DEF HandshakeInv
  <2>4. Len(up'[c]) <= MaxFlight
        /\ \A i \in 1 .. Len(up'[c]) : up'[c][i] # ByeFrame
    BY <1>7, FlightAssumption
  <2>5. \A i \in Id : ~HelloOf(c, i)'
    BY <1>6 DEF HelloOf
  <2> QED
    BY <1>2, <1>4, <1>6, <2>1, <2>2, <2>3, <2>4, <2>5 DEF ConnOf
<1> QED
  BY <1>8, <1>9, <1>10, <1>11

(* Audio is heard, and a bye: by a session that has an id.  What is left   *)
(* on its way is what was behind it.                                       *)
LEMMA LaterFrameIs ==
  ASSUME ConversationInv, NEW c \in Conn, NEW f \in {AudioFrame, ByeFrame},
         Reads(c, f), at[c] = "receiving", client[c] = "here"
  PROVE  /\ ~Early(c) /\ sid[c] # NoId /\ sid[c] \in Id
         /\ Len(up[c]) > 0 /\ Len(up[c]) \in Nat
         /\ Len(up'[c]) = Len(up[c]) - 1
         /\ \A i \in 1 .. Len(up'[c]) : up'[c][i] \in {AudioFrame, ByeFrame}
         /\ Gone(c) => sid[c] \in marred
         /\ conn = c => sid[c] = me
         /\ conn = c /\ run \in {"opening", "handshake", "streaming"} =>
              /\ f # ByeFrame /\ Len(up'[c]) <= MaxFlight
              /\ \A i \in 1 .. Len(up'[c]) : up'[c][i] # ByeFrame
         /\ conn = c /\ ~broken =>
              /\ run \in {"streaming", "goodbye"} /\ down = <<>>
              /\ run = "streaming" => meeting # "connecting"
              /\ run = "goodbye" => ~heard
<1> USE DEF ConversationInv
<1>1. /\ Len(up[c]) > 0 /\ up[c][1] = f
      /\ Len(up'[c]) = Len(up[c]) - 1
      /\ \A i \in 1 .. Len(up'[c]) :
           i + 1 \in 1 .. Len(up[c]) /\ up'[c][i] = up[c][i + 1]
  BY ReadsIs
<1>2. FramesOf(c) /\ GoneOf(c) /\ ConnOf(c) /\ Len(up[c]) \in Nat
  BY DEF LinkInv, NetType
<1>3. ~Early(c) /\ sid[c] # NoId /\ sid[c] \in Id
  <2>1. ~Early(c)
    BY <1>1, <1>2, FramesDiffer DEF FramesOf
  <2> QED
    BY <2>1 DEF Early, TypeOK
<1>4. \A i \in 1 .. Len(up'[c]) : up'[c][i] \in {AudioFrame, ByeFrame}
  BY <1>1, <1>2, <1>3 DEF FramesOf
<1>5. Gone(c) => sid[c] \in marred
  BY <1>1, <1>2, <1>3 DEF GoneOf
<1>6. conn = c => sid[c] = me
  BY <1>2, <1>3 DEF ConnOf
<1>7. ASSUME conn = c, run \in {"opening", "handshake", "streaming"}
      PROVE  /\ f # ByeFrame /\ Len(up'[c]) <= MaxFlight
             /\ \A i \in 1 .. Len(up'[c]) : up'[c][i] # ByeFrame
  <2>1. /\ Len(up[c]) <= MaxFlight
        /\ \A i \in 1 .. Len(up[c]) : up[c][i] # ByeFrame
    BY <1>2, <1>7 DEF ConnOf
  <2>2. 1 \in 1 .. Len(up[c])
    BY <1>1, <1>2
  <2>3. f # ByeFrame
    BY <1>1, <2>1, <2>2
  <2>4. MaxFlight \in Nat
    BY FlightAssumption
  <2>5. Len(up'[c]) <= MaxFlight
    BY <1>1, <1>2, <2>1, <2>4
  <2> QED
    BY <1>1, <2>1, <2>3, <2>5
<1>8. ASSUME conn = c, ~broken
      PROVE  /\ run \in {"streaming", "goodbye"} /\ down = <<>>
             /\ run = "streaming" => meeting # "connecting"
             /\ run = "goodbye" => ~heard
  <2>1. run \in {"opening", "handshake", "streaming", "goodbye"}
    BY <1>8, NoConnAssumption DEF NetType
  <2>2. run # "handshake" /\ run # "opening"
    BY <1>1, <1>2, <1>3, <1>8 DEF ConnOf, OpeningInv, HandshakeInv
  <2>3. CASE run = "streaming"
    BY <1>1, <1>2, <1>8, <2>3 DEF ConnOf, StreamInv
  <2>4. CASE run = "goodbye"
    BY <1>1, <1>2, <1>8, <2>4 DEF ConnOf, ByeInv
  <2> QED
    BY <2>1, <2>2, <2>3, <2>4
<1> QED
  BY <1>1, <1>2, <1>3, <1>4, <1>5, <1>6, <1>7, <1>8

(* A chunk: with something to send, or nothing. *)
LEMMA ReadsAudioKeeps ==
  ASSUME ConversationInv, NEW c \in Conn, ReadsAudio(c)
  PROVE  Only(c) /\ FramesOf(c)' /\ GoneOf(c)' /\ ConnOf(c)'
<1> USE DEF ConversationInv
<1>1. Reads(c, AudioFrame) /\ Audio(c) /\ marred' = marred
  BY DEF ReadsAudio
<1>2. /\ run' = run /\ conn' = conn /\ broken' = broken
      /\ me' = me /\ meeting' = meeting /\ said' = said /\ heard' = heard
      /\ drops' = drops /\ down' = down /\ up' \in [Conn -> Seq(Frame)]
      /\ \A d \in Conn : d # c => up'[d] = up[d]
  BY <1>1, ReadsIs
<1>3. /\ at[c] = "receiving" /\ at'[c] \in {"receiving", "sending"}
      /\ client[c] = "here" /\ sid'[c] = sid[c] /\ client'[c] = client[c]
      /\ closes'[c] \in {FALSE, closes[c]}
      /\ \A d \in Conn : d # c => Same(d)
  BY <1>1, <1>2 DEF Audio, Hears, Responds, TypeOK, Same, session
<1>4. /\ ~Early(c) /\ sid[c] # NoId /\ sid[c] \in Id
      /\ Len(up[c]) > 0 /\ Len(up[c]) \in Nat
      /\ Len(up'[c]) = Len(up[c]) - 1
      /\ \A i \in 1 .. Len(up'[c]) : up'[c][i] \in {AudioFrame, ByeFrame}
      /\ Gone(c) => sid[c] \in marred
      /\ conn = c => sid[c] = me
      /\ conn = c /\ run \in {"opening", "handshake", "streaming"} =>
           /\ Len(up'[c]) <= MaxFlight
           /\ \A i \in 1 .. Len(up'[c]) : up'[c][i] # ByeFrame
      /\ conn = c /\ ~broken =>
           /\ run \in {"streaming", "goodbye"} /\ down = <<>>
           /\ run = "streaming" => meeting # "connecting"
           /\ run = "goodbye" => ~heard
  BY <1>1, <1>3, LaterFrameIs
<1>5. FramesOf(c) /\ GoneOf(c) /\ ConnOf(c)
  BY DEF LinkInv
<1>6. ~Early(c)' /\ (Gone(c)' <=> Gone(c)) /\ closes'[c] = FALSE
  BY <1>2, <1>3, <1>4, <1>5 DEF Early, Gone, FramesOf, TypeOK
<1>7. Only(c)
  BY <1>1, <1>2, <1>3, <1>4 DEF Only, NetType
<1>8. FramesOf(c)'
  BY <1>3, <1>4, <1>6 DEF FramesOf
<1>9. GoneOf(c)'
  BY <1>1, <1>3, <1>4, <1>6 DEF GoneOf, HelloOf
<1>10. ConnOf(c)'
  <2>1. ASSUME conn = c, ~broken
        PROVE  /\ run \in {"streaming", "goodbye"}
               /\ run = "streaming" => StreamInv(c)'
               /\ run = "goodbye" => ByeInv(c)'
    BY <1>2, <1>3, <1>4, <2>1 DEF StreamInv, ByeInv
  <2> QED
    BY <1>2, <1>3, <1>4, <1>6, <2>1 DEF ConnOf, HelloOf
<1> QED
  BY <1>7, <1>8, <1>9, <1>10

(* A model raises on one: the meeting is marred. *)
LEMMA RaisesKeeps ==
  ASSUME ConversationInv, NEW c \in Conn, RaisesOnAudio(c)
  PROVE  Only(c) /\ FramesOf(c)' /\ GoneOf(c)' /\ ConnOf(c)'
<1> USE DEF ConversationInv
<1>1. Reads(c, AudioFrame) /\ AudioRaises(c) /\ marred' = marred \cup {sid[c]}
  BY DEF RaisesOnAudio
<1>2. /\ run' = run /\ conn' = conn /\ broken' = broken
      /\ me' = me /\ meeting' = meeting /\ said' = said /\ heard' = heard
      /\ drops' = drops /\ down' = down /\ up' \in [Conn -> Seq(Frame)]
      /\ \A d \in Conn : d # c => up'[d] = up[d]
  BY <1>1, ReadsIs
<1>3. /\ at[c] = "receiving" /\ at'[c] = "leaving"
      /\ client[c] = "here" /\ sid'[c] = sid[c] /\ client'[c] = client[c]
      /\ closes'[c] = FALSE
      /\ \A d \in Conn : d # c => Same(d)
  BY <1>1, <1>2 DEF AudioRaises, Hears, Leaves, TypeOK, Same, session
<1>4. /\ ~Early(c) /\ sid[c] # NoId /\ sid[c] \in Id
      /\ Len(up[c]) > 0 /\ Len(up[c]) \in Nat
      /\ Len(up'[c]) = Len(up[c]) - 1
      /\ \A i \in 1 .. Len(up'[c]) : up'[c][i] \in {AudioFrame, ByeFrame}
      /\ conn = c => sid[c] = me
      /\ conn = c /\ run \in {"opening", "handshake", "streaming"} =>
           /\ Len(up'[c]) <= MaxFlight
           /\ \A i \in 1 .. Len(up'[c]) : up'[c][i] # ByeFrame
      /\ conn = c /\ ~broken =>
           /\ run \in {"streaming", "goodbye"} /\ down = <<>>
           /\ run = "streaming" => meeting # "connecting"
  BY <1>1, <1>3, LaterFrameIs
<1>5. ~Early(c)'
  BY <1>3 DEF Early
<1>6. Only(c)
  BY <1>1, <1>2, <1>3, <1>4 DEF Only, NetType
<1>7. FramesOf(c)' /\ GoneOf(c)'
  BY <1>3, <1>4, <1>5 DEF FramesOf, GoneOf, HelloOf
<1>8. ConnOf(c)'
  <2>1. ASSUME conn = c, ~broken
        PROVE  /\ run \in {"streaming", "goodbye"}
               /\ run = "streaming" => StreamInv(c)'
               /\ run = "goodbye" => ByeInv(c)'
    BY <1>1, <1>2, <1>3, <1>4, <2>1 DEF StreamInv, ByeInv
  <2> QED
    BY <1>2, <1>3, <1>4, <1>5, <2>1 DEF ConnOf, HelloOf
<1> QED
  BY <1>6, <1>7, <1>8

(* A bye: the answer will close the connection. *)
LEMMA ReadsByeKeeps ==
  ASSUME ConversationInv, NEW c \in Conn, ReadsBye(c)
  PROVE  Only(c) /\ FramesOf(c)' /\ GoneOf(c)' /\ ConnOf(c)'
<1> USE DEF ConversationInv
<1>1. Reads(c, ByeFrame) /\ Bye(c) /\ marred' = marred
  BY DEF ReadsBye
<1>2. /\ run' = run /\ conn' = conn /\ broken' = broken
      /\ me' = me /\ meeting' = meeting /\ said' = said /\ heard' = heard
      /\ drops' = drops /\ down' = down /\ up' \in [Conn -> Seq(Frame)]
      /\ \A d \in Conn : d # c => up'[d] = up[d]
  BY <1>1, ReadsIs
<1>3. /\ at[c] = "receiving" /\ at'[c] = "sending"
      /\ client[c] = "here" /\ sid'[c] = sid[c] /\ client'[c] = client[c]
      /\ closes'[c] = TRUE
      /\ \A d \in Conn : d # c => Same(d)
  BY <1>1, <1>2 DEF Bye, Hears, Responds, TypeOK, Same
<1>4. /\ ~Early(c) /\ sid[c] # NoId /\ sid[c] \in Id
      /\ Len(up[c]) > 0 /\ Len(up[c]) \in Nat
      /\ Len(up'[c]) = Len(up[c]) - 1
      /\ \A i \in 1 .. Len(up'[c]) : up'[c][i] \in {AudioFrame, ByeFrame}
      /\ Gone(c) => sid[c] \in marred
      /\ conn = c => sid[c] = me
      /\ ~(conn = c /\ run \in {"opening", "handshake", "streaming"})
      /\ conn = c /\ ~broken =>
           /\ run \in {"streaming", "goodbye"} /\ down = <<>>
           /\ run = "goodbye" => ~heard
  BY <1>1, <1>3, LaterFrameIs
<1>5. ~Early(c)' /\ (Gone(c)' <=> Gone(c))
  BY <1>2, <1>3 DEF Early, Gone
<1>6. Only(c)
  BY <1>1, <1>2, <1>3, <1>4 DEF Only, NetType
<1>7. FramesOf(c)' /\ GoneOf(c)'
  BY <1>1, <1>3, <1>4, <1>5 DEF FramesOf, GoneOf, HelloOf
<1>8. ConnOf(c)'
  BY <1>2, <1>3, <1>4, <1>5 DEF ConnOf, HelloOf, ByeInv
<1> QED
  BY <1>6, <1>7, <1>8

(* What is sent: the answer to the hello, to the bye, or to audio. *)
LEMMA SendsKeeps ==
  ASSUME ConversationInv, NEW c \in Conn, Sends(c)
  PROVE  Only(c) /\ FramesOf(c)' /\ GoneOf(c)' /\ ConnOf(c)'
<1> USE DEF ConversationInv
<1>1. /\ run' = run /\ conn' = conn /\ broken' = broken
      /\ me' = me /\ meeting' = meeting /\ said' = said /\ heard' = heard
      /\ drops' = drops /\ marred' = marred /\ up' = up
  BY DEF Sends, client_, talk
<1>2. /\ ~(conn = c /\ ~broken) => down' = down
      /\ conn = c /\ ~broken /\ closes[c] =>
           down' = down \o <<"closing", "close">>
      /\ conn = c /\ ~broken /\ ~closes[c] /\ run = "handshake" =>
           down' = down \o <<"ready">>
      /\ conn = c /\ ~broken /\ ~closes[c] /\ run # "handshake" =>
           down' = down \o <<>>
  BY DEF Sends, Tells
<1>3. /\ at[c] = "sending" /\ sid'[c] = sid[c] /\ client'[c] = client[c]
      /\ closes'[c] = FALSE
      /\ closes[c] => at'[c] = "leaving"
      /\ ~closes[c] => at'[c] = "receiving"
      /\ \A d \in Conn : d # c => Same(d)
  BY <1>1 DEF Sends, Sent, Leaves, TypeOK, Same, session
<1>4. FramesOf(c) /\ GoneOf(c) /\ ConnOf(c)
  BY DEF LinkInv
<1>5. ~Early(c) /\ ~Early(c)' /\ (Gone(c)' <=> Gone(c)) /\ sid[c] # NoId
  BY <1>1, <1>3, <1>4 DEF Early, Gone, FramesOf
<1>6. Only(c)
  BY <1>1, <1>2, <1>3 DEF Only, NetType, Gone
<1>7. FramesOf(c)'
  BY <1>1, <1>3, <1>4, <1>5 DEF FramesOf
<1>8. GoneOf(c)'
  BY <1>1, <1>3, <1>4, <1>5 DEF GoneOf, HelloOf
<1>9. ASSUME conn = c, ~broken
      PROVE  /\ run # "opening"
             /\ run = "handshake" => HandshakeInv(c)'
             /\ run = "streaming" => StreamInv(c)'
             /\ run = "goodbye" => ByeInv(c)'
  <2>0. run \in {"handshake", "streaming", "goodbye"}
    <3>1. run \in {"opening", "handshake", "streaming", "goodbye"}
      BY <1>9, NoConnAssumption DEF NetType
    <3> QED
      BY <1>3, <1>4, <1>5, <1>9, <3>1 DEF ConnOf, OpeningInv
  <2>1. down = <<>> /\ (run = "goodbye" => ~heard)
    BY <1>3, <1>4, <1>9, <2>0 DEF ConnOf, HandshakeInv, StreamInv, ByeInv
  <2>2. CASE run = "handshake"
    <3>1. ~closes[c] /\ Len(up[c]) = 0
      BY <1>4, <1>5, <1>9, <2>2 DEF ConnOf, HandshakeInv
    <3>2. down' = <<"ready">>
      BY <1>2, <1>9, <2>1, <2>2, <3>1
    <3> QED
      BY <1>1, <1>3, <1>5, <2>2, <3>1, <3>2 DEF HandshakeInv
  <2>3. CASE run = "streaming"
    <3>1. ~closes[c] /\ (meeting = "connecting" => Len(up[c]) = 0)
      BY <1>4, <1>9, <2>3 DEF ConnOf, StreamInv
    <3>2. down' = <<>>
      BY <1>2, <1>9, <2>1, <2>3, <3>1
    <3> QED
      BY <1>1, <1>3, <2>3, <3>1, <3>2 DEF StreamInv
  <2>4. CASE run = "goodbye"
    <3>1. closes[c] => down' = <<"closing", "close">>
      BY <1>2, <1>9, <2>1
    <3>2. ~closes[c] => down' = <<>>
      BY <1>2, <1>9, <2>1, <2>4
    <3> QED
      BY <1>1, <1>3, <2>1, <2>4, <3>1, <3>2 DEF ByeInv, TypeOK
  <2> QED
    BY <2>0, <2>2, <2>3, <2>4
<1>10. ConnOf(c)'
  BY <1>1, <1>3, <1>4, <1>5, <1>9 DEF ConnOf, HelloOf
<1> QED
  BY <1>6, <1>7, <1>8, <1>10

(* A send fails, or a receive finds the client gone, only on a connection  *)
(* the client has no more, or that broke.                                  *)
LEMMA LosesKeeps ==
  ASSUME ConversationInv, NEW c \in Conn, FailsToSend(c) \/ FindsGone(c)
  PROVE  Only(c) /\ FramesOf(c)' /\ GoneOf(c)' /\ ConnOf(c)'
<1> USE DEF ConversationInv
<1>1. /\ run' = run /\ conn' = conn /\ broken' = broken
      /\ me' = me /\ meeting' = meeting /\ said' = said /\ heard' = heard
      /\ drops' = drops /\ marred' = marred /\ up' = up /\ down' = down
  BY DEF FailsToSend, FindsGone, Quietly, client_, talk, network
<1>2. /\ at[c] \in {"sending", "receiving"} /\ client[c] = "left"
      /\ at'[c] = "leaving" /\ sid'[c] = sid[c] /\ client'[c] = client[c]
      /\ closes'[c] = FALSE
      /\ \A d \in Conn : d # c => Same(d)
  BY <1>1 DEF FailsToSend, FindsGone, SendRaises, Disconnected, Leaves,
              TypeOK, Same, session
<1>3. FramesOf(c) /\ GoneOf(c) /\ ConnOf(c)
  BY DEF LinkInv
<1>4. Gone(c) /\ Gone(c)' /\ Len(up[c]) = 0 /\ ~Early(c)'
  BY <1>1, <1>2, <1>3 DEF FramesOf, Gone, Early
<1>5. Only(c)
  BY <1>1, <1>2 DEF Only, NetType
<1>6. FramesOf(c)' /\ GoneOf(c)'
  BY <1>1, <1>2, <1>3, <1>4 DEF FramesOf, GoneOf, HelloOf
<1>7. ConnOf(c)'
  BY <1>1, <1>2, <1>3, <1>4 DEF ConnOf, HelloOf, Gone
<1> QED
  BY <1>5, <1>6, <1>7

(* A handler that returns: its connection is closed, and nobody reads what *)
(* is on its way to it.                                                    *)
LEMMA ThroughKeeps ==
  ASSUME ConversationInv, NEW c \in Conn, Through(c),
         at[c] \in {"leaving", "finishing"}, at'[c] = "done",
         sid'[c] = NoId, closes'[c] = closes[c], client'[c] = client[c],
         \A d \in Conn : d # c => /\ at'[d] = at[d] /\ sid'[d] = sid[d]
                                  /\ closes'[d] = closes[d]
                                  /\ client'[d] = client[d]
  PROVE  Only(c) /\ FramesOf(c)' /\ GoneOf(c)' /\ ConnOf(c)'
<1> USE DEF ConversationInv
<1>1. /\ run' = run /\ conn' = conn /\ broken' = broken
      /\ me' = me /\ meeting' = meeting /\ said' = said /\ heard' = heard
      /\ drops' = drops /\ marred' = marred
      /\ up' = [up EXCEPT ![c] = <<>>]
  BY DEF Through, client_, talk
<1>2. /\ ~(conn = c /\ ~broken) => down' = down
      /\ conn = c /\ ~broken /\ (\E i \in 1 .. Len(down) : down[i] = "close") =>
           down' = down \o <<>>
      /\ conn = c /\ ~broken
         /\ ~(\E i \in 1 .. Len(down) : down[i] = "close") =>
           down' = down \o <<"close">>
  BY DEF Through, Tells
<1>3. up' \in [Conn -> Seq(Frame)] /\ Len(up'[c]) = 0 /\ Len(up[c]) \in Nat
      /\ \A d \in Conn : d # c => up'[d] = up[d]
  BY <1>1 DEF NetType
<1>4. FramesOf(c) /\ GoneOf(c) /\ ConnOf(c)
  BY DEF LinkInv
<1>5. ~Early(c) /\ ~Early(c)' /\ (Gone(c)' <=> Gone(c)) /\ ~closes'[c]
  BY <1>1, <1>4 DEF Early, Gone, FramesOf
<1>6. Only(c)
  BY <1>1, <1>2, <1>3 DEF Only, Same, NetType, Gone
<1>7. FramesOf(c)' /\ GoneOf(c)'
  BY <1>3, <1>4, <1>5 DEF FramesOf, GoneOf, HelloOf
<1>8. ASSUME conn = c, ~broken
      PROVE  /\ run \in {"streaming", "goodbye"}
             /\ run = "streaming" => StreamInv(c)'
             /\ run = "goodbye" => ByeInv(c)'
  <2>1. run \in {"opening", "handshake", "streaming", "goodbye"}
    BY <1>8, NoConnAssumption DEF NetType
  <2>2. run # "handshake" /\ run # "opening"
    BY <1>4, <1>5, <1>8 DEF ConnOf, OpeningInv, HandshakeInv
  <2>3. CASE run = "streaming"
    <3>1. down = <<>> /\ me \in marred
      BY <1>4, <1>8, <2>3 DEF ConnOf, StreamInv
    <3>2. ~\E i \in 1 .. Len(down) : down[i] = "close"
      BY <3>1
    <3>3. down' = <<"close">>
      BY <1>2, <1>8, <3>1, <3>2
    <3> QED
      BY <1>1, <1>3, <2>3, <3>1, <3>3 DEF StreamInv
  <2>4. CASE run = "goodbye"
    <3>1. \/ down = <<>> /\ me \in marred
          \/ down = <<"closing", "close">>
          \/ down = <<"close">> /\ (heard \/ me \in marred)
      BY <1>4, <1>8, <2>4 DEF ConnOf, ByeInv
    <3>2. CASE down = <<>> /\ me \in marred
      <4>1. ~\E i \in 1 .. Len(down) : down[i] = "close"
        BY <3>2
      <4>2. down' = <<"close">>
        BY <1>2, <1>8, <3>2, <4>1
      <4> QED
        BY <1>1, <2>4, <3>2, <4>2 DEF ByeInv
    <3>3. CASE down = <<"closing", "close">>
      <4>1. 2 \in 1 .. Len(down) /\ down[2] = "close"
        BY <3>3
      <4>2. down' = <<"closing", "close">>
        BY <1>2, <1>8, <3>3, <4>1
      <4> QED
        BY <2>4, <4>2 DEF ByeInv
    <3>4. CASE down = <<"close">> /\ (heard \/ me \in marred)
      <4>1. 1 \in 1 .. Len(down) /\ down[1] = "close"
        BY <3>4
      <4>2. down' = <<"close">>
        BY <1>2, <1>8, <3>4, <4>1
      <4> QED
        BY <1>1, <2>4, <3>4, <4>2 DEF ByeInv
    <3> QED
      BY <2>4, <3>1, <3>2, <3>3, <3>4
  <2> QED
    BY <2>1, <2>2, <2>3, <2>4
<1>9. ConnOf(c)'
  BY <1>1, <1>3, <1>4, <1>5, <1>8, FlightAssumption DEF ConnOf, HelloOf
<1> QED
  BY <1>6, <1>7, <1>9

(* _close_session. *)
LEMMA FinishesKeeps ==
  ASSUME ConversationInv, NEW c \in Conn, Finishes(c) \/ Releases(c)
  PROVE  Only(c) /\ FramesOf(c)' /\ GoneOf(c)' /\ ConnOf(c)'
<1> USE DEF ConversationInv
<1>1. /\ at[c] \in {"leaving", "finishing"}
      /\ closes'[c] = closes[c] /\ client'[c] = client[c]
      /\ \A d \in Conn : d # c => /\ at'[d] = at[d] /\ sid'[d] = sid[d]
                                  /\ closes'[d] = closes[d]
                                  /\ client'[d] = client[d]
  BY DEF Finishes, Releases, Finish, Release, Returns, TypeOK
<1>2. CASE Releases(c)
  <2>1. at'[c] = "done" /\ sid'[c] = NoId /\ Through(c)
    BY <1>2 DEF Releases, Release, Returns, TypeOK
  <2> QED
    BY <1>1, <2>1, ThroughKeeps
<1>3. CASE Finishes(c) /\ at'[c] = "done"
  <2>1. sid'[c] = NoId /\ Through(c)
    BY <1>3 DEF Finishes, Finish, Returns, TypeOK
  <2> QED
    BY <1>1, <1>3, <2>1, ThroughKeeps
<1>4. CASE Finishes(c) /\ at'[c] # "done"
  <2>1. Finish(c) /\ Quietly
    BY <1>4 DEF Finishes
  <2>2. /\ run' = run /\ conn' = conn /\ broken' = broken
        /\ me' = me /\ meeting' = meeting /\ said' = said /\ heard' = heard
        /\ drops' = drops /\ marred' = marred /\ up' = up /\ down' = down
    BY <2>1 DEF Quietly, client_, talk, network
  <2>3. at'[c] = "finishing" /\ sid'[c] = sid[c]
    BY <1>4, <2>1 DEF Finish, Returns, TypeOK
  <2>4. FramesOf(c) /\ GoneOf(c) /\ ConnOf(c)
    BY DEF LinkInv
  <2>5. ~Early(c) /\ ~Early(c)' /\ (Gone(c)' <=> Gone(c))
    BY <1>1, <2>2, <2>3 DEF Early, Gone
  <2>6. Only(c)
    BY <1>1, <2>2 DEF Only, Same, NetType
  <2>7. FramesOf(c)' /\ GoneOf(c)'
    BY <1>1, <2>2, <2>3, <2>4, <2>5 DEF FramesOf, GoneOf, HelloOf
  <2>8. ConnOf(c)'
    BY <1>1, <2>2, <2>3, <2>4, <2>5
       DEF ConnOf, HelloOf, OpeningInv, HandshakeInv, StreamInv, ByeInv
  <2> QED
    BY <2>6, <2>7, <2>8
<1> QED
  BY <1>2, <1>3, <1>4

(* The server finds the client gone. *)
LEMMA NoticesKeeps ==
  ASSUME ConversationInv, NEW c \in Conn, Notices(c)
  PROVE  Only(c) /\ FramesOf(c)' /\ GoneOf(c)' /\ ConnOf(c)'
<1> USE DEF ConversationInv
<1>1. /\ run' = run /\ conn' = conn /\ broken' = broken
      /\ me' = me /\ meeting' = meeting /\ said' = said /\ heard' = heard
      /\ drops' = drops /\ marred' = marred /\ up' = up /\ down' = down
  BY DEF Notices, Quietly, client_, talk, network
<1>2. /\ at' = at /\ sid' = sid /\ closes' = closes
      /\ \A d \in Conn : d # c => Same(d)
      /\ Gone(c)
      /\ at[c] \in {"accepting", "receiving", "sending"} => up[c] = <<>>
  BY <1>1 DEF Notices, Leave, handler, session, TypeOK, Same, Gone
<1>3. FramesOf(c) /\ GoneOf(c) /\ ConnOf(c)
  BY DEF LinkInv
<1>4. /\ Gone(c)' /\ (Early(c)' <=> Early(c))
      /\ \A id \in Id : HelloOf(c, id)' <=> HelloOf(c, id)
  BY <1>1, <1>2 DEF Gone, Early, HelloOf
<1>5. Only(c)
  BY <1>1, <1>2 DEF Only, NetType
<1>6. FramesOf(c)'
  BY <1>1, <1>2, <1>3, <1>4 DEF FramesOf
<1>7. GoneOf(c)'
  BY <1>1, <1>2, <1>3, <1>4 DEF GoneOf
<1>8. ConnOf(c)'
  BY <1>1, <1>2, <1>3, <1>4 DEF ConnOf, Gone
<1> QED
  BY <1>5, <1>6, <1>7, <1>8

(* A step of the server keeps what is on its way. *)
LEMMA ServerKeepsLinks ==
  ASSUME ConversationInv, NEW c \in Conn, ServerStep(c) \/ Notices(c)
  PROVE  NetType' /\ RunInv' /\ LinkInv' /\ marred \subseteq marred'
<1>1. Only(c) /\ FramesOf(c)' /\ GoneOf(c)' /\ ConnOf(c)'
  BY AcceptsKeeps, RefusesKeeps, ReadsHelloKeeps, ReadsAudioKeeps,
     RaisesKeeps, ReadsByeKeeps, SendsKeeps, LosesKeeps, FinishesKeeps,
     NoticesKeeps DEF ServerStep
<1> QED
  BY <1>1, OthersKeep DEF Only

-----------------------------------------------------------------------------
(* The client's steps.                                                     *)

(* A handler whose connection the client leaves, unless it did before, has *)
(* nothing left to read or to send, or does it in a marred meeting's name. *)
LEMMA HangsKeeps ==
  ASSUME ConversationInv, NEW next \in {"backoff", "ended", "failed"},
         Hangs(next),
         marred \subseteq marred', marred' \subseteq Id,
         said => next = "ended" /\ (heard \/ me \in marred'),
         \A c \in Conn : conn = c /\ ~broken =>
           \/ at[c] \in {"leaving", "finishing", "done"}
           \/ me \in marred'
           \/ at[c] = "receiving" /\ Len(up[c]) = 0
  PROVE  NetType' /\ RunInv' /\ LinkInv'
<1> USE DEF ConversationInv
<1>1. /\ run' = next /\ conn' = NoConn /\ broken' = FALSE /\ down' = <<>>
      /\ me' = me /\ meeting' = meeting /\ said' = said /\ heard' = heard
      /\ drops' = drops /\ up' = up
      /\ at' = at /\ sid' = sid /\ closes' = closes /\ client' = client
  BY DEF Hangs, talk, vars
<1>2. NetType'
  BY <1>1 DEF NetType
<1>3. RunInv'
  BY <1>1 DEF RunInv, GoodbyeIsHeard
<1>4. ASSUME NEW c \in Conn  PROVE FramesOf(c)' /\ GoneOf(c)' /\ ConnOf(c)'
  <2>1. conn' # c /\ Gone(c)'
    BY <1>1, NoConnAssumption DEF Gone
  <2>2. FramesOf(c) /\ GoneOf(c) /\ ConnOf(c)
    BY DEF LinkInv
  <2>3. (Early(c)' <=> Early(c))
        /\ \A id \in Id : HelloOf(c, id)' <=> HelloOf(c, id)
    BY <1>1 DEF Early, HelloOf
  <2>4. FramesOf(c)'
    BY <1>1, <2>1, <2>2, <2>3 DEF FramesOf
  <2>5. CASE Gone(c)
    <3>1. GoneOf(c)'
      BY <1>1, <2>2, <2>3, <2>5 DEF GoneOf
    <3> QED
      BY <2>1, <2>4, <3>1 DEF ConnOf
  <2>6. CASE ~Gone(c)
    <3>1. conn = c /\ ~broken
      BY <2>6 DEF Gone
    <3>2. CASE at[c] \in {"leaving", "finishing", "done"}
      BY <1>1, <2>1, <2>4, <3>2 DEF GoneOf, ConnOf, HelloOf, Early
    <3>3. CASE me \in marred'
      <4>1. /\ sid[c] \in {NoId, me}
            /\ \A id \in Id : HelloOf(c, id) => id = me
            /\ at[c] = "sending" => sid[c] # NoId
        BY <2>2, <3>1 DEF ConnOf, FramesOf
      <4> QED
        BY <1>1, <2>1, <2>3, <2>4, <3>3, <4>1 DEF GoneOf, ConnOf
    <3>4. CASE at[c] = "receiving" /\ Len(up[c]) = 0
      BY <1>1, <2>1, <2>4, <3>4 DEF GoneOf, ConnOf, HelloOf
    <3> QED
      BY <3>1, <3>2, <3>3, <3>4
  <2> QED
    BY <2>5, <2>6
<1> QED
  BY <1>2, <1>3, <1>4 DEF LinkInv

(* A refusal ends the handshake; a connection that is over was broken, or  *)
(* its handler has nothing more to say.                                    *)
LEMMA EndsKeep ==
  ASSUME ConversationInv, Refused \/ ConnectionEnds
  PROVE  NetType' /\ RunInv' /\ LinkInv' /\ marred' = marred
<1> USE DEF ConversationInv
<1>1. /\ Hangs(AfterSession) /\ marred' = marred
      /\ run \in {"handshake", "streaming", "goodbye"}
      /\ \/ run = "handshake" /\ Hears_("refusal")
         \/ broken
         \/ down = <<"close">>
  BY DEF Refused, ConnectionEnds, AfterRefusal, Over
<1> DEFINE next == AfterSession
<1>2. next \in {"backoff", "ended"} /\ (stopping => next = "ended")
  BY DEF AfterSession
<1>3. conn \in Conn
  BY <1>1 DEF NetType
<1>4. FramesOf(conn) /\ GoneOf(conn) /\ ConnOf(conn)
  BY <1>3 DEF LinkInv
<1>5. ASSUME ~broken
      PROVE  /\ at[conn] \in {"leaving", "finishing", "done"}
             /\ run = "goodbye" => heard \/ me \in marred
  <2>1. CASE run = "handshake"
    <3>1. HandshakeInv(conn)
      BY <1>3, <1>4, <1>5, <2>1 DEF ConnOf
    <3>2. down # <<>> /\ down # <<"ready">>
      BY <1>1, <1>5 DEF Hears_
    <3> QED
      BY <2>1, <3>1, <3>2 DEF HandshakeInv
  <2>2. CASE run = "streaming"
    <3>1. StreamInv(conn) /\ down = <<"close">>
      BY <1>1, <1>3, <1>4, <1>5, <2>2 DEF ConnOf
    <3> QED
      BY <2>2, <3>1 DEF StreamInv
  <2>3. CASE run = "goodbye"
    <3>1. ByeInv(conn) /\ down = <<"close">>
      BY <1>1, <1>3, <1>4, <1>5, <2>3 DEF ConnOf
    <3>2. down # <<>> /\ down # <<"closing", "close">>
      BY <3>1
    <3> QED
      BY <3>1, <3>2 DEF ByeInv
  <2> QED
    BY <1>1, <2>1, <2>2, <2>3
<1>6. said => next = "ended" /\ (heard \/ me \in marred)
  BY <1>1, <1>2, <1>5 DEF RunInv, stopping
<1> HIDE DEF next
<1>7. Hangs(next)
  BY <1>1 DEF next
<1>8. marred' \subseteq Id
  BY <1>1 DEF NetType
<1> QED
  BY <1>1, <1>2, <1>5, <1>6, <1>7, <1>8, HangsKeeps

(* A connection that broke before it was open had sent nothing. *)
LEMMA OpeningFailsKeeps ==
  ASSUME ConversationInv, OpeningFails
  PROVE  NetType' /\ RunInv' /\ LinkInv' /\ marred' = marred
<1> USE DEF ConversationInv
<1>1. /\ run = "opening" /\ broken /\ marred' = marred
      /\ Hangs(AfterSession) \/ Hangs("failed")
  BY DEF OpeningFails
<1>2. PICK next \in {"backoff", "ended", "failed"} : Hangs(next)
  BY <1>1 DEF AfterSession
<1>3. ~said /\ marred' \subseteq Id
  BY <1>1 DEF RunInv, NetType
<1> QED
  BY <1>1, <1>2, <1>3, HangsKeeps

(* The client gives up waiting: the meeting is marred, unless the answer   *)
(* came before.                                                            *)
LEMMA GivesUpKeeps ==
  ASSUME ConversationInv, GraceOver \/ JoinTimesOut
  PROVE  NetType' /\ RunInv' /\ LinkInv' /\ marred \subseteq marred'
<1> USE DEF ConversationInv
<1>1. /\ marred' = IF heard THEN marred ELSE marred \cup {me}
      /\ \/ run = "goodbye" /\ Hangs(AfterSession)
         \/ Hangs("ended")
  BY DEF GraceOver, JoinTimesOut, Marred
<1>2. PICK next \in {"backoff", "ended"} :
        Hangs(next) /\ (run = "goodbye" => next = "ended")
  BY <1>1 DEF RunInv, AfterSession, stopping
<1>3. marred \subseteq marred' /\ marred' \subseteq Id
  BY <1>1 DEF NetType
<1>4. said => next = "ended" /\ (heard \/ me \in marred')
  <2>1. said => next = "ended"
    BY <1>1, <1>2 DEF RunInv, Hangs
  <2> QED
    BY <1>1, <2>1
<1>5. ASSUME NEW c \in Conn, conn = c, ~broken
      PROVE  at[c] \in {"leaving", "finishing", "done"} \/ me \in marred'
  <2>1. ConnOf(c)
    BY DEF LinkInv
  <2>2. heard => run = "goodbye"
    BY <1>5, NoConnAssumption DEF RunInv, NetType
  <2>3. heard => at[c] \in {"leaving", "finishing", "done"} \/ me \in marred
    BY <1>5, <2>1, <2>2 DEF ConnOf, ByeInv
  <2> QED
    BY <1>1, <2>3
<1> QED
  BY <1>2, <1>3, <1>4, <1>5, HangsKeeps

(* The device fails before any audio was sent: the handler has nothing to  *)
(* read, and nothing to answer.                                            *)
LEMMA DeviceFailsKeeps ==
  ASSUME ConversationInv, DeviceFails
  PROVE  NetType' /\ RunInv' /\ LinkInv' /\ marred' = marred
<1> USE DEF ConversationInv
<1>1. /\ meeting = "connecting" /\ run = "streaming" /\ Hangs("ended")
      /\ marred' = marred
  BY DEF DeviceFails
<1>2. ~said
  BY <1>1 DEF RunInv
<1>3. ASSUME NEW c \in Conn, conn = c, ~broken
      PROVE  \/ at[c] \in {"leaving", "finishing", "done"}
             \/ at[c] = "receiving" /\ Len(up[c]) = 0
  <2>1. StreamInv(c)
    BY <1>1, <1>3 DEF LinkInv, ConnOf
  <2> QED
    BY <1>1, <2>1 DEF StreamInv
<1>4. marred' \subseteq Id
  BY <1>1 DEF NetType
<1> QED
  BY <1>1, <1>2, <1>3, <1>4, HangsKeeps

(* Steps of the client alone that leave its connection, and what is on it, *)
(* as they are.                                                            *)
LEMMA StaysKeeps ==
  ASSUME ConversationInv,
         conn' = conn, broken' = broken, down' = down, up' = up,
         marred' = marred,
         at' = at, sid' = sid, closes' = closes, client' = client,
         NetType', RunInv',
         \A c \in Conn : conn = c => ConnOf(c)'
  PROVE  LinkInv'
<1> USE DEF ConversationInv
<1>1. ASSUME NEW c \in Conn  PROVE FramesOf(c)' /\ GoneOf(c)' /\ ConnOf(c)'
  <2>1. FramesOf(c) /\ GoneOf(c)
    BY DEF LinkInv
  <2>2. /\ Early(c)' <=> Early(c)
        /\ Gone(c)' <=> Gone(c)
        /\ \A id \in Id : HelloOf(c, id)' <=> HelloOf(c, id)
    BY DEF Early, HelloOf, Gone
  <2>3. FramesOf(c)' /\ GoneOf(c)'
    BY <2>1, <2>2 DEF FramesOf, GoneOf
  <2>4. conn # c => ConnOf(c)'
    BY DEF ConnOf
  <2> QED
    BY <2>3, <2>4
<1> QED
  BY <1>1 DEF LinkInv

(* run() between two connections, with none to be had, and the next        *)
(* meeting.                                                                *)
LEMMA BetweenKeeps ==
  ASSUME ConversationInv,
         StopsAtTop \/ BackoffEnds \/ NewMeeting \/ Unreachable
  PROVE  NetType' /\ RunInv' /\ LinkInv' /\ marred' = marred
<1> USE DEF ConversationInv
<1>1. /\ conn' = conn /\ broken' = broken /\ down' = down /\ up' = up
      /\ drops' \in 0 .. MaxDrops /\ marred' = marred
      /\ at' = at /\ sid' = sid /\ closes' = closes /\ client' = client
      /\ run \in {"top", "backoff", "ended", "failed"}
      /\ run' \in {"top", "backoff", "ended", "failed"} /\ me' \in Id
      /\ \/ /\ meeting' = meeting /\ said' = said /\ heard' = heard
            /\ me' = me /\ run \in {"top", "backoff"}
         \/ meeting' = "connecting" /\ said' = FALSE /\ heard' = FALSE
  <2>1. CASE StopsAtTop \/ BackoffEnds \/ NewMeeting
    BY <2>1 DEF StopsAtTop, BackoffEnds, NewMeeting, vars, talk, network,
                NetType
  <2>2. CASE Unreachable
    <3>1. drops' \in 0 .. MaxDrops
      BY <2>2, FlightAssumption DEF Unreachable, NetType
    <3> QED
      BY <2>2, <3>1 DEF Unreachable, vars, talk, NetType
  <2> QED
    BY <2>1, <2>2
<1>2. conn = NoConn /\ broken = FALSE
  BY <1>1 DEF NetType, RunInv
<1>3. NetType'
  BY <1>1, <1>2 DEF NetType
<1>4. ~said'
  BY <1>1 DEF RunInv
<1>5. RunInv'
  BY <1>1, <1>2, <1>4 DEF RunInv, GoodbyeIsHeard
<1>6. \A c \in Conn : conn # c
  BY <1>2, NoConnAssumption
<1> QED
  BY <1>1, <1>3, <1>5, <1>6, StaysKeeps

(* The meeting's own steps: it listens, or is stopped. *)
LEMMA MeetingKeeps ==
  ASSUME ConversationInv, Listens \/ Stops
  PROVE  NetType' /\ RunInv' /\ LinkInv' /\ marred' = marred
<1> USE DEF ConversationInv
<1>1. /\ conn' = conn /\ broken' = broken /\ down' = down /\ up' = up
      /\ drops' = drops /\ marred' = marred
      /\ at' = at /\ sid' = sid /\ closes' = closes /\ client' = client
      /\ run' = run /\ me' = me /\ said' = said /\ heard' = heard
      /\ meeting' \in {"listening", "awaiting", "joining"}
      /\ run = "goodbye" => meeting' \in {"awaiting", "joining"}
  BY DEF Listens, Stops, vars, network
<1>2. NetType'
  BY <1>1 DEF NetType
<1>3. RunInv'
  BY <1>1 DEF RunInv, GoodbyeIsHeard
<1>4. ASSUME NEW c \in Conn, conn = c  PROVE ConnOf(c)'
  <2>1. ConnOf(c)
    BY DEF LinkInv
  <2>2. /\ Early(c)' <=> Early(c)
        /\ \A id \in Id : HelloOf(c, id)' <=> HelloOf(c, id)
    BY <1>1 DEF Early, HelloOf
  <2>3. /\ OpeningInv(c) => OpeningInv(c)'
        /\ HandshakeInv(c) => HandshakeInv(c)'
        /\ StreamInv(c) => StreamInv(c)'
        /\ ByeInv(c) => ByeInv(c)'
    BY <1>1, <2>2 DEF OpeningInv, HandshakeInv, StreamInv, ByeInv
  <2> QED
    BY <1>1, <2>1, <2>2, <2>3 DEF ConnOf
<1> QED
  BY <1>1, <1>2, <1>3, <1>4, StaysKeeps

(* The connection is open: the hello is on its way, unless the handler     *)
(* does not read it any more.                                              *)
LEMMA SaysHelloKeeps ==
  ASSUME ConversationInv, SaysHello
  PROVE  NetType' /\ RunInv' /\ LinkInv' /\ marred' = marred
<1> USE DEF ConversationInv
<1>1. /\ run = "opening" /\ down # <<>>
      /\ run' = "handshake" /\ down' = Tail(down) /\ up' = HelloSent
      /\ conn' = conn /\ broken' = broken
      /\ drops' = drops /\ marred' = marred
      /\ at' = at /\ sid' = sid /\ closes' = closes /\ client' = client
      /\ me' = me /\ meeting' = meeting /\ said' = said /\ heard' = heard
  BY DEF SaysHello, Hears_, vars, talk
<1>2. conn \in Conn /\ ~broken /\ me \in Id
  BY <1>1 DEF NetType
<1>3. FramesOf(conn) /\ GoneOf(conn) /\ ConnOf(conn)
  BY <1>2 DEF LinkInv
<1>4. OpeningInv(conn)
  BY <1>1, <1>2, <1>3 DEF ConnOf
<1>5. /\ \/ down' = <<>> /\ Early(conn) /\ at[conn] # "accepting"
         \/ down' = <<"refusal", "close">> /\ at[conn] = "done"
      /\ up[conn] = <<>>
  <2>1. CASE down = <<"open">>
    BY <1>1, <1>2, <1>4, <2>1 DEF OpeningInv, NetType
  <2>2. CASE down = <<"open", "refusal", "close">>
    BY <1>1, <1>2, <1>4, <2>2 DEF OpeningInv, NetType
  <2> QED
    BY <1>1, <1>4, <2>1, <2>2 DEF OpeningInv
<1>6. /\ up' \in [Conn -> Seq(Frame)]
      /\ \A d \in Conn : d # conn => up'[d] = up[d]
      /\ at[conn] = "done" => Len(up'[conn]) = 0
      /\ at[conn] # "done" =>
           Len(up'[conn]) = 1 /\ up'[conn][1] = HelloFrame(me)
  <2>1. CASE at[conn] = "done"
    BY <1>1, <1>5, <2>1 DEF HelloSent, NetType
  <2>2. CASE at[conn] # "done"
    <3>1. HelloFrame(me) \in Frame
      BY <1>2 DEF Frame
    <3>2. up' = [up EXCEPT ![conn] = <<HelloFrame(me)>>]
      BY <1>1, <1>2, <1>5, <2>2 DEF HelloSent, NetType
    <3> QED
      BY <1>2, <2>2, <3>1, <3>2 DEF NetType
  <2> QED
    BY <2>1, <2>2
<1>7. /\ Len(up'[conn]) \in {0, 1} /\ Len(up'[conn]) <= MaxFlight
      /\ MaxFlight \in Nat
  <2>1. MaxFlight \in Nat /\ 0 <= MaxFlight /\ 1 <= MaxFlight
    BY FlightAssumption
  <2>2. Len(up'[conn]) = 0 \/ Len(up'[conn]) = 1
    BY <1>6
  <2> QED
    BY <2>1, <2>2
<1>8. NetType'
  <2>1. ASSUME NEW d \in Conn  PROVE Len(up'[d]) <= MaxFlight + 1
    <3>1. Len(up[d]) <= MaxFlight + 1
      BY DEF NetType
    <3>2. Len(up'[conn]) <= MaxFlight + 1
      BY <1>7
    <3> QED
      BY <1>6, <3>1, <3>2
  <2> QED
    BY <1>1, <1>2, <1>6, <2>1 DEF NetType
<1>9. RunInv'
  BY <1>1 DEF RunInv, GoodbyeIsHeard
<1>10. \A d \in Conn : (Early(d)' <=> Early(d)) /\ (Gone(d)' <=> Gone(d))
  BY <1>1 DEF Early, Gone
<1>11. ASSUME NEW d \in Conn, d # conn
       PROVE  FramesOf(d)' /\ GoneOf(d)' /\ ConnOf(d)'
  <2>1. FramesOf(d) /\ GoneOf(d) /\ up'[d] = up[d]
    BY <1>6, <1>11 DEF LinkInv
  <2>2. \A id \in Id : HelloOf(d, id)' <=> HelloOf(d, id)
    BY <1>10, <2>1 DEF HelloOf
  <2>3. FramesOf(d)' /\ GoneOf(d)'
    BY <1>1, <1>10, <2>1, <2>2 DEF FramesOf, GoneOf
  <2> QED
    BY <1>1, <1>11, <2>3 DEF ConnOf
<1>12. ASSUME NEW d \in Conn, d = conn
       PROVE  FramesOf(d)' /\ GoneOf(d)' /\ ConnOf(d)'
  <2>1. FramesOf(d) /\ ConnOf(d) /\ ~Gone(d)
    BY <1>2, <1>3, <1>12 DEF Gone
  <2>2. Early(d) <=> at[d] # "done"
    BY <1>5, <1>12 DEF Early
  <2>3. /\ Len(up'[d]) \in {0, 1} /\ Len(up'[d]) <= MaxFlight
        /\ Early(d) => Len(up'[d]) = 1 /\ up'[d][1] = HelloFrame(me)
        /\ ~Early(d) => Len(up'[d]) = 0
    BY <1>6, <1>7, <1>12, <2>2
  <2>4. FramesOf(d)' /\ GoneOf(d)'
    BY <1>1, <1>2, <1>10, <2>1, <2>3 DEF FramesOf, GoneOf
  <2>5. \A id \in Id : HelloOf(d, id)' => id = me
    BY <1>10, <2>3, FramesDiffer DEF HelloOf
  <2>6. \A i \in 1 .. Len(up'[d]) : up'[d][i] # ByeFrame
    <3>1. ASSUME NEW i \in 1 .. Len(up'[d])  PROVE up'[d][i] = HelloFrame(me)
      <4>1. CASE Early(d)
        <5>1. i \in 1 .. 1
          BY <2>3, <4>1
        <5>2. i = 1
          BY <5>1
        <5> QED
          BY <2>3, <4>1, <5>2
      <4>2. CASE ~Early(d)
        <5>1. i \in 1 .. 0
          BY <2>3, <4>2
        <5> QED
          BY <5>1
      <4> QED
        BY <4>1, <4>2
    <3> QED
      BY <3>1, FramesDiffer
  <2>7. HandshakeInv(d)'
    BY <1>1, <1>5, <1>10, <1>12, <2>3 DEF HandshakeInv
  <2> QED
    BY <1>1, <1>2, <1>12, <2>1, <2>3, <2>4, <2>5, <2>6, <2>7 DEF ConnOf
<1> QED
  BY <1>1, <1>8, <1>9, <1>11, <1>12 DEF LinkInv

(* The session has answered the hello: run() streams. *)
LEMMA ReadyKeeps ==
  ASSUME ConversationInv, Ready
  PROVE  NetType' /\ RunInv' /\ LinkInv' /\ marred' = marred
<1> USE DEF ConversationInv
<1>1. /\ run = "handshake" /\ down # <<>> /\ Head(down) = "ready"
      /\ run' = "streaming" /\ down' = Tail(down)
      /\ conn' = conn /\ broken' = broken /\ up' = up
      /\ drops' = drops /\ marred' = marred
      /\ at' = at /\ sid' = sid /\ closes' = closes /\ client' = client
      /\ me' = me /\ meeting' = meeting /\ said' = said /\ heard' = heard
  BY DEF Ready, Hears_, vars, talk
<1>2. conn \in Conn /\ ~broken
  BY <1>1 DEF NetType
<1>3. FramesOf(conn) /\ GoneOf(conn) /\ ConnOf(conn)
  BY <1>2 DEF LinkInv
<1>4. HandshakeInv(conn)
  BY <1>1, <1>2, <1>3 DEF ConnOf
<1>5. down = <<"ready">> /\ at[conn] = "receiving" /\ sid[conn] # NoId
      /\ ~Early(conn) /\ Len(up[conn]) = 0
  <2>1. down # <<"refusal", "close">>
    BY <1>1
  <2>2. down = <<"ready">> /\ at[conn] = "receiving" /\ sid[conn] # NoId
    BY <1>1, <1>4, <2>1 DEF HandshakeInv
  <2>3. ~Early(conn)
    BY <2>2 DEF Early
  <2> QED
    BY <1>4, <2>2, <2>3 DEF HandshakeInv
<1>6. down' = <<>>
  BY <1>1, <1>5
<1>7. NetType'
  BY <1>1, <1>2, <1>6 DEF NetType
<1>8. RunInv'
  BY <1>1 DEF RunInv, GoodbyeIsHeard
<1>9. ASSUME NEW c \in Conn  PROVE FramesOf(c)' /\ GoneOf(c)' /\ ConnOf(c)'
  <2>1. FramesOf(c) /\ GoneOf(c)
    BY DEF LinkInv
  <2>2. /\ Early(c)' <=> Early(c)
        /\ Gone(c)' <=> Gone(c)
        /\ \A id \in Id : HelloOf(c, id)' <=> HelloOf(c, id)
    BY <1>1 DEF Early, HelloOf, Gone
  <2>3. FramesOf(c)' /\ GoneOf(c)'
    BY <1>1, <2>1, <2>2 DEF FramesOf, GoneOf
  <2>4. ASSUME conn = c  PROVE StreamInv(c)'
    BY <1>1, <1>5, <1>6, <2>4 DEF StreamInv
  <2>5. ConnOf(c)'
    BY <1>1, <1>3, <1>5, <2>2, <2>4 DEF ConnOf
  <2> QED
    BY <2>3, <2>5
<1> QED
  BY <1>1, <1>7, <1>8, <1>9 DEF LinkInv

(* A frame is sent on a whole connection that streams. *)
SendsFrame(f) ==
  /\ up' = [up EXCEPT ![conn] = Append(@, f)]
  /\ conn' = conn /\ broken' = broken /\ down' = down
  /\ drops' = drops /\ marred' = marred
  /\ at' = at /\ sid' = sid /\ closes' = closes /\ client' = client
  /\ me' = me /\ meeting' = meeting /\ heard' = heard

(* It is behind what was sent before, and nothing of that changes. *)
LEMMA FrameIsLast ==
  ASSUME ConversationInv, NEW f \in {AudioFrame, ByeFrame}, SendsFrame(f),
         run = "streaming", ~broken
  PROVE  /\ conn \in Conn /\ up' \in [Conn -> Seq(Frame)]
         /\ Len(up[conn]) \in Nat /\ Len(up'[conn]) = Len(up[conn]) + 1
         /\ f # ByeFrame =>
              \A i \in 1 .. Len(up'[conn]) : up'[conn][i] # ByeFrame
         /\ \A d \in Conn : d # conn => up'[d] = up[d]
         /\ \A d \in Conn : FramesOf(d)' /\ GoneOf(d)'
         /\ \A d \in Conn : (Early(d)' <=> Early(d))
         /\ ~Early(conn) /\ ~Early(conn)' /\ ConnOf(conn)
<1> USE DEF ConversationInv
<1>1. /\ conn \in Conn /\ up[conn] \in Seq(Frame) /\ f \in Frame
      /\ Len(up[conn]) \in Nat
  BY DEF NetType, Frame
<1>2. /\ up' = [up EXCEPT ![conn] = Append(up[conn], f)]
      /\ up'[conn] = Append(up[conn], f)
  BY <1>1 DEF SendsFrame, NetType
<1>3. /\ up'[conn] \in Seq(Frame) /\ Len(up'[conn]) = Len(up[conn]) + 1
      /\ \A i \in 1 .. Len(up'[conn]) :
           up'[conn][i] = IF i = Len(up[conn]) + 1 THEN f ELSE up[conn][i]
      /\ \A i \in 1 .. Len(up'[conn]) :
           i \in 1 .. Len(up[conn]) \/ i = Len(up[conn]) + 1
  BY <1>1, <1>2, AppendIs
<1>4. up' \in [Conn -> Seq(Frame)] /\ \A d \in Conn : d # conn => up'[d] = up[d]
  BY <1>1, <1>2, <1>3 DEF NetType
<1>5. FramesOf(conn) /\ GoneOf(conn) /\ ConnOf(conn)
  BY <1>1 DEF LinkInv
<1>6. \A d \in Conn : (Early(d)' <=> Early(d)) /\ (Gone(d)' <=> Gone(d))
  BY DEF SendsFrame, Early, Gone
<1>7. ~Early(conn) /\ ~Gone(conn)
  BY <1>1, <1>5 DEF ConnOf, Gone
<1>8. ASSUME f # ByeFrame
      PROVE  \A i \in 1 .. Len(up'[conn]) : up'[conn][i] # ByeFrame
  <2>1. \A i \in 1 .. Len(up[conn]) : up[conn][i] # ByeFrame
    BY <1>1, <1>5 DEF ConnOf
  <2> QED
    BY <1>3, <1>8, <2>1
<1>9. \A i \in 1 .. Len(up'[conn]) : up'[conn][i] \in {AudioFrame, ByeFrame}
  <2>1. \A i \in 1 .. Len(up[conn]) : up[conn][i] \in {AudioFrame, ByeFrame}
    BY <1>5, <1>7 DEF FramesOf
  <2> QED
    BY <1>3, <2>1
<1>10. FramesOf(conn)' /\ GoneOf(conn)'
  <2>1. ~Early(conn)' /\ ~Gone(conn)' /\ conn' = conn
    BY <1>1, <1>6, <1>7 DEF SendsFrame
  <2>2. FramesOf(conn) /\ client[conn] # "left"
    BY <1>5, <1>7 DEF FramesOf
  <2>3. /\ at'[conn] = at[conn] /\ sid'[conn] = sid[conn]
        /\ closes'[conn] = closes[conn] /\ client'[conn] = client[conn]
    BY DEF SendsFrame
  <2>4. FramesOf(conn)'
    BY <1>9, <2>1, <2>2, <2>3 DEF FramesOf
  <2> QED
    BY <2>1, <2>4 DEF GoneOf
<1>11. ASSUME NEW d \in Conn, d # conn  PROVE FramesOf(d)' /\ GoneOf(d)'
  <2>1. FramesOf(d) /\ GoneOf(d)
    BY DEF LinkInv
  <2>2. up'[d] = up[d] /\ (Early(d)' <=> Early(d)) /\ (Gone(d)' <=> Gone(d))
    BY <1>4, <1>6, <1>11
  <2>3. \A id \in Id : HelloOf(d, id)' <=> HelloOf(d, id)
    BY <2>2 DEF HelloOf
  <2> QED
    BY <2>1, <2>2, <2>3 DEF SendsFrame, FramesOf, GoneOf
<1>12. \A d \in Conn : FramesOf(d)' /\ GoneOf(d)'
  <2> SUFFICES ASSUME NEW d \in Conn  PROVE FramesOf(d)' /\ GoneOf(d)'
    OBVIOUS
  <2>1. CASE d = conn
    <3>1. conn' = conn
      BY DEF SendsFrame
    <3> QED
      BY <1>10, <2>1, <3>1 DEF FramesOf, GoneOf, Early, Gone, HelloOf
  <2> QED
    BY <1>11, <2>1
<1>13. ~Early(conn)'
  BY <1>7 DEF SendsFrame, Early
<1> QED
  BY <1>1, <1>3, <1>4, <1>5, <1>6, <1>7, <1>8, <1>12, <1>13

(* A chunk is sent. *)
LEMMA SendsAudioKeeps ==
  ASSUME ConversationInv, SendsAudio
  PROVE  NetType' /\ RunInv' /\ LinkInv' /\ marred' = marred
<1> USE DEF ConversationInv
<1>1. /\ run = "streaming" /\ meeting = "listening" /\ ~broken
      /\ Len(up[conn]) < MaxFlight /\ SendsFrame(AudioFrame)
      /\ run' = run /\ said' = said
  BY DEF SendsAudio, SendsFrame, client_, talk, vars
<1>2. /\ conn \in Conn /\ up' \in [Conn -> Seq(Frame)]
      /\ Len(up[conn]) \in Nat /\ Len(up'[conn]) = Len(up[conn]) + 1
      /\ \A i \in 1 .. Len(up'[conn]) : up'[conn][i] # ByeFrame
      /\ \A d \in Conn : d # conn => up'[d] = up[d]
      /\ \A d \in Conn : FramesOf(d)' /\ GoneOf(d)'
      /\ ~Early(conn) /\ ~Early(conn)' /\ ConnOf(conn)
  BY <1>1, FrameIsLast, FramesDiffer
<1>3. Len(up'[conn]) <= MaxFlight /\ MaxFlight \in Nat
  BY <1>1, <1>2, FlightAssumption
<1>4. NetType'
  <2>1. ASSUME NEW d \in Conn  PROVE Len(up'[d]) <= MaxFlight + 1
    <3>1. Len(up[d]) \in Nat /\ Len(up[d]) <= MaxFlight + 1
      BY DEF NetType
    <3> QED
      BY <1>2, <1>3, <3>1
  <2> QED
    BY <1>1, <1>2, <2>1 DEF NetType, SendsFrame
<1>5. RunInv'
  BY <1>1 DEF RunInv, GoodbyeIsHeard, SendsFrame
<1>6. ASSUME NEW c \in Conn, conn = c  PROVE ConnOf(c)'
  <2>1. ConnOf(c) /\ ~Early(c)' /\ StreamInv(c)
    BY <1>1, <1>2, <1>6 DEF ConnOf, SendsFrame, Early
  <2>2. StreamInv(c)'
    BY <1>1, <2>1 DEF StreamInv, SendsFrame
  <2> QED
    BY <1>1, <1>2, <1>3, <1>6, <2>1, <2>2 DEF ConnOf, HelloOf, SendsFrame
<1>7. \A c \in Conn : conn # c => ConnOf(c)'
  BY <1>1 DEF ConnOf, SendsFrame
<1> QED
  BY <1>1, <1>2, <1>4, <1>5, <1>6, <1>7 DEF LinkInv, SendsFrame

(* The bye is sent, if there is a connection to send it on. *)
LEMMA SaysByeKeeps ==
  ASSUME ConversationInv, SaysBye
  PROVE  NetType' /\ RunInv' /\ LinkInv' /\ marred' = marred
<1> USE DEF ConversationInv
<1>1. /\ run = "streaming" /\ meeting \in {"awaiting", "joining"}
      /\ run' = "goodbye" /\ said' = TRUE
      /\ conn' = conn /\ broken' = broken /\ down' = down
      /\ drops' = drops /\ marred' = marred
      /\ at' = at /\ sid' = sid /\ closes' = closes /\ client' = client
      /\ me' = me /\ meeting' = meeting /\ heard' = heard
      /\ up' = IF broken THEN up ELSE [up EXCEPT ![conn] = Append(@, ByeFrame)]
  BY DEF SaysBye, stopping, ByeSent, vars
<1>2. conn \in Conn /\ ~heard
  BY <1>1 DEF NetType, RunInv
<1>3. RunInv'
  BY <1>1 DEF RunInv, GoodbyeIsHeard
<1>4. /\ up' \in [Conn -> Seq(Frame)]
      /\ \A d \in Conn : d # conn => up'[d] = up[d]
      /\ Len(up'[conn]) <= MaxFlight + 1
      /\ \A d \in Conn : FramesOf(d)' /\ GoneOf(d)'
      /\ ~Early(conn)' /\ ConnOf(conn)
  <2>0. FramesOf(conn) /\ GoneOf(conn) /\ ConnOf(conn)
    BY <1>2 DEF LinkInv
  <2>1. CASE broken
    <3>1. up' = up
      BY <1>1, <2>1
    <3>2. \A d \in Conn : /\ Early(d)' <=> Early(d)
                          /\ Gone(d)' <=> Gone(d)
                          /\ \A id \in Id : HelloOf(d, id)' <=> HelloOf(d, id)
      BY <1>1, <3>1 DEF Early, HelloOf, Gone
    <3>3. \A d \in Conn : FramesOf(d)' /\ GoneOf(d)'
      <4> SUFFICES ASSUME NEW d \in Conn  PROVE FramesOf(d)' /\ GoneOf(d)'
        OBVIOUS
      <4>1. FramesOf(d) /\ GoneOf(d)
        BY DEF LinkInv
      <4> QED
        BY <1>1, <3>1, <3>2, <4>1 DEF FramesOf, GoneOf
    <3>4. ~Early(conn)
      BY <1>1, <1>2, <2>0 DEF ConnOf
    <3>5. ~Early(conn)'
      BY <1>1, <3>4 DEF Early
    <3> QED
      BY <1>2, <2>0, <3>1, <3>3, <3>5 DEF NetType
  <2>2. CASE ~broken
    <3>1. SendsFrame(ByeFrame)
      BY <1>1, <2>2 DEF SendsFrame
    <3>2. /\ up' \in [Conn -> Seq(Frame)]
          /\ Len(up[conn]) \in Nat /\ Len(up'[conn]) = Len(up[conn]) + 1
          /\ \A d \in Conn : d # conn => up'[d] = up[d]
          /\ \A d \in Conn : FramesOf(d)' /\ GoneOf(d)'
          /\ ~Early(conn)'
      BY <1>1, <2>2, <3>1, FrameIsLast
    <3>3. Len(up[conn]) <= MaxFlight
      BY <1>1, <1>2, <2>0 DEF ConnOf
    <3> QED
      BY <2>0, <3>2, <3>3, FlightAssumption
  <2> QED
    BY <2>1, <2>2
<1>5. NetType'
  <2>1. ASSUME NEW d \in Conn  PROVE Len(up'[d]) <= MaxFlight + 1
    BY <1>4 DEF NetType
  <2> QED
    BY <1>1, <1>2, <1>4, <2>1 DEF NetType
<1>6. ASSUME NEW c \in Conn, conn = c  PROVE ConnOf(c)'
  <2>1. ConnOf(c) /\ ~Early(c)'
    BY <1>1, <1>4, <1>6 DEF ConnOf, Early
  <2>2. ASSUME ~broken  PROVE ByeInv(c)'
    <3>1. StreamInv(c)
      BY <1>1, <1>6, <2>1, <2>2 DEF ConnOf
    <3> QED
      BY <1>1, <1>2, <3>1 DEF StreamInv, ByeInv
  <2> QED
    BY <1>1, <1>6, <2>1, <2>2 DEF ConnOf, HelloOf
<1>7. \A c \in Conn : conn # c => ConnOf(c)'
  BY <1>1 DEF ConnOf
<1> QED
  BY <1>1, <1>3, <1>4, <1>5, <1>6, <1>7 DEF LinkInv

(* The answer to the bye is heard. *)
LEMMA HearsClosingKeeps ==
  ASSUME ConversationInv, HearsClosing
  PROVE  NetType' /\ RunInv' /\ LinkInv' /\ marred' = marred
<1> USE DEF ConversationInv
<1>1. /\ run = "goodbye" /\ down # <<>> /\ Head(down) = "closing"
      /\ run' = run /\ down' = Tail(down) /\ heard' = TRUE
      /\ conn' = conn /\ broken' = broken /\ up' = up
      /\ drops' = drops /\ marred' = marred
      /\ at' = at /\ sid' = sid /\ closes' = closes /\ client' = client
      /\ me' = me /\ meeting' = meeting /\ said' = said
  BY DEF HearsClosing, Hears_, vars
<1>2. conn \in Conn /\ ~broken
  BY <1>1 DEF NetType
<1>3. ConnOf(conn)
  BY <1>2 DEF LinkInv
<1>4. ByeInv(conn)
  BY <1>1, <1>2, <1>3 DEF ConnOf
<1>5. down = <<"closing", "close">>
      /\ at[conn] \in {"leaving", "finishing", "done"}
  <2>1. down # <<"close">>
    BY <1>1
  <2> QED
    BY <1>1, <1>4, <2>1 DEF ByeInv
<1>6. down' = <<"close">>
  BY <1>1, <1>5
<1>7. NetType'
  BY <1>1, <1>2 DEF NetType
<1>8. RunInv'
  BY <1>1 DEF RunInv, GoodbyeIsHeard
<1>9. ASSUME NEW c \in Conn  PROVE FramesOf(c)' /\ GoneOf(c)' /\ ConnOf(c)'
  <2>1. FramesOf(c) /\ GoneOf(c) /\ ConnOf(c)
    BY DEF LinkInv
  <2>2. /\ Early(c)' <=> Early(c)
        /\ Gone(c)' <=> Gone(c)
        /\ \A id \in Id : HelloOf(c, id)' <=> HelloOf(c, id)
    BY <1>1 DEF Early, HelloOf, Gone
  <2>3. FramesOf(c)' /\ GoneOf(c)'
    BY <1>1, <2>1, <2>2 DEF FramesOf, GoneOf
  <2>4. ASSUME conn = c  PROVE ByeInv(c)'
    BY <1>1, <1>5, <1>6, <2>4 DEF ByeInv
  <2>5. ConnOf(c)'
    BY <1>1, <2>1, <2>2, <2>4 DEF ConnOf
  <2> QED
    BY <2>3, <2>5
<1> QED
  BY <1>1, <1>7, <1>8, <1>9 DEF LinkInv

(* The network breaks: what is left on its way is in a marred meeting's    *)
(* name.                                                                   *)
LEMMA DropsKeeps ==
  ASSUME ConversationInv, Drops
  PROVE  NetType' /\ RunInv' /\ LinkInv' /\ marred \subseteq marred'
<1> USE DEF ConversationInv
<1>1. /\ conn # NoConn /\ ~broken /\ drops < MaxDrops
      /\ drops' = drops + 1 /\ broken' = TRUE /\ down' = <<>>
      /\ marred' = marred \cup {me}
      /\ run' = run /\ conn' = conn
      /\ at' = at /\ sid' = sid /\ closes' = closes /\ client' = client
      /\ me' = me /\ meeting' = meeting /\ said' = said /\ heard' = heard
  BY DEF Drops, vars, talk
<1>2. conn \in Conn /\ up[conn] \in Seq(Frame)
  BY <1>1 DEF NetType
<1>3. PICK n \in 0 .. Len(up[conn]) :
        up' = [up EXCEPT ![conn] = SubSeq(up[conn], 1, n)]
  BY <1>2 DEF Drops, NetType
<1>4. /\ up'[conn] \in Seq(Frame) /\ Len(up'[conn]) = n
      /\ \A i \in 1 .. n :
           up'[conn][i] = up[conn][i] /\ i \in 1 .. Len(up[conn])
      /\ Len(up[conn]) \in Nat /\ n \in Nat /\ n <= Len(up[conn])
  <2>1. up'[conn] = SubSeq(up[conn], 1, n)
    BY <1>2, <1>3 DEF NetType
  <2>2. Len(up[conn]) \in Nat /\ n \in Nat /\ n <= Len(up[conn])
    BY <1>2
  <2> QED
    BY <1>2, <2>1, <2>2, FrontIs
<1>5. up' \in [Conn -> Seq(Frame)] /\ \A d \in Conn : d # conn => up'[d] = up[d]
  BY <1>2, <1>3, <1>4 DEF NetType
<1>6. NetType'
  <2>1. ASSUME NEW d \in Conn  PROVE Len(up'[d]) <= MaxFlight + 1
    <3>1. Len(up[d]) \in Nat /\ Len(up[d]) <= MaxFlight + 1 /\ MaxFlight \in Nat
      BY FlightAssumption DEF NetType
    <3> QED
      BY <1>4, <1>5, <3>1
  <2>2. drops' \in 0 .. MaxDrops
    BY <1>1, FlightAssumption DEF NetType
  <2> QED
    BY <1>1, <1>5, <2>1, <2>2 DEF NetType
<1>7. RunInv'
  BY <1>1 DEF RunInv, GoodbyeIsHeard
<1>8. ASSUME NEW d \in Conn, d # conn
      PROVE  FramesOf(d)' /\ GoneOf(d)' /\ ConnOf(d)'
  <2>1. FramesOf(d) /\ GoneOf(d) /\ up'[d] = up[d] /\ Gone(d) /\ Gone(d)'
    BY <1>1, <1>5, <1>8 DEF LinkInv, Gone
  <2>2. /\ Early(d)' <=> Early(d)
        /\ \A id \in Id : HelloOf(d, id)' <=> HelloOf(d, id)
    BY <1>1, <2>1 DEF Early, HelloOf
  <2>3. FramesOf(d)' /\ GoneOf(d)'
    BY <1>1, <2>1, <2>2 DEF FramesOf, GoneOf
  <2> QED
    BY <1>1, <1>8, <2>3 DEF ConnOf
<1>9. ASSUME NEW d \in Conn, d = conn
      PROVE  FramesOf(d)' /\ GoneOf(d)' /\ ConnOf(d)'
  <2>1. FramesOf(d) /\ ConnOf(d) /\ Gone(d)' /\ ~Gone(d)
    BY <1>1, <1>9 DEF LinkInv, Gone
  <2>2. /\ up'[d] \in Seq(Frame) /\ Len(up'[d]) = n
        /\ \A i \in 1 .. n : up'[d][i] = up[d][i] /\ i \in 1 .. Len(up[d])
        /\ Len(up[d]) \in Nat /\ n \in Nat /\ n <= Len(up[d])
    BY <1>4, <1>9
  <2>3. Early(d)' <=> Early(d)
    BY <1>1 DEF Early
  <2>4. \A id \in Id : HelloOf(d, id)' => HelloOf(d, id)
    <3> SUFFICES ASSUME NEW id \in Id, HelloOf(d, id)'  PROVE HelloOf(d, id)
      OBVIOUS
    <3>1. Early(d) /\ n > 0 /\ up'[d][1] = HelloFrame(id)
      BY <2>2, <2>3 DEF HelloOf
    <3>2. 1 \in 1 .. n
      BY <2>2, <3>1
    <3> QED
      BY <2>2, <3>1, <3>2 DEF HelloOf
  <2>5. ASSUME Early(d)
        PROVE  n = 0 \/ (n = 1 /\ \E id \in Id : up'[d][1] = HelloFrame(id))
    <3>1. CASE n = 0
      BY <3>1
    <3>2. CASE n # 0
      <4>1. Len(up[d]) = 1 /\ \E id \in Id : up[d][1] = HelloFrame(id)
        BY <2>1, <2>2, <2>5, <3>2 DEF FramesOf
      <4>2. n = 1 /\ 1 \in 1 .. n
        BY <2>2, <3>2, <4>1
      <4> QED
        BY <2>2, <4>1, <4>2
    <3> QED
      BY <3>1, <3>2
  <2>6. ASSUME ~Early(d)
        PROVE  \A i \in 1 .. n : up'[d][i] \in {AudioFrame, ByeFrame}
    BY <2>1, <2>2, <2>6 DEF FramesOf
  <2>7. client[d] # "left"
    BY <2>1 DEF FramesOf
  <2>8. FramesOf(d)'
    BY <1>1, <2>1, <2>2, <2>3, <2>5, <2>6, <2>7 DEF FramesOf
  <2>9. /\ sid[d] \in {NoId, me} /\ me \in marred'
        /\ \A id \in Id : HelloOf(d, id)' => id = me
    BY <1>1, <1>9, <2>1, <2>4 DEF ConnOf
  <2>10. GoneOf(d)'
    BY <1>1, <2>8, <2>9 DEF GoneOf, FramesOf
  <2>11. ASSUME run \in {"opening", "handshake", "streaming"}
         PROVE  /\ Len(up'[d]) <= MaxFlight
                /\ \A i \in 1 .. Len(up'[d]) : up'[d][i] # ByeFrame
    <3>1. /\ Len(up[d]) <= MaxFlight
          /\ \A i \in 1 .. Len(up[d]) : up[d][i] # ByeFrame
      BY <1>9, <2>1, <2>11 DEF ConnOf
    <3> QED
      BY <2>2, <3>1, FlightAssumption
  <2>12. ConnOf(d)'
    BY <1>1, <1>9, <2>1, <2>3, <2>9, <2>11 DEF ConnOf
  <2> QED
    BY <2>8, <2>10, <2>12
<1> QED
  BY <1>1, <1>6, <1>7, <1>8, <1>9 DEF LinkInv

-----------------------------------------------------------------------------
(* The server's part of the invariant.                                     *)

(* A server step of the conversation is a step of Meetings. *)
LEMMA ServerIsStep ==
  ASSUME NEW c \in Conn, ServerStep(c) \/ Notices(c)
  PROVE  Step(c)
BY DEF ServerStep, Notices, Step, Accepts, Refuses, ReadsHello, ReadsAudio,
       RaisesOnAudio, ReadsBye, Sends, FailsToSend, FindsGone, Finishes,
       Releases

(* The holder of the slot loses it without a release only when a send      *)
(* finds the client gone or a model raises.                                *)
LEMMA LeakStep ==
  ASSUME TypeOK, HandlerInv, LeakInv, NEW c \in Conn, Step(c),
         marred \subseteq marred',
         at[c] = "sending" /\ client[c] = "left" => sid[c] \in marred,
         AudioRaises(c) => sid[c] \in marred'
  PROVE  LeakInv'
<1> USE IdAssumption
    DEF TypeOK, HandlerInv, LeakInv, Held, handler, session, models
<1>1. CASE Connect(c)
  BY <1>1 DEF Connect
<1>2. CASE Leave(c)
  BY <1>2 DEF Leave
<1>3. CASE Hello(c)
  BY <1>3 DEF Hello, Hears, Responds
<1>4. CASE Fail(c)
  BY <1>4 DEF Fail, Hears, Responds, ClaimedAfterFailure
<1>5. CASE Audio(c)
  BY <1>5 DEF Audio, Hears, Responds
<1>6. CASE AudioRaises(c)
  BY <1>6 DEF AudioRaises, Hears, Leaves
<1>7. CASE Bye(c)
  BY <1>7 DEF Bye, Hears, Finalise, Responds
<1>8. CASE Accepted(c)
  BY <1>8 DEF Accepted, SlotTaken
<1>9. CASE Refuse(c)
  BY <1>9 DEF Refuse
<1>10. CASE Sent(c)
  BY <1>10 DEF Sent, Leaves, ReturnsClaim
<1>11. CASE SendRaises(c)
  BY <1>11 DEF SendRaises, Leaves
<1>12. CASE Disconnected(c)
  BY <1>12 DEF Disconnected, Leaves, ReturnsClaim
<1>13. CASE Finish(c)
  BY <1>13 DEF Finish, Finalise, Returns, Released
<1>14. CASE Release(c)
  BY <1>14 DEF Release, Returns, Released
<1>15. CASE Translate(c)
  BY <1>15 DEF Translate
<1> QED
  BY <1>1, <1>2, <1>3, <1>4, <1>5, <1>6, <1>7, <1>8, <1>9, <1>10, <1>11,
      <1>12, <1>13, <1>14, <1>15 DEF Step

(* A server step keeps all of the invariant. *)
LEMMA ServerKeeps ==
  ASSUME ConversationInv, NEW c \in Conn, ServerStep(c) \/ Notices(c)
  PROVE  ConversationInv'
<1>1. TypeOK /\ HandlerInv /\ SlotInv /\ LeakInv /\ Step(c)
  BY ServerIsStep DEF ConversationInv
<1>2. TypeOK' /\ HandlerInv' /\ SlotInv'
  BY <1>1, TypeStep, HandlerStep, SlotStep
<1>3. NetType' /\ RunInv' /\ LinkInv' /\ marred \subseteq marred'
  BY ServerKeepsLinks
<1>4. at[c] = "sending" /\ client[c] = "left" => sid[c] \in marred
  BY DEF ConversationInv, LinkInv, FramesOf, GoneOf
<1>5. ASSUME AudioRaises(c)  PROVE sid[c] \in marred'
  <2>1. at'[c] = "leaving" /\ at[c] = "receiving" /\ lost' = lost \cup {c}
        /\ c \in vad' /\ vad' = vad \cup {c}
    BY <1>1, <1>5 DEF AudioRaises, Hears, Leaves, TypeOK
  <2>2. RaisesOnAudio(c) \/ FindsGone(c)
    BY <2>1, <1>1
       DEF ServerStep, Notices, Accepts, Refuses, ReadsHello, ReadsAudio,
           ReadsBye, Sends, FailsToSend, Finishes, Releases, Accepted, Refuse,
           Hello, Hears, Responds, Audio, Bye, Sent, SendRaises, Finish,
           Release, Leave, handler, TypeOK
  <2>3. ~FindsGone(c)
    BY <1>5 DEF FindsGone, Disconnected, AudioRaises, Hears
  <2> QED
    BY <2>2, <2>3 DEF RaisesOnAudio
<1>6. LeakInv'
  BY <1>1, <1>3, <1>4, <1>5, LeakStep
<1> QED
  BY <1>2, <1>3, <1>6 DEF ConversationInv

(* A step that leaves the server alone keeps the server's part. *)
LEMMA VarsStay ==
  ASSUME TypeOK, HandlerInv, SlotInv, LeakInv, vars' = vars,
         marred \subseteq marred'
  PROVE  TypeOK' /\ HandlerInv' /\ SlotInv' /\ LeakInv'
<1>1. /\ client' = client /\ at' = at /\ state' = state /\ sid' = sid
      /\ claimed' = claimed /\ owns' = owns /\ closes' = closes
      /\ slot' = slot /\ vad' = vad /\ history' = history /\ busy' = busy
      /\ cut' = cut /\ lost' = lost /\ (raced' <=> raced)
  BY DEF vars
<1>2. TypeOK' /\ HandlerInv' /\ SlotInv'
  BY <1>1 DEF vars, TypeOK, HandlerInv, SlotInv, Awaiting
<1>3. LeakInv'
  BY <1>1 DEF LeakInv, Held
<1> QED
  BY <1>2, <1>3

(* A connection is opened, on a record no handler uses: nothing is on its  *)
(* way, and none of the others is the client's.                            *)
LEMMA OpensKeeps ==
  ASSUME ConversationInv, NEW c \in Conn, Opens(c)
  PROVE  ConversationInv'
<1> USE DEF ConversationInv
<1>1. /\ run = "top" /\ at[c] \in {"none", "done"}
      /\ run' = "opening" /\ conn' = c /\ broken' = FALSE
      /\ client' = [client EXCEPT ![c] = "here"]
      /\ at' = [at EXCEPT ![c] = "accepting"]
      /\ state' = [state EXCEPT ![c] = "awaiting_hello"]
      /\ vad' = vad \ {c} /\ lost' = lost \ {c}
      /\ up' = [up EXCEPT ![c] = <<>>]
      /\ sid' = sid /\ claimed' = claimed /\ owns' = owns /\ closes' = closes
      /\ slot' = slot /\ history' = history /\ busy' = busy /\ cut' = cut
      /\ (raced' <=> raced)
      /\ me' = me /\ meeting' = meeting /\ said' = said /\ heard' = heard
      /\ down' = down /\ drops' = drops /\ marred' = marred
  BY DEF Opens, Reusable, talk
<1>2. /\ conn = NoConn /\ broken = FALSE /\ down = <<>> /\ me \in Id
      /\ ~said /\ ~heard
  BY <1>1 DEF NetType, RunInv
<1>3. sid[c] = NoId /\ ~claimed[c] /\ ~owns[c] /\ ~closes[c]
  BY <1>1 DEF HandlerInv, TypeOK, LinkInv, FramesOf
<1>4. TypeOK'
  BY <1>1 DEF TypeOK, Place, Opens
<1>5. HandlerInv'
  BY <1>1, <1>3 DEF HandlerInv, TypeOK
<1>6. SlotInv'
  BY <1>1, <1>3 DEF SlotInv, Awaiting, TypeOK
<1>7. LeakInv'
  BY <1>1, <1>3 DEF LeakInv, Held, TypeOK
<1>8. /\ Len(up'[c]) = 0 /\ up' \in [Conn -> Seq(Frame)]
      /\ \A d \in Conn : d # c => up'[d] = up[d]
  BY <1>1 DEF NetType
<1>9. MaxFlight \in Nat /\ MaxFlight > 0
  BY FlightAssumption
<1>10. NetType'
  <2>1. ASSUME NEW d \in Conn  PROVE Len(up'[d]) <= MaxFlight + 1
    <3>1. Len(up[d]) <= MaxFlight + 1
      BY DEF NetType
    <3>2. CASE d = c
      <4>1. Len(up'[c]) = 0
        BY <1>8
      <4>2. 0 <= MaxFlight + 1
        BY <1>9
      <4> QED
        BY <3>2, <4>1, <4>2
    <3>3. CASE d # c
      BY <1>8, <3>1, <3>3
    <3> QED
      BY <3>2, <3>3
  <2>2. conn' # NoConn
    BY <1>1, NoConnAssumption
  <2> QED
    BY <1>1, <1>2, <1>8, <2>1, <2>2 DEF NetType
<1>11. RunInv'
  BY <1>1, <1>2 DEF RunInv, GoodbyeIsHeard
<1>12. ASSUME NEW d \in Conn, d # c
       PROVE  FramesOf(d)' /\ GoneOf(d)' /\ ConnOf(d)'
  <2>1. FramesOf(d) /\ GoneOf(d) /\ Gone(d) /\ Gone(d)'
    BY <1>1, <1>2, <1>12, NoConnAssumption DEF LinkInv, Gone
  <2>2. /\ at'[d] = at[d] /\ client'[d] = client[d] /\ up'[d] = up[d]
    BY <1>1, <1>8, <1>12 DEF TypeOK
  <2>3. /\ Early(d)' <=> Early(d)
        /\ \A id \in Id : HelloOf(d, id)' <=> HelloOf(d, id)
    BY <1>1, <2>2 DEF Early, HelloOf
  <2>4. FramesOf(d)' /\ GoneOf(d)'
    BY <1>1, <2>1, <2>2, <2>3 DEF FramesOf, GoneOf
  <2> QED
    BY <1>1, <1>12, <2>4 DEF ConnOf
<1>13. FramesOf(c)' /\ GoneOf(c)' /\ ConnOf(c)'
  <2>1. /\ at'[c] = "accepting" /\ client'[c] = "here" /\ Early(c)'
        /\ ~Gone(c)'
    BY <1>1 DEF TypeOK, Early, Gone
  <2>2. FramesOf(c)'
    BY <1>1, <1>2, <1>3, <1>8, <2>1 DEF FramesOf
  <2>3. \A id \in Id : ~HelloOf(c, id)'
    BY <1>8 DEF HelloOf
  <2>4. /\ Len(up'[c]) <= MaxFlight
        /\ \A i \in 1 .. Len(up'[c]) : up'[c][i] # ByeFrame
    BY <1>8, <1>9
  <2>5. OpeningInv(c)'
    BY <1>1, <1>2, <1>8, <2>1 DEF OpeningInv
  <2>6. ConnOf(c)'
    BY <1>1, <1>3, <2>1, <2>3, <2>4, <2>5 DEF ConnOf
  <2> QED
    BY <2>1, <2>2, <2>6 DEF GoneOf
<1>14. LinkInv'
  BY <1>12, <1>13 DEF LinkInv
<1> QED
  BY <1>4, <1>5, <1>6, <1>7, <1>10, <1>11, <1>14

(* The other steps of the client and those of the network leave the server *)
(* alone.                                                                  *)
LEMMA ClientKeeps ==
  ASSUME ConversationInv,
         \/ StopsAtTop \/ SaysHello \/ OpeningFails
         \/ Ready \/ Refused \/ ConnectionEnds
         \/ SaysBye \/ HearsClosing \/ GraceOver \/ BackoffEnds
         \/ SendsAudio \/ Listens \/ Stops \/ DeviceFails \/ JoinTimesOut
         \/ NewMeeting \/ Drops \/ Unreachable
  PROVE  ConversationInv'
<1>1. NetType' /\ RunInv' /\ LinkInv' /\ marred \subseteq marred'
  BY SaysHelloKeeps, OpeningFailsKeeps, ReadyKeeps, EndsKeep, SaysByeKeeps, HearsClosingKeeps, GivesUpKeeps,
     BetweenKeeps, SendsAudioKeeps, MeetingKeeps, DeviceFailsKeeps, DropsKeeps
<1>2. vars' = vars
  BY DEF StopsAtTop, SaysHello, OpeningFails, Ready, Refused, ConnectionEnds, SaysBye, HearsClosing,
         GraceOver, BackoffEnds, SendsAudio, Listens, Stops, DeviceFails,
         JoinTimesOut, NewMeeting, Drops, Unreachable, Hangs
<1> QED
  BY <1>1, <1>2, VarsStay DEF ConversationInv

(* At first there is no connection. *)
LEMMA InitKeeps == ConversationInit => ConversationInv
<1> SUFFICES ASSUME ConversationInit  PROVE ConversationInv
  OBVIOUS
<1> USE DEF ConversationInit
<1>1. me \in Id
  <2>1. Cardinality(Id) # 0
    BY OrderAssumption, FS_EmptySet
  <2>2. Cardinality(Id) \in Nat
    BY OrderAssumption, FS_CardinalityType
  <2>3. 1 \in 1 .. Cardinality(Id)
    BY <2>1, <2>2
  <2> QED
    BY <2>3, OrderAssumption
<1>2. TypeOK /\ HandlerInv /\ SlotInv
  BY IdAssumption DEF Init, TypeOK, Place, HandlerInv, SlotInv, Awaiting
<1>3. NetType
  <2>1. <<>> \in Seq(Frame) /\ Len(<<>>) = 0 /\ MaxFlight \in Nat
        /\ MaxDrops \in Nat
    BY FlightAssumption
  <2>2. up \in [Conn -> Seq(Frame)] /\ \A c \in Conn : up[c] = <<>>
    BY <2>1
  <2>3. \A c \in Conn : Len(up[c]) <= MaxFlight + 1
    BY <2>1, <2>2
  <2>4. drops \in 0 .. MaxDrops
    BY <2>1
  <2> QED
    BY <1>1, <2>2, <2>3, <2>4 DEF NetType
<1>4. RunInv
  BY DEF RunInv, GoodbyeIsHeard
<1>5. LeakInv
  BY DEF Init, LeakInv
<1>6. ASSUME NEW c \in Conn  PROVE FramesOf(c) /\ GoneOf(c) /\ ConnOf(c)
  BY NoConnAssumption
     DEF Init, FramesOf, GoneOf, ConnOf, Early, HelloOf, Gone
<1> QED
  BY <1>2, <1>3, <1>4, <1>5, <1>6 DEF ConversationInv, LinkInv

(* Every step of the conversation keeps the invariant. *)
LEMMA NextKeeps ==
  ASSUME ConversationInv, [ConversationNext]_all
  PROVE  ConversationInv'
<1>1. CASE ConversationNext
  BY <1>1, ServerKeeps, OpensKeeps, ClientKeeps
     DEF ConversationNext, ClientStep
<1>2. CASE UNCHANGED all
  <2>1. /\ run' = run /\ conn' = conn /\ (broken' <=> broken) /\ me' = me
        /\ meeting' = meeting /\ (said' <=> said) /\ (heard' <=> heard)
        /\ up' = up /\ down' = down /\ drops' = drops /\ marred' = marred
        /\ vars' = vars
    BY <1>2 DEF all, client_, talk, network
  <2>2. TypeOK' /\ HandlerInv' /\ SlotInv' /\ LeakInv'
    BY <2>1, VarsStay DEF ConversationInv
  <2>3. broken' = broken /\ said' = said /\ heard' = heard
    BY <1>2 DEF all, client_, talk
  <2>4. NetType'
    BY <2>1, <2>3 DEF ConversationInv, NetType
  <2>5. RunInv'
    BY <2>1, <2>3 DEF ConversationInv, RunInv, GoodbyeIsHeard
  <2>6. LinkInv'
    <3>1. /\ at' = at /\ sid' = sid /\ closes' = closes /\ client' = client
      BY <2>1 DEF vars
    <3>2. ASSUME NEW c \in Conn, conn = c  PROVE ConnOf(c)'
      BY <2>1, <2>3, <3>1, <3>2
         DEF ConversationInv, LinkInv, ConnOf, OpeningInv, HandshakeInv,
             StreamInv, ByeInv, HelloOf, Early
    <3> QED
      BY <2>1, <2>3, <2>4, <2>5, <3>1, <3>2, StaysKeeps
  <2> QED
    BY <2>2, <2>4, <2>5, <2>6 DEF ConversationInv
<1> QED
  BY <1>1, <1>2

(* Whatever the two machines and the network do, it holds. *)
LEMMA InvHolds == Conversation => []ConversationInv
<1>1. ConversationInit => ConversationInv
  BY InitKeeps
<1>2. ConversationInv /\ [ConversationNext]_all => ConversationInv'
  BY NextKeeps
<1> QED
  BY <1>1, <1>2, PTL DEF Conversation

-----------------------------------------------------------------------------
(* What is on its way to the client: at most that it is open, a ready, or  *)
(* an ending.                                                              *)
LEMMA DownIsShort ==
  ASSUME ConversationInv
  PROVE  down \in Seq(Message) /\ Len(down) <= 3
<1> DEFINE Known == {<<>>, <<"open">>, <<"open", "refusal", "close">>,
                     <<"ready">>, <<"refusal", "close">>, <<"close">>,
                     <<"closing", "close">>}
<1>1. down \in Known
  <2>1. CASE conn = NoConn \/ broken
    BY <2>1 DEF ConversationInv, NetType
  <2>2. CASE conn # NoConn /\ ~broken
    <3>1. conn \in Conn /\ run \in {"opening", "handshake", "streaming", "goodbye"}
      BY <2>2 DEF ConversationInv, NetType
    <3>2. ConnOf(conn)
      BY <3>1 DEF ConversationInv, LinkInv
    <3> QED
      BY <2>2, <3>1, <3>2
         DEF ConnOf, OpeningInv, HandshakeInv, StreamInv, ByeInv
  <2> QED
    BY <2>1, <2>2
<1>2. ASSUME NEW q \in Known  PROVE q \in Seq(Message) /\ Len(q) <= 3
  <2> USE DEF Message
  <2>1. CASE q = <<>>
    BY <2>1
  <2>2. CASE q = <<"ready">>
    BY <2>2
  <2>3. CASE q = <<"close">>
    BY <2>3
  <2>4. CASE q = <<"refusal", "close">>
    BY <2>4
  <2>5. CASE q = <<"closing", "close">>
    BY <2>5
  <2>6. CASE q = <<"open">>
    BY <2>6
  <2>7. CASE q = <<"open", "refusal", "close">>
    BY <2>7
  <2> QED
    BY <2>1, <2>2, <2>3, <2>4, <2>5, <2>6, <2>7
<1> QED
  BY <1>1, <1>2

(* The types of the two machines together, with what bounds the frames and *)
(* the messages on their way: no more frames than the client may send, and *)
(* no more messages than an ending has.                                    *)
THEOREM ConversationTypeCorrect == Conversation => []ConversationTypeOK
<1>1. ConversationInv => ConversationTypeOK
  BY DownIsShort DEF ConversationInv, NetType, ConversationTypeOK
<1> QED
  BY <1>1, InvHolds, PTL

(* A client that said bye ends with the server's answer, unless the meeting *)
(* was marred (_session's order of the sender, the bye and the receiver).  *)
THEOREM GoodbyeHeard == Conversation => []GoodbyeIsHeard
<1>1. ConversationInv => GoodbyeIsHeard
  BY DEF ConversationInv, RunInv
<1> QED
  BY <1>1, InvHolds, PTL

(* The slot of the server and the meeting of the client go together: a     *)
(* slot nobody will release was marred, and who streams has it, unless two *)
(* connections raced (stream() against run()).                             *)
THEOREM SlotFollows == Conversation => []SlotFollowsMeeting
<1>1. ConversationInv => SlotFollowsMeeting
  <2> SUFFICES ASSUME ConversationInv  PROVE SlotFollowsMeeting
    OBVIOUS
  <2>1. Leaked => slot \in marred
    BY DEF ConversationInv, LeakInv, Leaked
  <2>2. ASSUME run = "streaming", at[conn] \in {"receiving", "sending"}, ~raced
        PROVE  slot = me
    <3>1. conn \in Conn
      BY <2>2 DEF ConversationInv, NetType
    <3>2. FramesOf(conn) /\ ConnOf(conn)
      BY <3>1 DEF ConversationInv, LinkInv
    <3>3. sid[conn] \in {NoId, me} /\ ~Early(conn)
      BY <2>2, <3>1, <3>2 DEF ConnOf
    <3>4. sid[conn] # NoId
      BY <2>2, <3>2, <3>3 DEF FramesOf, Early
    <3> QED
      BY <2>2, <3>1, <3>3, <3>4 DEF ConversationInv, SlotInv
  <2> QED
    BY <2>1, <2>2 DEF SlotFollowsMeeting
<1> QED
  BY <1>1, InvHolds, PTL

=============================================================================
