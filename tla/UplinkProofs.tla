---------------------------- MODULE UplinkProofs ----------------------------
(* Theorems about Uplink, for queues of every size and any number of       *)
(* chunks and of connections.                                              *)
EXTENDS Uplink, FiniteSetTheorems, TLAPS

-----------------------------------------------------------------------------
(* What each operation on a queue does to the chunks it holds and to their *)
(* order.                                                                  *)
Ordered(q) == \A i, j \in 1 .. Len(q) : i < j => q[i] < q[j]
Before(S, T) == \A x \in S, y \in T : x < y

(* put *)
LEMMA Appended ==
  ASSUME NEW q \in Seq(Chunk), NEW x \in Chunk
  PROVE  /\ Append(q, x) \in Seq(Chunk)
         /\ Len(Append(q, x)) = Len(q) + 1
         /\ Elements(Append(q, x)) = Elements(q) \cup {x}
         /\ Ordered(q) /\ Before(Elements(q), {x}) => Ordered(Append(q, x))
<1> DEFINE p == Append(q, x)
<1>1. /\ p \in Seq(Chunk) /\ Len(p) = Len(q) + 1 /\ Len(q) \in Nat
      /\ p[Len(q) + 1] = x
      /\ \A i \in 1 .. Len(q) : p[i] = q[i]
  OBVIOUS
<1> HIDE DEF p
<1>2. Elements(p) = Elements(q) \cup {x}
  BY <1>1 DEF Elements
<1>3. ASSUME Ordered(q), Before(Elements(q), {x})  PROVE Ordered(p)
  BY <1>1, <1>3 DEF Ordered, Before, Elements
<1> QED
  BY <1>1, <1>2, <1>3 DEF p

(* get *)
LEMMA Taken ==
  ASSUME NEW q \in Seq(Chunk), q # <<>>
  PROVE  /\ Head(q) \in Chunk /\ Tail(q) \in Seq(Chunk)
         /\ Len(Tail(q)) = Len(q) - 1
         /\ Elements(q) = {Head(q)} \cup Elements(Tail(q))
         /\ Ordered(q) => /\ Ordered(Tail(q))
                          /\ Before({Head(q)}, Elements(Tail(q)))
<1> DEFINE p == Tail(q)
<1>1. /\ p \in Seq(Chunk) /\ Len(p) = Len(q) - 1 /\ Len(q) \in Nat \ {0}
      /\ Head(q) = q[1] /\ q[1] \in Chunk
      /\ \A i \in 1 .. Len(p) : p[i] = q[i + 1]
  OBVIOUS
<1> HIDE DEF p
<1>2. Elements(q) = {Head(q)} \cup Elements(p)
  <2>1. ASSUME NEW i \in 1 .. Len(q)
        PROVE  q[i] \in {Head(q)} \cup Elements(p)
    <3>1. CASE i = 1
      BY <1>1, <3>1
    <3>2. CASE i # 1
      <4>1. i - 1 \in 1 .. Len(p) /\ p[i - 1] = q[(i - 1) + 1]
        BY <1>1, <3>2
      <4>2. (i - 1) + 1 = i
        OBVIOUS
      <4> QED
        BY <4>1, <4>2 DEF Elements
    <3> QED
      BY <3>1, <3>2
  <2>2. ASSUME NEW i \in 1 .. Len(p)  PROVE p[i] \in Elements(q)
    BY <1>1, i + 1 \in 1 .. Len(q) DEF Elements
  <2>3. Head(q) \in Elements(q)
    BY <1>1, 1 \in 1 .. Len(q) DEF Elements
  <2> QED
    BY <2>1, <2>2, <2>3 DEF Elements
<1>3. ASSUME Ordered(q)  PROVE Ordered(p) /\ Before({Head(q)}, Elements(p))
  <2>1. ASSUME NEW i \in 1 .. Len(p), NEW j \in 1 .. Len(p), i < j
        PROVE  p[i] < p[j]
    BY <1>1, <1>3, <2>1, i + 1 \in 1 .. Len(q), j + 1 \in 1 .. Len(q)
      DEF Ordered
  <2>2. ASSUME NEW i \in 1 .. Len(p)  PROVE Head(q) < p[i]
    BY <1>1, <1>3, 1 \in 1 .. Len(q), i + 1 \in 1 .. Len(q) DEF Ordered
  <2> QED
    BY <2>1, <2>2 DEF Ordered, Before, Elements
<1> QED
  BY <1>1, <1>2, <1>3 DEF p

(* What is left of a sequence from its (k + 1)st element on. *)
LEMMA SubSeqFacts ==
  ASSUME NEW q \in Seq(Chunk), NEW k \in 0 .. Len(q)
  PROVE  /\ SubSeq(q, k + 1, Len(q)) \in Seq(Chunk)
         /\ Len(SubSeq(q, k + 1, Len(q))) = Len(q) - k
         /\ \A i \in 1 .. Len(q) - k :
              SubSeq(q, k + 1, Len(q))[i] = q[k + i]
<1>1. k + 1 \in 1 .. Len(q) + 1 /\ Len(q) \in 0 .. Len(q) /\ Len(q) \in Nat
  OBVIOUS
<1>2. \A i \in 1 .. Len(q) - k : (k + 1) + i - 1 = k + i
  BY <1>1
<1> QED
  BY <1>1, <1>2

(* The chunks m + 1 .. m + n join a queue, and the first k of a queue give *)
(* way.                                                                    *)
Flushed(q, m, n) == q \o [i \in 1 .. n |-> m + i]
Oldest(q, k) == {q[i] : i \in 1 .. k}
Rest(q, k)   == SubSeq(q, k + 1, Len(q))

(* What stop() flushes comes after what was recorded. *)
LEMMA AllAppended ==
  ASSUME NEW q \in Seq(Chunk), NEW m \in 0 .. MaxChunks, NEW n \in Nat,
         m + n <= MaxChunks, MaxChunks \in Nat
  PROVE  /\ Flushed(q, m, n) \in Seq(Chunk)
         /\ Elements(Flushed(q, m, n))
              = Elements(q) \cup ((m + 1) .. (m + n))
         /\ Ordered(q) /\ Before(Elements(q), (m + 1) .. (m + n))
              => Ordered(Flushed(q, m, n))
<1> DEFINE all == Flushed(q, m, n)
<1> USE DEF Flushed
<1> DEFINE new == [i \in 1 .. n |-> m + i]
<1>1. new \in Seq(Chunk) /\ Len(new) = n
  <2>1. \A i \in 1 .. n : m + i \in Chunk
    BY DEF Chunk
  <2> QED
    BY <2>1
<1>2. \A i \in 1 .. n : new[i] = m + i
  OBVIOUS
<1>3. all \in Seq(Chunk) /\ Len(all) = Len(q) + n /\ Len(q) \in Nat
  BY <1>1
<1>4. \A i \in 1 .. Len(q) : all[i] = q[i]
  BY <1>1
<1>5. \A i \in 1 .. n : all[Len(q) + i] = m + i
  BY <1>1, <1>2
<1> HIDE DEF new, all, Flushed
<1>6. Elements(all) = Elements(q) \cup ((m + 1) .. (m + n))
  <2>1. ASSUME NEW i \in 1 .. Len(all)
        PROVE  all[i] \in Elements(q) \cup ((m + 1) .. (m + n))
    <3>1. CASE i \in 1 .. Len(q)
      BY <1>4, <3>1 DEF Elements
    <3>2. CASE i \notin 1 .. Len(q)
      <4>1. i - Len(q) \in 1 .. n /\ Len(q) + (i - Len(q)) = i
        BY <1>3, <3>2
      <4>2. all[i] = m + (i - Len(q))
        <5>1. all[Len(q) + (i - Len(q))] = m + (i - Len(q))
          BY <1>5, <4>1
        <5> QED
          BY <4>1, <5>1
      <4> QED
        BY <1>3, <4>1, <4>2
    <3> QED
      BY <3>1, <3>2
  <2>2. ASSUME NEW i \in 1 .. Len(q)  PROVE q[i] \in Elements(all)
    BY <1>3, <1>4, i \in 1 .. Len(all) DEF Elements
  <2>3. ASSUME NEW x \in (m + 1) .. (m + n)  PROVE x \in Elements(all)
    <3>1. x - m \in 1 .. n /\ Len(q) + (x - m) \in 1 .. Len(all)
          /\ m + (x - m) = x
      BY <1>3
    <3> QED
      BY <1>5, <3>1 DEF Elements
  <2> QED
    BY <2>1, <2>2, <2>3 DEF Elements
<1>7. ASSUME Ordered(q), Before(Elements(q), (m + 1) .. (m + n))
       PROVE  Ordered(all)
  <2> SUFFICES ASSUME NEW i \in 1 .. Len(all), NEW j \in 1 .. Len(all), i < j
               PROVE  all[i] < all[j]
    BY DEF Ordered
  <2>1. CASE j \in 1 .. Len(q)
    <3>1. i \in 1 .. Len(q) /\ all[i] = q[i] /\ all[j] = q[j]
      BY <1>3, <1>4, <2>1
    <3> QED
      BY <1>7, <2>1, <3>1 DEF Ordered
  <2>2. CASE i \in 1 .. Len(q) /\ j \notin 1 .. Len(q)
    <3>1. j - Len(q) \in 1 .. n /\ Len(q) + (j - Len(q)) = j
      BY <1>3, <2>2
    <3>2. all[j] = m + (j - Len(q)) /\ all[i] = q[i]
      BY <1>4, <1>5, <2>2, <3>1
    <3>3. all[j] \in (m + 1) .. (m + n)
      BY <1>3, <3>1, <3>2
    <3>4. all[i] \in Elements(q)
      BY <2>2, <3>2 DEF Elements
    <3> QED
      BY <1>7, <3>3, <3>4 DEF Before
  <2>3. CASE i \notin 1 .. Len(q) /\ j \notin 1 .. Len(q)
    <3>1. /\ i - Len(q) \in 1 .. n /\ Len(q) + (i - Len(q)) = i
          /\ j - Len(q) \in 1 .. n /\ Len(q) + (j - Len(q)) = j
      BY <1>3, <2>3
    <3>2. all[j] = m + (j - Len(q)) /\ all[i] = m + (i - Len(q))
      BY <1>5, <3>1
    <3> QED
      BY <1>3, <3>2
  <2>4. i \notin 1 .. Len(q) => j \notin 1 .. Len(q)
    BY <1>3
  <2> QED
    BY <2>1, <2>2, <2>3, <2>4
<1> QED
  BY <1>3, <1>6, <1>7 DEF all

(* What a full queue drops is the oldest, and the rest stays in order. *)
LEMMA CutOff ==
  ASSUME NEW all \in Seq(Chunk), NEW k \in 0 .. Len(all)
  PROVE  /\ Rest(all, k) \in Seq(Chunk) /\ Len(Rest(all, k)) = Len(all) - k
         /\ Oldest(all, k) \subseteq Chunk
         /\ Elements(all) = Oldest(all, k) \cup Elements(Rest(all, k))
         /\ Ordered(all) => /\ Ordered(Rest(all, k))
                            /\ Before(Oldest(all, k), Elements(Rest(all, k)))
<1> DEFINE left == Rest(all, k)
           gone == Oldest(all, k)
<1>1. Len(all) \in Nat /\ k \in Nat /\ k <= Len(all)
  OBVIOUS
<1>2. left \in Seq(Chunk) /\ Len(left) = Len(all) - k
  BY SubSeqFacts DEF Rest
<1>3. \A i \in 1 .. Len(left) : left[i] = all[k + i]
  BY <1>2, SubSeqFacts DEF Rest
<1>7. gone = {all[i] : i \in 1 .. k}
  BY DEF Oldest
<1> HIDE DEF left, gone
<1>4. gone \subseteq Chunk
  <2>1. \A i \in 1 .. k : all[i] \in Chunk
    BY <1>1
  <2> QED
    BY <1>7, <2>1
<1>5. Elements(all) = gone \cup Elements(left)
  <2>1. ASSUME NEW i \in 1 .. Len(all)
        PROVE  all[i] \in gone \cup Elements(left)
    <3>1. CASE i > k
      <4>1. i - k \in 1 .. Len(left) /\ k + (i - k) = i
        BY <1>1, <1>2, <3>1
      <4> QED
        BY <1>3, <4>1 DEF Elements
    <3>2. CASE i <= k
      BY <1>1, <1>7, <3>2, i \in 1 .. k
    <3> QED
      BY <1>1, <3>1, <3>2
  <2>2. ASSUME NEW i \in 1 .. Len(left)  PROVE left[i] \in Elements(all)
    BY <1>1, <1>2, <1>3, k + i \in 1 .. Len(all) DEF Elements
  <2>3. ASSUME NEW i \in 1 .. k  PROVE all[i] \in Elements(all)
    BY <1>1 DEF Elements
  <2>4. Elements(all) \subseteq gone \cup Elements(left)
    BY <2>1 DEF Elements
  <2>5. Elements(left) \subseteq Elements(all)
    BY <2>2 DEF Elements
  <2>6. gone \subseteq Elements(all)
    BY <1>7, <2>3
  <2> QED
    BY <2>4, <2>5, <2>6
<1>6. ASSUME Ordered(all)
       PROVE  Ordered(left) /\ Before(gone, Elements(left))
  <2>1. ASSUME NEW i \in 1 .. Len(left), NEW j \in 1 .. Len(left), i < j
        PROVE  left[i] < left[j]
    BY <1>1, <1>2, <1>3, <1>6, <2>1, k + i \in 1 .. Len(all),
      k + j \in 1 .. Len(all), k + i < k + j DEF Ordered
  <2>2. ASSUME NEW i \in 1 .. k, NEW j \in 1 .. Len(left)
        PROVE  all[i] < left[j]
    BY <1>1, <1>2, <1>3, <1>6, i \in 1 .. Len(all),
      k + j \in 1 .. Len(all), i < k + j DEF Ordered
  <2>3. Before(gone, Elements(left))
    BY <1>7, <2>2 DEF Before, Elements
  <2>4. Ordered(left)
    BY <2>1 DEF Ordered
  <2> QED
    BY <2>3, <2>4
<1> QED
  BY <1>2, <1>4, <1>5, <1>6 DEF left, gone

-----------------------------------------------------------------------------
(* Where the tasks may be with what they hold. *)
StageInv ==
  /\ hand # None <=> sender = "sending"
  /\ read # None <=> meeting = "forwarding"
  /\ sender # "off" => run \in {"streaming", "goodbye", "teardown"}
  /\ callback # "idle" => captured # 0
  /\ callback = "put" => Len(recorded) < CaptureChunks

(* The chunks on their way, from the last one captured to those sent: the  *)
(* farther a chunk has come the older it is.                               *)
Held(x) == {x} \ {None}

InCallback == IF callback = "idle" THEN {} ELSE {captured}
InCapture  == Elements(recorded) \cup InCallback
InPump     == Held(read) \cup InCapture
InQueue    == Elements(queue) \cup InPump
InSender   == Held(hand) \cup InQueue
Flow       == Elements(sent) \cup InSender

OrderInv ==
  /\ Ordered(sent) /\ Ordered(queue) /\ Ordered(recorded)
  /\ Before(Elements(sent), InSender)
  /\ Before(Held(hand), InQueue)
  /\ Before(Elements(queue), InPump)
  /\ Before(Held(read), InCapture)
  /\ Before(Elements(recorded), InCallback)

(* Every chunk captured is on its way, dropped or lost. *)
AccountInv ==
  /\ Flow \cup dropped \cup lost = 1 .. captured
  /\ Flow \cap dropped = {} /\ Flow \cap lost = {} /\ dropped \cap lost = {}

(* A connection that has not lost its chunk yet may still lose one.        *)
AtRisk ==
  /\ run \in {"opening", "handshake", "streaming", "goodbye", "teardown"}
  /\ sender # "failed"

LossInv ==
  /\ Cardinality(lost) <= connects
  /\ AtRisk => Cardinality(lost) + 1 <= connects

(* The pump is over when stop() is called, and never ran for a meeting     *)
(* that gave up, so nothing joins a queue that was found empty.            *)
ByeInv ==
  /\ stopping => meeting \in {"joining", "awaiting", "over"}
  /\ meeting \in {"connecting", "givingUp", "awaiting"} => queue = <<>>
  /\ stopping /\ ~hurried => queue = <<>>
  /\ goodbye # "unsaid" => stopping

(* Every step keeps the types, and the queues to their sizes. *)
LEMMA TypeStep ==
  ASSUME TypeOK, StageInv, Next
  PROVE  TypeOK'
<1> USE QueueAssumption, BoundsAssumption DEF TypeOK, StageInv, None,
    control, tasks, capture, audio
<1>1. CASE Request
  BY <1>1 DEF Request
<1>2. CASE Listen
  BY <1>2 DEF Listen
<1>3. CASE GiveUp
  BY <1>3 DEF GiveUp
<1>4. CASE DeviceFails
  BY <1>4 DEF DeviceFails, Abandoned
<1>5. CASE CallbackPuts
  <2> USE <1>5 DEF CallbackPuts, control, tasks
  <2>3. captured + 1 \in Chunk /\ captured + 1 \in 0 .. MaxChunks
    BY DEF Chunk
  <2>1. CASE Len(recorded) < CaptureChunks
    <3>1. /\ Append(recorded, captured + 1) \in Seq(Chunk)
          /\ Len(Append(recorded, captured + 1)) = Len(recorded) + 1
      BY <2>3, Appended
    <3>2. recorded' = Append(recorded, captured + 1) /\ UNCHANGED callback
      BY <2>1
    <3>3. Len(recorded') <= CaptureChunks
      BY <2>1, <3>1, <3>2
    <3> QED
      BY <2>3, <3>1, <3>2, <3>3
  <2>2. CASE ~(Len(recorded) < CaptureChunks)
    <3>1. callback' = "room" /\ UNCHANGED recorded
      BY <2>2
    <3> QED
      BY <2>3, <3>1
  <2> QED
    BY <2>1, <2>2
<1>6. CASE CallbackMakesRoom
  <2> USE <1>6 DEF CallbackMakesRoom, control, tasks
  <2>1. dropped' \subseteq Chunk
    <3>1. Elements(recorded) \subseteq Chunk
      BY DEF Elements
    <3> QED
      BY <3>1
  <2>2. recorded' \in Seq(Chunk) /\ Len(recorded') <= CaptureChunks
    <3>1. CASE recorded = <<>>
      BY <3>1
    <3>2. CASE recorded # <<>>
      BY <3>2, Taken
    <3> QED
      BY <3>1, <3>2
  <2> QED
    BY <2>1, <2>2
<1>7. CASE CallbackPutsAgain
  <2> USE <1>7 DEF CallbackPutsAgain, control, tasks, audio
  <2>1. captured \in Chunk
    BY DEF Chunk
  <2>2. /\ Append(recorded, captured) \in Seq(Chunk)
        /\ Len(Append(recorded, captured)) = Len(recorded) + 1
    BY <2>1, Appended
  <2> QED
    BY <2>1, <2>2
<1>8. CASE PumpChecks
  BY <1>8 DEF PumpChecks
<1>9. CASE PumpReads
  BY <1>9 DEF PumpReads
<1>10. CASE PumpTimesOut
  BY <1>10 DEF PumpTimesOut
<1>11. CASE PumpSends
  <2> USE <1>11 DEF PumpSends
  <2>1. read \in Chunk
    OBVIOUS
  <2>2. /\ Kept \in Seq(Chunk) /\ Len(Kept) + 1 <= QueueChunks
        /\ Evicted \subseteq Chunk
    <3>1. CASE Full
      <4>1. queue # <<>> /\ Len(queue) = QueueChunks
        BY <3>1 DEF Full
      <4> QED
        BY <3>1, <4>1, Taken DEF Kept, Evicted
    <3>2. CASE ~Full
      BY <3>2 DEF Kept, Evicted, Full
    <3> QED
      BY <3>1, <3>2
  <2>3. queue' \in Seq(Chunk) /\ Len(queue') <= QueueChunks
    BY <2>1, <2>2, Appended
  <2> HIDE DEF Kept, Evicted
  <2> QED
    BY <2>2, <2>3
<1>12. CASE StopsCapture
  <2>1. PICK n \in 0 .. 2 :
          LET all    == recorded \o [i \in 1 .. n |-> captured + i]
              excess == IF Len(all) > CaptureChunks
                        THEN Len(all) - CaptureChunks ELSE 0
          IN /\ captured + n <= MaxChunks
             /\ captured' = captured + n
             /\ recorded' = SubSeq(all, excess + 1, Len(all))
             /\ dropped' = dropped \cup {all[i] : i \in 1 .. excess}
    BY <1>12 DEF StopsCapture
  <2> DEFINE all    == Flushed(recorded, captured, n)
             excess == IF Len(all) > CaptureChunks
                       THEN Len(all) - CaptureChunks ELSE 0
             gone   == Oldest(all, excess)
  <2>2. all \in Seq(Chunk)
    <3>1. n \in Nat /\ captured + n <= MaxChunks
      BY <2>1
    <3> HIDE DEF TypeOK
    <3>2. captured \in 0 .. MaxChunks /\ recorded \in Seq(Chunk)
      BY DEF TypeOK
    <3> QED
      BY <3>1, <3>2, AllAppended, BoundsAssumption
  <2> HIDE DEF all
  <2>3. excess \in 0 .. Len(all) /\ Len(all) - excess <= CaptureChunks
    BY <2>2
  <2> HIDE DEF excess
  <2>4. /\ recorded' = Rest(all, excess)
        /\ dropped' = dropped \cup gone
        /\ captured' \in 0 .. MaxChunks
    BY <2>1 DEF all, excess, Flushed, Oldest, Rest
  <2>5. /\ recorded' \in Seq(Chunk) /\ Len(recorded') = Len(all) - excess
        /\ gone \subseteq Chunk
    BY <2>2, <2>3, <2>4, CutOff
  <2> HIDE DEF gone
  <2>6. Len(recorded') <= CaptureChunks
    BY <2>3, <2>5
  <2>7. UNCHANGED <<requested, run, connects, link, connected, stopping, tasks,
                    callback, read, queue, hand, sent, lost, goodbye, hurried>>
        /\ meeting' = "draining"
    BY <1>12 DEF StopsCapture
  <2> QED
    BY <2>4, <2>5, <2>6, <2>7
<1>13. CASE Drain
  BY <1>13 DEF Drain, StopsClient, Drained
<1>14. CASE DrainDeadline
  BY <1>14 DEF DrainDeadline, StopsClient
<1>15. CASE StopUnheard
  <2> USE <1>15 DEF StopUnheard, StopsClient
  <2>1. UNCHANGED <<requested, run, connects, link, connected, sender,
      receiver, callback, recorded, read, queue, hand, captured, sent,
      dropped, lost, goodbye>>
    OBVIOUS
  <2>2. stopping' \in BOOLEAN /\ meeting' \in {"awaiting"} /\ hurried' \in BOOLEAN
    OBVIOUS
  <2> HIDE <1>15 DEF StopUnheard
  <2> QED
    BY <2>1, <2>2
<1>16. CASE Joined
  BY <1>16 DEF Joined
<1>17. CASE JoinTimesOut
  BY <1>17 DEF JoinTimesOut, Abandoned
<1>18. CASE Top
  BY <1>18 DEF Top
<1>19. CASE Opens
  BY <1>19 DEF Opens
<1>20. CASE Fails
  BY <1>20 DEF Fails, AfterSession
<1>21. CASE HandshakeFails
  BY <1>21 DEF HandshakeFails
<1>22. CASE Rejected
  <2> USE <1>22 DEF Rejected, AfterSession
  <2>1. UNCHANGED <<meeting, requested, connects, connected, stopping,
      sender, receiver, callback, recorded, read, queue, hand, captured,
      sent, dropped, lost, goodbye, hurried>>
    OBVIOUS
  <2>2. link' \in BOOLEAN /\ run' \in {"ended", "backoff"}
    OBVIOUS
  <2> HIDE <1>22 DEF Rejected
  <2> QED
    BY <2>1, <2>2
<1>23. CASE Ready
  BY <1>23 DEF Ready
<1>24. CASE OneEnded
  BY <1>24 DEF OneEnded, EitherEnded, SenderEnded, SaysBye
<1>25. CASE GraceEnds
  BY <1>25 DEF GraceEnds
<1>26. CASE Teardown
  <2> USE <1>26 DEF Teardown, AfterSession
  <2>1. sent' \in Seq(Chunk)
    <3>1. CASE sent' = Append(sent, hand) /\ hand # None
      BY <3>1, Appended
    <3> QED
      BY <3>1
  <2>2. lost' \subseteq Chunk
    OBVIOUS
  <2> QED
    BY <2>1, <2>2
<1>27. CASE BackoffEnds
  BY <1>27 DEF BackoffEnds
<1>28. CASE SenderChecks
  BY <1>28 DEF SenderChecks, control
<1>29. CASE SenderGets
  BY <1>29 DEF SenderGets, control
<1>30. CASE SenderTimesOut
  BY <1>30 DEF SenderTimesOut, control
<1>31. CASE SenderSends
  BY <1>31 DEF SenderSends, control
<1>32. CASE SenderFails
  BY <1>32 DEF SenderFails, control, NotPutBack
<1>33. CASE ReceiverEnds
  <2> USE <1>33 DEF ReceiverEnds, control
  <2>1. UNCHANGED <<meeting, requested, run, connects, link, connected,
      stopping, sender, callback, recorded, read, queue, hand, captured,
      sent, dropped, lost, goodbye, hurried>>
    OBVIOUS
  <2>2. receiver' \in BOOLEAN
    OBVIOUS
  <2> HIDE <1>33 DEF ReceiverEnds
  <2> QED
    BY <2>1, <2>2
<1>34. CASE HangUp
  <2> USE <1>34 DEF HangUp
  <2>1. UNCHANGED <<meeting, requested, run, connects, connected, stopping,
      sender, receiver, callback, recorded, read, queue, hand, captured,
      sent, dropped, lost, goodbye, hurried>>
    OBVIOUS
  <2>2. link' \in BOOLEAN
    OBVIOUS
  <2> HIDE <1>34 DEF HangUp
  <2> QED
    BY <2>1, <2>2
<1>35. CASE ByeAnswered
  <2> USE <1>35 DEF ByeAnswered
  <2>1. UNCHANGED <<meeting, requested, run, connects, connected, stopping,
      sender, receiver, callback, recorded, read, queue, hand, captured,
      sent, dropped, lost, hurried>>
    OBVIOUS
  <2>2. link' \in BOOLEAN /\ goodbye' \in {"answered"}
    OBVIOUS
  <2> HIDE <1>35 DEF ByeAnswered
  <2> QED
    BY <2>1, <2>2
<1> QED
  BY <1>1, <1>2, <1>3, <1>4, <1>5, <1>6, <1>7, <1>8, <1>9, <1>10, <1>11,
      <1>12, <1>13, <1>14, <1>15, <1>16, <1>17, <1>18, <1>19, <1>20,
      <1>21, <1>22, <1>23, <1>24, <1>25, <1>26, <1>27, <1>28, <1>29,
      <1>30, <1>31, <1>32, <1>33, <1>34, <1>35 DEF Next

(* Every step keeps the tasks and what they hold together. *)
LEMMA StageStep ==
  ASSUME TypeOK, StageInv, Next
  PROVE  StageInv'
<1> USE QueueAssumption, BoundsAssumption DEF TypeOK, StageInv, Chunk, None,
    control, tasks, capture, audio
<1>1. CASE Request
  BY <1>1 DEF Request
<1>2. CASE Listen
  BY <1>2 DEF Listen
<1>3. CASE GiveUp
  BY <1>3 DEF GiveUp
<1>4. CASE DeviceFails
  BY <1>4 DEF DeviceFails, Abandoned
<1>5. CASE CallbackPuts
  BY <1>5 DEF CallbackPuts, Recording, control, tasks
<1>6. CASE CallbackMakesRoom
  BY <1>6 DEF CallbackMakesRoom, control, tasks
<1>7. CASE CallbackPutsAgain
  BY <1>7 DEF CallbackPutsAgain, control, tasks, audio
<1>8. CASE PumpChecks
  BY <1>8 DEF PumpChecks
<1>9. CASE PumpReads
  BY <1>9 DEF PumpReads
<1>10. CASE PumpTimesOut
  BY <1>10 DEF PumpTimesOut
<1>11. CASE PumpSends
  BY <1>11 DEF PumpSends, Kept, Evicted, Full
<1>12. CASE StopsCapture
  BY <1>12 DEF StopsCapture
<1>13. CASE Drain
  BY <1>13 DEF Drain, StopsClient, Drained
<1>14. CASE DrainDeadline
  BY <1>14 DEF DrainDeadline, StopsClient
<1>15. CASE StopUnheard
  BY <1>15 DEF StopUnheard, StopsClient
<1>16. CASE Joined
  BY <1>16 DEF Joined
<1>17. CASE JoinTimesOut
  BY <1>17 DEF JoinTimesOut, Abandoned
<1>18. CASE Top
  BY <1>18 DEF Top
<1>19. CASE Opens
  BY <1>19 DEF Opens
<1>20. CASE Fails
  BY <1>20 DEF Fails, AfterSession
<1>21. CASE HandshakeFails
  BY <1>21 DEF HandshakeFails
<1>22. CASE Rejected
  BY <1>22 DEF Rejected, AfterSession
<1>23. CASE Ready
  BY <1>23 DEF Ready
<1>24. CASE OneEnded
  BY <1>24 DEF OneEnded, EitherEnded, SenderEnded, SaysBye
<1>25. CASE GraceEnds
  BY <1>25 DEF GraceEnds
<1>26. CASE Teardown
  BY <1>26 DEF Teardown, AfterSession
<1>27. CASE BackoffEnds
  BY <1>27 DEF BackoffEnds
<1>28. CASE SenderChecks
  BY <1>28 DEF SenderChecks, control
<1>29. CASE SenderGets
  BY <1>29 DEF SenderGets, control
<1>30. CASE SenderTimesOut
  BY <1>30 DEF SenderTimesOut, control
<1>31. CASE SenderSends
  BY <1>31 DEF SenderSends, control
<1>32. CASE SenderFails
  BY <1>32 DEF SenderFails, control, NotPutBack
<1>33. CASE ReceiverEnds
  BY <1>33 DEF ReceiverEnds, control
<1>34. CASE HangUp
  BY <1>34 DEF HangUp
<1>35. CASE ByeAnswered
  BY <1>35 DEF ByeAnswered
<1> QED
  BY <1>1, <1>2, <1>3, <1>4, <1>5, <1>6, <1>7, <1>8, <1>9, <1>10, <1>11,
      <1>12, <1>13, <1>14, <1>15, <1>16, <1>17, <1>18, <1>19, <1>20,
      <1>21, <1>22, <1>23, <1>24, <1>25, <1>26, <1>27, <1>28, <1>29,
      <1>30, <1>31, <1>32, <1>33, <1>34, <1>35 DEF Next

(* Every step keeps the queue empty once stop() found it so. *)
LEMMA ByeStep ==
  ASSUME TypeOK, StageInv, ByeInv, Next
  PROVE  ByeInv'
<1> USE QueueAssumption, BoundsAssumption DEF TypeOK, StageInv, ByeInv,
    None, control, tasks, capture, audio
<1>1. CASE Request
  BY <1>1 DEF Request
<1>2. CASE Listen
  BY <1>2 DEF Listen
<1>3. CASE GiveUp
  BY <1>3 DEF GiveUp
<1>4. CASE DeviceFails
  BY <1>4 DEF DeviceFails, Abandoned
<1>5. CASE CallbackPuts
  BY <1>5 DEF CallbackPuts, Recording, control, tasks
<1>6. CASE CallbackMakesRoom
  BY <1>6 DEF CallbackMakesRoom, control, tasks
<1>7. CASE CallbackPutsAgain
  BY <1>7 DEF CallbackPutsAgain, control, tasks, audio
<1>8. CASE PumpChecks
  BY <1>8 DEF PumpChecks
<1>9. CASE PumpReads
  BY <1>9 DEF PumpReads
<1>10. CASE PumpTimesOut
  BY <1>10 DEF PumpTimesOut
<1>11. CASE PumpSends
  BY <1>11 DEF PumpSends, Kept, Evicted, Full
<1>12. CASE StopsCapture
  BY <1>12 DEF StopsCapture
<1>13. CASE Drain
  BY <1>13 DEF Drain, StopsClient, Drained
<1>14. CASE DrainDeadline
  BY <1>14 DEF DrainDeadline, StopsClient
<1>15. CASE StopUnheard
  BY <1>15 DEF StopUnheard, StopsClient
<1>16. CASE Joined
  BY <1>16 DEF Joined
<1>17. CASE JoinTimesOut
  BY <1>17 DEF JoinTimesOut, Abandoned
<1>18. CASE Top
  BY <1>18 DEF Top
<1>19. CASE Opens
  BY <1>19 DEF Opens
<1>20. CASE Fails
  BY <1>20 DEF Fails, AfterSession
<1>21. CASE HandshakeFails
  BY <1>21 DEF HandshakeFails
<1>22. CASE Rejected
  BY <1>22 DEF Rejected, AfterSession
<1>23. CASE Ready
  BY <1>23 DEF Ready
<1>24. CASE OneEnded
  BY <1>24 DEF OneEnded, EitherEnded, SenderEnded, SaysBye
<1>25. CASE GraceEnds
  BY <1>25 DEF GraceEnds
<1>26. CASE Teardown
  BY <1>26 DEF Teardown, AfterSession
<1>27. CASE BackoffEnds
  BY <1>27 DEF BackoffEnds
<1>28. CASE SenderChecks
  BY <1>28 DEF SenderChecks, control
<1>29. CASE SenderGets
  BY <1>29 DEF SenderGets, control
<1>30. CASE SenderTimesOut
  BY <1>30 DEF SenderTimesOut, control
<1>31. CASE SenderSends
  BY <1>31 DEF SenderSends, control
<1>32. CASE SenderFails
  BY <1>32 DEF SenderFails, control, NotPutBack
<1>33. CASE ReceiverEnds
  BY <1>33 DEF ReceiverEnds, control
<1>34. CASE HangUp
  BY <1>34 DEF HangUp
<1>35. CASE ByeAnswered
  BY <1>35 DEF ByeAnswered
<1> QED
  BY <1>1, <1>2, <1>3, <1>4, <1>5, <1>6, <1>7, <1>8, <1>9, <1>10, <1>11,
      <1>12, <1>13, <1>14, <1>15, <1>16, <1>17, <1>18, <1>19, <1>20,
      <1>21, <1>22, <1>23, <1>24, <1>25, <1>26, <1>27, <1>28, <1>29,
      <1>30, <1>31, <1>32, <1>33, <1>34, <1>35 DEF Next

(* One more chunk is lost. *)
LEMMA LostOne ==
  ASSUME NEW S \in SUBSET Chunk, NEW x \in Chunk
  PROVE  /\ Cardinality(S) \in Nat
         /\ Cardinality(S \cup {x}) \in Nat
         /\ Cardinality(S \cup {x}) <= Cardinality(S) + 1
<1>1. IsFiniteSet(S)
  <2>1. IsFiniteSet(Chunk)
    BY BoundsAssumption, FS_Interval DEF Chunk
  <2> QED
    BY <2>1, FS_Subset
<1>2. Cardinality(S) \in Nat
  BY <1>1, FS_CardinalityType
<1>3. \/ Cardinality(S \cup {x}) = Cardinality(S)
      \/ Cardinality(S \cup {x}) = Cardinality(S) + 1
  BY <1>1, FS_AddElement
<1> QED
  BY <1>2, <1>3

(* A step that loses a chunk takes its connection out of the risk. *)
LEMMA LossStep ==
  ASSUME TypeOK, StageInv, LossInv, Next
  PROVE  LossInv'
<1> USE DEF TypeOK, StageInv, LossInv, AtRisk, None, control, tasks,
    capture, audio
<1>1. CASE Request
  BY <1>1 DEF Request
<1>2. CASE Listen
  BY <1>2 DEF Listen
<1>3. CASE GiveUp
  BY <1>3 DEF GiveUp
<1>4. CASE DeviceFails
  BY <1>4, LostOne, BoundsAssumption DEF DeviceFails, Abandoned
<1>5. CASE CallbackPuts
  BY <1>5 DEF CallbackPuts, Recording, control, tasks
<1>6. CASE CallbackMakesRoom
  BY <1>6 DEF CallbackMakesRoom, control, tasks
<1>7. CASE CallbackPutsAgain
  BY <1>7 DEF CallbackPutsAgain, control, tasks, audio
<1>8. CASE PumpChecks
  BY <1>8 DEF PumpChecks
<1>9. CASE PumpReads
  BY <1>9 DEF PumpReads
<1>10. CASE PumpTimesOut
  BY <1>10 DEF PumpTimesOut
<1>11. CASE PumpSends
  BY <1>11 DEF PumpSends, Kept, Evicted, Full
<1>12. CASE StopsCapture
  BY <1>12 DEF StopsCapture
<1>13. CASE Drain
  BY <1>13 DEF Drain, StopsClient, Drained
<1>14. CASE DrainDeadline
  BY <1>14 DEF DrainDeadline, StopsClient
<1>15. CASE StopUnheard
  BY <1>15 DEF StopUnheard, StopsClient
<1>16. CASE Joined
  BY <1>16 DEF Joined
<1>17. CASE JoinTimesOut
  BY <1>17, LostOne, BoundsAssumption DEF JoinTimesOut, Abandoned
<1>18. CASE Top
  <2> USE <1>18 DEF Top
  <2>1. Cardinality(lost) \in Nat
    <3>1. IsFiniteSet(Chunk)
      BY BoundsAssumption, FS_Interval DEF Chunk
    <3> QED
      BY <3>1, FS_Subset, FS_CardinalityType
  <2> QED
    BY <2>1
<1>19. CASE Opens
  BY <1>19 DEF Opens
<1>20. CASE Fails
  BY <1>20 DEF Fails, AfterSession
<1>21. CASE HandshakeFails
  BY <1>21 DEF HandshakeFails
<1>22. CASE Rejected
  BY <1>22 DEF Rejected, AfterSession
<1>23. CASE Ready
  BY <1>23 DEF Ready
<1>24. CASE OneEnded
  BY <1>24 DEF OneEnded, EitherEnded, SenderEnded, SaysBye
<1>25. CASE GraceEnds
  BY <1>25 DEF GraceEnds
<1>26. CASE Teardown
  BY <1>26, LostOne, BoundsAssumption DEF Teardown, AfterSession
<1>27. CASE BackoffEnds
  BY <1>27 DEF BackoffEnds
<1>28. CASE SenderChecks
  BY <1>28 DEF SenderChecks, control
<1>29. CASE SenderGets
  BY <1>29 DEF SenderGets, control
<1>30. CASE SenderTimesOut
  BY <1>30 DEF SenderTimesOut, control
<1>31. CASE SenderSends
  BY <1>31 DEF SenderSends, control
<1>32. CASE SenderFails
  BY <1>32, LostOne, BoundsAssumption DEF SenderFails, control, NotPutBack
<1>33. CASE ReceiverEnds
  BY <1>33 DEF ReceiverEnds, control
<1>34. CASE HangUp
  BY <1>34 DEF HangUp
<1>35. CASE ByeAnswered
  BY <1>35 DEF ByeAnswered
<1> QED
  BY <1>1, <1>2, <1>3, <1>4, <1>5, <1>6, <1>7, <1>8, <1>9, <1>10, <1>11,
      <1>12, <1>13, <1>14, <1>15, <1>16, <1>17, <1>18, <1>19, <1>20,
      <1>21, <1>22, <1>23, <1>24, <1>25, <1>26, <1>27, <1>28, <1>29,
      <1>30, <1>31, <1>32, <1>33, <1>34, <1>35 DEF Next

(* A step that touches no chunk. *)
QuietStep == UNCHANGED <<callback, recorded, read, queue, hand, captured, sent,
                         dropped, lost>>

(* Such a step keeps the flow. *)
LEMMA QuietFlow ==
  ASSUME OrderInv, AccountInv, QuietStep  PROVE OrderInv' /\ AccountInv'
BY DEF QuietStep, OrderInv, AccountInv, InCallback, InCapture, InPump,
    InQueue, InSender, Flow

(* The chunk being sent goes down with the connection. *)
LEMMA LostFlow ==
  ASSUME OrderInv, AccountInv,
         UNCHANGED <<callback, recorded, read, queue, captured, sent, dropped>>,
         Held(hand') = {}, lost' = lost \cup Held(hand)
  PROVE  OrderInv' /\ AccountInv'
<1>1. OrderInv'
  BY DEF OrderInv, Before, InCallback, InCapture, InPump, InQueue, InSender,
      Flow
<1>2. AccountInv'
  BY DEF AccountInv, OrderInv, Before, InCallback, InCapture, InPump,
      InQueue, InSender, Flow
<1> QED
  BY <1>1, <1>2

(* The chunk being sent is sent. *)
LEMMA SentFlow ==
  ASSUME TypeOK, OrderInv, AccountInv,
         UNCHANGED <<callback, recorded, read, queue, captured, dropped, lost>>,
         hand \in Chunk, Held(hand') = {}, sent' = Append(sent, hand)
  PROVE  OrderInv' /\ AccountInv'
<1>1. /\ Elements(sent') = Elements(sent) \cup {hand}
      /\ Ordered(sent) /\ Before(Elements(sent), {hand}) => Ordered(sent')
  BY Appended DEF TypeOK
<1>2. Held(hand) = {hand}
  BY DEF Held, None, Chunk
<1>3. OrderInv'
  BY <1>1, <1>2 DEF OrderInv, Before, InCallback, InCapture, InPump,
      InQueue, InSender, Flow
<1>4. AccountInv'
  BY <1>1, <1>2 DEF AccountInv, OrderInv, Before, InCallback, InCapture,
      InPump, InQueue, InSender, Flow
<1> QED
  BY <1>3, <1>4

(* Every step that moves a chunk moves the oldest of where it was to the *)
(* newest of where it goes.                                              *)
LEMMA FlowStep ==
  ASSUME TypeOK, StageInv, OrderInv, AccountInv, Next
  PROVE  OrderInv' /\ AccountInv'
<1> USE QueueAssumption, BoundsAssumption DEF TypeOK, StageInv, None,
    control, tasks, capture, audio
<1>1. CASE Request
  BY <1>1, QuietFlow DEF Request, QuietStep
<1>2. CASE Listen
  BY <1>2, QuietFlow DEF Listen, QuietStep
<1>3. CASE GiveUp
  BY <1>3, QuietFlow DEF GiveUp, QuietStep
<1>4. CASE DeviceFails
  <2> USE <1>4 DEF DeviceFails, Abandoned
  <2>1. Held(hand') = {} /\ lost' = lost \cup Held(hand)
    BY DEF Held, Chunk
  <2>2. UNCHANGED <<callback, recorded, read, queue, captured, sent, dropped>>
    OBVIOUS
  <2> QED
    BY <2>1, <2>2, LostFlow
<1>5. CASE CallbackPuts
  <2> USE <1>5 DEF CallbackPuts
  <2>1. /\ captured' = captured + 1 /\ captured \in Nat
        /\ UNCHANGED <<read, queue, hand, sent, dropped, lost>>
        /\ callback = "idle"
    OBVIOUS
  <2>2. CASE Len(recorded) < CaptureChunks
    <3>1. recorded' = Append(recorded, captured + 1)
      BY <2>2
    <3>3. callback' = "idle"
      BY <2>2
    <3>2. /\ Elements(recorded') = Elements(recorded) \cup {captured + 1}
          /\ Ordered(recorded) /\ Before(Elements(recorded), {captured + 1})
               => Ordered(recorded')
      BY <3>1, Appended
    <3> HIDE DEF TypeOK, StageInv
    <3> HIDE <1>5
    <3>8. OrderInv'
      BY <2>1, <3>2, <3>3 DEF OrderInv, AccountInv, Before, InCallback,
          InCapture, InPump, InQueue, InSender, Flow, Held, None
    <3>9. AccountInv'
      BY <2>1, <3>2, <3>3 DEF AccountInv, OrderInv, AccountInv, Before,
          InCallback, InCapture, InPump, InQueue, InSender, Flow, Held, None
    <3> QED
      BY <3>8, <3>9
  <2>3. CASE ~(Len(recorded) < CaptureChunks)
    <3>1. callback' = "room" /\ recorded' = recorded
      BY <2>3
    <3> HIDE DEF TypeOK, StageInv
    <3> HIDE <1>5
    <3>8. OrderInv'
      BY <2>1, <3>1 DEF OrderInv, AccountInv, Before, InCallback, InCapture,
          InPump, InQueue, InSender, Flow, Held, None
    <3>9. AccountInv'
      BY <2>1, <3>1 DEF AccountInv, OrderInv, AccountInv, Before,
          InCallback, InCapture, InPump, InQueue, InSender, Flow, Held, None
    <3> QED
      BY <3>8, <3>9
  <2> QED
    BY <2>2, <2>3
<1>6. CASE CallbackMakesRoom
  <2> USE <1>6 DEF CallbackMakesRoom
  <2>1. /\ callback = "room" /\ callback' = "put"
        /\ dropped' = dropped \cup (Elements(recorded) \ Elements(recorded'))
        /\ UNCHANGED <<captured, read, queue, hand, sent, lost>>
    OBVIOUS
  <2>2. /\ Elements(recorded') \subseteq Elements(recorded)
        /\ Ordered(recorded) => Ordered(recorded')
    <3>1. CASE recorded = <<>>
      BY <3>1
    <3>2. CASE recorded # <<>>
      BY <3>2, Taken
    <3> QED
      BY <3>1, <3>2
  <2> HIDE DEF TypeOK, StageInv
  <2> HIDE <1>6
  <2>8. OrderInv'
    BY <2>1, <2>2 DEF OrderInv, Before, InCallback, InCapture, InPump,
        InQueue, InSender, Flow, Held, None
  <2>9. AccountInv'
    BY <2>1, <2>2 DEF AccountInv, OrderInv, Before, InCallback, InCapture,
        InPump, InQueue, InSender, Flow, Held, None
  <2> QED
    BY <2>8, <2>9
<1>7. CASE CallbackPutsAgain
  <2> USE <1>7 DEF CallbackPutsAgain
  <2>1. /\ callback = "put" /\ callback' = "idle"
        /\ recorded' = Append(recorded, captured)
        /\ UNCHANGED <<captured, read, queue, hand, sent, dropped, lost>>
    BY DEF audio
  <2>2. captured \in Chunk /\ recorded \in Seq(Chunk)
    BY DEF Chunk
  <2> HIDE <1>7 DEF TypeOK, StageInv
  <2>3. /\ Elements(recorded') = Elements(recorded) \cup {captured}
        /\ Ordered(recorded) /\ Before(Elements(recorded), {captured})
             => Ordered(recorded')
    BY <2>1, <2>2, Appended
  <2> HIDE DEF TypeOK, StageInv
  <2> HIDE <1>7
  <2>8. OrderInv'
    BY <2>1, <2>2, <2>3 DEF OrderInv, Before, InCallback, InCapture, InPump,
        InQueue, InSender, Flow, Held, None
  <2>9. AccountInv'
    BY <2>1, <2>2, <2>3 DEF AccountInv, OrderInv, Before, InCallback,
        InCapture, InPump, InQueue, InSender, Flow, Held, None
  <2> QED
    BY <2>8, <2>9
<1>8. CASE PumpChecks
  BY <1>8, QuietFlow DEF PumpChecks, QuietStep
<1>9. CASE PumpReads
  <2> USE <1>9 DEF PumpReads
  <2>1. /\ Elements(recorded) = {Head(recorded)} \cup Elements(Tail(recorded))
        /\ Ordered(recorded) => /\ Ordered(Tail(recorded))
                                /\ Before({Head(recorded)}, Elements(Tail(recorded)))
    BY Taken
  <2>2. Held(read) = {} /\ Held(read') = {Head(recorded)}
    BY Taken DEF Held, Chunk, None
  <2>3. /\ recorded' = Tail(recorded)
        /\ UNCHANGED <<callback, captured, queue, hand, sent, dropped, lost>>
    BY DEF audio
  <2> HIDE DEF TypeOK, StageInv
  <2> HIDE <1>9
  <2>8. OrderInv'
    BY <2>1, <2>2, <2>3 DEF OrderInv, Before, InCallback, InCapture, InPump,
        InQueue, InSender, Flow, Held, None
  <2>9. AccountInv'
    BY <2>1, <2>2, <2>3, ZenonT(60)
       DEF AccountInv, OrderInv, Before, InCallback,
        InCapture, InPump, InQueue, InSender, Flow, Held, None
  <2> QED
    BY <2>8, <2>9
<1>10. CASE PumpTimesOut
  BY <1>10, QuietFlow DEF PumpTimesOut, QuietStep
<1>11. CASE PumpSends
  <2> USE <1>11 DEF PumpSends
  <2>1. /\ UNCHANGED <<callback, captured, recorded, hand, sent, lost>>
        /\ dropped' = dropped \cup Evicted
    BY DEF capture
  <2>5. read \in Chunk /\ queue' = Append(Kept, read)
    OBVIOUS
  <2>2. Held(read) = {read} /\ Held(read') = {}
    BY DEF Held
  <2>3. /\ Kept \in Seq(Chunk)
        /\ Elements(queue) = Elements(Kept) \cup Evicted
        /\ Ordered(queue) => Ordered(Kept) /\ Before(Evicted, Elements(Kept))
    <3>1. CASE Full
      <4>1. queue # <<>>
        BY <3>1 DEF Full
      <4> QED
        BY <3>1, <4>1, Taken DEF Kept, Evicted
    <3>2. CASE ~Full
      BY <3>2 DEF Kept, Evicted, Before
    <3> QED
      BY <3>1, <3>2
  <2>4. /\ Elements(queue') = Elements(Kept) \cup {read}
        /\ Ordered(Kept) /\ Before(Elements(Kept), {read}) => Ordered(queue')
    <3> HIDE <1>11 DEF TypeOK, StageInv
    <3> QED
      BY <2>3, <2>5, Appended
  <2> HIDE DEF Kept, Evicted
  <2> HIDE DEF TypeOK, StageInv
  <2> HIDE <1>11
  <2>8. OrderInv'
    BY <2>1, <2>2, <2>3, <2>4, ZenonT(60)
       DEF OrderInv, Before, InCallback, InCapture,
        InPump, InQueue, InSender, Flow, Held, None
  <2>9. AccountInv'
    BY <2>1, <2>2, <2>3, <2>4 DEF AccountInv, OrderInv, Before, InCallback,
        InCapture, InPump, InQueue, InSender, Flow, Held, None
  <2> QED
    BY <2>8, <2>9
<1>12. CASE StopsCapture
  <2>1. PICK n \in 0 .. 2 :
          LET all    == recorded \o [i \in 1 .. n |-> captured + i]
              excess == IF Len(all) > CaptureChunks
                        THEN Len(all) - CaptureChunks ELSE 0
          IN /\ captured + n <= MaxChunks
             /\ captured' = captured + n
             /\ recorded' = SubSeq(all, excess + 1, Len(all))
             /\ dropped' = dropped \cup {all[i] : i \in 1 .. excess}
    BY <1>12 DEF StopsCapture
  <2> DEFINE all    == Flushed(recorded, captured, n)
             excess == IF Len(all) > CaptureChunks
                       THEN Len(all) - CaptureChunks ELSE 0
             gone   == Oldest(all, excess)
             new    == (captured + 1) .. (captured + n)
  <2>2. /\ all \in Seq(Chunk)
        /\ Elements(all) = Elements(recorded) \cup new
        /\ Ordered(recorded) /\ Before(Elements(recorded), new) => Ordered(all)
    <3>1. n \in Nat /\ captured + n <= MaxChunks
      BY <2>1
    <3>2. captured \in 0 .. MaxChunks /\ recorded \in Seq(Chunk)
      OBVIOUS
    <3>3. MaxChunks \in Nat
      BY BoundsAssumption
    <3> HIDE QueueAssumption, BoundsAssumption DEF TypeOK, StageInv
    <3> QED
      BY <3>1, <3>3, <3>2, AllAppended
  <2>3. /\ UNCHANGED <<read, queue, hand, sent, lost, callback>>
        /\ callback = "idle"
    BY <1>12 DEF StopsCapture
  <2>4. /\ captured \in Nat /\ captured' = captured + n /\ n \in Nat
        /\ dropped' = dropped \cup gone
        /\ recorded' = Rest(all, excess)
    BY <2>1 DEF Flushed, Oldest, Rest
  <2> HIDE DEF all, TypeOK, StageInv
  <2>5. excess \in 0 .. Len(all)
    BY <2>2
  <2> HIDE DEF excess
  <2>6. /\ Elements(all) = gone \cup Elements(recorded')
        /\ Ordered(all) => Ordered(recorded') /\ Before(gone, Elements(recorded'))
    <3>1. all \in Seq(Chunk) /\ recorded' = Rest(all, excess)
      BY <2>2, <2>4
    <3> QED
      BY <2>5, <3>1, CutOff
  <2> HIDE DEF gone
  <2>7. \A x \in new : x \in 1 .. captured' /\ x \notin 1 .. captured
    BY <2>4
  <2>10. \A x \in 1 .. captured' : x \in new \/ x \in 1 .. captured
    BY <2>4
  <2>11. Before(1 .. captured, new) /\ 1 .. captured \subseteq 1 .. captured'
    BY <2>4 DEF Before
  <2> HIDE DEF new
  <2> HIDE DEF TypeOK, StageInv
  <2> HIDE <1>12
  <2>8. OrderInv'
    BY <2>2, <2>3, <2>4, <2>6, <2>7, <2>10, <2>11, ZenonT(60)
       DEF OrderInv, AccountInv,
        Before, InCallback, InCapture, InPump, InQueue, InSender, Flow,
        Held, None
  <2>9. AccountInv'
    BY <2>2, <2>3, <2>4, <2>6, <2>7, <2>10, <2>11 DEF AccountInv, OrderInv,
        AccountInv, Before, InCallback, InCapture, InPump, InQueue,
        InSender, Flow, Held, None
  <2> QED
    BY <2>8, <2>9
<1>13. CASE Drain
  BY <1>13, QuietFlow DEF Drain, StopsClient, Drained, QuietStep
<1>14. CASE DrainDeadline
  BY <1>14, QuietFlow DEF DrainDeadline, StopsClient, QuietStep
<1>15. CASE StopUnheard
  BY <1>15, QuietFlow DEF StopUnheard, StopsClient, QuietStep
<1>16. CASE Joined
  BY <1>16, QuietFlow DEF Joined, QuietStep
<1>17. CASE JoinTimesOut
  <2> USE <1>17 DEF JoinTimesOut, Abandoned
  <2>1. Held(hand') = {} /\ lost' = lost \cup Held(hand)
    BY DEF Held, Chunk
  <2>2. UNCHANGED <<callback, recorded, read, queue, captured, sent, dropped>>
    OBVIOUS
  <2> QED
    BY <2>1, <2>2, LostFlow
<1>18. CASE Top
  BY <1>18, QuietFlow DEF Top, QuietStep
<1>19. CASE Opens
  BY <1>19, QuietFlow DEF Opens, QuietStep
<1>20. CASE Fails
  BY <1>20, QuietFlow DEF Fails, AfterSession, QuietStep
<1>21. CASE HandshakeFails
  BY <1>21, QuietFlow DEF HandshakeFails, QuietStep
<1>22. CASE Rejected
  BY <1>22, QuietFlow DEF Rejected, AfterSession, QuietStep
<1>23. CASE Ready
  BY <1>23, QuietFlow DEF Ready, QuietStep
<1>24. CASE OneEnded
  BY <1>24, QuietFlow DEF OneEnded, EitherEnded, SenderEnded, SaysBye,
      QuietStep
<1>25. CASE GraceEnds
  BY <1>25, QuietFlow DEF GraceEnds, QuietStep
<1>26. CASE Teardown
  <2> USE <1>26 DEF Teardown, AfterSession
  <2>1. Held(hand') = {}
    BY DEF Held
  <2>2. UNCHANGED <<callback, recorded, read, queue, captured, dropped>>
    BY DEF capture
  <2>3. CASE lost' = lost /\ hand # None /\ sent' = Append(sent, hand)
    <3>1. hand \in Chunk
      BY <2>3
    <3> QED
      BY <2>1, <2>2, <2>3, <3>1, SentFlow
  <2>4. CASE /\ lost' = (IF hand # None THEN lost \cup {hand} ELSE lost)
             /\ UNCHANGED sent
    <3>1. lost' = lost \cup Held(hand)
      BY <2>4 DEF Held
    <3> QED
      BY <2>1, <2>2, <2>4, <3>1, LostFlow
  <2> QED
    BY <2>3, <2>4
<1>27. CASE BackoffEnds
  BY <1>27, QuietFlow DEF BackoffEnds, QuietStep
<1>28. CASE SenderChecks
  BY <1>28, QuietFlow DEF SenderChecks, control, QuietStep
<1>29. CASE SenderGets
  <2> USE <1>29 DEF SenderGets
  <2>1. /\ UNCHANGED <<callback, captured, recorded, read, sent, dropped, lost>>
        /\ queue' = Tail(queue)
    OBVIOUS
  <2>2. /\ Elements(queue) = {Head(queue)} \cup Elements(Tail(queue))
        /\ Ordered(queue) => /\ Ordered(Tail(queue))
                             /\ Before({Head(queue)}, Elements(Tail(queue)))
    BY Taken
  <2>3. Held(hand) = {} /\ Held(hand') = {Head(queue)}
    BY Taken DEF Held, Chunk
  <2> HIDE DEF TypeOK, StageInv
  <2> HIDE <1>29
  <2>8. OrderInv'
    BY <2>1, <2>2, <2>3 DEF OrderInv, Before, InCallback, InCapture, InPump,
        InQueue, InSender, Flow, Held, None
  <2>9. AccountInv'
    BY <2>1, <2>2, <2>3, ZenonT(60)
       DEF AccountInv, OrderInv, Before, InCallback,
        InCapture, InPump, InQueue, InSender, Flow, Held, None
  <2> QED
    BY <2>8, <2>9
<1>30. CASE SenderTimesOut
  BY <1>30, QuietFlow DEF SenderTimesOut, control, QuietStep
<1>31. CASE SenderSends
  <2> USE <1>31 DEF SenderSends
  <2>1. Held(hand') = {} /\ sent' = Append(sent, hand) /\ hand \in Chunk
    BY DEF Held
  <2>2. UNCHANGED <<callback, recorded, read, queue, captured, dropped, lost>>
    BY DEF capture
  <2> QED
    BY <2>1, <2>2, SentFlow
<1>32. CASE SenderFails
  <2> USE <1>32 DEF SenderFails, control, NotPutBack
  <2>1. Held(hand') = {} /\ lost' = lost \cup Held(hand)
    BY DEF Held, Chunk
  <2>2. UNCHANGED <<callback, recorded, read, queue, captured, sent, dropped>>
    OBVIOUS
  <2> QED
    BY <2>1, <2>2, LostFlow
<1>33. CASE ReceiverEnds
  BY <1>33, QuietFlow DEF ReceiverEnds, control, QuietStep
<1>34. CASE HangUp
  BY <1>34, QuietFlow DEF HangUp, QuietStep
<1>35. CASE ByeAnswered
  BY <1>35, QuietFlow DEF ByeAnswered, QuietStep
<1> QED
  BY <1>1, <1>2, <1>3, <1>4, <1>5, <1>6, <1>7, <1>8, <1>9, <1>10, <1>11,
      <1>12, <1>13, <1>14, <1>15, <1>16, <1>17, <1>18, <1>19, <1>20,
      <1>21, <1>22, <1>23, <1>24, <1>25, <1>26, <1>27, <1>28, <1>29,
      <1>30, <1>31, <1>32, <1>33, <1>34, <1>35 DEF Next

-----------------------------------------------------------------------------
(* What the queues, the tasks and the connections keep together. *)
UplinkInv ==
  TypeOK /\ StageInv /\ OrderInv /\ AccountInv /\ LossInv /\ ByeInv

(* UplinkInv is inductive. *)
LEMMA UplinkInvAlways == Spec => []UplinkInv
<1>1. Init => UplinkInv
  <2> SUFFICES ASSUME Init PROVE UplinkInv
    OBVIOUS
  <2> USE QueueAssumption, BoundsAssumption DEF Init
  <2>1. TypeOK
    <3>1. 0 \in 0 .. MaxConnects /\ 0 \in 0 .. MaxChunks
      OBVIOUS
    <3>2. <<>> \in Seq(Chunk) /\ Len(<<>>) = 0
      OBVIOUS
    <3>3. 0 <= CaptureChunks /\ 0 <= QueueChunks
      OBVIOUS
    <3> QED
      BY <3>1, <3>2, <3>3 DEF TypeOK, None
  <2>2. StageInv /\ ByeInv
    BY DEF StageInv, ByeInv, None
  <2>3. Elements(queue) = {} /\ Elements(recorded) = {} /\ Elements(sent) = {}
    BY DEF Elements
  <2>4. OrderInv
    BY <2>3 DEF OrderInv, Ordered, Before, InCallback, InCapture, InPump,
      InQueue, InSender, Held, None
  <2>5. AccountInv
    BY <2>3 DEF AccountInv, InCallback, InCapture, InPump, InQueue, InSender,
      Flow, Held, None
  <2>6. LossInv
    BY FS_EmptySet DEF LossInv, AtRisk
  <2> QED
    BY <2>1, <2>2, <2>4, <2>5, <2>6 DEF UplinkInv
<1>2. UplinkInv /\ [Next]_vars => UplinkInv'
  <2>1. CASE Next
    BY <2>1, TypeStep, StageStep, FlowStep, LossStep, ByeStep DEF UplinkInv
  <2>2. CASE UNCHANGED vars
    <3>1. UplinkInv /\ UNCHANGED vars => QuietStep
      BY DEF vars, capture, QuietStep
    <3>2. UplinkInv => OrderInv' /\ AccountInv'
      BY <2>2, <3>1, QuietFlow DEF UplinkInv
    <3>3. UplinkInv => TypeOK' /\ StageInv' /\ LossInv' /\ ByeInv'
      BY <2>2 DEF UplinkInv, vars, capture, TypeOK, StageInv, LossInv, AtRisk,
        ByeInv
    <3> QED
      BY <3>2, <3>3 DEF UplinkInv
  <2> QED
    BY <2>1, <2>2
<1> QED
  BY <1>1, <1>2, PTL DEF Spec

(* The types, and with them the bounds of both queues: neither the capture *)
(* nor the client ever holds more audio than it was made for.              *)
THEOREM TypeCorrect == Spec => []TypeOK
<1>1. UplinkInv => TypeOK
  BY DEF UplinkInv
<1> QED
  BY <1>1, UplinkInvAlways, PTL

(* What is captured goes out in its order and once, or is accounted for:   *)
(* _send_loop(), send()'s eviction and the capture's callback never        *)
(* duplicate, reorder or mislay a chunk, and a connection costs one.       *)
THEOREM AudioIsAccountedFor == Spec => []AudioArrives
<1>1. ASSUME UplinkInv  PROVE AudioArrives
  <2>1. SentInOrder
    BY <1>1 DEF UplinkInv, OrderInv, Ordered, SentInOrder
  <2> DEFINE inHand == IF callback = "idle" THEN {} ELSE {captured}
             places == <<inHand, Elements(recorded), {read} \ {None},
                         Elements(queue), {hand} \ {None}, Elements(sent),
                         dropped, lost>>
  <2>2. Elements(places) = {inHand, Elements(recorded), {read} \ {None},
                            Elements(queue), {hand} \ {None}, Elements(sent),
                            dropped, lost}
    <3>1. Len(places) = 8
      OBVIOUS
    <3>2. 1 .. 8 = {1, 2, 3, 4, 5, 6, 7, 8}
      OBVIOUS
    <3>3. Elements(places) = {places[i] : i \in {1, 2, 3, 4, 5, 6, 7, 8}}
      BY <3>1, <3>2 DEF Elements
    <3> QED
      BY <3>3
  <2>3. /\ InCallback = inHand /\ Held(read) = {read} \ {None}
        /\ Held(hand) = {hand} \ {None}
    BY DEF InCallback, Held
  <2>4. UNION Elements(places) = Flow \cup dropped \cup lost
    <3>1. Flow = Elements(sent) \cup (Held(hand) \cup (Elements(queue) \cup
                   (Held(read) \cup (Elements(recorded) \cup InCallback))))
      BY DEF Flow, InSender, InQueue, InPump, InCapture
    <3>2. UNION {inHand, Elements(recorded), {read} \ {None},
                 Elements(queue), {hand} \ {None}, Elements(sent),
                 dropped, lost}
          = UNION {InCallback, Elements(recorded), Held(read),
                   Elements(queue), Held(hand), Elements(sent), dropped, lost}
      BY <2>3, Zenon
    <3> HIDE DEF places, inHand
    <3>3. UNION {InCallback, Elements(recorded), Held(read), Elements(queue),
                 Held(hand), Elements(sent), dropped, lost}
          = Flow \cup dropped \cup lost
      BY <3>1
    <3> QED
      BY <2>2, <3>2, <3>3, Zenon
  <2>5. UNION Elements(places) = 1 .. captured
    BY <1>1, <2>4 DEF UplinkInv, AccountInv
  <2>6. \A x \in 1 .. captured : ~(x < x)
    BY <1>1 DEF UplinkInv, TypeOK
  <2>7. \A i, j \in 1 .. Len(places) :
          i < j => places[i] \cap places[j] = {}
    <3>1. \A S, T : Before(S, T) /\ S \subseteq 1 .. captured => S \cap T = {}
      BY <2>6 DEF Before
    <3>2. Flow \subseteq 1 .. captured
      BY <1>1 DEF UplinkInv, AccountInv
    <3>3. /\ places[1] \cap places[2] = {}
          /\ (places[1] \cup places[2]) \cap places[3] = {}
          /\ (places[1] \cup places[2] \cup places[3]) \cap places[4] = {}
          /\ (places[1] \cup places[2] \cup places[3] \cup places[4])
               \cap places[5] = {}
          /\ (places[1] \cup places[2] \cup places[3] \cup places[4]
               \cup places[5]) \cap places[6] = {}
      BY <1>1, <2>3, <3>1, <3>2 DEF UplinkInv, OrderInv, InCallback,
          InCapture,
        InPump, InQueue, InSender, Flow
    <3>4. /\ places[1] \cup places[2] \cup places[3] \cup places[4]
               \cup places[5] \cup places[6] = Flow
          /\ Flow \cap places[7] = {}
          /\ Flow \cap places[8] = {} /\ places[7] \cap places[8] = {}
      BY <1>1, <2>3 DEF UplinkInv, AccountInv, InCapture, InPump, InQueue,
        InSender, Flow
    <3>5. Len(places) = 8
      OBVIOUS
    <3> HIDE DEF places
    <3>6. \A i, j \in 1 .. 8 : i < j => places[i] \cap places[j] = {}
      BY <3>3, <3>4
    <3> QED
      BY <3>5, <3>6
  <2>8. Cardinality(lost) <= connects
    BY <1>1 DEF UplinkInv, LossInv
  <2> QED
    BY <2>1, <2>5, <2>7, <2>8 DEF AudioArrives, AudioAccounted
<1>2. UplinkInv => AudioArrives
  BY <1>1
<1> QED
  BY <1>2, UplinkInvAlways, PTL

(* stop() gives "queued audio a chance to go out": a bye that no deadline  *)
(* hurried leaves an empty queue behind.                                   *)
THEOREM ByeComesLast == Spec => []GoodbyeAfterAudio
<1>1. UplinkInv => GoodbyeAfterAudio
  BY DEF UplinkInv, ByeInv, GoodbyeAfterAudio
<1> QED
  BY <1>1, UplinkInvAlways, PTL
=============================================================================
