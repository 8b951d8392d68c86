-------------------------- MODULE SegmentationProofs --------------------------
(* Theorems about Segmentation, for streams of every length, chunks of     *)
(* every size, and every limit of the segmenter, the buffer and the        *)
(* speaker change detector.                                                *)
EXTENDS Segmentation, SequenceTheorems, WellFoundedInduction, TLAPS

-----------------------------------------------------------------------------
(* The announced events, and what they say of the stream.                  *)

Event == [kind : {"speech_start", "speech_end"}, at : 0 .. MaxFrames]

StartAt(k) == [kind |-> "speech_start", at |-> k]
EndAt(k)   == [kind |-> "speech_end", at |-> k]

WithStart(E, k) == Append(E, StartAt(k))
WithEnd(E, k)   == Append(E, EndAt(k))

Starts(E, i) == E[i].kind = "speech_start"

(* Where the segment that event i starts ends, when n frames were heard. *)
Until(E, i, n) == IF i < Len(E) THEN E[i + 1].at ELSE n

(* The frames from a up to z are of one segment. *)
Within(E, n, a, z) ==
  \E i \in 1 .. Len(E) :
    Starts(E, i) /\ E[i].at <= a /\ z <= Until(E, i, n)

Spoken(E, n, k) == Within(E, n, k, k + 1)

(* A segment starts after a, and at z at the latest. *)
StartsBetween(E, a, z) ==
  \E i \in 1 .. Len(E) : Starts(E, i) /\ a < E[i].at /\ E[i].at <= z

(* Events in order, the last of them a start exactly while one is open. *)
EventsOK(E, n, on) ==
  /\ E \in Seq(Event)
  /\ on <=> E # <<>> /\ Starts(E, Len(E))
  /\ \A i \in 1 .. Len(E) : E[i].at <= n
  /\ \A i, j \in 1 .. Len(E) : i < j => E[i].at <= E[j].at

(* A position is what was announced, up to where frames were handed on,    *)
(* and whether a segment is open there.                                    *)
Position == [events : Seq(Event), heard : 0 .. MaxFrames, on : BOOLEAN]

HandedOnTo(E) == IF E = <<>> THEN 0 ELSE E[Len(E)].at

Place(E, n, on) ==
  [events |-> E, heard |-> IF on THEN n ELSE HandedOnTo(E), on |-> on]

-----------------------------------------------------------------------------
(* The segmenter between two frames.                                       *)

(* Before a segment the pre-roll is the newest frames since the last one,  *)
(* and the run counted is the speech they end with, all of it; in a        *)
(* segment it has at least the frames that opened it.                      *)
RunsOK(v) ==
  LET n == Len(v.classes)
  IN IF v.triggered
       THEN /\ v.silenceRun < MinSilence
            /\ v.preroll = <<>>
            /\ v.events[Len(v.events)].at + MinSpeech <= n
       ELSE /\ v.speechRun < MinSpeech /\ v.speechRun <= Len(v.preroll)
            /\ Len(v.preroll) <= n
            /\ v.preroll = Frames(n - Len(v.preroll), n)
            /\ \A i \in 1 .. Len(v.events) :
                 v.events[i].at + Len(v.preroll) <= n
            /\ \A i \in n - v.speechRun + 1 .. n : v.classes[i] = "speech"
            /\ v.speechRun < n => v.classes[n - v.speechRun] # "speech"

(* SpeechIsForwarded, of any classes and events. *)
OnsetsOK(C, E) ==
  \A k \in 1 .. Len(C) - MinSpeech + 1 :
    (\A i \in k .. k + MinSpeech - 1 : C[i] = "speech")
      => \A i \in k .. k + MinSpeech - 1 : Spoken(E, Len(C), i - 1)

-----------------------------------------------------------------------------
(* The buffer at a position.                                               *)

Buffer ==
  [pcm : Seq(FrameNumber), start : {NoStart} \cup 0 .. MaxFrames,
   continues : BOOLEAN, partialAt : 0 .. MaxFrames,
   partial : {None} \cup 0 .. MaxFrames, finals : Seq(Utterance)]

(* Each utterance is what it says, of one segment, after those before it.  *)
FinalOK(u, i) ==
  /\ u.index = i - 1
  /\ i - 1 <= u.start
  /\ u.pcm # <<>> /\ Len(u.pcm) <= MaxLen
  /\ u.pcm = Frames(u.start, End(u))

InOrder(F) == \A i, j \in 1 .. Len(F) : i < j => End(F[i]) <= F[j].start

(* What starts at `start` carries on utterance i - 1, cut for its length.  *)
CarriesOn(F, i, start, E) ==
  /\ i > 1
  /\ F[i - 1].reason = "max_duration"
  /\ End(F[i - 1]) = start
  /\ ~StartsBetween(E, F[i - 1].start, start)

FinalsOK(F, P) ==
  /\ \A i \in 1 .. Len(F) :
       /\ FinalOK(F[i], i)
       /\ Within(P.events, P.heard, F[i].start, End(F[i]))
       /\ F[i].continues <=> CarriesOn(F, i, F[i].start, P.events)
       /\ End(F[i]) <= P.heard
  /\ InOrder(F)
  /\ Len(F) <= P.heard

(* What is open is of the open segment, and lasts until now. *)
OpenOK(b, P) ==
  LET F == b.finals
  IN IF IsOpen(b)
       THEN /\ b.start + Len(b.pcm) = P.heard
            /\ b.pcm = Frames(b.start, P.heard)
            /\ P.events[Len(P.events)].at <= b.start
            /\ Len(F) <= b.start
            /\ \A i \in 1 .. Len(F) : End(F[i]) <= b.start
            /\ b.continues <=> CarriesOn(F, Len(F) + 1, b.start, P.events)
       ELSE b.pcm = <<>> /\ ~b.continues

Covered(b, k) ==
  \/ \E i \in 1 .. Len(b.finals) : Covers(b.finals[i], k)
  \/ IsOpen(b) /\ b.start <= k /\ k < b.start + Len(b.pcm)

BufferOK(b, P) ==
  /\ b \in Buffer /\ P \in Position
  /\ EventsOK(P.events, P.heard, P.on)
  /\ IsOpen(b) <=> P.on
  /\ FinalsOK(b.finals, P)
  /\ OpenOK(b, P)
  /\ \A k \in FrameNumber : Spoken(P.events, P.heard, k) <=> Covered(b, k)

-----------------------------------------------------------------------------
(* The spans the segmenter hands the buffer, and the positions they lead   *)
(* to.                                                                     *)

Span == [pcm : Seq(FrameNumber), start : 0 .. MaxFrames, opens : BOOLEAN,
         closes : BOOLEAN]

(* A span is frames of the stream: of a segment it opens, or right after   *)
(* those handed on of the one that is open.                                *)
SpanOK(s, P) ==
  /\ s \in Span
  /\ s.start + Len(s.pcm) <= MaxFrames
  /\ s.pcm = Frames(s.start, s.start + Len(s.pcm))
  /\ s.opens => ~P.on /\ P.heard <= s.start /\ s.pcm # <<>>
  /\ ~s.opens => P.on /\ s.start = P.heard
  /\ s.closes \/ s.pcm # <<>>

WithAudio(s, P) ==
  [events |-> IF s.opens THEN WithStart(P.events, s.start) ELSE P.events,
   heard |-> s.start + Len(s.pcm), on |-> TRUE]

Ended(P) == [events |-> WithEnd(P.events, P.heard),
             heard |-> P.heard, on |-> FALSE]

WithSpan(s, P) == IF s.closes THEN Ended(WithAudio(s, P)) ELSE WithAudio(s, P)

(* The spans lead from the first of the positions to the last. *)
Linked(spans, at) ==
  /\ at \in [0 .. Len(spans) -> Position]
  /\ \A i \in 1 .. Len(spans) : /\ SpanOK(spans[i], at[i - 1])
                               /\ at[i] = WithSpan(spans[i], at[i - 1])

(* The buffer once it took the audio of a span. *)
Taken(b, s) ==
  [(IF IsOpen(b) THEN b ELSE Open(b, s.start)) EXCEPT !.pcm = @ \o s.pcm]

(* What the while loop of push() makes of the buffer b, in n rounds. *)
CutRounds(f, b, dip, n) ==
  f = [i \in 0 .. n |-> IF i = 0 THEN b ELSE LengthCut(f[i - 1], dip)]

(* What push() makes of it with the first n spans. *)
SpanRounds(f, b, spans, dip, n) ==
  f = [i \in 0 .. n |-> IF i = 0 THEN b ELSE Absorb(f[i - 1], spans[i], dip)]

(* The buffer c holds what b held, and more: nothing committed changes,    *)
(* and what was open is committed first, or still open.                    *)
Follows(b, c) ==
  /\ Len(b.finals) <= Len(c.finals)
  /\ \A i \in 1 .. Len(b.finals) : c.finals[i] = b.finals[i]
  /\ IsOpen(b) /\ b.pcm # <<>> =>
       IF Len(b.finals) < Len(c.finals)
         THEN c.finals[Len(b.finals) + 1].start = b.start
         ELSE IsOpen(c) /\ c.pcm # <<>> /\ c.start = b.start

-----------------------------------------------------------------------------
(* The segmenter within one push().                                        *)

Gathered ==
  [classes : Seq(Class), triggered : BOOLEAN, speechRun : 0 .. MinSpeech,
   silenceRun : 0 .. MinSilence, preroll : Seq(FrameNumber),
   events : Seq(Event), spans : Seq(Span), keep : Seq(FrameNumber),
   from : {NoStart} \cup 0 .. MaxFrames, opens : BOOLEAN]

GatheredFields ==
  {"classes", "triggered", "speechRun", "silenceRun", "preroll", "events",
   "spans", "keep", "from", "opens"}

(* The span that closes the segment with frame n. *)
SpanClosing(v, n) ==
  [pcm |-> v.keep, start |-> IF v.from # NoStart THEN v.from ELSE n,
   opens |-> v.opens, closes |-> TRUE]

(* What is gathered is the next span, from the position the spans before   *)
(* it led to; or there is nothing to hand on.                              *)
PendingOK(v, P) ==
  LET n == Len(v.classes)
  IN IF v.keep = <<>>
       THEN ~v.opens /\ v.from = NoStart /\ P = Place(v.events, n, v.triggered)
       ELSE /\ v.triggered /\ v.from # NoStart
            /\ v.from <= n /\ v.keep = Frames(v.from, n)
            /\ v.opens => /\ ~P.on /\ P.heard <= v.from
                          /\ v.events = WithStart(P.events, v.from)
            /\ ~v.opens => P.on /\ P.heard = v.from /\ v.events = P.events

GatheredOK(v, P) ==
  /\ v \in Gathered
  /\ Len(v.classes) <= MaxFrames /\ Len(v.preroll) <= Pad
  /\ EventsOK(v.events, Len(v.classes), v.triggered)
  /\ RunsOK(v)
  /\ OnsetsOK(v.classes, v.events)
  /\ \E at : Linked(v.spans, at) /\ at[0] = P
                                /\ PendingOK(v, at[Len(v.spans)])

(* What push() returns when n frames were heard: the segmenter after it,   *)
(* and the spans that lead there.                                          *)
SegmentedOK(v, P, n) ==
  /\ v.classes \in Seq(Class) /\ v.triggered \in BOOLEAN
  /\ Len(v.classes) = n
  /\ v.speechRun \in 0 .. MinSpeech /\ v.silenceRun \in 0 .. MinSilence
  /\ v.preroll \in Seq(FrameNumber) /\ Len(v.preroll) <= Pad
  /\ EventsOK(v.events, n, v.triggered)
  /\ RunsOK(v) /\ OnsetsOK(v.classes, v.events)
  /\ v.spans \in Seq(Span)
  /\ \E at : /\ Linked(v.spans, at) /\ at[0] = P
             /\ at[Len(v.spans)] = Place(v.events, n, v.triggered)

(* What it makes of the first n of the frames cs. *)
FrameRounds(f, cs, n) ==
  f = [i \in 0 .. n |-> IF i = 0 THEN Gathering ELSE Frame(f[i - 1], cs[i])]

-----------------------------------------------------------------------------
(* The detector and the screen.                                            *)

(* The anchor is of an utterance committed or of the open one, which then  *)
(* has frames, and is watched from its start.                              *)
AnchorStart(a, b) ==
  IF a.index < Len(b.finals) THEN b.finals[a.index + 1].start ELSE b.start

AnchorOK(a, b) ==
  /\ a.index <= Len(b.finals)
  /\ a.index = Len(b.finals) => IsOpen(b) /\ b.pcm # <<>> /\ a.from = 0
  /\ a.pcm # <<>> =>
       /\ a.index # None
       /\ a.pcm = Frames(AnchorStart(a, b), AnchorStart(a, b) + Window)

Anchor == [index : {None} \cup 0 .. MaxFrames, from : 0 .. MaxFrames,
           pcm : Seq(FrameNumber)]

(* A prediction is of the open utterance, which has frames. *)
PartialOK(b) ==
  b.partial # None => b.partial = Len(b.finals) /\ IsOpen(b) /\ b.pcm # <<>>

ScreenOK == sentence < Len(finals) /\ RunningTextIsAhead

SegmentationInv ==
  /\ TypeOK
  /\ EventsOK(events, Len(classes), triggered)
  /\ ~ended => RunsOK(Gathering)
  /\ OnsetsOK(classes, events)
  /\ BufferOK(Held, Place(events, Len(classes), triggered))
  /\ Len(pcm) < MaxLen
  /\ AnchorOK(anchor, Held)
  /\ ScreenOK

-----------------------------------------------------------------------------
(* The operators of the model.                                             *)

(* A set of natural numbers that is not empty has a least one. *)
LEMMA LeastExists ==
  ASSUME NEW S \in SUBSET Nat, S # {}
  PROVE  \E i \in S : \A j \in S : i <= j
<1>1. PICK x \in S : \A y \in S : ~(<<y, x>> \in OpToRel(<, Nat))
  BY NatLessThanWellFounded, WFMin
<1>2. ASSUME NEW j \in S, ~(x <= j)  PROVE FALSE
  <2>1. j < x
    BY <1>2
  <2>2. <<j, x>> \in OpToRel(<, Nat)
    BY <2>1 DEF OpToRel
  <2> QED
    BY <1>1, <2>2
<1> QED
  BY <1>2

(* Max finds the greatest of some numbers up to a bound. *)
LEMMA MaxIs ==
  ASSUME NEW n \in Nat, NEW S \in SUBSET (0 .. n), S # {}
  PROVE  Max(S) \in S /\ \A j \in S : Max(S) >= j
<1> DEFINE T == {n - j : j \in S}
<1>1. T \in SUBSET Nat /\ T # {}
  <2>1. PICK j \in S : TRUE
    OBVIOUS
  <2>2. n - j \in T
    OBVIOUS
  <2> QED
    BY <2>2
<1> HIDE DEF T
<1>2. PICK t \in T : \A u \in T : t <= u
  BY <1>1, LeastExists
<1> USE DEF T
<1>3. PICK i \in S : t = n - i
  OBVIOUS
<1>4. \A j \in S : i >= j
  BY <1>2, <1>3
<1> HIDE DEF T
<1>5. \E x \in S : \A y \in S : x >= y
  BY <1>4
<1> QED
  BY <1>5 DEF Max

(* The frames of an interval. *)
LEMMA FramesIs ==
  ASSUME NEW a \in Nat, NEW z \in Nat, a <= z
  PROVE  /\ Frames(a, z) \in Seq(Nat)
         /\ Len(Frames(a, z)) = z - a
         /\ \A i \in 1 .. z - a : Frames(a, z)[i] = a + i - 1
         /\ z <= MaxFrames => Frames(a, z) \in Seq(FrameNumber)
         /\ Frames(a, z) = <<>> <=> a = z
<1>1. z - a \in Nat /\ DOMAIN Frames(a, z) = 1 .. z - a
  BY DEF Frames
<1>2. Frames(a, z) \in [1 .. z - a -> Nat]
  BY DEF Frames
<1>3. Frames(a, z) \in Seq(Nat)
  BY <1>1, <1>2, SeqDef
<1>4. Len(Frames(a, z)) = z - a
  BY <1>1, <1>3, LenProperties
<1>5. \A i \in 1 .. z - a : Frames(a, z)[i] = a + i - 1
  BY DEF Frames
<1>6. ASSUME z <= MaxFrames  PROVE Frames(a, z) \in Seq(FrameNumber)
  <2>1. \A i \in 1 .. z - a : a + i - 1 \in FrameNumber
    BY <1>6, SizesAssumption DEF FrameNumber
  <2>2. Frames(a, z) \in [1 .. z - a -> FrameNumber]
    BY <2>1 DEF Frames
  <2> QED
    BY <1>1, <2>2, SeqDef
<1>7. Frames(a, z) = <<>> <=> a = z
  BY <1>3, <1>4, EmptySeq
<1> QED
  BY <1>3, <1>4, <1>5, <1>6, <1>7

(* The same of what these frames are. *)
LEMMA FramesHeld ==
  ASSUME NEW a \in Nat, NEW z \in Nat, a <= z, z <= MaxFrames,
         NEW q, q = Frames(a, z)
  PROVE  /\ q \in Seq(FrameNumber) /\ Len(q) = z - a
         /\ q = <<>> <=> a = z
BY FramesIs

(* A sequence of these frames is theirs. *)
LEMMA FramesAre ==
  ASSUME NEW a \in Nat, NEW q \in Seq(Nat),
         \A i \in 1 .. Len(q) : q[i] = a + i - 1
  PROVE  q = Frames(a, a + Len(q))
<1> DEFINE z == a + Len(q)
           f == Frames(a, z)
<1>0. z \in Nat /\ a <= z
  OBVIOUS
<1> HIDE DEF z
<1>1. /\ f \in Seq(Nat) /\ Len(f) = z - a
      /\ \A i \in 1 .. z - a : f[i] = a + i - 1
  BY <1>0, FramesIs
<1> HIDE DEF f
<1>2. Len(f) = Len(q) /\ \A i \in 1 .. Len(q) : f[i] = q[i]
  BY <1>0, <1>1 DEF z
<1>3. q = f
  BY <1>1, <1>2, SeqEqual
<1> QED
  BY <1>3 DEF f, z

(* Intervals that meet make one. *)
LEMMA FramesMeet ==
  ASSUME NEW a \in Nat, NEW m \in Nat, NEW z \in Nat, a <= m, m <= z
  PROVE  Frames(a, m) \o Frames(m, z) = Frames(a, z)
<1> DEFINE p == Frames(a, m)
           q == Frames(m, z)
<1>1. /\ p \in Seq(Nat) /\ Len(p) = m - a
      /\ \A i \in 1 .. m - a : p[i] = a + i - 1
  BY FramesIs
<1>2. /\ q \in Seq(Nat) /\ Len(q) = z - m
      /\ \A i \in 1 .. z - m : q[i] = m + i - 1
  BY FramesIs
<1> HIDE DEF p, q
<1>3. /\ p \o q \in Seq(Nat) /\ Len(p \o q) = z - a
      /\ \A i \in 1 .. z - a :
           (p \o q)[i] = IF i <= m - a THEN p[i] ELSE q[i - (m - a)]
  BY <1>1, <1>2, ConcatProperties
<1>4. \A i \in 1 .. z - a : (p \o q)[i] = a + i - 1
  <2>1. \A i \in 1 .. z - a : IF i <= m - a THEN i \in 1 .. m - a
                                             ELSE i - (m - a) \in 1 .. z - m
    OBVIOUS
  <2> QED
    BY <1>1, <1>2, <1>3, <2>1
<1> DEFINE c == p \o q
<1>5. c \in Seq(Nat) /\ a + Len(c) = z /\ \A i \in 1 .. Len(c) : c[i] = a + i - 1
  BY <1>3, <1>4
<1> HIDE DEF c
<1>6. c = Frames(a, z)
  BY <1>5, FramesAre
<1> QED
  BY <1>6 DEF c, p, q

(* One more frame, and one less. *)
LEMMA FramesGrow ==
  ASSUME NEW a \in Nat, NEW z \in Nat, a <= z
  PROVE  /\ Append(Frames(a, z), z) = Frames(a, z + 1)
         /\ Frames(a, z) \o <<z>> = Frames(a, z + 1)
         /\ a < z => Tail(Frames(a, z)) = Frames(a + 1, z)
<1> DEFINE q == Frames(a, z)
<1>1. /\ q \in Seq(Nat) /\ Len(q) = z - a
      /\ \A i \in 1 .. z - a : q[i] = a + i - 1
  BY FramesIs
<1> HIDE DEF q
<1>2. Append(q, z) = Frames(a, z + 1)
  <2>1. /\ Append(q, z) \in Seq(Nat) /\ Len(Append(q, z)) = z + 1 - a
        /\ \A i \in 1 .. Len(q) : Append(q, z)[i] = q[i]
        /\ Append(q, z)[z - a + 1] = z
    BY <1>1, AppendProperties
  <2> DEFINE c == Append(q, z)
  <2>2. \A i \in 1 .. z + 1 - a : i \in 1 .. Len(q) \/ i = z - a + 1
    BY <1>1
  <2>3. c \in Seq(Nat) /\ a + Len(c) = z + 1 /\ \A i \in 1 .. Len(c) : c[i] = a + i - 1
    BY <1>1, <2>1, <2>2
  <2> HIDE DEF c
  <2>4. c = Frames(a, z + 1)
    BY <2>3, FramesAre
  <2> QED
    BY <2>4 DEF c
<1>3. q \o <<z>> = Frames(a, z + 1)
  <2>1. q \o <<z>> = Append(q, z)
    BY <1>1, AppendIsConcat
  <2> QED
    BY <1>2, <2>1
<1>4. ASSUME a < z  PROVE Tail(q) = Frames(a + 1, z)
  <2>1. q # <<>>
    BY <1>1, <1>4
  <2>2. /\ Tail(q) \in Seq(Nat) /\ Len(Tail(q)) = Len(q) - 1
        /\ \A i \in 1 .. Len(Tail(q)) : Tail(q)[i] = q[i + 1]
    BY <1>1, <2>1, HeadTailProperties
  <2> DEFINE c == Tail(q)
  <2>3. /\ c \in Seq(Nat) /\ (a + 1) + Len(c) = z /\ a + 1 \in Nat
        /\ \A i \in 1 .. Len(c) : c[i] = (a + 1) + i - 1
    BY <1>1, <2>2
  <2> HIDE DEF c
  <2>4. c = Frames(a + 1, z)
    BY <2>3, FramesAre
  <2> QED
    BY <2>4 DEF c
<1> QED
  BY <1>2, <1>3, <1>4 DEF q

(* Some frames in the middle. *)
LEMMA FramesWithin ==
  ASSUME NEW a \in Nat, NEW z \in Nat, a <= z,
         NEW m \in 1 .. z - a + 1, NEW n \in 0 .. z - a, m <= n + 1
  PROVE  SubSeq(Frames(a, z), m, n) = Frames(a + m - 1, a + n)
<1> DEFINE q == Frames(a, z)
           s == SubSeq(q, m, n)
<1>1. /\ q \in Seq(Nat) /\ Len(q) = z - a
      /\ \A i \in 1 .. z - a : q[i] = a + i - 1
  BY FramesIs
<1> HIDE DEF q
<1>2. /\ s \in Seq(Nat) /\ Len(s) = n - m + 1
      /\ \A i \in 1 .. n - m + 1 : s[i] = q[m + i - 1]
  <2>1. \A i \in m .. n : q[i] \in Nat
    BY <1>1
  <2> QED
    BY <1>1, <2>1, SubSeqProperties
<1> HIDE DEF s
<1> DEFINE b == a + m - 1
<1>3. b \in Nat /\ b + Len(s) = a + n /\ \A i \in 1 .. Len(s) : s[i] = b + i - 1
  BY <1>1, <1>2
<1> HIDE DEF b
<1>4. s = Frames(b, a + n)
  BY <1>2, <1>3, FramesAre
<1> QED
  BY <1>4 DEF b, s, q

(* The first frames, and those after them. *)
LEMMA FramesCut ==
  ASSUME NEW a \in Nat, NEW z \in Nat, NEW k \in 1 .. z - a
  PROVE  /\ SubSeq(Frames(a, z), 1, k) = Frames(a, a + k)
         /\ SubSeq(Frames(a, z), k + 1, Len(Frames(a, z))) = Frames(a + k, z)
<1>1. /\ a <= z /\ k \in Nat
      /\ 1 \in 1 .. z - a + 1 /\ k + 1 \in 1 .. z - a + 1
      /\ k \in 0 .. z - a /\ z - a \in 0 .. z - a
      /\ 1 <= k + 1 /\ k + 1 <= (z - a) + 1
      /\ a + 1 - 1 = a /\ a + (k + 1) - 1 = a + k /\ a + (z - a) = z
  OBVIOUS
<1>2. SubSeq(Frames(a, z), 1, k) = Frames(a + 1 - 1, a + k)
  BY <1>1, FramesWithin
<1>3. SubSeq(Frames(a, z), k + 1, z - a)
        = Frames(a + (k + 1) - 1, a + (z - a))
  BY <1>1, FramesWithin
<1>4. Len(Frames(a, z)) = z - a
  BY <1>1, FramesIs
<1> QED
  BY <1>1, <1>2, <1>3, <1>4

-----------------------------------------------------------------------------
(* Events and segments.                                                    *)

(* An event is appended. *)
LEMMA EventAppended ==
  ASSUME NEW E \in Seq(Event), NEW e \in Event, NEW D, D = Append(E, e)
  PROVE  /\ D \in Seq(Event) /\ D # <<>> /\ Len(D) = Len(E) + 1
         /\ \A i \in 1 .. Len(E) : D[i] = E[i] /\ E[i] \in Event
         /\ D[Len(D)] = e /\ D[Len(E) + 1] = e
BY AppendProperties, ElementOfSeq

(* The positions of events are frame numbers. *)
LEMMA EventsAre ==
  ASSUME NEW E \in Seq(Event)
  PROVE  /\ Len(E) \in Nat /\ E = <<>> <=> Len(E) = 0
         /\ \A i \in 1 .. Len(E) : E[i] \in Event /\ E[i].at \in Nat
<1>1. Len(E) \in Nat /\ (E = <<>> <=> Len(E) = 0)
  BY EmptySeq
<1>2. \A i \in 1 .. Len(E) : E[i] \in Event
  BY ElementOfSeq
<1> QED
  BY <1>1, <1>2, SizesAssumption DEF Event

(* A segment opens: at k, and holds the frames from there to m. *)
LEMMA SegmentOpened ==
  ASSUME NEW E, NEW n \in Nat, EventsOK(E, n, FALSE),
         NEW k \in 0 .. MaxFrames, NEW m \in Nat, n <= k, k <= m
  PROVE  /\ EventsOK(WithStart(E, k), m, TRUE)
         /\ WithStart(E, k)[Len(WithStart(E, k))].at = k
         /\ \A a, z \in Nat :
              Within(WithStart(E, k), m, a, z)
                <=> Within(E, n, a, z) \/ (k <= a /\ z <= m)
         /\ \A a, z \in Nat :
              StartsBetween(WithStart(E, k), a, z)
                <=> StartsBetween(E, a, z) \/ (a < k /\ k <= z)
<1> DEFINE D == WithStart(E, k)
<1>1. StartAt(k) \in Event /\ E \in Seq(Event) /\ k \in Nat
  BY SizesAssumption DEF StartAt, Event, EventsOK
<1>2. /\ D \in Seq(Event) /\ D # <<>> /\ Len(D) = Len(E) + 1
      /\ \A i \in 1 .. Len(E) : D[i] = E[i]
      /\ D[Len(D)] = StartAt(k) /\ D[Len(E) + 1] = StartAt(k)
  BY <1>1, EventAppended DEF WithStart
<1> HIDE DEF D
<1>3. /\ Len(E) \in Nat /\ E = <<>> <=> Len(E) = 0
      /\ \A i \in 1 .. Len(E) : E[i].at \in Nat /\ E[i].at <= n
  BY <1>1, EventsAre DEF EventsOK
<1>4. StartAt(k).at = k /\ Starts(D, Len(D)) /\ Starts(D, Len(E) + 1)
  BY <1>2 DEF StartAt, Starts
<1>5. \A i \in 1 .. Len(E) : Starts(D, i) <=> Starts(E, i)
  BY <1>2 DEF Starts
<1>6. \A i \in 1 .. Len(D) : i \in 1 .. Len(E) \/ i = Len(E) + 1
  BY <1>2, <1>3
<1>7. 1 .. Len(E) \subseteq 1 .. Len(D) /\ Len(E) + 1 \in 1 .. Len(D)
  BY <1>2, <1>3
<1>8. EventsOK(D, m, TRUE)
  <2>1. \A i \in 1 .. Len(D) : D[i].at <= m
    BY <1>2, <1>3, <1>4, <1>6
  <2>2. ASSUME NEW i \in 1 .. Len(D), NEW j \in 1 .. Len(D), i < j
        PROVE  D[i].at <= D[j].at
    <3>1. i \in 1 .. Len(E)
      BY <1>2, <1>3, <2>2
    <3>2. CASE j \in 1 .. Len(E)
      BY <1>2, <2>2, <3>1, <3>2 DEF EventsOK
    <3>3. CASE j = Len(E) + 1
      BY <1>2, <1>3, <1>4, <3>1, <3>3
    <3> QED
      BY <1>6, <3>2, <3>3
  <2> QED
    BY <1>2, <1>4, <2>1, <2>2 DEF EventsOK
<1>9. \A i \in 1 .. Len(E) : Starts(E, i) => i < Len(E)
  BY <1>3 DEF EventsOK
<1>10. \A i \in 1 .. Len(E) : Starts(E, i) => Until(D, i, m) = Until(E, i, n)
  BY <1>2, <1>3, <1>9 DEF Until
<1>11. Until(D, Len(E) + 1, m) = m
  BY <1>2, <1>3 DEF Until
<1>12. ASSUME NEW a \in Nat, NEW z \in Nat
       PROVE  Within(D, m, a, z) <=> Within(E, n, a, z) \/ (k <= a /\ z <= m)
  BY <1>2, <1>4, <1>5, <1>6, <1>7, <1>10, <1>11 DEF Within
<1>13. ASSUME NEW a \in Nat, NEW z \in Nat
       PROVE  StartsBetween(D, a, z)
                <=> StartsBetween(E, a, z) \/ (a < k /\ k <= z)
  BY <1>2, <1>4, <1>5, <1>6, <1>7 DEF StartsBetween
<1> QED
  BY <1>2, <1>4, <1>8, <1>12, <1>13 DEF D

(* A segment closes where it is. *)
LEMMA SegmentClosedAt ==
  ASSUME NEW E, NEW n \in 0 .. MaxFrames, EventsOK(E, n, TRUE),
         NEW D, D = WithEnd(E, n)
  PROVE  /\ EventsOK(D, n, FALSE) /\ HandedOnTo(D) = n
         /\ \A a, z \in Nat : Within(D, n, a, z) <=> Within(E, n, a, z)
         /\ \A a, z \in Nat : StartsBetween(D, a, z) <=> StartsBetween(E, a, z)
<1>1. EndAt(n) \in Event /\ E \in Seq(Event) /\ n \in Nat
  BY SizesAssumption DEF EndAt, Event, EventsOK
<1>2. /\ D \in Seq(Event) /\ D # <<>> /\ Len(D) = Len(E) + 1
      /\ \A i \in 1 .. Len(E) : D[i] = E[i]
      /\ D[Len(D)] = EndAt(n) /\ D[Len(E) + 1] = EndAt(n)
  BY <1>1, EventAppended DEF WithStart, WithEnd
<1>3. /\ Len(E) \in Nat /\ E = <<>> <=> Len(E) = 0
      /\ \A i \in 1 .. Len(E) : E[i].at \in Nat /\ E[i].at <= n
  BY <1>1, EventsAre DEF EventsOK
<1>4. EndAt(n).at = n /\ ~Starts(D, Len(D)) /\ ~Starts(D, Len(E) + 1)
  BY <1>2 DEF EndAt, Starts
<1>5. \A i \in 1 .. Len(E) : Starts(D, i) <=> Starts(E, i)
  BY <1>2 DEF Starts
<1>6. \A i \in 1 .. Len(D) : i \in 1 .. Len(E) \/ i = Len(E) + 1
  BY <1>2, <1>3
<1>7. 1 .. Len(E) \subseteq 1 .. Len(D)
  BY <1>2, <1>3
<1>8. ASSUME NEW i \in 1 .. Len(D), NEW j \in 1 .. Len(D), i < j
      PROVE  D[i].at <= D[j].at
  <2>1. i \in 1 .. Len(E)
    BY <1>2, <1>3, <1>8
  <2>2. CASE j \in 1 .. Len(E)
    BY <1>2, <1>8, <2>1, <2>2 DEF EventsOK
  <2>3. CASE j = Len(E) + 1
    BY <1>2, <1>3, <1>4, <2>1, <2>3
  <2> QED
    BY <1>6, <2>2, <2>3
<1>9. \A i \in 1 .. Len(D) : D[i].at <= n /\ D[i].at \in Nat
  BY <1>1, <1>2, <1>3, <1>4, <1>6
<1>10. EventsOK(D, n, FALSE)
  BY <1>1, <1>2, <1>4, <1>8, <1>9 DEF EventsOK
<1>11. \A i \in 1 .. Len(E) : Until(D, i, n) = Until(E, i, n)
  <2>1. ASSUME NEW i \in 1 .. Len(E), i < Len(E)
        PROVE  D[i + 1] = E[i + 1] /\ i < Len(D)
    BY <1>2, <1>3, <2>1
  <2>2. ASSUME NEW i \in 1 .. Len(E), ~(i < Len(E))
        PROVE  i + 1 = Len(E) + 1 /\ i < Len(D)
    BY <1>2, <1>3, <2>2
  <2> QED
    BY <1>2, <1>4, <2>1, <2>2 DEF Until
<1>12. ASSUME NEW a \in Nat, NEW z \in Nat
       PROVE  Within(D, n, a, z) <=> Within(E, n, a, z)
  BY <1>2, <1>4, <1>5, <1>6, <1>7, <1>11 DEF Within
<1>13. ASSUME NEW a \in Nat, NEW z \in Nat
       PROVE  StartsBetween(D, a, z) <=> StartsBetween(E, a, z)
  BY <1>2, <1>4, <1>5, <1>6, <1>7 DEF StartsBetween
<1>14. HandedOnTo(D) = n
  BY <1>2, <1>4 DEF HandedOnTo
<1> QED
  BY <1>10, <1>12, <1>13, <1>14

(* The open segment gets longer. *)
LEMMA SegmentLonger ==
  ASSUME NEW E, NEW n \in Nat, EventsOK(E, n, TRUE), NEW m \in Nat, n <= m
  PROVE  /\ EventsOK(E, m, TRUE)
         /\ \A a, z \in Nat :
              Within(E, m, a, z)
                <=> Within(E, n, a, z) \/ (E[Len(E)].at <= a /\ z <= m)
<1>1. /\ Len(E) \in Nat /\ E # <<>> /\ Starts(E, Len(E))
      /\ Len(E) \in 1 .. Len(E)
      /\ \A i \in 1 .. Len(E) : E[i].at \in Nat /\ E[i].at <= n
  BY EventsAre DEF EventsOK
<1>2. EventsOK(E, m, TRUE)
  BY <1>1 DEF EventsOK
<1>3. Until(E, Len(E), m) = m /\ Until(E, Len(E), n) = n
  BY <1>1 DEF Until
<1>4. \A i \in 1 .. Len(E) : i # Len(E) => Until(E, i, m) = Until(E, i, n)
  BY <1>1 DEF Until
<1>5. ASSUME NEW a \in Nat, NEW z \in Nat
      PROVE  Within(E, m, a, z)
               <=> Within(E, n, a, z) \/ (E[Len(E)].at <= a /\ z <= m)
  BY <1>1, <1>3, <1>4 DEF Within
<1> QED
  BY <1>2, <1>5

(* Between segments only the time goes on. *)
LEMMA NoSegment ==
  ASSUME NEW E, NEW n \in Nat, EventsOK(E, n, FALSE), NEW m \in Nat
  PROVE  /\ n <= m => EventsOK(E, m, FALSE)
         /\ EventsOK(E, HandedOnTo(E), FALSE)
         /\ HandedOnTo(E) \in Nat /\ HandedOnTo(E) <= n
         /\ \A i \in 1 .. Len(E) : E[i].at <= HandedOnTo(E)
         /\ \A a, z \in Nat : Within(E, m, a, z) <=> Within(E, n, a, z)
<1>1. /\ Len(E) \in Nat /\ E \in Seq(Event) /\ E = <<>> <=> Len(E) = 0
      /\ \A i \in 1 .. Len(E) : E[i].at \in Nat /\ E[i].at <= n
  BY EventsAre DEF EventsOK
<1>2. \A i \in 1 .. Len(E) : Starts(E, i) => i < Len(E)
  BY <1>1 DEF EventsOK
<1>3. HandedOnTo(E) \in Nat /\ HandedOnTo(E) <= n
  BY <1>1 DEF HandedOnTo
<1>4. \A i \in 1 .. Len(E) : E[i].at <= HandedOnTo(E)
  BY <1>1 DEF HandedOnTo, EventsOK
<1>5. n <= m => EventsOK(E, m, FALSE)
  BY <1>1 DEF EventsOK
<1>6. EventsOK(E, HandedOnTo(E), FALSE)
  BY <1>4 DEF EventsOK
<1>7. \A i \in 1 .. Len(E) : Starts(E, i) => Until(E, i, m) = Until(E, i, n)
  BY <1>1, <1>2 DEF Until
<1>8. \A a, z \in Nat : Within(E, m, a, z) <=> Within(E, n, a, z)
  BY <1>7 DEF Within
<1> QED
  BY <1>3, <1>4, <1>5, <1>6, <1>8

-----------------------------------------------------------------------------
(* Committed utterances.                                                   *)

(* What an utterance that is in order is. *)
LEMMA UtteranceIs ==
  ASSUME NEW F \in Seq(Utterance), NEW i \in 1 .. Len(F), FinalOK(F[i], i)
  PROVE  /\ F[i] \in Utterance
         /\ F[i].start \in Nat /\ F[i].pcm \in Seq(FrameNumber)
         /\ Len(F[i].pcm) \in Nat /\ Len(F[i].pcm) > 0
         /\ End(F[i]) \in Nat /\ F[i].start < End(F[i]) /\ i <= End(F[i])
<1>1. F[i] \in Utterance
  BY ElementOfSeq
<1>2. F[i].start \in Nat /\ F[i].pcm \in Seq(FrameNumber)
  BY <1>1, SizesAssumption DEF Utterance
<1>3. Len(F[i].pcm) \in Nat /\ Len(F[i].pcm) > 0
  BY <1>2, EmptySeq DEF FinalOK
<1>4. i \in Nat /\ i - 1 <= F[i].start
  BY DEF FinalOK
<1> QED
  BY <1>1, <1>2, <1>3, <1>4 DEF End

(* What the utterances are in, and follow, is the same at a later          *)
(* position.                                                               *)
LEMMA FinalsStay ==
  ASSUME NEW F \in Seq(Utterance), NEW P \in Position, NEW Q \in Position,
         FinalsOK(F, P), P.heard <= Q.heard,
         \A a, z \in Nat : Within(P.events, P.heard, a, z)
                             => Within(Q.events, Q.heard, a, z),
         \A a, z \in Nat : z < P.heard =>
           (StartsBetween(P.events, a, z) <=> StartsBetween(Q.events, a, z))
  PROVE  FinalsOK(F, Q)
<1>1. P.heard \in Nat /\ Q.heard \in Nat /\ Len(F) \in Nat
  BY SizesAssumption, EmptySeq DEF Position
<1>2. ASSUME NEW i \in 1 .. Len(F)
      PROVE  /\ F[i].start \in Nat /\ End(F[i]) \in Nat
             /\ F[i].start < P.heard /\ End(F[i]) <= Q.heard
  BY <1>1, UtteranceIs DEF FinalsOK
<1>3. ASSUME NEW i \in 1 .. Len(F)
      PROVE  Within(Q.events, Q.heard, F[i].start, End(F[i]))
  BY <1>2 DEF FinalsOK
<1>4. ASSUME NEW i \in 1 .. Len(F)
      PROVE  CarriesOn(F, i, F[i].start, P.events)
               <=> CarriesOn(F, i, F[i].start, Q.events)
  <2>1. i > 1 => i - 1 \in 1 .. Len(F)
    BY <1>1
  <2> QED
    BY <1>2, <2>1 DEF CarriesOn
<1> QED
  BY <1>1, <1>2, <1>3, <1>4 DEF FinalsOK

(* An utterance more. *)
LEMMA FinalsGrow ==
  ASSUME NEW F \in Seq(Utterance), NEW P \in Position, FinalsOK(F, P),
         NEW u \in Utterance, FinalOK(u, Len(F) + 1),
         Within(P.events, P.heard, u.start, End(u)),
         u.continues <=> CarriesOn(F, Len(F) + 1, u.start, P.events),
         End(u) <= P.heard, \A i \in 1 .. Len(F) : End(F[i]) <= u.start,
         NEW G, G = Append(F, u)
  PROVE  /\ FinalsOK(G, P) /\ G \in Seq(Utterance)
         /\ Len(F) \in Nat /\ Len(G) = Len(F) + 1
         /\ \A i \in 1 .. Len(F) : G[i] = F[i]
         /\ G[Len(F) + 1] = u
         /\ \A i \in 1 .. Len(G) : End(G[i]) <= End(u)
         /\ \A k : (\E i \in 1 .. Len(G) : Covers(G[i], k))
                  <=> (\E i \in 1 .. Len(F) : Covers(F[i], k)) \/ Covers(u, k)
<1>1. /\ G \in Seq(Utterance) /\ Len(F) \in Nat /\ Len(G) = Len(F) + 1
      /\ \A i \in 1 .. Len(F) : G[i] = F[i]
      /\ G[Len(F) + 1] = u
  BY AppendProperties, EmptySeq
<1>2. \A i \in 1 .. Len(G) : i \in 1 .. Len(F) \/ i = Len(F) + 1
  BY <1>1
<1>3. 1 .. Len(F) \subseteq 1 .. Len(G) /\ Len(F) + 1 \in 1 .. Len(G)
  BY <1>1
<1>4. FinalOK(G[Len(F) + 1], Len(F) + 1)
  BY <1>1
<1>5. /\ u.start \in Nat /\ End(u) \in Nat /\ u.start < End(u)
      /\ Len(F) + 1 <= End(u) /\ P.heard \in Nat
  <2>1. P.heard \in Nat
    BY SizesAssumption DEF Position
  <2>2. FinalOK(G[Len(F) + 1], Len(F) + 1) /\ Len(F) + 1 \in 1 .. Len(G)
    BY <1>3, <1>4
  <2>3. /\ G[Len(F) + 1].start \in Nat /\ End(G[Len(F) + 1]) \in Nat
        /\ G[Len(F) + 1].start < End(G[Len(F) + 1])
        /\ Len(F) + 1 <= End(G[Len(F) + 1])
    BY <1>1, <2>2, UtteranceIs
  <2> QED
    BY <1>1, <2>1, <2>3
<1>6. \A i \in 1 .. Len(F) : End(F[i]) \in Nat
  BY UtteranceIs DEF FinalsOK
<1>7. ASSUME NEW i \in 1 .. Len(G)
      PROVE  CarriesOn(G, i, G[i].start, P.events)
               <=> CarriesOn(F, i, G[i].start, P.events)
  <2>1. i > 1 => i - 1 \in 1 .. Len(F)
    BY <1>1
  <2> QED
    BY <1>1, <2>1 DEF CarriesOn
<1>8. ASSUME NEW i \in 1 .. Len(G)
      PROVE  /\ FinalOK(G[i], i)
             /\ Within(P.events, P.heard, G[i].start, End(G[i]))
             /\ G[i].continues <=> CarriesOn(G, i, G[i].start, P.events)
             /\ End(G[i]) <= P.heard
  <2>1. CASE i \in 1 .. Len(F)
    BY <1>1, <1>7, <2>1 DEF FinalsOK
  <2>2. CASE i = Len(F) + 1
    BY <1>1, <1>7, <2>2
  <2> QED
    BY <1>2, <2>1, <2>2
<1>9. ASSUME NEW i \in 1 .. Len(G), NEW j \in 1 .. Len(G), i < j
      PROVE  End(G[i]) <= G[j].start
  <2>1. i \in 1 .. Len(F)
    BY <1>1, <1>9
  <2>2. CASE j \in 1 .. Len(F)
    BY <1>1, <1>9, <2>1, <2>2 DEF FinalsOK, InOrder
  <2>3. CASE j = Len(F) + 1
    BY <1>1, <2>1, <2>3
  <2> QED
    BY <1>2, <2>2, <2>3
<1>10. \A i \in 1 .. Len(G) : End(G[i]) <= End(u)
  BY <1>1, <1>2, <1>5, <1>6
<1>11. FinalsOK(G, P)
  BY <1>1, <1>5, <1>8, <1>9 DEF FinalsOK, InOrder
<1>12. \A k : (\E i \in 1 .. Len(G) : Covers(G[i], k))
                <=> (\E i \in 1 .. Len(F) : Covers(F[i], k)) \/ Covers(u, k)
  BY <1>1, <1>2, <1>3
<1> QED
  BY <1>1, <1>10, <1>11, <1>12

-----------------------------------------------------------------------------
(* The buffer.                                                             *)

(* The types of what it holds. *)
LEMMA BufferIs ==
  ASSUME NEW b, NEW P, BufferOK(b, P)
  PROVE  /\ b \in Buffer /\ P \in Position
         /\ b.finals \in Seq(Utterance) /\ Len(b.finals) \in Nat
         /\ b.pcm \in Seq(FrameNumber) /\ Len(b.pcm) \in Nat
         /\ b.pcm = <<>> <=> Len(b.pcm) = 0
         /\ IsOpen(b) => b.start \in 0 .. MaxFrames /\ b.start \in Nat
         /\ P.heard \in Nat /\ P.heard \in 0 .. MaxFrames
         /\ P.events \in Seq(Event) /\ P.on \in BOOLEAN
         /\ IsOpen(b) => Len(b.pcm) = P.heard - b.start /\ b.start <= P.heard
         /\ Len(b.finals) <= P.heard
         /\ \A i \in 1 .. Len(b.finals) :
              /\ b.finals[i] \in Utterance
              /\ b.finals[i].start \in Nat /\ End(b.finals[i]) \in Nat
              /\ b.finals[i].start < End(b.finals[i])
<1>1. b \in Buffer /\ P \in Position
  BY DEF BufferOK
<1>2. /\ b.finals \in Seq(Utterance) /\ Len(b.finals) \in Nat
      /\ b.pcm \in Seq(FrameNumber) /\ Len(b.pcm) \in Nat
      /\ b.pcm = <<>> <=> Len(b.pcm) = 0
  BY <1>1, EmptySeq DEF Buffer
<1>3. IsOpen(b) => b.start \in 0 .. MaxFrames /\ b.start \in Nat
  BY <1>1, SizesAssumption DEF Buffer, IsOpen, NoStart
<1>4. /\ P.heard \in Nat /\ P.heard \in 0 .. MaxFrames
      /\ P.events \in Seq(Event) /\ P.on \in BOOLEAN
  BY <1>1, SizesAssumption DEF Position
<1>5. IsOpen(b) => Len(b.pcm) = P.heard - b.start /\ b.start <= P.heard
  BY <1>2, <1>3, <1>4 DEF BufferOK, OpenOK
<1>6. Len(b.finals) <= P.heard /\ \A i \in 1 .. Len(b.finals) :
        FinalOK(b.finals[i], i)
  BY DEF BufferOK, FinalsOK
<1> QED
  BY <1>1, <1>2, <1>3, <1>4, <1>5, <1>6, UtteranceIs

(* _finalize, of the first frames of the open utterance or of all of it.   *)
LEMMA HeadCommitted ==
  ASSUME NEW b, NEW P, BufferOK(b, P), IsOpen(b),
         NEW cut \in 1 .. Len(b.pcm), cut <= MaxLen, NEW reason \in Reason,
         NEW u, u = [index |-> Len(b.finals), pcm |-> SubSeq(b.pcm, 1, cut),
                     start |-> b.start, reason |-> reason,
                     continues |-> b.continues]
  PROVE  /\ u \in Utterance /\ FinalOK(u, Len(b.finals) + 1)
         /\ u.start = b.start /\ End(u) = b.start + cut
         /\ End(u) \in Nat /\ End(u) <= P.heard
         /\ FinalsOK(Append(b.finals, u), P)
         /\ ~StartsBetween(P.events, u.start, P.heard)
<1> DEFINE F == b.finals
           p == b.pcm
           s == b.start
           h == P.heard
           E == P.events
<1>1. /\ Len(p) = h - s /\ s \in 0 .. MaxFrames
      /\ s \in Nat /\ h \in Nat /\ s <= h
      /\ Len(F) \in Nat /\ F \in Seq(Utterance)
      /\ P \in Position /\ h <= MaxFrames
  BY BufferIs
<1>2. /\ p = Frames(s, h) /\ Len(F) <= s
      /\ \A i \in 1 .. Len(F) : End(F[i]) <= s
      /\ E[Len(E)].at <= s
      /\ b.continues <=> CarriesOn(F, Len(F) + 1, s, E)
  BY DEF BufferOK, OpenOK
<1>3. /\ u.index = Len(F) /\ u.pcm = SubSeq(p, 1, cut) /\ u.start = s
      /\ u.reason = reason /\ u.continues = b.continues
  OBVIOUS
<1>4. /\ EventsOK(E, h, TRUE) /\ Len(E) \in 1 .. Len(E)
      /\ Starts(E, Len(E)) /\ Len(E) \in Nat
      /\ \A i \in 1 .. Len(E) : E[i].at \in Nat
  <2>1. EventsOK(E, h, TRUE)
    BY DEF BufferOK, Position
  <2> QED
    BY <2>1, EventsAre DEF EventsOK
<1>5. FinalsOK(F, P)
  BY DEF BufferOK
<1>6. b.continues \in BOOLEAN
  BY DEF BufferOK, Buffer
<1>7. cut \in Nat /\ cut >= 1 /\ cut <= h - s
  BY <1>1
<1> HIDE DEF F, p, s, h, E
<1>8. u.pcm = Frames(s, s + cut)
  <2>1. cut \in 1 .. h - s
    BY <1>1, <1>7
  <2>2. SubSeq(Frames(s, h), 1, cut) = Frames(s, s + cut)
    BY <1>1, <2>1, FramesCut
  <2> QED
    BY <1>2, <1>3, <2>2
<1>9. /\ u.pcm \in Seq(FrameNumber) /\ Len(u.pcm) = cut /\ u.pcm # <<>>
  <2> DEFINE z == s + cut
  <2>1. z \in Nat /\ s <= z /\ z <= MaxFrames /\ z - s = cut /\ s # z
    BY <1>1, <1>7, SizesAssumption
  <2>2. u.pcm = Frames(s, z)
    BY <1>8
  <2> HIDE DEF z
  <2> QED
    BY <1>1, <2>1, <2>2, FramesHeld
<1>10. /\ End(u) = s + cut /\ End(u) \in Nat
       /\ End(u) <= h /\ u.start < End(u)
  BY <1>1, <1>3, <1>7, <1>9 DEF End
<1>11. u \in Utterance
  <2>1. Len(F) \in 0 .. MaxFrames
    BY <1>1, <1>2, SizesAssumption
  <2>2. u = [index |-> u.index, pcm |-> u.pcm, start |-> u.start,
             reason |-> u.reason, continues |-> u.continues]
    OBVIOUS
  <2> QED
    BY <1>1, <1>3, <1>6, <1>9, <2>1, <2>2 DEF Utterance
<1>12. FinalOK(u, Len(F) + 1)
  <2>1. Len(u.pcm) <= MaxLen
    BY <1>9
  <2>2. u.pcm = Frames(u.start, End(u))
    BY <1>3, <1>8, <1>10
  <2>3. u.index = (Len(F) + 1) - 1 /\ (Len(F) + 1) - 1 <= u.start
    BY <1>1, <1>2, <1>3
  <2> QED
    BY <1>9, <2>1, <2>2, <2>3 DEF FinalOK
<1>13. Within(E, h, u.start, End(u))
  <2>1. Until(E, Len(E), h) = h
    BY <1>4 DEF Until
  <2> QED
    BY <1>2, <1>3, <1>4, <1>10, <2>1 DEF Within
<1>14. ~StartsBetween(E, u.start, h)
  <2>1. \A i \in 1 .. Len(E) : i < Len(E) => E[i].at <= E[Len(E)].at
    BY <1>4 DEF EventsOK
  <2>2. \A i \in 1 .. Len(E) : i = Len(E) \/ i < Len(E)
    BY <1>4
  <2>3. \A i \in 1 .. Len(E) : E[i].at <= s
    BY <1>1, <1>2, <1>4, <2>1, <2>2, SMTT(60)
  <2>4. ~StartsBetween(E, s, h)
    BY <1>1, <1>4, <2>3, SMTT(60) DEF StartsBetween
  <2> QED
    BY <1>3, <2>4
<1>15. FinalsOK(Append(F, u), P)
  <2>1. u.continues <=> CarriesOn(F, Len(F) + 1, u.start, P.events)
    BY <1>2, <1>3 DEF E
  <2>2. \A i \in 1 .. Len(F) : End(F[i]) <= u.start
    BY <1>2, <1>3
  <2>3. Within(P.events, P.heard, u.start, End(u)) /\ End(u) <= P.heard
    BY <1>10, <1>13 DEF E, h
  <2> DEFINE G == Append(F, u)
  <2>4. F \in Seq(Utterance) /\ P \in Position /\ G = Append(F, u)
    BY <1>1
  <2> HIDE DEF G
  <2>5. FinalsOK(G, P)
    BY <1>5, <1>11, <1>12, <2>1, <2>2, <2>3, <2>4, FinalsGrow, ZenonT(60)
  <2> QED
    BY <2>5 DEF G
<1> QED
  BY <1>3, <1>10, <1>11, <1>12, <1>14, <1>15 DEF F, p, s, h, E

(* _split: what is cut off is committed, the rest is open. *)
LEMMA BufferSplit ==
  ASSUME NEW b, NEW P, BufferOK(b, P), IsOpen(b),
         NEW cut \in 1 .. Len(b.pcm), cut <= MaxLen, NEW reason \in Reason,
         NEW carriesOn, carriesOn = (reason = "max_duration"),
         NEW c, c = Split(b, cut, reason, carriesOn)
  PROVE  /\ BufferOK(c, P) /\ IsOpen(c) /\ Follows(b, c)
         /\ Len(c.pcm) = Len(b.pcm) - cut
         /\ Len(c.finals) = Len(b.finals) + 1
         /\ c.partial = b.partial
<1> DEFINE u == [index |-> Len(b.finals), pcm |-> SubSeq(b.pcm, 1, cut),
                 start |-> b.start, reason |-> reason,
                 continues |-> b.continues]
           F == b.finals
           G == Append(F, u)
           s == b.start
           h == P.heard
           E == P.events
<1>1. /\ Len(b.pcm) = h - s /\ s \in Nat /\ h \in Nat /\ s <= h
      /\ h <= MaxFrames /\ Len(F) \in Nat /\ F \in Seq(Utterance)
      /\ b \in Buffer /\ P \in Position
  BY BufferIs
<1>2. /\ b.pcm = Frames(s, h) /\ Len(F) <= s
      /\ \A i \in 1 .. Len(F) : End(F[i]) <= s
      /\ E[Len(E)].at <= s
      /\ EventsOK(E, h, P.on) /\ P.on
      /\ FinalsOK(F, P)
      /\ \A k \in FrameNumber : Spoken(E, h, k) <=> Covered(b, k)
  BY DEF BufferOK, OpenOK
<1>3. /\ u \in Utterance /\ FinalOK(u, Len(F) + 1)
      /\ u.start = s /\ End(u) = s + cut
      /\ End(u) \in Nat /\ End(u) <= h
      /\ FinalsOK(G, P)
      /\ ~StartsBetween(E, u.start, h)
  BY HeadCommitted
<1>4. /\ c.pcm = SubSeq(b.pcm, cut + 1, Len(b.pcm)) /\ c.start = s + cut
      /\ c.continues = carriesOn /\ c.partialAt = s + cut
      /\ c.partial = b.partial /\ c.finals = G
      /\ c = [pcm |-> c.pcm, start |-> c.start, continues |-> c.continues,
              partialAt |-> c.partialAt, partial |-> c.partial,
              finals |-> c.finals]
  BY <1>1 DEF Split, Rest, Continues, Finalize, Open, Buffer
<1>5. u.reason = reason
  OBVIOUS
<1>6. cut \in Nat /\ cut >= 1 /\ cut <= h - s /\ s + cut \in Nat
  BY <1>1
<1>7. Covered(b, 0) \in BOOLEAN /\ b.partial \in {None} \cup 0 .. MaxFrames
  BY <1>1 DEF Covered, Buffer
<1> HIDE DEF u
<1>8. /\ G \in Seq(Utterance) /\ Len(G) = Len(F) + 1
      /\ \A i \in 1 .. Len(F) : G[i] = F[i]
      /\ G[Len(F) + 1] = u
  BY <1>1, <1>3, AppendProperties
<1> HIDE DEF G, F, s, h, E
<1>9. c.pcm = Frames(s + cut, h)
  <2>1. cut \in 1 .. h - s
    BY <1>1, <1>6
  <2>2. SubSeq(Frames(s, h), cut + 1, Len(Frames(s, h))) = Frames(s + cut, h)
    BY <1>1, <2>1, FramesCut
  <2> QED
    BY <1>2, <1>4, <2>2
<1>10. c.pcm \in Seq(FrameNumber) /\ Len(c.pcm) = h - (s + cut)
  <2> DEFINE z == s + cut
  <2>1. z \in Nat /\ h \in Nat /\ z <= h /\ h <= MaxFrames
    BY <1>1, <1>6
  <2>2. c.pcm = Frames(z, h)
    BY <1>9
  <2> HIDE DEF z
  <2>3. c.pcm \in Seq(FrameNumber) /\ Len(c.pcm) = h - z
    BY <2>1, <2>2, FramesHeld
  <2> QED
    BY <2>3 DEF z
<1>11. IsOpen(c) /\ IsOpen(b)
  BY <1>4, <1>6 DEF IsOpen, NoStart
<1>12. c \in Buffer
  <2>1. s + cut \in 0 .. MaxFrames
    BY <1>1, <1>6, SizesAssumption
  <2> QED
    BY <1>4, <1>7, <1>8, <1>10, <2>1 DEF Buffer
<1>13. Follows(b, c)
  <2>1. Len(F) < Len(G) /\ F = b.finals /\ s = b.start
    BY <1>1, <1>8 DEF F, s
  <2>2. /\ Len(b.finals) < Len(c.finals) /\ Len(b.finals) <= Len(c.finals)
        /\ c.finals[Len(b.finals) + 1].start = b.start
        /\ \A i \in 1 .. Len(b.finals) : c.finals[i] = b.finals[i]
    <3>1. /\ Len(F) < Len(G) /\ Len(F) <= Len(G) /\ G[Len(F) + 1].start = s
          /\ \A i \in 1 .. Len(F) : G[i] = F[i]
      BY <1>1, <1>3, <1>8
    <3>2. c.finals = G
      BY <1>4
    <3> QED
      BY <2>1, <3>1, <3>2
  <2> QED
    BY <2>2 DEF Follows
<1>14. \A i \in 1 .. Len(G) : End(G[i]) <= s + cut /\ Len(G) <= s + cut
  <2>1. ASSUME NEW i \in 1 .. Len(G)  PROVE End(G[i]) <= s + cut
    <3>1. CASE i \in 1 .. Len(F)
      <4>1. End(F[i]) \in Nat
        BY <1>1, <1>2, <3>1, UtteranceIs DEF FinalsOK
      <4> QED
        <5>1. G[i] = F[i] /\ End(F[i]) <= s
          BY <1>2, <1>8, <3>1
        <5> QED
          BY <1>1, <1>6, <4>1, <5>1
    <3>2. CASE i = Len(F) + 1
      BY <1>1, <1>3, <1>6, <1>8, <3>2
    <3> QED
      BY <1>1, <1>8, <3>1, <3>2
  <2> QED
    BY <1>1, <1>2, <1>6, <1>8, <2>1
<1>15. Len(G) <= s + cut
  BY <1>1, <1>2, <1>6, <1>8
<1>16. ~StartsBetween(E, s, s + cut)
  <2>1. \A i \in 1 .. Len(E) : E[i].at \in Nat
    BY <1>2, EventsAre DEF EventsOK
  <2>2. ~StartsBetween(E, s, h)
    BY <1>3
  <2> QED
    BY <1>1, <1>6, <2>1, <2>2 DEF StartsBetween
<1>17. c.continues <=> CarriesOn(G, Len(G) + 1, c.start, E)
  <2>1. Len(G) + 1 > 1 /\ (Len(G) + 1) - 1 = Len(F) + 1
    BY <1>1, <1>8
  <2> QED
    BY <1>3, <1>4, <1>5, <1>8, <1>16, <2>1, ZenonT(60) DEF CarriesOn
<1>18. E[Len(E)].at <= c.start
  <2>1. E[Len(E)].at \in Nat
    BY <1>2, EventsAre DEF EventsOK
  <2>2. E[Len(E)].at <= s
    BY <1>2
  <2>3. \A x \in Nat : x <= s => x <= s + cut
    BY <1>1, <1>6
  <2> QED
    BY <1>4, <2>1, <2>2, <2>3
<1>19. OpenOK(c, P)
  <2>1. c.start + Len(c.pcm) = P.heard /\ c.pcm = Frames(c.start, P.heard)
    BY <1>1, <1>4, <1>6, <1>9, <1>10 DEF h
  <2>2. c.finals = G /\ E = P.events /\ c.start = s + cut
    BY <1>4 DEF E
  <2> QED
    BY <1>11, <1>14, <1>15, <1>17, <1>18, <2>1, <2>2 DEF OpenOK
<1>20. ASSUME NEW k \in FrameNumber  PROVE Covered(b, k) <=> Covered(c, k)
  <2>1. k \in Nat
    BY SizesAssumption DEF FrameNumber
  <2>2. (\E i \in 1 .. Len(G) : Covers(G[i], k))
          <=> (\E i \in 1 .. Len(F) : Covers(F[i], k)) \/ Covers(u, k)
    <3>1. \A i \in 1 .. Len(G) : i \in 1 .. Len(F) \/ i = Len(F) + 1
      BY <1>1, <1>8
    <3>2. 1 .. Len(F) \subseteq 1 .. Len(G) /\ Len(F) + 1 \in 1 .. Len(G)
      BY <1>1, <1>8
    <3> QED
      BY <1>8, <3>1, <3>2
  <2>3. Covers(u, k) <=> s <= k /\ k < s + cut
    BY <1>3 DEF Covers
  <2>4. Covered(b, k) <=> \/ \E i \in 1 .. Len(F) : Covers(F[i], k)
                          \/ s <= k /\ k < h
    <3>1. b.start + Len(b.pcm) = h /\ b.start = s
      BY <1>1 DEF s
    <3> QED
      BY <1>11, <3>1 DEF Covered, F
  <2>5. Covered(c, k) <=> \/ \E i \in 1 .. Len(G) : Covers(G[i], k)
                          \/ s + cut <= k /\ k < h
    <3>1. c.start + Len(c.pcm) = h /\ c.start = s + cut
      BY <1>1, <1>4, <1>6, <1>10
    <3> QED
      BY <1>4, <1>11, <3>1 DEF Covered
  <2>6. s <= k /\ k < h
          <=> (s <= k /\ k < s + cut) \/ (s + cut <= k /\ k < h)
    BY <1>1, <1>6, <2>1
  <2> QED
    BY <2>2, <2>3, <2>4, <2>5, <2>6
<1>21. BufferOK(c, P)
  BY <1>1, <1>2, <1>3, <1>4, <1>11, <1>12, <1>19, <1>20
     DEF BufferOK, h, E
<1>22. Len(c.pcm) = Len(b.pcm) - cut
  BY <1>1, <1>6, <1>10
<1> QED
  BY <1>4, <1>8, <1>11, <1>13, <1>21, <1>22 DEF F

(* The end of a segment: the open utterance is committed, or was empty. *)
LEMMA BufferClosed ==
  ASSUME NEW b, NEW P, BufferOK(b, P), IsOpen(b), Len(b.pcm) <= MaxLen,
         NEW reason \in Reason,
         NEW c, c = IF b.pcm # <<>> THEN Finalize(b, reason)
                                    ELSE DiscardOpen(b)
  PROVE  /\ BufferOK(c, Ended(P)) /\ ~IsOpen(c) /\ Follows(b, c)
         /\ c.pcm = <<>> /\ c.partial = b.partial
         /\ Len(c.finals) =
              IF b.pcm # <<>> THEN Len(b.finals) + 1 ELSE Len(b.finals)
<1> DEFINE Q == Ended(P)
           F == b.finals
           G == c.finals
           s == b.start
           h == P.heard
<1>1. /\ Len(b.pcm) = h - s /\ s \in Nat /\ h \in Nat /\ s <= h
      /\ h \in 0 .. MaxFrames /\ Len(F) \in Nat /\ F \in Seq(Utterance)
      /\ b \in Buffer /\ P \in Position /\ Len(b.pcm) \in Nat
      /\ b.pcm = <<>> <=> Len(b.pcm) = 0
      /\ b.pcm \in Seq(FrameNumber)
  BY BufferIs
<1>2. /\ EventsOK(P.events, h, TRUE) /\ FinalsOK(F, P) /\ Len(F) <= h
      /\ \A k \in FrameNumber : Spoken(P.events, h, k) <=> Covered(b, k)
      /\ h = P.heard
  BY DEF BufferOK, FinalsOK, Position
<1>3. /\ Q.events = WithEnd(P.events, h) /\ Q.heard = h /\ Q.on = FALSE
      /\ Q = [events |-> Q.events, heard |-> Q.heard, on |-> Q.on]
  BY DEF Ended
<1> HIDE DEF Q, F, G, s, h
<1>4. /\ EventsOK(Q.events, h, FALSE)
      /\ \A a, z \in Nat : Within(Q.events, h, a, z) <=> Within(P.events, h, a, z)
      /\ \A a, z \in Nat : StartsBetween(Q.events, a, z)
                             <=> StartsBetween(P.events, a, z)
  <2> DEFINE D == Q.events
             E == P.events
  <2>1. h \in 0 .. MaxFrames
    BY <1>1
  <2>2. EventsOK(E, h, TRUE)
    BY <1>2
  <2>3. D = WithEnd(E, h)
    BY <1>3
  <2> HIDE DEF D, E
  <2>4. /\ EventsOK(D, h, FALSE)
        /\ \A a, z \in Nat : Within(D, h, a, z) <=> Within(E, h, a, z)
        /\ \A a, z \in Nat : StartsBetween(D, a, z) <=> StartsBetween(E, a, z)
    BY <2>1, <2>2, <2>3, SegmentClosedAt
  <2> QED
    BY <2>4 DEF D, E
<1>5. Q \in Position
  BY <1>1, <1>3, <1>4 DEF Position, EventsOK
<1>6. ASSUME NEW H \in Seq(Utterance), FinalsOK(H, P)  PROVE FinalsOK(H, Q)
  <2>1. P.heard <= Q.heard
    BY <1>1, <1>2, <1>3
  <2>2. /\ \A a, z \in Nat : Within(P.events, P.heard, a, z)
                               => Within(Q.events, Q.heard, a, z)
        /\ \A a, z \in Nat : z < P.heard =>
             (StartsBetween(P.events, a, z) <=> StartsBetween(Q.events, a, z))
    BY <1>2, <1>3, <1>4
  <2> QED
    BY <1>1, <1>5, <1>6, <2>1, <2>2, FinalsStay
<1>7. /\ c.pcm = <<>> /\ c.start = NoStart /\ c.continues = FALSE
      /\ c.partialAt = b.partialAt /\ c.partial = b.partial
      /\ c = [pcm |-> c.pcm, start |-> c.start, continues |-> c.continues,
              partialAt |-> c.partialAt, partial |-> c.partial,
              finals |-> c.finals]
  BY <1>1 DEF Finalize, DiscardOpen, Buffer
<1>8. /\ b.partialAt \in 0 .. MaxFrames
      /\ b.partial \in {None} \cup 0 .. MaxFrames
  BY <1>1 DEF Buffer
<1>9. ~IsOpen(c) /\ OpenOK(c, Q)
  BY <1>7 DEF IsOpen, OpenOK
<1>10. ASSUME G \in Seq(Utterance), FinalsOK(G, P),
              \A k \in FrameNumber :
                Covered(b, k) <=> \E i \in 1 .. Len(G) : Covers(G[i], k)
       PROVE  BufferOK(c, Q)
  <2>1. c \in Buffer
    <3>1. c.pcm \in Seq(FrameNumber)
      BY <1>7, EmptySeq
    <3> QED
      BY <1>7, <1>8, <1>10, <3>1 DEF Buffer, G
  <2>2. \A k \in FrameNumber : Spoken(Q.events, Q.heard, k) <=> Covered(c, k)
    <3>1. ASSUME NEW k \in FrameNumber
          PROVE  Spoken(Q.events, h, k) <=> Spoken(P.events, h, k)
      <4>1. k \in Nat /\ k + 1 \in Nat
        BY SizesAssumption DEF FrameNumber
      <4> QED
        BY <1>4, <4>1 DEF Spoken
    <3> QED
      BY <1>2, <1>3, <1>9, <1>10, <3>1 DEF Covered, G
  <2> QED
    BY <1>3, <1>4, <1>5, <1>6, <1>9, <1>10, <2>1, <2>2 DEF BufferOK, G
<1>11. CASE b.pcm = <<>>
  <2>1. G = F
    BY <1>1, <1>11 DEF DiscardOpen, Buffer, F, G
  <2>2. h = s /\ Len(b.pcm) = 0
    BY <1>1, <1>11
  <2>3. \A k \in FrameNumber :
          Covered(b, k) <=> \E i \in 1 .. Len(G) : Covers(G[i], k)
    <3>1. \A k \in FrameNumber : ~(b.start <= k /\ k < b.start + Len(b.pcm))
      BY <1>1, <2>2, SizesAssumption DEF FrameNumber, s
    <3> QED
      BY <2>1, <3>1 DEF Covered, F
  <2>4. BufferOK(c, Q)
    BY <1>1, <1>2, <1>10, <2>1, <2>3
  <2>5. Follows(b, c)
    <3>1. c.finals = b.finals /\ Len(b.finals) \in Nat
      BY <1>1, <2>1 DEF F, G
    <3> QED
      BY <1>11, <3>1 DEF Follows
  <2> QED
    BY <1>7, <1>9, <1>11, <2>1, <2>4, <2>5 DEF Q, F, G
<1>12. CASE b.pcm # <<>>
  <2> DEFINE n == Len(b.pcm)
             u == [index |-> Len(b.finals), pcm |-> SubSeq(b.pcm, 1, n),
                   start |-> b.start, reason |-> reason,
                   continues |-> b.continues]
  <2>1. SubSeq(b.pcm, 1, n) = b.pcm
    <3>1. \A i \in 1 .. n : b.pcm[i] \in FrameNumber
      BY <1>1
    <3>2. n >= 1
      BY <1>1, <1>12
    <3> DEFINE q == SubSeq(b.pcm, 1, n)
    <3>3. q \in Seq(FrameNumber) /\ Len(q) = n /\ \A i \in 1 .. n : q[i] = b.pcm[i]
      BY <1>1, <3>1, <3>2, SubSeqProperties
    <3> HIDE DEF q
    <3>4. q = b.pcm
      BY <1>1, <3>3, SeqEqual
    <3> QED
      BY <3>4 DEF q
  <2>2. G = Append(F, u)
    BY <1>1, <1>12, <2>1 DEF Finalize, Buffer, F, G
  <2>3. n \in 1 .. Len(b.pcm) /\ n <= MaxLen
    BY <1>1, <1>12
  <2>4. /\ u \in Utterance /\ u.start = s /\ End(u) = s + n
        /\ FinalsOK(Append(F, u), P)
    BY <2>3, HeadCommitted DEF F, s
  <2> HIDE DEF u
  <2>5. /\ G \in Seq(Utterance) /\ Len(G) = Len(F) + 1
        /\ \A i \in 1 .. Len(F) : G[i] = F[i]
        /\ G[Len(F) + 1] = u
    <3> DEFINE A == Append(F, u)
    <3>1. /\ A \in Seq(Utterance) /\ Len(A) = Len(F) + 1
          /\ \A i \in 1 .. Len(F) : A[i] = F[i]
          /\ A[Len(F) + 1] = u
      BY <1>1, <2>4, AppendProperties
    <3> QED
      BY <2>2, <3>1
  <2>6. ASSUME NEW k \in FrameNumber
        PROVE  Covered(b, k) <=> \E i \in 1 .. Len(G) : Covers(G[i], k)
    <3>1. \A i \in 1 .. Len(G) : i \in 1 .. Len(F) \/ i = Len(F) + 1
      BY <1>1, <2>5
    <3>2. 1 .. Len(F) \subseteq 1 .. Len(G) /\ Len(F) + 1 \in 1 .. Len(G)
      BY <1>1, <2>5
    <3>3. Covers(u, k) <=> b.start <= k /\ k < b.start + Len(b.pcm)
      BY <2>4 DEF Covers, s
    <3>4. (\E i \in 1 .. Len(G) : Covers(G[i], k))
            <=> (\E i \in 1 .. Len(F) : Covers(F[i], k)) \/ Covers(u, k)
      BY <2>5, <3>1, <3>2
    <3> QED
      BY <3>3, <3>4 DEF Covered, F
  <2>7. BufferOK(c, Q)
    BY <1>10, <2>2, <2>4, <2>5, <2>6
  <2>8. Follows(b, c)
    <3>1. Len(F) < Len(G)
      BY <1>1, <2>5
    <3> QED
      BY <1>1, <2>4, <2>5, <3>1 DEF Follows, F, G, s
  <2> QED
    BY <1>7, <1>9, <1>12, <2>5, <2>7, <2>8 DEF Q, F, G
<1> QED
  BY <1>11, <1>12

(* What a span is. *)
LEMMA SpanIs ==
  ASSUME NEW P \in Position, NEW s, SpanOK(s, P)
  PROVE  /\ s.start \in Nat /\ s.start \in 0 .. MaxFrames
         /\ Len(s.pcm) \in Nat /\ s.pcm \in Seq(FrameNumber)
         /\ s.pcm = <<>> <=> Len(s.pcm) = 0
         /\ s.start + Len(s.pcm) \in Nat
         /\ s.start + Len(s.pcm) \in 0 .. MaxFrames
         /\ WithAudio(s, P).heard = s.start + Len(s.pcm)
         /\ WithAudio(s, P).on = TRUE
         /\ s.opens \in BOOLEAN /\ s.closes \in BOOLEAN
<1>1. /\ s.start \in 0 .. MaxFrames /\ s.pcm \in Seq(FrameNumber)
      /\ s.opens \in BOOLEAN /\ s.closes \in BOOLEAN
      /\ s.start + Len(s.pcm) <= MaxFrames
  BY DEF SpanOK, Span
<1>2. Len(s.pcm) \in Nat /\ (s.pcm = <<>> <=> Len(s.pcm) = 0)
  BY <1>1, EmptySeq
<1> QED
  BY <1>1, <1>2, SizesAssumption DEF WithAudio

(* A span that opens a segment, at the buffer between two. *)
LEMMA BufferOpens ==
  ASSUME NEW b, NEW P, BufferOK(b, P), NEW s, SpanOK(s, P), s.opens,
         NEW g, g = Taken(b, s)
  PROVE  /\ ~IsOpen(b) /\ BufferOK(g, WithAudio(s, P)) /\ IsOpen(g)
         /\ Follows(b, g) /\ g.partial = b.partial
         /\ Len(g.pcm) = Len(b.pcm) + Len(s.pcm)
<1> DEFINE R == WithAudio(s, P)
           F == b.finals
           E == P.events
           D == R.events
           h == P.heard
           k == s.start
           m == s.start + Len(s.pcm)
<1>1. /\ b \in Buffer /\ P \in Position /\ h \in Nat
      /\ F \in Seq(Utterance) /\ Len(F) \in Nat
      /\ \A i \in 1 .. Len(F) :
           /\ F[i] \in Utterance
           /\ F[i].start \in Nat /\ End(F[i]) \in Nat
           /\ F[i].start < End(F[i])
  BY BufferIs
<1>2. /\ k \in Nat /\ k \in 0 .. MaxFrames /\ Len(s.pcm) \in Nat
      /\ s.pcm \in Seq(FrameNumber) /\ m \in Nat /\ m \in 0 .. MaxFrames
      /\ R.heard = m /\ R.on = TRUE
  BY <1>1, SpanIs
<1>3. ~P.on /\ h <= k /\ s.pcm # <<>> /\ s.pcm = Frames(k, m)
  BY DEF SpanOK
<1>4. P.on \in BOOLEAN /\ k <= m /\ h <= m
  BY <1>1, <1>2, <1>3 DEF Position
<1>5. /\ ~IsOpen(b) /\ b.pcm = <<>> /\ b.continues = FALSE
      /\ EventsOK(E, h, FALSE) /\ FinalsOK(F, P) /\ Len(F) <= h
      /\ \A j \in FrameNumber : Spoken(E, h, j) <=> Covered(b, j)
  BY <1>1, <1>3, <1>4 DEF BufferOK, OpenOK, FinalsOK, Buffer
<1>6. D = WithStart(E, k)
  BY DEF WithAudio
<1>7. R = [events |-> R.events, heard |-> R.heard, on |-> R.on]
  BY DEF WithAudio
<1>8. /\ g.pcm = b.pcm \o s.pcm /\ g.start = k /\ g.partialAt = k
      /\ g.continues = b.continues /\ g.partial = b.partial /\ g.finals = F
      /\ g = [pcm |-> g.pcm, start |-> g.start, continues |-> g.continues,
              partialAt |-> g.partialAt, partial |-> g.partial,
              finals |-> g.finals]
  BY <1>1, <1>5 DEF Taken, Open, Buffer
<1>9. b.partial \in {None} \cup 0 .. MaxFrames
  BY <1>1 DEF Buffer
<1> HIDE DEF R, F, E, D, h, k, m
<1>10. /\ EventsOK(D, m, TRUE) /\ D[Len(D)].at = k
       /\ \A a, z \in Nat :
            Within(D, m, a, z) <=> Within(E, h, a, z) \/ (k <= a /\ z <= m)
       /\ \A a, z \in Nat :
            StartsBetween(D, a, z)
              <=> StartsBetween(E, a, z) \/ (a < k /\ k <= z)
  <2>1. EventsOK(E, h, FALSE) /\ h \in Nat /\ k \in 0 .. MaxFrames /\ m \in Nat
    BY <1>1, <1>2, <1>5
  <2>2. h <= k /\ k <= m
    BY <1>3, <1>4
  <2> QED
    BY <1>6, <2>1, <2>2, SegmentOpened, Zenon
<1>11. R \in Position
  BY <1>2, <1>7, <1>10 DEF Position, EventsOK, D
<1>12. FinalsOK(F, R)
  <2>1. P.heard <= R.heard
    BY <1>2, <1>4 DEF h
  <2>2. /\ \A a, z \in Nat : Within(P.events, P.heard, a, z)
                               => Within(R.events, R.heard, a, z)
        /\ \A a, z \in Nat : z < P.heard =>
             (StartsBetween(P.events, a, z) <=> StartsBetween(R.events, a, z))
    <3>1. /\ \A a, z \in Nat : Within(E, h, a, z) => Within(D, m, a, z)
          /\ \A a, z \in Nat : z < h =>
               (StartsBetween(E, a, z) <=> StartsBetween(D, a, z))
      BY <1>1, <1>2, <1>3, <1>10
    <3> QED
      BY <1>2, <3>1 DEF E, D, h
  <2> QED
    BY <1>1, <1>5, <1>11, <2>1, <2>2, FinalsStay
<1>13. g.pcm = Frames(k, m) /\ g.pcm \in Seq(FrameNumber) /\ Len(g.pcm) = m - k
  <2>1. g.pcm = s.pcm
    BY <1>2, <1>5, <1>8, ConcatEmptySeq
  <2>2. m <= MaxFrames
    BY <1>2, SizesAssumption
  <2>3. k \in Nat /\ m \in Nat /\ k <= m /\ g.pcm = Frames(k, m)
    BY <1>2, <1>3, <1>4, <2>1
  <2> QED
    BY <2>2, <2>3, FramesHeld
<1>14. IsOpen(g)
  BY <1>2, <1>8 DEF IsOpen, NoStart
<1>15. g \in Buffer
  BY <1>1, <1>2, <1>5, <1>8, <1>9, <1>13 DEF Buffer
<1>16. \A i \in 1 .. Len(F) : End(F[i]) <= k
  <2>1. \A i \in 1 .. Len(F) : End(F[i]) <= h
    BY <1>5 DEF FinalsOK, h
  <2> QED
    BY <1>1, <1>2, <1>3, <2>1
<1>17. ~CarriesOn(F, Len(F) + 1, k, D)
  <2>1. CASE Len(F) = 0
    BY <2>1 DEF CarriesOn
  <2>2. CASE Len(F) # 0
    <3>1. Len(F) \in 1 .. Len(F) /\ (Len(F) + 1) - 1 = Len(F)
      BY <1>1, <2>2
    <3>2. F[Len(F)].start \in Nat /\ F[Len(F)].start < k
      BY <1>1, <1>2, <1>16, <3>1
    <3>3. StartsBetween(D, F[Len(F)].start, k)
      BY <1>2, <1>10, <3>2
    <3> QED
      BY <3>1, <3>3 DEF CarriesOn
  <2> QED
    BY <2>1, <2>2
<1>18. OpenOK(g, R)
  <2>1. /\ g.finals = F /\ R.events = D /\ R.heard = m /\ g.start = k
        /\ g.start + Len(g.pcm) = m /\ g.pcm = Frames(g.start, m)
        /\ D[Len(D)].at <= k /\ Len(F) <= k /\ g.continues = FALSE
    <3>1. g.start = k /\ g.continues = FALSE /\ g.finals = F
      BY <1>5, <1>8
    <3>2. g.start + Len(g.pcm) = m
      BY <1>2, <1>13, <3>1
    <3>3. D[Len(D)].at <= k /\ Len(F) <= k
      BY <1>1, <1>2, <1>3, <1>5, <1>10
    <3>4. R.events = D
      BY DEF D
    <3> QED
      BY <1>2, <1>13, <3>1, <3>2, <3>3, <3>4
  <2> QED
    BY <1>14, <1>16, <1>17, <2>1 DEF OpenOK
<1>19. ASSUME NEW j \in FrameNumber
       PROVE  Spoken(D, m, j) <=> Covered(g, j)
  <2>1. j \in Nat /\ j + 1 \in Nat
    BY SizesAssumption DEF FrameNumber
  <2>2. Spoken(D, m, j) <=> Spoken(E, h, j) \/ (k <= j /\ j + 1 <= m)
    BY <1>10, <2>1 DEF Spoken
  <2>3. Covered(b, j) <=> \E i \in 1 .. Len(F) : Covers(F[i], j)
    BY <1>5 DEF Covered, F
  <2>4. g.start = k /\ g.start + Len(g.pcm) = m /\ g.finals = F
    <3>1. g.start = k /\ g.finals = F
      BY <1>8
    <3> QED
      BY <1>2, <1>13, <3>1
  <2>5. Covered(g, j) <=> \/ \E i \in 1 .. Len(F) : Covers(F[i], j)
                          \/ k <= j /\ j < m
    BY <1>14, <2>4 DEF Covered
  <2>6. j + 1 <= m <=> j < m
    BY <1>2, <2>1
  <2> QED
    BY <1>5, <2>2, <2>3, <2>5, <2>6
<1>20. BufferOK(g, R)
  BY <1>2, <1>8, <1>10, <1>11, <1>12, <1>14, <1>15, <1>18, <1>19
     DEF BufferOK, D
<1>21. Follows(b, g)
  <2>1. g.finals = b.finals /\ Len(b.finals) \in Nat
    BY <1>1, <1>8 DEF F
  <2> QED
    BY <1>5, <2>1 DEF Follows
<1>22. Len(g.pcm) = Len(b.pcm) + Len(s.pcm)
  <2>1. Len(b.pcm) = 0
    BY <1>5
  <2>2. m - k = Len(s.pcm)
    BY <1>2 DEF m, k
  <2> QED
    BY <1>2, <1>13, <2>1, <2>2
<1> QED
  BY <1>5, <1>8, <1>14, <1>20, <1>21, <1>22 DEF R

(* A span of the segment that is open. *)
LEMMA BufferGoesOn ==
  ASSUME NEW b, NEW P, BufferOK(b, P), NEW s, SpanOK(s, P), ~s.opens,
         NEW g, g = Taken(b, s)
  PROVE  /\ IsOpen(b) /\ BufferOK(g, WithAudio(s, P)) /\ IsOpen(g)
         /\ Follows(b, g) /\ g.partial = b.partial
         /\ Len(g.pcm) = Len(b.pcm) + Len(s.pcm)
<1> DEFINE R == WithAudio(s, P)
           F == b.finals
           E == P.events
           h == P.heard
           k == b.start
           m == s.start + Len(s.pcm)
           l == E[Len(E)].at
<1>1. /\ b \in Buffer /\ P \in Position /\ h \in Nat
      /\ F \in Seq(Utterance) /\ Len(F) \in Nat
      /\ IsOpen(b) => k \in 0 .. MaxFrames /\ k \in Nat
                      /\ Len(b.pcm) = h - k /\ k <= h
      /\ b.pcm \in Seq(FrameNumber)
      /\ b.pcm = <<>> <=> Len(b.pcm) = 0
  BY BufferIs
<1>2. /\ s.start \in Nat /\ Len(s.pcm) \in Nat
      /\ s.pcm \in Seq(FrameNumber) /\ m \in Nat /\ m \in 0 .. MaxFrames
      /\ R.heard = m /\ R.on = TRUE
  BY <1>1, SpanIs
<1>3. P.on /\ s.start = h /\ s.pcm = Frames(h, m) /\ m = h + Len(s.pcm)
  BY DEF SpanOK
<1>4. P.on = TRUE /\ h <= m
  BY <1>1, <1>2, <1>3 DEF Position
<1>5. /\ IsOpen(b) /\ EventsOK(E, h, TRUE) /\ FinalsOK(F, P)
      /\ \A j \in FrameNumber : Spoken(E, h, j) <=> Covered(b, j)
  BY <1>4 DEF BufferOK
<1>6. /\ b.pcm = Frames(k, h) /\ l <= k /\ Len(F) <= k
      /\ \A i \in 1 .. Len(F) : End(F[i]) <= k
      /\ b.continues <=> CarriesOn(F, Len(F) + 1, k, E)
  BY <1>5 DEF BufferOK, OpenOK
<1>7. /\ R.events = E
      /\ R = [events |-> R.events, heard |-> R.heard, on |-> R.on]
  BY DEF WithAudio
<1>8. /\ g.pcm = b.pcm \o s.pcm /\ g.start = k /\ g.partialAt = b.partialAt
      /\ g.continues = b.continues /\ g.partial = b.partial /\ g.finals = F
      /\ g = [pcm |-> g.pcm, start |-> g.start, continues |-> g.continues,
              partialAt |-> g.partialAt, partial |-> g.partial,
              finals |-> g.finals]
  BY <1>1, <1>5 DEF Taken, Buffer
<1>9. /\ b.partial \in {None} \cup 0 .. MaxFrames /\ b.continues \in BOOLEAN
      /\ b.partialAt \in 0 .. MaxFrames
  BY <1>1 DEF Buffer
<1>10. /\ l \in Nat /\ Len(E) \in 1 .. Len(E) /\ Starts(E, Len(E))
       /\ Until(E, Len(E), h) = h
  BY <1>5, EventsAre DEF EventsOK, Until
<1>11. l = E[Len(E)].at
  OBVIOUS
<1> HIDE DEF R, F, E, h, k, m, l
<1>12. /\ EventsOK(E, m, TRUE)
       /\ \A a, z \in Nat :
            Within(E, m, a, z) <=> Within(E, h, a, z) \/ (l <= a /\ z <= m)
  BY <1>1, <1>2, <1>4, <1>5, <1>11, SegmentLonger
<1>13. R \in Position
  BY <1>2, <1>7, <1>12 DEF Position, EventsOK
<1>14. FinalsOK(F, R)
  <2>1. P.heard <= R.heard
    BY <1>2, <1>4 DEF h
  <2>2. /\ \A a, z \in Nat : Within(P.events, P.heard, a, z)
                               => Within(R.events, R.heard, a, z)
        /\ \A a, z \in Nat : z < P.heard =>
             (StartsBetween(P.events, a, z) <=> StartsBetween(R.events, a, z))
    <3>1. \A a, z \in Nat : Within(E, h, a, z) => Within(E, m, a, z)
      BY <1>12
    <3> QED
      BY <1>2, <1>7, <3>1 DEF E, h
  <2> QED
    BY <1>1, <1>5, <1>13, <2>1, <2>2, FinalsStay
<1>15. g.pcm = Frames(k, m) /\ g.pcm \in Seq(FrameNumber) /\ Len(g.pcm) = m - k
  <2>1. g.pcm = Frames(k, m)
    <3>1. k \in Nat /\ h \in Nat /\ m \in Nat /\ k <= h /\ h <= m
      BY <1>1, <1>2, <1>4, <1>5
    <3>2. g.pcm = Frames(k, h) \o Frames(h, m)
      BY <1>3, <1>6, <1>8
    <3> QED
      BY <3>1, <3>2, FramesMeet
  <2>2. m <= MaxFrames /\ k \in Nat /\ k <= m /\ m \in Nat
    BY <1>1, <1>2, <1>4, <1>5, SizesAssumption
  <2> QED
    BY <2>1, <2>2, FramesHeld
<1>16. IsOpen(g)
  BY <1>5, <1>8 DEF IsOpen, k
<1>17. g \in Buffer
  BY <1>1, <1>5, <1>8, <1>9, <1>15 DEF Buffer
<1>18. OpenOK(g, R)
  <2>1. /\ g.finals = F /\ R.events = E /\ R.heard = m /\ g.start = k
        /\ g.start + Len(g.pcm) = m /\ g.pcm = Frames(g.start, m)
        /\ E[Len(E)].at <= k /\ Len(F) <= k /\ g.continues = b.continues
    BY <1>1, <1>2, <1>5, <1>6, <1>7, <1>8, <1>11, <1>15
  <2> QED
    BY <1>6, <1>16, <2>1 DEF OpenOK
<1>19. ASSUME NEW j \in FrameNumber
       PROVE  Spoken(E, m, j) <=> Covered(g, j)
  <2>1. j \in Nat /\ j + 1 \in Nat
    BY SizesAssumption DEF FrameNumber
  <2>2. Spoken(E, m, j) <=> Spoken(E, h, j) \/ (l <= j /\ j + 1 <= m)
    BY <1>12, <2>1 DEF Spoken
  <2>3. Covered(b, j) <=> \/ \E i \in 1 .. Len(F) : Covers(F[i], j)
                          \/ k <= j /\ j < h
    <3>1. b.start + Len(b.pcm) = h /\ b.start = k
      BY <1>1, <1>5 DEF k
    <3> QED
      BY <1>5, <3>1 DEF Covered, F
  <2>4. g.start = k /\ g.start + Len(g.pcm) = m /\ g.finals = F
    BY <1>1, <1>2, <1>5, <1>8, <1>15
  <2>5. Covered(g, j) <=> \/ \E i \in 1 .. Len(F) : Covers(F[i], j)
                          \/ k <= j /\ j < m
    BY <1>16, <2>4 DEF Covered
  <2>6. l <= j /\ j + 1 <= h => Spoken(E, h, j)
    BY <1>10, <1>11 DEF Spoken, Within
  <2>7. /\ l <= j /\ j + 1 <= m => (l <= j /\ j + 1 <= h) \/ (k <= j /\ j < m)
        /\ k <= j /\ j < m => l <= j /\ j + 1 <= m
        /\ k <= j /\ j < h => k <= j /\ j < m
    BY <1>1, <1>2, <1>4, <1>5, <1>6, <1>10, <2>1
  <2> QED
    BY <1>5, <2>2, <2>3, <2>5, <2>6, <2>7
<1>20. BufferOK(g, R)
  BY <1>2, <1>7, <1>8, <1>12, <1>13, <1>14, <1>16, <1>17, <1>18, <1>19
     DEF BufferOK
<1>21. Len(g.pcm) = Len(b.pcm) + Len(s.pcm)
  <2>1. Len(b.pcm) = h - k /\ Len(g.pcm) = m - k /\ m = h + Len(s.pcm)
    BY <1>1, <1>3, <1>5, <1>15
  <2>2. h \in Nat /\ k \in Nat /\ m \in Nat /\ Len(s.pcm) \in Nat
    BY <1>1, <1>2, <1>5
  <2> QED
    BY <2>1, <2>2
<1>22. Follows(b, g)
  <2>1. g.finals = b.finals /\ Len(b.finals) \in Nat /\ g.start = b.start
    BY <1>1, <1>8 DEF F, k
  <2>2. b.pcm # <<>> => g.pcm # <<>>
    <3>1. ASSUME b.pcm # <<>>  PROVE Len(g.pcm) # 0
      <4>1. Len(b.pcm) \in Nat /\ Len(b.pcm) # 0
        BY <3>1, BufferIs
      <4> QED
        <5>1. Len(s.pcm) \in Nat
          BY <1>2
        <5>2. \A x, y \in Nat : x # 0 => x + y # 0
          OBVIOUS
        <5> QED
          BY <1>21, <4>1, <5>1, <5>2, Zenon
    <3> QED
      BY <3>1, EmptySeq
  <2> QED
    BY <1>16, <2>1, <2>2 DEF Follows
<1> QED
  BY <1>5, <1>8, <1>16, <1>20, <1>21, <1>22 DEF R

(* What follows what follows a buffer follows it, and so does itself. *)
LEMMA FollowsItself ==
  ASSUME NEW b, Len(b.finals) \in Nat
  PROVE  Follows(b, b)
BY DEF Follows

(* Following composes. *)
LEMMA FollowsAfter ==
  ASSUME NEW b, NEW c, NEW d, Len(b.finals) \in Nat, Len(c.finals) \in Nat,
         Len(d.finals) \in Nat, Follows(b, c), Follows(c, d)
  PROVE  Follows(b, d)
<1> DEFINE nb == Len(b.finals)
           nc == Len(c.finals)
           nd == Len(d.finals)
<1>1. /\ nb <= nc /\ \A i \in 1 .. nb : c.finals[i] = b.finals[i]
      /\ IsOpen(b) /\ b.pcm # <<>> =>
           IF nb < nc THEN c.finals[nb + 1].start = b.start
                      ELSE IsOpen(c) /\ c.pcm # <<>> /\ c.start = b.start
  BY DEF Follows
<1>2. /\ nc <= nd /\ \A i \in 1 .. nc : d.finals[i] = c.finals[i]
      /\ IsOpen(c) /\ c.pcm # <<>> =>
           IF nc < nd THEN d.finals[nc + 1].start = c.start
                      ELSE IsOpen(d) /\ d.pcm # <<>> /\ d.start = c.start
  BY DEF Follows
<1>3. nb \in Nat /\ nc \in Nat /\ nd \in Nat
  OBVIOUS
<1> SUFFICES /\ nb <= nd /\ \A i \in 1 .. nb : d.finals[i] = b.finals[i]
             /\ IsOpen(b) /\ b.pcm # <<>> =>
                  IF nb < nd
                    THEN d.finals[nb + 1].start = b.start
                    ELSE IsOpen(d) /\ d.pcm # <<>> /\ d.start = b.start
  BY DEF Follows
<1> HIDE DEF nb, nc, nd
<1>4. nb <= nd /\ \A i \in 1 .. nb : d.finals[i] = b.finals[i]
  BY <1>1, <1>2, <1>3
<1>5. ASSUME IsOpen(b), b.pcm # <<>>
      PROVE  IF nb < nd
               THEN d.finals[nb + 1].start = b.start
               ELSE IsOpen(d) /\ d.pcm # <<>> /\ d.start = b.start
  <2>1. CASE nb < nc
    <3>1. nb + 1 \in 1 .. nc /\ nb < nd
      BY <1>2, <1>3, <2>1
    <3> QED
      BY <1>1, <1>2, <1>5, <2>1, <3>1
  <2>2. CASE ~(nb < nc)
    <3>1. nb = nc
      BY <1>1, <1>3, <2>2
    <3> QED
      BY <1>1, <1>2, <1>5, <2>2, <3>1
  <2> QED
    BY <2>1, <2>2
<1> QED
  BY <1>4, <1>5

(* The anchor stays where it is. *)
LEMMA AnchorFollows ==
  ASSUME NEW b, NEW c, NEW a, Len(b.finals) \in Nat, Len(c.finals) \in Nat,
         a \in Anchor, AnchorOK(a, b), Follows(b, c)
  PROVE  AnchorOK(a, c)
<1> DEFINE nb == Len(b.finals)
           nc == Len(c.finals)
<1>1. /\ nb <= nc /\ \A i \in 1 .. nb : c.finals[i] = b.finals[i]
      /\ IsOpen(b) /\ b.pcm # <<>> =>
           IF nb < nc THEN c.finals[nb + 1].start = b.start
                      ELSE IsOpen(c) /\ c.pcm # <<>> /\ c.start = b.start
  BY DEF Follows
<1>2. /\ a.index <= nb
      /\ a.index = nb => IsOpen(b) /\ b.pcm # <<>> /\ a.from = 0
      /\ a.pcm # <<>> =>
           /\ a.index # None
           /\ a.pcm = Frames(AnchorStart(a, b), AnchorStart(a, b) + Window)
  BY DEF AnchorOK
<1>3. a.index = None \/ a.index \in Nat
  BY SizesAssumption DEF Anchor
<1>4. nb \in Nat /\ nc \in Nat
  OBVIOUS
<1>5. /\ AnchorStart(a, b) = IF a.index < nb
                               THEN b.finals[a.index + 1].start ELSE b.start
      /\ AnchorStart(a, c) = IF a.index < nc
                               THEN c.finals[a.index + 1].start ELSE c.start
  BY DEF AnchorStart
<1> SUFFICES /\ a.index <= nc
             /\ a.index = nc => IsOpen(c) /\ c.pcm # <<>> /\ a.from = 0
             /\ a.pcm # <<>> => a.index # None
             /\ a.index # None => AnchorStart(a, c) = AnchorStart(a, b)
  BY <1>2 DEF AnchorOK
<1> HIDE DEF nb, nc
<1>6. a.index <= nc
  BY <1>1, <1>2, <1>3, <1>4 DEF None
<1>7. ASSUME a.index = nc  PROVE IsOpen(c) /\ c.pcm # <<>> /\ a.from = 0
  <2>1. nb = nc
    BY <1>1, <1>2, <1>4, <1>7
  <2> QED
    BY <1>1, <1>2, <1>7, <2>1, <1>4
<1>8. ASSUME a.index # None  PROVE AnchorStart(a, c) = AnchorStart(a, b)
  <2>1. CASE a.index < nb
    <3>1. a.index + 1 \in 1 .. nb /\ a.index < nc
      BY <1>1, <1>3, <1>4, <1>8, <2>1
    <3> QED
      BY <1>1, <1>5, <2>1, <3>1
  <2>2. CASE ~(a.index < nb)
    <3>1. a.index = nb
      BY <1>2, <1>3, <1>4, <1>8, <2>2
    <3>2. IF nb < nc THEN c.finals[nb + 1].start = b.start
                     ELSE IsOpen(c) /\ c.pcm # <<>> /\ c.start = b.start
      BY <1>1, <1>2, <3>1
    <3> QED
      BY <1>4, <1>5, <3>1, <3>2
  <2> QED
    BY <2>1, <2>2
<1> QED
  BY <1>2, <1>6, <1>7, <1>8

(* quietest_split_point cuts something, and no more than there is. *)
LEMMA SplitPointIs ==
  ASSUME NEW limit \in Nat \ {0}, NEW dip \in Nat
  PROVE  SplitPoint(limit, dip) \in 1 .. limit
BY SizesAssumption DEF SplitPoint, Min2

(* One round of the while loop of push(). *)
LEMMA LengthCutIs ==
  ASSUME NEW b, NEW P, BufferOK(b, P), IsOpen(b), NEW dip \in Nat,
         NEW c, c = LengthCut(b, dip)
  PROVE  /\ BufferOK(c, P) /\ IsOpen(c) /\ Follows(b, c)
         /\ c.partial = b.partial
         /\ Len(b.pcm) < MaxLen => Len(c.pcm) < MaxLen
         /\ ~(Len(b.pcm) < MaxLen) => Len(c.pcm) < Len(b.pcm)
<1>1. Len(b.pcm) \in Nat /\ Len(b.finals) \in Nat /\ MaxLen \in Nat \ {0}
  BY BufferIs, SizesAssumption
<1>2. CASE Len(b.pcm) < MaxLen
  <2>1. c = b
    <3>1. ~TooLong(b)
      BY <1>1, <1>2 DEF TooLong
    <3> QED
      BY <3>1, Zenon DEF LengthCut
  <2> QED
    BY <1>1, <1>2, <2>1, FollowsItself
<1>3. CASE ~(Len(b.pcm) < MaxLen)
  <2> DEFINE cut == SplitPoint(MaxLen, dip)
  <2> DEFINE yes == TRUE
  <2>1. c = Split(b, cut, "max_duration", yes)
    <3>1. TooLong(b)
      BY <1>1, <1>3 DEF TooLong
    <3> QED
      BY <3>1, Zenon DEF LengthCut
  <2>2. cut \in 1 .. MaxLen
    BY <1>1, SplitPointIs
  <2> HIDE DEF cut
  <2>3. cut \in 1 .. Len(b.pcm) /\ cut <= MaxLen
    BY <1>1, <1>3, <2>2
  <2>4. "max_duration" \in Reason /\ yes = ("max_duration" = "max_duration")
    BY DEF Reason
  <2> HIDE DEF yes
  <2>5. BufferOK(c, P) /\ IsOpen(c) /\ Follows(b, c) /\ c.partial = b.partial
    BY <2>1, <2>3, <2>4, BufferSplit
  <2>6. Len(c.pcm) = Len(b.pcm) - cut
    BY <2>1, <2>3, <2>4, BufferSplit
  <2>7. Len(c.pcm) < Len(b.pcm)
    BY <1>1, <2>3, <2>6
  <2> QED
    BY <1>3, <2>5, <2>7
<1> QED
  BY <1>2, <1>3

(* The function the rounds are has its values: a longest one that has them *)
(* goes one further.                                                       *)
LEMMA CutsExist ==
  ASSUME NEW b, NEW dip, NEW n \in Nat
  PROVE  \E f : CutRounds(f, b, dip, n)
<1> DEFINE Good(f, m) == CutRounds(f, b, dip, m)
           Bad == {m \in Nat : ~\E f : Good(f, m)}
<1>1. Bad = {}
  <2> SUFFICES ASSUME Bad # {}  PROVE FALSE
    OBVIOUS
  <2>1. PICK m \in Bad : \A k \in Bad : m <= k
    <3>1. Bad \in SUBSET Nat
      OBVIOUS
    <3> HIDE DEF Bad
    <3> QED
      BY <3>1, LeastExists
  <2>2. CASE m = 0
    <3> DEFINE g == [i \in 0 .. 0 |-> b]
    <3>1. Good(g, 0)
      BY DEF CutRounds
    <3> QED
      BY <2>1, <2>2, <3>1
  <2>3. CASE m # 0
    <3>1. m - 1 \in Nat /\ ~(m <= m - 1)
      BY <2>1, <2>3
    <3>2. PICK f : Good(f, m - 1)
      BY <2>1, <3>1
    <3> DEFINE g == [i \in 0 .. m |->
                       IF i = 0 THEN b ELSE LengthCut(f[i - 1], dip)]
    <3>3. \A i \in 0 .. m : i # 0 => i - 1 \in 0 .. m - 1 /\ i - 1 \in 0 .. m
      BY <3>1
    <3>4. \A i \in 0 .. m - 1 : g[i] = f[i]
      BY <3>1, <3>2 DEF CutRounds
    <3>5. g = [i \in 0 .. m |->
                 IF i = 0 THEN b ELSE LengthCut(g[i - 1], dip)]
      BY <3>3, <3>4
    <3>6. Good(g, m)
      BY <3>5 DEF CutRounds
    <3> QED
      BY <2>1, <3>6
  <2> QED
    BY <2>2, <2>3
<1> QED
  BY <1>1

(* The while loop of push(): what is left is short enough. *)
LEMMA CutForLengthIs ==
  ASSUME NEW b, NEW P, BufferOK(b, P), IsOpen(b), NEW dip \in Nat,
         NEW c, c = CutForLength(b, dip)
  PROVE  /\ BufferOK(c, P) /\ IsOpen(c) /\ Follows(b, c)
         /\ c.partial = b.partial
         /\ Len(c.pcm) < MaxLen
<1> DEFINE n == Len(b.pcm)
           cut == CHOOSE f : CutRounds(f, b, dip, n)
<1>1. n \in Nat /\ Len(b.finals) \in Nat /\ MaxLen \in Nat \ {0}
  BY BufferIs, SizesAssumption
<1>2. c = cut[n]
  BY DEF CutForLength, CutRounds
<1>3. CutRounds(cut, b, dip, n)
  <2>1. \E f : CutRounds(f, b, dip, n)
    BY <1>1, CutsExist
  <2> QED
    BY <2>1
<1> HIDE DEF cut
<1>4. /\ cut[0] = b
      /\ \A i \in 0 .. n : i # 0 => cut[i] = LengthCut(cut[i - 1], dip)
  <2>1. \A i \in 0 .. n :
          cut[i] = IF i = 0 THEN b ELSE LengthCut(cut[i - 1], dip)
    BY <1>3 DEF CutRounds
  <2>2. 0 \in 0 .. n
    BY <1>1
  <2> QED
    BY <2>1, <2>2
<1> DEFINE Good(x, i) ==
             /\ BufferOK(x, P) /\ IsOpen(x) /\ Follows(b, x)
             /\ x.partial = b.partial
             /\ Len(x.pcm) < MaxLen \/ Len(x.pcm) + i <= n
           Bad == {i \in 0 .. n : ~Good(cut[i], i)}
<1>5. Bad = {}
  <2> SUFFICES ASSUME Bad # {}  PROVE FALSE
    OBVIOUS
  <2>1. PICK m \in Bad : \A k \in Bad : m <= k
    <3>1. Bad \in SUBSET Nat
      BY <1>1
    <3> HIDE DEF Bad
    <3> QED
      BY <3>1, LeastExists
  <2>2. m \in 0 .. n /\ ~Good(cut[m], m)
    BY <2>1
  <2>3. m # 0
    <3>1. Good(b, 0)
      BY <1>1, FollowsItself
    <3> HIDE DEF Good
    <3> QED
      BY <1>4, <2>2, <3>1
  <2>4. m - 1 \in 0 .. n /\ ~(m <= m - 1)
    BY <1>1, <2>2, <2>3
  <2>5. Good(cut[m - 1], m - 1)
    BY <2>1, <2>4
  <2> DEFINE x == cut[m - 1]
             y == cut[m]
  <2>6. y = LengthCut(x, dip)
    BY <1>4, <2>2, <2>3
  <2> HIDE DEF x, y
  <2>7. /\ BufferOK(x, P) /\ IsOpen(x) /\ Follows(b, x)
        /\ x.partial = b.partial
        /\ Len(x.pcm) < MaxLen \/ Len(x.pcm) + (m - 1) <= n
    BY <2>5 DEF x
  <2>8. /\ BufferOK(y, P) /\ IsOpen(y) /\ Follows(x, y)
        /\ y.partial = x.partial
        /\ Len(x.pcm) < MaxLen => Len(y.pcm) < MaxLen
        /\ ~(Len(x.pcm) < MaxLen) => Len(y.pcm) < Len(x.pcm)
    BY <2>6, <2>7, LengthCutIs
  <2>9. /\ Len(x.finals) \in Nat /\ Len(y.finals) \in Nat
        /\ Len(x.pcm) \in Nat /\ Len(y.pcm) \in Nat
    BY <2>7, <2>8, BufferIs
  <2>10. Follows(b, y)
    BY <1>1, <2>7, <2>8, <2>9, FollowsAfter
  <2>11. Len(y.pcm) < MaxLen \/ Len(y.pcm) + m <= n
    BY <1>1, <2>2, <2>7, <2>8, <2>9
  <2>12. Good(y, m)
    BY <2>7, <2>8, <2>10, <2>11
  <2> QED
    BY <2>2, <2>12 DEF y
<1>6. Good(cut[n], n)
  <2>1. n \in 0 .. n
    BY <1>1
  <2> QED
    BY <1>5, <2>1
<1>7. /\ BufferOK(c, P) /\ IsOpen(c) /\ Follows(b, c)
      /\ c.partial = b.partial
      /\ Len(c.pcm) < MaxLen \/ Len(c.pcm) + n <= n
  <2> HIDE DEF Good
  <2>1. Good(c, n)
    BY <1>2, <1>6
  <2> QED
    BY <2>1 DEF Good
<1>8. Len(c.pcm) \in Nat
  BY <1>7, BufferIs
<1>9. Len(c.pcm) < MaxLen
  <2>1. Len(c.pcm) < MaxLen \/ Len(c.pcm) + n <= n
    BY <1>7
  <2>2. \A x, y \in Nat : x + y <= y => x < MaxLen
    BY <1>1
  <2> QED
    BY <1>1, <1>8, <2>1, <2>2, Zenon
<1> QED
  BY <1>7, <1>9

(* push(), one span of it. *)
LEMMA SpanAbsorbed ==
  ASSUME NEW b, NEW P, BufferOK(b, P), NEW s, SpanOK(s, P), NEW dip \in Nat,
         NEW c, c = Absorb(b, s, dip)
  PROVE  /\ BufferOK(c, WithSpan(s, P)) /\ Follows(b, c)
         /\ c.partial = b.partial /\ Len(c.pcm) < MaxLen
<1> DEFINE g == Taken(b, s)
           f == CutForLength(g, dip)
           R == WithAudio(s, P)
<1>1. /\ P \in Position /\ P.on \in BOOLEAN /\ (IsOpen(b) <=> P.on)
      /\ MaxLen \in Nat \ {0}
  BY BufferIs, SizesAssumption DEF BufferOK
<1>2. /\ s.opens \in BOOLEAN /\ s.closes \in BOOLEAN
      /\ s.opens => ~P.on
      /\ ~s.opens => P.on
  BY <1>1, SpanIs DEF SpanOK
<1>3. s.opens <=> ~IsOpen(b)
  BY <1>1, <1>2
<1>4. c = IF s.closes /\ IsOpen(f)
            THEN IF f.pcm # <<>> THEN Finalize(f, "pause") ELSE DiscardOpen(f)
            ELSE f
  <2>1. (IF s.opens /\ IsOpen(b) THEN Finalize(b, "pause") ELSE b) = b
    BY <1>3
  <2>2. ~(~IsOpen(b) /\ ~s.opens /\ s.pcm = <<>>)
    BY <1>3
  <2>3. c = CASE ~IsOpen(b) /\ ~s.opens /\ s.pcm = <<>> -> b
              [] s.closes /\ IsOpen(f) /\ f.pcm # <<>> -> Finalize(f, "pause")
              [] s.closes /\ IsOpen(f) /\ f.pcm = <<>> -> DiscardOpen(f)
              [] OTHER -> f
    BY <2>1 DEF Absorb, Taken
  <2> HIDE DEF f
  <2> QED
    BY <2>2, <2>3
<1>5. /\ BufferOK(g, R) /\ IsOpen(g) /\ Follows(b, g)
      /\ g.partial = b.partial
  BY <1>3, BufferOpens, BufferGoesOn
<1> HIDE DEF g
<1>6. /\ BufferOK(f, R) /\ IsOpen(f) /\ Follows(g, f)
      /\ f.partial = g.partial /\ Len(f.pcm) < MaxLen
  BY <1>5, CutForLengthIs
<1> HIDE DEF f, R
<1>7. /\ Len(b.finals) \in Nat /\ Len(g.finals) \in Nat
      /\ Len(f.finals) \in Nat /\ Len(f.pcm) \in Nat
  BY <1>5, <1>6, BufferIs
<1>8. Follows(b, f)
  BY <1>5, <1>6, <1>7, FollowsAfter
<1>9. CASE ~s.closes
  <2>1. c = f /\ WithSpan(s, P) = R
    BY <1>4, <1>9 DEF WithSpan, R
  <2> QED
    BY <1>5, <1>6, <1>8, <2>1
<1>10. CASE s.closes
  <2>1. c = IF f.pcm # <<>> THEN Finalize(f, "pause") ELSE DiscardOpen(f)
    BY <1>4, <1>6, <1>10
  <2>2. WithSpan(s, P) = Ended(R)
    BY <1>10 DEF WithSpan, R
  <2>3. Len(f.pcm) <= MaxLen /\ "pause" \in Reason
    BY <1>1, <1>6, <1>7 DEF Reason
  <2>4. /\ BufferOK(c, Ended(R)) /\ Follows(f, c)
        /\ c.pcm = <<>> /\ c.partial = f.partial
    BY <1>6, <2>1, <2>3, BufferClosed
  <2>5. Len(c.finals) \in Nat
    BY <2>4, BufferIs
  <2>6. Follows(b, c)
    BY <1>7, <1>8, <2>4, <2>5, FollowsAfter
  <2>7. Len(c.pcm) < MaxLen
    BY <1>1, <2>4, EmptySeq
  <2> QED
    BY <1>5, <1>6, <2>2, <2>4, <2>6, <2>7
<1> QED
  BY <1>9, <1>10

(* The spans of a push one after another. *)
LEMMA SpansExist ==
  ASSUME NEW b, NEW spans, NEW dip, NEW n \in Nat
  PROVE  \E f : SpanRounds(f, b, spans, dip, n)
<1> DEFINE Good(f, m) == SpanRounds(f, b, spans, dip, m)
           Bad == {m \in Nat : ~\E f : Good(f, m)}
<1>1. Bad = {}
  <2> SUFFICES ASSUME Bad # {}  PROVE FALSE
    OBVIOUS
  <2>1. PICK m \in Bad : \A k \in Bad : m <= k
    <3>1. Bad \in SUBSET Nat
      OBVIOUS
    <3> HIDE DEF Bad
    <3> QED
      BY <3>1, LeastExists
  <2>2. CASE m = 0
    <3> DEFINE g == [i \in 0 .. 0 |-> b]
    <3>1. Good(g, 0)
      BY DEF SpanRounds
    <3> QED
      BY <2>1, <2>2, <3>1
  <2>3. CASE m # 0
    <3>1. m - 1 \in Nat /\ ~(m <= m - 1)
      BY <2>1, <2>3
    <3>2. PICK f : Good(f, m - 1)
      BY <2>1, <3>1
    <3> DEFINE g == [i \in 0 .. m |->
                       IF i = 0 THEN b ELSE Absorb(f[i - 1], spans[i], dip)]
    <3>3. \A i \in 0 .. m : i # 0 => i - 1 \in 0 .. m - 1 /\ i - 1 \in 0 .. m
      BY <3>1
    <3>4. \A i \in 0 .. m - 1 : g[i] = f[i]
      BY <3>1, <3>2 DEF SpanRounds
    <3>5. g = [i \in 0 .. m |->
                 IF i = 0 THEN b ELSE Absorb(g[i - 1], spans[i], dip)]
      BY <3>3, <3>4
    <3>6. Good(g, m)
      BY <3>5 DEF SpanRounds
    <3> QED
      BY <2>1, <3>6
  <2> QED
    BY <2>2, <2>3
<1> QED
  BY <1>1

(* Whatever the number of spans a chunk makes, each round of absorbing them
   leaves the buffer sound at that span's position, and finals only grow. *)
LEMMA SpansAbsorbed ==
  ASSUME NEW b, NEW P, BufferOK(b, P), Len(b.pcm) < MaxLen, NEW dip \in Nat,
         NEW spans, Len(spans) \in Nat, NEW at, Linked(spans, at), at[0] = P,
         NEW f, SpanRounds(f, b, spans, dip, Len(spans))
  PROVE  \A i \in 0 .. Len(spans) :
           /\ BufferOK(f[i], at[i]) /\ Follows(b, f[i])
           /\ f[i].partial = b.partial /\ Len(f[i].pcm) < MaxLen
<1> DEFINE n == Len(spans)
           Good(x, i) ==
             /\ BufferOK(x, at[i]) /\ Follows(b, x)
             /\ x.partial = b.partial /\ Len(x.pcm) < MaxLen
           Bad == {i \in 0 .. n : ~Good(f[i], i)}
<1>1. n \in Nat /\ Len(b.finals) \in Nat
  BY BufferIs
<1>2. /\ f[0] = b
      /\ \A i \in 0 .. n : i # 0 => f[i] = Absorb(f[i - 1], spans[i], dip)
  <2>1. \A i \in 0 .. n :
          f[i] = IF i = 0 THEN b ELSE Absorb(f[i - 1], spans[i], dip)
    BY DEF SpanRounds
  <2>2. 0 \in 0 .. n
    BY <1>1
  <2> QED
    BY <2>1, <2>2
<1>3. Bad = {}
  <2> SUFFICES ASSUME Bad # {}  PROVE FALSE
    OBVIOUS
  <2>1. PICK m \in Bad : \A k \in Bad : m <= k
    <3>1. Bad \in SUBSET Nat
      BY <1>1
    <3> HIDE DEF Bad
    <3> QED
      BY <3>1, LeastExists
  <2>2. m \in 0 .. n /\ ~Good(f[m], m)
    BY <2>1
  <2>3. m # 0
    <3>1. Good(b, 0)
      BY <1>1, FollowsItself
    <3> HIDE DEF Good
    <3> QED
      BY <1>2, <2>2, <3>1
  <2>4. m - 1 \in 0 .. n /\ m \in 1 .. n /\ ~(m <= m - 1)
    BY <1>1, <2>2, <2>3
  <2>5. Good(f[m - 1], m - 1)
    BY <2>1, <2>4
  <2>6. /\ SpanOK(spans[m], at[m - 1])
        /\ at[m] = WithSpan(spans[m], at[m - 1])
    BY <2>4 DEF Linked
  <2> DEFINE x == f[m - 1]
             y == f[m]
             s == spans[m]
             Q == at[m - 1]
  <2>7. y = Absorb(x, s, dip) /\ SpanOK(s, Q) /\ at[m] = WithSpan(s, Q)
    BY <1>2, <2>2, <2>3, <2>6
  <2>8. /\ BufferOK(x, Q) /\ Follows(b, x)
        /\ x.partial = b.partial /\ Len(x.pcm) < MaxLen
    BY <2>5
  <2> HIDE DEF x, y, s, Q
  <2>9. /\ BufferOK(y, WithSpan(s, Q)) /\ Follows(x, y)
        /\ y.partial = x.partial /\ Len(y.pcm) < MaxLen
    BY <2>7, <2>8, SpanAbsorbed
  <2>10. Len(x.finals) \in Nat /\ Len(y.finals) \in Nat
    BY <2>8, <2>9, BufferIs
  <2>11. Follows(b, y)
    BY <1>1, <2>8, <2>9, <2>10, FollowsAfter
  <2>12. Good(y, m)
    BY <2>7, <2>8, <2>9, <2>11
  <2> QED
    BY <2>2, <2>12 DEF y
<1> QED
  BY <1>3

(* Only what is open, what it is, and what is committed, is in order. *)
LEMMA BufferSame ==
  ASSUME NEW b, NEW P, BufferOK(b, P), NEW d \in Buffer, d.pcm = b.pcm,
         d.start = b.start, d.continues = b.continues, d.finals = b.finals
  PROVE  BufferOK(d, P) /\ Follows(b, d) /\ (IsOpen(d) <=> IsOpen(b))
<1>1. IsOpen(d) <=> IsOpen(b)
  BY DEF IsOpen
<1>2. Len(b.finals) \in Nat
  BY BufferIs
<1>3. Follows(b, d)
  BY <1>1, <1>2 DEF Follows
<1>4. OpenOK(d, P)
  BY <1>1 DEF BufferOK, OpenOK
<1>5. ASSUME NEW k \in FrameNumber
      PROVE  Spoken(P.events, P.heard, k) <=> Covered(d, k)
  <2>1. Covered(d, k) <=> Covered(b, k)
    BY <1>1 DEF Covered
  <2> QED
    BY <2>1 DEF BufferOK
<1>6. /\ P \in Position /\ EventsOK(P.events, P.heard, P.on)
      /\ IsOpen(d) <=> P.on
      /\ FinalsOK(d.finals, P)
  BY <1>1 DEF BufferOK
<1>7. BufferOK(d, P)
  BY <1>4, <1>5, <1>6 DEF BufferOK
<1> QED
  BY <1>1, <1>3, <1>7

(* _should_emit_partial and the partial window. *)
LEMMA PredictedIs ==
  ASSUME NEW b, NEW P, BufferOK(b, P), b.partial = None,
         NEW d, d = Predicted(b)
  PROVE  /\ BufferOK(d, P) /\ Follows(b, d) /\ PartialOK(d)
         /\ d.pcm = b.pcm
<1>1. CASE ~PartialDue(b)
  <2>1. d = b
    BY <1>1 DEF Predicted
  <2>2. Len(b.finals) \in Nat
    BY BufferIs
  <2> QED
    BY <2>1, <2>2, FollowsItself DEF PartialOK
<1>2. CASE PartialDue(b)
  <2>1. /\ b \in Buffer /\ Len(b.finals) \in 0 .. MaxFrames
        /\ b.start + Len(b.pcm) \in 0 .. MaxFrames
        /\ IsOpen(b) /\ b.pcm # <<>>
    <3>1. IsOpen(b) /\ b.pcm # <<>>
      BY <1>2 DEF PartialDue
    <3>2. /\ b \in Buffer /\ Len(b.finals) \in Nat /\ P.heard \in Nat
          /\ P.heard \in 0 .. MaxFrames /\ b.start \in Nat
          /\ Len(b.pcm) = P.heard - b.start /\ Len(b.finals) <= P.heard
      BY <3>1, BufferIs
    <3>3. b.start + Len(b.pcm) = P.heard
      BY <3>2
    <3>4. Len(b.finals) \in 0 .. MaxFrames
      BY <3>2, SizesAssumption
    <3> QED
      BY <3>1, <3>2, <3>3, <3>4
  <2>2. d = [b EXCEPT !.partialAt = b.start + Len(b.pcm),
                      !.partial = Len(b.finals)]
    BY <1>2 DEF Predicted
  <2>3. /\ d.pcm = b.pcm /\ d.start = b.start /\ d.continues = b.continues
        /\ d.finals = b.finals /\ d.partial = Len(b.finals)
        /\ d.partialAt = b.start + Len(b.pcm)
        /\ d = [pcm |-> d.pcm, start |-> d.start, continues |-> d.continues,
                partialAt |-> d.partialAt, partial |-> d.partial,
                finals |-> d.finals]
    BY <2>1, <2>2 DEF Buffer
  <2>4. d \in Buffer
    BY <2>1, <2>3 DEF Buffer
  <2>5. BufferOK(d, P) /\ Follows(b, d) /\ (IsOpen(d) <=> IsOpen(b))
    BY <2>3, <2>4, BufferSame
  <2>6. PartialOK(d)
    BY <2>1, <2>3, <2>5 DEF PartialOK
  <2> QED
    BY <2>3, <2>5, <2>6
<1> QED
  BY <1>1, <1>2

(* BufferManager.push. *)
LEMMA BufferedIs ==
  ASSUME NEW P, BufferOK(Held, P), Len(pcm) < MaxLen, NEW dip \in Nat,
         NEW spans, Len(spans) \in Nat, NEW at, Linked(spans, at), at[0] = P,
         NEW d, d = Buffered(spans, dip)
  PROVE  /\ BufferOK(d, at[Len(spans)]) /\ Follows(Held, d)
         /\ PartialOK(d) /\ Len(d.pcm) < MaxLen
<1> DEFINE n == Len(spans)
           f == CHOOSE g : SpanRounds(g, Held, spans, dip, n)
           c == f[n]
<1>1. d = Predicted(c)
  BY DEF Buffered, SpanRounds
<1>2. SpanRounds(f, Held, spans, dip, n)
  <2>1. \E g : SpanRounds(g, Held, spans, dip, n)
    BY SpansExist
  <2> QED
    BY <2>1
<1>3. Held.pcm = pcm /\ Held.partial = None
  BY DEF Held
<1> HIDE DEF f
<1>4. /\ BufferOK(c, at[n]) /\ Follows(Held, c)
      /\ c.partial = None /\ Len(c.pcm) < MaxLen
  <2>1. n \in 0 .. n
    OBVIOUS
  <2> QED
    BY <1>2, <1>3, <2>1, SpansAbsorbed, SMTT(60)
<1> HIDE DEF c
<1>5. /\ BufferOK(d, at[n]) /\ Follows(c, d) /\ PartialOK(d)
      /\ d.pcm = c.pcm
  BY <1>1, <1>4, PredictedIs
<1>6. /\ Len(Held.finals) \in Nat /\ Len(c.finals) \in Nat
      /\ Len(d.finals) \in Nat
  BY <1>4, <1>5, BufferIs
<1>7. Follows(Held, d)
  BY <1>4, <1>5, <1>6, FollowsAfter
<1> QED
  BY <1>4, <1>5, <1>7

-----------------------------------------------------------------------------
(* The detector and the screen.                                            *)

(* cut_at. *)
LEMMA CutAtIs ==
  ASSUME NEW b, NEW P, BufferOK(b, P), Len(b.pcm) < MaxLen, NEW dip \in Nat,
         IsOpen(b), NEW wanted \in 1 .. Len(b.pcm) - 1,
         NEW c, c = CutAt(b, wanted, dip)
  PROVE  /\ BufferOK(c, P) /\ Follows(b, c)
         /\ Len(c.finals) = Len(b.finals) + 1
         /\ Len(c.pcm) < MaxLen /\ c.partial = b.partial
<1> DEFINE cut == SplitPoint(wanted, dip)
           no  == FALSE
<1>1. Len(b.pcm) \in Nat /\ MaxLen \in Nat /\ wanted \in Nat \ {0}
  BY BufferIs, SizesAssumption
<1>2. wanted > 0 /\ wanted < Len(b.pcm)
  BY <1>1
<1>3. c = Split(b, cut, "speaker_change", no)
  BY <1>2 DEF CutAt
<1>4. "speaker_change" \in Reason /\ no = ("speaker_change" = "max_duration")
  BY DEF Reason
<1>5. cut \in 1 .. wanted
  BY <1>1, SplitPointIs
<1> HIDE DEF cut, no
<1>6. cut \in 1 .. Len(b.pcm) /\ cut <= MaxLen
  BY <1>1, <1>2, <1>5
<1>7. BufferOK(c, P) /\ Follows(b, c) /\ c.partial = b.partial
  BY <1>3, <1>4, <1>6, BufferSplit
<1>8. /\ Len(c.finals) = Len(b.finals) + 1
      /\ Len(c.pcm) = Len(b.pcm) - cut
  BY <1>3, <1>4, <1>6, BufferSplit
<1>9. Len(c.pcm) < MaxLen
  BY <1>1, <1>6, <1>8
<1> QED
  BY <1>7, <1>8, <1>9

(* observe(), for the open utterance: what it is watching. *)
LEMMA WatchingIs ==
  ASSUME NEW b, NEW P, BufferOK(b, P), PartialOK(b), b.partial # None,
         anchor \in Anchor, AnchorOK(anchor, b),
         NEW a, a = Watching(b.partial)
  PROVE  a \in Anchor /\ AnchorOK(a, b) /\ a.index = Len(b.finals)
<1>1. b.partial = Len(b.finals) /\ IsOpen(b) /\ b.pcm # <<>>
  BY DEF PartialOK
<1>2. CASE b.partial = anchor.index
  BY <1>1, <1>2 DEF Watching
<1>3. CASE b.partial # anchor.index
  <2>1. a = [index |-> Len(b.finals), from |-> 0, pcm |-> <<>>]
    BY <1>1, <1>3 DEF Watching, NoAnchor
  <2>2. Len(b.finals) \in 0 .. MaxFrames /\ 0 \in 0 .. MaxFrames
    BY BufferIs, SizesAssumption
  <2>3. a.pcm = <<>> /\ a.from = 0 /\ a.index = Len(b.finals)
    BY <2>1
  <2>4. <<>> \in Seq(FrameNumber)
    BY EmptySeq
  <2>5. a \in Anchor
    BY <2>1, <2>2, <2>4 DEF Anchor
  <2>6. AnchorOK(a, b)
    BY <1>1, <2>2, <2>3 DEF AnchorOK
  <2> QED
    BY <2>3, <2>5, <2>6
<1> QED
  BY <1>2, <1>3

(* What the detector says of an utterance that is long enough. *)
LEMMA AnchoredIs ==
  ASSUME NEW b, NEW P, BufferOK(b, P), NEW a \in Anchor, AnchorOK(a, b),
         a.index = Len(b.finals), LongEnough(b, a), NEW c, c = Anchored(b, a)
  PROVE  c \in Anchor /\ AnchorOK(c, b)
<1>1. /\ a.from = 0 /\ IsOpen(b) /\ b.pcm # <<>>
  BY DEF AnchorOK
<1>2. /\ b.start \in Nat /\ P.heard \in Nat /\ P.heard \in 0 .. MaxFrames
      /\ Len(b.pcm) = P.heard - b.start /\ b.start <= P.heard
      /\ Len(b.finals) \in Nat
  BY <1>1, BufferIs
<1>3. Window \in Nat \ {0} /\ Window <= P.heard - b.start
  BY <1>1, <1>2, SizesAssumption DEF LongEnough
<1>4. CASE a.pcm # <<>>
  BY <1>4 DEF Anchored
<1>5. CASE a.pcm = <<>>
  <2> DEFINE s == b.start
             h == P.heard
             p == SubSeq(b.pcm, 1, Window)
  <2>1. c = [a EXCEPT !.pcm = SubSeq(b.pcm, a.from + 1, a.from + Window)]
    BY <1>5 DEF Anchored
  <2>2. a.from + 1 = 1 /\ a.from + Window = Window
    BY <1>1, <1>3
  <2>3. c = [a EXCEPT !.pcm = p]
    BY <2>1, <2>2
  <2>4. b.pcm = Frames(s, h)
    BY <1>1 DEF BufferOK, OpenOK
  <2>5. Window \in 1 .. h - s /\ s \in Nat /\ h \in Nat
    BY <1>2, <1>3
  <2> HIDE DEF s, h
  <2>6. p = Frames(s, s + Window)
    BY <2>4, <2>5, FramesCut, ZenonT(60)
  <2>7. s + Window \in Nat /\ s <= s + Window /\ s + Window <= MaxFrames
    BY <1>2, <2>5, SizesAssumption DEF h
  <2>8. p \in Seq(FrameNumber)
    BY <2>5, <2>6, <2>7, FramesHeld
  <2> HIDE DEF p
  <2>9. c.pcm = p /\ c.index = a.index /\ c.from = a.from /\ c \in Anchor
    BY <2>3, <2>8 DEF Anchor
  <2>10. AnchorStart(c, b) = s
    BY <1>2, <2>9 DEF AnchorStart, s
  <2>11. a.index # None
    BY <1>2 DEF None
  <2> QED
    BY <1>1, <1>2, <2>6, <2>9, <2>10, <2>11 DEF AnchorOK
<1> QED
  BY <1>4, <1>5

(* The detector, and _split_on_speaker_change after what it says. *)
LEMMA ObservedIs ==
  ASSUME NEW b, NEW P, BufferOK(b, P), PartialOK(b), Len(b.pcm) < MaxLen,
         anchor \in Anchor, AnchorOK(anchor, b),
         NEW o \in Observe(b), NEW dip \in Nat,
         NEW c, c = SplitOnChange(b, o.changed, dip)
  PROVE  /\ BufferOK(c, P) /\ Follows(b, c) /\ PartialOK(c)
         /\ Len(c.pcm) < MaxLen
         /\ o.anchor \in Anchor /\ AnchorOK(o.anchor, c)
<1> DEFINE a == Watching(b.partial)
           newcomer == [a EXCEPT !.pcm = <<>>, !.from = Len(b.pcm) - Window]
<1>1. b \in Buffer /\ Len(b.finals) \in Nat /\ Len(b.pcm) \in Nat
  BY BufferIs
<1>2. ASSUME o.changed = FALSE, o.anchor \in Anchor, AnchorOK(o.anchor, b)
      PROVE  /\ BufferOK(c, P) /\ Follows(b, c) /\ PartialOK(c)
             /\ Len(c.pcm) < MaxLen
             /\ o.anchor \in Anchor /\ AnchorOK(o.anchor, c)
  <2>1. c = b
    BY <1>2 DEF SplitOnChange
  <2> QED
    BY <1>1, <1>2, <2>1, FollowsItself
<1>3. CASE b.partial = None
  <2>1. o = [anchor |-> anchor, changed |-> FALSE]
    BY <1>3 DEF Observe
  <2>2. o.changed = FALSE /\ o.anchor = anchor
    BY <2>1
  <2> QED
    BY <1>2, <2>2
<1>4. CASE b.partial # None
  <2>1. a \in Anchor /\ AnchorOK(a, b) /\ a.index = Len(b.finals)
    BY <1>4, WatchingIs
  <2>2. \/ o = [anchor |-> a, changed |-> FALSE]
        \/ /\ LongEnough(b, a)
           /\ \/ o = [anchor |-> Anchored(b, a), changed |-> FALSE]
              \/ o = [anchor |-> newcomer, changed |-> TRUE]
    BY <1>4 DEF Observe
  <2> HIDE DEF a
  <2>3. CASE o = [anchor |-> a, changed |-> FALSE]
    <3>1. o.changed = FALSE /\ o.anchor = a
      BY <2>3
    <3> QED
      BY <1>2, <2>1, <3>1
  <2>4. CASE LongEnough(b, a) /\ o = [anchor |-> Anchored(b, a), changed |-> FALSE]
    <3>1. o.changed = FALSE /\ o.anchor = Anchored(b, a)
      BY <2>4
    <3>2. o.anchor \in Anchor /\ AnchorOK(o.anchor, b)
      BY <2>1, <2>4, <3>1, AnchoredIs
    <3> QED
      BY <1>2, <3>1, <3>2
  <2>5. CASE LongEnough(b, a) /\ o = [anchor |-> newcomer, changed |-> TRUE]
    <3> DEFINE wanted == Len(b.pcm) - Window
               w == CutAt(b, wanted, dip)
    <3>1. a.from = 0 /\ IsOpen(b) /\ b.pcm # <<>>
      BY <2>1 DEF AnchorOK
    <3>2. Window \in Nat \ {0} /\ Len(b.pcm) >= 2 * Window
      BY <2>5, <3>1, SizesAssumption DEF LongEnough
    <3>3. wanted \in 1 .. Len(b.pcm) - 1
      BY <1>1, <3>2
    <3>4. /\ BufferOK(w, P) /\ Follows(b, w)
          /\ Len(w.finals) = Len(b.finals) + 1
          /\ Len(w.pcm) < MaxLen
      BY <3>1, <3>3, CutAtIs
    <3>5. o.changed = TRUE /\ o.anchor = newcomer
      BY <2>5
    <3>6. c = [w EXCEPT !.partial = None]
      <4>1. Len(w.finals) > Len(b.finals)
        BY <1>1, <3>4
      <4> QED
        BY <3>5, <4>1 DEF SplitOnChange, Unpredicted
    <3> HIDE DEF w
    <3>7. w \in Buffer
      BY <3>4, BufferIs
    <3>8. /\ c.pcm = w.pcm /\ c.start = w.start /\ c.continues = w.continues
          /\ c.finals = w.finals /\ c.partial = None
          /\ c \in Buffer
      BY <3>6, <3>7 DEF Buffer
    <3>9. BufferOK(c, P) /\ Follows(w, c)
      BY <3>4, <3>8, BufferSame
    <3>10. Len(w.finals) \in Nat /\ Len(c.finals) \in Nat
      BY <1>1, <3>4, <3>8
    <3>11. Follows(b, c)
      BY <1>1, <3>4, <3>9, <3>10, FollowsAfter
    <3>12. newcomer.pcm = <<>> /\ newcomer.index = Len(b.finals)
      BY <2>1 DEF Anchor
    <3>13. newcomer \in Anchor
      <4>1. P.heard <= MaxFrames /\ Len(b.pcm) <= P.heard /\ P.heard \in Nat
        BY <3>1, BufferIs
      <4>2. wanted \in 0 .. MaxFrames
        BY <1>1, <3>3, <4>1, SizesAssumption
      <4>3. <<>> \in Seq(FrameNumber)
        BY EmptySeq
      <4> HIDE DEF wanted
      <4>4. newcomer = [a EXCEPT !.pcm = <<>>, !.from = wanted]
        BY DEF wanted
      <4> QED
        BY <2>1, <4>2, <4>3, <4>4 DEF Anchor
    <3>14. AnchorOK(newcomer, c)
      <4>1. newcomer.index < Len(c.finals)
        BY <1>1, <3>4, <3>8, <3>12
      <4> HIDE DEF newcomer
      <4> QED
        BY <1>1, <3>10, <3>12, <4>1 DEF AnchorOK
    <3>15. PartialOK(c)
      BY <3>8 DEF PartialOK
    <3> QED
      BY <3>4, <3>5, <3>8, <3>9, <3>11, <3>13, <3>14, <3>15
  <2> QED
    BY <2>2, <2>3, <2>4, <2>5
<1> QED
  BY <1>3, <1>4

(* _announce(): the sentences are of the utterances committed now, the     *)
(* prediction is of the one after them.                                    *)
LEMMA AnnouncedIs ==
  ASSUME NEW c, Announced(c), finals' = c.finals,
         Len(finals) \in Nat, Len(c.finals) \in 0 .. MaxFrames,
         Len(finals) <= Len(c.finals),
         c.partial # None => c.partial = Len(c.finals),
         sentence \in {None} \cup 0 .. MaxFrames,
         grey \in {None} \cup 0 .. MaxFrames, ScreenOK
  PROVE  /\ sentence' \in {None} \cup 0 .. MaxFrames
         /\ grey' \in {None} \cup 0 .. MaxFrames
         /\ ScreenOK'
<1> DEFINE n == Len(c.finals)
<1>1. PICK said \in SUBSET (Len(finals) .. n - 1) :
        /\ sentence' = IF said = {} THEN sentence ELSE Max(said)
        /\ grey' \in {IF said = {} THEN grey ELSE None} \cup ({c.partial} \ {None})
  BY DEF Announced
<1>2. n \in Nat /\ n <= MaxFrames /\ MaxFrames \in Nat
  BY SizesAssumption
<1>3. sentence < Len(finals) /\ (grey # None => grey > sentence)
  BY DEF ScreenOK, RunningTextIsAhead
<1>4. /\ sentence' \in {None} \cup 0 .. MaxFrames /\ sentence' < n
      /\ said = {} => sentence' = sentence
  <2>1. CASE said = {}
    BY <1>1, <1>2, <1>3, <2>1 DEF None
  <2>2. CASE said # {}
    <3>1. said \in SUBSET (0 .. n)
      BY <1>2
    <3>2. Max(said) \in said
      BY <1>2, <2>2, <3>1, MaxIs
    <3> DEFINE x == Max(said)
    <3>3. x \in Len(finals) .. n - 1
      BY <3>2
    <3> HIDE DEF x
    <3>4. x \in 0 .. MaxFrames /\ x < n
      BY <1>2, <3>3
    <3>5. sentence' = x
      BY <1>1, <2>2 DEF x
    <3> QED
      BY <2>2, <3>4, <3>5
  <2> QED
    BY <2>1, <2>2
<1>5. /\ grey' \in {None} \cup 0 .. MaxFrames
      /\ grey' # None => grey' > sentence'
  <2>1. CASE grey' = None
    BY <2>1
  <2>2. CASE grey' # None /\ grey' = c.partial
    <3>1. grey' = n
      BY <2>2
    <3> QED
      BY <1>2, <1>4, <3>1 DEF None
  <2>3. CASE grey' # None /\ said = {} /\ grey' = grey
    BY <1>3, <1>4, <2>3
  <2> QED
    BY <1>1, <2>1, <2>2, <2>3
<1> QED
  BY <1>4, <1>5 DEF ScreenOK, RunningTextIsAhead

-----------------------------------------------------------------------------
(* The segmenter.                                                          *)

(* A span leads to a position. *)
LEMMA SpanLeads ==
  ASSUME NEW P \in Position, NEW s, SpanOK(s, P)
  PROVE  WithSpan(s, P) \in Position
<1> DEFINE R == WithAudio(s, P)
<1>1. /\ s.start \in 0 .. MaxFrames /\ P.events \in Seq(Event)
      /\ R.heard \in 0 .. MaxFrames /\ R.on = TRUE
  BY SpanIs DEF Position
<1>2. R.events \in Seq(Event)
  <2>1. StartAt(s.start) \in Event
    BY <1>1 DEF StartAt, Event
  <2>2. WithStart(P.events, s.start) \in Seq(Event)
    BY <1>1, <2>1, AppendProperties DEF WithStart
  <2>3. R.events = IF s.opens THEN WithStart(P.events, s.start) ELSE P.events
    BY DEF WithAudio
  <2> QED
    BY <1>1, <2>2, <2>3
<1>3. R = [events |-> R.events, heard |-> R.heard, on |-> R.on]
  BY DEF WithAudio
<1> HIDE DEF R
<1>4. R \in Position
  BY <1>1, <1>2, <1>3 DEF Position
<1>5. Ended(R) \in Position
  <2>1. EndAt(R.heard) \in Event
    BY <1>1 DEF EndAt, Event
  <2>2. WithEnd(R.events, R.heard) \in Seq(Event)
    BY <1>2, <2>1, AppendProperties DEF WithEnd
  <2> QED
    BY <1>1, <2>2 DEF Ended, Position
<1> QED
  BY <1>4, <1>5 DEF WithSpan, R

(* A span more. *)
LEMMA SpanLinked ==
  ASSUME NEW spans \in Seq(Span), NEW at, Linked(spans, at),
         NEW s, SpanOK(s, at[Len(spans)])
  PROVE  /\ Append(spans, s) \in Seq(Span)
         /\ \E to : /\ Linked(Append(spans, s), to) /\ to[0] = at[0]
                    /\ to[Len(Append(spans, s))] = WithSpan(s, at[Len(spans)])
<1> DEFINE n  == Len(spans)
           t  == Append(spans, s)
           Q  == WithSpan(s, at[n])
           to == [i \in 0 .. n + 1 |-> IF i = n + 1 THEN Q ELSE at[i]]
<1>1. n \in Nat /\ s \in Span
  BY EmptySeq DEF SpanOK
<1>2. /\ t \in Seq(Span) /\ Len(t) = n + 1
      /\ \A i \in 1 .. n : t[i] = spans[i]
      /\ t[n + 1] = s
  BY <1>1, AppendProperties
<1>3. /\ at \in [0 .. n -> Position]
      /\ \A i \in 1 .. n : /\ SpanOK(spans[i], at[i - 1])
                           /\ at[i] = WithSpan(spans[i], at[i - 1])
  BY DEF Linked
<1>4. at[n] \in Position
  BY <1>1, <1>3
<1>5. Q \in Position
  BY <1>4, SpanLeads
<1>6. SpanOK(s, at[n])
  OBVIOUS
<1>7. Q = WithSpan(s, at[n])
  OBVIOUS
<1> HIDE DEF n, t, Q
<1>8. to \in [0 .. n + 1 -> Position]
  BY <1>1, <1>3, <1>5
<1>9. /\ to[n + 1] = Q
      /\ \A i \in 0 .. n : to[i] = at[i]
  BY <1>1
<1> HIDE DEF to
<1>10. ASSUME NEW i \in 1 .. n + 1
       PROVE  SpanOK(t[i], to[i - 1]) /\ to[i] = WithSpan(t[i], to[i - 1])
  <2>1. CASE i \in 1 .. n
    <3>1. i \in 0 .. n /\ i - 1 \in 0 .. n
      BY <1>1, <2>1
    <3> QED
      BY <1>2, <1>3, <1>9, <2>1, <3>1
  <2>2. CASE i = n + 1
    <3>1. i - 1 = n /\ n \in 0 .. n
      BY <1>1, <2>2
    <3> QED
      BY <1>2, <1>6, <1>7, <1>9, <2>2, <3>1
  <2> QED
    BY <1>1, <2>1, <2>2
<1>11. Linked(t, to)
  BY <1>2, <1>8, <1>10 DEF Linked
<1>12. to[0] = at[0]
  BY <1>1, <1>9
<1>13. to[Len(t)] = Q
  BY <1>2, <1>9
<1> QED
  BY <1>2, <1>7, <1>11, <1>12, <1>13 DEF n, t

(* One frame more leaves the onsets forwarded, when what was spoken is,    *)
(* and a run that ends with the frame.                                     *)
LEMMA OnsetsKept ==
  ASSUME NEW C \in Seq(Class), NEW E, OnsetsOK(C, E), NEW n, n = Len(C),
         NEW D \in Seq(Class), Len(D) = n + 1, NEW F,
         \A i \in 1 .. n : D[i] = C[i],
         \A k \in Nat : Spoken(E, n, k) => Spoken(F, n + 1, k),
         MinSpeech <= n + 1
           /\ (\A i \in n + 2 - MinSpeech .. n + 1 : D[i] = "speech")
           => \A k \in n + 1 - MinSpeech .. n : Spoken(F, n + 1, k)
  PROVE  OnsetsOK(D, F)
<1>1. n \in Nat /\ MinSpeech \in Nat \ {0}
  BY EmptySeq, SizesAssumption
<1> SUFFICES ASSUME NEW k \in 1 .. (n + 1) - MinSpeech + 1,
                    \A i \in k .. k + MinSpeech - 1 : D[i] = "speech"
             PROVE  \A i \in k .. k + MinSpeech - 1 : Spoken(F, n + 1, i - 1)
  BY DEF OnsetsOK
<1>2. CASE k + MinSpeech - 1 <= n
  <2>1. k \in 1 .. n - MinSpeech + 1
    BY <1>1, <1>2
  <2>2. \A i \in k .. k + MinSpeech - 1 : i \in 1 .. n /\ i - 1 \in Nat
    BY <1>1, <1>2
  <2>3. \A i \in k .. k + MinSpeech - 1 : C[i] = "speech"
    BY <2>2
  <2>4. \A i \in k .. k + MinSpeech - 1 : Spoken(E, n, i - 1)
    BY <2>1, <2>3 DEF OnsetsOK
  <2> QED
    BY <2>2, <2>4
<1>3. CASE ~(k + MinSpeech - 1 <= n)
  <2>1. k = n + 2 - MinSpeech /\ MinSpeech <= n + 1
    BY <1>1, <1>3
  <2>2. \A i \in n + 2 - MinSpeech .. n + 1 : i \in k .. k + MinSpeech - 1
    BY <1>1, <2>1
  <2>3. \A j \in n + 1 - MinSpeech .. n : Spoken(F, n + 1, j)
    <3>1. \A i \in n + 2 - MinSpeech .. n + 1 : D[i] = "speech"
      BY <2>2
    <3> QED
      BY <2>1, <3>1
  <2>4. \A i \in k .. k + MinSpeech - 1 : i - 1 \in n + 1 - MinSpeech .. n
    BY <1>1, <2>1
  <2> QED
    BY <2>3, <2>4
<1> QED
  BY <1>2, <1>3

(* What is gathered is of these types. *)
LEMMA GatheredIs ==
  ASSUME NEW v, NEW P, GatheredOK(v, P)
  PROVE  /\ v \in Gathered /\ Len(v.classes) \in Nat
         /\ v.classes \in Seq(Class) /\ v.preroll \in Seq(FrameNumber)
         /\ Len(v.preroll) \in Nat /\ v.keep \in Seq(FrameNumber)
         /\ v.speechRun \in Nat /\ v.silenceRun \in Nat
         /\ v.triggered \in BOOLEAN /\ v.opens \in BOOLEAN
         /\ v.events \in Seq(Event) /\ Len(v.events) \in Nat
         /\ v.spans \in Seq(Span) /\ Len(v.spans) \in Nat
         /\ v.from \in {NoStart} \cup 0 .. MaxFrames
<1>1. v \in Gathered
  BY DEF GatheredOK
<1> QED
  BY <1>1, EmptySeq, SizesAssumption DEF Gathered

(* The class of one frame more is heard. *)
LEMMA ClassHeard ==
  ASSUME NEW C \in Seq(Class), NEW c \in Class
  PROVE  /\ Append(C, c) \in Seq(Class) /\ Len(Append(C, c)) = Len(C) + 1
         /\ \A i \in 1 .. Len(C) : Append(C, c)[i] = C[i]
         /\ Append(C, c)[Len(C) + 1] = c
BY AppendProperties

(* What a frame makes of a record of these fields, one by one. *)
LEMMA HeardIs ==
  ASSUME NEW v, DOMAIN v = GatheredFields, NEW c
  PROVE  LET x == [v EXCEPT !.classes = Append(@, c)]
         IN /\ x.classes = Append(v.classes, c) /\ x.triggered = v.triggered
            /\ x.speechRun = v.speechRun /\ x.silenceRun = v.silenceRun
            /\ x.preroll = v.preroll /\ x.events = v.events
            /\ x.spans = v.spans /\ x.keep = v.keep /\ x.from = v.from
            /\ x.opens = v.opens /\ DOMAIN x = GatheredFields
BY DEF GatheredFields

(* The fields the flush of a chunk's frames writes, and those it leaves. *)
LEMMA FlushIs ==
  ASSUME NEW v, DOMAIN v = GatheredFields, NEW closes, NEW at
  PROVE  LET x == Flush(v, closes, at)
         IN /\ x.classes = v.classes /\ x.triggered = v.triggered
            /\ x.speechRun = v.speechRun /\ x.silenceRun = v.silenceRun
            /\ x.preroll = v.preroll /\ x.events = v.events
            /\ x.spans = SpansEmitted(v, closes, at)
            /\ x.keep = <<>> /\ x.from = NoStart /\ x.opens = FALSE
            /\ x = [f \in GatheredFields |-> x[f]]
BY DEF Flush, GatheredFields

(* The fields an opening frame writes, and those it leaves. *)
LEMMA OpenSegmentIs ==
  ASSUME NEW v, DOMAIN v = GatheredFields, NEW n
  PROVE  LET x == OpenSegment(v, n)
         IN /\ x.classes = v.classes /\ x.triggered = TRUE
            /\ x.speechRun = v.speechRun + 1 /\ x.silenceRun = 0
            /\ x.preroll = <<>>
            /\ x.events = WithStart(v.events, n - Len(v.preroll))
            /\ x.spans = v.spans
            /\ x.keep = (v.keep \o v.preroll) \o <<n>>
            /\ x.from = n - Len(v.preroll) /\ x.opens = TRUE
            /\ x = [f \in GatheredFields |-> x[f]]
BY DEF OpenSegment, SegmentStart, WithStart, StartAt, GatheredFields

(* The fields a closing frame writes, and those it leaves. *)
LEMMA CloseSegmentIs ==
  ASSUME NEW v, DOMAIN v = GatheredFields, NEW n \in Nat
  PROVE  LET x == CloseSegment(v, n)
         IN /\ x.classes = v.classes /\ x.triggered = FALSE
            /\ x.speechRun = 0 /\ x.silenceRun = v.silenceRun + 1
            /\ x.preroll = Preroll(v.preroll, n)
            /\ x.events = WithEnd(v.events, n)
            /\ x.spans = Append(v.spans, SpanClosing(v, n))
            /\ x.keep = <<>> /\ x.from = NoStart /\ x.opens = FALSE
            /\ x = [f \in GatheredFields |-> x[f]]
<1> DEFINE w == [v EXCEPT !.triggered = FALSE,
                          !.speechRun = 0,
                          !.silenceRun = @ + 1,
                          !.events = Append(@, [kind |-> "speech_end", at |-> n]),
                          !.preroll = Preroll(@, n)]
           x == CloseSegment(v, n)
           yes == TRUE
<1>1. /\ w.classes = v.classes /\ w.triggered = FALSE
      /\ w.speechRun = 0 /\ w.silenceRun = v.silenceRun + 1
      /\ w.preroll = Preroll(v.preroll, n)
      /\ w.events = WithEnd(v.events, n)
      /\ w.spans = v.spans
      /\ w.keep = v.keep /\ w.from = v.from /\ w.opens = v.opens
      /\ DOMAIN w = GatheredFields
  BY DEF WithEnd, EndAt, GatheredFields
<1>2. x = Flush(w, yes, n)
  BY DEF CloseSegment
<1> HIDE DEF w, x, yes
<1>3. /\ x.classes = w.classes /\ x.triggered = w.triggered
      /\ x.speechRun = w.speechRun /\ x.silenceRun = w.silenceRun
      /\ x.preroll = w.preroll /\ x.events = w.events
      /\ x.spans = SpansEmitted(w, yes, n)
      /\ x.keep = <<>> /\ x.from = NoStart /\ x.opens = FALSE
      /\ x = [f \in GatheredFields |-> x[f]]
  <2>1. LET y == Flush(w, yes, n)
        IN /\ y.classes = w.classes /\ y.triggered = w.triggered
           /\ y.speechRun = w.speechRun /\ y.silenceRun = w.silenceRun
           /\ y.preroll = w.preroll /\ y.events = w.events
           /\ y.spans = SpansEmitted(w, yes, n)
           /\ y.keep = <<>> /\ y.from = NoStart /\ y.opens = FALSE
           /\ y = [f \in GatheredFields |-> y[f]]
    BY <1>1, FlushIs
  <2> QED
    BY <1>2, <2>1
<1>4. n # NoStart
  BY DEF NoStart
<1>5. SpansEmitted(w, yes, n)
        = Append(w.spans, [pcm |-> w.keep,
                           start |-> IF w.from # NoStart THEN w.from ELSE n,
                           opens |-> w.opens, closes |-> TRUE])
  BY <1>4 DEF SpansEmitted, yes
<1> QED
  BY <1>1, <1>3, <1>5 DEF x, SpanClosing

(* The fields a frame of an open segment writes, and those it leaves. *)
LEMMA ForwardIs ==
  ASSUME NEW v, DOMAIN v = GatheredFields, NEW n, NEW c
  PROVE  LET x == Forward(v, n, c)
         IN /\ x.classes = v.classes /\ x.triggered = v.triggered
            /\ x.speechRun = v.speechRun
            /\ x.silenceRun = IF c = "quiet" THEN v.silenceRun + 1 ELSE 0
            /\ x.preroll = v.preroll /\ x.events = v.events
            /\ x.spans = v.spans /\ x.keep = Append(v.keep, n)
            /\ x.from = IF v.from = NoStart THEN n ELSE v.from
            /\ x.opens = v.opens
            /\ x = [f \in GatheredFields |-> x[f]]
BY DEF Forward, GatheredFields

(* The fields a frame before a segment writes, and those it leaves. *)
LEMMA HoldBackIs ==
  ASSUME NEW v, DOMAIN v = GatheredFields, NEW n, NEW c
  PROVE  LET x == HoldBack(v, n, c)
         IN /\ x.classes = v.classes /\ x.triggered = v.triggered
            /\ x.speechRun = IF c = "speech" THEN v.speechRun + 1 ELSE 0
            /\ x.silenceRun = v.silenceRun
            /\ x.preroll = Preroll(v.preroll, n) /\ x.events = v.events
            /\ x.spans = v.spans /\ x.keep = v.keep /\ x.from = v.from
            /\ x.opens = v.opens
            /\ x = [f \in GatheredFields |-> x[f]]
BY DEF HoldBack, GatheredFields

(* A record of these fields, of these types. *)
LEMMA GatheredShape ==
  ASSUME NEW x, x = [f \in GatheredFields |-> x[f]],
         x.classes \in Seq(Class), x.triggered \in BOOLEAN,
         x.speechRun \in 0 .. MinSpeech, x.silenceRun \in 0 .. MinSilence,
         x.preroll \in Seq(FrameNumber), x.events \in Seq(Event),
         x.spans \in Seq(Span), x.keep \in Seq(FrameNumber),
         x.from \in {NoStart} \cup 0 .. MaxFrames, x.opens \in BOOLEAN
  PROVE  x \in Gathered
<1>1. x = [classes |-> x.classes, triggered |-> x.triggered,
           speechRun |-> x.speechRun, silenceRun |-> x.silenceRun,
           preroll |-> x.preroll, events |-> x.events,
           spans |-> x.spans, keep |-> x.keep, from |-> x.from,
           opens |-> x.opens]
  BY DEF GatheredFields
<1> QED
  BY <1>1 DEF Gathered

(* The fields of the state that a chunk's frames are gathered in. *)
LEMMA GatheredDomain ==
  ASSUME NEW v \in Gathered
  PROVE  DOMAIN v = GatheredFields
BY DEF Gathered, GatheredFields

(* What the frame does, by the state it finds. *)
LEMMA FrameDoes ==
  ASSUME NEW v \in Gathered, NEW c \in Class
  PROVE  LET w == [v EXCEPT !.classes = Append(@, c)]
             n == Len(v.classes)
         IN /\ Opens(v, c) => Frame(v, c) = OpenSegment(w, n)
            /\ Closes(v, c) => Frame(v, c) = CloseSegment(w, n)
            /\ v.triggered /\ ~Closes(v, c) => Frame(v, c) = Forward(w, n, c)
            /\ ~v.triggered /\ ~Opens(v, c) => Frame(v, c) = HoldBack(w, n, c)
<1>1. CASE v.triggered = TRUE
  <2>1. ~Opens(v, c)
    BY <1>1 DEF Opens
  <2> QED
    BY <1>1, <2>1 DEF Frame
<1>2. CASE v.triggered = FALSE
  <2>1. ~Closes(v, c)
    BY <1>2 DEF Closes
  <2> QED
    BY <1>2, <2>1 DEF Frame
<1>3. v.triggered \in BOOLEAN
  BY DEF Gathered
<1> QED
  BY <1>1, <1>2, <1>3
(* What the frame makes of what was gathered, one by one. *)
LEMMA OpensIs ==
  ASSUME NEW v \in Gathered, NEW c \in Class, Opens(v, c)
  PROVE  LET x == Frame(v, c)
             n == Len(v.classes)
         IN /\ x.classes = Append(v.classes, c) /\ x.triggered = TRUE
            /\ x.speechRun = v.speechRun + 1 /\ x.silenceRun = 0
            /\ x.preroll = <<>>
            /\ x.events = WithStart(v.events, n - Len(v.preroll))
            /\ x.spans = v.spans
            /\ x.keep = (v.keep \o v.preroll) \o <<n>>
            /\ x.from = n - Len(v.preroll) /\ x.opens = TRUE
            /\ x = [f \in GatheredFields |-> x[f]]
<1> DEFINE w == [v EXCEPT !.classes = Append(@, c)]
           x == Frame(v, c)
           n == Len(v.classes)
<1>1. x = OpenSegment(w, n)
  BY FrameDoes
<1>2. /\ w.classes = Append(v.classes, c) /\ w.triggered = v.triggered
      /\ w.speechRun = v.speechRun /\ w.silenceRun = v.silenceRun
      /\ w.preroll = v.preroll /\ w.events = v.events
      /\ w.spans = v.spans /\ w.keep = v.keep /\ w.from = v.from
      /\ w.opens = v.opens /\ DOMAIN w = GatheredFields
  BY GatheredDomain, HeardIs
<1>3. n \in Nat
  BY EmptySeq DEF Gathered
<1> HIDE DEF w, x, n
<1>4. LET y == OpenSegment(w, n)
      IN /\ y.classes = w.classes /\ y.triggered = TRUE
         /\ y.speechRun = w.speechRun + 1 /\ y.silenceRun = 0
         /\ y.preroll = <<>>
         /\ y.events = WithStart(w.events, n - Len(w.preroll))
         /\ y.spans = w.spans
         /\ y.keep = (w.keep \o w.preroll) \o <<n>>
         /\ y.from = n - Len(w.preroll) /\ y.opens = TRUE
         /\ y = [f \in GatheredFields |-> y[f]]
  BY <1>2, <1>3, OpenSegmentIs
<1> QED
  BY <1>1, <1>2, <1>4 DEF x, n

(* The state after a frame that closes the segment. *)
LEMMA ClosesIs ==
  ASSUME NEW v \in Gathered, NEW c \in Class, Closes(v, c)
  PROVE  LET x == Frame(v, c)
             n == Len(v.classes)
         IN /\ x.classes = Append(v.classes, c) /\ x.triggered = FALSE
            /\ x.speechRun = 0 /\ x.silenceRun = v.silenceRun + 1
            /\ x.preroll = Preroll(v.preroll, n)
            /\ x.events = WithEnd(v.events, n)
            /\ x.spans = Append(v.spans, SpanClosing(v, n))
            /\ x.keep = <<>> /\ x.from = NoStart /\ x.opens = FALSE
            /\ x = [f \in GatheredFields |-> x[f]]
<1> DEFINE w == [v EXCEPT !.classes = Append(@, c)]
           x == Frame(v, c)
           n == Len(v.classes)
<1>1. x = CloseSegment(w, n)
  BY FrameDoes
<1>2. /\ w.classes = Append(v.classes, c) /\ w.triggered = v.triggered
      /\ w.speechRun = v.speechRun /\ w.silenceRun = v.silenceRun
      /\ w.preroll = v.preroll /\ w.events = v.events
      /\ w.spans = v.spans /\ w.keep = v.keep /\ w.from = v.from
      /\ w.opens = v.opens /\ DOMAIN w = GatheredFields
  BY GatheredDomain, HeardIs
<1>3. n \in Nat
  BY EmptySeq DEF Gathered
<1> HIDE DEF w, x, n
<1>4. LET y == CloseSegment(w, n)
      IN /\ y.classes = w.classes /\ y.triggered = FALSE
         /\ y.speechRun = 0 /\ y.silenceRun = w.silenceRun + 1
         /\ y.preroll = Preroll(w.preroll, n)
         /\ y.events = WithEnd(w.events, n)
         /\ y.spans = Append(w.spans, SpanClosing(w, n))
         /\ y.keep = <<>> /\ y.from = NoStart /\ y.opens = FALSE
         /\ y = [f \in GatheredFields |-> y[f]]
  BY <1>2, <1>3, CloseSegmentIs
<1> QED
  BY <1>1, <1>2, <1>4 DEF x, n, SpanClosing

(* The state after a frame that an open segment keeps. *)
LEMMA ForwardsIs ==
  ASSUME NEW v \in Gathered, NEW c \in Class, v.triggered, ~Closes(v, c)
  PROVE  LET x == Frame(v, c)
             n == Len(v.classes)
         IN /\ x.classes = Append(v.classes, c) /\ x.triggered = v.triggered
            /\ x.speechRun = v.speechRun
            /\ x.silenceRun = IF c = "quiet" THEN v.silenceRun + 1 ELSE 0
            /\ x.preroll = v.preroll /\ x.events = v.events
            /\ x.spans = v.spans /\ x.keep = Append(v.keep, n)
            /\ x.from = IF v.from = NoStart THEN n ELSE v.from
            /\ x.opens = v.opens
            /\ x = [f \in GatheredFields |-> x[f]]
<1> DEFINE w == [v EXCEPT !.classes = Append(@, c)]
           x == Frame(v, c)
           n == Len(v.classes)
<1>1. x = Forward(w, n, c)
  BY FrameDoes
<1>2. /\ w.classes = Append(v.classes, c) /\ w.triggered = v.triggered
      /\ w.speechRun = v.speechRun /\ w.silenceRun = v.silenceRun
      /\ w.preroll = v.preroll /\ w.events = v.events
      /\ w.spans = v.spans /\ w.keep = v.keep /\ w.from = v.from
      /\ w.opens = v.opens /\ DOMAIN w = GatheredFields
  BY GatheredDomain, HeardIs
<1>3. n \in Nat
  BY EmptySeq DEF Gathered
<1> HIDE DEF w, x, n
<1>4. LET y == Forward(w, n, c)
      IN /\ y.classes = w.classes /\ y.triggered = w.triggered
         /\ y.speechRun = w.speechRun
         /\ y.silenceRun = IF c = "quiet" THEN w.silenceRun + 1 ELSE 0
         /\ y.preroll = w.preroll /\ y.events = w.events
         /\ y.spans = w.spans /\ y.keep = Append(w.keep, n)
         /\ y.from = IF w.from = NoStart THEN n ELSE w.from
         /\ y.opens = w.opens
         /\ y = [f \in GatheredFields |-> y[f]]
  BY <1>2, <1>3, ForwardIs
<1> QED
  BY <1>1, <1>2, <1>4 DEF x, n

(* The state after a frame that no segment keeps. *)
LEMMA HoldsBackIs ==
  ASSUME NEW v \in Gathered, NEW c \in Class, ~v.triggered, ~Opens(v, c)
  PROVE  LET x == Frame(v, c)
             n == Len(v.classes)
         IN /\ x.classes = Append(v.classes, c) /\ x.triggered = v.triggered
            /\ x.speechRun = IF c = "speech" THEN v.speechRun + 1 ELSE 0
            /\ x.silenceRun = v.silenceRun
            /\ x.preroll = Preroll(v.preroll, n) /\ x.events = v.events
            /\ x.spans = v.spans /\ x.keep = v.keep
            /\ x.from = v.from /\ x.opens = v.opens
            /\ x = [f \in GatheredFields |-> x[f]]
<1> DEFINE w == [v EXCEPT !.classes = Append(@, c)]
           x == Frame(v, c)
           n == Len(v.classes)
<1>1. x = HoldBack(w, n, c)
  BY FrameDoes
<1>2. /\ w.classes = Append(v.classes, c) /\ w.triggered = v.triggered
      /\ w.speechRun = v.speechRun /\ w.silenceRun = v.silenceRun
      /\ w.preroll = v.preroll /\ w.events = v.events
      /\ w.spans = v.spans /\ w.keep = v.keep /\ w.from = v.from
      /\ w.opens = v.opens /\ DOMAIN w = GatheredFields
  BY GatheredDomain, HeardIs
<1>3. n \in Nat
  BY EmptySeq DEF Gathered
<1> HIDE DEF w, x, n
<1>4. LET y == HoldBack(w, n, c)
      IN /\ y.classes = w.classes /\ y.triggered = w.triggered
         /\ y.speechRun = IF c = "speech" THEN w.speechRun + 1 ELSE 0
         /\ y.silenceRun = w.silenceRun
         /\ y.preroll = Preroll(w.preroll, n) /\ y.events = w.events
         /\ y.spans = w.spans /\ y.keep = w.keep
         /\ y.from = w.from /\ y.opens = w.opens
         /\ y = [f \in GatheredFields |-> y[f]]
  BY <1>2, <1>3, HoldBackIs
<1> QED
  BY <1>1, <1>2, <1>4 DEF x, n

(* The frame opens a segment. *)
LEMMA FrameOpens ==
  ASSUME NEW v, NEW P, GatheredOK(v, P), Len(v.classes) < MaxFrames,
         NEW c \in Class, Opens(v, c)
  PROVE  GatheredOK(Frame(v, c), P)
<1> DEFINE n == Len(v.classes)
           r == Len(v.preroll)
           k == n - r
           E == v.events
           F == WithStart(E, k)
           C == v.classes
           D == Append(C, c)
           h == HandedOnTo(E)
           x == Frame(v, c)
<1>1. /\ v \in Gathered /\ n \in Nat /\ C \in Seq(Class)
      /\ v.preroll \in Seq(FrameNumber) /\ r \in Nat
      /\ v.speechRun \in Nat /\ E \in Seq(Event)
      /\ v.spans \in Seq(Span) /\ Len(v.spans) \in Nat
  BY GatheredIs
<1>2. v.triggered = FALSE /\ v.speechRun + 1 >= MinSpeech
  BY <1>1 DEF Opens, Gathered
<1>3. /\ n < MaxFrames /\ EventsOK(E, n, FALSE) /\ OnsetsOK(C, E)
  BY <1>2 DEF GatheredOK
<1>4. /\ v.speechRun < MinSpeech /\ v.speechRun <= r
      /\ r <= n /\ v.preroll = Frames(k, n)
      /\ \A i \in 1 .. Len(E) : E[i].at + r <= n
  BY <1>2 DEF GatheredOK, RunsOK
<1>5. PICK at : /\ Linked(v.spans, at) /\ at[0] = P
                /\ PendingOK(v, at[Len(v.spans)])
  BY DEF GatheredOK
<1>6. /\ v.keep = <<>> /\ v.opens = FALSE /\ v.from = NoStart
      /\ at[Len(v.spans)] = Place(E, n, FALSE)
  BY <1>1, <1>2, <1>5 DEF PendingOK, Gathered
<1>7. /\ x.classes = D /\ x.triggered = TRUE
      /\ x.speechRun = v.speechRun + 1 /\ x.silenceRun = 0
      /\ x.preroll = <<>> /\ x.events = F /\ x.spans = v.spans
      /\ x.keep = (v.keep \o v.preroll) \o <<n>>
      /\ x.from = k /\ x.opens = TRUE
      /\ x = [f \in GatheredFields |-> x[f]]
  BY <1>1, OpensIs
<1>8. n = Len(C)
  OBVIOUS
<1>9. /\ D \in Seq(Class) /\ Len(D) = n + 1
      /\ \A i \in 1 .. n : D[i] = C[i]
      /\ D[n + 1] = c
  BY <1>1, ClassHeard
<1>10. EventsOK(E, n, FALSE)
  BY <1>3
<1> HIDE DEF r, n
<1>11. /\ k \in Nat /\ k <= n /\ k \in 0 .. MaxFrames /\ k + MinSpeech <= n + 1
       /\ \A i \in 1 .. Len(E) : E[i].at \in Nat => E[i].at <= k
  BY <1>1, <1>2, <1>3, <1>4, SizesAssumption, SMTT(60)
<1>12. n + 1 \in Nat /\ k <= n + 1 /\ n + 1 <= MaxFrames /\ k # n + 1
  BY <1>1, <1>3, <1>11, SizesAssumption
<1>13. v.preroll = Frames(k, n)
  BY <1>4
<1> HIDE DEF k, E, C, D, h, x
<1>14. /\ EventsOK(E, h, FALSE) /\ h \in Nat /\ h <= n
       /\ \A a, z \in Nat : Within(E, h, a, z) <=> Within(E, n, a, z)
  <2>1. /\ EventsOK(E, h, FALSE) /\ h \in Nat /\ h <= n
        /\ \A a, z \in Nat : Within(E, n, a, z) <=> Within(E, n, a, z)
    BY <1>1, <1>10, NoSegment DEF h
  <2>2. \A a, z \in Nat : Within(E, h, a, z) <=> Within(E, n, a, z)
    BY <1>1, <1>10, <2>1, NoSegment
  <2> QED
    BY <2>1, <2>2
<1>15. h <= k
  <2>1. CASE E = <<>>
    BY <1>11, <2>1 DEF h, HandedOnTo
  <2>2. CASE E # <<>>
    <3>1. Len(E) \in 1 .. Len(E) /\ E[Len(E)].at \in Nat
      BY <1>1, <2>2, EventsAre
    <3>2. h = E[Len(E)].at
      BY <2>2 DEF h, HandedOnTo
    <3> QED
      BY <1>11, <3>1, <3>2
  <2> QED
    BY <2>1, <2>2
<1>16. /\ EventsOK(F, n + 1, TRUE) /\ F[Len(F)].at = k
       /\ \A a, z \in Nat :
            Within(F, n + 1, a, z)
              <=> Within(E, h, a, z) \/ (k <= a /\ z <= n + 1)
  BY <1>11, <1>12, <1>14, <1>15, SegmentOpened, Zenon
<1>17. F = WithStart(E, k)
  OBVIOUS
<1> HIDE DEF F
<1>18. x.keep = Frames(k, n + 1) /\ x.keep \in Seq(FrameNumber) /\ x.keep # <<>>
  <2>1. v.keep \o v.preroll = Frames(k, n)
    BY <1>1, <1>6, <1>13, ConcatEmptySeq
  <2>2. x.keep = Frames(k, n) \o <<n>>
    BY <1>7, <2>1
  <2>3. x.keep = Frames(k, n + 1)
    BY <1>1, <1>11, <2>2, FramesGrow
  <2> QED
    BY <1>11, <1>12, <2>3, FramesHeld
<1>19. x \in Gathered
  <2>1. x.speechRun \in 0 .. MinSpeech /\ x.silenceRun \in 0 .. MinSilence
    <3>1. v.speechRun + 1 \in 0 .. MinSpeech /\ 0 \in 0 .. MinSilence
      BY <1>1, <1>4, SizesAssumption, SMTT(60)
    <3> QED
      BY <1>7, <3>1
  <2>2. x.preroll \in Seq(FrameNumber) /\ x.events \in Seq(Event)
    BY <1>7, <1>16, EmptySeq DEF EventsOK
  <2>3. /\ x.classes \in Seq(Class) /\ x.spans \in Seq(Span)
        /\ x.triggered \in BOOLEAN /\ x.opens \in BOOLEAN
        /\ x.from \in {NoStart} \cup 0 .. MaxFrames
    BY <1>1, <1>7, <1>9, <1>11
  <2>4. x = [f \in GatheredFields |-> x[f]]
    BY <1>7
  <2> QED
    BY <1>18, <2>1, <2>2, <2>3, <2>4, GatheredShape
<1>20. RunsOK(x)
  <2>1. 0 < MinSilence
    BY SizesAssumption
  <2>2. Len(x.classes) = n + 1 /\ x.events[Len(x.events)].at = k
    BY <1>7, <1>9, <1>16
  <2> QED
    BY <1>7, <1>11, <2>1, <2>2 DEF RunsOK
<1>21. OnsetsOK(D, F)
  <2>1. \A j \in Nat : Spoken(E, n, j) => Spoken(F, n + 1, j)
    <3>1. \A j \in Nat : j + 1 \in Nat
      OBVIOUS
    <3> QED
      BY <1>14, <1>16, <3>1 DEF Spoken
  <2>2. \A j \in n + 1 - MinSpeech .. n :
          MinSpeech <= n + 1 => Spoken(F, n + 1, j)
    <3>1. \A j \in n + 1 - MinSpeech .. n : MinSpeech <= n + 1 =>
            j \in Nat /\ j + 1 \in Nat /\ k <= j /\ j + 1 <= n + 1
      BY <1>1, <1>11, SizesAssumption
    <3> QED
      BY <1>16, <3>1 DEF Spoken
  <2>3. MinSpeech <= n + 1
          /\ (\A i \in n + 2 - MinSpeech .. n + 1 : D[i] = "speech")
          => \A j \in n + 1 - MinSpeech .. n : Spoken(F, n + 1, j)
    BY <2>2
  <2>4. OnsetsOK(C, E)
    BY <1>3
  <2> QED
    BY <1>1, <1>8, <1>9, <2>1, <2>3, <2>4, OnsetsKept, ZenonT(60)
<1>22. PendingOK(x, at[Len(v.spans)])
  <2> DEFINE Q == at[Len(v.spans)]
  <2>1. Q.on = FALSE /\ Q.heard = h /\ Q.events = E
    BY <1>6 DEF Place, h
  <2>2. k # NoStart
    BY <1>11 DEF NoStart
  <2> HIDE DEF Q
  <2>3. Len(x.classes) = n + 1
    BY <1>7, <1>9
  <2>4. x.events = WithStart(Q.events, k)
    BY <1>7, <1>17, <2>1
  <2>5. PendingOK(x, Q)
    BY <1>7, <1>12, <1>15, <1>18, <2>1, <2>2, <2>3, <2>4 DEF PendingOK
  <2> QED
    BY <2>5 DEF Q
<1>23. Len(x.classes) <= MaxFrames /\ Len(x.preroll) <= Pad
  <2>1. Len(x.preroll) = 0 /\ 0 <= Pad
    BY <1>7, SizesAssumption
  <2> QED
    BY <1>7, <1>9, <1>12, <2>1
<1>24. EventsOK(x.events, Len(x.classes), x.triggered)
  BY <1>7, <1>9, <1>16
<1>25. \E q : Linked(x.spans, q) /\ q[0] = P /\ PendingOK(x, q[Len(x.spans)])
  BY <1>5, <1>7, <1>22
<1>26. OnsetsOK(x.classes, x.events)
  BY <1>7, <1>21
<1> QED
  BY <1>19, <1>20, <1>23, <1>24, <1>25, <1>26 DEF GatheredOK, x

(* The pre-roll keeps the newest frames, as many as it has room for. *)
LEMMA PrerollIs ==
  ASSUME NEW n \in Nat, n < MaxFrames, NEW q, NEW r \in Nat, r <= n, r <= Pad,
         q = Frames(n - r, n)
  PROVE  \E m \in Nat : /\ m <= Pad /\ m <= n + 1 /\ m <= r + 1
                        /\ m = r + 1 \/ m = Pad
                        /\ Preroll(q, n) = Frames((n + 1) - m, n + 1)
                        /\ Preroll(q, n) \in Seq(FrameNumber)
                        /\ Len(Preroll(q, n)) = m
<1> DEFINE a == n - r
           p == Append(q, n)
<1>1. a \in Nat /\ a <= n /\ q = Frames(a, n)
  OBVIOUS
<1>2. n + 1 - a = r + 1 /\ a <= n + 1 /\ n + 1 \in Nat /\ n + 1 <= MaxFrames
  BY SizesAssumption
<1> HIDE DEF a
<1>3. p = Frames(a, n + 1)
  BY <1>1, FramesGrow
<1> HIDE DEF p
<1>4. Len(p) = r + 1 /\ p \in Seq(FrameNumber)
  <2>1. Len(p) = (n + 1) - a /\ p \in Seq(FrameNumber)
    BY <1>1, <1>2, <1>3, FramesHeld, Zenon
  <2> QED
    BY <1>1, <1>2, <2>1
<1>5. Preroll(q, n) = IF Len(p) > Pad THEN Tail(p) ELSE p
  BY DEF Preroll, p
<1>6. CASE r + 1 > Pad
  <2>1. Pad = r /\ a < n + 1 /\ a + 1 \in Nat /\ a + 1 <= n + 1
        /\ a + 1 = n + 1 - r /\ (n + 1) - (a + 1) = r
    BY <1>1, <1>2, <1>6, SizesAssumption
  <2>2. Tail(p) = Frames(a + 1, n + 1)
    BY <1>1, <1>2, <1>3, <2>1, FramesGrow
  <2>3. Preroll(q, n) = Frames(a + 1, n + 1)
    BY <1>4, <1>5, <1>6, <2>2
  <2>4. Preroll(q, n) \in Seq(FrameNumber) /\ Len(Preroll(q, n)) = r
    BY <1>2, <2>1, <2>3, FramesHeld
  <2> QED
    BY <1>2, <1>6, <2>1, <2>3, <2>4, SizesAssumption
<1>7. CASE ~(r + 1 > Pad)
  <2>1. Preroll(q, n) = p /\ a = n + 1 - (r + 1)
    BY <1>1, <1>2, <1>4, <1>5, <1>7
  <2>2. r + 1 \in Nat /\ r + 1 <= Pad /\ r + 1 <= n + 1
    BY <1>7, SizesAssumption
  <2> QED
    BY <1>3, <1>4, <2>1, <2>2
<1> QED
  BY <1>6, <1>7

(* What was gathered, handed on as a span. *)
LEMMA SpanPending ==
  ASSUME NEW v \in Gathered, NEW n, n = Len(v.classes), n <= MaxFrames,
         NEW Q \in Position, PendingOK(v, Q), v.triggered,
         NEW s, DOMAIN s = {"pcm", "start", "opens", "closes"},
         s = [f \in DOMAIN s |-> s[f]],
         s.pcm = v.keep, s.opens = v.opens, s.closes \in BOOLEAN,
         s.start = IF v.from # NoStart THEN v.from ELSE n,
         s.closes \/ v.keep # <<>>
  PROVE  /\ SpanOK(s, Q)
         /\ WithAudio(s, Q)
              = [events |-> v.events, heard |-> n, on |-> TRUE]
<1>1. /\ n \in Nat /\ v.keep \in Seq(FrameNumber) /\ v.opens \in BOOLEAN
      /\ v.from \in {NoStart} \cup 0 .. MaxFrames
      /\ Q.on \in BOOLEAN /\ Q.heard \in 0 .. MaxFrames
  BY EmptySeq DEF Gathered, Position
<1>2. s = [pcm |-> s.pcm, start |-> s.start, opens |-> s.opens,
           closes |-> s.closes]
  OBVIOUS
<1>3. /\ s.start \in 0 .. MaxFrames
      /\ s.start + Len(s.pcm) = n
      /\ s.pcm = Frames(s.start, n)
      /\ s.opens => ~Q.on /\ Q.heard <= s.start /\ s.pcm # <<>>
                    /\ v.events = WithStart(Q.events, s.start)
      /\ ~s.opens => Q.on /\ s.start = Q.heard /\ v.events = Q.events
  <2>1. CASE v.keep = <<>>
    <3>1. /\ v.opens = FALSE /\ v.from = NoStart
          /\ Q = Place(v.events, n, v.triggered)
      BY <1>1, <2>1 DEF PendingOK
    <3>2. Q.on = TRUE /\ Q.heard = n /\ Q.events = v.events
      <4>1. Q = Place(v.events, n, TRUE)
        <5>1. v.triggered = TRUE
          BY DEF Gathered
        <5> QED
          BY <3>1, <5>1
      <4> QED
        BY <4>1 DEF Place
    <3>3. s.start = n /\ s.pcm = <<>> /\ Len(s.pcm) = 0
      BY <2>1, <3>1
    <3>4. Frames(n, n) = <<>>
      BY <1>1, FramesIs
    <3>5. s.start \in 0 .. MaxFrames /\ s.start + Len(s.pcm) = n
      BY <1>1, <3>3
    <3>6. s.pcm = Frames(s.start, n) /\ s.opens = FALSE
      BY <3>1, <3>3, <3>4
    <3> QED
      BY <3>2, <3>3, <3>5, <3>6
  <2>2. CASE v.keep # <<>>
    <3>1. /\ v.from # NoStart /\ v.from <= n /\ v.keep = Frames(v.from, n)
          /\ v.opens => /\ ~Q.on /\ Q.heard <= v.from
                        /\ v.events = WithStart(Q.events, v.from)
          /\ ~v.opens => Q.on /\ Q.heard = v.from /\ v.events = Q.events
      BY <2>2 DEF PendingOK
    <3>2. v.from \in 0 .. MaxFrames /\ v.from \in Nat /\ s.start = v.from
      BY <1>1, <3>1, SizesAssumption
    <3>3. Len(v.keep) = n - v.from
      <4>1. n <= MaxFrames
        OBVIOUS
      <4> QED
        BY <1>1, <3>1, <3>2, <4>1, FramesHeld, SMTT(60)
    <3>4. s.start + Len(s.pcm) = n
      <4>1. Len(s.pcm) = n - v.from
        BY <3>3, Zenon
      <4>2. v.from + (n - v.from) = n
        BY <1>1, <3>2
      <4> QED
        BY <3>2, <4>1, <4>2
    <3> QED
      BY <2>2, <3>1, <3>2, <3>4
  <2> QED
    BY <2>1, <2>2
<1>4. SpanOK(s, Q)
  <2>1. s \in Span
    BY <1>1, <1>2, <1>3 DEF Span
  <2> QED
    BY <1>3, <2>1 DEF SpanOK
<1>5. WithAudio(s, Q) = [events |-> v.events, heard |-> n, on |-> TRUE]
  <2>1. (IF s.opens THEN WithStart(Q.events, s.start) ELSE Q.events) = v.events
    BY <1>1, <1>3
  <2> QED
    BY <1>3, <2>1 DEF WithAudio
<1> QED
  BY <1>4, <1>5

(* The frame is handed on. *)
LEMMA FrameForwarded ==
  ASSUME NEW v, NEW P, GatheredOK(v, P), Len(v.classes) < MaxFrames,
         NEW c \in Class, v.triggered, ~Closes(v, c)
  PROVE  GatheredOK(Frame(v, c), P)
<1> DEFINE n == Len(v.classes)
           E == v.events
           C == v.classes
           D == Append(C, c)
           k == E[Len(E)].at
           x == Frame(v, c)
<1>1. /\ v \in Gathered /\ n \in Nat /\ C \in Seq(Class)
      /\ v.keep \in Seq(FrameNumber) /\ v.opens \in BOOLEAN
      /\ v.silenceRun \in Nat /\ E \in Seq(Event) /\ E # <<>>
      /\ v.from \in {NoStart} \cup 0 .. MaxFrames
      /\ v.spans \in Seq(Span) /\ Len(v.spans) \in Nat
  <2>1. E # <<>>
    BY DEF GatheredOK, EventsOK
  <2> QED
    BY <2>1, GatheredIs
<1>2. v.triggered = TRUE
  BY <1>1 DEF Gathered
<1>3. /\ n < MaxFrames /\ EventsOK(E, n, TRUE) /\ OnsetsOK(C, E)
  BY <1>2 DEF GatheredOK
<1>4. /\ v.silenceRun < MinSilence /\ v.preroll = <<>>
      /\ k + MinSpeech <= n
  BY <1>2 DEF GatheredOK, RunsOK
<1>5. PICK at : /\ Linked(v.spans, at) /\ at[0] = P
                /\ PendingOK(v, at[Len(v.spans)])
  BY DEF GatheredOK
<1>6. c = "quiet" => v.silenceRun + 1 < MinSilence
  BY <1>1, <1>2, SizesAssumption DEF Closes
<1>7. /\ x.classes = D /\ x.triggered = v.triggered
      /\ x.speechRun = v.speechRun
      /\ x.silenceRun = IF c = "quiet" THEN v.silenceRun + 1 ELSE 0
      /\ x.preroll = v.preroll /\ x.events = E /\ x.spans = v.spans
      /\ x.keep = Append(v.keep, n)
      /\ x.from = IF v.from = NoStart THEN n ELSE v.from
      /\ x.opens = v.opens
      /\ x = [f \in GatheredFields |-> x[f]]
  BY <1>1, ForwardsIs
<1>8. n = Len(C)
  OBVIOUS
<1>9. /\ D \in Seq(Class) /\ Len(D) = n + 1
      /\ \A i \in 1 .. n : D[i] = C[i]
      /\ D[n + 1] = c
  BY <1>1, ClassHeard
<1>10. k \in Nat /\ k <= n
  BY <1>1, <1>3, EventsAre DEF EventsOK
<1>11. n + 1 \in Nat /\ n <= n + 1 /\ n + 1 <= MaxFrames /\ n \in 0 .. MaxFrames
  BY <1>1, <1>3, SizesAssumption
<1>12. /\ EventsOK(E, n + 1, TRUE)
       /\ \A a, z \in Nat :
            Within(E, n + 1, a, z)
              <=> Within(E, n, a, z) \/ (k <= a /\ z <= n + 1)
  BY <1>1, <1>3, <1>11, SegmentLonger
<1>13. PendingOK(v, at[Len(v.spans)])
  BY <1>5
<1> DEFINE Q == at[Len(v.spans)]
<1>14. IF v.keep = <<>>
         THEN v.opens = FALSE /\ v.from = NoStart /\ Q = Place(E, n, TRUE)
         ELSE /\ v.from # NoStart
              /\ v.from <= n /\ v.keep = Frames(v.from, n)
              /\ v.opens => /\ ~Q.on /\ Q.heard <= v.from
                            /\ E = WithStart(Q.events, v.from)
              /\ ~v.opens => Q.on /\ Q.heard = v.from /\ E = Q.events
  BY <1>1, <1>2, <1>13 DEF PendingOK
<1> HIDE DEF n, k, E, C, D, x, Q
<1>15. /\ x.from # NoStart /\ x.from \in 0 .. MaxFrames /\ x.from <= n + 1
       /\ x.keep = Frames(x.from, n + 1) /\ x.keep \in Seq(FrameNumber)
       /\ x.keep # <<>>
       /\ v.opens => /\ ~Q.on /\ Q.heard <= x.from
                     /\ E = WithStart(Q.events, x.from)
       /\ ~v.opens => Q.on /\ Q.heard = x.from /\ E = Q.events
  <2>1. /\ x.from \in 0 .. MaxFrames /\ x.from <= n /\ x.from \in Nat
        /\ x.from # NoStart
        /\ v.opens => /\ ~Q.on /\ Q.heard <= x.from
                      /\ E = WithStart(Q.events, x.from)
        /\ ~v.opens => Q.on /\ Q.heard = x.from /\ E = Q.events
        /\ v.keep = Frames(x.from, n)
    <3>1. CASE v.keep = <<>>
      <4>1. v.opens = FALSE /\ v.from = NoStart /\ Q = Place(E, n, TRUE)
        BY <1>14, <3>1
      <4>2. Q.on = TRUE /\ Q.heard = n /\ Q.events = E
        BY <4>1 DEF Place
      <4>3. x.from = n
        BY <1>7, <4>1
      <4>4. Frames(n, n) = <<>>
        BY <1>1, FramesIs
      <4>5. n # NoStart
        BY <1>1 DEF NoStart
      <4>6. v.keep = Frames(x.from, n)
        BY <3>1, <4>3, <4>4
      <4>7. n <= n
        BY <1>1
      <4> QED
        BY <1>1, <1>11, <4>1, <4>2, <4>3, <4>5, <4>6, <4>7
    <3>2. CASE v.keep # <<>>
      <4>1. v.from # NoStart
        BY <1>14, <3>2
      <4>2. x.from = v.from
        BY <1>7, <4>1
      <4>3. v.from \in 0 .. MaxFrames /\ v.from \in Nat
        BY <1>1, <4>1, SizesAssumption
      <4> QED
        BY <1>14, <3>2, <4>2, <4>3
    <3> QED
      BY <3>1, <3>2
  <2>2. x.keep = Frames(x.from, n + 1)
    <3>1. x.keep = Append(Frames(x.from, n), n)
      BY <1>7, <2>1
    <3> QED
      BY <1>1, <2>1, <3>1, FramesGrow
  <2>3. x.from <= n + 1 /\ x.from # n + 1
    BY <1>1, <2>1
  <2>4. x.keep \in Seq(FrameNumber) /\ (x.keep = <<>> <=> x.from = n + 1)
    BY <1>11, <2>1, <2>2, <2>3, FramesHeld, ZenonT(60)
  <2> QED
    BY <2>1, <2>2, <2>3, <2>4
<1>16. x \in Gathered
  <2>1. x.silenceRun \in 0 .. MinSilence
    <3>1. 0 \in 0 .. MinSilence
      BY SizesAssumption
    <3>2. c = "quiet" => v.silenceRun + 1 \in 0 .. MinSilence
      BY <1>1, <1>6, SizesAssumption
    <3> QED
      BY <1>7, <3>1, <3>2
  <2>2. /\ x.speechRun \in 0 .. MinSpeech /\ x.preroll \in Seq(FrameNumber)
        /\ x.spans \in Seq(Span) /\ x.events \in Seq(Event)
        /\ x.triggered \in BOOLEAN /\ x.opens \in BOOLEAN
    BY <1>1, <1>7 DEF Gathered
  <2>3. /\ x.classes \in Seq(Class) /\ x.from \in {NoStart} \cup 0 .. MaxFrames
    BY <1>7, <1>9, <1>15
  <2>4. x = [f \in GatheredFields |-> x[f]]
    BY <1>7
  <2> QED
    BY <1>15, <2>1, <2>2, <2>3, <2>4, GatheredShape
<1>17. RunsOK(x)
  <2>1. x.silenceRun < MinSilence
    BY <1>1, <1>6, <1>7, SizesAssumption, SMTT(60)
  <2>2. Len(x.classes) = n + 1 /\ x.events[Len(x.events)].at = k
    BY <1>7, <1>9 DEF k, E
  <2>3. k + MinSpeech <= n + 1
    BY <1>1, <1>4, <1>10, SizesAssumption
  <2>4. x.preroll = <<>> /\ x.triggered = TRUE
    BY <1>2, <1>4, <1>7
  <2> QED
    BY <2>1, <2>2, <2>3, <2>4 DEF RunsOK
<1>18. OnsetsOK(D, E)
  <2>1. \A j \in Nat : Spoken(E, n, j) => Spoken(E, n + 1, j)
    <3>1. \A j \in Nat : j + 1 \in Nat
      OBVIOUS
    <3> QED
      BY <1>12, <3>1 DEF Spoken
  <2>2. \A j \in n + 1 - MinSpeech .. n : Spoken(E, n + 1, j)
    <3>1. \A j \in n + 1 - MinSpeech .. n :
            j \in Nat /\ j + 1 \in Nat /\ k <= j /\ j + 1 <= n + 1
      BY <1>1, <1>4, <1>10, SizesAssumption
    <3> QED
      BY <1>12, <3>1 DEF Spoken
  <2>3. MinSpeech <= n + 1
          /\ (\A i \in n + 2 - MinSpeech .. n + 1 : D[i] = "speech")
          => \A j \in n + 1 - MinSpeech .. n : Spoken(E, n + 1, j)
    BY <2>2
  <2>4. OnsetsOK(C, E)
    BY <1>3
  <2> QED
    BY <1>1, <1>8, <1>9, <2>1, <2>3, <2>4, OnsetsKept, ZenonT(60)
<1>19. PendingOK(x, Q)
  <2>1. Len(x.classes) = n + 1
    BY <1>7, <1>9
  <2>2. x.triggered = TRUE /\ x.opens = v.opens /\ x.events = E
    BY <1>2, <1>7
  <2> QED
    BY <1>15, <2>1, <2>2 DEF PendingOK
<1>20. Len(x.classes) <= MaxFrames /\ Len(x.preroll) <= Pad
  <2>1. Len(x.preroll) = 0 /\ 0 <= Pad
    BY <1>4, <1>7, SizesAssumption
  <2> QED
    BY <1>7, <1>9, <1>11, <2>1
<1>21. EventsOK(x.events, Len(x.classes), x.triggered)
  BY <1>2, <1>7, <1>9, <1>12
<1>22. \E q : Linked(x.spans, q) /\ q[0] = P /\ PendingOK(x, q[Len(x.spans)])
  BY <1>5, <1>7, <1>19 DEF Q
<1>23. OnsetsOK(x.classes, x.events)
  BY <1>7, <1>18
<1> QED
  BY <1>16, <1>17, <1>20, <1>21, <1>22, <1>23 DEF GatheredOK, x

(* The frame is held back. *)
LEMMA FrameHeldBack ==
  ASSUME NEW v, NEW P, GatheredOK(v, P), Len(v.classes) < MaxFrames,
         NEW c \in Class, ~v.triggered, ~Opens(v, c)
  PROVE  GatheredOK(Frame(v, c), P)
<1> DEFINE n == Len(v.classes)
           r == Len(v.preroll)
           E == v.events
           C == v.classes
           D == Append(C, c)
           x == Frame(v, c)
           R == v.speechRun
           S == x.speechRun
           p == Preroll(v.preroll, n)
<1>1. /\ v \in Gathered /\ n \in Nat /\ C \in Seq(Class)
      /\ v.preroll \in Seq(FrameNumber) /\ r \in Nat
      /\ R \in Nat /\ E \in Seq(Event)
      /\ v.spans \in Seq(Span) /\ Len(v.spans) \in Nat
  BY GatheredIs
<1>2. v.triggered = FALSE
  BY <1>1 DEF Gathered
<1>3. /\ n < MaxFrames /\ r <= Pad /\ EventsOK(E, n, FALSE) /\ OnsetsOK(C, E)
  BY <1>2 DEF GatheredOK
<1>4. /\ R < MinSpeech /\ R <= r
      /\ r <= n /\ v.preroll = Frames(n - r, n)
      /\ \A i \in 1 .. Len(E) : E[i].at + r <= n
      /\ \A i \in n - R + 1 .. n : C[i] = "speech"
      /\ R < n => C[n - R] # "speech"
  BY <1>2 DEF GatheredOK, RunsOK
<1>5. PICK at : /\ Linked(v.spans, at) /\ at[0] = P
                /\ PendingOK(v, at[Len(v.spans)])
  BY DEF GatheredOK
<1>6. /\ v.keep = <<>> /\ v.opens = FALSE /\ v.from = NoStart
      /\ at[Len(v.spans)] = Place(E, n, FALSE)
  BY <1>1, <1>2, <1>5 DEF PendingOK, Gathered
<1>7. c = "speech" => R + 1 < MinSpeech
  BY <1>1, <1>2, SizesAssumption DEF Opens
<1>8. /\ x.classes = D /\ x.triggered = v.triggered
      /\ S = IF c = "speech" THEN R + 1 ELSE 0
      /\ x.silenceRun = v.silenceRun
      /\ x.preroll = p /\ x.events = E
      /\ x.spans = v.spans /\ x.keep = v.keep /\ x.from = v.from
      /\ x.opens = v.opens
      /\ x = [f \in GatheredFields |-> x[f]]
  BY <1>1, HoldsBackIs
<1>9. n = Len(C)
  OBVIOUS
<1>10. /\ D \in Seq(Class) /\ Len(D) = n + 1
       /\ \A i \in 1 .. n : D[i] = C[i]
       /\ D[n + 1] = c
  BY <1>1, ClassHeard
<1>11. n + 1 \in Nat /\ n <= n + 1 /\ n + 1 <= MaxFrames /\ n \in 0 .. MaxFrames
  BY <1>1, <1>3, SizesAssumption
<1>12. \A i \in 1 .. Len(E) : E[i].at \in Nat
  BY <1>1, EventsAre
<1>13. S = x.speechRun
  OBVIOUS
<1> HIDE DEF R, S, r
<1>14. PICK m \in Nat : /\ m <= Pad /\ m <= n + 1 /\ m <= r + 1
                        /\ m = r + 1 \/ m = Pad
                        /\ p = Frames((n + 1) - m, n + 1)
                        /\ p \in Seq(FrameNumber)
                        /\ Len(p) = m
  BY <1>1, <1>3, <1>4, PrerollIs
<1> HIDE DEF n, E, C, D, x, p
<1>15. /\ S \in Nat /\ S < MinSpeech /\ S <= m
       /\ c = "speech" => S = R + 1
       /\ c # "speech" => S = 0
  <2>1. /\ R \in Nat /\ r \in Nat /\ R < MinSpeech /\ R <= r
        /\ c = "speech" => R + 1 < MinSpeech
    BY <1>1, <1>4, <1>7
  <2>2. m = r + 1 \/ m = Pad
    BY <1>14
  <2>3. CASE c = "speech"
    <3>1. S = R + 1
      BY <1>8, <2>3
    <3> QED
      BY <2>1, <2>2, <2>3, <3>1, SizesAssumption, PadCoversOnset
  <2>4. CASE c # "speech"
    <3>1. S = 0
      BY <1>8, <2>4
    <3> QED
      BY <2>4, <3>1, SizesAssumption
  <2> QED
    BY <2>3, <2>4
<1>16. \A i \in 1 .. Len(E) : E[i].at + m <= n + 1
  <2>1. m <= r + 1 /\ r \in Nat /\ n \in Nat
    BY <1>1, <1>14
  <2>2. \A i \in 1 .. Len(E) : E[i].at \in Nat /\ E[i].at + r <= n
    BY <1>4, <1>12
  <2> QED
    BY <2>1, <2>2
<1>17. \A i \in (n + 1) - S + 1 .. n + 1 : D[i] = "speech"
  <2> SUFFICES ASSUME NEW i \in (n + 1) - S + 1 .. n + 1
               PROVE  D[i] = "speech"
    OBVIOUS
  <2>1. c = "speech" /\ S = R + 1
    BY <1>1, <1>15
  <2>2. CASE i = n + 1
    BY <1>10, <2>1, <2>2
  <2>3. CASE i # n + 1
    <3>1. i \in 1 .. n /\ i \in n - R + 1 .. n
      BY <1>1, <1>4, <2>1, <2>3
    <3> QED
      BY <1>4, <1>10, <3>1
  <2> QED
    BY <2>2, <2>3
<1>18. S < n + 1 => D[(n + 1) - S] # "speech"
  <2>1. CASE c = "speech"
    <3>1. S < n + 1 => R < n /\ n - R \in 1 .. n /\ (n + 1) - S = n - R
      BY <1>1, <1>15, <2>1
    <3> QED
      BY <1>4, <1>10, <3>1
  <2>2. CASE c # "speech"
    <3>1. (n + 1) - S = n + 1
      BY <1>1, <1>15, <2>2
    <3> QED
      BY <1>10, <2>2, <3>1
  <2> QED
    BY <2>1, <2>2
<1>19. x \in Gathered
  <2>1. x.speechRun \in 0 .. MinSpeech
    <3>1. S \in 0 .. MinSpeech
      BY <1>15, SizesAssumption
    <3> QED
      BY <1>13, <3>1
  <2>2. /\ x.silenceRun \in 0 .. MinSilence
        /\ x.spans \in Seq(Span) /\ x.events \in Seq(Event)
        /\ x.triggered \in BOOLEAN /\ x.opens \in BOOLEAN
        /\ x.keep \in Seq(FrameNumber)
        /\ x.from \in {NoStart} \cup 0 .. MaxFrames
    BY <1>1, <1>8 DEF Gathered
  <2>3. /\ x.classes \in Seq(Class) /\ x.preroll \in Seq(FrameNumber)
    BY <1>8, <1>10, <1>14
  <2>4. x = [f \in GatheredFields |-> x[f]]
    BY <1>8
  <2> QED
    BY <2>1, <2>2, <2>3, <2>4, GatheredShape
<1>20. RunsOK(x)
  <2>0. Len(p) = m /\ p = Frames((n + 1) - m, n + 1) /\ Len(D) = n + 1
    BY <1>10, <1>14
  <2>1. /\ Len(x.classes) = n + 1 /\ x.triggered = FALSE
        /\ x.classes = D /\ x.events = E
        /\ Len(x.preroll) = m /\ x.preroll = Frames((n + 1) - m, n + 1)
    BY <1>2, <1>8, <2>0
  <2>2. S < MinSpeech /\ S <= m /\ m <= n + 1
    BY <1>14, <1>15
  <2> QED
    BY <1>13, <1>16, <1>17, <1>18, <2>1, <2>2 DEF RunsOK
<1>21. OnsetsOK(D, E)
  <2>1. \A j \in Nat : Spoken(E, n, j) => Spoken(E, n + 1, j)
    <3>1. \A j \in Nat : j + 1 \in Nat
      OBVIOUS
    <3>2. \A a, z \in Nat : Within(E, n + 1, a, z) <=> Within(E, n, a, z)
      BY <1>1, <1>3, <1>11, NoSegment
    <3> QED
      BY <3>1, <3>2 DEF Spoken
  <2>2. ~(MinSpeech <= n + 1
          /\ \A i \in n + 2 - MinSpeech .. n + 1 : D[i] = "speech")
    <3>1. MinSpeech <= n + 1 =>
            S < n + 1 /\ (n + 1) - S \in n + 2 - MinSpeech .. n + 1
      BY <1>1, <1>15, SizesAssumption
    <3> QED
      BY <1>18, <3>1
  <2>3. MinSpeech <= n + 1
          /\ (\A i \in n + 2 - MinSpeech .. n + 1 : D[i] = "speech")
          => \A j \in n + 1 - MinSpeech .. n : Spoken(E, n + 1, j)
    BY <2>2
  <2>4. OnsetsOK(C, E)
    BY <1>3
  <2> QED
    BY <1>1, <1>9, <1>10, <2>1, <2>3, <2>4, OnsetsKept, ZenonT(60)
<1>22. PendingOK(x, at[Len(v.spans)])
  <2>1. Place(E, n, FALSE) = Place(E, n + 1, FALSE)
    BY DEF Place
  <2>2. Len(x.classes) = n + 1 /\ x.events = E /\ x.triggered = FALSE
    BY <1>2, <1>8, <1>10
  <2>3. at[Len(v.spans)] = Place(x.events, Len(x.classes), x.triggered)
    BY <1>6, <2>1, <2>2
  <2> QED
    BY <1>6, <1>8, <2>3 DEF PendingOK
<1>23. Len(x.classes) <= MaxFrames /\ Len(x.preroll) <= Pad
  BY <1>8, <1>10, <1>11, <1>14
<1>24. EventsOK(x.events, Len(x.classes), x.triggered)
  <2>1. EventsOK(E, n + 1, FALSE)
    BY <1>1, <1>3, <1>11, NoSegment
  <2> QED
    BY <1>2, <1>8, <1>10, <2>1
<1>25. \E q : Linked(x.spans, q) /\ q[0] = P /\ PendingOK(x, q[Len(x.spans)])
  BY <1>5, <1>8, <1>22
<1>26. OnsetsOK(x.classes, x.events)
  BY <1>8, <1>21
<1> QED
  BY <1>19, <1>20, <1>23, <1>24, <1>25, <1>26 DEF GatheredOK, x

(* The frame closes the segment. *)
LEMMA FrameCloses ==
  ASSUME NEW v, NEW P, GatheredOK(v, P), Len(v.classes) < MaxFrames,
         NEW c \in Class, Closes(v, c)
  PROVE  GatheredOK(Frame(v, c), P)
<1> DEFINE n == Len(v.classes)
           E == v.events
           F == WithEnd(E, n)
           C == v.classes
           D == Append(C, c)
           x == Frame(v, c)
           s == SpanClosing(v, n)
           p == Preroll(v.preroll, n)
<1>1. /\ v \in Gathered /\ n \in Nat /\ C \in Seq(Class)
      /\ v.silenceRun \in Nat /\ E \in Seq(Event)
      /\ v.spans \in Seq(Span) /\ Len(v.spans) \in Nat
  BY GatheredIs
<1>2. v.triggered /\ v.triggered = TRUE /\ c = "quiet"
  BY <1>1 DEF Gathered, Closes
<1>3. /\ n < MaxFrames /\ EventsOK(E, n, TRUE) /\ OnsetsOK(C, E)
  BY <1>2 DEF GatheredOK
<1>4. v.silenceRun < MinSilence /\ v.preroll = <<>>
  BY <1>2 DEF GatheredOK, RunsOK
<1>5. PICK at : /\ Linked(v.spans, at) /\ at[0] = P
                /\ PendingOK(v, at[Len(v.spans)])
  BY DEF GatheredOK
<1>6. /\ x.classes = D /\ x.triggered = FALSE
      /\ x.speechRun = 0 /\ x.silenceRun = v.silenceRun + 1
      /\ x.preroll = p /\ x.events = F
      /\ x.spans = Append(v.spans, s)
      /\ x.keep = <<>> /\ x.from = NoStart /\ x.opens = FALSE
      /\ x = [f \in GatheredFields |-> x[f]]
  BY <1>1, ClosesIs
<1>7. n = Len(C)
  OBVIOUS
<1>8. /\ D \in Seq(Class) /\ Len(D) = n + 1
      /\ \A i \in 1 .. n : D[i] = C[i]
      /\ D[n + 1] = c
  BY <1>1, ClassHeard
<1>9. n + 1 \in Nat /\ n <= n + 1 /\ n + 1 <= MaxFrames /\ n \in 0 .. MaxFrames
      /\ n <= MaxFrames
  BY <1>1, <1>3, SizesAssumption
<1>10. /\ EventsOK(F, n, FALSE) /\ HandedOnTo(F) = n
       /\ \A a, z \in Nat : Within(F, n, a, z) <=> Within(E, n, a, z)
  <2>1. EventsOK(E, n, TRUE) /\ F = WithEnd(E, n) /\ n \in 0 .. MaxFrames
    BY <1>3, <1>9
  <2> HIDE DEF E, F, n
  <2> QED
    BY <2>1, SegmentClosedAt
<1> DEFINE Q == at[Len(v.spans)]
<1>11. Q \in Position
  BY <1>1, <1>5 DEF Linked
<1>12. PendingOK(v, Q)
  BY <1>5
<1>13. /\ s.pcm = v.keep /\ s.opens = v.opens /\ s.closes = TRUE
       /\ s.start = IF v.from # NoStart THEN v.from ELSE n
       /\ DOMAIN s = {"pcm", "start", "opens", "closes"}
       /\ s = [f \in DOMAIN s |-> s[f]]
  BY DEF SpanClosing
<1> HIDE DEF n, E, C, D, F, x, s, p, Q
<1>14. /\ SpanOK(s, Q)
       /\ WithAudio(s, Q) = [events |-> E, heard |-> n, on |-> TRUE]
  BY <1>1, <1>2, <1>7, <1>9, <1>11, <1>12, <1>13, SpanPending DEF C, E
<1>15. WithSpan(s, Q) = Place(F, n + 1, FALSE)
  <2>1. WithSpan(s, Q) = Ended([events |-> E, heard |-> n, on |-> TRUE])
    BY <1>13, <1>14 DEF WithSpan
  <2>2. Ended([events |-> E, heard |-> n, on |-> TRUE])
          = [events |-> F, heard |-> n, on |-> FALSE]
    BY DEF Ended, F
  <2>3. Place(F, n + 1, FALSE) = [events |-> F, heard |-> n, on |-> FALSE]
    BY <1>10 DEF Place
  <2> QED
    BY <2>1, <2>2, <2>3
<1>16. /\ x.spans \in Seq(Span)
       /\ \E q : /\ Linked(x.spans, q) /\ q[0] = P
                 /\ q[Len(x.spans)] = Place(F, n + 1, FALSE)
  <2>1. /\ Append(v.spans, s) \in Seq(Span)
        /\ \E to : /\ Linked(Append(v.spans, s), to) /\ to[0] = at[0]
                   /\ to[Len(Append(v.spans, s))] = WithSpan(s, at[Len(v.spans)])
    BY <1>1, <1>5, <1>14, SpanLinked DEF Q
  <2> QED
    BY <1>5, <1>6, <1>15, <2>1 DEF Q
<1>17. /\ p \in Seq(FrameNumber)
       /\ \E m \in Nat : /\ m <= Pad /\ m <= n + 1 /\ m <= 1
                         /\ p = Frames((n + 1) - m, n + 1)
                         /\ Len(p) = m
  <2> DEFINE r == 0
  <2>1. r \in Nat /\ r <= n /\ r <= Pad /\ n - r = n
    BY <1>1, SizesAssumption
  <2>2. v.preroll = Frames(n - r, n)
    BY <1>1, <1>4, <2>1, FramesIs
  <2>3. r + 1 = 1
    OBVIOUS
  <2> HIDE DEF r
  <2>4. n < MaxFrames
    BY <1>3
  <2>5. \E m \in Nat : /\ m <= Pad /\ m <= n + 1 /\ m <= r + 1
                       /\ m = r + 1 \/ m = Pad
                       /\ p = Frames((n + 1) - m, n + 1)
                       /\ p \in Seq(FrameNumber)
                       /\ Len(p) = m
    BY <1>1, <2>1, <2>2, <2>4, PrerollIs DEF p
  <2> QED
    BY <2>3, <2>5
<1>18. PICK m \in Nat : /\ m <= Pad /\ m <= n + 1 /\ m <= 1
                        /\ p = Frames((n + 1) - m, n + 1)
                        /\ Len(p) = m
  BY <1>17
<1>19. x \in Gathered
  <2>1. x.speechRun \in 0 .. MinSpeech /\ x.silenceRun \in 0 .. MinSilence
    <3>1. v.silenceRun + 1 \in 0 .. MinSilence /\ 0 \in 0 .. MinSpeech
      BY <1>1, <1>4, SizesAssumption
    <3> QED
      BY <1>6, <3>1
  <2>2. /\ x.events \in Seq(Event) /\ x.preroll \in Seq(FrameNumber)
        /\ x.keep \in Seq(FrameNumber) /\ x.classes \in Seq(Class)
    BY <1>6, <1>8, <1>10, <1>17, EmptySeq DEF EventsOK
  <2>3. /\ x.triggered \in BOOLEAN /\ x.opens \in BOOLEAN
        /\ x.from \in {NoStart} \cup 0 .. MaxFrames
    BY <1>6
  <2>4. x = [f \in GatheredFields |-> x[f]]
    BY <1>6
  <2> QED
    BY <1>16, <2>1, <2>2, <2>3, <2>4, GatheredShape
<1>20. RunsOK(x)
  <2>1. /\ Len(x.classes) = n + 1 /\ x.triggered = FALSE
        /\ x.classes = D /\ x.events = F /\ x.speechRun = 0
        /\ Len(x.preroll) = m /\ x.preroll = Frames((n + 1) - m, n + 1)
    <3>1. Len(p) = m /\ p = Frames((n + 1) - m, n + 1) /\ Len(D) = n + 1
      BY <1>8, <1>18
    <3> QED
      BY <1>6, <3>1
  <2>2. 0 < MinSpeech /\ 0 <= m /\ m <= n + 1
    BY <1>18, SizesAssumption
  <2>3. \A i \in 1 .. Len(F) : F[i].at + m <= n + 1
    <3>1. \A i \in 1 .. Len(F) : F[i].at \in Nat /\ F[i].at <= n
      BY <1>10, EventsAre DEF EventsOK
    <3> QED
      BY <1>1, <1>18, <3>1
  <2>4. \A i \in (n + 1) - 0 + 1 .. n + 1 : D[i] = "speech"
    BY <1>1
  <2>5. D[(n + 1) - 0] # "speech"
    <3>1. (n + 1) - 0 = n + 1
      BY <1>1
    <3> QED
      BY <1>2, <1>8, <3>1
  <2> QED
    BY <2>1, <2>2, <2>3, <2>4, <2>5 DEF RunsOK
<1>21. OnsetsOK(D, F)
  <2>1. \A j \in Nat : Spoken(E, n, j) => Spoken(F, n + 1, j)
    <3>1. \A j \in Nat : j + 1 \in Nat
      OBVIOUS
    <3>2. \A a, z \in Nat : Within(F, n + 1, a, z) <=> Within(F, n, a, z)
      BY <1>1, <1>9, <1>10, NoSegment
    <3> QED
      BY <1>10, <3>1, <3>2 DEF Spoken
  <2>2. ~(MinSpeech <= n + 1
          /\ \A i \in n + 2 - MinSpeech .. n + 1 : D[i] = "speech")
    <3>1. n + 1 \in n + 2 - MinSpeech .. n + 1
      BY <1>1, SizesAssumption
    <3> QED
      BY <1>2, <1>8, <3>1
  <2>3. MinSpeech <= n + 1
          /\ (\A i \in n + 2 - MinSpeech .. n + 1 : D[i] = "speech")
          => \A j \in n + 1 - MinSpeech .. n : Spoken(F, n + 1, j)
    BY <2>2
  <2>4. OnsetsOK(C, E)
    BY <1>3
  <2> QED
    BY <1>1, <1>7, <1>8, <2>1, <2>3, <2>4, OnsetsKept, ZenonT(60)
<1>22. \E q : Linked(x.spans, q) /\ q[0] = P /\ PendingOK(x, q[Len(x.spans)])
  <2>1. PendingOK(x, Place(F, n + 1, FALSE))
    <3>1. Place(F, n + 1, FALSE) = Place(x.events, Len(x.classes), x.triggered)
      BY <1>6, <1>8
    <3> QED
      BY <1>6, <3>1 DEF PendingOK
  <2> QED
    BY <1>16, <2>1
<1>23. Len(x.classes) <= MaxFrames /\ Len(x.preroll) <= Pad
  BY <1>6, <1>8, <1>9, <1>18
<1>24. EventsOK(x.events, Len(x.classes), x.triggered)
  <2>1. EventsOK(F, n + 1, FALSE)
    BY <1>1, <1>9, <1>10, NoSegment
  <2> QED
    BY <1>6, <1>8, <2>1
<1>25. OnsetsOK(x.classes, x.events)
  BY <1>6, <1>21
<1> QED
  BY <1>19, <1>20, <1>22, <1>23, <1>24, <1>25 DEF GatheredOK, x

(* A frame more. *)
LEMMA FrameIs ==
  ASSUME NEW v, NEW P, GatheredOK(v, P), Len(v.classes) < MaxFrames,
         NEW c \in Class
  PROVE  /\ GatheredOK(Frame(v, c), P)
         /\ Frame(v, c).classes = Append(v.classes, c)
<1>1. v \in Gathered /\ v.triggered \in BOOLEAN
  BY GatheredIs
<1>2. CASE Opens(v, c)
  <2>1. Frame(v, c).classes = Append(v.classes, c)
    BY <1>1, <1>2, OpensIs
  <2> QED
    BY <1>2, <2>1, FrameOpens
<1>3. CASE Closes(v, c)
  <2>1. Frame(v, c).classes = Append(v.classes, c)
    BY <1>1, <1>3, ClosesIs
  <2> QED
    BY <1>3, <2>1, FrameCloses
<1>4. CASE v.triggered /\ ~Closes(v, c)
  <2>1. Frame(v, c).classes = Append(v.classes, c)
    BY <1>1, <1>4, ForwardsIs
  <2> QED
    BY <1>4, <2>1, FrameForwarded
<1>5. CASE ~v.triggered /\ ~Opens(v, c)
  <2>1. Frame(v, c).classes = Append(v.classes, c)
    BY <1>1, <1>5, HoldsBackIs
  <2> QED
    BY <1>5, <2>1, FrameHeldBack
<1> QED
  BY <1>1, <1>2, <1>3, <1>4, <1>5

-----------------------------------------------------------------------------
(* A chunk of frames.                                                      *)

(* The frames of a chunk one after another. *)
LEMMA FramesExist ==
  ASSUME NEW cs, NEW n \in Nat
  PROVE  \E f : FrameRounds(f, cs, n)
<1> DEFINE Good(f, m) == FrameRounds(f, cs, m)
           Bad == {m \in Nat : ~\E f : Good(f, m)}
<1>1. Bad = {}
  <2> SUFFICES ASSUME Bad # {}  PROVE FALSE
    OBVIOUS
  <2>1. PICK m \in Bad : \A k \in Bad : m <= k
    <3>1. Bad \in SUBSET Nat
      OBVIOUS
    <3> HIDE DEF Bad
    <3> QED
      BY <3>1, LeastExists
  <2>2. CASE m = 0
    <3> DEFINE g == [i \in 0 .. 0 |-> Gathering]
    <3>1. Good(g, 0)
      BY DEF FrameRounds
    <3> QED
      BY <2>1, <2>2, <3>1
  <2>3. CASE m # 0
    <3>1. m - 1 \in Nat /\ ~(m <= m - 1)
      BY <2>1, <2>3
    <3>2. PICK f : Good(f, m - 1)
      BY <2>1, <3>1
    <3> DEFINE g == [i \in 0 .. m |->
                       IF i = 0 THEN Gathering ELSE Frame(f[i - 1], cs[i])]
    <3>3. \A i \in 0 .. m : i # 0 => i - 1 \in 0 .. m - 1 /\ i - 1 \in 0 .. m
      BY <3>1
    <3>4. \A i \in 0 .. m - 1 : g[i] = f[i]
      BY <3>1, <3>2 DEF FrameRounds
    <3>5. g = [i \in 0 .. m |->
                 IF i = 0 THEN Gathering ELSE Frame(g[i - 1], cs[i])]
      BY <3>3, <3>4
    <3>6. Good(g, m)
      BY <3>5 DEF FrameRounds
    <3> QED
      BY <2>1, <3>6
  <2> QED
    BY <2>2, <2>3
<1> QED
  BY <1>1

(* Whatever the number of frames a chunk has, each of them leaves what is
   gathered sound. *)
LEMMA FramesGathered ==
  ASSUME NEW P, GatheredOK(Gathering, P), NEW n \in Nat,
         Len(classes) + n <= MaxFrames, NEW cs \in [1 .. n -> Class],
         NEW f, FrameRounds(f, cs, n)
  PROVE  \A i \in 0 .. n : /\ GatheredOK(f[i], P)
                           /\ Len(f[i].classes) = Len(classes) + i
<1> DEFINE Good(x, i) == /\ GatheredOK(x, P)
                         /\ Len(x.classes) = Len(classes) + i
           Bad == {i \in 0 .. n : ~Good(f[i], i)}
<1>1. Gathering.classes = classes /\ Len(classes) \in Nat /\ MaxFrames \in Nat
  <2>1. Gathering.classes = classes
    BY DEF Gathering
  <2> QED
    BY <2>1, GatheredIs, SizesAssumption
<1>2. /\ f[0] = Gathering
      /\ \A i \in 0 .. n : i # 0 => f[i] = Frame(f[i - 1], cs[i])
  <2>1. \A i \in 0 .. n :
          f[i] = IF i = 0 THEN Gathering ELSE Frame(f[i - 1], cs[i])
    BY DEF FrameRounds
  <2>2. 0 \in 0 .. n
    OBVIOUS
  <2> QED
    BY <2>1, <2>2
<1>3. Bad = {}
  <2> SUFFICES ASSUME Bad # {}  PROVE FALSE
    OBVIOUS
  <2>1. PICK m \in Bad : \A k \in Bad : m <= k
    <3>1. Bad \in SUBSET Nat
      OBVIOUS
    <3> HIDE DEF Bad
    <3> QED
      BY <3>1, LeastExists
  <2>2. m \in 0 .. n /\ ~Good(f[m], m)
    BY <2>1
  <2>3. m # 0
    <3>1. Good(Gathering, 0)
      BY <1>1
    <3> HIDE DEF Good
    <3> QED
      BY <1>2, <2>2, <3>1
  <2>4. m - 1 \in 0 .. n /\ m \in 1 .. n /\ ~(m <= m - 1)
    BY <2>2, <2>3
  <2>5. Good(f[m - 1], m - 1)
    BY <2>1, <2>4
  <2> DEFINE x == f[m - 1]
             c == cs[m]
             y == f[m]
  <2>6. y = Frame(x, c) /\ c \in Class
    BY <1>2, <2>2, <2>3, <2>4
  <2>7. GatheredOK(x, P) /\ Len(x.classes) = Len(classes) + (m - 1)
    BY <2>5
  <2> HIDE DEF x, c, y
  <2>8. Len(x.classes) < MaxFrames /\ Len(x.classes) + 1 = Len(classes) + m
    <3>1. m - 1 \in Nat /\ m <= n /\ m \in Nat
      BY <2>4
    <3> QED
      BY <1>1, <2>7, <3>1
  <2>9. GatheredOK(y, P) /\ y.classes = Append(x.classes, c)
    BY <2>6, <2>7, <2>8, FrameIs
  <2>10. Len(y.classes) = Len(x.classes) + 1
    <3>1. x.classes \in Seq(Class)
      BY <2>7, GatheredIs
    <3> QED
      BY <2>6, <2>9, <3>1, ClassHeard
  <2>11. Good(y, m)
    BY <2>8, <2>9, <2>10
  <2> QED
    BY <2>2, <2>11 DEF y
<1> QED
  BY <1>3

(* flush(): what is left is handed on. *)
LEMMA LastFlushed ==
  ASSUME NEW v, NEW P, GatheredOK(v, P), NEW no \in BOOLEAN, ~no,
         NEW x, x = Flush(v, no, NoStart)
  PROVE  /\ x.classes = v.classes /\ x.triggered = v.triggered
         /\ x.speechRun = v.speechRun /\ x.silenceRun = v.silenceRun
         /\ x.preroll = v.preroll /\ x.events = v.events
         /\ x.spans \in Seq(Span)
         /\ \E at :
              /\ Linked(x.spans, at) /\ at[0] = P
              /\ at[Len(x.spans)] = Place(v.events, Len(v.classes), v.triggered)
<1> DEFINE s == [pcm |-> v.keep, start |-> v.from, opens |-> v.opens,
                 closes |-> no]
           n == Len(v.classes)
<1>1. /\ v \in Gathered /\ n \in Nat /\ n <= MaxFrames
      /\ v.spans \in Seq(Span) /\ Len(v.spans) \in Nat
      /\ DOMAIN v = GatheredFields
  <2>1. n <= MaxFrames
    BY DEF GatheredOK
  <2> QED
    BY <2>1, GatheredIs, GatheredDomain
<1>2. PICK at : /\ Linked(v.spans, at) /\ at[0] = P
                /\ PendingOK(v, at[Len(v.spans)])
  BY DEF GatheredOK
<1>3. x = Flush(v, no, NoStart)
  OBVIOUS
<1>4. /\ s.pcm = v.keep /\ s.opens = v.opens /\ s.start = v.from
      /\ DOMAIN s = {"pcm", "start", "opens", "closes"}
      /\ s = [f \in DOMAIN s |-> s[f]]
      /\ s.closes = no
  OBVIOUS
<1>5. no \in BOOLEAN /\ ~no
  OBVIOUS
<1>6. SpansEmitted(v, no, NoStart)
        = IF v.from # NoStart /\ (v.keep # <<>> \/ v.opens)
            THEN Append(v.spans, s) ELSE v.spans
  BY <1>1 DEF SpansEmitted, Gathered
<1> HIDE DEF s, n
<1>7. /\ x.classes = v.classes /\ x.triggered = v.triggered
      /\ x.speechRun = v.speechRun /\ x.silenceRun = v.silenceRun
      /\ x.preroll = v.preroll /\ x.events = v.events
      /\ x.spans = SpansEmitted(v, no, NoStart)
  <2>1. LET y == Flush(v, no, NoStart)
        IN /\ y.classes = v.classes /\ y.triggered = v.triggered
           /\ y.speechRun = v.speechRun /\ y.silenceRun = v.silenceRun
           /\ y.preroll = v.preroll /\ y.events = v.events
           /\ y.spans = SpansEmitted(v, no, NoStart)
           /\ y.keep = <<>> /\ y.from = NoStart /\ y.opens = FALSE
           /\ y = [f \in GatheredFields |-> y[f]]
    BY <1>1, FlushIs
  <2> QED
    BY <1>3, <2>1
<1> DEFINE Q == at[Len(v.spans)]
<1>8. Q \in Position /\ PendingOK(v, Q)
  BY <1>1, <1>2 DEF Linked
<1>9. CASE v.keep = <<>>
  <2>1. v.from = NoStart /\ Q = Place(v.events, n, v.triggered)
    BY <1>8, <1>9 DEF PendingOK, n
  <2>2. x.spans = v.spans
    BY <1>6, <1>7, <2>1
  <2> QED
    BY <1>1, <1>2, <1>7, <2>1, <2>2 DEF n
<1>10. CASE v.keep # <<>>
  <2>1. v.triggered /\ v.from # NoStart
    BY <1>8, <1>10 DEF PendingOK
  <2>2. x.spans = Append(v.spans, s)
    BY <1>6, <1>7, <1>10, <2>1
  <2>3. s.start = IF v.from # NoStart THEN v.from ELSE n
    BY <1>4, <2>1
  <2>4. s.closes \in BOOLEAN
    BY <1>4, <1>5
  <2> HIDE DEF Q
  <2>5. /\ SpanOK(s, Q)
        /\ WithAudio(s, Q)
             = [events |-> v.events, heard |-> n, on |-> TRUE]
    BY <1>1, <1>4, <1>8, <1>10, <2>1, <2>3, <2>4, SpanPending DEF n
  <2>6. WithSpan(s, Q) = Place(v.events, n, v.triggered)
    <3>1. v.triggered = TRUE
      BY <1>1, <2>1 DEF Gathered
    <3>2. WithSpan(s, Q) = WithAudio(s, Q)
      BY <1>4, <1>5 DEF WithSpan
    <3> QED
      BY <2>5, <3>1, <3>2 DEF Place
  <2>7. /\ Append(v.spans, s) \in Seq(Span)
        /\ \E to : /\ Linked(Append(v.spans, s), to) /\ to[0] = at[0]
                   /\ to[Len(Append(v.spans, s))] = WithSpan(s, at[Len(v.spans)])
    BY <1>1, <1>2, <2>5, SpanLinked DEF Q
  <2> QED
    BY <1>2, <1>7, <2>2, <2>6, <2>7 DEF Q, n
<1> QED
  BY <1>9, <1>10

(* VADSegmenter.push. *)
LEMMA SegmentedIs ==
  ASSUME NEW P, GatheredOK(Gathering, P), NEW n \in Nat,
         Len(classes) + n <= MaxFrames, NEW cs \in [1 .. n -> Class],
         NEW v, v = Segmented(cs)
  PROVE  SegmentedOK(v, P, Len(classes) + n)
<1> DEFINE f == CHOOSE g : FrameRounds(g, cs, Len(cs))
           w == f[Len(cs)]
           no == FALSE
<1>1. Len(cs) = n
  <2>1. cs \in Seq(Class)
    BY SeqDef
  <2>2. DOMAIN cs = 1 .. n
    OBVIOUS
  <2> QED
    BY <2>1, <2>2, LenProperties
<1>2. v = Flush(w, no, NoStart) /\ no \in BOOLEAN /\ ~no
  BY DEF Segmented, FrameRounds
<1>3. FrameRounds(f, cs, n)
  <2>1. \E g : FrameRounds(g, cs, Len(cs))
    BY <1>1, FramesExist
  <2> QED
    BY <1>1, <2>1
<1> HIDE DEF f, no
<1>4. GatheredOK(w, P) /\ Len(w.classes) = Len(classes) + n
  <2>1. n \in 0 .. n
    OBVIOUS
  <2> QED
    BY <1>1, <1>3, <2>1, FramesGathered
<1> HIDE DEF w
<1>5. /\ w \in Gathered /\ Len(w.preroll) <= Pad
      /\ EventsOK(w.events, Len(w.classes), w.triggered)
      /\ RunsOK(w) /\ OnsetsOK(w.classes, w.events)
  BY <1>4 DEF GatheredOK
<1>6. /\ v.classes = w.classes /\ v.triggered = w.triggered
      /\ v.speechRun = w.speechRun /\ v.silenceRun = w.silenceRun
      /\ v.preroll = w.preroll /\ v.events = w.events
      /\ v.spans \in Seq(Span)
      /\ \E at :
           /\ Linked(v.spans, at) /\ at[0] = P
           /\ at[Len(v.spans)] = Place(w.events, Len(w.classes), w.triggered)
  BY <1>2, <1>4, LastFlushed
<1>7. RunsOK(v)
  BY <1>5, <1>6 DEF RunsOK
<1>8. /\ w.classes \in Seq(Class) /\ w.triggered \in BOOLEAN
      /\ w.speechRun \in 0 .. MinSpeech /\ w.silenceRun \in 0 .. MinSilence
      /\ w.preroll \in Seq(FrameNumber)
  BY <1>5 DEF Gathered
<1> QED
  BY <1>4, <1>5, <1>6, <1>7, <1>8 DEF SegmentedOK

-----------------------------------------------------------------------------
(* The invariant, step by step.                                            *)

(* Before a chunk, nothing is gathered. *)
LEMMA GatheringIs ==
  ASSUME SegmentationInv, ~ended
  PROVE  GatheredOK(Gathering, Place(events, Len(classes), triggered))
<1> DEFINE g == Gathering
           P == Place(events, Len(classes), triggered)
<1>1. /\ g.classes = classes /\ g.triggered = triggered
      /\ g.speechRun = speechRun /\ g.silenceRun = silenceRun
      /\ g.preroll = preroll /\ g.events = events /\ g.spans = <<>>
      /\ g.keep = <<>> /\ g.from = NoStart /\ g.opens = FALSE
      /\ g = [f \in GatheredFields |-> g[f]]
  BY DEF Gathering, GatheredFields
<1>2. RunsOK(g)
  BY DEF SegmentationInv
<1> HIDE DEF g
<1>3. /\ classes \in Seq(Class) /\ Len(classes) <= MaxFrames
      /\ triggered \in BOOLEAN /\ speechRun \in 0 .. MinSpeech
      /\ silenceRun \in 0 .. MinSilence
      /\ preroll \in Seq(FrameNumber) /\ Len(preroll) <= Pad
      /\ EventsOK(events, Len(classes), triggered)
      /\ OnsetsOK(classes, events)
      /\ BufferOK(Held, P)
  BY DEF SegmentationInv, TypeOK
<1>4. events \in Seq(Event) /\ P \in Position
  BY <1>3, BufferIs DEF EventsOK
<1>5. <<>> \in Seq(FrameNumber) /\ <<>> \in Seq(Span) /\ Len(<<>>) = 0
  BY EmptySeq
<1>6. g \in Gathered
  BY <1>1, <1>3, <1>4, <1>5, GatheredShape
<1>7. PendingOK(g, P)
  BY <1>1 DEF PendingOK
<1> HIDE DEF P
<1> DEFINE at == [i \in 0 .. 0 |-> P]
<1>8. at[0] = P /\ at \in [0 .. 0 -> Position]
  BY <1>4
<1>9. Linked(<<>>, at)
  BY <1>5, <1>8 DEF Linked
<1> HIDE DEF at
<1>10. \E t : Linked(g.spans, t) /\ t[0] = P /\ PendingOK(g, t[Len(g.spans)])
  BY <1>1, <1>5, <1>7, <1>8, <1>9
<1> QED
  BY <1>1, <1>2, <1>3, <1>6, <1>10 DEF GatheredOK, g, P

(* What the buffer became is what it holds for the next chunk. *)
LEMMA HeldIs ==
  ASSUME NEW c, NEW Q, BufferOK(c, Q), Becomes(c)
  PROVE  /\ BufferOK(Held', Q) /\ Follows(c, Held')
         /\ pcm' \in Seq(FrameNumber)
         /\ startAt' \in {NoStart} \cup 0 .. MaxFrames
         /\ continues' \in BOOLEAN /\ partialAt' \in 0 .. MaxFrames
         /\ finals' \in Seq(Utterance)
<1> DEFINE d == Held'
<1>1. c \in Buffer
  BY BufferIs
<1>2. /\ d.pcm = pcm' /\ d.start = startAt' /\ d.continues = continues'
      /\ d.partialAt = partialAt' /\ d.partial = None /\ d.finals = finals'
      /\ d = [pcm |-> d.pcm, start |-> d.start, continues |-> d.continues,
              partialAt |-> d.partialAt, partial |-> d.partial,
              finals |-> d.finals]
  BY DEF Held
<1>3. /\ pcm' = c.pcm /\ startAt' = c.start /\ continues' = c.continues
      /\ partialAt' = c.partialAt /\ finals' = c.finals
  BY DEF Becomes
<1> HIDE DEF d
<1>4. /\ c.pcm \in Seq(FrameNumber)
      /\ c.start \in {NoStart} \cup 0 .. MaxFrames
      /\ c.continues \in BOOLEAN /\ c.partialAt \in 0 .. MaxFrames
      /\ c.finals \in Seq(Utterance)
  BY <1>1 DEF Buffer
<1>5. d \in Buffer
  BY <1>2, <1>3, <1>4 DEF Buffer
<1>6. BufferOK(d, Q) /\ Follows(c, d)
  BY <1>2, <1>3, <1>5, BufferSame
<1> QED
  BY <1>3, <1>4, <1>6 DEF d

(* The invariant holds when the stream opens. *)
LEMMA InvInit ==
  ASSUME Init
  PROVE  SegmentationInv
<1> DEFINE P == Place(events, Len(classes), triggered)
           h == Held
<1>1. /\ classes = <<>> /\ triggered = FALSE /\ speechRun = 0
      /\ silenceRun = 0 /\ preroll = <<>> /\ events = <<>> /\ pcm = <<>>
      /\ startAt = NoStart /\ continues = FALSE /\ partialAt = 0
      /\ finals = <<>> /\ anchor = NoAnchor(None) /\ sentence = None
      /\ grey = None /\ ended = FALSE
  BY DEF Init
<1>2. \A S : <<>> \in Seq(S)
  BY EmptySeq
<1>3. /\ Len(<<>>) = 0 /\ 0 \in 0 .. MaxFrames /\ 0 <= MaxFrames /\ 0 <= Pad
      /\ 0 < MaxLen /\ 0 < MinSpeech /\ 0 \in 0 .. MinSpeech
      /\ 0 \in 0 .. MinSilence
  BY SizesAssumption
<1>4. /\ anchor.index = None /\ anchor.from = 0 /\ anchor.pcm = <<>>
      /\ anchor \in [index : {None} \cup 0 .. MaxFrames, from : 0 .. MaxFrames,
                     pcm : Seq(FrameNumber)]
  BY <1>1, <1>2, <1>3 DEF NoAnchor
<1>5. TypeOK
  BY <1>1, <1>2, <1>3, <1>4 DEF TypeOK
<1>6. EventsOK(events, 0, FALSE)
  BY <1>1, <1>2, <1>3 DEF EventsOK
<1>7. RunsOK(Gathering)
  <2> DEFINE g == Gathering
  <2>1. /\ g.classes = <<>> /\ g.triggered = FALSE /\ g.speechRun = 0
        /\ g.preroll = <<>> /\ g.events = <<>>
    BY <1>1 DEF Gathering
  <2> HIDE DEF g
  <2>2. Frames(0, 0) = <<>> /\ 0 - 0 = 0
    BY FramesIs
  <2>3. \A i \in 0 - 0 + 1 .. 0 : FALSE
    OBVIOUS
  <2> QED
    BY <1>3, <2>1, <2>2, <2>3 DEF RunsOK, g
<1>8. OnsetsOK(classes, events)
  <2>1. 1 .. 0 - MinSpeech + 1 = {}
    BY SizesAssumption
  <2> QED
    BY <1>1, <1>3, <2>1 DEF OnsetsOK
<1>9. /\ P.events = <<>> /\ P.heard = 0 /\ P.on = FALSE
      /\ P = [events |-> P.events, heard |-> P.heard, on |-> P.on]
  BY <1>1 DEF Place, HandedOnTo
<1>10. /\ h.pcm = <<>> /\ h.start = NoStart /\ h.continues = FALSE
       /\ h.partialAt = 0 /\ h.partial = None /\ h.finals = <<>>
       /\ h = [pcm |-> h.pcm, start |-> h.start, continues |-> h.continues,
               partialAt |-> h.partialAt, partial |-> h.partial,
               finals |-> h.finals]
  BY <1>1 DEF Held
<1> HIDE DEF P, h
<1>11. BufferOK(h, P)
  <2>1. P \in Position
    BY <1>2, <1>3, <1>9 DEF Position
  <2>2. h \in Buffer
    BY <1>2, <1>3, <1>10 DEF Buffer
  <2>3. ~IsOpen(h)
    BY <1>10 DEF IsOpen
  <2>4. \A i \in 1 .. 0 : FALSE
    OBVIOUS
  <2>5. FinalsOK(h.finals, P)
    BY <1>3, <1>9, <1>10, <2>4 DEF FinalsOK, InOrder
  <2>6. OpenOK(h, P)
    BY <1>10, <2>3 DEF OpenOK
  <2>7. \A k \in FrameNumber : Spoken(P.events, P.heard, k) <=> Covered(h, k)
    BY <1>3, <1>9, <1>10, <2>3, <2>4 DEF Spoken, Within, Covered
  <2>8. EventsOK(P.events, P.heard, P.on)
    BY <1>1, <1>6, <1>9
  <2> QED
    BY <1>9, <2>1, <2>2, <2>3, <2>5, <2>6, <2>7, <2>8 DEF BufferOK
<1>12. AnchorOK(anchor, h)
  BY <1>3, <1>4, <1>10 DEF AnchorOK, None
<1>13. ScreenOK
  BY <1>1, <1>3 DEF ScreenOK, RunningTextIsAhead, None
<1>14. Len(classes) = 0 /\ Len(pcm) < MaxLen
  BY <1>1, <1>3
<1> QED
  BY <1>1, <1>5, <1>6, <1>7, <1>8, <1>11, <1>12, <1>13, <1>14
  DEF SegmentationInv, P, h

(* handle_binary. *)
LEMMA AudioKeepsInv ==
  ASSUME SegmentationInv, Audio
  PROVE  SegmentationInv'
<1> DEFINE P == Place(events, Len(classes), triggered)
<1>1. PICK n \in 0 .. MaxFrames :
        /\ Completes(n)
        /\ \E cs \in [1 .. n -> Class] :
             LET v == Segmented(cs)
             IN /\ classes' = v.classes
                /\ triggered' = v.triggered
                /\ speechRun' = v.speechRun
                /\ silenceRun' = v.silenceRun
                /\ preroll' = v.preroll
                /\ events' = v.events
                /\ \E b \in {Buffered(v.spans, dip) : dip \in 1 .. Search} :
                   \E o \in Observe(b) :
                   \E cut \in {SplitOnChange(b, o.changed, dip) :
                                 dip \in 1 .. Search} :
                     /\ anchor' = o.anchor
                     /\ Becomes(cut)
                     /\ Announced(cut)
  BY DEF Audio
<1>2. n \in Nat /\ Len(classes) + n <= MaxFrames
  BY <1>1 DEF Completes
<1>3. PICK cs \in [1 .. n -> Class] :
             LET v == Segmented(cs)
             IN /\ classes' = v.classes
                /\ triggered' = v.triggered
                /\ speechRun' = v.speechRun
                /\ silenceRun' = v.silenceRun
                /\ preroll' = v.preroll
                /\ events' = v.events
                /\ \E b \in {Buffered(v.spans, dip) : dip \in 1 .. Search} :
                   \E o \in Observe(b) :
                   \E cut \in {SplitOnChange(b, o.changed, dip) :
                                 dip \in 1 .. Search} :
                     /\ anchor' = o.anchor
                     /\ Becomes(cut)
                     /\ Announced(cut)
  BY <1>1
<1> DEFINE v == Segmented(cs)
<1>4. /\ classes' = v.classes /\ triggered' = v.triggered
      /\ speechRun' = v.speechRun /\ silenceRun' = v.silenceRun
      /\ preroll' = v.preroll /\ events' = v.events
      /\ \E b \in {Buffered(v.spans, dip) : dip \in 1 .. Search} :
         \E o \in Observe(b) :
         \E cut \in {SplitOnChange(b, o.changed, dip) :
                       dip \in 1 .. Search} :
           /\ anchor' = o.anchor
           /\ Becomes(cut)
           /\ Announced(cut)
  BY <1>3
<1>5. v = Segmented(cs)
  OBVIOUS
<1> HIDE DEF v
<1>6. PICK b \in {Buffered(v.spans, dip) : dip \in 1 .. Search} :
         \E o \in Observe(b) :
         \E cut \in {SplitOnChange(b, o.changed, dip) :
                       dip \in 1 .. Search} :
           /\ anchor' = o.anchor
           /\ Becomes(cut)
           /\ Announced(cut)
  BY <1>4
<1>7. PICK d \in 1 .. Search : b = Buffered(v.spans, d)
  BY <1>6
<1>8. PICK o \in Observe(b) :
         \E cut \in {SplitOnChange(b, o.changed, dip) :
                       dip \in 1 .. Search} :
           /\ anchor' = o.anchor
           /\ Becomes(cut)
           /\ Announced(cut)
  BY <1>6
<1>9. PICK cut \in {SplitOnChange(b, o.changed, dip) : dip \in 1 .. Search} :
         /\ anchor' = o.anchor
         /\ Becomes(cut)
         /\ Announced(cut)
  BY <1>8
<1>10. PICK e \in 1 .. Search : cut = SplitOnChange(b, o.changed, e)
  BY <1>9
<1>11. d \in Nat /\ e \in Nat
  BY SizesAssumption
<1>12. ~ended /\ ended' = ended
  BY DEF Audio
<1>13. GatheredOK(Gathering, P)
  BY <1>12, GatheringIs
<1>14. /\ TypeOK /\ BufferOK(Held, P) /\ Len(pcm) < MaxLen
       /\ AnchorOK(anchor, Held) /\ ScreenOK
  BY DEF SegmentationInv
<1> HIDE DEF P
<1>15. /\ v.classes \in Seq(Class) /\ v.triggered \in BOOLEAN
       /\ Len(v.classes) = Len(classes) + n
       /\ v.speechRun \in 0 .. MinSpeech /\ v.silenceRun \in 0 .. MinSilence
       /\ v.preroll \in Seq(FrameNumber) /\ Len(v.preroll) <= Pad
       /\ EventsOK(v.events, Len(v.classes), v.triggered)
       /\ RunsOK(v) /\ OnsetsOK(v.classes, v.events)
       /\ v.spans \in Seq(Span)
       /\ \E at :
            /\ Linked(v.spans, at) /\ at[0] = P
            /\ at[Len(v.spans)] = Place(v.events, Len(v.classes), v.triggered)
  <2>1. SegmentedOK(v, P, Len(classes) + n)
    BY <1>2, <1>5, <1>13, SegmentedIs
  <2> QED
    BY <2>1 DEF SegmentedOK
<1> DEFINE Q == Place(v.events, Len(v.classes), v.triggered)
<1>16. /\ BufferOK(b, Q) /\ Follows(Held, b)
       /\ PartialOK(b) /\ Len(b.pcm) < MaxLen
  <2>1. PICK at : /\ Linked(v.spans, at) /\ at[0] = P
                  /\ at[Len(v.spans)] = Q
    BY <1>15
  <2>2. Len(v.spans) \in Nat
    BY <1>15, EmptySeq
  <2> HIDE DEF Q
  <2>3. /\ BufferOK(b, at[Len(v.spans)]) /\ Follows(Held, b)
        /\ PartialOK(b) /\ Len(b.pcm) < MaxLen
    BY <1>7, <1>11, <1>14, <2>1, <2>2, BufferedIs
  <2> QED
    BY <2>1, <2>3
<1> HIDE DEF Q
<1>17. /\ Len(Held.finals) \in Nat /\ Len(b.finals) \in Nat
       /\ Held.finals = finals
  <2>1. Held.finals = finals
    BY DEF Held
  <2> QED
    BY <1>14, <1>16, <2>1, BufferIs
<1>18. anchor \in Anchor /\ AnchorOK(anchor, b)
  <2>1. anchor \in Anchor
    BY <1>14 DEF TypeOK, Anchor
  <2> QED
    BY <1>14, <1>16, <1>17, <2>1, AnchorFollows
<1>19. /\ BufferOK(cut, Q) /\ Follows(b, cut) /\ PartialOK(cut)
       /\ Len(cut.pcm) < MaxLen
       /\ o.anchor \in Anchor /\ AnchorOK(o.anchor, cut)
  BY <1>10, <1>11, <1>16, <1>18, ObservedIs
<1>20. Becomes(cut) /\ Announced(cut) /\ anchor' = o.anchor
  BY <1>9
<1>21. /\ BufferOK(Held', Q) /\ Follows(cut, Held')
       /\ pcm' \in Seq(FrameNumber)
       /\ startAt' \in {NoStart} \cup 0 .. MaxFrames
       /\ continues' \in BOOLEAN /\ partialAt' \in 0 .. MaxFrames
       /\ finals' \in Seq(Utterance)
  BY <1>19, <1>20, HeldIs
<1>22. Len(cut.finals) \in Nat /\ Len(Held'.finals) \in Nat
  BY <1>19, <1>21, BufferIs
<1>23. AnchorOK(anchor', Held')
  BY <1>19, <1>20, <1>21, <1>22, AnchorFollows
<1>24. finals' = cut.finals /\ pcm' = cut.pcm
  BY <1>20 DEF Becomes
<1>25. /\ sentence' \in {None} \cup 0 .. MaxFrames
       /\ grey' \in {None} \cup 0 .. MaxFrames
       /\ ScreenOK'
  <2>1. Len(finals) <= Len(cut.finals)
    <3>1. Len(finals) <= Len(b.finals) /\ Len(b.finals) <= Len(cut.finals)
      BY <1>16, <1>17, <1>19 DEF Follows
    <3> QED
      BY <1>17, <1>22, <3>1
  <2>2. Len(cut.finals) \in 0 .. MaxFrames /\ Len(finals) \in Nat
    <3>1. Len(cut.finals) <= Q.heard /\ Q.heard \in Nat /\ Q.heard \in 0 .. MaxFrames
      BY <1>19, BufferIs
    <3> QED
      BY <1>17, <1>22, <3>1, SizesAssumption
  <2>3. cut.partial # None => cut.partial = Len(cut.finals)
    BY <1>19 DEF PartialOK
  <2>4. /\ sentence \in {None} \cup 0 .. MaxFrames
        /\ grey \in {None} \cup 0 .. MaxFrames /\ ScreenOK
    BY <1>14 DEF TypeOK
  <2> QED
    BY <1>20, <1>24, <2>1, <2>2, <2>3, <2>4, AnnouncedIs
<1>26. TypeOK'
  <2>1. Len(classes') <= MaxFrames
    BY <1>2, <1>4, <1>15
  <2>2. /\ events' \in Seq([kind : {"speech_start", "speech_end"},
                            at : 0 .. MaxFrames])
    BY <1>4, <1>15 DEF EventsOK, Event
  <2>3. anchor' \in [index : {None} \cup 0 .. MaxFrames, from : 0 .. MaxFrames,
                     pcm : Seq(FrameNumber)]
    BY <1>19, <1>20 DEF Anchor
  <2>4. ended' \in BOOLEAN
    BY <1>12, <1>14 DEF TypeOK
  <2> QED
    BY <1>4, <1>15, <1>21, <1>25, <2>1, <2>2, <2>3, <2>4 DEF TypeOK
<1>27. RunsOK(Gathering)'
  <2> DEFINE g == Gathering'
  <2>1. /\ g.classes = v.classes /\ g.triggered = v.triggered
        /\ g.speechRun = v.speechRun /\ g.silenceRun = v.silenceRun
        /\ g.preroll = v.preroll /\ g.events = v.events
    BY <1>4 DEF Gathering
  <2> HIDE DEF g
  <2>2. RunsOK(g)
    BY <1>15, <2>1 DEF RunsOK
  <2> QED
    BY <2>2 DEF g
<1>28. EventsOK(events', Len(classes'), triggered')
  BY <1>4, <1>15
<1>29. OnsetsOK(classes', events')
  BY <1>4, <1>15
<1>30. BufferOK(Held', Place(events', Len(classes'), triggered'))
  BY <1>4, <1>21 DEF Q
<1>31. Len(pcm') < MaxLen
  BY <1>19, <1>24
<1> QED
  BY <1>23, <1>25, <1>26, <1>27, <1>28, <1>29, <1>30, <1>31
  DEF SegmentationInv

(* _close_segment. *)
LEMMA CloseKeepsInv ==
  ASSUME SegmentationInv, Close
  PROVE  SegmentationInv'
<1> DEFINE n == Len(classes)
           P == Place(events, n, triggered)
           c == Flushed(Held)
           Q == Place(events', n, FALSE)
<1>1. /\ TypeOK /\ EventsOK(events, n, triggered)
      /\ OnsetsOK(classes, events) /\ BufferOK(Held, P)
      /\ Len(pcm) < MaxLen /\ AnchorOK(anchor, Held) /\ ScreenOK
  BY DEF SegmentationInv
<1>2. /\ SegmentClosed /\ Becomes(c) /\ Announced(c)
      /\ ended' = TRUE /\ classes' = classes /\ preroll' = preroll
      /\ anchor' = anchor
  BY DEF Close
<1>3. /\ n \in Nat /\ n \in 0 .. MaxFrames /\ triggered \in BOOLEAN
      /\ MinSpeech \in Nat \ {0} /\ MaxLen \in Nat
  <2>1. classes \in Seq(Class) /\ n <= MaxFrames /\ triggered \in BOOLEAN
    BY <1>1 DEF TypeOK
  <2>2. n \in Nat
    BY <2>1, EmptySeq
  <2> QED
    BY <2>1, <2>2, SizesAssumption
<1>4. /\ Held.finals = finals /\ Held.pcm = pcm /\ Held.partial = None
      /\ Held.start = startAt /\ Held.continues = continues
      /\ Held.partialAt = partialAt
      /\ Held = [pcm |-> pcm, start |-> startAt, continues |-> continues,
                 partialAt |-> partialAt, partial |-> None, finals |-> finals]
  BY DEF Held
<1>5. P.on = triggered /\ P.events = events
  BY DEF Place
<1>6. Len(Held.finals) \in Nat /\ Held \in Buffer /\ (IsOpen(Held) <=> triggered)
  <2>1. IsOpen(Held) <=> P.on
    BY <1>1 DEF BufferOK
  <2> QED
    BY <1>1, <1>5, <2>1, BufferIs
<1>7. /\ triggered' = FALSE /\ EventsOK(events', n, FALSE)
      /\ \A a, z \in Nat : Within(events', n, a, z) <=> Within(events, n, a, z)
      /\ speechRun' \in 0 .. MinSpeech /\ silenceRun' \in 0 .. MinSilence
      /\ BufferOK(c, Q) /\ Follows(Held, c) /\ c.pcm = <<>>
      /\ c.partial = None
  <2>1. CASE triggered = TRUE
    <3>1. /\ events' = WithEnd(events, n) /\ triggered' = FALSE
          /\ speechRun' = 0 /\ silenceRun' = 0
      BY <1>2, <2>1 DEF SegmentClosed, WithEnd, EndAt
    <3>2. EventsOK(events, n, TRUE)
      BY <1>1, <2>1
    <3> DEFINE D == events'
    <3>3. D = WithEnd(events, n)
      BY <3>1
    <3> HIDE DEF D, n
    <3>4. /\ EventsOK(D, n, FALSE) /\ HandedOnTo(D) = n
          /\ \A a, z \in Nat : Within(D, n, a, z) <=> Within(events, n, a, z)
      BY <1>3, <3>2, <3>3, SegmentClosedAt
    <3>5. P.heard = n
      BY <2>1 DEF Place
    <3>6. Q = Ended(P)
      BY <1>5, <3>3, <3>4, <3>5 DEF Ended, Place, D
    <3>7. "end_of_stream" \in Reason
      BY DEF Reason
    <3>8. Len(Held.pcm) <= MaxLen /\ IsOpen(Held)
      <4>1. Len(Held.pcm) \in Nat
        BY <1>1, BufferIs
      <4> QED
        BY <1>1, <1>3, <1>4, <1>6, <2>1, <4>1
    <3>9. c = IF Held.pcm # <<>> THEN Finalize(Held, "end_of_stream")
                                 ELSE DiscardOpen(Held)
      BY <3>8 DEF Flushed
    <3> DEFINE h == Held
    <3>10. /\ BufferOK(h, P) /\ IsOpen(h) /\ Len(h.pcm) <= MaxLen
           /\ c = IF h.pcm # <<>> THEN Finalize(h, "end_of_stream")
                                  ELSE DiscardOpen(h)
      BY <1>1, <3>8, <3>9
    <3> HIDE DEF h, c, P, Q
    <3>11. /\ BufferOK(c, Ended(P)) /\ Follows(h, c)
           /\ c.pcm = <<>> /\ c.partial = h.partial
      BY <3>7, <3>10, BufferClosed
    <3>12. 0 \in 0 .. MinSpeech /\ 0 \in 0 .. MinSilence
      BY SizesAssumption
    <3> QED
      BY <1>4, <3>1, <3>4, <3>6, <3>11, <3>12 DEF h, D
  <2>2. CASE triggered = FALSE
    <3>1. /\ events' = events /\ triggered' = FALSE
          /\ speechRun' = speechRun /\ silenceRun' = silenceRun
      BY <1>2, <2>2 DEF SegmentClosed
    <3>2. Q = P
      BY <2>2, <3>1
    <3>3. ~IsOpen(Held) /\ startAt = NoStart
      BY <1>4, <1>6, <2>2 DEF IsOpen
    <3>4. pcm = <<>> /\ ~continues
      BY <1>1, <1>4, <3>3 DEF BufferOK, OpenOK
    <3>5. c = DiscardOpen(Held)
      BY <3>3 DEF Flushed
    <3>6. continues \in BOOLEAN
      BY <1>1 DEF TypeOK
    <3>7. c = Held
      <4>1. continues = FALSE
        BY <3>4, <3>6
      <4> QED
        BY <1>4, <3>3, <3>4, <3>5, <4>1 DEF DiscardOpen
    <3>8. Follows(Held, Held)
      BY <1>6, FollowsItself
    <3>9. speechRun \in 0 .. MinSpeech /\ silenceRun \in 0 .. MinSilence
      BY <1>1 DEF TypeOK
    <3>10. EventsOK(events, n, FALSE)
      BY <1>1, <2>2
    <3> HIDE DEF c, P, Q, n
    <3> QED
      BY <1>1, <1>4, <3>1, <3>2, <3>4, <3>7, <3>8, <3>9, <3>10
  <2> QED
    BY <1>3, <2>1, <2>2
<1> HIDE DEF c, P, Q
<1>8. /\ BufferOK(Held', Q) /\ Follows(c, Held')
      /\ pcm' \in Seq(FrameNumber)
      /\ startAt' \in {NoStart} \cup 0 .. MaxFrames
      /\ continues' \in BOOLEAN /\ partialAt' \in 0 .. MaxFrames
      /\ finals' \in Seq(Utterance)
  BY <1>2, <1>7, HeldIs
<1>9. Len(c.finals) \in Nat /\ Len(Held'.finals) \in Nat
  BY <1>7, <1>8, BufferIs
<1>10. AnchorOK(anchor', Held')
  <2>1. anchor \in Anchor
    BY <1>1 DEF TypeOK, Anchor
  <2>2. AnchorOK(anchor, c)
    BY <1>1, <1>6, <1>7, <1>9, <2>1, AnchorFollows
  <2>3. AnchorOK(anchor, Held')
    BY <1>8, <1>9, <2>1, <2>2, AnchorFollows
  <2> QED
    BY <1>2, <2>3
<1>11. finals' = c.finals /\ pcm' = <<>>
  BY <1>2, <1>7 DEF Becomes
<1>12. /\ sentence' \in {None} \cup 0 .. MaxFrames
       /\ grey' \in {None} \cup 0 .. MaxFrames
       /\ ScreenOK'
  <2>1. Len(finals) <= Len(c.finals) /\ Len(finals) \in Nat
    BY <1>4, <1>6, <1>7 DEF Follows
  <2>2. Len(c.finals) \in 0 .. MaxFrames
    <3>1. Len(c.finals) <= Q.heard /\ Q.heard \in Nat /\ Q.heard \in 0 .. MaxFrames
      BY <1>7, BufferIs
    <3> QED
      BY <1>9, <3>1, SizesAssumption
  <2>3. /\ sentence \in {None} \cup 0 .. MaxFrames
        /\ grey \in {None} \cup 0 .. MaxFrames
    BY <1>1 DEF TypeOK
  <2> QED
    BY <1>1, <1>2, <1>7, <1>11, <2>1, <2>2, <2>3, AnnouncedIs
<1>13. TypeOK'
  <2>1. events' \in Seq([kind : {"speech_start", "speech_end"},
                         at : 0 .. MaxFrames])
    BY <1>7 DEF EventsOK, Event
  <2>2. /\ classes' \in Seq(Class) /\ Len(classes') <= MaxFrames
        /\ preroll' \in Seq(FrameNumber) /\ Len(preroll') <= Pad
        /\ anchor' \in [index : {None} \cup 0 .. MaxFrames,
                        from : 0 .. MaxFrames, pcm : Seq(FrameNumber)]
    BY <1>1, <1>2 DEF TypeOK
  <2> QED
    BY <1>2, <1>7, <1>8, <1>12, <2>1, <2>2 DEF TypeOK
<1>14. OnsetsOK(classes, events')
  <2>1. \A j \in Nat : Spoken(events, n, j) => Spoken(events', n, j)
    <3>1. \A j \in Nat : j + 1 \in Nat
      OBVIOUS
    <3> QED
      BY <1>7, <3>1 DEF Spoken
  <2>2. ASSUME NEW k \in 1 .. n - MinSpeech + 1,
               \A i \in k .. k + MinSpeech - 1 : classes[i] = "speech"
        PROVE  \A i \in k .. k + MinSpeech - 1 : Spoken(events', n, i - 1)
    <3>1. \A i \in k .. k + MinSpeech - 1 : Spoken(events, n, i - 1)
      BY <1>1, <2>2 DEF OnsetsOK
    <3>2. \A i \in k .. k + MinSpeech - 1 : i - 1 \in Nat
      BY <1>3
    <3> QED
      BY <2>1, <3>1, <3>2
  <2> QED
    BY <2>2 DEF OnsetsOK
<1>15. EventsOK(events', Len(classes'), triggered')
  BY <1>2, <1>7
<1>16. OnsetsOK(classes', events')
  BY <1>2, <1>14
<1>17. BufferOK(Held', Place(events', Len(classes'), triggered'))
  BY <1>2, <1>7, <1>8 DEF Q
<1>18. Len(pcm') < MaxLen
  BY <1>3, <1>11, SizesAssumption
<1> QED
  BY <1>2, <1>10, <1>12, <1>13, <1>15, <1>16, <1>17, <1>18
  DEF SegmentationInv

-----------------------------------------------------------------------------
(* What the invariant says of the properties.                              *)

(* The invariant, part by part. *)
LEMMA InvIs ==
  ASSUME SegmentationInv,
         NEW P, P = Place(events, Len(classes), triggered)
  PROVE  /\ TypeOK /\ Len(classes) \in Nat /\ Len(finals) \in Nat
         /\ Len(classes) <= MaxFrames
         /\ EventsOK(events, Len(classes), triggered)
         /\ BufferOK(Held, P)
         /\ P.events = events /\ P.on = triggered
         /\ Held.finals = finals /\ Held.pcm = pcm /\ Held.start = startAt
         /\ FinalsOK(finals, P) /\ OpenOK(Held, P)
         /\ \A a, z \in Nat : Within(events, P.heard, a, z)
                                <=> Within(events, Len(classes), a, z)
<1>1. /\ TypeOK /\ EventsOK(events, Len(classes), triggered)
      /\ BufferOK(Held, P)
  BY DEF SegmentationInv
<1>2. Held.finals = finals /\ Held.pcm = pcm /\ Held.start = startAt
  BY DEF Held
<1>3. /\ P.events = events /\ P.on = triggered
      /\ P.heard = IF triggered THEN Len(classes) ELSE HandedOnTo(events)
  BY DEF Place
<1>4. Len(classes) \in Nat /\ Len(classes) <= MaxFrames /\ triggered \in BOOLEAN
  BY <1>1, EmptySeq DEF TypeOK
<1>5. FinalsOK(finals, P) /\ OpenOK(Held, P) /\ Len(finals) \in Nat
  BY <1>1, <1>2, BufferIs DEF BufferOK
<1>6. ASSUME NEW a \in Nat, NEW z \in Nat
      PROVE  Within(events, P.heard, a, z) <=> Within(events, Len(classes), a, z)
  <2>1. CASE triggered = TRUE
    BY <1>3, <2>1
  <2>2. CASE triggered = FALSE
    <3>1. P.heard = HandedOnTo(events) /\ EventsOK(events, Len(classes), FALSE)
      BY <1>1, <1>3, <2>2
    <3>2. HandedOnTo(events) \in Nat
      BY <1>4, <3>1, NoSegment
    <3> QED
      BY <1>4, <3>1, <3>2, NoSegment
  <2> QED
    BY <1>4, <2>1, <2>2
<1> QED
  BY <1>1, <1>2, <1>3, <1>4, <1>5, <1>6

(* Segments, by their events. *)
LEMMA SegmentsAre ==
  ASSUME EventsOK(events, Len(classes), triggered), Len(classes) \in Nat
  PROVE  /\ \A a, z \in Nat :
              (\E s \in Segments : s[1] <= a /\ z <= s[2])
                <=> Within(events, Len(classes), a, z)
         /\ \A a, k \in Nat :
              (\E s \in Segments : s[1] <= a /\ k < s[2])
                <=> Within(events, Len(classes), a, k + 1)
<1> DEFINE n == Len(classes)
           U(i) == Until(events, i, n)
<1>1. \A i \in 1 .. Len(events) : events[i].at \in Nat /\ U(i) \in Nat
  <2>1. /\ Len(events) \in Nat
        /\ \A i \in 1 .. Len(events) : events[i].at \in Nat
    BY EventsAre DEF EventsOK
  <2>2. \A i \in 1 .. Len(events) : i < Len(events) => i + 1 \in 1 .. Len(events)
    BY <2>1
  <2> QED
    BY <2>1, <2>2 DEF Until
<1>2. \A s : s \in Segments <=>
        \E i \in 1 .. Len(events) :
          Starts(events, i) /\ s = <<events[i].at, U(i)>>
  BY DEF Segments, Starts, Until
<1>3. ASSUME NEW a \in Nat, NEW z \in Nat
      PROVE  (\E s \in Segments : s[1] <= a /\ z <= s[2])
               <=> Within(events, n, a, z)
  <2> HIDE DEF U
  <2>1. Within(events, n, a, z)
          <=> \E i \in 1 .. Len(events) :
                Starts(events, i) /\ events[i].at <= a /\ z <= U(i)
    BY DEF Within, U
  <2>2. ASSUME NEW s \in Segments, s[1] <= a, z <= s[2]
        PROVE  \E i \in 1 .. Len(events) :
                 Starts(events, i) /\ events[i].at <= a /\ z <= U(i)
    <3>1. PICK i \in 1 .. Len(events) :
            Starts(events, i) /\ s = <<events[i].at, U(i)>>
      BY <1>2
    <3>2. s[1] = events[i].at /\ s[2] = U(i)
      BY <3>1
    <3> QED
      BY <2>2, <3>1, <3>2
  <2>3. ASSUME NEW i \in 1 .. Len(events), Starts(events, i),
               events[i].at <= a, z <= U(i)
        PROVE  \E s \in Segments : s[1] <= a /\ z <= s[2]
    <3> DEFINE s == <<events[i].at, U(i)>>
    <3>1. s \in Segments
      BY <1>2, <2>3
    <3>2. s[1] = events[i].at /\ s[2] = U(i)
      OBVIOUS
    <3> HIDE DEF s
    <3> QED
      BY <2>3, <3>1, <3>2
  <2> QED
    BY <2>1, <2>2, <2>3
<1>4. ASSUME NEW a \in Nat, NEW k \in Nat
      PROVE  (\E s \in Segments : s[1] <= a /\ k < s[2])
               <=> Within(events, n, a, k + 1)
  <2>1. \A i \in 1 .. Len(events) : k < U(i) <=> k + 1 <= U(i)
    BY <1>1
  <2>2. k + 1 \in Nat
    OBVIOUS
  <2> HIDE DEF U
  <2>3. Within(events, n, a, k + 1)
          <=> \E i \in 1 .. Len(events) :
                Starts(events, i) /\ events[i].at <= a /\ k + 1 <= U(i)
    BY DEF Within, U
  <2>4. ASSUME NEW s \in Segments, s[1] <= a, k < s[2]
        PROVE  \E i \in 1 .. Len(events) :
                 Starts(events, i) /\ events[i].at <= a /\ k < U(i)
    <3>1. PICK i \in 1 .. Len(events) :
            Starts(events, i) /\ s = <<events[i].at, U(i)>>
      BY <1>2
    <3>2. s[1] = events[i].at /\ s[2] = U(i)
      BY <3>1
    <3> QED
      BY <2>4, <3>1, <3>2
  <2>5. ASSUME NEW i \in 1 .. Len(events), Starts(events, i),
               events[i].at <= a, k < U(i)
        PROVE  \E s \in Segments : s[1] <= a /\ k < s[2]
    <3> DEFINE s == <<events[i].at, U(i)>>
    <3>1. s \in Segments
      BY <1>2, <2>5
    <3>2. s[1] = events[i].at /\ s[2] = U(i)
      OBVIOUS
    <3> HIDE DEF s
    <3> QED
      BY <2>5, <3>1, <3>2
  <2>6. (\E s \in Segments : s[1] <= a /\ k < s[2])
          <=> \E i \in 1 .. Len(events) :
                Starts(events, i) /\ events[i].at <= a /\ k < U(i)
    BY <2>4, <2>5
  <2> QED
    BY <2>1, <2>3, <2>6
<1> QED
  BY <1>3, <1>4

(* The segments of the properties are the spans between the events. *)
LEMMA SpokenIs ==
  ASSUME EventsOK(events, Len(classes), triggered), Len(classes) \in Nat,
         NEW k \in Nat
  PROVE  InSegment(k) <=> Spoken(events, Len(classes), k)
<1>1. (\E s \in Segments : s[1] <= k /\ k < s[2])
        <=> Within(events, Len(classes), k, k + 1)
  BY SegmentsAre
<1> QED
  BY <1>1 DEF InSegment, Spoken

(* The invariant gives that every onset is of a segment. *)
LEMMA InvForwards ==
  ASSUME SegmentationInv
  PROVE  SpeechIsForwarded
<1> DEFINE P == Place(events, Len(classes), triggered)
<1>1. /\ EventsOK(events, Len(classes), triggered) /\ Len(classes) \in Nat
      /\ OnsetsOK(classes, events)
  BY InvIs DEF SegmentationInv
<1> SUFFICES ASSUME NEW k \in 1 .. Len(classes) - MinSpeech + 1,
                    \A i \in k .. k + MinSpeech - 1 : classes[i] = "speech",
                    NEW i \in k .. k + MinSpeech - 1
             PROVE  InSegment(i - 1)
  BY DEF SpeechIsForwarded
<1>2. Spoken(events, Len(classes), i - 1)
  BY <1>1 DEF OnsetsOK
<1>3. i - 1 \in Nat
  BY <1>1, SizesAssumption
<1> QED
  BY <1>1, <1>2, <1>3, SpokenIs

(* The invariant gives the bounds of the buffer and its state when idle. *)
LEMMA InvBuffer ==
  ASSUME SegmentationInv
  PROVE  BufferIsSound
<1> DEFINE P == Place(events, Len(classes), triggered)
<1>1. /\ FinalsOK(finals, P) /\ BufferOK(Held, P) /\ P.on = triggered
      /\ Held.start = startAt
  BY InvIs
<1>2. \A i \in 1 .. Len(finals) : Len(finals[i].pcm) <= MaxLen
  BY <1>1 DEF FinalsOK, FinalOK
<1>3. (startAt # NoStart) <=> triggered
  BY <1>1 DEF BufferOK, IsOpen
<1>4. triggered \in BOOLEAN /\ Len(pcm) < MaxLen
  BY DEF SegmentationInv, TypeOK
<1> QED
  BY <1>2, <1>3, <1>4 DEF BufferIsSound, NothingTooLong, BufferFollowsVad

(* The invariant gives that the anchor is of the open utterance. *)
LEMMA InvAnchor ==
  ASSUME SegmentationInv
  PROVE  AnchorOpensUtterance
<1>1. AnchorOK(anchor, Held)
  BY DEF SegmentationInv
<1>2. Held.finals = finals /\ Held.start = startAt
  BY DEF Held
<1> QED
  BY <1>1, <1>2 DEF AnchorOK, AnchorStart, AnchorOpensUtterance

(* The utterances follow one another and cover the segments. *)
LEMMA InvTiles ==
  ASSUME SegmentationInv
  PROVE  UtterancesTileSegments
<1> DEFINE P == Place(events, Len(classes), triggered)
           n == Len(classes)
           all == IF startAt = NoStart THEN finals
                                       ELSE Append(finals, OpenUtterance)
           m == Len(finals)
<1>1. /\ TypeOK /\ n \in Nat /\ m \in Nat /\ n <= MaxFrames
      /\ EventsOK(events, n, triggered)
      /\ BufferOK(Held, P) /\ P.events = events
      /\ Held.finals = finals /\ Held.pcm = pcm /\ Held.start = startAt
      /\ FinalsOK(finals, P) /\ OpenOK(Held, P)
      /\ \A a, z \in Nat : Within(events, P.heard, a, z)
                             <=> Within(events, n, a, z)
  BY InvIs
<1> HIDE DEF P
<1>2. /\ \A i \in 1 .. m : finals[i].pcm = Frames(finals[i].start, End(finals[i]))
      /\ \A i, j \in 1 .. m : i < j => End(finals[i]) <= finals[j].start
  BY <1>1 DEF FinalsOK, FinalOK, InOrder
<1>3. ASSUME NEW k \in 0 .. n - 1
      PROVE  /\ InSegment(k) <=> Covered(Held, k)
             /\ Covered(Held, k) <=>
                  \/ \E i \in 1 .. m : Covers(finals[i], k)
                  \/ startAt # NoStart /\ Covers(OpenUtterance, k)
  <2>1. k \in Nat /\ k \in FrameNumber /\ k + 1 \in Nat
    BY <1>1, SizesAssumption DEF FrameNumber
  <2>2. InSegment(k) <=> Spoken(events, n, k)
    BY <1>1, <2>1, SpokenIs
  <2>3. Spoken(events, n, k) <=> Spoken(events, P.heard, k)
    BY <1>1, <2>1 DEF Spoken
  <2>4. Spoken(events, P.heard, k) <=> Covered(Held, k)
    BY <1>1, <2>1 DEF BufferOK
  <2>5. OpenUtterance.start = startAt /\ OpenUtterance.pcm = pcm
    BY DEF OpenUtterance
  <2>6. Covered(Held, k) <=>
          \/ \E i \in 1 .. m : Covers(finals[i], k)
          \/ startAt # NoStart /\ Covers(OpenUtterance, k)
    BY <1>1, <2>5 DEF Covered, Covers, End, IsOpen
  <2> QED
    BY <2>2, <2>3, <2>4, <2>6
<1>4. CASE startAt = NoStart
  <2>1. all = finals
    BY <1>4
  <2>2. pcm = <<>>
    BY <1>1, <1>4 DEF OpenOK, IsOpen
  <2>3. \A k \in 0 .. n - 1 :
          InSegment(k) <=> \E i \in 1 .. Len(all) : Covers(all[i], k)
    BY <1>3, <1>4, <2>1
  <2> HIDE DEF all
  <2>4. /\ \A i, j \in 1 .. Len(all) : i < j => End(all[i]) <= all[j].start
        /\ \A i \in 1 .. Len(all) : all[i].pcm = Frames(all[i].start, End(all[i]))
    BY <1>2, <2>1
  <2> QED
    BY <2>2, <2>3, <2>4 DEF UtterancesTileSegments, all
<1>5. CASE startAt # NoStart
  <2> DEFINE u == OpenUtterance
  <2>1. all = Append(finals, u)
    BY <1>5
  <2>2. /\ Len(all) = m + 1
        /\ \A i \in 1 .. m : all[i] = finals[i]
        /\ all[m + 1] = u
    <3>1. finals \in Seq(Utterance)
      BY <1>1 DEF TypeOK
    <3>2. finals \in Seq({finals[i] : i \in 1 .. m} \cup {u})
      <4>1. \A i \in 1 .. m : finals[i] \in {finals[j] : j \in 1 .. m} \cup {u}
        OBVIOUS
      <4>2. DOMAIN finals = 1 .. m /\ finals = [i \in 1 .. m |-> finals[i]]
        BY <3>1, LenProperties
      <4> HIDE DEF u
      <4>3. finals \in [1 .. m -> {finals[j] : j \in 1 .. m} \cup {u}]
        BY <4>1, <4>2
      <4> QED
        BY <1>1, <4>3, SeqDef
    <3>3. u \in {finals[i] : i \in 1 .. m} \cup {u}
      OBVIOUS
    <3> DEFINE S == {finals[i] : i \in 1 .. m} \cup {u}
    <3> HIDE DEF S, u, all
    <3>4. finals \in Seq(S) /\ u \in S
      BY <3>2, <3>3 DEF S
    <3> QED
      BY <2>1, <3>4, AppendProperties
  <2>3. /\ u.start = startAt /\ u.pcm = pcm
        /\ startAt + Len(pcm) = P.heard /\ pcm = Frames(startAt, P.heard)
        /\ \A i \in 1 .. m : End(finals[i]) <= startAt
    BY <1>1, <1>5 DEF OpenOK, IsOpen, OpenUtterance
  <2> HIDE DEF all, u
  <2>4. End(u) = P.heard
    BY <2>3 DEF End
  <2>5. \A i \in 1 .. Len(all) : i \in 1 .. m \/ i = m + 1
    BY <1>1, <2>2
  <2>6. 1 .. m \subseteq 1 .. Len(all) /\ m + 1 \in 1 .. Len(all)
    BY <1>1, <2>2
  <2>7. ASSUME NEW i \in 1 .. Len(all), NEW j \in 1 .. Len(all), i < j
        PROVE  End(all[i]) <= all[j].start
    <3>1. i \in 1 .. m
      BY <1>1, <2>2, <2>7
    <3> QED
      BY <1>2, <2>2, <2>3, <2>5, <2>7, <3>1
  <2>8. \A i \in 1 .. Len(all) : all[i].pcm = Frames(all[i].start, End(all[i]))
    BY <1>2, <2>2, <2>3, <2>4, <2>5
  <2>9. ASSUME NEW k \in 0 .. n - 1
        PROVE  InSegment(k) <=> \E i \in 1 .. Len(all) : Covers(all[i], k)
    <3>1. InSegment(k) <=> \/ \E i \in 1 .. m : Covers(finals[i], k)
                           \/ Covers(u, k)
      BY <1>3, <1>5 DEF u
    <3> QED
      BY <2>2, <2>5, <2>6, <3>1
  <2> QED
    BY <1>5, <2>7, <2>8, <2>9 DEF UtterancesTileSegments, all, u
<1> QED
  BY <1>4, <1>5

(* Each holds its audio, of one segment. *)
LEMMA InvHolds ==
  ASSUME SegmentationInv
  PROVE  UtterancesHoldTheirAudio
<1> DEFINE P == Place(events, Len(classes), triggered)
<1>1. /\ EventsOK(events, Len(classes), triggered) /\ Len(classes) \in Nat
      /\ FinalsOK(finals, P) /\ P.events = events
      /\ BufferOK(Held, P) /\ Held.finals = finals
      /\ \A a, z \in Nat : Within(events, P.heard, a, z)
                             <=> Within(events, Len(classes), a, z)
  BY InvIs
<1> HIDE DEF P
<1>2. SUFFICES ASSUME NEW i \in 1 .. Len(finals)
               PROVE  LET u == finals[i]
                      IN /\ u.index = i - 1
                         /\ u.pcm # <<>>
                         /\ u.pcm = Frames(u.start, End(u))
                         /\ \E s \in Segments : s[1] <= u.start /\ End(u) <= s[2]
  BY DEF UtterancesHoldTheirAudio
<1> DEFINE u == finals[i]
<1>3. FinalOK(u, i) /\ Within(events, P.heard, u.start, End(u))
  BY <1>1 DEF FinalsOK
<1>4. u.start \in Nat /\ End(u) \in Nat
  BY <1>1, BufferIs
<1> HIDE DEF u
<1>5. Within(events, Len(classes), u.start, End(u))
  BY <1>1, <1>3, <1>4
<1>6. \E s \in Segments : s[1] <= u.start /\ End(u) <= s[2]
  BY <1>1, <1>4, <1>5, SegmentsAre
<1> QED
  BY <1>3, <1>6 DEF FinalOK, u

(* Nothing starts after a and up to z of a segment exactly when one goes   *)
(* on from a past z.                                                       *)
LEMMA GoesOn ==
  ASSUME NEW E, NEW n \in Nat, NEW on, EventsOK(E, n, on),
         NEW a \in Nat, NEW z \in Nat, NEW y \in Nat, a <= z, z < y,
         Within(E, n, z, y)
  PROVE  ~StartsBetween(E, a, z) <=> Within(E, n, a, z + 1)
<1>1. /\ Len(E) \in Nat
      /\ \A i \in 1 .. Len(E) : E[i].at \in Nat
      /\ \A i, j \in 1 .. Len(E) : i < j => E[i].at <= E[j].at
  BY EventsAre DEF EventsOK
<1>2. \A i \in 1 .. Len(E) : Until(E, i, n) \in Nat
  <2>1. \A i \in 1 .. Len(E) : i < Len(E) => i + 1 \in 1 .. Len(E)
    BY <1>1
  <2> QED
    BY <1>1, <2>1 DEF Until
<1>3. ASSUME ~StartsBetween(E, a, z)
      PROVE  Within(E, n, a, z + 1)
  <2>1. PICK i \in 1 .. Len(E) :
          Starts(E, i) /\ E[i].at <= z /\ y <= Until(E, i, n)
    BY DEF Within
  <2>2. ~(a < E[i].at)
    BY <1>3, <2>1 DEF StartsBetween
  <2>3. E[i].at <= a /\ z + 1 <= Until(E, i, n)
    BY <1>1, <1>2, <2>1, <2>2
  <2> QED
    BY <2>1, <2>3 DEF Within
<1>4. ASSUME Within(E, n, a, z + 1), StartsBetween(E, a, z)
      PROVE  FALSE
  <2>1. PICK j \in 1 .. Len(E) :
          Starts(E, j) /\ E[j].at <= a /\ z + 1 <= Until(E, j, n)
    BY <1>4 DEF Within
  <2>2. PICK m \in 1 .. Len(E) : a < E[m].at /\ E[m].at <= z
    BY <1>4 DEF StartsBetween
  <2>3. E[j].at \in Nat /\ E[m].at \in Nat
    BY <1>1
  <2>4. ~(m < j) /\ m # j
    <3>1. ~(E[m].at <= E[j].at)
      BY <2>1, <2>2, <2>3, SMTT(60)
    <3> QED
      BY <1>1, <2>3, <3>1
  <2>5. j < m /\ j < Len(E) /\ j + 1 \in 1 .. Len(E) /\ j + 1 <= m
    BY <1>1, <2>4
  <2>6. E[j + 1].at <= E[m].at
    <3>1. CASE j + 1 = m
      BY <2>3, <3>1
    <3>2. CASE j + 1 # m
      <4>1. j + 1 < m
        BY <1>1, <2>5, <3>2
      <4> QED
        BY <1>1, <2>5, <4>1
    <3> QED
      BY <3>1, <3>2
  <2>7. Until(E, j, n) = E[j + 1].at /\ E[j + 1].at \in Nat
    BY <1>1, <2>5 DEF Until
  <2> QED
    BY <2>1, <2>2, <2>3, <2>6, <2>7
<1> QED
  BY <1>3, <1>4

(* The marks are of length cuts. *)
LEMMA InvMarks ==
  ASSUME SegmentationInv
  PROVE  ContinuesMarksLengthCuts
<1> DEFINE P == Place(events, Len(classes), triggered)
           n == Len(classes)
<1>1. /\ EventsOK(events, n, triggered) /\ n \in Nat
      /\ FinalsOK(finals, P) /\ P.events = events
      /\ BufferOK(Held, P) /\ Held.finals = finals /\ TypeOK
      /\ \A a, z \in Nat : Within(events, P.heard, a, z)
                             <=> Within(events, n, a, z)
  BY InvIs
<1> HIDE DEF P
<1> SUFFICES ASSUME NEW i \in 1 .. Len(finals)
             PROVE  finals[i].continues <=>
                      /\ i > 1
                      /\ finals[i - 1].reason = "max_duration"
                      /\ End(finals[i - 1]) = finals[i].start
                      /\ \E s \in Segments : /\ s[1] <= finals[i - 1].start
                                             /\ finals[i].start < s[2]
  BY DEF ContinuesMarksLengthCuts
<1> DEFINE z == finals[i].start
           a == finals[i - 1].start
           y == End(finals[i])
<1>2. finals[i].continues <=> CarriesOn(finals, i, z, events)
  BY <1>1 DEF FinalsOK
<1>3. z \in Nat /\ y \in Nat /\ z < y
  BY <1>1, BufferIs
<1>4. Within(events, n, z, y)
  BY <1>1, <1>3 DEF FinalsOK
<1>5. ASSUME i > 1, End(finals[i - 1]) = z
      PROVE  (~StartsBetween(events, a, z))
               <=> \E s \in Segments : s[1] <= a /\ z < s[2]
  <2>1. i - 1 \in 1 .. Len(finals)
    BY <1>5
  <2>2. a \in Nat /\ a < End(finals[i - 1])
    BY <1>1, <2>1, BufferIs
  <2> HIDE DEF a, y, z
  <2>3. a < z /\ a <= z
    BY <1>3, <1>5, <2>2
  <2>4. ~StartsBetween(events, a, z) <=> Within(events, n, a, z + 1)
    BY <1>1, <1>3, <1>4, <2>2, <2>3, GoesOn
  <2>5. (\E s \in Segments : s[1] <= a /\ z < s[2])
          <=> Within(events, n, a, z + 1)
    BY <1>1, <1>3, <2>2, SegmentsAre
  <2> QED
    BY <2>4, <2>5
<1> QED
  BY <1>2, <1>5 DEF CarriesOn

-----------------------------------------------------------------------------
(* The theorems.                                                           *)

(* A step of nothing leaves it. *)
LEMMA InvStutters ==
  ASSUME SegmentationInv, UNCHANGED vars
  PROVE  SegmentationInv'
<1>1. /\ classes' = classes /\ triggered' = triggered
      /\ speechRun' = speechRun /\ silenceRun' = silenceRun
      /\ preroll' = preroll /\ events' = events /\ pcm' = pcm
      /\ startAt' = startAt /\ continues' = continues
      /\ partialAt' = partialAt /\ finals' = finals /\ anchor' = anchor
      /\ sentence' = sentence /\ grey' = grey /\ ended' = ended
  BY DEF vars
<1>2. TypeOK'
  BY <1>1 DEF SegmentationInv, TypeOK
<1>3. Held' = Held /\ Gathering' = Gathering
  BY <1>1 DEF Held, Gathering
<1>4. ScreenOK'
  BY <1>1 DEF SegmentationInv, ScreenOK, RunningTextIsAhead
<1> QED
  BY <1>1, <1>2, <1>3, <1>4 DEF SegmentationInv

(* The invariant holds whatever is said and however the stream is cut into *)
(* chunks (handle_binary, _close_segment).                                 *)
THEOREM Invariant == Spec => []SegmentationInv
<1>1. Init => SegmentationInv
  BY InvInit
<1>2. SegmentationInv /\ [Next]_vars => SegmentationInv'
  BY AudioKeepsInv, CloseKeepsInv, InvStutters DEF Next
<1> QED
  BY <1>1, <1>2, PTL DEF Spec

(* Every variable has its type, and the pre-roll (a deque in vad.py) keeps *)
(* to its length.                                                          *)
THEOREM TypeCorrect == Spec => []TypeOK
<1>1. SegmentationInv => TypeOK
  BY DEF SegmentationInv
<1> QED
  BY <1>1, Invariant, PTL

(* The utterances of the buffer are the announced speech, all of it and    *)
(* nothing else, each the audio it says, and marked as carrying on exactly *)
(* when it is the rest of a length cut (buffer.py, vad.py), through every  *)
(* chunk, cut and close.                                                   *)
THEOREM UtterancesSound == Spec => []UtterancesAreSound
<1>1. SegmentationInv => UtterancesAreSound
  BY InvTiles, InvHolds, InvMarks DEF UtterancesAreSound
<1> QED
  BY <1>1, Invariant, PTL

(* No utterance exceeds the limit, what is open is below it, and the       *)
(* buffer is open exactly while the segmenter is (BufferManager.push).     *)
THEOREM BufferSound == Spec => []BufferIsSound
<1>1. SegmentationInv => BufferIsSound
  BY InvBuffer
<1> QED
  BY <1>1, Invariant, PTL

(* A run of speech long enough to open a segment is handed on whole: the   *)
(* pre-roll (VADSegmenter) loses no onset.                                 *)
THEOREM OnsetsForwarded == Spec => []SpeechIsForwarded
<1>1. SegmentationInv => SpeechIsForwarded
  BY InvForwards
<1> QED
  BY <1>1, Invariant, PTL

(* The anchor of the speaker change detector is the opening of the         *)
(* utterance it is of (SpeakerChangeDetector.observe), through every cut.  *)
THEOREM AnchorIsOpening == Spec => []AnchorOpensUtterance
<1>1. SegmentationInv => AnchorOpensUtterance
  BY InvAnchor
<1> QED
  BY <1>1, Invariant, PTL

(* The running text is of an utterance after the last sentence             *)
(* (_split_on_speaker_change drops the prediction a cut made stale).       *)
THEOREM RunningTextAhead == Spec => []RunningTextIsAhead
<1>1. SegmentationInv => RunningTextIsAhead
  BY DEF SegmentationInv, ScreenOK
<1> QED
  BY <1>1, Invariant, PTL
=============================================================================
