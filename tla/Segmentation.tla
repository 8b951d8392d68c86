---------------------------- MODULE Segmentation ----------------------------
(***************************************************************************)
(* From audio to sentences: the voice activity detection that decides what *)
(* is speech (server/pipeline/vad.py), the buffer that cuts the speech     *)
(* into utterances (server/pipeline/buffer.py), and the cut at a second    *)
(* voice (server/pipeline/speaker_change.py), as ServerSession drives them *)
(* for every chunk of audio and once more at the end of the stream.  Of    *)
(* what is said about the utterances this module keeps which of them gave  *)
(* a sentence and which one the running text on the screen describes.      *)
(*                                                                         *)
(* The unit of time and of audio is one VAD frame (32 ms), and a frame is  *)
(* its number in the stream, so audio lost, repeated or put elsewhere      *)
(* shows.  The model's probability is abstracted to its side of the two    *)
(* thresholds.  Where a length cut or a cut at a voice falls depends on    *)
(* the energy of the frames, and is any frame boundary the search covers.  *)
(* The code's limits are no multiples of a frame (7000 ms, 500 ms): its    *)
(* cuts may fall inside one, which moves no more audio than it does here.  *)
(*                                                                         *)
(* A definition no action uses, directly above another one (Unbounded      *)
(* above Preroll, ...), is a broken form of it, which one of the           *)
(* properties at the end is there to catch.                                *)
(***************************************************************************)
EXTENDS Integers, Sequences, FiniteSetsExt

CONSTANTS
  MinSpeech,     \* frames of speech that open a segment
  MinSilence,    \* quiet frames that close it
  Pad,           \* frames kept from before the segment opens
  MaxLen,        \* frames after which an utterance is cut
  Search,        \* frames before the limit in which the cut may fall
  PartialEvery,  \* frames between two running predictions
  Window,        \* frames of voice the speaker change detector compares
  ChunkSizes,    \* how many frames one chunk of audio completes
  MaxFrames      \* bound: the frames of the stream

ASSUME SizesAssumption ==
  /\ MinSpeech \in Nat \ {0} /\ MinSilence \in Nat \ {0} /\ Pad \in Nat
  /\ MaxLen \in Nat \ {0} /\ Search \in 1 .. MaxLen - 1
  /\ PartialEvery \in Nat /\ Window \in Nat \ {0}
  /\ ChunkSizes \subseteq Nat /\ MaxFrames \in Nat
ASSUME PadCoversOnset == Pad >= MinSpeech - 1

(* The side of the thresholds a frame's probability is on: at least        *)
(* threshold, between the two, below neg_threshold.                        *)
Class == {"speech", "between", "quiet"}

NoStart == -1   \* an optional position that is None
None    == -1   \* no utterance

VARIABLES
  classes,    \* history: the class of every frame heard
  triggered,  \* SpeechStateMachine: is a segment open?
  speechRun,  \*   candidate frames before it opens
  silenceRun, \*   quiet frames since the last other one
  preroll,    \* VADSegmenter._preroll
  events,     \* the speech_start and speech_end events announced
  pcm,        \* BufferManager: the frames of the open utterance
  startAt,    \*   where it starts, or NoStart when none is open
  continues,  \*   does it carry on from a length cut?
  partialAt,  \*   up to where the last running prediction went
  finals,     \* the utterances committed
  anchor,     \* SpeakerChangeDetector: the utterance it watches, and the
              \*   frames it compares with, from position `from` in it
  sentence,   \* the last utterance that gave a sentence
  grey,       \* the utterance whose running text the client shows
  ended       \* the stream was closed

segmenter == <<classes, triggered, speechRun, silenceRun, preroll, events>>
buffer    == <<pcm, startAt, continues, partialAt, finals>>
screen    == <<sentence, grey>>
vars == <<classes, triggered, speechRun, silenceRun, preroll, events, pcm,
          startAt, continues, partialAt, finals, anchor, sentence, grey,
          ended>>

NoAnchor(index) == [index |-> index, from |-> 0, pcm |-> <<>>]

Init ==
  /\ classes = <<>>
  /\ triggered = FALSE
  /\ speechRun = 0
  /\ silenceRun = 0
  /\ preroll = <<>>
  /\ events = <<>>
  /\ pcm = <<>>
  /\ startAt = NoStart
  /\ continues = FALSE
  /\ partialAt = 0
  /\ finals = <<>>
  /\ anchor = NoAnchor(None)
  /\ sentence = None /\ grey = None
  /\ ended = FALSE

-----------------------------------------------------------------------------
(* The segmenter.  v is its state within one push(): the variables above,  *)
(* the span being gathered (keep, from, opens) and the spans gathered.     *)

(* The deque of the pre-roll, one frame longer: the oldest makes room. *)
Unbounded(q, n) == Append(q, n)
Preroll(q, n)   == LET longer == Append(q, n)
                   IN IF Len(longer) > Pad THEN Tail(longer) ELSE longer

(* flush(): the span gathered so far is emitted; one that closes a segment *)
(* is emitted even when it holds no audio.                                 *)
SpansWithAudio(v, closes, at) ==
  IF v.keep # <<>>
    THEN Append(v.spans, [pcm |-> v.keep, start |-> v.from,
                          opens |-> v.opens, closes |-> closes])
    ELSE v.spans
SpansEmitted(v, closes, at) ==
  LET start == IF v.from # NoStart THEN v.from ELSE at
  IN IF start # NoStart /\ (v.keep # <<>> \/ closes \/ v.opens)
       THEN Append(v.spans, [pcm |-> v.keep, start |-> start,
                             opens |-> v.opens, closes |-> closes])
       ELSE v.spans

Flush(v, closes, at) ==
  [v EXCEPT !.spans = SpansEmitted(v, closes, at),
            !.keep = <<>>, !.from = NoStart, !.opens = FALSE]

OpensLate(v, c) ==
  ~v.triggered /\ c = "speech" /\ v.speechRun + 1 > MinSpeech
Opens(v, c) ==
  ~v.triggered /\ c = "speech" /\ v.speechRun + 1 >= MinSpeech

Closes(v, c) ==
  v.triggered /\ c = "quiet" /\ v.silenceRun + 1 >= MinSilence

(* Frame number n opens a segment, which begins with the pre-roll. *)
SegmentStart(v, n) == n - Len(v.preroll)

OpenSegment(v, n) ==
  [v EXCEPT !.triggered = TRUE,
            !.speechRun = @ + 1,
            !.silenceRun = 0,
            !.events = Append(@, [kind |-> "speech_start",
                                  at |-> SegmentStart(v, n)]),
            !.from = SegmentStart(v, n),
            !.opens = TRUE,
            !.keep = (@ \o v.preroll) \o <<n>>,
            !.preroll = <<>>]

(* Frame number n closes it, and is itself the first of a new pre-roll. *)
CloseSegment(v, n) ==
  Flush([v EXCEPT !.triggered = FALSE,
                  !.speechRun = 0,
                  !.silenceRun = @ + 1,
                  !.events = Append(@, [kind |-> "speech_end", at |-> n]),
                  !.preroll = Preroll(@, n)],
        TRUE, n)

Forward(v, n, c) ==
  [v EXCEPT !.silenceRun = IF c = "quiet" THEN @ + 1 ELSE 0,
            !.from = IF @ = NoStart THEN n ELSE @,
            !.keep = Append(@, n)]

HoldBack(v, n, c) ==
  [v EXCEPT !.speechRun = IF c = "speech" THEN @ + 1 ELSE 0,
            !.preroll = Preroll(@, n)]

Frame(v, c) ==
  LET n == Len(v.classes)
      w == [v EXCEPT !.classes = Append(@, c)]
  IN CASE Opens(v, c)  -> OpenSegment(w, n)
       [] Closes(v, c) -> CloseSegment(w, n)
       [] v.triggered /\ ~Closes(v, c)  -> Forward(w, n, c)
       [] ~v.triggered /\ ~Opens(v, c) -> HoldBack(w, n, c)

(* VADSegmenter.push for a chunk whose frames have the classes cs. *)
Gathering ==
  [classes |-> classes, triggered |-> triggered, speechRun |-> speechRun,
   silenceRun |-> silenceRun, preroll |-> preroll, events |-> events,
   spans |-> <<>>, keep |-> <<>>, from |-> NoStart, opens |-> FALSE]

Segmented(cs) ==
  LET v[i \in 0 .. Len(cs)] ==
        IF i = 0 THEN Gathering ELSE Frame(v[i - 1], cs[i])
  IN Flush(v[Len(cs)], FALSE, NoStart)

-----------------------------------------------------------------------------
(* The buffer.  b is its state: pcm, start, continues, partialAt, finals.  *)
(* dip says how far into the search window the quietest frame is, for all  *)
(* length cuts of a chunk: with the code's numbers there is one at most.   *)

IsOpen(b) == b.start # NoStart

Finalize(b, reason) ==
  [b EXCEPT !.finals = Append(@, [index |-> Len(b.finals), pcm |-> b.pcm,
                                  start |-> b.start, reason |-> reason,
                                  continues |-> b.continues]),
            !.pcm = <<>>, !.start = NoStart, !.continues = FALSE]

Open(b, at) == [b EXCEPT !.start = at, !.partialAt = at]

DiscardOpen(b) == [b EXCEPT !.pcm = <<>>, !.start = NoStart,
                            !.continues = FALSE]

(* quietest_split_point: some frame boundary in the Search frames before   *)
(* limit, but never the very start.                                        *)
Min2(x, y) == IF x < y THEN x ELSE y

SplitPoint(limit, dip) ==
  LET earliest == IF limit - Search > 1 THEN limit - Search ELSE 1
  IN IF limit <= earliest THEN limit ELSE Min2(earliest + dip, limit)

(* _split: the first cut frames are committed, the rest stays open. *)
RestRepeated(b, cut) == SubSeq(b.pcm, cut, Len(b.pcm))
Rest(b, cut)         == SubSeq(b.pcm, cut + 1, Len(b.pcm))

Continues(carriesOn) == carriesOn

Split(b, cut, reason, carriesOn) ==
  LET head == Finalize([b EXCEPT !.pcm = SubSeq(b.pcm, 1, cut)], reason)
  IN [Open(head, b.start + cut)
        EXCEPT !.pcm = Rest(b, cut), !.continues = Continues(carriesOn)]

TooLong(b) == Len(b.pcm) >= MaxLen

(* The while loop of push(): it takes at least a frame off each time. *)
LengthCut(b, dip) ==
  IF TooLong(b) THEN Split(b, SplitPoint(MaxLen, dip), "max_duration", TRUE)
                ELSE b

CutForLength(b, dip) ==
  LET cut[i \in 0 .. Len(b.pcm)] ==
        IF i = 0 THEN b ELSE LengthCut(cut[i - 1], dip)
  IN cut[Len(b.pcm)]

(* One span of push(). *)
Absorb(b, span, dip) ==
  LET fresh == IF span.opens /\ IsOpen(b) THEN Finalize(b, "pause") ELSE b
      begun == IF IsOpen(fresh) THEN fresh ELSE Open(fresh, span.start)
      full  == CutForLength([begun EXCEPT !.pcm = @ \o span.pcm], dip)
  IN CASE ~IsOpen(fresh) /\ ~span.opens /\ span.pcm = <<>> -> fresh
       [] span.closes /\ IsOpen(full) /\ full.pcm # <<>>
                                        -> Finalize(full, "pause")
       [] span.closes /\ IsOpen(full) /\ full.pcm = <<>> -> DiscardOpen(full)
       [] OTHER -> full

PartialDue(b) ==
  /\ IsOpen(b) /\ b.pcm # <<>>
  /\ b.start + Len(b.pcm) - b.partialAt >= PartialEvery

Predicted(b) ==
  IF PartialDue(b) THEN [b EXCEPT !.partialAt = b.start + Len(b.pcm),
                                  !.partial = Len(b.finals)]
                   ELSE b

(* BufferManager.push; partial is the utterance it returns a partial       *)
(* window of, if it does.                                                  *)
Held ==
  [pcm |-> pcm, start |-> startAt, continues |-> continues,
   partialAt |-> partialAt, partial |-> None, finals |-> finals]

Buffered(spans, dip) ==
  LET b[i \in 0 .. Len(spans)] ==
        IF i = 0 THEN Held ELSE Absorb(b[i - 1], spans[i], dip)
  IN Predicted(b[Len(spans)])

(* cut_at, for a voice heard from frame `wanted` of the utterance on. *)
CutAt(b, wanted, dip) ==
  IF IsOpen(b) /\ wanted > 0 /\ wanted < Len(b.pcm)
    THEN Split(b, SplitPoint(wanted, dip), "speaker_change", FALSE)
    ELSE b

Becomes(b) ==
  /\ pcm' = b.pcm
  /\ startAt' = b.start
  /\ continues' = b.continues
  /\ partialAt' = b.partialAt
  /\ finals' = b.finals

-----------------------------------------------------------------------------
(* FrameSplitter.push: a chunk completes n frames. *)
Completes(n) == n \in ChunkSizes /\ Len(classes) + n <= MaxFrames

(* SpeakerChangeDetector.observe, for the open utterance of the buffer b:  *)
(* the newest window is compared with the one that opened it, once the two *)
(* do not overlap.  The embedder may refuse either.                        *)
AnchorKept(index) == [anchor EXCEPT !.index = index]
Watching(index)   == IF index = anchor.index THEN anchor ELSE NoAnchor(index)

LongEnough(b, a) == Len(b.pcm) >= a.from + 2 * Window

Anchored(b, a) ==
  IF a.pcm = <<>>
    THEN [a EXCEPT !.pcm = SubSeq(b.pcm, a.from + 1, a.from + Window)]
    ELSE a

(* What the detector may answer: its state, and whether it heard another.  *)
Observe(b) ==
  LET a == Watching(b.partial)
      newcomer == [a EXCEPT !.pcm = <<>>, !.from = Len(b.pcm) - Window]
  IN CASE b.partial = None -> {[anchor |-> anchor, changed |-> FALSE]}
       [] b.partial # None /\ ~LongEnough(b, a) ->
            {[anchor |-> a, changed |-> FALSE]}
       [] b.partial # None /\ LongEnough(b, a) ->
            {[anchor |-> a, changed |-> FALSE],
             [anchor |-> Anchored(b, a), changed |-> FALSE],
             [anchor |-> newcomer, changed |-> TRUE]}

(* _split_on_speaker_change: a second voice ends the utterance, and the    *)
(* prediction that described the whole of it is dropped.                   *)
StillPredicted(b) == b.partial
Unpredicted(b)    == None

SplitOnChange(b, changed, dip) ==
  LET cut == CutAt(b, Len(b.pcm) - Window, dip)
  IN IF changed /\ Len(cut.finals) > Len(b.finals)
       THEN [cut EXCEPT !.partial = Unpredicted(b)]
       ELSE b

(* _announce, and the client that applies what it sends: a sentence takes  *)
(* the place of the running text, the next prediction renews it.  Not      *)
(* every utterance or prediction has text; an error takes it from all.     *)
Announced(b) ==
  \E said \in SUBSET (Len(finals) .. Len(b.finals) - 1) :
    /\ sentence' = IF said = {} THEN sentence ELSE Max(said)
    /\ grey' \in {IF said = {} THEN grey ELSE None}
                 \cup ({b.partial} \ {None})

(* handle_binary: the chunk is segmented and buffered, and a second voice  *)
(* ends the utterance.                                                     *)
Audio ==
  /\ ~ended
  /\ \E n \in 0 .. MaxFrames :
       /\ Completes(n)
       /\ \E cs \in [1 .. n -> Class] :
            LET v == Segmented(cs)
            IN /\ classes' = v.classes
               /\ triggered' = v.triggered
               /\ speechRun' = v.speechRun
               /\ silenceRun' = v.silenceRun
               /\ preroll' = v.preroll
               /\ events' = v.events
               /\ \E b \in {Buffered(v.spans, dip) : dip \in 1 .. Search} :
                  \E o \in Observe(b) :
                  \E cut \in {SplitOnChange(b, o.changed, dip) :
                                dip \in 1 .. Search} :
                    /\ anchor' = o.anchor
                    /\ Becomes(cut)
                    /\ Announced(cut)
  /\ UNCHANGED ended

(* _close_segment, at the bye or when the connection is gone: the segment  *)
(* is closed and the buffer flushed.                                       *)
Flushed(b) ==
  IF IsOpen(b) /\ b.pcm # <<>> THEN Finalize(b, "end_of_stream")
                               ELSE DiscardOpen(b)

SegmentClosed ==
  IF triggered
    THEN /\ events' = Append(events, [kind |-> "speech_end",
                                      at |-> Len(classes)])
         /\ triggered' = FALSE
         /\ speechRun' = 0
         /\ silenceRun' = 0
    ELSE UNCHANGED <<events, triggered, speechRun, silenceRun>>

Close ==
  /\ ~ended
  /\ ended' = TRUE
  /\ SegmentClosed
  /\ LET b == Flushed(Held)
     IN Becomes(b) /\ Announced(b)
  /\ UNCHANGED <<classes, preroll, anchor>>

Next == Audio \/ Close

Spec == Init /\ [][Next]_vars

-----------------------------------------------------------------------------
(* Properties. *)

FrameNumber == 0 .. MaxFrames - 1

Reason == {"pause", "max_duration", "speaker_change", "end_of_stream"}

Utterance == [index : 0 .. MaxFrames, pcm : Seq(FrameNumber),
              start : 0 .. MaxFrames, reason : Reason, continues : BOOLEAN]

(* Every variable has its type, and the pre-roll keeps to its length. *)
TypeOK ==
  /\ classes \in Seq(Class) /\ Len(classes) <= MaxFrames
  /\ triggered \in BOOLEAN
  /\ speechRun \in 0 .. MinSpeech
  /\ silenceRun \in 0 .. MinSilence
  /\ preroll \in Seq(FrameNumber) /\ Len(preroll) <= Pad
  /\ events \in Seq([kind : {"speech_start", "speech_end"},
                     at : 0 .. MaxFrames])
  /\ pcm \in Seq(FrameNumber)
  /\ startAt \in {NoStart} \cup 0 .. MaxFrames
  /\ continues \in BOOLEAN
  /\ partialAt \in 0 .. MaxFrames
  /\ finals \in Seq(Utterance)
  /\ anchor \in [index : {None} \cup 0 .. MaxFrames, from : 0 .. MaxFrames,
                 pcm : Seq(FrameNumber)]
  /\ sentence \in {None} \cup 0 .. MaxFrames
  /\ grey \in {None} \cup 0 .. MaxFrames
  /\ ended \in BOOLEAN

(* The frames from number a up to but not including number z. *)
Frames(a, z) == [i \in 1 .. z - a |-> a + i - 1]

(* The segments announced: where each starts and ends, the open one at the *)
(* end of what was heard.                                                  *)
Segments ==
  {<<events[i].at, IF i < Len(events) THEN events[i + 1].at
                                      ELSE Len(classes)>> :
     i \in {j \in 1 .. Len(events) : events[j].kind = "speech_start"}}

InSegment(k) == \E s \in Segments : s[1] <= k /\ k < s[2]

(* "A start/end pair delimits exactly the audio that was handed            *)
(* downstream" (SegmentEvent), and the buffer passes all of it on: the     *)
(* utterances, with the open one, follow one another in the stream, and    *)
(* cover the frames between the announced boundaries and no others,        *)
(* through every cut.                                                      *)
End(u)      == u.start + Len(u.pcm)
Covers(u, k) == u.start <= k /\ k < End(u)

OpenUtterance == [start |-> startAt, pcm |-> pcm]

UtterancesTileSegments ==
  LET all == IF startAt = NoStart THEN finals
                                  ELSE Append(finals, OpenUtterance)
  IN /\ \A i, j \in 1 .. Len(all) : i < j => End(all[i]) <= all[j].start
     /\ \A i \in 1 .. Len(all) : all[i].pcm = Frames(all[i].start, End(all[i]))
     /\ \A k \in 0 .. Len(classes) - 1 :
          InSegment(k) <=> \E i \in 1 .. Len(all) : Covers(all[i], k)
     /\ startAt = NoStart => pcm = <<>>

(* continues_previous marks exactly the rest of a length cut: what carries *)
(* on, in the same segment, where an utterance cut for its length ended;   *)
(* not what a second voice begins, nor the next segment when the cut left  *)
(* nothing of its own and the two meet.                                    *)
ContinuesMarksLengthCuts ==
  \A i \in 1 .. Len(finals) :
    finals[i].continues <=>
      /\ i > 1
      /\ finals[i - 1].reason = "max_duration"
      /\ End(finals[i - 1]) = finals[i].start
      /\ \E s \in Segments : /\ s[1] <= finals[i - 1].start
                             /\ finals[i].start < s[2]

(* The audio of one segment, without a gap, from start_ms on, never        *)
(* nothing.                                                                *)
UtterancesHoldTheirAudio ==
  \A i \in 1 .. Len(finals) :
    LET u == finals[i]
    IN /\ u.index = i - 1
       /\ u.pcm # <<>>
       /\ u.pcm = Frames(u.start, End(u))
       /\ \E s \in Segments : s[1] <= u.start /\ End(u) <= s[2]

(* The utterances are the announced speech, and each holds what it says,   *)
(* whatever cut it: its audio, its place in the stream, its index, and     *)
(* whether it carries on from the last one.                                *)
UtterancesAreSound ==
  /\ UtterancesTileSegments
  /\ UtterancesHoldTheirAudio
  /\ ContinuesMarksLengthCuts

(* Nothing the ASR gets is longer than FINALIZE_MAX_DURATION, and what is  *)
(* still open is shorter: the cut comes in time whatever a chunk brings.   *)
NothingTooLong ==
  /\ Len(pcm) < MaxLen
  /\ \A i \in 1 .. Len(finals) : Len(finals[i].pcm) <= MaxLen

(* The buffer is open exactly while the VAD is: an utterance never waits   *)
(* "forever for an end that never comes" (app.py:292), not even when the   *)
(* hangover runs out on the first frame of a chunk, and a segment never    *)
(* opens on top of an unfinished one (the warning in push()).              *)
BufferFollowsVad == (startAt # NoStart) = triggered

(* The buffer neither runs over nor is left behind. *)
BufferIsSound == NothingTooLong /\ BufferFollowsVad

(* The voice a newcomer is compared with is the one that opened the        *)
(* utterance: whatever cut the utterances before it, the anchor holds the  *)
(* first frames of the utterance it is of ("the first second of it is the  *)
(* anchor - whoever started talking", speaker_change.py).                  *)
AnchorOpensUtterance ==
  anchor.pcm # <<>> =>
    LET start == IF anchor.index < Len(finals)
                   THEN finals[anchor.index + 1].start ELSE startAt
    IN anchor.pcm = Frames(start, start + Window)

(* "A committed sentence replaces the running text that predicted it"      *)
(* (transcript.py): the running text on the screen is never of an          *)
(* utterance whose sentence is there, nor of one before it.                *)
RunningTextIsAhead == grey # None => grey > sentence

(* No onset is lost: a run of MinSpeech frames of speech is forwarded      *)
(* whole, the frames before the one that convinced the model included.     *)
SpeechIsForwarded ==
  \A k \in 1 .. Len(classes) - MinSpeech + 1 :
    (\A i \in k .. k + MinSpeech - 1 : classes[i] = "speech")
      => \A i \in k .. k + MinSpeech - 1 : InSegment(i - 1)
=============================================================================
