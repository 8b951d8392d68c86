------------------------------ MODULE Pipeline ------------------------------
(***************************************************************************)
(* What ServerSession does with the utterances of a meeting                *)
(* (server/net/session.py): the stages each one goes through, what happens *)
(* when one of them raises, the numbers of the sentences, and the messages *)
(* that reach the client.                                                  *)
(*                                                                         *)
(* handle_binary, bye and finish run to their end on the event loop; only  *)
(* the worker thread of the translations runs beside them.  An action is   *)
(* one stage, or one step between two stages, of the call that is running. *)
(* Audio, text and labels are left out: an utterance is what its stages    *)
(* make of it, a sentence is its number.  A stage may raise whenever it is *)
(* called, with a device failure or another one.  The translation worker   *)
(* is the one of AnswerLedger: it answers each sentence once, in its own   *)
(* time.  The labels of the speakers, and what reclustering changes of     *)
(* them, are in module Speakers; nothing that is kept here depends on it.  *)
(*                                                                         *)
(* A definition no action uses, directly above another one (NumberedTwice  *)
(* above Numbered, ...), is a broken form of it, which one of the          *)
(* properties at the end is there to catch.                                *)
(***************************************************************************)
EXTENDS Integers, Sequences, FiniteSets

CONSTANTS
  Loaded,         \* the stages whose models are loaded
  Limit,          \* STAGE_FAILURE_LIMIT
  MaxFinals,      \* bound: utterances that one chunk of audio completes
  MaxSentences,   \* bound: sentences of the meeting
  MaxRaises       \* bound: how often a model raises

(* The stages of one utterance in their order, and what each is followed   *)
(* by.                                                                     *)
Stage == {"noise", "overlap", "speaker", "language", "asr"}

After(s) == CASE s = "noise"    -> "overlap"
              [] s = "overlap"  -> "speaker"
              [] s = "speaker"  -> "language"
              [] s = "language" -> "asr"
              [] s = "asr"      -> "commit"

ASSUME LoadedAssumption == Loaded \subseteq Stage
ASSUME LimitAssumption  == Limit \in Nat \ {0}
ASSUME BoundsAssumption ==
  MaxFinals \in Nat /\ MaxSentences \in Nat /\ MaxRaises \in Nat

Sentence == 1 .. MaxSentences

(* The names _stage() is used with, and what else calls a model.  The      *)
(* change detector holds the speaker model; the splitter and the running   *)
(* text use the language model, the running text also the ASR.             *)
Guarded == Stage \cup {"language_split"}
Caller  == Guarded \cup {"change", "partial_language", "partial_asr"}

Model(c) == CASE c \in Stage -> c
              [] c = "change" -> "speaker"
              [] c \in {"language_split", "partial_language"} -> "language"
              [] c = "partial_asr" -> "asr"

VARIABLES
  state,      \* ServerSession.state, from the hello on
  call,       \* the call of the session that is running
  at,         \* how far it is
  broken,     \* did handle_binary raise?
  stopped,    \* was the worker stopped?
  on,         \* the attributes of the session that are not None
  failures,   \* _stage_failures, counted up to Limit
  disabled,   \* stats.stages_disabled
  notices,    \* _stage_notices
  told,       \* the notices the client was sent
  finals,     \* utterances of the result that are still to be taken up
  halves,     \* parts of the one taken up that are still to be committed
  partial,    \* does the result hold a window for the running text?
  text,       \* has the transcript of this part any text?
  sentences,  \* _sentences
  out,        \* the final messages _announce has gathered
  shown,      \* the final messages that were sent, in their order
  ready,      \* translations the worker has for the session
  answered,   \* translations that were sent
  raises,     \* how often a model has raised
  fell,       \* who raised out of _announce
  dead,       \* models that raised a device failure in their stage
  reentered   \* who called them again after it

result  == <<finals, halves, partial, text>>
isolation == <<on, failures, disabled, notices, told>>
messages == <<sentences, out, shown, ready, answered>>
ghosts  == <<raises, fell, dead, reentered>>
vars == <<state, call, at, broken, stopped, isolation, result, messages,
          ghosts>>

Init ==
  /\ state = "streaming" /\ call = "none" /\ at = "idle" /\ broken = FALSE
  /\ stopped = FALSE
  /\ on = Loaded
       \cup (IF "speaker" \in Loaded THEN {"change"} ELSE {})
       \cup (IF "language" \in Loaded THEN {"language_split"} ELSE {})
  /\ failures = [s \in Guarded |-> 0]
  /\ disabled = {} /\ notices = <<>> /\ told = <<>>
  /\ finals = 0 /\ halves = 0 /\ partial = FALSE /\ text = FALSE
  /\ sentences = 0 /\ out = <<>> /\ shown = <<>>
  /\ ready = {} /\ answered = {}
  /\ raises = 0 /\ fell = {} /\ dead = {} /\ reentered = {}

Elements(q) == {q[i] : i \in 1 .. Len(q)}

-----------------------------------------------------------------------------
(* A model is called, unless there is too little audio for it, and may     *)
(* raise.                                                                  *)

Calls(c) == reentered' = IF Model(c) \in dead THEN reentered \cup {c}
                                               ELSE reentered

Raises(c, device) ==
  /\ raises < MaxRaises
  /\ raises' = raises + 1
  /\ dead' = IF device /\ c \in Stage THEN dead \cup {c} ELSE dead

Returns == UNCHANGED <<raises, dead>>

(* An exception leaves _announce: _safely_announce drops what it gathered. *)
AfterAnnounce == IF call = "audio" THEN "collect" ELSE "stop"

Abandon(c) ==
  /\ fell' = fell \cup {c}
  /\ finals' = 0 /\ halves' = 0 /\ partial' = FALSE /\ text' = FALSE
  /\ out' = <<>>
  /\ at' = AfterAnnounce

(* _stage_broke: one more failure in a row; a device failure, or the last  *)
(* one the limit allows, switches the stage off.  It raises itself when    *)
(* STAGE_ATTRIBUTES does not know the stage.                               *)
StageAttributes == {"noise", "overlap", "speaker", "language", "asr"}

Reached(s) == failures[s] + 1 >= Limit

SwitchesOff(s, device) == s \notin disabled /\ (device \/ Reached(s))

Cleared(s) == IF s = "speaker" THEN {"speaker", "change"} ELSE {s}

CountFailure(s) ==
  failures' = [failures EXCEPT ![s] = IF @ < Limit THEN @ + 1 ELSE @]

Escapes(s, device) == SwitchesOff(s, device) /\ s \notin StageAttributes

StageBroke(s, device) ==
  /\ CountFailure(s)
  /\ IF SwitchesOff(s, device) /\ s \in StageAttributes
       THEN /\ on' = on \ Cleared(s)
            /\ disabled' = disabled \cup {s}
            /\ notices' = Append(notices, s)
       ELSE UNCHANGED <<on, disabled, notices>>

Succeeded(s) == failures' = [failures EXCEPT ![s] = 0]

-----------------------------------------------------------------------------
(* handle_binary: the segmenter and the buffer have returned a result, see *)
(* module Segmentation.                                                    *)
Room(n) == sentences + 2 * n <= MaxSentences

Audio ==
  /\ at = "idle" /\ state = "streaming" /\ ~broken
  /\ call' = "audio"
  /\ finals' \in 0 .. MaxFinals
  /\ Room(finals')
  /\ partial' \in BOOLEAN
  /\ at' = IF "change" \in on /\ partial' THEN "change" ELSE "whole"
  /\ UNCHANGED <<state, broken, stopped, isolation, halves, text, messages,
                 ghosts>>

(* The VAD model raises instead, out of handle_binary.                     *)
SegmenterRaises ==
  /\ at = "idle" /\ state = "streaming" /\ ~broken
  /\ raises < MaxRaises
  /\ raises' = raises + 1
  /\ call' = "audio"
  /\ broken' = TRUE
  /\ UNCHANGED <<state, at, stopped, isolation, result, messages, fell, dead,
                 reentered>>

(* _split_on_speaker_change, outside _safely_announce: the detector hears  *)
(* one voice, or cuts and drops the running text, or raises out of         *)
(* handle_binary, which ends the connection.                               *)
Change ==
  /\ at = "change"
  /\ Calls("change")
  /\ \/ /\ Returns
        /\ at' = "whole"
        /\ UNCHANGED <<finals, partial, broken>>
     \/ /\ Returns
        /\ Room(finals + 1)
        /\ finals' = finals + 1
        /\ partial' = FALSE
        /\ at' = "whole"
        /\ UNCHANGED broken
     \/ /\ \E device \in BOOLEAN : Raises("change", device)
        /\ finals' = 0
        /\ partial' = FALSE
        /\ broken' = TRUE
        /\ at' = "idle"
  /\ UNCHANGED <<state, call, stopped, isolation, halves, text, messages,
                 fell>>

(* _announce: the next utterance of the result, or with all of them done   *)
(* the running text.                                                       *)
NextWhole ==
  /\ at = "whole"
  /\ IF finals = 0
       THEN /\ at' = "partial"
            /\ UNCHANGED <<finals, halves>>
       ELSE /\ finals' = finals - 1
            /\ IF "language_split" \in on
                 THEN at' = "language_split" /\ UNCHANGED halves
                 ELSE at' = "noise" /\ halves' = 1
  /\ UNCHANGED <<state, call, broken, stopped, isolation, partial, text,
                 messages, ghosts>>

(* _by_language: the utterance, or its two halves. *)
ByLanguage ==
  /\ at = "language_split"
  /\ Calls("language_split")
  /\ \/ /\ Returns
        /\ Succeeded("language_split")
        /\ halves' \in {1, 2}
        /\ at' = "noise"
        /\ UNCHANGED <<finals, partial, text, on, disabled, notices, out,
                       fell>>
     \/ \E device \in BOOLEAN :
          /\ Raises("language_split", device)
          /\ StageBroke("language_split", device)
          /\ IF Escapes("language_split", device)
               THEN Abandon("language_split")
               ELSE /\ halves' = 1
                    /\ at' = "noise"
                    /\ UNCHANGED <<finals, partial, text, out, fell>>
  /\ UNCHANGED <<state, call, broken, stopped, told, sentences, shown, ready,
                 answered>>

(* _analyse: a stage that is off is passed over, ... *)
Skip ==
  /\ at \in Stage \ on
  /\ at' = After(at)
  /\ UNCHANGED <<state, call, broken, stopped, isolation, result, messages,
                 ghosts>>

(* ... one that is on does its work; a noise verdict ends the analysis,    *)
(* and the ASR finds text or none; ...                                     *)
Analyse ==
  /\ at \in Stage \cap on
  /\ Calls(at)
  /\ Returns
  /\ Succeeded(at)
  /\ \/ at' = After(at)
     \/ at = "noise" /\ at' = "commit"
  /\ text' \in IF at = "asr" THEN BOOLEAN ELSE {FALSE}
  /\ UNCHANGED <<state, call, broken, stopped, on, disabled, notices, told,
                 finals, halves, partial, messages, fell>>

(* ... and one that raises leaves the defaults: no verdict, no label, no   *)
(* text.                                                                   *)
StageRaises ==
  /\ at \in Stage \cap on
  /\ Calls(at)
  /\ \E device \in BOOLEAN :
       /\ Raises(at, device)
       /\ StageBroke(at, device)
       /\ IF Escapes(at, device)
            THEN Abandon(at)
            ELSE /\ at' = After(at)
                 /\ UNCHANGED <<result, out, fell>>
  /\ UNCHANGED <<state, call, broken, stopped, told, sentences, shown, ready,
                 answered>>

(* _commit_sentence for a part with text: it is numbered, its final        *)
(* message gathered, and the worker given it to translate.                 *)
NumberedTwice == IF text THEN 2 ELSE 0
Numbered      == IF text THEN 1 ELSE 0

CommitInline ==
  /\ at = "commit"
  /\ sentences' = sentences + Numbered
  /\ out' = IF text THEN Append(out, sentences') ELSE out
  /\ answered' = answered \cup (Elements(out') \ Elements(out))
  /\ text' = FALSE
  /\ halves' = halves - 1
  /\ at' = IF halves' = 0 THEN "whole" ELSE "noise"
  /\ UNCHANGED <<state, call, broken, stopped, isolation, finals, partial,
                 shown, ready, ghosts>>

Commit ==
  /\ at = "commit"
  /\ sentences' = sentences + Numbered
  /\ out' = IF text THEN Append(out, sentences') ELSE out
  /\ text' = FALSE
  /\ halves' = halves - 1
  /\ at' = IF halves' = 0 THEN "whole" ELSE "noise"
  /\ UNCHANGED <<state, call, broken, stopped, isolation, finals, partial,
                 shown, ready, answered, ghosts>>

(* _transcribe_partial, outside every stage. *)
PartialLanguage ==
  /\ at = "partial"
  /\ partial /\ {"asr", "language"} \subseteq on
  /\ Calls("partial_language")
  /\ \/ /\ Returns
        /\ at' = "partial_asr"
        /\ UNCHANGED <<result, out, fell>>
     \/ /\ \E device \in BOOLEAN : Raises("partial_language", device)
        /\ Abandon("partial_language")
  /\ UNCHANGED <<state, call, broken, stopped, isolation, sentences, shown,
                 ready, answered>>

PartialAsr ==
  /\ \/ at = "partial_asr"
     \/ at = "partial" /\ partial /\ "asr" \in on /\ "language" \notin on
  /\ Calls("partial_asr")
  /\ \/ /\ Returns
        /\ partial' = FALSE
        /\ at' = "notices"
        /\ UNCHANGED <<finals, halves, text, out, fell>>
     \/ /\ \E device \in BOOLEAN : Raises("partial_asr", device)
        /\ Abandon("partial_asr")
  /\ UNCHANGED <<state, call, broken, stopped, isolation, sentences, shown,
                 ready, answered>>

NoPartial ==
  /\ at = "partial"
  /\ ~partial \/ "asr" \notin on
  /\ partial' = FALSE
  /\ at' = "notices"
  /\ UNCHANGED <<state, call, broken, stopped, isolation, finals, halves,
                 text, messages, ghosts>>

(* _announce returns: its messages and the notices are on their way.       *)
NoticesForgotten == <<>>
NoticesSent      == notices

Announced ==
  /\ at = "notices"
  /\ shown' = shown \o out
  /\ out' = <<>>
  /\ told' = told \o NoticesSent
  /\ notices' = <<>>
  /\ at' = AfterAnnounce
  /\ UNCHANGED <<state, call, broken, stopped, on, failures, disabled,
                 result, sentences, ready, answered, ghosts>>

(* _collect_translations, the last thing in handle_binary. *)
Collect ==
  /\ at = "collect"
  /\ answered' = answered \cup ready
  /\ ready' = {}
  /\ call' = "none"
  /\ at' = "idle"
  /\ UNCHANGED <<state, broken, stopped, isolation, result, sentences, out,
                 shown, ghosts>>

(* bye, while handle_binary has not raised, and finish, when the           *)
(* connection is gone or was told to go.  Both flush the buffer while the  *)
(* session streams and then stop the worker.                               *)
Finalise(c) ==
  /\ at = "idle"
  /\ call' = c
  /\ IF state = "streaming"
       THEN /\ finals' \in {n \in {0, 1} : Room(n)}
            /\ at' = "whole"
       ELSE /\ at' = "stop"
            /\ UNCHANGED finals
  /\ UNCHANGED <<state, broken, stopped, isolation, halves, partial, text,
                 messages, ghosts>>

(* Audio of the wrong size, another hello, any other message.              *)
Fail ==
  /\ at = "idle" /\ state = "streaming" /\ ~broken
  /\ state' = "closed"
  /\ UNCHANGED <<call, at, broken, stopped, isolation, result, messages,
                 ghosts>>

Bye    == state = "streaming" /\ ~broken /\ Finalise("bye")
Finish == call # "finish" /\ Finalise("finish")

(* worker.stop() waits until each sentence has its answer, the one whose   *)
(* translation outlasts the join excepted, and hands over the answers; a   *)
(* second stop() only hands over.                                          *)
Unanswered == (1 .. sentences) \ answered

NotWaitedFor == TRUE
Settled      == stopped \/ Cardinality(Unanswered \ ready) <= 1

Stop ==
  /\ at = "stop"
  /\ Settled
  /\ answered' = answered \cup ready
  /\ ready' = {}
  /\ stopped' = TRUE
  /\ state' = "closed"
  /\ at' = "idle"
  /\ UNCHANGED <<call, broken, isolation, result, sentences, out, shown,
                 ghosts>>

(* The worker thread puts an answer on its done queue; so does stop() with *)
(* what the queue still holds at its deadline.                             *)
WorkerAnswers ==
  /\ \E s \in Unanswered \ ready : ready' = ready \cup {s}
  /\ UNCHANGED <<state, call, at, broken, stopped, isolation, result,
                 sentences, out, shown, answered, ghosts>>

Next ==
  \/ Audio \/ SegmenterRaises \/ Change \/ NextWhole \/ ByLanguage
  \/ Skip \/ Analyse \/ StageRaises \/ Commit
  \/ PartialLanguage \/ PartialAsr \/ NoPartial \/ Announced
  \/ Collect \/ Fail \/ Bye \/ Finish \/ Stop \/ WorkerAnswers

Spec == Init /\ [][Next]_vars

-----------------------------------------------------------------------------
(* Properties.                                                             *)

Place == Caller \cup {"idle", "whole", "commit", "partial", "notices",
                      "collect", "stop"}

(* Every variable has its type. *)
TypeOK ==
  /\ state \in {"streaming", "closed"}
  /\ call \in {"none", "audio", "bye", "finish"}
  /\ at \in Place
  /\ broken \in BOOLEAN /\ stopped \in BOOLEAN
  /\ on \subseteq Caller
  /\ failures \in [Guarded -> 0 .. Limit]
  /\ disabled \subseteq Guarded
  /\ notices \in Seq(Guarded) /\ told \in Seq(Guarded)
  /\ finals \in 0 .. MaxFinals + 1
  /\ halves \in 0 .. 2
  /\ partial \in BOOLEAN /\ text \in BOOLEAN
  /\ sentences \in 0 .. MaxSentences
  /\ out \in Seq(Sentence) /\ shown \in Seq(Sentence)
  /\ ready \subseteq Sentence /\ answered \subseteq Sentence
  /\ raises \in 0 .. MaxRaises
  /\ fell \subseteq Caller
  /\ dead \subseteq Stage /\ reentered \subseteq Caller

(* Sentences that have a number and whose final message is neither sent    *)
(* nor on its way.                                                         *)
Dropped == (1 .. sentences) \ (Elements(shown) \cup Elements(out))

(* The client sees the sentences in the order of their numbers, each once, *)
(* and none is missing, unless an exception left _announce after they were *)
(* numbered: a translation that follows has a sentence to go to.           *)
SentencesInOrder ==
  LET all == shown \o out
  IN /\ \A i, j \in 1 .. Len(all) : i < j => all[i] < all[j]
     /\ Dropped # {} => fell # {}

(* A translation never reaches the client before its sentence: it is       *)
(* handed over at the end of the call that committed it, or later, however *)
(* fast the worker thread is.                                              *)
SentenceBeforeTranslation == answered \subseteq Elements(shown) \cup Dropped

(* "The sentence carries on through the rest of it instead of being thrown *)
(* away" (_stage): no stage run by _stage raises out of _announce.         *)
StagesAreContained == fell \cap Guarded = {}

(* The client learns of each stage that is switched off, once, and before  *)
(* the next audio is read, unless an exception left _announce.             *)
NoticesReachClient ==
  LET all == told \o notices
  IN /\ Elements(all) = disabled
     /\ \A i, j \in 1 .. Len(all) : i # j => all[i] # all[j]
     /\ at = "idle" /\ ~broken /\ notices # <<>> => fell # {}

(* "Going back in is what kills it" (DEVICE_FAILURES): after a device      *)
(* failure in its stage a model is not called again, by the stage or by    *)
(* others that hold it, but for the language splitter, which nothing       *)
(* switches off.                                                           *)
OnlySplitterGoesBackIn == reentered \subseteq {"language_split"}

(* A stage that is switched off stays off, and the client knows. *)
IsolationHolds == NoticesReachClient /\ OnlySplitterGoesBackIn

(* "The last sentence of a meeting is committed here and queued for        *)
(* translation here" (_finalise): when the last call has returned, every   *)
(* sentence shown has its translation or the reason it has none, but for   *)
(* the one the translator was busy with.                                   *)
LastSentenceAnswered ==
  at = "idle" /\ call \in {"bye", "finish"} =>
    Cardinality(Elements(shown) \ answered) <= 1

(* What the client can rely on: the sentences, then their translations,    *)
(* and in the end all of them.                                             *)
ClientsView ==
  SentencesInOrder /\ SentenceBeforeTranslation /\ LastSentenceAnswered

(* The session uses its worker the way the worker's promise has it (module *)
(* TranslationWorker keeps the same one): it commits one sentence at a     *)
(* time, and passes on an answer once, after it was given, and whole.      *)
Promise == INSTANCE AnswerLedger WITH
  Verdict   <- {"no", "yes"},
  committed <- sentences,
  answer    <- [s \in Sentence |-> IF s \in ready \cup answered
                                     THEN "yes" ELSE "no"],
  heard     <- [s \in Sentence |-> IF s \in answered THEN 1 ELSE 0]

KeepsPromise == Promise!Ledger
=============================================================================
