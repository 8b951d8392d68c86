------------------------------ MODULE Languages ------------------------------
(***************************************************************************)
(* Which language a sentence is in, on its way from the utterance to the   *)
(* translation: the LanguageSplitter (language_split.py), the language     *)
(* identifier (lid.py) with the fallback of the session (session.py), and  *)
(* the Translator with its history (translate.py).                         *)
(*                                                                         *)
(* Two threads meet in the history.  The session's thread splits an        *)
(* utterance, asks for the language of its parts, numbers the sentence,    *)
(* remembers it and queues it; the worker's thread asks the language model *)
(* with the history as it then is.  The queue is the promise of            *)
(* TranslationWorker: in order, and any sentence may be given up.          *)
(*                                                                         *)
(* Audio is a number of VAD frames, in one language up to a change and in  *)
(* the other one from there on.  The identifier may always be undecided,   *)
(* and when it is not it names a language of the audio it got; Whisper's   *)
(* own choice is any language.  What the language model answers is known   *)
(* by what becomes of it: a translation, an echo, any other refusal, or no *)
(* answer.  Of the stages that may be switched off the identifier's is     *)
(* here: without it a part gets no language at all.  The others are in     *)
(* Pipeline, the history across meetings is in Meetings.                   *)
(*                                                                         *)
(* A definition no action uses, directly above another one (NotCarried     *)
(* above LanguageFor, ...), is a broken form of it, which one of the       *)
(* properties at the end is there to catch.                                *)
(***************************************************************************)
EXTENDS Integers, Sequences, FiniteSets

CONSTANTS
  Probe,          \* LANGUAGE_SPLIT_PROBE_MS = LID_MIN_DURATION_MS, in frames
  Steps,          \* LANGUAGE_SPLIT_STEPS
  Search,         \* SPLIT_SEARCH_MS, in frames
  Size,           \* TRANSLATE_HISTORY
  Limit,          \* STAGE_FAILURE_LIMIT
  Lengths,        \* bound: the lengths of utterances
  MaxUtterances,  \* bound: utterances
  MaxSentences    \* bound: sentences made of them

ASSUME SplitAssumption ==
  /\ Probe \in Nat \ {0} /\ Steps \in Nat /\ Search \in Nat /\ Size \in Nat
  /\ Limit \in Nat \ {0}
ASSUME BoundsAssumption ==
  /\ Lengths \subseteq Nat \ {0}
  /\ MaxUtterances \in Nat /\ MaxSentences \in Nat

None      == 0
Unknown   == "undecided"
Outside   == "another"
Pair      == {"vi", "ja"}
Partner(l) == CHOOSE m \in Pair : m # l
Stage     == {"language", "language_split"}

VARIABLES
  at,            \* where the session is: "idle", "search" in find(), "parts"
                 \*   in _announce(), "remember" and "submit" in
                 \*   _commit_sentence()
  utterances,    \* utterances so far
  utt,           \* the one at hand: first language, change, length
  low, high,     \* the bounds of the search
  tries,         \* halvings of it so far
  parts,         \* the parts of utt still to be analysed: <<from, to>>
  lastLanguage,  \* _last_language, or Unknown
  said,          \* the languages of the sentences, by number
  queued,        \* sentences submitted to the worker: 1 .. queued
  taken,         \* those the worker has taken: 1 .. taken
  doing,         \* the worker, in translate(): "nothing", "starting",
                 \*   "asked", or asked "again"
  prompt,        \* the sentences of the history in the first prompt for the
                 \*   sentence in translation
  history,       \* TranslationContext._turns, as the sentences' numbers
  failures,      \* _stage_failures: exceptions of a stage in a row
  off,           \* sentences there were when language_identifier was set to
                 \*   None, or -1
  cut,           \* ghost: where utt was cut in two, or None
  unsure,        \* ghost: was a probe of one language left undecided in the
                 \*   search of utt?
  decided,       \* ghost: sentences there were at the first decision, or -1
  blind          \* ghost: sentences whose identification raised

audio   == <<utterances, utt, low, high, tries, parts, cut, unsure>>
session == <<at, audio, lastLanguage, said, queued, failures, off, decided,
             blind>>
worker  == <<taken, doing, prompt>>
vars == <<at, utterances, utt, low, high, tries, parts, cut, unsure,
          lastLanguage, said, queued, failures, off, decided, blind, worker,
          history>>

NoUtterance == [first |-> "vi", change |-> 1, length |-> 1]

Init ==
  /\ at = "idle" /\ utterances = 0 /\ utt = NoUtterance
  /\ low = 0 /\ high = 0 /\ tries = 0 /\ parts = <<>>
  /\ lastLanguage = Unknown /\ said = <<>> /\ queued = 0
  /\ taken = 0 /\ doing = "nothing" /\ prompt = <<>> /\ history = <<>>
  /\ failures = [n \in Stage |-> 0] /\ off = -1
  /\ cut = None /\ unsure = FALSE /\ decided = -1 /\ blind = {}

-----------------------------------------------------------------------------
(* The identifier.                                                         *)

(* The languages of the frames from a up to but not including z. *)
Heard(u, a, z) ==
  (IF a < u.change THEN {u.first} ELSE {})
    \cup (IF u.change < z THEN {Partner(u.first)} ELSE {})

(* identify(): too short to tell, too close to call, or decided. *)
Identified(u, a, z) ==
  IF z - a < Probe THEN {Unknown} ELSE Heard(u, a, z) \cup {Unknown}

-----------------------------------------------------------------------------
(* _stage(): the exceptions in a row, which a success forgets.  A stage is *)
(* given up at the Limit-th, or at the first one of a broken device.       *)
Succeeded(stage) == failures' = [failures EXCEPT ![stage] = 0]
Raised(stage) ==
  failures' = [failures EXCEPT ![stage] = IF @ < Limit THEN @ + 1 ELSE @]
GivenUp(stage) == {failures[stage] + 1 >= Limit, TRUE}

-----------------------------------------------------------------------------
(* The session: one utterance after the other.                             *)

Whole == <<<<0, utt.length>>>>

(* find(): an utterance with room for two probes has its ends identified,  *)
(* and a search begins when they are in different languages and there is   *)
(* room between them.  The start is then in the language the utterance     *)
(* begins with.                                                            *)
Searched(u, first, last) ==
  /\ u.length > 2 * Probe
  /\ first # Unknown /\ last # Unknown /\ first # last

(* An utterance comes to _by_language(), which calls find(). *)
Arrives ==
  /\ at = "idle" /\ utterances < MaxUtterances
  /\ utterances' = utterances + 1
  /\ \E first \in Pair, length \in Lengths :
       \E change \in 1 .. length :
         utt' = [first |-> first, change |-> change, length |-> length]
  /\ UNCHANGED <<cut, unsure, tries>>

Utterance ==
  /\ Arrives
  /\ \E first \in Identified(utt', 0, Probe),
        last \in Identified(utt', utt'.length - Probe, utt'.length) :
       IF Searched(utt', first, last)
         THEN /\ at' = "search" /\ parts' = <<>>
              /\ low' = Probe /\ high' = utt'.length - Probe
              /\ UNCHANGED failures
         ELSE /\ at' = "parts" /\ parts' = <<<<0, utt'.length>>>>
              /\ UNCHANGED <<low, high>>
              /\ Succeeded("language_split")
  /\ UNCHANGED <<lastLanguage, said, queued, off, decided, blind, worker,
                 history>>

(* A halving of the gap: the probe in its middle sounds like the start of  *)
(* the utterance, or it does not.                                          *)
Middle == (low + high) \div 2
Narrow == tries < Steps /\ low < Middle /\ Middle < high

SameAsEnd(l)   == l = Partner(utt.first)
SameAsStart(l) == l = utt.first

Halve ==
  /\ at = "search" /\ Narrow
  /\ tries' = tries + 1
  /\ \E l \in Identified(utt, Middle, Middle + Probe) :
       /\ IF SameAsStart(l)
            THEN low' = Middle /\ UNCHANGED high
            ELSE high' = Middle /\ UNCHANGED low
       /\ unsure' = (unsure \/ (l = Unknown /\ Middle + Probe <= utt.change))
  /\ UNCHANGED <<at, utterances, utt, parts, cut, lastLanguage, said, queued,
                 failures, off, decided, blind, worker, history>>

(* quietest_split_point(): the end of any frame in the stretch before the  *)
(* boundary, which is the upper bound of the search.                       *)
CutPoints(limit) ==
  LET earliest == IF limit - Search > 1 THEN limit - Search ELSE 1
  IN IF limit <= earliest THEN {limit} ELSE earliest + 1 .. limit

(* find() is through with the search. *)
SearchOver == at' = "parts" /\ low' = 0 /\ high' = 0 /\ tries' = 0

(* The identifier raises in find(), and the utterance stays whole; but the *)
(* splitter is no stage that can be switched off: trying that raises, too, *)
(* and the utterance is lost (_safely_announce).                           *)
FindRaises(u) ==
  /\ Raised("language_split")
  /\ \E lost \in GivenUp("language_split") :
       parts' = IF lost THEN <<>> ELSE <<<<0, u.length>>>>

SearchRaises ==
  /\ at = "search"
  /\ SearchOver /\ FindRaises(utt)
  /\ UNCHANGED <<utterances, utt, cut, unsure, lastLanguage, said, queued,
                 off, decided, blind, worker, history>>

(* It raises on one of the two ends. *)
EndRaises ==
  /\ Arrives /\ utt'.length >= 2 * Probe
  /\ at' = "parts" /\ FindRaises(utt')
  /\ UNCHANGED <<low, high, lastLanguage, said, queued, off, decided, blind,
                 worker, history>>

(* _by_language(): the utterance in two, unless a part would be shorter    *)
(* than a probe.                                                           *)
Divide ==
  /\ at = "search" /\ ~Narrow
  /\ SearchOver /\ Succeeded("language_split")
  /\ \E c \in CutPoints(high) :
       IF c < Probe \/ utt.length - c < Probe
         THEN parts' = Whole /\ UNCHANGED cut
         ELSE parts' = <<<<0, c>>, <<c, utt.length>>>> /\ cut' = c
  /\ UNCHANGED <<utterances, utt, unsure, lastLanguage, said, queued, off,
                 decided, blind, worker, history>>

(* _analyse() and the ASR for the next part.  The decision is the          *)
(* language; what was undecided gets the last that was decided, if any.    *)
NotCarried(l) == l
LanguageFor(l) == IF l = Unknown THEN lastLanguage ELSE l

(* The ASR is held to the language it is given, and detects one otherwise. *)
Transcribed(l) == IF l = Unknown THEN Pair \cup {Outside} ELSE {l}

(* The words of the part become a sentence with the language l, or the     *)
(* part is noise or without words and nothing becomes of it.               *)
Words(l, raised) ==
  /\ Len(said) < MaxSentences
  /\ at' = "remember"
  /\ said' = Append(said, l)
  /\ blind' = IF raised THEN blind \cup {Len(said')} ELSE blind
NoWords ==
  /\ at' = "parts"
  /\ UNCHANGED <<said, blind>>

Analyse ==
  /\ at = "parts" /\ parts # <<>> /\ off = -1
  /\ parts' = Tail(parts)
  /\ Succeeded("language")
  /\ \E l \in Identified(utt, Head(parts)[1], Head(parts)[2]) :
       /\ lastLanguage' = IF l = Unknown THEN lastLanguage ELSE l
       /\ decided' = IF l # Unknown /\ decided = -1 THEN Len(said) ELSE decided
       /\ NoWords \/ \E d \in Transcribed(LanguageFor(l)) : Words(d, FALSE)
  /\ UNCHANGED <<utterances, utt, low, high, tries, cut, unsure, queued, off,
                 worker, history>>

(* The noise filter drops the part. *)
Noise ==
  /\ at = "parts" /\ parts # <<>>
  /\ parts' = Tail(parts)
  /\ UNCHANGED <<at, utterances, utt, low, high, tries, cut, unsure,
                 lastLanguage, said, queued, failures, off, decided, blind,
                 worker, history>>

(* The identifier raises: the sentence goes on without a language, and all *)
(* that come after it do when the stage is given up.                       *)
IdentifierRaises ==
  /\ at = "parts" /\ parts # <<>> /\ off = -1
  /\ parts' = Tail(parts)
  /\ Raised("language")
  /\ \E gone \in GivenUp("language") : off' = IF gone THEN Len(said) ELSE -1
  /\ NoWords \/ \E d \in Transcribed(Unknown) : Words(d, TRUE)
  /\ UNCHANGED <<utterances, utt, low, high, tries, cut, unsure, lastLanguage,
                 queued, decided, worker, history>>

(* A part after that: the last language is known, but not asked for. *)
Unidentified ==
  /\ at = "parts" /\ parts # <<>> /\ off # -1
  /\ parts' = Tail(parts)
  /\ NoWords \/ \E d \in Transcribed(Unknown) : Words(d, FALSE)
  /\ UNCHANGED <<utterances, utt, low, high, tries, cut, unsure, lastLanguage,
                 queued, failures, off, decided, worker, history>>

(* TranslationContext.remember(): the oldest turn makes room. *)
RememberAll(s) == Append(history, s)
Remember(s) ==
  LET all == Append(history, s)
  IN IF Len(all) > Size THEN SubSeq(all, Len(all) - Size + 1, Len(all))
                        ELSE all

(* _commit_sentence(): the sentence is remembered, and then queued. *)
Commit ==
  /\ at = "remember"
  /\ at' = "submit"
  /\ history' = Remember(Len(said))
  /\ UNCHANGED <<audio, lastLanguage, said, queued, failures, off, decided,
                 blind, worker>>

Submit ==
  /\ at = "submit"
  /\ at' = "parts"
  /\ queued' = Len(said)
  /\ UNCHANGED <<audio, lastLanguage, said, failures, off, decided, blind,
                 worker, history>>

(* The parts are done, and the session reads on. *)
Announced ==
  /\ at = "parts" /\ parts = <<>>
  /\ at' = "idle"
  /\ utt' = NoUtterance /\ cut' = None /\ unsure' = FALSE
  /\ UNCHANGED <<utterances, low, high, tries, parts, lastLanguage, said,
                 queued, failures, off, decided, blind, worker, history>>

-----------------------------------------------------------------------------
(* The worker: translate() for one sentence after the other.               *)

(* What submit() has queued; before that the history lacks the sentence. *)
BeforeRemembered == Len(said)
Waiting          == queued

Take ==
  /\ doing = "nothing" /\ taken < Waiting
  /\ taken' = taken + 1
  /\ doing' = "starting"
  /\ UNCHANGED <<session, prompt, history>>

(* A sentence that was late, or for which there was no room. *)
GiveUp ==
  /\ doing = "nothing" /\ taken < Waiting
  /\ taken' = taken + 1
  /\ UNCHANGED <<session, doing, prompt, history>>

(* Without a language of the pair there is nothing to translate into. *)
Refuse ==
  /\ doing = "starting" /\ said[taken] \notin Pair
  /\ doing' = "nothing"
  /\ UNCHANGED <<session, taken, prompt, history>>

(* _ask(), with the history as it is now. *)
Ask ==
  /\ doing = "starting" /\ said[taken] \in Pair
  /\ doing' = "asked"
  /\ prompt' = history
  /\ UNCHANGED <<session, taken, history>>

(* The deque cannot be read while another thread appends to it: the        *)
(* session remembers its sentence and the worker loses the one it was at,  *)
(* building the prompt or looking at the history after an echo.            *)
Raced ==
  /\ doing \in {"starting", "asked"} /\ said[taken] \in Pair
  /\ history # <<>> /\ at = "remember"
  /\ at' = "submit" /\ history' = Remember(Len(said))
  /\ doing' = "nothing" /\ prompt' = <<>>
  /\ UNCHANGED <<audio, lastLanguage, said, queued, failures, off, decided,
                 blind, taken>>

(* The model fails, or its answer is refused: it is empty, an echo, in the *)
(* wrong script or far too long.  Nothing is remembered.                   *)
NotTranslated ==
  /\ doing \in {"asked", "again"}
  /\ doing' = "nothing" /\ prompt' = <<>>
  /\ UNCHANGED <<session, taken, history>>

(* The sentence came back as it was, and there is a history to leave out:  *)
(* asked once more without it.                                             *)
Echoed ==
  /\ doing = "asked" /\ history # <<>>
  /\ doing' = "again"
  /\ UNCHANGED <<session, taken, prompt, history>>

Translated ==
  /\ doing \in {"asked", "again"}
  /\ doing' = "nothing" /\ prompt' = <<>>
  /\ history' = Remember(taken)
  /\ UNCHANGED <<session, taken>>

Next ==
  \/ Utterance \/ EndRaises \/ Halve \/ SearchRaises \/ Divide
  \/ Analyse \/ Noise \/ IdentifierRaises \/ Unidentified
  \/ Commit \/ Submit \/ Announced
  \/ Take \/ GiveUp \/ Refuse \/ Ask \/ Raced \/ NotTranslated \/ Echoed
  \/ Translated

Spec == Init /\ [][Next]_vars

-----------------------------------------------------------------------------
(* Properties.                                                             *)

Sentence == 1 .. MaxSentences
Frame    == UNION {0 .. n : n \in Lengths \cup {Probe}}

(* Every variable has its type, and the history keeps to its size. *)
TypeOK ==
  /\ at \in {"idle", "search", "parts", "remember", "submit"}
  /\ utterances \in 0 .. MaxUtterances
  /\ utt.first \in Pair /\ utt.change \in 1 .. utt.length
  /\ utt.length \in Lengths \cup {1}
  /\ at = "search" => low \in Frame /\ high \in Frame /\ low < high
  /\ tries \in 0 .. Steps
  /\ parts \in Seq(Frame \X Frame) /\ Len(parts) <= 2
  /\ lastLanguage \in Pair \cup {Unknown}
  /\ said \in Seq(Pair \cup {Outside})
  /\ taken \in 0 .. queued /\ queued \in 0 .. Len(said)
  /\ doing \in {"nothing", "starting", "asked", "again"}
  /\ history \in Seq(Sentence) /\ Len(history) <= Size
  /\ prompt \in Seq(Sentence) /\ Len(prompt) <= Size
  /\ failures \in [Stage -> 0 .. Limit]
  /\ off \in -1 .. MaxSentences
  /\ cut \in Frame \cup {None} /\ unsure \in BOOLEAN
  /\ decided \in -1 .. MaxSentences /\ blind \subseteq Sentence

(* Into how many gaps n halvings divide one. *)
Power[n \in 0 .. Steps] == IF n = 0 THEN 1 ELSE 2 * Power[n - 1]

(* The gap that is left of an utterance after all halvings. *)
Gap == (utt.length - 2 * Probe + Power[Steps] - 1) \div Power[Steps]

(* A cut finds the change of language: it is never further behind it than  *)
(* the rest of the gap and a probe, and never further before it than the   *)
(* search for a quiet frame goes and a probe, unless a probe of the first  *)
(* language was left undecided.  (The comment in _by_language, session.py, *)
(* has the change at or before the boundary always.)                       *)
CutNearChange ==
  cut # None =>
    /\ utt.change < utt.length
    /\ cut - utt.change < Gap + Probe
    /\ ~unsure => utt.change - cut < Search + Probe

(* Once a meeting's language was decided, Whisper's own choice is not      *)
(* asked for again (_language_for: "a sentence decoded as Swedish is       *)
(* worthless"): not for an undecided part, a half of a split or one after  *)
(* noise, and not after an exception of the identifier either.  The        *)
(* exceptions are the sentence an exception hit and all there are once the *)
(* identifier is switched off: then the last language is not used, though  *)
(* it is known.                                                            *)
LanguageIsCarried ==
  \A s \in 1 .. Len(said) :
    said[s] \notin Pair /\ s \notin blind =>
      decided = -1 \/ s <= decided \/ (off # -1 /\ s > off)

(* A sentence that came back as it was is put to the model again only in   *)
(* another prompt: the history looked at then, after the answer, is one    *)
(* the first prompt had too, whatever the session's thread remembered      *)
(* meanwhile (translate, "is what makes it echo").  It is so because a     *)
(* sentence is remembered before it is queued.                             *)
RetryIsDifferent == doing = "again" => prompt # <<>>
=============================================================================
