# The realtime meeting translator in TLA+

This directory is a verification development of the Vietnamese/Japanese meeting
translator: TLA+ modules of its concurrent and stateful parts, TLC configurations
that check them on small instances, and theorems about them that TLAPS checks for
every value of the constants. Paths such as `server/app.py:239` are relative to
the root of the repository. Everything is translated from the code. Three
promises of its comments and documents that the code breaks are shown by a run
each, and `PROJECT.json` lists them under `findings`; section 7 names other places
where a comment says more than the code does, one of which (an exception that ends
the client's `run()`) the properties make room for.

Contents: 1 the system, 2 its components and what makes them correct, 3 the
modules, 4 the runs, 5 fairness, 6 the proofs, 7 what is not modelled, 8 the plan.


## 1. The system

A Windows client captures the audio of a meeting and streams it, in chunks of
200 ms, over a websocket to a GPU server, which answers with sentences, their
translations, and corrections of who said them.

    client                                   server
    ------                                   ------
    LoopbackCapture   PortAudio's thread
      | bounded queue
    MeetingSession    its own thread, asyncio
      | _pump
    StreamClient      queue, send loop  ---> stream()      one handler per connection
      receive loop <-------------------      ServerSession the protocol of one meeting
      | Qt signals                             | VAD -> buffer -> noise -> overlap ->
    Transcript, Recorder  the Qt thread        |   speaker -> language -> ASR
                                             TranslationWorker  one thread per meeting
                                               | Translator (shared), an LLM

Who runs beside whom:

* The server is one asyncio loop. A handler runs undisturbed between two awaits
  of its socket; the models run inside it and block the loop. Handlers of
  different connections therefore interleave only at those awaits.
* Each meeting has one more thread, the translation worker. It shares a queue, a
  "done" queue and two events with the handler, and the `Translator` with the
  workers of earlier meetings that have not ended.
* The VAD, the models and the translator's history are shared by all meetings of
  the process; `AppState.active_session_id` is the slot that is to keep two
  meetings from using them at once.
* The client has PortAudio's callback thread, the meeting's thread with an
  asyncio loop of its own (run loop, send loop, receive loop, pump), and the Qt
  thread.


## 2. Components: state, operations, what makes them correct

Each row names the state a component keeps, its operations, whom it interacts
with, and then what it must guarantee, with the behaviours that make that hard.

**Translation queue and worker** (`server/pipeline/translation_queue.py`).
State: `_waiting` under a lock, `_done`, the events `_wake` and `_stopping`, the
thread, the counters. Operations: `submit`, `collect`, `start`, `stop` on the
session's thread; `take`, translate, put, wait on the worker's. Correct when every
sentence is answered exactly once and in order, the newest win when the queue is
full or late, nothing waits for a wake-up that does not come, and `stop` returns
with every answer. Hard: two threads, sentences that are in nobody's list for a
moment, three deadlines (age of a sentence, drain, join).

**Meeting slot and connection handlers** (`server/app.py`). State: the slot, and
per connection the locals `claimed`. Operations: accept, refuse, claim, run,
close, release. Correct when at most one meeting streams, and when the slot is
released however the meeting ends. Hard: check and claim are apart; sends raise;
clients vanish, and come back with the same session id.

**ServerSession** (`server/net/session.py`). State: protocol state, the sentence
counter, failure counts per stage, the stages that are switched off. Operations:
`handle_text` (hello, bye), `handle_binary`, `finish`. Correct when the client sees
each sentence once, in order, before its translation; when a stage that breaks
costs no sentence and a device failure is never provoked twice; when the last
sentence of the meeting gets its translation. Hard: any model may raise anywhere,
some calls are outside the guard, some models are held in two places.

**Voice activity detection** (`server/pipeline/vad.py`), **stream buffer**
(`buffer.py`), **speaker-change detector** (`speaker_change.py`). State: the state
machine's runs, the pre-roll, the open utterance, its partial mark, the detector's
window. Operations: `push`, `flush`, `cut_at`, `observe`. Correct when the
utterances are exactly the speech, cut in time, nothing lost, repeated or left
open. Hard: a segment may open and close inside any chunk, cuts by length and by
voice fall in the same chunk, positions are relative to buffers that shrink.

**Speaker registry** (`diarization.py`) and **reclustering** (`reclustering.py`).
State: voices with their centroids and labels, a window of past utterances.
Correct when a label never names two voices and a correction reaches the sentence
it is about. Hard: live labels and labels from clustering are handed out by two
parties.

**Language identification and splitting** (`lid.py`, `language_split.py`), **noise
filter**, **overlap resolver**, **ASR**, **word lists**. Wrappers of models, without
state between sentences but for the session's `_last_language`. Correct when an
utterance in two languages is cut where the language changes and when no
sentence goes to the ASR without a language once the meeting has one. Hard: every
answer may be "undecided", a probe may straddle the change, the identifier may raise
and be switched off in mid-meeting.

**Translator** (`translate.py`). State: the history of past turns, shared by all
meetings and written by two threads. Operations: `translate`, `remember`, `reset`.
Correct when a meeting's prompts contain that meeting only, and when the second
attempt at an echo is another prompt than the first.

**Client uplink** (`client/net/ws_client.py`) and **meeting session**
(`client/ui/session.py`). State: the bounded queue, the events `_connected` and
`_stopping`, the tasks of the connection. Operations: `send`, `run`, `stop`, the
send and receive loops, `_pump`. Correct when audio is sent in order and at most
once, what is dropped is the oldest and is counted, a lost connection is noticed
and replaced, and a stop ends the meeting after the queued audio and the goodbye.
Hard: reconnects, two loops that end in either order, four timeouts, exceptions of
the websocket library that `run()` does not catch.

**Transcript** and **recorder** (`client/ui/transcript.py`, `client/record.py`).
State: the lines, an index by sentence number. Correct when translations and
corrections meet their own sentences. Hard: numbers restart with each connection,
old lines are trimmed.

**Audio capture** (`client/audio/`). State: a partial chunk, a bounded queue between
PortAudio's thread and the reader. **Wire protocol** (`common/protocol.py`): pure.
**Model loading, `/health`, configuration**: sequential, at start-up.


## 3. The modules

| module | models | state |
| --- | --- | --- |
| `AnswerLedger` | what a translation worker promises: an abstract specification | committed, answer, heard |
| `TranslationWorker` | `translation_queue.py`, both threads | queue, hands of each thread, done queue, events |
| `TranslationWorkerProofs` | theorems about it | |
| `Meetings` | `app.py`, the handshake and end of `session.py` | a handler per connection, the slot, whose data the shared models hold |
| `Conversation` | a client of several meetings against the handlers of `Meetings` | both machines, the frames between them, whether the network broke |
| `ConversationProofs` | theorems about it and about `Meetings` | |
| `Segmentation` | `vad.py`, `buffer.py`, `speaker_change.py`, the running text | state machine, pre-roll, open utterance, utterances, anchor, what is on screen |
| `SegmentationProofs` | theorems about it | |
| `Pipeline` | the stages and messages of `session.py` | stage switches, failure counts, sentence numbers, messages |
| `PipelineProofs` | theorems about it | |
| `Uplink` | `ws_client.py`, `client/ui/session.py`, the queue of `capture.py` | where each task and thread is, the two queues, the fate of each chunk |
| `UplinkProofs` | theorems about it | |
| `Speakers` | `diarization.py`, `reclustering.py`, the labels of `session.py` | the registry's count, the remembered voices, labels on the wire and on screen |
| `SpeakersProofs` | theorems about it | |
| `Languages` | `language_split.py`, `lid.py`, `translate.py`, the fallback of `session.py` | the search, the parts of the utterance, the last language, the history |
| `LanguagesProofs` | theorems about it | |
| `Transcript` | `transcript.py`, `record.py`, `window.py` | the signals queued for the Qt thread, lines, index, minutes, button |
| `TranscriptProofs` | theorems about it | |

Each component's run names its own module: the bounds are CONSTANTS that guard
the actions, so no further module is needed to instantiate it. A definition that
no action uses and that stands directly above another one of the same shape
(`FullOffByOne` above `Full`) is a plausible bug in that piece of code. Put in
the place of the other one it must make a property fail; `PROJECT.json` lists
which one under `mutants`.

### TranslationWorker and AnswerLedger

An action is what a thread does between two points where the other one can run:
a section under `_lock`, one `put` or drain of the done queue, one `set`, `wait`
or `clear` of an event. `Submit`, `PutRefused`, `WakeWorker` are the three parts
of `submit`; `StopBegins`, `Poll`, `PollDeadline`, `FlagStop`, `WakeForStop`,
`Join`, `Drain`, `StopReturns` those of `stop`; `CheckStopping`, `Take`,
`PutGivenUp`, `AfterGivingUp`, `Translated`, `PutDone`, `Woken`, `WaitTimesOut`,
`ClearWake` those of the worker's loop. Sentences are their numbers. `Done` objects
are counted per sentence and place, so a duplicate shows. Time is abstract:
`expired` is the newest sentence older than `max_lag_seconds`, and deadlines are
steps.

`AnswerLedger` leaves out queue, threads and locks: a committed sentence gets an
answer, the answer is final, the session hears it once. `KeepsPromise` of
`TranslationWorker` is that specification under the refinement mapping
`submitted`, `verdict`, `returned`. `KeepsPromise` of `Pipeline` is the same specification
seen from the session: committed are the sentences it numbered, answered those the
worker has put or handed over, heard those the client was sent. So the two modules
agree on what the worker is to the session, without one inside the other.

### Meetings

`at[c]` is the await at which the handler of connection `c` is. `Connect` and
`Accepted` check the slot (`app.py:239`), `Hello` claims it (277-279), `Fail`,
`Audio`, `AudioRaises`, `Bye` are what a session does with a message, `Sent` and
`SendRaises` are the two ends of a send, `Disconnected`, `Finish`, `Release` are
`_close_session`. `Translate` is the worker's turn with the translator. Of the
models there is what could mix: `vad`, those who fed it since its reset, and
`history`, those whose turns it holds. Three ghosts name the exceptions the code
has: `raced` (two connections were between check and hello), `lost` (a claim
forgotten because `_run_session` raised), `cut` (a worker that `stop` did not
wait for). `TextRejected` and `AudioRejected` say which frames a session refuses in
which state, from `handle_text`, `handle_binary` and the checks of `common/protocol.py`.
When `_run_session` and then `stream` return, their locals are gone (`Leaves`,
`Returns`).

### Conversation

`Conversation` EXTENDS `Meetings`: its server steps are the actions of that module,
each with the frame it reads (`Reads`) and the messages it sends (`Tells`), as
`ReadsHello`, `Sends`, `Refuses`, `Finishes`. The client is the `run()` of `Uplink`
reduced to what the server takes part in: `Opens` (the attempt starts, and the server
may accept or refuse it), `SaysHello` (the socket is open and the hello sent),
`OpeningFails` (the network broke first), `Unreachable` (there was no connection to be
had), `Ready`, `Refused`, `SaysBye`, `GraceOver`, `BackoffEnds`, with the `MeetingSession` around it (`Listens`, `Stops`,
`DeviceFails`, `JoinTimesOut`) and `NewMeeting` after it. Frames on their way are
sequences; the network keeps their order until it breaks (`Drops`), then loses
what is on its way to the client and any end of what is on its way to the server,
and either side learns of it when it does (`ConnectionEnds`, `Notices`). A
connection whose handler has returned is used again for the next attempt, so
retries need no bound. An attempt that fails ends in the backoff or, if the
websocket handshake was what failed, ends `run()` with an exception (`failed`):
`ws_client.py:167` does not catch `InvalidHandshake`. The meeting then has no client, and
there is another one only after the user has stopped it. Sentences are left out
(`Wordless`): they decide nothing here.
Ghosts: `said`, `heard`, and `marred`, the meetings that lost a connection, met a
model that raised or stopped waiting for the answer to their bye.

### Segmentation

The unit is a VAD frame and a frame is its number in the stream, so any frame
lost, repeated or moved shows. The model's probability is one of three classes,
the sides of its two thresholds. `Audio` is one `handle_binary` as far as it
segments: VAD frame by frame, the buffer's `push`, the length cuts, the speaker-change
detector (`Observe`: whose voice it watches, from which offset, with any answer the
comparison may give, the embedder's refusal included), the cut at a second voice
(`SplitOnChange`) and what the client then shows (`Announced`). `Close` is the flush at
the end. The three loops of a chunk are recursive functions: `Segmented` over its
frames (`Frame` is one of them), `Buffered` over the spans these make (`Absorb`), and
`CutForLength` over the cuts one span calls for, with a round for each frame, which
are more than the loop needs. Where a cut falls is decided by the energy of the
samples in the code and is any frame its search covers here. `sentence` and `grey` are the two things on the
client's screen an utterance can be: the last committed sentence, and the one the
running text predicts.

### Pipeline

The step `at` of the call of the session that is running: `Audio` begins
`handle_binary`, `NextWhole` takes up an utterance, `ByLanguage` splits it,
`Skip`, `Analyse` and `StageRaises` are one stage each, `Commit` numbers and
submits the sentence, `PartialLanguage`, `PartialAsr` are the running text,
`Announced` sends, `Collect` and `Stop` hand over translations. `StageBroke` is
the whole of `_stage_broke`: the count, the limit, the device failure that needs
no count, the notice, what is switched off with the stage, and the `KeyError` of a
stage that has no entry. The worker answers any committed sentence at any time;
that this is what the worker does is `TranslationWorker`'s `KeepsPromise`. `Stop` hands
over what is answered once all but at most one sentence are (`Settled`): the one
whose translation outlasts the join. Ghosts: `fell`, who raised out of `_announce`;
`dead`, the stages with a device failure, and `reentered`, who called their models
again.

### Uplink

The tasks run on one loop and change over at awaits, so an action is a task's
way from one await to the next. The callback of PortAudio and the pump's read (on a
thread of the pool) are threads; each of their actions is one operation on the
capture's queue: `CallbackPuts`, `CallbackMakesRoom`, `CallbackPutsAgain` are the
three of `_on_audio`, `PumpChecks`, `PumpReads`, `PumpTimesOut`, `PumpSends` a round of
`_pump`. `StopsCapture` is `capture.stop()`; what it leaves in the queue nobody reads. `run` is where `run()` and `_session()` are, `sender`
and `receiver` the loops of the connection, `meeting` where `MeetingSession` is.
A timeout may pass whenever its wait is on. An attempt to connect succeeds (`Opens`),
fails with one of the three exceptions `run()` catches (`Fails`, `Rejected`) or with the
one it does not (`HandshakeFails`); a `run()` that raised is as much over as one that
returned (`RunIsOver`), and `MeetingSession` sees no difference. Ghosts record what became of each
chunk: `sent`, `dropped`, `lost`. The server is seen from here: `HangUp` at any time, `ByeAnswered`
after a bye.

### Speakers

A result of the buffer is announced (`Announce`), its utterances get labels
(`Identified`: matched or founded by `assign`, with or without words in them;
`Unidentified`), and at its end the voices may be clustered again (`Recluster`,
`NotDue`); then the client has the messages (`Received`). Voiceprints are left out:
a match and a grouping may come out in any way, since thresholds and centroids
promise nothing. What is kept exactly is `name_clusters` (`Kept` and `Named` are recursive
functions over the groups, each naming a group after those `Before` it, from the
largest down; `Favourite` is the majority with its tie broken by the first voice,
`Spare` the first free number), the window of voices, what
`recluster` changes and what it tells the client. The one branch left out is the
thirteenth speaker `assign` creates when the similarity to every known voice is
exactly -1. `live` is a ghost: the label the live matcher gave.

### Transcript

Two threads: the meeting's thread posts Qt signals (`Connected`, `Listening`, `Final`,
`Translation`, `Speakers`, `Failed`, `Ends`), the Qt thread handles them in order
(`OnFinal`, `OnTranslation`, `OnSpeakers`, `OnStatus`, `OnStopped`) and, between two of
them, the user's `Toggle` and `CloseBegins`. A sentence is its connection and its
number, since the server's numbers start again on each connection; a line keeps
the sentence whose translation and whose speaker it shows, so that a wrong one is
seen. `Shows` is `_add_sentence` with its trim, `LastOf` the recorder's index.
A final that was numbered but never sent (an exception out of `_announce`, module
`Pipeline`) is in `missing`. Ghosts: `received`, what the client got in each meeting,
and `hasty`, meetings started while signals of the last one were still queued.

### Languages

Audio is a number of frames in one language up to a change and in the other from
there. `Utterance` begins `find()` with a probe of each end, `Halve` is one round of its
search, `Divide` the cut of `_by_language`, `Analyse` the identification of a part with
the fallback (`LanguageFor`) and the ASR, `Commit` and `Submit` the two steps of
`_commit_sentence`: remembered, then queued. The identifier answers with a language of
the audio it got or not at all; a probe that straddles the change may name either.
`Take`, `GiveUp`, `Refuse`, `Ask`, `NotTranslated`, `Echoed`, `Translated` are the worker in
`translate()`, at any moment of the session. `Raced` is a `remember` that falls into
the worker's iteration of the history: a deque raises then, and the worker's
sentence gets "the translator raised".

The identifier may raise at any of its calls. In `_analyse` (`IdentifierRaises`) that costs
the sentence its language, and at the `Limit`-th exception in a row, or at the first
one of a broken device, the stage is given up (`off`): all later parts go to the ASR
without a language, the last one not being asked for (`Unidentified`). In `find()`, at an
end of the utterance (`EndRaises`) or in the search (`SearchRaises`), it leaves the
utterance whole; the splitter is counted as a stage of its own but cannot be
switched off, and the attempt to do so loses the utterance (run `pipeline_stages`).
`failures` are the two counts, which a success resets. Ghosts: `cut` and `unsure` (where the utterance
was cut, and whether a probe of its first language was left undecided), `decided` and
`blind` (sentences before the first decision, and those whose identification raised).


## 4. The runs

### Runs that pass

| run | states | bounds | what it asks |
| --- | --- | --- | --- |
| `worker` | about 67 000 | 3 sentences, depth 2 | answered once, in order, no lost wake-up, implements `AnswerLedger` |
| `meetings` | about 231 000 | 2 connections, 2 ids | what the slot check does guarantee |
| `conversation` | about 578 000 | 2 meetings in a row, 2 connections at a time, 1 audio frame on its way, 2 breaks or attempts in vain | goodbye and reconnect between both machines |
| `segmentation` | about 844 000 | 8 frames, chunks of 2 and 3 | utterances are the speech, the detector and the running text follow them |
| `pipeline` | about 1 300 000 | 3 sentences, 3 failures | sentences, translations, stages under failures, implements `AnswerLedger` |
| `transcript` | about 1 210 000 | 2 meetings or connections, 2 sentences each, 2 rows, 3 signals | lines, index and minutes |
| `speakers` | about 1 010 000 | 5 sentences, 4 voices kept, clustering every 2, 2 speakers | who said what, after second thoughts |
| `languages` | about 10 346 000 | 2 utterances of 3 or 7 frames, probes of 2, 2 halvings, 3 sentences, history of 2, a limit of 2 exceptions in a row | where an utterance is cut, which language a sentence gets, what the model is asked |
| `uplink` | about 100 000 | 4 chunks, two queues of 2, 3 connections | audio across reconnects, the end of a meeting |

`worker`. `ExactlyOnce`: each submitted sentence is in exactly one place (queue,
a thread's hands, done queue, returned). `NoLostWake`: a sleeping worker with work
has its event set, or a caller about to set it. `StopAccounts`: nobody is told that the
meeting ended while `stop` had time (`EndedOnlyPastDeadline`), and after `stop` all are
answered but the one that its join, of 2 s, gave up on while the language model had
up to 20 s (`AllButCutAnswered`). That one sentence is never answered.
`NobodyWaitsForGood`: liveness, an answer comes (`AnswerComes`) and `stop` returns
(`StopReturnsAtLast`). Three sentences and depth two are the
least with a queue that is full while one is in translation, so that eviction,
lateness and the end of the meeting meet; the constants in the theorems are
arbitrary.

`meetings`. `OneMeetingUnlessRaced`, `SlotHasHolder`, `HistoryIsOwnOrCut` and
`SlotIsFreed` say what holds once the three exceptions are named. Two connections
suffice for a race and a reconnect; with two ids both the reuse of an id and
different ids are covered. A third connection adds a second loser.

`conversation`. `GoodbyeIsHeard`: a client that said bye ends with the server's closing
messages, unless the meeting is marred; so the bye, the finish and the grace period
fit together. `SlotFollowsMeeting`: the slot is lost only in the name of a marred
meeting, and while a client streams and its handler is there the slot is its
meeting's. `ReconnectsUnlessLeaked`: a client whose connection was lost streams again,
though it comes back before the handler of the old connection has noticed and is
refused then, unless a claim was forgotten or an attempt to connect failed with the
exception that ends `run()`. Two meetings show what one leaves for
the next; a second connection is the reconnect that meets the old handler; a third
would need two handlers that have noticed nothing. A break may fall at any step
of either meeting, the opening of a connection included; with two of them the
reconnect after a break can break, or fail, itself.
With one frame of audio on its way a hello, audio and a bye can all be unread.

`segmentation`. `UtterancesAreSound`: the utterances are the announced segments, frame
for frame (`UtterancesTileSegments`), each holds the audio its start names
(`UtterancesHoldTheirAudio`), and those flagged as going on are what a length cut left
(`ContinuesMarksLengthCuts`). `BufferIsSound`: cut in time (`NothingTooLong`), and never an
utterance without an end (`BufferFollowsVad`). `SpeechIsForwarded`: no onset is lost.
`AnchorOpensUtterance`: the voice the detector compares with is the one that opened
the utterance it watches, whatever cut those before it; in particular the offset
for declined cuts (`_anchor_from`) is never used in another utterance.
`RunningTextIsAhead`: the running text never outlives the sentence that replaced it.
With a segment that opens after two frames, closes after two, and utterances of at
most four, eight frames hold two segments, a length cut with a second voice in its
rest, and a cut that consumes everything.

`pipeline`. `ClientsView` (`SentencesInOrder`, `SentenceBeforeTranslation` and
`LastSentenceAnswered`): what the client sees, to the last sentence. `IsolationHolds`: the
client knows what is off (`NoticesReachClient`), and after a device failure only the
language splitter, which holds the language model itself, and the running text,
which is outside every stage, call the same model again (`OnlySplitterGoesBackIn`). The
docstring at `session.py:179` says that going back in is what kills the process.
`KeepsPromise`: the refinement of `AnswerLedger`. The limit is two, not three, so that
three failures can reach it, be reset by a success, and hit another stage; the
overlap resolver is not loaded, which also covers a missing stage. The number of
failures in a row and their places are otherwise free.

`uplink`. `AudioArrives`: never twice, never out of order, over all connections
(`SentInOrder`), and every captured chunk has exactly one fate, in the threads of the
capture as in the tasks of the client, and a connection takes at most one along
(`AudioAccounted`).
`GoodbyeAfterAudio` (of the client's queue; what the capture still holds at the stop is
not sent), and `NothingHangs`: a connection that ended is noticed (`HangupNoticed`) and
the meeting ends (`MeetingEnds`), `run()` having returned or raised. Three connections are a first, one that fails, and
one more; four chunks fill a queue of two while one is on its way and push one
out.

`speakers`. `GroupsKeepNames` (`NamesFollowGroups` and `NamesStayPut`): two groups never end up under one
name, and a group loses a name only to one no smaller or for one as many of its
members had. `ScreenFollowsHistory`: a row never shows a name the history has given
up. `NewVoiceIsNew`: a new voice of the registry may get a name that is on screen
already, for `name_clusters` takes a spare number the registry knows nothing of
(`reclustering.py:141`), but only of rows that a clustering had renamed. Four voices
are the least with two groups of two that want one name, or two and two names
tied within one group; the fifth sentence pushes one out of the window.

`transcript`. `LinesAreRight`: a line (`LinesShowTheirOwn`) shows its own translation and speaker, or
those of a sentence of a later connection with its number whose own line never
came. The index (`IndexIsOnScreen`) has exactly the rows on screen, but for numbers
used on two connections. There `_trim` removes, with the older row, the entry of the
newer one, whose translation and corrections are then ignored, although the
comment in `_attach_translation` (`transcript.py:123`) knows only rows that are gone
and sessions that ended. `MinutesComplete`: when `stopped` closes the minutes they hold
all that was received. It excepts a window that was closed (`closeEvent` closes the
minutes before the queued signals of the goodbye are handled) and meetings
started hastily. Two rows and two sentences per connection are the least with
which a row is trimmed whose number another row on screen has.

`languages`. `CutNearChange`: a cut is never further behind the change of language
than what is left of the gap and a probe, and never further before it than the
search for a quiet frame and a probe, unless a probe was left undecided; then it may
be anywhere. `LanguageIsCarried`: after the first decision a sentence is in a language
of the meeting, whatever exceptions there were before it, unless the identifier
raised on it or has been switched off. `RetryIsDifferent`: the history looked at
after an echo was in the first prompt too, so the second attempt differs. Seven
frames are the least with a gap that two halvings shorten, with a change on either
side of each probe and in it; three are too short to split; two exceptions in a
row are the least with a first that is forgiven; three sentences push one out
of a history of two while another is in translation.

Some of these properties are about what the code does wrong in a rare case, which
they except, and so hold the code to the case being as rare as that:
`GoodbyeIsHeard` and `SlotFollowsMeeting` except a client that stopped waiting for the
answer to its bye (`ws_client.py:51`), `LinesAreRight` a number used on two connections
(`transcript.py:133`), `MinutesComplete` a meeting started hastily or a closed window
(`window.py:153`), `NewVoiceIsNew` rows that a clustering renamed (`reclustering.py:141`),
`LanguageIsCarried` an identifier that raised on the sentence or is switched off
(`session.py:614`), `IsolationHolds` the splitter and the running text (`session.py:458`).
`ReconnectsUnlessLeaked` excepts a `run()` that raised (`ws_client.py:167`). They would
catch the fault spreading, not the fault.

Deadlock is checked in `worker`, where `stop` may always be called once more (as
`bye` and then `finish` do). The other systems may stop: the stream ends, every
connection has been used, the meeting is over.

### Runs that find a promise broken

| run | property | what the code does instead |
| --- | --- | --- |
| `meetings_race` | `OneMeeting` | the slot is checked at accept and claimed at hello: two meetings stream |
| `reconnect` | `Reconnects` | a connection that breaks while the server answers a chunk makes `stream` forget the claim; the slot stays taken and the client is refused for ever |
| `pipeline_stages` | `StagesAreContained` | `language_split` has no entry in `STAGE_ATTRIBUTES`; its failure throws sentences away |

Each of these properties quotes the sentence of the repository that states it;
the passing runs hold the weaker property that is true.


## 5. Fairness

* `TranslationWorker`: a thread that can go on does (the translator returns, since
  its HTTP call has a timeout), and calls of the session end. The 0.2 s timeout of the
  worker's wait is *not* assumed: the events alone must suffice. Nothing is
  assumed of new sentences, `collect` or the end of the meeting.
* `Meetings`: a handler goes on and awaited sends end, and a client is gone some
  day: pings of the websocket library find those that vanish silently.
* `Conversation`: the client goes on when it can (a message it got, the hello on an open
  socket, an opening that failed, the backoff, the grace period, a free socket), each handler goes on, and a handler whose client is
  gone learns of it, as above. Nothing is assumed of the user, the audio, a model
  that raises or the network; it breaks at most as often as its bound.
* `Uplink`: each task goes on when it can, and its timeouts pass (connection,
  drain, join, grace, backoff, read, get); the callback never blocks. Nothing is assumed of the server, the network,
  the user or the audio; in particular a server need not answer a hello, whose
  wait has no timeout (`ws_client.py:250`), and `MeetingEnds` excepts that.
* `Segmentation`, `Pipeline`, `Speakers`, `Languages` and `Transcript` have no liveness properties: each call runs to its
  end.


## 6. The proofs

The safety properties of every passing run, and the two refinements of `AnswerLedger`,
are theorems. They hold for every value of the constants that
satisfies the assumptions, which say little more than what a constant is:

| module | for every | assumed |
| --- | --- | --- |
| `TranslationWorker` | number of sentences, depth of the queue | the depth is not zero |
| `Meetings` | set of connections, set of ids | "no id" and "free" are not ids |
| `Conversation` | the same, audio frames on their way, breaks and attempts in vain | "no connection" is not one; there is a meeting, and they are numbered in their order; one frame fits |
| `Segmentation` | stream, chunk sizes, limits of the VAD, the buffer and the detector | a run of speech, of silence, an utterance and a window have a frame; the search for a cut is shorter than an utterance; the pre-roll has the frames of an onset but the one that opens |
| `Uplink` | size of either queue, chunks, connections | no queue is of size zero; there is a connection |
| `Pipeline` | set of loaded stages, failure limit, sentences, failures | the limit is not zero |
| `Languages` | probe, halvings, search window, history size, failure limit, lengths | a probe and an utterance have at least a frame; the limit is not zero |
| `Transcript` | rows, meetings, connections, sentences, signals posted | there is room for a row and for a signal |
| `Speakers` | speakers, voices kept, interval, sentences | none of the first three is zero |

| module | theorem | states |
| --- | --- | --- |
| `TranslationWorker` | `TypeCorrect` | `TypeOK`, and so the queue within its depth |
| | `AnsweredExactlyOnce` | `ExactlyOnce`, under every interleaving of the two threads |
| | `NoWakeIsLost` | `NoLostWake` |
| | `StopAccountsForAll` | `StopAccounts` |
| | `OldestIsEvicted`, `EndedNeedsDeadline`, `InOrder` | `EvictsOldest`, `EndedOnlyPastDeadline`, `OvertakesNobody` |
| | `WorkerKeepsPromise` | `KeepsPromise`: it implements `AnswerLedger` |
| `Meetings` | `TypeCorrect` | `TypeOK` |
| | `SlotNotLost` | `SlotHasHolder` |
| | `SlotGuardsTheModels` | `OneMeetingUnlessRaced` |
| | `OnlyTheRaceMakesTwo` | `OneMeeting` of `meetings_race` holds while nobody raced |
| | `ContextStartsFresh` | `HistoryIsOwnOrCut` |
| `Conversation` | `ConversationTypeCorrect` | `ConversationTypeOK` |
| | `GoodbyeHeard` | `GoodbyeIsHeard` |
| | `SlotFollows` | `SlotFollowsMeeting` |
| `Segmentation` | `TypeCorrect` | `TypeOK` |
| | `UtterancesSound` | `UtterancesAreSound` |
| | `BufferSound` | `BufferIsSound` |
| | `OnsetsForwarded` | `SpeechIsForwarded` |
| | `AnchorIsOpening` | `AnchorOpensUtterance` |
| | `RunningTextAhead` | `RunningTextIsAhead` |
| | `Invariant` | `SegmentationInv`, on which the six rest |
| `Uplink` | `TypeCorrect` | `TypeOK` |
| | `AudioIsAccountedFor` | `AudioArrives` |
| | `ByeComesLast` | `GoodbyeAfterAudio` |
| `Pipeline` | `TypeCorrect` | `TypeOK` |
| | `ClientsViewHolds` | `ClientsView` |
| | `StagesStayOff` | `IsolationHolds` |
| | `SessionKeepsPromise` | `KeepsPromise`: it implements `AnswerLedger` |
| `Languages` | `TypeCorrect` | `TypeOK` |
| | `CutFindsTheChange` | `CutNearChange` |
| | `LastLanguageIsUsed` | `LanguageIsCarried` |
| | `RetryHasAnotherPrompt` | `RetryIsDifferent` |
| `Transcript` | `TypeCorrect` | `TypeOK` |
| | `LinesStayRight` | `LinesAreRight` |
| | `MinutesHoldAll` | `MinutesComplete` |
| `Speakers` | `TypeCorrect` | `TypeOK` |
| | `ScreenIsRight` | `ScreenFollowsHistory` |
| | `GroupsKeepTheirNames` | `GroupsKeepNames` |
| | `NewVoicesAreNew` | `NewVoiceIsNew` |

The last assumption on `Segmentation` is what `config.py:31` and `35` give (96 ms and
256 ms, 3 and 8 frames); without it `SpeechIsForwarded` is false.

None of the properties is inductive by itself. Each proof module states an invariant
that is, in named parts; what these add to the property is what the code relies on
without saying so. Above them stand the lemmas about the module's operators, then a
lemma per part, or per action that disturbs a part, with one case per action.

### TranslationWorker

When `take` moves the head of the queue into the worker's hands, one must know that
it is in no other place and that nothing else is there that would be overwritten.
`IInv` adds to the types and `ExactlyOnce`:

* `NewestInOrder`: the queue is the last few sentences submitted, in order;
* `Hands`: a thread holds a sentence only at the program points that have one;
* `Decisions`: a sentence is without verdict exactly while it is not submitted,
  queued, or in translation;
* `Overrun`: after the polling loop of `stop`, what is queued is there because the
  deadline passed.

`InvStep` proves one lemma per action that moves a sentence and `QuietStep` for those
that move none. `OnePlace` turns the sum of `ExactlyOnce` into disjointness,
`IntervalElements` the order of the queue into a set. `OvertakesNobody` follows: what is
older than the job is neither queued nor the job, hence decided.

`WakeInv` is for `NoLostWake`. The worker looks at the queue and at `stopping` well before
it waits; from that look on, whoever adds a sentence or sets `stopping` has set the
event or is about to. `StopInv` is for `StopAccounts`: once `stop` has forgotten the
thread (`AfterJoin`) the only sentence the worker may still hold is the one cut, and
the last drain leaves nothing else behind (`LeftBehind`). `WorkerKeepsPromise` maps each
step, under `IInv`, to one step of `LedgerNext` or to a stutter.

### Meetings and Conversation

`Kept` of `ConversationProofs`, for `Meetings` alone: `HandlerInv` (at which awaits a handler may have an id, a claim
or the ownership of the slot), `SlotInv` (without a race the slot is the id of the one
connection that has one; who was accepted found it free, and found nobody else on
the way to it), `ModelsInv` (a busy worker belongs to a handler that has not finished
or was cut), `SlotHasHolder`.

`ConversationInv` is about what is on its way between two machines, so it is stated per
connection (`LinkInv`). `FramesOf`: a hello comes first and alone until it is answered,
and the server finds nobody gone before it has read what they sent. `GoneOf`: what a
client left behind when it hung up is in the name of a marred meeting. `ConnOf`: how
far the two sides of the client's own connection can be from each other, while it
opens, in the handshake, while streaming and after the bye (`OpeningInv`, `HandshakeInv`,
`StreamInv`, `ByeInv`).
`LeakInv`: a slot without a holder is in a marred meeting's name. A step of the server
moves one connection (`Only`) and leaves the others' parts alone, those of the client
have a lemma each.

### Segmentation

The announced events, the spans and the buffer are three accounts of one stream, and
`SegmentationInv` says how far each may be ahead of the others. Its parts:

* `EventsOK`: events are in the order of the stream, a start is last exactly while a
  segment is open;
* `RunsOK`: the pre-roll is the newest frames since the last segment, and the run
  counted is all the speech they end with. So with `PadCoversOnset` the frame that
  opens a segment finds the others of its onset in the pre-roll, and the segment
  starts after the last one ended;
* `OnsetsOK`: `SpeechIsForwarded`, of the frames so far;
* `BufferOK`: at a *position* (the events, up to where frames were handed on, whether a
  segment is open) the utterances are the spoken frames, in order, each of one
  segment (`FinalsOK`), and what is open is the last of the open segment (`OpenOK`);
* `AnchorOK`: an anchor is the opening of a committed utterance or of the open one;
  then it has never been moved on. So the detector's cut is never declined, and the
  offset `_anchor_from` that is kept for that case always starts at nothing;
* `ScreenOK`: the last sentence is of a committed utterance, the running text of a
  later one. A prediction is of the open utterance and the cut drops it (`PartialOK`),
  which is why.

Between the calls the two machines are at one position, `Place`. Within a call they are
not: the segmenter runs through all frames of the chunk before the buffer sees a span.
There `GatheredOK` says that the spans gathered so far are `Linked`, a chain of positions
from the one the call began at, each span of the segment it opens or right behind
the one before (`SpanOK`), and that what is not yet a span continues the chain
(`PendingOK`). `FramesGathered` takes it through the frames of a chunk and `SpansAbsorbed`
takes `BufferOK` along the chain through its spans; each is a recursion of a length
that depends on the state, so the claim is about all its rounds and proved by least
counterexample. `CutForLength` has more rounds than the loop, so its lemma bounds the
audio left after each one until it is below the limit. `Follows` is what carries the
anchor through a call: utterances committed stay, and the open one is committed
first. `InvTiles`, `InvHolds` and `InvMarks` lead from positions back to the three parts
of `UtterancesAreSound`.

### Uplink

The order over all connections comes from one chain: sent, in the sender's hand,
queued, in the pump, in the capture, in the callback; each place holds only chunks
older than those of the next (`OrderInv`). `AccountInv` adds those dropped and lost, to all
that was captured, each once. `LossInv` counts: a connection that may still lose a chunk
has not lost one. `ByeInv`: when a stop is asked for the pump is over or never ran, so a
queue found empty stays so. `StageInv` says where each task may be with what it holds.

### Pipeline

`CallInv` says where a call may be with what it has in hand and that what it can still
commit has a number; `MessageInv` that the messages sent come before those gathered, in
order, one per sentence unless something fell out of `_announce`; `AnswerInv` that an
answer is not handed over before the call that gathers its sentence is over, which
is why no translation overtakes its sentence; `IsolationInv` that a stage that is off
has cleared the attributes that lead to its model and is noticed once.

### Languages

`SearchInv` is the argument for the search: what the probe at the lower bound heard and
the probe at the upper bound heard bound the change, and after `tries` halvings what
lies between, times 2^`tries`, is less than the gap. `CarriedInv`: after a decision there is
a last language, and while the identifier is on, whoever it did not raise on got one. `HistoryInv`: a sentence the worker has was remembered before, so a
first prompt is without history only when there never is one. `SessionInv` places
the session. That `Power`, a recursive function, doubles is proved (`PowerIs`).

### Transcript

`SignalInv` and `SentInv`: the signals posted are as the thread posts them, and finals are
handled in the order of their sentences. `ScreenInv` (`RowsOK`): each row is the row of a
sentence handled, in order; what it shows is its own or of a missing sentence with
its number; the index has the last row with a number. `MinutesInv` says the same of the
minutes, which are never trimmed. `MeetingInv`, `ReceivedInv`, `CloseInv`: the thread and the
recorder work for the last meeting, and its `stopped` is the last of its signals, so
that nothing is pending when it closes the minutes.

### Speakers

`ShownInv`: what the client shows of a remembered voice once the messages on their way
have reached it is the label the history has. `SentencesInv` keeps labels within those
the registry has given, `HistoryInv` the order of the voices, `RoundInv` when messages
exist. The rest is about `name_clusters`: `RecursionExists` gives a function along a
bounded rank, and so `Kept` and `Named` their recursive equations (`KeptIs`, `NamedIs`); by
`NamedIsInjective` no name is given twice, by `NamedStaysPut` a group loses its name only
as `NamesStayPut` says.

### Induction, and what stays with TLC

Induction over numbers is done by least counterexample (`LeastExists`, from
`NatLessThanWellFounded`), since the library's induction theorems take an operator as
a parameter, which the provers cannot instantiate.

Only model-checked:

* liveness: `NobodyWaitsForGood`, `SlotIsFreed`, `ReconnectsUnlessLeaked`, `NothingHangs`. It rests
  on fairness, and so on ENABLED, which the provers do not treat;
* the three runs that find a promise broken: they are counterexamples.

`EvictsOldest` and `OvertakesNobody` are not run: the theorems cover every instance.


## 7. What is not modelled

* The neural models, signal processing, prompts, text rules: data without control.
  Where a model can raise, the failure is modelled in `Pipeline`, `Languages` and
  `Meetings`. A VAD model or a speaker-change embedder that raises in mid-chunk ends the
  handler: that is `AudioRaises` of `Meetings`; `Segmentation` has no such step, nothing being
  segmented after it.
* The language of a sentence in `Pipeline`: it is in `Languages`, with the stages that
  decide it. The two modules have the failures of these stages in common.
* In `Segmentation` the length cuts of one chunk fall equally deep into their search
  windows (`dip`). With the code's numbers a chunk of 200 ms completes one such cut at
  most: what it leaves of an utterance of 7 s is 500 ms and the chunk.
* A meeting without a recorder: `Transcript` always has one, while a file that cannot be
  opened leaves the window without (`window.py:165-168`); there are no minutes then.
* The 10 s timeout of `connect()`: it raises an `OSError`, as a refused connection does.
* Of the language model's answers: only whether one is a translation, an echo, or
  refused for another reason. The rules that tell (`clean`, `looks_like_echo`,
  `wrong_script`, `length_limit`) are text without control.
* Of the capture: the search for the device, the resampling and the cutting into
  chunks. A callback delivers some 20 ms and so completes one chunk of 200 ms at most.
* The noise filter, the overlap resolver, the ASR and the word lists keep nothing but
  statistics between two sentences: numeric policies over a model's scores. What
  comes of them, and that they raise, is in `Pipeline`; the language they are given
  in `Languages`.
* Building and parsing of messages. Which frames are refused, and when, is in
  `Meetings`.
* The registry is shared by the connections of one process; two meetings at once
  (`meetings_race`) would share its labels. `Speakers` has one.
* That audio queued before an outage is sent after it, although the docstring of
  `ws_client.py` (12-15) says it is discarded, takes one step to see: `send` looks at no
  connection. `Uplink` has it; no run asks.
* A translation that a meeting's late worker remembers in the next one's history
  (`translate.py:426`) is in `Meetings`, as the exception `cut` of `HistoryIsOwnOrCut`.
* The prompt's "previous turns" (`translate.py:4`, `371`): a sentence is remembered before
  it is queued, so the history in its own prompt holds the sentence itself, and for a
  worker that lags, sentences spoken later. `Languages` has it; no run asks.
* The comment in `_by_language` (`session.py:529`) that the change is at or before the
  boundary is not exact: a probe that straddles the change and sounds like the second
  language moves the upper bound up to a probe before it, an undecided one moves it
  anywhere; `CutNearChange` is what does hold. The two languages the splitter
  found are not used: each half is identified anew, and an undecided second half
  falls back to the language of the first.
* `make_final` (`protocol.py:222`) and `session.py:257` say that utterance indexes restart
  with each speech segment; `BufferManager` counts them through the meeting, except
  that the two halves of a language split have one. `Segmentation` has the count
  (`UtterancesAreSound`).
* `transcript.py:58` has the running text empty when nobody is mid-sentence. It may stay
  when an utterance ends without text; `RunningTextIsAhead` is what does hold.
* `run()` promises to reconnect until `stop` (`ws_client.py:10-12`, `158`), but a failed
  websocket handshake (`InvalidMessage` when the link is lost before the server's 101,
  `InvalidStatus` when a proxy answers with another status) is none of the exceptions
  it catches (`ws_client.py:167`). It ends with it, `MeetingSession` looks at its task only
  when the user stops, and until then audio is recorded for nobody. `Uplink`
  (`HandshakeFails`) and `Conversation` (`Unreachable`, `OpeningFails`) have it; the properties
  allow it, and `Reconnects` leaves it aside to show the forgotten claim (`NothingRaised`).
* Clocks. In `Conversation` the client's 2 s of grace (`ws_client.py:51`) may pass before
  the server's `stop`, of up to 4 s, is through, or after it.
* `reconnect=False`, `max_attempts`, `send_threadsafe`, `inline=True`: used by tests and
  tools only. `load_models` runs once, before the first connection, and leaves each
  stage loaded or not (`Loaded` of `Pipeline`); `/health` reads; configuration is constant.


## 8. Plan

Done, in the order of importance: the worker with its promise, the slot, the
segmentation with the detector and the running text, the pipeline of the session as
an implementation of `AnswerLedger`, the uplink with the queue of the capture, the
transcript, the speakers, the languages, and the conversation of client and server;
and the theorems on all of them.

Left to TLC for good are liveness and the broken promises of section 4. What could
still be modelled is in section 7; the race, the forgotten claim and the missing entry the runs
find are the first things to change in the code, and `OneMeeting`, `Reconnects` and
`StagesAreContained` say when that is done; so is the exception `run()` does not catch, and
`ReconnectsUnlessLeaked` then holds without the exception for it.
