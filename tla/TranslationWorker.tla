-------------------------- MODULE TranslationWorker --------------------------
(***************************************************************************)
(* The translation queue and its worker thread                             *)
(* (server/pipeline/translation_queue.py).                                 *)
(*                                                                         *)
(* Two threads share a TranslationWorker.  The session's thread commits    *)
(* sentences (submit), picks up what is finished (collect) and, at the end *)
(* of the meeting, calls stop.  The worker thread takes the oldest         *)
(* sentence, translates it without holding the lock and puts the answer on *)
(* an unbounded queue.  One action is what a thread does between two       *)
(* points where the other one can be seen to run: a section under _lock,   *)
(* one put or collect on the done queue, one set, wait or clear of an      *)
(* event.                                                                  *)
(*                                                                         *)
(* A sentence is its number: ServerSession numbers them 1, 2, ... and      *)
(* submits each once.  Done objects are counted per sentence, in the place *)
(* that holds them, so that a duplicate would show; what a Done says is    *)
(* kept in verdict.  Time is abstract: expired is the last sentence whose  *)
(* age is past max_lag_seconds (ages follow the order of submission), and  *)
(* the two deadlines of stop() are steps of their own.                     *)
(*                                                                         *)
(* A definition no action uses, directly above another one (FullOffByOne   *)
(* above Full, KeptAll above Kept, ...), is a broken form of it, which one *)
(* of the properties at the end is there to catch.                         *)
(***************************************************************************)
EXTENDS Integers, Sequences, FiniteSets

CONSTANTS
  MaxSentences,   \* bound: how many sentences the meeting commits
  Depth           \* TRANSLATION_QUEUE_DEPTH

ASSUME MaxSentencesAssumption == MaxSentences \in Nat
ASSUME DepthAssumption == Depth \in Nat \ {0}

Sentence == 1 .. MaxSentences
None     == 0

(* Why a sentence is answered the way it is: the reasons Done carries, and *)
(* "no" while it has no Done.                                              *)
Verdict == {"no", "translated", "failed", "full", "late", "ended"}

SessionState == {"created", "running", "refusing", "waking", "polling",
                 "flagging", "flagged", "joining", "joined", "drained",
                 "stopped"}
WorkerState  == {"off", "check", "take", "givingUp", "translating",
                 "putting", "waiting", "clearing", "ended"}

VARIABLES
  session,     \* where the session's thread is
  worker,      \* where the worker thread is
  thread,      \* does _thread still refer to the worker thread?
  waiting,     \* TranslationQueue._waiting, oldest first
  expired,     \* sentences up to this one are older than max_lag_seconds
  refused,     \* the sentence submit evicted and has yet to put, or None
  givingUp,    \* the sentences take() gave up on and has yet to put
  job,         \* the sentence the worker is translating, or None
  done,        \* _done: Done objects per sentence
  leftover,    \* what drain() returned inside stop(), per sentence
  returned,    \* Done objects the session was handed, per sentence
  verdict,     \* what the Done of each sentence says
  wake,        \* the _wake event
  stopping,    \* the _stopping event
  overran,     \* did stop() reach its deadline with sentences queued?
  cut,         \* the sentence in translation when join() timed out, or None
  submitted,   \* QueueStats: sentences submitted,
  translated,  \*   translated,
  droppedLate, \*   dropped because their answer would have come too late,
  droppedFull  \*   and dropped because the queue was full

sessionVars == <<session, refused, leftover, returned, overran, cut>>
workerVars  == <<worker, givingUp, job>>
events      == <<wake, stopping>>
stats       == <<submitted, translated, droppedLate, droppedFull>>
vars == <<session, worker, thread, waiting, expired, refused, givingUp, job,
          done, leftover, returned, verdict, wake, stopping, overran, cut,
          submitted, translated, droppedLate, droppedFull>>

Nothing == [s \in Sentence |-> 0]

(* One Done for each of the sentences of S more than in the counts c. *)
Plus(c, S) == [s \in Sentence |-> IF s \in S THEN c[s] + 1 ELSE c[s]]

(* The counts of two places together. *)
Together(c, d) == [s \in Sentence |-> c[s] + d[s]]

Elements(q) == {q[i] : i \in 1 .. Len(q)}

(* Every sentence of S is answered with v. *)
Settle(S, v) == [s \in Sentence |-> IF s \in S THEN v ELSE verdict[s]]

Init ==
  /\ session = "created"
  /\ worker = "off"
  /\ thread = FALSE
  /\ waiting = <<>>
  /\ expired = 0
  /\ refused = None
  /\ givingUp = <<>>
  /\ job = None
  /\ done = Nothing
  /\ leftover = Nothing
  /\ returned = Nothing
  /\ verdict = [s \in Sentence |-> "no"]
  /\ wake = FALSE
  /\ stopping = FALSE
  /\ overran = FALSE
  /\ cut = None
  /\ submitted = 0
  /\ translated = 0
  /\ droppedLate = 0
  /\ droppedFull = 0

-----------------------------------------------------------------------------
(* The session's thread.                                                   *)

(* start(): the hello is accepted and the worker thread begins. *)
Start ==
  /\ session = "created"
  /\ session' = "running"
  /\ worker' = "check"
  /\ thread' = TRUE
  /\ UNCHANGED <<waiting, expired, refused, givingUp, job, done, leftover,
                 returned, verdict, events, overran, cut, stats>>

(* submit() under the lock: the sentence joins the queue, and a full queue *)
(* gives up its oldest, whose Done submit() then holds.                    *)
FullOffByOne == Len(waiting) > Depth
Full         == Len(waiting) >= Depth

Evicted == Head(waiting)

KeptAll == waiting
Kept    == IF Full THEN Tail(waiting) ELSE waiting

Submit ==
  /\ session = "running"
  /\ submitted + 1 \in Sentence
  /\ submitted' = submitted + 1
  /\ waiting' = Append(Kept, submitted + 1)
  /\ IF Full
       THEN /\ refused' = Evicted
            /\ verdict' = Settle({Evicted}, "full")
            /\ droppedFull' = droppedFull + 1
            /\ session' = "refusing"
       ELSE /\ session' = "waking"
            /\ UNCHANGED <<refused, verdict, droppedFull>>
  /\ UNCHANGED <<workerVars, thread, expired, done, leftover, returned,
                 events, overran, cut, translated, droppedLate>>

(* submit() outside the lock: the Done of the evicted sentence is put. *)
PutRefused ==
  /\ session = "refusing"
  /\ done' = Plus(done, {refused})
  /\ refused' = None
  /\ session' = "waking"
  /\ UNCHANGED <<workerVars, thread, waiting, expired, leftover, returned,
                 verdict, events, overran, cut, stats>>

(* submit() last of all wakes the worker. *)
WakeForgotten ==
  /\ session = "waking"
  /\ session' = "running"
  /\ UNCHANGED <<workerVars, thread, waiting, expired, refused, done,
                 leftover, returned, verdict, events, overran, cut, stats>>

WakeWorker ==
  /\ session = "waking"
  /\ wake' = TRUE
  /\ session' = "running"
  /\ UNCHANGED <<workerVars, thread, waiting, expired, refused, done,
                 leftover, returned, verdict, stopping, overran, cut, stats>>

(* collect(), between two audio chunks. *)
Collect ==
  /\ session = "running"
  /\ done # Nothing
  /\ returned' = Together(returned, done)
  /\ done' = Nothing
  /\ UNCHANGED <<session, workerVars, thread, waiting, expired, refused,
                 leftover, verdict, events, overran, cut, stats>>

(* stop() is called: at the bye or when the connection ends, also for a    *)
(* session that never started, and once more by finish() after a bye.      *)
StopBegins ==
  /\ session \in {"created", "running", "stopped"}
  /\ session' = "polling"
  /\ UNCHANGED <<workerVars, thread, waiting, expired, refused, done,
                 leftover, returned, verdict, events, overran, cut, stats>>

(* One turn of the polling loop of stop(): leave it when the queue is      *)
(* empty, otherwise wake the worker and sleep.                             *)
Emptied == waiting = <<>>

Poll ==
  /\ session = "polling"
  /\ \/ /\ Emptied
        /\ session' = "flagging"
        /\ UNCHANGED wake
     \/ /\ waiting # <<>>
        /\ wake' = TRUE
        /\ UNCHANGED session
  /\ UNCHANGED <<workerVars, thread, waiting, expired, refused, done,
                 leftover, returned, verdict, stopping, overran, cut, stats>>

(* The deadline of the polling loop passes with sentences still queued. *)
PollDeadline ==
  /\ session = "polling"
  /\ waiting # <<>>
  /\ session' = "flagging"
  /\ overran' = TRUE
  /\ UNCHANGED <<workerVars, thread, waiting, expired, refused, done,
                 leftover, returned, verdict, events, cut, stats>>

(* _stopping.set() *)
FlagStop ==
  /\ session = "flagging"
  /\ stopping' = TRUE
  /\ session' = "flagged"
  /\ UNCHANGED <<workerVars, thread, waiting, expired, refused, done,
                 leftover, returned, verdict, wake, overran, cut, stats>>

(* _wake.set(), then join() if there is a thread to join. *)
WakeForStop ==
  /\ session = "flagged"
  /\ wake' = TRUE
  /\ session' = IF thread THEN "joining" ELSE "joined"
  /\ UNCHANGED <<workerVars, thread, waiting, expired, refused, done,
                 leftover, returned, verdict, stopping, overran, cut, stats>>

(* join() returns: the worker thread has ended, or the timeout of the join *)
(* has passed while it waited for the translator, the one call that takes  *)
(* that long (TRANSLATE_TIMEOUT_S is ten times the timeout).  The thread   *)
(* is forgotten either way.                                                *)
Join ==
  /\ session = "joining"
  /\ worker \in {"ended", "translating"}
  /\ cut' = job
  /\ thread' = FALSE
  /\ session' = "joined"
  /\ UNCHANGED <<workerVars, waiting, expired, refused, done, leftover,
                 returned, verdict, events, overran, stats>>

(* drain(): what is still queued is given up on. *)
Drain ==
  LET left == Elements(waiting)
  IN /\ session = "joined"
     /\ leftover' = Plus(Nothing, left)
     /\ verdict' = Settle(left, "ended")
     /\ droppedLate' = droppedLate + Len(waiting)
     /\ waiting' = <<>>
     /\ session' = "drained"
     /\ UNCHANGED <<workerVars, thread, expired, refused, done, returned,
                    events, overran, cut, submitted, translated, droppedFull>>

(* stop() returns collect() + leftover. *)
CollectedOnly == done
LastAnswers   == Together(done, leftover)

StopReturns ==
  /\ session = "drained"
  /\ returned' = Together(returned, LastAnswers)
  /\ done' = Nothing
  /\ leftover' = Nothing
  /\ session' = "stopped"
  /\ UNCHANGED <<workerVars, thread, waiting, expired, refused, verdict,
                 events, overran, cut, stats>>

-----------------------------------------------------------------------------
(* The worker thread.                                                      *)

(* while not self._stopping.is_set() *)
CheckStopping ==
  /\ worker = "check"
  /\ worker' = IF stopping THEN "ended" ELSE "take"
  /\ UNCHANGED <<thread, waiting, expired, givingUp, job, done, verdict,
                 events, stats, sessionVars>>

(* take() under the lock: the expired sentences at the front, k of them,   *)
(* are given up on and the first that is not becomes the job.              *)
GivenUp(k) == SubSeq(waiting, 1, k)

JobLeftIn(k) == SubSeq(waiting, k + 1, Len(waiting))
Behind(k)    == SubSeq(waiting, k + 2, Len(waiting))

Take ==
  /\ worker = "take"
  /\ \E k \in 0 .. Len(waiting) :
       /\ \A i \in 1 .. k : waiting[i] <= expired
       /\ k < Len(waiting) => waiting[k + 1] > expired
       /\ givingUp' = GivenUp(k)
       /\ verdict' = Settle(Elements(givingUp'), "late")
       /\ droppedLate' = droppedLate + k
       /\ job' = IF k < Len(waiting) THEN waiting[k + 1] ELSE None
       /\ waiting' = Behind(k)
  /\ worker' = "givingUp"
  /\ UNCHANGED <<thread, expired, done, events, submitted, translated,
                 droppedFull, sessionVars>>

(* The Done of one sentence given up on is put. *)
PutGivenUp ==
  /\ worker = "givingUp"
  /\ givingUp # <<>>
  /\ done' = Plus(done, {Head(givingUp)})
  /\ givingUp' = Tail(givingUp)
  /\ UNCHANGED <<worker, thread, waiting, expired, job, verdict, events,
                 stats, sessionVars>>

(* With all of them put, the job is translated; without one, _work_once    *)
(* returns False and the loop waits.                                       *)
ClearsBeforeWait ==
  /\ worker = "givingUp"
  /\ givingUp = <<>>
  /\ worker' = IF job = None THEN "waiting" ELSE "translating"
  /\ wake' = IF job = None THEN FALSE ELSE wake
  /\ UNCHANGED <<thread, waiting, expired, givingUp, job, done, verdict,
                 stopping, stats, sessionVars>>

AfterGivingUp ==
  /\ worker = "givingUp"
  /\ givingUp = <<>>
  /\ worker' = IF job = None THEN "waiting" ELSE "translating"
  /\ UNCHANGED <<thread, waiting, expired, givingUp, job, done, verdict,
                 events, stats, sessionVars>>

(* The translator answers, refuses to answer or raises; finished() records *)
(* it under the lock.                                                      *)
Counts(v) == IF v = "translated" THEN 1 ELSE 0

Translated ==
  /\ worker = "translating"
  /\ \E v \in {"translated", "failed"} :
       /\ verdict' = Settle({job}, v)
       /\ translated' = translated + Counts(v)
  /\ worker' = "putting"
  /\ UNCHANGED <<thread, waiting, expired, givingUp, job, done, events,
                 submitted, droppedLate, droppedFull, sessionVars>>

PutDone ==
  /\ worker = "putting"
  /\ done' = Plus(done, {job})
  /\ job' = None
  /\ worker' = "check"
  /\ UNCHANGED <<thread, waiting, expired, givingUp, verdict, events, stats,
                 sessionVars>>

(* _wake.wait(timeout=0.2) returns: the event is set ... *)
Woken ==
  /\ worker = "waiting"
  /\ wake
  /\ worker' = "clearing"
  /\ UNCHANGED <<thread, waiting, expired, givingUp, job, done, verdict,
                 events, stats, sessionVars>>

(* ... or the timeout has passed. *)
WaitTimesOut ==
  /\ worker = "waiting"
  /\ ~wake
  /\ worker' = "clearing"
  /\ UNCHANGED <<thread, waiting, expired, givingUp, job, done, verdict,
                 events, stats, sessionVars>>

(* _wake.clear() *)
ClearWake ==
  /\ worker = "clearing"
  /\ wake' = FALSE
  /\ worker' = "check"
  /\ UNCHANGED <<thread, waiting, expired, givingUp, job, done, verdict,
                 stopping, stats, sessionVars>>

-----------------------------------------------------------------------------
(* The clock: one more sentence is older than max_lag_seconds. *)
Age ==
  /\ expired < submitted
  /\ expired' = expired + 1
  /\ UNCHANGED <<session, workerVars, thread, waiting, refused, done,
                 leftover, returned, verdict, events, overran, cut, stats>>

SessionCall ==   \* what a call of the session, once begun, goes on with
  \/ PutRefused \/ WakeWorker \/ Poll \/ PollDeadline \/ FlagStop
  \/ WakeForStop \/ Join \/ Drain \/ StopReturns

WorkerStep ==    \* the worker thread, the timeout of its wait left aside
  \/ CheckStopping \/ Take \/ PutGivenUp \/ AfterGivingUp \/ Translated
  \/ PutDone \/ Woken \/ ClearWake

Next ==
  \/ Start \/ Submit \/ PutRefused \/ WakeWorker \/ Collect
  \/ StopBegins \/ Poll \/ PollDeadline \/ FlagStop \/ WakeForStop \/ Join
  \/ Drain \/ StopReturns
  \/ CheckStopping \/ Take \/ PutGivenUp \/ AfterGivingUp \/ Translated
  \/ PutDone \/ Woken \/ WaitTimesOut \/ ClearWake
  \/ Age

Spec == Init /\ [][Next]_vars

(* A thread that can go on does.  The translator returns because its HTTP  *)
(* call has a timeout and a local model ends; the polling loop ends        *)
(* because its deadline passes.  Nothing is assumed of the 0.2 s timeout   *)
(* of the wait, of new sentences, of collect() or of the meeting's end.    *)
Fairness ==
  /\ WF_vars(WorkerStep)
  /\ WF_vars(SessionCall /\ session' # session)

FairSpec == Spec /\ Fairness

-----------------------------------------------------------------------------
(* Properties.                                                             *)

(* Every variable has its type, and the queue keeps to its depth           *)
(* (TranslationQueue.submit).                                              *)
TypeOK ==
  /\ session \in SessionState
  /\ worker \in WorkerState
  /\ thread \in BOOLEAN
  /\ waiting \in Seq(Sentence) /\ Len(waiting) <= Depth
  /\ expired \in 0 .. MaxSentences
  /\ refused \in Sentence \cup {None}
  /\ givingUp \in Seq(Sentence)
  /\ job \in Sentence \cup {None}
  /\ done \in [Sentence -> Nat]
  /\ leftover \in [Sentence -> Nat]
  /\ returned \in [Sentence -> Nat]
  /\ verdict \in [Sentence -> Verdict]
  /\ wake \in BOOLEAN
  /\ stopping \in BOOLEAN
  /\ overran \in BOOLEAN
  /\ cut \in Sentence \cup {None}
  /\ submitted \in 0 .. MaxSentences
  /\ translated \in Nat /\ droppedLate \in Nat /\ droppedFull \in Nat

(* How many times sentence s is somewhere: queued, held by one of the two  *)
(* threads, in the done queue, or already handed to the session.           *)
In(s, S) == IF s \in S THEN 1 ELSE 0

Copies(s) ==
  In(s, Elements(waiting)) + In(s, Elements(givingUp))
    + In(s, {refused}) + In(s, {job})
    + done[s] + leftover[s] + returned[s]

(* No sentence is lost and none is answered twice, whichever way submit,   *)
(* take, drain, collect and the worker interleave: each submitted sentence *)
(* is in exactly one place, and the others are nowhere.                    *)
ExactlyOnce ==
  \A s \in Sentence : Copies(s) = In(s, 1 .. submitted)

(* No wake-up is lost between _wake.wait() and _wake.clear(): a worker     *)
(* asleep with a sentence queued, or told to stop, has its event set or a  *)
(* caller about to set it, so the 0.2 s timeout is never what saves it.    *)
NoLostWake ==
  worker = "waiting" =>
    /\ waiting # <<>> => wake \/ session \in {"refusing", "waking"}
    /\ stopping => wake \/ session = "flagged"

(* A full queue drops its oldest: what it gave up on for want of room was  *)
(* followed by at least Depth newer sentences (submit's comment).          *)
EvictsOldest ==
  \A s \in Sentence : verdict[s] = "full" => s + Depth <= submitted

(* The worker overtakes nobody: when it translates a sentence, every       *)
(* earlier one already has its answer.                                     *)
OvertakesNobody ==
  job # None => \A s \in 1 .. job - 1 : verdict[s] # "no"

(* "the meeting ended before this was translated" is never said of a       *)
(* sentence stop() still had time for: the regression stop()'s docstring   *)
(* tells of, where the flag was set before the queue had emptied.          *)
EndedOnlyPastDeadline ==
  (\E s \in Sentence : verdict[s] = "ended") => overran

(* What stop() accounts for: not quite "every sentence" (its docstring),   *)
(* but every one except the one the translator was busy with when the join *)
(* timed out, whatever was queued, given up on, evicted or half put when   *)
(* it was called.                                                          *)
AllButCutAnswered ==
  session = "stopped" =>
    \A s \in 1 .. submitted : returned[s] = 1 \/ s = cut

(* Who goes without a translation at the end of a meeting: what was left   *)
(* past the deadline, told so, and the one the join gave up on.            *)
StopAccounts == EndedOnlyPastDeadline /\ AllButCutAnswered

(* The worker and its session keep the promise of AnswerLedger. *)
Promise == INSTANCE AnswerLedger
             WITH committed <- submitted, answer <- verdict,
                  heard <- returned

(* Each step of the threads is a step of the ledger: an answer, once       *)
(* given, is never replaced, and it is heard once and only after it was    *)
(* given.                                                                  *)
KeepsPromise == Promise!Ledger

(* A sentence submitted gets its answer on the way to the session, without *)
(* help from the timeout of the wait or from the end of the meeting.       *)
AnswerComes ==
  \A s \in Sentence :
    s <= submitted ~> done[s] + leftover[s] + returned[s] = 1

(* stop() returns. *)
StopReturnsAtLast == session = "polling" ~> session = "stopped"

(* Neither the worker nor its session waits for good. *)
NobodyWaitsForGood == AnswerComes /\ StopReturnsAtLast
=============================================================================
