---------------------- MODULE TranslationWorkerProofs ----------------------
(* Theorems about TranslationWorker, for every MaxSentences and Depth. *)
EXTENDS TranslationWorker, SequenceTheorems, TLAPS

(* Shapes of the operators the state is built from. *)
LEMMA CountsType ==
  ASSUME NEW c \in [Sentence -> Nat], NEW d \in [Sentence -> Nat], NEW S
  PROVE  /\ Plus(c, S) \in [Sentence -> Nat]
         /\ Together(c, d) \in [Sentence -> Nat]
         /\ Nothing \in [Sentence -> Nat]
BY DEF Plus, Together, Nothing

(* _answer gives verdicts. *)
LEMMA SettleType ==
  ASSUME verdict \in [Sentence -> Verdict], NEW S, NEW v \in Verdict
  PROVE  Settle(S, v) \in [Sentence -> Verdict]
BY DEF Settle

(* A slice of the queue. *)
LEMMA SubSeqType ==
  ASSUME NEW q \in Seq(Sentence), NEW m \in 1 .. Len(q) + 2,
         NEW n \in 0 .. Len(q)
  PROVE  /\ SubSeq(q, m, n) \in Seq(Sentence)
         /\ Len(SubSeq(q, m, n)) = IF m <= n THEN n - m + 1 ELSE 0
         /\ \A i \in 1 .. n - m + 1 : SubSeq(q, m, n)[i] = q[m + i - 1]
<1>1. \A i \in m .. n : q[i] \in Sentence
  OBVIOUS
<1> QED
  BY <1>1, SubSeqProperties

(* Every step of the two threads keeps the types. *)
LEMMA TypeStep == ASSUME TypeOK, [Next]_vars PROVE TypeOK'
<1> USE MaxSentencesAssumption, DepthAssumption
<1> USE DEF TypeOK, SessionState, WorkerState, workerVars, sessionVars, events, stats
<1>1. CASE Start
  BY <1>1 DEF Start
<1>2. CASE Submit
  <2>1. submitted + 1 \in Sentence
    BY <1>2 DEF Submit
  <2>2. Kept \in Seq(Sentence) /\ Len(Kept) < Depth
    BY HeadTailProperties DEF Kept, Full
  <2>3. waiting' \in Seq(Sentence) /\ Len(waiting') <= Depth
    BY <1>2, <2>1, <2>2, AppendProperties DEF Submit
  <2>4. Full => Evicted \in Sentence
    BY DEF Full, Evicted
  <2>5. "full" \in Verdict
    BY DEF Verdict
  <2>6. Settle({Evicted}, "full") \in [Sentence -> Verdict]
    BY <2>5, SettleType
  <2>7. verdict' \in [Sentence -> Verdict]
    BY <1>2, <2>6 DEF Submit
  <2>8. refused' \in Sentence \cup {None} /\ session' \in SessionState
    BY <1>2, <2>4 DEF Submit
  <2>9. submitted' \in 0 .. MaxSentences /\ droppedFull' \in Nat
    <3>1. submitted' = submitted + 1
      BY <1>2 DEF Submit
    <3>2. submitted' \in 0 .. MaxSentences
      BY <2>1, <3>1 DEF Sentence
    <3>3. droppedFull' = droppedFull \/ droppedFull' = droppedFull + 1
      BY <1>2 DEF Submit
    <3> QED
      BY <3>2, <3>3
  <2>10. UNCHANGED <<workerVars, thread, expired, done, leftover, returned,
                     events, overran, cut, translated, droppedLate>>
    BY <1>2 DEF Submit
  <2> QED
    BY ZenonT(60), <2>3, <2>7, <2>8, <2>9, <2>10
<1>3. CASE PutRefused
  BY ZenonT(60), <1>3, CountsType DEF PutRefused
<1>4. CASE WakeWorker
  BY <1>4 DEF WakeWorker
<1>5. CASE Collect
  BY ZenonT(60), <1>5, CountsType DEF Collect
<1>6. CASE StopBegins
  BY ZenonT(60), <1>6 DEF StopBegins
<1>7. CASE Poll
  BY ZenonT(60), <1>7 DEF Poll, Emptied
<1>8. CASE PollDeadline
  BY ZenonT(60), <1>8 DEF PollDeadline
<1>9. CASE FlagStop
  BY ZenonT(60), <1>9 DEF FlagStop
<1>10. CASE WakeForStop
  BY ZenonT(60), <1>10 DEF WakeForStop
<1>11. CASE Join
  BY ZenonT(60), <1>11 DEF Join
<1>12. CASE Drain
  <2> DEFINE left == Elements(waiting)
  <2>1. leftover' \in [Sentence -> Nat]
    BY <1>12, CountsType DEF Drain
  <2>2. verdict' \in [Sentence -> Verdict]
    <3>1. "ended" \in Verdict
      BY DEF Verdict
    <3>2. Settle(left, "ended") \in [Sentence -> Verdict]
      BY <3>1, SettleType
    <3> QED
      BY <1>12, <3>2 DEF Drain
  <2>3. waiting' = <<>> /\ droppedLate' \in Nat
    BY <1>12 DEF Drain
  <2>4. waiting' \in Seq(Sentence) /\ Len(waiting') <= Depth
    BY <2>3
  <2> QED
    BY ZenonT(60), <1>12, <2>1, <2>2, <2>3, <2>4 DEF Drain
<1>13. CASE StopReturns
  BY ZenonT(60), <1>13, CountsType DEF StopReturns, LastAnswers
<1>14. CASE CheckStopping
  BY ZenonT(60), <1>14 DEF CheckStopping
<1>15. CASE Take
  <2>1. PICK k \in 0 .. Len(waiting) :
          /\ givingUp' = GivenUp(k)
          /\ verdict' = Settle(Elements(givingUp'), "late")
          /\ droppedLate' = droppedLate + k
          /\ job' = IF k < Len(waiting) THEN waiting[k + 1] ELSE None
          /\ waiting' = Behind(k)
    BY <1>15 DEF Take
  <2>2. givingUp' \in Seq(Sentence)
    BY <2>1, SubSeqType DEF GivenUp
  <2>3. waiting' \in Seq(Sentence) /\ Len(waiting') <= Len(waiting)
    <3>1. k + 2 \in 1 .. Len(waiting) + 2 /\ Len(waiting) \in 0 .. Len(waiting)
      OBVIOUS
    <3>2. Behind(k) \in Seq(Sentence)
      BY <3>1, SubSeqType DEF Behind
    <3>3. Len(Behind(k)) <= Len(waiting)
      BY <3>1, SubSeqType DEF Behind
    <3> QED
      BY <2>1, <3>2, <3>3
  <2>4. verdict' \in [Sentence -> Verdict]
    <3>1. "late" \in Verdict
      BY DEF Verdict
    <3>2. \A S : Settle(S, "late") \in [Sentence -> Verdict]
      BY <3>1, SettleType
    <3> QED
      BY <2>1, <3>2
  <2>5. job' \in Sentence \cup {None}
    BY <2>1
  <2>6. droppedLate' \in Nat
    BY <2>1
  <2>7. Len(waiting') <= Depth
    BY <2>3
  <2> QED
    BY ZenonT(60), <1>15, <2>2, <2>3, <2>4, <2>5, <2>6, <2>7 DEF Take
<1>16. CASE PutGivenUp
  <2>1. givingUp' \in Seq(Sentence)
    BY <1>16, HeadTailProperties DEF PutGivenUp
  <2>2. done' \in [Sentence -> Nat]
    BY <1>16, CountsType DEF PutGivenUp
  <2> QED
    BY ZenonT(60), <1>16, <2>1, <2>2 DEF PutGivenUp
<1>17. CASE AfterGivingUp
  BY ZenonT(60), <1>17 DEF AfterGivingUp
<1>18. CASE Translated
  BY SMTT(40), <1>18, SettleType DEF Translated, Counts, Verdict
<1>19. CASE PutDone
  BY ZenonT(60), <1>19, CountsType DEF PutDone
<1>20. CASE Woken
  BY ZenonT(60), <1>20 DEF Woken
<1>21. CASE WaitTimesOut
  BY ZenonT(60), <1>21 DEF WaitTimesOut
<1>22. CASE ClearWake
  BY ZenonT(60), <1>22 DEF ClearWake
<1>23. CASE Age
  BY SMTT(40), <1>23 DEF Age
<1>24. CASE UNCHANGED vars
  BY SMTT(40), <1>24 DEF vars
<1> QED
  BY <1>1, <1>2, <1>3, <1>4, <1>5, <1>6, <1>7, <1>8, <1>9, <1>10, <1>11,
     <1>12, <1>13, <1>14, <1>15, <1>16, <1>17, <1>18, <1>19, <1>20, <1>21,
     <1>22, <1>23, <1>24 DEF Next

(* The types at the start. *)
LEMMA TypeInit == Init => TypeOK
<1> USE MaxSentencesAssumption, DepthAssumption
<1> SUFFICES ASSUME Init PROVE TypeOK
  OBVIOUS
<1>1. waiting \in Seq(Sentence) /\ Len(waiting) <= Depth
  BY DEF Init
<1>2. givingUp \in Seq(Sentence)
  BY DEF Init
<1>3. verdict \in [Sentence -> Verdict]
  BY DEF Init, Verdict
<1>4. Nothing \in [Sentence -> Nat]
  BY DEF Nothing
<1>5. done \in [Sentence -> Nat] /\ leftover \in [Sentence -> Nat]
      /\ returned \in [Sentence -> Nat]
  BY <1>4 DEF Init
<1>6. 0 \in 0 .. MaxSentences
  OBVIOUS
<1>7. expired \in 0 .. MaxSentences /\ submitted \in 0 .. MaxSentences
  BY <1>6 DEF Init
<1> QED
  BY <1>1, <1>2, <1>3, <1>5, <1>7
  DEF Init, TypeOK, SessionState, WorkerState, None

(* Type correctness: the variables keep their types and the queue its      *)
(* depth, however the two threads interleave.                              *)
THEOREM TypeCorrect == Spec => []TypeOK
<1>1. TypeOK /\ [Next]_vars => TypeOK'
  BY TypeStep
<1> QED
  BY TypeInit, <1>1, PTL DEF Spec

-----------------------------------------------------------------------------
(* The inductive invariant.  ExactlyOnce alone is not inductive: what take *)
(* and submit pop has to be known to be in no other place, which follows   *)
(* from the queue being the newest sentences in order, and from when each  *)
(* thread has something in its hands.                                      *)

(* The queue holds the newest sentences, in the order of submission. *)
NewestInOrder ==
  /\ Len(waiting) <= submitted
  /\ \A i \in 1 .. Len(waiting) : waiting[i] = submitted - Len(waiting) + i

(* A thread holds a sentence only where its code has one in hand. *)
Hands ==
  /\ session = "created" => worker = "off"
  /\ refused # None <=> session = "refusing"
  /\ job # None => worker \in {"givingUp", "translating", "putting"}
  /\ worker \in {"translating", "putting"} => job # None
  /\ givingUp # <<>> => worker = "givingUp"
  /\ leftover # Nothing => session = "drained"
  /\ \A i, j \in 1 .. Len(givingUp) : givingUp[i] = givingUp[j] => i = j

(* A sentence has no verdict exactly while it is yet to be submitted, is   *)
(* queued, or is in the hands of the translator.                           *)
Undecided(s) ==
  \/ s > submitted
  \/ s \in Elements(waiting)
  \/ s = job /\ worker # "putting"

Decisions == \A s \in Sentence : verdict[s] = "no" <=> Undecided(s)

(* Once stop() has left its polling loop, what is queued is queued because *)
(* the deadline passed.                                                    *)
Overrun ==
  session \in {"flagging", "flagged", "joining", "joined"} =>
    waiting = <<>> \/ overran

IInv ==
  /\ TypeOK
  /\ NewestInOrder
  /\ Hands
  /\ ExactlyOnce
  /\ Decisions
  /\ Overrun
  /\ EvictsOldest
  /\ EndedOnlyPastDeadline

QueueVars == <<waiting, givingUp, refused, job, done, leftover, returned,
               submitted>>

(* A sequence of the n-th number and those before it, in order, has an     *)
(* interval for its elements.                                              *)
LEMMA IntervalElements ==
  ASSUME NEW q \in Seq(Sentence), NEW n \in Nat, Len(q) <= n,
         \A i \in 1 .. Len(q) : q[i] = n - Len(q) + i
  PROVE  Elements(q) = n - Len(q) + 1 .. n
<1>0. Len(q) \in Nat
  OBVIOUS
<1>1. ASSUME NEW x \in Elements(q)
      PROVE  x \in n - Len(q) + 1 .. n
  <2>1. PICK i \in 1 .. Len(q) : x = q[i]
    BY <1>1 DEF Elements
  <2>2. x = n - Len(q) + i
    BY <2>1
  <2> QED
    BY <1>0, <2>2
<1>2. ASSUME NEW x \in n - Len(q) + 1 .. n
      PROVE  x \in Elements(q)
  <2> DEFINE i == x - (n - Len(q))
  <2>1. i \in 1 .. Len(q)
    BY <1>0, <1>2
  <2>2. q[i] = x
    BY <1>0, <1>2, <2>1
  <2> QED
    BY <2>1, <2>2 DEF Elements
<1> QED
  BY <1>1, <1>2

(* Steps that leave every sentence where it is. *)
LEMMA QuietStep ==
  ASSUME IInv, UNCHANGED QueueVars, verdict' = verdict,
         worker' = "putting" <=> worker = "putting"
  PROVE  NewestInOrder' /\ ExactlyOnce' /\ Decisions' /\ EvictsOldest'
<1>1. UNCHANGED <<waiting, givingUp, refused, job, done, leftover, returned,
                  submitted>>
  BY DEF QueueVars
<1>2. NewestInOrder'
  BY <1>1 DEF IInv, NewestInOrder
<1>3. ExactlyOnce'
  BY <1>1 DEF IInv, ExactlyOnce, Copies, In, Elements
<1>4. Decisions'
  BY <1>1 DEF IInv, Decisions, Undecided, Elements
<1>5. EvictsOldest'
  BY <1>1 DEF IInv, EvictsOldest
<1> QED
  BY <1>2, <1>3, <1>4, <1>5

(* A sentence in one place is in no other. *)
LEMMA OnePlace ==
  ASSUME IInv, NEW s \in Sentence
  PROVE  /\ In(s, Elements(waiting)) \in {0, 1} /\ In(s, Elements(givingUp)) \in {0, 1}
         /\ In(s, {refused}) \in {0, 1} /\ In(s, {job}) \in {0, 1}
         /\ done[s] \in Nat /\ leftover[s] \in Nat /\ returned[s] \in Nat
         /\ s \in Elements(waiting) => s # job /\ s \notin Elements(givingUp)
         /\ s \in Elements(givingUp) => s # job
         /\ s = job => s \notin Elements(waiting) /\ s <= submitted
<1>1. /\ In(s, Elements(waiting)) \in {0, 1} /\ In(s, Elements(givingUp)) \in {0, 1}
      /\ In(s, {refused}) \in {0, 1} /\ In(s, {job}) \in {0, 1}
      /\ done[s] \in Nat /\ leftover[s] \in Nat /\ returned[s] \in Nat
  BY DEF In, IInv, TypeOK
<1>2. Copies(s) = In(s, 1 .. submitted)
  BY DEF IInv, ExactlyOnce
<1>3. In(s, 1 .. submitted) \in {0, 1}
  BY DEF In
<1>4. /\ In(s, Elements(waiting)) + In(s, {job}) <= 1
      /\ In(s, Elements(waiting)) + In(s, Elements(givingUp)) <= 1
      /\ In(s, Elements(givingUp)) + In(s, {job}) <= 1
      /\ In(s, {job}) = 1 => In(s, 1 .. submitted) = 1
  BY SMTT(40), <1>1, <1>2, <1>3 DEF Copies
<1> QED
  BY <1>1, <1>4 DEF In

(* Undecided after a step that changes neither the job nor "putting". *)
LEMMA UndecidedNext ==
  ASSUME NEW s, job' = job, worker' = worker
  PROVE  Undecided(s)' <=> \/ s > submitted'
                           \/ s \in Elements(waiting')
                           \/ s = job /\ worker # "putting"
BY DEF Undecided

(* submit(): the new sentence joins the queue, its oldest may leave it. *)
LEMMA SubmitStep ==
  ASSUME IInv, Submit, TypeOK'
  PROVE  IInv'
<1> USE MaxSentencesAssumption, DepthAssumption
<1> DEFINE L == Len(waiting)
           s0 == submitted + 1
<1>1. /\ L \in Nat /\ submitted \in Nat /\ L <= submitted /\ s0 \in Sentence
      /\ waiting \in Seq(Sentence)
  BY DEF IInv, TypeOK, NewestInOrder, Submit
<1>2. /\ submitted' = s0
      /\ waiting' = Append(Kept, s0)
      /\ session = "running" /\ session' \in {"refusing", "waking"}
      /\ UNCHANGED <<givingUp, job, worker, done, leftover, returned, overran>>
  BY DEF Submit, workerVars
<1>3. Elements(waiting) = submitted - L + 1 .. submitted
  BY <1>1, IntervalElements DEF IInv, NewestInOrder
<1>4. /\ Kept \in Seq(Sentence) /\ Len(Kept) = IF Full THEN L - 1 ELSE L
      /\ \A i \in 1 .. Len(Kept) : Kept[i] = submitted - Len(Kept) + i
  <2>1. CASE Full
    <3>1. waiting # <<>> /\ Kept = Tail(waiting)
      BY <2>1 DEF Full, Kept
    <3>2. /\ Kept \in Seq(Sentence) /\ Len(Kept) = L - 1
          /\ \A i \in 1 .. Len(Kept) : Kept[i] = waiting[i + 1]
      BY <1>1, <3>1, HeadTailProperties
    <3>3. \A i \in 1 .. Len(Kept) : waiting[i + 1] = submitted - L + (i + 1)
      BY <1>1, <3>2 DEF IInv, NewestInOrder
    <3> QED
      BY <1>1, <2>1, <3>2, <3>3
  <2>2. CASE ~Full
    BY <1>1, <2>2 DEF Full, Kept, IInv, NewestInOrder
  <2> QED
    BY <2>1, <2>2
<1>5. NewestInOrder'
  <2>1. /\ Len(waiting') = Len(Kept) + 1
        /\ \A i \in 1 .. Len(Kept) : waiting'[i] = Kept[i]
        /\ waiting'[Len(Kept) + 1] = s0
    BY <1>1, <1>2, <1>4, AppendProperties
  <2>2. Len(Kept) \in Nat /\ Len(Kept) <= submitted
    BY <1>1, <1>4 DEF Full
  <2>3. \A i \in 1 .. Len(waiting') : waiting'[i] = s0 - Len(waiting') + i
    <3> SUFFICES ASSUME NEW i \in 1 .. Len(Kept) + 1
                 PROVE  waiting'[i] = s0 - (Len(Kept) + 1) + i
      BY <2>1
    <3>1. CASE i = Len(Kept) + 1
      BY <1>1, <2>1, <2>2, <3>1
    <3>2. CASE i \in 1 .. Len(Kept)
      <4>1. waiting'[i] = submitted - Len(Kept) + i
        BY <1>4, <2>1, <3>2
      <4> QED
        BY <1>1, <2>2, <4>1
    <3> QED
      BY <2>2, <3>1, <3>2
  <2>4. Len(waiting') <= s0
    BY <1>1, <2>1, <2>2
  <2> QED
    BY <1>2, <2>3, <2>4 DEF NewestInOrder
<1>6. /\ Len(waiting') = Len(Kept) + 1
      /\ Elements(waiting') = s0 - Len(waiting') + 1 .. s0
  <2>1. waiting' \in Seq(Sentence) /\ s0 \in Nat
    BY <1>1 DEF TypeOK
  <2>2. /\ Len(waiting') <= s0
        /\ \A i \in 1 .. Len(waiting') : waiting'[i] = s0 - Len(waiting') + i
    BY <1>2, <1>5 DEF NewestInOrder
  <2>3. Elements(waiting') = s0 - Len(waiting') + 1 .. s0
    BY <2>1, <2>2, IntervalElements
  <2>4. Len(waiting') = Len(Kept) + 1
    BY <1>1, <1>2, <1>4, AppendProperties
  <2> QED
    BY <2>3, <2>4
<1>7. Full => Evicted = submitted - L + 1 /\ Evicted \in Sentence
  <2> SUFFICES ASSUME Full PROVE Evicted = submitted - L + 1 /\ Evicted \in Sentence
    OBVIOUS
  <2>1. waiting # <<>> /\ 1 \in 1 .. L
    BY <1>1 DEF Full
  <2> QED
    BY <1>1, <2>1 DEF Evicted, IInv, NewestInOrder
<1>8. /\ Full => /\ refused' = Evicted /\ session' = "refusing"
                 /\ verdict' = Settle({Evicted}, "full")
      /\ ~Full => /\ refused' = refused /\ session' = "waking"
                  /\ verdict' = verdict
      /\ refused = None
  BY DEF Submit, IInv, Hands
<1>9. Hands'
  BY <1>2, <1>7, <1>8 DEF IInv, Hands, Sentence, None
<1>9a. /\ Full => /\ L >= 1
                  /\ Elements(waiting') = Evicted + 1 .. s0
                  /\ Elements(waiting) = Evicted .. submitted
       /\ ~Full => Elements(waiting') = Elements(waiting) \cup {s0}
  <2>1. CASE Full
    <3>1. L >= 1 /\ Evicted = submitted - L + 1 /\ Len(waiting') = L
      BY <1>1, <1>4, <1>6, <1>7, <2>1 DEF Full
    <3> QED
      BY <1>1, <1>3, <1>6, <2>1, <3>1
  <2>2. CASE ~Full
    <3>1. Len(waiting') = L + 1
      BY <1>1, <1>4, <1>6, <2>2
    <3>2. Elements(waiting') = submitted - L + 1 .. submitted + 1
      BY <1>1, <1>6, <3>1
    <3> QED
      BY <1>1, <1>3, <2>2, <3>2
  <2> QED
    BY <2>1, <2>2
<1>10. ExactlyOnce'
  <2> SUFFICES ASSUME NEW s \in Sentence
               PROVE  Copies(s)' = In(s, 1 .. submitted)'
    BY DEF ExactlyOnce
  <2>0. s \in Nat /\ s >= 1 /\ s # None
    BY DEF Sentence, None
  <2>1. Copies(s) = In(s, 1 .. submitted)
    BY DEF IInv, ExactlyOnce
  <2>2. Copies(s)' = In(s, Elements(waiting')) + In(s, Elements(givingUp))
                     + In(s, {refused'}) + In(s, {job})
                     + done[s] + leftover[s] + returned[s]
    BY <1>2 DEF Copies, Elements, In
  <2>3. In(s, {refused}) = 0
    BY <1>8, <2>0 DEF In
  <2>4. In(s, Elements(waiting')) + In(s, {refused'})
          = In(s, Elements(waiting)) + In(s, {s0})
    <3>1. CASE Full
      BY <1>1, <1>7, <1>8, <1>9a, <2>0, <3>1 DEF In
    <3>2. CASE ~Full
      BY <1>1, <1>3, <1>8, <1>9a, <2>0, <3>2 DEF In
    <3> QED
      BY <3>1, <3>2
  <2>5. In(s, (1 .. submitted)') = In(s, 1 .. submitted) + In(s, {s0})
    BY <1>1, <1>2, <2>0 DEF In
  <2>6. /\ \A S : In(s, S) \in Nat
        /\ done[s] \in Nat /\ leftover[s] \in Nat /\ returned[s] \in Nat
    BY DEF In, IInv, TypeOK
  <2>7. Copies(s)' = Copies(s) + In(s, {s0})
    <3>1. Copies(s) = In(s, Elements(waiting)) + In(s, Elements(givingUp))
                      + In(s, {job}) + done[s] + leftover[s] + returned[s]
      BY <2>3, <2>6 DEF Copies
    <3> QED
      BY <2>2, <2>4, <2>6, <3>1
  <2> QED
    BY <2>1, <2>5, <2>7 DEF In
<1>11. Decisions'
  <2> SUFFICES ASSUME NEW s \in Sentence
               PROVE  (verdict[s] = "no")' <=> Undecided(s)'
    BY DEF Decisions
  <2>0. s \in Nat
    BY DEF Sentence
  <2>1. (verdict[s] = "no") <=> Undecided(s)
    BY DEF IInv, Decisions
  <2>2. Undecided(s)' <=> \/ s > submitted'
                          \/ s \in Elements(waiting')
                          \/ s = job /\ worker # "putting"
    BY <1>2, UndecidedNext
  <2>3. CASE ~Full
    <3>1. verdict'[s] = verdict[s]
      BY <1>8, <2>3
    <3>2. Elements(waiting') = Elements(waiting) \cup {s0}
      BY <1>9a, <2>3
    <3>3. s > submitted <=> s > submitted' \/ s = s0
      BY <1>1, <1>2, <2>0
    <3>4. Undecided(s)' <=> Undecided(s)
      BY <2>2, <3>2, <3>3 DEF Undecided
    <3> QED
      BY <2>1, <3>1, <3>4
  <2>4. CASE Full
    <3>1. verdict'[s] = IF s = Evicted THEN "full" ELSE verdict[s]
      BY <1>8, <2>4 DEF Settle
    <3>2. /\ Elements(waiting') = Evicted + 1 .. s0
          /\ Elements(waiting) = Evicted .. submitted
          /\ Evicted \in Sentence /\ Evicted \in Nat
      BY <1>7, <1>9a, <2>4 DEF Sentence
    <3>3. CASE s = Evicted
      <4>1. s # job
        <5>1. Evicted <= submitted
          BY <1>1, <1>7, <1>9a, <2>4
        <5>2. s \in Elements(waiting)
          BY <1>1, <3>2, <3>3, <5>1
        <5> QED
          BY <5>2, OnePlace
      <4>2. ~(s > submitted') /\ s \notin Elements(waiting')
        BY <1>1, <1>2, <1>7, <1>9a, <2>4, <3>2, <3>3
      <4> QED
        BY <2>2, <3>1, <3>3, <4>1, <4>2
    <3>4. CASE s # Evicted
      <4>0. Evicted <= submitted
        BY <1>1, <1>7, <1>9a, <2>4
      <4>1. s > submitted \/ s \in Elements(waiting)
              <=> s > submitted' \/ s \in Elements(waiting')
        BY <1>1, <1>2, <2>0, <3>2, <3>4, <4>0
      <4>2. Undecided(s)' <=> Undecided(s)
        BY <2>2, <4>1 DEF Undecided
      <4> QED
        BY <2>1, <3>1, <3>4, <4>2
    <3> QED
      BY <3>3, <3>4
  <2> QED
    BY <2>3, <2>4
<1>12. Overrun'
  BY <1>2 DEF Overrun
<1>13. EvictsOldest'
  <2> SUFFICES ASSUME NEW s \in Sentence, verdict'[s] = "full"
               PROVE  s + Depth <= s0
    BY <1>2 DEF EvictsOldest
  <2>1. CASE verdict[s] = "full"
    BY <1>1, <2>1 DEF IInv, EvictsOldest, Sentence
  <2>2. CASE verdict[s] # "full"
    <3>1. Full /\ s = Evicted
      BY <1>8, <2>2 DEF Settle
    <3> QED
      BY <1>1, <1>7, <3>1 DEF Full
  <2> QED
    BY <2>1, <2>2
<1>14. EndedOnlyPastDeadline'
  <2>1. \A s \in Sentence : verdict'[s] = "ended" => verdict[s] = "ended"
    BY <1>8 DEF Settle
  <2> QED
    BY <1>2, <2>1 DEF IInv, EndedOnlyPastDeadline
<1> QED
  BY <1>5, <1>9, <1>10, <1>11, <1>12, <1>13, <1>14 DEF IInv

(* take(): the front of the queue is given up on, the next becomes the job. *)
LEMMA TakeStep ==
  ASSUME IInv, Take, TypeOK'
  PROVE  IInv'
<1> USE MaxSentencesAssumption
<1> DEFINE L == Len(waiting)
           m == submitted - L
<1>1. PICK k \in 0 .. L :
        /\ givingUp' = GivenUp(k)
        /\ verdict' = Settle(Elements(givingUp'), "late")
        /\ job' = IF k < L THEN waiting[k + 1] ELSE None
        /\ waiting' = Behind(k)
  BY DEF Take
<1>2. /\ worker = "take" /\ worker' = "givingUp"
      /\ UNCHANGED <<session, refused, done, leftover, returned, overran,
                     submitted>>
  BY DEF Take, sessionVars
<1>3. /\ L \in Nat /\ submitted \in Nat /\ m \in Nat /\ k \in Nat /\ k <= L
      /\ waiting \in Seq(Sentence)
      /\ \A i \in 1 .. L : waiting[i] = m + i
  BY DEF IInv, TypeOK, NewestInOrder
<1>4. job = None /\ givingUp = <<>>
  BY <1>2 DEF IInv, Hands
<1>5. Elements(waiting) = m + 1 .. submitted
  BY <1>3, IntervalElements DEF IInv, NewestInOrder
<1>6. /\ givingUp' \in Seq(Sentence) /\ Len(givingUp') = k
      /\ \A i \in 1 .. k : givingUp'[i] = m + i
  <2>1. 1 \in 1 .. L + 2 /\ k \in 0 .. L
    BY <1>3
  <2>2. /\ givingUp' \in Seq(Sentence) /\ Len(givingUp') = k
        /\ \A i \in 1 .. k : givingUp'[i] = waiting[i]
    BY <1>1, <1>3, <2>1, SubSeqType DEF GivenUp
  <2> QED
    BY <1>3, <2>2
<1>7. Elements(givingUp') = m + 1 .. m + k
  <2>0. m + k \in Nat
    BY <1>3
  <2>1. PICK n \in Nat : n = m + k
    BY <2>0, Zenon
  <2>2. /\ Len(givingUp') <= n
        /\ \A i \in 1 .. Len(givingUp') : givingUp'[i] = n - Len(givingUp') + i
    <3>1. Len(givingUp') = k /\ n - k = m /\ k <= n
      BY <1>3, <1>6, <2>1
    <3> QED
      BY <1>6, <3>1
  <2>3. Elements(givingUp') = n - Len(givingUp') + 1 .. n
    BY <1>6, <2>2, IntervalElements
  <2>4. n - Len(givingUp') = m
    BY <1>3, <1>6, <2>1
  <2> QED
    BY <2>1, <2>3, <2>4
<1>8. /\ k < L => job' = m + k + 1
      /\ k = L => job' = None
  BY <1>1, <1>3
<1>9. /\ waiting' \in Seq(Sentence)
      /\ Len(waiting') = IF k < L THEN L - k - 1 ELSE 0
      /\ \A i \in 1 .. Len(waiting') : waiting'[i] = submitted - Len(waiting') + i
  <2>1. k + 2 \in 1 .. L + 2 /\ L \in 0 .. L
    BY <1>3
  <2>2. /\ waiting' \in Seq(Sentence)
        /\ Len(waiting') = IF k + 2 <= L THEN L - (k + 2) + 1 ELSE 0
        /\ \A i \in 1 .. L - (k + 2) + 1 : waiting'[i] = waiting[(k + 2) + i - 1]
    BY <1>1, <1>3, <2>1, SubSeqType DEF Behind
  <2>3. Len(waiting') = IF k < L THEN L - k - 1 ELSE 0
    BY <1>3, <2>2
  <2>4. ASSUME NEW i \in 1 .. Len(waiting')
        PROVE  waiting'[i] = submitted - Len(waiting') + i
    <3>1. k < L /\ i \in 1 .. L - (k + 2) + 1 /\ (k + 2) + i - 1 \in 1 .. L
      BY <1>3, <2>3
    <3>2. waiting'[i] = m + ((k + 2) + i - 1)
      BY <1>3, <2>2, <3>1
    <3> QED
      BY <1>3, <2>3, <3>1, <3>2
  <2> QED
    BY <2>2, <2>3, <2>4
<1>10. NewestInOrder'
  <2>1. Len(waiting') <= submitted
    BY <1>3, <1>9
  <2> QED
    BY <1>2, <1>9, <2>1 DEF NewestInOrder
<1>11. Elements(waiting') = IF k < L THEN m + k + 2 .. submitted ELSE {}
  <2>1. Elements(waiting') = submitted - Len(waiting') + 1 .. submitted
    <3>1. Len(waiting') <= submitted
      BY <1>2, <1>10 DEF NewestInOrder
    <3> QED
      BY <1>3, <1>9, <3>1, IntervalElements
  <2>2. CASE k < L
    <3>1. submitted - Len(waiting') + 1 = m + k + 2
      BY <1>3, <1>9, <2>2
    <3> QED
      BY <2>1, <2>2, <3>1
  <2>3. CASE ~(k < L)
    <3>1. submitted - Len(waiting') + 1 > submitted
      BY <1>3, <1>9, <2>3
    <3> QED
      BY <1>3, <2>1, <2>3, <3>1
  <2> QED
    BY <2>2, <2>3
<1>11a. ASSUME NEW s \in Sentence
        PROVE  /\ s \in Elements(waiting) <=> m < s /\ s <= submitted
               /\ s \in Elements(givingUp') <=> m < s /\ s <= m + k
               /\ s = job' <=> k < L /\ s = m + k + 1
               /\ s \in Elements(waiting') <=> k < L /\ m + k + 1 < s /\ s <= submitted
  <2>1. s \in Nat /\ s >= 1 /\ s # None
    BY DEF Sentence, None
  <2>2. s \in Elements(waiting) <=> m < s /\ s <= submitted
    BY <1>3, <1>5, <2>1
  <2>3. s \in Elements(givingUp') <=> m < s /\ s <= m + k
    BY <1>3, <1>7, <2>1
  <2>4. s = job' <=> k < L /\ s = m + k + 1
    BY SMTT(40), <1>3, <1>8, <2>1
  <2>5. s \in Elements(waiting') <=> k < L /\ m + k + 1 < s /\ s <= submitted
    BY <1>3, <1>11, <2>1
  <2> QED
    BY <2>2, <2>3, <2>4, <2>5
<1>12. Hands'
  <2>1. \A i, j \in 1 .. Len(givingUp') : givingUp'[i] = givingUp'[j] => i = j
    BY <1>3, <1>6
  <2> QED
    BY <1>2, <2>1 DEF IInv, Hands
<1>13. ExactlyOnce'
  <2> SUFFICES ASSUME NEW s \in Sentence
               PROVE  Copies(s)' = In(s, 1 .. submitted)'
    BY DEF ExactlyOnce
  <2>0. s \in Nat /\ s >= 1
    BY DEF Sentence
  <2>1. In(s, Elements(waiting')) + In(s, Elements(givingUp')) + In(s, {job'})
          = In(s, Elements(waiting))
    <3>1. /\ s \in Elements(waiting) <=> \/ s \in Elements(waiting')
                                         \/ s \in Elements(givingUp')
                                         \/ s \in {job'}
          /\ s \in Elements(waiting') => s \notin Elements(givingUp') /\ s \notin {job'}
          /\ s \in Elements(givingUp') => s \notin {job'}
      BY <1>3, <1>11a, <2>0
    <3> QED
      BY <3>1 DEF In
  <2>2. In(s, Elements(givingUp)) = 0 /\ In(s, {job}) = 0
    BY <1>4, <2>0 DEF In, Elements, None
  <2>3. Copies(s)' = In(s, Elements(waiting')) + In(s, Elements(givingUp'))
                     + In(s, {refused}) + In(s, {job'})
                     + done[s] + leftover[s] + returned[s]
    BY <1>2 DEF Copies
  <2>4. /\ \A S : In(s, S) \in Nat
        /\ done[s] \in Nat /\ leftover[s] \in Nat /\ returned[s] \in Nat
    BY DEF In, IInv, TypeOK
  <2>5. Copies(s)' = Copies(s)
    BY <2>1, <2>2, <2>3, <2>4 DEF Copies
  <2>6. Copies(s) = In(s, 1 .. submitted)
    BY DEF IInv, ExactlyOnce
  <2> QED
    BY <1>2, <2>5, <2>6
<1>14. Decisions'
  <2> SUFFICES ASSUME NEW s \in Sentence
               PROVE  (verdict[s] = "no")' <=> Undecided(s)'
    BY DEF Decisions
  <2>0. s \in Nat /\ s >= 1
    BY DEF Sentence
  <2>1. verdict'[s] = IF s \in Elements(givingUp') THEN "late" ELSE verdict[s]
    BY <1>1 DEF Settle
  <2>2. verdict[s] = "no" <=> s > submitted \/ s \in Elements(waiting)
    BY <1>4, <2>0 DEF IInv, Decisions, Undecided, None
  <2>3. Undecided(s)' <=> s > submitted \/ s \in Elements(waiting') \/ s = job'
    BY <1>2 DEF Undecided
  <2>4. s > submitted \/ s \in Elements(waiting') \/ s = job'
          <=> /\ s > submitted \/ s \in Elements(waiting)
              /\ s \notin Elements(givingUp')
    <3>1. /\ s \in Elements(waiting) <=> m < s /\ s <= submitted
          /\ s \in Elements(givingUp') <=> m < s /\ s <= m + k
          /\ s = job' <=> k < L /\ s = m + k + 1
          /\ s \in Elements(waiting') <=> k < L /\ m + k + 1 < s /\ s <= submitted
      BY <1>11a
    <3>2. CASE s <= m \/ s > submitted
      BY <1>3, <2>0, <3>1, <3>2
    <3>3. CASE m < s /\ s <= m + k
      BY <1>3, <2>0, <3>1, <3>3
    <3>4. CASE m + k < s /\ s <= submitted
      BY SMTT(40), <1>3, <2>0, <3>1, <3>4
    <3> QED
      BY <1>3, <2>0, <3>2, <3>3, <3>4
  <2>5. CASE s \in Elements(givingUp')
    <3>1. ~Undecided(s)'
      BY <2>3, <2>4, <2>5
    <3>2. verdict'[s] = "late"
      BY <2>1, <2>5
    <3> QED
      BY <3>1, <3>2
  <2>6. CASE s \notin Elements(givingUp')
    BY <2>1, <2>2, <2>3, <2>4, <2>6
  <2> QED
    BY <2>5, <2>6
<1>15. Overrun'
  <2>1. L = 0 => Len(waiting') = 0
    BY <1>3, <1>9
  <2>2. waiting = <<>> => waiting' = <<>>
    BY <1>9, <2>1
  <2> QED
    BY <1>2, <2>2 DEF IInv, Overrun
<1>16. EvictsOldest' /\ EndedOnlyPastDeadline'
  <2>1. \A s \in Sentence : /\ verdict'[s] = "full" => verdict[s] = "full"
                            /\ verdict'[s] = "ended" => verdict[s] = "ended"
    BY <1>1 DEF Settle
  <2> QED
    BY <1>2, <2>1 DEF IInv, EvictsOldest, EndedOnlyPastDeadline
<1> QED
  BY <1>10, <1>12, <1>13, <1>14, <1>15, <1>16 DEF IInv

(* _done.put() of a sentence given up on, of an evicted one, of the job. *)
LEMMA PutGivenUpStep ==
  ASSUME IInv, PutGivenUp, TypeOK'
  PROVE  IInv'
<1> DEFINE h == Head(givingUp)
<1>1. /\ worker = "givingUp" /\ givingUp # <<>>
      /\ done' = Plus(done, {h}) /\ givingUp' = Tail(givingUp)
      /\ UNCHANGED <<worker, waiting, refused, job, leftover, returned, verdict,
                     submitted, session, overran>>
  <2>1. UNCHANGED <<worker, waiting, job, verdict, stats, sessionVars>>
    BY DEF PutGivenUp
  <2>2. worker = "givingUp" /\ givingUp # <<>>
    BY DEF PutGivenUp
  <2>3. done' = Plus(done, {h}) /\ givingUp' = Tail(givingUp)
    BY DEF PutGivenUp
  <2> QED
    BY <2>1, <2>2, <2>3 DEF sessionVars, stats
<1>2. /\ givingUp \in Seq(Sentence) /\ Len(givingUp) \in Nat /\ Len(givingUp) >= 1
      /\ \A i, j \in 1 .. Len(givingUp) : givingUp[i] = givingUp[j] => i = j
  <2>1. givingUp \in Seq(Sentence)
    BY DEF IInv, TypeOK
  <2>2. Len(givingUp) \in Nat /\ Len(givingUp) >= 1
    BY <1>1, <2>1
  <2> QED
    BY <2>1, <2>2 DEF IInv, Hands
<1>3. /\ Tail(givingUp) \in Seq(Sentence) /\ h = givingUp[1]
      /\ Len(Tail(givingUp)) = Len(givingUp) - 1
      /\ \A i \in 1 .. Len(Tail(givingUp)) : Tail(givingUp)[i] = givingUp[i + 1]
  BY <1>1, <1>2, HeadTailProperties
<1>4. \A s : s \in Elements(givingUp) <=> s = h \/ s \in Elements(givingUp')
  <2>1. ASSUME NEW s, s \in Elements(givingUp), s # h
        PROVE  s \in Elements(givingUp')
    <3>1. PICK i \in 1 .. Len(givingUp) : s = givingUp[i]
      BY <2>1 DEF Elements
    <3>2. i - 1 \in 1 .. Len(Tail(givingUp)) /\ (i - 1) + 1 = i
      BY <1>2, <1>3, <2>1, <3>1
    <3>3. s = Tail(givingUp)[i - 1]
      BY <1>3, <3>1, <3>2
    <3> QED
      BY <1>1, <3>2, <3>3 DEF Elements
  <2>2. ASSUME NEW s, s \in Elements(givingUp')
        PROVE  s \in Elements(givingUp)
    <3>1. PICK i \in 1 .. Len(Tail(givingUp)) : s = Tail(givingUp)[i]
      BY <1>1, <2>2 DEF Elements
    <3>2. i + 1 \in 1 .. Len(givingUp) /\ s = givingUp[i + 1]
      BY <1>2, <1>3, <3>1
    <3> QED
      BY <3>2 DEF Elements
  <2>3. h \in Elements(givingUp)
    BY <1>2, <1>3 DEF Elements
  <2> QED
    BY <2>1, <2>2, <2>3
<1>5. h \notin Elements(givingUp')
  <2> SUFFICES ASSUME NEW i \in 1 .. Len(Tail(givingUp)), h = Tail(givingUp)[i]
               PROVE  FALSE
    BY <1>1 DEF Elements
  <2>1. i + 1 \in 1 .. Len(givingUp) /\ 1 \in 1 .. Len(givingUp) /\ i + 1 # 1
    BY <1>2, <1>3
  <2> QED
    BY <1>2, <1>3, <2>1
<1>6. NewestInOrder'
  BY <1>1 DEF IInv, NewestInOrder
<1>7. Hands'
  <2>1. \A i, j \in 1 .. Len(givingUp') : givingUp'[i] = givingUp'[j] => i = j
    <3> SUFFICES ASSUME NEW i \in 1 .. Len(Tail(givingUp)),
                        NEW j \in 1 .. Len(Tail(givingUp)),
                        Tail(givingUp)[i] = Tail(givingUp)[j]
                 PROVE  i = j
      BY <1>1
    <3>1. i + 1 \in 1 .. Len(givingUp) /\ j + 1 \in 1 .. Len(givingUp)
      BY <1>2, <1>3
    <3>2. i + 1 = j + 1
      BY <1>2, <1>3, <3>1
    <3> QED
      BY <3>2
  <2> QED
    BY <1>1, <2>1 DEF IInv, Hands
<1>8. ExactlyOnce'
  <2> SUFFICES ASSUME NEW s \in Sentence
               PROVE  Copies(s)' = In(s, 1 .. submitted)'
    BY DEF ExactlyOnce
  <2>1. In(s, Elements(givingUp')) + done'[s] = In(s, Elements(givingUp)) + done[s]
    <3>1. done'[s] = done[s] + In(s, {h}) /\ done[s] \in Nat
      BY <1>1 DEF Plus, In, IInv, TypeOK
    <3>2. In(s, Elements(givingUp)) = In(s, Elements(givingUp')) + In(s, {h})
      BY <1>4, <1>5 DEF In
    <3> QED
      BY <3>1, <3>2 DEF In
  <2>2. Copies(s)' = In(s, Elements(waiting)) + In(s, Elements(givingUp'))
                     + In(s, {refused}) + In(s, {job})
                     + done'[s] + leftover[s] + returned[s]
    BY <1>1 DEF Copies, Elements
  <2>3. /\ \A S : In(s, S) \in Nat
        /\ done[s] \in Nat /\ leftover[s] \in Nat /\ returned[s] \in Nat
        /\ done'[s] \in Nat
    BY DEF In, IInv, TypeOK
  <2>4. Copies(s)' = Copies(s)
    BY <2>1, <2>2, <2>3 DEF Copies
  <2> QED
    BY <1>1, <2>4 DEF IInv, ExactlyOnce
<1>9. Decisions'
  BY <1>1, UndecidedNext DEF IInv, Decisions, Undecided
<1>10. Overrun' /\ EvictsOldest' /\ EndedOnlyPastDeadline'
  BY <1>1 DEF IInv, Overrun, EvictsOldest, EndedOnlyPastDeadline
<1> QED
  BY <1>6, <1>7, <1>8, <1>9, <1>10 DEF IInv

(* Steps that move Done objects and leave the queue and the verdicts alone. *)
LEMMA MovingStep ==
  ASSUME IInv, UNCHANGED <<waiting, submitted, verdict, job, worker>>
  PROVE  NewestInOrder' /\ EvictsOldest' /\ Decisions'
<1>1. NewestInOrder'
  BY DEF IInv, NewestInOrder
<1>2. EvictsOldest'
  BY DEF IInv, EvictsOldest
<1>3. Decisions'
  BY UndecidedNext DEF IInv, Decisions, Undecided
<1> QED
  BY <1>1, <1>2, <1>3

(* The refused sentence goes from the session's hand to the done queue.    *)
LEMMA PutRefusedStep ==
  ASSUME IInv, PutRefused, TypeOK'
  PROVE  IInv'
<1>1. /\ session = "refusing" /\ session' = "waking"
      /\ done' = Plus(done, {refused}) /\ refused' = None
      /\ UNCHANGED <<worker, waiting, givingUp, job, leftover, returned, verdict,
                     submitted, overran>>
  BY DEF PutRefused, workerVars, stats
<1>2. refused \in Sentence /\ refused # None
  BY <1>1 DEF IInv, TypeOK, Hands
<1>3. NewestInOrder' /\ EvictsOldest' /\ Decisions'
  BY <1>1, MovingStep
<1>4. Hands'
  BY <1>1 DEF IInv, Hands
<1>5. ExactlyOnce'
  <2> SUFFICES ASSUME NEW s \in Sentence
               PROVE  Copies(s)' = In(s, 1 .. submitted)'
    BY DEF ExactlyOnce
  <2>1. In(s, {refused'}) + done'[s] = In(s, {refused}) + done[s]
    <3>1. done'[s] = (IF s = refused THEN done[s] + 1 ELSE done[s]) /\ done[s] \in Nat
      BY <1>1 DEF Plus, IInv, TypeOK
    <3>2. s # refused'
      BY <1>1 DEF Sentence, None
    <3> QED
      BY <3>1, <3>2 DEF In
  <2>2. Copies(s)' = In(s, Elements(waiting)) + In(s, Elements(givingUp))
                     + In(s, {refused'}) + In(s, {job})
                     + done'[s] + leftover[s] + returned[s]
    BY <1>1 DEF Copies, Elements
  <2>3. /\ \A S : In(s, S) \in Nat
        /\ done[s] \in Nat /\ leftover[s] \in Nat /\ returned[s] \in Nat
        /\ done'[s] \in Nat
    BY DEF In, IInv, TypeOK
  <2>4. Copies(s)' = Copies(s)
    BY <2>1, <2>2, <2>3 DEF Copies
  <2> QED
    BY <1>1, <2>4 DEF IInv, ExactlyOnce
<1>6. Overrun' /\ EndedOnlyPastDeadline'
  BY <1>1 DEF IInv, Overrun, EndedOnlyPastDeadline
<1> QED
  BY <1>3, <1>4, <1>5, <1>6 DEF IInv

(* The answer goes from the worker's hand to the done queue. *)
LEMMA PutDoneStep ==
  ASSUME IInv, PutDone, TypeOK'
  PROVE  IInv'
<1>1. /\ worker = "putting" /\ worker' = "check"
      /\ done' = Plus(done, {job}) /\ job' = None
      /\ UNCHANGED <<session, waiting, givingUp, refused, leftover, returned,
                     verdict, submitted, overran>>
  BY DEF PutDone, sessionVars, stats
<1>2. job \in Sentence /\ job # None
  BY <1>1 DEF IInv, TypeOK, Hands
<1>3. NewestInOrder' /\ EvictsOldest'
  BY <1>1 DEF IInv, NewestInOrder, EvictsOldest
<1>4. Hands'
  BY <1>1 DEF IInv, Hands
<1>5. ExactlyOnce'
  <2> SUFFICES ASSUME NEW s \in Sentence
               PROVE  Copies(s)' = In(s, 1 .. submitted)'
    BY DEF ExactlyOnce
  <2>1. In(s, {job'}) + done'[s] = In(s, {job}) + done[s]
    <3>1. done'[s] = (IF s = job THEN done[s] + 1 ELSE done[s]) /\ done[s] \in Nat
      BY <1>1 DEF Plus, IInv, TypeOK
    <3>2. s # job'
      BY <1>1 DEF Sentence, None
    <3> QED
      BY <3>1, <3>2 DEF In
  <2>2. Copies(s)' = In(s, Elements(waiting)) + In(s, Elements(givingUp))
                     + In(s, {refused}) + In(s, {job'})
                     + done'[s] + leftover[s] + returned[s]
    BY <1>1 DEF Copies, Elements
  <2>3. /\ \A S : In(s, S) \in Nat
        /\ done[s] \in Nat /\ leftover[s] \in Nat /\ returned[s] \in Nat
        /\ done'[s] \in Nat
    BY DEF In, IInv, TypeOK
  <2>4. Copies(s)' = Copies(s)
    BY <2>1, <2>2, <2>3 DEF Copies
  <2> QED
    BY <1>1, <2>4 DEF IInv, ExactlyOnce
<1>6. Decisions'
  <2> SUFFICES ASSUME NEW s \in Sentence
               PROVE  (verdict[s] = "no")' <=> Undecided(s)'
    BY DEF Decisions
  <2>1. verdict[s] = "no" <=> s > submitted \/ s \in Elements(waiting)
    BY <1>1 DEF IInv, Decisions, Undecided
  <2>2. Undecided(s)' <=> s > submitted \/ s \in Elements(waiting)
    BY <1>1 DEF Undecided, Sentence, None, Elements
  <2> QED
    BY <1>1, <2>1, <2>2
<1>7. Overrun' /\ EndedOnlyPastDeadline'
  BY <1>1 DEF IInv, Overrun, EndedOnlyPastDeadline
<1> QED
  BY <1>3, <1>4, <1>5, <1>6, <1>7 DEF IInv

(* collect() and the return of stop(): what is done is handed over. *)
LEMMA CollectStep ==
  ASSUME IInv, Collect \/ StopReturns, TypeOK'
  PROVE  IInv'
<1>1. /\ session' = session \/ session' = "stopped"
      /\ session # "refusing"
      /\ UNCHANGED <<worker, waiting, givingUp, refused, job, verdict, submitted,
                     overran>>
  BY DEF Collect, StopReturns, workerVars, stats
<1>2. leftover' = Nothing
  BY DEF Collect, StopReturns, IInv, Hands
<1>3. NewestInOrder' /\ EvictsOldest' /\ Decisions'
  BY <1>1, MovingStep
<1>4. Hands'
  BY <1>1, <1>2 DEF IInv, Hands
<1>5. \A s \in Sentence : done'[s] + leftover'[s] + returned'[s]
                            = done[s] + leftover[s] + returned[s]
  <2> SUFFICES ASSUME NEW s \in Sentence
               PROVE  done'[s] + leftover'[s] + returned'[s]
                        = done[s] + leftover[s] + returned[s]
    OBVIOUS
  <2>0. done[s] \in Nat /\ leftover[s] \in Nat /\ returned[s] \in Nat
    BY DEF IInv, TypeOK
  <2>1. CASE Collect
    <3>1. done' = Nothing /\ leftover' = leftover
          /\ returned' = Together(returned, done)
      BY <2>1 DEF Collect
    <3>2. done'[s] = 0 /\ returned'[s] = returned[s] + done[s]
      BY <3>1 DEF Together, Nothing
    <3> QED
      BY <2>0, <3>1, <3>2
  <2>2. CASE StopReturns
    <3>1. done' = Nothing /\ leftover' = Nothing
          /\ returned' = Together(returned, Together(done, leftover))
      BY <2>2 DEF StopReturns, LastAnswers
    <3>2. /\ done'[s] = 0 /\ leftover'[s] = 0
          /\ returned'[s] = returned[s] + (done[s] + leftover[s])
      BY <3>1 DEF Together, Nothing
    <3> QED
      BY <2>0, <3>2
  <2> QED
    BY <2>1, <2>2
<1>6. ExactlyOnce'
  <2> SUFFICES ASSUME NEW s \in Sentence
               PROVE  Copies(s)' = In(s, 1 .. submitted)'
    BY DEF ExactlyOnce
  <2>1. Copies(s)' = In(s, Elements(waiting)) + In(s, Elements(givingUp))
                     + In(s, {refused}) + In(s, {job})
                     + done'[s] + leftover'[s] + returned'[s]
    BY <1>1 DEF Copies, Elements
  <2>2. /\ \A S : In(s, S) \in Nat
        /\ done[s] \in Nat /\ leftover[s] \in Nat /\ returned[s] \in Nat
        /\ done'[s] \in Nat /\ leftover'[s] \in Nat /\ returned'[s] \in Nat
    BY DEF In, IInv, TypeOK
  <2>3. Copies(s)' = Copies(s)
    BY <1>5, <2>1, <2>2 DEF Copies
  <2> QED
    BY <1>1, <2>3 DEF IInv, ExactlyOnce
<1>7. Overrun' /\ EndedOnlyPastDeadline'
  BY <1>1 DEF IInv, Overrun, EndedOnlyPastDeadline
<1> QED
  BY <1>3, <1>4, <1>6, <1>7 DEF IInv

(* drain(): everything queued is given up on. *)
LEMMA DrainStep ==
  ASSUME IInv, Drain, TypeOK'
  PROVE  IInv'
<1> DEFINE left == Elements(waiting)
<1>1. /\ session = "joined" /\ session' = "drained"
      /\ leftover' = Plus(Nothing, left) /\ waiting' = <<>>
      /\ verdict' = Settle(left, "ended")
  BY DEF Drain
<1>2. UNCHANGED <<worker, givingUp, job, refused, done, returned, submitted, overran>>
  BY DEF Drain, workerVars
<1>3. leftover = Nothing /\ Elements(waiting') = {} /\ Len(waiting') = 0
  BY <1>1 DEF IInv, Hands, Elements
<1>4. NewestInOrder'
  BY <1>1, <1>2, <1>3, MaxSentencesAssumption DEF NewestInOrder, IInv, TypeOK
<1>5. Hands'
  BY <1>1, <1>2 DEF IInv, Hands
<1>6. ExactlyOnce'
  <2> SUFFICES ASSUME NEW s \in Sentence
               PROVE  Copies(s)' = In(s, 1 .. submitted)'
    BY DEF ExactlyOnce
  <2>1. In(s, Elements(waiting')) + leftover'[s] = In(s, Elements(waiting)) + leftover[s]
    <3>1. leftover'[s] = (IF s \in left THEN 1 ELSE 0) /\ leftover[s] = 0
      BY <1>1, <1>3 DEF Plus, Nothing
    <3> QED
      BY <1>3, <3>1 DEF In
  <2>2. Copies(s)' = In(s, Elements(waiting')) + In(s, Elements(givingUp))
                     + In(s, {refused}) + In(s, {job})
                     + done[s] + leftover'[s] + returned[s]
    BY <1>2 DEF Copies, Elements
  <2>3. /\ \A S : In(s, S) \in Nat
        /\ done[s] \in Nat /\ leftover[s] \in Nat /\ returned[s] \in Nat
        /\ leftover'[s] \in Nat
    BY DEF In, IInv, TypeOK
  <2>4. Copies(s)' = Copies(s)
    BY <2>1, <2>2, <2>3 DEF Copies
  <2> QED
    BY <1>2, <2>4 DEF IInv, ExactlyOnce
<1>7. Decisions'
  <2> SUFFICES ASSUME NEW s \in Sentence
               PROVE  (verdict[s] = "no")' <=> Undecided(s)'
    BY DEF Decisions
  <2>1. verdict'[s] = IF s \in left THEN "ended" ELSE verdict[s]
    BY <1>1 DEF Settle
  <2>2. verdict[s] = "no" <=> \/ s > submitted
                              \/ s \in left
                              \/ s = job /\ worker # "putting"
    <3>1. verdict[s] = "no" <=> Undecided(s)
      BY DEF IInv, Decisions
    <3>2. Undecided(s) <=> \/ s > submitted
                           \/ s \in left
                           \/ s = job /\ worker # "putting"
      BY DEF Undecided
    <3> QED
      BY <3>1, <3>2
  <2>3. Undecided(s)' <=> s > submitted \/ (s = job /\ worker # "putting")
    <3>1. job' = job /\ worker' = worker /\ submitted' = submitted
      BY <1>2
    <3>2. Undecided(s)' <=> \/ s > submitted'
                            \/ s \in Elements(waiting')
                            \/ s = job /\ worker # "putting"
      BY <3>1, UndecidedNext
    <3>3. s \notin Elements(waiting')
      BY <1>3
    <3> QED
      BY <3>1, <3>2, <3>3
  <2>4. CASE s \in left
    <3>1. s # job
      BY <2>4, OnePlace
    <3>2. s <= submitted
      <4>1. Elements(waiting) = submitted - Len(waiting) + 1 .. submitted
        BY IntervalElements, MaxSentencesAssumption DEF IInv, NewestInOrder, TypeOK
      <4> QED
        BY <2>4, <4>1
    <3>3. ~(s > submitted)
      BY <3>2, MaxSentencesAssumption DEF IInv, TypeOK, Sentence
    <3> QED
      BY <2>1, <2>3, <2>4, <3>1, <3>3
  <2>5. CASE s \notin left
    BY <2>1, <2>2, <2>3, <2>5
  <2> QED
    BY <2>4, <2>5
<1>8. Overrun'
  BY <1>1 DEF Overrun
<1>9. EvictsOldest'
  BY <1>1, <1>2 DEF IInv, EvictsOldest, Settle
<1>10. EndedOnlyPastDeadline'
  <2>1. CASE waiting = <<>>
    <3>1. left = {}
      BY <2>1 DEF Elements
    <3>2. verdict' = verdict
      BY <1>1, <3>1 DEF Settle, IInv, TypeOK
    <3> QED
      BY <1>2, <3>2 DEF IInv, EndedOnlyPastDeadline
  <2>2. CASE waiting # <<>>
    BY <1>1, <1>2, <2>2 DEF IInv, Overrun, EndedOnlyPastDeadline
  <2> QED
    BY <2>1, <2>2
<1> QED
  BY <1>4, <1>5, <1>6, <1>7, <1>8, <1>9, <1>10 DEF IInv

(* The translator is done with the job. *)
LEMMA TranslatedStep ==
  ASSUME IInv, Translated, TypeOK'
  PROVE  IInv'
<1>1. PICK v \in {"translated", "failed"} : verdict' = Settle({job}, v)
  BY DEF Translated
<1>2. /\ worker = "translating" /\ worker' = "putting"
      /\ UNCHANGED <<session, waiting, givingUp, refused, job, done, leftover,
                     returned, submitted, overran>>
  BY DEF Translated, sessionVars
<1>3. job \in Sentence
  BY <1>2 DEF IInv, TypeOK, Hands
<1>4. NewestInOrder' /\ Hands' /\ ExactlyOnce' /\ Overrun'
  <2>1. NewestInOrder' /\ Overrun'
    BY <1>2 DEF IInv, NewestInOrder, Overrun
  <2>2. Hands'
    BY <1>2 DEF IInv, Hands
  <2>3. ExactlyOnce'
    BY <1>2 DEF IInv, ExactlyOnce, Copies, Elements, In
  <2> QED
    BY <2>1, <2>2, <2>3
<1>5. Decisions'
  <2> SUFFICES ASSUME NEW s \in Sentence
               PROVE  (verdict[s] = "no")' <=> Undecided(s)'
    BY DEF Decisions
  <2>1. verdict'[s] = IF s = job THEN v ELSE verdict[s]
    BY <1>1 DEF Settle
  <2>2. verdict[s] = "no" <=> s > submitted \/ s \in Elements(waiting) \/ s = job
    BY <1>2 DEF IInv, Decisions, Undecided
  <2>3. Undecided(s)' <=> s > submitted \/ s \in Elements(waiting)
    BY <1>2 DEF Undecided
  <2>4. CASE s = job
    <3>1. s \notin Elements(waiting) /\ s <= submitted
      BY <2>4, OnePlace
    <3>2. ~(s > submitted)
      BY <3>1, MaxSentencesAssumption DEF IInv, TypeOK, Sentence
    <3> QED
      BY <2>1, <2>3, <2>4, <3>1, <3>2
  <2>5. CASE s # job
    BY <2>1, <2>2, <2>3, <2>5
  <2> QED
    BY <2>4, <2>5
<1>6. EvictsOldest' /\ EndedOnlyPastDeadline'
  <2>1. \A s \in Sentence : /\ verdict'[s] = "full" => verdict[s] = "full"
                            /\ verdict'[s] = "ended" => verdict[s] = "ended"
    BY <1>1 DEF Settle
  <2> QED
    BY <1>2, <2>1 DEF IInv, EvictsOldest, EndedOnlyPastDeadline
<1> QED
  BY <1>4, <1>5, <1>6 DEF IInv

(* Every step of either thread, and of the clock, keeps the invariant. *)
LEMMA InvStep == ASSUME IInv, [Next]_vars PROVE IInv'
<1>0. TypeOK'
  BY TypeStep DEF IInv
<1>1. CASE Submit
  BY <1>0, <1>1, SubmitStep
<1>2. CASE PutRefused
  BY <1>0, <1>2, PutRefusedStep
<1>3. CASE Collect \/ StopReturns
  BY <1>0, <1>3, CollectStep
<1>4. CASE Drain
  BY <1>0, <1>4, DrainStep
<1>5. CASE Take
  BY <1>0, <1>5, TakeStep
<1>6. CASE PutGivenUp
  BY <1>0, <1>6, PutGivenUpStep
<1>7. CASE Translated
  BY <1>0, <1>7, TranslatedStep
<1>8. CASE PutDone
  BY <1>0, <1>8, PutDoneStep
<1>9. CASE UNCHANGED vars
  <2>1. UNCHANGED QueueVars /\ UNCHANGED <<verdict, worker, session, overran>>
    BY <1>9 DEF vars, QueueVars
  <2> QED
    BY <1>0, <2>1, QuietStep
    DEF IInv, QueueVars, Hands, Overrun, EndedOnlyPastDeadline
<1>10. ASSUME \/ WakeWorker \/ StopBegins \/ Poll \/ PollDeadline \/ FlagStop
              \/ WakeForStop \/ Join
       PROVE  IInv'
  <2>1. UNCHANGED <<QueueVars, verdict, worker>>
    BY <1>10 DEF WakeWorker, StopBegins, Poll, PollDeadline, FlagStop,
                 WakeForStop, Join, QueueVars, workerVars, stats
  <2>2. /\ session \notin {"refusing", "drained"}
        /\ session' \notin {"created", "refusing", "drained"}
    BY <1>10 DEF WakeWorker, StopBegins, Poll, PollDeadline, FlagStop,
                 WakeForStop, Join
  <2>3. /\ overran' = overran \/ overran' = TRUE
        /\ session' \in {"flagging", "flagged", "joining", "joined"} =>
             \/ waiting = <<>> \/ overran'
             \/ session \in {"flagging", "flagged", "joining", "joined"}
    BY <1>10 DEF WakeWorker, StopBegins, Poll, Emptied, PollDeadline, FlagStop,
                 WakeForStop, Join, IInv, TypeOK
  <2>4. NewestInOrder' /\ ExactlyOnce' /\ Decisions' /\ EvictsOldest'
    BY <2>1, QuietStep
  <2>5. Hands'
    BY <2>1, <2>2 DEF IInv, Hands, QueueVars
  <2>6. Overrun'
    BY <2>1, <2>3 DEF IInv, Overrun, QueueVars
  <2>7. EndedOnlyPastDeadline'
    BY <2>1, <2>3 DEF IInv, EndedOnlyPastDeadline
  <2> QED
    BY <1>0, <2>4, <2>5, <2>6, <2>7 DEF IInv
<1>11. ASSUME CheckStopping \/ AfterGivingUp \/ Woken \/ WaitTimesOut \/ ClearWake
       PROVE  IInv'
  <2>1. UNCHANGED <<QueueVars, verdict, overran, session>>
    BY <1>11 DEF CheckStopping, AfterGivingUp, Woken, WaitTimesOut, ClearWake,
                 QueueVars, sessionVars, stats
  <2>2. worker # "putting" /\ worker' # "putting"
    BY <1>11 DEF CheckStopping, AfterGivingUp, Woken, WaitTimesOut, ClearWake
  <2>3. NewestInOrder' /\ ExactlyOnce' /\ Decisions' /\ EvictsOldest'
    BY <2>1, <2>2, QuietStep
  <2>4. worker \notin {"off", "translating"}
    BY <1>11 DEF CheckStopping, AfterGivingUp, Woken, WaitTimesOut, ClearWake
  <2>5. /\ worker' = "translating" => job # None
        /\ worker = "givingUp" => /\ givingUp = <<>>
                                  /\ job # None => worker' = "translating"
    BY <1>11 DEF CheckStopping, AfterGivingUp, Woken, WaitTimesOut, ClearWake
  <2>6. Hands'
    BY <2>1, <2>2, <2>4, <2>5 DEF IInv, Hands, QueueVars
  <2>7. Overrun' /\ EndedOnlyPastDeadline'
    BY <2>1 DEF IInv, Overrun, EndedOnlyPastDeadline, QueueVars
  <2> QED
    BY <1>0, <2>3, <2>6, <2>7 DEF IInv
<1>12. CASE Start
  <2>1. UNCHANGED <<QueueVars, verdict, overran>> /\ session' = "running"
    BY <1>12 DEF Start, QueueVars, stats
  <2>2. session = "created" /\ worker' = "check"
    BY <1>12 DEF Start
  <2>3. worker = "off"
    BY <2>2 DEF IInv, Hands
  <2>4. NewestInOrder' /\ ExactlyOnce' /\ Decisions' /\ EvictsOldest'
    BY <2>1, <2>2, <2>3, QuietStep
  <2>5. Hands' /\ Overrun' /\ EndedOnlyPastDeadline'
    BY <2>1, <2>2, <2>3 DEF IInv, Hands, Overrun, EndedOnlyPastDeadline, QueueVars
  <2> QED
    BY <1>0, <2>4, <2>5 DEF IInv
<1>13. CASE Age
  <2>1. UNCHANGED <<QueueVars, verdict, overran, session, worker>>
    BY <1>13 DEF Age, QueueVars, stats, workerVars
  <2>2. NewestInOrder' /\ ExactlyOnce' /\ Decisions' /\ EvictsOldest'
    BY <2>1, QuietStep
  <2>3. Hands' /\ Overrun' /\ EndedOnlyPastDeadline'
    BY <2>1 DEF IInv, Hands, Overrun, EndedOnlyPastDeadline, QueueVars
  <2> QED
    BY <1>0, <2>2, <2>3 DEF IInv
<1> QED
  BY <1>1, <1>2, <1>3, <1>4, <1>5, <1>6, <1>7, <1>8, <1>9, <1>10, <1>11,
     <1>12, <1>13 DEF Next

(* The invariant at the start. *)
LEMMA InvInit == Init => IInv
<1> SUFFICES ASSUME Init PROVE IInv
  OBVIOUS
<1>1. TypeOK
  BY TypeInit
<1>2. waiting = <<>> /\ givingUp = <<>> /\ Elements(waiting) = {} /\ Elements(givingUp) = {}
  BY DEF Init, Elements
<1>3. NewestInOrder /\ Hands /\ Overrun
  BY <1>2 DEF Init, NewestInOrder, Hands, Overrun, None
<1>4. ExactlyOnce
  BY <1>2 DEF Init, ExactlyOnce, Copies, In, Nothing, None, Sentence
<1>5. Decisions
  BY DEF Init, Decisions, Undecided, Sentence
<1>6. EvictsOldest /\ EndedOnlyPastDeadline
  BY DEF Init, EvictsOldest, EndedOnlyPastDeadline
<1> QED
  BY <1>1, <1>3, <1>4, <1>5, <1>6 DEF IInv

(* The invariant holds in every state of every run. *)
LEMMA Invariance == Spec => []IInv
<1>1. IInv /\ [Next]_vars => IInv'
  BY InvStep
<1> QED
  BY InvInit, <1>1, PTL DEF Spec

(* No sentence is lost or answered twice, for every number of sentences,   *)
(* every depth and every interleaving of the session, the worker and the   *)
(* clock.                                                                  *)
THEOREM AnsweredExactlyOnce == Spec => []ExactlyOnce
<1>1. IInv => ExactlyOnce
  BY DEF IInv
<1> QED
  BY <1>1, Invariance, PTL

(* A full queue only ever drops its oldest. *)
THEOREM OldestIsEvicted == Spec => []EvictsOldest
<1>1. IInv => EvictsOldest
  BY DEF IInv
<1> QED
  BY <1>1, Invariance, PTL

(* A sentence is told that the meeting ended first only when stop() had    *)
(* used up its deadline with sentences still queued.                       *)
THEOREM EndedNeedsDeadline == Spec => []EndedOnlyPastDeadline
<1>1. IInv => EndedOnlyPastDeadline
  BY DEF IInv
<1> QED
  BY <1>1, Invariance, PTL

(* The worker overtakes nobody: what is older than its job is in no queue  *)
(* and so has its verdict.                                                 *)
THEOREM InOrder == Spec => []OvertakesNobody
<1>1. IInv => OvertakesNobody
  <2> SUFFICES ASSUME IInv, job # None, NEW s \in 1 .. job - 1
               PROVE  verdict[s] # "no"
    BY DEF OvertakesNobody
  <2>1. job \in Sentence /\ s \in Sentence /\ s # job /\ s < job
    BY MaxSentencesAssumption DEF IInv, TypeOK, Sentence
  <2>2. job <= submitted /\ job \notin Elements(waiting)
    BY <2>1, OnePlace
  <2>3. Elements(waiting) = submitted - Len(waiting) + 1 .. submitted
    BY IntervalElements, MaxSentencesAssumption DEF IInv, NewestInOrder, TypeOK
  <2>4. submitted \in Nat /\ Len(waiting) \in Nat
    BY MaxSentencesAssumption DEF IInv, TypeOK
  <2>5. s \notin Elements(waiting) /\ ~(s > submitted)
    BY <2>1, <2>2, <2>3, <2>4 DEF Sentence
  <2> QED
    BY <2>1, <2>5 DEF IInv, Decisions, Undecided
<1> QED
  BY <1>1, Invariance, PTL
-----------------------------------------------------------------------------
(* The wake-up.  From its take() on, a worker about to wait knows of every *)
(* sentence that came later: submit() appends it and then sets the event.  *)
(* And it has seen stopping unset, so a stop() that has set it since is    *)
(* about to set the event too.                                             *)
AboutToWait == worker = "waiting" \/ (worker = "givingUp" /\ job = None)

WakeInv ==
  /\ AboutToWait /\ waiting # <<>> => wake \/ session \in {"refusing", "waking"}
  /\ worker \in {"take", "givingUp", "waiting"} /\ stopping =>
       wake \/ session = "flagged"

(* Every step keeps a sentence that waits within the worker's sight. *)
LEMMA WakeStep ==
  ASSUME IInv, WakeInv, [Next]_vars
  PROVE  WakeInv'
<1> USE DEF WakeInv, AboutToWait, workerVars, sessionVars, events, stats
<1>1. CASE Start
  BY <1>1 DEF Start
<1>2. CASE Submit
  BY <1>2 DEF Submit
<1>3. CASE PutRefused
  BY <1>3 DEF PutRefused
<1>4. CASE WakeWorker
  BY <1>4 DEF WakeWorker
<1>5. CASE Collect
  BY <1>5 DEF Collect
<1>6. CASE StopBegins
  BY <1>6 DEF StopBegins
<1>7. CASE Poll
  BY <1>7 DEF Poll, Emptied
<1>8. CASE PollDeadline
  BY <1>8 DEF PollDeadline
<1>9. CASE FlagStop
  BY <1>9 DEF FlagStop
<1>10. CASE WakeForStop
  BY <1>10 DEF WakeForStop
<1>11. CASE Join
  BY <1>11 DEF Join
<1>12. CASE Drain
  BY <1>12 DEF Drain
<1>13. CASE StopReturns
  BY <1>13 DEF StopReturns
<1>14. CASE CheckStopping
  BY <1>14 DEF CheckStopping
<1>15. CASE Take
  <2>1. PICK k \in 0 .. Len(waiting) :
          /\ job' = IF k < Len(waiting) THEN waiting[k + 1] ELSE None
          /\ waiting' = Behind(k)
    BY <1>15 DEF Take
  <2>2. CASE k < Len(waiting)
    <3>1. waiting[k + 1] \in Sentence
      BY <2>2 DEF IInv, TypeOK
    <3>2. job' # None
      BY <2>1, <2>2, <3>1 DEF Sentence, None
    <3> QED
      BY <1>15, <3>2 DEF Take
  <2>3. CASE k = Len(waiting)
    <3>1. k + 2 \in 1 .. Len(waiting) + 2 /\ Len(waiting) \in 0 .. Len(waiting)
      BY DEF IInv, TypeOK
    <3>2. waiting \in Seq(Sentence)
      BY DEF IInv, TypeOK
    <3>3. Behind(k) \in Seq(Sentence) /\ Len(Behind(k)) = 0
      BY <2>3, <3>1, <3>2, SubSeqType DEF Behind
    <3>4. waiting' = <<>>
      BY <2>1, <3>3
    <3> QED
      BY <1>15, <3>4 DEF Take
  <2> QED
    BY <2>1, <2>2, <2>3
<1>16. CASE PutGivenUp
  BY <1>16 DEF PutGivenUp
<1>17. CASE AfterGivingUp
  BY <1>17 DEF AfterGivingUp
<1>18. CASE Translated
  BY <1>18 DEF Translated
<1>19. CASE PutDone
  BY <1>19 DEF PutDone
<1>20. CASE Woken
  BY <1>20 DEF Woken
<1>21. CASE WaitTimesOut
  BY <1>21 DEF WaitTimesOut
<1>22. CASE ClearWake
  BY <1>22 DEF ClearWake
<1>23. CASE Age
  BY <1>23 DEF Age
<1>24. CASE UNCHANGED vars
  BY <1>24 DEF vars
<1> QED
  BY <1>1, <1>2, <1>3, <1>4, <1>5, <1>6, <1>7, <1>8, <1>9, <1>10, <1>11,
     <1>12, <1>13, <1>14, <1>15, <1>16, <1>17, <1>18, <1>19, <1>20, <1>21,
     <1>22, <1>23, <1>24 DEF Next

(* No wake-up is lost: a worker asleep with a sentence queued, or told to  *)
(* stop, has its event set, or the thread about to set it is on its way.   *)
THEOREM NoWakeIsLost == Spec => []NoLostWake
<1>1. Init => WakeInv
  BY DEF Init, WakeInv, AboutToWait
<1>2. IInv /\ WakeInv /\ [Next]_vars => WakeInv'
  BY WakeStep
<1>3. WakeInv => NoLostWake
  BY DEF WakeInv, AboutToWait, NoLostWake
<1> QED
  BY <1>1, <1>2, <1>3, Invariance, PTL DEF Spec

-----------------------------------------------------------------------------
(* The end of a meeting.  What stop() leaves behind when it has forgotten  *)
(* the thread: nothing but the sentence cut, which the worker still puts   *)
(* on the done queue before it sees that it is to end.                     *)
AfterJoin ==
  /\ session \in {"running", "refusing", "waking"} => thread
  /\ session \in {"flagged", "joining", "joined", "drained", "stopped"} =>
       stopping
  /\ session \in {"joined", "drained", "stopped"} => ~thread
  /\ worker = "off" => ~thread /\ submitted = 0
  /\ ~thread =>
       /\ worker \in {"off", "translating", "putting", "check", "ended"}
       /\ worker \in {"translating", "putting"} => job = cut
       /\ worker = "check" => stopping
       /\ worker # "off" => stopping

LeftBehind ==
  /\ session \in {"drained", "stopped"} => waiting = <<>>
  /\ session = "stopped" => \A s \in Sentence : done[s] # 0 => s = cut

StopInv == AfterJoin /\ LeftBehind

(* Every step keeps the account of what stop() left behind. *)
LEMMA AfterJoinStep ==
  ASSUME IInv, AfterJoin, [Next]_vars
  PROVE  AfterJoin'
<1> USE DEF AfterJoin, workerVars, sessionVars, events, stats
<1>1. CASE Start
  BY <1>1 DEF Start
<1>2. CASE Submit
  BY <1>2 DEF Submit
<1>3. CASE PutRefused
  BY <1>3 DEF PutRefused
<1>4. CASE WakeWorker
  BY <1>4 DEF WakeWorker
<1>5. CASE Collect
  BY <1>5 DEF Collect
<1>6. CASE StopBegins
  BY <1>6 DEF StopBegins
<1>7. CASE Poll
  BY <1>7 DEF Poll, Emptied
<1>8. CASE PollDeadline
  BY <1>8 DEF PollDeadline
<1>9. CASE FlagStop
  BY <1>9 DEF FlagStop
<1>10. CASE WakeForStop
  BY <1>10 DEF WakeForStop
<1>11. CASE Join
  BY <1>11 DEF Join
<1>12. CASE Drain
  BY <1>12 DEF Drain
<1>13. CASE StopReturns
  BY <1>13 DEF StopReturns
<1>14. CASE CheckStopping
  BY <1>14 DEF CheckStopping
<1>15. CASE Take
  BY <1>15 DEF Take
<1>16. CASE PutGivenUp
  BY <1>16 DEF PutGivenUp
<1>17. CASE AfterGivingUp
  BY <1>17 DEF AfterGivingUp
<1>18. CASE Translated
  BY <1>18 DEF Translated
<1>19. CASE PutDone
  BY <1>19 DEF PutDone
<1>20. CASE Woken
  BY <1>20 DEF Woken
<1>21. CASE WaitTimesOut
  BY <1>21 DEF WaitTimesOut
<1>22. CASE ClearWake
  BY <1>22 DEF ClearWake
<1>23. CASE Age
  BY <1>23 DEF Age
<1>24. CASE UNCHANGED vars
  BY <1>24 DEF vars
<1> QED
  BY <1>1, <1>2, <1>3, <1>4, <1>5, <1>6, <1>7, <1>8, <1>9, <1>10, <1>11,
     <1>12, <1>13, <1>14, <1>15, <1>16, <1>17, <1>18, <1>19, <1>20, <1>21,
     <1>22, <1>23, <1>24 DEF Next
(* done, leftover and returned together, where they move. *)
LEMMA LeftBehindStep ==
  ASSUME IInv, AfterJoin, LeftBehind, [Next]_vars
  PROVE  LeftBehind'
<1> USE DEF LeftBehind, workerVars, sessionVars, events, stats
<1>1. CASE Start
  BY <1>1 DEF Start
<1>2. CASE Submit
  BY <1>2 DEF Submit
<1>3. CASE PutRefused
  BY <1>3 DEF PutRefused
<1>4. CASE WakeWorker
  BY <1>4 DEF WakeWorker
<1>5. CASE Collect
  BY <1>5 DEF Collect
<1>6. CASE StopBegins
  BY <1>6 DEF StopBegins
<1>7. CASE Poll
  BY <1>7 DEF Poll, Emptied
<1>8. CASE PollDeadline
  BY <1>8 DEF PollDeadline
<1>9. CASE FlagStop
  BY <1>9 DEF FlagStop
<1>10. CASE WakeForStop
  BY <1>10 DEF WakeForStop
<1>11. CASE Join
  BY <1>11 DEF Join
<1>12. CASE Drain
  BY <1>12 DEF Drain
<1>13. CASE StopReturns
  BY <1>13 DEF StopReturns, Nothing
<1>14. CASE CheckStopping
  BY <1>14 DEF CheckStopping
<1>15. CASE Take
  BY <1>15 DEF Take, AfterJoin
<1>16. CASE PutGivenUp
  BY <1>16 DEF PutGivenUp, AfterJoin
<1>17. CASE AfterGivingUp
  BY <1>17 DEF AfterGivingUp
<1>18. CASE Translated
  BY <1>18 DEF Translated
<1>19. CASE PutDone
  BY <1>19 DEF PutDone, Plus, AfterJoin
<1>20. CASE Woken
  BY <1>20 DEF Woken
<1>21. CASE WaitTimesOut
  BY <1>21 DEF WaitTimesOut
<1>22. CASE ClearWake
  BY <1>22 DEF ClearWake
<1>23. CASE Age
  BY <1>23 DEF Age
<1>24. CASE UNCHANGED vars
  BY <1>24 DEF vars
<1> QED
  BY <1>1, <1>2, <1>3, <1>4, <1>5, <1>6, <1>7, <1>8, <1>9, <1>10, <1>11,
     <1>12, <1>13, <1>14, <1>15, <1>16, <1>17, <1>18, <1>19, <1>20, <1>21,
     <1>22, <1>23, <1>24 DEF Next

(* When stop() has returned, a sentence that was not returned has nowhere  *)
(* left to be but in the worker's hands or on the done queue, and then it  *)
(* is the one cut.                                                         *)
LEMMA OnlyCutIsMissing == IInv /\ StopInv => AllButCutAnswered
<1> SUFFICES ASSUME IInv, StopInv, session = "stopped",
                    NEW s \in 1 .. submitted, s # cut
             PROVE  returned[s] = 1
  BY DEF AllButCutAnswered
<1>1. s \in Sentence /\ In(s, 1 .. submitted) = 1
  BY MaxSentencesAssumption DEF IInv, TypeOK, Sentence, In
<1>2. waiting = <<>> /\ givingUp = <<>> /\ refused = None
  BY DEF IInv, Hands, StopInv, AfterJoin, LeftBehind
<1>3. In(s, Elements(waiting)) = 0 /\ In(s, Elements(givingUp)) = 0
  BY <1>2 DEF Elements, In
<1>4. In(s, {refused}) = 0
  BY <1>1, <1>2 DEF In, None, Sentence
<1>5. s # job
  <2>1. job # None => job = cut
    BY DEF IInv, Hands, StopInv, AfterJoin
  <2> QED
    BY <1>1, <2>1 DEF None, Sentence
<1>6. In(s, {job}) = 0
  BY <1>5 DEF In
<1>7. done[s] = 0
  BY <1>1 DEF StopInv, LeftBehind
<1>8. leftover[s] = 0
  BY <1>1 DEF IInv, Hands, Nothing
<1>9. returned[s] \in Nat
  BY <1>1 DEF IInv, TypeOK
<1> QED
  BY <1>1, <1>3, <1>4, <1>6, <1>7, <1>8, <1>9
  DEF IInv, ExactlyOnce, Copies

(* What stop() accounts for, whatever the deadlines do: only past the      *)
(* deadline is a sentence told that the meeting ended, and when stop() has *)
(* returned every sentence was returned once, but for the one that was     *)
(* with the translator when the join timed out.                            *)
THEOREM StopAccountsForAll == Spec => []StopAccounts
<1>1. Init => StopInv
  BY DEF Init, StopInv, AfterJoin, LeftBehind
<1>2. IInv /\ StopInv /\ [Next]_vars => StopInv'
  BY AfterJoinStep, LeftBehindStep DEF StopInv
<1>3. IInv /\ StopInv => StopAccounts
  BY OnlyCutIsMissing DEF StopAccounts, IInv
<1> QED
  BY <1>1, <1>2, <1>3, Invariance, PTL DEF Spec

-----------------------------------------------------------------------------
(* The refinement.  A step of the threads that gives sentences their       *)
(* verdicts is Answer or, when it is submit() that evicts, Commit; one     *)
(* that hands Done objects over is Hear; all others stutter.               *)

(* The sentences that leave the queue or the translator have no verdict    *)
(* yet.                                                                    *)
LEMMA StillUnanswered ==
  ASSUME IInv, NEW S \in SUBSET Sentence,
         \A s \in S : s \in Elements(waiting) \/ (s = job /\ worker = "translating")
  PROVE  S \subseteq Promise!Unanswered
<1> SUFFICES ASSUME NEW s \in S
             PROVE  s \in 1 .. submitted /\ verdict[s] = "no"
  BY DEF Promise!Unanswered
<1>1. s \in Sentence /\ Undecided(s)
  BY DEF Undecided
<1>2. verdict[s] = "no"
  BY <1>1 DEF IInv, Decisions
<1>3. Copies(s) >= 1
  <2>1. In(s, Elements(waiting)) = 1 \/ In(s, {job}) = 1
    BY DEF In
  <2>2. /\ In(s, Elements(waiting)) \in {0, 1} /\ In(s, Elements(givingUp)) \in {0, 1}
        /\ In(s, {refused}) \in {0, 1} /\ In(s, {job}) \in {0, 1}
        /\ done[s] \in Nat /\ leftover[s] \in Nat /\ returned[s] \in Nat
    BY <1>1, OnePlace
  <2> QED
    BY <2>1, <2>2, SMTT(30) DEF Copies
<1>4. s \in 1 .. submitted
  BY <1>1, <1>3 DEF IInv, ExactlyOnce, In
<1> QED
  BY <1>2, <1>4

(* What Settle does is what the promise calls giving answers. *)
LEMMA GivesAnswers ==
  ASSUME IInv, NEW S \in SUBSET Promise!Unanswered, NEW v \in Verdict \ {"no"},
         verdict' = Settle(S, v)
  PROVE  \E T \in SUBSET Promise!Unanswered : Promise!GiveAnswers(T)
BY DEF Settle, Promise!GiveAnswers, Promise!Sentence, Sentence

(* What is handed over was answered and is new to the session. *)
LEMMA HandsOver ==
  ASSUME IInv, NEW c \in [Sentence -> Nat], returned' = Together(returned, c),
         \A s \in Sentence : c[s] <= done[s] + leftover[s]
  PROVE  \E S \in SUBSET Promise!Unheard :
           returned' = [s \in Promise!Sentence |->
                          IF s \in S THEN 1 ELSE returned[s]]
<1> DEFINE S == {s \in Sentence : c[s] # 0}
<1>1. ASSUME NEW s \in S
      PROVE  /\ s \in 1 .. submitted /\ verdict[s] # "no"
             /\ returned[s] = 0 /\ c[s] = 1
  <2>1. s \in Sentence /\ c[s] \in Nat /\ c[s] # 0
    OBVIOUS
  <2>2. /\ In(s, Elements(waiting)) \in {0, 1} /\ In(s, Elements(givingUp)) \in {0, 1}
        /\ In(s, {refused}) \in {0, 1} /\ In(s, {job}) \in {0, 1}
        /\ done[s] \in Nat /\ leftover[s] \in Nat /\ returned[s] \in Nat
    BY <2>1, OnePlace
  <2>3. Copies(s) = In(s, 1 .. submitted)
    BY DEF IInv, ExactlyOnce
  <2>4. In(s, 1 .. submitted) \in {0, 1}
    BY DEF In
  <2>5. /\ c[s] = 1 /\ returned[s] = 0 /\ In(s, 1 .. submitted) = 1
        /\ In(s, Elements(waiting)) = 0 /\ In(s, {job}) = 0
    <3> DEFINE w == In(s, Elements(waiting))
               g == In(s, Elements(givingUp))
               r == In(s, {refused})
               j == In(s, {job})
               n == In(s, 1 .. submitted)
    <3>1. c[s] <= done[s] + leftover[s]
      BY <2>1
    <3>2. w + g + r + j + done[s] + leftover[s] + returned[s] = n
      BY <2>3 DEF Copies
    <3>3. /\ w \in Nat /\ g \in Nat /\ r \in Nat /\ j \in Nat /\ n \in Nat /\ n <= 1
          /\ done[s] \in Nat /\ leftover[s] \in Nat /\ returned[s] \in Nat
          /\ c[s] \in Nat /\ c[s] # 0
      BY <2>1, <2>2, <2>4
    <3> HIDE DEF w, g, r, j, n, S
    <3>4. c[s] = 1 /\ returned[s] = 0 /\ n = 1 /\ w = 0 /\ j = 0
      BY <3>1, <3>2, <3>3, SMTT(30)
    <3> QED
      BY <3>4 DEF w, j, n
  <2>6. s \in 1 .. submitted /\ s \notin Elements(waiting) /\ s # job
    BY <2>5 DEF In
  <2>7. ~Undecided(s)
    BY <2>6, MaxSentencesAssumption DEF Undecided, IInv, TypeOK
  <2>8. verdict[s] # "no"
    BY <2>1, <2>7 DEF IInv, Decisions
  <2> QED
    BY <2>5, <2>6, <2>8
<1>2. S \subseteq Promise!Unheard
  BY <1>1 DEF Promise!Unheard
<1>3. ASSUME NEW s \in Sentence
      PROVE  returned[s] + c[s] = IF s \in S THEN 1 ELSE returned[s]
  <2>1. returned[s] \in Nat /\ c[s] \in Nat
    BY DEF IInv, TypeOK
  <2>2. CASE s \in S
    BY <1>1, <2>1, <2>2
  <2>3. CASE s \notin S
    BY <2>1, <2>3
  <2> QED
    BY <2>2, <2>3
<1>4. returned' = [s \in Sentence |-> IF s \in S THEN 1 ELSE returned[s]]
  BY <1>3 DEF Together
<1> QED
  BY <1>2, <1>4 DEF Promise!Sentence, Sentence

(* Every step of the worker or the session is one of the promise, or none. *)
LEMMA LedgerStep ==
  ASSUME IInv, [Next]_vars
  PROVE  [Promise!LedgerNext]_(Promise!ledgerVars)
<1> USE DEF Promise!LedgerNext, Promise!ledgerVars
<1>1. CASE Submit
  <2>1. submitted + 1 \in Promise!Sentence /\ submitted' = submitted + 1
        /\ returned' = returned
    BY <1>1 DEF Submit, Sentence, Promise!Sentence
  <2>2. \E S \in SUBSET Promise!Unanswered : Promise!GiveAnswers(S)
    <3>1. CASE Full
      <4>1. waiting # <<>> /\ waiting \in Seq(Sentence)
        BY <3>1, DepthAssumption DEF Full, IInv, TypeOK
      <4>2. Evicted \in Elements(waiting) /\ Evicted \in Sentence
        BY <4>1 DEF Evicted, Elements
      <4>3. {Evicted} \subseteq Promise!Unanswered
        BY <4>2, StillUnanswered
      <4>4. verdict' = Settle({Evicted}, "full")
        BY <1>1, <3>1 DEF Submit
      <4> QED
        BY <4>3, <4>4, GivesAnswers DEF Verdict
    <3>2. CASE ~Full
      <4>1. verdict' = verdict
        BY <1>1, <3>2 DEF Submit
      <4>2. verdict' = Settle({}, "full")
        BY <4>1 DEF Settle, IInv, TypeOK
      <4> QED
        BY <4>2, GivesAnswers DEF Verdict
    <3> QED
      BY <3>1, <3>2
  <2>3. Promise!Commit
    BY <2>1, <2>2 DEF Promise!Commit
  <2> QED
    BY <2>3
<1>2. CASE Take
  <2>1. PICK k \in 0 .. Len(waiting) :
          /\ givingUp' = GivenUp(k)
          /\ verdict' = Settle(Elements(givingUp'), "late")
    BY <1>2 DEF Take
  <2>2. waiting \in Seq(Sentence) /\ k \in 0 .. Len(waiting)
    BY DEF IInv, TypeOK
  <2>3. \A s \in Elements(givingUp') : s \in Elements(waiting) /\ s \in Sentence
    BY <2>1, <2>2, SubSeqType DEF GivenUp, Elements
  <2>4. Elements(givingUp') \subseteq Promise!Unanswered
    BY <2>3, StillUnanswered
  <2>5. \E S \in SUBSET Promise!Unanswered : Promise!GiveAnswers(S)
    BY <2>1, <2>4, GivesAnswers DEF Verdict
  <2>6. UNCHANGED <<submitted, returned>>
    BY <1>2 DEF Take, sessionVars
  <2> QED
    BY <2>5, <2>6 DEF Promise!Answer
<1>3. CASE Drain
  <2>1. verdict' = Settle(Elements(waiting), "ended")
        /\ UNCHANGED <<submitted, returned>>
    BY <1>3 DEF Drain
  <2>2. waiting \in Seq(Sentence)
    BY DEF IInv, TypeOK
  <2>3. Elements(waiting) \subseteq Sentence
    BY <2>2 DEF Elements
  <2>4. Elements(waiting) \subseteq Promise!Unanswered
    BY <2>3, StillUnanswered
  <2>5. \E S \in SUBSET Promise!Unanswered : Promise!GiveAnswers(S)
    BY <2>1, <2>4, GivesAnswers DEF Verdict
  <2> QED
    BY <2>1, <2>5 DEF Promise!Answer
<1>4. CASE Translated
  <2>1. PICK v \in {"translated", "failed"} : verdict' = Settle({job}, v)
    BY <1>4 DEF Translated
  <2>2. worker = "translating" /\ job \in Sentence
    BY <1>4 DEF Translated, IInv, TypeOK, Hands
  <2>3. {job} \subseteq Promise!Unanswered
    BY <2>2, StillUnanswered
  <2>4. \E S \in SUBSET Promise!Unanswered : Promise!GiveAnswers(S)
    BY <2>1, <2>3, GivesAnswers DEF Verdict
  <2>5. UNCHANGED <<submitted, returned>>
    BY <1>4 DEF Translated, sessionVars
  <2> QED
    BY <2>4, <2>5 DEF Promise!Answer
<1>5. CASE Collect
  <2>1. returned' = Together(returned, done) /\ UNCHANGED <<submitted, verdict>>
    BY <1>5 DEF Collect, stats
  <2>2. done \in [Sentence -> Nat] /\ leftover \in [Sentence -> Nat]
    BY DEF IInv, TypeOK
  <2>3. \A s \in Sentence : done[s] <= done[s] + leftover[s]
    BY <2>2
  <2> QED
    BY <2>1, <2>2, <2>3, HandsOver DEF Promise!Hear
<1>6. CASE StopReturns
  <2>1. returned' = Together(returned, Together(done, leftover))
        /\ UNCHANGED <<submitted, verdict>>
    BY <1>6 DEF StopReturns, LastAnswers, stats
  <2>2. Together(done, leftover) \in [Sentence -> Nat]
    BY CountsType DEF IInv, TypeOK
  <2>3. \A s \in Sentence : Together(done, leftover)[s] <= done[s] + leftover[s]
    BY DEF IInv, TypeOK, Together
  <2> QED
    BY <2>1, <2>2, <2>3, HandsOver DEF Promise!Hear
<1>7. ASSUME \/ Start \/ PutRefused \/ WakeWorker \/ StopBegins \/ Poll
             \/ PollDeadline \/ FlagStop \/ WakeForStop \/ Join \/ Age
             \/ CheckStopping \/ PutGivenUp \/ AfterGivingUp \/ PutDone
             \/ Woken \/ WaitTimesOut \/ ClearWake \/ UNCHANGED vars
      PROVE  UNCHANGED <<submitted, verdict, returned>>
  BY <1>7 DEF Start, PutRefused, WakeWorker, StopBegins, Poll, PollDeadline,
              FlagStop, WakeForStop, Join, Age, CheckStopping, PutGivenUp,
              AfterGivingUp, PutDone, Woken, WaitTimesOut, ClearWake, vars,
              sessionVars, workerVars, events, stats
<1> QED
  BY <1>1, <1>2, <1>3, <1>4, <1>5, <1>6, <1>7 DEF Next

(* The queue, its worker and the session together keep the promise of      *)
(* AnswerLedger: one sentence at a time is committed, an answer once given *)
(* stays as it is, and it is heard once and not before it was given.       *)
THEOREM WorkerKeepsPromise == Spec => KeepsPromise
<1>1. Init => Promise!LedgerInit
  BY DEF Init, Nothing, Sentence, Promise!LedgerInit, Promise!Sentence
<1>2. IInv /\ [Next]_vars => [Promise!LedgerNext]_(Promise!ledgerVars)
  BY LedgerStep
<1> QED
  BY <1>1, <1>2, Invariance, PTL DEF Spec, KeepsPromise, Promise!Ledger
=============================================================================
