--------------------------- MODULE LanguagesProofs ---------------------------
(* Theorems about Languages, for utterances of every length, every number  *)
(* of halvings and a history of every size.                                *)
EXTENDS Languages, WellFoundedInduction, TLAPS

-----------------------------------------------------------------------------
(* The operators of the model.                                             *)

(* A set of natural numbers that is not empty has a least one. *)
LEMMA LeastExists ==
  ASSUME NEW S \in SUBSET Nat, S # {}
  PROVE  \E i \in S : \A j \in S : i <= j
<1>1. PICK x \in S : \A y \in S : ~(<<y, x>> \in OpToRel(<, Nat))
  BY NatLessThanWellFounded, WFMin
<1>2. ASSUME NEW j \in S, ~(x <= j)  PROVE FALSE
  <2>1. j < x
    BY <1>2
  <2>2. <<j, x>> \in OpToRel(<, Nat)
    BY <2>1 DEF OpToRel
  <2> QED
    BY <1>1, <2>2
<1> QED
  BY <1>2

(* There is a function that doubles with every halving up to the n-th. *)
Doubles(f, n) ==
  f = [i \in 0 .. n |-> IF i = 0 THEN 1 ELSE 2 * f[i - 1]]

(* The least n without one would have one, made of the one before.         *)
LEMMA DoublesExists ==
  ASSUME NEW n \in Nat
  PROVE  \E f : Doubles(f, n) /\ f \in [0 .. n -> Nat \ {0}]
<1> DEFINE Good(f, m) == Doubles(f, m) /\ f \in [0 .. m -> Nat \ {0}]
           Bad == {m \in Nat : ~\E f : Good(f, m)}
<1>1. Bad = {}
  <2> SUFFICES ASSUME Bad # {}  PROVE FALSE
    OBVIOUS
  <2>1. PICK m \in Bad : \A k \in Bad : m <= k
    <3>1. Bad \in SUBSET Nat
      OBVIOUS
    <3> HIDE DEF Bad
    <3> QED
      BY <3>1, LeastExists
  <2>2. CASE m = 0
    <3> DEFINE g == [i \in 0 .. 0 |-> 1]
    <3>1. Good(g, 0)
      BY DEF Doubles
    <3> QED
      BY <2>1, <2>2, <3>1
  <2>3. CASE m # 0
    <3>1. m - 1 \in Nat /\ ~(m <= m - 1)
      BY <2>1, <2>3
    <3>2. PICK f : Good(f, m - 1)
      BY <2>1, <3>1
    <3> DEFINE g == [i \in 0 .. m |-> IF i = 0 THEN 1 ELSE 2 * f[i - 1]]
    <3>3. \A i \in 0 .. m - 1 : f[i] \in Nat \ {0}
      BY <3>2
    <3>4. \A i \in 0 .. m : i # 0 => i - 1 \in 0 .. m - 1 /\ i - 1 \in 0 .. m
      BY <3>1
    <3>5. \A i \in 0 .. m - 1 : g[i] = f[i]
      BY <3>1, <3>2 DEF Doubles
    <3>6. g = [i \in 0 .. m |-> IF i = 0 THEN 1 ELSE 2 * g[i - 1]]
      BY <3>4, <3>5
    <3>7. g \in [0 .. m -> Nat \ {0}]
      BY <3>3, <3>4
    <3>8. Good(g, m)
      BY <3>6, <3>7 DEF Doubles
    <3> QED
      BY <2>1, <3>8
  <2> QED
    BY <2>2, <2>3
<1> QED
  BY <1>1

(* Powers of two. *)
LEMMA PowerIs ==
  /\ Power[0] = 1
  /\ \A n \in 0 .. Steps : Power[n] \in Nat \ {0}
  /\ \A n \in 0 .. Steps - 1 : Power[n + 1] = 2 * Power[n]
<1>1. PICK f : Doubles(f, Steps) /\ f \in [0 .. Steps -> Nat \ {0}]
  BY DoublesExists, SplitAssumption
<1>2. Doubles(Power, Steps)
  <2> DEFINE D(g) == g = [i \in 0 .. Steps |->
                           IF i = 0 THEN 1 ELSE 2 * g[i - 1]]
  <2>1. Power = CHOOSE g : D(g)
    BY DEF Power
  <2>2. D(f)
    BY <1>1 DEF Doubles
  <2> HIDE DEF D
  <2>3. D(Power)
    BY <2>1, <2>2
  <2> QED
    BY <2>3 DEF D, Doubles
<1> HIDE DEF Power
<1>3. \A i \in 0 .. Steps :
        Power[i] = IF i = 0 THEN 1 ELSE 2 * Power[i - 1]
  BY <1>2 DEF Doubles
<1>4. Steps \in Nat
  BY SplitAssumption
<1>5. \A i \in 0 .. Steps : Power[i] = f[i]
  <2> DEFINE Bad == {i \in 0 .. Steps : Power[i] # f[i]}
  <2> SUFFICES ASSUME Bad # {}  PROVE FALSE
    OBVIOUS
  <2>1. PICK m \in Bad : \A k \in Bad : m <= k
    <3>1. Bad \in SUBSET Nat
      BY <1>4
    <3> HIDE DEF Bad
    <3> QED
      BY <3>1, LeastExists
  <2>2. \A i \in 0 .. Steps : f[i] = IF i = 0 THEN 1 ELSE 2 * f[i - 1]
    BY <1>1 DEF Doubles
  <2>3. m \in 0 .. Steps /\ Power[m] # f[m]
    BY <2>1
  <2>4. m # 0
    BY <1>3, <2>2, <2>3
  <2>5. m - 1 \in 0 .. Steps /\ ~(m <= m - 1)
    BY <1>4, <2>3, <2>4
  <2>6. Power[m - 1] = f[m - 1]
    BY <2>1, <2>5
  <2> QED
    BY <1>3, <2>2, <2>3, <2>4, <2>6
<1>6. \A i \in 0 .. Steps : Power[i] \in Nat \ {0}
  BY <1>1, <1>5
<1>7. ASSUME NEW n \in 0 .. Steps - 1  PROVE Power[n + 1] = 2 * Power[n]
  <2>1. n + 1 \in 0 .. Steps /\ n + 1 # 0 /\ (n + 1) - 1 = n
    BY <1>4
  <2> QED
    BY <1>3, <2>1
<1>8. 0 \in 0 .. Steps
  BY <1>4
<1> QED
  BY <1>3, <1>6, <1>7, <1>8

(* The other language of the pair. *)
LEMMA PartnerIs ==
  ASSUME NEW l \in Pair  PROVE Partner(l) \in Pair /\ Partner(l) # l
BY DEF Pair, Partner

(* What identify() may answer: a language of the pair only when there is   *)
(* some of it in the audio.                                                *)
LEMMA IdentifiedIs ==
  ASSUME NEW u, u.first \in Pair, NEW a, NEW z, NEW l \in Identified(u, a, z)
  PROVE  /\ l \in Pair \cup {Unknown}
         /\ l = u.first => a < u.change
         /\ l = Partner(u.first) => u.change < z
<1>1. Partner(u.first) \in Pair /\ Partner(u.first) # u.first
  BY PartnerIs
<1>2. Unknown \notin Pair
  BY DEF Unknown, Pair
<1>3. \/ l = Unknown
      \/ l = u.first /\ a < u.change
      \/ l = Partner(u.first) /\ u.change < z
  BY DEF Identified, Heard
<1> QED
  BY <1>1, <1>2, <1>3

(* A place in an utterance. *)
LEMMA FrameIs ==
  ASSUME NEW n \in Lengths \cup {Probe}, NEW x \in 0 .. n  PROVE x \in Frame
BY DEF Frame

(* remember() keeps to the size of the history; only one of no size stays  *)
(* empty.                                                                  *)
LEMMA RememberIs ==
  ASSUME NEW s \in Sentence, history \in Seq(Sentence), Len(history) <= Size
  PROVE  /\ Remember(s) \in Seq(Sentence) /\ Len(Remember(s)) <= Size
         /\ Size = 0 => Remember(s) = <<>>
         /\ Size # 0 => Remember(s) # <<>>
<1> DEFINE all == Append(history, s)
<1>1. all \in Seq(Sentence) /\ Len(all) = Len(history) + 1
      /\ Len(history) \in Nat
  OBVIOUS
<1> HIDE DEF all
<1>2. CASE Len(all) > Size
  <2> DEFINE k == Len(all) - Size + 1
             q == SubSeq(all, k, Len(all))
  <2>1. k \in 1 .. Len(all) + 1 /\ Len(all) - k + 1 = Size
    BY <1>1, <1>2, SplitAssumption
  <2>2. q \in Seq(Sentence) /\ Len(q) = Size
    BY <1>1, <2>1, SplitAssumption
  <2>3. Remember(s) = q
    BY <1>2 DEF Remember, all
  <2> HIDE DEF q
  <2>4. (Size = 0 => q = <<>>) /\ (Size # 0 => q # <<>>)
    BY <2>2
  <2> QED
    BY <2>2, <2>3, <2>4, SplitAssumption
<1>3. CASE Len(all) <= Size
  <2>1. Remember(s) = all
    BY <1>1, <1>3, SplitAssumption DEF Remember, all
  <2>2. all # <<>> /\ Size # 0
    BY <1>1, <1>3
  <2> QED
    BY <1>1, <1>3, <2>1, <2>2
<1> QED
  BY <1>1, <1>2, <1>3, SplitAssumption

(* The cut is at the boundary, or before it and no further than the search *)
(* goes.                                                                   *)
LEMMA CutPointsAre ==
  ASSUME NEW limit \in Nat \ {0}, NEW c \in CutPoints(limit)
  PROVE  c \in 1 .. limit /\ limit - c <= Search
BY SplitAssumption DEF CutPoints

-----------------------------------------------------------------------------
(* The gap that is left.                                                   *)

(* A halving: of d + 1 frames at most (d + 1) \div 2 + 1 are left. *)
LEMMA Halved ==
  ASSUME NEW d \in Nat, NEW e \in Nat, NEW x \in Nat,
         NEW p \in Nat \ {0}, NEW q \in Nat,
         d * p < x, q = 2 * p, 2 * e <= d
  PROVE  e * q < x
<1>1. e * q = (2 * e) * p
  OBVIOUS
<1>2. (2 * e) * p <= d * p
  OBVIOUS
<1> QED
  BY <1>1, <1>2

(* After the last one no more is left than the p-th part of the gap. *)
LEMMA PartIs ==
  ASSUME NEW d \in Nat, NEW x \in Nat, NEW p \in Nat \ {0}, (d - 1) * p < x
  PROVE  d <= (x + p - 1) \div p
<1> DEFINE y == x + p - 1
<1>1. d * p <= y /\ y \in Nat
  OBVIOUS
<1> HIDE DEF y
<1>2. PICK q \in Nat, r \in 0 .. p - 1 : y = q * p + r /\ y \div p = q
  <2>1. y \div p \in Nat
    BY <1>1
  <2> QED
    BY <1>1, <2>1
<1>3. d <= q
  <2> SUFFICES ASSUME q < d  PROVE FALSE
    OBVIOUS
  <2>1. (q + 1) * p <= d * p
    OBVIOUS
  <2> QED
    BY <1>1, <1>2, <2>1
<1> QED
  BY <1>2, <1>3 DEF y

-----------------------------------------------------------------------------
(* The invariants.                                                         *)

(* Where the session is with the utterance and the sentence at hand. *)
SessionInv ==
  /\ Len(said) <= MaxSentences
  /\ IF at \in {"remember", "submit"} THEN queued = Len(said) - 1
                                      ELSE queued = Len(said)
  /\ doing # "nothing" => taken >= 1
  /\ at # "idle" => utt.length \in Lengths
  /\ at \in {"idle", "search"} => parts = <<>> /\ cut = None
  /\ at = "idle" => unsure = FALSE
  /\ at # "search" => tries = 0

(* A sentence the worker has was remembered before, so that a first prompt *)
(* without a history is only asked when there never is one.                *)
HistoryInv ==
  /\ queued >= 1 \/ at = "submit" => history # <<>> \/ Size = 0
  /\ Size = 0 => history = <<>>
  /\ doing = "asked" => prompt # <<>> \/ Size = 0
  /\ doing = "again" => prompt # <<>>

(* Once there was a decision there is a last language, and what comes      *)
(* after the identifier went off comes after the sentences there were.     *)
CarriedInv ==
  /\ decided <= Len(said) /\ off <= Len(said)
  /\ decided # -1 => lastLanguage \in Pair
  /\ LanguageIsCarried

(* The probe at the lower bound heard the first language, and the one at   *)
(* the upper bound the second, or was left undecided before the change;    *)
(* and each halving has halved what lies between.                          *)
SearchInv ==
  at = "search" =>
    /\ Probe <= low /\ low < high /\ high <= utt.length - Probe
    /\ utt.change < utt.length
    /\ low - utt.change < Probe
    /\ ~unsure => utt.change - high < Probe
    /\ (high - low - 1) * Power[tries] < utt.length - 2 * Probe

-----------------------------------------------------------------------------
(* The actions with a choice in them.                                      *)

(* The utterance at hand, ... *)
LEMMA UttIs ==
  ASSUME TypeOK
  PROVE  /\ utt.first \in Pair /\ utt.length \in Nat \ {0}
         /\ utt.change \in 1 .. utt.length
<1>1. /\ utt.first \in Pair /\ utt.length \in Lengths \cup {1}
      /\ utt.change \in 1 .. utt.length
  BY DEF TypeOK
<1>2. \A n \in Lengths \cup {1} : n \in Nat \ {0}
  BY BoundsAssumption
<1> QED
  BY <1>1, <1>2

(* ... and the bounds of its search. *)
LEMMA BoundsAre ==
  ASSUME TypeOK, at = "search"  PROVE low \in Nat /\ high \in Nat /\ low < high
<1>1. low \in Frame /\ high \in Frame /\ low < high
  BY DEF TypeOK
<1>2. Frame \subseteq Nat
  BY SplitAssumption, BoundsAssumption DEF Frame
<1> QED
  BY <1>1, <1>2

(* What a stage leaves of its count of failures. *)
LEMMA FailuresAre ==
  ASSUME TypeOK, NEW stage \in Stage,
         Succeeded(stage) \/ Raised(stage) \/ UNCHANGED failures
  PROVE  failures' \in [Stage -> 0 .. Limit]
<1>1. failures \in [Stage -> 0 .. Limit] /\ Limit \in Nat \ {0}
  BY SplitAssumption DEF TypeOK
<1>2. failures[stage] \in 0 .. Limit
  BY <1>1
<1>3. 0 \in 0 .. Limit
      /\ (failures[stage] < Limit => failures[stage] + 1 \in 0 .. Limit)
  BY <1>1, <1>2
<1> QED
  BY <1>1, <1>2, <1>3 DEF Succeeded, Raised

(* An utterance is searched when its ends are in different languages, and  *)
(* is one part otherwise, or lost to an exception.                         *)
UtteranceFrame ==
  /\ at = "idle"
  /\ utterances' \in 0 .. MaxUtterances
  /\ utt'.first \in Pair /\ utt'.length \in Lengths
  /\ utt'.change \in 1 .. utt'.length
  /\ failures' \in [Stage -> 0 .. Limit]
  /\ UNCHANGED <<cut, unsure, tries, lastLanguage, said, queued, off,
                 decided, blind, taken, doing, prompt, history>>
  /\ \/ /\ at' = "search" /\ parts' = <<>>
        /\ low' = Probe /\ high' = utt'.length - Probe
        /\ utt'.length > 2 * Probe /\ utt'.change < utt'.length
     \/ /\ at' = "parts"
        /\ parts' = <<<<0, utt'.length>>>> \/ parts' = <<>>
        /\ UNCHANGED <<low, high>>

(* It is what Utterance and EndRaises do. *)
LEMMA UtteranceIs ==
  ASSUME TypeOK, Utterance \/ EndRaises
  PROVE  UtteranceFrame
<1>1. Arrives
  BY DEF Utterance, EndRaises
<1>2. PICK f \in Pair, n \in Lengths :
        \E c \in 1 .. n : utt' = [first |-> f, change |-> c, length |-> n]
  BY <1>1 DEF Arrives
<1>3. PICK c \in 1 .. n : utt' = [first |-> f, change |-> c, length |-> n]
  BY <1>2
<1>4. /\ utt'.first \in Pair /\ utt'.length \in Lengths
      /\ utt'.change \in 1 .. utt'.length
  BY <1>3
<1>5. n \in Nat \ {0} /\ utt'.length = n
  BY <1>3, BoundsAssumption
<1>6. /\ at = "idle" /\ utterances' \in 0 .. MaxUtterances
      /\ UNCHANGED <<cut, unsure, tries, lastLanguage, said, queued, off,
                     decided, blind, taken, doing, prompt, history>>
  <2>1. utterances \in Nat /\ utterances < MaxUtterances
        /\ utterances' = utterances + 1
    BY <1>1 DEF Arrives, TypeOK
  <2>2. utterances' \in 0 .. MaxUtterances
    BY <2>1, BoundsAssumption
  <2> QED
    BY <1>1, <2>2 DEF Arrives, Utterance, EndRaises, worker
<1>7. failures' \in [Stage -> 0 .. Limit]
  <2>1. \/ Succeeded("language_split") \/ Raised("language_split")
        \/ UNCHANGED failures
    BY DEF Utterance, EndRaises, FindRaises
  <2> QED
    BY <2>1, FailuresAre DEF Stage
<1>8. CASE EndRaises
  <2>1. /\ at' = "parts"
        /\ parts' = <<<<0, utt'.length>>>> \/ parts' = <<>>
        /\ UNCHANGED <<low, high>>
    BY <1>8 DEF EndRaises, FindRaises
  <2> QED
    BY <1>4, <1>6, <1>7, <2>1 DEF UtteranceFrame
<1>9. CASE Utterance
  <2>1. PICK first \in Identified(utt', 0, Probe),
             last \in Identified(utt', utt'.length - Probe, utt'.length) :
          IF Searched(utt', first, last)
            THEN /\ at' = "search" /\ parts' = <<>>
                 /\ low' = Probe /\ high' = utt'.length - Probe
            ELSE /\ at' = "parts" /\ parts' = <<<<0, utt'.length>>>>
                 /\ UNCHANGED <<low, high>>
    BY <1>9 DEF Utterance
  <2>2. CASE Searched(utt', first, last)
    <3>1. /\ n > 2 * Probe /\ first # last
          /\ first \in Pair /\ last \in Pair
      BY <1>4, <1>5, <2>1, <2>2, IdentifiedIs DEF Searched
    <3>2. /\ Partner(f) \in Pair /\ Partner(f) # f
          /\ \A l \in Pair : l = f \/ l = Partner(f)
      BY PartnerIs DEF Pair
    <3>3. utt'.first = f /\ utt'.change = c
      BY <1>3
    <3>4. ASSUME last = Partner(f)  PROVE c < n
      BY <1>4, <1>5, <2>1, <3>3, <3>4, IdentifiedIs
    <3>5. ASSUME last = f  PROVE FALSE
      <4>1. first = Partner(f)
        BY <3>1, <3>2, <3>5
      <4>2. n - Probe < c
        BY <1>4, <1>5, <2>1, <3>3, <3>5, IdentifiedIs
      <4>3. c < Probe
        BY <1>4, <2>1, <3>3, <4>1, IdentifiedIs
      <4> QED
        BY <1>5, <3>1, <4>2, <4>3, SplitAssumption
    <3>6. c < n
      BY <3>1, <3>2, <3>4, <3>5
    <3>7. /\ at' = "search" /\ parts' = <<>>
          /\ low' = Probe /\ high' = utt'.length - Probe
      BY <2>1, <2>2
    <3>8. utt'.length > 2 * Probe /\ utt'.change < utt'.length
      BY <1>5, <3>1, <3>3, <3>6
    <3> QED
      BY <1>4, <1>6, <1>7, <3>7, <3>8 DEF UtteranceFrame
  <2>3. CASE ~Searched(utt', first, last)
    <3>1. /\ at' = "parts" /\ parts' = <<<<0, utt'.length>>>>
          /\ UNCHANGED <<low, high>>
      BY <2>1, <2>3
    <3> QED
      BY <1>4, <1>6, <1>7, <3>1 DEF UtteranceFrame
  <2> QED
    BY <2>2, <2>3
<1> QED
  BY <1>8, <1>9

(* A halving: the change is after the middle, or it is not, or the probe   *)
(* in the middle was left undecided before it.                             *)
HalveFrame ==
  /\ at = "search" /\ tries < Steps /\ tries' = tries + 1
  /\ low < Middle /\ Middle < high
  /\ UNCHANGED <<at, utterances, utt, parts, cut, lastLanguage, said, queued,
                 failures, off, decided, blind, taken, doing, prompt, history>>
  /\ unsure' \in BOOLEAN /\ (unsure => unsure')
  /\ \/ low' = Middle /\ high' = high /\ Middle < utt.change
     \/ /\ high' = Middle /\ low' = low
        /\ unsure' \/ utt.change < Middle + Probe

(* It is what Halve does. *)
LEMMA HalveIs ==
  ASSUME TypeOK, SessionInv, SearchInv, Halve
  PROVE  HalveFrame
<1>1. PICK l \in Identified(utt, Middle, Middle + Probe) :
        /\ IF SameAsStart(l)
             THEN low' = Middle /\ UNCHANGED high
             ELSE high' = Middle /\ UNCHANGED low
        /\ unsure' = (unsure \/ (l = Unknown /\ Middle + Probe <= utt.change))
  BY DEF Halve
<1>2. /\ l \in Pair \cup {Unknown}
      /\ l = utt.first => Middle < utt.change
      /\ l = Partner(utt.first) => utt.change < Middle + Probe
  BY <1>1, IdentifiedIs DEF TypeOK
<1>3. /\ utt.first \in Pair
      /\ \A x \in Pair : x = utt.first \/ x = Partner(utt.first)
  BY PartnerIs DEF TypeOK, Pair
<1>4. utt.change \in Int /\ Middle + Probe \in Int
  <2>1. low \in Nat /\ high \in Nat
    BY BoundsAre DEF Halve
  <2>2. Middle \in Int
    BY <2>1 DEF Middle
  <2> QED
    BY <2>2, UttIs, SplitAssumption
<1>5. \/ low' = Middle /\ high' = high /\ Middle < utt.change
      \/ /\ high' = Middle /\ low' = low
         /\ unsure' \/ utt.change < Middle + Probe
  <2>1. CASE l = utt.first
    BY <1>1, <1>2, <2>1 DEF SameAsStart
  <2>2. CASE l = Partner(utt.first) /\ l # utt.first
    BY <1>1, <1>2, <2>2 DEF SameAsStart
  <2>3. CASE l = Unknown /\ l # utt.first
    <3>1. Middle + Probe <= utt.change \/ utt.change < Middle + Probe
      BY <1>4
    <3>2. unsure' \/ utt.change < Middle + Probe
      BY <1>1, <2>3, <3>1
    <3> QED
      BY <1>1, <2>3, <3>2 DEF SameAsStart
  <2> QED
    BY <1>2, <1>3, <2>1, <2>2, <2>3
<1>6. unsure' \in BOOLEAN /\ (unsure => unsure')
  BY <1>1
<1> QED
  BY <1>5, <1>6 DEF Halve, Narrow, HalveFrame, worker

(* A part is through the ASR: it has words, in the language it was held to *)
(* or in one the ASR chose, or it has none.                                *)
PartSaid(d) ==
  \/ d \in Pair /\ blind' = blind
  \/ blind' = blind \cup {Len(said')}
  \/ blind' = blind /\ off # -1
  \/ /\ blind' = blind /\ lastLanguage = Unknown
     /\ UNCHANGED <<lastLanguage, decided>>

PartFrame ==
  /\ at = "parts" /\ parts # <<>> /\ parts' = Tail(parts)
  /\ UNCHANGED <<utterances, utt, low, high, tries, cut, unsure, queued, taken,
                 doing, prompt, history>>
  /\ failures' \in [Stage -> 0 .. Limit]
  /\ off' \in {off, Len(said)} /\ (off # -1 => off' = off)
  /\ \/ UNCHANGED <<lastLanguage, decided>>
     \/ /\ lastLanguage' \in Pair
        /\ decided' = IF decided = -1 THEN Len(said) ELSE decided
  /\ \/ at' = "parts" /\ UNCHANGED <<said, blind>>
     \/ /\ at' = "remember" /\ Len(said) < MaxSentences
        /\ \E d \in Pair \cup {Outside} :
             /\ said' = Append(said, d)
             /\ PartSaid(d)

(* It is what Analyse does, ... *)
LEMMA PartIsAnalysed ==
  ASSUME TypeOK, Analyse
  PROVE  PartFrame
<1>1. PICK l \in Identified(utt, Head(parts)[1], Head(parts)[2]) :
        /\ lastLanguage' = IF l = Unknown THEN lastLanguage ELSE l
        /\ decided' = IF l # Unknown /\ decided = -1 THEN Len(said)
                                                     ELSE decided
        /\ \/ NoWords
           \/ \E d \in Transcribed(LanguageFor(l)) : Words(d, FALSE)
  BY DEF Analyse
<1>2. l \in Pair \cup {Unknown} /\ Unknown \notin Pair
  BY <1>1, IdentifiedIs DEF TypeOK, Pair, Unknown
<1>3. \/ l = Unknown /\ UNCHANGED <<lastLanguage, decided>>
      \/ /\ lastLanguage' \in Pair
         /\ decided' = IF decided = -1 THEN Len(said) ELSE decided
  BY <1>1, <1>2
<1>4. ASSUME NEW d \in Transcribed(LanguageFor(l)), Words(d, FALSE)
      PROVE  /\ d \in Pair \cup {Outside}
             /\ at' = "remember" /\ Len(said) < MaxSentences
             /\ said' = Append(said, d) /\ PartSaid(d)
  <2>1. lastLanguage \in Pair \cup {Unknown}
    BY DEF TypeOK
  <2>2. LanguageFor(l) \in Pair \cup {Unknown}
    BY <1>2, <2>1 DEF LanguageFor
  <2>3. d \in Pair \cup {Outside}
        /\ (LanguageFor(l) # Unknown => d \in Pair)
    BY <1>4, <2>2 DEF Transcribed
  <2>4. LanguageFor(l) = Unknown =>
          lastLanguage = Unknown /\ UNCHANGED <<lastLanguage, decided>>
    BY <1>1, <1>2 DEF LanguageFor
  <2>5. /\ at' = "remember" /\ Len(said) < MaxSentences
        /\ said' = Append(said, d) /\ blind' = blind
    BY <1>4 DEF Words
  <2> QED
    BY <2>3, <2>4, <2>5 DEF PartSaid
<1>5. \/ at' = "parts" /\ UNCHANGED <<said, blind>>
      \/ /\ at' = "remember" /\ Len(said) < MaxSentences
         /\ \E d \in Pair \cup {Outside} :
              said' = Append(said, d) /\ PartSaid(d)
  BY <1>1, <1>4 DEF NoWords
<1>6. failures' \in [Stage -> 0 .. Limit]
  BY FailuresAre DEF Analyse, Stage
<1>7. off' = off
  BY DEF Analyse
<1> QED
  BY <1>3, <1>5, <1>6, <1>7 DEF Analyse, PartFrame, worker

(* ... and IdentifierRaises, and Unidentified. *)
LEMMA PartIsHeard ==
  ASSUME TypeOK, Analyse \/ IdentifierRaises \/ Unidentified
  PROVE  PartFrame
<1>1. CASE Analyse
  BY <1>1, PartIsAnalysed
<1>2. CASE IdentifierRaises
  <2>1. ASSUME NEW d \in Transcribed(Unknown), Words(d, TRUE)
        PROVE  /\ d \in Pair \cup {Outside}
               /\ at' = "remember" /\ Len(said) < MaxSentences
               /\ said' = Append(said, d) /\ PartSaid(d)
    BY <2>1 DEF Transcribed, Words, PartSaid
  <2>2. \/ at' = "parts" /\ UNCHANGED <<said, blind>>
        \/ /\ at' = "remember" /\ Len(said) < MaxSentences
           /\ \E d \in Pair \cup {Outside} :
                said' = Append(said, d) /\ PartSaid(d)
    BY <1>2, <2>1 DEF IdentifierRaises, NoWords
  <2>3. failures' \in [Stage -> 0 .. Limit]
    BY <1>2, FailuresAre DEF IdentifierRaises, Stage
  <2>4. off = -1 /\ off' \in {off, Len(said)}
    BY <1>2 DEF IdentifierRaises
  <2> QED
    BY <1>2, <2>2, <2>3, <2>4 DEF IdentifierRaises, PartFrame, worker
<1>3. CASE Unidentified
  <2>1. ASSUME NEW d \in Transcribed(Unknown), Words(d, FALSE)
        PROVE  /\ d \in Pair \cup {Outside}
               /\ at' = "remember" /\ Len(said) < MaxSentences
               /\ said' = Append(said, d) /\ PartSaid(d)
    BY <1>3, <2>1 DEF Transcribed, Words, PartSaid, Unidentified
  <2>2. \/ at' = "parts" /\ UNCHANGED <<said, blind>>
        \/ /\ at' = "remember" /\ Len(said) < MaxSentences
           /\ \E d \in Pair \cup {Outside} :
                said' = Append(said, d) /\ PartSaid(d)
    BY <1>3, <2>1 DEF Unidentified, NoWords
  <2>3. failures' \in [Stage -> 0 .. Limit]
    BY <1>3 DEF Unidentified, TypeOK
  <2>4. off' = off
    BY <1>3 DEF Unidentified
  <2> QED
    BY <1>3, <2>2, <2>3, <2>4 DEF Unidentified, PartFrame, worker
<1> QED
  BY <1>1, <1>2, <1>3

(* The whole utterance is one part, and a lost one none. *)
LEMMA OnePart ==
  ASSUME NEW n \in Frame, 0 \in Frame, NEW p,
         p = <<<<0, n>>>> \/ p = <<>>
  PROVE  p \in Seq(Frame \X Frame) /\ Len(p) <= 2
<1>1. CASE p = <<<<0, n>>>>
  BY <1>1
<1>2. CASE p = <<>>
  BY <1>2
<1> QED
  BY <1>1, <1>2

(* One more sentence has a language. *)
LEMMA OneMoreSaid ==
  ASSUME TypeOK, NEW d \in Pair \cup {Outside}, said' = Append(said, d)
  PROVE  /\ said' \in Seq(Pair \cup {Outside})
         /\ Len(said') = Len(said) + 1 /\ Len(said) \in Nat
         /\ \A s \in 1 .. Len(said) : said'[s] = said[s]
         /\ said'[Len(said) + 1] = d
<1>1. said \in Seq(Pair \cup {Outside})
  BY DEF TypeOK
<1> QED
  BY <1>1

(* Every step keeps the types. *)
LEMMA TypeStep ==
  ASSUME TypeOK, SessionInv, SearchInv, Next
  PROVE  TypeOK'
<1> USE SplitAssumption, BoundsAssumption DEF TypeOK, SessionInv, audio,
    session, worker
<1>1. CASE Utterance \/ EndRaises
  <2>1. UtteranceFrame
    BY <1>1, UtteranceIs
  <2>2. utt'.length \in Lengths /\ utt'.length \in Nat
    BY <2>1 DEF UtteranceFrame
  <2>3. CASE /\ at' = "search" /\ parts' = <<>>
             /\ low' = Probe /\ high' = utt'.length - Probe
             /\ utt'.length > 2 * Probe
    <3>1. low' \in Frame /\ high' \in Frame /\ low' < high'
      BY <2>2, <2>3, FrameIs
    <3> QED
      BY <2>1, <2>3, <3>1 DEF UtteranceFrame
  <2>4. CASE /\ at' = "parts"
             /\ parts' = <<<<0, utt'.length>>>> \/ parts' = <<>>
    <3>1. 0 \in Frame /\ utt'.length \in Frame
      BY <2>2, FrameIs
    <3>2. parts' \in Seq(Frame \X Frame) /\ Len(parts') <= 2
      BY <2>4, <3>1, OnePart
    <3> QED
      BY <2>1, <2>4, <3>2 DEF UtteranceFrame
  <2> QED
    BY <2>1, <2>3, <2>4 DEF UtteranceFrame
<1>2. CASE Halve
  <2>1. HalveFrame
    BY <1>2, HalveIs
  <2>2. low \in Nat /\ high \in Nat /\ utt.length \in Lengths
    BY <2>1, BoundsAre DEF HalveFrame
  <2>3. high <= utt.length - Probe /\ utt.length \in Nat
    BY <2>1, <2>2 DEF HalveFrame, SearchInv
  <2>4. Middle \in 0 .. utt.length
    <3>1. Middle \in Nat
      BY <2>2 DEF Middle
    <3> QED
      BY <2>1, <2>2, <2>3, <3>1 DEF HalveFrame
  <2>5. Middle \in Frame
    BY <2>2, <2>4, FrameIs
  <2>6. low' \in Frame /\ high' \in Frame /\ low' < high'
    BY <2>1, <2>5 DEF HalveFrame
  <2>7. tries' \in 0 .. Steps
    BY <2>1 DEF HalveFrame
  <2> QED
    BY <2>1, <2>6, <2>7 DEF HalveFrame
<1>3. CASE SearchRaises
  <2>1. /\ at' = "parts" /\ tries' = 0 /\ utt.length \in Lengths
        /\ UNCHANGED <<utterances, utt, cut, unsure, lastLanguage, said,
                       queued, off, decided, blind, taken, doing, prompt,
                       history>>
    BY <1>3 DEF SearchRaises, SearchOver
  <2>2. /\ parts' = <<<<0, utt.length>>>> \/ parts' = <<>>
        /\ failures' \in [Stage -> 0 .. Limit]
    <3>1. Raised("language_split")
      BY <1>3 DEF SearchRaises, FindRaises
    <3>2. failures' \in [Stage -> 0 .. Limit]
      BY <3>1, FailuresAre DEF Stage
    <3> QED
      BY <1>3, <3>2 DEF SearchRaises, FindRaises
  <2>3. 0 \in Frame /\ utt.length \in Frame
    BY <2>1, UttIs, FrameIs
  <2>4. parts' \in Seq(Frame \X Frame) /\ Len(parts') <= 2
    BY <2>2, <2>3, OnePart
  <2> QED
    BY <2>1, <2>2, <2>4
<1>4. CASE Divide
  <2>1. /\ at' = "parts" /\ tries' = 0 /\ utt.length \in Lengths
        /\ UNCHANGED <<utterances, utt, unsure, lastLanguage, said, queued,
                       off, decided, blind, taken, doing, prompt, history>>
    BY <1>4 DEF Divide, SearchOver
  <2>2. failures' \in [Stage -> 0 .. Limit] /\ at = "search"
    BY <1>4, FailuresAre DEF Divide, Stage
  <2>3. PICK c \in CutPoints(high) :
          IF c < Probe \/ utt.length - c < Probe
            THEN parts' = Whole /\ UNCHANGED cut
            ELSE parts' = <<<<0, c>>, <<c, utt.length>>>> /\ cut' = c
    BY <1>4 DEF Divide
  <2>4. high \in Nat \ {0} /\ high <= utt.length /\ utt.length \in Nat
    <3>1. low \in Nat /\ high \in Nat /\ utt.length \in Nat
      BY <2>2, BoundsAre, UttIs
    <3>2. low < high /\ high <= utt.length - Probe
      BY <2>2 DEF SearchInv
    <3> HIDE DEF TypeOK, SessionInv
    <3> QED
      BY <3>1, <3>2
  <2>5. c \in 0 .. utt.length
    BY <2>3, <2>4, CutPointsAre, SMTT(60)
  <2>6. 0 \in Frame /\ utt.length \in Frame /\ c \in Frame
    BY <2>1, <2>4, <2>5, FrameIs
  <2>7. /\ Whole \in Seq(Frame \X Frame) /\ Len(Whole) = 1
        /\ <<<<0, c>>, <<c, utt.length>>>> \in Seq(Frame \X Frame)
        /\ Len(<<<<0, c>>, <<c, utt.length>>>>) = 2
    BY <2>6 DEF Whole
  <2>8. CASE parts' = Whole /\ UNCHANGED cut
    <3>1. parts' \in Seq(Frame \X Frame) /\ Len(parts') <= 2
      <4> HIDE DEF TypeOK, SessionInv
      <4>1. parts' = Whole
        BY <2>8
      <4>2. Whole \in Seq(Frame \X Frame) /\ Len(Whole) <= 2
        BY <2>7
      <4> QED
        BY <4>1, <4>2, Zenon
    <3> QED
      BY <2>1, <2>2, <2>8, <3>1
  <2>9. CASE parts' = <<<<0, c>>, <<c, utt.length>>>> /\ cut' = c
    <3>1. /\ parts' \in Seq(Frame \X Frame) /\ Len(parts') <= 2
          /\ cut' \in Frame \cup {None}
      BY <2>6, <2>7, <2>9
    <3> QED
      BY <2>1, <2>2, <3>1
  <2> QED
    BY <2>3, <2>8, <2>9
<1>5. CASE Analyse \/ IdentifierRaises \/ Unidentified
  <2>1. PartFrame
    BY <1>5, PartIsHeard
  <2>2. parts' \in Seq(Frame \X Frame) /\ Len(parts') <= 2
    BY <2>1 DEF PartFrame
  <2>3. Len(said) \in Nat /\ decided' \in -1 .. MaxSentences
        /\ lastLanguage' \in Pair \cup {Unknown}
        /\ off' \in -1 .. MaxSentences
    <3>1. /\ Len(said) \in Nat /\ Len(said) <= MaxSentences
          /\ decided \in -1 .. MaxSentences /\ off \in -1 .. MaxSentences
          /\ lastLanguage \in Pair \cup {Unknown} /\ MaxSentences \in Nat
      OBVIOUS
    <3>2. /\ decided' \in {decided, Len(said)} /\ off' \in {off, Len(said)}
          /\ lastLanguage' = lastLanguage \/ lastLanguage' \in Pair
      BY <2>1 DEF PartFrame
    <3> HIDE DEF TypeOK, SessionInv
    <3> QED
      BY <3>1, <3>2
  <2>4. CASE UNCHANGED <<said, blind>> /\ at' = "parts"
    BY <2>1, <2>2, <2>3, <2>4, SMTT(60) DEF PartFrame
  <2>5. ASSUME NEW d \in Pair \cup {Outside}, said' = Append(said, d),
               at' = "remember", Len(said) < MaxSentences,
               blind' = blind \/ blind' = blind \cup {Len(said')}
        PROVE  TypeOK'
    <3>1. /\ said' \in Seq(Pair \cup {Outside})
          /\ Len(said') = Len(said) + 1
      BY <2>5, OneMoreSaid
    <3>2. Len(said') \in Sentence
      BY <2>3, <2>5, <3>1 DEF Sentence
    <3>3. blind' \subseteq Sentence
      BY <2>5, <3>2
    <3>4. taken' \in 0 .. queued' /\ queued' \in 0 .. Len(said')
      BY <2>1, <2>3, <3>1 DEF PartFrame
    <3> QED
      BY <2>1, <2>2, <2>3, <2>5, <3>1, <3>3, <3>4 DEF PartFrame
  <2> QED
    BY <2>1, <2>4, <2>5 DEF PartFrame, PartSaid
<1>6. CASE Noise
  BY <1>6 DEF Noise
<1>7. CASE Commit
  <2>1. Len(said) \in Sentence
    BY <1>7 DEF Commit, Sentence
  <2>2. history' \in Seq(Sentence) /\ Len(history') <= Size
    BY <1>7, <2>1, RememberIs DEF Commit
  <2> QED
    BY <1>7, <2>2 DEF Commit
<1>8. CASE Submit
  BY <1>8 DEF Submit
<1>9. CASE Announced
  <2>1. utt'.first \in Pair /\ utt'.length = 1 /\ utt'.change = 1
    BY <1>9 DEF Announced, NoUtterance, Pair
  <2>2. utt'.change \in 1 .. utt'.length /\ utt'.length \in Lengths \cup {1}
    BY <2>1
  <2>3. cut' \in Frame \cup {None} /\ unsure' \in BOOLEAN /\ at' = "idle"
        /\ UNCHANGED <<utterances, tries, parts, lastLanguage, said, queued,
                       failures, off, decided, blind, taken, doing, prompt,
                       history>>
    BY <1>9 DEF Announced
  <2> QED
    BY <2>1, <2>2, <2>3
<1>10. CASE Take
  BY <1>10 DEF Take, Waiting
<1>11. CASE GiveUp
  BY <1>11 DEF GiveUp, Waiting
<1>12. CASE Refuse
  BY <1>12 DEF Refuse
<1>13. CASE Ask
  BY <1>13 DEF Ask
<1>14. CASE Raced
  <2>1. Len(said) \in Sentence
    BY <1>14 DEF Raced, Sentence
  <2>2. history' \in Seq(Sentence) /\ Len(history') <= Size
    BY <1>14, <2>1, RememberIs DEF Raced
  <2> QED
    BY <1>14, <2>2 DEF Raced
<1>15. CASE NotTranslated
  BY <1>15 DEF NotTranslated
<1>16. CASE Echoed
  BY <1>16 DEF Echoed
<1>17. CASE Translated
  <2>1. taken \in Sentence
    BY <1>17 DEF Translated, Sentence
  <2>2. history' \in Seq(Sentence) /\ Len(history') <= Size
    BY <1>17, <2>1, RememberIs DEF Translated
  <2> QED
    BY <1>17, <2>2 DEF Translated
<1> QED
  BY <1>1, <1>2, <1>3, <1>4, <1>5, <1>6, <1>7, <1>8, <1>9, <1>10, <1>11,
      <1>12, <1>13, <1>14, <1>15, <1>16, <1>17 DEF Next

(* Every step keeps the session's place. *)
LEMMA SessionStep ==
  ASSUME TypeOK, SessionInv, Next
  PROVE  SessionInv'
<1> USE BoundsAssumption DEF TypeOK, SessionInv, audio, session, worker
<1>1. CASE Utterance \/ EndRaises
  <2>1. CASE Utterance
    BY <2>1, SMTT(60) DEF Utterance, Arrives
  <2>2. CASE EndRaises
    BY <2>2, SMTT(60) DEF EndRaises, Arrives
  <2> QED
    BY <1>1, <2>1, <2>2
<1>2. CASE Halve
  BY <1>2 DEF Halve
<1>3. CASE SearchRaises
  BY <1>3 DEF SearchRaises, SearchOver, FindRaises
<1>4. CASE Divide
  BY <1>4 DEF Divide, SearchOver
<1>5. CASE Analyse \/ IdentifierRaises \/ Unidentified
  <2>1. PartFrame
    BY <1>5, PartIsHeard
  <2>2. CASE UNCHANGED said /\ at' = "parts"
    BY <2>1, <2>2 DEF PartFrame
  <2>3. ASSUME NEW d \in Pair \cup {Outside}, said' = Append(said, d),
               at' = "remember", Len(said) < MaxSentences
        PROVE  SessionInv'
    <3>1. Len(said') = Len(said) + 1 /\ Len(said) \in Nat
      BY <2>3, OneMoreSaid
    <3> QED
      BY <2>1, <2>3, <3>1 DEF PartFrame
  <2> QED
    BY <2>1, <2>2, <2>3 DEF PartFrame
<1>6. CASE Noise
  BY <1>6 DEF Noise
<1>7. CASE Commit
  BY <1>7 DEF Commit
<1>8. CASE Submit
  BY <1>8 DEF Submit
<1>9. CASE Announced
  BY <1>9 DEF Announced
<1>10. CASE Take
  BY <1>10 DEF Take, Waiting
<1>11. CASE GiveUp
  BY <1>11 DEF GiveUp, Waiting
<1>12. CASE Refuse
  BY <1>12 DEF Refuse
<1>13. CASE Ask
  BY <1>13 DEF Ask
<1>14. CASE Raced
  BY <1>14 DEF Raced
<1>15. CASE NotTranslated
  BY <1>15 DEF NotTranslated
<1>16. CASE Echoed
  BY <1>16 DEF Echoed
<1>17. CASE Translated
  BY <1>17 DEF Translated
<1> QED
  BY <1>1, <1>2, <1>3, <1>4, <1>5, <1>6, <1>7, <1>8, <1>9, <1>10, <1>11,
      <1>12, <1>13, <1>14, <1>15, <1>16, <1>17 DEF Next

(* Every step keeps what is remembered ahead of what is queued. *)
LEMMA HistoryStep ==
  ASSUME TypeOK, SessionInv, HistoryInv, Next
  PROVE  HistoryInv'
<1> USE SplitAssumption DEF TypeOK, SessionInv, HistoryInv, audio, session,
    worker
<1>1. CASE Utterance \/ EndRaises
  BY <1>1 DEF Utterance, EndRaises, Arrives
<1>2. CASE Halve
  BY <1>2 DEF Halve
<1>3. CASE SearchRaises
  BY <1>3 DEF SearchRaises, SearchOver, FindRaises
<1>4. CASE Divide
  BY <1>4 DEF Divide, SearchOver
<1>5. CASE Analyse \/ IdentifierRaises \/ Unidentified
  <2>1. PartFrame
    BY <1>5, PartIsHeard
  <2> QED
    BY <2>1 DEF PartFrame
<1>6. CASE Noise
  BY <1>6 DEF Noise
<1>7. CASE Commit
  <2>1. Len(said) \in Sentence
    BY <1>7 DEF Commit, Sentence
  <2>2. /\ Size = 0 => history' = <<>>
        /\ Size # 0 => history' # <<>>
    BY <1>7, <2>1, RememberIs DEF Commit
  <2> QED
    BY <1>7, <2>2 DEF Commit
<1>8. CASE Submit
  BY <1>8 DEF Submit
<1>9. CASE Announced
  BY <1>9 DEF Announced
<1>10. CASE Take
  BY <1>10 DEF Take, Waiting
<1>11. CASE GiveUp
  BY <1>11 DEF GiveUp, Waiting
<1>12. CASE Refuse
  BY <1>12 DEF Refuse
<1>13. CASE Ask
  BY <1>13 DEF Ask
<1>14. CASE Raced
  <2>1. Len(said) \in Sentence
    BY <1>14 DEF Raced, Sentence
  <2>2. /\ Size = 0 => history' = <<>>
        /\ Size # 0 => history' # <<>>
    BY <1>14, <2>1, RememberIs DEF Raced
  <2> QED
    BY <1>14, <2>2 DEF Raced
<1>15. CASE NotTranslated
  BY <1>15 DEF NotTranslated
<1>16. CASE Echoed
  BY <1>16 DEF Echoed
<1>17. CASE Translated
  <2>1. taken \in Sentence
    BY <1>17, BoundsAssumption DEF Translated, Sentence
  <2>2. /\ Size = 0 => history' = <<>>
        /\ Size # 0 => history' # <<>>
    BY <1>17, <2>1, RememberIs DEF Translated
  <2> QED
    BY <1>17, <2>2 DEF Translated
<1> QED
  BY <1>1, <1>2, <1>3, <1>4, <1>5, <1>6, <1>7, <1>8, <1>9, <1>10, <1>11,
      <1>12, <1>13, <1>14, <1>15, <1>16, <1>17 DEF Next

(* Every step carries the language on. *)
LEMMA CarriedStep ==
  ASSUME TypeOK, SessionInv, CarriedInv, Next
  PROVE  CarriedInv'
<1> USE BoundsAssumption DEF TypeOK, CarriedInv, LanguageIsCarried, audio,
    session, worker
<1>1. CASE Utterance \/ EndRaises
  BY <1>1 DEF Utterance, EndRaises, Arrives
<1>2. CASE Halve
  BY <1>2 DEF Halve
<1>3. CASE SearchRaises
  BY <1>3 DEF SearchRaises, SearchOver, FindRaises
<1>4. CASE Divide
  BY <1>4 DEF Divide, SearchOver
<1>5. CASE Analyse \/ IdentifierRaises \/ Unidentified
  <2>1. PartFrame
    BY <1>5, PartIsHeard
  <2>2. /\ decided \in Int /\ off \in Int /\ Len(said) \in Nat
        /\ Unknown \notin Pair
    BY DEF Unknown, Pair
  <2>3. CASE UNCHANGED <<said, blind>>
    BY <2>1, <2>2, <2>3, SMTT(60) DEF PartFrame
  <2>4. ASSUME NEW d \in Pair \cup {Outside}, said' = Append(said, d),
               PartSaid(d)
        PROVE  CarriedInv'
    <3>1. /\ Len(said') = Len(said) + 1
          /\ \A s \in 1 .. Len(said) : said'[s] = said[s]
          /\ said'[Len(said) + 1] = d
      BY <2>4, OneMoreSaid
    <3>2. /\ decided' <= Len(said) /\ (decided' # -1 => lastLanguage' \in Pair)
          /\ decided' \in Int /\ off' <= Len(said) /\ off' \in Int
      BY <2>1, <2>2, SMTT(60) DEF PartFrame
    <3>3. ASSUME NEW s \in 1 .. Len(said), said'[s] \notin Pair, s \notin blind'
          PROVE  decided' = -1 \/ s <= decided' \/ (off' # -1 /\ s > off')
      <4>1. said[s] \notin Pair /\ s \notin blind
        BY <2>4, <3>1, <3>3 DEF PartSaid
      <4>2. decided = -1 \/ s <= decided \/ (off # -1 /\ s > off)
        BY <4>1
      <4> QED
        BY <2>1, <2>2, <4>2 DEF PartFrame
    <3>4. ASSUME d \notin Pair, Len(said) + 1 \notin blind'
          PROVE  decided' = -1 \/ (off' # -1 /\ Len(said) + 1 > off')
      <4>1. off # -1 \/ (lastLanguage = Unknown /\ UNCHANGED decided)
        BY <2>4, <3>1, <3>4 DEF PartSaid
      <4>2. CASE off # -1
        BY <2>1, <2>2, <3>2, <4>2 DEF PartFrame
      <4>3. CASE lastLanguage = Unknown /\ UNCHANGED decided
        BY <2>2, <4>3
      <4> QED
        BY <4>1, <4>2, <4>3
    <3>5. \A s \in 1 .. Len(said') : s \in 1 .. Len(said) \/ s = Len(said) + 1
      BY <2>2, <3>1, SMTT(60)
    <3>6. LanguageIsCarried'
      BY <3>1, <3>3, <3>4, <3>5
    <3> HIDE DEF TypeOK, LanguageIsCarried
    <3>7. decided' <= Len(said') /\ off' <= Len(said')
      BY <2>2, <3>1, <3>2, SMTT(60)
    <3> QED
      BY <3>2, <3>6, <3>7 DEF CarriedInv
  <2> QED
    BY <2>1, <2>3, <2>4 DEF PartFrame
<1>6. CASE Noise
  BY <1>6 DEF Noise
<1>7. CASE Commit
  BY <1>7 DEF Commit
<1>8. CASE Submit
  BY <1>8 DEF Submit
<1>9. CASE Announced
  BY <1>9 DEF Announced
<1>10. CASE Take
  BY <1>10 DEF Take, Waiting
<1>11. CASE GiveUp
  BY <1>11 DEF GiveUp, Waiting
<1>12. CASE Refuse
  BY <1>12 DEF Refuse
<1>13. CASE Ask
  BY <1>13 DEF Ask
<1>14. CASE Raced
  BY <1>14 DEF Raced
<1>15. CASE NotTranslated
  BY <1>15 DEF NotTranslated
<1>16. CASE Echoed
  BY <1>16 DEF Echoed
<1>17. CASE Translated
  BY <1>17 DEF Translated
<1> QED
  BY <1>1, <1>2, <1>3, <1>4, <1>5, <1>6, <1>7, <1>8, <1>9, <1>10, <1>11,
      <1>12, <1>13, <1>14, <1>15, <1>16, <1>17 DEF Next

(* Every step of the search keeps the change between its bounds. *)
LEMMA SearchStep ==
  ASSUME TypeOK, SessionInv, SearchInv, Next
  PROVE  SearchInv'
<1> USE SplitAssumption, BoundsAssumption DEF SearchInv, audio, session,
    worker
<1>1. CASE Utterance \/ EndRaises
  <2>1. UtteranceFrame /\ tries = 0
    BY <1>1, UtteranceIs DEF UtteranceFrame, SessionInv
  <2>2. utt'.length \in Nat /\ utt'.change \in Nat \ {0}
    <3>1. utt'.length \in Lengths /\ utt'.change \in 1 .. utt'.length
      BY <2>1 DEF UtteranceFrame
    <3>2. utt'.length \in Nat
      BY <3>1
    <3> QED
      BY <3>1, <3>2
  <2>3. CASE /\ at' = "search" /\ low' = Probe /\ high' = utt'.length - Probe
             /\ utt'.length > 2 * Probe /\ utt'.change < utt'.length
    <3>1. PICK n \in Nat : n = utt'.length
      BY <2>2
    <3>2. (high' - low' - 1) * Power[tries'] = n - 2 * Probe - 1
      <4>1. Power[tries'] = 1
        BY <2>1, PowerIs DEF UtteranceFrame
      <4>2. (n - Probe - Probe - 1) * 1 = n - 2 * Probe - 1
        BY <3>1
      <4> QED
        BY <2>3, <3>1, <4>1, <4>2
    <3> QED
      BY <2>1, <2>2, <2>3, <3>1, <3>2
  <2>4. CASE at' = "parts"
    BY <2>4
  <2> QED
    BY <2>1, <2>3, <2>4 DEF UtteranceFrame
<1>2. CASE Halve
  <2>1. HalveFrame
    BY <1>2, HalveIs
  <2>2. /\ low \in Nat /\ high \in Nat /\ tries \in Nat
        /\ utt.change \in Nat /\ utt.length \in Nat /\ Middle \in Nat
    <3>1. low \in Nat /\ high \in Nat
      BY <2>1, BoundsAre DEF HalveFrame
    <3>2. Middle \in Nat
      BY <3>1 DEF Middle
    <3>3. utt.change \in Nat /\ utt.length \in Nat
      BY UttIs
    <3>4. tries \in Nat
      BY DEF TypeOK
    <3> QED
      BY <3>1, <3>2, <3>3, <3>4
  <2>3. PICK l \in Nat, h \in Nat, m \in Nat, n \in Nat, c \in Nat :
          /\ l = low /\ h = high /\ m = Middle /\ n = utt.length
          /\ c = utt.change
    BY <2>2
  <2>4. /\ l < m /\ m < h /\ m = (l + h) \div 2
        /\ Probe <= l /\ h <= n - Probe /\ c < n /\ l - c < Probe
        /\ ~unsure => c - h < Probe
    BY <2>1, <2>3 DEF HalveFrame, Middle
  <2>5. PICK p \in Nat \ {0}, q \in Nat \ {0} :
          p = Power[tries] /\ q = Power[tries + 1] /\ q = 2 * p
    BY <2>1, <2>2, PowerIs DEF HalveFrame
  <2>6. (h - l - 1) * p < n - 2 * Probe
    BY <2>1, <2>3, <2>5 DEF HalveFrame
  <2>7. ASSUME NEW e \in Nat, 2 * e <= h - l - 1
        PROVE  e * q < n - 2 * Probe
    <3>1. h - l - 1 \in Nat /\ n - 2 * Probe \in Nat
      BY <2>4
    <3> QED
      BY <2>5, <2>6, <2>7, <3>1, Halved
  <2>8. CASE low' = Middle /\ high' = high /\ Middle < utt.change
    <3>1. h - m - 1 \in Nat /\ 2 * (h - m - 1) <= h - l - 1
      BY <2>4
    <3>2. (h - m - 1) * q < n - 2 * Probe
      BY <2>7, <3>1
    <3>3. Probe <= m /\ m - c < Probe
      BY <2>3, <2>4, <2>8
    <3> QED
      BY <2>1, <2>3, <2>4, <2>5, <2>8, <3>2, <3>3 DEF HalveFrame
  <2>9. CASE /\ high' = Middle /\ low' = low
             /\ unsure' \/ utt.change < Middle + Probe
    <3>1. m - l - 1 \in Nat /\ 2 * (m - l - 1) <= h - l - 1
      BY <2>4
    <3>2. (m - l - 1) * q < n - 2 * Probe
      BY <2>7, <3>1
    <3>3. m <= n - Probe /\ (~unsure' => c - m < Probe)
      BY <2>3, <2>4, <2>9
    <3> QED
      BY <2>1, <2>3, <2>4, <2>5, <2>9, <3>2, <3>3 DEF HalveFrame
  <2> QED
    BY <2>1, <2>8, <2>9 DEF HalveFrame
<1>3. CASE SearchRaises
  BY <1>3 DEF SearchRaises, SearchOver, FindRaises
<1>4. CASE Divide
  BY <1>4 DEF Divide, SearchOver
<1>5. CASE Analyse \/ IdentifierRaises \/ Unidentified
  <2>1. PartFrame
    BY <1>5, PartIsHeard
  <2> QED
    BY <2>1 DEF PartFrame
<1>6. CASE Noise
  BY <1>6 DEF Noise
<1>7. CASE Commit
  BY <1>7 DEF Commit
<1>8. CASE Submit
  BY <1>8 DEF Submit
<1>9. CASE Announced
  BY <1>9 DEF Announced
<1>10. CASE Take
  BY <1>10 DEF Take, Waiting
<1>11. CASE GiveUp
  BY <1>11 DEF GiveUp, Waiting
<1>12. CASE Refuse
  BY <1>12 DEF Refuse
<1>13. CASE Ask
  BY <1>13 DEF Ask
<1>14. CASE Raced
  BY <1>14 DEF Raced
<1>15. CASE NotTranslated
  BY <1>15 DEF NotTranslated
<1>16. CASE Echoed
  BY <1>16 DEF Echoed
<1>17. CASE Translated
  BY <1>17 DEF Translated
<1> QED
  BY <1>1, <1>2, <1>3, <1>4, <1>5, <1>6, <1>7, <1>8, <1>9, <1>10, <1>11,
      <1>12, <1>13, <1>14, <1>15, <1>16, <1>17 DEF Next

(* Every cut is near the change. *)
LEMMA NearStep ==
  ASSUME TypeOK, SessionInv, SearchInv, CutNearChange, Next
  PROVE  CutNearChange'
<1> USE SplitAssumption, BoundsAssumption DEF CutNearChange, Gap, audio,
    session, worker
<1>1. CASE Utterance \/ EndRaises
  <2>1. UtteranceFrame
    BY <1>1, UtteranceIs
  <2>2. cut' = None \/ UNCHANGED <<utt, cut, unsure>>
    BY <2>1 DEF UtteranceFrame, SessionInv
  <2> QED
    BY <2>2
<1>2. CASE Halve
  <2>1. HalveFrame
    BY <1>2, HalveIs
  <2>2. cut' = None \/ UNCHANGED <<utt, cut, unsure>>
    BY <2>1 DEF HalveFrame, SessionInv
  <2> QED
    BY <2>2
<1>3. CASE SearchRaises
  BY <1>3 DEF SearchRaises, SearchOver, FindRaises
<1>4. CASE Divide
  <2>1. /\ at = "search" /\ ~Narrow
        /\ UNCHANGED <<utt, unsure>>
    BY <1>4 DEF Divide
  <2>2. CASE UNCHANGED cut
    BY <2>1, <2>2
  <2>3. ASSUME NEW c \in CutPoints(high), cut' = c  PROVE CutNearChange'
    <3>1. PICK l \in Nat, h \in Nat, n \in Nat, b \in Nat :
            l = low /\ h = high /\ n = utt.length /\ b = utt.change
      BY <2>1, BoundsAre, UttIs
    <3>2. /\ Probe <= l /\ l < h /\ h <= n - Probe /\ b < n
          /\ l - b < Probe /\ (~unsure => b - h < Probe)
      BY <2>1, <3>1 DEF SearchInv
    <3>3. c \in 1 .. h /\ h - c <= Search
      BY <2>3, <3>1, <3>2, CutPointsAre
    <3>4. PICK p \in Nat \ {0} : p = Power[Steps]
      BY PowerIs
    <3>5. PICK g \in Nat : g = (n - 2 * Probe + p - 1) \div p
      <4>1. n - 2 * Probe + p - 1 \in Nat
        BY <3>2
      <4> QED
        BY <4>1
    <3>6. h - l <= g
      <4>1. (h - l - 1) * p < n - 2 * Probe
        <5>1. CASE tries = Steps
          BY <2>1, <3>1, <3>4, <5>1 DEF SearchInv
        <5>2. CASE h - l <= 1
          <6>1. h - l - 1 = 0
            BY <3>2, <5>2
          <6> QED
            BY <3>2, <6>1
        <5>3. tries \in 0 .. Steps
          BY DEF TypeOK
        <5>4. tries < Steps => ~(low < Middle /\ Middle < high)
          BY <2>1 DEF Narrow
        <5>5. h - l > 1 => l < (l + h) \div 2 /\ (l + h) \div 2 < h
          OBVIOUS
        <5> QED
          BY <3>1, <5>1, <5>2, <5>3, <5>4, <5>5 DEF Middle
      <4>2. h - l \in Nat /\ n - 2 * Probe \in Nat
        BY <3>2
      <4> QED
        BY <3>5, <4>1, <4>2, PartIs
    <3>7. c - b < g + Probe /\ (~unsure => b - c < Search + Probe)
      BY <3>2, <3>3, <3>6
    <3>8. Gap' = g
      BY <2>1, <3>1, <3>4, <3>5
    <3> HIDE DEF Gap
    <3> QED
      BY <2>1, <2>3, <3>1, <3>2, <3>7, <3>8
  <2> QED
    BY <1>4, <2>2, <2>3 DEF Divide
<1>5. CASE Analyse \/ IdentifierRaises \/ Unidentified
  <2>1. PartFrame
    BY <1>5, PartIsHeard
  <2>2. cut' = None \/ UNCHANGED <<utt, cut, unsure>>
    BY <2>1 DEF PartFrame, SessionInv
  <2> QED
    BY <2>2
<1>6. CASE Noise
  BY <1>6 DEF Noise
<1>7. CASE Commit
  BY <1>7 DEF Commit
<1>8. CASE Submit
  BY <1>8 DEF Submit
<1>9. CASE Announced
  BY <1>9 DEF Announced
<1>10. CASE Take
  BY <1>10 DEF Take, Waiting
<1>11. CASE GiveUp
  BY <1>11 DEF GiveUp, Waiting
<1>12. CASE Refuse
  BY <1>12 DEF Refuse
<1>13. CASE Ask
  BY <1>13 DEF Ask
<1>14. CASE Raced
  BY <1>14 DEF Raced
<1>15. CASE NotTranslated
  BY <1>15 DEF NotTranslated
<1>16. CASE Echoed
  BY <1>16 DEF Echoed
<1>17. CASE Translated
  BY <1>17 DEF Translated
<1> QED
  BY <1>1, <1>2, <1>3, <1>4, <1>5, <1>6, <1>7, <1>8, <1>9, <1>10, <1>11,
      <1>12, <1>13, <1>14, <1>15, <1>16, <1>17 DEF Next

-----------------------------------------------------------------------------
(* The inductive invariant, and what it gives.                             *)
LanguagesInv ==
  TypeOK /\ SessionInv /\ HistoryInv /\ CarriedInv /\ SearchInv /\ CutNearChange

(* It holds in every state of every meeting. *)
LEMMA LanguagesInvAlways == Spec => []LanguagesInv
<1>1. Init => LanguagesInv
  <2> SUFFICES ASSUME Init  PROVE LanguagesInv
    OBVIOUS
  <2>1. TypeOK
    <3>1. utt.first \in Pair /\ utt.length = 1 /\ utt.change \in 1 .. utt.length
      BY DEF Init, NoUtterance, Pair
    <3>2. decided \in -1 .. MaxSentences
      BY BoundsAssumption DEF Init
    <3>3. /\ utterances \in 0 .. MaxUtterances /\ tries \in 0 .. Steps
          /\ failures \in [Stage -> 0 .. Limit] /\ off \in -1 .. MaxSentences
      BY SplitAssumption, BoundsAssumption DEF Init
    <3>4. /\ taken \in 0 .. queued /\ queued \in 0 .. Len(said)
          /\ said \in Seq(Pair \cup {Outside})
      BY DEF Init
    <3>5. /\ history \in Seq(Sentence) /\ Len(history) <= Size
          /\ prompt \in Seq(Sentence) /\ Len(prompt) <= Size
          /\ parts \in Seq(Frame \X Frame) /\ Len(parts) <= 2
      BY SplitAssumption DEF Init
    <3>6. /\ at = "idle" /\ lastLanguage \in Pair \cup {Unknown}
          /\ doing = "nothing" /\ cut \in Frame \cup {None}
          /\ unsure \in BOOLEAN /\ blind \subseteq Sentence
      BY DEF Init
    <3> QED
      BY <3>1, <3>2, <3>3, <3>4, <3>5, <3>6 DEF TypeOK
  <2>2. SessionInv /\ HistoryInv /\ SearchInv
    BY BoundsAssumption DEF Init, SessionInv, HistoryInv, SearchInv
  <2>3. CarriedInv
    BY DEF Init, CarriedInv, LanguageIsCarried
  <2>4. CutNearChange
    BY DEF Init, CutNearChange
  <2> QED
    BY <2>1, <2>2, <2>3, <2>4 DEF LanguagesInv
<1>2. ASSUME LanguagesInv, Next  PROVE LanguagesInv'
  BY <1>2, TypeStep, SessionStep, HistoryStep, CarriedStep, SearchStep,
      NearStep
    DEF LanguagesInv
<1>3. ASSUME LanguagesInv, UNCHANGED vars  PROVE LanguagesInv'
  <2>1. UNCHANGED <<at, utterances, utt, low, high, tries, parts, cut, unsure,
                    lastLanguage, said, queued, failures, off, decided, blind,
                    taken, doing, prompt, history>>
    BY <1>3 DEF vars, worker
  <2>2. TypeOK'
    BY <1>3, <2>1 DEF LanguagesInv, TypeOK
  <2>3. SessionInv' /\ HistoryInv'
    BY <1>3, <2>1 DEF LanguagesInv, SessionInv, HistoryInv
  <2>4. CarriedInv'
    BY <1>3, <2>1 DEF LanguagesInv, CarriedInv, LanguageIsCarried
  <2>5. SearchInv'
    BY <1>3, <2>1 DEF LanguagesInv, SearchInv
  <2>6. CutNearChange'
    BY <1>3, <2>1 DEF LanguagesInv, CutNearChange, Gap
  <2> QED
    BY <2>2, <2>3, <2>4, <2>5, <2>6 DEF LanguagesInv
<1> QED
  BY <1>1, <1>2, <1>3, PTL DEF Spec

(* Every variable keeps its type, and the history its size. *)
THEOREM TypeCorrect == Spec => []TypeOK
<1>1. LanguagesInv => TypeOK
  BY DEF LanguagesInv
<1> QED
  BY <1>1, LanguagesInvAlways, PTL

(* However long the utterance and however many halvings there are, a cut   *)
(* of find() is near the change of language: behind it by no more than the *)
(* rest of the gap and a probe, and before it by no more than the search   *)
(* for a quiet frame and a probe, unless a probe was left undecided.       *)
THEOREM CutFindsTheChange == Spec => []CutNearChange
<1>1. LanguagesInv => CutNearChange
  BY DEF LanguagesInv
<1> QED
  BY <1>1, LanguagesInvAlways, PTL

(* After the first decision of a meeting, and for as long as there is an   *)
(* identifier, Whisper's own choice of a language is not asked for again   *)
(* but for a sentence the identifier raised on; the exceptions before it   *)
(* change nothing for the sentences after it.                              *)
THEOREM LastLanguageIsUsed == Spec => []LanguageIsCarried
<1>1. LanguagesInv => LanguageIsCarried
  BY DEF LanguagesInv, CarriedInv
<1> QED
  BY <1>1, LanguagesInvAlways, PTL

(* A sentence that came back as it was is asked again only without the     *)
(* history it was asked with, whatever the session's thread does.          *)
THEOREM RetryHasAnotherPrompt == Spec => []RetryIsDifferent
<1>1. LanguagesInv => RetryIsDifferent
  BY DEF LanguagesInv, HistoryInv, RetryIsDifferent
<1> QED
  BY <1>1, LanguagesInvAlways, PTL
=============================================================================
