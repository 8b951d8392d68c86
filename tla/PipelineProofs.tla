--------------------------- MODULE PipelineProofs ---------------------------
(* Theorems about Pipeline, for every set of loaded models, every failure  *)
(* limit and any number of sentences.                                      *)
EXTENDS Pipeline, FiniteSetTheorems, TLAPS

-----------------------------------------------------------------------------
(* Sequences of messages.                                                  *)
Ordered(q) == \A i, j \in 1 .. Len(q) : i < j => q[i] < q[j]
Before(S, T) == \A x \in S, y \in T : x < y
Distinct(q) == \A i, j \in 1 .. Len(q) : i # j => q[i] # q[j]

(* A message, or a notice, joins a sequence. *)
LEMMA Appended ==
  ASSUME NEW S, NEW q \in Seq(S), NEW x \in S
  PROVE  /\ Append(q, x) \in Seq(S)
         /\ Elements(Append(q, x)) = Elements(q) \cup {x}
         /\ Distinct(q) /\ x \notin Elements(q) => Distinct(Append(q, x))
<1> DEFINE p == Append(q, x)
<1>1. /\ p \in Seq(S) /\ Len(p) = Len(q) + 1 /\ Len(q) \in Nat
      /\ p[Len(q) + 1] = x
      /\ \A i \in 1 .. Len(q) : p[i] = q[i]
  OBVIOUS
<1> HIDE DEF p
<1>2. Elements(p) = Elements(q) \cup {x}
  BY <1>1 DEF Elements
<1>3. ASSUME Distinct(q), x \notin Elements(q)  PROVE Distinct(p)
  BY <1>1, <1>3 DEF Distinct, Elements
<1> QED
  BY <1>1, <1>2, <1>3 DEF p

(* The next sentence comes after the ones before it. *)
LEMMA AppendedInOrder ==
  ASSUME NEW S, NEW q \in Seq(S), NEW x \in S, Ordered(q),
         \A y \in Elements(q) : y < x
  PROVE  Ordered(Append(q, x))
<1> DEFINE p == Append(q, x)
<1>1. /\ p \in Seq(S) /\ Len(p) = Len(q) + 1 /\ Len(q) \in Nat
      /\ p[Len(q) + 1] = x
      /\ \A i \in 1 .. Len(q) : p[i] = q[i]
  OBVIOUS
<1> HIDE DEF p
<1> QED
  BY <1>1 DEF Ordered, Elements

(* What was gathered follows what was sent. *)
LEMMA Joined ==
  ASSUME NEW S, NEW p \in Seq(S), NEW q \in Seq(S)
  PROVE  /\ p \o q \in Seq(S)
         /\ Elements(p \o q) = Elements(p) \cup Elements(q)
         /\ Ordered(p) /\ Ordered(q) /\ Before(Elements(p), Elements(q))
              => Ordered(p \o q)
         /\ Distinct(p) /\ Distinct(q) /\ Elements(p) \cap Elements(q) = {}
              => Distinct(p \o q)
<1> DEFINE all == p \o q
<1>1. /\ all \in Seq(S) /\ Len(all) = Len(p) + Len(q)
      /\ Len(p) \in Nat /\ Len(q) \in Nat
  OBVIOUS
<1>2. \A i \in 1 .. Len(p) : all[i] = p[i]
  OBVIOUS
<1>3. \A i \in 1 .. Len(q) : all[Len(p) + i] = q[i]
  OBVIOUS
<1> HIDE DEF all
<1>4. ASSUME NEW i \in 1 .. Len(all), i \notin 1 .. Len(p)
      PROVE  i - Len(p) \in 1 .. Len(q) /\ all[i] = q[i - Len(p)]
  <2>1. i - Len(p) \in 1 .. Len(q) /\ Len(p) + (i - Len(p)) = i
    BY <1>1, <1>4
  <2>2. all[Len(p) + (i - Len(p))] = q[i - Len(p)]
    BY <1>3, <2>1
  <2> QED
    BY <2>1, <2>2
<1>5. Elements(all) = Elements(p) \cup Elements(q)
  <2>1. ASSUME NEW i \in 1 .. Len(all)
        PROVE  all[i] \in Elements(p) \cup Elements(q)
    BY <1>2, <1>4 DEF Elements
  <2>2. ASSUME NEW i \in 1 .. Len(p)  PROVE p[i] \in Elements(all)
    BY <1>1, <1>2, i \in 1 .. Len(all) DEF Elements
  <2>3. ASSUME NEW i \in 1 .. Len(q)  PROVE q[i] \in Elements(all)
    BY <1>1, <1>3, Len(p) + i \in 1 .. Len(all) DEF Elements
  <2>4. Elements(all) \subseteq Elements(p) \cup Elements(q)
    BY <2>1 DEF Elements
  <2>5. Elements(p) \subseteq Elements(all)
    BY <2>2 DEF Elements
  <2>6. Elements(q) \subseteq Elements(all)
    BY <2>3 DEF Elements
  <2> QED
    BY <2>4, <2>5, <2>6
<1>6. ASSUME Ordered(p), Ordered(q), Before(Elements(p), Elements(q))
      PROVE  Ordered(all)
  <2> SUFFICES ASSUME NEW i \in 1 .. Len(all), NEW j \in 1 .. Len(all), i < j
               PROVE  all[i] < all[j]
    BY DEF Ordered
  <2>1. CASE j \in 1 .. Len(p)
    <3>1. i \in 1 .. Len(p)
      BY <1>1, <2>1
    <3> QED
      BY <1>2, <1>6, <2>1, <3>1 DEF Ordered
  <2>2. CASE i \in 1 .. Len(p) /\ j \notin 1 .. Len(p)
    <3>1. all[i] \in Elements(p)
      BY <1>2, <2>2 DEF Elements
    <3>2. all[j] \in Elements(q)
      BY <1>4, <2>2 DEF Elements
    <3> QED
      BY <1>6, <3>1, <3>2 DEF Before
  <2>3. CASE i \notin 1 .. Len(p) /\ j \notin 1 .. Len(p)
    <3>1. i - Len(p) < j - Len(p)
      BY <1>1
    <3> QED
      BY <1>4, <1>6, <2>3, <3>1 DEF Ordered
  <2>4. i \notin 1 .. Len(p) => j \notin 1 .. Len(p)
    BY <1>1
  <2> QED
    BY <2>1, <2>2, <2>3, <2>4
<1>7. ASSUME Distinct(p), Distinct(q), Elements(p) \cap Elements(q) = {}
      PROVE  Distinct(all)
  <2> SUFFICES ASSUME NEW i \in 1 .. Len(all), NEW j \in 1 .. Len(all), i # j
               PROVE  all[i] # all[j]
    BY DEF Distinct
  <2>1. CASE i \in 1 .. Len(p) /\ j \in 1 .. Len(p)
    BY <1>2, <1>7, <2>1 DEF Distinct
  <2>2. CASE i \in 1 .. Len(p) /\ j \notin 1 .. Len(p)
    <3>1. all[i] \in Elements(p) /\ all[j] \in Elements(q)
      BY <1>2, <1>4, <2>2 DEF Elements
    <3> QED
      BY <1>7, <3>1
  <2>3. CASE i \notin 1 .. Len(p) /\ j \in 1 .. Len(p)
    <3>1. all[j] \in Elements(p) /\ all[i] \in Elements(q)
      BY <1>2, <1>4, <2>3 DEF Elements
    <3> QED
      BY <1>7, <3>1
  <2>4. CASE i \notin 1 .. Len(p) /\ j \notin 1 .. Len(p)
    <3>1. i - Len(p) # j - Len(p)
      BY <1>1
    <3> QED
      BY <1>4, <1>7, <2>4, <3>1 DEF Distinct
  <2> QED
    BY <2>1, <2>2, <2>3, <2>4
<1> QED
  BY <1>1, <1>5, <1>6, <1>7 DEF all

(* No messages. *)
LEMMA NoneGathered ==
  Elements(<<>>) = {} /\ Ordered(<<>>) /\ Distinct(<<>>)
BY DEF Elements, Ordered, Distinct

-----------------------------------------------------------------------------
(* The two actions a stage can break in.                                   *)

(* The stage after a stage. *)
LEMMA AfterStage ==
  ASSUME NEW s \in Stage  PROVE After(s) \in Stage \cup {"commit"}
BY DEF After, Stage

(* A broken stage is counted, and switched off if it is one of those that  *)
(* _stage_broke knows.                                                     *)
LEMMA Broke ==
  ASSUME TypeOK, NEW s \in Guarded, NEW device \in BOOLEAN,
         StageBroke(s, device)
  PROVE  /\ failures' \in [Guarded -> 0 .. Limit]
         /\ s \notin Stage => UNCHANGED <<on, disabled, notices>>
         /\ \/ UNCHANGED <<on, disabled, notices>>
            \/ /\ s \in Stage \ disabled
               /\ on' = on \ Cleared(s) /\ disabled' = disabled \cup {s}
               /\ notices' = Append(notices, s)
         /\ device /\ s \in Stage => s \in disabled'
<1>1. failures' \in [Guarded -> 0 .. Limit]
  BY LimitAssumption DEF TypeOK, StageBroke, CountFailure
<1>2. StageAttributes = Stage
  BY DEF StageAttributes, Stage
<1> QED
  BY <1>1, <1>2 DEF StageBroke, SwitchesOff

(* One more model has raised. *)
LEMMA Raised ==
  ASSUME TypeOK, NEW c \in Caller, NEW device \in BOOLEAN, Raises(c, device)
  PROVE  /\ raises' \in 0 .. MaxRaises
         /\ dead' = dead \/ (device /\ c \in Stage /\ dead' = dead \cup {c})
BY BoundsAssumption DEF TypeOK, Raises

(* What an exception that leaves _announce does. *)
Fallen ==
  /\ fell' \subseteq Caller /\ fell' # {}
  /\ finals' = 0 /\ halves' = 0 /\ out' = <<>>
  /\ partial' \in BOOLEAN /\ text' \in BOOLEAN
  /\ at' \in {"collect", "stop"} /\ (at' = "collect" <=> call = "audio")

(* It is what Abandon does. *)
LEMMA Abandoned ==
  ASSUME TypeOK, NEW c \in Caller, Abandon(c)
  PROVE  Fallen
<1>1. fell' = fell \cup {c} /\ fell \subseteq Caller
  BY DEF TypeOK, Abandon
<1>2. fell' \subseteq Caller /\ fell' # {}
  BY <1>1
<1>3. /\ finals' = 0 /\ halves' = 0 /\ partial' = FALSE /\ text' = FALSE
      /\ out' = <<>> /\ at' = AfterAnnounce
  BY DEF Abandon
<1>4. at' \in {"collect", "stop"} /\ (at' = "collect" <=> call = "audio")
  BY <1>3 DEF AfterAnnounce
<1> QED
  BY <1>2, <1>3, <1>4, FALSE \in BOOLEAN DEF Fallen

(* The splitter cuts, or does not, or breaks without being switched off,   *)
(* or its second failure falls out of _announce.                           *)
ByLanguageFrame ==
  /\ at = "language_split"
  /\ UNCHANGED <<state, call, broken, stopped, on, disabled, notices,
                 told, sentences, shown, ready, answered, dead>>
  /\ failures' \in [Guarded -> 0 .. Limit]
  /\ raises' \in 0 .. MaxRaises
  /\ reentered' \subseteq reentered \cup {"language_split"}
  /\ \/ /\ halves' \in {1, 2} /\ at' = "noise"
        /\ UNCHANGED <<finals, partial, text, out, fell>>
     \/ Fallen

(* It is what ByLanguage does. *)
LEMMA ByLanguageIs ==
  ASSUME TypeOK, ByLanguage
  PROVE  ByLanguageFrame
<1> DEFINE c == "language_split"
<1>1. c \in Caller /\ c \in Guarded /\ c \notin Stage
  BY DEF Caller, Guarded, Stage
<1>2. reentered' \subseteq reentered \cup {c}
  BY DEF ByLanguage, Calls
<1>3. /\ at = c
      /\ UNCHANGED <<state, call, broken, stopped, told, sentences, shown,
                     ready, answered>>
  BY DEF ByLanguage
<1>4. CASE Returns /\ Succeeded(c) /\ halves' \in {1, 2} /\ at' = "noise"
           /\ UNCHANGED <<finals, partial, text, on, disabled, notices, out,
                          fell>>
  <2>1. failures' \in [Guarded -> 0 .. Limit]
    <3>1. 0 \in 0 .. Limit
      BY LimitAssumption
    <3>2. failures' = [failures EXCEPT ![c] = 0]
      BY <1>4 DEF Succeeded
    <3> QED
      BY <1>1, <3>1, <3>2 DEF TypeOK
  <2>2. raises' \in 0 .. MaxRaises /\ UNCHANGED dead
    BY <1>4 DEF TypeOK, Returns
  <2>3. /\ UNCHANGED <<on, disabled, notices>>
        /\ halves' \in {1, 2} /\ at' = "noise"
        /\ UNCHANGED <<finals, partial, text, out, fell>>
    BY <1>4
  <2> QED
    BY <1>2, <1>3, <2>1, <2>2, <2>3 DEF ByLanguageFrame
<1>5. ASSUME NEW device \in BOOLEAN,
             Raises(c, device), StageBroke(c, device),
             IF Escapes(c, device)
               THEN Abandon(c)
               ELSE /\ halves' = 1
                    /\ at' = "noise"
                    /\ UNCHANGED <<finals, partial, text, out, fell>>
      PROVE  /\ failures' \in [Guarded -> 0 .. Limit]
             /\ raises' \in 0 .. MaxRaises
             /\ UNCHANGED <<on, disabled, notices, dead>>
             /\ \/ /\ halves' \in {1, 2} /\ at' = "noise"
                   /\ UNCHANGED <<finals, partial, text, out, fell>>
                \/ Fallen
  <2>1. /\ failures' \in [Guarded -> 0 .. Limit]
        /\ UNCHANGED <<on, disabled, notices>>
    BY <1>1, <1>5, Broke
  <2>2. raises' \in 0 .. MaxRaises /\ UNCHANGED dead
    BY <1>1, <1>5, Raised
  <2>3. \/ /\ halves' \in {1, 2} /\ at' = "noise"
           /\ UNCHANGED <<finals, partial, text, out, fell>>
        \/ Fallen
    BY <1>1, <1>5, Abandoned
  <2> QED
    BY <2>1, <2>2, <2>3
<1>6. \/ Returns /\ Succeeded(c) /\ halves' \in {1, 2} /\ at' = "noise"
         /\ UNCHANGED <<finals, partial, text, on, disabled, notices, out,
                        fell>>
      \/ \E device \in BOOLEAN :
           /\ Raises(c, device)
           /\ StageBroke(c, device)
           /\ IF Escapes(c, device)
                THEN Abandon(c)
                ELSE /\ halves' = 1
                     /\ at' = "noise"
                     /\ UNCHANGED <<finals, partial, text, out, fell>>
  BY DEF ByLanguage
<1> QED
  BY <1>2, <1>3, <1>4, <1>5, <1>6 DEF ByLanguageFrame

(* A stage of _analyse that raises goes on to the next one, switched off   *)
(* or not.                                                                 *)
StageRaisesFrame ==
  /\ at \in Stage \cap on /\ at' = After(at)
  /\ UNCHANGED <<state, call, broken, stopped, told, finals, halves,
                 partial, text, sentences, out, shown, ready, answered,
                 fell>>
  /\ failures' \in [Guarded -> 0 .. Limit]
  /\ raises' \in 0 .. MaxRaises
  /\ reentered' = IF at \in dead THEN reentered \cup {at} ELSE reentered
  /\ dead' = dead \/ (dead' = dead \cup {at} /\ at \in disabled')
  /\ \/ UNCHANGED <<on, disabled, notices>>
     \/ /\ at \notin disabled
        /\ on' = on \ Cleared(at) /\ disabled' = disabled \cup {at}
        /\ notices' = Append(notices, at)

(* It is what StageRaises does. *)
LEMMA StageRaisesIs ==
  ASSUME TypeOK, StageRaises
  PROVE  StageRaisesFrame
<1>1. PICK device \in BOOLEAN :
        /\ Raises(at, device)
        /\ StageBroke(at, device)
        /\ IF Escapes(at, device)
             THEN Abandon(at)
             ELSE /\ at' = After(at)
                  /\ UNCHANGED <<result, out, fell>>
  BY DEF StageRaises
<1>2. at \in Stage \cap on /\ at \in Guarded /\ at \in Caller
  BY DEF StageRaises, Caller, Guarded
<1>3. ~Escapes(at, device)
  BY <1>2 DEF Escapes, StageAttributes, Stage
<1>4. at' = After(at) /\ UNCHANGED <<result, out, fell>>
  BY <1>1, <1>3
<1>5. /\ raises' \in 0 .. MaxRaises
      /\ dead' = dead \/ (device /\ dead' = dead \cup {at})
  BY <1>1, <1>2, Raised
<1>6. /\ failures' \in [Guarded -> 0 .. Limit]
      /\ \/ UNCHANGED <<on, disabled, notices>>
         \/ /\ at \in Stage \ disabled
            /\ on' = on \ Cleared(at) /\ disabled' = disabled \cup {at}
            /\ notices' = Append(notices, at)
      /\ device => at \in disabled'
  BY <1>1, <1>2, Broke
<1>7. reentered' = IF at \in dead THEN reentered \cup {at} ELSE reentered
  <2>1. Model(at) = at
    BY <1>2 DEF Model, Stage
  <2> QED
    BY <2>1 DEF StageRaises, Calls
<1>8. UNCHANGED <<state, call, broken, stopped, told, sentences, shown, ready,
                  answered>>
  BY DEF StageRaises
<1> QED
  BY <1>2, <1>4, <1>5, <1>6, <1>7, <1>8 DEF result, StageRaisesFrame

(* The detector hears one voice, or cuts, or raises out of handle_binary.  *)
ChangeFrame ==
  /\ at = "change"
  /\ UNCHANGED <<state, call, stopped, on, failures, disabled, notices,
                 told, halves, text, sentences, out, shown, ready,
                 answered, fell, dead>>
  /\ raises' \in 0 .. MaxRaises
  /\ reentered' = IF "speaker" \in dead THEN reentered \cup {"change"}
                                        ELSE reentered
  /\ \/ at' = "whole" /\ UNCHANGED <<finals, partial, broken>>
     \/ /\ at' = "whole" /\ Room(finals + 1) /\ finals' = finals + 1
        /\ partial' \in BOOLEAN /\ UNCHANGED broken
     \/ /\ at' = "idle" /\ finals' = 0 /\ partial' \in BOOLEAN
        /\ broken' = TRUE

(* It is what Change does. *)
LEMMA ChangeIs ==
  ASSUME TypeOK, Change
  PROVE  ChangeFrame
<1>1. Model("change") = "speaker" /\ "change" \notin Stage
      /\ "change" \in Caller
  BY DEF Model, Stage, Caller
<1>2. /\ at = "change"
      /\ reentered' = IF "speaker" \in dead THEN reentered \cup {"change"}
                                            ELSE reentered
      /\ UNCHANGED <<state, call, stopped, on, failures, disabled, notices,
                     told, halves, text, sentences, out, shown, ready,
                     answered, fell>>
  BY <1>1 DEF Change, Calls, isolation, messages
<1>3. raises' \in 0 .. MaxRaises /\ UNCHANGED dead
  <2>1. CASE Returns
    BY <2>1 DEF Returns, TypeOK
  <2>2. ASSUME NEW device \in BOOLEAN, Raises("change", device)
        PROVE  raises' \in 0 .. MaxRaises /\ UNCHANGED dead
    BY <1>1, <2>2, Raised
  <2> QED
    BY <2>1, <2>2 DEF Change
<1>4. \/ at' = "whole" /\ UNCHANGED <<finals, partial, broken>>
      \/ /\ at' = "whole" /\ Room(finals + 1) /\ finals' = finals + 1
         /\ partial' \in BOOLEAN /\ UNCHANGED broken
      \/ /\ at' = "idle" /\ finals' = 0 /\ partial' \in BOOLEAN
         /\ broken' = TRUE
  BY DEF Change
<1> QED
  BY <1>2, <1>3, <1>4 DEF ChangeFrame

(* The running text goes on with what is loaded, or falls out of _announce *)
(* with everything gathered.                                               *)
PartialFrame ==
  /\ at \in {"partial", "partial_asr"}
  /\ UNCHANGED <<state, call, broken, stopped, on, failures, disabled, notices,
                 told, sentences, shown, ready, answered, dead>>
  /\ raises' \in 0 .. MaxRaises
  /\ \/ /\ at' = "partial_asr" /\ "asr" \in on
        /\ UNCHANGED <<finals, halves, partial, text, out, fell>>
     \/ /\ at' = "notices" /\ partial' \in BOOLEAN
        /\ UNCHANGED <<finals, halves, text, out, fell>>
     \/ Fallen
  /\ \/ reentered' = reentered
     \/ "language" \in on \cap dead
     \/ "asr" \in dead /\ (at = "partial_asr" \/ "asr" \in on)

(* It is what PartialLanguage or PartialAsr does. *)
LEMMA PartialIs ==
  ASSUME TypeOK, PartialLanguage \/ PartialAsr
  PROVE  PartialFrame
<1>1. CASE PartialLanguage
  <2> DEFINE c == "partial_language"
  <2>1. Model(c) = "language" /\ c \notin Stage /\ c \in Caller
    BY DEF Model, Stage, Caller
  <2>2. raises' \in 0 .. MaxRaises /\ UNCHANGED dead
    <3>1. CASE Returns
      BY <3>1 DEF Returns, TypeOK
    <3>2. ASSUME NEW device \in BOOLEAN, Raises(c, device)
          PROVE  raises' \in 0 .. MaxRaises /\ UNCHANGED dead
      BY <2>1, <3>2, Raised
    <3> QED
      BY <1>1, <3>1, <3>2 DEF PartialLanguage
  <2>3. /\ at = "partial" /\ "asr" \in on
        /\ reentered' = reentered \/ "language" \in on \cap dead
        /\ UNCHANGED <<state, call, broken, stopped, on, failures, disabled,
                       notices, told, sentences, shown, ready, answered>>
    BY <1>1, <2>1 DEF PartialLanguage, Calls, isolation
  <2>4. \/ /\ at' = "partial_asr"
           /\ UNCHANGED <<finals, halves, partial, text, out, fell>>
        \/ Fallen
    BY <1>1, <2>1, Abandoned DEF PartialLanguage, result
  <2> QED
    BY <2>2, <2>3, <2>4 DEF PartialFrame
<1>2. CASE PartialAsr
  <2> DEFINE c == "partial_asr"
  <2>1. Model(c) = "asr" /\ c \notin Stage /\ c \in Caller
    BY DEF Model, Stage, Caller
  <2>2. raises' \in 0 .. MaxRaises /\ UNCHANGED dead
    <3>1. CASE Returns
      BY <3>1 DEF Returns, TypeOK
    <3>2. ASSUME NEW device \in BOOLEAN, Raises(c, device)
          PROVE  raises' \in 0 .. MaxRaises /\ UNCHANGED dead
      BY <2>1, <3>2, Raised
    <3> QED
      BY <1>2, <3>1, <3>2 DEF PartialAsr
  <2>3. /\ at \in {"partial", "partial_asr"}
        /\ at = "partial_asr" \/ "asr" \in on
        /\ reentered' = reentered \/ "asr" \in dead
        /\ UNCHANGED <<state, call, broken, stopped, on, failures, disabled,
                       notices, told, sentences, shown, ready, answered>>
    BY <1>2, <2>1 DEF PartialAsr, Calls, isolation
  <2>4. \/ /\ at' = "notices" /\ partial' \in BOOLEAN
           /\ UNCHANGED <<finals, halves, text, out, fell>>
        \/ Fallen
    BY <1>2, <2>1, Abandoned DEF PartialAsr
  <2> QED
    BY <2>2, <2>3, <2>4 DEF PartialFrame
<1> QED
  BY <1>1, <1>2

-----------------------------------------------------------------------------
(* Where a call may be with what it has in hand, and that the sentences it *)
(* can still commit have a number.                                         *)
PartStages == Stage \cup {"commit"}
Quiet      == {"idle", "change", "collect", "stop"}

Numbers ==
  sentences + 2 * finals + (IF at = "language_split" THEN 2 ELSE halves)

CallInv ==
  /\ at \in PartStages => halves \in {1, 2}
  /\ at \notin PartStages => halves = 0
  /\ at \notin PartStages \cup {"change", "whole", "language_split"} =>
       finals = 0
  /\ Numbers <= MaxSentences
  /\ at = "change" => call = "audio" /\ finals <= MaxFinals
  /\ at \in Quiet => out = <<>>
  /\ state = "closed" => at \in {"idle", "stop"}
  /\ stopped => state = "closed"
  /\ at = "idle" /\ call \in {"bye", "finish"} => stopped

(* The final messages, those sent before those gathered, in the order of   *)
(* their numbers; each sentence has one unless something fell out of       *)
(* _announce.                                                              *)
MessageInv ==
  /\ Ordered(shown) /\ Ordered(out) /\ Before(Elements(shown), Elements(out))
  /\ Elements(shown) \cup Elements(out) \subseteq 1 .. sentences
  /\ fell = {} => 1 .. sentences \subseteq Elements(shown) \cup Elements(out)

(* An answer is of a committed sentence, is handed over once, and not      *)
(* before the call that gathers the sentence is over.                      *)
AnswerInv ==
  /\ answered \cup ready \subseteq 1 .. sentences
  /\ answered \cap ready = {}
  /\ answered \cap Elements(out) = {}
  /\ stopped => Cardinality(Unanswered) <= 1

(* A stage that is off has cleared the attributes that lead to its model,  *)
(* and is noticed once.                                                    *)
IsolationInv ==
  /\ dead \subseteq disabled /\ disabled \subseteq Stage
  /\ disabled \cap on = {}
  /\ "speaker" \in disabled => "change" \notin on
  /\ at = "change" => "change" \in on
  /\ at = "partial_asr" => "asr" \in on
  /\ reentered \subseteq {"language_split"}
  /\ Elements(told) \cup Elements(notices) = disabled
  /\ Elements(told) \cap Elements(notices) = {}
  /\ Distinct(told) /\ Distinct(notices)
  /\ at \in Quiet /\ ~broken /\ notices # <<>> => fell # {}

(* Every step keeps the types. *)
LEMMA TypeStep ==
  ASSUME TypeOK, CallInv, Next
  PROVE  TypeOK'
<1> USE LoadedAssumption, LimitAssumption, BoundsAssumption DEF TypeOK,
    CallInv, Numbers, PartStages, Quiet, Place, Caller, Guarded, Stage,
    result, isolation, messages, ghosts
<1>1. CASE Audio
  BY <1>1 DEF Audio, Room
<1>2. CASE SegmenterRaises
  BY <1>2 DEF SegmenterRaises
<1>3. CASE Change
  <2>1. ChangeFrame
    BY <1>3, ChangeIs
  <2>2. CASE at' = "whole" /\ UNCHANGED <<finals, partial, broken>>
    BY <2>1, <2>2 DEF ChangeFrame
  <2>3. CASE /\ at' = "whole" /\ Room(finals + 1) /\ finals' = finals + 1
             /\ partial' \in BOOLEAN /\ UNCHANGED broken
    BY <2>1, <2>3 DEF ChangeFrame
  <2>4. CASE /\ at' = "idle" /\ finals' = 0 /\ partial' \in BOOLEAN
             /\ broken' = TRUE
    BY <2>1, <2>4 DEF ChangeFrame
  <2> QED
    BY <2>1, <2>2, <2>3, <2>4 DEF ChangeFrame
<1>4. CASE NextWhole
  BY <1>4 DEF NextWhole
<1>5. CASE ByLanguage
  <2>1. ByLanguageFrame
    BY <1>5, ByLanguageIs
  <2>2. CASE halves' \in {1, 2} /\ at' = "noise"
             /\ UNCHANGED <<finals, partial, text, out, fell>>
    BY <2>1, <2>2, SMTT(60) DEF ByLanguageFrame
  <2>3. CASE Fallen
    BY <2>1, <2>3, SMTT(60) DEF ByLanguageFrame, Fallen
  <2> QED
    BY <2>1, <2>2, <2>3 DEF ByLanguageFrame
<1>6. CASE Skip
  BY <1>6 DEF Skip, After
<1>7. CASE Analyse
  <2>1. failures' \in [Guarded -> 0 .. Limit]
    BY <1>7 DEF Analyse, Succeeded
  <2>2. reentered' \subseteq Caller /\ text' \in BOOLEAN
    BY <1>7 DEF Analyse, Calls
  <2>3. at' \in Place
    BY <1>7, AfterStage DEF Analyse
  <2>4. UNCHANGED <<state, call, broken, stopped, on, disabled, notices, told,
                    finals, halves, partial, sentences, out, shown, ready,
                    answered, fell, raises, dead>>
    BY <1>7 DEF Analyse, Returns
  <2> QED
    BY <2>1, <2>2, <2>3, <2>4
<1>8. CASE StageRaises
  <2>1. at' \in Place /\ at \in Stage
    BY <1>8, StageRaisesIs, AfterStage DEF StageRaisesFrame
  <2>2. /\ on' \subseteq Caller /\ disabled' \subseteq Guarded
        /\ notices' \in Seq(Guarded)
    <3>1. CASE UNCHANGED <<on, disabled, notices>>
      BY <3>1
    <3>2. CASE /\ on' = on \ Cleared(at) /\ disabled' = disabled \cup {at}
               /\ notices' = Append(notices, at)
      <4>1. at \in Guarded /\ notices \in Seq(Guarded)
        BY <2>1
      <4>2. notices' \in Seq(Guarded)
        BY <3>2, <4>1, Appended
      <4> QED
        BY <3>2, <4>1, <4>2
    <3> QED
      BY <1>8, <3>1, <3>2, StageRaisesIs DEF StageRaisesFrame
  <2>3. dead' \subseteq Stage /\ reentered' \subseteq Caller
    BY <1>8, <2>1, StageRaisesIs DEF StageRaisesFrame
  <2>4. /\ UNCHANGED <<state, call, broken, stopped, told, finals, halves,
                       partial, text, sentences, out, shown, ready, answered,
                       fell>>
        /\ failures' \in [Guarded -> 0 .. Limit]
        /\ raises' \in 0 .. MaxRaises
    BY <1>8, StageRaisesIs DEF StageRaisesFrame
  <2> QED
    BY <2>1, <2>2, <2>3, <2>4
<1>9. CASE Commit
  <2>1. at \in PartStages /\ halves \in {1, 2}
    BY <1>9 DEF Commit
  <2>2. sentences' = sentences + Numbered /\ halves' = halves - 1
    BY <1>9 DEF Commit
  <2>3. sentences' \in 0 .. MaxSentences /\ halves' \in 0 .. 2
    BY <2>1, <2>2 DEF Numbered
  <2>4. out' \in Seq(Sentence)
    <3>1. CASE text
      <4>1. sentences' \in Sentence
        BY <2>2, <2>3, <3>1 DEF Numbered, Sentence
      <4>2. out' = Append(out, sentences') /\ out \in Seq(Sentence)
        BY <1>9, <3>1 DEF Commit
      <4> QED
        BY <4>1, <4>2, Appended
    <3>2. CASE ~text
      BY <1>9, <3>2 DEF Commit
    <3> QED
      BY <3>1, <3>2
  <2>5. text' \in BOOLEAN /\ at' \in Place
    BY <1>9 DEF Commit
  <2>6. UNCHANGED <<state, call, broken, stopped, on, failures, disabled,
                    notices, told, finals, partial, shown, ready, answered,
                    raises, fell, dead, reentered>>
    BY <1>9 DEF Commit
  <2> QED
    BY <2>3, <2>4, <2>5, <2>6
<1>10. CASE PartialLanguage
  <2>1. PartialFrame
    BY <1>10, PartialIs
  <2>4. reentered' \subseteq Caller
    BY <1>10 DEF PartialLanguage, Calls
  <2>2. CASE \/ /\ at' = "partial_asr"
                /\ UNCHANGED <<finals, halves, partial, text, out, fell>>
             \/ /\ at' = "notices" /\ partial' \in BOOLEAN
                /\ UNCHANGED <<finals, halves, text, out, fell>>
    BY <2>1, <2>4, <2>2 DEF PartialFrame
  <2>3. CASE Fallen
    BY <2>1, <2>4, <2>3 DEF PartialFrame, Fallen
  <2> QED
    BY <2>1, <2>4, <2>2, <2>3 DEF PartialFrame
<1>11. CASE PartialAsr
  <2>1. PartialFrame
    BY <1>11, PartialIs
  <2>4. reentered' \subseteq Caller
    BY <1>11 DEF PartialAsr, Calls
  <2>2. CASE \/ /\ at' = "partial_asr"
                /\ UNCHANGED <<finals, halves, partial, text, out, fell>>
             \/ /\ at' = "notices" /\ partial' \in BOOLEAN
                /\ UNCHANGED <<finals, halves, text, out, fell>>
    BY <2>1, <2>4, <2>2 DEF PartialFrame
  <2>3. CASE Fallen
    BY <2>1, <2>4, <2>3 DEF PartialFrame, Fallen
  <2> QED
    BY <2>1, <2>4, <2>2, <2>3 DEF PartialFrame
<1>12. CASE NoPartial
  BY <1>12 DEF NoPartial
<1>13. CASE Announced
  BY <1>13 DEF Announced, AfterAnnounce, NoticesSent
<1>14. CASE Collect
  BY <1>14 DEF Collect
<1>15. CASE Fail
  BY <1>15 DEF Fail
<1>16. CASE Bye
  <2>1. finals' \in 0 .. MaxFinals + 1
    BY <1>16 DEF Bye, Finalise
  <2>2. at' \in Place /\ call' \in {"none", "audio", "bye", "finish"}
    BY <1>16 DEF Bye, Finalise
  <2>3. UNCHANGED <<state, broken, stopped, on, failures, disabled, notices,
                    told, halves, partial, text, sentences, out, shown, ready,
                    answered, raises, fell, dead, reentered>>
    BY <1>16 DEF Bye, Finalise
  <2> QED
    BY <2>1, <2>2, <2>3
<1>17. CASE Finish
  <2>1. finals' \in 0 .. MaxFinals + 1
    BY <1>17 DEF Finish, Finalise
  <2>2. at' \in Place /\ call' \in {"none", "audio", "bye", "finish"}
    BY <1>17 DEF Finish, Finalise
  <2>3. UNCHANGED <<state, broken, stopped, on, failures, disabled, notices,
                    told, halves, partial, text, sentences, out, shown, ready,
                    answered, raises, fell, dead, reentered>>
    BY <1>17 DEF Finish, Finalise
  <2> QED
    BY <2>1, <2>2, <2>3
<1>18. CASE Stop
  BY <1>18 DEF Stop, Settled
<1>19. CASE WorkerAnswers
  <2>1. ready' \subseteq Sentence
    BY <1>19, SMTT(60) DEF WorkerAnswers, Unanswered, Sentence
  <2> QED
    BY <1>19, <2>1 DEF WorkerAnswers
<1> QED
  BY <1>1, <1>2, <1>3, <1>4, <1>5, <1>6, <1>7, <1>8, <1>9, <1>10, <1>11,
      <1>12, <1>13, <1>14, <1>15, <1>16, <1>17, <1>18, <1>19 DEF Next

(* Every step keeps the call and what it has in hand together. *)
LEMMA CallStep ==
  ASSUME TypeOK, CallInv, Next
  PROVE  CallInv'
<1> USE LoadedAssumption, LimitAssumption, BoundsAssumption DEF TypeOK,
    CallInv, Numbers, PartStages, Quiet, Place, Caller, Guarded, Stage,
    result, isolation, messages, ghosts
<1>1. CASE Audio
  <2>1. Numbers' <= MaxSentences
    <3>1. halves = 0 /\ UNCHANGED <<halves, sentences>> /\ Room(finals')
          /\ at' # "language_split"
      BY <1>1 DEF Audio
    <3>2. finals' \in 0 .. MaxFinals
      BY <1>1 DEF Audio
    <3>3. PICK s \in Nat, f \in Nat : s = sentences /\ f = finals'
      BY <3>2
    <3>4. s + 2 * f <= MaxSentences
      BY <3>1, <3>3 DEF Room
    <3>5. Numbers' = s + 2 * f + 0
      BY <3>1, <3>3
    <3> HIDE DEF Numbers, TypeOK, CallInv
    <3>6. s + 2 * f + 0 <= MaxSentences
      BY <3>4
    <3> QED
      BY <3>5, <3>6
  <2> HIDE DEF Numbers
  <2> QED
    BY <1>1, <2>1 DEF Audio, Room
<1>2. CASE SegmenterRaises
  BY <1>2 DEF SegmenterRaises
<1>3. CASE Change
  <2>1. ChangeFrame
    BY <1>3, ChangeIs
  <2>2. CASE at' = "whole" /\ UNCHANGED <<finals, partial, broken>>
    BY <2>1, <2>2 DEF ChangeFrame
  <2>3. CASE /\ at' = "whole" /\ Room(finals + 1) /\ finals' = finals + 1
             /\ partial' \in BOOLEAN /\ UNCHANGED broken
    <3>1. Numbers' <= MaxSentences
      BY <2>1, <2>3 DEF ChangeFrame, Room
    <3> HIDE DEF Numbers
    <3> QED
      BY <2>1, <2>3, <3>1 DEF ChangeFrame
  <2>4. CASE /\ at' = "idle" /\ finals' = 0 /\ partial' \in BOOLEAN
             /\ broken' = TRUE
    BY <2>1, <2>4 DEF ChangeFrame
  <2> QED
    BY <2>1, <2>2, <2>3, <2>4 DEF ChangeFrame
<1>4. CASE NextWhole
  <2>1. Numbers' <= MaxSentences
    BY <1>4, SMTT(60) DEF NextWhole
  <2> HIDE DEF Numbers
  <2> QED
    BY <1>4, <2>1 DEF NextWhole
<1>5. CASE ByLanguage
  <2>1. ByLanguageFrame
    BY <1>5, ByLanguageIs
  <2>2. CASE halves' \in {1, 2} /\ at' = "noise"
             /\ UNCHANGED <<finals, partial, text, out, fell>>
    <3>1. Numbers' <= MaxSentences
      <4>1. /\ at = "language_split" /\ halves' \in 1 .. 2
            /\ at' # "language_split" /\ UNCHANGED <<sentences, finals>>
        BY <2>1, <2>2 DEF ByLanguageFrame
      <4>2. sentences \in Nat /\ finals \in Nat
        OBVIOUS
      <4>3. PICK s \in Nat, f \in Nat, h \in 1 .. 2 :
              s = sentences /\ f = finals /\ h = halves'
        BY <4>1, <4>2
      <4>4. Numbers = s + 2 * f + 2 /\ Numbers <= MaxSentences
        BY <4>1, <4>3
      <4>5. Numbers' = s + 2 * f + h
        BY <4>1, <4>3
      <4> HIDE DEF Numbers, TypeOK, CallInv
      <4>6. s + 2 * f + h <= MaxSentences
        BY <4>4
      <4> QED
        BY <4>5, <4>6
    <3> HIDE DEF Numbers
    <3> QED
      BY <2>1, <2>2, <3>1 DEF ByLanguageFrame
  <2>3. CASE Fallen
    BY <2>1, <2>3, SMTT(60) DEF ByLanguageFrame, Fallen
  <2> QED
    BY <2>1, <2>2, <2>3 DEF ByLanguageFrame
<1>6. CASE Skip
  BY <1>6 DEF Skip, After
<1>7. CASE Analyse
  BY <1>7 DEF Analyse, Calls, Returns, Succeeded, After
<1>8. CASE StageRaises
  <2>1. StageRaisesFrame
    BY <1>8, StageRaisesIs
  <2>2. at' \in PartStages /\ at \in Stage
    BY <2>1, AfterStage DEF StageRaisesFrame
  <2> QED
    BY <2>1, <2>2 DEF StageRaisesFrame
<1>9. CASE Commit
  BY <1>9 DEF Commit, Numbered
<1>10. CASE PartialLanguage
  <2>1. PartialFrame
    BY <1>10, PartialIs
  <2>2. CASE \/ /\ at' = "partial_asr"
                /\ UNCHANGED <<finals, halves, partial, text, out, fell>>
             \/ /\ at' = "notices" /\ partial' \in BOOLEAN
                /\ UNCHANGED <<finals, halves, text, out, fell>>
    BY <2>1, <2>2 DEF PartialFrame
  <2>3. CASE Fallen
    BY <2>1, <2>3 DEF PartialFrame, Fallen
  <2> QED
    BY <2>1, <2>2, <2>3 DEF PartialFrame
<1>11. CASE PartialAsr
  <2>1. PartialFrame
    BY <1>11, PartialIs
  <2>2. CASE \/ /\ at' = "partial_asr"
                /\ UNCHANGED <<finals, halves, partial, text, out, fell>>
             \/ /\ at' = "notices" /\ partial' \in BOOLEAN
                /\ UNCHANGED <<finals, halves, text, out, fell>>
    BY <2>1, <2>2 DEF PartialFrame
  <2>3. CASE Fallen
    BY <2>1, <2>3 DEF PartialFrame, Fallen
  <2> QED
    BY <2>1, <2>2, <2>3 DEF PartialFrame
<1>12. CASE NoPartial
  BY <1>12 DEF NoPartial
<1>13. CASE Announced
  BY <1>13 DEF Announced, AfterAnnounce, NoticesSent
<1>14. CASE Collect
  BY <1>14 DEF Collect
<1>15. CASE Fail
  BY <1>15 DEF Fail
<1>16. CASE Bye
  BY <1>16 DEF Bye, Finalise, Room
<1>17. CASE Finish
  BY <1>17, SMTT(60) DEF Finish, Finalise, Room
<1>18. CASE Stop
  BY <1>18 DEF Stop, Settled
<1>19. CASE WorkerAnswers
  BY <1>19 DEF WorkerAnswers
<1> QED
  BY <1>1, <1>2, <1>3, <1>4, <1>5, <1>6, <1>7, <1>8, <1>9, <1>10, <1>11,
      <1>12, <1>13, <1>14, <1>15, <1>16, <1>17, <1>18, <1>19 DEF Next

(* Every step keeps the messages in order and complete. *)
LEMMA MessageStep ==
  ASSUME TypeOK, CallInv, MessageInv, Next
  PROVE  MessageInv'
<1> USE LoadedAssumption, LimitAssumption, BoundsAssumption DEF TypeOK,
    MessageInv, result, isolation, messages, ghosts
<1>1. CASE Audio
  BY <1>1 DEF Audio, Room
<1>2. CASE SegmenterRaises
  BY <1>2 DEF SegmenterRaises
<1>3. CASE Change
  BY <1>3, ChangeIs DEF ChangeFrame
<1>4. CASE NextWhole
  BY <1>4 DEF NextWhole
<1>5. CASE ByLanguage
  <2>1. ByLanguageFrame
    BY <1>5, ByLanguageIs
  <2>2. CASE UNCHANGED <<out, fell>>
    BY <2>1, <2>2 DEF ByLanguageFrame
  <2>3. CASE Fallen
    <3>1. UNCHANGED <<shown, sentences>> /\ out' = <<>> /\ fell' # {}
      BY <2>1, <2>3 DEF ByLanguageFrame, Fallen
    <3> QED
      BY <3>1, NoneGathered DEF Before
  <2> QED
    BY <2>1, <2>2, <2>3 DEF ByLanguageFrame
<1>6. CASE Skip
  BY <1>6 DEF Skip, After
<1>7. CASE Analyse
  BY <1>7 DEF Analyse, Calls, Returns, Succeeded, After
<1>8. CASE StageRaises
  BY <1>8, StageRaisesIs DEF StageRaisesFrame
<1>9. CASE Commit
  <2>1. UNCHANGED <<shown, fell>> /\ sentences' = sentences + Numbered
    BY <1>9 DEF Commit
  <2>2. CASE text
    <3>1. sentences' = sentences + 1 /\ out' = Append(out, sentences + 1)
      BY <1>9, <2>2 DEF Commit, Numbered
    <3>2. out \in Seq(Sentence) /\ sentences \in Nat
      BY DEF TypeOK
    <3>3. sentences + 1 \in Sentence
      BY <3>1, <3>2, TypeStep DEF TypeOK, Sentence
    <3>4. \A y \in Elements(out) : y < sentences + 1
      BY <3>2
    <3>5. /\ Elements(out') = Elements(out) \cup {sentences + 1}
          /\ Ordered(out')
      BY <3>1, <3>2, <3>3, <3>4, Appended, AppendedInOrder
    <3>6. 1 .. sentences' = (1 .. sentences) \cup {sentences + 1}
      BY <3>1, <3>2
    <3>7. \A x \in 1 .. sentences : x < sentences + 1
      BY <3>2
    <3> QED
      BY <2>1, <3>5, <3>6, <3>7 DEF Before
  <2>3. CASE ~text
    <3>1. UNCHANGED <<sentences, out>>
      BY <1>9, <2>3 DEF Commit, Numbered, TypeOK
    <3> QED
      BY <2>1, <3>1
  <2> QED
    BY <2>2, <2>3
<1>10. CASE PartialLanguage
  <2>1. PartialFrame
    BY <1>10, PartialIs
  <2>2. CASE UNCHANGED <<out, fell>>
    BY <2>1, <2>2 DEF PartialFrame
  <2>3. CASE Fallen
    <3>1. UNCHANGED <<shown, sentences>> /\ out' = <<>> /\ fell' # {}
      BY <2>1, <2>3 DEF PartialFrame, Fallen
    <3> QED
      BY <3>1, NoneGathered DEF Before
  <2> QED
    BY <2>1, <2>2, <2>3 DEF PartialFrame
<1>11. CASE PartialAsr
  <2>1. PartialFrame
    BY <1>11, PartialIs
  <2>2. CASE UNCHANGED <<out, fell>>
    BY <2>1, <2>2 DEF PartialFrame
  <2>3. CASE Fallen
    <3>1. UNCHANGED <<shown, sentences>> /\ out' = <<>> /\ fell' # {}
      BY <2>1, <2>3 DEF PartialFrame, Fallen
    <3> QED
      BY <3>1, NoneGathered DEF Before
  <2> QED
    BY <2>1, <2>2, <2>3 DEF PartialFrame
<1>12. CASE NoPartial
  BY <1>12 DEF NoPartial
<1>13. CASE Announced
  <2>1. /\ UNCHANGED <<sentences, fell>>
        /\ shown' = shown \o out /\ out' = <<>>
    BY <1>13 DEF Announced
  <2>2. shown \in Seq(Sentence) /\ out \in Seq(Sentence)
    BY DEF TypeOK
  <2>3. /\ Elements(shown') = Elements(shown) \cup Elements(out)
        /\ Ordered(shown')
    BY <2>1, <2>2, Joined
  <2> QED
    BY <2>1, <2>3, NoneGathered DEF Before
<1>14. CASE Collect
  BY <1>14 DEF Collect
<1>15. CASE Fail
  BY <1>15 DEF Fail
<1>16. CASE Bye
  BY <1>16 DEF Bye, Finalise, Room
<1>17. CASE Finish
  BY <1>17 DEF Finish, Finalise, Room
<1>18. CASE Stop
  BY <1>18 DEF Stop, Settled
<1>19. CASE WorkerAnswers
  BY <1>19 DEF WorkerAnswers
<1> QED
  BY <1>1, <1>2, <1>3, <1>4, <1>5, <1>6, <1>7, <1>8, <1>9, <1>10, <1>11,
      <1>12, <1>13, <1>14, <1>15, <1>16, <1>17, <1>18, <1>19 DEF Next

(* Every step hands an answer over once and behind its sentence. *)
LEMMA AnswerStep ==
  ASSUME TypeOK, CallInv, MessageInv, AnswerInv, Next
  PROVE  AnswerInv'
<1> USE LoadedAssumption, LimitAssumption, BoundsAssumption DEF TypeOK,
    CallInv, Numbers, AnswerInv, Unanswered, PartStages, Quiet, Place,
    Caller, Guarded, Stage, result, isolation, messages, ghosts
<1>1. CASE Audio
  BY <1>1 DEF Audio, Room
<1>2. CASE SegmenterRaises
  BY <1>2 DEF SegmenterRaises
<1>3. CASE Change
  <2>1. ChangeFrame
    BY <1>3, ChangeIs
  <2>2. UNCHANGED <<sentences, ready, answered, stopped, out>>
    BY <2>1 DEF ChangeFrame
  <2> QED
    BY <2>2
<1>4. CASE NextWhole
  BY <1>4 DEF NextWhole
<1>5. CASE ByLanguage
  <2>1. ByLanguageFrame
    BY <1>5, ByLanguageIs
  <2>2. UNCHANGED <<sentences, ready, answered, stopped>>
    BY <2>1 DEF ByLanguageFrame
  <2>3. out' = out \/ out' = <<>>
    BY <2>1 DEF ByLanguageFrame, Fallen
  <2> QED
    BY <2>2, <2>3, NoneGathered
<1>6. CASE Skip
  BY <1>6 DEF Skip, After
<1>7. CASE Analyse
  BY <1>7 DEF Analyse, Calls, Returns, Succeeded, After
<1>8. CASE StageRaises
  <2>1. StageRaisesFrame
    BY <1>8, StageRaisesIs
  <2>2. UNCHANGED <<sentences, ready, answered, stopped, out>>
    BY <2>1 DEF StageRaisesFrame
  <2> QED
    BY <2>2
<1>9. CASE Commit
  <2>1. UNCHANGED <<answered, ready, stopped>> /\ stopped = FALSE
    BY <1>9 DEF Commit
  <2>2. CASE text
    <3>1. sentences' = sentences + 1 /\ out' = Append(out, sentences + 1)
      BY <1>9, <2>2 DEF Commit, Numbered
    <3>2. out \in Seq(Sentence) /\ sentences \in Nat
      OBVIOUS
    <3>3. sentences + 1 \in Sentence
      BY <3>1, <3>2, TypeStep, SMTT(60) DEF Sentence
    <3>4. Elements(out') = Elements(out) \cup {sentences + 1}
      <4> HIDE DEF TypeOK, CallInv, AnswerInv
      <4> QED
        BY <3>1, <3>2, <3>3, Appended
    <3>5. 1 .. sentences \subseteq 1 .. sentences'
          /\ sentences + 1 \notin 1 .. sentences
      BY <3>1, <3>2
    <3> QED
      BY <2>1, <3>4, <3>5
  <2>3. CASE ~text
    <3>1. UNCHANGED <<sentences, out>>
      BY <1>9, <2>3 DEF Commit, Numbered
    <3> QED
      BY <2>1, <3>1
  <2> QED
    BY <2>2, <2>3
<1>10. CASE PartialLanguage
  <2>1. PartialFrame
    BY <1>10, PartialIs
  <2>2. UNCHANGED <<sentences, ready, answered, stopped>>
    BY <2>1 DEF PartialFrame
  <2>3. out' = out \/ out' = <<>>
    BY <2>1 DEF PartialFrame, Fallen
  <2> QED
    BY <2>2, <2>3, NoneGathered
<1>11. CASE PartialAsr
  <2>1. PartialFrame
    BY <1>11, PartialIs
  <2>2. UNCHANGED <<sentences, ready, answered, stopped>>
    BY <2>1 DEF PartialFrame
  <2>3. out' = out \/ out' = <<>>
    BY <2>1 DEF PartialFrame, Fallen
  <2> QED
    BY <2>2, <2>3, NoneGathered
<1>12. CASE NoPartial
  BY <1>12 DEF NoPartial
<1>13. CASE Announced
  <2>1. UNCHANGED <<sentences, answered, ready, stopped>> /\ out' = <<>>
    BY <1>13 DEF Announced
  <2> QED
    BY <2>1, NoneGathered
<1>14. CASE Collect
  <2>1. /\ UNCHANGED <<sentences, out, stopped>> /\ out = <<>>
        /\ answered' = answered \cup ready /\ ready' = {} /\ stopped = FALSE
    BY <1>14 DEF Collect
  <2> QED
    BY <2>1, NoneGathered
<1>15. CASE Fail
  BY <1>15 DEF Fail
<1>16. CASE Bye
  BY <1>16 DEF Bye, Finalise, Room
<1>17. CASE Finish
  BY <1>17 DEF Finish, Finalise, Room
<1>18. CASE Stop
  <2>1. /\ UNCHANGED <<sentences, out>> /\ out = <<>>
        /\ answered' = answered \cup ready /\ ready' = {}
    BY <1>18 DEF Stop
  <2>2. Unanswered' = Unanswered \ ready
    BY <2>1
  <2>3. IsFiniteSet(1 .. sentences)
    BY sentences \in Nat, FS_Interval
  <2>4. IsFiniteSet(Unanswered) /\ IsFiniteSet(Unanswered \ ready)
    BY <2>3, FS_Subset
  <2>5. /\ Cardinality(Unanswered \ ready) <= Cardinality(Unanswered)
        /\ Cardinality(Unanswered) \in Nat
        /\ Cardinality(Unanswered \ ready) \in Nat
    BY <2>4, FS_Subset, FS_CardinalityType
  <2>6. Cardinality(Unanswered \ ready) <= 1
    <3>1. stopped \/ Cardinality(Unanswered \ ready) <= 1
      BY <1>18 DEF Stop, Settled
    <3>2. CASE stopped
      <4>1. Cardinality(Unanswered) <= 1
        BY <3>2
      <4> HIDE DEF AnswerInv, Unanswered
      <4> QED
        BY <2>5, <4>1
    <3> QED
      BY <3>1, <3>2
  <2> HIDE DEF Unanswered
  <2>7. Cardinality(Unanswered') <= 1
    BY <2>2, <2>6
  <2> QED
    BY <2>1, <2>7, NoneGathered
<1>19. CASE WorkerAnswers
  BY <1>19 DEF WorkerAnswers
<1> QED
  BY <1>1, <1>2, <1>3, <1>4, <1>5, <1>6, <1>7, <1>8, <1>9, <1>10, <1>11,
      <1>12, <1>13, <1>14, <1>15, <1>16, <1>17, <1>18, <1>19 DEF Next

(* Every step keeps a broken stage off and its notice. *)
LEMMA IsolationStep ==
  ASSUME TypeOK, CallInv, IsolationInv, Next
  PROVE  IsolationInv'
<1> USE LoadedAssumption, LimitAssumption, BoundsAssumption DEF TypeOK,
    CallInv, IsolationInv, Model, PartStages, Quiet, Place, Caller, Guarded,
    Stage, result, isolation, messages, ghosts
<1>1. CASE Audio
  BY <1>1 DEF Audio, Room
<1>2. CASE SegmenterRaises
  BY <1>2 DEF SegmenterRaises
<1>3. CASE Change
  BY <1>3, ChangeIs DEF ChangeFrame
<1>4. CASE NextWhole
  BY <1>4 DEF NextWhole
<1>5. CASE ByLanguage
  <2>1. ByLanguageFrame
    BY <1>5, ByLanguageIs
  <2> QED
    BY <2>1 DEF ByLanguageFrame, Fallen
<1>6. CASE Skip
  BY <1>6 DEF Skip, After
<1>7. CASE Analyse
  BY <1>7 DEF Analyse, Calls, Returns, Succeeded, After
<1>8. CASE StageRaises
  <2>1. StageRaisesFrame
    BY <1>8, StageRaisesIs
  <2>2. at' \in PartStages /\ at \in Stage /\ at \in on /\ at \notin dead
    BY <2>1, AfterStage DEF StageRaisesFrame
  <2>3. CASE UNCHANGED <<on, disabled, notices>>
    BY <2>1, <2>2, <2>3 DEF StageRaisesFrame
  <2>4. CASE /\ at \notin disabled
             /\ on' = on \ Cleared(at) /\ disabled' = disabled \cup {at}
             /\ notices' = Append(notices, at)
    <3>1. at \in Guarded /\ notices \in Seq(Guarded)
      BY <2>2
    <3>2. /\ Elements(notices') = Elements(notices) \cup {at}
          /\ Distinct(notices) /\ at \notin Elements(notices)
               => Distinct(notices')
      <4> HIDE DEF TypeOK, CallInv, IsolationInv, Guarded, Stage
      <4> QED
        BY <2>4, <3>1, Appended
    <3>3. at \notin Elements(notices) /\ at \notin Elements(told)
      BY <2>4
    <3>4. /\ on' \subseteq on /\ at \notin on'
          /\ at = "speaker" => "change" \notin on'
      BY <2>4 DEF Cleared
    <3>5. dead' \subseteq dead \cup {at} /\ reentered' = reentered
          /\ UNCHANGED <<told, broken, fell>>
      BY <2>1, <2>2 DEF StageRaisesFrame
    <3>6. dead' \subseteq disabled' /\ disabled' \subseteq Stage
      BY <2>2, <2>4, <3>5
    <3>7. /\ disabled' \cap on' = {}
          /\ "speaker" \in disabled' => "change" \notin on'
      <4>1. disabled \cap on = {} /\ disabled' = disabled \cup {at}
        BY <2>4
      <4>2. disabled' \cap on' = {}
        BY <3>4, <4>1
      <4>3. "speaker" \in disabled => "change" \notin on
        OBVIOUS
      <4>4. "speaker" \in disabled' => "change" \notin on'
        BY <3>4, <4>1, <4>3
      <4> QED
        BY <4>2, <4>4
    <3>8. /\ Elements(told') \cup Elements(notices') = disabled'
          /\ Elements(told') \cap Elements(notices') = {}
          /\ Distinct(told') /\ Distinct(notices')
      BY <2>4, <3>2, <3>3, <3>5
    <3>9. at' \notin Quiet /\ at' # "change" /\ at' # "partial_asr"
      BY <2>2
    <3> QED
      BY <3>5, <3>6, <3>7, <3>8, <3>9
  <2> QED
    BY <2>1, <2>3, <2>4 DEF StageRaisesFrame
<1>9. CASE Commit
  BY <1>9 DEF Commit, Numbered
<1>10. CASE PartialLanguage
  <2>1. PartialFrame
    BY <1>10, PartialIs
  <2> QED
    BY <2>1 DEF PartialFrame, Fallen
<1>11. CASE PartialAsr
  <2>1. PartialFrame
    BY <1>11, PartialIs
  <2> QED
    BY <2>1 DEF PartialFrame, Fallen
<1>12. CASE NoPartial
  BY <1>12 DEF NoPartial
<1>13. CASE Announced
  <2>1. /\ told' = told \o notices /\ notices' = <<>>
        /\ UNCHANGED <<dead, disabled, on, reentered, fell, broken>>
    BY <1>13 DEF Announced, NoticesSent
  <2>2. at' \in {"collect", "stop"}
    BY <1>13 DEF Announced, AfterAnnounce
  <2>3. told \in Seq(Guarded) /\ notices \in Seq(Guarded)
    OBVIOUS
  <2>4. /\ Elements(told') = Elements(told) \cup Elements(notices)
        /\ Distinct(told) /\ Distinct(notices)
             /\ Elements(told) \cap Elements(notices) = {} => Distinct(told')
    BY <2>1, <2>3, Joined
  <2> QED
    BY <2>1, <2>2, <2>4, NoneGathered
<1>14. CASE Collect
  BY <1>14 DEF Collect
<1>15. CASE Fail
  BY <1>15 DEF Fail
<1>16. CASE Bye
  BY <1>16 DEF Bye, Finalise, Room
<1>17. CASE Finish
  BY <1>17 DEF Finish, Finalise, Room
<1>18. CASE Stop
  BY <1>18 DEF Stop, Settled
<1>19. CASE WorkerAnswers
  BY <1>19 DEF WorkerAnswers
<1> QED
  BY <1>1, <1>2, <1>3, <1>4, <1>5, <1>6, <1>7, <1>8, <1>9, <1>10, <1>11,
      <1>12, <1>13, <1>14, <1>15, <1>16, <1>17, <1>18, <1>19 DEF Next

-----------------------------------------------------------------------------
(* The inductive invariant, and what it gives.                             *)
PipelineInv == TypeOK /\ CallInv /\ MessageInv /\ AnswerInv /\ IsolationInv

(* It holds in every state of every session. *)
LEMMA PipelineInvAlways == Spec => []PipelineInv
<1>1. Init => PipelineInv
  <2> SUFFICES ASSUME Init  PROVE PipelineInv
    OBVIOUS
  <2>1. TypeOK
    <3>1. /\ on \subseteq Caller /\ failures \in [Guarded -> 0 .. Limit]
      BY LoadedAssumption, LimitAssumption DEF Init, Caller, Guarded
    <3>2. /\ notices \in Seq(Guarded) /\ told \in Seq(Guarded)
          /\ out \in Seq(Sentence) /\ shown \in Seq(Sentence)
      BY DEF Init
    <3>3. /\ finals \in 0 .. MaxFinals + 1 /\ halves \in 0 .. 2
          /\ sentences \in 0 .. MaxSentences /\ raises \in 0 .. MaxRaises
      BY BoundsAssumption DEF Init
    <3>4. /\ state \in {"streaming", "closed"} /\ at \in Place
          /\ call \in {"none", "audio", "bye", "finish"}
      BY DEF Init, Place
    <3> QED
      BY <3>1, <3>2, <3>3, <3>4 DEF Init, TypeOK
  <2>2. CallInv
    BY BoundsAssumption DEF Init, CallInv, PartStages, Stage, Quiet, Numbers
  <2>3. MessageInv
    BY NoneGathered DEF Init, MessageInv, Before
  <2>4. AnswerInv
    BY NoneGathered DEF Init, AnswerInv
  <2>5. IsolationInv
    BY NoneGathered DEF Init, IsolationInv
  <2> QED
    BY <2>1, <2>2, <2>3, <2>4, <2>5 DEF PipelineInv
<1>2. ASSUME PipelineInv, Next  PROVE PipelineInv'
  BY <1>2, TypeStep, CallStep, MessageStep, AnswerStep, IsolationStep
    DEF PipelineInv
<1>3. ASSUME PipelineInv, UNCHANGED vars  PROVE PipelineInv'
  <2>1. UNCHANGED <<state, call, at, broken, stopped, on, failures, disabled,
                    notices, told, finals, halves, partial, text, sentences,
                    out, shown, ready, answered, raises, fell, dead,
                    reentered>>
    BY <1>3 DEF vars, isolation, result, messages, ghosts
  <2>2. TypeOK'
    BY <1>3, <2>1 DEF PipelineInv, TypeOK
  <2>3. CallInv'
    BY <1>3, <2>1 DEF PipelineInv, CallInv, Numbers
  <2>4. MessageInv'
    BY <1>3, <2>1 DEF PipelineInv, MessageInv
  <2>5. AnswerInv'
    BY <1>3, <2>1 DEF PipelineInv, AnswerInv, Unanswered
  <2>6. IsolationInv'
    BY <1>3, <2>1 DEF PipelineInv, IsolationInv
  <2> QED
    BY <2>2, <2>3, <2>4, <2>5, <2>6 DEF PipelineInv
<1> QED
  BY <1>1, <1>2, <1>3, PTL DEF Spec

(* Every variable keeps its type: no more sentences are numbered than the  *)
(* meeting has room for, and a failure count never exceeds its limit.      *)
THEOREM TypeCorrect == Spec => []TypeOK
<1>1. PipelineInv => TypeOK
  BY DEF PipelineInv
<1> QED
  BY <1>1, PipelineInvAlways, PTL

(* The client sees the sentences in the order of their numbers and all of  *)
(* them, each before its translation, unless an exception left _announce;  *)
(* and when bye or finish has returned at most one of them is unanswered.  *)
THEOREM ClientsViewHolds == Spec => []ClientsView
<1>1. ASSUME PipelineInv  PROVE SentencesInOrder
  <2>1. /\ shown \in Seq(Sentence) /\ out \in Seq(Sentence)
        /\ Ordered(shown) /\ Ordered(out)
        /\ Before(Elements(shown), Elements(out))
    BY <1>1 DEF PipelineInv, TypeOK, MessageInv
  <2>2. Ordered(shown \o out)
    BY <2>1, Joined
  <2>3. Dropped # {} => fell # {}
    BY <1>1 DEF PipelineInv, MessageInv, Dropped
  <2> QED
    BY <2>2, <2>3 DEF SentencesInOrder, Ordered
<1>2. ASSUME PipelineInv  PROVE SentenceBeforeTranslation
  BY <1>2 DEF PipelineInv, AnswerInv, SentenceBeforeTranslation, Dropped
<1>3. ASSUME PipelineInv  PROVE LastSentenceAnswered
  <2> SUFFICES ASSUME at = "idle", call \in {"bye", "finish"}
               PROVE  Cardinality(Elements(shown) \ answered) <= 1
    BY DEF LastSentenceAnswered
  <2>1. Cardinality(Unanswered) <= 1
    BY <1>3 DEF PipelineInv, CallInv, AnswerInv
  <2>2. Elements(shown) \ answered \subseteq Unanswered
    BY <1>3 DEF PipelineInv, MessageInv, Unanswered
  <2>3. sentences \in Nat
    BY <1>3 DEF PipelineInv, TypeOK
  <2>4. IsFiniteSet(1 .. sentences)
    BY <2>3, FS_Interval
  <2>5. IsFiniteSet(Unanswered)
    BY <2>4, FS_Subset DEF Unanswered
  <2>6. /\ Cardinality(Elements(shown) \ answered) <= Cardinality(Unanswered)
        /\ Cardinality(Unanswered) \in Nat
        /\ Cardinality(Elements(shown) \ answered) \in Nat
    BY <2>2, <2>5, FS_Subset, FS_CardinalityType
  <2> QED
    BY <2>1, <2>6
<1>4. PipelineInv => ClientsView
  BY <1>1, <1>2, <1>3 DEF ClientsView
<1> QED
  BY <1>4, PipelineInvAlways, PTL

(* A stage that was switched off is reported once and before the next      *)
(* audio is read, unless an exception left _announce; and no call but the  *)
(* language splitter's goes back into a model after a device failure.      *)
THEOREM StagesStayOff == Spec => []IsolationHolds
<1>1. ASSUME PipelineInv  PROVE NoticesReachClient
  <2>1. /\ told \in Seq(Guarded) /\ notices \in Seq(Guarded)
        /\ Distinct(told) /\ Distinct(notices)
        /\ Elements(told) \cup Elements(notices) = disabled
        /\ Elements(told) \cap Elements(notices) = {}
    BY <1>1 DEF PipelineInv, TypeOK, IsolationInv
  <2>2. Elements(told \o notices) = disabled /\ Distinct(told \o notices)
    BY <2>1, Joined, SMTT(60)
  <2>3. at = "idle" /\ ~broken /\ notices # <<>> => fell # {}
    BY <1>1 DEF PipelineInv, IsolationInv, Quiet
  <2> QED
    BY <2>2, <2>3 DEF NoticesReachClient, Distinct
<1>2. PipelineInv => IsolationHolds
  BY <1>1 DEF IsolationHolds, OnlySplitterGoesBackIn, PipelineInv,
    IsolationInv
<1> QED
  BY <1>2, PipelineInvAlways, PTL

-----------------------------------------------------------------------------
(* The session and the promise of its worker.                              *)

(* The numbers are those of sentences. *)
LEMMA CommittedAreSentences ==
  ASSUME TypeOK  PROVE 1 .. sentences \subseteq Sentence
<1>1. sentences \in Nat /\ sentences <= MaxSentences
  BY BoundsAssumption DEF TypeOK
<1> QED
  BY <1>1, BoundsAssumption DEF Sentence

(* What handing over the answers that are ready is to the promise. *)
LEMMA HandsOver ==
  ASSUME PipelineInv, UNCHANGED sentences,
         answered' = answered \cup ready, ready' = {}
  PROVE  Promise!Hear
<1> DEFINE Says(r, a) == [s \in Sentence |-> IF s \in r \cup a
                                               THEN "yes" ELSE "no"]
           Heard(a)   == [s \in Sentence |-> IF s \in a THEN 1 ELSE 0]
<1>1. /\ ready \subseteq 1 .. sentences /\ ready \cap answered = {}
      /\ 1 .. sentences \subseteq Sentence
  BY CommittedAreSentences DEF PipelineInv, AnswerInv
<1>2. Says(ready', answered') = Says(ready, answered)
  OBVIOUS
<1>3. ready \subseteq Promise!Unheard
  BY <1>1 DEF Promise!Unheard
<1>4. Heard(answered') =
        [s \in Sentence |-> IF s \in ready THEN 1 ELSE Heard(answered)[s]]
  OBVIOUS
<1> QED
  BY <1>2, <1>3, <1>4 DEF Promise!Hear, Promise!Sentence, Sentence

(* Every step of the session is one of the promise, or none. *)
LEMMA PromiseStep ==
  ASSUME PipelineInv, [Next]_vars
  PROVE  [Promise!LedgerNext]_(Promise!ledgerVars)
<1> USE DEF Promise!LedgerNext, Promise!ledgerVars
<1>1. CASE Commit
  <2>1. UNCHANGED <<ready, answered>> /\ sentences' = sentences + Numbered
    BY <1>1 DEF Commit
  <2>2. CASE text
    <3>1. sentences' = sentences + 1
      BY <2>1, <2>2 DEF Numbered
    <3>2. sentences + 1 \in Promise!Sentence
      <4>1. sentences \in Nat /\ sentences' \in 0 .. MaxSentences
        BY <1>1, TypeStep DEF PipelineInv, TypeOK, Next
      <4> QED
        BY <3>1, <4>1 DEF Promise!Sentence
    <3>3. {} \in SUBSET Promise!Unanswered /\ "yes" \in {"no", "yes"} \ {"no"}
      OBVIOUS
    <3>4. Promise!GiveAnswers({})
      BY <2>1, <3>3 DEF Promise!GiveAnswers, Promise!Sentence, Sentence
    <3>5. Promise!Commit
      BY <2>1, <3>1, <3>2, <3>3, <3>4 DEF Promise!Commit
    <3> QED
      BY <3>5
  <2>3. CASE ~text
    <3>1. UNCHANGED sentences
      BY <2>1, <2>3 DEF Numbered, PipelineInv, TypeOK
    <3> QED
      BY <2>1, <3>1
  <2> QED
    BY <2>2, <2>3
<1>2. CASE Collect \/ Stop
  <2>1. /\ UNCHANGED sentences
        /\ answered' = answered \cup ready /\ ready' = {}
    BY <1>2 DEF Collect, Stop
  <2> QED
    BY <2>1, HandsOver
<1>3. CASE WorkerAnswers
  <2>1. /\ UNCHANGED <<sentences, answered>>
        /\ \E s \in Unanswered \ ready : ready' = ready \cup {s}
    BY <1>3 DEF WorkerAnswers
  <2>2. PICK s \in Unanswered \ ready : ready' = ready \cup {s}
    BY <2>1
  <2>3. s \in 1 .. sentences /\ s \in Sentence /\ s \notin ready \cup answered
    BY <2>2, CommittedAreSentences DEF Unanswered, PipelineInv
  <2>4. {s} \in SUBSET Promise!Unanswered /\ "yes" \in {"no", "yes"} \ {"no"}
    BY <2>3 DEF Promise!Unanswered
  <2>5. Promise!GiveAnswers({s})
    BY <2>1, <2>2, <2>4 DEF Promise!GiveAnswers, Promise!Sentence, Sentence
  <2>6. Promise!Answer
    BY <2>1, <2>4, <2>5 DEF Promise!Answer
  <2> QED
    BY <2>6
<1>4. CASE ~(Commit \/ Collect \/ Stop \/ WorkerAnswers)
  <2>1. UNCHANGED <<sentences, ready, answered>>
    BY <1>4 DEF Next, vars, messages, Audio, SegmenterRaises, Change,
      NextWhole, ByLanguage, Skip, Analyse, StageRaises, PartialLanguage,
      PartialAsr, NoPartial, Announced, Fail, Bye, Finish, Finalise
  <2> QED
    BY <2>1
<1> QED
  BY <1>1, <1>2, <1>3, <1>4

(* The session uses its worker as AnswerLedger promises it: one sentence   *)
(* at a time is committed, and an answer is passed on once, after it was   *)
(* given, and is not changed.                                              *)
THEOREM SessionKeepsPromise == Spec => KeepsPromise
<1>1. Init => Promise!LedgerInit
  BY DEF Init, Sentence, Promise!LedgerInit, Promise!Sentence
<1>2. PipelineInv /\ [Next]_vars => [Promise!LedgerNext]_(Promise!ledgerVars)
  BY PromiseStep
<1> QED
  BY <1>1, <1>2, PipelineInvAlways, PTL
    DEF Spec, KeepsPromise, Promise!Ledger
=============================================================================
