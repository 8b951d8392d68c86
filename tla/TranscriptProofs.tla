--------------------------- MODULE TranscriptProofs ---------------------------
(* Theorems about Transcript, for any number of meetings, connections,     *)
(* sentences, signals and rows on screen.                                  *)
EXTENDS Transcript, WellFoundedInduction, SequenceTheorems, TLAPS

-----------------------------------------------------------------------------
(* The order of the sentences: by connection, and by number on each.       *)

Lt(s, t) == s.conn < t.conn \/ (s.conn = t.conn /\ s.id < t.id)

(* What a sentence is. *)
LEMMA SentenceIs ==
  ASSUME NEW s \in Sentence
  PROVE  s.conn \in Nat /\ s.conn > 0 /\ s.id \in Nat /\ s.id \in Number
         /\ s # None /\ s = [conn |-> s.conn, id |-> s.id]
BY BoundsAssumption DEF Sentence, Number, None

(* It is a strict order, and a total one. *)
LEMMA LtIsOrder ==
  ASSUME NEW s \in Sentence, NEW t \in Sentence
  PROVE  /\ ~Lt(s, s)
         /\ Lt(s, t) => ~Lt(t, s) /\ s # t /\ s.conn <= t.conn
         /\ Lt(s, t) \/ Lt(t, s) \/ s = t
         /\ s.id = t.id /\ s.conn = t.conn => s = t
<1>1. /\ s.conn \in Nat /\ s.id \in Nat /\ s = [conn |-> s.conn, id |-> s.id]
      /\ t.conn \in Nat /\ t.id \in Nat /\ t = [conn |-> t.conn, id |-> t.id]
  BY SentenceIs
<1>2. s.id = t.id /\ s.conn = t.conn => s = t
  BY <1>1
<1> QED
  BY <1>1, <1>2 DEF Lt

(* It is transitive. *)
LEMMA LtIsTransitive ==
  ASSUME NEW s \in Sentence, NEW t \in Sentence, NEW u \in Sentence,
         Lt(s, t), Lt(t, u)
  PROVE  Lt(s, u)
<1>1. /\ s.conn \in Nat /\ s.id \in Nat /\ t.conn \in Nat /\ t.id \in Nat
      /\ u.conn \in Nat /\ u.id \in Nat
  BY SentenceIs
<1> QED
  BY <1>1 DEF Lt

(* A set of positions has a last one. *)
LEMMA LastExists ==
  ASSUME NEW n \in Nat, NEW S \in SUBSET (1 .. n), S # {}
  PROVE  \E i \in S : \A j \in S : j <= i
<1> DEFINE T == {x \in Nat : n - x \in S}
<1>1. PICK k \in S : TRUE
  OBVIOUS
<1>2. k \in Int /\ n - k \in Nat /\ n - (n - k) = k
  OBVIOUS
<1>3. T \subseteq Nat /\ T # {}
  BY <1>2
<1>4. PICK x \in T : \A y \in T : ~(<<y, x>> \in OpToRel(<, Nat))
  BY <1>3, NatLessThanWellFounded, WFMin
<1>5. \A y \in T : ~(y < x)
  <2> SUFFICES ASSUME NEW y \in T, y < x  PROVE FALSE
    OBVIOUS
  <2>1. <<y, x>> \in OpToRel(<, Nat)
    BY DEF OpToRel
  <2> QED
    BY <1>4, <2>1
<1>6. n - x \in S /\ x \in Nat
  OBVIOUS
<1>7. ASSUME NEW j \in S  PROVE j <= n - x
  <2>1. j \in Int /\ n - j \in Nat /\ n - (n - j) = j
    OBVIOUS
  <2>2. ~(n - j < x)
    BY <1>5, <2>1
  <2> QED
    BY <1>6, <2>1, <2>2
<1> QED
  BY <1>6, <1>7

-----------------------------------------------------------------------------
(* The signals, posted for sentences that were received or are missing.    *)

(* The sentences of p's finals. *)
FinalsIn(p) ==
  UNION {p[i].about : i \in {j \in 1 .. Len(p) : p[j].kind = "final"}}

(* A signal is about sentences the server numbered.  The Qt thread handles *)
(* a sentence's final before anything else about it, the finals in the     *)
(* order of the sentences, and nothing about a connection after what a     *)
(* later one brings.                                                       *)
FromServer(p, Rec, Mis) ==
  \A i \in 1 .. Len(p) :
    /\ p[i].about \subseteq Rec \cup Mis
    /\ p[i].kind = "final" => \E s \in Rec : p[i].about = {s}

FinalFirst(p) ==
  \A i \in 1 .. Len(p) : \A s \in p[i].about \cap FinalsIn(p) :
    \E j \in 1 .. i : p[j].kind = "final" /\ p[j].about = {s}

InOrder(p) ==
  \A i, j \in 1 .. Len(p) : i < j =>
    \A s \in p[i].about, t \in p[j].about :
      s.conn <= t.conn /\ (p[j].kind = "final" => Lt(s, t))

NotBehind(p, H) ==
  \A i \in 1 .. Len(p) : \A s \in p[i].about, h \in H : h.conn <= s.conn

SignalsOK(p, Rec, Mis) ==
  /\ FromServer(p, Rec, Mis)
  /\ FinalFirst(p)
  /\ InOrder(p)
  /\ NotBehind(p, Rec \ FinalsIn(p))

(* A sentence whose final is among the signals. *)
LEMMA FinalIs ==
  ASSUME NEW p, NEW s
  PROVE  s \in FinalsIn(p) <=>
           \E i \in 1 .. Len(p) : p[i].kind = "final" /\ s \in p[i].about
BY DEF FinalsIn

(* What a sequence is with one more element, ... *)
LEMMA AppendIs ==
  ASSUME NEW S, NEW p \in Seq(S), NEW e \in S
  PROVE  /\ Append(p, e) \in Seq(S) /\ Len(Append(p, e)) = Len(p) + 1
         /\ Len(p) \in Nat
         /\ \A i \in 1 .. Len(p) : Append(p, e)[i] = p[i]
         /\ Append(p, e)[Len(p) + 1] = e
OBVIOUS

(* ... and without its first. *)
LEMMA TailIs ==
  ASSUME NEW S, NEW p \in Seq(S), p # <<>>
  PROVE  /\ Head(p) \in S /\ Head(p) = p[1] /\ Tail(p) \in Seq(S)
         /\ Len(p) \in Nat /\ Len(p) >= 1 /\ Len(Tail(p)) = Len(p) - 1
         /\ \A i \in 1 .. Len(p) - 1 : Tail(p)[i] = p[i + 1]
OBVIOUS

(* A signal that is posted brings its sentence if it is a final. *)
LEMMA AppendedFinals ==
  ASSUME NEW p \in Seq(SignalType), NEW e \in SignalType
  PROVE  FinalsIn(Append(p, e)) =
           IF e.kind = "final" THEN FinalsIn(p) \cup e.about ELSE FinalsIn(p)
<1> DEFINE q == Append(p, e)
<1>1. /\ Len(q) = Len(p) + 1 /\ Len(p) \in Nat
      /\ \A i \in 1 .. Len(p) : q[i] = p[i]
      /\ q[Len(p) + 1] = e
  BY AppendIs
<1> HIDE DEF q
<1>2. \A i : i \in 1 .. Len(q) <=> i \in 1 .. Len(p) \/ i = Len(p) + 1
  BY <1>1
<1>3. \A s : s \in FinalsIn(q) <=>
                s \in FinalsIn(p) \/ (e.kind = "final" /\ s \in e.about)
  <2> SUFFICES ASSUME NEW s
      PROVE  (\E i \in 1 .. Len(q) : q[i].kind = "final" /\ s \in q[i].about)
               <=> \/ \E i \in 1 .. Len(p) : /\ p[i].kind = "final"
                                             /\ s \in p[i].about
                   \/ e.kind = "final" /\ s \in e.about
    BY FinalIs
  <2> QED
    BY <1>1, <1>2
<1> QED
  BY <1>3 DEF q

(* A final goes with the signal it came with. *)
LEMMA TailFinals ==
  ASSUME NEW p \in Seq(SignalType), p # <<>>
  PROVE  FinalsIn(p) = IF Head(p).kind = "final"
                       THEN Head(p).about \cup FinalsIn(Tail(p))
                       ELSE FinalsIn(Tail(p))
<1> DEFINE q == Tail(p)
           e == Head(p)
<1>1. /\ e = p[1] /\ Len(p) \in Nat /\ Len(p) >= 1 /\ Len(q) = Len(p) - 1
      /\ \A i \in 1 .. Len(p) - 1 : q[i] = p[i + 1]
  BY TailIs
<1> HIDE DEF q, e
<1>2. ASSUME NEW s
      PROVE  s \in FinalsIn(p) <=>
               s \in FinalsIn(q) \/ (e.kind = "final" /\ s \in e.about)
  <2>1. ASSUME s \in FinalsIn(q)  PROVE s \in FinalsIn(p)
    <3>1. PICK i \in 1 .. Len(q) : q[i].kind = "final" /\ s \in q[i].about
      BY <2>1, FinalIs
    <3>2. i + 1 \in 1 .. Len(p) /\ q[i] = p[i + 1]
      BY <1>1
    <3> QED
      BY <3>1, <3>2, FinalIs
  <2>2. ASSUME e.kind = "final", s \in e.about  PROVE s \in FinalsIn(p)
    <3>1. 1 \in 1 .. Len(p)
      BY <1>1
    <3> QED
      BY <1>1, <2>2, <3>1, FinalIs
  <2>3. ASSUME s \in FinalsIn(p)
        PROVE  s \in FinalsIn(q) \/ (e.kind = "final" /\ s \in e.about)
    <3>1. PICK i \in 1 .. Len(p) : p[i].kind = "final" /\ s \in p[i].about
      BY <2>3, FinalIs
    <3>2. CASE i = 1
      BY <1>1, <3>1, <3>2
    <3>3. CASE i # 1
      <4>1. i - 1 \in 1 .. Len(q) /\ q[i - 1] = p[i]
        BY <1>1, <3>3
      <4> QED
        BY <3>1, <4>1, FinalIs
    <3> QED
      BY <3>2, <3>3
  <2> QED
    BY <2>1, <2>2, <2>3
<1> QED
  BY <1>2 DEF q, e

(* A signal that brings no sentence, posted for sentences that have been   *)
(* numbered, none of them behind what was posted or handled before.        *)
LEMMA SignalPosted ==
  ASSUME NEW p \in Seq(SignalType), NEW e \in SignalType, e.kind # "final",
         NEW Rec \in SUBSET Sentence, NEW Mis \in SUBSET Sentence,
         SignalsOK(p, Rec, Mis), e.about \subseteq Rec \cup Mis,
         \A s \in Rec \cup Mis, t \in e.about : s.conn <= t.conn
  PROVE  /\ SignalsOK(Append(p, e), Rec, Mis)
         /\ FinalsIn(Append(p, e)) = FinalsIn(p)
<1> DEFINE q == Append(p, e)
<1>1. /\ Len(q) = Len(p) + 1 /\ Len(p) \in Nat
      /\ \A i \in 1 .. Len(p) : q[i] = p[i]
      /\ q[Len(p) + 1] = e
  BY AppendIs
<1>2. FinalsIn(q) = FinalsIn(p)
  BY AppendedFinals
<1> HIDE DEF q
<1>3. \A i : i \in 1 .. Len(q) <=> i \in 1 .. Len(p) \/ i = Len(p) + 1
  BY <1>1
<1>4. FromServer(q, Rec, Mis)
  BY <1>1, <1>3 DEF FromServer, SignalsOK
<1>5. FinalFirst(q)
  <2> SUFFICES ASSUME NEW i \in 1 .. Len(q),
                      NEW s \in q[i].about \cap FinalsIn(p)
      PROVE  \E j \in 1 .. i : q[j].kind = "final" /\ q[j].about = {s}
    BY <1>2 DEF FinalFirst
  <2>1. PICK k \in 1 .. Len(p) : p[k].kind = "final" /\ s \in p[k].about
    BY FinalIs
  <2>2. p[k].about = {s} /\ q[k] = p[k]
    BY <1>1, <2>1 DEF SignalsOK, FromServer
  <2>3. CASE i = Len(p) + 1
    <3>1. k \in 1 .. i
      BY <1>1, <2>3
    <3> QED
      BY <2>1, <2>2, <3>1
  <2>4. CASE i \in 1 .. Len(p)
    <3>1. PICK j \in 1 .. i : p[j].kind = "final" /\ p[j].about = {s}
      BY <1>1, <2>4 DEF SignalsOK, FinalFirst
    <3>2. j \in 1 .. Len(p)
      BY <1>1, <2>4
    <3> QED
      BY <1>1, <3>1, <3>2
  <2> QED
    BY <1>3, <2>3, <2>4
<1>6. InOrder(q)
  <2> SUFFICES ASSUME NEW i \in 1 .. Len(q), NEW j \in 1 .. Len(q), i < j,
                      NEW s \in q[i].about, NEW t \in q[j].about
      PROVE  s.conn <= t.conn /\ (q[j].kind = "final" => Lt(s, t))
    BY DEF InOrder
  <2>1. i \in 1 .. Len(p) /\ q[i] = p[i]
    BY <1>1
  <2>2. CASE j = Len(p) + 1
    BY <1>1, <2>1, <2>2 DEF SignalsOK, FromServer
  <2>3. CASE j \in 1 .. Len(p)
    BY <1>1, <2>1, <2>3 DEF SignalsOK, InOrder
  <2> QED
    BY <1>3, <2>2, <2>3
<1>7. NotBehind(q, Rec \ FinalsIn(q))
  BY <1>1, <1>2, <1>3 DEF NotBehind, SignalsOK
<1> QED
  BY <1>2, <1>4, <1>5, <1>6, <1>7 DEF SignalsOK, q

(* The final of a new sentence, after all the others. *)
LEMMA FinalPosted ==
  ASSUME NEW p \in Seq(SignalType), NEW s \in Sentence,
         NEW Rec \in SUBSET Sentence, NEW Mis \in SUBSET Sentence,
         SignalsOK(p, Rec, Mis), \A t \in Rec \cup Mis : Lt(t, s)
  PROVE  LET q == Append(p, Signal("final", {s})) IN
           /\ q \in Seq(SignalType)
           /\ SignalsOK(q, Rec \cup {s}, Mis)
           /\ FinalsIn(q) = FinalsIn(p) \cup {s}
           /\ (Rec \cup {s}) \ FinalsIn(q) = Rec \ FinalsIn(p)
<1> DEFINE e == Signal("final", {s})
           q == Append(p, e)
<1>1. e \in SignalType /\ e.kind = "final" /\ e.about = {s}
  BY DEF Signal, SignalType
<1> HIDE DEF e
<1>2. /\ Len(q) = Len(p) + 1 /\ Len(p) \in Nat /\ q \in Seq(SignalType)
      /\ \A i \in 1 .. Len(p) : q[i] = p[i]
      /\ q[Len(p) + 1] = e
  BY <1>1, AppendIs
<1>3. FinalsIn(q) = FinalsIn(p) \cup {s}
  BY <1>1, AppendedFinals
<1> HIDE DEF q
<1>4. \A i : i \in 1 .. Len(q) <=> i \in 1 .. Len(p) \/ i = Len(p) + 1
  BY <1>2
<1>5. s \notin Rec \cup Mis
  BY LtIsOrder
<1>6. (Rec \cup {s}) \ FinalsIn(q) = Rec \ FinalsIn(p)
  BY <1>3, <1>5
<1>7. FromServer(q, Rec \cup {s}, Mis)
  <2>1. ASSUME NEW i \in 1 .. Len(q)
        PROVE  /\ q[i].about \subseteq Rec \cup {s} \cup Mis
               /\ q[i].kind = "final" =>
                    \E r \in Rec \cup {s} : q[i].about = {r}
    <3>1. CASE i = Len(p) + 1
      BY <1>1, <1>2, <3>1
    <3>2. CASE i \in 1 .. Len(p)
      BY <1>2, <3>2 DEF SignalsOK, FromServer
    <3> QED
      BY <1>4, <3>1, <3>2
  <2> QED
    BY <2>1 DEF FromServer
<1>8. FinalFirst(q)
  <2> SUFFICES ASSUME NEW i \in 1 .. Len(q),
                      NEW r \in q[i].about \cap FinalsIn(q)
      PROVE  \E j \in 1 .. i : q[j].kind = "final" /\ q[j].about = {r}
    BY DEF FinalFirst
  <2>1. CASE i = Len(p) + 1
    <3>1. r = s /\ i \in 1 .. i
      BY <1>1, <1>2, <2>1
    <3> QED
      BY <1>1, <1>2, <2>1, <3>1
  <2>2. CASE i \in 1 .. Len(p)
    <3>1. r \in p[i].about /\ r \in FinalsIn(p)
      BY <1>2, <1>3, <1>5, <2>2 DEF SignalsOK, FromServer
    <3>2. PICK j \in 1 .. i : p[j].kind = "final" /\ p[j].about = {r}
      BY <2>2, <3>1 DEF SignalsOK, FinalFirst
    <3>3. j \in 1 .. Len(p)
      BY <1>2, <2>2
    <3> QED
      BY <1>2, <3>2, <3>3
  <2> QED
    BY <1>4, <2>1, <2>2
<1>9. InOrder(q)
  <2> SUFFICES ASSUME NEW i \in 1 .. Len(q), NEW j \in 1 .. Len(q), i < j,
                      NEW r \in q[i].about, NEW t \in q[j].about
      PROVE  r.conn <= t.conn /\ (q[j].kind = "final" => Lt(r, t))
    BY DEF InOrder
  <2>1. i \in 1 .. Len(p) /\ q[i] = p[i]
    BY <1>2
  <2>2. CASE j = Len(p) + 1
    <3>1. t = s
      BY <1>1, <1>2, <2>2
    <3>2. r \in Sentence /\ Lt(r, s)
      BY <2>1 DEF SignalsOK, FromServer
    <3> QED
      BY <3>1, <3>2, LtIsOrder
  <2>3. CASE j \in 1 .. Len(p)
    BY <1>2, <2>1, <2>3 DEF SignalsOK, InOrder
  <2> QED
    BY <1>4, <2>2, <2>3
<1>10. NotBehind(q, Rec \ FinalsIn(p))
  <2> SUFFICES ASSUME NEW i \in 1 .. Len(q), NEW r \in q[i].about,
                      NEW h \in Rec \ FinalsIn(p)
      PROVE  h.conn <= r.conn
    BY DEF NotBehind
  <2>1. CASE i = Len(p) + 1
    BY <1>1, <1>2, <2>1, LtIsOrder
  <2>2. CASE i \in 1 .. Len(p)
    BY <1>2, <2>2 DEF SignalsOK, NotBehind
  <2> QED
    BY <1>4, <2>1, <2>2
<1> QED
  BY <1>2, <1>3, <1>6, <1>7, <1>8, <1>9, <1>10 DEF SignalsOK, q, e

(* The first signal is handled.  A final that is first is that of the      *)
(* first sentence of those that are posted; anything else is only about    *)
(* sentences whose final was handled or never came.                        *)
LEMMA SignalHandled ==
  ASSUME NEW p \in Seq(SignalType), p # <<>>,
         NEW Rec \in SUBSET Sentence, NEW Mis \in SUBSET Sentence,
         SignalsOK(p, Rec, Mis)
  PROVE  /\ SignalsOK(Tail(p), Rec, Mis)
         /\ Head(p).about \subseteq Rec \cup Mis
         /\ \A s \in Head(p).about, h \in Rec \ FinalsIn(p) :
              h.conn <= s.conn
         /\ Head(p).kind # "final" =>
              /\ FinalsIn(Tail(p)) = FinalsIn(p)
              /\ Head(p).about \cap FinalsIn(p) = {}
         /\ Head(p).kind = "final" =>
              \E s \in Rec : /\ Head(p).about = {s}
                             /\ FinalsIn(p) = FinalsIn(Tail(p)) \cup {s}
                             /\ \A t \in FinalsIn(Tail(p)) : Lt(s, t)
<1> DEFINE q == Tail(p)
           e == Head(p)
<1>1. /\ e = p[1] /\ Len(p) \in Nat /\ Len(p) >= 1 /\ Len(q) = Len(p) - 1
      /\ 1 \in 1 .. Len(p)
      /\ \A i \in 1 .. Len(p) - 1 : q[i] = p[i + 1]
  BY TailIs
<1>2. FinalsIn(p) = IF e.kind = "final" THEN e.about \cup FinalsIn(q)
                                        ELSE FinalsIn(q)
  BY TailFinals
<1> HIDE DEF q, e
<1>3. ASSUME NEW i \in 1 .. Len(q)
      PROVE  i \in Nat /\ i >= 1 /\ i + 1 \in 1 .. Len(p) /\ q[i] = p[i + 1]
  BY <1>1
<1>4. /\ e.about \subseteq Rec \cup Mis
      /\ e.kind = "final" => \E s \in Rec : e.about = {s}
      /\ \A s \in e.about, h \in Rec \ FinalsIn(p) : h.conn <= s.conn
  BY <1>1 DEF SignalsOK, FromServer, NotBehind
<1>5. ASSUME NEW s \in e.about, NEW t \in FinalsIn(q)  PROVE Lt(s, t)
  <2>1. PICK i \in 1 .. Len(q) : q[i].kind = "final" /\ t \in q[i].about
    BY FinalIs
  <2>2. i + 1 \in 1 .. Len(p) /\ q[i] = p[i + 1] /\ 1 < i + 1
    BY <1>3
  <2> QED
    BY <1>1, <2>1, <2>2 DEF SignalsOK, InOrder
<1>6. FromServer(q, Rec, Mis)
  BY <1>3 DEF SignalsOK, FromServer
<1>7. InOrder(q)
  <2> SUFFICES ASSUME NEW i \in 1 .. Len(q), NEW j \in 1 .. Len(q), i < j,
                      NEW s \in q[i].about, NEW t \in q[j].about
      PROVE  s.conn <= t.conn /\ (q[j].kind = "final" => Lt(s, t))
    BY DEF InOrder
  <2>1. /\ i + 1 \in 1 .. Len(p) /\ q[i] = p[i + 1]
        /\ j + 1 \in 1 .. Len(p) /\ q[j] = p[j + 1] /\ i + 1 < j + 1
    BY <1>3
  <2> QED
    BY <2>1 DEF SignalsOK, InOrder
<1>8. NotBehind(q, Rec \ FinalsIn(q))
  <2> SUFFICES ASSUME NEW i \in 1 .. Len(q), NEW s \in q[i].about,
                      NEW h \in Rec \ FinalsIn(q)
      PROVE  h.conn <= s.conn
    BY DEF NotBehind
  <2>1. i + 1 \in 1 .. Len(p) /\ q[i] = p[i + 1] /\ 1 < i + 1
    BY <1>3
  <2>2. CASE h \in FinalsIn(p)
    <3>1. h \in e.about
      BY <1>2, <2>2
    <3> QED
      BY <1>1, <2>1, <3>1 DEF SignalsOK, InOrder
  <2>3. CASE h \notin FinalsIn(p)
    BY <2>1, <2>3 DEF SignalsOK, NotBehind
  <2> QED
    BY <2>2, <2>3
<1>9. FinalFirst(q)
  <2> SUFFICES ASSUME NEW i \in 1 .. Len(q),
                      NEW s \in q[i].about \cap FinalsIn(q)
      PROVE  \E j \in 1 .. i : q[j].kind = "final" /\ q[j].about = {s}
    BY DEF FinalFirst
  <2>1. i \in Nat /\ i + 1 \in 1 .. Len(p) /\ q[i] = p[i + 1]
    BY <1>3
  <2>2. PICK k \in 1 .. i + 1 : p[k].kind = "final" /\ p[k].about = {s}
    BY <1>2, <2>1 DEF SignalsOK, FinalFirst
  <2>3. k # 1
    <3> SUFFICES ASSUME k = 1  PROVE FALSE
      OBVIOUS
    <3>1. s \in e.about /\ s \in Sentence
      BY <1>1, <1>4, <2>2
    <3> QED
      BY <1>5, <3>1, LtIsOrder
  <2>4. k - 1 \in 1 .. i /\ k - 1 \in 1 .. Len(q) /\ (k - 1) + 1 = k
    BY <1>1, <2>1, <2>3
  <2>5. q[k - 1] = p[k]
    BY <1>3, <2>4
  <2> QED
    BY <2>2, <2>4, <2>5
<1>10. SignalsOK(q, Rec, Mis)
  BY <1>6, <1>7, <1>8, <1>9 DEF SignalsOK
<1>11. ASSUME e.kind # "final"
       PROVE  FinalsIn(q) = FinalsIn(p) /\ e.about \cap FinalsIn(p) = {}
  <2>1. FinalsIn(q) = FinalsIn(p)
    BY <1>2, <1>11
  <2>2. ASSUME NEW s \in e.about \cap FinalsIn(p)  PROVE FALSE
    <3>1. PICK j \in 1 .. 1 : p[j].kind = "final" /\ p[j].about = {s}
      BY <1>1 DEF SignalsOK, FinalFirst
    <3>2. j = 1
      OBVIOUS
    <3> QED
      BY <1>1, <1>11, <3>1, <3>2
  <2> QED
    BY <2>1, <2>2
<1>12. ASSUME e.kind = "final"
       PROVE  \E s \in Rec : /\ e.about = {s}
                             /\ FinalsIn(p) = FinalsIn(q) \cup {s}
                             /\ \A t \in FinalsIn(q) : Lt(s, t)
  BY <1>2, <1>4, <1>5, <1>12
<1> QED
  BY <1>4, <1>10, <1>11, <1>12 DEF q, e

-----------------------------------------------------------------------------
(* The lines, of sentences H whose finals were handled.                    *)

(* q2 is q with what the sentences S brought, by the index x. *)
Touched(q, q2, x, S) ==
  /\ q2 \in Seq(LineType) /\ Len(q2) = Len(q)
  /\ \A i \in 1 .. Len(q) :
       /\ q2[i].of = q[i].of
       /\ q2[i].translation \in {q[i].translation} \cup Meant(x, S, q[i])
       /\ q2[i].speaker \in {q[i].speaker} \cup Meant(x, S, q[i])

(* Both ways to touch a line. *)
LEMMA LineChanged ==
  ASSUME NEW l \in LineType, NEW s \in Sentence, NEW k
  PROVE  /\ k = [l EXCEPT !.translation = s] =>
              k \in LineType /\ k.of = l.of /\ k.translation = s
              /\ k.speaker = l.speaker
         /\ k = [l EXCEPT !.speaker = s] =>
              k \in LineType /\ k.of = l.of /\ k.speaker = s
              /\ k.translation = l.translation
BY DEF LineType

(* A translation touches the lines its sentence finds, ... *)
LEMMA AttachedIs ==
  ASSUME NEW q \in Seq(LineType), NEW x, NEW S \in SUBSET Sentence
  PROVE  Touched(q, Attached(q, x, S), x, S)
<1> DEFINE q2 == Attached(q, x, S)
<1>1. ASSUME NEW i \in 1 .. Len(q)
      PROVE  /\ q2[i] \in LineType /\ q2[i].of = q[i].of
             /\ q2[i].translation \in
                  {q[i].translation} \cup Meant(x, S, q[i])
             /\ q2[i].speaker = q[i].speaker
  <2> DEFINE s == CHOOSE s \in Meant(x, S, q[i]) : TRUE
  <2>1. q[i] \in LineType
    OBVIOUS
  <2>2. CASE Meant(x, S, q[i]) = {}
    <3>1. q2[i] = q[i]
      BY <2>2 DEF Attached
    <3> QED
      BY <2>1, <3>1
  <2>3. CASE Meant(x, S, q[i]) # {}
    <3>1. s \in Meant(x, S, q[i])
      BY <2>3
    <3>2. s \in Sentence
      BY <3>1 DEF Meant
    <3>3. q2[i] = [q[i] EXCEPT !.translation = s]
      BY <2>3 DEF Attached
    <3> HIDE DEF s, q2
    <3> QED
      BY <2>1, <3>1, <3>2, <3>3, LineChanged
  <2> QED
    BY <2>2, <2>3
<1>2. Len(q) \in Nat /\ DOMAIN q2 = 1 .. Len(q)
  BY DEF Attached
<1>3. q2 = [i \in 1 .. Len(q) |-> q2[i]]
  BY DEF Attached
<1> HIDE DEF q2
<1>4. q2 \in Seq(LineType)
  BY <1>1, <1>2, <1>3
<1>5. Len(q2) = Len(q)
  BY <1>2, <1>4
<1> QED
  BY <1>1, <1>4, <1>5 DEF Touched, q2

(* ... and so do the speakers. *)
LEMMA RelabelledIs ==
  ASSUME NEW q \in Seq(LineType), NEW x, NEW S \in SUBSET Sentence
  PROVE  Touched(q, Relabelled(q, x, S), x, S)
<1> DEFINE q2 == Relabelled(q, x, S)
<1>1. ASSUME NEW i \in 1 .. Len(q)
      PROVE  /\ q2[i] \in LineType /\ q2[i].of = q[i].of
             /\ q2[i].translation = q[i].translation
             /\ q2[i].speaker \in {q[i].speaker} \cup Meant(x, S, q[i])
  <2> DEFINE s == CHOOSE s \in Meant(x, S, q[i]) : TRUE
  <2>1. q[i] \in LineType
    OBVIOUS
  <2>2. CASE Meant(x, S, q[i]) = {}
    <3>1. q2[i] = q[i]
      BY <2>2 DEF Relabelled
    <3> QED
      BY <2>1, <3>1
  <2>3. CASE Meant(x, S, q[i]) # {}
    <3>1. s \in Meant(x, S, q[i])
      BY <2>3
    <3>2. s \in Sentence
      BY <3>1 DEF Meant
    <3>3. q2[i] = [q[i] EXCEPT !.speaker = s]
      BY <2>3 DEF Relabelled
    <3> HIDE DEF s, q2
    <3> QED
      BY <2>1, <3>1, <3>2, <3>3, LineChanged
  <2> QED
    BY <2>2, <2>3
<1>2. Len(q) \in Nat /\ DOMAIN q2 = 1 .. Len(q)
  BY DEF Relabelled
<1>3. q2 = [i \in 1 .. Len(q) |-> q2[i]]
  BY DEF Relabelled
<1> HIDE DEF q2
<1>4. q2 \in Seq(LineType)
  BY <1>1, <1>2, <1>3
<1>5. Len(q2) = Len(q)
  BY <1>2, <1>4
<1> QED
  BY <1>1, <1>4, <1>5 DEF Touched, q2

(* A new line shows itself. *)
LEMMA LineIs ==
  ASSUME NEW s \in Sentence
  PROVE  Line(s) \in LineType /\ Line(s).of = s /\ Line(s).speaker = s
         /\ Line(s).translation = None
BY DEF Line, LineType

(* Lines stand in the order of their sentences. *)
InLine(q, H) ==
  /\ \A i \in 1 .. Len(q) : q[i].of \in H
  /\ \A i, j \in 1 .. Len(q) : i < j => Lt(q[i].of, q[j].of)

(* Lines that show their own, with Mis for missing. *)
Own(line, Mis) ==
  \A s \in {line.translation, line.speaker} \ {None, line.of} :
    s \in Mis /\ s.id = line.of.id /\ s.conn > line.of.conn

AllOwn(q, Mis) == \A i \in 1 .. Len(q) : Own(q[i], Mis)

(* A signal's sentence that finds a line is the line's, or one that is     *)
(* missing on a later connection.                                          *)
FindsOwn(q, x, S, Mis) ==
  \A i \in 1 .. Len(q) : \A s \in Meant(x, S, q[i]) :
    s = q[i].of \/ (s \in Mis /\ s.id = q[i].of.id /\ s.conn > q[i].of.conn)

(* Lines that are touched by what is their own stay in line, and right. *)
LEMMA TouchedLines ==
  ASSUME NEW q \in Seq(LineType), NEW q2, NEW x, NEW S, NEW H, NEW Mis,
         Touched(q, q2, x, S), InLine(q, H), AllOwn(q, Mis),
         FindsOwn(q, x, S, Mis)
  PROVE  InLine(q2, H) /\ AllOwn(q2, Mis)
<1>1. Len(q2) = Len(q) /\ \A i \in 1 .. Len(q) : q2[i].of = q[i].of
  BY DEF Touched
<1>2. InLine(q2, H)
  BY <1>1 DEF InLine
<1>3. ASSUME NEW i \in 1 .. Len(q)  PROVE Own(q2[i], Mis)
  <2>1. /\ q2[i].of = q[i].of
        /\ q2[i].translation \in {q[i].translation} \cup Meant(x, S, q[i])
        /\ q2[i].speaker \in {q[i].speaker} \cup Meant(x, S, q[i])
    BY DEF Touched
  <2>2. Own(q[i], Mis)
    BY DEF AllOwn
  <2>3. \A s \in Meant(x, S, q[i]) :
          \/ s = q[i].of
          \/ s \in Mis /\ s.id = q[i].of.id /\ s.conn > q[i].of.conn
    BY DEF FindsOwn
  <2> QED
    BY <2>1, <2>2, <2>3 DEF Own
<1> QED
  BY <1>1, <1>2, <1>3 DEF AllOwn

(* A line more, of a sentence after all that were handled. *)
LEMMA LineAdded ==
  ASSUME NEW q \in Seq(LineType), NEW s \in Sentence, NEW H, NEW Mis,
         InLine(q, H), AllOwn(q, Mis), \A h \in H : Lt(h, s)
  PROVE  /\ InLine(Append(q, Line(s)), H \cup {s})
         /\ AllOwn(Append(q, Line(s)), Mis)
<1> DEFINE q2 == Append(q, Line(s))
<1>1. Line(s) \in LineType /\ Line(s).of = s /\ Line(s).speaker = s
      /\ Line(s).translation = None
  BY LineIs
<1>2. /\ Len(q2) = Len(q) + 1 /\ Len(q) \in Nat
      /\ \A i \in 1 .. Len(q) : q2[i] = q[i]
      /\ q2[Len(q) + 1] = Line(s)
  BY <1>1, AppendIs
<1> HIDE DEF q2
<1>3. \A i : i \in 1 .. Len(q2) <=> i \in 1 .. Len(q) \/ i = Len(q) + 1
  BY <1>2
<1>4. \A i \in 1 .. Len(q2) : q2[i].of \in H \cup {s}
  BY <1>1, <1>2, <1>3 DEF InLine
<1>5. ASSUME NEW i \in 1 .. Len(q2), NEW j \in 1 .. Len(q2), i < j
      PROVE  Lt(q2[i].of, q2[j].of)
  <2>1. i \in 1 .. Len(q) /\ q2[i] = q[i]
    BY <1>2, <1>5
  <2>2. CASE j = Len(q) + 1
    BY <1>1, <1>2, <2>1, <2>2 DEF InLine
  <2>3. CASE j \in 1 .. Len(q)
    BY <1>2, <1>5, <2>1, <2>3 DEF InLine
  <2> QED
    BY <1>3, <2>2, <2>3
<1>6. Own(Line(s), Mis)
  BY <1>1 DEF Own
<1>7. AllOwn(q2, Mis)
  BY <1>2, <1>3, <1>6 DEF AllOwn
<1> QED
  BY <1>4, <1>5, <1>7 DEF InLine, q2

(* The first line goes. *)
LEMMA LineGone ==
  ASSUME NEW q \in Seq(LineType), q # <<>>, NEW H, NEW Mis,
         InLine(q, H), AllOwn(q, Mis)
  PROVE  InLine(Tail(q), H) /\ AllOwn(Tail(q), Mis)
<1> DEFINE q2 == Tail(q)
<1>1. /\ Len(q) \in Nat /\ Len(q2) = Len(q) - 1
      /\ \A i \in 1 .. Len(q) - 1 : q2[i] = q[i + 1]
  BY TailIs
<1> HIDE DEF q2
<1>2. ASSUME NEW i \in 1 .. Len(q2)
      PROVE  i \in Nat /\ i + 1 \in 1 .. Len(q) /\ q2[i] = q[i + 1]
  BY <1>1
<1>3. AllOwn(q2, Mis)
  BY <1>2 DEF AllOwn
<1>4. \A i \in 1 .. Len(q2) : q2[i].of \in H
  BY <1>2 DEF InLine
<1>5. ASSUME NEW i \in 1 .. Len(q2), NEW j \in 1 .. Len(q2), i < j
      PROVE  Lt(q2[i].of, q2[j].of)
  <2>1. i + 1 \in 1 .. Len(q) /\ j + 1 \in 1 .. Len(q) /\ i + 1 < j + 1
        /\ q2[i] = q[i + 1] /\ q2[j] = q[j + 1]
    BY <1>2, <1>5
  <2> QED
    BY <2>1 DEF InLine
<1> QED
  BY <1>3, <1>4, <1>5 DEF InLine, q2

-----------------------------------------------------------------------------
(* The index of the rows, and the recorder's of the minutes.               *)

Index == [Number -> Sentence \cup {None}]

(* An entry is not older than any sentence of its number that was handled. *)
Newest(x, H) ==
  \A k \in Number : x[k] # None =>
    x[k] \in H /\ x[k].id = k /\ \A s \in H : s.id = k => ~Lt(x[k], s)

(* An entry has its row; a row has its entry, unless Rec has its number    *)
(* more than once.                                                         *)
HasRows(q, x) ==
  \A k \in Number :
    x[k] # None => \E i \in 1 .. Len(q) : q[i].of = x[k]

HasEntries(q, x, Rec) ==
  \A i \in 1 .. Len(q) : x[q[i].of.id] # q[i].of =>
    \E t \in Rec : t.id = q[i].of.id /\ t.conn # q[i].of.conn

(* The rows q with their index x, of sentences H handled, Rec received and *)
(* Mis missing.                                                            *)
RowsOK(q, x, H, Rec, Mis) ==
  /\ InLine(q, H) /\ AllOwn(q, Mis)
  /\ Newest(x, H) /\ HasRows(q, x) /\ HasEntries(q, x, Rec)

(* A line and whose it is. *)
LEMMA OfIsSentence ==
  ASSUME NEW q \in Seq(LineType), NEW i \in 1 .. Len(q)
  PROVE  q[i] \in LineType /\ q[i].of \in Sentence
<1>1. q[i] \in LineType
  OBVIOUS
<1> QED
  BY <1>1 DEF LineType

(* What a signal about S finds in an index whose entries are the newest.   *)
LEMMA FindsItsOwn ==
  ASSUME NEW q \in Seq(LineType), NEW x, NEW S,
         NEW H \in SUBSET Sentence, NEW Mis \in SUBSET Sentence,
         Newest(x, H), H \cap Mis = {}, S \subseteq H \cup Mis,
         \A s \in S, h \in H : h.conn <= s.conn
  PROVE  FindsOwn(q, x, S, Mis)
<1> SUFFICES ASSUME NEW i \in 1 .. Len(q), NEW s \in Meant(x, S, q[i]),
                    s # q[i].of
    PROVE  s \in Mis /\ s.id = q[i].of.id /\ s.conn > q[i].of.conn
  BY DEF FindsOwn
<1> DEFINE r == q[i].of
<1>1. r \in Sentence /\ s \in Sentence /\ s \in S /\ x[s.id] = r
  BY OfIsSentence DEF Meant
<1> HIDE DEF r
<1>2. s.id \in Number /\ r # None /\ s.conn \in Nat /\ r.conn \in Nat
  BY <1>1, SentenceIs
<1>3. /\ r \in H /\ r.conn <= s.conn /\ r.id = s.id
      /\ s \in H => ~Lt(r, s)
  BY <1>1, <1>2 DEF Newest
<1>4. s # r
  BY DEF r
<1>5. s \notin H
  <2> SUFFICES ASSUME s \in H  PROVE FALSE
    OBVIOUS
  <2>1. s.conn = r.conn
    BY <1>2, <1>3 DEF Lt
  <2> QED
    BY <1>1, <1>3, <1>4, <2>1, LtIsOrder
<1>6. s \in Mis /\ s.conn # r.conn
  BY <1>1, <1>3, <1>4, <1>5, LtIsOrder
<1> QED
  BY <1>2, <1>3, <1>6 DEF r

(* The recorder's index holds the last line of each number. *)
LEMMA LastOfIs ==
  ASSUME NEW q \in Seq(LineType), NEW k \in Number, LastOf(q)[k] # None
  PROVE  \E i \in 1 .. Len(q) :
           /\ q[i].of.id = k /\ LastOf(q)[k] = q[i].of
           /\ \A j \in 1 .. Len(q) : q[j].of.id = k => j <= i
<1> DEFINE Of == {i \in 1 .. Len(q) : q[i].of.id = k}
           Last(i) == \A j \in Of : j <= i
           l == CHOOSE i \in Of : \A j \in Of : j <= i
<1>1. LastOf(q)[k] = IF Of = {} THEN None ELSE q[l].of
  BY DEF LastOf
<1>2. Of # {} /\ Of \in SUBSET (1 .. Len(q)) /\ Len(q) \in Nat
  BY <1>1
<1>3. \E i \in Of : \A j \in Of : j <= i
  <2> HIDE DEF Of
  <2> QED
    BY <1>2, LastExists
<1>4. l \in Of /\ \A j \in Of : j <= l
  <2> HIDE DEF Of
  <2> QED
    BY <1>3
<1>5. l \in 1 .. Len(q) /\ q[l].of.id = k
      /\ \A j \in 1 .. Len(q) : q[j].of.id = k => j <= l
  <2> HIDE DEF l
  <2> QED
    BY <1>4
<1> HIDE DEF l, Of
<1> QED
  BY <1>1, <1>2, <1>5

(* Lines that have every sentence handled after the first of them. *)
Full(q, H) ==
  \A i \in 1 .. Len(q), s \in H :
    Lt(q[i].of, s) => \E j \in 1 .. Len(q) : q[j].of = s

(* In full lines the last of a number is the newest. *)
LEMMA LastIsNewest ==
  ASSUME NEW q \in Seq(LineType), NEW H \in SUBSET Sentence,
         InLine(q, H), Full(q, H)
  PROVE  Newest(LastOf(q), H)
<1> SUFFICES ASSUME NEW k \in Number, LastOf(q)[k] # None
    PROVE  /\ LastOf(q)[k] \in H /\ LastOf(q)[k].id = k
           /\ \A s \in H : s.id = k => ~Lt(LastOf(q)[k], s)
  BY DEF Newest
<1>1. PICK i \in 1 .. Len(q) :
             /\ q[i].of.id = k /\ LastOf(q)[k] = q[i].of
             /\ \A j \in 1 .. Len(q) : q[j].of.id = k => j <= i
  BY LastOfIs
<1>2. q[i].of \in H
  BY DEF InLine
<1>3. ASSUME NEW s \in H, s.id = k, Lt(q[i].of, s)  PROVE FALSE
  <2>1. PICK j \in 1 .. Len(q) : q[j].of = s
    BY <1>3 DEF Full
  <2>2. j <= i /\ j \in Nat /\ i \in Nat
    BY <1>1, <1>3, <2>1
  <2>3. ~Lt(s, q[i].of) /\ s # q[i].of
    BY <1>2, <1>3, LtIsOrder
  <2>4. j < i
    BY <2>1, <2>2, <2>3
  <2> QED
    BY <2>1, <2>3, <2>4 DEF InLine
<1> QED
  BY <1>1, <1>2, <1>3

(* A line more keeps the lines full. *)
LEMMA StillFull ==
  ASSUME NEW q \in Seq(LineType), NEW H \in SUBSET Sentence,
         NEW s \in Sentence, InLine(q, H), Full(q, H), \A h \in H : Lt(h, s)
  PROVE  Full(Append(q, Line(s)), H \cup {s})
<1> DEFINE q2 == Append(q, Line(s))
<1>1. Line(s) \in LineType /\ Line(s).of = s
  BY LineIs
<1>2. /\ Len(q2) = Len(q) + 1 /\ Len(q) \in Nat
      /\ \A i \in 1 .. Len(q) : q2[i] = q[i]
      /\ q2[Len(q) + 1] = Line(s)
  BY <1>1, AppendIs
<1> HIDE DEF q2
<1>3. \A i : i \in 1 .. Len(q2) <=> i \in 1 .. Len(q) \/ i = Len(q) + 1
  BY <1>2
<1> SUFFICES ASSUME NEW i \in 1 .. Len(q2), NEW r \in H \cup {s},
                    Lt(q2[i].of, r)
    PROVE  \E j \in 1 .. Len(q2) : q2[j].of = r
  BY DEF Full, q2
<1>4. CASE r = s
  BY <1>1, <1>2, <1>3, <1>4
<1>5. CASE r \in H
  <2>1. i \in 1 .. Len(q)
    <3> SUFFICES ASSUME i = Len(q) + 1  PROVE FALSE
      BY <1>3
    <3>1. Lt(s, r) /\ Lt(r, s)
      BY <1>1, <1>2, <1>5
    <3> QED
      BY <1>5, <3>1, LtIsOrder
  <2>2. PICK j \in 1 .. Len(q) : q[j].of = r
    BY <1>2, <1>5, <2>1 DEF Full
  <2> QED
    BY <1>2, <1>3, <2>2
<1> QED
  BY <1>4, <1>5

(* A line changes, not whose it is. *)
LEMMA TouchedFull ==
  ASSUME NEW q, NEW q2, NEW x, NEW S, NEW H, Touched(q, q2, x, S),
         Full(q, H)
  PROVE  Full(q2, H)
BY DEF Touched, Full

-----------------------------------------------------------------------------
(* The rows.                                                               *)

(* A row and its entry, before anything is trimmed. *)
LEMMA RowAdded ==
  ASSUME NEW q \in Seq(LineType), NEW x \in Index, NEW s \in Sentence,
         NEW H \in SUBSET Sentence, NEW Rec \in SUBSET Sentence, NEW Mis,
         RowsOK(q, x, H, Rec, Mis), s \in Rec, \A h \in H : Lt(h, s)
  PROVE  /\ Append(q, Line(s)) \in Seq(LineType)
         /\ [x EXCEPT ![s.id] = s] \in Index
         /\ RowsOK(Append(q, Line(s)), [x EXCEPT ![s.id] = s],
                   H \cup {s}, Rec, Mis)
<1> DEFINE q2 == Append(q, Line(s))
           x2 == [x EXCEPT ![s.id] = s]
<1>1. Line(s) \in LineType /\ Line(s).of = s
  BY LineIs
<1>2. /\ q2 \in Seq(LineType) /\ Len(q2) = Len(q) + 1 /\ Len(q) \in Nat
      /\ \A i \in 1 .. Len(q) : q2[i] = q[i]
      /\ q2[Len(q) + 1] = Line(s)
  BY <1>1, AppendIs
<1>3. s.id \in Number /\ s # None
  BY SentenceIs
<1>4. x2 \in Index /\ \A k \in Number : x2[k] = IF k = s.id THEN s ELSE x[k]
  BY <1>3 DEF Index
<1>5. InLine(q2, H \cup {s}) /\ AllOwn(q2, Mis)
  BY LineAdded DEF RowsOK
<1> HIDE DEF q2, x2
<1>6. \A i : i \in 1 .. Len(q2) <=> i \in 1 .. Len(q) \/ i = Len(q) + 1
  BY <1>2
<1>7. Newest(x2, H \cup {s})
  <2> SUFFICES ASSUME NEW k \in Number, x2[k] # None
      PROVE  /\ x2[k] \in H \cup {s} /\ x2[k].id = k
             /\ \A r \in H \cup {s} : r.id = k => ~Lt(x2[k], r)
    BY DEF Newest
  <2>1. CASE k = s.id
    <3>1. x2[k] = s
      BY <1>4, <2>1
    <3> QED
      BY <2>1, <3>1, LtIsOrder
  <2>2. CASE k # s.id
    <3>1. x2[k] = x[k]
      BY <1>4, <2>2
    <3> QED
      BY <2>2, <3>1 DEF RowsOK, Newest
  <2> QED
    BY <2>1, <2>2
<1>8. HasRows(q2, x2)
  <2> SUFFICES ASSUME NEW k \in Number, x2[k] # None
      PROVE  \E i \in 1 .. Len(q2) : q2[i].of = x2[k]
    BY DEF HasRows
  <2>1. CASE k = s.id
    BY <1>1, <1>2, <1>4, <1>6, <2>1
  <2>2. CASE k # s.id
    <3>1. x2[k] = x[k]
      BY <1>4, <2>2
    <3>2. PICK i \in 1 .. Len(q) : q[i].of = x[k]
      BY <3>1 DEF RowsOK, HasRows
    <3> QED
      BY <1>2, <1>6, <3>1, <3>2
  <2> QED
    BY <2>1, <2>2
<1>9. HasEntries(q2, x2, Rec)
  <2> SUFFICES ASSUME NEW i \in 1 .. Len(q2), x2[q2[i].of.id] # q2[i].of
      PROVE  \E t \in Rec : t.id = q2[i].of.id /\ t.conn # q2[i].of.conn
    BY DEF HasEntries
  <2> DEFINE r == q2[i].of
  <2>1. i \in 1 .. Len(q) /\ r = q[i].of
    BY <1>1, <1>2, <1>3, <1>4, <1>6
  <2>2. r \in Sentence /\ r \in H /\ r.id \in Number /\ x2[r.id] # r
    BY <2>1, OfIsSentence, SentenceIs DEF RowsOK, InLine
  <2> HIDE DEF r
  <2>3. CASE r.id = s.id
    <3>1. r.conn # s.conn
      BY <2>2, <2>3, LtIsOrder
    <3> QED
      BY <2>3, <3>1 DEF r
  <2>4. CASE r.id # s.id
    <3>1. x[r.id] # r
      BY <1>4, <2>2, <2>4
    <3> QED
      BY <2>1, <3>1 DEF RowsOK, HasEntries, r
  <2> QED
    BY <2>3, <2>4
<1> QED
  BY <1>2, <1>4, <1>5, <1>7, <1>8, <1>9 DEF RowsOK, q2, x2

(* The oldest row goes, and the entry of its number with it. *)
LEMMA RowForgotten ==
  ASSUME NEW q \in Seq(LineType), q # <<>>, NEW x \in Index,
         NEW H \in SUBSET Sentence, NEW Rec \in SUBSET Sentence, NEW Mis,
         RowsOK(q, x, H, Rec, Mis), H \subseteq Rec
  PROVE  /\ Tail(q) \in Seq(LineType) /\ Forget(x, Head(q)) \in Index
         /\ RowsOK(Tail(q), Forget(x, Head(q)), H, Rec, Mis)
<1> DEFINE q2 == Tail(q)
           x2 == Forget(x, Head(q))
           g == Head(q).of
<1>1. /\ Head(q) = q[1] /\ q2 \in Seq(LineType) /\ Len(q) \in Nat
      /\ 1 \in 1 .. Len(q) /\ Len(q2) = Len(q) - 1
      /\ \A i \in 1 .. Len(q) - 1 : q2[i] = q[i + 1]
  BY TailIs
<1>2. g \in Sentence /\ g \in H /\ g = q[1].of
  BY <1>1, OfIsSentence DEF RowsOK, InLine
<1>3. InLine(q2, H) /\ AllOwn(q2, Mis)
  BY LineGone DEF RowsOK
<1>4. /\ x2 \in Index
      /\ \A k \in Number : x2[k] = IF k = g.id THEN None ELSE x[k]
  BY <1>2, SentenceIs DEF Index, Forget
<1> HIDE DEF q2, x2, g
<1>5. Newest(x2, H)
  BY <1>4 DEF RowsOK, Newest
<1>6. HasRows(q2, x2)
  <2> SUFFICES ASSUME NEW k \in Number, x2[k] # None
      PROVE  \E i \in 1 .. Len(q2) : q2[i].of = x2[k]
    BY DEF HasRows
  <2>1. x2[k] = x[k] /\ k # g.id
    BY <1>4
  <2>2. x[k].id = k
    BY <2>1 DEF RowsOK, Newest
  <2>3. PICK i \in 1 .. Len(q) : q[i].of = x[k]
    BY <2>1 DEF RowsOK, HasRows
  <2>4. i # 1
    BY <1>2, <2>1, <2>2, <2>3
  <2>5. i - 1 \in 1 .. Len(q) - 1 /\ (i - 1) + 1 = i
    BY <1>1, <2>4
  <2>6. q2[i - 1] = q[i]
    BY <1>1, <2>5
  <2> QED
    BY <1>1, <2>1, <2>3, <2>5, <2>6
<1>7. HasEntries(q2, x2, Rec)
  <2> SUFFICES ASSUME NEW i \in 1 .. Len(q2), x2[q2[i].of.id] # q2[i].of
      PROVE  \E t \in Rec : t.id = q2[i].of.id /\ t.conn # q2[i].of.conn
    BY DEF HasEntries
  <2> DEFINE r == q2[i].of
  <2>1. i + 1 \in 1 .. Len(q) /\ 1 < i + 1 /\ r = q[i + 1].of
    BY <1>1
  <2>2. r \in Sentence /\ r.id \in Number /\ x2[r.id] # r
    BY <2>1, OfIsSentence, SentenceIs
  <2>3. Lt(g, r)
    BY <1>1, <1>2, <2>1 DEF RowsOK, InLine
  <2> HIDE DEF r
  <2>4. CASE r.id = g.id
    <3>1. r.conn # g.conn
      BY <1>2, <2>2, <2>3, <2>4, LtIsOrder
    <3> QED
      BY <1>2, <2>4, <3>1 DEF r
  <2>5. CASE r.id # g.id
    <3>1. x[r.id] # r
      BY <1>4, <2>2, <2>5
    <3> QED
      BY <2>1, <3>1 DEF RowsOK, HasEntries, r
  <2> QED
    BY <2>4, <2>5
<1> QED
  BY <1>1, <1>3, <1>4, <1>5, <1>6, <1>7 DEF RowsOK, q2, x2

(* Both, as _add_sentence() does. *)
LEMMA RowShown ==
  ASSUME NEW q \in Seq(LineType), Len(q) <= MaxRows, NEW x \in Index,
         NEW s \in Sentence,
         NEW H \in SUBSET Sentence, NEW Rec \in SUBSET Sentence, NEW Mis,
         RowsOK(q, x, H, Rec, Mis), s \in Rec, H \subseteq Rec,
         \A h \in H : Lt(h, s), NEW q2, NEW x2, NEW q3, NEW x3,
         q2 = Append(q, Line(s)), x2 = [x EXCEPT ![s.id] = s],
         TooMany(q2) => q3 = Tail(q2) /\ x3 = Forget(x2, Head(q2)),
         ~TooMany(q2) => q3 = q2 /\ x3 = x2
  PROVE  /\ q3 \in Seq(LineType) /\ Len(q3) <= MaxRows /\ x3 \in Index
         /\ RowsOK(q3, x3, H \cup {s}, Rec, Mis)
<1>1. /\ q2 \in Seq(LineType) /\ x2 \in Index
      /\ RowsOK(q2, x2, H \cup {s}, Rec, Mis)
  BY RowAdded
<1>2. Len(q2) = Len(q) + 1 /\ Len(q) \in Nat /\ q2 # <<>>
  BY LineIs, AppendIs
<1>3. /\ TooMany(q2) => q3 = Tail(q2) /\ x3 = Forget(x2, Head(q2))
      /\ ~TooMany(q2) => q3 = q2 /\ x3 = x2
  OBVIOUS
<1>4. H \cup {s} \in SUBSET Sentence /\ H \cup {s} \subseteq Rec
  OBVIOUS
<1>5. CASE TooMany(q2)
  <2>1. /\ Tail(q2) \in Seq(LineType) /\ Forget(x2, Head(q2)) \in Index
        /\ RowsOK(Tail(q2), Forget(x2, Head(q2)), H \cup {s}, Rec, Mis)
    BY <1>1, <1>2, <1>4, RowForgotten
  <2>2. Len(Tail(q2)) <= MaxRows
    BY <1>1, <1>2, TailIs, RowsAssumption
  <2> QED
    BY <1>3, <1>5, <2>1, <2>2
<1>6. CASE ~TooMany(q2)
  <2>1. q3 = q2 /\ x3 = x2
    BY <1>3, <1>6
  <2>2. Len(q2) <= MaxRows
    BY <1>2, <1>6, RowsAssumption DEF TooMany
  <2> QED
    BY <1>1, <2>1, <2>2
<1> QED
  BY <1>5, <1>6

(* A row changes, not whose it is. *)
LEMMA RowTouched ==
  ASSUME NEW q \in Seq(LineType), NEW q2, NEW x \in Index, NEW S,
         NEW H \in SUBSET Sentence, NEW Rec, NEW Mis \in SUBSET Sentence,
         RowsOK(q, x, H, Rec, Mis), Touched(q, q2, x, S),
         H \cap Mis = {}, S \subseteq H \cup Mis,
         \A s \in S, h \in H : h.conn <= s.conn
  PROVE  RowsOK(q2, x, H, Rec, Mis)
<1>1. FindsOwn(q, x, S, Mis)
  BY FindsItsOwn DEF RowsOK
<1>2. InLine(q2, H) /\ AllOwn(q2, Mis)
  BY <1>1, TouchedLines DEF RowsOK
<1>3. Len(q2) = Len(q) /\ \A i \in 1 .. Len(q) : q2[i].of = q[i].of
  BY DEF Touched
<1>4. HasRows(q2, x) /\ HasEntries(q2, x, Rec)
  BY <1>3 DEF RowsOK, HasRows, HasEntries
<1> QED
  BY <1>2, <1>4 DEF RowsOK

(* More is received or missing, none of it handled. *)
LEMMA RowsStay ==
  ASSUME NEW q, NEW x, NEW H, NEW Rec, NEW Rec2, NEW Mis, NEW Mis2,
         RowsOK(q, x, H, Rec, Mis), Rec \subseteq Rec2, Mis \subseteq Mis2
  PROVE  RowsOK(q, x, H, Rec2, Mis2)
<1>1. AllOwn(q, Mis2)
  BY DEF RowsOK, AllOwn, Own
<1>2. HasEntries(q, x, Rec2)
  BY DEF RowsOK, HasEntries
<1> QED
  BY <1>1, <1>2 DEF RowsOK

-----------------------------------------------------------------------------
(* The invariants.                                                         *)

Elements(q) == {q[i] : i \in 1 .. Len(q)}

(* The sentences whose final has been received, has yet to be handled, or  *)
(* was handled, whatever the meeting.                                      *)
Received == UNION {Elements(received[m]) : m \in Meeting}
Pending  == FinalsIn(posted)
Handled  == Received \ Pending

(* The signals are as the thread posts them. *)
SignalInv == SignalsOK(posted, Received, missing)

(* Numbers are given in order, on every connection, and each sentence is   *)
(* received or missing; finals are handled in the order of the sentences.  *)
Known(s) == s.conn < conn \/ (s.conn = conn /\ s.id <= numbered)

SentInv ==
  /\ Received \cap missing = {}
  /\ \A s \in Received \cup missing : Known(s)
  /\ \A k \in 1 .. numbered : Here(k) \in Received \cup missing
  /\ \A s \in Handled, t \in Pending : Lt(s, t)

(* The rows, and the minutes of every meeting.  Those the recorder writes  *)
(* have every sentence since their first, so that the last line with a     *)
(* number is that of the last sentence with it.                            *)
ScreenInv == RowsOK(rows, index, Handled, Received, missing)

MinutesInv ==
  /\ \A m \in Meeting :
       InLine(minutes[m], Handled) /\ AllOwn(minutes[m], missing)
  /\ recorder # 0 => Full(minutes[recorder], Handled)

(* The thread works for the last meeting, and so does the recorder. *)
MeetingInv ==
  /\ meetings = 0 => thread = "none"
  /\ thread \in {"opening", "listening"} => conn > 0
  /\ recorder \in {0, meetings}
  /\ \A m \in Meeting :
       m > meetings => received[m] = <<>> /\ minutes[m] = <<>>

ReceivedInv ==
  \A m \in Meeting : \A i, j \in 1 .. Len(received[m]) :
    i < j => Lt(received[m][i], received[m][j])

(* A meeting that was started with nothing of the last one still posted    *)
(* has its minutes closed by its own stopped, which comes last.            *)
Over == thread \in {"ending", "dead"}

CloseInv ==
  window = "open" /\ meetings > 0 /\ meetings \notin hasty =>
    /\ recorder = 0 => Pending = {} /\ Over
    /\ \A i \in 1 .. Len(posted) :
         posted[i].kind = "stopped" => i = Len(posted) /\ Over

TranscriptInv ==
  /\ TypeOK
  /\ SignalInv
  /\ SentInv
  /\ ScreenInv
  /\ MinutesInv
  /\ MeetingInv
  /\ ReceivedInv
  /\ CloseInv
  /\ MinutesComplete

(* The finals still posted, by both names. *)
LEMMA AwaitedIs == Awaited = Pending /\ Awaited' = Pending'
BY DEF Awaited, Pending, FinalsIn

(* The sets of sentences have their types. *)
LEMMA SetsTyped ==
  ASSUME TranscriptInv
  PROVE  /\ Received \in SUBSET Sentence /\ missing \in SUBSET Sentence
         /\ Handled \in SUBSET Sentence /\ Handled \subseteq Received
         /\ Pending \in SUBSET Received
<1>1. received \in [Meeting -> Seq(Sentence)] /\ missing \subseteq Sentence
  BY DEF TranscriptInv, TypeOK
<1>2. ASSUME NEW m \in Meeting, NEW i \in 1 .. Len(received[m])
      PROVE  received[m][i] \in Sentence
  <2>1. received[m] \in Seq(Sentence)
    BY <1>1
  <2> QED
    BY <2>1
<1>3. Received \in SUBSET Sentence
  BY <1>2 DEF Received, Elements
<1>4. Pending \in SUBSET Received
  <2> SUFFICES ASSUME NEW s \in Pending  PROVE s \in Received
    OBVIOUS
  <2>1. PICK i \in 1 .. Len(posted) :
               posted[i].kind = "final" /\ s \in posted[i].about
    BY FinalIs DEF Pending
  <2> QED
    BY <2>1 DEF TranscriptInv, SignalInv, SignalsOK, FromServer
<1> QED
  BY <1>1, <1>3, <1>4 DEF Handled

(* What a step keeps that touches no line and no final. *)
LEMMA LinesStay ==
  ASSUME TranscriptInv, missing' = missing, received' = received,
         Pending' = Pending, rows' = rows, index' = index, minutes' = minutes,
         recorder' = recorder
  PROVE  /\ Received' = Received /\ Handled' = Handled
         /\ ScreenInv' /\ MinutesInv' /\ ReceivedInv'
<1>1. Received' = Received
  BY DEF Received
<1>2. Handled' = Handled
  BY <1>1 DEF Handled
<1>3. ScreenInv'
  BY <1>1, <1>2 DEF ScreenInv, TranscriptInv
<1>4. MinutesInv'
  BY <1>1, <1>2 DEF MinutesInv, TranscriptInv
<1>5. ReceivedInv'
  BY DEF ReceivedInv, TranscriptInv
<1> QED
  BY <1>1, <1>2, <1>3, <1>4, <1>5

(* ... and the minutes stay complete. *)
LEMMA MinutesStay ==
  ASSUME TranscriptInv, received' = received, Pending' = Pending,
         minutes' = minutes, recorder' = recorder, meetings' = meetings,
         hasty' = hasty, window' = window
  PROVE  MinutesComplete'
<1>1. Awaited' = Awaited
  BY AwaitedIs
<1> SUFFICES ASSUME NEW m \in 1 .. meetings, window = "open",
                    {m, m + 1} \cap hasty = {}
    PROVE  HoldAllBut(m, IF m = recorder THEN Awaited ELSE {})'
  BY DEF MinutesComplete
<1>2. HoldAllBut(m, IF m = recorder THEN Awaited ELSE {})
  BY DEF TranscriptInv, MinutesComplete
<1> QED
  BY <1>1, <1>2 DEF HoldAllBut

(* A signal that brings no sentence is posted for known ones. *)
LEMMA PostIs ==
  ASSUME TranscriptInv, NEW kind, NEW S \in SUBSET Sentence,
         kind \in {"status", "translation", "speakers", "failed", "stopped"},
         S \subseteq Received \cup missing, \A s \in S : s.conn = conn,
         Post(kind, S), received' = received, missing' = missing
  PROVE  /\ posted' \in Seq(SignalType) /\ Len(posted') <= MaxPosted
         /\ Pending' = Pending /\ SignalInv'
         /\ Len(posted) \in Nat /\ Len(posted') = Len(posted) + 1
         /\ \A i \in 1 .. Len(posted) : posted'[i] = posted[i]
         /\ posted'[Len(posted) + 1].kind = kind
<1> DEFINE e == Signal(kind, S)
<1>1. e \in SignalType /\ e.kind = kind /\ e.about = S /\ e.kind # "final"
  BY DEF Signal, SignalType
<1>2. posted' = Append(posted, e) /\ Len(posted) < MaxPosted
  BY DEF Post
<1> HIDE DEF e
<1>3. posted \in Seq(SignalType)
  BY DEF TranscriptInv, TypeOK
<1>4. /\ posted' \in Seq(SignalType) /\ Len(posted') = Len(posted) + 1
      /\ Len(posted) \in Nat
      /\ \A i \in 1 .. Len(posted) : posted'[i] = posted[i]
      /\ posted'[Len(posted) + 1] = e
  BY <1>1, <1>2, <1>3, AppendIs
<1>5. \A s \in Received \cup missing, t \in e.about : s.conn <= t.conn
  <2>1. ASSUME NEW s \in Received \cup missing  PROVE s.conn <= conn
    <3>1. s \in Sentence /\ Known(s) /\ conn \in Nat
      BY SetsTyped DEF TranscriptInv, SentInv, TypeOK
    <3> QED
      BY <3>1, SentenceIs DEF Known
  <2> QED
    BY <1>1, <2>1
<1>6. SignalsOK(posted, Received, missing)
  BY DEF TranscriptInv, SignalInv
<1>7. /\ SignalsOK(posted', Received, missing)
      /\ FinalsIn(posted') = FinalsIn(posted)
  BY <1>1, <1>2, <1>3, <1>5, <1>6, SetsTyped, SignalPosted
<1>8. Received' = Received
  BY DEF Received
<1>9. SignalInv' /\ Pending' = Pending
  BY <1>7, <1>8 DEF SignalInv, Pending
<1>10. Len(posted') <= MaxPosted
  BY <1>2, <1>4, BoundsAssumption
<1> QED
  BY <1>1, <1>4, <1>9, <1>10

-----------------------------------------------------------------------------
(* The steps of the meeting's thread.                                      *)

(* What the thread and the server leave to the Qt thread and the user. *)
NotTheirs ==
  /\ rows' = rows /\ index' = index /\ minutes' = minutes
  /\ recorder' = recorder /\ window' = window /\ button' = button
  /\ meetings' = meetings /\ hasty' = hasty /\ requested' = requested

(* A thread that is not over posts, stopped as the last of its signals. *)
LEMMA ThreadPosts ==
  ASSUME TranscriptInv, NotTheirs, NEW kind, NEW S \in SUBSET Sentence,
         kind \in {"status", "translation", "speakers", "failed", "stopped"},
         S \subseteq Received \cup missing, \A s \in S : s.conn = conn,
         Post(kind, S), received' = received, missing' = missing,
         ~Over, kind = "stopped" => Over'
  PROVE  /\ posted' \in Seq(SignalType) /\ Len(posted') <= MaxPosted
         /\ Received' = Received /\ Handled' = Handled /\ Pending' = Pending
         /\ SignalInv' /\ ScreenInv' /\ MinutesInv' /\ ReceivedInv'
         /\ CloseInv' /\ MinutesComplete'
<1>1. /\ posted' \in Seq(SignalType) /\ Len(posted') <= MaxPosted
      /\ Pending' = Pending /\ SignalInv'
      /\ Len(posted) \in Nat /\ Len(posted') = Len(posted) + 1
      /\ \A i \in 1 .. Len(posted) : posted'[i] = posted[i]
      /\ posted'[Len(posted) + 1].kind = kind
  BY PostIs
<1>2. /\ Received' = Received /\ Handled' = Handled
      /\ ScreenInv' /\ MinutesInv' /\ ReceivedInv'
  BY <1>1, LinesStay DEF NotTheirs
<1>3. MinutesComplete'
  BY <1>1, MinutesStay DEF NotTheirs
<1>4. CloseInv'
  <2> SUFFICES ASSUME window = "open", meetings > 0, meetings \notin hasty
      PROVE  /\ recorder # 0
             /\ \A i \in 1 .. Len(posted') : posted'[i].kind = "stopped" =>
                  i = Len(posted') /\ Over'
    BY DEF CloseInv, NotTheirs
  <2>1. /\ recorder # 0
        /\ \A i \in 1 .. Len(posted) : posted[i].kind # "stopped"
    BY DEF TranscriptInv, CloseInv
  <2>2. ASSUME NEW i \in 1 .. Len(posted'), posted'[i].kind = "stopped"
        PROVE  i = Len(posted') /\ Over'
    <3>1. i = Len(posted) + 1
      BY <1>1, <2>1, <2>2
    <3> QED
      BY <1>1, <2>2, <3>1
  <2> QED
    BY <2>1, <2>2
<1> QED
  BY <1>1, <1>2, <1>3, <1>4

(* The thread goes on without a signal. *)
LEMMA ThreadGoesOn ==
  ASSUME TranscriptInv, NotTheirs, posted' = posted, received' = received,
         missing' = missing, Over => Over'
  PROVE  /\ posted' \in Seq(SignalType) /\ Len(posted') <= MaxPosted
         /\ Received' = Received /\ Handled' = Handled /\ Pending' = Pending
         /\ SignalInv' /\ ScreenInv' /\ MinutesInv' /\ ReceivedInv'
         /\ CloseInv' /\ MinutesComplete'
<1>1. Pending' = Pending
  BY DEF Pending
<1>2. /\ Received' = Received /\ Handled' = Handled
      /\ ScreenInv' /\ MinutesInv' /\ ReceivedInv'
  BY <1>1, LinesStay DEF NotTheirs
<1>3. MinutesComplete'
  BY <1>1, MinutesStay DEF NotTheirs
<1>4. SignalInv'
  BY <1>2 DEF TranscriptInv, SignalInv
<1>5. CloseInv'
  BY <1>1 DEF TranscriptInv, CloseInv, NotTheirs
<1> QED
  BY <1>1, <1>2, <1>3, <1>4, <1>5 DEF TranscriptInv, TypeOK

(* The sentences of a connection that goes on, or of the one before. *)
LEMMA SentStays ==
  ASSUME TranscriptInv, conn' = conn, numbered' = numbered,
         Received' = Received, Handled' = Handled, Pending' = Pending,
         missing' = missing
  PROVE  SentInv'
BY DEF TranscriptInv, SentInv, Known, Here

(* The next connection starts from nothing numbered. *)
LEMMA SentOnNext ==
  ASSUME TranscriptInv, conn' = conn + 1, numbered' = 0,
         Received' = Received, Handled' = Handled, Pending' = Pending,
         missing' = missing
  PROVE  SentInv'
<1>1. \A s \in Received \cup missing : s.conn < conn + 1
  <2> SUFFICES ASSUME NEW s \in Received \cup missing
      PROVE  s.conn < conn + 1
    OBVIOUS
  <2>1. s \in Sentence /\ Known(s) /\ conn \in Nat
    BY SetsTyped DEF TranscriptInv, SentInv, TypeOK
  <2> QED
    BY <2>1, SentenceIs DEF Known
<1>2. \A s \in (Received \cup missing)' : Known(s)'
  BY <1>1 DEF Known
<1>3. 1 .. numbered' = {}
  OBVIOUS
<1> QED
  BY <1>2, <1>3 DEF TranscriptInv, SentInv

(* The first connection of a meeting. *)
LEMMA ConnectedKeeps ==
  ASSUME TranscriptInv, Connected  PROVE TranscriptInv'
<1>1. /\ thread = "connecting" /\ thread' = "opening" /\ Post("status", {})
      /\ conn < MaxConnects /\ conn' = conn + 1
      /\ numbered' = 0 /\ answered' = {} /\ revised' = FALSE
      /\ missing' = missing /\ received' = received /\ NotTheirs
  BY DEF Connected, NewConnection, NotTheirs, screen, ghosts
<1>2. ~Over
  BY <1>1 DEF Over
<1>3. /\ posted' \in Seq(SignalType) /\ Len(posted') <= MaxPosted
      /\ Received' = Received /\ Handled' = Handled /\ Pending' = Pending
      /\ SignalInv' /\ ScreenInv' /\ MinutesInv' /\ ReceivedInv'
      /\ CloseInv' /\ MinutesComplete'
  BY <1>1, <1>2, ThreadPosts
<1>4. SentInv'
  BY <1>1, <1>3, SentOnNext
<1>5. TypeOK'
  <2>1. conn' \in 0 .. MaxConnects /\ numbered' \in 0 .. MaxSentences
    BY <1>1, BoundsAssumption DEF TypeOK, TranscriptInv
  <2> QED
    BY <1>1, <1>3, <2>1 DEF TypeOK, TranscriptInv, NotTheirs
<1>6. MeetingInv'
  BY <1>1 DEF TypeOK, TranscriptInv, MeetingInv, NotTheirs
<1> QED
  BY <1>3, <1>4, <1>5, <1>6 DEF TranscriptInv

(* The next one after a loss. *)
LEMMA ReconnectedKeeps ==
  ASSUME TranscriptInv, Reconnected  PROVE TranscriptInv'
<1>1. /\ thread \in {"opening", "listening"} /\ thread' = thread
      /\ posted' = posted /\ conn < MaxConnects /\ conn' = conn + 1
      /\ numbered' = 0 /\ answered' = {} /\ revised' = FALSE
      /\ missing' = missing /\ received' = received /\ NotTheirs
  BY DEF Reconnected, NewConnection, NotTheirs, screen, ghosts
<1>2. /\ posted' \in Seq(SignalType) /\ Len(posted') <= MaxPosted
      /\ Received' = Received /\ Handled' = Handled /\ Pending' = Pending
      /\ SignalInv' /\ ScreenInv' /\ MinutesInv' /\ ReceivedInv'
      /\ CloseInv' /\ MinutesComplete'
  BY <1>1, ThreadGoesOn DEF Over
<1>3. SentInv'
  BY <1>1, <1>2, SentOnNext
<1>4. TypeOK'
  <2>1. conn' \in 0 .. MaxConnects /\ numbered' \in 0 .. MaxSentences
    BY <1>1, BoundsAssumption DEF TypeOK, TranscriptInv
  <2> QED
    BY <1>1, <1>2, <2>1 DEF TypeOK, TranscriptInv, NotTheirs
<1>5. MeetingInv'
  BY <1>1 DEF TypeOK, TranscriptInv, MeetingInv, NotTheirs
<1> QED
  BY <1>2, <1>3, <1>4, <1>5 DEF TranscriptInv

(* The capture device is open. *)
LEMMA ListeningKeeps ==
  ASSUME TranscriptInv, Listening  PROVE TranscriptInv'
<1>1. /\ thread = "opening" /\ thread' = "listening" /\ Post("status", {})
      /\ conn' = conn /\ numbered' = numbered /\ answered' = answered
      /\ revised' = revised
      /\ missing' = missing /\ received' = received /\ NotTheirs
  BY DEF Listening, NotTheirs, screen, ghosts, server
<1>2. ~Over
  BY <1>1 DEF Over
<1>3. /\ posted' \in Seq(SignalType) /\ Len(posted') <= MaxPosted
      /\ Received' = Received /\ Handled' = Handled /\ Pending' = Pending
      /\ SignalInv' /\ ScreenInv' /\ MinutesInv' /\ ReceivedInv'
      /\ CloseInv' /\ MinutesComplete'
  BY <1>1, <1>2, ThreadPosts
<1>4. SentInv'
  BY <1>1, <1>3, SentStays
<1>5. TypeOK'
  BY <1>1, <1>3 DEF TypeOK, TranscriptInv, NotTheirs
<1>6. MeetingInv'
  BY <1>1 DEF TypeOK, TranscriptInv, MeetingInv, NotTheirs
<1> QED
  BY <1>3, <1>4, <1>5, <1>6 DEF TranscriptInv

(* A translation is for a sentence of the connection it comes on. *)
LEMMA TranslationKeeps ==
  ASSUME TranscriptInv, Translation  PROVE TranscriptInv'
<1>1. PICK k \in 1 .. numbered :
             answered' = answered \cup {k} /\ Post("translation", {Here(k)})
  BY DEF Translation
<1>2. /\ thread = "listening" /\ thread' = thread
      /\ conn' = conn /\ numbered' = numbered /\ revised' = revised
      /\ missing' = missing /\ received' = received /\ NotTheirs
  BY DEF Translation, NotTheirs, screen, ghosts
<1>3. ~Over
  BY <1>2 DEF Over
<1>4. /\ Here(k) \in Received \cup missing /\ Here(k) \in Sentence
      /\ Here(k).conn = conn
  BY <1>1, SetsTyped DEF TranscriptInv, SentInv, Here
<1>5. /\ posted' \in Seq(SignalType) /\ Len(posted') <= MaxPosted
      /\ Received' = Received /\ Handled' = Handled /\ Pending' = Pending
      /\ SignalInv' /\ ScreenInv' /\ MinutesInv' /\ ReceivedInv'
      /\ CloseInv' /\ MinutesComplete'
  BY <1>1, <1>2, <1>3, <1>4, ThreadPosts
<1>6. SentInv'
  BY <1>2, <1>5, SentStays
<1>7. k \in Number
  BY <1>1, BoundsAssumption DEF TranscriptInv, TypeOK, Number
<1>8. TypeOK'
  BY <1>1, <1>2, <1>5, <1>7 DEF TypeOK, TranscriptInv, NotTheirs
<1>9. MeetingInv'
  BY <1>2 DEF TranscriptInv, MeetingInv, NotTheirs
<1> QED
  BY <1>5, <1>6, <1>8, <1>9 DEF TranscriptInv

(* So are the corrected speakers. *)
LEMMA SpeakersKeeps ==
  ASSUME TranscriptInv, Speakers  PROVE TranscriptInv'
<1>1. PICK K \in SUBSET (1 .. numbered) :
             Post("speakers", {Here(k) : k \in K})
  BY DEF Speakers
<1>2. /\ thread = "listening" /\ thread' = thread /\ revised' = TRUE
      /\ conn' = conn /\ numbered' = numbered /\ answered' = answered
      /\ missing' = missing /\ received' = received /\ NotTheirs
  BY DEF Speakers, NotTheirs, screen, ghosts
<1>3. ~Over
  BY <1>2 DEF Over
<1>4. /\ {Here(k) : k \in K} \subseteq Received \cup missing
      /\ {Here(k) : k \in K} \in SUBSET Sentence
      /\ \A s \in {Here(k) : k \in K} : s.conn = conn
  BY <1>1, SetsTyped DEF TranscriptInv, SentInv, Here
<1>5. /\ posted' \in Seq(SignalType) /\ Len(posted') <= MaxPosted
      /\ Received' = Received /\ Handled' = Handled /\ Pending' = Pending
      /\ SignalInv' /\ ScreenInv' /\ MinutesInv' /\ ReceivedInv'
      /\ CloseInv' /\ MinutesComplete'
  BY <1>1, <1>2, <1>3, <1>4, ThreadPosts
<1>6. SentInv'
  BY <1>2, <1>5, SentStays
<1>7. TypeOK'
  BY <1>2, <1>5 DEF TypeOK, TranscriptInv, NotTheirs
<1>8. MeetingInv'
  BY <1>2 DEF TranscriptInv, MeetingInv, NotTheirs
<1> QED
  BY <1>5, <1>6, <1>7, <1>8 DEF TranscriptInv

(* The session ends badly. *)
LEMMA FailedKeeps ==
  ASSUME TranscriptInv, Failed  PROVE TranscriptInv'
<1>1. /\ thread \in {"connecting", "opening", "listening"}
      /\ thread' = "failing" /\ Post("failed", {})
      /\ conn' = conn /\ numbered' = numbered /\ answered' = answered
      /\ revised' = revised
      /\ missing' = missing /\ received' = received /\ NotTheirs
  BY DEF Failed, NotTheirs, screen, ghosts, server
<1>2. ~Over
  BY <1>1 DEF Over
<1>3. /\ posted' \in Seq(SignalType) /\ Len(posted') <= MaxPosted
      /\ Received' = Received /\ Handled' = Handled /\ Pending' = Pending
      /\ SignalInv' /\ ScreenInv' /\ MinutesInv' /\ ReceivedInv'
      /\ CloseInv' /\ MinutesComplete'
  BY <1>1, <1>2, ThreadPosts
<1>4. SentInv'
  BY <1>1, <1>3, SentStays
<1>5. TypeOK'
  BY <1>1, <1>3 DEF TypeOK, TranscriptInv, NotTheirs
<1>6. MeetingInv'
  BY <1>1 DEF TypeOK, TranscriptInv, MeetingInv, NotTheirs
<1> QED
  BY <1>3, <1>4, <1>5, <1>6 DEF TranscriptInv

(* stopped is the last signal of a thread. *)
LEMMA EndsKeeps ==
  ASSUME TranscriptInv, Ends  PROVE TranscriptInv'
<1>1. /\ thread \in {"failing", "listening"}
      /\ thread' = "ending" /\ Post("stopped", {})
      /\ conn' = conn /\ numbered' = numbered /\ answered' = answered
      /\ revised' = revised
      /\ missing' = missing /\ received' = received /\ NotTheirs
  BY DEF Ends, NotTheirs, screen, ghosts, server
<1>2. ~Over /\ Over'
  BY <1>1 DEF Over
<1>3. /\ posted' \in Seq(SignalType) /\ Len(posted') <= MaxPosted
      /\ Received' = Received /\ Handled' = Handled /\ Pending' = Pending
      /\ SignalInv' /\ ScreenInv' /\ MinutesInv' /\ ReceivedInv'
      /\ CloseInv' /\ MinutesComplete'
  BY <1>1, <1>2, ThreadPosts
<1>4. SentInv'
  BY <1>1, <1>3, SentStays
<1>5. TypeOK'
  BY <1>1, <1>3 DEF TypeOK, TranscriptInv, NotTheirs
<1>6. MeetingInv'
  BY <1>1 DEF TypeOK, TranscriptInv, MeetingInv, NotTheirs
<1> QED
  BY <1>3, <1>4, <1>5, <1>6 DEF TranscriptInv

(* The thread is dead. *)
LEMMA DiesKeeps ==
  ASSUME TranscriptInv, Dies  PROVE TranscriptInv'
<1>1. /\ thread = "ending" /\ thread' = "dead" /\ posted' = posted
      /\ conn' = conn /\ numbered' = numbered /\ answered' = answered
      /\ revised' = revised
      /\ missing' = missing /\ received' = received /\ NotTheirs
  BY DEF Dies, NotTheirs, screen, ghosts, server
<1>2. /\ posted' \in Seq(SignalType) /\ Len(posted') <= MaxPosted
      /\ Received' = Received /\ Handled' = Handled /\ Pending' = Pending
      /\ SignalInv' /\ ScreenInv' /\ MinutesInv' /\ ReceivedInv'
      /\ CloseInv' /\ MinutesComplete'
  BY <1>1, ThreadGoesOn DEF Over
<1>3. SentInv'
  BY <1>1, <1>2, SentStays
<1>4. TypeOK'
  BY <1>1, <1>2 DEF TypeOK, TranscriptInv, NotTheirs
<1>5. MeetingInv'
  BY <1>1 DEF TypeOK, TranscriptInv, MeetingInv, NotTheirs
<1> QED
  BY <1>2, <1>3, <1>4, <1>5 DEF TranscriptInv

(* A sentence is numbered: it comes after all there were. *)
LEMMA NextSentence ==
  ASSUME TranscriptInv, thread = "listening", numbered < MaxSentences
  PROVE  /\ Here(numbered + 1) \in Sentence
         /\ numbered + 1 \in 0 .. MaxSentences /\ meetings \in Meeting
         /\ \A t \in Received \cup missing : Lt(t, Here(numbered + 1))
<1>1. /\ numbered \in 0 .. MaxSentences /\ MaxSentences \in Nat
      /\ conn \in 0 .. MaxConnects /\ conn > 0
      /\ meetings \in 0 .. MaxMeetings /\ meetings # 0
  BY BoundsAssumption DEF TranscriptInv, TypeOK, MeetingInv
<1>2. /\ Here(numbered + 1) \in Sentence
      /\ numbered + 1 \in 0 .. MaxSentences /\ meetings \in Meeting
  BY <1>1, BoundsAssumption DEF Here, Sentence, Number, Meeting
<1>3. ASSUME NEW t \in Received \cup missing
      PROVE  Lt(t, Here(numbered + 1))
  <2>1. t \in Sentence /\ Known(t)
    BY SetsTyped DEF TranscriptInv, SentInv
  <2> QED
    BY <1>1, <2>1, SentenceIs DEF Known, Lt, Here
<1> QED
  BY <1>2, <1>3

(* It is known from now on. *)
LEMMA SentInvNext ==
  ASSUME TranscriptInv, thread = "listening", numbered < MaxSentences,
         conn' = conn, numbered' = numbered + 1,
         (Received \cup missing)' =
           Received \cup missing \cup {Here(numbered + 1)}
  PROVE  /\ \A s \in (Received \cup missing)' : Known(s)'
         /\ \A k \in 1 .. numbered' : Here(k)' \in (Received \cup missing)'
<1> DEFINE s == Here(numbered + 1)
<1>1. numbered \in Nat /\ conn \in Nat
  BY BoundsAssumption DEF TranscriptInv, TypeOK
<1>2. ASSUME NEW t \in (Received \cup missing)'  PROVE Known(t)'
  <2>1. CASE t = s
    BY <1>1, <2>1 DEF Known, Here
  <2>2. CASE t \in Received \cup missing
    <3>1. t \in Sentence /\ Known(t)
      BY <2>2, SetsTyped DEF TranscriptInv, SentInv
    <3> QED
      BY <1>1, <3>1, SentenceIs DEF Known
  <2> QED
    BY <2>1, <2>2
<1>3. ASSUME NEW k \in 1 .. numbered'
      PROVE  Here(k)' \in (Received \cup missing)'
  <2>1. Here(k)' = Here(k)
    BY DEF Here
  <2>2. CASE k = numbered + 1
    BY <2>1, <2>2
  <2>3. CASE k # numbered + 1
    <3>1. k \in 1 .. numbered
      BY <1>1, <2>3
    <3>2. Here(k) \in Received \cup missing
      BY <3>1 DEF TranscriptInv, SentInv
    <3> QED
      BY <2>1, <3>2
  <2> QED
    BY <2>2, <2>3
<1> QED
  BY <1>2, <1>3

(* The final of the sentence is sent. *)
LEMMA FinalSent ==
  ASSUME TranscriptInv, thread = "listening", numbered < MaxSentences,
         conn' = conn, numbered' = numbered + 1, answered' = answered,
         revised' = revised, thread' = thread, missing' = missing, NotTheirs,
         Post("final", {Here(numbered + 1)}),
         received' = [received EXCEPT ![meetings] =
                        Append(@, Here(numbered + 1))]
  PROVE  TranscriptInv'
<1> DEFINE s == Here(numbered + 1)
<1>1. /\ s \in Sentence /\ numbered + 1 \in 0 .. MaxSentences
      /\ meetings \in Meeting /\ \A t \in Received \cup missing : Lt(t, s)
  BY NextSentence
<1>2. /\ posted' = Append(posted, Signal("final", {s}))
      /\ Len(posted) < MaxPosted
      /\ received' = [received EXCEPT ![meetings] = Append(@, s)]
  BY DEF Post
<1> HIDE DEF s
<1>3. /\ posted \in Seq(SignalType)
      /\ received \in [Meeting -> Seq(Sentence)]
      /\ SignalsOK(posted, Received, missing)
  BY DEF TranscriptInv, TypeOK, SignalInv
<1>4. /\ Received \in SUBSET Sentence /\ missing \in SUBSET Sentence
      /\ Handled \subseteq Received
  BY SetsTyped
<1>5. /\ received' \in [Meeting -> Seq(Sentence)]
      /\ received'[meetings] = Append(received[meetings], s)
      /\ \A m \in Meeting : m # meetings => received'[m] = received[m]
  BY <1>1, <1>2, <1>3
<1>6. /\ Len(received'[meetings]) = Len(received[meetings]) + 1
      /\ Len(received[meetings]) \in Nat
      /\ \A i \in 1 .. Len(received[meetings]) :
           received'[meetings][i] = received[meetings][i]
      /\ received'[meetings][Len(received[meetings]) + 1] = s
  BY <1>1, <1>3, <1>5, AppendIs
<1>7. \A i : i \in 1 .. Len(received'[meetings]) <=>
               \/ i \in 1 .. Len(received[meetings])
               \/ i = Len(received[meetings]) + 1
  BY <1>6
<1>8. Received' = Received \cup {s}
  <2>1. Elements(received[meetings])' = Elements(received[meetings]) \cup {s}
    BY <1>6, <1>7 DEF Elements, NotTheirs
  <2>2. \A m \in Meeting : m # meetings =>
          Elements(received[m])' = Elements(received[m])
    BY <1>5 DEF Elements
  <2>3. Received' = UNION {Elements(received[m])' : m \in Meeting}
    BY DEF Received
  <2>4. ASSUME NEW r
        PROVE  r \in Received' <=> r \in Received \/ r = s
    <3>1. r \in Received <=> \E m \in Meeting : r \in Elements(received[m])
      BY DEF Received
    <3>2. r \in Received' <=>
            \E m \in Meeting : r \in Elements(received[m])'
      BY <2>3
    <3>3. ASSUME NEW m \in Meeting
          PROVE  r \in Elements(received[m])' <=>
                   r \in Elements(received[m]) \/ (m = meetings /\ r = s)
      <4>1. CASE m = meetings
        <5>1. r \in Elements(received[meetings])' <=>
                r \in Elements(received[meetings]) \/ r = s
          BY <2>1
        <5>2. Elements(received[m])' = Elements(received[meetings])'
          BY <4>1, <1>5 DEF Elements, NotTheirs
        <5> QED
          BY <4>1, <5>1, <5>2
      <4>2. CASE m # meetings
        BY <2>2, <4>2
      <4> QED
        BY <4>1, <4>2
    <3> QED
      BY <1>1, <3>1, <3>2, <3>3, Zenon
  <2> QED
    BY <2>4
<1>9. /\ posted' \in Seq(SignalType)
      /\ SignalsOK(posted', Received \cup {s}, missing)
      /\ FinalsIn(posted') = FinalsIn(posted) \cup {s}
      /\ (Received \cup {s}) \ FinalsIn(posted') =
           Received \ FinalsIn(posted)
  BY <1>1, <1>2, <1>3, <1>4, FinalPosted
<1>10. SignalInv' /\ Pending' = Pending \cup {s} /\ Handled' = Handled
  BY <1>8, <1>9 DEF SignalInv, Pending, Handled
<1>11. /\ Len(posted') = Len(posted) + 1 /\ Len(posted) \in Nat
       /\ \A i \in 1 .. Len(posted) : posted'[i] = posted[i]
       /\ posted'[Len(posted) + 1].kind = "final"
  <2>1. Signal("final", {s}) \in SignalType
        /\ Signal("final", {s}).kind = "final"
    BY <1>1 DEF Signal, SignalType
  <2> QED
    BY <1>2, <1>3, <2>1, AppendIs
<1>12. SentInv'
  <2>1. s \notin missing
    BY <1>1, LtIsOrder
  <2>2. (Received \cup missing)' = Received \cup missing \cup {s}
    BY <1>8
  <2>3. /\ \A t \in (Received \cup missing)' : Known(t)'
        /\ \A k \in 1 .. numbered' : Here(k)' \in (Received \cup missing)'
    BY <2>2, SentInvNext DEF s
  <2>4. \A h \in Handled', t \in Pending' : Lt(h, t)
    BY <1>1, <1>4, <1>10 DEF TranscriptInv, SentInv
  <2>5. (Received \cap missing)' = {}
    BY <1>8, <2>1 DEF TranscriptInv, SentInv
  <2> QED
    BY <2>3, <2>4, <2>5 DEF SentInv
<1>13. ScreenInv'
  <2>1. RowsOK(rows, index, Handled, Received', missing)
    BY <1>8, RowsStay DEF TranscriptInv, ScreenInv
  <2> QED
    BY <1>10, <2>1 DEF ScreenInv, NotTheirs
<1>14. MinutesInv'
  BY <1>10 DEF TranscriptInv, MinutesInv, NotTheirs
<1>15. ReceivedInv'
  <2> SUFFICES ASSUME NEW m \in Meeting, NEW i \in 1 .. Len(received'[m]),
                      NEW j \in 1 .. Len(received'[m]), i < j
      PROVE  Lt(received'[m][i], received'[m][j])
    BY DEF ReceivedInv
  <2>1. CASE m # meetings
    BY <1>5, <2>1 DEF TranscriptInv, ReceivedInv
  <2>2. CASE m = meetings
    <3>1. i \in 1 .. Len(received[m]) /\ received'[m][i] = received[m][i]
      BY <1>6, <2>2
    <3>2. CASE j = Len(received[m]) + 1
      <4>1. received[m][i] \in Received
        BY <3>1 DEF Received, Elements
      <4> QED
        BY <1>1, <1>6, <2>2, <3>1, <3>2, <4>1
    <3>3. CASE j \in 1 .. Len(received[m])
      BY <1>6, <2>2, <3>1, <3>3 DEF TranscriptInv, ReceivedInv
    <3> QED
      BY <1>7, <2>2, <3>2, <3>3
  <2> QED
    BY <2>1, <2>2
<1>16. CloseInv'
  <2> SUFFICES ASSUME window = "open", meetings > 0, meetings \notin hasty
      PROVE  /\ recorder # 0
             /\ \A i \in 1 .. Len(posted') : posted'[i].kind # "stopped"
    BY DEF CloseInv, NotTheirs
  <2>1. /\ recorder # 0
        /\ \A i \in 1 .. Len(posted) : posted[i].kind # "stopped"
    BY DEF TranscriptInv, CloseInv, Over
  <2> QED
    BY <1>11, <2>1
<1>17. MinutesComplete'
  <2> SUFFICES ASSUME NEW m \in 1 .. meetings, window = "open",
                      {m, m + 1} \cap hasty = {}
      PROVE  HoldAllBut(m, IF m = recorder THEN Awaited ELSE {})'
    BY DEF MinutesComplete, NotTheirs
  <2>1. HoldAllBut(m, IF m = recorder THEN Pending ELSE {})
    BY AwaitedIs DEF TranscriptInv, MinutesComplete
  <2>2. m \in Meeting /\ minutes' = minutes /\ recorder' = recorder
    BY <1>1, BoundsAssumption DEF Meeting, NotTheirs
  <2>3. CASE m # meetings
    <3>1. m # recorder
      BY <2>3 DEF TranscriptInv, MeetingInv
    <3>2. HoldAllBut(m, {}) /\ received'[m] = received[m]
      BY <1>5, <2>1, <2>2, <2>3, <3>1
    <3>3. HoldAllBut(m, {})'
      BY <2>2, <3>2 DEF HoldAllBut
    <3> QED
      BY <2>2, <3>1, <3>3 DEF HoldAllBut
  <2>4. CASE m = meetings
    <3>1. m = recorder
      BY <2>4 DEF TranscriptInv, MeetingInv, CloseInv, Over
    <3> DEFINE n == Len(minutes[m])
               l == Len(received[m])
    <3>2. /\ n <= l /\ l \in Nat /\ n \in Nat
          /\ \A i \in 1 .. n : minutes[m][i].of = received[m][i]
          /\ Pending = {received[m][i] : i \in n + 1 .. l}
      <4>1. minutes[m] \in Seq(LineType)
        BY <2>2 DEF TranscriptInv, TypeOK
      <4> QED
        BY <1>6, <2>1, <2>4, <3>1, <4>1 DEF HoldAllBut
    <3>3. /\ Len(received'[m]) = l + 1
          /\ \A i \in 1 .. l : received'[m][i] = received[m][i]
          /\ received'[m][l + 1] = s
      BY <1>6, <2>4
    <3> HIDE DEF n, l
    <3>4. \A i : i \in n + 1 .. l + 1 <=> i \in n + 1 .. l \/ i = l + 1
      BY <3>2
    <3>5. \A i \in n + 1 .. l : i \in 1 .. l
      BY <3>2
    <3>6. Pending' = {received'[m][i] : i \in n + 1 .. l + 1}
      BY <1>10, <3>2, <3>3, <3>4, <3>5
    <3>7. /\ n <= l + 1
          /\ \A i \in 1 .. n : minutes[m][i].of = received'[m][i]
      BY <3>2, <3>3
    <3> QED
      BY <2>2, <3>1, <3>3, <3>6, <3>7, AwaitedIs DEF HoldAllBut, n
  <2> QED
    BY <2>3, <2>4
<1>18. MeetingInv'
  BY <1>1, <1>5 DEF TranscriptInv, MeetingInv, NotTheirs, TypeOK, Meeting
<1>19. TypeOK'
  <2>1. Len(posted') <= MaxPosted
    BY <1>2, <1>11, BoundsAssumption
  <2> QED
    BY <1>1, <1>5, <1>9, <2>1 DEF TypeOK, TranscriptInv, NotTheirs
<1> QED
  BY <1>10, <1>12, <1>13, <1>14, <1>15, <1>16, <1>17, <1>18, <1>19
     DEF TranscriptInv

(* The final of the sentence is never sent. *)
LEMMA FinalMissed ==
  ASSUME TranscriptInv, thread = "listening", numbered < MaxSentences,
         conn' = conn, numbered' = numbered + 1, answered' = answered,
         revised' = revised, thread' = thread, NotTheirs,
         posted' = posted, received' = received,
         missing' = missing \cup {Here(numbered + 1)}
  PROVE  TranscriptInv'
<1> DEFINE s == Here(numbered + 1)
<1>1. /\ s \in Sentence /\ numbered + 1 \in 0 .. MaxSentences
      /\ \A t \in Received \cup missing : Lt(t, s)
      /\ missing' = missing \cup {s}
  BY NextSentence
<1> HIDE DEF s
<1>2. /\ Received \in SUBSET Sentence /\ missing \in SUBSET Sentence
  BY SetsTyped
<1>3. Received' = Received /\ Pending' = Pending /\ Handled' = Handled
  BY DEF Received, Pending, Handled
<1>4. SignalInv'
  <2>1. FromServer(posted, Received, missing')
    BY <1>1 DEF TranscriptInv, SignalInv, SignalsOK, FromServer
  <2>2. SignalsOK(posted, Received, missing')
    BY <2>1 DEF TranscriptInv, SignalInv, SignalsOK
  <2> QED
    BY <1>3, <2>2 DEF SignalInv
<1>5. SentInv'
  <2>1. s \notin Received
    BY <1>1, <1>2, LtIsOrder
  <2>2. (Received \cup missing)' = Received \cup missing \cup {s}
    BY <1>1, <1>3
  <2>3. /\ \A t \in (Received \cup missing)' : Known(t)'
        /\ \A k \in 1 .. numbered' : Here(k)' \in (Received \cup missing)'
    BY <2>2, SentInvNext DEF s
  <2>4. (Received \cap missing)' = {}
    BY <1>1, <1>3, <2>1 DEF TranscriptInv, SentInv
  <2>5. \A h \in Handled', t \in Pending' : Lt(h, t)
    BY <1>3 DEF TranscriptInv, SentInv
  <2> QED
    BY <2>3, <2>4, <2>5 DEF SentInv
<1>6. ScreenInv'
  <2>1. RowsOK(rows, index, Handled, Received, missing')
    BY <1>1, RowsStay DEF TranscriptInv, ScreenInv
  <2> QED
    BY <1>3, <2>1 DEF ScreenInv, NotTheirs
<1>7. MinutesInv'
  <2>1. ASSUME NEW m \in Meeting  PROVE AllOwn(minutes[m], missing')
    <3>1. AllOwn(minutes[m], missing)
      BY DEF TranscriptInv, MinutesInv
    <3> QED
      BY <1>1, <3>1 DEF AllOwn, Own
  <2> QED
    BY <1>3, <2>1 DEF TranscriptInv, MinutesInv, NotTheirs
<1>8. ReceivedInv'
  BY DEF TranscriptInv, ReceivedInv
<1>9. CloseInv'
  BY <1>3 DEF TranscriptInv, CloseInv, NotTheirs, Over
<1>10. MinutesComplete'
  BY <1>3, MinutesStay DEF NotTheirs
<1>11. MeetingInv'
  BY DEF TranscriptInv, MeetingInv, NotTheirs
<1>12. TypeOK'
  BY <1>1 DEF TypeOK, TranscriptInv, NotTheirs
<1> QED
  BY <1>4, <1>5, <1>6, <1>7, <1>8, <1>9, <1>10, <1>11, <1>12
     DEF TranscriptInv

(* Sent or not, the sentence is numbered. *)
LEMMA FinalKeeps ==
  ASSUME TranscriptInv, Final  PROVE TranscriptInv'
<1>1. /\ thread = "listening" /\ numbered < MaxSentences
      /\ thread' = thread /\ numbered' = numbered + 1 /\ conn' = conn
      /\ answered' = answered /\ revised' = revised /\ NotTheirs
  BY DEF Final, NotTheirs, screen
<1>2. \/ /\ Post("final", {Here(numbered + 1)}) /\ missing' = missing
         /\ received' = [received EXCEPT ![meetings] =
                           Append(@, Here(numbered + 1))]
      \/ /\ missing' = missing \cup {Here(numbered + 1)}
         /\ posted' = posted /\ received' = received
  BY DEF Final
<1> QED
  BY <1>1, <1>2, FinalSent, FinalMissed

-----------------------------------------------------------------------------
(* The steps of the Qt thread.                                             *)

(* What it leaves to the meeting's thread. *)
NotOurs ==
  /\ thread' = thread /\ requested' = requested /\ conn' = conn
  /\ numbered' = numbered /\ answered' = answered /\ revised' = revised
  /\ missing' = missing /\ window' = window /\ window = "open"
  /\ meetings' = meetings /\ received' = received /\ hasty' = hasty

(* A signal is taken. *)
LEMMA HandlesIs ==
  ASSUME TranscriptInv, NEW kind, Handles(kind)
  PROVE  /\ NotOurs /\ posted \in Seq(SignalType) /\ posted # <<>>
         /\ Head(posted).kind = kind
         /\ posted' = Tail(posted) /\ posted' \in Seq(SignalType)
         /\ Len(posted') <= MaxPosted
         /\ Received' = Received /\ SignalInv'
<1>1. /\ NotOurs /\ posted # <<>> /\ Head(posted).kind = kind
      /\ posted' = Tail(posted)
  BY DEF Handles, NotOurs, server, ghosts
<1>2. posted \in Seq(SignalType) /\ Len(posted) <= MaxPosted
  BY DEF TranscriptInv, TypeOK
<1>3. posted' \in Seq(SignalType) /\ Len(posted') <= MaxPosted
  BY <1>1, <1>2, TailIs, BoundsAssumption
<1>4. Received' = Received
  BY <1>1 DEF Received, NotOurs
<1>5. SignalsOK(posted', Received, missing)
  BY <1>1, <1>2, SetsTyped, SignalHandled DEF TranscriptInv, SignalInv
<1>6. SignalInv'
  BY <1>1, <1>4, <1>5 DEF SignalInv, NotOurs
<1> QED
  BY <1>1, <1>2, <1>3, <1>4, <1>6

(* What every signal leaves as it was. *)
LEMMA HandledKeeps ==
  ASSUME TranscriptInv, NEW kind, Handles(kind), kind # "stopped",
         Pending' \subseteq Pending, recorder' = recorder
  PROVE  ReceivedInv' /\ CloseInv'
<1>1. /\ NotOurs /\ posted \in Seq(SignalType) /\ posted # <<>>
      /\ posted' = Tail(posted)
  BY HandlesIs
<1>2. /\ Len(posted) \in Nat /\ Len(posted') = Len(posted) - 1
      /\ \A i \in 1 .. Len(posted) - 1 : posted'[i] = posted[i + 1]
  BY <1>1, TailIs
<1>3. ReceivedInv'
  BY <1>1 DEF TranscriptInv, ReceivedInv, NotOurs
<1>4. CloseInv'
  <2> SUFFICES ASSUME window = "open", meetings > 0, meetings \notin hasty
      PROVE  /\ recorder = 0 => Pending' = {} /\ Over
             /\ \A i \in 1 .. Len(posted') : posted'[i].kind = "stopped" =>
                  i = Len(posted') /\ Over
    BY <1>1 DEF CloseInv, NotOurs, Over
  <2>1. /\ recorder = 0 => Pending = {} /\ Over
        /\ \A i \in 1 .. Len(posted) :
             posted[i].kind = "stopped" => i = Len(posted) /\ Over
    BY DEF TranscriptInv, CloseInv
  <2>2. ASSUME NEW i \in 1 .. Len(posted'), posted'[i].kind = "stopped"
        PROVE  i = Len(posted') /\ Over
    <3>1. i + 1 \in 1 .. Len(posted) /\ posted'[i] = posted[i + 1]
      BY <1>2
    <3> QED
      BY <1>2, <2>1, <2>2, <3>1
  <2> QED
    BY <2>1, <2>2
<1> QED
  BY <1>3, <1>4

(* The lines the recorder writes. *)
LEMMA WritesIs ==
  ASSUME TranscriptInv, NEW lines, Writes(lines)
  PROVE  /\ Written \in Seq(LineType)
         /\ recorder = 0 => minutes' = minutes
         /\ recorder # 0 =>
              /\ recorder \in Meeting /\ Written = minutes[recorder]
              /\ minutes'[recorder] = lines
              /\ \A m \in Meeting : m # recorder => minutes'[m] = minutes[m]
              /\ lines \in Seq(LineType) =>
                   minutes' \in [Meeting -> Seq(LineType)]
<1>1. recorder \in 0 .. MaxMeetings
      /\ minutes \in [Meeting -> Seq(LineType)]
  BY DEF TranscriptInv, TypeOK
<1>2. CASE recorder = 0
  BY <1>2 DEF Written, Writes
<1>3. CASE recorder # 0
  <2>1. recorder \in Meeting
    BY <1>1, <1>3, BoundsAssumption DEF Meeting
  <2>2. Written = minutes[recorder] /\ minutes[recorder] \in Seq(LineType)
    BY <1>1, <1>3, <2>1 DEF Written
  <2>3. minutes' = [minutes EXCEPT ![recorder] = lines]
    BY <1>3 DEF Writes
  <2> QED
    BY <1>1, <1>3, <2>1, <2>2, <2>3
<1> QED
  BY <1>2, <1>3

(* The two signals that change lines that are there. *)
LEMMA TouchesKeeps ==
  ASSUME TranscriptInv, NEW kind \in {"translation", "speakers"},
         Handles(kind), NEW lines,
         Touched(rows, rows', index, Head(posted).about),
         Touched(Written, lines, LastOf(Written), Head(posted).about),
         Writes(lines), index' = index, recorder' = recorder,
         button' = button
  PROVE  TranscriptInv'
<1> DEFINE S == Head(posted).about
<1>1. /\ NotOurs /\ posted \in Seq(SignalType) /\ posted # <<>>
      /\ Head(posted).kind # "final" /\ kind # "stopped"
      /\ posted' = Tail(posted) /\ posted' \in Seq(SignalType)
      /\ Len(posted') <= MaxPosted
      /\ Received' = Received /\ SignalInv'
  BY HandlesIs
<1>2. /\ Received \in SUBSET Sentence /\ missing \in SUBSET Sentence
      /\ Handled \in SUBSET Sentence
  BY SetsTyped
<1>3. /\ S \subseteq Received \cup missing /\ S \cap Pending = {}
      /\ \A s \in S, h \in Handled : h.conn <= s.conn
      /\ Pending' = Pending
  BY <1>1, <1>2, SignalHandled
     DEF TranscriptInv, SignalInv, Pending, Handled
<1> HIDE DEF S
<1>4. /\ Touched(rows, rows', index, S)
      /\ Touched(Written, lines, LastOf(Written), S)
  BY DEF S
<1>5. Handled' = Handled /\ missing' = missing
  BY <1>1, <1>3 DEF Handled, NotOurs
<1>6. S \subseteq Handled \cup missing /\ Handled \cap missing = {}
  BY <1>3 DEF Handled, TranscriptInv, SentInv
<1>7. /\ rows \in Seq(LineType) /\ Len(rows) <= MaxRows /\ index \in Index
  BY DEF TranscriptInv, TypeOK, Index
<1>8. ScreenInv'
  <2>1. RowsOK(rows', index, Handled, Received, missing)
    BY <1>2, <1>3, <1>4, <1>6, <1>7, RowTouched DEF TranscriptInv, ScreenInv
  <2> QED
    BY <1>1, <1>5, <2>1 DEF ScreenInv
<1>9. /\ Written \in Seq(LineType) /\ lines \in Seq(LineType)
      /\ Len(lines) = Len(Written)
      /\ \A i \in 1 .. Len(Written) : lines[i].of = Written[i].of
  BY <1>4, WritesIs DEF Touched
<1>10. ASSUME recorder = 0
       PROVE  /\ MinutesInv' /\ MinutesComplete'
              /\ minutes' \in [Meeting -> Seq(LineType)]
              /\ \A m \in Meeting : minutes[m] = <<>> => minutes'[m] = <<>>
  <2>1. minutes' = minutes
    BY <1>10, WritesIs
  <2>2. MinutesInv'
    BY <1>5, <1>10, <2>1 DEF TranscriptInv, MinutesInv
  <2>3. MinutesComplete'
    BY <1>1, <1>3, <2>1, MinutesStay DEF NotOurs
  <2>4. minutes' \in [Meeting -> Seq(LineType)]
    BY <2>1 DEF TranscriptInv, TypeOK
  <2>5. \A m \in Meeting : minutes[m] = <<>> => minutes'[m] = <<>>
    BY <2>1
  <2> QED
    BY <2>2, <2>3, <2>4, <2>5
<1>11. ASSUME recorder # 0
       PROVE  /\ MinutesInv' /\ MinutesComplete'
              /\ minutes' \in [Meeting -> Seq(LineType)]
              /\ \A m \in Meeting : minutes[m] = <<>> => minutes'[m] = <<>>
  <2>1. /\ recorder \in Meeting /\ Written = minutes[recorder]
        /\ minutes'[recorder] = lines
        /\ \A m \in Meeting : m # recorder => minutes'[m] = minutes[m]
        /\ minutes' \in [Meeting -> Seq(LineType)]
    BY <1>9, <1>11, WritesIs
  <2>2. /\ InLine(Written, Handled) /\ AllOwn(Written, missing)
        /\ Full(Written, Handled)
    BY <1>11, <2>1 DEF TranscriptInv, MinutesInv
  <2>3. Newest(LastOf(Written), Handled)
    BY <1>2, <1>9, <2>2, LastIsNewest
  <2>4. FindsOwn(Written, LastOf(Written), S, missing)
    BY <1>2, <1>3, <1>6, <1>9, <2>3, FindsItsOwn
  <2>5. InLine(lines, Handled) /\ AllOwn(lines, missing)
    BY <1>4, <1>9, <2>2, <2>4, TouchedLines
  <2>6. Full(lines, Handled)
    BY <1>4, <2>2, TouchedFull
  <2>7. MinutesInv'
    BY <1>5, <2>1, <2>5, <2>6 DEF TranscriptInv, MinutesInv
  <2>8. \A m \in Meeting :
          /\ Len(minutes'[m]) = Len(minutes[m])
          /\ \A i \in 1 .. Len(minutes[m]) :
               minutes'[m][i].of = minutes[m][i].of
    BY <1>9, <2>1
  <2>9. MinutesComplete'
    <3> SUFFICES ASSUME NEW m \in 1 .. meetings, window = "open",
                        {m, m + 1} \cap hasty = {}
        PROVE  HoldAllBut(m, IF m = recorder THEN Awaited ELSE {})'
      BY <1>1 DEF MinutesComplete, NotOurs
    <3>1. m \in Meeting
      BY BoundsAssumption DEF TranscriptInv, TypeOK, Meeting
    <3>2. HoldAllBut(m, IF m = recorder THEN Awaited ELSE {})
      BY DEF TranscriptInv, MinutesComplete
    <3>3. Awaited' = Awaited /\ received' = received
      BY <1>1, <1>3, AwaitedIs DEF NotOurs
    <3> DEFINE X == IF m = recorder THEN Awaited ELSE {}
    <3>4. X' = X
      BY <3>3
    <3> HIDE DEF X
    <3>5. HoldAllBut(m, X)
      BY <3>2 DEF X
    <3>6. /\ Len(minutes'[m]) = Len(minutes[m])
          /\ received'[m] = received[m]
          /\ \A i \in 1 .. Len(minutes[m]) :
               minutes'[m][i].of = minutes[m][i].of
      BY <2>8, <3>1, <3>3
    <3>7. HoldAllBut(m, X)'
      BY <3>4, <3>5, <3>6 DEF HoldAllBut
    <3> QED
      BY <3>7 DEF X
  <2>10. \A m \in Meeting : minutes[m] = <<>> => minutes'[m] = <<>>
    <3> SUFFICES ASSUME NEW m \in Meeting, minutes[m] = <<>>
        PROVE  minutes'[m] = <<>>
      OBVIOUS
    <3>1. minutes'[m] \in Seq(LineType) /\ Len(minutes'[m]) = 0
      BY <2>1, <2>8
    <3> QED
      BY <3>1
  <2> QED
    BY <2>1, <2>7, <2>9, <2>10
<1>12. /\ MinutesInv' /\ MinutesComplete'
       /\ minutes' \in [Meeting -> Seq(LineType)]
       /\ \A m \in Meeting : minutes[m] = <<>> => minutes'[m] = <<>>
  BY <1>10, <1>11
<1>13. ReceivedInv' /\ CloseInv'
  BY <1>1, <1>3, HandledKeeps
<1>14. SentInv'
  BY <1>1, <1>3, <1>5, SentStays DEF NotOurs
<1>15. MeetingInv'
  BY <1>1, <1>12 DEF TranscriptInv, MeetingInv, NotOurs
<1>16. rows' \in Seq(LineType) /\ Len(rows') <= MaxRows
  BY <1>4, <1>7 DEF Touched
<1>17. TypeOK'
  BY <1>1, <1>12, <1>16 DEF TypeOK, TranscriptInv, NotOurs
<1> QED
  BY <1>1, <1>8, <1>12, <1>13, <1>14, <1>15, <1>17 DEF TranscriptInv

(* A translation is attached, ... *)
LEMMA OnTranslationKeeps ==
  ASSUME TranscriptInv, OnTranslation  PROVE TranscriptInv'
<1> DEFINE S == Head(posted).about
           lines == Attached(Written, LastOf(Written), S)
<1>1. /\ Handles("translation") /\ rows' = Attached(rows, index, S)
      /\ Writes(lines) /\ index' = index
      /\ recorder' = recorder /\ button' = button
  BY DEF OnTranslation
<1>2. /\ rows \in Seq(LineType) /\ Written \in Seq(LineType)
  BY <1>1, WritesIs DEF TranscriptInv, TypeOK
<1>3. S \in SUBSET Sentence
  <2>1. Head(posted) \in SignalType
    BY <1>1, HandlesIs, TailIs
  <2> QED
    BY <2>1 DEF SignalType
<1> HIDE DEF S
<1>4. /\ Touched(rows, rows', index, S)
      /\ Touched(Written, lines, LastOf(Written), S)
  BY <1>1, <1>2, <1>3, AttachedIs
<1> HIDE DEF lines
<1> QED
  BY <1>1, <1>4, TouchesKeeps DEF S

(* ... and speakers are corrected. *)
LEMMA OnSpeakersKeeps ==
  ASSUME TranscriptInv, OnSpeakers  PROVE TranscriptInv'
<1> DEFINE S == Head(posted).about
           lines == Relabelled(Written, LastOf(Written), S)
<1>1. /\ Handles("speakers") /\ rows' = Relabelled(rows, index, S)
      /\ Writes(lines) /\ index' = index
      /\ recorder' = recorder /\ button' = button
  BY DEF OnSpeakers
<1>2. /\ rows \in Seq(LineType) /\ Written \in Seq(LineType)
  BY <1>1, WritesIs DEF TranscriptInv, TypeOK
<1>3. S \in SUBSET Sentence
  <2>1. Head(posted) \in SignalType
    BY <1>1, HandlesIs, TailIs
  <2> QED
    BY <2>1 DEF SignalType
<1> HIDE DEF S
<1>4. /\ Touched(rows, rows', index, S)
      /\ Touched(Written, lines, LastOf(Written), S)
  BY <1>1, <1>2, <1>3, RelabelledIs
<1> HIDE DEF lines
<1> QED
  BY <1>1, <1>4, TouchesKeeps DEF S

(* The final that is handled is the next the minutes wait for. *)
LEMMA NextLine ==
  ASSUME TranscriptInv, NEW s \in Received, NEW T \in SUBSET Sentence,
         Pending = T \cup {s}, \A t \in T : Lt(s, t), NEW m \in Meeting,
         HoldAllBut(m, Pending)
  PROVE  LET n == Len(minutes[m]) IN
           /\ n + 1 <= Len(received[m]) /\ received[m][n + 1] = s
           /\ T = {received[m][i] : i \in n + 2 .. Len(received[m])}
<1> DEFINE n == Len(minutes[m])
           l == Len(received[m])
           at(i) == received[m][i]
<1>1. n \in Nat /\ l \in Nat
  <2>1. minutes[m] \in Seq(LineType) /\ received[m] \in Seq(Sentence)
    BY DEF TranscriptInv, TypeOK
  <2> QED
    BY <2>1
<1>2. /\ n <= l /\ Pending = {at(i) : i \in n + 1 .. l}
  BY DEF HoldAllBut
<1>3. \A i \in 1 .. l : at(i) \in Sentence
  <2>1. received[m] \in Seq(Sentence)
    BY DEF TranscriptInv, TypeOK
  <2> QED
    BY <2>1
<1>4. \A i, j \in 1 .. l : i < j => Lt(at(i), at(j))
  BY DEF TranscriptInv, ReceivedInv
<1> HIDE DEF n, l, at
<1>5. \A i \in n + 1 .. l : i \in 1 .. l /\ i \in Nat
  BY <1>1
<1>6. s \in Sentence /\ s \notin T
  BY SetsTyped, LtIsOrder
<1>7. PICK k \in n + 1 .. l : at(k) = s
  BY <1>2
<1>8. k = n + 1
  <2> SUFFICES ASSUME k # n + 1  PROVE FALSE
    OBVIOUS
  <2>1. n + 1 \in n + 1 .. l /\ n + 1 < k
    BY <1>1, <1>7
  <2>2. Lt(at(n + 1), s) /\ at(n + 1) \in Pending /\ at(n + 1) \in Sentence
    BY <1>2, <1>3, <1>4, <1>5, <1>7, <2>1
  <2> QED
    BY <1>6, <2>2, LtIsOrder
<1>9. \A i : i \in n + 1 .. l <=> i = n + 1 \/ i \in n + 2 .. l
  BY <1>1, <1>7, <1>8
<1>10. \A i \in n + 2 .. l : at(i) # s
  <2> SUFFICES ASSUME NEW i \in n + 2 .. l, at(i) = s  PROVE FALSE
    OBVIOUS
  <2>1. n + 1 \in 1 .. l /\ i \in 1 .. l /\ n + 1 < i
    BY <1>1
  <2> QED
    BY <1>4, <1>6, <1>7, <1>8, <2>1, LtIsOrder
<1>11. T = {at(i) : i \in n + 2 .. l}
  BY <1>2, <1>6, <1>7, <1>8, <1>9, <1>10
<1> QED
  BY <1>1, <1>7, <1>8, <1>11 DEF n, l, at

(* A final becomes a row and a line of the minutes. *)
LEMMA OnFinalKeeps ==
  ASSUME TranscriptInv, OnFinal  PROVE TranscriptInv'
<1>1. Handles("final") /\ recorder' = recorder /\ button' = button
  BY DEF OnFinal
<1>2. /\ NotOurs /\ posted \in Seq(SignalType) /\ posted # <<>>
      /\ Head(posted).kind = "final"
      /\ posted' = Tail(posted) /\ posted' \in Seq(SignalType)
      /\ Len(posted') <= MaxPosted
      /\ Received' = Received /\ SignalInv'
  BY <1>1, HandlesIs
<1>3. /\ Received \in SUBSET Sentence /\ missing \in SUBSET Sentence
      /\ Handled \in SUBSET Sentence /\ Handled \subseteq Received
      /\ Pending \in SUBSET Received
  BY SetsTyped
<1>4. PICK s \in Received : /\ Head(posted).about = {s}
                            /\ FinalsIn(posted) =
                                 FinalsIn(Tail(posted)) \cup {s}
                            /\ \A t \in FinalsIn(Tail(posted)) : Lt(s, t)
  BY <1>2, <1>3, SignalHandled DEF TranscriptInv, SignalInv
<1>5. s \in Sentence /\ s \in Pending /\ Pending = Pending' \cup {s}
      /\ \A t \in Pending' : Lt(s, t)
  BY <1>2, <1>3, <1>4 DEF Pending
<1>6. s \notin Pending' /\ Handled' = Handled \cup {s}
      /\ missing' = missing
  <2>1. s \notin Pending'
    BY <1>5, LtIsOrder
  <2>2. Handled' = Handled \cup {s}
    BY <1>2, <1>5, <2>1 DEF Handled
  <2> QED
    BY <1>2, <2>1, <2>2 DEF NotOurs
<1>7. \A h \in Handled : Lt(h, s)
  BY <1>5 DEF TranscriptInv, SentInv
<1>8. Shows(s) /\ Writes(Append(Written, Line(s)))
  BY <1>4 DEF OnFinal
<1>9. /\ rows' \in Seq(LineType) /\ Len(rows') <= MaxRows
      /\ index' \in Index
      /\ RowsOK(rows', index', Handled \cup {s}, Received, missing)
  <2>1. /\ rows \in Seq(LineType) /\ Len(rows) <= MaxRows /\ index \in Index
    BY DEF TranscriptInv, TypeOK, Index
  <2> DEFINE q2 == Append(rows, Line(s))
             x2 == [index EXCEPT ![s.id] = s]
  <2>2. /\ TooMany(q2) =>
             rows' = Tail(q2) /\ index' = Forget(x2, Head(q2))
        /\ ~TooMany(q2) => rows' = q2 /\ index' = x2
    BY <1>8 DEF Shows
  <2>3. RowsOK(rows, index, Handled, Received, missing)
    BY DEF TranscriptInv, ScreenInv
  <2>4. q2 = Append(rows, Line(s)) /\ x2 = [index EXCEPT ![s.id] = s]
    OBVIOUS
  <2> HIDE DEF q2, x2
  <2> QED
    BY <1>3, <1>5, <1>7, <2>1, <2>2, <2>3, <2>4, RowShown
<1>10. ScreenInv'
  BY <1>2, <1>6, <1>9 DEF ScreenInv
<1> DEFINE lines == Append(Written, Line(s))
<1>11. Written \in Seq(LineType) /\ Line(s) \in LineType /\ Line(s).of = s
  BY <1>5, <1>8, LineIs, WritesIs
<1>12. /\ lines \in Seq(LineType) /\ Len(lines) = Len(Written) + 1
       /\ Len(Written) \in Nat
       /\ \A i \in 1 .. Len(Written) : lines[i] = Written[i]
       /\ lines[Len(Written) + 1] = Line(s)
  BY <1>11, AppendIs
<1>13. ASSUME NEW m \in Meeting
       PROVE  InLine(minutes[m], Handled') /\ AllOwn(minutes[m], missing')
  BY <1>6 DEF TranscriptInv, MinutesInv, InLine
<1>14. MinutesInv' /\ minutes' \in [Meeting -> Seq(LineType)]
  <2>1. ASSUME recorder = 0
        PROVE  MinutesInv' /\ minutes' \in [Meeting -> Seq(LineType)]
    <3>1. minutes' = minutes
      BY <1>8, <2>1, WritesIs
    <3> QED
      BY <1>1, <1>13, <2>1, <3>1 DEF MinutesInv, TranscriptInv, TypeOK
  <2>2. ASSUME recorder # 0
        PROVE  MinutesInv' /\ minutes' \in [Meeting -> Seq(LineType)]
    <3>1. /\ recorder \in Meeting /\ Written = minutes[recorder]
          /\ minutes'[recorder] = lines
          /\ \A m \in Meeting : m # recorder => minutes'[m] = minutes[m]
          /\ minutes' \in [Meeting -> Seq(LineType)]
      BY <1>8, <1>12, <2>2, WritesIs
    <3>2. /\ InLine(Written, Handled) /\ AllOwn(Written, missing)
          /\ Full(Written, Handled)
      BY <2>2, <3>1 DEF TranscriptInv, MinutesInv
    <3>3. /\ InLine(lines, Handled \cup {s}) /\ AllOwn(lines, missing)
          /\ Full(lines, Handled \cup {s})
      BY <1>3, <1>5, <1>7, <1>11, <3>2, LineAdded, StillFull
    <3> HIDE DEF lines
    <3> QED
      BY <1>1, <1>6, <1>13, <3>1, <3>3 DEF MinutesInv
  <2> QED
    BY <2>1, <2>2
<1>15. SentInv'
  <2>1. \A h \in Handled', t \in Pending' : Lt(h, t)
    BY <1>5, <1>6, <1>7 DEF TranscriptInv, SentInv
  <2>2. /\ (Received \cap missing)' = {}
        /\ \A r \in (Received \cup missing)' : Known(r)'
        /\ \A k \in 1 .. numbered' : Here(k)' \in (Received \cup missing)'
    BY <1>2, <1>6 DEF TranscriptInv, SentInv, NotOurs, Known, Here
  <2> QED
    BY <2>1, <2>2 DEF SentInv
<1>16. ReceivedInv' /\ CloseInv'
  BY <1>1, <1>5, HandledKeeps
<1>17. MinutesComplete'
  <2> SUFFICES ASSUME NEW m \in 1 .. meetings, window = "open",
                      {m, m + 1} \cap hasty = {}
      PROVE  HoldAllBut(m, IF m = recorder THEN Awaited ELSE {})'
    BY <1>2 DEF MinutesComplete, NotOurs
  <2>1. m \in Meeting /\ m # 0
    BY BoundsAssumption DEF TranscriptInv, TypeOK, Meeting
  <2>2. HoldAllBut(m, IF m = recorder THEN Pending ELSE {})
    BY AwaitedIs DEF TranscriptInv, MinutesComplete
  <2>3. received' = received
    BY <1>2 DEF NotOurs
  <2>4. CASE m # recorder
    <3>1. minutes'[m] = minutes[m]
      BY <1>8, <2>1, <2>4, WritesIs
    <3>2. HoldAllBut(m, {})
      BY <2>2, <2>4
    <3>3. HoldAllBut(m, {})'
      BY <2>3, <3>1, <3>2 DEF HoldAllBut
    <3> QED
      BY <1>1, <2>4, <3>3 DEF HoldAllBut
  <2>5. CASE m = recorder
    <3>1. HoldAllBut(m, Pending)
      BY <2>2, <2>5
    <3>2. Written = minutes[m] /\ minutes'[m] = lines
      BY <1>8, <2>1, <2>5, WritesIs
    <3> DEFINE n == Len(minutes[m])
    <3>3. /\ n + 1 <= Len(received[m]) /\ received[m][n + 1] = s
          /\ Pending' = {received[m][i] : i \in n + 2 .. Len(received[m])}
      <4>1. Pending' \in SUBSET Sentence
        BY <1>3, <1>5
      <4> QED
        BY <1>5, <2>1, <3>1, <4>1, NextLine
    <3>4. /\ \A i \in 1 .. n : minutes[m][i].of = received[m][i]
      BY <3>1 DEF HoldAllBut
    <3>5. /\ Len(minutes'[m]) = n + 1 /\ n \in Nat
          /\ \A i \in 1 .. n : minutes'[m][i] = minutes[m][i]
          /\ minutes'[m][n + 1].of = s
      BY <1>11, <1>12, <3>2
    <3> HIDE DEF n
    <3>6. \A i \in 1 .. n + 1 : minutes'[m][i].of = received'[m][i]
      BY <2>3, <3>3, <3>4, <3>5
    <3>7. (n + 1) + 1 = n + 2
      BY <3>5
    <3>8. HoldAllBut(m, Pending)'
      BY <2>3, <3>3, <3>5, <3>6, <3>7 DEF HoldAllBut
    <3>9. m = recorder' /\ Awaited' = Pending'
      BY <1>1, <2>5, AwaitedIs
    <3> QED
      BY <3>8, <3>9 DEF HoldAllBut
  <2> QED
    BY <2>4, <2>5
<1>18. MeetingInv'
  <2>1. ASSUME NEW m \in Meeting, m > meetings
        PROVE  received'[m] = <<>> /\ minutes'[m] = <<>>
    <3>1. /\ received[m] = <<>> /\ minutes[m] = <<>>
          /\ recorder \in {0, meetings}
      BY <2>1 DEF TranscriptInv, MeetingInv
    <3>2. m # recorder
      BY <2>1, <3>1, BoundsAssumption DEF TranscriptInv, TypeOK, Meeting
    <3>3. minutes'[m] = minutes[m]
      BY <1>8, <3>2, WritesIs
    <3> QED
      BY <1>2, <3>1, <3>3 DEF NotOurs
  <2> QED
    BY <1>1, <1>2, <2>1 DEF TranscriptInv, MeetingInv, NotOurs
<1>19. TypeOK'
  BY <1>1, <1>2, <1>9, <1>14 DEF TypeOK, TranscriptInv, NotOurs, Index
<1> QED
  BY <1>2, <1>10, <1>14, <1>15, <1>16, <1>17, <1>18, <1>19
     DEF TranscriptInv

(* A signal that is about no sentence. *)
LEMMA OnStatusKeeps ==
  ASSUME TranscriptInv, OnStatus  PROVE TranscriptInv'
<1>1. PICK kind \in {"status", "failed"} : Handles(kind)
  BY DEF OnStatus
<1>2. /\ rows' = rows /\ index' = index /\ recorder' = recorder
      /\ minutes' = minutes /\ button' = TRUE
  BY DEF OnStatus, screen
<1>3. /\ NotOurs /\ posted \in Seq(SignalType) /\ posted # <<>>
      /\ Head(posted).kind # "final"
      /\ posted' = Tail(posted) /\ posted' \in Seq(SignalType)
      /\ Len(posted') <= MaxPosted /\ SignalInv'
  BY <1>1, HandlesIs
<1>4. Pending' = Pending
  BY <1>3, SetsTyped, SignalHandled DEF TranscriptInv, SignalInv, Pending
<1>5. /\ Received' = Received /\ Handled' = Handled
      /\ ScreenInv' /\ MinutesInv' /\ ReceivedInv'
  BY <1>2, <1>3, <1>4, LinesStay DEF NotOurs
<1>6. MinutesComplete'
  BY <1>2, <1>3, <1>4, MinutesStay DEF NotOurs
<1>7. CloseInv'
  BY <1>1, <1>2, <1>4, HandledKeeps
<1>8. SentInv'
  BY <1>3, <1>4, <1>5, SentStays DEF NotOurs
<1>9. MeetingInv'
  BY <1>2, <1>3 DEF TranscriptInv, MeetingInv, NotOurs
<1>10. TypeOK'
  BY <1>2, <1>3 DEF TypeOK, TranscriptInv, NotOurs
<1> QED
  BY <1>3, <1>5, <1>6, <1>7, <1>8, <1>9, <1>10 DEF TranscriptInv

(* stopped closes the minutes: those of its own meeting, unless the next   *)
(* was started too soon.                                                   *)
LEMMA OnStoppedKeeps ==
  ASSUME TranscriptInv, OnStopped  PROVE TranscriptInv'
<1>1. /\ Handles("stopped") /\ rows' = rows /\ index' = index
      /\ recorder' = 0 /\ minutes' = minutes /\ button' = TRUE
  BY DEF OnStopped
<1>2. /\ NotOurs /\ posted \in Seq(SignalType) /\ posted # <<>>
      /\ Head(posted).kind = "stopped"
      /\ posted' = Tail(posted) /\ posted' \in Seq(SignalType)
      /\ Len(posted') <= MaxPosted /\ SignalInv'
  BY <1>1, HandlesIs
<1>3. Pending' = Pending
  BY <1>2, SetsTyped, SignalHandled DEF TranscriptInv, SignalInv, Pending
<1>4. Received' = Received /\ Handled' = Handled /\ missing' = missing
  BY <1>2, <1>3 DEF Received, Handled, NotOurs
<1>5. ScreenInv' /\ MinutesInv' /\ ReceivedInv'
  BY <1>1, <1>2, <1>4
     DEF TranscriptInv, ScreenInv, MinutesInv, ReceivedInv, NotOurs
<1>6. /\ Len(posted) \in Nat /\ Len(posted) >= 1
      /\ Head(posted) = posted[1] /\ Len(posted') = Len(posted) - 1
  BY <1>2, TailIs
<1>7. ASSUME meetings > 0, meetings \notin hasty
      PROVE  Len(posted') = 0 /\ 1 .. Len(posted') = {} /\ Over
  <2>1. \A i \in 1 .. Len(posted) :
          posted[i].kind = "stopped" => i = Len(posted) /\ Over
    BY <1>2, <1>7 DEF TranscriptInv, CloseInv, NotOurs
  <2>2. 1 \in 1 .. Len(posted) /\ posted[1].kind = "stopped"
    BY <1>2, <1>6
  <2>3. 1 = Len(posted) /\ Over
    BY <2>1, <2>2
  <2>4. Len(posted') = 0
    <3>1. Len(posted') = Len(posted) - 1 /\ Len(posted) = 1
      BY <1>6, <2>3
    <3> QED
      BY <3>1
  <2> QED
    BY <2>3, <2>4
<1>8. ASSUME meetings > 0, meetings \notin hasty
      PROVE  Pending = {} /\ Over
  <2>1. FinalsIn(posted') = {}
    BY <1>7, <1>8 DEF FinalsIn
  <2> QED
    BY <1>3, <1>7, <1>8, <2>1 DEF Pending
<1>9. CloseInv'
  <2>1. Over' = Over
    BY <1>2 DEF Over, NotOurs
  <2>2. ASSUME meetings > 0, meetings \notin hasty
        PROVE  1 .. Len(posted') = {}
    BY <1>7, <2>2
  <2> QED
    BY <1>2, <1>3, <1>8, <2>1, <2>2 DEF CloseInv, NotOurs
<1>10. MinutesComplete'
  <2> SUFFICES ASSUME NEW m \in 1 .. meetings, window = "open",
                      {m, m + 1} \cap hasty = {}
      PROVE  HoldAllBut(m, IF m = recorder THEN Awaited ELSE {})'
    BY <1>2 DEF MinutesComplete, NotOurs
  <2>1. HoldAllBut(m, IF m = recorder THEN Pending ELSE {})
    BY AwaitedIs DEF TranscriptInv, MinutesComplete
  <2>2. m = recorder => Pending = {}
    BY <1>8 DEF TranscriptInv, MeetingInv
  <2>3. HoldAllBut(m, {})
    BY <2>1, <2>2
  <2>4. HoldAllBut(m, {})'
    BY <1>1, <1>2, <2>3 DEF HoldAllBut, NotOurs
  <2>5. m # recorder'
    BY <1>1
  <2> QED
    BY <2>4, <2>5 DEF HoldAllBut
<1>11. SentInv'
  BY <1>2, <1>3, <1>4, SentStays DEF NotOurs
<1>12. MeetingInv'
  BY <1>1, <1>2 DEF TranscriptInv, MeetingInv, NotOurs
<1>13. TypeOK'
  <2>1. recorder' \in 0 .. MaxMeetings
    BY <1>1, BoundsAssumption
  <2> QED
    BY <1>1, <1>2, <2>1 DEF TypeOK, TranscriptInv, NotOurs
<1> QED
  BY <1>2, <1>5, <1>9, <1>10, <1>11, <1>12, <1>13 DEF TranscriptInv

-----------------------------------------------------------------------------
(* The steps of the user.                                                  *)

(* The user clicks on stop: the minutes stay open. *)
LEMMA StopKeeps ==
  ASSUME TranscriptInv, Toggle, Alive  PROVE TranscriptInv'
<1>1. /\ button' = FALSE /\ requested' = TRUE /\ recorder' = recorder
      /\ thread' = thread /\ rows' = rows /\ index' = index
      /\ meetings' = meetings /\ hasty' = hasty
  BY DEF Toggle, KeepsOpen
<1>2. /\ conn' = conn /\ numbered' = numbered /\ answered' = answered
      /\ revised' = revised /\ missing' = missing /\ posted' = posted
      /\ minutes' = minutes /\ window' = window /\ received' = received
  BY DEF Toggle, server
<1>3. Pending' = Pending /\ Over' = Over
  BY <1>1, <1>2 DEF Pending, Over
<1>4. /\ Received' = Received /\ Handled' = Handled
      /\ ScreenInv' /\ MinutesInv' /\ ReceivedInv'
  BY <1>1, <1>2, <1>3, LinesStay
<1>5. MinutesComplete'
  BY <1>1, <1>2, <1>3, MinutesStay
<1>6. SignalInv' /\ CloseInv'
  BY <1>1, <1>2, <1>3, <1>4 DEF TranscriptInv, SignalInv, CloseInv
<1>7. SentInv'
  BY <1>2, <1>3, <1>4, SentStays
<1>8. MeetingInv'
  BY <1>1, <1>2 DEF TranscriptInv, MeetingInv
<1>9. TypeOK'
  BY <1>1, <1>2 DEF TypeOK, TranscriptInv
<1> QED
  BY <1>4, <1>5, <1>6, <1>7, <1>8, <1>9 DEF TranscriptInv

(* The user clicks on start: rows, index and minutes are new. *)
LEMMA StartKeeps ==
  ASSUME TranscriptInv, Toggle, ~Alive  PROVE TranscriptInv'
<1>1. /\ button' = FALSE /\ requested' = FALSE /\ thread' = "connecting"
      /\ meetings < MaxMeetings /\ meetings' = meetings + 1
      /\ hasty' = IF posted = <<>> THEN hasty ELSE hasty \cup {meetings'}
      /\ rows' = <<>> /\ index' = [k \in Number |-> None]
      /\ recorder' = meetings' /\ window = "open"
  BY DEF Toggle
<1>2. /\ conn' = conn /\ numbered' = numbered /\ answered' = answered
      /\ revised' = revised /\ missing' = missing /\ posted' = posted
      /\ minutes' = minutes /\ window' = window /\ received' = received
  BY DEF Toggle, server
<1>3. /\ meetings \in Nat /\ meetings' \in Meeting /\ meetings' > meetings
      /\ meetings' \in 0 .. MaxMeetings /\ hasty \subseteq 1 .. meetings
  BY <1>1, BoundsAssumption DEF TranscriptInv, TypeOK, Meeting
<1>4. received[meetings'] = <<>> /\ minutes[meetings'] = <<>>
  BY <1>3 DEF TranscriptInv, MeetingInv
<1>5. Received' = Received /\ Pending' = Pending /\ Handled' = Handled
  BY <1>2 DEF Received, Pending, Handled
<1>6. ScreenInv'
  <2>1. /\ InLine(rows', Handled) /\ AllOwn(rows', missing)
    BY <1>1 DEF InLine, AllOwn
  <2>2. /\ Newest(index', Handled) /\ HasRows(rows', index')
        /\ HasEntries(rows', index', Received)
    BY <1>1 DEF Newest, HasRows, HasEntries
  <2> QED
    BY <1>2, <1>5, <2>1, <2>2 DEF ScreenInv, RowsOK
<1>7. MinutesInv'
  <2>1. Full(minutes[meetings'], Handled)
    BY <1>4 DEF Full
  <2> QED
    BY <1>1, <1>2, <1>5, <2>1 DEF TranscriptInv, MinutesInv
<1>8. SignalInv' /\ ReceivedInv'
  BY <1>2, <1>5 DEF TranscriptInv, SignalInv, ReceivedInv
<1>9. SentInv'
  BY <1>2, <1>5, SentStays
<1>10. MeetingInv'
  BY <1>1, <1>2, <1>3 DEF TranscriptInv, MeetingInv, TypeOK, Meeting
<1>11. ASSUME meetings' \notin hasty'
       PROVE  posted = <<>> /\ Pending = {}
  <2>1. posted = <<>>
    BY <1>1, <1>11
  <2>2. FinalsIn(posted) = {}
    BY <2>1 DEF FinalsIn
  <2> QED
    BY <2>1, <2>2 DEF Pending
<1>12. CloseInv'
  <2>1. ASSUME meetings' \notin hasty'  PROVE 1 .. Len(posted') = {}
    BY <1>2, <1>11, <2>1
  <2> QED
    BY <1>1, <1>3, <2>1 DEF CloseInv
<1>13. MinutesComplete'
  <2> SUFFICES ASSUME NEW m \in 1 .. meetings', {m, m + 1} \cap hasty' = {}
      PROVE  HoldAllBut(m, IF m = recorder THEN Awaited ELSE {})'
    BY DEF MinutesComplete
  <2>1. Awaited' = Pending
    BY <1>5, AwaitedIs
  <2>2. CASE m = meetings'
    <3>1. Pending = {}
      BY <1>11, <2>2
    <3>2. Len(received[m]) = 0 /\ Len(minutes[m]) = 0
      BY <1>4, <2>2
    <3>3. HoldAllBut(m, {})'
      BY <1>2, <3>2 DEF HoldAllBut
    <3> QED
      BY <1>1, <2>1, <2>2, <3>1, <3>3 DEF HoldAllBut
  <2>3. CASE m # meetings'
    <3>1. m \in 1 .. meetings /\ {m, m + 1} \cap hasty = {}
      BY <1>1, <1>3, <2>3
    <3>2. HoldAllBut(m, IF m = recorder THEN Pending ELSE {})
      BY <1>1, <3>1, AwaitedIs DEF TranscriptInv, MinutesComplete
    <3>3. m = recorder => Pending = {}
      <4> SUFFICES ASSUME m = recorder  PROVE Pending = {}
        OBVIOUS
      <4>1. m + 1 = meetings'
        BY <1>1, <3>1 DEF TranscriptInv, MeetingInv
      <4> QED
        BY <1>11, <4>1
    <3>4. HoldAllBut(m, {})
      BY <3>2, <3>3
    <3>5. HoldAllBut(m, {})'
      BY <1>2, <3>4 DEF HoldAllBut
    <3>6. m # recorder'
      BY <1>1, <2>3
    <3> QED
      BY <3>5, <3>6 DEF HoldAllBut
  <2> QED
    BY <2>2, <2>3
<1>14. TypeOK'
  <2>1. rows' \in Seq(LineType) /\ Len(rows') <= MaxRows
    BY <1>1, RowsAssumption
  <2>2. index' \in [Number -> Sentence \cup {None}]
    BY <1>1
  <2>3. hasty' \subseteq 1 .. meetings'
    BY <1>1, <1>3
  <2> QED
    BY <1>1, <1>2, <1>3, <2>1, <2>2, <2>3 DEF TypeOK, TranscriptInv
<1> QED
  BY <1>6, <1>7, <1>8, <1>9, <1>10, <1>12, <1>13, <1>14 DEF TranscriptInv

(* The user closes the window. *)
LEMMA CloseKeeps ==
  ASSUME TranscriptInv, CloseBegins \/ CloseEnds  PROVE TranscriptInv'
<1>1. /\ thread' = thread /\ conn' = conn /\ numbered' = numbered
      /\ answered' = answered /\ revised' = revised /\ missing' = missing
      /\ posted' = posted /\ rows' = rows /\ index' = index
      /\ minutes' = minutes /\ button' = button /\ meetings' = meetings
      /\ received' = received /\ hasty' = hasty
      /\ recorder' \in {0, recorder} /\ requested' \in {TRUE, requested}
      /\ window' \in {"closing", "closed"}
  BY DEF CloseBegins, CloseEnds, server, screen, ghosts
<1>2. Received' = Received /\ Pending' = Pending /\ Handled' = Handled
  BY <1>1 DEF Received, Pending, Handled
<1>3. ScreenInv' /\ MinutesInv' /\ ReceivedInv' /\ SignalInv'
  BY <1>1, <1>2
     DEF TranscriptInv, ScreenInv, MinutesInv, ReceivedInv, SignalInv
<1>4. CloseInv' /\ MinutesComplete'
  BY <1>1 DEF CloseInv, MinutesComplete
<1>5. SentInv'
  BY <1>1, <1>2, SentStays
<1>6. MeetingInv'
  BY <1>1 DEF TranscriptInv, MeetingInv
<1>7. TypeOK'
  <2>1. recorder' \in 0 .. MaxMeetings
    BY <1>1, BoundsAssumption DEF TranscriptInv, TypeOK
  <2> QED
    BY <1>1, <2>1 DEF TypeOK, TranscriptInv
<1> QED
  BY <1>3, <1>4, <1>5, <1>6, <1>7 DEF TranscriptInv

-----------------------------------------------------------------------------
(* The theorems.                                                           *)

(* The invariant holds at first, ... *)
LEMMA InitEstablishes == Init => TranscriptInv
<1> SUFFICES ASSUME Init  PROVE TranscriptInv
  OBVIOUS
<1>1. /\ thread = "none" /\ requested = FALSE /\ conn = 0 /\ numbered = 0
      /\ answered = {} /\ revised = FALSE /\ missing = {} /\ posted = <<>>
      /\ rows = <<>> /\ index = [k \in Number |-> None] /\ recorder = 0
      /\ minutes = [m \in Meeting |-> <<>>] /\ button = TRUE
      /\ window = "open" /\ meetings = 0
      /\ received = [m \in Meeting |-> <<>>] /\ hasty = {}
  BY DEF Init
<1>2. Len(posted) = 0 /\ Len(rows) = 0 /\ 1 .. 0 = {}
      /\ \A m \in Meeting : Len(received[m]) = 0 /\ Len(minutes[m]) = 0
  BY <1>1
<1>3. Received = {} /\ Pending = {} /\ Handled = {}
  BY <1>2 DEF Received, Elements, Pending, FinalsIn, Handled
<1>4. TypeOK
  <2>1. posted \in Seq(SignalType) /\ rows \in Seq(LineType)
    BY <1>1
  <2>2. /\ minutes \in [Meeting -> Seq(LineType)]
        /\ received \in [Meeting -> Seq(Sentence)]
        /\ index \in [Number -> Sentence \cup {None}]
    BY <1>1
  <2>3. Len(posted) <= MaxPosted /\ Len(rows) <= MaxRows
    BY <1>2, BoundsAssumption, RowsAssumption
  <2>4. /\ 0 \in 0 .. MaxConnects /\ 0 \in 0 .. MaxSentences
        /\ 0 \in 0 .. MaxMeetings
    BY BoundsAssumption
  <2> QED
    BY <1>1, <2>1, <2>2, <2>3, <2>4 DEF TypeOK
<1>5. SignalInv
  BY <1>2 DEF SignalInv, SignalsOK, FromServer, FinalFirst, InOrder, NotBehind
<1>6. SentInv
  BY <1>1, <1>3 DEF SentInv
<1>7. ScreenInv
  BY <1>1, <1>2
     DEF ScreenInv, RowsOK, InLine, AllOwn, Newest, HasRows, HasEntries
<1>8. MinutesInv
  BY <1>1, <1>2 DEF MinutesInv, InLine, AllOwn
<1>9. MeetingInv
  BY <1>1 DEF MeetingInv
<1>10. ReceivedInv
  BY <1>2 DEF ReceivedInv
<1>11. CloseInv /\ MinutesComplete
  BY <1>1 DEF CloseInv, MinutesComplete
<1> QED
  BY <1>4, <1>5, <1>6, <1>7, <1>8, <1>9, <1>10, <1>11 DEF TranscriptInv

(* ... every step keeps it, ... *)
LEMMA StepKeeps ==
  TranscriptInv /\ [Next]_vars => TranscriptInv'
<1> SUFFICES ASSUME TranscriptInv, [Next]_vars  PROVE TranscriptInv'
  OBVIOUS
<1>1. CASE Connected
  BY <1>1, ConnectedKeeps
<1>2. CASE Reconnected
  BY <1>2, ReconnectedKeeps
<1>3. CASE Listening
  BY <1>3, ListeningKeeps
<1>4. CASE Final
  BY <1>4, FinalKeeps
<1>5. CASE Translation
  BY <1>5, TranslationKeeps
<1>6. CASE Speakers
  BY <1>6, SpeakersKeeps
<1>7. CASE Failed
  BY <1>7, FailedKeeps
<1>8. CASE Ends
  BY <1>8, EndsKeeps
<1>9. CASE Dies
  BY <1>9, DiesKeeps
<1>10. CASE OnFinal
  BY <1>10, OnFinalKeeps
<1>11. CASE OnTranslation
  BY <1>11, OnTranslationKeeps
<1>12. CASE OnSpeakers
  BY <1>12, OnSpeakersKeeps
<1>13. CASE OnStatus
  BY <1>13, OnStatusKeeps
<1>14. CASE OnStopped
  BY <1>14, OnStoppedKeeps
<1>15. CASE Toggle
  BY <1>15, StopKeeps, StartKeeps
<1>16. CASE CloseBegins \/ CloseEnds
  BY <1>16, CloseKeeps
<1>17. CASE UNCHANGED vars
  <2>1. /\ NotTheirs /\ thread' = thread /\ posted' = posted
        /\ conn' = conn /\ numbered' = numbered /\ answered' = answered
        /\ revised' = revised /\ missing' = missing /\ received' = received
    BY <1>17 DEF vars, server, screen, ghosts, NotTheirs
  <2>2. /\ posted' \in Seq(SignalType) /\ Len(posted') <= MaxPosted
        /\ Received' = Received /\ Handled' = Handled /\ Pending' = Pending
        /\ SignalInv' /\ ScreenInv' /\ MinutesInv' /\ ReceivedInv'
        /\ CloseInv' /\ MinutesComplete'
    BY <2>1, ThreadGoesOn DEF Over
  <2>3. SentInv'
    BY <2>1, <2>2, SentStays
  <2>4. TypeOK' /\ MeetingInv'
    BY <2>1, <2>2 DEF TypeOK, TranscriptInv, MeetingInv, NotTheirs
  <2> QED
    BY <2>2, <2>3, <2>4 DEF TranscriptInv
<1> QED
  BY <1>1, <1>2, <1>3, <1>4, <1>5, <1>6, <1>7, <1>8, <1>9, <1>10, <1>11,
     <1>12, <1>13, <1>14, <1>15, <1>16, <1>17 DEF Next

(* ... and so it always holds. *)
LEMMA AlwaysInv == Spec => []TranscriptInv
BY InitEstablishes, StepKeeps, PTL DEF Spec

(* Every variable has its type, and the screen keeps to its rows. *)
THEOREM TypeCorrect == Spec => []TypeOK
<1>1. TranscriptInv => TypeOK
  BY DEF TranscriptInv
<1> QED
  BY <1>1, AlwaysInv, PTL

(* A line never shows another sentence's translation or speaker, but for   *)
(* one with its number whose own line never came, on a later connection;   *)
(* and the index has what is on screen, and only that.                     *)
THEOREM LinesStayRight == Spec => []LinesAreRight
<1>1. TranscriptInv => LinesAreRight
  <2> SUFFICES ASSUME TranscriptInv  PROVE LinesAreRight
    OBVIOUS
  <2>1. \A q : AllOwn(q, missing) =>
               \A i \in 1 .. Len(q) : OwnOrMissing(q[i])
    BY DEF AllOwn, Own, OwnOrMissing
  <2>2. LinesShowTheirOwn
    BY <2>1 DEF LinesShowTheirOwn, TranscriptInv, ScreenInv, RowsOK,
                MinutesInv
  <2>3. ASSUME NEW k \in Number, index[k] # None
        PROVE  /\ index[k].id = k
               /\ \E i \in 1 .. Len(rows) : rows[i].of = index[k]
    BY <2>3 DEF TranscriptInv, ScreenInv, RowsOK, Newest, HasRows
  <2>4. ASSUME NEW i \in 1 .. Len(rows),
               index[rows[i].of.id] # rows[i].of
        PROVE  \E m \in Meeting : \E j \in 1 .. Len(received[m]) :
                 /\ received[m][j].id = rows[i].of.id
                 /\ received[m][j].conn # rows[i].of.conn
    <3>1. PICK t \in Received :
                 t.id = rows[i].of.id /\ t.conn # rows[i].of.conn
      BY <2>4 DEF TranscriptInv, ScreenInv, RowsOK, HasEntries
    <3>2. PICK m \in Meeting : t \in Elements(received[m])
      BY DEF Received
    <3>3. PICK j \in 1 .. Len(received[m]) : t = received[m][j]
      BY <3>2 DEF Elements
    <3> QED
      BY <3>1, <3>2, <3>3
  <2>5. IndexIsOnScreen
    BY <2>3, <2>4 DEF IndexIsOnScreen
  <2> QED
    BY <2>2, <2>5 DEF LinesAreRight
<1> QED
  BY <1>1, AlwaysInv, PTL

(* The minutes hold all that was received, each sentence once and in       *)
(* order, when stopped closes them.                                        *)
THEOREM MinutesHoldAll == Spec => []MinutesComplete
<1>1. TranscriptInv => MinutesComplete
  BY DEF TranscriptInv
<1> QED
  BY <1>1, AlwaysInv, PTL
=============================================================================
