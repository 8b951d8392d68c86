---------------------------- MODULE SpeakersProofs ----------------------------
(* Theorems about Speakers, for any limit of speakers, of voices and of    *)
(* sentences, and for any interval between two clusterings.                *)
EXTENDS Speakers, WellFoundedInduction, FiniteSetTheorems, TLAPS

-----------------------------------------------------------------------------
(* Least and greatest, and functions defined along an order.               *)

(* A set of numbers has a least one. *)
LEMMA LeastExists ==
  ASSUME NEW S \in SUBSET Nat, S # {}
  PROVE  \E i \in S : \A j \in S : i <= j
<1>1. PICK x \in S : \A y \in S : ~(<<y, x>> \in OpToRel(<, Nat))
  BY NatLessThanWellFounded, WFMin
<1>2. ASSUME NEW j \in S, ~(x <= j)  PROVE FALSE
  <2>1. j < x
    BY <1>2
  <2>2. <<j, x>> \in OpToRel(<, Nat)
    BY <2>1 DEF OpToRel
  <2> QED
    BY <1>1, <2>2
<1> QED
  BY <1>2

(* First finds it. *)
LEMMA FirstIs ==
  ASSUME NEW S \in SUBSET Nat, S # {}
  PROVE  First(S) \in S /\ \A j \in S : First(S) <= j
BY LeastExists DEF First

(* Of things that have a number up to n, one has the greatest. *)
LEMMA MostExists ==
  ASSUME NEW n \in Nat, NEW T, T # {}, NEW v \in [T -> 0 .. n]
  PROVE  \E x \in T : \A y \in T : v[y] <= v[x]
<1> DEFINE S == {n - v[x] : x \in T}
<1>1. S \in SUBSET Nat /\ S # {}
  OBVIOUS
<1>2. PICK i \in S : \A j \in S : i <= j
  BY <1>1, LeastExists
<1>3. PICK x \in T : i = n - v[x]
  OBVIOUS
<1>4. ASSUME NEW y \in T  PROVE v[y] <= v[x]
  <2>1. n - v[x] <= n - v[y]
    BY <1>2, <1>3
  <2>2. v[x] \in Nat /\ v[y] \in Nat
    OBVIOUS
  <2> QED
    BY <2>1, <2>2
<1> QED
  BY <1>4

(* The value at f follows, by F, from the set of the values at the ones    *)
(* before f, and "before" leads down a bounded rank.                       *)
Leads(D, V, before, F, rank, top) ==
  /\ top \in Nat
  /\ \A f \in D : before[f] \in SUBSET D
  /\ \A f \in D, T \in SUBSET V : F[f][T] \in V
  /\ \A f \in D : rank[f] \in Nat /\ rank[f] < top
  /\ \A f \in D : \A h \in before[f] : rank[h] < rank[f]

(* A function of such values exists.                                       *)
LEMMA RecursionExists ==
  ASSUME NEW D, NEW V, NEW before, NEW F, NEW rank, NEW top,
         Leads(D, V, before, F, rank, top)
  PROVE  \E k \in [D -> V] : \A f \in D : k[f] = F[f][{k[h] : h \in before[f]}]
<1> USE DEF Leads
<1> DEFINE Low(n) == {f \in D : rank[f] < n}
           Solves(k, n) == /\ k \in [Low(n) -> V]
                           /\ \A f \in Low(n) :
                                k[f] = F[f][{k[h] : h \in before[f]}]
           Bad == {n \in Nat : ~\E k : Solves(k, n)}
<1> HIDE DEF Solves
<1>1. Bad = {}
  <2> SUFFICES ASSUME Bad # {}  PROVE FALSE
    OBVIOUS
  <2>1. Bad \in SUBSET Nat
    OBVIOUS
  <2>2. PICK n \in Bad : \A m \in Bad : n <= m
    BY <2>1, LeastExists
  <2>3. n \in Nat /\ ~\E k : Solves(k, n)
    OBVIOUS
  <2>4. CASE n = 0
    <3>1. Low(0) = {}
      OBVIOUS
    <3>2. Solves([f \in Low(0) |-> f], 0)
      BY <3>1 DEF Solves
    <3> QED
      BY <2>3, <2>4, <3>2
  <2>5. CASE n # 0
    <3> DEFINE m == n - 1
    <3>1. m \in Nat /\ n = m + 1 /\ ~(n <= m)
      BY <2>3, <2>5
    <3> HIDE DEF m
    <3>2. PICK k : Solves(k, m)
      BY <2>2, <3>1
    <3> DEFINE l == [f \in Low(n) |-> F[f][{k[h] : h \in before[f]}]]
    <3>3. ASSUME NEW f \in Low(n)
          PROVE  /\ f \in D /\ before[f] \subseteq Low(m)
                 /\ {k[h] : h \in before[f]} \in SUBSET V
                 /\ l[f] = F[f][{k[h] : h \in before[f]}]
                 /\ l[f] \in V
      <4>1. f \in D /\ rank[f] \in Nat /\ rank[f] < n
        BY <3>3
      <4>2. before[f] \subseteq Low(m)
        <5> SUFFICES ASSUME NEW h \in before[f]  PROVE h \in Low(m)
          OBVIOUS
        <5>1. h \in D /\ rank[h] \in Nat /\ rank[h] < rank[f]
          BY <4>1
        <5> QED
          BY <4>1, <5>1, <3>1, <2>3
      <4>3. \A h \in Low(m) : k[h] \in V
        BY <3>2 DEF Solves
      <4>4. {k[h] : h \in before[f]} \in SUBSET V
        BY <4>2, <4>3
      <4> QED
        BY <4>1, <4>2, <4>4
    <3>4. \A f \in Low(m) : f \in Low(n)
      BY <3>1, <2>3
    <3>5. \A f \in Low(m) : l[f] = k[f]
      <4> SUFFICES ASSUME NEW f \in Low(m)  PROVE l[f] = k[f]
        OBVIOUS
      <4>1. l[f] = F[f][{k[h] : h \in before[f]}]
        BY <3>3, <3>4
      <4>2. k[f] = F[f][{k[h] : h \in before[f]}]
        BY <3>2 DEF Solves
      <4> QED
        BY <4>1, <4>2
    <3>6. l \in [Low(n) -> V]
      BY <3>3
    <3>7. ASSUME NEW f \in Low(n)
          PROVE  l[f] = F[f][{l[h] : h \in before[f]}]
      <4> HIDE DEF l
      <4>1. \A h \in before[f] : l[h] = k[h]
        BY <3>3, <3>5
      <4>2. {l[h] : h \in before[f]} = {k[h] : h \in before[f]}
        BY <4>1
      <4> QED
        BY <3>3, <4>2
    <3> HIDE DEF l
    <3>8. Solves(l, n)
      BY <3>6, <3>7 DEF Solves
    <3> QED
      BY <2>3, <3>8
  <2> QED
    BY <2>4, <2>5
<1>2. PICK k : Solves(k, top)
  BY <1>1
<1>3. Low(top) = D
  OBVIOUS
<1> QED
  BY <1>2, <1>3 DEF Solves
-----------------------------------------------------------------------------
(* The groups of a clustering, and the order they choose their labels in.  *)

(* Each has its head in it, and a size; every voice is in one. *)
LEMMA GroupsIs ==
  ASSUME NEW n \in Nat, NEW g \in Groupings(n)
  PROVE  /\ DOMAIN g = 1 .. n
         /\ Groups(g) \in [DOMAIN Groups(g) -> SUBSET (1 .. n)]
         /\ DOMAIN Groups(g) \subseteq 1 .. n
         /\ \A i \in 1 .. n : g[i] \in DOMAIN Groups(g)
         /\ \A f \in DOMAIN Groups(g) :
              /\ f \in 1 .. n /\ f \in Groups(g)[f] /\ g[f] = f
              /\ Groups(g)[f] \subseteq 1 .. n
              /\ \A i \in 1 .. n : i \in Groups(g)[f] <=> g[i] = f
<1>1. g \in [1 .. n -> 1 .. n] /\ \A i \in 1 .. n : g[g[i]] = g[i]
  BY DEF Groupings
<1>2. DOMAIN Groups(g) = {f \in 1 .. n : g[f] = f}
  BY <1>1 DEF Groups
<1>3. \A f \in DOMAIN Groups(g) : Groups(g)[f] = {i \in 1 .. n : g[i] = f}
  BY <1>1 DEF Groups
<1>4. Groups(g) \in [DOMAIN Groups(g) -> SUBSET (1 .. n)]
  BY <1>3 DEF Groups
<1> QED
  BY <1>1, <1>2, <1>3, <1>4

(* Groups of voices: each has its head in it. *)
AreGroups(G, n) ==
  /\ G \in [DOMAIN G -> SUBSET (1 .. n)]
  /\ DOMAIN G \subseteq 1 .. n
  /\ \A f \in DOMAIN G : f \in G[f]

(* A group has a size. *)
LEMMA SizeIs ==
  ASSUME NEW n \in Nat, NEW S \in SUBSET (1 .. n)
  PROVE  IsFiniteSet(S) /\ Cardinality(S) \in 0 .. n
<1>1. IsFiniteSet(1 .. n) /\ Cardinality(1 .. n) = n
  BY FS_Interval
<1>2. IsFiniteSet(S) /\ Cardinality(S) <= n
  BY <1>1, FS_Subset
<1>3. Cardinality(S) \in Nat
  BY <1>2, FS_CardinalityType
<1> QED
  BY <1>2, <1>3

(* Of two groups one chooses first, and the order is a strict one.         *)
LEMMA BeforeIs ==
  ASSUME NEW n \in Nat, NEW G, AreGroups(G, n),
         NEW f \in DOMAIN G, NEW h \in DOMAIN G
  PROVE  /\ Before(G, f) \subseteq DOMAIN G
         /\ f \notin Before(G, f)
         /\ h \in Before(G, f) => /\ Before(G, h) \subseteq Before(G, f)
                                  /\ Cardinality(G[h]) >= Cardinality(G[f])
         /\ f = h \/ f \in Before(G, h) \/ h \in Before(G, f)
<1> DEFINE size(x) == Cardinality(G[x])
<1>1. \A x \in DOMAIN G : size(x) \in Nat /\ x \in Nat
  BY SizeIs DEF AreGroups
<1>2. \A x \in DOMAIN G : Before(G, x) =
        {y \in DOMAIN G : size(y) > size(x) \/ (size(y) = size(x) /\ y < x)}
  BY DEF Before
<1> HIDE DEF size
<1>3. Before(G, f) \subseteq DOMAIN G /\ f \notin Before(G, f)
  BY <1>1, <1>2
<1>4. f = h \/ f \in Before(G, h) \/ h \in Before(G, f)
  BY <1>1, <1>2
<1>5. h \in Before(G, f) => size(h) >= size(f)
  BY <1>1, <1>2
<1>6. ASSUME h \in Before(G, f), NEW x \in Before(G, h)
      PROVE  x \in Before(G, f)
  <2>1. x \in DOMAIN G /\ size(x) \in Nat /\ x \in Nat
    BY <1>1, <1>2
  <2>2. size(x) > size(h) \/ (size(x) = size(h) /\ x < h)
    BY <1>2, <1>6
  <2>3. size(h) > size(f) \/ (size(h) = size(f) /\ h < f)
    BY <1>2, <1>6
  <2>4. size(x) > size(f) \/ (size(x) = size(f) /\ x < f)
    BY <2>1, <2>2, <2>3, <1>1
  <2> QED
    BY <2>1, <2>4, <1>2
<1> QED
  BY <1>3, <1>4, <1>5, <1>6 DEF size

(* So it leads down: from the number of groups before one. *)
LEMMA BeforeLeadsDown ==
  ASSUME NEW n \in Nat, NEW G, AreGroups(G, n)
  PROVE  \E rank \in [DOMAIN G -> 0 .. n] :
           \A f \in DOMAIN G : \A h \in Before(G, f) : rank[h] < rank[f]
<1> DEFINE rank == [f \in DOMAIN G |-> Cardinality(Before(G, f))]
<1>1. \A f \in DOMAIN G : Before(G, f) \in SUBSET (1 .. n)
  BY BeforeIs DEF AreGroups
<1>2. rank \in [DOMAIN G -> 0 .. n]
  BY <1>1, SizeIs
<1>3. ASSUME NEW f \in DOMAIN G, NEW h \in Before(G, f)
      PROVE  rank[h] < rank[f]
  <2>1. h \in DOMAIN G /\ Before(G, h) \subseteq Before(G, f)
        /\ h \notin Before(G, h)
    BY BeforeIs
  <2>2. IsFiniteSet(Before(G, f)) /\ Before(G, h) \in SUBSET Before(G, f)
    BY <1>1, <2>1, SizeIs
  <2>3. Cardinality(Before(G, h)) <= Cardinality(Before(G, f))
        /\ Cardinality(Before(G, h)) # Cardinality(Before(G, f))
    BY <2>1, <2>2, FS_Subset
  <2>4. rank[f] \in 0 .. n /\ rank[h] \in 0 .. n
    BY <1>2, <2>1
  <2> QED
    BY <2>1, <2>3, <2>4
<1> QED
  BY <1>2, <1>3

-----------------------------------------------------------------------------
(* The labels: the favourite of a group, a spare one, and the two rounds   *)
(* of name_clusters.                                                       *)

(* The voices of the history carry labels the registry could give. *)
Labelled(n) ==
  /\ n \in 0 .. MaxVoices
  /\ n = Len(voices) /\ DOMAIN voices = 1 .. n
  /\ \A i \in 1 .. n : voices[i].label \in Name /\ voices[i].label # NoName

(* What a label's votes are. *)
LEMMA VotesIs ==
  ASSUME NEW n, Labelled(n), NEW S \in SUBSET (1 .. n), NEW m
  PROVE  Votes(S, m) \in 0 .. n
<1>1. n \in Nat
  BY LimitsAssumption DEF Labelled
<1>2. {i \in S : voices[i].label = m} \in SUBSET (1 .. n)
  OBVIOUS
<1> QED
  BY <1>1, <1>2, SizeIs DEF Votes

(* A group that may keep a label keeps one as many of its members carry as *)
(* carry any other.                                                        *)
LEMMA FavouriteIs ==
  ASSUME NEW n, Labelled(n), NEW S \in SUBSET (1 .. n), NEW taken,
         Wanted(S, taken) # {}
  PROVE  /\ Favourite(S, taken) \in Wanted(S, taken)
         /\ \A m \in Wanted(S, taken) :
              Votes(S, m) <= Votes(S, Favourite(S, taken))
<1> DEFINE wanted == Wanted(S, taken)
           seen(m) == First({i \in S : voices[i].label = m})
           votes == [m \in wanted |-> Votes(S, m)]
           most == {m \in wanted : \A k \in wanted : votes[k] <= votes[m]}
           firsts == {seen(m) : m \in most}
           Good(m) == \A k \in wanted \ {m} :
                        \/ Votes(S, m) > Votes(S, k)
                        \/ Votes(S, m) = Votes(S, k) /\ seen(m) < seen(k)
<1>1. n \in Nat /\ S \in SUBSET Nat
  BY LimitsAssumption DEF Labelled
<1>2. ASSUME NEW m \in wanted
      PROVE  seen(m) \in S /\ voices[seen(m)].label = m
  <2>1. {i \in S : voices[i].label = m} # {}
    BY DEF Wanted
  <2>2. {i \in S : voices[i].label = m} \in SUBSET Nat
    BY <1>1
  <2>3. seen(m) \in {i \in S : voices[i].label = m}
    BY <2>1, <2>2, FirstIs
  <2> QED
    BY <2>3
<1>3. votes \in [wanted -> 0 .. n]
  BY VotesIs
<1>4. most # {}
  BY <1>1, <1>3, MostExists
<1> HIDE DEF seen, wanted
<1>5. firsts \in SUBSET Nat /\ firsts # {}
  BY <1>1, <1>2, <1>4
<1>6. PICK m \in most : \A k \in most : seen(m) <= seen(k)
  <2>1. PICK i \in firsts : \A j \in firsts : i <= j
    BY <1>5, LeastExists
  <2> QED
    BY <2>1
<1>7. Good(m)
  <2> SUFFICES ASSUME NEW k \in wanted \ {m}
      PROVE  \/ Votes(S, m) > Votes(S, k)
             \/ Votes(S, m) = Votes(S, k) /\ seen(m) < seen(k)
    OBVIOUS
  <2>1. m \in wanted /\ votes[k] <= votes[m]
    OBVIOUS
  <2>2. votes[k] = Votes(S, k) /\ votes[m] = Votes(S, m)
        /\ votes[k] \in Nat /\ votes[m] \in Nat
    BY <1>3, <2>1
  <2>3. seen(m) # seen(k) /\ seen(m) \in Nat /\ seen(k) \in Nat
    BY <1>1, <1>2, <2>1
  <2>4. votes[k] = votes[m] => k \in most
    OBVIOUS
  <2>5. votes[k] = votes[m] => seen(m) <= seen(k)
    BY <1>6, <2>4
  <2> QED
    BY <2>1, <2>2, <2>3, <2>5
<1>8. Favourite(S, taken) = CHOOSE x \in wanted : Good(x)
  BY DEF Favourite, wanted, seen
<1> HIDE DEF Good, most
<1>9. m \in wanted
  BY DEF most
<1>10. Favourite(S, taken) \in wanted /\ Good(Favourite(S, taken))
  BY <1>7, <1>8, <1>9
<1>11. ASSUME NEW k \in wanted
       PROVE  Votes(S, k) <= Votes(S, Favourite(S, taken))
  <2>1. Votes(S, k) \in Nat /\ Votes(S, Favourite(S, taken)) \in Nat
    BY VotesIs
  <2> QED
    BY <1>10, <1>11, <2>1 DEF Good
<1> QED
  BY <1>10, <1>11 DEF wanted

(* A label nobody has is spare. *)
LEMMA SpareIs ==
  ASSUME NEW taken, Name \ taken # {}
  PROVE  Spare(taken) \in Name \ taken
<1>1. Name \ taken \in SUBSET Nat
  BY LimitsAssumption DEF Name
<1> QED
  BY <1>1, FirstIs DEF Spare

(* The first round: each group keeps its favourite of the labels no group  *)
(* before it kept, if its members carry any.                               *)
LEMMA KeptIs ==
  ASSUME NEW n, Labelled(n), NEW G, AreGroups(G, n)
  PROVE  /\ Kept(G) \in [DOMAIN G -> Name \cup {NoName}]
         /\ \A f \in DOMAIN G :
              LET taken == Taken(Kept(G), Before(G, f))
              IN Kept(G)[f] = IF Wanted(G[f], taken) = {} THEN NoName
                              ELSE Favourite(G[f], taken)
<1> DEFINE D == DOMAIN G
           V == Name \cup {NoName}
           Choice(f, T) == IF Wanted(G[f], T) = {} THEN NoName
                           ELSE Favourite(G[f], T)
           F == [f \in D |-> [T \in SUBSET V |-> Choice(f, T)]]
           before == [f \in D |-> Before(G, f)]
           Body(k) == [f \in D |-> Choice(f, Taken(k, Before(G, f)))]
<1>1. n \in Nat
  BY LimitsAssumption DEF Labelled
<1>2. ASSUME NEW f \in D, NEW T  PROVE Choice(f, T) \in V
  <2>1. G[f] \in SUBSET (1 .. n)
    BY DEF AreGroups
  <2>2. Wanted(G[f], T) \subseteq Name
    BY <2>1 DEF Wanted, Labelled
  <2>3. Wanted(G[f], T) # {} => Favourite(G[f], T) \in Wanted(G[f], T)
    BY <2>1, FavouriteIs
  <2> QED
    BY <2>2, <2>3
<1> HIDE DEF Choice
<1>3. \A f \in D, T \in SUBSET V : F[f][T] \in V
  BY <1>2
<1>4. \A f \in D : before[f] \in SUBSET D
  BY <1>1, BeforeIs
<1>5. PICK rank \in [D -> 0 .. n] :
        \A f \in D : \A h \in Before(G, f) : rank[h] < rank[f]
  BY <1>1, BeforeLeadsDown
<1>6. \E k \in [D -> V] : \A f \in D : k[f] = F[f][{k[h] : h \in before[f]}]
  <2> DEFINE top == n + 1
  <2>1. top \in Nat
    BY <1>1
  <2>2. \A f \in D : rank[f] \in Nat /\ rank[f] < top
    BY <1>1, <1>5
  <2>3. \A f \in D : \A h \in before[f] : rank[h] < rank[f]
    BY <1>5
  <2> HIDE DEF F, before, D, V, top
  <2>4. Leads(D, V, before, F, rank, top)
    BY <1>3, <1>4, <2>1, <2>2, <2>3 DEF Leads
  <2> QED
    BY <2>4, RecursionExists, SMTT(60)
<1>7. PICK k \in [D -> V] : \A f \in D : k[f] = F[f][{k[h] : h \in before[f]}]
  BY <1>6
<1>8. k = Body(k)
  <2> SUFFICES ASSUME NEW f \in D
               PROVE  k[f] = Choice(f, Taken(k, Before(G, f)))
    OBVIOUS
  <2>1. Before(G, f) \subseteq D
    BY <1>1, BeforeIs
  <2>2. Taken(k, Before(G, f)) = {k[h] : h \in before[f]}
        /\ Taken(k, Before(G, f)) \in SUBSET V
    BY <2>1 DEF Taken
  <2> QED
    BY <1>7, <2>2
<1> DEFINE c == CHOOSE x : x = Body(x)
<1>9. c = Body(c)
  <2> HIDE DEF Body
  <2> QED
    BY <1>8
<1>10. Kept(G) = [f \in D |-> c[f]]
  BY DEF Kept, Choice
<1> HIDE DEF c
<1>11. Kept(G) = c
  BY <1>9, <1>10
<1>12. \A f \in D : c[f] = Choice(f, Taken(c, Before(G, f)))
  BY <1>9
<1>13. c \in [D -> V]
  BY <1>9, <1>12, <1>2
<1> QED
  BY <1>11, <1>12, <1>13 DEF Choice

(* The second round: a group that kept none gets one that no group kept,   *)
(* and none got before it.                                                 *)
GivenSpare(G, kept, names) ==
  \A f \in DOMAIN G :
    names[f] = IF kept[f] # NoName THEN kept[f]
               ELSE Spare(Taken(kept, DOMAIN G)
                            \cup Taken(names, Before(G, f)))

(* The groups that kept a label are named by it, the others by a spare     *)
(* one: the function that names them exists.                               *)
LEMMA NamedIs ==
  ASSUME NEW n, Labelled(n), NEW G, AreGroups(G, n)
  PROVE  GivenSpare(G, Kept(G), Named(G)) /\ DOMAIN Named(G) = DOMAIN G
<1> DEFINE D == DOMAIN G
           kept == Kept(G)
           all == Taken(kept, D)
           V == Name \cup {First({})}
           Choice(f, T) == IF kept[f] # NoName THEN kept[f]
                           ELSE Spare(all \cup T)
           F == [f \in D |-> [T \in SUBSET V |-> Choice(f, T)]]
           before == [f \in D |-> Before(G, f)]
           Body(k) == [f \in D |-> Choice(f, Taken(k, Before(G, f)))]
<1>1. n \in Nat
  BY LimitsAssumption DEF Labelled
<1>2. ASSUME NEW f \in D, NEW T  PROVE Choice(f, T) \in V
  <2>1. kept[f] \in Name \cup {NoName}
    BY KeptIs
  <2>2. CASE Name \ (all \cup T) = {}
    BY <2>1, <2>2 DEF Spare
  <2>3. CASE Name \ (all \cup T) # {}
    <3>1. Spare(all \cup T) \in Name
      BY <2>3, SpareIs
    <3> QED
      BY <2>1, <3>1
  <2> QED
    BY <2>2, <2>3
<1>4. \A f \in D : before[f] \in SUBSET D
  BY <1>1, BeforeIs
<1>5. PICK rank \in [D -> 0 .. n] :
        \A f \in D : \A h \in Before(G, f) : rank[h] < rank[f]
  BY <1>1, BeforeLeadsDown
<1>0. Named(G) =
        LET named[f \in D] == Choice(f, Taken(named, Before(G, f)))
        IN [f \in D |-> named[f]]
  BY DEF Named
<1> HIDE DEF Choice
<1>3. \A f \in D, T \in SUBSET V : F[f][T] \in V
  BY <1>2
<1>6. \E k \in [D -> V] : \A f \in D : k[f] = F[f][{k[h] : h \in before[f]}]
  <2> DEFINE top == n + 1
  <2>1. top \in Nat
    BY <1>1
  <2>2. \A f \in D : rank[f] \in Nat /\ rank[f] < top
    BY <1>1, <1>5
  <2>3. \A f \in D : \A h \in before[f] : rank[h] < rank[f]
    BY <1>5
  <2> HIDE DEF F, before, D, V, top
  <2>4. Leads(D, V, before, F, rank, top)
    BY <1>3, <1>4, <2>1, <2>2, <2>3 DEF Leads
  <2> QED
    BY <2>4, RecursionExists, SMTT(60)
<1>7. PICK k \in [D -> V] : \A f \in D : k[f] = F[f][{k[h] : h \in before[f]}]
  BY <1>6
<1>8. k = Body(k)
  <2> SUFFICES ASSUME NEW f \in D
               PROVE  k[f] = Choice(f, Taken(k, Before(G, f)))
    OBVIOUS
  <2>1. Before(G, f) \subseteq D
    BY <1>1, BeforeIs
  <2>2. Taken(k, Before(G, f)) = {k[h] : h \in before[f]}
        /\ Taken(k, Before(G, f)) \in SUBSET V
    BY <2>1 DEF Taken
  <2> QED
    BY <1>7, <2>2
<1> DEFINE c == CHOOSE x : x = Body(x)
<1>9. c = Body(c)
  <2> HIDE DEF Body
  <2> QED
    BY <1>8
<1>10. Named(G) = [f \in D |-> c[f]]
  BY <1>0
<1> HIDE DEF c
<1>11. Named(G) = c
  BY <1>9, <1>10
<1>12. \A f \in D : c[f] = Choice(f, Taken(c, Before(G, f)))
  BY <1>9
<1>13. DOMAIN c = D
  BY <1>9
<1> QED
  BY <1>11, <1>12, <1>13 DEF Choice, GivenSpare

(* There is a spare label for each: there are as many labels as voices.    *)
LEMMA NamedInName ==
  ASSUME NEW n, Labelled(n), NEW G, AreGroups(G, n)
  PROVE  /\ Named(G) \in [DOMAIN G -> Name]
         /\ \A f \in DOMAIN G :
              Kept(G)[f] = NoName =>
                Named(G)[f] \notin Taken(Kept(G), DOMAIN G)
                                     \cup Taken(Named(G), Before(G, f))
<1> DEFINE D == DOMAIN G
           kept == Kept(G)
           names == Named(G)
           taken(f) == Taken(kept, D) \cup Taken(names, Before(G, f))
<1>1. n \in Nat /\ n <= MaxVoices /\ MaxVoices \in Nat /\ MaxSpeakers \in Nat
  BY LimitsAssumption DEF Labelled
<1>2. /\ DOMAIN names = D
      /\ \A f \in D : names[f] = IF kept[f] # NoName THEN kept[f]
                                 ELSE Spare(taken(f))
  BY NamedIs DEF GivenSpare
<1>3. \A f \in D : kept[f] \in Name \cup {NoName}
  BY KeptIs
<1>4. ASSUME NEW f \in D, kept[f] = NoName  PROVE Name \ taken(f) # {}
  <2> SUFFICES ASSUME Name \subseteq taken(f)  PROVE FALSE
    OBVIOUS
  <2> DEFINE rest == D \ {f}
             given == {names[h] : h \in rest}
             r == [h \in rest |-> names[h]]
  <2>1. IsFiniteSet(D) /\ Cardinality(D) \in 0 .. n
    <3>1. D \in SUBSET (1 .. n)
      BY DEF AreGroups
    <3> QED
      BY <1>1, <3>1, SizeIs
  <2>2. IsFiniteSet(rest) /\ Cardinality(rest) = Cardinality(D) - 1
    BY <2>1, FS_RemoveElement
  <2>3. r \in Surjection(rest, given)
    BY DEF Surjection
  <2>4. IsFiniteSet(given) /\ Cardinality(given) <= Cardinality(rest)
    BY <2>2, <2>3, FS_Surjection
  <2>5. Name \subseteq given
    <3> SUFFICES ASSUME NEW x \in Name  PROVE x \in given
      OBVIOUS
    <3>1. x # NoName /\ x \in taken(f)
      BY <1>1 DEF Name, NoName
    <3>2. CASE x \in Taken(kept, D)
      <4>1. PICK h \in D : x = kept[h]
        BY <3>2 DEF Taken
      <4>2. h # f /\ x = names[h]
        BY <1>2, <1>4, <3>1, <4>1
      <4> QED
        BY <4>1, <4>2
    <3>3. CASE x \in Taken(names, Before(G, f))
      <4>1. PICK h \in Before(G, f) : x = names[h]
        BY <3>3 DEF Taken
      <4>2. h \in D /\ h # f
        BY <1>1, BeforeIs
      <4> QED
        BY <4>1, <4>2
    <3> QED
      BY <3>1, <3>2, <3>3
  <2>6. Cardinality(Name) <= Cardinality(given) /\ IsFiniteSet(Name)
    BY <2>4, <2>5, FS_Subset
  <2>7. Cardinality(Name) = MaxSpeakers + MaxVoices
    <3> DEFINE b == MaxSpeakers + MaxVoices
    <3>1. b \in Nat /\ 1 \in Int
      BY <1>1
    <3> HIDE DEF b
    <3>2. Cardinality(1 .. b) = b
      BY <3>1, FS_Interval
    <3> QED
      BY <3>2 DEF Name, b
  <2>8. Cardinality(given) \in Nat
    BY <2>4, FS_CardinalityType
  <2> HIDE DEF given, rest, D
  <2> QED
    BY <1>1, <2>1, <2>2, <2>4, <2>6, <2>7, <2>8
<1>5. ASSUME NEW f \in D, kept[f] = NoName
      PROVE  names[f] \in Name \ taken(f)
  <2>1. names[f] = Spare(taken(f))
    BY <1>2, <1>5
  <2> QED
    BY <1>4, <1>5, <2>1, SpareIs
<1>6. \A f \in D : names[f] \in Name
  BY <1>2, <1>3, <1>5
<1>7. Named(G) = [f \in DOMAIN G |-> Named(G)[f]]
  BY DEF Named
<1> QED
  BY <1>5, <1>6, <1>7

(* No two groups get the same label. *)
LEMMA NamedIsInjective ==
  ASSUME NEW n, Labelled(n), NEW G, AreGroups(G, n),
         NEW f \in DOMAIN G, NEW h \in DOMAIN G, f # h
  PROVE  Named(G)[f] # Named(G)[h]
<1> DEFINE kept == Kept(G)
           names == Named(G)
<1>0. n \in Nat
  BY LimitsAssumption DEF Labelled
<1>1. ASSUME NEW x \in DOMAIN G, NEW y \in DOMAIN G, y \in Before(G, x)
      PROVE  names[x] # names[y]
  <2>1. /\ kept[x] # NoName => names[x] = kept[x]
        /\ kept[y] # NoName => names[y] = kept[y]
    BY NamedIs DEF GivenSpare
  <2>2. CASE kept[x] = NoName
    <3>1. names[x] \notin Taken(kept, DOMAIN G) \cup Taken(names, Before(G, x))
      BY <2>2, NamedInName
    <3> QED
      BY <1>1, <3>1 DEF Taken
  <2>3. CASE kept[x] # NoName /\ kept[y] # NoName
    <3> DEFINE taken == Taken(kept, Before(G, x))
    <3>1. kept[x] = Favourite(G[x], taken) /\ Wanted(G[x], taken) # {}
      BY <2>3, KeptIs
    <3>2. G[x] \in SUBSET (1 .. n)
      BY DEF AreGroups
    <3>3. kept[x] \in Wanted(G[x], taken)
      BY <3>1, <3>2, FavouriteIs
    <3>4. kept[x] \notin taken
      BY <3>3 DEF Wanted
    <3>5. kept[y] \in taken
      BY <1>1 DEF Taken
    <3> QED
      BY <2>1, <2>3, <3>4, <3>5
  <2>4. CASE kept[x] # NoName /\ kept[y] = NoName
    <3>1. names[y] \notin Taken(kept, DOMAIN G)
      BY <2>4, NamedInName
    <3>2. kept[x] \in Taken(kept, DOMAIN G)
      BY DEF Taken
    <3> QED
      BY <2>1, <2>4, <3>1, <3>2
  <2> QED
    BY <2>2, <2>3, <2>4
<1>2. f \in Before(G, h) \/ h \in Before(G, f)
  BY <1>0, BeforeIs
<1> QED
  BY <1>1, <1>2

(* A group loses a label only to one before it, or for one as many of its  *)
(* members carry.                                                          *)
LEMMA NamedStaysPut ==
  ASSUME NEW n, Labelled(n), NEW G, AreGroups(G, n), NEW f \in DOMAIN G,
         NEW i \in G[f]
  PROVE  \/ Votes(G[f], Named(G)[f]) >= Votes(G[f], voices[i].label)
         \/ \E h \in DOMAIN G \ {f} :
              /\ Named(G)[h] = voices[i].label
              /\ Votes(G[h], voices[i].label) > 0
              /\ Cardinality(G[h]) >= Cardinality(G[f])
<1> DEFINE kept == Kept(G)
           names == Named(G)
           taken == Taken(kept, Before(G, f))
           m == voices[i].label
<1>0. n \in Nat
  BY LimitsAssumption DEF Labelled
<1>1. \A x \in DOMAIN G : G[x] \in SUBSET (1 .. n)
  BY DEF AreGroups
<1>2. m \in Name /\ m # NoName
  BY <1>1 DEF Labelled
<1>3. \A x \in DOMAIN G : kept[x] # NoName => names[x] = kept[x]
  BY NamedIs DEF GivenSpare
<1>4. CASE m \in taken
  <2>1. PICK h \in Before(G, f) : m = kept[h]
    BY <1>4 DEF Taken
  <2>2. h \in DOMAIN G /\ h # f /\ Cardinality(G[h]) >= Cardinality(G[f])
    BY <1>0, BeforeIs
  <2>3. names[h] = m
    BY <1>2, <1>3, <2>1, <2>2
  <2>4. /\ m = Favourite(G[h], Taken(kept, Before(G, h)))
        /\ Wanted(G[h], Taken(kept, Before(G, h))) # {}
    BY <1>2, <2>1, <2>2, KeptIs
  <2>5. m \in Wanted(G[h], Taken(kept, Before(G, h)))
    BY <1>1, <2>2, <2>4, FavouriteIs
  <2> DEFINE carry == {j \in G[h] : voices[j].label = m}
  <2>6. carry # {} /\ carry \in SUBSET (1 .. n)
    BY <1>1, <2>2, <2>5 DEF Wanted
  <2>7. IsFiniteSet(carry) /\ Cardinality(carry) \in 0 .. n
    BY <1>0, <2>6, SizeIs
  <2>8. Cardinality(carry) # 0
    BY <2>6, <2>7, FS_EmptySet
  <2>9. Votes(G[h], m) > 0
    BY <1>0, <2>7, <2>8 DEF Votes
  <2> QED
    BY <2>2, <2>3, <2>9
<1>5. CASE m \notin taken
  <2>1. m \in Wanted(G[f], taken)
    BY <1>5 DEF Wanted
  <2>2. kept[f] = Favourite(G[f], taken)
    BY <2>1, KeptIs
  <2>3. /\ Favourite(G[f], taken) \in Wanted(G[f], taken)
        /\ Votes(G[f], m) <= Votes(G[f], Favourite(G[f], taken))
    BY <1>1, <2>1, FavouriteIs
  <2>4. kept[f] # NoName
    BY <1>1, <2>2, <2>3 DEF Wanted, Labelled
  <2>5. Votes(G[f], m) \in Nat /\ Votes(G[f], names[f]) \in Nat
    BY <1>1, VotesIs
  <2> QED
    BY <1>3, <2>2, <2>3, <2>4, <2>5
<1> QED
  BY <1>4, <1>5

-----------------------------------------------------------------------------
(* The inductive invariant.                                                *)

Voice == [id : Sentence, label : Name]

(* A result's messages exist only while it is announced or sent. *)
RoundInv ==
  /\ at = "idle" => finals = {}
  /\ at # "sending" => moved = {} /\ grouping = <<>>

(* The history is about sentences of the session, each once and in order. *)
HistoryInv ==
  /\ since <= sentences
  /\ \A i \in 1 .. Len(voices) : voices[i].id <= sentences
  /\ \A i, j \in 1 .. Len(voices) : i < j => voices[i].id < voices[j].id

(* Nothing is known of a sentence before it is numbered, a final is not    *)
(* shown before it is sent, and no sentence has a label the registry has   *)
(* not given yet.                                                          *)
SentencesInv ==
  \A s \in Sentence :
    /\ s > sentences => screen[s] = Unseen /\ s \notin finals
    /\ s \in finals => screen[s] = Unseen
    /\ live[s] <= known

(* What the client shows of a sentence once the messages have reached it. *)
Shown(s) == Relabelled(s, IF s \in finals THEN live[s] ELSE screen[s])

ShownInv ==
  \A i \in 1 .. Len(voices) :
    Shown(voices[i].id) \in {Unseen, voices[i].label}

SpeakersInv ==
  /\ TypeOK /\ RoundInv /\ HistoryInv /\ SentencesInv /\ ShownInv
  /\ NamesFollowGroups

(* The types of what is counted. *)
LEMMA TypesAre ==
  ASSUME TypeOK
  PROVE  /\ MaxSpeakers \in Nat /\ MaxVoices \in Nat /\ MaxSentences \in Nat
         /\ known \in Nat /\ sentences \in Nat /\ since \in Nat
         /\ \A s \in Sentence : s \in Nat /\ s > 0 /\ live[s] \in Int
         /\ \A m \in Name : m \in Nat /\ m > 0
<1>1. MaxSpeakers \in Nat /\ MaxVoices \in Nat /\ MaxSentences \in Nat
  BY LimitsAssumption, BoundAssumption
<1>2. known \in Nat /\ sentences \in Nat /\ since \in Nat
  BY <1>1 DEF TypeOK
<1>3. \A m \in Name : m \in Nat /\ m > 0
  BY <1>1 DEF Name
<1>4. ASSUME NEW s \in Sentence  PROVE s \in Nat /\ s > 0 /\ live[s] \in Int
  <2>1. live[s] \in Name \cup {Unknown, Nobody, Unseen}
    BY DEF TypeOK, Label
  <2>2. s \in Nat /\ s > 0
    BY <1>1 DEF Sentence
  <2> QED
    BY <1>3, <2>1, <2>2 DEF Unknown, Nobody, Unseen
<1> QED
  BY <1>1, <1>2, <1>3, <1>4

(* The voices of the history. *)
LEMMA VoicesAre ==
  ASSUME TypeOK
  PROVE  /\ voices \in Seq(Voice) /\ Len(voices) \in Nat
         /\ Len(voices) <= MaxVoices
         /\ DOMAIN voices = 1 .. Len(voices)
         /\ \A i \in 1 .. Len(voices) :
              voices[i] \in Voice /\ voices[i].id \in Sentence
              /\ voices[i].label \in Name
         /\ Labelled(Len(voices))
<1>1. voices \in Seq(Voice) /\ Len(voices) \in Nat /\ Len(voices) <= MaxVoices
      /\ DOMAIN voices = 1 .. Len(voices)
  BY DEF TypeOK, Voice
<1>2. \A i \in 1 .. Len(voices) :
        voices[i] \in Voice /\ voices[i].id \in Sentence
        /\ voices[i].label \in Name
  <2>1. \A i \in 1 .. Len(voices) : voices[i] \in Voice
    BY <1>1
  <2>2. \A v \in Voice : v.id \in Sentence /\ v.label \in Name
    BY DEF Voice
  <2> QED
    BY <2>1, <2>2
<1>3. Labelled(Len(voices))
  BY <1>1, <1>2, TypesAre DEF Labelled, NoName
<1> QED
  BY <1>1, <1>2, <1>3

(* No sentence is known when a session begins. *)
LEMMA InitKeeps ==
  ASSUME Init  PROVE SpeakersInv
<1>1. TypeOK
  BY LimitsAssumption, BoundAssumption
     DEF Init, history, TypeOK, NoLabels, Label, Unseen
<1>2. RoundInv /\ HistoryInv /\ ShownInv /\ NamesFollowGroups
  BY DEF Init, RoundInv, HistoryInv, ShownInv, NamesFollowGroups
<1>3. SentencesInv
  BY DEF Init, SentencesInv, NoLabels, Unseen
<1> QED
  BY <1>1, <1>2, <1>3 DEF SpeakersInv

(* The history with one more voice: the last ones of all there were. *)
LEMMA RememberIs ==
  ASSUME TypeOK, NEW v \in Voice
  PROVE  /\ Remember(v) \in Seq(Voice) /\ Len(Remember(v)) <= MaxVoices
         /\ \E d \in {0, 1} :
              /\ Len(Remember(v)) = Len(voices) + 1 - d
              /\ \A i \in 1 .. Len(Remember(v)) :
                   Remember(v)[i] = IF i + d = Len(voices) + 1 THEN v
                                    ELSE voices[i + d]
<1> DEFINE all == Append(voices, v)
<1>1. voices \in Seq(Voice) /\ Len(voices) \in Nat /\ Len(voices) <= MaxVoices
      /\ MaxVoices \in Nat
  BY VoicesAre, TypesAre
<1>2. all \in Seq(Voice) /\ Len(all) = Len(voices) + 1
      /\ \A i \in 1 .. Len(all) :
           all[i] = IF i = Len(voices) + 1 THEN v ELSE voices[i]
  BY <1>1
<1>3. Remember(v) = IF Len(all) > MaxVoices THEN Tail(all) ELSE all
  BY DEF Remember
<1> HIDE DEF all
<1>4. CASE Len(all) > MaxVoices
  <2>1. /\ Tail(all) \in Seq(Voice) /\ Len(Tail(all)) = Len(all) - 1
        /\ \A i \in 1 .. Len(Tail(all)) : Tail(all)[i] = all[i + 1]
    BY <1>1, <1>2
  <2>2. Remember(v) = Tail(all)
    BY <1>3, <1>4
  <2>3. /\ Len(Remember(v)) = Len(voices) + 1 - 1
        /\ \A i \in 1 .. Len(Remember(v)) :
             Remember(v)[i] = IF i + 1 = Len(voices) + 1 THEN v
                              ELSE voices[i + 1]
    BY <1>1, <1>2, <2>1, <2>2
  <2>4. Len(Remember(v)) <= MaxVoices
    BY <1>1, <2>3
  <2> QED
    BY <2>1, <2>2, <2>3, <2>4
<1>5. CASE ~(Len(all) > MaxVoices)
  <2>1. Remember(v) = all
    BY <1>3, <1>5
  <2>2. /\ Len(Remember(v)) = Len(voices) + 1 - 0
        /\ \A i \in 1 .. Len(Remember(v)) :
             Remember(v)[i] = IF i + 0 = Len(voices) + 1 THEN v
                              ELSE voices[i + 0]
    BY <1>1, <1>2, <2>1
  <2> QED
    BY <1>1, <1>2, <1>5, <2>1, <2>2
<1> QED
  BY <1>4, <1>5

(* A sentence is numbered: its final is the only new one.                  *)
LEMMA CommitKeeps ==
  ASSUME SpeakersInv, NEW label \in Label, Commit(label), at = "announcing",
         label <= known', known <= known', known' \in 0 .. MaxSpeakers,
         UNCHANGED <<at, moved, grouping, screen>>
  PROVE  /\ sentences' \in 0 .. MaxSentences /\ sentences' = sentences + 1
         /\ sentences' \in Sentence
         /\ finals' \subseteq Sentence /\ sentences' \in finals'
         /\ live' \in [Sentence -> Label \cup {Unseen}]
         /\ live'[sentences'] = label
         /\ RoundInv' /\ SentencesInv'
         /\ \A s \in Sentence : s = sentences' => Shown(s)' = label
         /\ \A s \in Sentence : s <= sentences => Shown(s)' = Shown(s)
<1> USE DEF SpeakersInv
<1>1. /\ sentences \in Nat /\ MaxSentences \in Nat /\ sentences < MaxSentences
      /\ sentences' = sentences + 1
  BY TypesAre DEF Commit
<1>2. sentences' \in Sentence /\ sentences' \in 0 .. MaxSentences
  BY <1>1 DEF Sentence
<1>3. finals' = finals \cup {sentences'} /\ finals \subseteq Sentence
      /\ live' = [live EXCEPT ![sentences'] = label]
      /\ live \in [Sentence -> Label \cup {Unseen}]
  BY DEF Commit, TypeOK
<1>4. finals' \subseteq Sentence /\ sentences' \in finals'
      /\ live' \in [Sentence -> Label \cup {Unseen}]
      /\ live'[sentences'] = label
      /\ \A s \in Sentence : s # sentences' => live'[s] = live[s]
  BY <1>2, <1>3
<1>5. moved = {} /\ moved' = {} /\ screen' = screen
  BY DEF RoundInv
<1>6. RoundInv'
  BY DEF RoundInv
<1>7. SentencesInv'
  <2> SUFFICES ASSUME NEW s \in Sentence
               PROVE  /\ s > sentences' =>
                           screen'[s] = Unseen /\ s \notin finals'
                      /\ s \in finals' => screen'[s] = Unseen
                      /\ live'[s] <= known'
    BY DEF SentencesInv
  <2>1. s \in Nat /\ live[s] \in Int /\ known \in Nat /\ known' \in Nat
    BY TypesAre
  <2>2. /\ s > sentences => screen[s] = Unseen /\ s \notin finals
        /\ s \in finals => screen[s] = Unseen
        /\ live[s] <= known
    BY DEF SentencesInv
  <2>3. live'[s] <= known'
    BY <1>4, <2>1, <2>2
  <2> QED
    BY <1>1, <1>3, <1>5, <2>1, <2>2, <2>3
<1>8. \A s : Shown(s) = IF s \in finals THEN live[s] ELSE screen[s]
  BY <1>5 DEF Shown, Relabelled
<1>9. \A s : Shown(s)' = IF s \in finals' THEN live'[s] ELSE screen[s]
  BY <1>5 DEF Shown, Relabelled
<1>10. ASSUME NEW s \in Sentence, s <= sentences  PROVE Shown(s)' = Shown(s)
  <2>1. s \in Nat /\ s # sentences'
    BY <1>1, <1>10, TypesAre
  <2> QED
    BY <1>3, <1>4, <1>8, <1>9, <2>1
<1> HIDE DEF SpeakersInv
<1> QED
  BY <1>1, <1>2, <1>4, <1>6, <1>7, <1>9, <1>10

(* A label the matcher gives is one the registry has, by then. *)
LEMMA AssignedIs ==
  ASSUME TypeOK, NEW label \in Name, Matched(label) \/ Founded(label)
  PROVE  /\ known' \in 0 .. MaxSpeakers
         /\ known <= known' /\ label <= known'
         /\ known' > known => label = known + 1
<1>1. known \in 0 .. MaxSpeakers /\ MaxSpeakers \in Nat /\ label \in Nat
  BY TypesAre DEF TypeOK
<1>2. CASE Matched(label)
  BY <1>1, <1>2 DEF Matched
<1>3. CASE Founded(label)
  BY <1>1, <1>3 DEF Founded, NewLabel
<1> QED
  BY <1>2, <1>3

(* What does not change the history, the screen, the live labels or the    *)
(* messages shows everybody as before. *)
LEMMA ShownStays ==
  ASSUME UNCHANGED <<finals, moved, screen, live>>, NEW s
  PROVE  Shown(s)' = Shown(s)
BY DEF Shown, Relabelled

(* The label of a recognised voice, on its sentence if there are words.    *)
LEMMA IdentifiedKeeps ==
  ASSUME SpeakersInv, Identified  PROVE SpeakersInv'
<1> USE DEF SpeakersInv
<1>1. at = "announcing" /\ moved = {} /\ grouping = <<>>
      /\ UNCHANGED <<at, enabled, moved, screen, grouping>>
  BY DEF Identified, RoundInv
<1>2. PICK label \in Name :
        /\ Matched(label) \/ Founded(label)
        /\ \/ /\ Commit(label)
              /\ voices' = Remember([id |-> sentences', label |-> label])
              /\ since' = since + 1
           \/ UNCHANGED <<sentences, finals, live, history>>
  BY DEF Identified
<1>3. /\ known' \in 0 .. MaxSpeakers /\ known <= known' /\ label <= known'
      /\ label \in Label /\ label \in Nat
  BY <1>2, AssignedIs, TypesAre DEF Label
<1>4. NamesFollowGroups'
  BY <1>1 DEF NamesFollowGroups
<1>5. CASE /\ Commit(label)
           /\ voices' = Remember([id |-> sentences', label |-> label])
           /\ since' = since + 1
  <2> DEFINE v == [id |-> sentences', label |-> label]
  <2>1. /\ sentences' \in 0 .. MaxSentences /\ sentences' = sentences + 1
        /\ sentences' \in Sentence
        /\ finals' \subseteq Sentence
        /\ live' \in [Sentence -> Label \cup {Unseen}]
        /\ RoundInv' /\ SentencesInv'
        /\ \A s \in Sentence : s = sentences' => Shown(s)' = label
        /\ \A s \in Sentence : s <= sentences => Shown(s)' = Shown(s)
    BY <1>1, <1>3, <1>5, CommitKeeps
  <2>2. v \in Voice /\ v.id = sentences' /\ v.label = label
    BY <2>1 DEF Voice
  <2>3. voices' = Remember(v)
    BY <1>5
  <2> HIDE DEF v
  <2>4. voices' \in Seq(Voice) /\ Len(voices') <= MaxVoices
    BY <2>2, <2>3, RememberIs
  <2>5. PICK d \in {0, 1} :
          /\ Len(voices') = Len(voices) + 1 - d
          /\ \A i \in 1 .. Len(voices') :
               voices'[i] = IF i + d = Len(voices) + 1 THEN v
                            ELSE voices[i + d]
    BY <2>2, <2>3, RememberIs, ZenonT(60)
  <2>6. /\ Len(voices) \in Nat /\ since \in Nat /\ sentences \in Nat
        /\ known \in Nat
    BY VoicesAre, TypesAre
  <2>7. ASSUME NEW i \in 1 .. Len(voices')
        PROVE  /\ i \in Nat /\ i + d \in 1 .. Len(voices) + 1
               /\ i + d = Len(voices) + 1 => voices'[i] = v
               /\ i + d # Len(voices) + 1 =>
                    i + d \in 1 .. Len(voices) /\ voices'[i] = voices[i + d]
    BY <2>5, <2>6
  <2>8. ASSUME NEW i \in 1 .. Len(voices)
        PROVE  /\ voices[i].id \in Sentence /\ voices[i].id \in Nat
               /\ voices[i].id <= sentences
    BY VoicesAre, TypesAre DEF HistoryInv
  <2>9. TypeOK'
    <3>1. since' \in 0 .. MaxSentences
      <4>1. since' = since + 1 /\ since <= sentences /\ MaxSentences \in Nat
        BY <1>5, TypesAre DEF HistoryInv
      <4> QED
        BY <2>1, <2>6, <4>1
    <3> QED
      BY <1>1, <1>3, <2>1, <2>4, <3>1 DEF TypeOK, Voice
  <2>10. HistoryInv'
    <3>1. since' <= sentences'
      BY <1>5, <2>1, <2>6 DEF HistoryInv
    <3>2. ASSUME NEW i \in 1 .. Len(voices')
          PROVE  voices'[i].id <= sentences'
      <4>1. CASE i + d = Len(voices) + 1
        BY <2>1, <2>2, <2>6, <2>7, <4>1
      <4>2. CASE i + d # Len(voices) + 1
        <5>1. voices'[i] = voices[i + d] /\ i + d \in 1 .. Len(voices)
          BY <2>7, <4>2
        <5>2. voices[i + d].id \in Nat /\ voices[i + d].id <= sentences
          BY <2>8, <5>1
        <5> QED
          BY <2>1, <2>6, <5>1, <5>2
      <4> QED
        BY <4>1, <4>2
    <3>3. ASSUME NEW i \in 1 .. Len(voices'), NEW j \in 1 .. Len(voices'), i < j
          PROVE  voices'[i].id < voices'[j].id
      <4>1. i + d # Len(voices) + 1 /\ i + d < j + d
        BY <2>7, <2>6, <3>3
      <4>2. voices'[i] = voices[i + d] /\ i + d \in 1 .. Len(voices)
        BY <2>7, <4>1
      <4>3. voices[i + d].id \in Nat /\ voices[i + d].id <= sentences
        BY <2>8, <4>2
      <4>4. CASE j + d = Len(voices) + 1
        BY <2>1, <2>2, <2>6, <2>7, <4>2, <4>3, <4>4, SMTT(60)
      <4>5. CASE j + d # Len(voices) + 1
        <5>1. voices'[j] = voices[j + d] /\ j + d \in 1 .. Len(voices)
          BY <2>7, <4>5
        <5> QED
          BY <4>1, <4>2, <5>1 DEF HistoryInv
      <4> QED
        BY <4>4, <4>5
    <3> QED
      BY <3>1, <3>2, <3>3 DEF HistoryInv
  <2>11. ShownInv'
    <3> SUFFICES ASSUME NEW i \in 1 .. Len(voices')
                 PROVE  Shown(voices[i].id)' \in {Unseen, voices'[i].label}
      BY DEF ShownInv
    <3>1. CASE i + d = Len(voices) + 1
      <4>1. voices'[i].id = sentences' /\ voices'[i].label = label
        BY <2>2, <2>7, <3>1
      <4>2. \A s \in Sentence : s = voices'[i].id => Shown(s)' = label
        BY <2>1, <4>1
      <4>3. Shown(voices[i].id)' = label
        BY <2>1, <4>1, <4>2 DEF Shown, Relabelled
      <4> QED
        BY <4>1, <4>3
    <3>2. CASE i + d # Len(voices) + 1
      <4>1. voices'[i] = voices[i + d] /\ i + d \in 1 .. Len(voices)
        BY <2>7, <3>2
      <4>2. \A s \in Sentence : s = voices'[i].id => Shown(s)' = Shown(s)
        BY <2>1, <2>8, <4>1
      <4>3. voices'[i].id \in Sentence
        BY <2>8, <4>1
      <4>4. Shown(voices[i].id)' = Shown(voices[i + d].id)
        BY <4>1, <4>2, <4>3 DEF Shown, Relabelled
      <4>5. Shown(voices[i + d].id) \in {Unseen, voices[i + d].label}
        BY <4>1 DEF ShownInv
      <4> QED
        BY <4>1, <4>4, <4>5
    <3> QED
      BY <3>1, <3>2
  <2> QED
    BY <1>4, <2>1, <2>9, <2>10, <2>11
<1>6. CASE UNCHANGED <<sentences, finals, live, history>>
  <2>1. UNCHANGED <<voices, since>>
    BY <1>6 DEF history
  <2>2. TypeOK'
    BY <1>1, <1>3, <1>6, <2>1 DEF TypeOK
  <2>3. RoundInv' /\ HistoryInv'
    BY <1>1, <1>6, <2>1 DEF RoundInv, HistoryInv
  <2>4. SentencesInv'
    <3>1. \A s \in Sentence : live[s] \in Int /\ known \in Nat /\ known' \in Nat
      BY <1>3, TypesAre
    <3>2. \A s \in Sentence : live[s] <= known => live[s] <= known'
      BY <1>3, <3>1
    <3> QED
      BY <1>1, <1>6, <3>2 DEF SentencesInv
  <2>5. ShownInv'
    BY <1>1, <1>6, <2>1 DEF ShownInv, Shown, Relabelled
  <2> QED
    BY <1>4, <2>2, <2>3, <2>4, <2>5
<1> QED
  BY <1>2, <1>5, <1>6

(* A sentence no voice is known of. *)
LEMMA UnidentifiedKeeps ==
  ASSUME SpeakersInv, Unidentified  PROVE SpeakersInv'
<1> USE DEF SpeakersInv
<1>1. /\ at = "announcing" /\ UNCHANGED <<voices, since>>
      /\ UNCHANGED <<at, moved, screen, grouping>>
      /\ UNCHANGED <<enabled, known>>
  BY DEF Unidentified, history
<1>2. PICK label \in {Nobody, Unknown} : Commit(label)
  BY DEF Unidentified
<1>3. known \in Nat /\ sentences \in Nat /\ known \in 0 .. MaxSpeakers
  BY TypesAre DEF TypeOK
<1>4. label \in Label /\ label <= known
  BY <1>2, <1>3 DEF Label, Nobody, Unknown
<1>5. /\ sentences' \in 0 .. MaxSentences /\ sentences' = sentences + 1
      /\ finals' \subseteq Sentence
      /\ live' \in [Sentence -> Label \cup {Unseen}]
      /\ RoundInv' /\ SentencesInv'
      /\ \A s \in Sentence : s <= sentences => Shown(s)' = Shown(s)
  BY <1>1, <1>2, <1>3, <1>4, CommitKeeps
<1>6. TypeOK'
  BY <1>1, <1>5 DEF TypeOK
<1>7. \A i \in 1 .. Len(voices) :
        voices[i].id \in Sentence /\ voices[i].id \in Nat
        /\ voices[i].id <= sentences
  BY VoicesAre, TypesAre DEF HistoryInv
<1>8. HistoryInv'
  <2>1. since \in Nat /\ since <= sentences
    BY TypesAre DEF HistoryInv
  <2>2. since' <= sentences'
    BY <1>1, <1>3, <1>5, <2>1
  <2>3. \A i \in 1 .. Len(voices) : voices[i].id <= sentences'
    BY <1>3, <1>5, <1>7
  <2> QED
    BY <1>1, <2>2, <2>3 DEF HistoryInv
<1>9. ShownInv'
  <2> SUFFICES ASSUME NEW i \in 1 .. Len(voices)
               PROVE  Shown(voices[i].id)' \in {Unseen, voices[i].label}
    BY <1>1 DEF ShownInv
  <2>1. \A s \in Sentence : s = voices[i].id => Shown(s)' = Shown(s)
    BY <1>5, <1>7
  <2>2. Shown(voices[i].id)' = Shown(voices[i].id)
    BY <1>1, <1>7, <2>1 DEF Shown, Relabelled
  <2> QED
    BY <2>2 DEF ShownInv
<1>10. NamesFollowGroups'
  BY <1>1 DEF NamesFollowGroups
<1> QED
  BY <1>5, <1>6, <1>8, <1>9, <1>10

(* The steps that touch neither a label nor a sentence. *)
LEMMA QuietKeeps ==
  ASSUME SpeakersInv, Announce \/ NotDue  PROVE SpeakersInv'
<1> USE DEF SpeakersInv
<1>1. UNCHANGED <<enabled, known, sentences, voices, since, finals, moved>>
      /\ UNCHANGED <<screen, live, grouping>>
  BY DEF Announce, NotDue, history
<1>2. \/ at = "idle" /\ at' = "announcing"
      \/ at = "announcing" /\ at' = "sending"
  BY DEF Announce, NotDue
<1>3. TypeOK' /\ RoundInv'
  BY <1>1, <1>2 DEF TypeOK, RoundInv
<1>4. HistoryInv' /\ SentencesInv' /\ NamesFollowGroups'
  BY <1>1 DEF HistoryInv, SentencesInv, NamesFollowGroups
<1>5. ShownInv'
  BY <1>1 DEF ShownInv, Shown, Relabelled
<1> QED
  BY <1>3, <1>4, <1>5

(* The history goes with the stage. *)
LEMMA SwitchedOffKeeps ==
  ASSUME SpeakersInv, SwitchedOff  PROVE SpeakersInv'
<1> USE DEF SpeakersInv
<1>1. /\ UNCHANGED <<at, known, sentences, finals, moved, screen>>
      /\ UNCHANGED <<live, grouping>>
      /\ enabled' = FALSE /\ voices' = <<>> /\ since' = 0
      /\ at = "announcing"
  BY DEF SwitchedOff
<1>2. TypeOK'
  <2>1. since' \in 0 .. MaxSentences
    BY <1>1, TypesAre
  <2>2. voices' \in Seq([id : Sentence, label : Name])
        /\ Len(voices') <= MaxVoices
    BY <1>1, TypesAre
  <2>3. enabled' \in BOOLEAN
    BY <1>1
  <2> QED
    BY <1>1, <2>1, <2>2, <2>3 DEF TypeOK
<1>3. RoundInv' /\ SentencesInv'
  BY <1>1 DEF RoundInv, SentencesInv
<1>4. HistoryInv' /\ ShownInv'
  BY <1>1, TypesAre DEF HistoryInv, ShownInv
<1>5. NamesFollowGroups'
  BY <1>1 DEF NamesFollowGroups, RoundInv
<1> QED
  BY <1>2, <1>3, <1>4, <1>5

(* The dropped finals are of sentences the client has no row of. *)
LEMMA AnnounceRaisesKeeps ==
  ASSUME SpeakersInv, AnnounceRaises  PROVE SpeakersInv'
<1> USE DEF SpeakersInv
<1>1. /\ UNCHANGED <<enabled, known, sentences, voices, since, moved>>
      /\ UNCHANGED <<screen, live, grouping>>
      /\ at = "announcing" /\ at' = "idle" /\ finals' = {}
  BY DEF AnnounceRaises, history
<1>2. TypeOK' /\ RoundInv' /\ HistoryInv' /\ SentencesInv'
  BY <1>1 DEF TypeOK, RoundInv, HistoryInv, SentencesInv
<1>3. ShownInv'
  <2> SUFFICES ASSUME NEW i \in 1 .. Len(voices)
               PROVE  screen[voices[i].id] \in {Unseen, voices[i].label}
    BY <1>1 DEF ShownInv, Shown, Relabelled, RoundInv
  <2>1. voices[i].id \in Sentence
    BY VoicesAre
  <2>2. voices[i].id \in finals => screen[voices[i].id] = Unseen
    BY <2>1 DEF SentencesInv
  <2>3. voices[i].id \notin finals =>
          screen[voices[i].id] \in {Unseen, voices[i].label}
    BY <1>1 DEF ShownInv, Shown, Relabelled, RoundInv
  <2> QED
    BY <2>2, <2>3
<1>4. NamesFollowGroups'
  BY <1>1 DEF NamesFollowGroups
<1> QED
  BY <1>2, <1>3, <1>4

(* Another session starts with nothing. *)
LEMMA NewSessionKeeps ==
  ASSUME SpeakersInv, NewSession  PROVE SpeakersInv'
<1> USE DEF SpeakersInv
<1>1. /\ UNCHANGED <<at, finals, moved, grouping>>
      /\ enabled' = TRUE /\ known' = 0 /\ sentences' = 0
      /\ voices' = <<>> /\ since' = 0
      /\ screen' = NoLabels /\ live' = NoLabels /\ at = "idle"
  BY DEF NewSession
<1>2. NoLabels \in [Sentence -> Label \cup {Unseen}]
      /\ \A s \in Sentence : NoLabels[s] = Unseen
  BY DEF NoLabels
<1>3. TypeOK'
  <2>1. /\ screen' \in [Sentence -> Label \cup {Unseen}]
        /\ live' \in [Sentence -> Label \cup {Unseen}]
    BY <1>1, <1>2
  <2>2. known' \in 0 .. MaxSpeakers /\ sentences' \in 0 .. MaxSentences
        /\ since' \in 0 .. MaxSentences /\ enabled' \in BOOLEAN
    BY <1>1, TypesAre
  <2>3. voices' \in Seq([id : Sentence, label : Name])
        /\ Len(voices') <= MaxVoices
    BY <1>1, TypesAre
  <2> QED
    BY <1>1, <2>1, <2>2, <2>3 DEF TypeOK
<1>4. RoundInv' /\ HistoryInv' /\ ShownInv'
  BY <1>1 DEF RoundInv, HistoryInv, ShownInv
<1>5. SentencesInv'
  BY <1>1, <1>2 DEF SentencesInv, RoundInv, Unseen
<1>6. NamesFollowGroups'
  BY <1>1 DEF NamesFollowGroups, RoundInv
<1> QED
  BY <1>3, <1>4, <1>5, <1>6

(* What is sent is shown. *)
LEMMA ReceivedKeeps ==
  ASSUME SpeakersInv, Received  PROVE SpeakersInv'
<1> USE DEF SpeakersInv
<1>1. /\ UNCHANGED <<enabled, known, sentences, voices, since, live>>
      /\ finals' = {} /\ moved' = {} /\ grouping' = <<>> /\ at' = "idle"
      /\ screen' = [s \in Sentence |-> Shown(s)]
  BY DEF Received, history, Shown
<1>2. ASSUME NEW s \in Sentence  PROVE Shown(s) \in Label \cup {Unseen}
  <2> DEFINE label == IF s \in finals THEN live[s] ELSE screen[s]
  <2>1. label \in Label \cup {Unseen}
    BY DEF TypeOK
  <2>2. \A m \in moved : m.label \in Label
    BY DEF TypeOK, Label
  <2> QED
    BY <2>1, <2>2 DEF Shown, Relabelled
<1>3. TypeOK'
  BY <1>1, <1>2 DEF TypeOK
<1>4. RoundInv' /\ HistoryInv' /\ NamesFollowGroups'
  BY <1>1 DEF RoundInv, HistoryInv, NamesFollowGroups
<1>5. SentencesInv'
  <2>1. ASSUME NEW s \in Sentence, s > sentences  PROVE Shown(s) = Unseen
    BY <2>1 DEF SentencesInv, Shown, Relabelled
  <2> QED
    BY <1>1, <2>1 DEF SentencesInv
<1>6. ShownInv'
  <2> SUFFICES ASSUME NEW i \in 1 .. Len(voices)
               PROVE  screen'[voices[i].id] \in {Unseen, voices[i].label}
    BY <1>1 DEF ShownInv, Shown, Relabelled
  <2>1. voices[i].id \in Sentence
    BY VoicesAre
  <2>2. screen'[voices[i].id] = Shown(voices[i].id)
    BY <1>1, <2>1
  <2> QED
    BY <2>2 DEF ShownInv
<1> QED
  BY <1>3, <1>4, <1>5, <1>6

-----------------------------------------------------------------------------
(* A clustering.                                                           *)

(* What a clustering of the voices leaves, whichever way it groups them.   *)
Clustered(g) ==
  /\ at = "announcing" /\ at' = "sending"
  /\ g \in Groupings(Len(voices))
  /\ grouping' = g
  /\ moved' = Corrections(g, Named(Groups(g)))
  /\ voices' = Called(g, Named(Groups(g)))
  /\ since' = 0
  /\ UNCHANGED <<enabled, known, sentences, finals, screen, live>>

(* A clustering is one of these, of two voices or more. *)
LEMMA ReclusterIs ==
  ASSUME Recluster
  PROVE  \E g : Clustered(g) /\ Len(voices) >= 2
BY DEF Recluster, Clustered, Due

(* The groups of the voices, and what each voice is called. *)
LEMMA ClusteredIs ==
  ASSUME TypeOK, NEW g, Clustered(g)
  PROVE  /\ DOMAIN g = 1 .. Len(voices)
         /\ AreGroups(Groups(g), Len(voices))
         /\ Named(Groups(g)) \in [DOMAIN Groups(g) -> Name]
         /\ \A i \in 1 .. Len(voices) :
              g[i] \in DOMAIN Groups(g) /\ Named(Groups(g))[g[i]] \in Name
         /\ voices' \in Seq(Voice) /\ Len(voices') = Len(voices)
         /\ \A i \in 1 .. Len(voices) :
              /\ voices'[i].id = voices[i].id
              /\ voices'[i].label = Named(Groups(g))[g[i]]
<1> DEFINE n == Len(voices)
           names == Named(Groups(g))
<1>1. n \in Nat /\ g \in Groupings(n) /\ Labelled(n) /\ DOMAIN voices = 1 .. n
      /\ \A i \in 1 .. n : voices[i] \in Voice
  BY VoicesAre DEF Clustered
<1>2. DOMAIN g = 1 .. n /\ AreGroups(Groups(g), n)
      /\ \A i \in 1 .. n : g[i] \in DOMAIN Groups(g)
  BY <1>1, GroupsIs DEF AreGroups
<1>3. names \in [DOMAIN Groups(g) -> Name]
  BY <1>1, <1>2, NamedInName
<1>4. \A i \in 1 .. n : names[g[i]] \in Name
  BY <1>2, <1>3
<1>5. voices' = [i \in 1 .. n |-> [voices[i] EXCEPT !.label = names[g[i]]]]
  BY <1>1 DEF Clustered, Called
<1> HIDE DEF n, names
<1>6. ASSUME NEW i \in 1 .. n
      PROVE  /\ voices'[i] \in Voice /\ voices'[i].id = voices[i].id
             /\ voices'[i].label = names[g[i]]
  <2>1. /\ voices'[i] = [voices[i] EXCEPT !.label = names[g[i]]]
        /\ voices[i] \in Voice /\ names[g[i]] \in Name
    BY <1>1, <1>4, <1>5
  <2> QED
    BY <2>1 DEF Voice
<1>7. voices' \in Seq(Voice) /\ Len(voices') = n
  <2>1. voices' \in [1 .. n -> Voice]
    BY <1>5, <1>6
  <2> QED
    BY <1>1, <2>1
<1> QED
  BY <1>2, <1>3, <1>4, <1>6, <1>7 DEF n, names

(* A correction is about a voice whose label was another. *)
LEMMA CorrectionIs ==
  ASSUME TypeOK, NEW g, Clustered(g), NEW m
  PROVE  m \in moved' <=>
           \E i \in 1 .. Len(voices) :
             /\ voices[i].label # Named(Groups(g))[g[i]]
             /\ m = [id |-> voices[i].id, label |-> Named(Groups(g))[g[i]]]
BY VoicesAre DEF Clustered, Corrections

(* Corrected or left alone, a voice is shown under the label it has now:   *)
(* its id is in at most one correction. Groups share no label.             *)
LEMMA ReclusterKeeps ==
  ASSUME SpeakersInv, Recluster  PROVE SpeakersInv'
<1> USE DEF SpeakersInv
<1>1. PICK g : Clustered(g)
  BY ReclusterIs
<1> DEFINE n == Len(voices)
           G == Groups(g)
           names == Named(G)
<1>2. /\ AreGroups(G, n) /\ DOMAIN g = 1 .. n
      /\ \A i \in 1 .. n : g[i] \in DOMAIN G /\ names[g[i]] \in Name
      /\ voices' \in Seq(Voice) /\ Len(voices') = n
      /\ \A i \in 1 .. n :
           /\ voices'[i].id = voices[i].id
           /\ voices'[i].label = names[g[i]]
  BY <1>1, ClusteredIs
<1>3. /\ n \in Nat /\ n <= MaxVoices /\ Labelled(n) /\ DOMAIN voices = 1 .. n
      /\ \A i \in 1 .. n : voices[i].id \in Sentence
      /\ DOMAIN voices' = 1 .. n
  BY <1>2, VoicesAre
<1>4. /\ at = "announcing" /\ at' = "sending" /\ grouping' = g /\ since' = 0
      /\ g \in Groupings(n)
      /\ UNCHANGED <<enabled, known, sentences, finals, screen, live>>
  BY <1>1 DEF Clustered
<1>5. \A m : m \in moved' <=>
        \E i \in 1 .. n : /\ voices[i].label # names[g[i]]
                          /\ m = [id |-> voices[i].id, label |-> names[g[i]]]
  BY <1>1, CorrectionIs
<1>6. \A i, j \in 1 .. n : voices[i].id = voices[j].id => i = j
  <2> SUFFICES ASSUME NEW i \in 1 .. n, NEW j \in 1 .. n, i # j
               PROVE  voices[i].id # voices[j].id
    OBVIOUS
  <2>1. i < j \/ j < i
    BY <1>3
  <2>2. voices[i].id \in Nat /\ voices[j].id \in Nat
    BY <1>3, TypesAre
  <2> QED
    BY <2>1, <2>2 DEF HistoryInv
<1> HIDE DEF n, G, names
<1>7. TypeOK'
  <2>1. moved' \subseteq [id : Sentence, label : Name]
    BY <1>2, <1>3, <1>5
  <2>2. grouping' \in Seq(Nat)
    BY <1>3, <1>4 DEF Groupings
  <2>3. since' \in 0 .. MaxSentences
    BY <1>4, TypesAre
  <2> QED
    BY <1>2, <1>3, <1>4, <2>1, <2>2, <2>3 DEF TypeOK, Voice
<1>8. RoundInv'
  BY <1>4 DEF RoundInv
<1>9. HistoryInv'
  <2>1. since' <= sentences'
    BY <1>4, TypesAre
  <2>2. \A i \in 1 .. n : voices[i].id <= sentences
    BY DEF HistoryInv, n
  <2>3. \A i, j \in 1 .. n : i < j => voices[i].id < voices[j].id
    BY DEF HistoryInv, n
  <2> QED
    BY <1>2, <1>4, <2>1, <2>2, <2>3 DEF HistoryInv
<1>10. SentencesInv'
  BY <1>4 DEF SentencesInv
<1>11. ShownInv'
  <2> SUFFICES ASSUME NEW i \in 1 .. n
               PROVE  Shown(voices[i].id)' \in {Unseen, names[g[i]]}
    BY <1>2 DEF ShownInv
  <2> DEFINE s == voices[i].id
             label == IF s \in finals THEN live[s] ELSE screen[s]
  <2>1. label \in {Unseen, voices[i].label}
    <3>1. Shown(s) = label
      BY <1>4 DEF RoundInv, Shown, Relabelled
    <3> QED
      BY <3>1 DEF ShownInv, n
  <2>2. Shown(voices[i].id)' =
          IF label = Unseen \/ ~\E m \in moved' : m.id = s THEN label
          ELSE (CHOOSE m \in moved' : m.id = s).label
    BY <1>2, <1>4 DEF Shown, Relabelled
  <2> HIDE DEF label
  <2>3. CASE label = Unseen
    BY <2>2, <2>3
  <2>4. CASE label # Unseen /\ voices[i].label = names[g[i]]
    <3>1. ASSUME NEW m \in moved', m.id = s  PROVE FALSE
      <4>1. PICK j \in 1 .. n :
              /\ voices[j].label # names[g[j]]
              /\ m = [id |-> voices[j].id, label |-> names[g[j]]]
        BY <1>5
      <4>2. j = i
        BY <1>6, <3>1, <4>1
      <4> QED
        BY <2>4, <4>1, <4>2
    <3> QED
      BY <2>1, <2>2, <2>4, <3>1
  <2>5. CASE label # Unseen /\ voices[i].label # names[g[i]]
    <3> DEFINE c == [id |-> s, label |-> names[g[i]]]
    <3>1. c \in moved' /\ c.id = s
      BY <1>5, <2>5
    <3>2. ASSUME NEW m \in moved', m.id = s  PROVE m.label = names[g[i]]
      <4>1. PICK j \in 1 .. n :
              /\ voices[j].label # names[g[j]]
              /\ m = [id |-> voices[j].id, label |-> names[g[j]]]
        BY <1>5
      <4>2. j = i
        BY <1>6, <3>2, <4>1
      <4> QED
        BY <4>1, <4>2
    <3> QED
      BY <2>2, <2>5, <3>1, <3>2
  <2> QED
    BY <2>3, <2>4, <2>5
<1>12. NamesFollowGroups'
  <2> SUFFICES ASSUME NEW i \in 1 .. n, NEW j \in 1 .. n
               PROVE  voices'[i].label = voices'[j].label <=> g[i] = g[j]
    BY <1>2, <1>3, <1>4 DEF NamesFollowGroups
  <2>1. voices'[i].label = names[g[i]] /\ voices'[j].label = names[g[j]]
    BY <1>2
  <2>2. g[i] # g[j] => names[g[i]] # names[g[j]]
    BY <1>2, <1>3, NamedIsInjective DEF names
  <2> QED
    BY <2>1, <2>2
<1> QED
  BY <1>7, <1>8, <1>9, <1>10, <1>11, <1>12

-----------------------------------------------------------------------------
(* The theorems.                                                           *)

(* Every step keeps the invariant. *)
LEMMA NextKeeps ==
  ASSUME SpeakersInv, [Next]_vars  PROVE SpeakersInv'
<1>1. CASE UNCHANGED vars
  <2>1. UNCHANGED <<at, enabled, known, sentences, voices, since, finals>>
        /\ UNCHANGED <<moved, screen, live, grouping>>
    BY <1>1 DEF vars, history
  <2> QED
    BY <2>1 DEF SpeakersInv, TypeOK, RoundInv, HistoryInv, SentencesInv,
                ShownInv, Shown, Relabelled, NamesFollowGroups
<1>2. CASE NewSession
  BY <1>2, NewSessionKeeps
<1>3. CASE Announce \/ NotDue
  BY <1>3, QuietKeeps
<1>4. CASE Identified
  BY <1>4, IdentifiedKeeps
<1>5. CASE Unidentified
  BY <1>5, UnidentifiedKeeps
<1>6. CASE SwitchedOff
  BY <1>6, SwitchedOffKeeps
<1>7. CASE AnnounceRaises
  BY <1>7, AnnounceRaisesKeeps
<1>8. CASE Recluster
  BY <1>8, ReclusterKeeps
<1>9. CASE Received
  BY <1>9, ReceivedKeeps
<1> QED
  BY <1>1, <1>2, <1>3, <1>4, <1>5, <1>6, <1>7, <1>8, <1>9 DEF Next

(* It holds in every state. *)
LEMMA InvHolds == Spec => []SpeakersInv
BY InitKeeps, NextKeeps, PTL DEF Spec

(* Every variable keeps its type, and the history its size: in particular  *)
(* there is a spare label for every group that needs one.                  *)
THEOREM TypeCorrect == Spec => []TypeOK
<1>1. SpeakersInv => TypeOK
  BY DEF SpeakersInv
<1> QED
  BY <1>1, InvHolds, PTL

(* Between results the client shows every voice of the history under the   *)
(* label the history holds (Relabelled, _relabel; Corrections, recluster). *)
THEOREM ScreenIsRight == Spec => []ScreenFollowsHistory
<1>1. ASSUME SpeakersInv  PROVE ScreenFollowsHistory
  <2> USE DEF SpeakersInv
  <2>1. SUFFICES ASSUME at = "idle", NEW i \in 1 .. Len(voices)
                 PROVE  screen[voices[i].id] \in {Unseen, voices[i].label}
    BY <1>1, VoicesAre DEF ScreenFollowsHistory
  <2>2. finals = {} /\ moved = {}
    BY <1>1, <2>1 DEF RoundInv
  <2>3. Shown(voices[i].id) = screen[voices[i].id]
    BY <2>2 DEF Shown, Relabelled
  <2> QED
    BY <1>1, <2>1, <2>3 DEF ShownInv
<1> QED
  BY <1>1, InvHolds, PTL

(* After a clustering two voices share a label exactly when they share a   *)
(* group, and a group gives up a label its members carried only to a       *)
(* larger one, or for one at least as many of them carry (name_clusters).  *)
THEOREM GroupsKeepTheirNames == Spec => GroupsKeepNames
<1>1. SpeakersInv => NamesFollowGroups
  BY DEF SpeakersInv
<1> DEFINE Put ==
      grouping' # <<>> /\ grouping = <<>> =>
       LET G      == Groups(grouping')
           new(f) == voices'[f].label
       IN \A f \in DOMAIN G :
            \A n \in {voices[i].label : i \in G[f]} \ {new(f)} :
              \/ Votes(G[f], new(f)) >= Votes(G[f], n)
              \/ \E h \in DOMAIN G \ {f} :
                   /\ new(h) = n
                   /\ Votes(G[h], n) > 0
                   /\ Cardinality(G[h]) >= Cardinality(G[f])
<1>2. ASSUME SpeakersInv, Recluster  PROVE Put
  <2> USE DEF SpeakersInv
  <2>1. PICK g : Clustered(g)
    BY <1>2, ReclusterIs
  <2> DEFINE G == Groups(g)
             names == Named(G)
             new(f) == voices'[f].label
             N == Len(voices)
  <2>2. /\ AreGroups(G, N) /\ Labelled(N) /\ grouping' = g /\ N \in Nat
        /\ g \in Groupings(N)
        /\ \A i \in 1 .. N : voices'[i].label = names[g[i]]
    BY <1>2, <2>1, ClusteredIs, VoicesAre DEF Clustered
  <2>3. \A f \in DOMAIN G : f \in 1 .. N /\ g[f] = f
    BY <2>2, GroupsIs
  <2>4. \A f \in DOMAIN G : new(f) = names[f]
    BY <2>2, <2>3
  <2> HIDE DEF G, names, new, N
  <2>5. ASSUME NEW f \in DOMAIN G, NEW i \in G[f]
        PROVE  \/ Votes(G[f], new(f)) >= Votes(G[f], voices[i].label)
               \/ \E h \in DOMAIN G \ {f} :
                    /\ new(h) = voices[i].label
                    /\ Votes(G[h], voices[i].label) > 0
                    /\ Cardinality(G[h]) >= Cardinality(G[f])
    BY <2>2, <2>4, NamedStaysPut DEF names
  <2> QED
    BY <2>2, <2>5 DEF G, new
<1>3. ASSUME SpeakersInv, [Next]_vars, ~Recluster  PROVE Put
  <2>1. grouping' = <<>> \/ grouping' = grouping
    BY <1>3 DEF Next, vars, NewSession, Announce, Identified, Unidentified,
                SwitchedOff, AnnounceRaises, NotDue, Received
  <2> QED
    BY <2>1
<1>4. SpeakersInv /\ [Next]_vars => Put
  BY <1>2, <1>3
<1> HIDE DEF Put
<1>5. Spec => [][Put]_vars
  BY <1>4, InvHolds, PTL DEF Spec
<1>6. [][Put]_vars => NamesStayPut
  BY PTL DEF NamesStayPut, Put
<1> QED
  BY <1>1, <1>5, <1>6, InvHolds, PTL DEF GroupsKeepNames

(* A new voice's label is on screen only for sentences a clustering moved  *)
(* to it: the matcher never gave it before (NewLabel, label_for).          *)
THEOREM NewVoicesAreNew == Spec => NewVoiceIsNew
<1> DEFINE New ==
      known' > known /\ sentences' > sentences =>
       \A s \in Sentence :
         screen[s] = live'[sentences'] => screen[s] # live[s]
<1>1. ASSUME SpeakersInv, Identified, known' > known, sentences' > sentences,
             NEW s \in Sentence, screen[s] = live'[sentences']
      PROVE  screen[s] # live[s]
  <2> USE DEF SpeakersInv
  <2>1. sentences \in Nat /\ known \in Nat /\ live[s] \in Int
    BY <1>1, TypesAre
  <2>2. PICK label \in Name :
          /\ Matched(label) \/ Founded(label)
          /\ Commit(label) \/ UNCHANGED <<sentences, finals, live, history>>
    BY <1>1 DEF Identified
  <2>3. label = known + 1
    BY <1>1, <2>2, AssignedIs
  <2>4. Commit(label)
    BY <1>1, <2>1, <2>2
  <2>5. live'[sentences'] = label
    <3>1. sentences' \in Sentence
      BY <1>1, <2>1, <2>4, TypesAre DEF Commit, Sentence
    <3> QED
      BY <1>1, <2>4, <3>1 DEF Commit, TypeOK
  <2>6. live[s] <= known
    BY <1>1 DEF SentencesInv
  <2> QED
    BY <1>1, <2>1, <2>3, <2>5, <2>6
<1>2. ASSUME SpeakersInv, [Next]_vars, ~Identified, known' > known
      PROVE  FALSE
  <2>1. known \in Nat
    BY <1>2, TypesAre DEF SpeakersInv
  <2>2. known' = known \/ known' = 0
    BY <1>2 DEF Next, vars, NewSession, Announce, Unidentified, SwitchedOff,
                AnnounceRaises, Recluster, NotDue, Received
  <2> QED
    BY <1>2, <2>1, <2>2
<1>3. SpeakersInv /\ [Next]_vars => New
  BY <1>1, <1>2
<1> HIDE DEF New
<1>4. Spec => [][New]_vars
  BY <1>3, InvHolds, PTL DEF Spec
<1>5. [][New]_vars => NewVoiceIsNew
  BY PTL DEF NewVoiceIsNew, New
<1> QED
  BY <1>4, <1>5

=============================================================================
