------------------------------ MODULE Speakers ------------------------------
(***************************************************************************)
(* Who said what: the live matcher (server/pipeline/diarization.py), the   *)
(* second thoughts about its answers (server/pipeline/reclustering.py),    *)
(* and the session that carries both to the client (server/net/session.py).*)
(*                                                                         *)
(* Voiceprints are left out.  Whether one matches a known voice, and how   *)
(* the clustering groups the voices it is given, may come out in any way;  *)
(* what is kept is what the code does with the outcome: which label a new  *)
(* voice gets, which label each group is given, and what the client is     *)
(* told.  Speaker_01, Speaker_02, ... are the numbers 1, 2, ...            *)
(*                                                                         *)
(* A definition no action uses, directly above another one (ForgetNobody   *)
(* above Remember, ...), is a broken form of it, which one of the         *)
(* properties at the end is there to catch.                                *)
(***************************************************************************)
EXTENDS Integers, Sequences, FiniteSets

CONSTANTS
  MaxSpeakers,   \* SpeakerRegistry.max_speakers
  Every,         \* SpeakerHistory.every
  MaxVoices,     \* SpeakerHistory.max_voices
  MaxSentences   \* bound: sentences of one session

ASSUME LimitsAssumption ==
  MaxSpeakers \in Nat \ {0} /\ Every \in Nat \ {0} /\ MaxVoices \in Nat \ {0}
ASSUME BoundAssumption == MaxSentences \in Nat

Sentence  == 1 .. MaxSentences
Name      == 1 .. MaxSpeakers + MaxVoices
Unknown   == 0    \* SPEAKER_UNKNOWN
NoName    == 0    \* a group that has no label yet
Nobody    == -1   \* the label when no speaker stage ran
Unseen    == -2   \* no row of that sentence on screen

VARIABLES
  at,         \* the session: "idle", "announcing" a result, or "sending"
              \*   its messages
  enabled,    \* is the speaker stage still on?
  known,      \* SpeakerRegistry.speakers: 1 .. known are taken
  sentences,  \* ServerSession._sentences
  voices,     \* SpeakerHistory.voices
  since,      \* SpeakerHistory._since
  finals,     \* the finals among the messages of the result
  moved,      \* the corrections among them
  screen,     \* the label the client shows of each sentence
  live,       \* the label the live matcher gave to each
  grouping    \* of each voice, the first one of its group, when the result
              \*   ended with a clustering

history == <<voices, since>>
vars == <<at, enabled, known, sentences, history, finals, moved, screen, live,
          grouping>>

NoLabels == [s \in Sentence |-> Unseen]

Init ==
  /\ at = "idle" /\ enabled = TRUE
  /\ known = 0 /\ sentences = 0
  /\ voices = <<>> /\ since = 0
  /\ finals = {} /\ moved = {}
  /\ screen = NoLabels /\ live = NoLabels
  /\ grouping = <<>>

-----------------------------------------------------------------------------
(* The live matcher, and the sentence it is about.                         *)

(* A result of the buffer that has utterances in it. *)
Announce ==
  /\ at = "idle" /\ sentences < MaxSentences
  /\ at' = "announcing"
  /\ UNCHANGED <<enabled, known, sentences, history, finals, moved, screen,
                 live, grouping>>

(* The label of a new voice. *)
LastLabelAgain(n) == IF n = 0 THEN 1 ELSE n
NewLabel(n) == n + 1

(* assign(): the closest known voice, near enough or because the limit is  *)
(* reached, or a voice of its own.                                         *)
Matched(label) == label \in 1 .. known /\ known' = known
Founded(label) ==
  /\ known < MaxSpeakers
  /\ known' = known + 1
  /\ label = NewLabel(known)

(* Remembering a voice, the oldest one leaving for it. *)
ForgetNobody(voice) == Append(voices, voice)
Remember(voice) ==
  LET all == Append(voices, voice)
  IN IF Len(all) > MaxVoices THEN Tail(all) ELSE all

(* _commit_sentence: the sentence is numbered, its voice remembered, and   *)
(* its final joins the messages of the result.                             *)
Commit(label) ==
  /\ sentences < MaxSentences
  /\ sentences' = sentences + 1
  /\ finals' = finals \cup {sentences'}
  /\ live' = [live EXCEPT ![sentences'] = label]

(* An utterance whose voice the matcher recognises: with words in it, it   *)
(* becomes a sentence, without it leaves its mark on the registry alone.   *)
Identified ==
  /\ at = "announcing" /\ enabled
  /\ \E label \in Name :
       /\ Matched(label) \/ Founded(label)
       /\ \/ /\ Commit(label)
             /\ voices' = Remember([id |-> sentences', label |-> label])
             /\ since' = since + 1
          \/ UNCHANGED <<sentences, finals, live, history>>
  /\ UNCHANGED <<at, enabled, moved, screen, grouping>>

(* One too short for a voiceprint, or whose voiceprint is of no use, or on *)
(* which the stage raised, or after it was switched off: a sentence, but   *)
(* no voice to remember.                                                   *)
Unidentified ==
  /\ at = "announcing"
  /\ Commit(Nobody) \/ (enabled /\ Commit(Unknown))
  /\ UNCHANGED <<at, enabled, known, history, moved, screen, grouping>>

(* The speaker stage is switched off, and the history goes with it. *)
SwitchedOff ==
  /\ at = "announcing" /\ enabled
  /\ enabled' = FALSE
  /\ voices' = <<>> /\ since' = 0
  /\ UNCHANGED <<at, known, sentences, finals, moved, screen, live, grouping>>

(* An exception leaves _announce: the messages of the result are dropped,  *)
(* what was remembered is not (modules Pipeline, Transcript).              *)
AnnounceRaises ==
  /\ at = "announcing"
  /\ at' = "idle"
  /\ finals' = {}
  /\ UNCHANGED <<enabled, known, sentences, history, moved, screen, live,
                 grouping>>

-----------------------------------------------------------------------------
(* Second thoughts.                                                        *)

(* Every way of grouping n voices, each voice pointing at the first of its *)
(* group, as cluster() merges the later group into the earlier.            *)
Groupings(n) ==
  {g \in [1 .. n -> 1 .. n] : \A i \in 1 .. n : g[i] <= i /\ g[g[i]] = g[i]}

Groups(g) ==
  [f \in {f \in DOMAIN g : g[f] = f} |-> {i \in DOMAIN g : g[i] = f}]

First(S) == CHOOSE i \in S : \A j \in S : i <= j
Votes(G, n) == Cardinality({i \in G : voices[i].label = n})

(* The larger group chooses first, of two of a size the one that spoke     *)
(* first.                                                                  *)
Before(G, f) ==
  {h \in DOMAIN G : \/ Cardinality(G[h]) > Cardinality(G[f])
                    \/ Cardinality(G[h]) = Cardinality(G[f]) /\ h < f}

(* The labels a group may keep, and the one most of its members carry, the *)
(* one met first when as many carry another.                               *)
Wanted(G, taken) == {voices[i].label : i \in G} \ taken

FirstSeen(G, taken) ==
  voices[First({i \in G : voices[i].label \in Wanted(G, taken)})].label
Favourite(G, taken) ==
  LET seen(n) == First({i \in G : voices[i].label = n})
      wanted == Wanted(G, taken)
  IN CHOOSE n \in wanted :
       \A m \in wanted \ {n} :
         \/ Votes(G, n) > Votes(G, m)
         \/ Votes(G, n) = Votes(G, m) /\ seen(n) < seen(m)

Spare(taken) == First(Name \ taken)

(* name_clusters(): a label for each group, by the voice at its head.      *)
Taken(names, S) == {names[f] : f \in S}

Kept(G) ==
  LET kept[f \in DOMAIN G] ==
        LET taken == Taken(kept, Before(G, f))
        IN IF Wanted(G[f], taken) = {} THEN NoName
           ELSE Favourite(G[f], taken)
  IN [f \in DOMAIN G |-> kept[f]]

Named(G) ==
  LET kept == Kept(G)
      named[f \in DOMAIN G] ==
        IF kept[f] # NoName THEN kept[f]
        ELSE Spare(Taken(kept, DOMAIN G) \cup Taken(named, Before(G, f)))
  IN [f \in DOMAIN G |-> named[f]]

Due == since >= Every /\ Len(voices) >= 2

(* What the voices are called after it, and what the client is told of it. *)
CalledAsBefore(g, names) == voices
Called(g, names) ==
  [i \in DOMAIN voices |-> [voices[i] EXCEPT !.label = names[g[i]]]]

Corrections(g, names) ==
  {[id |-> voices[i].id, label |-> names[g[i]]] :
     i \in {j \in DOMAIN voices : voices[j].label # names[g[j]]}}

(* _recluster_speakers(), at the end of _announce. *)
Recluster ==
  /\ at = "announcing" /\ Due
  /\ \E g \in Groupings(Len(voices)) :
       \E names \in {Named(Groups(g))} :
         /\ grouping' = g
         /\ moved' = Corrections(g, names)
         /\ voices' = Called(g, names)
  /\ since' = 0
  /\ at' = "sending"
  /\ UNCHANGED <<enabled, known, sentences, finals, screen, live>>

NotDue ==
  /\ at = "announcing" /\ ~Due
  /\ at' = "sending"
  /\ UNCHANGED <<enabled, known, sentences, history, finals, moved, screen,
                 live, grouping>>

-----------------------------------------------------------------------------
(* The client shows the finals, then the corrections (_relabel): one about *)
(* a sentence it has no row of changes nothing.                            *)
Relabelled(s, label) ==
  IF label = Unseen \/ ~\E m \in moved : m.id = s THEN label
  ELSE (CHOOSE m \in moved : m.id = s).label

Received ==
  /\ at = "sending"
  /\ screen' = [s \in Sentence |->
                  Relabelled(s, IF s \in finals THEN live[s] ELSE screen[s])]
  /\ finals' = {} /\ moved' = {} /\ grouping' = <<>>
  /\ at' = "idle"
  /\ UNCHANGED <<enabled, known, sentences, history, live>>

(* Another hello: the registry starts over, and so does the history. *)
NewSession ==
  /\ at = "idle" /\ sentences > 0
  /\ enabled' = TRUE
  /\ known' = 0 /\ sentences' = 0
  /\ voices' = <<>> /\ since' = 0
  /\ screen' = NoLabels /\ live' = NoLabels
  /\ UNCHANGED <<at, finals, moved, grouping>>

Next ==
  \/ NewSession
  \/ Announce \/ Identified \/ Unidentified \/ SwitchedOff \/ AnnounceRaises
  \/ Recluster \/ NotDue \/ Received

Spec == Init /\ [][Next]_vars

-----------------------------------------------------------------------------
(* Properties.                                                             *)

Label == Name \cup {Unknown, Nobody}

(* Every variable has its type, and the history keeps to its size. *)
TypeOK ==
  /\ at \in {"idle", "announcing", "sending"}
  /\ enabled \in BOOLEAN
  /\ known \in 0 .. MaxSpeakers
  /\ sentences \in 0 .. MaxSentences
  /\ voices \in Seq([id : Sentence, label : Name]) /\ Len(voices) <= MaxVoices
  /\ since \in 0 .. MaxSentences
  /\ finals \subseteq Sentence
  /\ moved \subseteq [id : Sentence, label : Name]
  /\ screen \in [Sentence -> Label \cup {Unseen}]
  /\ live \in [Sentence -> Label \cup {Unseen}]
  /\ grouping \in Seq(Nat)

(* What the client shows of a voice is what the history holds of it: no    *)
(* correction is lost and none is about another sentence, so that a label  *)
(* the next clustering leaves alone is right on screen as well.            *)
ScreenFollowsHistory ==
  at = "idle" =>
    \A i \in DOMAIN voices :
      screen[voices[i].id] \in {Unseen, voices[i].label}

(* After a clustering, the voices of a group share a label, and those of   *)
(* two groups never do, whichever labels the groups competed for.          *)
NamesFollowGroups ==
  grouping # <<>> =>
    \A i, j \in DOMAIN voices :
      voices[i].label = voices[j].label <=> grouping[i] = grouping[j]

(* "Most sentences keep the name they had" (name_clusters): a group loses  *)
(* a label some member carried only to one no smaller that carried it too, *)
(* or for one that at least as many of its own members carried.  A         *)
(* clustering that agrees with the labels moves nothing.                   *)
NamesStayPut ==
  [][grouping' # <<>> /\ grouping = <<>> =>
       LET G      == Groups(grouping')
           new(f) == voices'[f].label
       IN \A f \in DOMAIN G :
            \A n \in {voices[i].label : i \in G[f]} \ {new(f)} :
              \/ Votes(G[f], new(f)) >= Votes(G[f], n)
              \/ \E h \in DOMAIN G \ {f} :
                   /\ new(h) = n
                   /\ Votes(G[h], n) > 0
                   /\ Cardinality(G[h]) >= Cardinality(G[f])]_vars

(* Who competes for a name and who keeps one: the two rules of a           *)
(* clustering together.                                                    *)
GroupsKeepNames == []NamesFollowGroups /\ NamesStayPut

(* "A voice not heard before" (assign) shares its label with a sentence on *)
(* screen only when a clustering had moved that sentence: the registry and *)
(* the clustering number speakers each on its own.                         *)
NewVoiceIsNew ==
  [][known' > known /\ sentences' > sentences =>
       \A s \in Sentence :
         screen[s] = live'[sentences'] => screen[s] # live[s]]_vars
=============================================================================
