----------------------------- MODULE Transcript -----------------------------
(***************************************************************************)
(* What becomes of the server's messages in the window of the client: the  *)
(* lines on screen (client/ui/transcript.py), the minutes on disk          *)
(* (client/record.py), and the window that starts and ends meetings        *)
(* (client/ui/window.py).                                                  *)
(*                                                                         *)
(* Two threads take part.  The meeting's thread posts a Qt signal for each *)
(* message it receives and for its own progress; the Qt thread handles     *)
(* the posted signals in their order and, between two of them, what the    *)
(* user does.  A sentence is the connection it came on and the number the  *)
(* server gave it, which starts at 1 on every connection.  Words are left  *)
(* out: a line remembers the sentence whose translation and whose speaker  *)
(* it shows, so that one that shows another's would show.                  *)
(*                                                                         *)
(* A definition no action uses, directly above another one (Latest above   *)
(* LastOf, ...), is a broken form of it, which one of the properties at    *)
(* the end is there to catch.                                              *)
(***************************************************************************)
EXTENDS Integers, Sequences

CONSTANTS
  MaxRows,        \* TranscriptModel.max_rows
  MaxMeetings,    \* bound: meetings the user starts
  MaxConnects,    \* bound: connections of all of them
  MaxSentences,   \* bound: sentences of one connection
  MaxPosted       \* bound: signals posted and not handled yet

ASSUME RowsAssumption   == MaxRows \in Nat \ {0}
ASSUME BoundsAssumption ==
  /\ MaxMeetings \in Nat /\ MaxConnects \in Nat /\ MaxSentences \in Nat
  /\ MaxPosted \in Nat \ {0}

Meeting  == 1 .. MaxMeetings
Number   == 1 .. MaxSentences
Sentence == [conn : 1 .. MaxConnects, id : Number]
None     == [conn |-> 0, id |-> 0]

VARIABLES
  thread,     \* the meeting's thread: "none", "connecting", "opening"
              \*   the device, "listening", "failing", "ending" (it has
              \*   posted stopped) or "dead"
  requested,  \* MeetingSession._stopping
  conn,       \* the connection it has
  numbered,   \* the server's _sentences on it
  answered,   \* numbers whose translation was sent on it
  revised,    \* were speakers corrected on it?
  missing,    \* sentences with a number whose final was never sent
  posted,     \* the signals the Qt thread has yet to handle
  rows,       \* TranscriptModel.sentences
  index,      \* TranscriptModel._by_id, None where it has no entry
  recorder,   \* the meeting whose minutes the recorder writes, 0 for none
  minutes,    \* the lines of the minutes of each meeting
  button,     \* is the start button enabled?
  window,     \* "open", "closing" or "closed"
  meetings,   \* meetings started; the last one is the thread's
  received,   \* the finals each meeting's thread has received
  hasty       \* meetings started with signals of the last one still posted

server == <<conn, numbered, answered, revised, missing>>
screen == <<rows, index, recorder, minutes>>
ghosts == <<meetings, received, hasty>>
vars == <<thread, requested, server, posted, screen, button, window, ghosts>>

Init ==
  /\ thread = "none" /\ requested = FALSE
  /\ conn = 0 /\ numbered = 0 /\ answered = {} /\ revised = FALSE
  /\ missing = {} /\ posted = <<>>
  /\ rows = <<>> /\ index = [k \in Number |-> None]
  /\ recorder = 0 /\ minutes = [m \in Meeting |-> <<>>]
  /\ button = TRUE /\ window = "open"
  /\ meetings = 0 /\ received = [m \in Meeting |-> <<>>]
  /\ hasty = {}

Alive == thread \notin {"none", "dead"}

Signal(kind, S) == [kind |-> kind, about |-> S]

Post(kind, S) ==
  Len(posted) < MaxPosted /\ posted' = Append(posted, Signal(kind, S))

-----------------------------------------------------------------------------
(* The meeting's thread, and the server behind it.                         *)

Here(k) == [conn |-> conn, id |-> k]

(* A connection is ready: the first of the meeting, or the next one after  *)
(* the last was lost.  The session behind it starts to count from 1.       *)
NewConnection ==
  /\ conn < MaxConnects
  /\ conn' = conn + 1
  /\ numbered' = 0 /\ answered' = {} /\ revised' = FALSE
  /\ UNCHANGED <<requested, missing, screen, button, window, ghosts>>

Connected ==
  /\ thread = "connecting"
  /\ NewConnection
  /\ Post("status", {})
  /\ thread' = "opening"

Reconnected ==
  /\ thread \in {"opening", "listening"}
  /\ NewConnection
  /\ UNCHANGED <<thread, posted>>

(* The capture device is open: the second status of a meeting. *)
Listening ==
  /\ thread = "opening"
  /\ Post("status", {})
  /\ thread' = "listening"
  /\ UNCHANGED <<requested, server, screen, button, window, ghosts>>

(* The server numbers a sentence and sends its final, or an exception      *)
(* keeps the final from being sent (module Pipeline).                      *)
Final ==
  /\ thread = "listening"
  /\ numbered < MaxSentences
  /\ numbered' = numbered + 1
  /\ \/ /\ Post("final", {Here(numbered')})
        /\ received' = [received EXCEPT ![meetings] =
                          Append(@, Here(numbered'))]
        /\ UNCHANGED missing
     \/ /\ missing' = missing \cup {Here(numbered')}
        /\ UNCHANGED <<posted, received>>
  /\ UNCHANGED <<thread, requested, conn, answered, revised, screen, button,
                 window, meetings, hasty>>

(* The translation of a sentence, whether or not its final was sent. *)
Translation ==
  /\ thread = "listening"
  /\ \E k \in 1 .. numbered :
       /\ k \notin answered
       /\ answered' = answered \cup {k}
       /\ Post("translation", {Here(k)})
  /\ UNCHANGED <<thread, requested, conn, numbered, revised, missing, screen,
                 button, window, ghosts>>

(* The corrected speakers of some sentences of the connection. *)
Speakers ==
  /\ thread = "listening"
  /\ ~revised /\ revised' = TRUE
  /\ \E K \in SUBSET (1 .. numbered) :
       K # {} /\ Post("speakers", {Here(k) : k \in K})
  /\ UNCHANGED <<thread, requested, conn, numbered, answered, missing, screen,
                 button, window, ghosts>>

(* The session ends badly, or has not been able to connect. *)
Failed ==
  /\ thread \in {"connecting", "opening", "listening"}
  /\ Post("failed", {})
  /\ thread' = "failing"
  /\ UNCHANGED <<requested, server, screen, button, window, ghosts>>

(* The finally of _run(): the last thing a thread does before it is dead. *)
Ends ==
  /\ thread = "failing" \/ (thread = "listening" /\ requested)
  /\ Post("stopped", {})
  /\ thread' = "ending"
  /\ UNCHANGED <<requested, server, screen, button, window, ghosts>>

Dies ==
  /\ thread = "ending"
  /\ thread' = "dead"
  /\ UNCHANGED <<requested, server, posted, screen, button, window, ghosts>>

-----------------------------------------------------------------------------
(* The lines of the transcript and of the minutes.                         *)

Line(s) == [of |-> s, translation |-> None, speaker |-> s]

(* Which line of q a sentence's number stands for, by the index x.         *)
Meant(x, S, line) == {s \in S : x[s.id] = line.of}

Attached(q, x, S) ==
  [i \in 1 .. Len(q) |->
     IF Meant(x, S, q[i]) = {} THEN q[i]
     ELSE [q[i] EXCEPT !.translation = CHOOSE s \in Meant(x, S, q[i]) : TRUE]]

Relabelled(q, x, S) ==
  [i \in 1 .. Len(q) |->
     IF Meant(x, S, q[i]) = {} THEN q[i]
     ELSE [q[i] EXCEPT !.speaker = CHOOSE s \in Meant(x, S, q[i]) : TRUE]]

(* The recorder forgets no line, so its _by_id has the last of each id. *)
Latest(q) == [k \in Number |-> IF q = <<>> THEN None ELSE q[Len(q)].of]

LastOf(q) ==
  [k \in Number |->
     LET Of == {i \in 1 .. Len(q) : q[i].of.id = k}
     IN IF Of = {} THEN None
        ELSE q[CHOOSE i \in Of : \A j \in Of : j <= i].of]

(* _trim(): the oldest row goes, and with it the entry of its number.      *)
TooManyOffByOne(q) == Len(q) > MaxRows + 1
TooMany(q)         == Len(q) > MaxRows

Forget(x, line) == [x EXCEPT ![line.of.id] = None]

Shows(s) ==
  LET q == Append(rows, Line(s))
      x == [index EXCEPT ![s.id] = s]
  IN /\ rows'  = IF TooMany(q) THEN Tail(q) ELSE q
     /\ index' = IF TooMany(q) THEN Forget(x, Head(q)) ELSE x

Writes(lines) ==
  minutes' = IF recorder = 0 THEN minutes
             ELSE [minutes EXCEPT ![recorder] = lines]

Written == IF recorder = 0 THEN <<>> ELSE minutes[recorder]

-----------------------------------------------------------------------------
(* The Qt thread: the signals ...                                          *)

Handles(kind) ==
  /\ window = "open"
  /\ posted # <<>> /\ Head(posted).kind = kind
  /\ posted' = Tail(posted)
  /\ UNCHANGED <<thread, requested, server, window, ghosts>>

OnFinal ==
  /\ Handles("final")
  /\ LET s == CHOOSE s \in Head(posted).about : TRUE
     IN Shows(s) /\ Writes(Append(Written, Line(s)))
  /\ UNCHANGED <<recorder, button>>

OnTranslation ==
  /\ Handles("translation")
  /\ rows' = Attached(rows, index, Head(posted).about)
  /\ Writes(Attached(Written, LastOf(Written), Head(posted).about))
  /\ UNCHANGED <<index, recorder, button>>

OnSpeakers ==
  /\ Handles("speakers")
  /\ rows' = Relabelled(rows, index, Head(posted).about)
  /\ Writes(Relabelled(Written, LastOf(Written), Head(posted).about))
  /\ UNCHANGED <<index, recorder, button>>

OnStatus ==
  /\ Handles("status") \/ Handles("failed")
  /\ button' = TRUE
  /\ UNCHANGED screen

OnStopped ==
  /\ Handles("stopped")
  /\ button' = TRUE
  /\ recorder' = 0
  /\ UNCHANGED <<rows, index, minutes>>

(* ... and the user: the button ends a meeting that runs, or starts one.   *)
StopAtOnce == 0
KeepsOpen  == recorder

Toggle ==
  /\ window = "open" /\ button
  /\ button' = FALSE
  /\ IF Alive
       THEN /\ requested' = TRUE
            /\ recorder' = KeepsOpen
            /\ UNCHANGED <<thread, rows, index, meetings, hasty>>
       ELSE /\ meetings < MaxMeetings
            /\ meetings' = meetings + 1
            /\ hasty' = IF posted = <<>> THEN hasty ELSE hasty \cup {meetings'}
            /\ rows' = <<>> /\ index' = [k \in Number |-> None]
            /\ recorder' = meetings'
            /\ requested' = FALSE
            /\ thread' = "connecting"
  /\ UNCHANGED <<server, posted, minutes, window, received>>

(* Closing the window: stop() blocks the Qt thread until the meeting's     *)
(* thread is dead or five seconds are over, and then the minutes are       *)
(* closed.                                                                 *)
CloseBegins ==
  /\ window = "open"
  /\ window' = "closing"
  /\ requested' = TRUE
  /\ UNCHANGED <<thread, server, posted, screen, button, ghosts>>

CloseEnds ==
  /\ window = "closing"
  /\ window' = "closed"
  /\ recorder' = 0
  /\ UNCHANGED <<thread, requested, server, posted, rows, index, minutes,
                 button, ghosts>>

Next ==
  \/ Connected \/ Reconnected \/ Listening \/ Final \/ Translation \/ Speakers
  \/ Failed \/ Ends \/ Dies
  \/ OnFinal \/ OnTranslation \/ OnSpeakers \/ OnStatus \/ OnStopped
  \/ Toggle \/ CloseBegins \/ CloseEnds

Spec == Init /\ [][Next]_vars

-----------------------------------------------------------------------------
(* Properties.                                                             *)

LineType == [of : Sentence, translation : Sentence \cup {None},
             speaker : Sentence]

SignalType == [kind : {"status", "final", "translation", "speakers",
                       "failed", "stopped"},
               about : SUBSET Sentence]

(* Every variable has its type, and the screen keeps to its rows. *)
TypeOK ==
  /\ thread \in {"none", "connecting", "opening", "listening", "failing",
                 "ending", "dead"}
  /\ requested \in BOOLEAN /\ button \in BOOLEAN /\ revised \in BOOLEAN
  /\ window \in {"open", "closing", "closed"}
  /\ conn \in 0 .. MaxConnects
  /\ numbered \in 0 .. MaxSentences /\ answered \subseteq Number
  /\ missing \subseteq Sentence
  /\ posted \in Seq(SignalType) /\ Len(posted) <= MaxPosted
  /\ rows \in Seq(LineType) /\ Len(rows) <= MaxRows
  /\ index \in [Number -> Sentence \cup {None}]
  /\ recorder \in 0 .. MaxMeetings /\ meetings \in 0 .. MaxMeetings
  /\ minutes \in [Meeting -> Seq(LineType)]
  /\ received \in [Meeting -> Seq(Sentence)]
  /\ hasty \subseteq 1 .. meetings

(* A line shows its own translation and its own speaker, on screen and in  *)
(* the minutes, or those of a sentence with the same number whose own line *)
(* never came, on a later connection (the ids start again).                *)
OwnOrMissing(line) ==
  \A s \in {line.translation, line.speaker} \ {None, line.of} :
    s \in missing /\ s.id = line.of.id /\ s.conn > line.of.conn

LinesShowTheirOwn ==
  /\ \A i \in 1 .. Len(rows) : OwnOrMissing(rows[i])
  /\ \A m \in Meeting : \A i \in 1 .. Len(minutes[m]) :
       OwnOrMissing(minutes[m][i])

(* The index stands for what is on screen: an entry has its row, under its *)
(* number, and a row has its entry, unless another connection used its     *)
(* number again: then the trimming of the older row, or the newer row      *)
(* itself, takes the entry.                                                *)
IndexIsOnScreen ==
  /\ \A k \in Number :
       index[k] # None => index[k].id = k /\ \E i \in 1 .. Len(rows) :
                                               rows[i].of = index[k]
  /\ \A i \in 1 .. Len(rows) :
       LET s == rows[i].of IN
         index[s.id] # s =>
           \E m \in Meeting : \E j \in 1 .. Len(received[m]) :
             received[m][j].id = s.id /\ received[m][j].conn # s.conn

(* What the client shows is right, and what is to find it again is too. *)
LinesAreRight == LinesShowTheirOwn /\ IndexIsOnScreen

(* The minutes of a meeting hold every sentence the client received, each  *)
(* once and in order, when stopped closes them: what the goodbye brings    *)
(* ("the last sentence of the meeting is committed and translated after    *)
(* it") comes before it.  They may end early if the window is closed, or   *)
(* the next meeting was started with signals of the old one still posted.  *)
Awaited ==
  UNION {posted[i].about : i \in {j \in 1 .. Len(posted) :
                                     posted[j].kind = "final"}}

(* The minutes of m are what was received, in order, up to the rest S. *)
HoldAllBut(m, S) ==
  LET n == Len(minutes[m]) IN
    /\ n <= Len(received[m])
    /\ \A i \in 1 .. n : minutes[m][i].of = received[m][i]
    /\ S = {received[m][i] : i \in n + 1 .. Len(received[m])}

MinutesComplete ==
  \A m \in 1 .. meetings :
    window = "open" /\ {m, m + 1} \cap hasty = {} =>
      HoldAllBut(m, IF m = recorder THEN Awaited ELSE {})
=============================================================================
