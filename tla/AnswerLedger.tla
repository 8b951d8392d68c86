---------------------------- MODULE AnswerLedger ----------------------------
(***************************************************************************)
(* What the translation worker promises its session, with the queue, the   *)
(* threads and the locks left out: sentences are committed one after the   *)
(* other, a committed sentence is given an answer, the answer is final,    *)
(* and the session hears it once and only after it was given.              *)
(***************************************************************************)
EXTENDS Integers

CONSTANTS
  MaxSentences,   \* how many sentences are committed at most
  Verdict         \* what an answer may say; "no" stands for no answer yet

Sentence == 1 .. MaxSentences

VARIABLES
  committed,      \* sentences 1 .. committed are committed
  answer,         \* the answer of each sentence
  heard           \* how often the session was handed the sentence's answer

ledgerVars == <<committed, answer, heard>>

Unanswered == {s \in 1 .. committed : answer[s] = "no"}
Unheard    == {s \in 1 .. committed : answer[s] # "no" /\ heard[s] = 0}

LedgerInit ==
  /\ committed = 0
  /\ answer = [s \in Sentence |-> "no"]
  /\ heard = [s \in Sentence |-> 0]

(* Some of the sentences waiting for an answer, S, are given one. *)
GiveAnswers(S) ==
  \E v \in Verdict \ {"no"} :
    answer' = [s \in Sentence |-> IF s \in S THEN v ELSE answer[s]]

(* One more sentence; it may cost another one its place. *)
Commit ==
  /\ committed + 1 \in Sentence
  /\ committed' = committed + 1
  /\ \E S \in SUBSET Unanswered : GiveAnswers(S)
  /\ UNCHANGED heard

Answer ==
  /\ \E S \in SUBSET Unanswered : GiveAnswers(S)
  /\ UNCHANGED <<committed, heard>>

Hear ==
  /\ \E S \in SUBSET Unheard :
       heard' = [s \in Sentence |-> IF s \in S THEN 1 ELSE heard[s]]
  /\ UNCHANGED <<committed, answer>>

LedgerNext == Commit \/ Answer \/ Hear

Ledger == LedgerInit /\ [][LedgerNext]_ledgerVars
=============================================================================
