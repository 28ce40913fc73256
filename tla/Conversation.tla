---------------------------- MODULE Conversation ----------------------------
(***************************************************************************)
(* What the application promises about a chat question, with no attempt,   *)
(* key, thread or database in sight: a question is worked on by at most    *)
(* one party per conversation, it is answered at most once, an answered    *)
(* question is never worked on again, and only deleting its conversation   *)
(* takes an outcome back.  ChatTurns implements it.                        *)
(***************************************************************************)

CONSTANTS Sessions, Turns, None

VARIABLES
  outcome,   \* what the user sees of each question
  home       \* the conversation each asked question belongs to

convVars == <<outcome, home>>

Outcomes == {"unasked", "working", "unanswered", "answered", "forgotten"}

ConvInit ==
  /\ outcome = [t \in Turns |-> "unasked"]
  /\ home = [t \in Turns |-> None]

\* No question of the conversation is being worked on.
Quiet(s) == \A t \in Turns : home[t] = s => outcome[t] # "working"

Ask(s, t) ==
  /\ outcome[t] = "unasked"
  /\ Quiet(s)
  /\ outcome' = [outcome EXCEPT ![t] = "working"]
  /\ home' = [home EXCEPT ![t] = s]

AskAgain(t) ==
  /\ outcome[t] = "unanswered"
  /\ Quiet(home[t])
  /\ outcome' = [outcome EXCEPT ![t] = "working"]
  /\ UNCHANGED home

Answer(t) ==
  /\ outcome[t] = "working"
  /\ outcome' = [outcome EXCEPT ![t] = "answered"]
  /\ UNCHANGED home

\* Work on one question, or on every question at a restart, ends without an answer.
GiveUp(T) ==
  /\ \A t \in T : outcome[t] = "working"
  /\ outcome' = [t \in Turns |-> IF t \in T THEN "unanswered" ELSE outcome[t]]
  /\ UNCHANGED home

Forget(s) ==
  /\ outcome' = [t \in Turns |-> IF home[t] = s THEN "forgotten" ELSE outcome[t]]
  /\ home' = [t \in Turns |-> IF home[t] = s THEN None ELSE home[t]]

ConvNext ==
  \/ \E s \in Sessions : Forget(s) \/ \E t \in Turns : Ask(s, t)
  \/ \E t \in Turns : AskAgain(t) \/ Answer(t)
  \/ \E T \in SUBSET Turns : GiveUp(T)

ConvSpec == ConvInit /\ [][ConvNext]_convVars
=============================================================================
