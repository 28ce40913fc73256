------------------------------ MODULE ChatTurns ------------------------------
(***************************************************************************)
(* The durable chat-turn store (services/chat_turns.py over the chat_turns *)
(* and chat_attempts tables of storage.py).  A turn is one logical user    *)
(* message; an attempt is one try at answering it, claimed by a client's   *)
(* operation key.  Every operation is one BEGIN IMMEDIATE transaction, so  *)
(* each is one action here, and any number of threads and processes, a     *)
(* backend that outlived its restart included, may call them in any order. *)
(* An operation that raises leaves the tables unchanged: its refusals are  *)
(* the negations of the guards.                                            *)
(*                                                                         *)
(* Ids are the rows' UUIDs: a deleted row's id is never issued again.      *)
(* A definition Name_Variant repeats Name with a plausible mistake in it;  *)
(* no specification uses it (README, "How the properties are validated").  *)
(***************************************************************************)
EXTENDS Naturals, FiniteSets

CONSTANTS
  Sessions, Turns, Attempts, Keys, Documents,
  None,        \* SQL NULL
  Untracked    \* a user message that has no chat_turns row

ASSUME ChatAssumption ==
  /\ None \notin Sessions \cup Turns \cup Attempts \cup Keys
  /\ Untracked \notin Turns
  /\ IsFiniteSet(Attempts)

VARIABLES
  sessions,    \* the sessions rows
  newestUser,  \* per session: its newest user message
  turn,        \* chat_turns, with the message's linked and selected documents
  attempt,     \* chat_attempts
  answers,     \* saved assistant messages, each named by the attempt that saved it
  unusable     \* documents that are deleted: an original source is gone

storeVars == <<sessions, newestUser, turn, attempt, answers, unusable>>

Active == {"pending", "running"}
Retryable == {"failed", "cancelled", "timed_out", "interrupted"}
Settled == Retryable \cup {"completed"}

TurnRows == [row : {"absent", "present", "deleted"}, session : Sessions \cup {None},
             current : Attempts \cup {None}, answer : Attempts \cup {None},
             linked : SUBSET Documents, selected : SUBSET Documents]

AttemptRows == [state : {"absent", "deleted"} \cup Active \cup Settled,
                turn : Turns \cup {None}, session : Sessions \cup {None},
                number : Nat, key : Keys \cup {None}, cancel : BOOLEAN]

NoTurn(status) == [row |-> status, session |-> None, current |-> None,
                   answer |-> None, linked |-> {}, selected |-> {}]

NoAttempt(status) == [state |-> status, turn |-> None, session |-> None,
                      number |-> 0, key |-> None, cancel |-> FALSE]

AttemptsOf(t) == {a \in Attempts : attempt[a].turn = t}
KeyKnown(k) == \E a \in Attempts : attempt[a].key = k

\* idx_chat_attempts_one_active_per_session holds a row for the session.
Busy(s) == \E a \in Attempts : attempt[a].session = s /\ attempt[a].state \in Active

\* _status takes the last attempt in attempt_number order.
IsLatestAttempt(a, t) ==
  /\ a \in AttemptsOf(t)
  /\ \A b \in AttemptsOf(t) : attempt[b].number <= attempt[a].number

----------------------------------------------------------------------------
StoreInit ==
  /\ sessions = Sessions
  /\ newestUser = [s \in Sessions |-> None]
  /\ turn = [t \in Turns |-> NoTurn("absent")]
  /\ attempt = [a \in Attempts |-> NoAttempt("absent")]
  /\ answers = {}
  /\ unusable = {}

InsertAttempt_NoIndex(a, t, s, n, k) ==
  /\ attempt[a].state = "absent"
  /\ attempt' = [attempt EXCEPT ![a] =
       [state |-> "pending", turn |-> t, session |-> s, number |-> n, key |-> k, cancel |-> FALSE]]

\* Fails, and with it the whole transaction, on the unique index when the session is busy.
InsertAttempt(a, t, s, n, k) ==
  /\ ~Busy(s)
  /\ attempt[a].state = "absent"
  /\ attempt' = [attempt EXCEPT ![a] =
       [state |-> "pending", turn |-> t, session |-> s, number |-> n, key |-> k, cancel |-> FALSE]]

\* The user message, its links, the turn and attempt 1, together or not at all.
Accept(s, t, a, k, linked, selected) ==
  /\ ~KeyKnown(k)
  /\ linked \cap unusable = {}
  /\ s \in sessions
  /\ turn[t].row = "absent"
  /\ InsertAttempt(a, t, s, 1, k)
  /\ turn' = [turn EXCEPT ![t] = [row |-> "present", session |-> s, current |-> a,
                                  answer |-> None, linked |-> linked, selected |-> selected]]
  /\ newestUser' = [newestUser EXCEPT ![s] = t]
  /\ UNCHANGED <<sessions, answers, unusable>>

CanRetry_AnyTurn(t) ==
  /\ turn[t].row = "present"
  /\ turn[t].answer = None
  /\ \E a \in Attempts : IsLatestAttempt(a, t) /\ attempt[a].state \in Retryable

\* Unanswered, settled, and still the conversation's last question.
CanRetry(t) ==
  /\ turn[t].row = "present"
  /\ turn[t].answer = None
  /\ newestUser[turn[t].session] = t
  /\ \E a \in Attempts : IsLatestAttempt(a, t) /\ attempt[a].state \in Retryable

Retry(t, a, k) ==
  /\ ~KeyKnown(k)
  /\ CanRetry(t)
  /\ (turn[t].linked \cup turn[t].selected) \cap unusable = {}
  /\ InsertAttempt(a, t, turn[t].session, Cardinality(AttemptsOf(t)) + 1, k)
  /\ turn' = [turn EXCEPT ![t].current = a]
  /\ UNCHANGED <<sessions, newestUser, answers, unusable>>

SetState(a, s) == attempt' = [attempt EXCEPT ![a].state = s]

Start(a) ==
  /\ attempt[a].state = "pending"
  /\ ~attempt[a].cancel
  /\ SetState(a, "running")
  /\ UNCHANGED <<sessions, newestUser, turn, answers, unusable>>

\* A queued attempt is cancelled now; a running one is marked and settles in its worker.
RequestCancel(a) ==
  /\ \/ attempt[a].state = "pending" /\ SetState(a, "cancelled")
     \/ attempt[a].state = "running" /\ attempt' = [attempt EXCEPT ![a].cancel = TRUE]
  /\ UNCHANGED <<sessions, newestUser, turn, answers, unusable>>

MayCommit_Retired(a) ==
  /\ attempt[a].state \in {"running", "interrupted"}
  /\ ~attempt[a].cancel

MayCommit_NotRunning(a) ==
  /\ attempt[a].state \in Active \cup Retryable
  /\ turn[attempt[a].turn].current = a
  /\ turn[attempt[a].turn].answer = None

\* The row test of commit_answer, made inside the write transaction.
MayCommit(a) ==
  /\ attempt[a].state = "running"
  /\ ~attempt[a].cancel
  /\ turn[attempt[a].turn].current = a
  /\ turn[attempt[a].turn].answer = None

CommitAnswer(a) ==
  /\ MayCommit(a)
  /\ SetState(a, "completed")
  /\ answers' = answers \cup {a}
  /\ turn' = [turn EXCEPT ![attempt[a].turn].answer = a]
  /\ UNCHANGED <<sessions, newestUser, unusable>>

\* Settle an attempt that did not commit.
Finish(a, s) ==
  /\ attempt[a].state \in Active
  /\ SetState(a, s)
  /\ UNCHANGED <<sessions, newestUser, turn, answers, unusable>>

\* Startup: retire every attempt of an earlier process.
ReconcileInterrupted ==
  /\ attempt' = [a \in Attempts |->
       IF attempt[a].state \in Active THEN [attempt[a] EXCEPT !.state = "interrupted"] ELSE attempt[a]]
  /\ UNCHANGED <<sessions, newestUser, turn, answers, unusable>>

\* The foreign keys cascade to the messages, the turns and their attempts.
DeleteSession(s) ==
  /\ s \in sessions
  /\ sessions' = sessions \ {s}
  /\ newestUser' = [newestUser EXCEPT ![s] = None]
  /\ turn' = [t \in Turns |-> IF turn[t].session = s THEN NoTurn("deleted") ELSE turn[t]]
  /\ attempt' = [a \in Attempts |-> IF attempt[a].session = s THEN NoAttempt("deleted") ELSE attempt[a]]
  /\ answers' = {a \in answers : attempt[a].session # s}
  /\ UNCHANGED unusable

\* The synchronous chat.send and search jobs store a user message without a turn.
AddUntrackedMessage(s) ==
  /\ s \in sessions
  /\ newestUser' = [newestUser EXCEPT ![s] = Untracked]
  /\ UNCHANGED <<sessions, turn, attempt, answers, unusable>>

DeleteDocument(d) ==
  /\ unusable' = unusable \cup {d}
  /\ UNCHANGED <<sessions, newestUser, turn, attempt, answers>>

----------------------------------------------------------------------------
Submit ==
  \E t \in Turns, a \in Attempts, k \in Keys :
    \/ Retry(t, a, k)
    \/ \E s \in Sessions, linked, selected \in SUBSET Documents : Accept(s, t, a, k, linked, selected)

Execute ==
  \E a \in Attempts :
    \/ Start(a)
    \/ RequestCancel(a)
    \/ CommitAnswer(a)
    \/ \E s \in Retryable : Finish(a, s)

StoreNext ==
  \/ Submit
  \/ Execute
  \/ ReconcileInterrupted
  \/ \E s \in Sessions : DeleteSession(s) \/ AddUntrackedMessage(s)
  \/ \E d \in Documents : DeleteDocument(d)

StoreSpec == StoreInit /\ [][StoreNext]_storeVars

----------------------------------------------------------------------------
StoreTypeOK ==
  /\ sessions \subseteq Sessions
  /\ newestUser \in [Sessions -> Turns \cup {Untracked, None}]
  /\ turn \in [Turns -> TurnRows]
  /\ attempt \in [Attempts -> AttemptRows]
  /\ answers \subseteq Attempts
  /\ unusable \subseteq Documents

\* A logical message never gets a second assistant message, whatever retries,
\* cancels, restarts and late workers do (commit_answer's promise).
AtMostOneAnswer ==
  \A a, b \in answers : attempt[a].turn = attempt[b].turn => a = b

\* Attempt row, turn row and message table agree on who answered: no answer
\* message without a completed attempt, no completed attempt without its turn's
\* pointer, no pointer to an attempt of another turn.
AnswerRowsAgree ==
  /\ \A a \in Attempts : a \in answers <=> attempt[a].state = "completed"
  /\ \A a \in answers : turn[attempt[a].turn].answer = a
  /\ \A t \in Turns : turn[t].answer # None => turn[t].answer \in answers /\ attempt[turn[t].answer].turn = t

\* A conversation never has two attempts queued or running, so two answers of one
\* conversation are never generated side by side.
OneActivePerSession ==
  \A a, b \in Attempts :
    /\ attempt[a].state \in Active
    /\ attempt[b].state \in Active
    /\ attempt[a].session = attempt[b].session
    => a = b

\* current_attempt_id and "the attempt with the highest number" are the same row:
\* jobs.chat_status reads the state from one and retires the other.
CurrentIsLatest ==
  \A t \in Turns : turn[t].row = "present" => IsLatestAttempt(turn[t].current, t)

\* What the rows of the three tables say of a question is one story: who answered it, who is at work
\* on it, and which attempt a client is told of.
RowsAgree == AnswerRowsAgree /\ OneActivePerSession /\ CurrentIsLatest

\* No row of a deleted conversation survives to be committed to or retried.
NoOrphanRows ==
  \A a \in Attempts : attempt[a].state \in Active \cup Settled =>
    /\ turn[attempt[a].turn].row = "present"
    /\ turn[attempt[a].turn].session = attempt[a].session
    /\ attempt[a].session \in sessions

Rank(s) == CASE s = "absent" -> 0 [] s = "pending" -> 1 [] s = "running" -> 2
             [] s \in Settled -> 3 [] s = "deleted" -> 4

\* An attempt only moves forward: it starts at most once, is never queued again,
\* and once settled its outcome is never rewritten; only deletion removes it.
AttemptsOnlyAdvance ==
  [][\A a \in Attempts : attempt'[a].state = attempt[a].state
       \/ Rank(attempt[a].state) < Rank(attempt'[a].state)]_attempt

\* A question the conversation has moved past is never worked on again, so an
\* answer can only ever follow the question it belongs to.
PassedQuestionsStayClosed ==
  [][\A t \in Turns :
       (turn[t].row = "present" /\ newestUser[turn[t].session] # t
          /\ \A a \in AttemptsOf(t) : attempt[a].state \notin Active)
       => \A a \in AttemptsOf(t)' : attempt'[a].state \notin Active]_storeVars

\* Neither an attempt nor a conversation ever goes back.
TurnsOnlyAdvance == AttemptsOnlyAdvance /\ PassedQuestionsStayClosed

----------------------------------------------------------------------------
WorkedOn(t) == \E a \in Attempts : attempt[a].turn = t /\ attempt[a].state \in Active

OutcomeOf(t) ==
  LET present == turn[t].row = "present"
      answered == turn[t].answer # None
  IN CASE turn[t].row = "absent" -> "unasked"
       [] turn[t].row = "deleted" -> "forgotten"
       [] present /\ answered -> "answered"
       [] present /\ ~answered /\ WorkedOn(t) -> "working"
       [] present /\ ~answered /\ ~WorkedOn(t) -> "unanswered"

Conv == INSTANCE Conversation WITH
          outcome <- [t \in Turns |-> OutcomeOf(t)],
          home <- [t \in Turns |-> turn[t].session]

\* The tables keep the promise of module Conversation: one party at work per
\* conversation, at most one answer per question, answered questions final.
ImplementsConversation == Conv!ConvSpec
=============================================================================
