--------------------------- MODULE ChatJobsProofs ---------------------------
(***************************************************************************)
(* Theorems of chat as a job: of the store (ChatTurns) for any number of   *)
(* conversations, questions, attempts, keys and documents, of the queue    *)
(* (JobService) for any jobs, documents and bounds, and of the two driven  *)
(* together (ChatJobs), where each keeps its own promises and they agree   *)
(* on what became of an attempt.                                           *)
(***************************************************************************)
EXTENDS ChatJobs, DataProofs

(***************************************************************************)
(* The store: theorems of ChatTurns                                        *)
(***************************************************************************)

\* Rows that exist are filled in, rows that do not are blank.
RowsFilled ==
  /\ \A t \in Turns :
       IF turn[t].row = "present" THEN turn[t].session \in sessions ELSE turn[t].session = None /\ turn[t].answer = None
  /\ \A a \in Attempts :
       IF attempt[a].state \in Active \cup Settled
       THEN attempt[a].turn \in Turns /\ attempt[a].session \in Sessions
       ELSE attempt[a].turn = None /\ attempt[a].session = None

\* What one transaction may rely on: the tables' shape, and that no row of a
\* deleted conversation is left for a later commit to find.
StoreInv == StoreTypeOK /\ RowsFilled /\ NoOrphanRows /\ AnswerRowsAgree /\ OneActivePerSession

LEMMA StoreBegins == StoreInit => StoreInv
<1> SUFFICES ASSUME StoreInit PROVE StoreInv
  OBVIOUS
<1>1. NoTurn("absent") \in TurnRows /\ NoAttempt("absent") \in AttemptRows
  BY DEF NoTurn, NoAttempt, TurnRows, AttemptRows
<1>2. StoreTypeOK
  BY <1>1 DEF StoreInit, StoreTypeOK
<1>3. \A a \in Attempts : attempt[a] = NoAttempt("absent")
  BY DEF StoreInit
<1>4. \A t \in Turns : turn[t] = NoTurn("absent")
  BY DEF StoreInit
<1>5. RowsFilled
  <2>1. /\ NoTurn("absent").row = "absent" /\ NoTurn("absent").session = None /\ NoTurn("absent").answer = None
        /\ NoAttempt("absent").state = "absent" /\ NoAttempt("absent").turn = None
        /\ NoAttempt("absent").session = None
    BY DEF NoTurn, NoAttempt
  <2> QED BY <1>3, <1>4, <2>1 DEF RowsFilled, Active, Settled, Retryable
<1>6. NoOrphanRows /\ OneActivePerSession
  BY <1>3 DEF NoOrphanRows, OneActivePerSession, NoAttempt, Active, Settled, Retryable
<1>7. AnswerRowsAgree
  BY <1>3, <1>4 DEF StoreInit, AnswerRowsAgree, NoTurn, NoAttempt
<1> QED BY <1>2, <1>5, <1>6, <1>7 DEF StoreInv

LEMMA AcceptPreserves ==
  ASSUME StoreInv, NEW s \in Sessions, NEW t \in Turns, NEW a \in Attempts, NEW k \in Keys,
         NEW linked \in SUBSET Documents, NEW selected \in SUBSET Documents,
         Accept(s, t, a, k, linked, selected)
  PROVE  StoreInv'
<1> USE DEF StoreInv, Active, Settled, Retryable
<1> DEFINE row == [row |-> "present", session |-> s, current |-> a,
                   answer |-> None, linked |-> linked, selected |-> selected]
           new == [state |-> "pending", turn |-> t, session |-> s, number |-> 1, key |-> k, cancel |-> FALSE]
<1>1. /\ turn' = [turn EXCEPT ![t] = row]
      /\ attempt' = [attempt EXCEPT ![a] = new]
      /\ newestUser' = [newestUser EXCEPT ![s] = t]
      /\ UNCHANGED <<sessions, answers, unusable>>
      /\ turn[t].row = "absent" /\ attempt[a].state = "absent" /\ s \in sessions /\ ~Busy(s)
  BY DEF Accept, InsertAttempt
<1>2. row \in TurnRows /\ new \in AttemptRows
  BY DEF TurnRows, AttemptRows
<1> HIDE DEF row, new
<1>3. StoreTypeOK'
  BY <1>1, <1>2 DEF StoreTypeOK
<1>4. RowsFilled'
  BY <1>1 DEF RowsFilled, StoreTypeOK, row, new, NoTurn, NoAttempt
<1>5. NoOrphanRows'
  BY <1>1 DEF NoOrphanRows, RowsFilled, StoreTypeOK, row, new
<1>6. AnswerRowsAgree'
  BY <1>1 DEF AnswerRowsAgree, NoOrphanRows, RowsFilled, StoreTypeOK, row, new
<1>7. OneActivePerSession'
  BY <1>1 DEF OneActivePerSession, StoreTypeOK, new, Busy
<1> QED BY <1>3, <1>4, <1>5, <1>6, <1>7

LEMMA RetryPreserves ==
  ASSUME StoreInv, NEW t \in Turns, NEW a \in Attempts, NEW k \in Keys, Retry(t, a, k)
  PROVE  StoreInv'
<1> USE DEF StoreInv, Active, Settled, Retryable
<1> DEFINE s == turn[t].session
           n == Cardinality(AttemptsOf(t)) + 1
           new == [state |-> "pending", turn |-> t, session |-> s, number |-> n, key |-> k, cancel |-> FALSE]
<1>1. /\ turn' = [turn EXCEPT ![t].current = a]
      /\ attempt' = [attempt EXCEPT ![a] = new]
      /\ UNCHANGED <<sessions, newestUser, answers, unusable>>
      /\ turn[t].row = "present" /\ attempt[a].state = "absent" /\ ~Busy(s)
  BY DEF Retry, CanRetry, InsertAttempt
<1>2. s \in Sessions /\ s \in sessions
  BY <1>1 DEF RowsFilled, StoreTypeOK
<1>3. n \in Nat
  <2>1. IsFiniteSet(AttemptsOf(t))
    BY ChatAssumption, FS_Subset DEF AttemptsOf
  <2> QED BY <2>1, FS_CardinalityType
<1>4. new \in AttemptRows
  BY <1>2, <1>3 DEF AttemptRows
<1> HIDE DEF new, n
<1>5. StoreTypeOK'
  BY <1>1, <1>4 DEF StoreTypeOK, TurnRows
<1>6. RowsFilled'
  BY <1>1, <1>2 DEF RowsFilled, StoreTypeOK, TurnRows, NoTurn, NoAttempt, new
<1>7. NoOrphanRows'
  BY <1>1, <1>2 DEF NoOrphanRows, RowsFilled, StoreTypeOK, TurnRows, new
<1>8. AnswerRowsAgree'
  BY <1>1 DEF AnswerRowsAgree, NoOrphanRows, RowsFilled, StoreTypeOK, TurnRows, new
<1>9. OneActivePerSession'
  BY <1>1 DEF OneActivePerSession, StoreTypeOK, new, Busy
<1> QED BY <1>5, <1>6, <1>7, <1>8, <1>9
\* A step that only changes attempt a's state, to a working or a settled one, and
\* its cancel mark; its answer, if it gets one, is stored with it.
LEMMA WorkPreserves ==
  ASSUME StoreInv, NEW a \in Attempts, NEW r \in AttemptRows,
         attempt[a].state \in Active,
         attempt' = [attempt EXCEPT ![a] = r],
         r.state \in {attempt[a].state, "running"} \cup Retryable,
         r.turn = attempt[a].turn, r.session = attempt[a].session,
         UNCHANGED <<sessions, newestUser, turn, answers, unusable>>
  PROVE  StoreInv'
<1> USE DEF StoreInv, Active, Settled, Retryable
<1>1. StoreTypeOK'
  BY DEF StoreTypeOK
<1>2. RowsFilled'
  BY DEF RowsFilled, StoreTypeOK
<1>3. NoOrphanRows'
  BY DEF NoOrphanRows, StoreTypeOK
<1>4. AnswerRowsAgree'
  BY DEF AnswerRowsAgree, StoreTypeOK
<1>5. OneActivePerSession'
  BY DEF OneActivePerSession, StoreTypeOK
<1> QED BY <1>1, <1>2, <1>3, <1>4, <1>5

LEMMA ExecutePreserves ==
  ASSUME StoreInv, NEW a \in Attempts,
         \/ Start(a) \/ RequestCancel(a) \/ \E s \in Retryable : Finish(a, s)
  PROVE  StoreInv'
<1> USE DEF Active, Settled, Retryable
<1>0. attempt \in [Attempts -> AttemptRows]
  BY DEF StoreInv, StoreTypeOK
<1>1. CASE Start(a)
  <2> DEFINE r == [attempt[a] EXCEPT !.state = "running"]
  <2>1. r \in AttemptRows
    BY <1>0 DEF AttemptRows
  <2>2. attempt' = [attempt EXCEPT ![a] = r] /\ UNCHANGED <<sessions, newestUser, turn, answers, unusable>>
    BY <1>0, <1>1 DEF Start, SetState, AttemptRows
  <2>3. r.state = "running" /\ r.turn = attempt[a].turn /\ r.session = attempt[a].session
    BY <1>0 DEF AttemptRows
  <2>4. attempt[a].state \in Active
    BY <1>1 DEF Start
  <2> HIDE DEF r
  <2> QED BY <2>1, <2>2, <2>3, <2>4, WorkPreserves
<1>2. CASE RequestCancel(a)
  <2> DEFINE r == IF attempt[a].state = "pending" THEN [attempt[a] EXCEPT !.state = "cancelled"]
                  ELSE [attempt[a] EXCEPT !.cancel = TRUE]
  <2>1. r \in AttemptRows
    BY <1>0 DEF AttemptRows
  <2>2. attempt' = [attempt EXCEPT ![a] = r] /\ UNCHANGED <<sessions, newestUser, turn, answers, unusable>>
    BY <1>0, <1>2 DEF RequestCancel, SetState, AttemptRows
  <2>3. r.state \in {attempt[a].state, "cancelled"} /\ r.turn = attempt[a].turn /\ r.session = attempt[a].session
    BY <1>0 DEF AttemptRows
  <2>4. attempt[a].state \in Active
    BY <1>2 DEF RequestCancel
  <2> HIDE DEF r
  <2> QED BY <2>1, <2>2, <2>3, <2>4, WorkPreserves
<1>3. ASSUME NEW s \in Retryable, Finish(a, s) PROVE StoreInv'
  <2> DEFINE r == [attempt[a] EXCEPT !.state = s]
  <2>1. r \in AttemptRows
    BY <1>0 DEF AttemptRows
  <2>2. attempt' = [attempt EXCEPT ![a] = r] /\ UNCHANGED <<sessions, newestUser, turn, answers, unusable>>
    BY <1>0, <1>3 DEF Finish, SetState, AttemptRows
  <2>3. r.state = s /\ r.turn = attempt[a].turn /\ r.session = attempt[a].session
    BY <1>0 DEF AttemptRows
  <2>4. attempt[a].state \in Active
    BY <1>3 DEF Finish
  <2> HIDE DEF r
  <2> QED BY <2>1, <2>2, <2>3, <2>4, WorkPreserves
<1> QED BY <1>1, <1>2, <1>3

LEMMA CommitPreserves ==
  ASSUME StoreInv, NEW a \in Attempts, CommitAnswer(a)
  PROVE  StoreInv'
<1> USE DEF StoreInv, Active, Settled, Retryable
<1> DEFINE t == attempt[a].turn
<1>1. /\ attempt' = [attempt EXCEPT ![a].state = "completed"]
      /\ turn' = [turn EXCEPT ![t].answer = a]
      /\ answers' = answers \cup {a}
      /\ UNCHANGED <<sessions, newestUser, unusable>>
      /\ attempt[a].state = "running" /\ turn[t].answer = None
  BY DEF CommitAnswer, MayCommit, SetState
<1>2. t \in Turns /\ turn[t].row = "present"
  BY <1>1 DEF RowsFilled, NoOrphanRows
<1>3. attempt \in [Attempts -> AttemptRows] /\ turn \in [Turns -> TurnRows]
  BY DEF StoreTypeOK
<1>4. \A b \in Attempts :
        /\ attempt'[b] \in AttemptRows
        /\ attempt'[b].turn = attempt[b].turn /\ attempt'[b].session = attempt[b].session
        /\ attempt'[b].state = IF b = a THEN "completed" ELSE attempt[b].state
        /\ b # a => attempt'[b] = attempt[b]
  BY <1>1, <1>3 DEF AttemptRows
<1>5. \A u \in Turns :
        /\ turn'[u] \in TurnRows
        /\ turn'[u].row = turn[u].row /\ turn'[u].session = turn[u].session
        /\ turn'[u].answer = IF u = t THEN a ELSE turn[u].answer
        /\ u # t => turn'[u] = turn[u]
  BY <1>1, <1>2, <1>3 DEF TurnRows
<1> HIDE DEF t
<1>6. StoreTypeOK'
  BY <1>1, <1>3, <1>4, <1>5 DEF StoreTypeOK
<1>7. RowsFilled'
  BY <1>1, <1>2, <1>4, <1>5 DEF RowsFilled
<1>8. NoOrphanRows'
  BY <1>1, <1>2, <1>4, <1>5 DEF NoOrphanRows, RowsFilled
<1>9. AnswerRowsAgree'
  BY <1>1, <1>2, <1>4, <1>5, ChatAssumption DEF AnswerRowsAgree, NoOrphanRows, RowsFilled, StoreTypeOK, t
<1>10. OneActivePerSession'
  BY <1>1, <1>4 DEF OneActivePerSession
<1> QED BY <1>6, <1>7, <1>8, <1>9, <1>10

LEMMA ReconcilePreserves ==
  ASSUME StoreInv, ReconcileInterrupted
  PROVE  StoreInv'
<1> USE DEF StoreInv, Active, Settled, Retryable
<1>1. /\ \A a \in Attempts : attempt'[a] = IF attempt[a].state \in Active
                                THEN [attempt[a] EXCEPT !.state = "interrupted"] ELSE attempt[a]
      /\ UNCHANGED <<sessions, newestUser, turn, answers, unusable>>
  BY DEF ReconcileInterrupted
<1>2. \A a \in Attempts :
        /\ attempt'[a] \in AttemptRows
        /\ attempt'[a].turn = attempt[a].turn /\ attempt'[a].session = attempt[a].session
        /\ attempt'[a].state = IF attempt[a].state \in Active THEN "interrupted" ELSE attempt[a].state
        /\ attempt[a].state \notin Active => attempt'[a] = attempt[a]
  <2>1. \A a \in Attempts : attempt[a] \in AttemptRows
    BY DEF StoreTypeOK
  <2>2. ASSUME NEW a \in Attempts, attempt[a].state \in Active
        PROVE  /\ attempt'[a] \in AttemptRows /\ attempt'[a].state = "interrupted"
               /\ attempt'[a].turn = attempt[a].turn /\ attempt'[a].session = attempt[a].session
    <3>1. attempt'[a] = [attempt[a] EXCEPT !.state = "interrupted"]
      BY <1>1, <2>2
    <3> QED BY <2>1, <3>1 DEF AttemptRows
  <2>3. \A a \in Attempts : attempt[a].state \notin Active => attempt'[a] = attempt[a]
    BY <1>1
  <2> HIDE DEF StoreInv, Active
  <2> QED BY <2>1, <2>2, <2>3
<1>3. StoreTypeOK'
  BY <1>1, <1>2 DEF StoreTypeOK, ReconcileInterrupted
<1>4. RowsFilled'
  BY <1>1, <1>2 DEF RowsFilled
<1>5. NoOrphanRows'
  BY <1>1, <1>2 DEF NoOrphanRows
<1>6. AnswerRowsAgree'
  BY <1>1, <1>2 DEF AnswerRowsAgree, StoreTypeOK
<1>7. OneActivePerSession'
  BY <1>1, <1>2 DEF OneActivePerSession
<1> QED BY <1>3, <1>4, <1>5, <1>6, <1>7

LEMMA DeletePreserves ==
  ASSUME StoreInv, NEW s \in Sessions, DeleteSession(s)
  PROVE  StoreInv'
<1> USE DEF StoreInv, Active, Settled, Retryable
<1>1. /\ sessions' = sessions \ {s}
      /\ newestUser' = [newestUser EXCEPT ![s] = None]
      /\ \A t \in Turns : turn'[t] = IF turn[t].session = s THEN NoTurn("deleted") ELSE turn[t]
      /\ \A a \in Attempts : attempt'[a] = IF attempt[a].session = s THEN NoAttempt("deleted") ELSE attempt[a]
      /\ answers' = {a \in answers : attempt[a].session # s}
      /\ UNCHANGED unusable
  BY DEF DeleteSession
<1>2. NoTurn("deleted") \in TurnRows /\ NoAttempt("deleted") \in AttemptRows
  BY DEF NoTurn, NoAttempt, TurnRows, AttemptRows
<1>3. /\ NoTurn("deleted").row = "deleted" /\ NoTurn("deleted").answer = None /\ NoTurn("deleted").session = None
      /\ NoAttempt("deleted").state = "deleted" /\ NoAttempt("deleted").turn = None
      /\ NoAttempt("deleted").session = None
  BY DEF NoTurn, NoAttempt
<1>4. StoreTypeOK'
  BY <1>1, <1>2 DEF StoreTypeOK, DeleteSession
<1>5. RowsFilled'
  BY <1>1, <1>3 DEF RowsFilled, StoreTypeOK
<1>6. NoOrphanRows'
  BY <1>1, <1>3 DEF NoOrphanRows, RowsFilled
<1>7. AnswerRowsAgree'
  BY <1>1, <1>3 DEF AnswerRowsAgree, NoOrphanRows, RowsFilled, StoreTypeOK
<1>8. OneActivePerSession'
  BY <1>1, <1>3 DEF OneActivePerSession
<1> QED BY <1>4, <1>5, <1>6, <1>7, <1>8

LEMMA StoreStep == StoreInv /\ [StoreNext]_storeVars => StoreInv'
<1> SUFFICES ASSUME StoreInv, [StoreNext]_storeVars PROVE StoreInv'
  OBVIOUS
<1>1. CASE Submit
  BY <1>1, AcceptPreserves, RetryPreserves DEF Submit
<1>2. CASE Execute
  BY <1>2, ExecutePreserves, CommitPreserves DEF Execute
<1>3. CASE ReconcileInterrupted
  BY <1>3, ReconcilePreserves
<1>4. ASSUME NEW s \in Sessions, DeleteSession(s) PROVE StoreInv'
  BY <1>4, DeletePreserves
<1>5. ASSUME NEW s \in Sessions, AddUntrackedMessage(s) PROVE StoreInv'
  BY <1>5 DEF AddUntrackedMessage, StoreInv, StoreTypeOK, RowsFilled, NoOrphanRows, AnswerRowsAgree, OneActivePerSession
<1>6. ASSUME NEW d \in Documents, DeleteDocument(d) PROVE StoreInv'
  BY <1>6 DEF DeleteDocument, StoreInv, StoreTypeOK, RowsFilled, NoOrphanRows, AnswerRowsAgree, OneActivePerSession
<1>7. CASE UNCHANGED storeVars
  BY <1>7 DEF storeVars, StoreInv, StoreTypeOK, RowsFilled, NoOrphanRows, AnswerRowsAgree, OneActivePerSession,
              TurnRows, AttemptRows
<1> QED BY <1>1, <1>2, <1>3, <1>4, <1>5, <1>6, <1>7 DEF StoreNext

\* The invariant holds in every state the tables reach.
THEOREM StoreInvariant == StoreSpec => []StoreInv
  BY StoreBegins, StoreStep, PTL DEF StoreSpec

\* The tables keep their shape.
THEOREM StoreTypes == StoreSpec => []StoreTypeOK
<1>1. StoreInv => StoreTypeOK
  BY DEF StoreInv
<1> QED BY <1>1, StoreInvariant, PTL

\* commit_answer never saves a second answer to a question.
THEOREM AnsweredOnce == StoreSpec => []AtMostOneAnswer
<1>1. StoreInv => AtMostOneAnswer
  BY DEF StoreInv, AtMostOneAnswer, AnswerRowsAgree
<1> QED BY <1>1, StoreInvariant, PTL

\* Attempt, turn and message rows agree on who answered.
THEOREM AnswersAgree == StoreSpec => []AnswerRowsAgree
<1>1. StoreInv => AnswerRowsAgree
  BY DEF StoreInv
<1> QED BY <1>1, StoreInvariant, PTL

\* A conversation has at most one attempt queued or running.
THEOREM OneActive == StoreSpec => []OneActivePerSession
<1>1. StoreInv => OneActivePerSession
  BY DEF StoreInv
<1> QED BY <1>1, StoreInvariant, PTL
----------------------------------------------------------------------------
\* An attempt only moves forward, whoever acts on it.
THEOREM OnlyAdvance == StoreSpec => AttemptsOnlyAdvance
<1> DEFINE Forward == \A a \in Attempts : attempt'[a].state = attempt[a].state
                        \/ Rank(attempt[a].state) < Rank(attempt'[a].state)
<1>1. ASSUME StoreInv, [StoreNext]_storeVars PROVE [Forward]_attempt
  <2> USE DEF Active, Settled, Retryable, Rank
  <2>0. attempt \in [Attempts -> AttemptRows]
    BY <1>1 DEF StoreInv, StoreTypeOK
  <2>1. ASSUME NEW a \in Attempts, NEW t, NEW s, NEW n, NEW k, InsertAttempt(a, t, s, n, k) PROVE Forward
    BY <2>0, <2>1 DEF InsertAttempt
  <2>2. CASE Submit
    BY <2>1, <2>2 DEF Submit, Accept, Retry
  <2>3. ASSUME NEW a \in Attempts, attempt[a].state \in Active, NEW s,
               (s = "running" /\ attempt[a].state = "pending") \/ s \in Settled, SetState(a, s)
        PROVE  Forward
    BY <2>0, <2>3 DEF SetState, AttemptRows
  <2>4. ASSUME NEW a \in Attempts, RequestCancel(a) PROVE Forward
    <3>1. CASE attempt[a].state = "pending" /\ SetState(a, "cancelled")
      BY <2>3, <3>1
    <3>2. CASE attempt' = [attempt EXCEPT ![a].cancel = TRUE]
      BY <2>0, <3>2 DEF AttemptRows
    <3> QED BY <2>4, <3>1, <3>2 DEF RequestCancel
  <2>5. CASE Execute
    BY <2>3, <2>4, <2>5 DEF Execute, Start, CommitAnswer, MayCommit, Finish
  <2>6. CASE ReconcileInterrupted
    BY <2>0, <2>6 DEF ReconcileInterrupted, AttemptRows
  <2>7. ASSUME NEW s \in Sessions, DeleteSession(s) PROVE Forward
    <3>1. \A a \in Attempts : attempt'[a] = IF attempt[a].session = s THEN NoAttempt("deleted") ELSE attempt[a]
      BY <2>7 DEF DeleteSession
    <3>2. \A a \in Attempts : attempt[a].session = s => attempt[a].state \in Active \cup Settled
      BY <1>1, ChatAssumption DEF StoreInv, RowsFilled
    <3> QED BY <3>1, <3>2 DEF NoAttempt
  <2>8. CASE UNCHANGED attempt
    BY <2>8
  <2> QED BY <1>1, <2>2, <2>5, <2>6, <2>7, <2>8 DEF StoreNext, AddUntrackedMessage, DeleteDocument, storeVars
<1>2. StoreInv /\ [StoreNext]_storeVars => [Forward]_attempt
  BY <1>1
<1> QED BY <1>2, StoreInvariant, PTL DEF StoreSpec, AttemptsOnlyAdvance

----------------------------------------------------------------------------
\* What the user sees of a question, case by case.
Cases(t) ==
  /\ turn[t].row = "absent" => OutcomeOf(t) = "unasked"
  /\ turn[t].row = "deleted" => OutcomeOf(t) = "forgotten"
  /\ turn[t].row = "present" /\ turn[t].answer # None => OutcomeOf(t) = "answered"
  /\ turn[t].row = "present" /\ turn[t].answer = None =>
       (WorkedOn(t) => OutcomeOf(t) = "working") /\ (~WorkedOn(t) => OutcomeOf(t) = "unanswered")

LEMMA OutcomeCases == \A t : Cases(t) /\ Cases(t)'
  BY DEF Cases, OutcomeOf, WorkedOn

\* While no attempt of the conversation is active, no question of it is worked on.
LEMMA NotBusyIsQuiet ==
  ASSUME StoreInv, NEW s \in Sessions, ~Busy(s)
  PROVE  Conv!Quiet(s)
<1> SUFFICES ASSUME NEW t \in Turns, turn[t].session = s, OutcomeOf(t) = "working" PROVE FALSE
  BY DEF Conv!Quiet
<1>1. WorkedOn(t)
  BY OutcomeCases DEF Cases, StoreInv, StoreTypeOK, TurnRows
<1> QED BY <1>1 DEF WorkedOn, StoreInv, NoOrphanRows, Busy, Settled

\* A step that leaves the turn rows alone and starts no work at most ends some.
LEMMA EndOfWork ==
  ASSUME StoreInv, StoreInv', UNCHANGED turn, \A t \in Turns : WorkedOn(t)' => WorkedOn(t)
  PROVE  Conv!ConvNext
<1> DEFINE G == {t \in Turns : OutcomeOf(t)' # OutcomeOf(t)}
<1>1. \A t \in Turns : turn[t].row \in {"absent", "deleted", "present"}
  BY DEF StoreInv, StoreTypeOK, TurnRows
<1>2. \A t \in G : OutcomeOf(t) = "working" /\ OutcomeOf(t)' = "unanswered"
  BY <1>1, OutcomeCases DEF Cases
<1>3. Conv!GiveUp(G)
  BY <1>2 DEF Conv!GiveUp
<1> QED BY <1>3 DEF Conv!ConvNext

LEMMA AcceptAsks ==
  ASSUME StoreInv, NEW s \in Sessions, NEW t \in Turns, NEW a \in Attempts, NEW k \in Keys,
         NEW linked \in SUBSET Documents, NEW selected \in SUBSET Documents,
         Accept(s, t, a, k, linked, selected)
  PROVE  Conv!Ask(s, t)
<1>1. /\ turn[t].row = "absent" /\ attempt[a].state = "absent" /\ ~Busy(s)
      /\ turn' = [turn EXCEPT ![t] = [row |-> "present", session |-> s, current |-> a,
                                      answer |-> None, linked |-> linked, selected |-> selected]]
      /\ attempt' = [attempt EXCEPT ![a] =
           [state |-> "pending", turn |-> t, session |-> s, number |-> 1, key |-> k, cancel |-> FALSE]]
  BY DEF Accept, InsertAttempt
<1>2. attempt[a].turn \notin Turns
  BY <1>1, ChatAssumption DEF StoreInv, RowsFilled, Active, Settled, Retryable
<1>3. \A u \in Turns : turn'[u] = IF u = t THEN turn'[t] ELSE turn[u]
  BY <1>1 DEF StoreInv, StoreTypeOK
<1>4. turn'[t].row = "present" /\ turn'[t].answer = None /\ turn'[t].session = s
  BY <1>1 DEF StoreInv, StoreTypeOK
<1>5. \A b \in Attempts : b # a => attempt'[b] = attempt[b]
  BY <1>1 DEF StoreInv, StoreTypeOK
<1>6. attempt'[a].turn = t /\ attempt'[a].state \in Active
  BY <1>1 DEF StoreInv, StoreTypeOK, Active
<1>7. \A u \in Turns : u # t => OutcomeOf(u)' = OutcomeOf(u)
  <2>1. \A u \in Turns : u # t => (WorkedOn(u)' <=> WorkedOn(u))
    BY <1>2, <1>5, <1>6 DEF WorkedOn
  <2> QED BY <1>3, <2>1 DEF OutcomeOf
<1>8. OutcomeOf(t) = "unasked"
  BY <1>1, OutcomeCases DEF Cases
<1>8a. WorkedOn(t)'
  BY <1>6 DEF WorkedOn
<1>8b. OutcomeOf(t)' = "working"
  BY <1>4, <1>8a, OutcomeCases DEF Cases
<1>9. Conv!Quiet(s)
  BY <1>1, NotBusyIsQuiet
<1> QED BY <1>3, <1>4, <1>7, <1>8, <1>8b, <1>9 DEF Conv!Ask

LEMMA RetryAsksAgain ==
  ASSUME StoreInv, NEW t \in Turns, NEW a \in Attempts, NEW k \in Keys, Retry(t, a, k)
  PROVE  Conv!AskAgain(t)
<1>1. /\ turn[t].row = "present" /\ turn[t].answer = None /\ attempt[a].state = "absent" /\ ~Busy(turn[t].session)
      /\ turn' = [turn EXCEPT ![t].current = a]
      /\ attempt' = [attempt EXCEPT ![a] =
           [state |-> "pending", turn |-> t, session |-> turn[t].session,
            number |-> Cardinality(AttemptsOf(t)) + 1, key |-> k, cancel |-> FALSE]]
  BY DEF Retry, CanRetry, InsertAttempt
<1>2. attempt[a].turn \notin Turns
  BY <1>1, ChatAssumption DEF StoreInv, RowsFilled, Active, Settled, Retryable
<1>3. \A u \in Turns : /\ turn'[u].row = turn[u].row /\ turn'[u].answer = turn[u].answer
                       /\ turn'[u].session = turn[u].session
  BY <1>1 DEF StoreInv, StoreTypeOK, TurnRows
<1>4. \A b \in Attempts : b # a => attempt'[b] = attempt[b]
  BY <1>1 DEF StoreInv, StoreTypeOK
<1>5. attempt'[a].turn = t /\ attempt'[a].state \in Active
  BY <1>1 DEF StoreInv, StoreTypeOK, Active
<1>6. \A u \in Turns : u # t => OutcomeOf(u)' = OutcomeOf(u)
  BY <1>2, <1>3, <1>4, <1>5 DEF OutcomeOf, WorkedOn
<1>7. OutcomeOf(t)' = "working"
  BY <1>1, <1>3, <1>5 DEF OutcomeOf, WorkedOn
<1>8. Conv!Quiet(turn[t].session)
  BY <1>1, NotBusyIsQuiet DEF StoreInv, StoreTypeOK, RowsFilled
<1>9. OutcomeOf(t) = "unanswered"
  <2>1. turn[t].session \in Sessions
    BY <1>1 DEF StoreInv, StoreTypeOK, RowsFilled
  <2>2. OutcomeOf(t) # "working"
    BY <1>8, <2>1 DEF Conv!Quiet
  <2> QED BY <1>1, <2>2 DEF OutcomeOf, WorkedOn
<1> QED BY <1>3, <1>6, <1>7, <1>8, <1>9 DEF Conv!AskAgain
LEMMA CommitAnswers ==
  ASSUME StoreInv, NEW a \in Attempts, NEW t, t = attempt[a].turn, CommitAnswer(a)
  PROVE  Conv!Answer(t)
<1>1. /\ attempt' = [attempt EXCEPT ![a].state = "completed"]
      /\ turn' = [turn EXCEPT ![t].answer = a]
      /\ attempt[a].state = "running" /\ turn[t].answer = None
  BY DEF CommitAnswer, MayCommit, SetState
<1>2. t \in Turns /\ turn[t].row = "present"
  BY <1>1 DEF StoreInv, RowsFilled, NoOrphanRows, Active, Settled, Retryable
<1>3. \A u \in Turns : /\ turn'[u].row = turn[u].row /\ turn'[u].session = turn[u].session
                       /\ turn'[u].answer = IF u = t THEN a ELSE turn[u].answer
  BY <1>1, <1>2 DEF StoreInv, StoreTypeOK, TurnRows
<1>4. \A b \in Attempts : attempt'[b].turn = attempt[b].turn /\ (b # a => attempt'[b] = attempt[b])
  BY <1>1 DEF StoreInv, StoreTypeOK, AttemptRows
<1>5. \A u \in Turns : u # t => (WorkedOn(u)' <=> WorkedOn(u))
  BY <1>4 DEF WorkedOn
<1>6. \A u \in Turns : u # t => OutcomeOf(u)' = OutcomeOf(u)
  BY <1>3, <1>5 DEF OutcomeOf
<1>7. WorkedOn(t)
  BY <1>1 DEF WorkedOn, Active
<1>8. OutcomeOf(t) = "working"
  BY <1>1, <1>2, <1>7, OutcomeCases DEF Cases
<1>9. a # None
  BY ChatAssumption
<1>10. OutcomeOf(t)' = "answered"
  BY <1>2, <1>3, <1>9, OutcomeCases DEF Cases
<1> QED BY <1>2, <1>3, <1>6, <1>8, <1>10 DEF Conv!Answer

\* Starting, cancelling and settling attempt a change at most whether its question is worked on.
LEMMA WorkOrGiveUp ==
  ASSUME StoreInv, StoreInv', NEW a \in Attempts,
         \/ Start(a) \/ RequestCancel(a) \/ \E s \in Retryable : Finish(a, s)
  PROVE  Conv!ConvNext
<1>1. attempt[a].state \in Active /\ UNCHANGED turn
  BY DEF Start, RequestCancel, Finish, SetState, Active
<1>2. \/ attempt' = [attempt EXCEPT ![a].cancel = TRUE]
      \/ \E s \in {"running"} \cup Retryable : attempt' = [attempt EXCEPT ![a].state = s]
  BY DEF Start, RequestCancel, Finish, SetState, Retryable
<1>3. \A b \in Attempts : attempt'[b].turn = attempt[b].turn /\ (b # a => attempt'[b] = attempt[b])
  BY <1>2 DEF StoreInv, StoreTypeOK, AttemptRows
<1>4. \A t \in Turns : WorkedOn(t)' => WorkedOn(t)
  BY <1>1, <1>3 DEF WorkedOn
<1> QED BY <1>1, <1>4, EndOfWork

LEMMA ReconcileGivesUp ==
  ASSUME StoreInv, StoreInv', ReconcileInterrupted
  PROVE  Conv!ConvNext
<1>1. UNCHANGED turn /\ \A a \in Attempts : attempt'[a].state \notin Active
  BY DEF ReconcileInterrupted, StoreInv, StoreTypeOK, AttemptRows, Active
<1>2. \A t \in Turns : WorkedOn(t)' => WorkedOn(t)
  BY <1>1 DEF WorkedOn
<1> QED BY <1>1, <1>2, EndOfWork

LEMMA DeleteForgets ==
  ASSUME StoreInv, NEW s \in Sessions, DeleteSession(s)
  PROVE  Conv!Forget(s)
<1>1. /\ \A t \in Turns : turn'[t] = IF turn[t].session = s THEN NoTurn("deleted") ELSE turn[t]
      /\ \A a \in Attempts : attempt'[a] = IF attempt[a].session = s THEN NoAttempt("deleted") ELSE attempt[a]
  BY DEF DeleteSession
<1>2. NoTurn("deleted").row = "deleted" /\ NoTurn("deleted").session = None
      /\ NoAttempt("deleted").turn = None /\ NoAttempt("deleted").state \notin Active
  BY DEF NoTurn, NoAttempt, Active
<1>3. \A t \in Turns : turn[t].session # s => (WorkedOn(t)' <=> WorkedOn(t))
  BY <1>1, <1>2 DEF WorkedOn, StoreInv, NoOrphanRows, Settled
<1>4. \A t \in Turns : turn[t].session = s => OutcomeOf(t)' = "forgotten"
  BY <1>1, <1>2, OutcomeCases DEF Cases
<1>5. \A t \in Turns : turn[t].session # s => OutcomeOf(t)' = OutcomeOf(t)
  BY <1>1, <1>3 DEF OutcomeOf
<1> QED BY <1>1, <1>2, <1>4, <1>5 DEF Conv!Forget

LEMMA StepImplements == StoreInv /\ [StoreNext]_storeVars => [Conv!ConvNext]_Conv!convVars
<1> SUFFICES ASSUME StoreInv, [StoreNext]_storeVars PROVE [Conv!ConvNext]_Conv!convVars
  OBVIOUS
<1>0. StoreInv'
  BY StoreStep
<1>1. CASE Submit
  BY <1>1, AcceptAsks, RetryAsksAgain DEF Submit, Conv!ConvNext
<1>2. CASE Execute
  <2>1. ASSUME NEW a \in Attempts, CommitAnswer(a) PROVE Conv!ConvNext
    <3>1. attempt[a].turn \in Turns
      BY <2>1 DEF CommitAnswer, MayCommit, StoreInv, RowsFilled, Active
    <3> QED BY <2>1, <3>1, CommitAnswers DEF Conv!ConvNext
  <2> QED BY <1>0, <1>2, <2>1, WorkOrGiveUp DEF Execute
<1>3. CASE ReconcileInterrupted
  BY <1>0, <1>3, ReconcileGivesUp
<1>4. ASSUME NEW s \in Sessions, DeleteSession(s) PROVE Conv!ConvNext
  BY <1>4, DeleteForgets DEF Conv!ConvNext
<1>5. CASE UNCHANGED <<turn, attempt>>
  <2>1. \A t \in Turns : WorkedOn(t)' <=> WorkedOn(t)
    BY <1>5 DEF WorkedOn
  <2> QED BY <1>0, <1>5, <2>1, EndOfWork
<1> QED BY <1>1, <1>2, <1>3, <1>4, <1>5 DEF StoreNext, AddUntrackedMessage, DeleteDocument, storeVars

\* Every behaviour of the tables is one the user was promised: module Conversation.
THEOREM StoreImplements == StoreSpec => ImplementsConversation
<1>1. StoreInit => Conv!ConvInit
  BY DEF StoreInit, Conv!ConvInit, OutcomeOf, NoTurn
<1> QED BY <1>1, StepImplements, StoreInvariant, PTL DEF StoreSpec, ImplementsConversation, Conv!ConvSpec
----------------------------------------------------------------------------
\* attempt_number counts a question's attempts, and the current one carries the count.
NumberedFor(t) ==
  /\ turn[t].current \in AttemptsOf(t)
  /\ attempt[turn[t].current].number = Cardinality(AttemptsOf(t))
  /\ \A b \in AttemptsOf(t) : attempt[b].number <= Cardinality(AttemptsOf(t))

Numbered == \A t \in Turns : turn[t].row = "present" => NumberedFor(t)

\* A step that changes no question's set of attempts, numbers or current attempt.
LEMMA NumberedKept ==
  ASSUME Numbered,
         \A t \in Turns : turn'[t].row = "present" =>
           /\ turn[t].row = "present" /\ turn'[t].current = turn[t].current
           /\ AttemptsOf(t)' = AttemptsOf(t)
           /\ \A b \in AttemptsOf(t) : attempt'[b].number = attempt[b].number
  PROVE  Numbered'
  BY DEF Numbered, NumberedFor

LEMMA NumberedNext == StoreInv /\ Numbered /\ [StoreNext]_storeVars => Numbered'
<1> SUFFICES ASSUME StoreInv, Numbered, [StoreNext]_storeVars PROVE Numbered'
  OBVIOUS
<1>0. attempt \in [Attempts -> AttemptRows] /\ turn \in [Turns -> TurnRows]
  BY DEF StoreInv, StoreTypeOK
<1>1. ASSUME NEW s \in Sessions, NEW t \in Turns, NEW a \in Attempts, NEW k \in Keys,
             NEW linked \in SUBSET Documents, NEW selected \in SUBSET Documents,
             Accept(s, t, a, k, linked, selected)
      PROVE  Numbered'
  <2>1. /\ turn[t].row = "absent" /\ attempt[a].state = "absent"
        /\ turn' = [turn EXCEPT ![t] = [row |-> "present", session |-> s, current |-> a,
                                        answer |-> None, linked |-> linked, selected |-> selected]]
        /\ attempt' = [attempt EXCEPT ![a] =
             [state |-> "pending", turn |-> t, session |-> s, number |-> 1, key |-> k, cancel |-> FALSE]]
    BY <1>1 DEF Accept, InsertAttempt
  <2>2. attempt[a].turn \notin Turns
    BY <2>1, ChatAssumption DEF StoreInv, RowsFilled, Active, Settled, Retryable
  <2>3. \A b \in Attempts : attempt[b].turn # t
    BY <2>1, ChatAssumption DEF StoreInv, RowsFilled, NoOrphanRows
  <2>4. turn'[t].current = a /\ attempt'[a].turn = t /\ attempt'[a].number = 1
    BY <1>0, <2>1
  <2>5. AttemptsOf(t)' = {a}
    BY <1>0, <2>1, <2>3 DEF AttemptsOf
  <2>6. Cardinality(AttemptsOf(t)') = 1
    BY <2>5, FS_Singleton
  <2>7. \A u \in Turns : u # t => turn'[u] = turn[u] /\ AttemptsOf(u)' = AttemptsOf(u)
    BY <1>0, <2>1, <2>2 DEF AttemptsOf
  <2>8. \A b \in Attempts : b # a => attempt'[b] = attempt[b]
    BY <1>0, <2>1
  <2>9. \A u \in Turns : a \notin AttemptsOf(u)
    BY <2>2 DEF AttemptsOf
  <2>10. \A u \in Turns : AttemptsOf(u) \subseteq Attempts
    BY DEF AttemptsOf
  <2>11. ASSUME NEW u \in Turns, u # t, turn'[u].row = "present" PROVE NumberedFor(u)'
    BY <2>7, <2>8, <2>9, <2>10, <2>11 DEF Numbered, NumberedFor
  <2>12. NumberedFor(t)'
    BY <2>4, <2>5, <2>6 DEF NumberedFor
  <2> QED BY <2>11, <2>12 DEF Numbered
<1>2. ASSUME NEW t \in Turns, NEW a \in Attempts, NEW k \in Keys, Retry(t, a, k) PROVE Numbered'
  <2> DEFINE n == Cardinality(AttemptsOf(t))
  <2>1. /\ turn[t].row = "present" /\ attempt[a].state = "absent"
        /\ turn' = [turn EXCEPT ![t].current = a]
        /\ attempt' = [attempt EXCEPT ![a] =
             [state |-> "pending", turn |-> t, session |-> turn[t].session,
              number |-> n + 1, key |-> k, cancel |-> FALSE]]
    BY <1>2 DEF Retry, CanRetry, InsertAttempt
  <2>2. attempt[a].turn \notin Turns
    BY <2>1, ChatAssumption DEF StoreInv, RowsFilled, Active, Settled, Retryable
  <2>3. \A u \in Turns : AttemptsOf(u) \subseteq Attempts /\ a \notin AttemptsOf(u)
    BY <2>2 DEF AttemptsOf
  <2>4. IsFiniteSet(AttemptsOf(t)) /\ n \in Nat
    BY <2>3, ChatAssumption, FS_Subset, FS_CardinalityType
  <2>5. AttemptsOf(t)' = AttemptsOf(t) \cup {a}
    BY <1>0, <2>1 DEF AttemptsOf
  <2>6. Cardinality(AttemptsOf(t)') = n + 1
    BY <2>3, <2>4, <2>5, FS_AddElement
  <2>7. turn'[t].current = a /\ attempt'[a].number = n + 1
    BY <1>0, <2>1 DEF TurnRows
  <2>8. \A u \in Turns : u # t => turn'[u] = turn[u] /\ AttemptsOf(u)' = AttemptsOf(u)
    BY <1>0, <2>1, <2>2 DEF AttemptsOf
  <2>9. \A b \in Attempts : b # a => attempt'[b] = attempt[b]
    BY <1>0, <2>1
  <2>10. \A b \in AttemptsOf(t) : attempt[b].number \in Nat /\ attempt[b].number <= n
    BY <1>0, <2>1, <2>3 DEF Numbered, NumberedFor, AttemptRows
  <2> HIDE DEF n
  <2>11. \A b \in AttemptsOf(t)' : attempt'[b].number <= n + 1
    BY <2>3, <2>4, <2>5, <2>7, <2>9, <2>10
  <2>12. ASSUME NEW u \in Turns, u # t, turn'[u].row = "present" PROVE NumberedFor(u)'
    BY <2>3, <2>8, <2>9, <2>12 DEF Numbered, NumberedFor
  <2>13. NumberedFor(t)'
    BY <2>5, <2>6, <2>7, <2>11 DEF NumberedFor
  <2> QED BY <2>12, <2>13 DEF Numbered
<1>3. ASSUME NEW a \in Attempts,
             \/ Start(a) \/ RequestCancel(a) \/ CommitAnswer(a) \/ \E s \in Retryable : Finish(a, s)
      PROVE  Numbered'
  <2>1. \/ attempt' = [attempt EXCEPT ![a].cancel = TRUE]
        \/ \E s \in {"running", "completed"} \cup Retryable : attempt' = [attempt EXCEPT ![a].state = s]
    BY <1>3 DEF Start, RequestCancel, CommitAnswer, Finish, SetState, Retryable
  <2>2. \A b \in Attempts : attempt'[b].turn = attempt[b].turn /\ attempt'[b].number = attempt[b].number
    BY <1>0, <2>1 DEF AttemptRows
  <2>3. \A t \in Turns : turn'[t].row = turn[t].row /\ turn'[t].current = turn[t].current
    BY <1>0, <1>3 DEF Start, RequestCancel, CommitAnswer, Finish, TurnRows
  <2>4. \A t \in Turns : AttemptsOf(t)' = AttemptsOf(t) /\ AttemptsOf(t) \subseteq Attempts
    BY <2>2 DEF AttemptsOf
  <2> QED BY <2>2, <2>3, <2>4, NumberedKept
<1>4. CASE ReconcileInterrupted
  <2>1. \A b \in Attempts : attempt'[b].turn = attempt[b].turn /\ attempt'[b].number = attempt[b].number
    BY <1>0, <1>4 DEF ReconcileInterrupted, AttemptRows
  <2>2. \A t \in Turns : AttemptsOf(t)' = AttemptsOf(t) /\ AttemptsOf(t) \subseteq Attempts
    BY <2>1 DEF AttemptsOf
  <2> QED BY <1>4, <2>1, <2>2, NumberedKept DEF ReconcileInterrupted
<1>5. ASSUME NEW s \in Sessions, DeleteSession(s) PROVE Numbered'
  <2>1. /\ \A t \in Turns : turn'[t] = IF turn[t].session = s THEN NoTurn("deleted") ELSE turn[t]
        /\ \A b \in Attempts : attempt'[b] = IF attempt[b].session = s THEN NoAttempt("deleted") ELSE attempt[b]
    BY <1>5 DEF DeleteSession
  <2>2. \A t \in Turns : turn'[t].row = "present" => turn[t].session # s /\ turn'[t] = turn[t]
    BY <2>1 DEF NoTurn
  <2>3. \A t \in Turns, b \in Attempts : attempt[b].turn = t => attempt[b].session = turn[t].session
    BY ChatAssumption DEF StoreInv, RowsFilled, NoOrphanRows
  <2>4. NoAttempt("deleted").turn \notin Turns
    BY ChatAssumption DEF NoAttempt
  <2>5. \A t \in Turns : turn[t].session # s =>
          /\ AttemptsOf(t)' = AttemptsOf(t)
          /\ \A b \in AttemptsOf(t) : attempt'[b] = attempt[b]
    BY <2>1, <2>3, <2>4 DEF AttemptsOf
  <2> QED BY <2>2, <2>5, NumberedKept
<1>6. CASE UNCHANGED <<turn, attempt>>
  BY <1>6 DEF Numbered, NumberedFor, AttemptsOf
<1> QED BY <1>1, <1>2, <1>3, <1>4, <1>5, <1>6
        DEF StoreNext, Submit, Execute, AddUntrackedMessage, DeleteDocument, storeVars

\* The current attempt is the one with the highest number.
THEOREM CurrentLatest == StoreSpec => []CurrentIsLatest
<1>1. StoreInit => Numbered
  BY DEF StoreInit, Numbered, NoTurn
<1>2. Numbered => CurrentIsLatest
  BY DEF Numbered, NumberedFor, CurrentIsLatest, IsLatestAttempt
<1> QED BY <1>1, <1>2, NumberedNext, StoreInvariant, PTL DEF StoreSpec

\* A question the conversation has moved past is not worked on again.
THEOREM PassedClosed == StoreSpec => PassedQuestionsStayClosed
<1> DEFINE Closed == \A t \in Turns :
       (turn[t].row = "present" /\ newestUser[turn[t].session] # t
          /\ \A a \in AttemptsOf(t) : attempt[a].state \notin Active)
       => \A a \in AttemptsOf(t)' : attempt'[a].state \notin Active
<1>1. StoreInv /\ [StoreNext]_storeVars => [Closed]_storeVars
  <2> SUFFICES ASSUME StoreInv, StoreNext PROVE Closed
    OBVIOUS
  <2>0. attempt \in [Attempts -> AttemptRows]
    BY DEF StoreInv, StoreTypeOK
  <2>1. ASSUME NEW s \in Sessions, NEW t \in Turns, NEW a \in Attempts, NEW k \in Keys,
               NEW linked \in SUBSET Documents, NEW selected \in SUBSET Documents,
               Accept(s, t, a, k, linked, selected)
        PROVE  Closed
    BY <2>0, <2>1 DEF Accept, InsertAttempt, AttemptsOf
  <2>2. ASSUME NEW t \in Turns, NEW a \in Attempts, NEW k \in Keys, Retry(t, a, k) PROVE Closed
    BY <2>0, <2>2 DEF Retry, CanRetry, InsertAttempt, AttemptsOf
  <2>3. ASSUME \A a \in Attempts : attempt'[a].state \in Active =>
                 attempt[a].state \in Active /\ attempt'[a].turn = attempt[a].turn
        PROVE  Closed
    BY <2>3 DEF AttemptsOf
  <2>4. CASE Execute
    <3>1. PICK a \in Attempts : Start(a) \/ RequestCancel(a) \/ CommitAnswer(a) \/ \E s \in Retryable : Finish(a, s)
      BY <2>4 DEF Execute
    <3>2. attempt[a].state \in Active
      BY <3>1 DEF Start, RequestCancel, CommitAnswer, MayCommit, Finish, Active
    <3>3. \/ attempt' = [attempt EXCEPT ![a].cancel = TRUE]
          \/ \E s : attempt' = [attempt EXCEPT ![a].state = s]
      BY <3>1 DEF Start, RequestCancel, CommitAnswer, Finish, SetState
    <3>4. \A b \in Attempts : attempt'[b].turn = attempt[b].turn /\ (b # a => attempt'[b] = attempt[b])
      BY <2>0, <3>3 DEF AttemptRows
    <3> QED BY <2>3, <3>2, <3>4
  <2>5. CASE ReconcileInterrupted
    BY <2>0, <2>3, <2>5 DEF ReconcileInterrupted, AttemptRows, Active
  <2>6. ASSUME NEW s \in Sessions, DeleteSession(s) PROVE Closed
    BY <2>3, <2>6 DEF DeleteSession, NoAttempt, Active
  <2>7. CASE UNCHANGED attempt
    BY <2>3, <2>7
  <2> QED BY <2>1, <2>2, <2>4, <2>5, <2>6, <2>7 DEF StoreNext, Submit, AddUntrackedMessage, DeleteDocument
<1> QED BY <1>1, StoreInvariant, PTL DEF StoreSpec, PassedQuestionsStayClosed

\* Rows agree: one answer per completed attempt, one attempt at work, the latest one current.
THEOREM RowsInAgreement == StoreSpec => []RowsAgree
<1>1. AnswerRowsAgree /\ OneActivePerSession /\ CurrentIsLatest => RowsAgree
  BY DEF RowsAgree
<1> QED BY <1>1, AnswersAgree, OneActive, CurrentLatest, PTL

\* Attempts and questions only go forward.
THEOREM OnlyForward == StoreSpec => TurnsOnlyAdvance
BY OnlyAdvance, PassedClosed DEF TurnsOnlyAdvance

(***************************************************************************)
(* The queue: theorems of JobService                                       *)
(***************************************************************************)

Holding == {"taken", "uncancelled", "building", "executing", "working", "finalizing"}

\* The worker holds a job exactly between taking it and recording its outcome.
WorkerHolds ==
  /\ worker.at \in Holding <=> worker.job \in Jobs
  /\ worker.at = "finalizing" <=> worker.outcome # "none"

\* cancel_event and the state cancel_requested are set together.
CancelShown ==
  \A j \in Jobs : job[j].state \in Ongoing => (job[j].cancel <=> job[j].state = "cancel_requested")

\* How far a job's state can be at each place of the worker, a cancel aside.
StageShown ==
  /\ \A i \in DOMAIN queue : job[queue[i]].state \in {"queued", "cancel_requested"}
  /\ worker.at \in {"taken", "uncancelled"} => job[worker.job].state \in {"queued", "cancel_requested"}
  /\ worker.at \in {"building", "executing"} => job[worker.job].state \in {"preflighting", "cancel_requested"}
  /\ worker.at = "working" => job[worker.job].state \in {"running", "cancel_requested"}

\* The line is the end of the submission order, and a job was submitted once.
LineEndsOrder ==
  /\ Len(Line) <= Len(order)
  /\ \A i \in 1..Len(Line) : Line[i] = order[Len(order) - Len(Line) + i]
  /\ \A i, k \in DOMAIN order : order[i] = order[k] => i = k
  /\ \A i \in DOMAIN order : job[order[i]].state # "absent"

LineIsOngoing ==
  \A j \in Jobs : job[j].state \in Ongoing <=> \E i \in DOMAIN Line : Line[i] = j

JobInv ==
  /\ JobTypeOK
  /\ WorkerHolds
  /\ CancelShown
  /\ StageShown
  /\ FinalizeIsLegal
  /\ LineEndsOrder
  /\ LineIsOngoing

----------------------------------------------------------------------------
LEMMA Elements ==
  ASSUME NEW S, NEW seq \in Seq(S)
  PROVE  DOMAIN seq = 1..Len(seq) /\ \A i \in DOMAIN seq : seq[i] \in S
  OBVIOUS

\* A sequence that ends another still does when both get the same continuation.
LEMMA JoinEnds ==
  ASSUME NEW S, NEW l \in Seq(S), NEW o \in Seq(S), NEW b \in Seq(S), Len(l) <= Len(o),
         \A i \in 1..Len(l) : l[i] = o[Len(o) - Len(l) + i]
  PROVE  \A i \in 1..Len(l \o b) : (l \o b)[i] = (o \o b)[Len(o \o b) - Len(l \o b) + i]
<1>1. /\ Len(l) \in Nat /\ Len(o) \in Nat /\ Len(b) \in Nat
      /\ Len(l \o b) = Len(l) + Len(b) /\ Len(o \o b) = Len(o) + Len(b)
  OBVIOUS
<1>2. /\ \A i \in 1..(Len(l) + Len(b)) : (l \o b)[i] = IF i <= Len(l) THEN l[i] ELSE b[i - Len(l)]
      /\ \A i \in 1..(Len(o) + Len(b)) : (o \o b)[i] = IF i <= Len(o) THEN o[i] ELSE b[i - Len(o)]
  OBVIOUS
<1>3. SUFFICES ASSUME NEW i \in 1..(Len(l) + Len(b))
               PROVE  (l \o b)[i] = (o \o b)[Len(o) - Len(l) + i]
  BY <1>1
<1>4. Len(o) - Len(l) + i \in 1..(Len(o) + Len(b))
  BY <1>1
<1>5. CASE i <= Len(l)
  <2>1. i \in 1..Len(l) /\ Len(o) - Len(l) + i <= Len(o)
    BY <1>1, <1>5
  <2> QED BY <1>2, <1>4, <1>5, <2>1
<1>6. CASE i > Len(l)
  <2>1. Len(o) - Len(l) + i > Len(o) /\ (Len(o) - Len(l) + i) - Len(o) = i - Len(l)
    BY <1>1, <1>6
  <2> QED BY <1>1, <1>2, <1>4, <1>6, <2>1
<1> QED BY <1>1, <1>5, <1>6

\* Two sequences without repetition and without common elements join to another one.
LEMMA JoinInjective ==
  ASSUME NEW S, NEW p \in Seq(S), NEW q \in Seq(S),
         \A i, k \in DOMAIN p : p[i] = p[k] => i = k,
         \A i, k \in DOMAIN q : q[i] = q[k] => i = k,
         \A i \in DOMAIN p, k \in DOMAIN q : p[i] # q[k]
  PROVE  \A i, k \in DOMAIN (p \o q) : (p \o q)[i] = (p \o q)[k] => i = k
<1>1. /\ DOMAIN p = 1..Len(p) /\ DOMAIN q = 1..Len(q) /\ DOMAIN (p \o q) = 1..(Len(p) + Len(q))
      /\ Len(p) \in Nat /\ Len(q) \in Nat
  OBVIOUS
<1>2. \A i \in 1..(Len(p) + Len(q)) : (p \o q)[i] = IF i <= Len(p) THEN p[i] ELSE q[i - Len(p)]
  OBVIOUS
<1>3. \A i \in 1..(Len(p) + Len(q)) : (i <= Len(p) => i \in DOMAIN p) /\ (i > Len(p) => i - Len(p) \in DOMAIN q)
  BY <1>1
<1>4. SUFFICES ASSUME NEW i \in 1..(Len(p) + Len(q)), NEW k \in 1..(Len(p) + Len(q)), (p \o q)[i] = (p \o q)[k]
               PROVE  i = k
  BY <1>1
<1>5. CASE i <= Len(p) /\ k <= Len(p)
  BY <1>2, <1>3, <1>4, <1>5
<1>6. CASE i > Len(p) /\ k > Len(p)
  <2>1. i - Len(p) = k - Len(p)
    BY <1>1, <1>2, <1>3, <1>4, <1>6
  <2> QED BY <1>1, <2>1
<1>7. CASE (i <= Len(p)) # (k <= Len(p))
  BY <1>1, <1>2, <1>3, <1>4, <1>7
<1> QED BY <1>1, <1>5, <1>6, <1>7

\* Line, position by position.
LEMMA LineShape ==
  ASSUME JobTypeOK
  PROVE  /\ Line \in Seq(Jobs)
         /\ worker.job = NoJob => Line = queue
         /\ worker.job # NoJob =>
              /\ Len(Line) = Len(queue) + 1 /\ Line[1] = worker.job /\ Head(Line) = worker.job
              /\ Tail(Line) = queue
              /\ \A i \in 1..Len(queue) : Line[i + 1] = queue[i]
<1>1. CASE worker.job = NoJob
  <2>1. Line = <<>> \o queue
    BY <1>1 DEF Line
  <2>2. Line = queue
    BY <2>1 DEF JobTypeOK
  <2> QED BY <1>1, <2>2 DEF JobTypeOK
<1>2. CASE worker.job # NoJob
  <2>1. Line = <<worker.job>> \o queue /\ worker.job \in Jobs /\ queue \in Seq(Jobs)
    BY <1>2 DEF Line, JobTypeOK
  <2>2. Line \in Seq(Jobs) /\ Len(Line) = Len(queue) + 1 /\ Line[1] = worker.job
    BY <2>1
  <2>3. \A i \in 1..Len(queue) : Line[i + 1] = queue[i]
    BY <2>1
  <2>4. Head(Line) = worker.job
    BY <2>2
  <2>5. Tail(Line) = queue
    <3>1. Tail(Line) \in Seq(Jobs) /\ Len(Tail(Line)) = Len(queue)
      BY <2>1, <2>2
    <3>2. \A i \in 1..Len(queue) : Tail(Line)[i] = queue[i]
      BY <2>1, <2>2, <2>3
    <3> QED BY <2>1, <3>1, <3>2
  <2> QED BY <1>2, <2>2, <2>3, <2>4, <2>5
<1> QED BY <1>1, <1>2

\* The line has no job twice, because the submission order has none.
LEMMA LineInjective ==
  ASSUME JobTypeOK, LineEndsOrder
  PROVE  \A i, k \in DOMAIN Line : Line[i] = Line[k] => i = k
<1> DEFINE gap == Len(order) - Len(Line)
<1>1. Len(Line) \in Nat /\ Len(order) \in Nat /\ DOMAIN Line = 1..Len(Line) /\ DOMAIN order = 1..Len(order)
  BY LineShape, Elements DEF JobTypeOK
<1>2. gap \in Nat /\ gap + Len(Line) = Len(order)
  BY <1>1 DEF LineEndsOrder
<1>3. \A i \in DOMAIN Line : Line[i] = order[gap + i]
  BY <1>1 DEF LineEndsOrder
<1> SUFFICES ASSUME NEW i \in DOMAIN Line, NEW k \in DOMAIN Line, Line[i] = Line[k] PROVE i = k
  OBVIOUS
<1>4. gap + i \in DOMAIN order /\ gap + k \in DOMAIN order /\ order[gap + i] = order[gap + k]
  <2> HIDE DEF gap
  <2> QED BY <1>1, <1>2, <1>3
<1>5. gap + i = gap + k
  BY <1>4 DEF LineEndsOrder
<1> HIDE DEF gap
<1> QED BY <1>1, <1>2, <1>5

LEMMA InitEstablishes == JobInit => JobInv
<1> SUFFICES ASSUME JobInit PROVE JobInv
  OBVIOUS
<1>0. NoRecord("absent") \in JobRows
  BY DEF JobRows, NoRecord
<1>1. JobTypeOK
  <2>1. job \in [Jobs -> JobRows]
    BY <1>0 DEF JobInit
  <2>2. worker \in [at : Places, job : Jobs \cup {NoJob}, outcome : Terminal \cup {"none"}]
    BY DEF JobInit, Places
  <2>3. order \in Seq(Jobs) /\ queue \in Seq(Jobs)
    BY DEF JobInit
  <2>4. shuttingDown \in BOOLEAN
    BY DEF JobInit
  <2> QED BY <2>1, <2>2, <2>3, <2>4 DEF JobTypeOK
<1>2. Line = <<>>
  BY <1>1, LineShape DEF JobInit
<1>3. \A j \in Jobs : job[j].state = "absent"
  BY DEF JobInit, NoRecord
<1>4. WorkerHolds /\ CancelShown /\ StageShown /\ FinalizeIsLegal
  BY <1>3, JobAssumption DEF JobInit, WorkerHolds, Holding, CancelShown, StageShown, FinalizeIsLegal, Ongoing
<1>5. LineEndsOrder /\ LineIsOngoing
  BY <1>2, <1>3 DEF JobInit, LineEndsOrder, LineIsOngoing, Ongoing
<1> QED BY <1>1, <1>4, <1>5 DEF JobInv
\* New jobs are registered and appended to the line; the worker goes on, or is woken.
Appends(batch, kind, subject) ==
  /\ \A i, k \in DOMAIN batch : batch[i] = batch[k] => i = k
  /\ \A i \in DOMAIN batch : job[batch[i]].state = "absent"
  /\ job' = [j \in Jobs |-> IF \E i \in DOMAIN batch : batch[i] = j
              THEN [state |-> "queued", kind |-> kind, subject |-> subject, cancel |-> FALSE] ELSE job[j]]
  /\ order' = order \o batch /\ queue' = queue \o batch /\ UNCHANGED shuttingDown
  /\ worker' = worker \/ (worker.at \in {"none", "waiting"} /\ worker' = [worker EXCEPT !.at = "awake"])

LEMMA AppendPreserves ==
  ASSUME JobInv, NEW batch \in Batches, NEW kind \in Kinds, NEW subject \in Subjects \cup {NoSubject},
         Appends(batch, kind, subject)
  PROVE  JobInv' /\ Line' = Line \o batch
<1> DEFINE new == [state |-> "queued", kind |-> kind, subject |-> subject, cancel |-> FALSE]
<1>1. batch \in Seq(Jobs) /\ DOMAIN batch = 1..Len(batch)
  BY JobAssumption DEF Batches
<1>2. /\ \A i, k \in DOMAIN batch : batch[i] = batch[k] => i = k
      /\ \A i \in DOMAIN batch : job[batch[i]].state = "absent"
      /\ \A j \in Jobs : job'[j] = IF \E i \in DOMAIN batch : batch[i] = j THEN new ELSE job[j]
      /\ order' = order \o batch /\ queue' = queue \o batch /\ UNCHANGED shuttingDown
      /\ worker' = worker \/ (worker.at \in {"none", "waiting"} /\ worker' = [worker EXCEPT !.at = "awake"])
  BY DEF Appends
<1>3. new \in JobRows /\ new.state = "queued" /\ ~new.cancel
  BY DEF JobRows, Ongoing
<1> HIDE DEF new
<1>4. worker \in [at : Places, job : Jobs \cup {NoJob}, outcome : Terminal \cup {"none"}]
  BY DEF JobInv, JobTypeOK
<1>5. /\ worker'.job = worker.job /\ worker'.outcome = worker.outcome
      /\ worker'.at = worker.at \/ (worker.at \notin Holding /\ worker'.at = "awake")
      /\ worker' \in [at : Places, job : Jobs \cup {NoJob}, outcome : Terminal \cup {"none"}]
  BY <1>2, <1>4 DEF Holding, Places
<1>6. JobTypeOK'
  <2>1. job' \in [Jobs -> JobRows]
    BY <1>2, <1>3 DEF JobInv, JobTypeOK, Appends
  <2> QED BY <1>1, <1>2, <1>5, <2>1 DEF JobInv, JobTypeOK
<1>7. Line' = Line \o batch
  <2>1. CASE worker.job = NoJob
    <3>1. Line' = queue' /\ Line = queue
      BY <1>2, <1>5, <2>1, LineShape, <1>1 DEF JobInv, JobTypeOK, Line
    <3> QED BY <1>2, <3>1
  <2>2. CASE worker.job # NoJob
    <3>1. Line' = <<worker.job>> \o (queue \o batch) /\ Line = <<worker.job>> \o queue /\ worker.job \in Jobs
      BY <1>2, <1>4, <1>5, <2>2 DEF Line
    <3> QED BY <1>1, <3>1 DEF JobInv, JobTypeOK
  <2> QED BY <2>1, <2>2
<1>8. \A j \in Jobs : job[j].state # "absent" => job'[j] = job[j]
  BY <1>2
<1>9. worker.at \in Holding => worker.job \in Jobs /\ job'[worker.job] = job[worker.job]
  <2>1. worker.at \in Holding => worker.job \in Jobs /\ job[worker.job].state # "absent"
    BY DEF JobInv, WorkerHolds, StageShown, FinalizeIsLegal, LegalFrom, Holding
  <2> QED BY <1>8, <2>1
<1>10. WorkerHolds'
  BY <1>5 DEF JobInv, WorkerHolds, Holding
<1>11. CancelShown'
  BY <1>2, <1>3 DEF JobInv, CancelShown, Ongoing
<1>12. StageShown'
  <2>1. \A i \in DOMAIN queue' : job'[queue'[i]].state \in {"queued", "cancel_requested"}
    <3>1. \A i \in DOMAIN queue : queue[i] \in Jobs /\ job'[queue[i]] = job[queue[i]]
      BY <1>8 DEF JobInv, JobTypeOK, StageShown
    <3>2. \A i \in DOMAIN batch : batch[i] \in Jobs /\ job'[batch[i]].state = "queued"
      BY <1>1, <1>2, <1>3
    <3> QED BY <1>1, <1>2, <3>1, <3>2 DEF JobInv, JobTypeOK, StageShown
  <2> QED BY <1>5, <1>9, <2>1 DEF JobInv, StageShown, Holding
<1>13. FinalizeIsLegal'
  BY <1>5, <1>9 DEF JobInv, FinalizeIsLegal, Holding
<1>14. LineEndsOrder'
  <2>1. Line \in Seq(Jobs) /\ order \in Seq(Jobs)
    BY LineShape DEF JobInv, JobTypeOK
  <2>2. Len(Line') = Len(Line) + Len(batch) /\ Len(order') = Len(order) + Len(batch)
    BY <1>1, <1>2, <1>7, <2>1
  <2>3. \A i \in 1..Len(Line') : Line'[i] = order'[Len(order') - Len(Line') + i]
    <3>1. Len(Line) <= Len(order) /\ \A i \in 1..Len(Line) : Line[i] = order[Len(order) - Len(Line) + i]
      BY DEF JobInv, LineEndsOrder
    <3>2. Line' = Line \o batch /\ order' = order \o batch
      BY <1>2, <1>7
    <3>3. ASSUME NEW line \in Seq(Jobs), NEW old \in Seq(Jobs), line = Line, old = order
          PROVE  \A i \in 1..Len(line \o batch) :
                   (line \o batch)[i] = (old \o batch)[Len(old \o batch) - Len(line \o batch) + i]
      BY <1>1, <3>1, <3>3, JoinEnds
    <3> QED BY <2>1, <3>2, <3>3
  <2>4. \A i, k \in DOMAIN order' : order'[i] = order'[k] => i = k
    <3>1. \A i \in DOMAIN order, k \in DOMAIN batch : order[i] # batch[k]
      BY <1>2 DEF JobInv, LineEndsOrder
    <3>2. \A i, k \in DOMAIN order : order[i] = order[k] => i = k
      BY DEF JobInv, LineEndsOrder
    <3>3. \A i, k \in DOMAIN batch : batch[i] = batch[k] => i = k
      BY <1>2
    <3>4. ASSUME NEW old \in Seq(Jobs), old = order
          PROVE  \A i, k \in DOMAIN (old \o batch) : (old \o batch)[i] = (old \o batch)[k] => i = k
      BY <1>1, <3>1, <3>2, <3>3, <3>4, JoinInjective
    <3>5. \A i, k \in DOMAIN (order \o batch) : (order \o batch)[i] = (order \o batch)[k] => i = k
      BY <2>1, <3>4
    <3> QED BY <1>2, <3>5
  <2>5. \A i \in DOMAIN order' : job'[order'[i]].state # "absent"
    <3>1. \A i \in DOMAIN order : job'[order[i]].state # "absent"
      BY <1>8, <2>1, Elements DEF JobInv, LineEndsOrder
    <3>2. \A i \in DOMAIN batch : job'[batch[i]].state # "absent"
      BY <1>1, <1>2, <1>3, Elements
    <3>3. \A i \in DOMAIN order' : \/ i \in DOMAIN order /\ order'[i] = order[i]
                                   \/ i - Len(order) \in DOMAIN batch /\ order'[i] = batch[i - Len(order)]
      BY <1>1, <1>2, <2>1
    <3> QED BY <3>1, <3>2, <3>3
  <2> QED BY <2>1, <2>2, <2>3, <2>4, <2>5 DEF JobInv, LineEndsOrder
<1>15. LineIsOngoing'
  <2>1. Line \in Seq(Jobs)
    BY LineShape DEF JobInv
  <2>2. \A j \in Jobs : (\E i \in DOMAIN Line' : Line'[i] = j)
          <=> (\E i \in DOMAIN Line : Line[i] = j) \/ (\E i \in DOMAIN batch : batch[i] = j)
    <3>1. Len(Line') = Len(Line) + Len(batch)
      BY <1>1, <1>7, <2>1
    <3>2. \A i \in DOMAIN Line : i \in DOMAIN Line' /\ Line'[i] = Line[i]
      BY <1>1, <1>7, <2>1
    <3>3. \A i \in DOMAIN batch : Len(Line) + i \in DOMAIN Line' /\ Line'[Len(Line) + i] = batch[i]
      BY <1>1, <1>7, <2>1
    <3>4. \A i \in DOMAIN Line' : i \in DOMAIN Line \/ (i - Len(Line) \in DOMAIN batch /\ Line'[i] = batch[i - Len(Line)])
      BY <1>1, <1>7, <2>1
    <3> QED BY <3>2, <3>3, <3>4
  <2> QED BY <1>2, <1>3, <2>2 DEF JobInv, LineIsOngoing, Ongoing
<1> QED BY <1>6, <1>7, <1>10, <1>11, <1>12, <1>13, <1>14, <1>15 DEF JobInv

\* A submission appends its jobs to the line.
LEMMA RegisterPreserves ==
  ASSUME JobInv, NEW batch \in Batches, NEW kind \in Kinds, NEW subject \in Subjects \cup {NoSubject},
         Register(batch, kind, subject)
  PROVE  JobInv' /\ Line' = Line \o batch
<1>1. Appends(batch, kind, subject)
  BY DEF Register, StartOrWake, Appends
<1> QED BY <1>1, AppendPreserves

\* A cancel of one job, or of all of them at shutdown, changes states and the event only.
LEMMA CancelPreserves ==
  ASSUME JobInv, NEW J \in SUBSET Jobs, \A j \in J : job[j].state \in Ongoing,
         job' = [j \in Jobs |-> IF j \in J THEN [job[j] EXCEPT !.cancel = TRUE, !.state = "cancel_requested"]
                                ELSE job[j]],
         UNCHANGED <<order, queue>>, shuttingDown' \in BOOLEAN,
         worker' = worker \/ (worker.at = "waiting" /\ worker' = [worker EXCEPT !.at = "awake"])
  PROVE  JobInv' /\ Line' = Line
<1>1. \A j \in Jobs :
        /\ job'[j] \in JobRows
        /\ j \notin J => job'[j] = job[j]
        /\ j \in J => job'[j].state = "cancel_requested" /\ job'[j].cancel
  <2>1. \A j \in Jobs : job[j] \in JobRows
    BY DEF JobInv, JobTypeOK
  <2>2. \A r \in JobRows : LET c == [r EXCEPT !.cancel = TRUE, !.state = "cancel_requested"]
                           IN c \in JobRows /\ c.state = "cancel_requested" /\ c.cancel
    BY DEF JobRows, Ongoing
  <2> QED BY <2>1, <2>2
<1>2. /\ worker'.job = worker.job /\ worker'.outcome = worker.outcome
      /\ worker'.at = worker.at \/ (worker.at \notin Holding /\ worker'.at = "awake")
      /\ worker' \in [at : Places, job : Jobs \cup {NoJob}, outcome : Terminal \cup {"none"}]
  BY DEF JobInv, JobTypeOK, Holding, Places
<1>3. Line' = Line
  BY <1>2 DEF Line
<1>4. JobTypeOK'
  BY <1>1, <1>2 DEF JobInv, JobTypeOK
<1>5. WorkerHolds'
  BY <1>2 DEF JobInv, WorkerHolds, Holding
<1>6. CancelShown'
  BY <1>1 DEF JobInv, CancelShown
<1>7. StageShown'
  <2>1. \A i \in DOMAIN queue : queue[i] \in Jobs
    BY Elements DEF JobInv, JobTypeOK
  <2> QED BY <1>1, <1>2, <2>1 DEF JobInv, StageShown, WorkerHolds, Holding
<1>8. FinalizeIsLegal'
  <2>1. worker.at = "finalizing" => worker.job \in Jobs /\ worker.outcome \in Terminal
    BY DEF JobInv, WorkerHolds, Holding, JobTypeOK
  <2> QED BY <1>1, <1>2, <2>1 DEF JobInv, FinalizeIsLegal, LegalFrom, Terminal, Holding
<1>9. LineEndsOrder'
  <2>1. \A i \in DOMAIN order : order[i] \in Jobs
    BY Elements DEF JobInv, JobTypeOK
  <2> QED BY <1>1, <1>3, <2>1 DEF JobInv, LineEndsOrder
<1>10. LineIsOngoing'
  BY <1>1, <1>3 DEF JobInv, LineIsOngoing, Ongoing
<1> QED BY <1>3, <1>4, <1>5, <1>6, <1>7, <1>8, <1>9, <1>10 DEF JobInv
\* The worker moves on with its job; the job's state is where the new place says.
LEMMA MovePreserves ==
  ASSUME JobInv, worker.at \in Holding, NEW place \in Holding, NEW o \in Terminal \cup {"none"},
         WorkerAt(place, worker.job, o), place = "finalizing" <=> o # "none",
         NEW r \in JobRows, job' = [job EXCEPT ![worker.job] = r],
         r.state \in Ongoing, r.cancel <=> r.state = "cancel_requested",
         place \in {"taken", "uncancelled"} => r.state \in {"queued", "cancel_requested"},
         place \in {"building", "executing"} => r.state \in {"preflighting", "cancel_requested"},
         place = "working" => r.state \in {"running", "cancel_requested"},
         place = "finalizing" => o \in LegalFrom(r.state),
         UNCHANGED <<order, queue, shuttingDown>>
  PROVE  JobInv' /\ Line' = Line
<1> DEFINE w == worker.job
<1>1. w \in Jobs /\ w # NoJob
  BY JobAssumption DEF JobInv, WorkerHolds
<1>2. /\ worker'.at = place /\ worker'.job = w /\ worker'.outcome = o
      /\ worker' \in [at : Places, job : Jobs \cup {NoJob}, outcome : Terminal \cup {"none"}]
  BY <1>1 DEF WorkerAt, Places, Holding
<1>3. job'[w] = r /\ \A j \in Jobs : j # w => job'[j] = job[j]
  BY <1>1 DEF JobInv, JobTypeOK
<1>4. Line' = Line
  BY <1>2 DEF Line
<1>5. JobTypeOK'
  BY <1>1, <1>2 DEF JobInv, JobTypeOK
<1>6. WorkerHolds'
  BY <1>1, <1>2 DEF WorkerHolds
<1>7. CancelShown'
  BY <1>3 DEF JobInv, CancelShown
<1>8. \A i \in DOMAIN queue : queue[i] \in Jobs /\ queue[i] # w
  <2>1. \A i \in 1..Len(queue) : i + 1 \in DOMAIN Line /\ Line[i + 1] = queue[i] /\ Line[1] = w /\ 1 \in DOMAIN Line
    BY <1>1, LineShape, Elements DEF JobInv, JobTypeOK
  <2>2. \A i, k \in DOMAIN Line : Line[i] = Line[k] => i = k
    BY LineInjective DEF JobInv
  <2> QED BY <2>1, <2>2, Elements DEF JobInv, JobTypeOK
<1>9. StageShown'
  BY <1>2, <1>3, <1>8 DEF JobInv, StageShown
<1>10. FinalizeIsLegal'
  BY <1>2, <1>3 DEF FinalizeIsLegal
<1>11. job[w].state \in Ongoing
  BY DEF JobInv, StageShown, FinalizeIsLegal, LegalFrom, Holding, Ongoing
<1>12. LineEndsOrder'
  <2>1. \A i \in DOMAIN order : order[i] \in Jobs
    BY Elements DEF JobInv, JobTypeOK
  <2> QED BY <1>3, <1>4, <2>1 DEF JobInv, LineEndsOrder, Ongoing
<1>13. LineIsOngoing'
  BY <1>3, <1>4, <1>11 DEF JobInv, LineIsOngoing
<1> QED BY <1>4, <1>5, <1>6, <1>7, <1>9, <1>10, <1>12, <1>13 DEF JobInv

\* The worker without a job: it waits, leaves or takes the head of the queue.
LEMMA TakePreserves ==
  ASSUME JobInv, Wait \/ Exit \/ Take
  PROVE  JobInv' /\ Line' = Line
<1>1. worker.job = NoJob /\ worker.at = "awake" /\ Line = queue
  BY LineShape DEF JobInv, WorkerHolds, Holding, JobTypeOK, Wait, Exit, Take
<1>2. CASE Wait \/ Exit
  <2>1. /\ worker'.at \in {"waiting", "exited"} /\ worker'.job = NoJob /\ worker'.outcome = "none"
        /\ worker' \in [at : Places, job : Jobs \cup {NoJob}, outcome : Terminal \cup {"none"}]
        /\ UNCHANGED <<job, order, queue, shuttingDown>>
    BY <1>2 DEF Wait, Exit, WorkerAt, Places
  <2>2. Line' = Line
    BY <1>1, <2>1 DEF Line
  <2>3. JobTypeOK' /\ CancelShown' /\ LineEndsOrder' /\ LineIsOngoing'
    BY <2>1, <2>2 DEF JobInv, JobTypeOK, CancelShown, LineEndsOrder, LineIsOngoing
  <2>4. WorkerHolds' /\ StageShown' /\ FinalizeIsLegal'
    BY <2>1, JobAssumption DEF JobInv, WorkerHolds, Holding, StageShown, FinalizeIsLegal
  <2> QED BY <2>2, <2>3, <2>4 DEF JobInv
<1>3. CASE Take
  <2>1. queue \in Seq(Jobs) /\ queue # <<>> /\ Head(queue) \in Jobs /\ Tail(queue) \in Seq(Jobs)
    BY <1>3 DEF Take, JobInv, JobTypeOK
  <2>2. /\ worker'.at = "taken" /\ worker'.job = Head(queue) /\ worker'.outcome = "none"
        /\ worker' \in [at : Places, job : Jobs \cup {NoJob}, outcome : Terminal \cup {"none"}]
        /\ queue' = Tail(queue) /\ UNCHANGED <<job, order, shuttingDown>>
    BY <1>3, <2>1 DEF Take, WorkerAt, Places
  <2>3. Line' = Line
    <3>1. Line' = <<Head(queue)>> \o Tail(queue)
      BY <2>1, <2>2, JobAssumption DEF Line
    <3> QED BY <1>1, <2>1, <3>1
  <2>4. JobTypeOK' /\ CancelShown' /\ LineEndsOrder' /\ LineIsOngoing'
    BY <2>1, <2>2, <2>3 DEF JobInv, JobTypeOK, CancelShown, LineEndsOrder, LineIsOngoing
  <2>5. /\ job[Head(queue)].state \in {"queued", "cancel_requested"}
        /\ \A i \in DOMAIN Tail(queue) : job[Tail(queue)[i]].state \in {"queued", "cancel_requested"}
    BY <2>1 DEF JobInv, StageShown
  <2>6. WorkerHolds' /\ StageShown' /\ FinalizeIsLegal'
    BY <2>1, <2>2, <2>5 DEF WorkerHolds, Holding, StageShown, FinalizeIsLegal
  <2> QED BY <2>3, <2>4, <2>6 DEF JobInv
<1> QED BY <1>2, <1>3

\* The worker's job is none of the last MaxRetained outcomes' elders: it is never pruned at once.
LEMMA FinalizePreserves ==
  ASSUME JobInv, Finalize
  PROVE  LET gone == Forgotten([job EXCEPT ![worker.job].state = worker.outcome], order)
         IN /\ JobInv' /\ Line # <<>> /\ Head(Line) = worker.job /\ Line' = Tail(Line)
            /\ worker.job \in Jobs /\ worker.job \notin gone
            /\ \A j \in gone : j \in Jobs /\ job[j].state \in Terminal
            /\ worker.outcome \in LegalFrom(job[worker.job].state) \cap Terminal
            /\ \A j \in Jobs : job'[j].state = IF j = worker.job THEN worker.outcome
                                             ELSE IF j \in gone THEN "pruned" ELSE job[j].state
<1> DEFINE w == worker.job
           settled == [job EXCEPT ![w].state = worker.outcome]
           gone == Forgotten(settled, order)
           p == Len(order) - Len(Line) + 1
<1>1. w \in Jobs /\ w # NoJob /\ worker.outcome \in Terminal /\ worker.outcome \in LegalFrom(job[w].state)
  BY JobAssumption DEF Finalize, JobInv, WorkerHolds, Holding, JobTypeOK
<1>2. /\ job' = [j \in Jobs |-> IF j \in gone THEN NoRecord("pruned") ELSE settled[j]]
      /\ worker' = [at |-> "awake", job |-> NoJob, outcome |-> "none"]
      /\ UNCHANGED <<order, queue, shuttingDown>>
  BY DEF Finalize, WorkerAt
<1>3. \A j \in Jobs : settled[j] \in JobRows /\ settled[j].state = IF j = w THEN worker.outcome ELSE job[j].state
  BY <1>1 DEF JobInv, JobTypeOK, JobRows
<1>4. /\ Line \in Seq(Jobs) /\ Len(Line) = Len(queue) + 1 /\ Line[1] = w /\ Head(Line) = w /\ Tail(Line) = queue
      /\ \A i \in 1..Len(queue) : Line[i + 1] = queue[i]
      /\ order \in Seq(Jobs) /\ queue \in Seq(Jobs) /\ Line # <<>>
  BY <1>1, LineShape DEF JobInv, JobTypeOK
<1>5. p \in DOMAIN order /\ order[p] = w
  <2>1. /\ Len(Line) \in Nat /\ Len(Line) >= 1 /\ Len(order) \in Nat /\ Len(queue) \in Nat
        /\ DOMAIN order = 1..Len(order)
    BY <1>4
  <2>2. Len(Line) <= Len(order) /\ \A i \in 1..Len(Line) : Line[i] = order[Len(order) - Len(Line) + i]
    BY DEF JobInv, LineEndsOrder
  <2>3. p \in DOMAIN order
    BY <2>1, <2>2
  <2>4. Line[1] = order[Len(order) - Len(Line) + 1]
    BY <2>1, <2>2
  <2> QED BY <1>4, <2>3, <2>4
<1>6. \A k \in DOMAIN order : k > p => order[k] # w /\ job[order[k]].state \in Ongoing
  <2>1. ASSUME NEW k \in DOMAIN order, k > p PROVE order[k] # w /\ job[order[k]].state \in Ongoing
    <3> DEFINE i == k - p + 1
    <3>1. i \in DOMAIN Line /\ Line[i] = order[k]
      BY <1>4, <1>5, <2>1 DEF JobInv, LineEndsOrder
    <3>2. order[k] # w
      BY <1>5, <2>1 DEF JobInv, LineEndsOrder
    <3> QED BY <1>4, <3>1, <3>2 DEF JobInv, LineIsOngoing
  <2> QED BY <2>1
<1> HIDE DEF settled, p, w
<1>7. w \notin gone
  <2> SUFFICES ASSUME w \in gone PROVE FALSE
    OBVIOUS
  <2>1. PICK i \in TerminalIn(settled, order) :
          order[i] = w /\ Cardinality({k \in TerminalIn(settled, order) : k > i}) >= MaxRetained
    BY DEF Forgotten
  <2>2. i \in DOMAIN order /\ i = p
    BY <1>5, <2>1 DEF TerminalIn, JobInv, LineEndsOrder
  <2>3. {k \in TerminalIn(settled, order) : k > i} = {}
    <3>1. \A k \in TerminalIn(settled, order) : k \in DOMAIN order /\ order[k] \in Jobs /\ settled[order[k]].state \in Terminal
      BY <1>4, Elements DEF TerminalIn
    <3> QED BY <1>3, <1>6, <2>2, <3>1 DEF Terminal, Ongoing
  <2>4. Cardinality({}) = 0
    BY FS_EmptySet
  <2> QED BY <2>1, <2>3, <2>4, JobAssumption
<1>8. \A j \in gone : j \in Jobs /\ job[j].state \in Terminal
  <2>1. \A j \in gone : \E i \in TerminalIn(settled, order) : order[i] = j
    BY DEF Forgotten
  <2>2. \A i \in TerminalIn(settled, order) : order[i] \in Jobs /\ settled[order[i]].state \in Terminal
    BY <1>4, Elements DEF TerminalIn
  <2> QED BY <1>3, <1>7, <2>1, <2>2
<1> HIDE DEF gone
<1>9. \A j \in Jobs : /\ job'[j].state = IF j = w THEN worker.outcome ELSE IF j \in gone THEN "pruned" ELSE job[j].state
                      /\ j # w /\ j \notin gone => job'[j] = job[j]
                      /\ job'[j] \in JobRows
  <2>1. NoRecord("pruned") \in JobRows /\ NoRecord("pruned").state = "pruned"
    BY DEF NoRecord, JobRows
  <2>2. \A j \in Jobs : j # w => settled[j] = job[j]
    BY <1>1 DEF settled, JobInv, JobTypeOK
  <2> QED BY <1>2, <1>3, <1>7, <2>1, <2>2
<1>10. Line' = queue
  BY <1>2, <1>4 DEF Line
<1>11. JobTypeOK'
  BY <1>2, <1>9 DEF JobInv, JobTypeOK, Places
<1>12. WorkerHolds' /\ FinalizeIsLegal'
  BY <1>2, JobAssumption DEF WorkerHolds, Holding, FinalizeIsLegal
<1>13. CancelShown'
  BY <1>1, <1>9 DEF JobInv, CancelShown, Ongoing, Terminal
<1>14. \A j \in Jobs : job[j].state \in Ongoing /\ j # w => job'[j] = job[j]
  BY <1>8, <1>9 DEF Ongoing, Terminal
<1>15. \A j \in Jobs : job'[j].state \in Ongoing <=> job[j].state \in Ongoing /\ j # w
  BY <1>1, <1>9, <1>14 DEF Ongoing, Terminal
<1>16. \A i, k \in DOMAIN Line : Line[i] = Line[k] => i = k
  BY LineInjective DEF JobInv
<1>17. \A j \in Jobs : (\E i \in DOMAIN queue : queue[i] = j) <=> (\E i \in DOMAIN Line : Line[i] = j) /\ j # w
  <2>1. \A i \in DOMAIN queue : i + 1 \in DOMAIN Line /\ Line[i + 1] = queue[i] /\ i + 1 # 1
    BY <1>4
  <2>2. \A i \in DOMAIN Line : i = 1 \/ (i - 1 \in DOMAIN queue /\ Line[i] = queue[i - 1])
    BY <1>4
  <2>3. 1 \in DOMAIN Line /\ Line[1] = w
    BY <1>4
  <2>4. \A i \in DOMAIN queue : queue[i] # w
    BY <1>16, <2>1, <2>3
  <2>5. \A i \in DOMAIN Line : Line[i] = w \/ (i - 1 \in DOMAIN queue /\ queue[i - 1] = Line[i])
    BY <2>2, <2>3
  <2>6. \A i \in DOMAIN queue : \E k \in DOMAIN Line : Line[k] = queue[i]
    BY <2>1
  <2>7. \A i \in DOMAIN Line : Line[i] # w => \E k \in DOMAIN queue : queue[k] = Line[i]
    BY <2>5
  <2> QED BY <2>4, <2>6, <2>7
<1>18. LineIsOngoing'
  BY <1>2, <1>10, <1>15, <1>17 DEF JobInv, LineIsOngoing
<1>19. StageShown'
  <2>1. \A i \in DOMAIN queue : queue[i] \in Jobs /\ queue[i] # w /\ job[queue[i]].state \in {"queued", "cancel_requested"}
    BY <1>4, <1>17, Elements DEF JobInv, StageShown
  <2>2. \A i \in DOMAIN queue : job'[queue[i]] = job[queue[i]]
    BY <1>14, <2>1 DEF Ongoing
  <2> QED BY <1>2, <2>1, <2>2 DEF StageShown
<1>20. LineEndsOrder'
  <2>1. Len(queue) <= Len(order) /\ \A i \in 1..Len(queue) : queue[i] = order[Len(order) - Len(queue) + i]
    <3>1. Len(queue) \in Nat /\ Len(order) \in Nat
      BY <1>4
    <3>2. Len(Line) <= Len(order) /\ \A i \in 1..Len(Line) : Line[i] = order[Len(order) - Len(Line) + i]
      BY DEF JobInv, LineEndsOrder
    <3>3. ASSUME NEW i \in 1..Len(queue) PROVE queue[i] = order[Len(order) - Len(queue) + i]
      <4>1. i + 1 \in 1..Len(Line) /\ queue[i] = Line[i + 1]
        BY <1>4, <3>1
      <4>2. Line[i + 1] = order[Len(order) - Len(Line) + (i + 1)]
        BY <3>2, <4>1
      <4>3. Len(order) - Len(Line) + (i + 1) = Len(order) - Len(queue) + i
        BY <1>4, <3>1
      <4> QED BY <4>1, <4>2, <4>3
    <3> QED BY <1>4, <3>1, <3>2, <3>3
  <2>2. \A i \in DOMAIN order : job'[order[i]].state # "absent"
    <3>1. \A i \in DOMAIN order : order[i] \in Jobs
      BY <1>4, Elements
    <3> QED BY <1>1, <1>9, <3>1 DEF JobInv, LineEndsOrder, Terminal
  <2> QED BY <1>2, <1>10, <2>1, <2>2 DEF JobInv, LineEndsOrder
<1> QED BY <1>1, <1>4, <1>7, <1>8, <1>9, <1>10, <1>11, <1>12, <1>13, <1>18, <1>19, <1>20 DEF JobInv, gone, settled, w
----------------------------------------------------------------------------
\* The worker's steps between taking a job and recording its outcome, but for the last.
InHand ==
  \/ LookForCancel \/ Preflight \/ BuildExecutor
  \/ \E d \in Subjects \cup {NoSubject} : OnRunning(d)
  \/ Succeed
  \/ \E o \in {"cancelled", "failed"} : Stop(o)

\* Each of them leaves the worker's job as it is, or moves it one stage on unless a cancel holds it.
LEMMA InHandPreserves ==
  ASSUME JobInv, InHand
  PROVE  /\ JobInv' /\ Line' = Line
         /\ worker.job \in Jobs /\ Line # <<>> /\ Head(Line) = worker.job
         /\ \A j \in Jobs : j # worker.job => job'[j].state = job[j].state
         /\ \/ job'[worker.job].state = job[worker.job].state
            \/ job[worker.job].state = "queued" /\ job'[worker.job].state = "preflighting"
            \/ job[worker.job].state = "preflighting" /\ job'[worker.job].state = "running"
<1> DEFINE w == worker.job
<1>1. w \in Jobs /\ w # NoJob /\ worker.at \in Holding \ {"finalizing"}
  BY JobAssumption DEF JobInv, WorkerHolds, InHand, LookForCancel, Preflight, BuildExecutor, OnRunning,
                       Succeed, Stop, Holding
<1>2. /\ job \in [Jobs -> JobRows] /\ job[w] \in JobRows /\ job = [job EXCEPT ![w] = job[w]]
      /\ Line # <<>> /\ Head(Line) = w
  BY <1>1, LineShape DEF JobInv, JobTypeOK
<1>3. job[w].state \in Ongoing /\ (job[w].cancel <=> job[w].state = "cancel_requested")
  BY <1>1 DEF JobInv, StageShown, CancelShown, Holding, Ongoing
<1>5. CASE LookForCancel
  <2>1. PICK place \in {"uncancelled", "finalizing"}, o \in {"none", "cancelled"} :
          /\ WorkerAt(place, w, o) /\ UNCHANGED <<job, order, queue, shuttingDown>>
          /\ place = "finalizing" <=> o = "cancelled"
          /\ o = "cancelled" => job[w].cancel
    BY <1>5 DEF LookForCancel
  <2>2. job[w].state \in {"queued", "cancel_requested"}
    BY <1>5 DEF JobInv, StageShown, LookForCancel
  <2>3. o = "cancelled" => o \in LegalFrom(job[w].state)
    BY <1>3, <2>1 DEF LegalFrom
  <2>4. JobInv' /\ Line' = Line
    BY <1>1, <1>2, <1>3, <2>1, <2>2, <2>3, MovePreserves DEF Holding, Terminal
  <2> QED BY <1>1, <1>2, <2>1, <2>4
<1>6. CASE Preflight
  <2>1. /\ job' = IF job[w].state = "queued" THEN [job EXCEPT ![w].state = "preflighting"] ELSE job
        /\ WorkerAt("building", w, "none") /\ UNCHANGED <<order, queue, shuttingDown>>
        /\ job[w].state \in {"queued", "cancel_requested"}
    BY <1>6 DEF JobInv, StageShown, Preflight
  <2>2. CASE job[w].state = "queued"
    <3>1. PICK r \in JobRows : job' = [job EXCEPT ![w] = r] /\ r.state = "preflighting" /\ r.cancel = job[w].cancel
      <4> DEFINE q == [job[w] EXCEPT !.state = "preflighting"]
      <4>1. q \in JobRows /\ q.state = "preflighting" /\ q.cancel = job[w].cancel
        BY <1>2 DEF JobRows, Ongoing
      <4>2. job' = [job EXCEPT ![w] = q]
        BY <1>2, <2>1, <2>2
      <4> QED BY <4>1, <4>2
    <3>2. r.cancel <=> r.state = "cancel_requested"
      BY <1>3, <2>2, <3>1
    <3>3. JobInv' /\ Line' = Line
      BY <1>1, <2>1, <3>1, <3>2, MovePreserves DEF Holding, Ongoing
    <3> QED BY <1>1, <1>2, <2>2, <3>1, <3>3
  <2>3. CASE job[w].state = "cancel_requested"
    <3>1. JobInv' /\ Line' = Line
      BY <1>1, <1>2, <1>3, <2>1, <2>3, MovePreserves DEF Holding
    <3> QED BY <1>1, <1>2, <2>1, <2>3, <3>1
  <2> QED BY <2>1, <2>2, <2>3
<1>7. CASE BuildExecutor
  <2>1. PICK place \in {"executing", "finalizing"}, o \in {"none", "failed"} :
          /\ WorkerAt(place, w, o) /\ UNCHANGED <<job, order, queue, shuttingDown>>
          /\ place = "finalizing" <=> o = "failed"
    BY <1>7 DEF BuildExecutor
  <2>2. job[w].state \in {"preflighting", "cancel_requested"}
    BY <1>7 DEF JobInv, StageShown, BuildExecutor
  <2>3. o = "failed" => o \in LegalFrom(job[w].state)
    BY <2>2 DEF LegalFrom
  <2>4. JobInv' /\ Line' = Line
    BY <1>1, <1>2, <1>3, <2>1, <2>2, <2>3, MovePreserves DEF Holding, Terminal
  <2> QED BY <1>1, <1>2, <2>1, <2>4
<1>8. CASE \E d \in Subjects \cup {NoSubject} : OnRunning(d)
  <2>1. PICK d \in Subjects \cup {NoSubject} : OnRunning(d)
    BY <1>8
  <2>2. /\ WorkerAt("working", w, "none") /\ UNCHANGED <<order, queue, shuttingDown>>
        /\ job[w].state \in {"preflighting", "cancel_requested"}
    BY <2>1 DEF JobInv, StageShown, OnRunning
  <2>3. PICK r \in JobRows :
          /\ job' = [job EXCEPT ![w] = r] /\ r.cancel = job[w].cancel
          /\ r.state = IF job[w].state = "cancel_requested" THEN "cancel_requested" ELSE "running"
    <3> DEFINE s == IF job[w].state = "cancel_requested" THEN "cancel_requested" ELSE "running"
               q == [job[w] EXCEPT !.subject = d, !.state = s]
    <3>1. q \in JobRows /\ q.state = s /\ q.cancel = job[w].cancel
      BY <1>2 DEF JobRows, Ongoing
    <3>2. job' = [job EXCEPT ![w] = q]
      BY <1>1, <1>2, <2>1 DEF OnRunning, JobRows
    <3> QED BY <3>1, <3>2
  <2>4. r.cancel <=> r.state = "cancel_requested"
    BY <1>3, <2>3
  <2>5. JobInv' /\ Line' = Line
    BY <1>1, <2>2, <2>3, <2>4, MovePreserves DEF Holding, Ongoing
  <2> QED BY <1>1, <1>2, <2>2, <2>3, <2>5
<1>9. CASE Succeed \/ \E o \in {"cancelled", "failed"} : Stop(o)
  <2>1. PICK o \in Terminal :
          /\ WorkerAt("finalizing", w, o) /\ UNCHANGED <<job, order, queue, shuttingDown>>
          /\ o = "cancelled" => job[w].cancel
          /\ o = "completed" => worker.at = "working"
    BY <1>9 DEF Succeed, Stop, Terminal
  <2>2. o \in LegalFrom(job[w].state)
    <3>1. job[w].state \in {"preflighting", "running", "cancel_requested"}
      BY <1>9 DEF JobInv, StageShown, Succeed, Stop
    <3>2. worker.at = "working" => job[w].state \in {"running", "cancel_requested"}
      BY DEF JobInv, StageShown
    <3> QED BY <1>3, <2>1, <3>1, <3>2 DEF LegalFrom, Terminal
  <2>3. o # "none"
    BY DEF Terminal
  <2>4. JobInv' /\ Line' = Line
    BY <1>1, <1>2, <1>3, <2>1, <2>2, <2>3, MovePreserves DEF Holding
  <2> QED BY <1>1, <1>2, <2>1, <2>4
<1> QED BY <1>5, <1>6, <1>7, <1>8, <1>9 DEF InHand

\* What clients submit reaches the queue as a batch, one job being a batch of one.
LEMMA ClientSteps ==
  ASSUME Client
  PROVE  \/ \E batch \in Batches, kind \in Kinds, subject \in Subjects \cup {NoSubject} : Register(batch, kind, subject)
         \/ \E j \in Jobs : Cancel(j)
         \/ Shutdown
<1>1. ASSUME NEW j \in Jobs PROVE <<j>> \in Batches
  <2>1. 1 \in 1..MaxQueued /\ <<j>> \in [1..1 -> Jobs]
    BY JobAssumption
  <2> QED BY <2>1 DEF Batches
<1> QED BY <1>1 DEF Client, SubmitImport, SubmitOcr, SubmitOne, Kinds

LEMMA CancelAllPreserves ==
  ASSUME JobInv, Shutdown
  PROVE  /\ JobInv' /\ Line' = Line
         /\ \E J \in SUBSET Jobs :
              /\ \A j \in J : job[j].state \in Ongoing
              /\ \A j \in Jobs : job'[j].state = IF j \in J THEN "cancel_requested" ELSE job[j].state
<1> DEFINE J == {j \in Jobs : job[j].state \in Ongoing}
<1>1. job' = [j \in Jobs |-> IF j \in J THEN [job[j] EXCEPT !.cancel = TRUE, !.state = "cancel_requested"] ELSE job[j]]
  BY DEF Shutdown, CancelAll
<1>2. \A j \in Jobs : job[j] \in JobRows
  BY DEF JobInv, JobTypeOK
<1>3. \A j \in Jobs : job'[j].state = IF j \in J THEN "cancel_requested" ELSE job[j].state
  BY <1>1, <1>2 DEF JobRows
<1>4. /\ J \in SUBSET Jobs /\ \A j \in J : job[j].state \in Ongoing
      /\ UNCHANGED <<order, queue>> /\ shuttingDown' \in BOOLEAN
      /\ worker' = worker \/ (worker.at = "waiting" /\ worker' = [worker EXCEPT !.at = "awake"])
  BY DEF Shutdown
<1> HIDE DEF J
<1> QED BY <1>1, <1>3, <1>4, CancelPreserves

LEMMA CancelOnePreserves ==
  ASSUME JobInv, NEW c \in Jobs, Cancel(c)
  PROVE  /\ JobInv' /\ Line' = Line
         /\ job[c].state \in Ongoing
         /\ \A j \in Jobs : job'[j].state = IF j \in {c} THEN "cancel_requested" ELSE job[j].state
<1>1. job \in [Jobs -> JobRows] /\ job[c].state \in Ongoing
  BY DEF JobInv, JobTypeOK, Cancel
<1>2. job' = [j \in Jobs |-> IF j \in {c} THEN [job[j] EXCEPT !.cancel = TRUE, !.state = "cancel_requested"] ELSE job[j]]
  BY <1>1 DEF Cancel
<1>3. \A j \in Jobs : job'[j].state = IF j \in {c} THEN "cancel_requested" ELSE job[j].state
  BY <1>1, <1>2 DEF JobRows
<1>4. UNCHANGED <<order, queue, shuttingDown, worker>> /\ shuttingDown' \in BOOLEAN
  BY DEF Cancel, JobInv, JobTypeOK
<1> QED BY <1>1, <1>2, <1>3, <1>4, CancelPreserves

LEMMA StepPreserves ==
  ASSUME JobInv, [JobNext]_jobVars
  PROVE  JobInv'
<1>1. CASE UNCHANGED jobVars
  BY <1>1 DEF jobVars, JobInv, JobTypeOK, WorkerHolds, CancelShown, StageShown, FinalizeIsLegal, LineEndsOrder,
              LineIsOngoing, Line
<1>2. CASE Client
  BY <1>2, ClientSteps, RegisterPreserves, CancelOnePreserves, CancelAllPreserves
<1>3. CASE Work
  <2>1. InHand \/ Wait \/ Exit \/ Take \/ Finalize
    BY <1>3 DEF Work, InHand
  <2>2. CASE Finalize
    BY <2>2, FinalizePreserves
  <2> QED BY <2>1, <2>2, InHandPreserves, TakePreserves
<1> QED BY <1>1, <1>2, <1>3 DEF JobNext

THEOREM ServiceInvariant == JobSafetySpec => []JobInv
<1>1. JobInit => JobInv
  BY InitEstablishes
<1>2. JobInv /\ [JobNext]_jobVars => JobInv'
  BY StepPreserves
<1> QED BY <1>1, <1>2, PTL DEF JobSafetySpec

\* The variables keep their types in every behaviour of the queue.
THEOREM ServiceTypes == JobSafetySpec => []JobTypeOK
<1>1. JobInv => JobTypeOK
  BY DEF JobInv
<1> QED BY <1>1, ServiceInvariant, PTL

\* _finalize never raises: the outcome the worker records is legal wherever a cancel
\* or a shutdown fell, so the thread is not lost with every job behind it.
THEOREM OutcomeLegal == JobSafetySpec => []FinalizeIsLegal
<1>1. JobInv => FinalizeIsLegal
  BY DEF JobInv
<1> QED BY <1>1, ServiceInvariant, PTL

\* Every unsettled job is in the queue once or is the worker's, and no settled job is.
THEOREM NoneLost == JobSafetySpec => []NoJobLost
<1>1. JobInv => NoJobLost
  BY LineInjective DEF JobInv, NoJobLost, LineIsOngoing
<1> QED BY <1>1, ServiceInvariant, PTL

\* What JobContract's clients are told of a job.
Told == [j \in Jobs |-> IF job[j].state = "pruned" THEN "forgotten" ELSE job[j].state]

LEMMA StepKeepsContract ==
  ASSUME JobInv, [JobNext]_jobVars
  PROVE  [Contract!ContractNext]_(Contract!contractVars)
<1> USE DEF Told
<1>0. Told = [j \in Jobs |-> IF job[j].state = "pruned" THEN "forgotten" ELSE job[j].state]
  OBVIOUS
<1>1. CASE UNCHANGED jobVars
  <2>1. Line' = Line /\ Told' = Told
    BY <1>1 DEF jobVars, Line
  <2> QED BY <2>1 DEF Contract!contractVars
<1>2. ASSUME NEW batch \in Batches, NEW kind \in Kinds, NEW subject \in Subjects \cup {NoSubject},
             Register(batch, kind, subject)
      PROVE  Contract!ContractNext
  <2>1. Line' = Line \o batch
    BY <1>2, RegisterPreserves
  <2>2. DOMAIN batch = 1..Len(batch) /\ \A i \in DOMAIN batch : batch[i] \in Jobs
    BY JobAssumption DEF Batches
  <2>3. /\ \A i, k \in DOMAIN batch : batch[i] = batch[k] => i = k
        /\ \A i \in DOMAIN batch : Told[batch[i]] = "absent"
    BY <1>2, <2>2 DEF Register
  <2>4. Told' = [j \in Jobs |-> IF \E i \in DOMAIN batch : batch[i] = j THEN "queued" ELSE Told[j]]
    BY <1>2, <2>2 DEF Register
  <2>5. Contract!Submit(batch)
    BY <2>1, <2>3, <2>4 DEF Contract!Submit
  <2> QED BY <2>5 DEF Contract!ContractNext, Contract!Batches, Batches
<1>3. ASSUME NEW J \in SUBSET Jobs, \A j \in J : job[j].state \in Ongoing, Line' = Line,
             \A j \in Jobs : job'[j].state = IF j \in J THEN "cancel_requested" ELSE job[j].state
      PROVE  Contract!ContractNext
  <2>1. \A j \in J : Told[j] \in Contract!Unsettled
    BY <1>3 DEF Contract!Unsettled, Ongoing
  <2>2. Told' = [j \in Jobs |-> IF j \in J THEN "cancel_requested" ELSE Told[j]]
    BY <1>3
  <2>3. Contract!RequestCancel(J)
    BY <1>3, <2>1, <2>2 DEF Contract!RequestCancel
  <2> QED BY <2>3 DEF Contract!ContractNext
<1>4. CASE Client
  <2>1. CASE Shutdown
    BY <1>3, <2>1, CancelAllPreserves
  <2>2. ASSUME NEW c \in Jobs, Cancel(c) PROVE Contract!ContractNext
    <3>1. {c} \in SUBSET Jobs /\ \A j \in {c} : job[j].state \in Ongoing
      BY <2>2, CancelOnePreserves
    <3> QED BY <1>3, <2>2, <3>1, CancelOnePreserves
  <2> QED BY <1>2, <1>4, <2>1, <2>2, ClientSteps
<1>5. CASE Wait \/ Exit \/ Take
  <2>1. Line' = Line /\ UNCHANGED job
    BY <1>5, TakePreserves DEF Wait, Exit, Take
  <2>2. Told' = Told
    BY <2>1
  <2> QED BY <2>1, <2>2 DEF Contract!contractVars
<1>6. CASE InHand
  <2> DEFINE w == worker.job
  <2>1. /\ Line' = Line /\ w \in Jobs /\ Line # <<>> /\ Head(Line) = w
        /\ \A j \in Jobs : j # w => job'[j].state = job[j].state
    BY <1>6, InHandPreserves
  <2>2. CASE job'[w].state = job[w].state
    <3>1. Told' = Told
      BY <2>1, <2>2
    <3> QED BY <2>1, <3>1 DEF Contract!contractVars
  <2>3. ASSUME NEW from \in {"queued", "preflighting"}, NEW to \in {"preflighting", "running"},
               job[w].state = from, job'[w].state = to
        PROVE  Contract!Advance(from, to)
    <3>1. Told[w] = from
      BY <2>1, <2>3
    <3>2. Told' = [Told EXCEPT ![w] = to]
      BY <2>1, <2>3
    <3> QED BY <2>1, <3>1, <3>2 DEF Contract!Advance
  <2>4. CASE job[w].state = "queued" /\ job'[w].state = "preflighting"
    BY <2>3, <2>4 DEF Contract!ContractNext
  <2>5. CASE job[w].state = "preflighting" /\ job'[w].state = "running"
    BY <2>3, <2>5 DEF Contract!ContractNext
  <2> QED BY <1>6, <2>2, <2>4, <2>5, InHandPreserves
<1>7. CASE Finalize
  <2> DEFINE gone == Forgotten([job EXCEPT ![worker.job].state = worker.outcome], order)
             w == worker.job
             o == worker.outcome
  <2>1. /\ Line # <<>> /\ Head(Line) = w /\ Line' = Tail(Line) /\ w \in Jobs /\ w \notin gone
        /\ \A j \in gone : j \in Jobs /\ job[j].state \in Terminal
        /\ o \in LegalFrom(job[w].state) \cap Terminal
        /\ \A j \in Jobs : job'[j].state = IF j = w THEN o ELSE IF j \in gone THEN "pruned" ELSE job[j].state
    BY <1>7, FinalizePreserves
  <2> HIDE DEF gone
  <2>2. Told[w] = job[w].state /\ job[w].state # "pruned"
    BY <2>1 DEF LegalFrom
  <2>3. /\ o = "cancelled" => Told[w] = "cancel_requested"
        /\ o = "completed" => Told[w] \in {"running", "cancel_requested"}
        /\ o = "failed" => Told[w] \in {"preflighting", "running", "cancel_requested"}
    BY <2>1, <2>2 DEF LegalFrom
  <2>4. \A j \in gone : Told[j] \in Contract!Outcomes
    BY <2>1 DEF Contract!Outcomes, Terminal
  <2>5. Told' = [j \in Jobs |-> IF j = w THEN o ELSE IF j \in gone THEN "forgotten" ELSE Told[j]]
    BY <2>1 DEF Terminal
  <2>6. o \in Contract!Outcomes /\ gone \in SUBSET Jobs
    BY <2>1 DEF Contract!Outcomes, Terminal
  <2>7. ASSUME NEW result \in Contract!Outcomes, NEW forgotten \in SUBSET Jobs, result = o, forgotten = gone
        PROVE  Contract!Settle(result, forgotten)
    BY <2>1, <2>3, <2>4, <2>5, <2>7 DEF Contract!Settle, Contract!Outcomes
  <2>8. \E result \in Contract!Outcomes, forgotten \in SUBSET Jobs : result = o /\ forgotten = gone
    BY <2>6
  <2> QED BY <2>7, <2>8 DEF Contract!ContractNext
<1>8. CASE Work
  BY <1>5, <1>6, <1>7, <1>8 DEF Work, InHand
<1> QED BY <1>1, <1>4, <1>8 DEF JobNext

\* To its clients the queue is one line in submission order: only the job at its head
\* works or settles, a settled job never changes, and "cancelled" follows a request.
THEOREM ServiceImplements == JobSafetySpec => KeepsContract
<1>1. JobInit => Contract!ContractInit
  <2> SUFFICES ASSUME JobInit PROVE Contract!ContractInit
    OBVIOUS
  <2>1. Line = <<>>
    BY InitEstablishes, LineShape DEF JobInit, JobInv
  <2>2. \A j \in Jobs : job[j].state = "absent"
    BY DEF JobInit, NoRecord
  <2> QED BY <2>1, <2>2 DEF Contract!ContractInit
<1>2. JobInv /\ [JobNext]_jobVars => [Contract!ContractNext]_(Contract!contractVars)
  BY StepKeepsContract
<1> QED BY <1>1, <1>2, ServiceInvariant, PTL DEF JobSafetySpec, KeepsContract, Contract!ContractSpec

----------------------------------------------------------------------------
\* Jobs that only leave, or stay with the document they had, keep it to themselves.
LEMMA LeavingKeepsDocuments ==
  ASSUME OneJobPerDocument,
         \A j \in Jobs : job'[j].state \in Ongoing => job[j].state \in Ongoing /\ job'[j].subject = job[j].subject
  PROVE  OneJobPerDocument'
BY DEF OneJobPerDocument

LEMMA SubmissionKeepsDocuments ==
  ASSUME OneJobPerDocument, NEW batch \in Batches, NEW kind \in Kinds, NEW subject \in Subjects \cup {NoSubject},
         Register(batch, kind, subject),
         \/ subject = NoSubject
         \/ /\ \A i, k \in DOMAIN batch : i = k
            /\ \A other \in Jobs : job[other].subject = subject => job[other].state \notin Ongoing
  PROVE  OneJobPerDocument'
<1> DEFINE New(j) == \E i \in DOMAIN batch : batch[i] = j
<1>1. \A j \in Jobs : /\ New(j) => job'[j].subject = subject
                      /\ ~New(j) => job'[j] = job[j]
  BY DEF Register
<1>2. ASSUME NEW i \in Jobs, NEW j \in Jobs, job'[i].state \in Ongoing, job'[j].state \in Ongoing,
             job'[i].subject # NoSubject, job'[i].subject = job'[j].subject
      PROVE  i = j
  <2>1. CASE ~New(i) /\ ~New(j)
    BY <1>1, <1>2, <2>1 DEF OneJobPerDocument
  <2>2. CASE New(i) /\ New(j)
    BY <1>1, <1>2, <2>2
  <2>3. CASE New(i) # New(j)
    BY <1>1, <1>2, <2>3
  <2> QED BY <2>1, <2>2, <2>3
<1> QED BY <1>2 DEF OneJobPerDocument

LEMMA StepKeepsDocuments ==
  ASSUME JobInv, OneJobPerDocument, [JobNext]_jobVars
  PROVE  OneJobPerDocument'
<1>0. job \in [Jobs -> JobRows] /\ (worker.at \in Holding => worker.job \in Jobs)
  BY DEF JobInv, JobTypeOK, WorkerHolds
<1>1. CASE UNCHANGED jobVars
  BY <1>1 DEF jobVars, OneJobPerDocument
<1>2. CASE Client
  <2>1. ASSUME NEW batch \in Batches, SubmitImport(batch) PROVE OneJobPerDocument'
    BY <2>1, SubmissionKeepsDocuments DEF SubmitImport, Kinds
  <2>2. ASSUME NEW j \in Jobs PROVE <<j>> \in Batches /\ \A i, k \in DOMAIN <<j>> : i = k
    <3>1. 1 \in 1..MaxQueued /\ <<j>> \in [1..1 -> Jobs]
      BY JobAssumption
    <3> QED BY <3>1 DEF Batches
  <2>3. ASSUME NEW j \in Jobs, NEW d \in Subjects, SubmitOcr(j, d) PROVE OneJobPerDocument'
    <3>1. PICK batch \in Batches : batch = <<j>>
      BY <2>2
    <3>2. /\ Register(batch, "ocr", d) /\ \A i, k \in DOMAIN batch : i = k
          /\ \A other \in Jobs : job[other].subject = d => job[other].state \notin Ongoing
      BY <2>2, <2>3, <3>1 DEF SubmitOcr
    <3> QED BY <3>2, SubmissionKeepsDocuments DEF Kinds
  <2>4. ASSUME NEW j \in Jobs, NEW kind \in {"search", "chat"}, SubmitOne(j, kind, NoSubject)
        PROVE  OneJobPerDocument'
    <3>1. PICK batch \in Batches : batch = <<j>>
      BY <2>2
    <3>2. Register(batch, kind, NoSubject)
      BY <2>4, <3>1 DEF SubmitOne
    <3> QED BY <3>2, SubmissionKeepsDocuments DEF Kinds
  <2>5. ASSUME NEW c \in Jobs, Cancel(c) PROVE OneJobPerDocument'
    <3>1. \A j \in Jobs : job'[j].state \in Ongoing => job[j].state \in Ongoing /\ job'[j].subject = job[j].subject
      BY <1>0, <2>5 DEF Cancel, JobRows
    <3> QED BY <3>1, LeavingKeepsDocuments
  <2>6. CASE Shutdown
    <3>1. \A j \in Jobs : job'[j].state \in Ongoing => job[j].state \in Ongoing /\ job'[j].subject = job[j].subject
      BY <1>0, <2>6 DEF Shutdown, CancelAll, JobRows
    <3> QED BY <3>1, LeavingKeepsDocuments
  <2> QED BY <1>2, <2>1, <2>3, <2>4, <2>5, <2>6 DEF Client
<1>3. ASSUME NEW d \in Subjects \cup {NoSubject}, OnRunning(d) PROVE OneJobPerDocument'
  <2> DEFINE w == worker.job
  <2>1. /\ w \in Jobs /\ job'[w].subject = d /\ \A j \in Jobs : j # w => job'[j] = job[j]
        /\ job[w].state \in Ongoing
        /\ d = job[w].subject \/ d = NoSubject \/ \A j \in Jobs : job[j].subject # d
    BY <1>0, <1>3 DEF OnRunning, JobInv, StageShown, Holding, Ongoing, JobRows
  <2> HIDE DEF w
  <2> QED BY <2>1 DEF OneJobPerDocument
<1>4. CASE Preflight \/ LookForCancel \/ BuildExecutor \/ Succeed \/ \E o \in {"cancelled", "failed"} : Stop(o)
  <2>1. job' = job \/ (job[worker.job].state = "queued" /\ job' = [job EXCEPT ![worker.job].state = "preflighting"])
    BY <1>4 DEF Preflight, LookForCancel, BuildExecutor, Succeed, Stop
  <2>2. \A j \in Jobs : job'[j].state \in Ongoing => job[j].state \in Ongoing /\ job'[j].subject = job[j].subject
    BY <1>0, <2>1 DEF JobRows, Ongoing
  <2> QED BY <2>2, LeavingKeepsDocuments
<1>5. CASE Wait \/ Exit \/ Take
  BY <1>5 DEF Wait, Exit, Take, OneJobPerDocument
<1>6. CASE Finalize
  <2>1. PICK gone : job' = [j \in Jobs |-> IF j \in gone THEN NoRecord("pruned")
                                          ELSE [job EXCEPT ![worker.job].state = worker.outcome][j]]
    BY <1>6 DEF Finalize
  <2>2. worker.outcome \notin Ongoing
    BY <1>6, FinalizePreserves DEF Terminal, Ongoing
  <2>3. \A j \in Jobs : job'[j].state \in Ongoing => job[j].state \in Ongoing /\ job'[j].subject = job[j].subject
    BY <1>0, <2>1, <2>2 DEF NoRecord, JobRows, Ongoing
  <2> QED BY <2>3, LeavingKeepsDocuments
<1> QED BY <1>1, <1>2, <1>3, <1>4, <1>5, <1>6 DEF JobNext, Work

\* Two unsettled jobs never work on one document, an import's new document included.
THEOREM OneWriterPerDocument == JobSafetySpec => []OneJobPerDocument
<1>1. JobInit => JobInv /\ OneJobPerDocument
  BY InitEstablishes DEF JobInit, OneJobPerDocument, NoRecord, Ongoing
<1>2. JobInv /\ OneJobPerDocument /\ [JobNext]_jobVars => JobInv' /\ OneJobPerDocument'
  BY StepPreserves, StepKeepsDocuments
<1> QED BY <1>1, <1>2, PTL DEF JobSafetySpec
----------------------------------------------------------------------------
\* The jobs that have settled, counted by their places in the submission order.
LEMMA CountedByPlace ==
  ASSUME NEW js, NEW seq \in Seq(Jobs),
         \A i, k \in DOMAIN seq : seq[i] = seq[k] => i = k,
         \A j \in Jobs : js[j].state \in Terminal => \E i \in DOMAIN seq : seq[i] = j
  PROVE  /\ TerminalIn(js, seq) \in SUBSET Nat /\ IsFiniteSet(TerminalIn(js, seq))
         /\ Cardinality({j \in Jobs : js[j].state \in Terminal}) = Cardinality(TerminalIn(js, seq))
<1> DEFINE I == TerminalIn(js, seq)
           T == {j \in Jobs : js[j].state \in Terminal}
           f == [i \in I |-> seq[i]]
<1>1. DOMAIN seq = 1..Len(seq) /\ Len(seq) \in Nat /\ \A i \in DOMAIN seq : seq[i] \in Jobs
  BY Elements
<1>2. I \in SUBSET Nat /\ \A i \in I : i <= Len(seq)
  BY <1>1 DEF TerminalIn
<1>3. IsFiniteSet(I)
  BY <1>1, <1>2, FS_BoundedSetOfNaturals
<1>4. f \in Bijection(I, T)
  <2>1. f \in [I -> T]
    BY <1>1 DEF TerminalIn
  <2>2. \A i, k \in I : f[i] = f[k] => i = k
    BY DEF TerminalIn
  <2>3. \A j \in T : \E i \in I : f[i] = j
    BY DEF TerminalIn
  <2> HIDE DEF f, I, T
  <2> QED BY <2>1, <2>2, <2>3 DEF Bijection, Injection, Surjection, IsInjective
<1>5. ExistsBijection(I, T)
  BY <1>4 DEF ExistsBijection
<1> QED BY <1>2, <1>3, <1>5, FS_Bijection

\* Of a set of places, those that n later ones follow: none in a set of n, the least of a set of n + 1.
LEMMA OldestGoes ==
  ASSUME NEW I \in SUBSET Nat, IsFiniteSet(I), NEW n \in Nat \ {0},
         NEW gone, gone = {i \in I : Cardinality({k \in I : k > i}) >= n}
  PROVE  /\ Cardinality(I) <= n => gone = {}
         /\ Cardinality(I) = n + 1 => \E m \in I : gone = {m}
<1>1. Cardinality(I) \in Nat
  BY FS_CardinalityType
<1>2. ASSUME NEW i \in I, NEW S \in SUBSET I, IsFiniteSet(S), {k \in I : k > i} \in SUBSET S, Cardinality(S) < n
      PROVE  i \notin gone
  <2> DEFINE later == {k \in I : k > i}
  <2>1. IsFiniteSet(later) /\ Cardinality(later) <= Cardinality(S)
    BY <1>2, FS_Subset
  <2>2. Cardinality(later) \in Nat /\ Cardinality(S) \in Nat
    BY <1>2, <2>1, FS_CardinalityType
  <2>3. ~ (Cardinality(later) >= n)
    <3> HIDE DEF later
    <3> QED BY <1>2, <2>1, <2>2
  <2> QED BY <2>3
<1>3. ASSUME NEW i \in I
      PROVE  /\ {k \in I : k > i} \in SUBSET (I \ {i}) /\ IsFiniteSet(I \ {i})
             /\ Cardinality(I \ {i}) = Cardinality(I) - 1
  BY FS_RemoveElement
<1>4. ASSUME Cardinality(I) <= n PROVE gone = {}
  <2>1. ASSUME NEW i \in I PROVE i \notin gone
    <3> DEFINE rest == I \ {i}
    <3>1. {k \in I : k > i} \in SUBSET rest /\ IsFiniteSet(rest) /\ rest \in SUBSET I
      BY <1>3
    <3>2. Cardinality(rest) = Cardinality(I) - 1
      BY <1>3
    <3> HIDE DEF rest
    <3>3. Cardinality(rest) < n
      BY <1>1, <1>4, <3>2
    <3> QED BY <1>2, <3>1, <3>3
  <2> QED BY <2>1
<1>5. ASSUME Cardinality(I) = n + 1 PROVE \E m \in I : gone = {m}
  <2>1. I # {}
    BY <1>5, FS_EmptySet
  <2>2. PICK m \in I : \A i \in I : m <= i
    BY <2>1, LeastElement
  <2>3. {k \in I : k > m} = I \ {m}
    <3>1. \A k \in I : k > m <=> k # m
      BY <2>2
    <3> QED BY <3>1
  <2>4. Cardinality(I \ {m}) >= n
    BY <1>3, <1>5
  <2>5. m \in gone
    BY <2>3, <2>4
  <2>6. ASSUME NEW i \in I, i # m PROVE i \notin gone
    <3>1. {k \in I : k > i} \in SUBSET ((I \ {i}) \ {m})
      BY <2>2
    <3>2. IsFiniteSet((I \ {i}) \ {m}) /\ Cardinality((I \ {i}) \ {m}) = Cardinality(I \ {i}) - 1
      <4>1. m \in I \ {i}
        BY <2>6
      <4> QED BY <1>3, <4>1, FS_RemoveElement
    <3>3. Cardinality((I \ {i}) \ {m}) < n
      BY <1>3, <1>5, <3>2
    <3> QED BY <1>2, <3>1, <3>2, <3>3
  <2> QED BY <2>5, <2>6
<1> QED BY <1>4, <1>5

\* One job more settles in a registry within its bound: at most the oldest outcome is forgotten.
LEMMA PruneKeepsTheBound ==
  ASSUME NEW seq \in Seq(Jobs), NEW old, NEW settled, NEW new, NEW w \in Jobs,
         \A i, k \in DOMAIN seq : seq[i] = seq[k] => i = k,
         \A j \in Jobs : j = w \/ old[j].state \in Terminal => \E i \in DOMAIN seq : seq[i] = j,
         old[w].state \notin Terminal, settled[w].state \in Terminal,
         \A j \in Jobs : j # w => settled[j].state = old[j].state,
         \A j \in Jobs : new[j].state = IF j \in Forgotten(settled, seq) THEN "pruned" ELSE settled[j].state,
         Cardinality({j \in Jobs : old[j].state \in Terminal}) <= MaxRetained,
         (\E j \in Jobs : old[j].state = "pruned")
           => Cardinality({j \in Jobs : old[j].state \in Terminal}) = MaxRetained
  PROVE  /\ Cardinality({j \in Jobs : new[j].state \in Terminal}) <= MaxRetained
         /\ (\E j \in Jobs : new[j].state = "pruned")
              => Cardinality({j \in Jobs : new[j].state \in Terminal}) = MaxRetained
<1> DEFINE Before == TerminalIn(old, seq)
           I == TerminalIn(settled, seq)
           After == TerminalIn(new, seq)
           Gone == {i \in I : Cardinality({k \in I : k > i}) >= MaxRetained}
<1>1. DOMAIN seq = 1..Len(seq) /\ Len(seq) \in Nat /\ \A i \in DOMAIN seq : seq[i] \in Jobs
  BY Elements
<1>2. \A j \in Jobs : settled[j].state \in Terminal => \E i \in DOMAIN seq : seq[i] = j
  OBVIOUS
<1>3. Forgotten(settled, seq) = {seq[i] : i \in Gone}
  BY DEF Forgotten
<1>4. I \subseteq DOMAIN seq /\ Gone \subseteq I
  BY DEF TerminalIn
<1>5. \A i \in DOMAIN seq : seq[i] \in Forgotten(settled, seq) <=> i \in Gone
  <2> HIDE DEF Gone, I
  <2> QED BY <1>3, <1>4
<1>6. \A j \in Jobs : new[j].state \in Terminal => settled[j].state \in Terminal
  BY DEF Terminal
<1>7. /\ Cardinality({j \in Jobs : old[j].state \in Terminal}) = Cardinality(Before)
      /\ Before \in SUBSET Nat /\ IsFiniteSet(Before)
  BY CountedByPlace
<1>8. I \in SUBSET Nat /\ IsFiniteSet(I)
  BY <1>2, CountedByPlace
<1>9. Cardinality({j \in Jobs : new[j].state \in Terminal}) = Cardinality(After)
  BY <1>2, <1>6, CountedByPlace
<1>10. After = I \ Gone
  BY <1>1, <1>5 DEF TerminalIn, Terminal
<1>11. PICK p \in DOMAIN seq : seq[p] = w
  OBVIOUS
<1>12. I = Before \union {p} /\ p \notin Before
  <2>1. \A i \in DOMAIN seq : i # p => seq[i] # w
    BY <1>11
  <2>2. \A i \in DOMAIN seq : i # p => settled[seq[i]].state = old[seq[i]].state
    BY <1>1, <2>1
  <2> QED BY <1>11, <2>2 DEF TerminalIn
<1>13. Cardinality(I) = Cardinality(Before) + 1 /\ Cardinality(Before) \in Nat /\ MaxRetained \in Nat \ {0}
  <2> HIDE DEF I, Before
  <2>1. Cardinality(Before \union {p}) = Cardinality(Before) + 1
    BY <1>7, <1>12, FS_AddElement
  <2>2. Cardinality(Before) \in Nat
    BY <1>7, FS_CardinalityType
  <2> QED BY <1>12, <2>1, <2>2, JobAssumption
<1>14. /\ Cardinality(I) <= MaxRetained => Gone = {}
       /\ Cardinality(I) = MaxRetained + 1 => \E m \in I : Gone = {m}
  BY <1>8, <1>13, OldestGoes
<1> HIDE DEF Before, I, After, Gone
<1>15. CASE Cardinality(Before) < MaxRetained
  <2>1. Gone = {}
    BY <1>13, <1>14, <1>15
  <2>2. After = I
    BY <1>10, <2>1
  <2>3. \A j \in Jobs : old[j].state # "pruned"
    BY <1>7, <1>13, <1>15
  <2>4. \A j \in Jobs : new[j].state # "pruned"
    BY <1>3, <2>1, <2>3 DEF Terminal
  <2> QED BY <1>9, <1>13, <1>15, <2>2, <2>4
<1>16. CASE Cardinality(Before) = MaxRetained
  <2>1. PICK m \in I : Gone = {m}
    BY <1>13, <1>14, <1>16
  <2>2. Cardinality(I \ {m}) = Cardinality(I) - 1
    BY <1>8, <2>1, FS_RemoveElement
  <2>3. Cardinality(After) = Cardinality(I) - 1
    BY <1>10, <2>1, <2>2
  <2> QED BY <1>9, <1>13, <1>16, <2>3
<1> QED BY <1>7, <1>13, <1>15, <1>16

\* Every job submitted has its place in the order.
Recorded == \A j \in Jobs : job[j].state # "absent" => \E i \in DOMAIN order : order[i] = j

Outcomes == {j \in Jobs : job[j].state \in Terminal}

Pruned == \E j \in Jobs : job[j].state = "pruned"

LEMMA BoundsOf ==
  RegistryBounded <=> /\ Len(queue) <= MaxQueued
                      /\ Cardinality(Outcomes) <= MaxRetained
                      /\ Pruned => Cardinality(Outcomes) = MaxRetained
BY DEF RegistryBounded, Outcomes, Pruned

\* The outcomes are as they were, and so are the places of the jobs.
LEMMA OutcomesRest ==
  ASSUME RegistryBounded, Len(queue') <= MaxQueued,
         \A j \in Jobs : /\ job'[j].state \in Terminal <=> job[j].state \in Terminal
                         /\ job'[j].state = "pruned" <=> job[j].state = "pruned"
  PROVE  RegistryBounded'
<1>1. Outcomes' = Outcomes /\ (Pruned' <=> Pruned)
  <2>1. \A j : j \in Outcomes' <=> j \in Outcomes
    BY DEF Outcomes
  <2>2. Outcomes' = Outcomes
    <3> HIDE DEF Outcomes
    <3> QED BY <2>1
  <2> QED BY <2>2 DEF Pruned
<1>2. RegistryBounded' <=> /\ Len(queue') <= MaxQueued
                           /\ Cardinality(Outcomes') <= MaxRetained
                           /\ Pruned' => Cardinality(Outcomes') = MaxRetained
  BY DEF RegistryBounded, Outcomes, Pruned
<1> QED BY <1>1, <1>2, BoundsOf

\* A submission of n jobs for which there is room.
LEMMA SubmissionFits ==
  ASSUME JobInv, Recorded, RegistryBounded, NEW batch \in Batches, NEW kind \in Kinds,
         NEW subject \in Subjects \cup {NoSubject}, HasRoom(Len(batch)), Register(batch, kind, subject)
  PROVE  Recorded' /\ RegistryBounded'
<1>1. PICK n \in 1..MaxQueued : batch \in [1..n -> Jobs]
  BY DEF Batches
<1>2. batch \in Seq(Jobs) /\ queue \in Seq(Jobs) /\ order \in Seq(Jobs) /\ Len(batch) = n
  BY <1>1, JobAssumption DEF JobInv, JobTypeOK
<1>3. Len(queue') <= MaxQueued
  BY <1>2, JobAssumption DEF HasRoom, Register
<1>4. \A j \in Jobs : /\ (\E i \in DOMAIN batch : batch[i] = j) => job'[j].state = "queued" /\ job[j].state = "absent"
                      /\ ~ (\E i \in DOMAIN batch : batch[i] = j) => job'[j] = job[j]
  BY DEF Register
<1>5. RegistryBounded'
  <2>1. \A j \in Jobs : /\ job'[j].state \in Terminal <=> job[j].state \in Terminal
                        /\ job'[j].state = "pruned" <=> job[j].state = "pruned"
    <3> SUFFICES ASSUME NEW j \in Jobs
                 PROVE  /\ job'[j].state \in Terminal <=> job[j].state \in Terminal
                        /\ job'[j].state = "pruned" <=> job[j].state = "pruned"
      OBVIOUS
    <3>1. CASE \E i \in DOMAIN batch : batch[i] = j
      <4>1. job'[j].state = "queued" /\ job[j].state = "absent"
        BY <1>4, <3>1
      <4> QED BY <4>1 DEF Terminal
    <3>2. CASE ~ (\E i \in DOMAIN batch : batch[i] = j)
      <4>1. job'[j] = job[j]
        BY <1>4, <3>2
      <4> QED BY <4>1
    <3> QED BY <3>1, <3>2
  <2> QED BY <1>3, <2>1, OutcomesRest
<1>6. /\ \A i \in DOMAIN order : i \in DOMAIN order' /\ order'[i] = order[i]
      /\ \A i \in DOMAIN batch : \E k \in DOMAIN order' : order'[k] = batch[i]
  <2>1. order' = order \o batch
    BY DEF Register
  <2>2. \A i \in DOMAIN batch : Len(order) + i \in DOMAIN order' /\ order'[Len(order) + i] = batch[i]
    BY <1>2, <2>1
  <2>3. \A i \in DOMAIN order : i \in DOMAIN order' /\ order'[i] = order[i]
    BY <1>2, <2>1
  <2>4. ASSUME NEW i \in DOMAIN batch PROVE \E k \in DOMAIN order' : order'[k] = batch[i]
    <3>1. Len(order) + i \in DOMAIN order'
      BY <2>2
    <3> QED BY <2>2, <3>1
  <2> QED BY <2>3, <2>4
<1>7. Recorded'
  BY <1>4, <1>6 DEF Recorded
<1> QED BY <1>5, <1>7

LEMMA FinalizeFits ==
  ASSUME JobInv, Recorded, RegistryBounded, Finalize
  PROVE  Recorded' /\ RegistryBounded'
<1> DEFINE w == worker.job
           settled == [job EXCEPT ![w].state = worker.outcome]
<1>1. /\ w \in Jobs /\ worker.outcome \in Terminal
      /\ job[w].state \notin Terminal /\ job[w].state # "absent"
  BY FinalizePreserves DEF LegalFrom, Terminal
<1>2. /\ job' = [j \in Jobs |-> IF j \in Forgotten(settled, order) THEN NoRecord("pruned") ELSE settled[j]]
      /\ order' = order /\ queue' = queue
  BY DEF Finalize
<1>3. \A j \in Jobs : settled[j].state = IF j = w THEN worker.outcome ELSE job[j].state
  BY <1>1 DEF JobInv, JobTypeOK, JobRows
<1>4. order \in Seq(Jobs) /\ \A i, k \in DOMAIN order : order[i] = order[k] => i = k
  BY DEF JobInv, JobTypeOK, LineEndsOrder
<1> HIDE DEF settled, w
<1>5. \A j \in Jobs : job'[j].state = IF j \in Forgotten(settled, order) THEN "pruned" ELSE settled[j].state
  BY <1>2 DEF NoRecord
<1>6. \A j \in Jobs : j = w \/ job[j].state \in Terminal => \E i \in DOMAIN order : order[i] = j
  BY <1>1 DEF Recorded, Terminal
<1>7. PICK old, mid, new, seq, me : old = job /\ mid = settled /\ new = job' /\ seq = order /\ me = w
  OBVIOUS
<1>8. /\ Cardinality({j \in Jobs : new[j].state \in Terminal}) <= MaxRetained
      /\ (\E j \in Jobs : new[j].state = "pruned")
           => Cardinality({j \in Jobs : new[j].state \in Terminal}) = MaxRetained
  <2>1. /\ Cardinality({j \in Jobs : old[j].state \in Terminal}) <= MaxRetained
        /\ (\E j \in Jobs : old[j].state = "pruned")
             => Cardinality({j \in Jobs : old[j].state \in Terminal}) = MaxRetained
    BY <1>7 DEF RegistryBounded
  <2>2. /\ seq \in Seq(Jobs) /\ me \in Jobs
        /\ \A i, k \in DOMAIN seq : seq[i] = seq[k] => i = k
        /\ \A j \in Jobs : j = me \/ old[j].state \in Terminal => \E i \in DOMAIN seq : seq[i] = j
        /\ old[me].state \notin Terminal /\ mid[me].state \in Terminal
        /\ \A j \in Jobs : j # me => mid[j].state = old[j].state
    BY <1>1, <1>3, <1>4, <1>6, <1>7 DEF w
  <2>3. \A j \in Jobs : new[j].state = IF j \in Forgotten(mid, seq) THEN "pruned" ELSE mid[j].state
    BY <1>5, <1>7
  <2> QED BY <2>1, <2>2, <2>3, PruneKeepsTheBound
<1>9. RegistryBounded'
  <2>1. Len(queue') <= MaxQueued
    BY <1>2 DEF RegistryBounded
  <2> QED BY <1>7, <1>8, <2>1 DEF RegistryBounded
<1>10. Recorded'
  BY <1>1, <1>2, <1>3, <1>5 DEF Recorded, Forgotten, TerminalIn
<1> QED BY <1>9, <1>10

LEMMA StepFits ==
  ASSUME JobInv, Recorded, RegistryBounded, [JobNext]_jobVars
  PROVE  Recorded' /\ RegistryBounded'
<1>0. job \in [Jobs -> JobRows] /\ queue \in Seq(Jobs) /\ Len(queue) <= MaxQueued
  BY DEF JobInv, JobTypeOK, RegistryBounded
<1>1. ASSUME order' = order, Len(queue') <= MaxQueued,
             \A j \in Jobs : job'[j].state = job[j].state \/ (job[j].state \in Ongoing /\ job'[j].state \in Ongoing)
      PROVE  Recorded' /\ RegistryBounded'
  <2>1. RegistryBounded'
    BY <1>1, OutcomesRest DEF Ongoing, Terminal
  <2>2. Recorded'
    BY <1>1 DEF Recorded, Ongoing
  <2> QED BY <2>1, <2>2
<1>2. CASE UNCHANGED jobVars
  BY <1>0, <1>1, <1>2 DEF jobVars
<1>3. CASE Client
  <2>1. ASSUME NEW batch \in Batches, SubmitImport(batch) PROVE Recorded' /\ RegistryBounded'
    BY <2>1, SubmissionFits DEF SubmitImport, Kinds
  <2>2. ASSUME NEW j \in Jobs PROVE <<j>> \in Batches /\ Len(<<j>>) = 1
    <3>1. 1 \in 1..MaxQueued /\ <<j>> \in [1..1 -> Jobs]
      BY JobAssumption
    <3> QED BY <3>1 DEF Batches
  <2>3. ASSUME NEW j \in Jobs, NEW d \in Subjects, SubmitOcr(j, d) PROVE Recorded' /\ RegistryBounded'
    <3>1. PICK batch \in Batches : batch = <<j>> /\ Len(batch) = 1
      BY <2>2
    <3>2. Register(batch, "ocr", d) /\ HasRoom(Len(batch))
      BY <2>3, <3>1 DEF SubmitOcr
    <3> QED BY <3>2, SubmissionFits DEF Kinds
  <2>4. ASSUME NEW j \in Jobs, NEW kind \in {"search", "chat"}, SubmitOne(j, kind, NoSubject)
        PROVE  Recorded' /\ RegistryBounded'
    <3>1. PICK batch \in Batches : batch = <<j>> /\ Len(batch) = 1
      BY <2>2
    <3>2. Register(batch, kind, NoSubject) /\ HasRoom(Len(batch))
      BY <2>4, <3>1 DEF SubmitOne
    <3> QED BY <3>2, SubmissionFits DEF Kinds
  <2>5. ASSUME NEW c \in Jobs, Cancel(c) PROVE Recorded' /\ RegistryBounded'
    BY <1>0, <1>1, <2>5 DEF Cancel, JobRows, Ongoing
  <2>6. CASE Shutdown
    BY <1>0, <1>1, <2>6 DEF Shutdown, CancelAll, JobRows, Ongoing
  <2> QED BY <1>3, <2>1, <2>3, <2>4, <2>5, <2>6 DEF Client
<1>4. CASE Wait \/ Exit \/ LookForCancel \/ BuildExecutor \/ Succeed \/ \E o \in {"cancelled", "failed"} : Stop(o)
  BY <1>0, <1>1, <1>4 DEF Wait, Exit, LookForCancel, BuildExecutor, Succeed, Stop
<1>5. CASE Take
  <2>1. order' = order /\ job' = job /\ Len(queue') <= MaxQueued
    BY <1>0, <1>5, JobAssumption DEF Take
  <2> QED BY <1>1, <2>1
<1>6. CASE Preflight
  BY <1>0, <1>1, <1>6 DEF Preflight, JobRows, Ongoing
<1>7. ASSUME NEW d \in Subjects \cup {NoSubject}, OnRunning(d) PROVE Recorded' /\ RegistryBounded'
  <2> DEFINE v == worker.job
  <2>1. /\ order' = order /\ queue' = queue /\ v \in Jobs /\ job[v].state \in Ongoing
        /\ \A j \in Jobs : j # v => job'[j] = job[j]
        /\ job'[v].state = IF job[v].state = "cancel_requested" THEN "cancel_requested" ELSE "running"
    BY <1>0, <1>7 DEF OnRunning, JobInv, WorkerHolds, StageShown, Holding, Ongoing, JobRows
  <2> HIDE DEF v
  <2>2. \A j \in Jobs : job'[j].state = job[j].state \/ (job[j].state \in Ongoing /\ job'[j].state \in Ongoing)
    BY <2>1 DEF Ongoing
  <2> QED BY <1>0, <1>1, <2>1, <2>2
<1>8. CASE Finalize
  BY <1>8, FinalizeFits
<1> QED BY <1>2, <1>3, <1>4, <1>5, <1>6, <1>7, <1>8 DEF JobNext, Work

\* The registry stays within its bound however files are batched: the queue, the worker's job and the last
\* MaxRetained outcomes, and none is forgotten before as many later ones.
THEOREM RegistryWithinBounds == JobSafetySpec => []RegistryBounded
<1>1. JobInit => JobInv /\ Recorded /\ RegistryBounded
  <2> SUFFICES ASSUME JobInit PROVE Recorded /\ RegistryBounded
    BY InitEstablishes
  <2>1. {j \in Jobs : job[j].state \in Terminal} = {} /\ \A j \in Jobs : job[j].state = "absent"
    BY DEF JobInit, NoRecord, Terminal
  <2>2. Outcomes = {} /\ ~Pruned
    BY <2>1 DEF Outcomes, Pruned
  <2>3. Len(queue) = 0 /\ Cardinality({}) = 0
    BY FS_EmptySet DEF JobInit
  <2>4. RegistryBounded
    BY <2>2, <2>3, BoundsOf, JobAssumption
  <2> QED BY <2>1, <2>4 DEF Recorded
<1>2. JobInv /\ Recorded /\ RegistryBounded /\ [JobNext]_jobVars => JobInv' /\ Recorded' /\ RegistryBounded'
  BY StepPreserves, StepFits
<1> QED BY <1>1, <1>2, PTL DEF JobSafetySpec

\* No job is lost or doubled, no document has two, and the registry is bounded.
THEOREM QueueStaysWhole == JobSafetySpec => []QueueIsWhole
<1>1. NoJobLost /\ RegistryBounded /\ OneJobPerDocument => QueueIsWhole
  BY DEF QueueIsWhole
<1> QED BY <1>1, NoneLost, RegistryWithinBounds, OneWriterPerDocument, PTL

\* A job that was cancelled while it waited: wherever it is in the line the event is
\* set, and the worker that takes it goes from its test to the outcome.
Dismissed(j) ==
  /\ job[j].state # "absent"
  /\ \A i \in DOMAIN queue : queue[i] = j => job[j].cancel
  /\ worker.job = j => worker.at = "finalizing" \/ (worker.at = "taken" /\ job[j].cancel)

\* Whoever waits is not in hand as well: the line has nobody twice.
LEMMA WaitingIsDismissed ==
  ASSUME JobInv, NEW j \in Jobs, NEW i \in DOMAIN queue, queue[i] = j, job[j].cancel
  PROVE  Dismissed(j)
<1>1. job[j].state # "absent"
  BY DEF JobInv, StageShown
<1>2. worker.job # j
  <2> SUFFICES ASSUME worker.job = j PROVE FALSE
    OBVIOUS
  <2>1. queue \in Seq(Jobs) /\ i \in 1..Len(queue) /\ Len(queue) \in Nat
    BY DEF JobInv, JobTypeOK
  <2>2. /\ Line \in Seq(Jobs) /\ Len(Line) = Len(queue) + 1 /\ Line[1] = j /\ Line[i + 1] = j
    BY <2>1, LineShape, JobAssumption DEF JobInv
  <2>3. 1 \in DOMAIN Line /\ i + 1 \in DOMAIN Line /\ i + 1 # 1
    BY <2>1, <2>2
  <2> QED BY <2>2, <2>3, LineInjective DEF JobInv
<1> QED BY <1>1, <1>2 DEF Dismissed

\* Clients add other jobs behind it and set events, never reset one.
LEMMA ClientsKeepDismissed ==
  ASSUME JobInv, NEW j \in Jobs, Dismissed(j), Client
  PROVE  Dismissed(j)'
<1>0. job \in [Jobs -> JobRows]
  BY DEF JobInv, JobTypeOK
<1>1. ASSUME NEW batch \in Batches, NEW kind \in Kinds, NEW subject \in Subjects \cup {NoSubject},
             Register(batch, kind, subject)
      PROVE  Dismissed(j)'
  <2>1. /\ \A i \in DOMAIN batch : batch[i] # j
        /\ job'[j] = job[j] /\ queue' = queue \o batch
        /\ worker' = worker \/ (worker.at \in {"none", "waiting"} /\ worker' = [worker EXCEPT !.at = "awake"])
    BY <1>1 DEF Register, StartOrWake, Dismissed
  <2>2. queue \in Seq(Jobs) /\ batch \in Seq(Jobs)
    BY JobAssumption DEF JobInv, JobTypeOK, Batches
  <2>3. \A i \in DOMAIN queue' : queue'[i] = j => i \in DOMAIN queue /\ queue[i] = j
    BY <2>1, <2>2
  <2>4. worker'.job = j => worker' = worker
    <3>1. worker.at \in {"none", "waiting"} => worker.job # j
      BY DEF Dismissed
    <3>2. worker \in [at : Places, job : Jobs \cup {NoJob}, outcome : Terminal \cup {"none"}]
      BY DEF JobInv, JobTypeOK
    <3> QED BY <2>1, <3>1, <3>2
  <2> QED BY <2>1, <2>3, <2>4 DEF Dismissed
<1>2. ASSUME NEW c \in Jobs, Cancel(c) PROVE Dismissed(j)'
  BY <1>0, <1>2 DEF Cancel, Dismissed, JobRows
<1>3. CASE Shutdown
  <2>1. /\ job[j].cancel => job'[j].cancel
        /\ job'[j].state # "absent"
    BY <1>0, <1>3 DEF Shutdown, CancelAll, JobRows, Dismissed
  <2>2. worker' = worker \/ (worker.job # j /\ worker'.job = worker.job)
    BY <1>3 DEF Shutdown, Dismissed, JobInv, JobTypeOK
  <2>3. queue' = queue
    BY <1>3 DEF Shutdown
  <2> QED BY <2>1, <2>2, <2>3 DEF Dismissed
<1> QED BY <1>1, <1>2, <1>3, ClientSteps

\* The worker tests the event before it does anything with the job.
LEMMA WorkKeepsDismissed ==
  ASSUME JobInv, NEW j \in Jobs, Dismissed(j), Work
  PROVE  Dismissed(j)'
<1>0. job \in [Jobs -> JobRows] /\ queue \in Seq(Jobs) /\ j # NoJob
  BY JobAssumption DEF JobInv, JobTypeOK
<1>1. CASE Wait \/ Exit
  BY <1>0, <1>1 DEF Wait, Exit, WorkerAt, Dismissed
<1>2. CASE Take
  <2>1. queue # <<>> /\ queue' = Tail(queue) /\ job' = job /\ worker'.job = queue[1] /\ worker'.at = "taken"
    BY <1>0, <1>2 DEF Take, WorkerAt
  <2>2. 1 \in DOMAIN queue /\ \A i \in DOMAIN queue' : i + 1 \in DOMAIN queue /\ queue'[i] = queue[i + 1]
    BY <1>0, <2>1
  <2> QED BY <2>1, <2>2 DEF Dismissed
<1>3. CASE LookForCancel
  BY <1>3 DEF LookForCancel, WorkerAt, Dismissed
<1>4. CASE \/ Preflight \/ BuildExecutor \/ Succeed
           \/ \E d \in Subjects \cup {NoSubject} : OnRunning(d)
           \/ \E o \in {"cancelled", "failed"} : Stop(o)
  <2>1. worker.at \notin {"taken", "finalizing"} /\ worker'.job = worker.job /\ queue' = queue
    <3>1. CASE Preflight \/ BuildExecutor \/ Succeed
      BY <3>1 DEF Preflight, BuildExecutor, Succeed, WorkerAt
    <3>2. ASSUME NEW d, OnRunning(d)
          PROVE  worker.at \notin {"taken", "finalizing"} /\ worker'.job = worker.job /\ queue' = queue
      BY <3>2 DEF OnRunning, WorkerAt
    <3>3. ASSUME NEW o, Stop(o)
          PROVE  worker.at \notin {"taken", "finalizing"} /\ worker'.job = worker.job /\ queue' = queue
      BY <3>3 DEF Stop, WorkerAt
    <3> QED BY <1>4, <3>1, <3>2, <3>3
  <2>2. worker.job # j
    BY <2>1 DEF Dismissed
  <2>3. job'[j] = job[j]
    BY <1>0, <1>4, <2>2 DEF Preflight, BuildExecutor, Succeed, OnRunning, Stop
  <2> QED BY <2>1, <2>2, <2>3 DEF Dismissed
<1>5. CASE Finalize
  <2>1. worker'.job = NoJob /\ queue' = queue
    BY <1>5 DEF Finalize, WorkerAt
  <2>2. PICK gone :
          /\ job' = [k \in Jobs |-> IF k \in gone THEN NoRecord("pruned")
                                    ELSE [job EXCEPT ![worker.job].state = worker.outcome][k]]
          /\ \A k \in gone : job[k].state \in Terminal
          /\ worker.outcome \in Terminal
    BY <1>5, FinalizePreserves DEF Finalize
  <2>3. job'[j].state # "absent"
    BY <1>0, <2>2 DEF NoRecord, Dismissed, JobRows, Terminal
  <2>4. (\E i \in DOMAIN queue : queue[i] = j) /\ job[j].cancel => job'[j].cancel
    <3>1. (\E i \in DOMAIN queue : queue[i] = j) => j \notin gone
      BY <2>2 DEF JobInv, StageShown, Terminal
    <3> QED BY <1>0, <2>2, <3>1 DEF JobRows
  <2> QED BY <1>0, <2>1, <2>3, <2>4 DEF Dismissed
<1> QED BY <1>1, <1>2, <1>3, <1>4, <1>5 DEF Work

\* A cancel accepted while the job is still queued means no domain work is ever done.
THEOREM CancelledStaysOut == JobSafetySpec => CancelledInQueueNeverRuns
<1> SUFFICES ASSUME NEW j \in Jobs
             PROVE  JobSafetySpec =>
                      [](((\E i \in DOMAIN queue : queue[i] = j) /\ job[j].cancel)
                           => [](worker.job = j => worker.at \notin {"building", "executing", "working"}))
  BY DEF CancelledInQueueNeverRuns
<1>1. JobInv /\ (\E i \in DOMAIN queue : queue[i] = j) /\ job[j].cancel => Dismissed(j)
  BY WaitingIsDismissed
<1>2. JobInv /\ Dismissed(j) /\ [JobNext]_jobVars => Dismissed(j)'
  <2>1. ASSUME UNCHANGED jobVars, Dismissed(j) PROVE Dismissed(j)'
    BY <2>1 DEF jobVars, Dismissed
  <2> QED BY <2>1, ClientsKeepDismissed, WorkKeepsDismissed DEF JobNext
<1>3. Dismissed(j) => (worker.job = j => worker.at \notin {"building", "executing", "working"})
  BY DEF Dismissed
<1> QED BY <1>1, <1>2, <1>3, ServiceInvariant, PTL DEF JobSafetySpec

(***************************************************************************)
(* Chat as a job: theorems of ChatJobs                                     *)
(***************************************************************************)

Chatting == {"starting", "started", "answering", "committing", "answered", "raised"}

\* The worker is inside _run_chat only while it executes a job.
RunFits ==
  /\ run.at \in {"out"} \cup Chatting
  /\ run.at \in {"starting", "started"} => worker.at = "executing"
  /\ run.at \in {"answering", "committing", "answered", "raised"} => worker.at = "working"
  /\ run.at = "raised" => run.cause \in Causes
  /\ run.at = "answered" => attempt[Mine].state \in {"completed", "deleted"}

\* A request in progress has an attempt; one just accepted is untouched and without a job.
RequestFits ==
  /\ rpc.at \in {"accepted", "cancelling", "checking"} => rpc.attempt \in Attempts
  /\ rpc.at = "accepted" =>
       /\ attempt[rpc.attempt].state = "pending"
       /\ ~attempt[rpc.attempt].cancel
       /\ \A j \in Jobs : job[j].subject # rpc.attempt

\* A job that is known has an attempt that was accepted before it.
JobsHaveAttempts ==
  \A j \in Jobs :
    IF job[j].state \in {"absent", "pruned"} THEN job[j].subject = NoSubject
    ELSE job[j].subject \in Attempts /\ attempt[job[j].subject].state # "absent"

\* Whatever cancels an attempt has cancelled its job first.
CancelsReachJobs ==
  /\ \A j \in Jobs : job[j].state \in Ongoing =>
       \/ job[j].cancel
       \/ /\ attempt[job[j].subject].state # "cancelled"
          /\ ~attempt[job[j].subject].cancel
          /\ rpc.at = "cancelling" => rpc.attempt # job[j].subject
  /\ run.at = "raised" /\ run.cause = "cancelled" => job[worker.job].cancel

\* Whatever cancels a job goes on to its attempt, unless the backend is closing.
CancelsReachAttempts ==
  \A j \in Jobs :
    /\ job[j].state = "cancelled" => job[j].cancel
    /\ job[j].cancel /\ job[j].state \in Ongoing \cup Terminal /\ attempt[job[j].subject].state = "pending" =>
         \/ rpc.at = "closed"
         \/ rpc.at = "cancelling" /\ rpc.attempt = job[j].subject

\* Where the answer of an unsettled job may have been saved, and what the worker will record.
AnswerInHand ==
  /\ \A j \in Jobs : job[j].state \in Ongoing /\ attempt[job[j].subject].state = "completed" =>
       /\ worker.job = j
       /\ run.at \in {"answered", "raised"} \/ worker.outcome = "completed"
  /\ worker.outcome = "completed" => attempt[Mine].state \in {"completed", "deleted"}
  /\ worker.outcome \in {"cancelled", "failed"} => attempt[Mine].state # "completed"

\* How jobs, attempts, the request in progress and the worker fit together.
ThreadsAgree ==
  /\ RunFits /\ RequestFits /\ JobsHaveAttempts
  /\ CancelsReachJobs /\ CancelsReachAttempts /\ AnswerInHand
  /\ OneJobPerAttempt /\ RunningIsWorkedOn /\ RetiredIsIdle /\ OutcomesAgree

ChatInv == StoreInv /\ Numbered /\ JobInv /\ ThreadsAgree

----------------------------------------------------------------------------
\* What the steps below use of the store's and the queue's own invariants.
LEMMA RowsTyped ==
  ASSUME ChatInv
  PROVE  /\ attempt \in [Attempts -> AttemptRows] /\ job \in [Jobs -> JobRows]
         /\ Subjects = Attempts /\ NoSubject \notin Attempts /\ NoJob \notin Jobs
         /\ worker \in [at : Places, job : Jobs \cup {NoJob}, outcome : Terminal \cup {"none"}]
  BY SubjectsAreAttempts, JobAssumption DEF ChatInv, StoreInv, StoreTypeOK, JobInv, JobTypeOK

\* The worker's job is unsettled as long as it is in hand.
LEMMA HandIsOngoing ==
  ASSUME JobInv
  PROVE  /\ worker.at \in Holding => worker.job \in Jobs /\ job[worker.job].state \in Ongoing
         /\ worker.at \notin Holding => worker.job = NoJob
         /\ worker.at = "finalizing" <=> worker.outcome # "none"
  BY JobAssumption DEF JobInv, JobTypeOK, WorkerHolds, StageShown, FinalizeIsLegal, LegalFrom, Holding, Ongoing

\* The attempt _run_chat executes, and its job.
LEMMA InChat ==
  ASSUME ChatInv, run.at # "out" \/ worker.at \in {"executing", "working"}
  PROVE  /\ worker.job \in Jobs /\ job[worker.job].state \in Ongoing
         /\ worker.at \in {"executing", "working"} /\ worker.outcome = "none"
         /\ Mine \in Attempts /\ attempt[Mine].state # "absent"
<1>1. worker.at \in {"executing", "working"}
  BY DEF ChatInv, ThreadsAgree, RunFits, Chatting
<1>2. worker.job \in Jobs /\ job[worker.job].state \in Ongoing /\ worker.outcome = "none"
  BY <1>1, HandIsOngoing DEF ChatInv, Holding
<1> QED BY <1>1, <1>2 DEF ChatInv, ThreadsAgree, JobsHaveAttempts, Mine, Ongoing

----------------------------------------------------------------------------
(* What each step does to the store. *)

LEMMA FinishIfActiveSteps ==
  ASSUME NEW a \in Attempts, NEW s \in Retryable, FinishIfActive(a, s)
  PROVE  [StoreNext]_storeVars
  BY DEF FinishIfActive, StoreNext, Execute

\* Whatever the two threads do is a step of the turn store, or none.
LEMMA StoreStepOf ==
  ASSUME ChatInv, [ChatNext]_chatVars
  PROVE  [StoreNext]_storeVars
<1>1. CASE Request
  <2>1. ASSUME NEW t \in Turns, NEW a \in Attempts, NEW k \in Keys,
               RetryChat(t, a, k) \/ \E s \in Sessions : SubmitChat(s, t, a, k)
        PROVE  StoreNext
    BY <2>1 DEF RetryChat, SubmitChat, StoreNext, Submit
  <2>2. ASSUME NEW s \in Sessions, DeleteConversation(s) PROVE StoreNext
    BY <2>2 DEF DeleteConversation, StoreNext
  <2>3. ASSUME (\E j \in Jobs : CancelJob(j)) \/ (\E t \in Turns : ReadTurn(t)) \/ Close PROVE UNCHANGED storeVars
    BY <2>3 DEF CancelJob, ReadTurn, Close
  <2> QED BY <1>1, <2>1, <2>2, <2>3 DEF Request
<1>2. CASE HandlerStep
  <2>0. rpc.at \in {"accepted", "cancelling", "checking"} => rpc.attempt \in Attempts
    BY DEF ChatInv, ThreadsAgree, RequestFits
  <2>1. ASSUME NEW j \in Jobs, Enqueue(j) \/ EnqueueFails(j) PROVE [StoreNext]_storeVars
    BY <2>0, <2>1, FinishIfActiveSteps DEF Enqueue, EnqueueFails, Retryable
  <2>2. CASE CancelAttempt
    BY <2>0, <2>2 DEF CancelAttempt, StoreNext, Execute
  <2>3. CASE Reconcile
    BY <2>0, <2>3, FinishIfActiveSteps DEF Reconcile, Retryable
  <2> QED BY <1>2, <2>1, <2>2, <2>3 DEF HandlerStep
<1>3. CASE RunChat
  <2>1. CASE Enter \/ StartRefused \/ Announce \/ OpenCommit \/ Answer \/ \E cause \in Causes : Raise(cause)
    BY <2>1 DEF Enter, StartRefused, Announce, OpenCommit, Answer, Raise
  <2>2. CASE StartAttempt \/ Commit
    BY <2>2, InChat DEF StartAttempt, Commit, StoreNext, Execute
  <2>3. CASE SettleAttempt
    <3>1. run.cause \in Retryable /\ Mine \in Attempts
      BY <2>3, InChat DEF SettleAttempt, ChatInv, ThreadsAgree, RunFits, Causes, Retryable
    <3> QED BY <2>3, <3>1, FinishIfActiveSteps DEF SettleAttempt
  <2> QED BY <1>3, <2>1, <2>2, <2>3 DEF RunChat
<1>4. CASE Restart
  BY <1>4 DEF Restart, StoreNext
<1>5. CASE Dispatch \/ UNCHANGED chatVars
  BY <1>5 DEF Dispatch, chatVars
<1> QED BY <1>1, <1>2, <1>3, <1>4, <1>5 DEF ChatNext

----------------------------------------------------------------------------
(* What each step does to the queue. *)

QueueNext ==
  \/ JobNext \/ Forget
  \/ \E j \in Jobs : (rpc.attempt \in Attempts /\ Unstarted(j)) \/ \E a \in Attempts : SubmitOne(j, "chat", a)

\* _run_chat leaves as an executor may.
LEMMA LeavingIsLegal ==
  ASSUME ChatInv, NEW outcome, Leave(outcome),
         \/ outcome = "completed" /\ worker.at = "working"
         \/ outcome = "failed" /\ worker.at \in {"executing", "working"}
         \/ outcome = "cancelled" /\ worker.at \in {"executing", "working"} /\ job[worker.job].cancel
  PROVE  JobNext
<1>1. CASE outcome = "completed"
  BY <1>1 DEF Leave, Succeed, JobNext, Work
<1>2. CASE outcome \in {"cancelled", "failed"}
  <2>1. Stop(outcome)
    BY <1>2 DEF Leave, Stop
  <2> QED BY <1>2, <2>1 DEF JobNext, Work
<1> QED BY <1>1, <1>2

\* Whatever the two threads do, the queue sees a client and an executor that keep its protocol.
LEMMA QueueStepOf ==
  ASSUME ChatInv, [ChatNext]_chatVars
  PROVE  [QueueNext]_jobVars
<1>1. CASE Request
  <2>1. ASSUME NEW t \in Turns, NEW a \in Attempts, NEW k \in Keys,
               RetryChat(t, a, k) \/ \E s \in Sessions : SubmitChat(s, t, a, k)
        PROVE  UNCHANGED jobVars
    BY <2>1 DEF RetryChat, SubmitChat
  <2>2. ASSUME NEW j \in Jobs, CancelJob(j) PROVE [QueueNext]_jobVars
    BY <2>2 DEF CancelJob, QueueNext, JobNext, Client
  <2>3. CASE Close
    BY <2>3 DEF Close, QueueNext, JobNext, Client
  <2>4. CASE (\E t \in Turns : ReadTurn(t)) \/ (\E s \in Sessions : DeleteConversation(s))
    BY <2>4 DEF ReadTurn, DeleteConversation
  <2> QED BY <1>1, <2>1, <2>2, <2>3, <2>4 DEF Request
<1>2. CASE HandlerStep
  <2>1. ASSUME NEW j \in Jobs, Enqueue(j) \/ EnqueueFails(j) PROVE QueueNext
    BY <2>1 DEF Enqueue, EnqueueFails, QueueNext, ChatInv, ThreadsAgree, RequestFits
  <2>2. CASE CancelAttempt \/ Reconcile
    BY <2>2 DEF CancelAttempt, Reconcile
  <2> QED BY <1>2, <2>1, <2>2 DEF HandlerStep
<1>3. CASE RunChat
  <2>0. /\ run.at \in {"starting", "started"} => worker.at = "executing"
        /\ run.at \in {"answering", "committing", "answered", "raised"} => worker.at = "working"
    BY DEF ChatInv, ThreadsAgree, RunFits
  <2>1. CASE Enter
    <3>1. /\ worker.at = "executing"
          /\ \/ job[worker.job].cancel /\ Leave("cancelled")
             \/ UNCHANGED jobVars
      BY <2>1 DEF Enter
    <3> QED BY <3>1, LeavingIsLegal DEF QueueNext
  <2>2. CASE StartAttempt \/ OpenCommit \/ Commit \/ \E cause \in Causes : Raise(cause)
    BY <2>2 DEF StartAttempt, OpenCommit, Commit, Raise
  <2>3. CASE StartRefused
    <3>1. CASE attempt[Mine].state = "cancelled"
      <4>1. job[worker.job].cancel
        BY <2>3, <3>1, InChat DEF StartRefused, ChatInv, ThreadsAgree, CancelsReachJobs, Mine
      <4> QED BY <2>0, <2>3, <3>1, <4>1, LeavingIsLegal DEF StartRefused, QueueNext
    <3>2. CASE attempt[Mine].state # "cancelled"
      BY <2>0, <2>3, <3>2, LeavingIsLegal DEF StartRefused, QueueNext
    <3> QED BY <3>1, <3>2
  <2>4. CASE Announce
    BY <2>4, InChat, RowsTyped DEF Announce, QueueNext, JobNext, Work
  <2>5. CASE SettleAttempt
    <3>1. run.cause = "cancelled" => job[worker.job].cancel
      BY <2>5 DEF SettleAttempt, ChatInv, ThreadsAgree, CancelsReachJobs
    <3>2. CASE Leave("completed")
      BY <2>0, <2>5, <3>2, LeavingIsLegal DEF SettleAttempt, QueueNext
    <3>3. CASE run.cause = "cancelled" /\ Leave("cancelled")
      BY <2>0, <2>5, <3>1, <3>3, LeavingIsLegal DEF SettleAttempt, QueueNext
    <3>4. CASE Leave("failed")
      BY <2>0, <2>5, <3>4, LeavingIsLegal DEF SettleAttempt, QueueNext
    <3> QED BY <2>5, <3>2, <3>3, <3>4 DEF SettleAttempt
  <2>6. CASE Answer
    BY <2>0, <2>6, LeavingIsLegal DEF Answer, QueueNext
  <2> QED BY <1>3, <2>1, <2>2, <2>3, <2>4, <2>5, <2>6 DEF RunChat
<1>4. CASE Restart
  BY <1>4 DEF Restart, QueueNext
<1>5. CASE Dispatch
  BY <1>5 DEF Dispatch, QueueNext, JobNext, Work
<1>6. CASE UNCHANGED chatVars
  BY <1>6 DEF chatVars
<1> QED BY <1>1, <1>2, <1>3, <1>4, <1>5, <1>6 DEF ChatNext
\* A job whose worker cannot be started is registered all the same; a restart forgets every job.
LEMMA QueueStep ==
  ASSUME JobInv, [QueueNext]_jobVars
  PROVE  JobInv'
<1>1. ASSUME NEW j \in Jobs PROVE <<j>> \in Batches /\ DOMAIN <<j>> = {1} /\ <<j>>[1] = j
  <2>1. 1 \in 1..MaxQueued /\ <<j>> \in [1..1 -> Jobs]
    BY JobAssumption
  <2> QED BY <2>1 DEF Batches
<1>2. CASE [JobNext]_jobVars
  BY <1>2, StepPreserves
<1>3. ASSUME NEW j \in Jobs, NEW a \in Attempts, SubmitOne(j, "chat", a) PROVE JobInv'
  BY <1>1, <1>3, RegisterPreserves, SubjectsAreAttempts DEF SubmitOne, Kinds
<1>4. ASSUME NEW j \in Jobs, rpc.attempt \in Attempts, Unstarted(j) PROVE JobInv'
  <2>1. order \in Seq(Jobs) /\ queue \in Seq(Jobs)
    BY DEF JobInv, JobTypeOK
  <2>2. Append(order, j) = order \o <<j>> /\ Append(queue, j) = queue \o <<j>>
    BY <2>1
  <2>3. \A i \in Jobs : (\E n \in DOMAIN <<j>> : <<j>>[n] = i) <=> i = j
    BY <1>1
  <2>4. \A i, k \in DOMAIN <<j>> : <<j>>[i] = <<j>>[k] => i = k
    BY <1>1
  <2>5. \A i \in DOMAIN <<j>> : job[<<j>>[i]].state = "absent"
    BY <1>1, <1>4 DEF Unstarted
  <2>6. job' = [i \in Jobs |-> IF \E n \in DOMAIN <<j>> : <<j>>[n] = i
                 THEN [state |-> "queued", kind |-> "chat", subject |-> rpc.attempt, cancel |-> FALSE] ELSE job[i]]
    BY <1>4, <2>3 DEF Unstarted, JobInv, JobTypeOK
  <2>7. Appends(<<j>>, "chat", rpc.attempt)
    <3>1. order' = order \o <<j>> /\ queue' = queue \o <<j>> /\ UNCHANGED <<worker, shuttingDown>>
      BY <1>4, <2>2 DEF Unstarted
    <3> QED BY <2>4, <2>5, <2>6, <3>1 DEF Appends
  <2> QED BY <1>1, <1>4, <2>7, AppendPreserves, SubjectsAreAttempts DEF Kinds
<1>5. CASE Forget
  <2>1. /\ \A j \in Jobs : job'[j] = IF job[j].state = "absent" THEN job[j] ELSE NoRecord("pruned")
        /\ job' = [j \in Jobs |-> IF job[j].state = "absent" THEN job[j] ELSE NoRecord("pruned")]
        /\ order' = <<>> /\ queue' = <<>> /\ shuttingDown' = FALSE
        /\ worker' = [at |-> "none", job |-> NoJob, outcome |-> "none"]
    BY <1>5 DEF Forget, WorkerAt
  <2>2. NoRecord("pruned") \in JobRows /\ NoRecord("pruned").state = "pruned"
    BY DEF NoRecord, JobRows
  <2>3. \A j \in Jobs : job'[j] \in JobRows /\ job'[j].state \in {"absent", "pruned"}
    BY <2>1, <2>2 DEF JobInv, JobTypeOK
  <2>4. JobTypeOK'
    <3>1. job' \in [Jobs -> JobRows]
      BY <2>1, <2>3
    <3>2. worker' \in [at : Places, job : Jobs \cup {NoJob}, outcome : Terminal \cup {"none"}]
      BY <2>1 DEF Places
    <3>3. <<>> \in Seq(Jobs)
      OBVIOUS
    <3>4. order' \in Seq(Jobs) /\ queue' \in Seq(Jobs) /\ shuttingDown' \in BOOLEAN
      BY <2>1, <3>3
    <3> QED BY <3>1, <3>2, <3>4 DEF JobTypeOK
  <2>5. Line' = <<>>
    <3>1. Line' = <<>> \o <<>>
      BY <2>1 DEF Line
    <3>2. \A e \in Seq(Jobs) : e \o e = <<>> <=> e = <<>>
      OBVIOUS
    <3> QED BY <3>1, <3>2
  <2>6. WorkerHolds' /\ CancelShown' /\ StageShown' /\ FinalizeIsLegal'
    BY <2>1, <2>3, JobAssumption DEF WorkerHolds, Holding, CancelShown, StageShown, FinalizeIsLegal, Ongoing
  <2>7. LineEndsOrder' /\ LineIsOngoing'
    BY <2>1, <2>3, <2>5 DEF LineEndsOrder, LineIsOngoing, Ongoing
  <2> QED BY <2>4, <2>6, <2>7 DEF JobInv
<1> QED BY <1>2, <1>3, <1>4, <1>5 DEF QueueNext
----------------------------------------------------------------------------
(* The two threads' agreement, request by request. *)

\* A question is asked, again or for the first time: its new attempt has no job yet.
LEMMA AskingAgrees ==
  ASSUME ChatInv, NEW t \in Turns, NEW a \in Attempts, NEW k \in Keys,
         RetryChat(t, a, k) \/ \E s \in Sessions : SubmitChat(s, t, a, k)
  PROVE  ThreadsAgree'
<1> USE DEF ChatInv, ThreadsAgree
<1>1. /\ attempt[a].state = "absent"
      /\ attempt'[a].state = "pending" /\ ~attempt'[a].cancel
      /\ \A b \in Attempts : b # a => attempt'[b] = attempt[b]
      /\ rpc.at = "idle" /\ rpc'.at = "accepted" /\ rpc'.attempt = a
      /\ UNCHANGED <<job, worker, run>>
  BY RowsTyped DEF RetryChat, SubmitChat, Retry, Accept, InsertAttempt, Idle, RpcAt, jobVars
<1>2. \A j \in Jobs : job[j].subject # a
  BY <1>1, RowsTyped DEF JobsHaveAttempts
<1>3. \A j \in Jobs : job[j].state \notin {"absent", "pruned"} => attempt'[job[j].subject] = attempt[job[j].subject]
  BY <1>1, <1>2 DEF JobsHaveAttempts
<1>4. run.at # "out" \/ worker.outcome # "none" => Mine \in Attempts /\ attempt'[Mine] = attempt[Mine]
  BY <1>3, InChat, HandIsOngoing DEF JobsHaveAttempts, Mine, Holding, Ongoing
<1>5. RunFits' /\ RequestFits' /\ JobsHaveAttempts'
  BY <1>1, <1>2, <1>3, <1>4 DEF RunFits, RequestFits, JobsHaveAttempts, Mine
<1>6. CancelsReachJobs' /\ CancelsReachAttempts'
  BY <1>1, <1>3 DEF CancelsReachJobs, CancelsReachAttempts, Ongoing, Terminal
<1>7. AnswerInHand'
  BY <1>1, <1>3, <1>4 DEF AnswerInHand, Ongoing, Mine
<1>8. OneJobPerAttempt' /\ RunningIsWorkedOn' /\ RetiredIsIdle'
  BY <1>1 DEF OneJobPerAttempt, RunningIsWorkedOn, RetiredIsIdle, Mine
<1>9. OutcomesAgree'
  BY <1>1, <1>3 DEF OutcomesAgree
<1> QED BY <1>5, <1>6, <1>7, <1>8, <1>9

\* The second half of a cancel: the first has reached the attempt's job.
LEMMA CancelAttemptAgrees ==
  ASSUME ChatInv, CancelAttempt
  PROVE  ThreadsAgree'
<1> USE DEF ChatInv, ThreadsAgree
<1> DEFINE a == rpc.attempt
<1>1. /\ a \in Attempts /\ rpc.at = "cancelling" /\ rpc'.at = "idle" /\ UNCHANGED <<job, worker, run>>
      /\ \A b \in Attempts : b # a => attempt'[b] = attempt[b]
      /\ IF attempt[a].state = "pending" THEN attempt'[a].state = "cancelled" /\ attempt'[a].cancel = attempt[a].cancel
         ELSE attempt'[a].state = attempt[a].state
  BY RowsTyped DEF CancelAttempt, RequestCancel, SetState, AttemptRows, RequestFits, Idle, jobVars, storeVars, Active
<1> HIDE DEF a
<1>2. \A j \in Jobs : job[j].subject = a /\ job[j].state \in Ongoing => job[j].cancel
  BY <1>1 DEF CancelsReachJobs, a
<1>3. RunFits' /\ RequestFits' /\ JobsHaveAttempts'
  BY <1>1, InChat DEF RunFits, RequestFits, JobsHaveAttempts, Mine, Chatting
<1>4. CancelsReachJobs'
  BY <1>1, <1>2 DEF CancelsReachJobs, JobsHaveAttempts, Ongoing
<1>5. CancelsReachAttempts'
  BY <1>1 DEF CancelsReachAttempts, JobsHaveAttempts, Ongoing, Terminal, a
<1>6. AnswerInHand'
  <2>1. worker.outcome # "none" => Mine \in Attempts
    BY HandIsOngoing DEF JobsHaveAttempts, Mine, Holding, Ongoing
  <2> QED BY <1>1, <2>1 DEF AnswerInHand, JobsHaveAttempts, Ongoing, Mine
<1>7. OneJobPerAttempt' /\ RunningIsWorkedOn' /\ RetiredIsIdle'
  BY <1>1 DEF OneJobPerAttempt, RunningIsWorkedOn, RetiredIsIdle, Mine
<1>8. OutcomesAgree'
  BY <1>1 DEF OutcomesAgree, JobsHaveAttempts
<1> QED BY <1>3, <1>4, <1>5, <1>6, <1>7, <1>8

\* chat_status retires only what no job works on.
LEMMA ReconcileAgrees ==
  ASSUME ChatInv, Reconcile
  PROVE  ThreadsAgree'
<1> USE DEF ChatInv, ThreadsAgree
<1> DEFINE a == rpc.attempt
<1>1. /\ a \in Attempts /\ rpc.at = "checking" /\ rpc'.at = "idle" /\ UNCHANGED <<job, worker, run>>
      /\ \A b \in Attempts : b # a => attempt'[b] = attempt[b]
      /\ \/ attempt'[a] = attempt[a]
         \/ /\ attempt[a].state \in Active
            /\ attempt'[a].state = "interrupted" /\ attempt'[a].cancel = attempt[a].cancel
            /\ \A j \in Jobs : job[j].subject = a => job[j].state \notin Ongoing
  BY RowsTyped DEF Reconcile, FinishIfActive, Finish, HasOngoingJob, SetState, AttemptRows, RequestFits, Idle,
                   jobVars, storeVars
<1> HIDE DEF a
<1>2. RunFits' /\ RequestFits' /\ JobsHaveAttempts'
  BY <1>1, InChat DEF RunFits, RequestFits, JobsHaveAttempts, Mine, Chatting, Active
<1>3. CancelsReachJobs' /\ CancelsReachAttempts'
  BY <1>1 DEF CancelsReachJobs, CancelsReachAttempts, JobsHaveAttempts, Ongoing, Terminal
<1>4. AnswerInHand'
  <2>1. worker.outcome # "none" => Mine \in Attempts
    BY HandIsOngoing DEF JobsHaveAttempts, Mine, Holding, Ongoing
  <2> QED BY <1>1, <2>1 DEF AnswerInHand, JobsHaveAttempts, Ongoing, Mine, Active
<1>5. OneJobPerAttempt' /\ RunningIsWorkedOn'
  BY <1>1 DEF OneJobPerAttempt, RunningIsWorkedOn, Mine
<1>6. RetiredIsIdle'
  BY <1>1, InChat DEF RetiredIsIdle, Mine
<1>7. OutcomesAgree'
  BY <1>1 DEF OutcomesAgree, JobsHaveAttempts, Active
<1> QED BY <1>2, <1>3, <1>4, <1>5, <1>6, <1>7

\* A deleted conversation's attempts are in none of the states the threads differ over.
LEMMA DeletionAgrees ==
  ASSUME ChatInv, NEW s \in Sessions, DeleteConversation(s)
  PROVE  ThreadsAgree'
<1> USE DEF ChatInv, ThreadsAgree
<1>1. /\ rpc.at = "idle" /\ UNCHANGED <<job, worker, run, rpc>>
      /\ \A b \in Attempts : attempt'[b] = attempt[b] \/ (attempt'[b].state = "deleted" /\ ~attempt'[b].cancel)
  BY DEF DeleteConversation, DeleteSession, NoAttempt, Idle, jobVars
<1>2. RunFits' /\ RequestFits' /\ JobsHaveAttempts'
  BY <1>1, InChat DEF RunFits, RequestFits, JobsHaveAttempts, Mine, Chatting
<1>3. CancelsReachJobs' /\ CancelsReachAttempts'
  BY <1>1 DEF CancelsReachJobs, CancelsReachAttempts, JobsHaveAttempts, Ongoing, Terminal
<1>4. AnswerInHand'
  <2>1. worker.outcome # "none" => Mine \in Attempts
    BY HandIsOngoing DEF JobsHaveAttempts, Mine, Holding, Ongoing
  <2> QED BY <1>1, <2>1 DEF AnswerInHand, JobsHaveAttempts, Ongoing, Mine
<1>5. OneJobPerAttempt' /\ RunningIsWorkedOn' /\ RetiredIsIdle'
  BY <1>1 DEF OneJobPerAttempt, RunningIsWorkedOn, RetiredIsIdle, Mine
<1>6. OutcomesAgree'
  BY <1>1 DEF OutcomesAgree, JobsHaveAttempts
<1> QED BY <1>2, <1>3, <1>4, <1>5, <1>6

LEMMA ReadAgrees ==
  ASSUME ChatInv, NEW t \in Turns, ReadTurn(t)
  PROVE  ThreadsAgree'
<1> USE DEF ChatInv, ThreadsAgree
<1>1. /\ rpc.at = "idle" /\ rpc'.at = "checking" /\ rpc'.attempt = turn[t].current
      /\ UNCHANGED <<job, worker, run, attempt>>
  BY DEF ReadTurn, Idle, RpcAt, jobVars, storeVars
<1>2. turn[t].current \in Attempts
  BY DEF ReadTurn, Numbered, NumberedFor, AttemptsOf
<1> QED BY <1>1, <1>2 DEF RunFits, RequestFits, JobsHaveAttempts, CancelsReachJobs, CancelsReachAttempts,
          AnswerInHand, OneJobPerAttempt, RunningIsWorkedOn, RetiredIsIdle, OutcomesAgree, Mine

\* A new job is queued for the accepted attempt, noticed by the worker or not.
LEMMA QueueingAgrees ==
  ASSUME ChatInv, NEW j \in Jobs,
         rpc.at = "accepted", rpc' = Idle, UNCHANGED run,
         job[j].state = "absent",
         \A i \in Jobs : job'[i] = IF i = j THEN [state |-> "queued", kind |-> "chat", subject |-> rpc.attempt, cancel |-> FALSE]
                                   ELSE job[i],
         worker'.job = worker.job, worker'.outcome = worker.outcome,
         worker'.at = worker.at \/ worker.at \in {"none", "waiting"},
         \/ UNCHANGED attempt
         \/ /\ \A b \in Attempts : b # rpc.attempt => attempt'[b] = attempt[b]
            /\ attempt'[rpc.attempt].state = "failed" /\ ~attempt'[rpc.attempt].cancel
  PROVE  ThreadsAgree'
<1> USE DEF ChatInv, ThreadsAgree
<1> DEFINE a == rpc.attempt
<1>1. /\ a \in Attempts /\ \A i \in Jobs : job[i].subject # a
      /\ attempt[a].state = "pending" /\ ~attempt[a].cancel
      /\ rpc'.at = "idle"
  BY DEF RequestFits, Idle
<1>2. /\ job'[j].state = "queued" /\ job'[j].subject = a /\ ~job'[j].cancel
      /\ \A i \in Jobs : i # j => job'[i] = job[i]
      /\ \A b \in Attempts : b # a => attempt'[b] = attempt[b]
      /\ attempt'[a].state \in {"pending", "failed"} /\ ~attempt'[a].cancel
  BY <1>1
<1> HIDE DEF a
<1>3. worker.job # j
  BY HandIsOngoing, RowsTyped DEF Ongoing
<1>4. worker.at \in Holding => worker.job \in Jobs /\ job'[worker.job] = job[worker.job] /\ worker'.at = worker.at
                                /\ Mine \in Attempts /\ attempt'[Mine] = attempt[Mine]
  BY <1>1, <1>2, <1>3, HandIsOngoing DEF Mine, JobsHaveAttempts, Ongoing, Holding
<1>5. run.at # "out" => worker.at \in Holding
  BY InChat DEF Holding
<1>6. RunFits' /\ RequestFits'
  BY <1>1, <1>4, <1>5 DEF RunFits, RequestFits, Mine, Chatting, Holding
<1>7. JobsHaveAttempts'
  BY <1>1, <1>2 DEF JobsHaveAttempts
<1>8. CancelsReachJobs' /\ CancelsReachAttempts'
  BY <1>1, <1>2, <1>4, <1>5 DEF CancelsReachJobs, CancelsReachAttempts, JobsHaveAttempts, Ongoing, Terminal
<1>9. AnswerInHand'
  <2>1. worker.outcome # "none" => worker.at \in Holding
    BY HandIsOngoing DEF Holding
  <2> QED BY <1>1, <1>2, <1>4, <2>1 DEF AnswerInHand, JobsHaveAttempts, Ongoing, Mine
<1>10. OneJobPerAttempt' /\ RetiredIsIdle'
  BY <1>1, <1>2, <1>4, <1>5 DEF OneJobPerAttempt, RetiredIsIdle, Mine
<1>11. RunningIsWorkedOn'
  BY <1>1, <1>2, <1>4, <1>5 DEF RunningIsWorkedOn, Mine, Holding
<1>12. OutcomesAgree'
  BY <1>1, <1>2 DEF OutcomesAgree, JobsHaveAttempts
<1> QED BY <1>6, <1>7, <1>8, <1>9, <1>10, <1>11, <1>12

LEMMA EnqueueAgrees ==
  ASSUME ChatInv, NEW j \in Jobs, Enqueue(j) \/ EnqueueFails(j)
  PROVE  ThreadsAgree'
<1>1. rpc.at = "accepted" /\ rpc' = Idle /\ UNCHANGED run /\ rpc.attempt \in Attempts
      /\ attempt[rpc.attempt].state = "pending" /\ ~attempt[rpc.attempt].cancel
  BY DEF Enqueue, EnqueueFails, ChatInv, ThreadsAgree, RequestFits
<1>2. CASE Enqueue(j)
  <2>1. \A i \in Jobs : (\E n \in DOMAIN <<j>> : <<j>>[n] = i) <=> i = j
    BY DEF ChatInv
  <2>2. job[j].state = "absent"
    BY <1>2 DEF Enqueue, SubmitOne, Register
  <2>3. \A i \in Jobs : job'[i] = IF i = j THEN [state |-> "queued", kind |-> "chat", subject |-> rpc.attempt, cancel |-> FALSE]
                                  ELSE job[i]
    BY <1>2, <2>1 DEF Enqueue, SubmitOne, Register
  <2>4. worker'.job = worker.job /\ worker'.outcome = worker.outcome
        /\ (worker'.at = worker.at \/ worker.at \in {"none", "waiting"})
    BY <1>2, RowsTyped DEF Enqueue, SubmitOne, Register, StartOrWake
  <2>5. UNCHANGED attempt
    BY <1>2 DEF Enqueue, storeVars
  <2> QED BY <1>1, <2>2, <2>3, <2>4, <2>5, QueueingAgrees
<1>3. CASE EnqueueFails(j)
  <2>1. job[j].state = "absent" /\ UNCHANGED worker
    BY <1>3 DEF EnqueueFails, Unstarted
  <2>2. \A i \in Jobs : job'[i] = IF i = j THEN [state |-> "queued", kind |-> "chat", subject |-> rpc.attempt, cancel |-> FALSE]
                                  ELSE job[i]
    BY <1>3, RowsTyped DEF EnqueueFails, Unstarted
  <2>3. attempt' = [attempt EXCEPT ![rpc.attempt].state = "failed"]
    BY <1>1, <1>3 DEF EnqueueFails, FinishIfActive, Finish, SetState, Active
  <2>4. /\ \A b \in Attempts : b # rpc.attempt => attempt'[b] = attempt[b]
        /\ attempt'[rpc.attempt].state = "failed" /\ ~attempt'[rpc.attempt].cancel
    BY <1>1, <2>3, RowsTyped DEF AttemptRows
  <2> QED BY <1>1, <2>1, <2>2, <2>4, QueueingAgrees
<1> QED BY <1>2, <1>3

\* A cancel of one job, before its attempt hears of it, or of all of them when the backend closes.
LEMMA JobCancelAgrees ==
  ASSUME ChatInv, NEW J \in SUBSET Jobs, \A j \in J : job[j].state \in Ongoing,
         \A j \in Jobs : /\ job'[j].subject = job[j].subject
                         /\ IF j \in J THEN job'[j].state = "cancel_requested" /\ job'[j].cancel
                            ELSE job'[j] = job[j],
         worker'.job = worker.job, worker'.outcome = worker.outcome,
         worker'.at = worker.at \/ worker.at = "waiting",
         rpc.at = "idle", UNCHANGED <<attempt, run>>,
         \/ rpc'.at = "closed"
         \/ /\ rpc'.at = "cancelling" /\ rpc'.attempt \in Attempts
            /\ \A j \in Jobs : job[j].subject = rpc'.attempt /\ job[j].state \in Ongoing => j \in J
            /\ \A j \in J : job[j].subject = rpc'.attempt
  PROVE  ThreadsAgree'
<1> USE DEF ChatInv, ThreadsAgree
<1>1. worker.at \in Holding => worker.job \in Jobs /\ worker'.at = worker.at
                                /\ Mine \in Attempts /\ Mine' = Mine
  BY HandIsOngoing DEF Mine, JobsHaveAttempts, Ongoing, Holding
<1>2. run.at # "out" => worker.at \in Holding
  BY InChat DEF Holding
<1>3. \A j \in Jobs : job'[j].state \in Ongoing <=> job[j].state \in Ongoing
  BY DEF Ongoing
<1>4. RunFits' /\ RequestFits'
  BY <1>1, <1>2 DEF RunFits, RequestFits, Chatting, Holding
<1>5. JobsHaveAttempts'
  BY DEF JobsHaveAttempts, Ongoing
<1>6. CancelsReachJobs'
  BY <1>1, <1>2, <1>3 DEF CancelsReachJobs
<1>7. CancelsReachAttempts'
  BY DEF CancelsReachAttempts, Ongoing, Terminal
<1>8. AnswerInHand'
  <2>1. worker.outcome # "none" => worker.at \in Holding
    BY HandIsOngoing DEF Holding
  <2> QED BY <1>1, <1>3, <2>1 DEF AnswerInHand
<1>9. OneJobPerAttempt' /\ RetiredIsIdle'
  BY <1>1, <1>2 DEF OneJobPerAttempt, RetiredIsIdle
<1>10. RunningIsWorkedOn'
  BY <1>1, <1>2 DEF RunningIsWorkedOn, Holding
<1>11. OutcomesAgree'
  BY DEF OutcomesAgree
<1> QED BY <1>4, <1>5, <1>6, <1>7, <1>8, <1>9, <1>10, <1>11

LEMMA CancelJobAgrees ==
  ASSUME ChatInv, NEW c \in Jobs, CancelJob(c)
  PROVE  ThreadsAgree'
<1>1. /\ rpc.at = "idle" /\ rpc'.at = "cancelling" /\ rpc'.attempt = job[c].subject /\ UNCHANGED <<attempt, run>>
      /\ job[c].subject \in Attempts /\ job[c].state \notin {"absent", "pruned"}
  BY RowsTyped DEF CancelJob, Idle, RpcAt, storeVars, ChatInv, ThreadsAgree, JobsHaveAttempts
<1>2. \A j \in Jobs : job[j].subject = job[c].subject => j = c
  BY <1>1, RowsTyped DEF ChatInv, ThreadsAgree, OneJobPerAttempt
<1>3. CASE job[c].state \in Terminal
  <2>1. UNCHANGED <<job, worker>>
    BY <1>3 DEF CancelJob, jobVars
  <2>2. \A j \in Jobs : job[j].subject = rpc'.attempt => job[j].state \notin Ongoing
    BY <1>1, <1>2, <1>3 DEF Terminal, Ongoing
  <2>3. {} \in SUBSET Jobs /\ \A j \in {} : job[j].state \in Ongoing
    OBVIOUS
  <2>4. \A j \in Jobs : /\ job'[j].subject = job[j].subject
                        /\ IF j \in {} THEN job'[j].state = "cancel_requested" /\ job'[j].cancel ELSE job'[j] = job[j]
    BY <2>1
  <2>5. /\ \A j \in Jobs : job[j].subject = rpc'.attempt /\ job[j].state \in Ongoing => j \in {}
        /\ \A j \in {} : job[j].subject = rpc'.attempt
    BY <2>2
  <2> QED BY <1>1, <2>1, <2>3, <2>4, <2>5, JobCancelAgrees
<1>4. CASE job[c].state \notin Terminal
  <2>1. Cancel(c)
    BY <1>4 DEF CancelJob
  <2>2. /\ job[c].state \in Ongoing /\ UNCHANGED worker
        /\ \A j \in Jobs : /\ job'[j].subject = job[j].subject
                           /\ IF j \in {c} THEN job'[j].state = "cancel_requested" /\ job'[j].cancel
                              ELSE job'[j] = job[j]
    BY <2>1, RowsTyped DEF Cancel, JobRows
  <2>3. {c} \in SUBSET Jobs /\ \A j \in {c} : job[j].state \in Ongoing
    BY <2>2
  <2>4. /\ \A j \in Jobs : job[j].subject = rpc'.attempt /\ job[j].state \in Ongoing => j \in {c}
        /\ \A j \in {c} : job[j].subject = rpc'.attempt
    BY <1>1, <1>2
  <2> QED BY <1>1, <2>2, <2>3, <2>4, JobCancelAgrees
<1> QED BY <1>3, <1>4

LEMMA CloseAgrees ==
  ASSUME ChatInv, Close
  PROVE  ThreadsAgree'
<1> DEFINE J == {j \in Jobs : job[j].state \in Ongoing}
<1>1. /\ rpc.at = "idle" /\ rpc'.at = "closed" /\ UNCHANGED <<attempt, run>>
      /\ worker'.job = worker.job /\ worker'.outcome = worker.outcome
      /\ worker'.at = worker.at \/ worker.at = "waiting"
  BY RowsTyped DEF Close, Shutdown, Idle, RpcAt, storeVars
<1>2. \A j \in Jobs : job'[j] = IF j \in J THEN [job[j] EXCEPT !.cancel = TRUE, !.state = "cancel_requested"] ELSE job[j]
  BY DEF Close, Shutdown, CancelAll
<1>3. \A j \in Jobs : /\ job'[j].subject = job[j].subject
                      /\ IF j \in J THEN job'[j].state = "cancel_requested" /\ job'[j].cancel
                         ELSE job'[j] = job[j]
  <2>1. \A r \in JobRows : LET c == [r EXCEPT !.cancel = TRUE, !.state = "cancel_requested"]
                           IN c.subject = r.subject /\ c.state = "cancel_requested" /\ c.cancel
    BY DEF JobRows
  <2>2. \A j \in Jobs : job[j] \in JobRows
    BY RowsTyped
  <2> HIDE DEF J
  <2> QED BY <1>2, <2>1, <2>2
<1>4. J \in SUBSET Jobs /\ \A j \in J : job[j].state \in Ongoing
  OBVIOUS
<1> HIDE DEF J
<1> QED BY <1>1, <1>3, <1>4, JobCancelAgrees

\* The worker's steps outside _run_chat.
LEMMA DispatchAgrees ==
  ASSUME ChatInv, JobInv', Dispatch
  PROVE  ThreadsAgree'
<1> USE DEF ChatInv, ThreadsAgree
<1>0. /\ UNCHANGED <<attempt, rpc, run>>
      /\ worker.at \notin {"executing", "working"} /\ run.at = "out"
      /\ \A b \in Attempts : attempt[b].state # "running"
  <2>1. worker.at \notin {"executing", "working"} /\ UNCHANGED <<attempt, rpc, run>>
    BY DEF Dispatch, Wait, Exit, Take, LookForCancel, Preflight, BuildExecutor, Finalize, storeVars
  <2> QED BY <2>1 DEF RunFits, RunningIsWorkedOn, Chatting
<1>1. CASE Wait \/ Exit \/ Take
  <2>1. UNCHANGED job /\ worker'.outcome = "none" /\ worker.job = NoJob /\ worker.outcome = "none"
    BY <1>1, HandIsOngoing DEF Wait, Exit, Take, WorkerAt, Holding
  <2> QED BY <1>0, <2>1, RowsTyped DEF RunFits, RequestFits, JobsHaveAttempts, CancelsReachJobs, CancelsReachAttempts,
          AnswerInHand, OneJobPerAttempt, RunningIsWorkedOn, RetiredIsIdle, OutcomesAgree, Mine
<1>2. CASE LookForCancel \/ Preflight \/ BuildExecutor
  <2> DEFINE w == worker.job
  <2>1. /\ w \in Jobs /\ job[w].state \in Ongoing /\ worker.outcome = "none"
        /\ worker'.job = w /\ worker'.outcome \in {"none", "cancelled", "failed"}
        /\ \A j \in Jobs : /\ job'[j].subject = job[j].subject /\ job'[j].cancel = job[j].cancel
                           /\ j # w => job'[j].state = job[j].state
        /\ job'[w].state \in Ongoing
    <3>1. /\ w \in Jobs /\ job[w].state \in Ongoing /\ worker.outcome = "none"
      BY <1>2, HandIsOngoing DEF LookForCancel, Preflight, BuildExecutor, Holding
    <3>2. worker'.job = w /\ worker'.outcome \in {"none", "cancelled", "failed"}
      BY <1>2 DEF LookForCancel, Preflight, BuildExecutor, WorkerAt
    <3>3. UNCHANGED job \/ job' = [job EXCEPT ![w].state = "preflighting"]
      BY <1>2 DEF LookForCancel, Preflight, BuildExecutor
    <3> QED BY <3>1, <3>2, <3>3, RowsTyped DEF JobRows, Ongoing
  <2> HIDE DEF w
  <2>2. job[w].subject \in Attempts /\ attempt[job[w].subject].state # "completed"
    BY <1>0, <2>1 DEF JobsHaveAttempts, AnswerInHand, Ongoing, w
  <2>3. RunFits' /\ RequestFits' /\ JobsHaveAttempts'
    BY <1>0, <2>1 DEF RunFits, RequestFits, JobsHaveAttempts, Ongoing
  <2>4. CancelsReachJobs' /\ CancelsReachAttempts'
    BY <1>0, <2>1 DEF CancelsReachJobs, CancelsReachAttempts, Ongoing, Terminal
  <2>5. AnswerInHand'
    BY <1>0, <2>1, <2>2 DEF AnswerInHand, Mine, Ongoing
  <2>6. OneJobPerAttempt' /\ RunningIsWorkedOn' /\ RetiredIsIdle' /\ OutcomesAgree'
    BY <1>0, <2>1 DEF OneJobPerAttempt, RunningIsWorkedOn, RetiredIsIdle, OutcomesAgree, Ongoing
  <2> QED BY <2>3, <2>4, <2>5, <2>6
<1>3. CASE Finalize
  <2> DEFINE w == worker.job
  <2>1. PICK gone : /\ w \notin gone
                    /\ \A j \in Jobs : job'[j] = IF j \in gone THEN NoRecord("pruned") ELSE [job EXCEPT ![w].state = worker.outcome][j]
                    /\ \A j \in gone : j \in Jobs /\ job[j].state \in Terminal
    BY <1>3, FinalizePreserves DEF Finalize
  <2>2. /\ w \in Jobs /\ worker.outcome \in Terminal /\ worker.outcome \in LegalFrom(job[w].state)
        /\ worker'.at = "awake" /\ worker'.job = NoJob /\ worker'.outcome = "none"
    BY <1>3, FinalizePreserves DEF Finalize, WorkerAt
  <2>3. \A j \in Jobs : \/ job'[j].state = "pruned" /\ job'[j].subject = NoSubject /\ ~job'[j].cancel
                        \/ j # w /\ job'[j] = job[j]
                        \/ /\ j = w /\ job'[j].state = worker.outcome
                           /\ job'[j].subject = job[j].subject /\ job'[j].cancel = job[j].cancel
    BY <2>1, <2>2, RowsTyped DEF NoRecord, JobRows
  <2>4. /\ job[w].state \in Ongoing /\ job[w].subject \in Attempts /\ attempt[job[w].subject].state # "absent"
        /\ worker.outcome = "cancelled" => job[w].cancel
    <3>1. job[w].state \in Ongoing
      BY <1>3, HandIsOngoing DEF Finalize, Holding
    <3>2. worker.outcome = "cancelled" => job[w].state = "cancel_requested"
      BY <2>2, <3>1 DEF LegalFrom, Ongoing
    <3> QED BY <2>2, <3>1, <3>2 DEF JobsHaveAttempts, JobInv, CancelShown, Ongoing
  <2>5. /\ worker.outcome = "completed" => attempt[job[w].subject].state \in {"completed", "deleted"}
        /\ worker.outcome \in {"cancelled", "failed"} => attempt[job[w].subject].state \notin {"completed", "running"}
    BY <1>0, <2>4 DEF AnswerInHand, Mine
  <2> HIDE DEF w
  <2>6. RunFits' /\ RequestFits'
    BY <1>0, <2>3, RowsTyped DEF RunFits, RequestFits
  <2>7. JobsHaveAttempts'
    BY <1>0, <2>2, <2>3, <2>4 DEF JobsHaveAttempts, Terminal
  <2>8. CancelsReachJobs'
    BY <1>0, <2>2, <2>3 DEF CancelsReachJobs, Ongoing, Terminal
  <2>9. CancelsReachAttempts'
    BY <1>0, <2>2, <2>3, <2>4 DEF CancelsReachAttempts, Ongoing, Terminal
  <2>10. AnswerInHand'
    BY <1>0, <2>2, <2>3 DEF AnswerInHand, Ongoing, Terminal, w
  <2>11. OneJobPerAttempt'
    BY <2>3, RowsTyped DEF OneJobPerAttempt
  <2>12. RunningIsWorkedOn' /\ RetiredIsIdle'
    BY <1>0 DEF RunningIsWorkedOn, RetiredIsIdle
  <2>13. OutcomesAgree'
    BY <1>0, <2>2, <2>3, <2>5 DEF OutcomesAgree, Terminal
  <2> QED BY <2>6, <2>7, <2>8, <2>9, <2>10, <2>11, <2>12, <2>13
<1> QED BY <1>1, <1>2, <1>3 DEF Dispatch

----------------------------------------------------------------------------
(* The two threads' agreement, as the attempt is worked on. *)

\* The attempt _run_chat executes is no other job's.
LEMMA WithinChat ==
  ASSUME ChatInv, run.at # "out" \/ worker.at \in {"executing", "working"}
  PROVE  \A j \in Jobs : job[j].subject = Mine => j = worker.job
  BY InChat, RowsTyped DEF ChatInv, ThreadsAgree, OneJobPerAttempt, Mine

\* _run_chat ends with an outcome that is true of its attempt, which it leaves settled.
LEMMA LeaveAgrees ==
  ASSUME ChatInv, NEW outcome \in Terminal, Leave(outcome),
         run.at # "out" \/ worker.at \in {"executing", "working"},
         \A b \in Attempts : b # Mine => attempt'[b] = attempt[b],
         attempt'[Mine].state # "running", attempt'[Mine].state # "absent",
         attempt'[Mine].cancel = attempt[Mine].cancel,
         attempt'[Mine].state = "pending" => attempt[Mine].state = "pending",
         attempt'[Mine].state = "cancelled" => attempt[Mine].state = "cancelled" \/ job[worker.job].cancel,
         outcome = "completed" => attempt'[Mine].state \in {"completed", "deleted"},
         outcome # "completed" => attempt'[Mine].state # "completed"
  PROVE  ThreadsAgree'
<1> USE DEF ChatInv, ThreadsAgree
<1> DEFINE w == worker.job
           m == Mine
<1>1. /\ w \in Jobs /\ job[w].state \in Ongoing /\ m \in Attempts /\ m = job[w].subject
      /\ \A j \in Jobs : job[j].subject = m => j = w
  BY InChat, WithinChat DEF Mine
<1>2. /\ worker'.at = "finalizing" /\ worker'.job = w /\ worker'.outcome = outcome
      /\ run'.at = "out" /\ UNCHANGED <<job, rpc>>
  BY DEF Leave, WorkerAt, NotRunning
<1>3. \A b \in Attempts : attempt'[b].state # "running"
  BY <1>1 DEF RunningIsWorkedOn
<1>4. Mine' = m
  BY <1>2 DEF Mine
<1>5. /\ \A b \in Attempts : b # m => attempt'[b] = attempt[b]
      /\ attempt'[m].state # "absent" /\ attempt'[m].cancel = attempt[m].cancel
      /\ attempt'[m].state = "pending" => attempt[m].state = "pending"
      /\ attempt'[m].state = "cancelled" => attempt[m].state = "cancelled" \/ job[w].cancel
      /\ outcome = "completed" => attempt'[m].state \in {"completed", "deleted"}
      /\ outcome # "completed" => attempt'[m].state # "completed"
  OBVIOUS
<1> HIDE DEF w, m
<1>6. RunFits' /\ RequestFits' /\ JobsHaveAttempts'
  BY <1>1, <1>2, <1>5 DEF RunFits, RequestFits, JobsHaveAttempts
<1>7. CancelsReachJobs'
  BY <1>1, <1>2, <1>5 DEF CancelsReachJobs, JobsHaveAttempts, Ongoing
<1>8. CancelsReachAttempts'
  BY <1>1, <1>2, <1>5 DEF CancelsReachAttempts, JobsHaveAttempts, Ongoing, Terminal
<1>9. AnswerInHand'
  BY <1>1, <1>2, <1>4, <1>5 DEF AnswerInHand, JobsHaveAttempts, Ongoing, Terminal, w
<1>10. OneJobPerAttempt' /\ RunningIsWorkedOn' /\ RetiredIsIdle'
  BY <1>2, <1>3 DEF OneJobPerAttempt, RunningIsWorkedOn, RetiredIsIdle
<1>11. OutcomesAgree'
  BY <1>1, <1>2, <1>3, <1>5 DEF OutcomesAgree, JobsHaveAttempts, Ongoing
<1> QED BY <1>6, <1>7, <1>8, <1>9, <1>10, <1>11

\* A stage of _run_chat: the worker keeps its job, and only the attempt's state may change.
LEMMA StageAgrees ==
  ASSUME ChatInv, run.at # "out" \/ worker.at \in {"executing", "working"},
         RunFits',
         worker'.at \in {"executing", "working"}, worker'.job = worker.job, worker'.outcome = "none",
         \A j \in Jobs : /\ job'[j].subject = job[j].subject /\ job'[j].cancel = job[j].cancel
                         /\ j # worker.job => job'[j].state = job[j].state,
         job'[worker.job].state \in Ongoing, UNCHANGED rpc,
         run'.at = "raised" /\ run'.cause = "cancelled" => job[worker.job].cancel,
         \A b \in Attempts : b # Mine => attempt'[b] = attempt[b],
         attempt'[Mine].cancel = attempt[Mine].cancel,
         attempt'[Mine].state \in {attempt[Mine].state, "running", "completed"},
         attempt'[Mine].state = "running" => run'.at \in {"started", "answering", "committing", "raised"},
         attempt'[Mine].state = "completed" => run'.at \in {"answered", "raised"},
         attempt'[Mine].state = "interrupted" => run'.at \notin {"started", "answering", "committing"}
  PROVE  ThreadsAgree'
<1> USE DEF ChatInv, ThreadsAgree
<1> DEFINE w == worker.job
           m == Mine
<1>1. /\ w \in Jobs /\ job[w].state \in Ongoing /\ m \in Attempts /\ m = job[w].subject /\ attempt[m].state # "absent"
      /\ \A j \in Jobs : job[j].subject = m => j = w
  BY InChat, WithinChat DEF Mine
<1>2. Mine' = m
  BY <1>1 DEF Mine
<1>3. /\ worker'.at \in {"executing", "working"} /\ worker'.job = w /\ worker'.outcome = "none"
      /\ \A j \in Jobs : /\ job'[j].subject = job[j].subject /\ job'[j].cancel = job[j].cancel
                         /\ j # w => job'[j].state = job[j].state
      /\ job'[w].state \in Ongoing
      /\ run'.at = "raised" /\ run'.cause = "cancelled" => job[w].cancel
  OBVIOUS
<1>4. /\ \A b \in Attempts : b # m => attempt'[b] = attempt[b]
      /\ attempt'[m].cancel = attempt[m].cancel
      /\ attempt'[m].state \in {attempt[m].state, "running", "completed"}
      /\ attempt'[m].state = "running" => run'.at \in {"started", "answering", "committing", "raised"}
      /\ attempt'[m].state = "completed" => run'.at \in {"answered", "raised"}
      /\ attempt'[m].state = "interrupted" => run'.at \notin {"started", "answering", "committing"}
  OBVIOUS
<1> HIDE DEF w, m
<1>5. \A b \in Attempts : attempt[b].state = "running" => b = m
  BY DEF RunningIsWorkedOn, m
<1>6. RequestFits' /\ JobsHaveAttempts'
  BY <1>1, <1>3, <1>4 DEF RequestFits, JobsHaveAttempts, Ongoing
<1>7. CancelsReachJobs' /\ CancelsReachAttempts'
  BY <1>1, <1>3, <1>4 DEF CancelsReachJobs, CancelsReachAttempts, JobsHaveAttempts, Ongoing, Terminal
<1>8. AnswerInHand'
  BY <1>1, <1>3, <1>4 DEF AnswerInHand, JobsHaveAttempts, Ongoing, w
<1>9. OneJobPerAttempt'
  BY <1>3 DEF OneJobPerAttempt
<1>10. RunningIsWorkedOn' /\ RetiredIsIdle'
  BY <1>1, <1>2, <1>3, <1>4, <1>5 DEF RunningIsWorkedOn, RetiredIsIdle
<1>11. OutcomesAgree'
  BY <1>1, <1>3, <1>4, <1>5 DEF OutcomesAgree, JobsHaveAttempts, Ongoing
<1> QED BY <1>6, <1>7, <1>8, <1>9, <1>10, <1>11

LEMMA EnterAgrees ==
  ASSUME ChatInv, Enter
  PROVE  ThreadsAgree'
<1>1. /\ worker.at = "executing" /\ run.at = "out" /\ UNCHANGED attempt
      /\ Mine \in Attempts /\ attempt[Mine].state # "absent" /\ worker.job \in Jobs /\ job[worker.job].state \in Ongoing
      /\ worker.outcome = "none"
  BY InChat DEF Enter, NotRunning, storeVars
<1>2. attempt[Mine].state \notin {"running", "completed"}
  BY <1>1 DEF ChatInv, ThreadsAgree, RunningIsWorkedOn, AnswerInHand, Mine
<1>3. CASE Leave("cancelled") /\ job[worker.job].cancel
  BY <1>1, <1>2, <1>3, LeaveAgrees DEF Terminal
<1>4. CASE RunAt("starting") /\ UNCHANGED <<jobVars, rpc>>
  <2>1. run'.at = "starting" /\ UNCHANGED <<job, worker, rpc>>
    BY <1>4 DEF RunAt, jobVars
  <2>2. RunFits'
    BY <1>1, <2>1 DEF RunFits, Chatting
  <2> QED BY <1>1, <1>2, <2>1, <2>2, StageAgrees
<1> QED BY <1>3, <1>4 DEF Enter

LEMMA StartAgrees ==
  ASSUME ChatInv, StartAttempt
  PROVE  ThreadsAgree'
<1>1. /\ Mine \in Attempts /\ worker.job \in Jobs /\ job[worker.job].state \in Ongoing
      /\ worker.at = "executing" /\ worker.outcome = "none"
      /\ run'.at = "started" /\ UNCHANGED <<job, worker, rpc>>
  BY InChat DEF StartAttempt, RunAt, jobVars, ChatInv, ThreadsAgree, RunFits
<1>2. /\ \A b \in Attempts : b # Mine => attempt'[b] = attempt[b]
      /\ attempt'[Mine].state = "running" /\ attempt'[Mine].cancel = attempt[Mine].cancel
  BY <1>1, RowsTyped DEF StartAttempt, Start, SetState, AttemptRows
<1>3. RunFits'
  BY <1>1 DEF RunFits, Chatting
<1>4. run.at = "starting"
  BY DEF StartAttempt
<1> QED BY <1>1, <1>2, <1>3, <1>4, StageAgrees

LEMMA RefusalAgrees ==
  ASSUME ChatInv, StartRefused
  PROVE  ThreadsAgree'
<1>1. /\ run.at = "starting" /\ attempt[Mine].state # "pending" /\ UNCHANGED attempt
      /\ Mine \in Attempts /\ attempt[Mine].state # "absent" /\ worker.job \in Jobs /\ job[worker.job].state \in Ongoing
      /\ worker.outcome = "none"
  BY InChat DEF StartRefused, storeVars
<1>2. attempt[Mine].state \notin {"running", "completed"}
  BY <1>1 DEF ChatInv, ThreadsAgree, RunningIsWorkedOn, AnswerInHand, Mine
<1>3. PICK outcome \in {"cancelled", "failed"} : Leave(outcome)
  BY DEF StartRefused
<1> QED BY <1>1, <1>2, <1>3, LeaveAgrees DEF Terminal

LEMMA AnnouncementAgrees ==
  ASSUME ChatInv, Announce
  PROVE  ThreadsAgree'
<1>1. /\ run.at = "started" /\ run'.at = "answering" /\ UNCHANGED <<attempt, rpc>>
      /\ Mine \in Attempts /\ worker.job \in Jobs /\ job[worker.job].state \in Ongoing
      /\ worker'.at = "working" /\ worker'.job = worker.job /\ worker'.outcome = "none"
  BY InChat DEF Announce, RunAt, OnRunning, WorkerAt, storeVars
<1>2. /\ \A j \in Jobs : /\ job'[j].subject = job[j].subject /\ job'[j].cancel = job[j].cancel
                         /\ j # worker.job => job'[j].state = job[j].state
      /\ job'[worker.job].state \in Ongoing
  <2>1. job' = [job EXCEPT ![worker.job].subject = Mine,
                          ![worker.job].state = IF @ = "cancel_requested" THEN @ ELSE "running"]
    BY DEF Announce, OnRunning
  <2>2. job[worker.job] \in JobRows /\ Mine = job[worker.job].subject
    BY <1>1, RowsTyped DEF Mine
  <2> QED BY <1>1, <2>1, <2>2, RowsTyped DEF JobRows, Ongoing
<1>3. RunFits'
  BY <1>1 DEF RunFits, Chatting
<1>4. attempt[Mine].state \notin {"completed", "interrupted"}
  BY <1>1, InChat DEF ChatInv, ThreadsAgree, AnswerInHand, RetiredIsIdle, Mine
<1> QED BY <1>1, <1>2, <1>3, <1>4, StageAgrees

LEMMA OpeningAgrees ==
  ASSUME ChatInv, OpenCommit
  PROVE  ThreadsAgree'
<1>1. /\ run.at = "answering" /\ run'.at = "committing" /\ attempt[Mine].state = "running"
      /\ UNCHANGED <<job, worker, rpc, attempt>>
      /\ worker.job \in Jobs /\ job[worker.job].state \in Ongoing
      /\ worker.at = "working" /\ worker.outcome = "none"
  BY InChat DEF OpenCommit, MayCommit, RunAt, jobVars, storeVars, ChatInv, ThreadsAgree, RunFits
<1>2. RunFits'
  BY <1>1 DEF RunFits, Chatting
<1> QED BY <1>1, <1>2, StageAgrees

LEMMA CommitAgrees ==
  ASSUME ChatInv, Commit
  PROVE  ThreadsAgree'
<1>1. /\ Mine \in Attempts /\ worker.job \in Jobs /\ job[worker.job].state \in Ongoing
      /\ worker.at = "working" /\ worker.outcome = "none" /\ run.at = "committing"
      /\ run'.at = "answered" /\ UNCHANGED <<job, worker, rpc>>
  BY InChat DEF Commit, RunAt, jobVars, ChatInv, ThreadsAgree, RunFits
<1>2. /\ \A b \in Attempts : b # Mine => attempt'[b] = attempt[b]
      /\ attempt'[Mine].state = "completed" /\ attempt'[Mine].cancel = attempt[Mine].cancel
  BY <1>1, RowsTyped DEF Commit, CommitAnswer, SetState, AttemptRows
<1>3. RunFits'
  BY <1>1, <1>2 DEF RunFits, Chatting, Mine
<1> QED BY <1>1, <1>2, <1>3, StageAgrees

LEMMA RaiseAgrees ==
  ASSUME ChatInv, NEW cause \in Causes, Raise(cause)
  PROVE  ThreadsAgree'
<1>1. /\ Mine \in Attempts /\ worker.job \in Jobs /\ job[worker.job].state \in Ongoing
      /\ worker.at = "working" /\ worker.outcome = "none" /\ run.at \in {"answering", "answered"}
      /\ run'.at = "raised" /\ run'.cause = cause /\ UNCHANGED <<job, worker, rpc, attempt>>
      /\ cause = "cancelled" => job[worker.job].cancel \/ attempt[Mine].cancel
  BY InChat DEF Raise, jobVars, storeVars, ChatInv, ThreadsAgree, RunFits
<1>2. cause = "cancelled" => job[worker.job].cancel
  BY <1>1 DEF ChatInv, ThreadsAgree, CancelsReachJobs, Mine
<1>3. RunFits'
  BY <1>1 DEF RunFits, Chatting
<1> QED BY <1>1, <1>2, <1>3, StageAgrees

\* However chat.send ended, the attempt is settled before the job is.
LEMMA SettlingAgrees ==
  ASSUME ChatInv, SettleAttempt
  PROVE  ThreadsAgree'
<1>1. /\ Mine \in Attempts /\ worker.job \in Jobs /\ job[worker.job].state \in Ongoing
      /\ worker.at = "working" /\ run.at = "raised" /\ run.cause \in Causes
      /\ run.cause = "cancelled" => job[worker.job].cancel
      /\ attempt[Mine].state # "absent"
  BY InChat DEF SettleAttempt, ChatInv, ThreadsAgree, RunFits, CancelsReachJobs
<1>2. CASE attempt[Mine].state = "completed"
  <2>1. Leave("completed") /\ UNCHANGED attempt
    BY <1>2 DEF SettleAttempt, storeVars
  <2> QED BY <1>1, <1>2, <2>1, LeaveAgrees DEF Terminal
<1>3. CASE attempt[Mine].state # "completed"
  <2>1. PICK outcome \in {"cancelled", "failed"} : Leave(outcome)
    BY <1>3 DEF SettleAttempt
  <2>2. CASE attempt[Mine].state \in Active
    <3>1. attempt' = [attempt EXCEPT ![Mine].state = run.cause]
      BY <1>3, <2>2 DEF SettleAttempt, FinishIfActive, Finish, SetState
    <3>2. /\ \A b \in Attempts : b # Mine => attempt'[b] = attempt[b]
          /\ attempt'[Mine].state = run.cause /\ attempt'[Mine].cancel = attempt[Mine].cancel
      BY <1>1, <3>1, RowsTyped DEF AttemptRows
    <3> QED BY <1>1, <2>1, <3>2, LeaveAgrees DEF Terminal, Causes
  <2>3. CASE attempt[Mine].state \notin Active
    <3>1. UNCHANGED attempt
      BY <1>3, <2>3 DEF SettleAttempt, FinishIfActive, storeVars
    <3> QED BY <1>1, <1>3, <2>1, <2>3, <3>1, LeaveAgrees DEF Terminal, Active
  <2> QED BY <2>2, <2>3
<1> QED BY <1>2, <1>3

LEMMA AnswerAgrees ==
  ASSUME ChatInv, Answer
  PROVE  ThreadsAgree'
<1>1. /\ run.at = "answered" /\ Leave("completed") /\ UNCHANGED attempt
      /\ attempt[Mine].state \in {"completed", "deleted"}
  BY DEF Answer, storeVars, ChatInv, ThreadsAgree, RunFits
<1> QED BY <1>1, LeaveAgrees DEF Terminal

----------------------------------------------------------------------------
\* The next process knows no job and retires every attempt it finds unsettled.
LEMMA RestartAgrees ==
  ASSUME ChatInv, Restart
  PROVE  ThreadsAgree'
<1>1. /\ rpc'.at = "idle" /\ run'.at = "out"
      /\ worker'.at = "none" /\ worker'.outcome = "none"
  BY DEF Restart, Forget, WorkerAt, Idle, NotRunning
<1>2. \A j \in Jobs : job'[j].state \in {"absent", "pruned"} /\ job'[j].subject = NoSubject
  <2>1. NoRecord("pruned").state = "pruned" /\ NoRecord("pruned").subject = NoSubject
    BY DEF NoRecord
  <2>2. \A j \in Jobs : job[j].state = "absent" => job[j].subject = NoSubject
    BY DEF ChatInv, ThreadsAgree, JobsHaveAttempts
  <2> QED BY <2>1, <2>2 DEF Restart, Forget
<1>3. \A b \in Attempts : attempt'[b].state # "running"
  <2>1. \A b \in Attempts : attempt'[b] = IF attempt[b].state \in Active
                                 THEN [attempt[b] EXCEPT !.state = "interrupted"] ELSE attempt[b]
    BY DEF Restart, ReconcileInterrupted
  <2>2. \A r \in AttemptRows : [r EXCEPT !.state = "interrupted"].state = "interrupted"
    BY DEF AttemptRows
  <2>3. \A b \in Attempts : attempt[b] \in AttemptRows
    BY RowsTyped
  <2> QED BY <2>1, <2>2, <2>3 DEF Active
<1> QED BY <1>1, <1>2, <1>3 DEF ThreadsAgree, RunFits, RequestFits, JobsHaveAttempts, CancelsReachJobs,
          CancelsReachAttempts, AnswerInHand, OneJobPerAttempt, RunningIsWorkedOn, RetiredIsIdle, OutcomesAgree,
          Ongoing, Terminal

LEMMA ChatBegins == ChatInit => ChatInv
<1> SUFFICES ASSUME ChatInit PROVE ChatInv
  OBVIOUS
<1>1. StoreInv /\ JobInv
  BY StoreBegins, InitEstablishes DEF ChatInit
<1>2. /\ \A a \in Attempts : attempt[a].state = "absent"
      /\ \A t \in Turns : turn[t].row = "absent"
  BY DEF ChatInit, StoreInit, NoAttempt, NoTurn
<1>3. /\ \A j \in Jobs : job[j].state = "absent" /\ job[j].subject = NoSubject
      /\ worker.outcome = "none" /\ rpc.at = "idle" /\ run.at = "out"
  BY DEF ChatInit, JobInit, NoRecord, Idle, NotRunning
<1>4. Numbered
  BY <1>2 DEF Numbered
<1>5. ThreadsAgree
  BY <1>2, <1>3 DEF ThreadsAgree, RunFits, RequestFits, JobsHaveAttempts, CancelsReachJobs,
          CancelsReachAttempts, AnswerInHand, OneJobPerAttempt, RunningIsWorkedOn, RetiredIsIdle, OutcomesAgree,
          Ongoing, Terminal
<1> QED BY <1>1, <1>4, <1>5 DEF ChatInv

LEMMA ChatStep ==
  ASSUME ChatInv, [ChatNext]_chatVars
  PROVE  ChatInv'
<1>1. StoreInv' /\ Numbered'
  BY StoreStepOf, StoreStep, NumberedNext DEF ChatInv
<1>2. JobInv'
  BY QueueStepOf, QueueStep DEF ChatInv
<1>3. ThreadsAgree'
  <2>1. CASE Request
    BY <2>1, AskingAgrees, CancelJobAgrees, ReadAgrees, DeletionAgrees, CloseAgrees DEF Request
  <2>2. CASE HandlerStep
    BY <2>2, EnqueueAgrees, CancelAttemptAgrees, ReconcileAgrees DEF HandlerStep
  <2>3. CASE Dispatch
    BY <1>2, <2>3, DispatchAgrees
  <2>4. CASE RunChat
    BY <2>4, EnterAgrees, StartAgrees, RefusalAgrees, AnnouncementAgrees, OpeningAgrees, CommitAgrees, RaiseAgrees,
       SettlingAgrees, AnswerAgrees DEF RunChat
  <2>5. CASE Restart
    BY <2>5, RestartAgrees
  <2>6. CASE UNCHANGED chatVars
    BY <2>6 DEF chatVars, storeVars, jobVars, ChatInv, ThreadsAgree, RunFits, RequestFits, JobsHaveAttempts, CancelsReachJobs,
            CancelsReachAttempts, AnswerInHand, OneJobPerAttempt, RunningIsWorkedOn, RetiredIsIdle, OutcomesAgree, Mine
  <2> QED BY <2>1, <2>2, <2>3, <2>4, <2>5, <2>6 DEF ChatNext
<1> QED BY <1>1, <1>2, <1>3 DEF ChatInv

----------------------------------------------------------------------------
\* Whatever the two threads and a crash do, store, queue and worker fit together.
THEOREM ChatInvariant == ChatSafetySpec => []ChatInv
  BY ChatBegins, ChatStep, PTL DEF ChatSafetySpec

\* The turn store is used as its own specification says: everything proved of it alone
\* (one answer per question, one attempt at work per conversation) holds here too.
THEOREM ChatUsesTheStore == ChatSafetySpec => StoreSpec
<1>1. ChatInit => StoreInit
  BY DEF ChatInit
<1>2. ChatInv /\ [ChatNext]_chatVars => [StoreNext]_storeVars
  BY StoreStepOf
<1> QED BY <1>1, <1>2, ChatInvariant, PTL DEF ChatSafetySpec, StoreSpec

\* Seen from the queue, _run_chat announces itself before it returns and reports a cancel
\* only when the job was cancelled, as DocumentJobExecutor does.
THEOREM ChatKeepsQueue == ChatSafetySpec => KeepsQueue
<1> DEFINE Step == \/ JobNext \/ Forget
                   \/ \E j \in Jobs : Unstarted(j) \/ \E a \in Attempts : SubmitOne(j, "chat", a)
<1>1. ChatInit => JobInit
  BY DEF ChatInit
<1>2. ChatInv /\ [ChatNext]_chatVars => [Step]_jobVars
  BY QueueStepOf DEF QueueNext
<1> QED BY <1>1, <1>2, ChatInvariant, PTL DEF ChatSafetySpec, KeepsQueue

\* A job's report and the conversation agree on the answer.
THEOREM ReportsAreTrue == ChatSafetySpec => []OutcomesAgree
<1>1. ChatInv => OutcomesAgree
  BY DEF ChatInv, ThreadsAgree
<1> QED BY <1>1, ChatInvariant, PTL

\* One job executes an attempt, and is at it exactly while the conversation says so.
THEOREM OneWorker == ChatSafetySpec => []AttemptsHaveOneWorker
<1>1. ChatInv => AttemptsHaveOneWorker
  BY DEF ChatInv, ThreadsAgree, AttemptsHaveOneWorker
<1> QED BY <1>1, ChatInvariant, PTL

\* A client told "cancelled" can ask again at once.
THEOREM CancelledIsSettled == ChatSafetySpec => []ReportedCancelIsSettled
<1>1. ASSUME ChatInv PROVE ReportedCancelIsSettled
  <2> SUFFICES ASSUME rpc = Idle, NEW j \in Jobs, job[j].state = "cancelled"
               PROVE  attempt[job[j].subject].state \notin Active
    BY DEF ReportedCancelIsSettled
  <2>1. attempt[job[j].subject].state # "running"
    BY <1>1 DEF ChatInv, ThreadsAgree, OutcomesAgree
  <2>2. attempt[job[j].subject].state # "pending"
    BY <1>1 DEF ChatInv, ThreadsAgree, CancelsReachAttempts, Idle, Terminal
  <2> QED BY <2>1, <2>2 DEF Active
<1>2. ChatInv => ReportedCancelIsSettled
  BY <1>1
<1> QED BY <1>2, ChatInvariant, PTL

----------------------------------------------------------------------------
\* An attempt that has been cancelled out of reach of an answer: no job may commit it.
Barred(a) ==
  /\ attempt[a].state \notin {"absent", "completed"}
  /\ \A j \in Jobs : job[j].subject = a => job[j].cancel
  /\ rpc.at = "accepted" => rpc.attempt # a
  /\ run.at = "committing" => Mine # a

\* Requests leave a barred attempt barred: no handler queues it again or takes a cancel back.
LEMMA RequestsKeepBar ==
  ASSUME ChatInv, NEW a \in Attempts, Barred(a), Request
  PROVE  Barred(a)'
<1> USE DEF Barred
<1>0. run.at = "committing" => worker.job \in Jobs /\ worker.at = "working"
  BY InChat DEF ChatInv, ThreadsAgree, RunFits
<1>1. ASSUME NEW t \in Turns, NEW b \in Attempts, NEW k \in Keys,
             RetryChat(t, b, k) \/ \E s \in Sessions : SubmitChat(s, t, b, k)
      PROVE  Barred(a)'
  <2>1. /\ attempt[b].state = "absent" /\ \A c \in Attempts : c # b => attempt'[c] = attempt[c]
        /\ rpc'.attempt = b /\ UNCHANGED <<job, worker, run>>
    BY <1>1, RowsTyped DEF RetryChat, SubmitChat, Retry, Accept, InsertAttempt, RpcAt, jobVars
  <2> QED BY <2>1 DEF Mine
<1>2. ASSUME NEW c \in Jobs, CancelJob(c) PROVE Barred(a)'
  <2>1. UNCHANGED <<attempt, run, worker>> /\ rpc'.at = "cancelling"
    BY <1>2 DEF CancelJob, Cancel, RpcAt, storeVars, jobVars
  <2>2. \A j \in Jobs : job'[j].subject = job[j].subject /\ (job[j].cancel => job'[j].cancel)
    BY <1>2, RowsTyped DEF CancelJob, Cancel, JobRows, jobVars
  <2> QED BY <1>0, <2>1, <2>2 DEF Mine
<1>3. ASSUME NEW t \in Turns, ReadTurn(t) PROVE Barred(a)'
  BY <1>3 DEF ReadTurn, RpcAt, storeVars, jobVars, Mine
<1>4. ASSUME NEW s \in Sessions, DeleteConversation(s) PROVE Barred(a)'
  <2>1. attempt'[a] = attempt[a] \/ attempt'[a].state = "deleted"
    BY <1>4 DEF DeleteConversation, DeleteSession, NoAttempt
  <2>2. UNCHANGED <<job, worker, rpc, run>>
    BY <1>4 DEF DeleteConversation, jobVars
  <2> QED BY <2>1, <2>2 DEF Mine
<1>5. CASE Close
  <2>1. /\ UNCHANGED <<attempt, run>> /\ rpc'.at = "closed" /\ worker'.job = worker.job
    BY <1>5, RowsTyped DEF Close, Shutdown, RpcAt, storeVars
  <2>2. \A j \in Jobs : job'[j] = IF job[j].state \in Ongoing
                                  THEN [job[j] EXCEPT !.cancel = TRUE, !.state = "cancel_requested"] ELSE job[j]
    BY <1>5 DEF Close, Shutdown, CancelAll
  <2>3. \A r \in JobRows : LET c == [r EXCEPT !.cancel = TRUE, !.state = "cancel_requested"]
                           IN c.subject = r.subject /\ c.cancel
    BY DEF JobRows
  <2>4. \A j \in Jobs : job'[j].subject = job[j].subject /\ (job[j].cancel => job'[j].cancel)
    <3> SUFFICES ASSUME NEW j \in Jobs
                 PROVE  job'[j].subject = job[j].subject /\ (job[j].cancel => job'[j].cancel)
      OBVIOUS
    <3>1. job[j] \in JobRows
      BY RowsTyped
    <3>2. CASE job[j].state \in Ongoing
      BY <2>2, <2>3, <3>1, <3>2
    <3>3. CASE job[j].state \notin Ongoing
      BY <2>2, <3>3
    <3> QED BY <3>2, <3>3
  <2> QED BY <1>0, <2>1, <2>4 DEF Mine
<1> QED BY <1>1, <1>2, <1>3, <1>4, <1>5 DEF Request

LEMMA HandlersKeepBar ==
  ASSUME ChatInv, NEW a \in Attempts, Barred(a), HandlerStep
  PROVE  Barred(a)'
<1> USE DEF Barred
<1>1. ASSUME NEW j \in Jobs, Enqueue(j) \/ EnqueueFails(j) PROVE Barred(a)'
  <2>1. rpc.at = "accepted" /\ rpc'.at = "idle" /\ UNCHANGED run /\ job[j].state = "absent"
    BY <1>1 DEF Enqueue, EnqueueFails, SubmitOne, Register, Unstarted, Idle
  <2>2. job'[j].subject = rpc.attempt /\ \A i \in Jobs : i # j => job'[i] = job[i]
    BY <1>1, RowsTyped DEF Enqueue, EnqueueFails, SubmitOne, Register, Unstarted
  <2>3. worker'.job = worker.job
    BY <1>1, RowsTyped DEF Enqueue, EnqueueFails, SubmitOne, Register, StartOrWake, Unstarted
  <2>4. attempt'[a] = attempt[a]
    BY <1>1, <2>1, RowsTyped DEF Enqueue, EnqueueFails, FinishIfActive, Finish, SetState, storeVars
  <2>5. run.at = "committing" => worker.job \in Jobs /\ worker.job # j
    BY <2>1, InChat DEF Ongoing
  <2> QED BY <2>1, <2>2, <2>3, <2>4, <2>5 DEF Mine
<1>2. CASE CancelAttempt \/ Reconcile
  <2>1. UNCHANGED <<job, worker, run>> /\ rpc'.at = "idle" /\ rpc.attempt \in Attempts
    BY <1>2 DEF CancelAttempt, Reconcile, jobVars, Idle, ChatInv, ThreadsAgree, RequestFits
  <2>2. attempt'[a].state \in {attempt[a].state, "cancelled", "interrupted"}
    BY <1>2, <2>1, RowsTyped DEF CancelAttempt, RequestCancel, Reconcile, FinishIfActive, Finish, SetState, AttemptRows, storeVars
  <2> QED BY <2>1, <2>2 DEF Mine
<1> QED BY <1>1, <1>2 DEF HandlerStep

LEMMA WorkerKeepsBar ==
  ASSUME ChatInv, NEW a \in Attempts, Barred(a), Dispatch \/ RunChat \/ Restart
  PROVE  Barred(a)'
<1> USE DEF Barred
<1>1. CASE Dispatch
  <2>1. UNCHANGED <<attempt, rpc, run>> /\ worker.at # "working"
    BY <1>1 DEF Dispatch, Wait, Exit, Take, LookForCancel, Preflight, BuildExecutor, Finalize, storeVars
  <2>2. run.at # "committing"
    BY <2>1 DEF ChatInv, ThreadsAgree, RunFits
  <2>3. \A j \in Jobs : job'[j].subject = a => job[j].subject = a /\ job'[j].cancel = job[j].cancel
    <3>1. CASE Wait \/ Exit \/ Take \/ LookForCancel \/ BuildExecutor
      BY <3>1 DEF Wait, Exit, Take, LookForCancel, BuildExecutor
    <3>2. CASE Preflight
      <4>1. worker.job \in Jobs
        BY <3>2, HandIsOngoing DEF Preflight, ChatInv, Holding
      <4>2. UNCHANGED job \/ job' = [job EXCEPT ![worker.job].state = "preflighting"]
        BY <3>2 DEF Preflight
      <4> QED BY <4>1, <4>2, RowsTyped DEF JobRows
    <3>3. CASE Finalize
      <4> DEFINE gone == Forgotten([job EXCEPT ![worker.job].state = worker.outcome], order)
      <4>1. \A j \in Jobs : job'[j] = IF j \in gone THEN NoRecord("pruned")
                                      ELSE [job EXCEPT ![worker.job].state = worker.outcome][j]
        BY <3>3 DEF Finalize
      <4> HIDE DEF gone
      <4>2. worker.job \in Jobs
        BY <3>3, HandIsOngoing DEF Finalize, ChatInv, Holding
      <4>3. NoRecord("pruned").subject # a
        BY RowsTyped DEF NoRecord
      <4>4. \A j \in Jobs : LET kept == [job EXCEPT ![worker.job].state = worker.outcome][j]
                          IN kept.subject = job[j].subject /\ kept.cancel = job[j].cancel
        BY <4>2, RowsTyped DEF JobRows
      <4> QED BY <4>1, <4>3, <4>4
    <3> QED BY <1>1, <3>1, <3>2, <3>3 DEF Dispatch
  <2> QED BY <2>1, <2>2, <2>3
<1>2. CASE RunChat
  <2>1. Mine \in Attempts /\ worker.job \in Jobs
    BY <1>2, InChat DEF RunChat, Enter, StartAttempt, StartRefused, Announce, OpenCommit, Commit, Raise, SettleAttempt, Answer
  <2>2. \A j \in Jobs : job'[j].subject = job[j].subject /\ job'[j].cancel = job[j].cancel
    <3>1. CASE Announce
      <4>1. job' = [job EXCEPT ![worker.job].subject = Mine,
                              ![worker.job].state = IF @ = "cancel_requested" THEN @ ELSE "running"]
        BY <3>1 DEF Announce, OnRunning
      <4> QED BY <2>1, <4>1, RowsTyped DEF JobRows, Mine
    <3>2. CASE UNCHANGED job
      BY <3>2
    <3> QED BY <1>2, <3>1, <3>2 DEF RunChat, Enter, StartAttempt, StartRefused, OpenCommit, Commit, Raise, SettleAttempt, Answer,
               Leave, jobVars
  <2>3. UNCHANGED rpc
    BY <1>2 DEF RunChat, Enter, StartAttempt, StartRefused, Announce, OpenCommit, Commit, Raise, SettleAttempt, Answer, Leave
  <2>4. attempt'[a].state \notin {"absent", "completed"}
    <3>1. CASE Commit
      BY <2>1, <3>1, RowsTyped DEF Commit, CommitAnswer, SetState
    <3>2. CASE StartAttempt
      BY <2>1, <3>2, RowsTyped DEF StartAttempt, Start, SetState, AttemptRows
    <3>3. CASE SettleAttempt
      <4>1. run.cause \in Causes
        BY <3>3 DEF SettleAttempt, ChatInv, ThreadsAgree, RunFits
      <4> QED BY <2>1, <3>3, <4>1, RowsTyped DEF SettleAttempt, FinishIfActive, Finish, SetState, AttemptRows, Causes, storeVars
    <3>4. CASE UNCHANGED attempt
      BY <3>4
    <3> QED BY <1>2, <3>1, <3>2, <3>3, <3>4 DEF RunChat, Enter, StartRefused, Announce, OpenCommit, Raise, Answer, storeVars
  <2>5. run'.at = "committing" => Mine # a /\ Mine' = Mine
    BY <1>2, <2>1 DEF RunChat, Enter, StartAttempt, StartRefused, Announce, OpenCommit, Commit, Raise, SettleAttempt, Answer,
                      Leave, RunAt, NotRunning, Mine, jobVars
  <2> QED BY <2>2, <2>3, <2>4, <2>5
<1>3. CASE Restart
  <2>1. rpc'.at = "idle" /\ run'.at = "out"
    BY <1>3 DEF Restart, Idle, NotRunning
  <2>2. \A j \in Jobs : job'[j].subject # a
    BY <1>3, RowsTyped DEF Restart, Forget, NoRecord, ChatInv, ThreadsAgree, JobsHaveAttempts
  <2>3. attempt'[a].state \in {attempt[a].state, "interrupted"}
    BY <1>3, RowsTyped DEF Restart, ReconcileInterrupted, AttemptRows
  <2> QED BY <2>1, <2>2, <2>3
<1> QED BY <1>1, <1>2, <1>3

LEMMA BarIsKept ==
  ASSUME ChatInv, NEW a \in Attempts, Barred(a), [ChatNext]_chatVars
  PROVE  Barred(a)'
<1>1. CASE UNCHANGED chatVars
  BY <1>1 DEF chatVars, storeVars, jobVars, Barred, Mine
<1> QED BY <1>1, RequestsKeepBar, HandlersKeepBar, WorkerKeepsBar DEF ChatNext

\* jobs.cancel is final from the moment it sets the event, unless the commit's transaction is open.
THEOREM CancelWins == ChatSafetySpec => CancelIsFinal
<1> SUFFICES ASSUME NEW j \in Jobs, NEW a \in Attempts
             PROVE  ChatSafetySpec =>
                      [](job[j].cancel /\ job[j].subject = a /\ attempt[a].state \in Active /\ WriterFree
                           => [](attempt[a].state # "completed"))
  BY DEF CancelIsFinal
<1>1. ChatInv /\ job[j].cancel /\ job[j].subject = a /\ attempt[a].state \in Active /\ WriterFree => Barred(a)
  BY RowsTyped DEF Barred, WriterFree, Active, ChatInv, ThreadsAgree, OneJobPerAttempt, RequestFits
<1>2. ChatInv /\ Barred(a) /\ [ChatNext]_chatVars => Barred(a)'
  BY BarIsKept
<1>3. Barred(a) => attempt[a].state # "completed"
  BY DEF Barred
<1> QED BY <1>1, <1>2, <1>3, ChatInvariant, PTL DEF ChatSafetySpec
=============================================================================
