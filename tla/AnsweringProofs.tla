--------------------------- MODULE AnsweringProofs --------------------------
(***************************************************************************)
(* The deadlines, the qualified answers and the histories of Answering,    *)
(* for any allowances, any conversation and any number of questions.       *)
(***************************************************************************)
EXTENDS Answering, DataProofs

Verifying == {"check", "correct", "recheck"}

\* The fields of a turn that the deadlines are about
Slots == {"at", "job", "left", "began", "ends", "floor"}

\* A job's turn has time left or is over; verifying it has used none of what its budget leaves.
JobFits ==
  /\ turn.left \in Nat /\ turn.ends \in Nat
  /\ turn.at \in Verifying =>
       /\ turn.began \in Nat /\ turn.floor = Budget(turn.began)
       /\ turn.floor \in Nat /\ turn.floor <= turn.left /\ turn.floor <= turn.ends

TurnFits ==
  /\ Slots \subseteq DOMAIN turn /\ turn.job \in BOOLEAN
  /\ turn.job => JobFits

WaitingTyped == /\ DOMAIN waiting = {"question", "left"}
                /\ waiting.left \in Nat

AnsInv == WaitingTyped /\ (turn = NoTurn \/ TurnFits)

-----------------------------------------------------------------------------
\* A call outside verification is allowed no more than is left of a job's turn.
LEMMA AllowedFits ==
  ASSUME turn.job, turn.left \in Nat, NEW stage \in Nat
  PROVE  Allowed(stage) \in Nat /\ Allowed(stage) <= turn.left
<1>1. stage \in Int /\ turn.left \in Int
  OBVIOUS
<1>2. /\ Min({stage, turn.left}) \in {stage, turn.left}
      /\ Min({stage, turn.left}) <= turn.left
  BY <1>1, MinOfTwo, Zenon
<1> QED BY <1>2 DEF Allowed, Job

\* A call of a verification is allowed no more than is left of its budget.
LEMMA ShareFits ==
  ASSUME turn.job, turn.left \in Nat, turn.floor \in Nat, turn.floor <= turn.left, NEW stage \in Nat
  PROVE  Share(stage) \in Nat /\ Share(stage) <= turn.left - turn.floor
<1>1. turn.left - turn.floor \in Nat
  OBVIOUS
<1> QED BY <1>1, MinOfTwo DEF Share, Job

\* The budget of a verification leaves the rest of the turn, and no more than VerificationTime is in it.
LEMMA BudgetFits ==
  ASSUME NEW left \in Nat
  PROVE  Budget(left) \in Nat /\ Budget(left) <= left /\ left - Budget(left) <= VerificationTime
<1>1. VerificationTime \in Nat
  BY AllowanceAssumption
<1>2. /\ Min({VerificationTime, left}) \in {VerificationTime, left}
      /\ Min({VerificationTime, left}) <= VerificationTime /\ Min({VerificationTime, left}) <= left
  BY <1>1, MinOfTwo
<1> QED BY <1>1, <1>2 DEF Budget

\* A call of a verification leaves a turn whose budget still holds.
LEMMA SharedFits ==
  ASSUME TurnFits, turn.at \in Verifying, NEW stage \in Nat, NEW spent \in 0..Share(stage)
  PROVE  LET t == Shared(stage, spent) IN
         /\ DOMAIN t = DOMAIN turn /\ t.job = turn.job /\ t.at = turn.at
         /\ turn.job => /\ t.left \in Nat /\ t.ends \in Nat /\ t.began = turn.began /\ t.floor = turn.floor
                        /\ t.floor <= t.left /\ t.floor <= t.ends
<1> DEFINE t == Shared(stage, spent)
<1>1. Slots \subseteq DOMAIN turn
  BY DEF TurnFits
<1>2. /\ DOMAIN t = DOMAIN turn /\ t.job = turn.job /\ t.at = turn.at
      /\ t.began = turn.began /\ t.floor = turn.floor /\ t.ends = turn.left - Share(stage)
      /\ turn.job => t.left = turn.left - spent
  BY <1>1 DEF Shared, After, Job, Slots
<1>3. CASE turn.job
  <2>1. /\ turn.left \in Nat /\ turn.floor \in Nat /\ turn.floor <= turn.left
    BY <1>3 DEF TurnFits, JobFits
  <2>2. Share(stage) \in Nat /\ Share(stage) <= turn.left - turn.floor
    BY <1>3, <2>1, ShareFits
  <2> QED BY <1>2, <1>3, <2>1, <2>2
<1> QED BY <1>2, <1>3

-----------------------------------------------------------------------------
LEMMA AnsInvInit == AnsInit => AnsInv
BY DEF AnsInit, AnsInv, WaitingTyped, Nobody

\* The steps that begin a turn, end it or leave it alone
LEMMA OutsideKeepFits ==
  ASSUME AnsInv, Accept \/ Retry \/ Run \/ Send \/ Aside \/ Convert \/ Save \/ Stop
  PROVE  AnsInv'
<1> USE DEF AnsInv, WaitingTyped
<1>0. TurnTime \in Nat
  BY AllowanceAssumption
<1>1. CASE Accept
  BY <1>0, <1>1 DEF Accept, TurnFits, JobFits
<1>2. CASE Retry
  BY <1>0, <1>2 DEF Retry, TurnFits, JobFits
<1>3. ASSUME NEW q, NEW docs, NEW verify, NEW left \in Nat, NEW job \in BOOLEAN,
             turn' = Beginning(q, job, docs, verify, left)
      PROVE  TurnFits'
  <2>1. /\ Slots \subseteq DOMAIN turn' /\ turn'.at = "evidence" /\ turn'.job = job
        /\ turn'.left = left /\ turn'.ends = left
    BY <1>3 DEF Beginning, Slots
  <2> QED BY <1>3, <2>1 DEF TurnFits, JobFits, Verifying
<1>4. CASE Run
  <2>1. PICK q, docs, verify : turn' = Beginning(q, TRUE, docs, verify, waiting.left)
    BY <1>4 DEF Run
  <2> QED BY <1>3, <1>4, <2>1 DEF Run
<1>5. CASE Send
  <2>1. PICK q, docs, verify : turn' = Beginning(q, FALSE, docs, verify, TurnTime)
    BY <1>5 DEF Send
  <2> QED BY <1>0, <1>3, <1>5, <2>1 DEF Send
<1>6. CASE Aside
  BY <1>6 DEF Aside, TurnFits, JobFits
<1>7. CASE Convert \/ Save \/ Stop
  <2>1. (turn' = NoTurn \/ turn' = turn) /\ (waiting' = Nobody \/ waiting' = waiting)
    BY <1>7 DEF Convert, Save, Stop, Over, Settled
  <2> QED BY <2>1 DEF Nobody, TurnFits, JobFits
<1> QED BY <1>1, <1>2, <1>4, <1>5, <1>6, <1>7

\* Time passes in the queue and between the calls of a turn.
LEMMA TimeKeepsFits ==
  ASSUME AnsInv, Passing
  PROVE  AnsInv'
<1> USE DEF AnsInv, WaitingTyped
<1>1. CASE ~Job /\ waiting.left > 0 /\ waiting' = [waiting EXCEPT !.left = @ - 1] /\ UNCHANGED turn
  BY <1>1 DEF TurnFits, JobFits
<1>2. CASE /\ turn.at \in {"evidence", "reply", "verify"} /\ Job /\ turn.left > 0
           /\ turn' = [turn EXCEPT !.left = @ - 1] /\ UNCHANGED waiting
  <2>1. TurnFits
    BY <1>2 DEF NoTurn
  <2>2. Slots \subseteq DOMAIN turn /\ turn.left \in Nat /\ turn.ends \in Nat
    BY <1>2, <2>1 DEF TurnFits, JobFits, Job
  <2>3. /\ DOMAIN turn' = DOMAIN turn /\ turn'.job = turn.job /\ turn'.at = turn.at
        /\ turn'.left = turn.left - 1 /\ turn'.ends = turn.ends
    BY <1>2, <2>2 DEF Slots
  <2>4. turn'.at \notin Verifying
    BY <1>2, <2>3 DEF Verifying
  <2>5. turn'.left \in Nat
    BY <1>2, <2>2, <2>3
  <2>6. TurnFits'
    BY <2>1, <2>2, <2>3, <2>4, <2>5 DEF TurnFits, JobFits
  <2> QED BY <1>2, <2>6
<1> QED BY <1>1, <1>2 DEF Passing, Elapse

\* A step outside verification that keeps the time, or spends some of it and no more than a call is allowed
LEMMA WorkKeepsFits ==
  ASSUME AnsInv, CollectEvidence \/ Retrieve \/ Limit \/ Prepare \/ Generate \/ SkipVerification
  PROVE  AnsInv'
<1> USE DEF AnsInv
<1>0. TurnFits
  <2>1. turn.at # "none"
    BY DEF CollectEvidence, Retrieve, Limit, Prepare, Generate, SkipVerification
  <2> QED BY <2>1 DEF NoTurn
<1>1. Slots \subseteq DOMAIN turn
  BY <1>0 DEF TurnFits
<1>2. /\ UNCHANGED waiting /\ Slots \subseteq DOMAIN turn' /\ turn'.job = turn.job /\ turn'.at \notin Verifying
      /\ turn.job => turn'.left \in Nat /\ turn'.ends \in Nat
  <2>1. turn.job => turn.left \in Nat /\ turn.ends \in Nat
    BY <1>0 DEF TurnFits, JobFits
  <2>2. CASE CollectEvidence \/ Retrieve \/ Limit \/ SkipVerification
    <3>1. CASE CollectEvidence
      <4>1. PICK e : turn' = [turn EXCEPT !.at = "retrieve", !.evidence = e]
        BY <3>1 DEF CollectEvidence
      <4> QED BY <1>1, <2>1, <3>1, <4>1 DEF CollectEvidence, Slots, Verifying
    <3>2. CASE Retrieve
      <4>1. PICK f, e : turn' = [turn EXCEPT !.at = "reply", !.found = f, !.evidence = e]
        BY <3>2 DEF Retrieve
      <4>2. UNCHANGED waiting
        BY <3>2 DEF Retrieve
      <4> QED BY <1>1, <2>1, <4>1, <4>2 DEF Slots, Verifying
    <3>3. CASE Limit
      BY <1>1, <2>1, <3>3 DEF Limit, Slots, Verifying
    <3>4. CASE SkipVerification
      BY <1>1, <2>1, <3>4 DEF SkipVerification, Slots, Verifying
    <3> QED BY <2>2, <3>1, <3>2, <3>3, <3>4
  <2>3. ASSUME NEW stage \in Nat, NEW spent \in 0..Allowed(stage), NEW t,
               t = After(Call(stage), spent)
        PROVE  /\ DOMAIN t = DOMAIN turn /\ t.job = turn.job
               /\ turn.job => t.left \in Nat /\ t.ends \in Nat
    <3>1. /\ DOMAIN t = DOMAIN turn /\ t.job = turn.job /\ t.ends = turn.left - Allowed(stage)
          /\ turn.job => t.left = turn.left - spent
      BY <1>1, <2>3 DEF After, Call, Job, Slots
    <3>2. turn.job => Allowed(stage) \in Nat /\ Allowed(stage) <= turn.left
      BY <2>1, AllowedFits
    <3> QED BY <2>1, <3>1, <3>2
  <2>4. CASE Prepare
    <3>1. PrepareTime \in Nat
      BY AllowanceAssumption
    <3>2. PICK spent \in 0..Allowed(PrepareTime) :
            turn' = [After(Call(PrepareTime), spent) EXCEPT !.at = "generate", !.evidence = "none"]
      BY <2>4 DEF Prepare
    <3> DEFINE t == After(Call(PrepareTime), spent)
    <3>3. /\ DOMAIN t = DOMAIN turn /\ t.job = turn.job
          /\ turn.job => t.left \in Nat /\ t.ends \in Nat
      BY <2>3, <3>1
    <3>4. turn' = [t EXCEPT !.at = "generate", !.evidence = "none"]
      BY <3>2
    <3> HIDE DEF t
    <3> QED BY <1>1, <2>4, <3>3, <3>4 DEF Prepare, Slots, Verifying
  <2>5. CASE Generate
    <3>1. AnswerTime \in Nat
      BY AllowanceAssumption
    <3>2. PICK spent \in 0..Allowed(AnswerTime) :
            turn' = [After(Call(AnswerTime), spent) EXCEPT !.at = "verify", !.text = "draft"]
      BY <2>5 DEF Generate
    <3> DEFINE t == After(Call(AnswerTime), spent)
    <3>3. /\ DOMAIN t = DOMAIN turn /\ t.job = turn.job
          /\ turn.job => t.left \in Nat /\ t.ends \in Nat
      BY <2>3, <3>1
    <3>4. turn' = [t EXCEPT !.at = "verify", !.text = "draft"]
      BY <3>2
    <3> HIDE DEF t
    <3> QED BY <1>1, <2>5, <3>3, <3>4 DEF Generate, Slots, Verifying
  <2> QED BY <2>2, <2>4, <2>5
<1> QED BY <1>0, <1>2 DEF WaitingTyped, TurnFits, JobFits

\* The steps of a verification: it begins with a budget, and every call keeps to it.
LEMMA VerifyingKeepsFits ==
  ASSUME AnsInv, BeginVerification \/ Check \/ Correct \/ Recheck
  PROVE  AnsInv'
<1> USE DEF AnsInv
<1>0. /\ TurnFits /\ UNCHANGED waiting
  <2>1. turn.at # "none" /\ UNCHANGED waiting
    BY DEF BeginVerification, Check, Correct, Recheck
  <2> QED BY <2>1 DEF NoTurn
<1>1. Slots \subseteq DOMAIN turn /\ turn.job \in BOOLEAN
  BY <1>0 DEF TurnFits
<1>2. CASE BeginVerification
  <2>1. /\ Slots \subseteq DOMAIN turn' /\ turn'.at = "check" /\ turn'.job = turn.job
        /\ turn'.left = turn.left /\ turn'.began = turn.left /\ turn'.ends = turn.left
        /\ turn'.floor = Budget(turn.left)
    BY <1>1, <1>2 DEF BeginVerification, Slots
  <2>2. turn.job => /\ turn.left \in Nat
                    /\ Budget(turn.left) \in Nat /\ Budget(turn.left) <= turn.left
    BY <1>0, BudgetFits DEF TurnFits, JobFits
  <2> QED BY <1>0, <1>1, <2>1, <2>2 DEF WaitingTyped, TurnFits, JobFits
<1>3. ASSUME NEW t, DOMAIN t = DOMAIN turn, t.job = turn.job, turn.at \in Verifying,
             turn.job => /\ t.left \in Nat /\ t.ends \in Nat /\ t.began = turn.began /\ t.floor = turn.floor
                         /\ t.floor <= t.left /\ t.floor <= t.ends,
             DOMAIN turn' = DOMAIN turn,
             turn'.job = t.job, turn'.left = t.left, turn'.ends = t.ends,
             turn'.began = t.began, turn'.floor = t.floor
      PROVE  AnsInv'
  <2>2. turn.job => turn.began \in Nat /\ turn.floor = Budget(turn.began) /\ turn.floor \in Nat
    BY <1>0, <1>3 DEF TurnFits, JobFits
  <2> QED BY <1>0, <1>1, <1>3, <2>2 DEF WaitingTyped, TurnFits, JobFits
<1>4. CASE Check \/ Correct \/ Recheck
  <2>0. turn.at \in Verifying
    BY <1>4 DEF Check, Correct, Recheck, Verifying
  <2>2. turn.job => /\ turn.left \in Nat /\ turn.ends \in Nat
                    /\ turn.floor <= turn.left /\ turn.floor <= turn.ends
    BY <1>0, <2>0 DEF TurnFits, JobFits
  <2>3. VerifyTime \in Nat /\ CorrectTime \in Nat
    BY AllowanceAssumption
  <2>4. \E t : /\ t = turn \/ \E stage \in Nat : \E spent \in 0..Share(stage) : t = Shared(stage, spent)
               /\ DOMAIN t = DOMAIN turn
                  => /\ DOMAIN turn' = DOMAIN turn
                     /\ turn'.job = t.job /\ turn'.left = t.left /\ turn'.ends = t.ends
                     /\ turn'.began = t.began /\ turn'.floor = t.floor
    <3>1. CASE Check
      <4>1. PICK spent \in 0..Share(VerifyTime), r \in Verdicts :
              turn' = [Shared(VerifyTime, spent) EXCEPT !.report = r, !.at = IF r = "contradicted" THEN "correct" ELSE "save"]
        BY <3>1 DEF Check
      <4> DEFINE t == Shared(VerifyTime, spent)
      <4>2. turn' = [t EXCEPT !.report = r, !.at = IF r = "contradicted" THEN "correct" ELSE "save"]
        BY <4>1
      <4>3. \E stage \in Nat : \E s \in 0..Share(stage) : t = Shared(stage, s)
        BY <2>3
      <4> HIDE DEF t
      <4>4. DOMAIN t = DOMAIN turn
            => /\ DOMAIN turn' = DOMAIN turn
               /\ turn'.job = t.job /\ turn'.left = t.left /\ turn'.ends = t.ends
               /\ turn'.began = t.began /\ turn'.floor = t.floor
        BY <1>1, <4>2 DEF Slots
      <4> QED BY <4>3, <4>4
    <3>2. CASE Correct
      <4>1. CASE turn' = [turn EXCEPT !.correction = "timeout", !.at = "save"]
        BY <1>1, <4>1 DEF Slots
      <4>2. CASE InBudget /\ \E spent \in 0..Share(CorrectTime) :
          \/ turn' = [Shared(CorrectTime, spent) EXCEPT !.at = "recheck"]
          \/ \E fault \in {"error", "timeout"} :
               turn' = [Shared(CorrectTime, spent) EXCEPT !.correction = fault, !.at = "save"]
        <5>1. PICK spent \in 0..Share(CorrectTime) :
                \/ turn' = [Shared(CorrectTime, spent) EXCEPT !.at = "recheck"]
                \/ \E fault \in {"error", "timeout"} :
                     turn' = [Shared(CorrectTime, spent) EXCEPT !.correction = fault, !.at = "save"]
          BY <4>2
        <5> DEFINE t == Shared(CorrectTime, spent)
        <5>2. \/ turn' = [t EXCEPT !.at = "recheck"]
              \/ \E fault \in {"error", "timeout"} : turn' = [t EXCEPT !.correction = fault, !.at = "save"]
          BY <5>1
        <5>3. \E stage \in Nat : \E s \in 0..Share(stage) : t = Shared(stage, s)
          BY <2>3
        <5> HIDE DEF t
        <5>4. DOMAIN t = DOMAIN turn
              => /\ DOMAIN turn' = DOMAIN turn
                 /\ turn'.job = t.job /\ turn'.left = t.left /\ turn'.ends = t.ends
                 /\ turn'.began = t.began /\ turn'.floor = t.floor
          BY <1>1, <5>2 DEF Slots
        <5> QED BY <5>3, <5>4
      <4> QED BY <3>2, <4>1, <4>2 DEF Correct
    <3>3. CASE Recheck
      <4>0. ASSUME NEW t, NEW r, turn' = [Replaced(t, r) EXCEPT !.at = "save"], DOMAIN t = DOMAIN turn
            PROVE  /\ DOMAIN turn' = DOMAIN turn
                   /\ turn'.job = t.job /\ turn'.left = t.left /\ turn'.ends = t.ends
                   /\ turn'.began = t.began /\ turn'.floor = t.floor
        BY <1>1, <4>0 DEF Replaced, Slots
      <4>1. CASE turn' = [Replaced(turn, "timeout") EXCEPT !.at = "save"]
        BY <4>0, <4>1
      <4>2. CASE \E spent \in 0..Share(VerifyTime), r \in Verdicts :
                   turn' = [Replaced(Shared(VerifyTime, spent), r) EXCEPT !.at = "save"]
        <5>1. PICK spent \in 0..Share(VerifyTime), r \in Verdicts :
                turn' = [Replaced(Shared(VerifyTime, spent), r) EXCEPT !.at = "save"]
          BY <4>2
        <5>2. \E stage \in Nat : \E s \in 0..Share(stage) : Shared(VerifyTime, spent) = Shared(stage, s)
          BY <2>3
        <5> QED BY <4>0, <5>1, <5>2
      <4> QED BY <3>3, <4>1, <4>2 DEF Recheck
    <3> QED BY <1>4, <3>1, <3>2, <3>3
  <2>5. PICK t : /\ t = turn \/ \E stage \in Nat : \E spent \in 0..Share(stage) : t = Shared(stage, spent)
                 /\ DOMAIN t = DOMAIN turn
                    => /\ DOMAIN turn' = DOMAIN turn
                       /\ turn'.job = t.job /\ turn'.left = t.left /\ turn'.ends = t.ends
                       /\ turn'.began = t.began /\ turn'.floor = t.floor
    BY <2>4
  <2>6. /\ DOMAIN t = DOMAIN turn /\ t.job = turn.job
        /\ turn.job => /\ t.left \in Nat /\ t.ends \in Nat /\ t.began = turn.began /\ t.floor = turn.floor
                       /\ t.floor <= t.left /\ t.floor <= t.ends
    BY <1>0, <2>0, <2>2, <2>5, SharedFits
  <2> QED BY <1>3, <2>0, <2>5, <2>6
<1> QED BY <1>2, <1>4

-----------------------------------------------------------------------------
LEMMA AnsInvStep == AnsInv /\ [AnsNext]_ansVars => AnsInv'
<1> SUFFICES ASSUME AnsInv, [AnsNext]_ansVars
             PROVE  AnsInv'
  OBVIOUS
<1>1. CASE UNCHANGED ansVars
  BY <1>1 DEF ansVars, AnsInv, WaitingTyped, TurnFits, JobFits
<1>2. CASE AnsNext
  BY <1>2, OutsideKeepFits, TimeKeepsFits, WorkKeepsFits, VerifyingKeepsFits DEF AnsNext
<1> QED BY <1>1, <1>2

LEMMA AnsInvFits == AnsInv => CallsFitTheTurn
<1> SUFFICES ASSUME AnsInv, turn.job
             PROVE  /\ turn.ends >= 0
                    /\ turn.at \in {"check", "correct", "recheck"} => turn.began - turn.ends <= VerificationTime
  BY DEF CallsFitTheTurn
<1>1. JobFits
  BY DEF AnsInv, TurnFits, NoTurn
<1>2. turn.at \in Verifying => turn.began - turn.floor <= VerificationTime
  BY <1>1, BudgetFits DEF JobFits
<1> QED BY <1>1, <1>2, AllowanceAssumption DEF JobFits, Verifying

\* No call of a job's turn may last beyond the turn, and a verification with its correction stays
\* within its one budget, whatever the allowances are and however the time of a turn is used up.
THEOREM TurnsEndInTime == AnsSpec => []CallsFitTheTurn
<1>1. AnsSpec => []AnsInv
  BY AnsInvInit, AnsInvStep, PTL DEF AnsSpec
<1> QED BY <1>1, AnsInvFits, PTL

-----------------------------------------------------------------------------
\* What a saved answer says of itself.  Only a verification that the user asked for has findings, and
\* until the answer is saved no text has replaced the draft.

Parts == {"at", "job", "verify", "text", "report"}
Findings == {"unsupported", "contradicted", "error"}

TextFits ==
  /\ Parts \subseteq DOMAIN turn
  /\ turn.at # "save" => turn.text # "corrected"
  /\ turn.job /\ turn.text = "corrected" => turn.report = "passed"
  /\ turn.at \in Verifying => turn.verify
  /\ turn.report \in Findings => turn.verify

TextInv == (turn = NoTurn \/ TextFits) /\ AnswersAreQualified

\* A step that saves nothing, and keeps or ends the turn
LEMMA UnsaidKeepsText ==
  ASSUME TextInv, Unsaid, turn' = NoTurn \/ turn' = turn
  PROVE  TextInv'
<1>1. AnswersAreQualified'
  BY DEF Unsaid, NoAnswer, AnswersAreQualified
<1> QED BY <1>1 DEF TextInv, TextFits

\* A step that saves nothing and gives the turn a text, a report and a place that go together
LEMMA WritingKeepsText ==
  ASSUME TextInv, Unsaid, TextFits'
  PROVE  TextInv'
<1>1. AnswersAreQualified'
  BY DEF Unsaid, NoAnswer, AnswersAreQualified
<1> QED BY <1>1 DEF TextInv

\* The time a call takes is not part of the text.
LEMMA TimeIsNoText ==
  ASSUME Parts \subseteq DOMAIN turn, NEW stage, NEW spent, NEW t,
         t = Shared(stage, spent) \/ t = After(Call(stage), spent) \/ t = turn
  PROVE  /\ DOMAIN t = DOMAIN turn /\ t.at = turn.at /\ t.job = turn.job
         /\ t.verify = turn.verify /\ t.text = turn.text /\ t.report = turn.report
<1>1. CASE t = Shared(stage, spent)
  BY <1>1 DEF Shared, After, Parts
<1>2. CASE t = After(Call(stage), spent)
  BY <1>2 DEF Call, After, Parts
<1> QED BY <1>1, <1>2

\* The steps that begin a turn, end it or leave it alone
LEMMA OutsideKeepText ==
  ASSUME TextInv, Accept \/ Retry \/ Run \/ Send \/ Aside \/ Convert \/ Save \/ Stop
  PROVE  TextInv'
<1>1. CASE Accept \/ Retry \/ Aside \/ Stop
  <2>1. Unsaid /\ (turn' = NoTurn \/ turn' = turn)
    BY <1>1 DEF Accept, Retry, Aside, Stop, Over
  <2> QED BY <2>1, UnsaidKeepsText
<1>2. CASE Run \/ Send
  <2>1. Unsaid
    BY <1>2 DEF Run, Send
  <2>2. PICK q, job, docs, verify, left : turn' = Beginning(q, job, docs, verify, left)
    <3>1. CASE Run
      <4>1. \E q, docs, verify : turn' = Beginning(q, TRUE, docs, verify, waiting.left)
        BY <3>1 DEF Run
      <4> QED BY <4>1
    <3>2. CASE Send
      <4>1. \E q, docs, verify : turn' = Beginning(q, FALSE, docs, verify, TurnTime)
        BY <3>2 DEF Send
      <4> QED BY <4>1
    <3> QED BY <1>2, <3>1, <3>2
  <2>3. TextFits'
    BY <2>2 DEF Beginning, TextFits, Parts, Findings, Verifying
  <2> QED BY <2>1, <2>3, WritingKeepsText
<1>3. CASE Convert
  <2>1. turn' = NoTurn /\ saved' = [by |-> "conversion"]
    BY <1>3 DEF Convert, Over
  <2> QED BY <2>1 DEF TextInv, AnswersAreQualified
<1>4. CASE Save
  <2>1. /\ turn.at = "save" /\ turn' = NoTurn
        /\ saved' = [by |-> turn.text, job |-> turn.job, asked |-> turn.verify, found |-> turn.found,
                     report |-> turn.report, correction |-> turn.correction, notice |-> Notice(turn)]
    BY <1>4 DEF Save, Over
  <2>2. TextFits
    BY <2>1 DEF TextInv, NoTurn
  <2>3. /\ saved'.by = turn.text /\ saved'.job = turn.job /\ saved'.asked = turn.verify
        /\ saved'.found = turn.found /\ saved'.report = turn.report
        /\ saved'.notice = (turn.job /\ (turn.verify /\ turn.found # "none") /\ turn.report # "passed")
    BY <2>1 DEF Notice, NeedsVerifying, Job
  <2>4. AnswersAreQualified'
    BY <2>2, <2>3 DEF AnswersAreQualified, TextFits, Findings
  <2> QED BY <2>1, <2>4 DEF TextInv
<1> QED BY <1>1, <1>2, <1>3, <1>4

\* The steps before the verification, and those that need none
LEMMA WorkKeepsText ==
  ASSUME TextInv, Passing \/ CollectEvidence \/ Retrieve \/ Limit \/ Prepare \/ Generate
                  \/ SkipVerification \/ BeginVerification
  PROVE  TextInv'
<1>1. CASE Passing /\ UNCHANGED turn
  BY <1>1, UnsaidKeepsText DEF Passing
<1>2. CASE Passing /\ ~UNCHANGED turn
  <2>1. Unsaid /\ turn.at \in {"evidence", "reply", "verify"} /\ turn' = [turn EXCEPT !.left = turn.left - 1]
    BY <1>2 DEF Passing, Elapse
  <2>2. TextFits
    BY <2>1 DEF TextInv, NoTurn
  <2>3. TextFits'
    BY <2>1, <2>2 DEF TextFits, Parts
  <2> QED BY <2>1, <2>3, WritingKeepsText
<1>3. CASE CollectEvidence \/ Retrieve \/ Limit \/ SkipVerification \/ BeginVerification
  <2>0. turn.at # "none" /\ Unsaid
    BY <1>3 DEF CollectEvidence, Retrieve, Limit, SkipVerification, BeginVerification
  <2>1. TextFits
    BY <2>0 DEF TextInv, NoTurn
  <2>2. CASE CollectEvidence
    <3>1. PICK e : turn' = [turn EXCEPT !.at = "retrieve", !.evidence = e]
      BY <2>2 DEF CollectEvidence
    <3>2. turn.at = "evidence"
      BY <2>2 DEF CollectEvidence
    <3> QED BY <2>0, <2>1, <3>1, <3>2, WritingKeepsText DEF TextFits, Parts, Verifying
  <2>3. CASE Retrieve
    <3>1. PICK f, e : turn' = [turn EXCEPT !.at = "reply", !.found = f, !.evidence = e]
      BY <2>3 DEF Retrieve
    <3>2. turn.at = "retrieve"
      BY <2>3 DEF Retrieve
    <3> QED BY <2>0, <2>1, <3>1, <3>2, WritingKeepsText DEF TextFits, Parts, Verifying
  <2>4. CASE Limit
    BY <2>0, <2>1, <2>4, WritingKeepsText DEF Limit, TextFits, Parts, Verifying
  <2>5. CASE SkipVerification
    BY <2>0, <2>1, <2>5, WritingKeepsText DEF SkipVerification, TextFits, Parts, Verifying, Findings
  <2>6. CASE BeginVerification
    BY <2>0, <2>1, <2>6, WritingKeepsText DEF BeginVerification, NeedsVerifying, TextFits, Parts, Verifying
  <2> QED BY <1>3, <2>2, <2>3, <2>4, <2>5, <2>6
<1>4. CASE Prepare \/ Generate
  <2>0. turn.at \in {"reply", "generate"} /\ Unsaid
    BY <1>4 DEF Prepare, Generate
  <2>1. TextFits
    BY <2>0 DEF TextInv, NoTurn
  <2>2. \E stage, spent : \/ turn' = [After(Call(stage), spent) EXCEPT !.at = "generate", !.evidence = "none"]
                          \/ turn' = [After(Call(stage), spent) EXCEPT !.at = "verify", !.text = "draft"]
    BY <1>4 DEF Prepare, Generate
  <2>3. PICK t : /\ \E stage, spent : t = After(Call(stage), spent)
                 /\ \/ turn' = [t EXCEPT !.at = "generate", !.evidence = "none"]
                    \/ turn' = [t EXCEPT !.at = "verify", !.text = "draft"]
    BY <2>2
  <2>4. /\ DOMAIN t = DOMAIN turn /\ t.at = turn.at /\ t.job = turn.job
        /\ t.verify = turn.verify /\ t.text = turn.text /\ t.report = turn.report
    BY <2>1, <2>3, TimeIsNoText DEF TextFits
  <2>5. TextFits'
    BY <2>0, <2>1, <2>3, <2>4 DEF TextFits, Parts, Verifying
  <2> QED BY <2>0, <2>5, WritingKeepsText
<1> QED BY <1>1, <1>2, <1>3, <1>4 DEF Passing

\* The steps of a verification: a corrected text is kept, in a job, only if it has passed.
LEMMA VerifyingKeepsText ==
  ASSUME TextInv, Check \/ Correct \/ Recheck
  PROVE  TextInv'
<1>0. turn.at \in Verifying /\ Unsaid
  BY DEF Check, Correct, Recheck, Verifying
<1>1. TextFits /\ turn.verify /\ turn.text # "corrected"
  BY <1>0 DEF TextInv, NoTurn, TextFits, Verifying
<1>2. ASSUME NEW t, t = turn \/ \E stage, spent : t = Shared(stage, spent)
      PROVE  /\ DOMAIN t = DOMAIN turn /\ t.at = turn.at /\ t.job = turn.job
             /\ t.verify = turn.verify /\ t.text = turn.text /\ t.report = turn.report
  BY <1>1, <1>2, TimeIsNoText DEF TextFits
<1>3. CASE Check
  <2>1. \E stage, spent, r :
          turn' = [Shared(stage, spent) EXCEPT !.report = r, !.at = IF r = "contradicted" THEN "correct" ELSE "save"]
    BY <1>3 DEF Check
  <2>2. PICK t, r : /\ \E stage, spent : t = Shared(stage, spent)
                    /\ turn' = [t EXCEPT !.report = r, !.at = IF r = "contradicted" THEN "correct" ELSE "save"]
    BY <2>1
  <2>3. TextFits'
    BY <1>1, <1>2, <2>2 DEF TextFits, Parts
  <2> QED BY <1>0, <2>3, WritingKeepsText
<1>4. CASE Correct
  <2>1. \/ turn' = [turn EXCEPT !.correction = "timeout", !.at = "save"]
        \/ \E stage, spent : turn' = [Shared(stage, spent) EXCEPT !.at = "recheck"]
        \/ \E stage, spent, fault : turn' = [Shared(stage, spent) EXCEPT !.correction = fault, !.at = "save"]
    <3>1. CASE turn' = [turn EXCEPT !.correction = "timeout", !.at = "save"]
      BY <3>1
    <3>2. CASE \E spent \in 0..Share(CorrectTime) : turn' = [Shared(CorrectTime, spent) EXCEPT !.at = "recheck"]
      BY <3>2
    <3>3. CASE \E spent \in 0..Share(CorrectTime) : \E fault \in {"error", "timeout"} :
                 turn' = [Shared(CorrectTime, spent) EXCEPT !.correction = fault, !.at = "save"]
      BY <3>3
    <3> QED BY <1>4, <3>1, <3>2, <3>3 DEF Correct
  <2>2. PICK t, fault : /\ t = turn \/ \E stage, spent : t = Shared(stage, spent)
                        /\ \/ turn' = [t EXCEPT !.at = "recheck"]
                           \/ turn' = [t EXCEPT !.correction = fault, !.at = "save"]
    BY <2>1
  <2>3. TextFits'
    BY <1>1, <1>2, <2>2 DEF TextFits, Parts
  <2> QED BY <1>0, <2>3, WritingKeepsText
<1>5. CASE Recheck
  <2>1. \/ turn' = [Replaced(turn, "timeout") EXCEPT !.at = "save"]
        \/ \E stage, spent, r : turn' = [Replaced(Shared(stage, spent), r) EXCEPT !.at = "save"]
    BY <1>5 DEF Recheck
  <2>2. PICK t, r : /\ t = turn \/ \E stage, spent : t = Shared(stage, spent)
                    /\ turn' = [Replaced(t, r) EXCEPT !.at = "save"]
    BY <2>1
  <2>3. CASE turn.job /\ r # "passed"
    <3>1. turn' = [[t EXCEPT !.correction = "not_verified"] EXCEPT !.at = "save"]
      BY <2>2, <2>3 DEF Replaced, Job
    <3>2. TextFits'
      BY <1>1, <1>2, <2>2, <3>1 DEF TextFits, Parts
    <3> QED BY <1>0, <3>2, WritingKeepsText
  <2>4. CASE ~(turn.job /\ r # "passed")
    <3>1. turn' = [[t EXCEPT !.text = "corrected", !.report = r, !.correction = "completed"] EXCEPT !.at = "save"]
      BY <2>2, <2>4 DEF Replaced, Job
    <3>2. TextFits'
      BY <1>1, <1>2, <2>2, <2>4, <3>1 DEF TextFits, Parts
    <3> QED BY <1>0, <3>2, WritingKeepsText
  <2> QED BY <2>3, <2>4
<1> QED BY <1>3, <1>4, <1>5

LEMMA TextInvStep == TextInv /\ [AnsNext]_ansVars => TextInv'
<1> SUFFICES ASSUME TextInv, [AnsNext]_ansVars
             PROVE  TextInv'
  OBVIOUS
<1>1. CASE UNCHANGED ansVars
  BY <1>1 DEF ansVars, TextInv, TextFits, AnswersAreQualified
<1>2. CASE AnsNext
  BY <1>2, OutsideKeepText, WorkKeepsText, VerifyingKeepsText DEF AnsNext
<1> QED BY <1>1, <1>2

\* The reader of a job's answer can rely on it: a text that replaced the draft has passed its
\* verification, and an answer that was to be verified and did not pass says so.
THEOREM AnswersSayWhatTheyAre == AnsSpec => []AnswersAreQualified
<1>1. AnsInit => TextInv
  BY DEF AnsInit, NoAnswer, TextInv, AnswersAreQualified
<1>2. TextInv => AnswersAreQualified
  BY DEF TextInv
<1> QED BY <1>1, <1>2, TextInvStep, PTL DEF AnsSpec

-----------------------------------------------------------------------------
\* What is kept of a conversation

IsSequence(s) == \E S : s \in Seq(S)

\* A message is a question, or an answer to one before it.
Fits(ms, i) ==
  /\ ms[i].tracked \in BOOLEAN
  /\ \/ ms[i].role = "user" /\ ms[i].of = 0
     \/ ms[i].role = "assistant" /\ ~ms[i].tracked /\ ms[i].of \in 1..(i - 1) /\ ms[ms[i].of].role = "user"

TalkFits == IsSequence(messages) /\ \A i \in 1..Len(messages) : Fits(messages, i)

\* A question that nobody answered
OpenIn(ms, q) ==
  q \in 1..Len(ms) /\ ms[q].role = "user" /\ \A i \in 1..Len(ms) : ms[i].of # q

\* A turn has its slots, and the question it is to answer; a job's question is still to be answered too.
Marks == {"at", "question", "job"}
QuestionsOpen ==
  /\ turn = NoTurn \/ (Marks \subseteq DOMAIN turn /\ OpenIn(messages, turn.question)
                       /\ (turn.job \in BOOLEAN /\ (~turn.job => waiting.question # turn.question)))
  /\ {"question", "left"} \subseteq DOMAIN waiting
  /\ waiting.question # 0 => OpenIn(messages, waiting.question)

Telling == {"reply", "generate", "verify"}

\* Whole exchanges before the question
Whole(ms, s, q) ==
  /\ s \in Seq(1..Len(ms)) /\ s # <<>> /\ s[Len(s)] = q /\ IsInjective(s)
  /\ \A i \in 1..Len(s) :
       /\ ms[s[i]].role = "assistant" => \E j \in 1..(i - 1) : s[j] = ms[s[i]].of
       /\ ms[s[i]].role = "user" /\ ms[s[i]].tracked /\ i < Len(s) => \E j \in (i + 1)..Len(s) : ms[s[j]].of = s[i]

TalkInv == TalkFits /\ QuestionsOpen /\ (turn.at \in Telling => Whole(messages, sent, turn.question))

-----------------------------------------------------------------------------
\* Only of the positions of a conversation are the places asked for, in order.
LEMMA PlacesKept ==
  ASSUME NEW n \in Nat, DOMAIN messages = 1..n, NEW T \in SUBSET (1..n), NEW r, r = Only(Positions, T)
  PROVE  /\ r \in Seq(1..n) /\ Len(r) \in Nat /\ (\A k \in 1..Len(r) : r[k] \in T) /\ (\A i \in T : \E k \in 1..Len(r) : r[k] = i)
         /\ \A j, k \in 1..Len(r) : j < k => r[j] < r[k]
<1> DEFINE s == Positions
<1>1. s \in Seq(1..n) /\ Len(s) = n /\ \A i \in 1..n : s[i] = i
  BY DEF Positions
<1> HIDE DEF s
<1>2. r = Only(s, T)
  BY DEF s
<1>3. r \in Seq(1..n) /\ \E at : PicksOut(at, r, s, T, n)
  BY <1>1, <1>2, OnlyIs
<1>4. PICK at : PicksOut(at, r, s, T, n)
  BY <1>3
<1>5. Len(r) \in Nat /\ \A k \in 1..Len(r) : at[k] \in T /\ at[k] \in 1..n /\ r[k] = at[k]
  BY <1>1, <1>3, <1>4 DEF PicksOut
<1>6. \A i \in T : \E k \in 1..Len(r) : r[k] = i
  <2> SUFFICES ASSUME NEW i \in T PROVE \E k \in 1..Len(r) : r[k] = i
    OBVIOUS
  <2>1. i \in (1..n) \cap T
    OBVIOUS
  <2>2. PICK k \in 1..Len(r) : at[k] = i
    BY <1>4, <2>1 DEF PicksOut
  <2> QED BY <1>5, <2>2
<1>7. \A j, k \in 1..Len(r) : j < k => r[j] < r[k]
  BY <1>4, <1>5 DEF PicksOut
<1> QED BY <1>3, <1>5, <1>6, <1>7

\* The history that is put together for a question is whole.
LEMMA HistoryIs ==
  ASSUME TalkFits, NEW q, OpenIn(messages, q)
  PROVE  Whole(messages, History(q), q)
<1>1. PICK n \in Nat : n = Len(messages) /\ DOMAIN messages = 1..n
  BY DEF TalkFits, IsSequence
<1> DEFINE T == {i \in Others(q) : ~GivenUp(i)}
           r == Only(Positions, T)
           h == History(q)
<1>2. T \in SUBSET (1..n) /\ q \notin T
  BY <1>1 DEF Others
<1>3. \A i \in 1..n : i \in T <=> (i # q /\ (~messages[i].tracked \/ \E j \in 1..n : messages[j].of = i))
  BY <1>1 DEF Others, GivenUp, Answered
<1>4. h = Append(r, q)
  BY DEF History
<1> HIDE DEF T
<1>5. /\ r \in Seq(1..n) /\ Len(r) \in Nat /\ (\A k \in 1..Len(r) : r[k] \in T) /\ (\A i \in T : \E k \in 1..Len(r) : r[k] = i)
      /\ \A j, k \in 1..Len(r) : j < k => r[j] < r[k]
  BY <1>1, <1>2, PlacesKept
<1> HIDE DEF r, h
<1>6. PICK m \in Nat : m = Len(r)
  BY <1>5
<1>7. q \in 1..n /\ messages[q].role = "user" /\ \A i \in 1..n : messages[i].of # q /\ Fits(messages, i)
  BY <1>1 DEF OpenIn, TalkFits
<1>8. h \in Seq(1..n) /\ Len(h) = m + 1 /\ h[m + 1] = q /\ h # <<>> /\ \A k \in 1..m : h[k] = r[k]
  BY <1>4, <1>5, <1>6, <1>7
<1>9. IsInjective(h)
  <2>1. \A j, k \in 1..m : j # k => h[j] # h[k]
    <3> SUFFICES ASSUME NEW j \in 1..m, NEW k \in 1..m, j < k PROVE h[j] # h[k]
      OBVIOUS
    <3>1. r[j] < r[k] /\ r[j] \in 1..n /\ r[k] \in 1..n
      BY <1>2, <1>5, <1>6
    <3> QED BY <1>8, <3>1
  <2>2. \A j \in 1..m : h[j] # h[m + 1]
    BY <1>2, <1>5, <1>6, <1>8
  <2>3. \A k \in 1..(m + 1) : k = m + 1 \/ k \in 1..m
    OBVIOUS
  <2>4. DOMAIN h = 1..(m + 1)
    BY <1>8
  <2> QED BY <2>1, <2>2, <2>3, <2>4 DEF IsInjective
<1>10. ASSUME NEW i \in 1..(m + 1), messages[h[i]].role = "assistant" PROVE \E j \in 1..(i - 1) : h[j] = messages[h[i]].of
  <2>1. i \in 1..m
    BY <1>7, <1>8, <1>10
  <2>2. h[i] = r[i] /\ r[i] \in T /\ r[i] \in 1..n
    BY <1>2, <1>5, <1>6, <1>8, <2>1
  <2>3. PICK a \in 1..n : a = r[i]
    BY <2>2
  <2>4. PICK p : p = messages[a].of
    OBVIOUS
  <2>5. p \in 1..(a - 1) /\ messages[p].role = "user"
    BY <1>7, <1>10, <2>2, <2>3, <2>4 DEF Fits
  <2>6. p \in 1..n /\ p < a
    BY <2>5
  <2>7. p \in T
    BY <1>3, <1>7, <2>4, <2>6
  <2>8. PICK j \in 1..m : r[j] = p
    BY <1>5, <1>6, <2>7
  <2>9. j < i
    <3>1. ASSUME i <= j PROVE FALSE
      <4>1. i = j \/ i < j
        BY <2>1, <3>1
      <4>2. r[i] <= r[j]
        BY <1>5, <1>6, <2>1, <2>2, <4>1
      <4> QED BY <2>3, <2>6, <2>8, <4>2
    <3> QED BY <2>1, <3>1
  <2> QED BY <1>8, <2>1, <2>2, <2>3, <2>4, <2>8, <2>9
<1>11. ASSUME NEW i \in 1..(m + 1), messages[h[i]].role = "user", messages[h[i]].tracked, i < m + 1
       PROVE  \E j \in (i + 1)..(m + 1) : messages[h[j]].of = h[i]
  <2>1. i \in 1..m
    BY <1>11
  <2>2. h[i] = r[i] /\ r[i] \in T /\ r[i] \in 1..n
    BY <1>2, <1>5, <1>6, <1>8, <2>1
  <2>3. PICK a \in 1..n : a = r[i]
    BY <2>2
  <2>4. PICK b \in 1..n : messages[b].of = a
    BY <1>3, <1>11, <2>2, <2>3
  <2>5. a < b /\ ~messages[b].tracked /\ b # q
    BY <1>7, <2>3, <2>4 DEF Fits
  <2>6. PICK j \in 1..m : r[j] = b
    BY <1>3, <1>5, <1>6, <2>5
  <2>7. i < j
    <3>1. ASSUME j <= i PROVE FALSE
      <4>1. i = j \/ j < i
        BY <2>1, <3>1
      <4>2. r[j] <= r[i]
        BY <1>5, <1>6, <2>1, <2>2, <4>1
      <4> QED BY <2>3, <2>5, <2>6, <4>2
    <3> QED BY <2>1, <3>1
  <2>8. j \in (i + 1)..(m + 1) /\ h[j] = b /\ h[i] = a
    BY <1>8, <2>1, <2>2, <2>3, <2>6, <2>7
  <2> QED BY <2>4, <2>8
<1>12. Len(messages) = n /\ Len(h) = m + 1
  BY <1>1, <1>8
<1>13. \A i \in 1..(m + 1) :
         /\ messages[h[i]].role = "assistant" => \E j \in 1..(i - 1) : h[j] = messages[h[i]].of
         /\ messages[h[i]].role = "user" /\ messages[h[i]].tracked /\ i < m + 1 => \E j \in (i + 1)..(m + 1) : messages[h[j]].of = h[i]
  BY <1>10, <1>11
<1>14. Whole(messages, h, q)
  BY <1>8, <1>9, <1>12, <1>13 DEF Whole
<1> QED BY <1>14 DEF h

-----------------------------------------------------------------------------
\* A conversation grows at its end.

Grown(ms, more) ==
  /\ IsSequence(more) /\ Len(ms) \in Nat /\ Len(more) \in Nat /\ Len(ms) <= Len(more)
  /\ \A i \in 1..Len(ms) : more[i] = ms[i]

LEMMA WholeStays ==
  ASSUME NEW ms, NEW more, Grown(ms, more), NEW s, NEW q, Whole(ms, s, q)
  PROVE  Whole(more, s, q)
<1>1. PICK n \in Nat, m \in Nat : n = Len(ms) /\ m = Len(more) /\ n <= m
  BY DEF Grown
<1>2. s \in Seq(1..n) /\ \A i \in 1..n : more[i] = ms[i] /\ i \in 1..m
  BY <1>1 DEF Grown, Whole
<1>3. s \in Seq(1..m) /\ \A i \in 1..Len(s) : s[i] \in 1..n
  BY <1>2
<1>4. PICK l \in Nat : l = Len(s)
  BY <1>3
<1>5. \A i \in 1..l : more[s[i]] = ms[s[i]]
  BY <1>2, <1>3, <1>4
<1>6. \A i \in 1..l : (\A j \in 1..(i - 1) : j \in 1..l) /\ (\A j \in (i + 1)..l : j \in 1..l)
  BY <1>4
<1> QED BY <1>1, <1>3, <1>4, <1>5, <1>6 DEF Whole

\* A message more
LEMMA OneSaid ==
  ASSUME NEW ms, IsSequence(ms), \A i \in 1..Len(ms) : Fits(ms, i), NEW m, NEW more, more = Append(ms, m), m.tracked \in BOOLEAN,
         \/ m.role = "user" /\ m.of = 0
         \/ m.role = "assistant" /\ ~m.tracked /\ m.of \in 1..Len(ms) /\ ms[m.of].role = "user"
  PROVE  /\ IsSequence(more) /\ (\A i \in 1..Len(more) : Fits(more, i)) /\ Grown(ms, more) /\ Len(more) = Len(ms) + 1
         /\ \A q : OpenIn(ms, q) /\ m.of # q => OpenIn(more, q)
         /\ m.role = "user" => OpenIn(more, Len(ms) + 1)
<1>1. PICK S : ms \in Seq(S)
  BY DEF IsSequence
<1>2. PICK n \in Nat : n = Len(ms)
  BY <1>1
<1>3. ms \in Seq(S \cup {m}) /\ m \in S \cup {m}
  BY <1>1
<1>4. /\ more \in Seq(S \cup {m}) /\ Len(more) = n + 1 /\ more[n + 1] = m /\ \A i \in 1..n : more[i] = ms[i]
  BY <1>2, <1>3
<1>5. IsSequence(more)
  BY <1>4 DEF IsSequence
<1>6. Grown(ms, more)
  BY <1>2, <1>4, <1>5 DEF Grown
<1>7. \A i \in 1..(n + 1) : i = n + 1 \/ i \in 1..n
  BY <1>2
<1>8. ASSUME NEW i \in 1..n PROVE Fits(more, i)
  <2>1. Fits(ms, i) /\ \A j \in 1..(i - 1) : j \in 1..n
    BY <1>2
  <2> QED BY <1>4, <2>1 DEF Fits
<1>9. Fits(more, n + 1)
  BY <1>2, <1>4 DEF Fits
<1>10. \A i \in 1..n : ms[i].of # n + 1
  <2> SUFFICES ASSUME NEW i \in 1..n, ms[i].of = n + 1 PROVE FALSE
    OBVIOUS
  <2>1. Fits(ms, i)
    BY <1>2
  <2> QED BY <1>2, <2>1 DEF Fits
<1>11. m.of # n + 1
  BY <1>2
<1>12. ASSUME NEW q, OpenIn(ms, q), m.of # q PROVE OpenIn(more, q)
  BY <1>2, <1>4, <1>7, <1>12 DEF OpenIn
<1>13. ASSUME m.role = "user" PROVE OpenIn(more, n + 1)
  BY <1>2, <1>4, <1>7, <1>10, <1>11, <1>13 DEF OpenIn
<1> QED BY <1>2, <1>4, <1>5, <1>6, <1>7, <1>8, <1>9, <1>12, <1>13

\* A turn that goes on keeps its question.
Keeps(t) == Marks \subseteq DOMAIN t /\ t.question = turn.question /\ t.job = turn.job

LEMMA TimeKeepsQuestion ==
  ASSUME Marks \subseteq DOMAIN turn, NEW stage, NEW spent, NEW t, t \in {turn, After(Call(stage), spent), Shared(stage, spent)}
  PROVE  Keeps(t) /\ t.at = turn.at
BY DEF Keeps, Marks, After, Call, Shared, Job

LEMMA TurnGoesOn ==
  ASSUME TalkInv, Marks \subseteq DOMAIN turn,
         CollectEvidence \/ Retrieve \/ Limit \/ Prepare \/ Generate \/ SkipVerification \/ BeginVerification \/ Check \/ Correct \/ Recheck
  PROVE  /\ Keeps(turn') /\ messages' = messages /\ waiting' = waiting
         /\ turn'.at \in Telling => sent' = History(turn.question) \/ (turn.at \in Telling /\ sent' = sent)
<1>1. CASE CollectEvidence
  <2>1. PICK e : turn' = [turn EXCEPT !.at = "retrieve", !.evidence = e]
    BY <1>1 DEF CollectEvidence
  <2>2. messages' = messages /\ waiting' = waiting
    BY <1>1 DEF CollectEvidence
  <2> QED BY <2>1, <2>2 DEF Keeps, Marks, Telling
<1>2. CASE Retrieve
  <2>1. PICK f, e : turn' = [turn EXCEPT !.at = "reply", !.found = f, !.evidence = e]
    BY <1>2 DEF Retrieve
  <2>2. messages' = messages /\ waiting' = waiting /\ sent' = History(turn.question)
    BY <1>2 DEF Retrieve
  <2> QED BY <2>1, <2>2 DEF Keeps, Marks
<1>3. CASE Limit \/ SkipVerification \/ BeginVerification
  BY <1>3 DEF Limit, SkipVerification, BeginVerification, Keeps, Marks, Telling
<1>4. ASSUME NEW stage, NEW spent, NEW t, t \in {turn, After(Call(stage), spent), Shared(stage, spent)}
      PROVE  Marks \subseteq DOMAIN t /\ t.question = turn.question /\ t.job = turn.job /\ t.at = turn.at
  BY <1>4, TimeKeepsQuestion DEF Keeps
<1>5. CASE Prepare \/ Generate
  <2>1. \E stage, spent : \/ turn' = [After(Call(stage), spent) EXCEPT !.at = "generate", !.evidence = "none"]
                          \/ turn' = [After(Call(stage), spent) EXCEPT !.at = "verify", !.text = "draft"]
    BY <1>5 DEF Prepare, Generate
  <2>2. PICK t : /\ \E stage, spent : t = After(Call(stage), spent)
                 /\ \/ turn' = [t EXCEPT !.at = "generate", !.evidence = "none"]
                    \/ turn' = [t EXCEPT !.at = "verify", !.text = "draft"]
    BY <2>1
  <2>0. PICK stage, spent : t = After(Call(stage), spent)
    BY <2>2
  <2>3. Marks \subseteq DOMAIN t /\ t.question = turn.question /\ t.job = turn.job
    BY <1>4, <2>0
  <2>4. messages' = messages /\ waiting' = waiting /\ sent' = sent /\ turn.at \in Telling
    BY <1>5 DEF Prepare, Generate, Telling
  <2> QED BY <2>2, <2>3, <2>4 DEF Keeps, Marks
<1>6. CASE Check \/ Correct \/ Recheck
  <2>1. messages' = messages /\ waiting' = waiting /\ sent' = sent
    BY <1>6 DEF Check, Correct, Recheck
  <2>2. ASSUME NEW t, NEW new \in {"save", "correct", "recheck"}, Keeps(t), NEW r, NEW c,
               turn' \in {[t EXCEPT !.report = r, !.at = new], [t EXCEPT !.correction = c, !.at = new], [t EXCEPT !.at = new],
                          [Replaced(t, r) EXCEPT !.at = new]}
        PROVE  Keeps(turn') /\ turn'.at \notin Telling
    BY <2>2 DEF Keeps, Marks, Telling, Replaced
  <2>3. CASE Check
    <3>1. \E stage, spent, r :
            turn' = [Shared(stage, spent) EXCEPT !.report = r, !.at = IF r = "contradicted" THEN "correct" ELSE "save"]
      BY <2>3 DEF Check
    <3>2. PICK t, r : /\ \E stage, spent : t = Shared(stage, spent)
                      /\ turn' = [t EXCEPT !.report = r, !.at = IF r = "contradicted" THEN "correct" ELSE "save"]
      BY <3>1
    <3>3. Keeps(t)
      BY <1>4, <3>2 DEF Keeps
    <3>4. Keeps(turn') /\ turn'.at \notin Telling
      BY <2>2, <3>2, <3>3
    <3> QED BY <2>1, <3>4
  <2>4. CASE Correct
    <3>1. \/ turn' = [turn EXCEPT !.correction = "timeout", !.at = "save"]
          \/ \E stage, spent : turn' = [Shared(stage, spent) EXCEPT !.at = "recheck"]
          \/ \E stage, spent, fault : turn' = [Shared(stage, spent) EXCEPT !.correction = fault, !.at = "save"]
      <4>1. CASE turn' = [turn EXCEPT !.correction = "timeout", !.at = "save"]
        BY <4>1
      <4>2. CASE \E spent \in 0..Share(CorrectTime) : turn' = [Shared(CorrectTime, spent) EXCEPT !.at = "recheck"]
        BY <4>2
      <4>3. CASE \E spent \in 0..Share(CorrectTime) : \E fault \in {"error", "timeout"} :
                   turn' = [Shared(CorrectTime, spent) EXCEPT !.correction = fault, !.at = "save"]
        BY <4>3
      <4> QED BY <2>4, <4>1, <4>2, <4>3 DEF Correct
    <3>2. PICK t, fault : /\ t = turn \/ \E stage, spent : t = Shared(stage, spent)
                          /\ \/ turn' = [t EXCEPT !.at = "recheck"]
                             \/ turn' = [t EXCEPT !.correction = fault, !.at = "save"]
      BY <3>1
    <3>3. Keeps(t)
      BY <1>4, <3>2 DEF Keeps
    <3>4. Keeps(turn') /\ turn'.at \notin Telling
      BY <3>2, <3>3 DEF Keeps, Marks, Telling
    <3> QED BY <2>1, <3>4
  <2>5. CASE Recheck
    <3>1. \/ turn' = [Replaced(turn, "timeout") EXCEPT !.at = "save"]
          \/ \E stage, spent, r : turn' = [Replaced(Shared(stage, spent), r) EXCEPT !.at = "save"]
      BY <2>5 DEF Recheck
    <3>2. PICK t, r : /\ t = turn \/ \E stage, spent : t = Shared(stage, spent)
                      /\ turn' = [Replaced(t, r) EXCEPT !.at = "save"]
      BY <3>1
    <3>3. Keeps(t)
      BY <1>4, <3>2 DEF Keeps
    <3>4. Keeps(turn') /\ turn'.at \notin Telling
      BY <2>2, <3>2, <3>3
    <3> QED BY <2>1, <3>4
  <2> QED BY <1>6, <2>3, <2>4, <2>5
<1> QED BY <1>1, <1>2, <1>3, <1>5, <1>6

LEMMA GoingOnKeepsTalk ==
  ASSUME TalkInv,
         CollectEvidence \/ Retrieve \/ Limit \/ Prepare \/ Generate \/ SkipVerification \/ BeginVerification \/ Check \/ Correct \/ Recheck
  PROVE  TalkInv'
<1>1. turn # NoTurn
  <2>1. turn.at # "none"
    BY DEF CollectEvidence, Retrieve, Limit, Prepare, Generate, SkipVerification, BeginVerification, Check, Correct, Recheck
  <2> QED BY <2>1 DEF NoTurn
<1>2. Marks \subseteq DOMAIN turn /\ OpenIn(messages, turn.question) /\ turn.job \in BOOLEAN /\ (~turn.job => waiting.question # turn.question)
  BY <1>1 DEF TalkInv, QuestionsOpen
<1>3. /\ Keeps(turn') /\ messages' = messages /\ waiting' = waiting
      /\ turn'.at \in Telling => sent' = History(turn.question) \/ (turn.at \in Telling /\ sent' = sent)
  BY <1>2, TurnGoesOn
<1>4. TalkFits' /\ QuestionsOpen'
  BY <1>2, <1>3 DEF TalkInv, TalkFits, QuestionsOpen, Keeps
<1>5. turn'.at \in Telling => Whole(messages', sent', turn'.question)
  <2>1. Whole(messages, History(turn.question), turn.question)
    BY <1>2, HistoryIs DEF TalkInv
  <2> QED BY <1>3, <2>1 DEF TalkInv, Keeps
<1> QED BY <1>4, <1>5 DEF TalkInv

\* A conversation with a question more, and no turn begun or settled by it
LEMMA QuestionKeepsTalk ==
  ASSUME TalkInv, NEW content, NEW tracked \in BOOLEAN, messages' = Append(messages, Question(content, tracked)), sent' = sent,
         turn' = turn \/ (/\ turn = NoTurn /\ Marks \subseteq DOMAIN turn' /\ turn'.question = Len(messages') /\ turn'.job \in BOOLEAN
                          /\ turn'.at \notin Telling),
         waiting' = waiting \/ (waiting = Nobody /\ {"question", "left"} \subseteq DOMAIN waiting' /\ waiting'.question = Len(messages')),
         turn' = turn \/ waiting' = waiting
  PROVE  TalkInv'
<1>1. PICK n \in Nat : n = Len(messages)
  BY DEF TalkInv, TalkFits, IsSequence
<1> DEFINE m == Question(content, tracked)
<1>2. m.role = "user" /\ m.of = 0 /\ m.tracked \in BOOLEAN
  BY DEF Question
<1>3. messages' = Append(messages, m)
  OBVIOUS
<1> HIDE DEF m
<1>4. /\ IsSequence(messages') /\ (\A i \in 1..Len(messages') : Fits(messages', i)) /\ Grown(messages, messages') /\ Len(messages') = n + 1
      /\ \A q : OpenIn(messages, q) /\ m.of # q => OpenIn(messages', q)
      /\ OpenIn(messages', n + 1)
  BY <1>1, <1>2, <1>3, OneSaid DEF TalkInv, TalkFits
<1>5. \A q : OpenIn(messages, q) => OpenIn(messages', q) /\ q # n + 1 /\ q # 0
  BY <1>1, <1>2, <1>4 DEF OpenIn
<1>6. turn = NoTurn => turn.at \notin Telling
  BY DEF NoTurn, Telling
<1>7. TalkFits'
  BY <1>4 DEF TalkFits
<1>8. QuestionsOpen'
  <2>1. waiting'.question # 0 => OpenIn(messages', waiting'.question)
    BY <1>4, <1>5 DEF TalkInv, QuestionsOpen
  <2>2. {"question", "left"} \subseteq DOMAIN waiting'
    BY DEF TalkInv, QuestionsOpen
  <2>3. CASE turn' = turn
    BY <1>4, <1>5, <2>1, <2>2, <2>3 DEF TalkInv, QuestionsOpen
  <2>4. CASE turn' # turn
    <3>1. waiting' = waiting /\ Marks \subseteq DOMAIN turn' /\ turn'.question = n + 1 /\ turn'.job \in BOOLEAN
      BY <1>4, <2>4
    <3>2. waiting.question # n + 1
      BY <1>1, <1>5 DEF TalkInv, QuestionsOpen
    <3> QED BY <1>4, <2>1, <2>2, <3>1, <3>2 DEF QuestionsOpen
  <2> QED BY <2>3, <2>4
<1>9. turn'.at \in Telling => Whole(messages', sent', turn'.question)
  BY <1>4, <1>6, WholeStays DEF TalkInv
<1> QED BY <1>7, <1>8, <1>9 DEF TalkInv

LEMMA AsideKeepsTalk ==
  ASSUME TalkInv, Aside
  PROVE  TalkInv'
<1>1. PICK n \in Nat : n = Len(messages)
  BY DEF TalkInv, TalkFits, IsSequence
<1> DEFINE m == Question([kind |-> "talk", said |-> <<>>], FALSE)
           a == AnswerTo(n + 1, NotMine)
<1>2. PICK one : one = Append(messages, m)
  OBVIOUS
<1>3. m.role = "user" /\ m.of = 0 /\ m.tracked \in BOOLEAN /\ a.role = "assistant" /\ a.of = n + 1 /\ a.tracked = FALSE
  BY DEF Question, AnswerTo
<1>4. messages' = one \/ messages' = Append(one, a)
  <2>1. PICK S : messages \in Seq(S)
    BY DEF TalkInv, TalkFits, IsSequence
  <2>2. PICK answered \in BOOLEAN : messages' = (messages \o <<m>>) \o IF answered THEN <<a>> ELSE <<>>
    BY <1>1 DEF Aside
  <2> HIDE DEF m, a
  <2>3. messages \o <<m>> = one /\ one \in Seq(S \cup {m})
    BY <1>2, <2>1
  <2>4. one \o <<a>> = Append(one, a) /\ one \o <<>> = one
    BY <2>3
  <2> QED BY <2>2, <2>3, <2>4
<1> HIDE DEF m, a
<1>5. /\ IsSequence(one) /\ (\A i \in 1..Len(one) : Fits(one, i)) /\ Grown(messages, one) /\ Len(one) = n + 1
      /\ \A q : OpenIn(messages, q) /\ m.of # q => OpenIn(one, q)
      /\ OpenIn(one, n + 1)
  BY <1>1, <1>2, <1>3, OneSaid DEF TalkInv, TalkFits
<1>6. \A q : OpenIn(messages, q) => OpenIn(one, q) /\ q # n + 1
  BY <1>1, <1>3, <1>5 DEF OpenIn
<1>7. /\ IsSequence(messages') /\ (\A i \in 1..Len(messages') : Fits(messages', i))
      /\ \A q : OpenIn(messages, q) => OpenIn(messages', q)
      /\ \A s, q : Whole(one, s, q) => Whole(messages', s, q)
  <2>1. CASE messages' = one
    BY <1>5, <1>6, <2>1
  <2>2. CASE messages' = Append(one, a)
    <3>1. one[n + 1].role = "user" /\ n + 1 \in 1..Len(one)
      BY <1>1, <1>5 DEF OpenIn
    <3>2. /\ IsSequence(messages') /\ (\A i \in 1..Len(messages') : Fits(messages', i)) /\ Grown(one, messages')
          /\ \A q : OpenIn(one, q) /\ a.of # q => OpenIn(messages', q)
      <4>1. a.tracked \in BOOLEAN /\ a.role = "assistant" /\ ~a.tracked /\ a.of \in 1..Len(one) /\ one[a.of].role = "user"
        BY <1>3, <3>1
      <4> QED BY <1>5, <2>2, <4>1, OneSaid
    <3>3. \A s, q : Whole(one, s, q) => Whole(messages', s, q)
      BY <3>2, WholeStays
    <3>4. \A q : OpenIn(messages, q) => OpenIn(messages', q)
      BY <1>3, <1>6, <3>2
    <3> QED BY <3>2, <3>3, <3>4
  <2> QED BY <1>4, <2>1, <2>2
<1>8. waiting' = waiting /\ turn' = turn /\ sent' = sent
  BY DEF Aside
<1>9. turn'.at \in Telling => Whole(messages', sent', turn'.question)
  <2>1. \A s, q : Whole(messages, s, q) => Whole(messages', s, q)
    BY <1>5, <1>7, WholeStays
  <2> QED BY <1>8, <2>1 DEF TalkInv
<1> QED BY <1>7, <1>8, <1>9 DEF TalkInv, TalkFits, QuestionsOpen

\* The end of a turn, with or without an answer
LEMMA EndKeepsTalk ==
  ASSUME TalkInv, Convert \/ Save \/ Stop
  PROVE  TalkInv'
<1>0. NoTurn.at \notin Telling /\ Nobody.question = 0 /\ {"question", "left"} \subseteq DOMAIN Nobody
  BY DEF NoTurn, Telling, Nobody
<1>1. CASE Convert \/ Save
  <2>1. turn # NoTurn /\ turn' = NoTurn /\ Settled
    BY <1>1 DEF Convert, Save, Over, NoTurn
  <2>2. PICK outcome : messages' = Append(messages, AnswerTo(turn.question, outcome))
    BY <1>1 DEF Convert, Save
  <2> DEFINE m == AnswerTo(turn.question, outcome)
  <2>3. m.role = "assistant" /\ m.of = turn.question /\ m.tracked = FALSE
    BY DEF AnswerTo
  <2>4. OpenIn(messages, turn.question) /\ turn.job \in BOOLEAN /\ (~turn.job => waiting.question # turn.question)
    BY <2>1 DEF TalkInv, QuestionsOpen
  <2>5. turn.question \in 1..Len(messages) /\ messages[turn.question].role = "user"
    BY <2>4 DEF OpenIn
  <2> HIDE DEF m
  <2>6. /\ IsSequence(messages') /\ (\A i \in 1..Len(messages') : Fits(messages', i))
        /\ \A q : OpenIn(messages, q) /\ m.of # q => OpenIn(messages', q)
    <3>1. messages' = Append(messages, m)
      BY <2>2 DEF m
    <3> QED BY <2>3, <2>5, <3>1, OneSaid DEF TalkInv, TalkFits
  <2>7. (turn.job /\ waiting' = Nobody) \/ (~turn.job /\ waiting' = waiting)
    BY <2>1 DEF Settled, Job
  <2>8. {"question", "left"} \subseteq DOMAIN waiting' /\ (waiting'.question # 0 => OpenIn(messages', waiting'.question))
    BY <1>0, <2>3, <2>4, <2>6, <2>7 DEF TalkInv, QuestionsOpen
  <2> QED BY <1>0, <2>1, <2>6, <2>8 DEF TalkInv, TalkFits, QuestionsOpen
<1>2. CASE Stop
  <2>1. messages' = messages /\ (turn' = turn \/ turn' = NoTurn) /\ (waiting' = waiting \/ waiting' = Nobody) /\ (turn' = turn => sent' = sent)
    <3>1. CASE turn # NoTurn /\ Over /\ Settled /\ UNCHANGED messages /\ Unsaid
      BY <3>1 DEF Over, Settled
    <3>2. CASE ~Job /\ waiting # Nobody /\ waiting' = Nobody /\ UNCHANGED <<messages, turn, sent>> /\ Unsaid
      BY <3>2
    <3> QED BY <1>2, <3>1, <3>2 DEF Stop
  <2>2. {"question", "left"} \subseteq DOMAIN waiting' /\ (waiting'.question # 0 => OpenIn(messages', waiting'.question))
    BY <1>0, <2>1 DEF TalkInv, QuestionsOpen
  <2>3. turn = NoTurn \/ turn'= NoTurn \/ (~turn.job => waiting'.question # turn.question)
    <3>1. OpenIn(messages, turn.question) => turn.question # 0
      BY DEF OpenIn
    <3> QED BY <1>0, <2>1, <3>1 DEF TalkInv, QuestionsOpen
  <2> QED BY <1>0, <2>1, <2>2, <2>3 DEF TalkInv, TalkFits, QuestionsOpen
<1> QED BY <1>1, <1>2

LEMMA OutsideKeepsTalk ==
  ASSUME TalkInv, Accept \/ Retry \/ Run \/ Send \/ Passing
  PROVE  TalkInv'
<1>0. /\ TalkFits /\ QuestionsOpen /\ (turn = NoTurn => turn.at \notin Telling) /\ Len(messages) \in Nat
  BY DEF TalkInv, TalkFits, IsSequence, NoTurn, Telling
<1>1. CASE Accept
  <2>1. PICK c : messages' = Append(messages, Question(c, TRUE)) /\ waiting' = [question |-> Len(messages'), left |-> TurnTime]
    BY <1>1 DEF Accept
  <2>2. waiting = Nobody /\ turn' = turn /\ sent' = sent
    BY <1>1 DEF Accept
  <2>3. {"question", "left"} \subseteq DOMAIN waiting' /\ waiting'.question = Len(messages')
    BY <2>1
  <2> QED BY <2>1, <2>2, <2>3, QuestionKeepsTalk
<1>2. CASE Retry
  <2>1. PICK n \in Nat : n = Len(messages)
    BY <1>0
  <2>2. messages' = messages /\ turn = NoTurn /\ turn' = turn /\ sent' = sent /\ waiting' = [question |-> n, left |-> TurnTime] /\ n # 0
        /\ messages[n].tracked
    BY <1>2, <2>1 DEF Retry, TalkInv, TalkFits, IsSequence
  <2>3. OpenIn(messages, n)
    <3>1. \A i \in 1..n : Fits(messages, i)
      BY <1>0, <2>1 DEF TalkFits
    <3>2. n \in 1..n /\ messages[n].role = "user"
      BY <2>2, <3>1 DEF Fits
    <3>3. \A i \in 1..n : messages[i].of # n
      BY <2>2, <3>1 DEF Fits
    <3> QED BY <2>1, <3>2, <3>3 DEF OpenIn
  <2>4. {"question", "left"} \subseteq DOMAIN waiting' /\ waiting'.question = n
    BY <2>2
  <2> QED BY <1>0, <2>2, <2>3, <2>4 DEF TalkInv, TalkFits, QuestionsOpen
<1>3. CASE Run
  <2>1. PICK docs, verify : turn' = Beginning(waiting.question, TRUE, docs, verify, waiting.left)
    BY <1>3 DEF Run
  <2>2. Marks \subseteq DOMAIN turn' /\ turn'.question = waiting.question /\ turn'.job = TRUE /\ turn'.at \notin Telling
    BY <2>1 DEF Beginning, Marks, Telling
  <2>3. messages' = messages /\ waiting' = waiting /\ waiting.question # 0
    BY <1>3 DEF Run
  <2> QED BY <1>0, <2>2, <2>3 DEF TalkInv, TalkFits, QuestionsOpen
<1>4. CASE Send
  <2>0. PICK c : messages' = Append(messages, Question(c, FALSE))
                 /\ \E verify \in Options(c) : turn' = Beginning(Len(messages'), FALSE, c.kind = "documents", verify, TurnTime)
    BY <1>4 DEF Send
  <2>1. PICK docs, verify : messages' = Append(messages, Question(c, FALSE)) /\ turn' = Beginning(Len(messages'), FALSE, docs, verify, TurnTime)
    BY <2>0
  <2>2. turn = NoTurn /\ waiting' = waiting /\ sent' = sent
    BY <1>4 DEF Send
  <2>3. Marks \subseteq DOMAIN turn' /\ turn'.question = Len(messages') /\ turn'.job \in BOOLEAN /\ turn'.at \notin Telling
    BY <2>1 DEF Beginning, Marks, Telling
  <2> QED BY <2>1, <2>2, <2>3, QuestionKeepsTalk
<1>5. CASE Passing
  <2>1. messages' = messages /\ sent' = sent
    BY <1>5 DEF Passing
  <2>2. CASE waiting' = [waiting EXCEPT !.left = waiting.left - 1] /\ turn' = turn
    <3>1. {"question", "left"} \subseteq DOMAIN waiting' /\ waiting'.question = waiting.question
      BY <1>0, <2>2 DEF QuestionsOpen
    <3> QED BY <1>0, <2>1, <2>2, <3>1 DEF TalkInv, TalkFits, QuestionsOpen
  <2>3. CASE turn.at \in {"evidence", "reply", "verify"} /\ turn' = [turn EXCEPT !.left = turn.left - 1] /\ waiting' = waiting
    <3>1. turn # NoTurn
      BY <2>3 DEF NoTurn
    <3>2. Marks \subseteq DOMAIN turn' /\ turn'.question = turn.question /\ turn'.job = turn.job /\ turn'.at = turn.at
      BY <1>0, <2>3, <3>1 DEF QuestionsOpen, Marks
    <3> QED BY <1>0, <2>1, <2>3, <3>1, <3>2 DEF TalkInv, TalkFits, QuestionsOpen
  <2> QED BY <1>5, <2>2, <2>3 DEF Passing, Elapse
<1> QED BY <1>1, <1>2, <1>3, <1>4, <1>5

LEMMA TalkBegins == AnsInit => TalkInv
<1> SUFFICES ASSUME AnsInit PROVE TalkInv
  OBVIOUS
<1>1. messages = <<>> /\ waiting = Nobody /\ turn = NoTurn
  BY DEF AnsInit
<1>2. IsSequence(messages) /\ Len(messages) = 0
  <2>1. messages \in Seq({})
    BY <1>1
  <2> QED BY <1>1, <2>1 DEF IsSequence
<1> QED BY <1>1, <1>2 DEF TalkInv, TalkFits, QuestionsOpen, NoTurn, Nobody, Telling

LEMMA TalkStep == TalkInv /\ [AnsNext]_ansVars => TalkInv'
<1> SUFFICES ASSUME TalkInv, [AnsNext]_ansVars PROVE TalkInv'
  OBVIOUS
<1>1. CASE UNCHANGED ansVars
  BY <1>1 DEF ansVars, TalkInv, TalkFits, QuestionsOpen
<1>2. CASE Aside
  BY <1>2, AsideKeepsTalk
<1>3. CASE Accept \/ Retry \/ Run \/ Send \/ Passing
  BY <1>3, OutsideKeepsTalk
<1>4. CASE Convert \/ Save \/ Stop
  BY <1>4, EndKeepsTalk
<1>5. CASE \/ CollectEvidence \/ Retrieve \/ Limit \/ Prepare \/ Generate \/ SkipVerification \/ BeginVerification
           \/ Check \/ Correct \/ Recheck
  BY <1>5, GoingOnKeepsTalk
<1> QED BY <1>1, <1>2, <1>3, <1>4, <1>5 DEF AnsNext

\* The model is given whole exchanges and then the question, once, whatever was cancelled, retried, asked
\* beside the job or cut off before (chat.send).
THEOREM HistoriesAreWhole == AnsSpec => []HistoryIsWhole
<1>1. TalkInv => HistoryIsWhole
  <2> SUFFICES ASSUME TalkInv, turn.at \in Telling PROVE HistoryIsWhole
    BY DEF HistoryIsWhole, Telling
  <2>1. Whole(messages, sent, turn.question)
    BY DEF TalkInv
  <2>2. Last(sent) = turn.question /\ IsInjective(sent) /\ DOMAIN sent = 1..Len(sent)
    BY <2>1 DEF Whole, Last
  <2> QED BY <2>1, <2>2 DEF Whole, HistoryIsWhole
<1> QED BY <1>1, TalkBegins, TalkStep, PTL DEF AnsSpec

-----------------------------------------------------------------------------
\* What a message does to a conversion

ValuesFor(f) == IF f \in {"date", "time"} THEN Nat \cup {Unset} ELSE DOMAIN Zones \cup {Unset}
States ==
  {s \in [fields : [Fields -> Nat \cup {Unset} \cup DOMAIN Zones], refs : [Fields -> Nat], occurrence : {"none", "earlier", "later"},
          role : DOMAIN Zones \cup {Unset}, open : SUBSET Fields, expecting : BOOLEAN] :
     \A f \in Fields : s.fields[f] \in ValuesFor(f)}

LEMMA NewStateIs == NewState \in States /\ \A f \in Fields : NewState.fields[f] = Unset
<1>1. NewState \in [fields : [Fields -> Nat \cup {Unset} \cup DOMAIN Zones], refs : [Fields -> Nat], occurrence : {"none", "earlier", "later"},
                    role : DOMAIN Zones \cup {Unset}, open : SUBSET Fields, expecting : BOOLEAN]
  BY DEF NewState
<1>2. \A f \in Fields : NewState.fields[f] = Unset /\ Unset \in ValuesFor(f)
  BY DEF NewState, ValuesFor
<1> QED BY <1>1, <1>2 DEF States

\* A field that a message speaks of is open again, as it was because only that was said, or the message's.
LEMMA ApplyIs ==
  ASSUME NEW s \in States, NEW a, NEW f \in Fields, a.field = f, a.value \in ValuesFor(f), NEW q \in Nat
  PROVE  LET t == Apply(s, a, q) IN
         /\ t \in States /\ t.role = s.role
         /\ \A g \in Fields \ {f} : t.fields[g] = s.fields[g] /\ t.refs[g] = s.refs[g]
         /\ \/ t.fields[f] = Unset
            \/ t.fields[f] = s.fields[f] /\ t.refs[f] = s.refs[f] /\ a.value = s.fields[f]
            \/ t.refs[f] = q /\ t.fields[f] = a.value
<1>1. PICK t : t = Apply(s, a, q)
  OBVIOUS
<1> DEFINE current == s.fields[f]
           agrees == current \in {Unset, a.value} \/ a.labeled \/ f \in s.open
           value == IF agrees THEN a.value ELSE Unset
           moved == f # "target" /\ value # current
           ref == IF value = Unset THEN 0 ELSE IF value = current THEN s.refs[f] ELSE q
<1>2. /\ s.fields \in [Fields -> Nat \cup {Unset} \cup DOMAIN Zones] /\ s.refs \in [Fields -> Nat] /\ s.role \in DOMAIN Zones \cup {Unset}
      /\ s.occurrence \in {"none", "earlier", "later"} /\ s.open \in SUBSET Fields /\ s.expecting \in BOOLEAN
      /\ \A g \in Fields : s.fields[g] \in ValuesFor(g)
      /\ s = [fields |-> s.fields, refs |-> s.refs, occurrence |-> s.occurrence, role |-> s.role, open |-> s.open, expecting |-> s.expecting]
  BY DEF States
<1>3. value \in ValuesFor(f) /\ ref \in Nat /\ ValuesFor(f) \subseteq Nat \cup {Unset} \cup DOMAIN Zones
  BY <1>2 DEF ValuesFor
<1>4. t = [s EXCEPT !.fields[f] = value, !.refs[f] = ref, !.occurrence = IF moved THEN "none" ELSE s.occurrence,
                    !.expecting = s.expecting /\ ~moved]
  BY <1>1, Zenon DEF Apply
<1>5. value = Unset \/ (value = current /\ ref = s.refs[f] /\ a.value = current) \/ (ref = q /\ value = a.value)
  OBVIOUS
<1> HIDE DEF value, ref, moved, current
<1>6. PICK fs, rs, o, e : /\ fs = [s.fields EXCEPT ![f] = value] /\ rs = [s.refs EXCEPT ![f] = ref]
                          /\ o = (IF moved THEN "none" ELSE s.occurrence) /\ e = (s.expecting /\ ~moved)
  OBVIOUS
<1>7. t = [fields |-> fs, refs |-> rs, occurrence |-> o, role |-> s.role, open |-> s.open, expecting |-> e]
  BY <1>2, <1>4, <1>6
<1>8. fs \in [Fields -> Nat \cup {Unset} \cup DOMAIN Zones] /\ \A g \in Fields : fs[g] = IF g = f THEN value ELSE s.fields[g]
  BY <1>2, <1>3, <1>6
<1>9. rs \in [Fields -> Nat] /\ \A g \in Fields : rs[g] = IF g = f THEN ref ELSE s.refs[g]
  BY <1>2, <1>3, <1>6
<1>10. o \in {"none", "earlier", "later"}
  BY <1>2, <1>6
<1>11. e \in BOOLEAN
  BY <1>2, <1>6
<1>12. t.fields = fs /\ t.refs = rs /\ t.role = s.role
  BY <1>7
<1>13. t \in States
  <2>1. t \in [fields : [Fields -> Nat \cup {Unset} \cup DOMAIN Zones], refs : [Fields -> Nat], occurrence : {"none", "earlier", "later"},
               role : DOMAIN Zones \cup {Unset}, open : SUBSET Fields, expecting : BOOLEAN]
    BY <1>2, <1>7, <1>8, <1>9, <1>10, <1>11
  <2>2. \A g \in Fields : t.fields[g] \in ValuesFor(g)
    BY <1>2, <1>3, <1>8, <1>12
  <2> QED BY <2>1, <2>2 DEF States
<1>14. \A g \in Fields \ {f} : t.fields[g] = s.fields[g] /\ t.refs[g] = s.refs[g]
  BY <1>8, <1>9, <1>12
<1>15. t.fields[f] = value /\ t.refs[f] = ref
  BY <1>8, <1>9, <1>12
<1> QED BY <1>1, <1>5, <1>12, <1>13, <1>14, <1>15 DEF current

\* What the first n attempts of a message may have made of a state
Owned(s, t, attempts, n, q) ==
  \A f \in Fields :
    \/ t.fields[f] = Unset
    \/ t.fields[f] = s.fields[f] /\ t.refs[f] = s.refs[f] /\ \A k \in 1..n : attempts[k].field = f => attempts[k].value = s.fields[f]
    \/ t.refs[f] = q /\ \E k \in 1..n : attempts[k].field \in {f, "zone"} /\ attempts[k].value = t.fields[f]

LEMMA ApplyOneIs ==
  ASSUME NEW s \in States, NEW attempts \in Seq(Attempts), NEW n \in Nat, n + 1 \in 1..Len(attempts), NEW t \in States, NEW q \in Nat
  PROVE  LET u == ApplyOne(t, attempts[n + 1], q) IN
         u \in States /\ u.role = t.role /\ (Owned(s, t, attempts, n, q) => Owned(s, u, attempts, n + 1, q))
<1>1. PICK a, u : a = attempts[n + 1] /\ u = ApplyOne(t, a, q)
  OBVIOUS
<1>2. a \in Attempts
  BY <1>1
<1>3. \A k \in 1..(n + 1) : k = n + 1 \/ k \in 1..n
  OBVIOUS
<1>4. CASE a.field \in Fields
  <2>1. PICK f \in Fields : f = a.field
    BY <1>4
  <2>2. a.value \in ValuesFor(f)
    BY <1>2, <2>1 DEF Attempts, ValuesFor, Fields
  <2>3. u = Apply(t, a, q)
    BY <1>1, <1>4 DEF ApplyOne
  <2>4. /\ u \in States /\ u.role = t.role
        /\ \A g \in Fields \ {f} : u.fields[g] = t.fields[g] /\ u.refs[g] = t.refs[g]
        /\ \/ u.fields[f] = Unset
           \/ u.fields[f] = t.fields[f] /\ u.refs[f] = t.refs[f] /\ a.value = t.fields[f]
           \/ u.refs[f] = q /\ u.fields[f] = a.value
    <3>1. LET v == Apply(t, a, q) IN
          /\ v \in States /\ v.role = t.role
          /\ \A g \in Fields \ {f} : v.fields[g] = t.fields[g] /\ v.refs[g] = t.refs[g]
          /\ \/ v.fields[f] = Unset
             \/ v.fields[f] = t.fields[f] /\ v.refs[f] = t.refs[f] /\ a.value = t.fields[f]
             \/ v.refs[f] = q /\ v.fields[f] = a.value
      <4>1. a.field = f
        BY <2>1
      <4> QED BY <2>2, <4>1, ApplyIs
    <3> QED BY <2>3, <3>1
  <2>5. ASSUME Owned(s, t, attempts, n, q), NEW g \in Fields
        PROVE  \/ u.fields[g] = Unset
               \/ u.fields[g] = s.fields[g] /\ u.refs[g] = s.refs[g] /\ \A k \in 1..(n + 1) : attempts[k].field = g => attempts[k].value = s.fields[g]
               \/ u.refs[g] = q /\ \E k \in 1..(n + 1) : attempts[k].field \in {g, "zone"} /\ attempts[k].value = u.fields[g]
    <3>1. \/ t.fields[g] = Unset
          \/ t.fields[g] = s.fields[g] /\ t.refs[g] = s.refs[g] /\ \A k \in 1..n : attempts[k].field = g => attempts[k].value = s.fields[g]
          \/ t.refs[g] = q /\ \E k \in 1..n : attempts[k].field \in {g, "zone"} /\ attempts[k].value = t.fields[g]
      BY <2>5 DEF Owned
    <3>2. n + 1 \in 1..(n + 1) /\ \A k \in 1..n : k \in 1..(n + 1)
      OBVIOUS
    <3>3. CASE g # f
      <4>1. attempts[n + 1].field # g /\ u.fields[g] = t.fields[g] /\ u.refs[g] = t.refs[g]
        BY <1>1, <2>1, <2>4, <3>3
      <4> QED BY <1>3, <3>1, <3>2, <4>1
    <3>4. CASE g = f
      <4>1. attempts[n + 1].field = g /\ attempts[n + 1].value = a.value
        BY <1>1, <2>1, <3>4
      <4>2. CASE u.refs[g] = q /\ u.fields[g] = a.value
        BY <3>2, <4>1, <4>2
      <4>3. CASE u.fields[g] = t.fields[g] /\ u.refs[g] = t.refs[g] /\ a.value = t.fields[g]
        BY <1>3, <3>1, <3>2, <4>1, <4>3
      <4> QED BY <2>4, <3>4, <4>2, <4>3
    <3> QED BY <3>3, <3>4
  <2>6. Owned(s, t, attempts, n, q) => Owned(s, u, attempts, n + 1, q)
    BY <2>5 DEF Owned
  <2> QED BY <1>1, <2>4, <2>6
<1>5. CASE a.field \notin Fields
  <2>1. u.fields = t.fields /\ u.refs = t.refs /\ u.role = t.role /\ u \in States
    <3>1. CASE a.field = "occurrence" /\ t.expecting
      <4>1. u = [t EXCEPT !.occurrence = a.value]
        BY <1>1, <1>5, <3>1 DEF ApplyOne
      <4>2. a.value \in {"none", "earlier", "later"}
        BY <1>2, <3>1 DEF Attempts
      <4> QED BY <4>1, <4>2 DEF States
    <3>2. CASE ~(a.field = "occurrence" /\ t.expecting)
      BY <1>1, <1>5, <3>2 DEF ApplyOne
    <3> QED BY <3>1, <3>2
  <2>2. Owned(s, t, attempts, n, q) => Owned(s, u, attempts, n + 1, q)
    <3>1. \A g \in Fields : attempts[n + 1].field # g
      BY <1>1, <1>5
    <3>2. \A k \in 1..n : k \in 1..(n + 1)
      OBVIOUS
    <3> QED BY <1>3, <2>1, <3>1, <3>2 DEF Owned
  <2> QED BY <1>1, <2>1, <2>2
<1> QED BY <1>4, <1>5

-----------------------------------------------------------------------------
\* The attempts of a message one after the other

Settle(done, attempts) ==
  LET settled == \/ done.role \in {done.fields[f] : f \in Known(done)}
                 \/ (\A k \in DOMAIN attempts : attempts[k].field # "zone") /\ {"source", "target"} \subseteq Known(done)
  IN IF settled THEN [done EXCEPT !.role = Unset] ELSE done

LEMMA AppliedExists ==
  ASSUME NEW s \in States, NEW attempts \in Seq(Attempts), NEW q \in Nat
  PROVE  \E applied \in [0..Len(attempts) -> States] :
           /\ ApplyAll(s, attempts, q) = Settle(AssignZones(applied[Len(attempts)], attempts, q), attempts)
           /\ applied[0] = s
           /\ \A i \in 1..Len(attempts) : applied[i] = ApplyOne(applied[i - 1], attempts[i], q)
<1> DEFINE n == Len(attempts)
           Value(i, f) == IF i = 0 THEN s ELSE ApplyOne(f[i - 1], attempts[i], q)
           step == [i \in 0..n |-> [f \in [0..n -> States] |-> Value(i, f)]]
           Is(g) == g = [i \in 0..n |-> Value(i, g)]
<1>1. n \in Nat
  OBVIOUS
<1>2. ASSUME NEW i \in 0..n, NEW f \in [0..n -> States] PROVE Value(i, f) \in States
  <2>1. CASE i = 0
    BY <2>1
  <2>2. CASE i # 0
    <3>1. PICK m \in Nat : m = i - 1 /\ m + 1 = i /\ m \in 0..n /\ m + 1 \in 1..n
      BY <1>1, <2>2
    <3>2. f[m] \in States
      BY <3>1
    <3>3. ApplyOne(f[m], attempts[m + 1], q) \in States
      BY <3>1, <3>2, ApplyOneIs
    <3> QED BY <2>2, <3>1, <3>3
  <2> QED BY <2>1, <2>2
<1>3. step \in [0..n -> [[0..n -> States] -> States]] /\ \A i \in 0..n : \A f \in [0..n -> States] : step[i][f] = Value(i, f)
  <2> HIDE DEF Value
  <2> QED BY <1>2
<1>4. LooksBack(n, States, step)
  <2> SUFFICES ASSUME NEW i \in 0..n, NEW f \in [0..n -> States], NEW g \in [0..n -> States], \A j \in 0..(i - 1) : f[j] = g[j]
               PROVE  step[i][f] = step[i][g]
    BY DEF LooksBack
  <2>1. i # 0 => i - 1 \in 0..(i - 1)
    BY <1>1
  <2>2. Value(i, f) = Value(i, g)
    BY <2>1
  <2> HIDE DEF step, Value
  <2> QED BY <1>3, <2>2
<1> HIDE DEF step
<1>5. PICK f : IsRecursive(n, States, step, f)
  <2> HIDE DEF n
  <2> QED BY <1>1, <1>3, <1>4, RecursionExists
<1>6. f \in [0..n -> States] /\ \A i \in 0..n : f[i] = Value(i, f)
  <2> HIDE DEF Value
  <2> QED BY <1>3, <1>5 DEF IsRecursive
<1>7. Is(f)
  <2> HIDE DEF Value
  <2> QED BY <1>6
<1> DEFINE applied == CHOOSE g : Is(g)
<1>8. Is(applied)
  <2> HIDE DEF Is
  <2> QED BY <1>7
<1>9. ApplyAll(s, attempts, q) = Settle(AssignZones(applied[n], attempts, q), attempts)
  BY DEF ApplyAll, Settle
<1> HIDE DEF applied
<1>10. \A i \in 0..n : applied[i] = Value(i, applied)
  <2> HIDE DEF Value
  <2> QED BY <1>8
<1>11. applied = [i \in 0..n |-> Value(i, applied)]
  BY <1>8
<1>12. applied[0] = s /\ \A i \in 1..n : applied[i] = ApplyOne(applied[i - 1], attempts[i], q)
  BY <1>1, <1>10
<1>13. applied[0] \in States /\ \A i \in 0..(n - 1) : applied[i] \in States => applied[i + 1] \in States
  <2> SUFFICES ASSUME NEW i \in 0..(n - 1), applied[i] \in States PROVE applied[i + 1] \in States
    BY <1>12
  <2>1. i \in Nat /\ i + 1 \in 1..n /\ (i + 1) - 1 = i
    BY <1>1
  <2>2. ApplyOne(applied[i], attempts[i + 1], q) \in States
    BY <2>1, ApplyOneIs
  <2>3. applied[i + 1] = ApplyOne(applied[(i + 1) - 1], attempts[i + 1], q)
    BY <1>12, <2>1
  <2> QED BY <2>1, <2>2, <2>3
<1>14. \A i \in 0..n : applied[i] \in States
  <2> DEFINE good == {i \in 0..n : applied[i] \in States}
  <2>1. good \in SUBSET (0..n) /\ 0 \in good /\ \A i \in 0..(n - 1) : i \in good => i + 1 \in good
    BY <1>1, <1>13
  <2> HIDE DEF good
  <2>2. good = 0..n
    <3> HIDE DEF n
    <3> QED BY <1>1, <2>1, UpFromZero
  <2> QED BY <2>2 DEF good
<1>15. applied \in [0..n -> States]
  <2> HIDE DEF Value
  <2> QED BY <1>11, <1>14
<1> QED BY <1>9, <1>12, <1>15

LEMMA AppliedIsOwned ==
  ASSUME NEW s \in States, NEW attempts \in Seq(Attempts), NEW q \in Nat, NEW applied \in [0..Len(attempts) -> States],
         applied[0] = s, \A i \in 1..Len(attempts) : applied[i] = ApplyOne(applied[i - 1], attempts[i], q)
  PROVE  applied[Len(attempts)].role = s.role /\ Owned(s, applied[Len(attempts)], attempts, Len(attempts), q)
<1>1. PICK n \in Nat : n = Len(attempts)
  OBVIOUS
<1> DEFINE good == {i \in 0..n : applied[i].role = s.role /\ Owned(s, applied[i], attempts, i, q)}
<1>2. 0 \in good
  <2>1. \A k \in 1..0 : FALSE
    OBVIOUS
  <2> QED BY <1>1, <2>1 DEF Owned
<1>3. ASSUME NEW i \in 0..(n - 1), i \in good PROVE i + 1 \in good
  <2>1. i \in Nat /\ i + 1 \in 1..Len(attempts) /\ (i + 1) - 1 = i /\ i \in 0..Len(attempts) /\ i + 1 \in 0..n
    BY <1>1
  <2>2. PICK t \in States : t = applied[i]
    BY <2>1
  <2>3. applied[i + 1] = ApplyOne(t, attempts[i + 1], q)
    <3>1. applied[i + 1] = ApplyOne(applied[(i + 1) - 1], attempts[i + 1], q)
      BY <2>1
    <3> QED BY <2>1, <2>2, <3>1
  <2>4. applied[i + 1].role = t.role /\ (Owned(s, t, attempts, i, q) => Owned(s, applied[i + 1], attempts, i + 1, q))
    <3>1. PICK u : u = applied[i + 1] /\ u = ApplyOne(t, attempts[i + 1], q)
      BY <2>3
    <3>2. LET v == ApplyOne(t, attempts[i + 1], q) IN
          v.role = t.role /\ (Owned(s, t, attempts, i, q) => Owned(s, v, attempts, i + 1, q))
      BY <2>1, ApplyOneIs
    <3>3. u.role = t.role /\ (Owned(s, t, attempts, i, q) => Owned(s, u, attempts, i + 1, q))
      BY <3>1, <3>2, Zenon
    <3> QED BY <3>1, <3>3, Zenon
  <2> QED BY <1>3, <2>1, <2>2, <2>4
<1> HIDE DEF good
<1>4. good = 0..n
  <2>1. good \in SUBSET (0..n)
    BY DEF good
  <2> QED BY <1>2, <1>3, <2>1, UpFromZero
<1>5. n \in good
  BY <1>4
<1> QED BY <1>1, <1>5 DEF good

\* A zone in waiting was there before or is one that the message says without a role.
RoleOwned(s, t, attempts) ==
  \/ t.role = Unset \/ t.role = s.role
  \/ \E k \in 1..Len(attempts) : attempts[k].field = "zone" /\ attempts[k].value = t.role

LEMMA RoleReplaced ==
  ASSUME NEW s \in States, NEW r \in DOMAIN Zones \cup {Unset}
  PROVE  [s EXCEPT !.role = r] \in States /\ [s EXCEPT !.role = r].fields = s.fields /\ [s EXCEPT !.role = r].refs = s.refs
         /\ [s EXCEPT !.role = r].role = r
BY DEF States

LEMMA AssignZonesIs ==
  ASSUME NEW s \in States, NEW attempts \in Seq(Attempts), NEW q \in Nat, NEW t \in States, t.role = s.role,
         Owned(s, t, attempts, Len(attempts), q)
  PROVE  LET u == AssignZones(t, attempts, q) IN
         u \in States /\ Owned(s, u, attempts, Len(attempts), q) /\ RoleOwned(s, u, attempts)
<1>1. PICK n \in Nat : n = Len(attempts) /\ DOMAIN attempts = 1..n
  OBVIOUS
<1>2. PICK missing, fresh : /\ missing = {"source", "target"} \ Known(t)
                            /\ fresh = {k \in DOMAIN attempts : /\ attempts[k].field = "zone" /\ attempts[k].value # Unset
                                                                /\ \A f \in Fields : attempts[k].value # t.fields[f]}
  OBVIOUS
<1>3. PICK zone : zone = attempts[CHOOSE k \in fresh : TRUE]
  OBVIOUS
<1>4. PICK u : u = AssignZones(t, attempts, q)
  OBVIOUS
<1>5. u = IF Cardinality(fresh) # 1 THEN t
          ELSE IF Cardinality(missing) = 1
            THEN [Apply(t, [zone EXCEPT !.field = CHOOSE f \in missing : TRUE], q) EXCEPT !.role = Unset]
          ELSE [t EXCEPT !.role = zone.value]
  BY <1>2, <1>3, <1>4 DEF AssignZones
<1>6. CASE Cardinality(fresh) # 1
  <2>1. u = t
    BY <1>5, <1>6
  <2> QED BY <1>4, <2>1 DEF RoleOwned
<1>7. CASE Cardinality(fresh) = 1
  <2>0. Cardinality({}) # 1
    <3>1. Cardinality({}) = 0
      BY FS_EmptySet, Zenon
    <3> QED BY <3>1
  <2>1. fresh # {}
    BY <1>7, <2>0, Zenon
  <2>2. PICK k \in fresh : k = CHOOSE j \in fresh : TRUE
    BY <2>1
  <2>3. k \in 1..n /\ zone = attempts[k] /\ zone.field = "zone" /\ zone.value # Unset
    BY <1>1, <1>2, <1>3, <2>2
  <2>4. zone \in [field : {"source", "target", "zone"}, value : DOMAIN Zones \cup {Unset}, labeled : BOOLEAN]
    <3>1. zone \in Attempts
      BY <1>1, <2>3
    <3> QED BY <2>3, <3>1 DEF Attempts
  <2>5. CASE Cardinality(missing) # 1
    <3>1. u = [t EXCEPT !.role = zone.value]
      BY <1>5, <1>7, <2>5
    <3>2. zone.value \in DOMAIN Zones \cup {Unset}
      BY <2>4
    <3>3. u \in States /\ u.fields = t.fields /\ u.refs = t.refs /\ u.role = zone.value
      BY <3>1, <3>2, RoleReplaced
    <3>4. Owned(s, u, attempts, Len(attempts), q)
      BY <3>3 DEF Owned
    <3>5. RoleOwned(s, u, attempts)
      BY <1>1, <2>3, <3>3 DEF RoleOwned
    <3> QED BY <1>4, <3>3, <3>4, <3>5
  <2>6. CASE Cardinality(missing) = 1
    <3>1. missing # {}
      BY <2>0, <2>6, Zenon
    <3>2. PICK f \in missing : f = CHOOSE g \in missing : TRUE
      BY <3>1
    <3>3. f \in {"source", "target"} /\ f \in Fields /\ t.fields[f] = Unset
      BY <1>2, <3>2 DEF Known, Fields
    <3>4. PICK a : a = [zone EXCEPT !.field = f]
      OBVIOUS
    <3>5. a.field = f /\ a.value = zone.value /\ a.value \in ValuesFor(f)
      BY <2>4, <3>3, <3>4 DEF ValuesFor
    <3>6. PICK v : v = Apply(t, a, q)
      OBVIOUS
    <3>7. /\ v \in States
          /\ \A g \in Fields \ {f} : v.fields[g] = t.fields[g] /\ v.refs[g] = t.refs[g]
          /\ \/ v.fields[f] = Unset
             \/ v.fields[f] = t.fields[f] /\ v.refs[f] = t.refs[f] /\ a.value = t.fields[f]
             \/ v.refs[f] = q /\ v.fields[f] = a.value
      BY <3>3, <3>5, <3>6, ApplyIs
    <3>8. u = [v EXCEPT !.role = Unset]
      BY <1>5, <1>7, <2>6, <3>2, <3>4, <3>6
    <3>9. Unset \in DOMAIN Zones \cup {Unset}
      OBVIOUS
    <3>10. u \in States /\ u.fields = v.fields /\ u.refs = v.refs /\ u.role = Unset
      BY <3>7, <3>8, <3>9, RoleReplaced
    <3>11. v.fields[f] = Unset \/ (v.refs[f] = q /\ \E j \in 1..n : attempts[j].field \in {f, "zone"} /\ attempts[j].value = v.fields[f])
      BY <2>3, <3>3, <3>5, <3>7
    <3>12. Owned(s, u, attempts, Len(attempts), q)
      <4> SUFFICES ASSUME NEW g \in Fields
                   PROVE  \/ u.fields[g] = Unset
                          \/ u.fields[g] = s.fields[g] /\ u.refs[g] = s.refs[g] /\ \A j \in 1..n : attempts[j].field = g => attempts[j].value = s.fields[g]
                          \/ u.refs[g] = q /\ \E j \in 1..n : attempts[j].field \in {g, "zone"} /\ attempts[j].value = u.fields[g]
        BY <1>1 DEF Owned
      <4>1. CASE g = f
        BY <3>10, <3>11, <4>1
      <4>2. CASE g # f
        <5>1. u.fields[g] = t.fields[g] /\ u.refs[g] = t.refs[g]
          BY <3>7, <3>10, <4>2
        <5>2. \/ t.fields[g] = Unset
              \/ t.fields[g] = s.fields[g] /\ t.refs[g] = s.refs[g] /\ \A j \in 1..n : attempts[j].field = g => attempts[j].value = s.fields[g]
              \/ t.refs[g] = q /\ \E j \in 1..n : attempts[j].field \in {g, "zone"} /\ attempts[j].value = t.fields[g]
          BY <1>1 DEF Owned
        <5> QED BY <5>1, <5>2
      <4> QED BY <4>1, <4>2
    <3> QED BY <1>4, <3>10, <3>12 DEF RoleOwned
  <2> QED BY <2>5, <2>6
<1> QED BY <1>6, <1>7

\* What a message makes of a state: a field is open, or as it was and nothing else was said for it,
\* or as the message says.
LEMMA ApplyAllIs ==
  ASSUME NEW s \in States, NEW attempts \in Seq(Attempts), NEW q \in Nat
  PROVE  LET t == ApplyAll(s, attempts, q) IN
         t \in States /\ Owned(s, t, attempts, Len(attempts), q) /\ RoleOwned(s, t, attempts)
<1>1. PICK applied \in [0..Len(attempts) -> States] :
        /\ ApplyAll(s, attempts, q) = Settle(AssignZones(applied[Len(attempts)], attempts, q), attempts)
        /\ applied[0] = s
        /\ \A i \in 1..Len(attempts) : applied[i] = ApplyOne(applied[i - 1], attempts[i], q)
  BY AppliedExists
<1>2. PICK t \in States : t = applied[Len(attempts)]
  <2>1. Len(attempts) \in 0..Len(attempts)
    OBVIOUS
  <2> QED BY <2>1
<1>3. t.role = s.role /\ Owned(s, t, attempts, Len(attempts), q)
  BY <1>1, <1>2, AppliedIsOwned
<1>4. PICK u : u = AssignZones(t, attempts, q)
  OBVIOUS
<1>5. u \in States /\ Owned(s, u, attempts, Len(attempts), q) /\ RoleOwned(s, u, attempts)
  BY <1>3, <1>4, AssignZonesIs
<1>6. PICK v : v = Settle(u, attempts)
  OBVIOUS
<1>7. v = u \/ v = [u EXCEPT !.role = Unset]
  BY <1>6 DEF Settle
<1>8. CASE v = u
  BY <1>1, <1>2, <1>4, <1>5, <1>6, <1>8
<1>9. CASE v = [u EXCEPT !.role = Unset]
  <2>1. Unset \in DOMAIN Zones \cup {Unset}
    OBVIOUS
  <2>2. v \in States /\ v.fields = u.fields /\ v.refs = u.refs /\ v.role = Unset
    BY <1>5, <1>9, <2>1, RoleReplaced
  <2>3. Owned(s, v, attempts, Len(attempts), q) /\ RoleOwned(s, v, attempts)
    BY <1>5, <2>2 DEF Owned, RoleOwned
  <2> QED BY <1>1, <1>2, <1>4, <1>6, <2>2, <2>3
<1> QED BY <1>7, <1>8, <1>9

-----------------------------------------------------------------------------
\* Instants

\* Where nothing overflows, the two readings of a wall time give the instants at which the clocks show it, and no others.
LEMMA CandidatesAre ==
  ASSUME ConversionAssumption, NEW z \in DOMAIN Zones, NEW w \in Int, ~Overflows(z, w)
  PROVE  /\ Candidates(z, w) = {u \in 0..LastMoment : Local(z, u) = w}
         /\ \E a, b : Candidates(z, w) \subseteq {a, b}
<1>1. PICK c, x, y : c = Zones[z].change /\ x = Zones[z].before /\ y = Zones[z].after /\ c \in Int /\ x \in Int /\ y \in Int
  BY DEF ConversionAssumption
<1>2. PICK a, b : a = Instant(z, w, 0) /\ b = Instant(z, w, 1)
  OBVIOUS
<1>3. /\ a = w - IF w < c + Max({x, y}) THEN x ELSE y
      /\ b = w - IF w < c + Min({x, y}) THEN x ELSE y
  BY <1>1, <1>2 DEF Instant
<1>4. PICK m \in Int : m = Max({x, y}) /\ m >= x /\ m >= y
  BY <1>1, MaxOfTwo
<1>5. PICK l \in Int : l = Min({x, y}) /\ l <= x /\ l <= y
  BY <1>1, MinOfTwo
<1>6. Readings(z, w) = {a, b}
  BY <1>2 DEF Readings
<1>7. \A u : Local(z, u) = u + IF u < c THEN x ELSE y
  BY <1>1 DEF Local, Offset
<1>8. \A u \in {a, b} : u \in 0..LastMoment
  BY <1>6 DEF Overflows, InRange
<1>9. ASSUME NEW u \in 0..LastMoment, Local(z, u) = w PROVE u \in {a, b}
  <2>1. LastMoment \in Nat
    BY DEF ConversionAssumption
  <2>2. u \in Int
    BY <2>1
  <2>3. CASE u < c
    <3>1. w = u + x
      BY <1>7, <1>9, <2>3
    <3>2. w < c + m
      BY <1>1, <1>4, <2>2, <2>3, <3>1
    <3>3. a = w - x
      BY <1>3, <1>4, <3>2
    <3> QED BY <1>1, <2>2, <3>1, <3>3
  <2>4. CASE ~(u < c)
    <3>1. w = u + y
      BY <1>7, <1>9, <2>4
    <3>2. ~(w < c + l)
      BY <1>1, <1>5, <2>2, <2>4, <3>1
    <3>3. b = w - y
      BY <1>3, <1>5, <3>2
    <3> QED BY <1>1, <2>2, <3>1, <3>3
  <2> QED BY <2>3, <2>4
<1>10. Candidates(z, w) = {u \in {a, b} : Local(z, u) = w}
  BY <1>6 DEF Candidates
<1> QED BY <1>8, <1>9, <1>10

\* One of two, or both
LEMMA OneOrBoth ==
  ASSUME NEW S, NEW a, NEW b, S \subseteq {a, b}, S # {}
  PROVE  /\ Cardinality(S) = 2 \/ \E x : S = {x}
         /\ Cardinality(S) = 1 => \E x : S = {x}
<1>1. IsFiniteSet({a, b})
  <2>1. IsFiniteSet({a})
    BY FS_Singleton, Zenon
  <2>2. IsFiniteSet({a} \cup {b})
    BY <2>1, FS_AddElement
  <2>3. {a} \cup {b} = {a, b}
    OBVIOUS
  <2> QED BY <2>2, <2>3
<1>2. IsFiniteSet(S)
  <2>1. S \in SUBSET {a, b}
    OBVIOUS
  <2> QED BY <1>1, <2>1, FS_Subset, Zenon
<1>3. Cardinality(S) = 1 => \E x : S = {x}
  BY <1>2, FS_Singleton, Zenon
<1>4. ASSUME ~ \E x : S = {x} PROVE Cardinality(S) = 2
  <2>1. a # b /\ S = {a} \cup {b}
    <3>1. a \in S /\ b \in S /\ a # b
      <4>1. S = {a} \/ S = {b} \/ (a \in S /\ b \in S)
        OBVIOUS
      <4>2. a = b => S = {a}
        OBVIOUS
      <4> QED BY <1>4, <4>1, <4>2
    <3> QED BY <3>1
  <2>2. IsFiniteSet({a}) /\ Cardinality({a}) = 1
    BY FS_Singleton, Zenon
  <2>3. b \notin {a}
    BY <2>1
  <2>4. Cardinality({a} \cup {b}) = Cardinality({a}) + 1
    BY <2>2, <2>3, FS_AddElement
  <2> QED BY <2>1, <2>2, <2>4
<1> QED BY <1>3, <1>4

Outcomed(o, s) ==
  /\ o.status \in {"unavailable", "clarified", "converted"}
  /\ o.state \in States /\ o.state.fields = s.fields /\ o.state.refs = s.refs /\ o.state.role = s.role
  /\ InstantIsReal(o)

LEMMA FinishIs ==
  ASSUME ConversionAssumption, NEW s \in States, NEW data \in BOOLEAN
  PROVE  Outcomed(Finish(s, data), s)
<1> DEFINE known == Known(s)
      z == s.fields["source"]
      complete == {"date", "time", "source"} \subseteq known
      found == Candidates(z, Wall(s))
      verdict == IF ~complete THEN "incomplete"
                 ELSE IF Overflows(z, Wall(s)) THEN "range"
                 ELSE IF found = {} THEN "gap"
                 ELSE IF Cardinality(found) = 2 /\ s.occurrence = "none" THEN "twice" ELSE "one"
      instant == IF s.occurrence = "later" THEN Max(found) ELSE Min(found)
      beyond == verdict = "one" /\ "target" \in known /\ ~InRange(Local(s.fields["target"], instant))
      reopened == verdict \in {"range", "gap"} \/ beyond
      needs == (Fields \ known) \cup (CASE verdict = "range" \/ beyond -> {"date"} [] verdict = "gap" -> {"time"}
                                        [] verdict = "twice" -> {"occurrence"} [] OTHER -> {})
                 \cup IF s.role # Unset THEN {"zone_role"} ELSE {}
      left == [s EXCEPT !.open = IF reopened THEN {"date", "time"} ELSE {}, !.expecting = "occurrence" \in needs,
                        !.occurrence = IF verdict = "one" /\ Cardinality(found) = 1 THEN "none" ELSE s.occurrence]
      regions == ("target" \in known /\ ~Fixed(s.fields["target"])) \/ (complete /\ ~Fixed(z))
<1>1. PICK o : o = Finish(s, data)
  OBVIOUS
<1>2. o = IF regions /\ ~data THEN [status |-> "unavailable", state |-> left, instant |-> 0]
          ELSE IF needs # {} THEN [status |-> "clarified", state |-> left, instant |-> 0]
          ELSE [status |-> "converted", state |-> left, instant |-> instant]
  BY <1>1, Zenon DEF Finish
<1>3. left \in States /\ left.fields = s.fields /\ left.refs = s.refs /\ left.role = s.role
      /\ left.occurrence = (IF verdict = "one" /\ Cardinality(found) = 1 THEN "none" ELSE s.occurrence)
  <2>1. PICK op, e, oc : /\ op = (IF reopened THEN {"date", "time"} ELSE {}) /\ e = ("occurrence" \in needs)
                         /\ oc = (IF verdict = "one" /\ Cardinality(found) = 1 THEN "none" ELSE s.occurrence)
    OBVIOUS
  <2>2. left = [s EXCEPT !.open = op, !.expecting = e, !.occurrence = oc]
    BY <2>1
  <2>3. op \in SUBSET Fields
    <3> HIDE DEF reopened
    <3> QED BY <2>1 DEF Fields
  <2>4. e \in BOOLEAN
    <3> HIDE DEF needs
    <3> QED BY <2>1
  <2>5. oc \in {"none", "earlier", "later"}
    <3> HIDE DEF verdict, found
    <3> QED BY <2>1 DEF States
  <2> HIDE DEF left
  <2>6. left \in States /\ left.fields = s.fields /\ left.refs = s.refs /\ left.role = s.role /\ left.occurrence = oc
    BY <2>2, <2>3, <2>4, <2>5 DEF States
  <2> HIDE DEF verdict, found
  <2> QED BY <2>1, <2>6
<1> HIDE DEF left, regions
<1>4. o.status \in {"unavailable", "clarified", "converted"} /\ o.state = left
  <2> HIDE DEF needs, instant
  <2> QED BY <1>2
<1>5. ASSUME o.status = "converted" PROVE InstantIsReal(o)
  <2>1. needs = {} /\ o.instant = instant
    <3> HIDE DEF needs, instant
    <3> QED BY <1>2, <1>5
  <2>2. Fields \subseteq known /\ verdict \notin {"range", "gap", "twice"}
    <3> HIDE DEF verdict, beyond, known
    <3>1. Fields \subseteq known
      BY <2>1
    <3>2. (CASE verdict = "range" \/ beyond -> {"date"} [] verdict = "gap" -> {"time"}
             [] verdict = "twice" -> {"occurrence"} [] OTHER -> {}) = {}
      BY <2>1
    <3> QED BY <3>1, <3>2
  <2>3. complete
    <3> HIDE DEF known
    <3> QED BY <2>2 DEF Fields
  <2>4. verdict = "one" /\ ~Overflows(z, Wall(s)) /\ found # {} /\ ~(Cardinality(found) = 2 /\ s.occurrence = "none")
    <3> HIDE DEF complete, found, known
    <3> QED BY <2>2, <2>3
  <2>5. z \in DOMAIN Zones /\ Wall(s) \in Int
    <3>1. \A f \in Fields : s.fields[f] # Unset /\ s.fields[f] \in ValuesFor(f)
      BY <2>2 DEF Known, States
    <3>2. s.fields["date"] \in Nat /\ s.fields["time"] \in Nat /\ z \in DOMAIN Zones
      BY <3>1 DEF ValuesFor, Fields
    <3>3. DayHours \in Nat
      BY DEF ConversionAssumption
    <3> QED BY <3>2, <3>3 DEF Wall
  <2>6. PICK real : real = {u \in 0..LastMoment : Local(left.fields["source"], u) = Wall(left)}
    OBVIOUS
  <2>7. Wall(left) = Wall(s) /\ left.fields["source"] = z
    BY <1>3 DEF Wall
  <2>8. found = real /\ \E a, b : found \subseteq {a, b}
    <3>1. /\ Candidates(z, Wall(s)) = {u \in 0..LastMoment : Local(z, u) = Wall(s)}
          /\ \E a, b : Candidates(z, Wall(s)) \subseteq {a, b}
      <4> HIDE DEF z
      <4> QED BY <2>4, <2>5, CandidatesAre
    <3> QED BY <2>6, <2>7, <3>1
  <2>9. /\ Cardinality(real) = 2 \/ \E x : real = {x}
        /\ Cardinality(real) = 1 => \E x : real = {x}
    <3> HIDE DEF found
    <3> QED BY <2>4, <2>8, OneOrBoth
  <2>10. LastMoment \in Nat /\ real \in SUBSET (0..LastMoment) /\ real \in SUBSET Nat /\ real # {}
    <3> HIDE DEF found
    <3>1. LastMoment \in Nat
      BY DEF ConversionAssumption
    <3> QED BY <2>4, <2>6, <2>8, <3>1
  <2>11. /\ Max(real) \in real /\ \A u \in real : u <= Max(real)
         /\ Min(real) \in real /\ \A u \in real : u >= Min(real)
    <3>1. Max(real) \in real /\ \A u \in real : u <= Max(real)
      BY <2>10, MaxIs
    <3>2. Min(real) \in real /\ \A u \in real : Min(real) <= u
      BY <2>10, MinIs
    <3> QED BY <2>10, <3>1, <3>2
  <2>12. o.instant = (IF s.occurrence = "later" THEN Max(real) ELSE Min(real))
    <3> HIDE DEF found
    <3> QED BY <2>1, <2>8
  <2>13. left.occurrence = (IF Cardinality(real) = 1 THEN "none" ELSE s.occurrence)
    <3> HIDE DEF verdict, found
    <3> QED BY <1>3, <2>4, <2>8
  <2>14. Cardinality(real) = 2 => s.occurrence # "none"
    <3> HIDE DEF found
    <3> QED BY <2>4, <2>8
  <2>15. o.instant \in real
    BY <2>11, <2>12
  <2>16. left.occurrence = "none" => real = {o.instant}
    <3>1. left.occurrence = "none" => \E x : real = {x}
      BY <2>9, <2>13, <2>14
    <3> QED BY <2>15, <3>1
  <2>17. \A u \in real : IF left.occurrence = "later" THEN u <= o.instant ELSE u >= o.instant
    <3>1. CASE \E x : real = {x}
      <4>1. \A u \in real : u = o.instant /\ u \in Nat
        BY <2>10, <2>15, <3>1
      <4> QED BY <4>1
    <3>2. CASE ~ \E x : real = {x}
      <4>1. left.occurrence = s.occurrence
        BY <2>9, <2>13, <3>2
      <4> QED BY <2>11, <2>12, <4>1
    <3> QED BY <3>1, <3>2
  <2> HIDE DEF instant
  <2> QED BY <1>4, <2>6, <2>15, <2>16, <2>17 DEF InstantIsReal
<1>6. InstantIsReal(o)
  BY <1>5 DEF InstantIsReal
<1> QED BY <1>1, <1>3, <1>4, <1>6 DEF Outcomed

-----------------------------------------------------------------------------
\* What a state owes to the questions C of its conversion

\* The parts of FieldsOwned, and the same of the zone in waiting
SaidBefore(ms, C, f, r, v) == \E q \in C : q <= r /\ (v \in SaidFor(ms[q].content, f) \/ v \in SaidFor(ms[q].content, "zone"))
OwnedBy(ms, C, s) ==
  /\ \A f \in Known(s) :
       /\ s.refs[f] \in C /\ SaidBefore(ms, C, f, s.refs[f], s.fields[f])
       /\ \A q \in C : q > s.refs[f] => SaidFor(ms[q].content, f) \subseteq {s.fields[f]}
  /\ s.role # Unset => \E q \in C : s.role \in SaidFor(ms[q].content, "zone")

\* The attempts read from a message are what it says, or the zone in waiting, or cannot be read.
ReadFrom(attempts, c, s) ==
  /\ \A k \in 1..Len(attempts) :
       \/ attempts[k].value = Unset
       \/ attempts[k].value = s.role /\ attempts[k].field # "zone"
       \/ attempts[k].value \in SaidFor(c, attempts[k].field)
  /\ \A f \in Fields : \A v \in SaidFor(c, f) : \E k \in 1..Len(attempts) : attempts[k].field = f /\ attempts[k].value = v

LEMMA MessageOwns ==
  ASSUME NEW ms, NEW q \in Nat, NEW C \in SUBSET Nat, \A x \in C : x < q, NEW s \in States, NEW t \in States, NEW attempts \in Seq(Attempts),
         OwnedBy(ms, C, s), Owned(s, t, attempts, Len(attempts), q), RoleOwned(s, t, attempts), ReadFrom(attempts, ms[q].content, s)
  PROVE  OwnedBy(ms, C \cup {q}, t)
<1>1. PICK c, n, D : c = ms[q].content /\ n = Len(attempts) /\ D = C \cup {q}
  OBVIOUS
<1>2. \A x \in D : x \in Nat /\ x <= q /\ (x = q \/ x \in C)
  BY <1>1
<1>3. ASSUME NEW f \in Known(t)
      PROVE  /\ t.refs[f] \in D /\ SaidBefore(ms, D, f, t.refs[f], t.fields[f])
             /\ \A x \in D : x > t.refs[f] => SaidFor(ms[x].content, f) \subseteq {t.fields[f]}
  <2>1. f \in Fields /\ t.fields[f] # Unset
    BY <1>3 DEF Known
  <2>2. CASE t.fields[f] = s.fields[f] /\ t.refs[f] = s.refs[f] /\ \A k \in 1..n : attempts[k].field = f => attempts[k].value = s.fields[f]
    <3>1. f \in Known(s)
      BY <2>1, <2>2 DEF Known
    <3>2. /\ s.refs[f] \in C /\ SaidBefore(ms, C, f, s.refs[f], s.fields[f])
          /\ \A x \in C : x > s.refs[f] => SaidFor(ms[x].content, f) \subseteq {s.fields[f]}
      BY <3>1 DEF OwnedBy
    <3>3. SaidFor(c, f) \subseteq {s.fields[f]}
      <4> SUFFICES ASSUME NEW v \in SaidFor(c, f) PROVE v = s.fields[f]
        OBVIOUS
      <4>1. PICK k \in 1..n : attempts[k].field = f /\ attempts[k].value = v
        BY <1>1, <2>1 DEF ReadFrom
      <4> QED BY <2>2, <4>1
    <3>4. SaidBefore(ms, D, f, s.refs[f], s.fields[f])
      BY <1>1, <3>2 DEF SaidBefore
    <3>5. \A x \in D : x > s.refs[f] => SaidFor(ms[x].content, f) \subseteq {s.fields[f]}
      BY <1>1, <1>2, <3>2, <3>3
    <3>6. s.refs[f] \in D
      BY <1>1, <3>2
    <3> QED BY <2>2, <3>4, <3>5, <3>6
  <2>3. CASE t.refs[f] = q /\ \E k \in 1..n : attempts[k].field \in {f, "zone"} /\ attempts[k].value = t.fields[f]
    <3>1. PICK k \in 1..n : attempts[k].field \in {f, "zone"} /\ attempts[k].value = t.fields[f]
      BY <2>3
    <3>2. SaidBefore(ms, D, f, q, t.fields[f])
      <4>1. CASE attempts[k].value = s.role /\ attempts[k].field # "zone"
        <5>1. PICK x \in C : s.role \in SaidFor(ms[x].content, "zone")
          BY <2>1, <3>1, <4>1 DEF OwnedBy
        <5>2. x \in D /\ x <= q
          BY <1>1, <1>2, <5>1
        <5> QED BY <3>1, <4>1, <5>1, <5>2 DEF SaidBefore
      <4>2. CASE attempts[k].value \in SaidFor(c, attempts[k].field)
        <5>1. q \in D /\ q <= q
          BY <1>1
        <5> QED BY <1>1, <3>1, <4>2, <5>1 DEF SaidBefore
      <4> QED BY <1>1, <2>1, <3>1, <4>1, <4>2 DEF ReadFrom
    <3>3. \A x \in D : ~(x > q)
      BY <1>2
    <3> QED BY <1>1, <2>3, <3>2, <3>3
  <2>4. \/ t.fields[f] = s.fields[f] /\ t.refs[f] = s.refs[f] /\ \A k \in 1..n : attempts[k].field = f => attempts[k].value = s.fields[f]
        \/ t.refs[f] = q /\ \E k \in 1..n : attempts[k].field \in {f, "zone"} /\ attempts[k].value = t.fields[f]
    BY <1>1, <2>1 DEF Owned
  <2> QED BY <2>2, <2>3, <2>4
<1>4. ASSUME t.role # Unset PROVE \E x \in D : t.role \in SaidFor(ms[x].content, "zone")
  <2>1. CASE t.role = s.role
    <3>1. \E x \in C : t.role \in SaidFor(ms[x].content, "zone")
      BY <1>4, <2>1 DEF OwnedBy
    <3> QED BY <1>1, <3>1
  <2>2. CASE \E k \in 1..n : attempts[k].field = "zone" /\ attempts[k].value = t.role
    <3>1. PICK k \in 1..n : attempts[k].field = "zone" /\ attempts[k].value = t.role
      BY <2>2
    <3>2. t.role \in SaidFor(c, "zone")
      <4>1. \/ attempts[k].value = Unset
            \/ attempts[k].value = s.role /\ attempts[k].field # "zone"
            \/ attempts[k].value \in SaidFor(c, attempts[k].field)
        BY <1>1 DEF ReadFrom
      <4> QED BY <1>4, <3>1, <4>1
    <3> QED BY <1>1, <3>2
  <2> QED BY <1>1, <1>4, <2>1, <2>2 DEF RoleOwned
<1> QED BY <1>1, <1>3, <1>4 DEF OwnedBy

LEMMA AnswersAre ==
  ASSUME NEW c \in Messages, NEW s \in States, c.kind # "role" \/ Answers(c, s) # <<>>
  PROVE  Answers(c, s) \in Seq(Attempts) /\ ReadFrom(Answers(c, s), c, s)
<1>0. c.kind \in Kinds /\ c.said \in Seq(Attempts) /\ (c.kind = "role" => Len(c.said) = 1 /\ c.said[1].field \in {"source", "target"})
  BY DEF Messages
<1>1. CASE c.kind # "role"
  <2>1. Answers(c, s) = c.said
    BY <1>1 DEF Answers
  <2>2. \A f : SaidFor(c, f) = {c.said[k].value : k \in {k \in DOMAIN c.said : c.said[k].field = f}}
    BY <1>1 DEF SaidFor
  <2>3. DOMAIN c.said = 1..Len(c.said)
    BY <1>0
  <2> QED BY <1>0, <2>1, <2>2, <2>3 DEF ReadFrom
<1>2. CASE c.kind = "role"
  <2>1. \A f : SaidFor(c, f) = {}
    BY <1>2 DEF SaidFor
  <2>2. CASE s.role # Unset
    <3>1. PICK a : a = [c.said[1] EXCEPT !.value = s.role]
      OBVIOUS
    <3>2. Answers(c, s) = <<a>>
      BY <1>2, <2>2, <3>1 DEF Answers
    <3>3. c.said[1] \in Attempts
      BY <1>0, <1>2
    <3>4. c.said[1] \in [field : {"source", "target", "zone"}, value : DOMAIN Zones \cup {Unset}, labeled : BOOLEAN]
      BY <1>0, <1>2, <3>3 DEF Attempts
    <3>5. s.role \in DOMAIN Zones \cup {Unset}
      BY DEF States
    <3>6. a \in [field : {"source", "target", "zone"}, value : DOMAIN Zones \cup {Unset}, labeled : BOOLEAN]
      BY <3>1, <3>4, <3>5
    <3>7. a.value = s.role /\ a.field # "zone"
      BY <1>0, <1>2, <3>1, <3>4
    <3>8. a \in Attempts
      BY <3>6 DEF Attempts
    <3>9. <<a>> \in Seq(Attempts) /\ Len(<<a>>) = 1 /\ \A k \in 1..Len(<<a>>) : <<a>>[k] = a
      BY <3>8
    <3> QED BY <2>1, <3>2, <3>7, <3>9 DEF ReadFrom
  <2>3. CASE s.role = Unset
    <3>1. PICK a : a = Said("zone", Unset, FALSE)
      OBVIOUS
    <3>2. Answers(c, s) = <<a>>
      BY <1>2, <2>3, <3>1 DEF Answers
    <3>3. a \in [field : {"source", "target", "zone"}, value : DOMAIN Zones \cup {Unset}, labeled : BOOLEAN] /\ a.value = Unset
      BY <3>1 DEF Said
    <3>4. a \in Attempts
      BY <3>3 DEF Attempts
    <3>5. <<a>> \in Seq(Attempts) /\ Len(<<a>>) = 1 /\ \A k \in 1..Len(<<a>>) : <<a>>[k] = a
      BY <3>4
    <3> QED BY <2>1, <3>2, <3>3, <3>5 DEF ReadFrom
  <2> QED BY <2>2, <2>3
<1> QED BY <1>1, <1>2

-----------------------------------------------------------------------------
\* The questions of a conversion

\* The answer to a question that is a step of a conversion follows the question.
Follows(ms) == \A i \in 1..Len(ms) : Ongoing(ms[i]) => ms[i].of \in 1..(i - 1)
ChainFrom(ms, i, f) ==
  IF i = 0 \/ ~Ongoing(ms[i]) THEN {} ELSE {ms[i].of} \cup IF ms[ms[i].of].content.kind = "request" THEN {} ELSE f[ms[i].of - 1]

LEMMA ChainsExist ==
  ASSUME NEW ms, IsSequence(ms), Follows(ms)
  PROVE  \A i \in 0..Len(ms) : Chains(ms)[i] = ChainFrom(ms, i, Chains(ms)) /\ Chains(ms)[i] \subseteq 1..(i - 1)
<1> DEFINE n == Len(ms)
           S == SUBSET Nat
           step == [i \in 0..n |-> [f \in [0..n -> S] |-> ChainFrom(ms, i, f)]]
           Is(g) == g = [i \in 0..n |-> IF i = 0 \/ ~Ongoing(ms[i]) THEN {}
                                        ELSE LET q == ms[i].of IN {q} \cup IF ms[q].content.kind = "request" THEN {} ELSE g[q - 1]]
<1>1. n \in Nat /\ {} \in S
  BY DEF IsSequence
<1>2. ASSUME NEW i \in 0..n, i # 0, Ongoing(ms[i]) PROVE ms[i].of \in Nat /\ ms[i].of - 1 \in 0..(i - 1) /\ ms[i].of - 1 \in 0..n
  <2>1. i \in 1..n /\ ms[i].of \in 1..(i - 1)
    BY <1>1, <1>2 DEF Follows
  <2> QED BY <1>1, <2>1
<1>3. ASSUME NEW i \in 0..n, NEW f \in [0..n -> S] PROVE ChainFrom(ms, i, f) \in S
  BY <1>2 DEF ChainFrom
<1>4. step \in [0..n -> [[0..n -> S] -> S]] /\ \A i \in 0..n : \A f \in [0..n -> S] : step[i][f] = ChainFrom(ms, i, f)
  BY <1>3
<1> HIDE DEF step
<1>5. LooksBack(n, S, step)
  <2> SUFFICES ASSUME NEW i \in 0..n, NEW f \in [0..n -> S], NEW g \in [0..n -> S], \A j \in 0..(i - 1) : f[j] = g[j]
               PROVE  step[i][f] = step[i][g]
    BY DEF LooksBack
  <2>1. ChainFrom(ms, i, f) = ChainFrom(ms, i, g)
    BY <1>2 DEF ChainFrom
  <2> QED BY <1>4, <2>1
<1>6. PICK f : IsRecursive(n, S, step, f)
  <2> HIDE DEF n, S
  <2> QED BY <1>1, <1>4, <1>5, RecursionExists
<1>7. f \in [0..n -> S] /\ \A i \in 0..n : f[i] = ChainFrom(ms, i, f)
  BY <1>4, <1>6 DEF IsRecursive
<1>8. Is(f)
  BY <1>7 DEF ChainFrom
<1>9. Chains(ms) = CHOOSE g : Is(g)
  BY DEF Chains
<1>10. Is(Chains(ms))
  <2> HIDE DEF Is
  <2> QED BY <1>8, <1>9
<1>11. \A i \in 0..n : Chains(ms)[i] = ChainFrom(ms, i, Chains(ms))
  <2> HIDE DEF n
  <2> QED BY <1>10, Zenon DEF ChainFrom
<1> DEFINE good == {i \in 0..n : Chains(ms)[i] \subseteq 1..(i - 1)}
<1>12. ASSUME NEW i \in 0..n, \A j \in 0..(i - 1) : j \in good PROVE i \in good
  <2>1. CASE i = 0 \/ ~Ongoing(ms[i])
    <3>1. Chains(ms)[i] = {}
      BY <1>11, <2>1 DEF ChainFrom
    <3> QED BY <3>1
  <2>2. CASE ~(i = 0 \/ ~Ongoing(ms[i]))
    <3>1. PICK q \in Nat : q = ms[i].of /\ q \in 1..(i - 1)
      BY <1>1, <2>2 DEF Follows
    <3>2. q - 1 \in 0..(i - 1)
      BY <1>1, <3>1
    <3>3. Chains(ms)[q - 1] \subseteq 1..(q - 1 - 1)
      BY <1>12, <3>2
    <3>4. Chains(ms)[i] \subseteq {q} \cup Chains(ms)[q - 1]
      BY <1>11, <2>2, <3>1 DEF ChainFrom
    <3>5. \A x \in 1..(q - 1 - 1) : x \in 1..(i - 1)
      BY <1>1, <3>1
    <3>6. Chains(ms)[i] \subseteq 1..(i - 1)
      BY <3>1, <3>3, <3>4, <3>5
    <3> QED BY <3>6
  <2> QED BY <2>1, <2>2
<1>13. good = 0..n
  <2>1. good \in SUBSET (0..n)
    OBVIOUS
  <2> HIDE DEF good, n
  <2> QED BY <1>1, <1>12, <2>1, UpFromBelow
<1>14. \A i \in 0..n : Chains(ms)[i] \subseteq 1..(i - 1)
  BY <1>13
<1> QED BY <1>11, <1>14

\* A message more leaves the chains of those before as they are.
LEMMA ChainsGrow ==
  ASSUME NEW ms, NEW more, IsSequence(ms), Grown(ms, more), Follows(ms), Follows(more)
  PROVE  \A i \in 0..Len(ms) : Chains(more)[i] = Chains(ms)[i]
<1>1. PICK n \in Nat, m \in Nat : n = Len(ms) /\ m = Len(more) /\ n <= m
  BY DEF Grown
<1>2. \A i \in 0..n : i \in 0..m /\ Chains(ms)[i] = ChainFrom(ms, i, Chains(ms))
  <2>1. \A i \in 0..n : Chains(ms)[i] = ChainFrom(ms, i, Chains(ms))
    BY <1>1, ChainsExist
  <2> QED BY <1>1, <2>1
<1>3. \A i \in 0..m : Chains(more)[i] = ChainFrom(more, i, Chains(more))
  <2>1. IsSequence(more)
    BY DEF Grown
  <2> QED BY <1>1, <2>1, ChainsExist
<1>4. \A i \in 1..n : more[i] = ms[i]
  BY <1>1 DEF Grown
<1> DEFINE good == {i \in 0..n : Chains(more)[i] = Chains(ms)[i]}
<1>5. ASSUME NEW i \in 0..n, \A j \in 0..(i - 1) : j \in good PROVE i \in good
  <2>1. CASE i = 0
    BY <1>2, <1>3, <2>1 DEF ChainFrom
  <2>2. CASE i # 0
    <3>1. i \in 1..n /\ more[i] = ms[i]
      BY <1>4, <2>2
    <3>2. CASE ~Ongoing(ms[i])
      BY <1>2, <1>3, <3>1, <3>2 DEF ChainFrom
    <3>3. CASE Ongoing(ms[i])
      <4>1. PICK q \in 1..(i - 1) : q = ms[i].of
        BY <1>1, <3>1, <3>3 DEF Follows
      <4>2. q \in 1..n /\ q - 1 \in 0..(i - 1)
        BY <3>1, <4>1
      <4>3. more[q] = ms[q] /\ Chains(more)[q - 1] = Chains(ms)[q - 1]
        BY <1>4, <1>5, <4>2
      <4>4. ChainFrom(more, i, Chains(more)) = ChainFrom(ms, i, Chains(ms))
        BY <3>1, <4>1, <4>3 DEF ChainFrom
      <4> QED BY <1>2, <1>3, <4>4
    <3> QED BY <3>2, <3>3
  <2> QED BY <2>1, <2>2
<1> HIDE DEF good
<1>6. good = 0..n
  <2>1. good \in SUBSET (0..n)
    BY DEF good
  <2> QED BY <1>5, <2>1, UpFromBelow
<1> QED BY <1>1, <1>6 DEF good

-----------------------------------------------------------------------------
\* The outcomes of a conversation

\* The outcome of a message is a state that its conversation owes it, and an instant that is real.
FineAt(ms, i) ==
  Ongoing(ms[i]) =>
    /\ ms[i].of \in 1..(i - 1) /\ ms[i].outcome.state \in States
    /\ OwnedBy(ms, Chains(ms)[i], ms[i].outcome.state) /\ InstantIsReal(ms[i].outcome)
Owes(ms) ==
  /\ IsSequence(ms)
  /\ \A i \in 1..Len(ms) : ms[i].content \in Messages /\ FineAt(ms, i)

\* What a state owes is what FieldsOwned says of it.
LEMMA OwedIsOwned ==
  ASSUME NEW ms, NEW i, OwnedBy(ms, Chains(ms)[i], ms[i].outcome.state)
  PROVE  FieldsOwned(ms, i)
<1>1. PICK C, s : C = Chains(ms)[i] /\ s = ms[i].outcome.state
  OBVIOUS
<1>2. ASSUME NEW f \in Known(s)
      PROVE  /\ s.refs[f] \in C
             /\ s.fields[f] \in UNION {SaidFor(ms[q].content, g) : q \in {q \in C : q <= s.refs[f]}, g \in {f, "zone"}}
             /\ \A q \in C : q > s.refs[f] => SaidFor(ms[q].content, f) \subseteq {s.fields[f]}
  <2>1. /\ s.refs[f] \in C /\ SaidBefore(ms, C, f, s.refs[f], s.fields[f])
        /\ \A q \in C : q > s.refs[f] => SaidFor(ms[q].content, f) \subseteq {s.fields[f]}
    BY <1>1, <1>2 DEF OwnedBy
  <2>2. PICK q \in C : q <= s.refs[f] /\ \E g \in {f, "zone"} : s.fields[f] \in SaidFor(ms[q].content, g)
    BY <2>1 DEF SaidBefore
  <2>3. PICK g \in {f, "zone"} : s.fields[f] \in SaidFor(ms[q].content, g)
    BY <2>2
  <2>4. q \in {x \in C : x <= s.refs[f]}
    BY <2>2
  <2>5. s.fields[f] \in UNION {SaidFor(ms[x].content, h) : x \in {x \in C : x <= s.refs[f]}, h \in {f, "zone"}}
    BY <2>3, <2>4
  <2> QED BY <2>1, <2>5
<1> QED BY <1>1, <1>2 DEF FieldsOwned

\* The outcome of a message that goes on with a conversion C, or begins one
LEMMA ReplyIs ==
  ASSUME ConversionAssumption, NEW ms, NEW q \in Nat, ms[q].content \in Messages, NEW C \in SUBSET Nat, \A x \in C : x < q,
         NEW before, Pending(before) => before.state \in States /\ OwnedBy(ms, C, before.state), NEW data \in BOOLEAN,
         NEW o, o = Respond(ms[q].content, before, q, data), o # NotMine, o.status # "cancelled"
  PROVE  /\ o.state \in States /\ InstantIsReal(o)
         /\ \/ ms[q].content.kind = "request" /\ OwnedBy(ms, {q}, o.state)
            \/ ms[q].content.kind # "request" /\ Pending(before) /\ OwnedBy(ms, C \cup {q}, o.state)
<1>1. PICK c : c = ms[q].content /\ c \in Messages
  OBVIOUS
<1>2. c.said \in Seq(Attempts) /\ (c.kind = "role" => Len(c.said) = 1 /\ c.said[1].field \in {"source", "target"})
  BY <1>1 DEF Messages
<1>3. ASSUME NEW D \in SUBSET Nat, \A x \in D : x < q, NEW s \in States, OwnedBy(ms, D, s), NEW attempts \in Seq(Attempts),
             ReadFrom(attempts, ms[q].content, s), o = Finish(ApplyAll(s, attempts, q), data)
      PROVE  o.state \in States /\ InstantIsReal(o) /\ OwnedBy(ms, D \cup {q}, o.state)
  <2>1. PICK t : t = ApplyAll(s, attempts, q)
    OBVIOUS
  <2>2. t \in States /\ Owned(s, t, attempts, Len(attempts), q) /\ RoleOwned(s, t, attempts)
    <3>1. LET u == ApplyAll(s, attempts, q) IN
            u \in States /\ Owned(s, u, attempts, Len(attempts), q) /\ RoleOwned(s, u, attempts)
      BY ApplyAllIs
    <3> QED BY <2>1, <3>1, Zenon
  <2>3. OwnedBy(ms, D \cup {q}, t)
    BY <1>3, <2>2, MessageOwns
  <2>4. Outcomed(Finish(t, data), t)
    BY <2>2, FinishIs
  <2>5. o.state \in States /\ o.state.fields = t.fields /\ o.state.refs = t.refs /\ o.state.role = t.role /\ InstantIsReal(o)
    BY <1>3, <2>1, <2>4 DEF Outcomed
  <2>6. OwnedBy(ms, D \cup {q}, o.state)
    <3>1. PICK u : u = o.state /\ u.fields = t.fields /\ u.refs = t.refs /\ u.role = t.role
      BY <2>5
    <3>2. Known(u) = Known(t)
      BY <3>1 DEF Known
    <3>3. OwnedBy(ms, D \cup {q}, u)
      BY <2>3, <3>1, <3>2 DEF OwnedBy
    <3> QED BY <3>1, <3>3
  <2> QED BY <2>5, <2>6
<1>4. \/ c.kind = "cancel" /\ o.status = "cancelled"
      \/ c.kind = "request" /\ o = Finish(ApplyAll(NewState, c.said, q), data)
      \/ /\ c.kind \in {"reply", "role"} /\ Pending(before) /\ Answers(c, before.state) # <<>>
         /\ o = Finish(ApplyAll(before.state, Answers(c, before.state), q), data)
  <2>1. o = Respond(c, before, q, data)
    BY <1>1
  <2> QED BY <2>1 DEF Respond, Begins
<1>5. CASE c.kind = "request" /\ o = Finish(ApplyAll(NewState, c.said, q), data)
  <2>1. Answers(c, NewState) = c.said
    BY <1>5 DEF Answers
  <2>2. NewState \in States /\ OwnedBy(ms, {}, NewState)
    <3>1. Known(NewState) = {} /\ NewState.role = Unset
      BY NewStateIs DEF Known, NewState
    <3> QED BY <3>1, NewStateIs DEF OwnedBy
  <2>3. c.said \in Seq(Attempts) /\ ReadFrom(c.said, c, NewState)
    BY <1>1, <1>5, <2>1, <2>2, AnswersAre
  <2>4. \A x \in {} : x < q
    OBVIOUS
  <2>5. o.state \in States /\ InstantIsReal(o) /\ OwnedBy(ms, {} \cup {q}, o.state)
    BY <1>1, <1>3, <1>5, <2>2, <2>3, <2>4
  <2>6. {} \cup {q} = {q}
    OBVIOUS
  <2> QED BY <1>1, <1>5, <2>5, <2>6
<1>6. CASE /\ c.kind \in {"reply", "role"} /\ Pending(before) /\ Answers(c, before.state) # <<>>
           /\ o = Finish(ApplyAll(before.state, Answers(c, before.state), q), data)
  <2>1. before.state \in States /\ OwnedBy(ms, C, before.state)
    BY <1>6
  <2>2. Answers(c, before.state) \in Seq(Attempts) /\ ReadFrom(Answers(c, before.state), c, before.state)
    BY <1>1, <1>6, <2>1, AnswersAre
  <2>3. o.state \in States /\ InstantIsReal(o) /\ OwnedBy(ms, C \cup {q}, o.state)
    BY <1>1, <1>3, <1>6, <2>1, <2>2
  <2> QED BY <1>1, <1>6, <2>3
<1> QED BY <1>4, <1>5, <1>6

\* A message more leaves the outcomes before it as they were.
Continues(ms, n, m, more) ==
  /\ IsSequence(more) /\ Len(more) = n + 1 /\ more[n + 1] = m /\ Follows(more)
  /\ \A i \in 1..(n + 1) : more[i].content \in Messages
  /\ \A i \in 1..n : more[i] = ms[i] /\ FineAt(more, i)
  /\ \A i \in 0..n : Chains(more)[i] = Chains(ms)[i] /\ Chains(ms)[i] \subseteq 1..(i - 1)

LEMMA OneMoreOwes ==
  ASSUME NEW ms, Owes(ms), NEW m, NEW more, more = Append(ms, m), m.content \in Messages,
         Ongoing(m) => m.of \in 1..Len(ms), NEW n \in Nat, n = Len(ms)
  PROVE  Continues(ms, n, m, more)
<1>1. PICK S : ms \in Seq(S)
  BY DEF Owes, IsSequence
<1>2. n \in Nat /\ n = Len(ms)
  OBVIOUS
<1>3. ms \in Seq(S \cup {m}) /\ m \in S \cup {m}
  BY <1>1
<1>4. /\ more \in Seq(S \cup {m}) /\ Len(more) = n + 1 /\ more[n + 1] = m /\ \A i \in 1..n : more[i] = ms[i]
  BY <1>2, <1>3
<1>5. IsSequence(ms) /\ IsSequence(more)
  BY <1>1, <1>4 DEF IsSequence
<1>6. \A i \in 1..(n + 1) : i = n + 1 \/ i \in 1..n
  BY <1>2
<1>7. Follows(ms)
  BY DEF Owes, FineAt, Follows
<1>8. Follows(more)
  <2>1. ASSUME NEW i \in 1..n, Ongoing(more[i]) PROVE more[i].of \in 1..(i - 1)
    BY <1>2, <1>4, <1>7, <2>1 DEF Follows
  <2>2. Ongoing(more[n + 1]) => more[n + 1].of \in 1..(n + 1 - 1)
    BY <1>2, <1>4
  <2>3. \A i \in 1..Len(more) : i = n + 1 \/ i \in 1..n
    BY <1>4, <1>6
  <2> QED BY <2>1, <2>2, <2>3 DEF Follows
<1>9. Grown(ms, more)
  BY <1>2, <1>4, <1>5 DEF Grown
<1>10. \A i \in 0..n : Chains(more)[i] = Chains(ms)[i] /\ Chains(ms)[i] \subseteq 1..(i - 1)
  <2>1. \A i \in 0..Len(ms) : Chains(more)[i] = Chains(ms)[i]
    BY <1>5, <1>7, <1>8, <1>9, ChainsGrow
  <2>2. \A i \in 0..Len(ms) : Chains(ms)[i] \subseteq 1..(i - 1)
    BY <1>5, <1>7, ChainsExist
  <2> QED BY <1>2, <2>1, <2>2
<1>11. \A i \in 1..(n + 1) : more[i].content \in Messages
  <2>1. \A i \in 1..n : ms[i].content \in Messages
    BY <1>2 DEF Owes
  <2> QED BY <1>4, <1>6, <2>1
<1>12. ASSUME NEW i \in 1..n PROVE FineAt(more, i)
  <2> SUFFICES ASSUME Ongoing(ms[i])
               PROVE  /\ ms[i].of \in 1..(i - 1) /\ ms[i].outcome.state \in States
                      /\ OwnedBy(more, Chains(more)[i], ms[i].outcome.state) /\ InstantIsReal(ms[i].outcome)
    BY <1>4 DEF FineAt
  <2>1. /\ ms[i].of \in 1..(i - 1) /\ ms[i].outcome.state \in States
        /\ OwnedBy(ms, Chains(ms)[i], ms[i].outcome.state) /\ InstantIsReal(ms[i].outcome)
    BY <1>2 DEF Owes, FineAt
  <2>2. PICK C, s : C = Chains(ms)[i] /\ s = ms[i].outcome.state
    OBVIOUS
  <2>3. Chains(more)[i] = C /\ \A x \in C : x \in 1..n
    BY <1>2, <1>10, <2>2
  <2>4. \A x \in C : more[x].content = ms[x].content
    BY <1>4, <2>3
  <2>5. OwnedBy(ms, C, s)
    BY <2>1, <2>2
  <2>6. OwnedBy(more, C, s)
    BY <2>4, <2>5 DEF OwnedBy, SaidBefore
  <2> QED BY <2>1, <2>2, <2>3, <2>6
<1> QED BY <1>4, <1>5, <1>8, <1>10, <1>11, <1>12 DEF Continues

LEMMA SaidOwes ==
  ASSUME NEW ms, Owes(ms), NEW m, NEW more, more = Append(ms, m), m.content \in Messages, m.outcome = NotMine
  PROVE  Owes(more)
<1>1. ~Ongoing(m)
  BY DEF Ongoing
<1>2. PICK n \in Nat : n = Len(ms)
  BY DEF Owes, IsSequence
<1>3. /\ IsSequence(more) /\ Len(more) = n + 1 /\ more[n + 1] = m
      /\ \A i \in 1..Len(more) : more[i].content \in Messages
      /\ \A i \in 1..n : FineAt(more, i)
  <2>1. Continues(ms, n, m, more)
    BY <1>1, <1>2, OneMoreOwes
  <2> QED BY <1>2, <2>1 DEF Continues
<1>4. \A i \in 1..(n + 1) : i = n + 1 \/ i \in 1..n
  BY <1>2
<1>5. FineAt(more, n + 1)
  BY <1>1, <1>3 DEF FineAt
<1> QED BY <1>3, <1>4, <1>5 DEF Owes

LEMMA AnsweredOwes ==
  ASSUME ConversionAssumption, NEW ms, Owes(ms), NEW q \in 1..Len(ms), NEW data \in BOOLEAN,
         NEW before, before = NotMine \/ (q > 1 /\ before = ms[q - 1].outcome),
         NEW o, o = Respond(ms[q].content, before, q, data), o # NotMine,
         NEW m, m.of = q, m.outcome = o, m.content \in Messages, NEW more, more = Append(ms, m)
  PROVE  Owes(more)
<1>1. PICK n \in Nat : n = Len(ms)
  BY DEF Owes, IsSequence
<1>2. q \in 1..n /\ q \in Nat /\ q - 1 \in 0..n
  BY <1>1
<1>3. /\ IsSequence(more) /\ Len(more) = n + 1 /\ more[n + 1] = m /\ Follows(more)
      /\ \A i \in 1..Len(more) : more[i].content \in Messages
      /\ \A i \in 1..n : more[i] = ms[i] /\ FineAt(more, i)
      /\ \A i \in 0..n : Chains(more)[i] = Chains(ms)[i] /\ Chains(ms)[i] \subseteq 1..(i - 1)
  <2>1. Ongoing(m) => m.of \in 1..Len(ms)
    BY <1>1
  <2>2. Continues(ms, n, m, more)
    BY <1>1, <2>1, OneMoreOwes
  <2> QED BY <1>1, <2>2 DEF Continues
<1>4. PICK C : C = Chains(more)[q - 1] /\ C = Chains(ms)[q - 1] /\ C \subseteq 1..(q - 1 - 1)
  BY <1>2, <1>3
<1>5. C \in SUBSET Nat /\ (\A x \in C : x < q) /\ \A x \in C \cup {q} : x \in 1..n
  <2>1. \A x \in 1..(q - 1 - 1) : x \in Nat /\ x < q /\ x \in 1..n
    BY <1>2
  <2> QED BY <1>2, <1>4, <2>1
<1>6. ms[q].content \in Messages
  BY <1>1, <1>2 DEF Owes
<1>7. Pending(before) => before.state \in States /\ OwnedBy(ms, C, before.state)
  <2> SUFFICES ASSUME Pending(before) PROVE before.state \in States /\ OwnedBy(ms, C, before.state)
    OBVIOUS
  <2>1. before # NotMine /\ before.status # "cancelled"
    BY DEF Pending, NotMine
  <2>2. q - 1 \in 1..n /\ before = ms[q - 1].outcome
    BY <1>2, <2>1
  <2>3. Ongoing(ms[q - 1]) /\ FineAt(ms, q - 1)
    BY <1>1, <2>1, <2>2 DEF Ongoing, Owes
  <2> QED BY <1>4, <2>2, <2>3 DEF FineAt
<1>8. FineAt(more, n + 1)
  <2> SUFFICES ASSUME Ongoing(m)
               PROVE  /\ q \in 1..(n + 1 - 1) /\ o.state \in States /\ OwnedBy(more, Chains(more)[n + 1], o.state) /\ InstantIsReal(o)
    BY <1>3 DEF FineAt
  <2>1. o.status # "cancelled"
    BY DEF Ongoing
  <2>2. /\ o.state \in States /\ InstantIsReal(o)
        /\ \/ ms[q].content.kind = "request" /\ OwnedBy(ms, {q}, o.state)
           \/ ms[q].content.kind # "request" /\ Pending(before) /\ OwnedBy(ms, C \cup {q}, o.state)
    BY <1>2, <1>5, <1>6, <1>7, <2>1, ReplyIs
  <2>3. PICK D : /\ D = {q} \cup IF ms[q].content.kind = "request" THEN {} ELSE C
                 /\ \A x \in D : x \in 1..n
    BY <1>5
  <2>4. OwnedBy(ms, D, o.state)
    <3>1. {q} \cup {} = {q} /\ {q} \cup C = C \cup {q}
      OBVIOUS
    <3> QED BY <2>2, <2>3, <3>1
  <2>5. OwnedBy(more, D, o.state)
    <3>1. \A x \in D : more[x].content = ms[x].content
      BY <1>3, <2>3
    <3> QED BY <2>4, <3>1 DEF OwnedBy, SaidBefore
  <2>6. Chains(more)[n + 1] = D
    <3>1. n + 1 \in 0..Len(more) /\ n + 1 # 0
      BY <1>1, <1>3
    <3>2. Chains(more)[n + 1] = ChainFrom(more, n + 1, Chains(more))
      BY <1>3, <3>1, ChainsExist
    <3>3. more[n + 1] = m /\ more[q] = ms[q]
      BY <1>2, <1>3
    <3> QED BY <1>4, <2>3, <3>1, <3>2, <3>3 DEF ChainFrom
  <2> QED BY <1>1, <1>2, <2>2, <2>5, <2>6
<1>9. \A i \in 1..(n + 1) : i = n + 1 \/ i \in 1..n
  BY <1>1
<1> QED BY <1>3, <1>8, <1>9 DEF Owes

-----------------------------------------------------------------------------
\* Conversions

LEMMA ContentsAre ==
  ASSUME ContentsAssumption, NEW content, NEW tracked, NEW q, NEW o, content \in Contents \/ content = [kind |-> "talk", said |-> <<>>]
  PROVE  /\ Question(content, tracked).content \in Messages /\ Question(content, tracked).outcome = NotMine
         /\ AnswerTo(q, o).content \in Messages /\ AnswerTo(q, o).outcome = o /\ AnswerTo(q, o).of = q
<1>1. \A k \in {"talk", "answer"} : [kind |-> k, said |-> <<>>] \in Messages
  <2> SUFFICES ASSUME NEW k \in {"talk", "answer"} PROVE [kind |-> k, said |-> <<>>] \in Messages
    OBVIOUS
  <2>1. PICK c : c = [kind |-> k, said |-> <<>>]
    OBVIOUS
  <2>2. <<>> \in Seq(Attempts)
    OBVIOUS
  <2>3. c \in [kind : Kinds, said : Seq(Attempts)]
    <3>1. k \in Kinds
      BY DEF Kinds
    <3> QED BY <2>1, <2>2, <3>1
  <2>5. c.kind # "role"
    BY <2>1
  <2>4. c \in Messages
    BY <2>3, <2>5 DEF Messages
  <2> QED BY <2>1, <2>4
<1>2. content \in Messages
  BY <1>1 DEF ContentsAssumption
<1> QED BY <1>1, <1>2 DEF Question, AnswerTo

LEMMA OutcomesStep ==
  ASSUME ContentsAssumption, ConversionAssumption, TalkInv, Owes(messages), [AnsNext]_ansVars
  PROVE  Owes(messages')
<1>1. CASE messages' = messages
  BY <1>1
<1>2. CASE Accept \/ Send
  <2>1. PICK c \in Contents, tracked \in BOOLEAN : messages' = Append(messages, Question(c, tracked))
    BY <1>2 DEF Accept, Send
  <2>2. PICK m : m = Question(c, tracked) /\ m.content \in Messages /\ m.outcome = NotMine
    BY <2>1, ContentsAre
  <2> QED BY <2>1, <2>2, SaidOwes
<1>3. CASE Aside
  <2>1. PICK S : messages \in Seq(S)
    BY DEF TalkInv, TalkFits, IsSequence
  <2>2. PICK content, tracked, q, m, a :
          /\ content = [kind |-> "talk", said |-> <<>>] /\ tracked = FALSE /\ q = Len(messages) + 1
          /\ m = Question(content, tracked) /\ a = AnswerTo(q, NotMine)
    OBVIOUS
  <2>3. m.content \in Messages /\ m.outcome = NotMine /\ a.content \in Messages /\ a.outcome = NotMine
    <3>1. /\ Question(content, tracked).content \in Messages /\ Question(content, tracked).outcome = NotMine
          /\ AnswerTo(q, NotMine).content \in Messages /\ AnswerTo(q, NotMine).outcome = NotMine
      BY <2>2, ContentsAre
    <3> QED BY <2>2, <3>1
  <2>o. PICK one : one = Append(messages, m)
    OBVIOUS
  <2>4. messages' = one \/ messages' = Append(one, a)
    <3>1. PICK answered \in BOOLEAN : messages' = (messages \o <<m>>) \o IF answered THEN <<a>> ELSE <<>>
      BY <1>3, <2>2 DEF Aside
    <3>2. messages \o <<m>> = one /\ one \in Seq(S \cup {m})
      BY <2>1, <2>o
    <3>3. one \o <<a>> = Append(one, a) /\ one \o <<>> = one
      BY <3>2
    <3> QED BY <3>1, <3>2, <3>3
  <2>5. Owes(one)
    BY <2>3, <2>o, SaidOwes
  <2>6. PICK two : two = Append(one, a)
    OBVIOUS
  <2>7. Owes(two)
    BY <2>3, <2>5, <2>6, SaidOwes
  <2> QED BY <2>4, <2>5, <2>6, <2>7
<1>4. CASE Convert
  <2>1. PICK data \in BOOLEAN : Outcome(data) # NotMine /\ messages' = Append(messages, AnswerTo(turn.question, Outcome(data)))
    BY <1>4 DEF Convert
  <2>2. PICK q, o, before : q = turn.question /\ o = Outcome(data) /\ before = Previous(q)
    OBVIOUS
  <2>3. turn # NoTurn
    BY <1>4 DEF Convert, NoTurn
  <2>4. q \in 1..Len(messages)
    BY <2>2, <2>3 DEF TalkInv, QuestionsOpen, OpenIn
  <2>5. o = Respond(messages[q].content, before, q, data)
    BY <2>1, <2>2 DEF Outcome
  <2>6. before = NotMine \/ (q > 1 /\ before = messages[q - 1].outcome)
    BY <2>2 DEF Previous
  <2>7. PICK m : m = AnswerTo(q, o) /\ m.of = q /\ m.outcome = o /\ m.content \in Messages
    <3>1. PICK content : content = [kind |-> "talk", said |-> <<>>]
      OBVIOUS
    <3> QED BY <3>1, ContentsAre
  <2>8. messages' = Append(messages, m) /\ o # NotMine
    BY <2>1, <2>2, <2>7
  <2> QED BY <2>4, <2>5, <2>6, <2>7, <2>8, AnsweredOwes
<1>5. CASE Save
  <2>1. PICK m, content : content = [kind |-> "talk", said |-> <<>>] /\ m = AnswerTo(turn.question, NotMine)
    OBVIOUS
  <2>2. m.content \in Messages /\ m.outcome = NotMine
    BY <2>1, ContentsAre
  <2>3. messages' = Append(messages, m)
    BY <1>5, <2>1 DEF Save
  <2> QED BY <2>2, <2>3, SaidOwes
<1>6. \/ messages' = messages \/ Accept \/ Send \/ Aside \/ Convert \/ Save
  BY DEF AnsNext, ansVars, Retry, Run, Passing, CollectEvidence, Retrieve, Limit, Prepare, Generate, SkipVerification,
         BeginVerification, Check, Correct, Recheck, Stop
<1> QED BY <1>1, <1>2, <1>3, <1>4, <1>5, <1>6

OwesInv == TalkInv /\ Owes(messages)

\* A conversion is of the time the user gave in it, to an instant at which the clocks of the source zone
\* show that time (time_conversion.respond), whatever was said, cancelled or asked beside the job in between.
THEOREM ConversionsAreTrue == AnsSpec => []ConversionsAreTheUsers
<1>1. AnsInit => OwesInv
  <2> SUFFICES ASSUME AnsInit PROVE Owes(messages)
    BY TalkBegins DEF OwesInv
  <2>1. messages \in Seq({}) /\ Len(messages) = 0
    BY DEF AnsInit
  <2> QED BY <2>1 DEF Owes, IsSequence
<1>2. OwesInv /\ [AnsNext]_ansVars => OwesInv'
  <2> SUFFICES ASSUME OwesInv, [AnsNext]_ansVars PROVE OwesInv'
    OBVIOUS
  <2>1. TalkInv'
    BY TalkStep DEF OwesInv
  <2>2. Owes(messages')
    BY ContentsAssumption, ConversionAssumption, OutcomesStep DEF OwesInv
  <2> QED BY <2>1, <2>2 DEF OwesInv
<1>3. OwesInv => ConversionsAreTheUsers
  <2> SUFFICES ASSUME Owes(messages), NEW i \in Outcomes PROVE FieldsOwned(messages, i) /\ InstantIsReal(messages[i].outcome)
    BY DEF OwesInv, ConversionsAreTheUsers, FieldsAreTheUsers, InstantsAreReal
  <2>1. PICK S : messages \in Seq(S)
    BY DEF Owes, IsSequence
  <2>2. i \in 1..Len(messages) /\ Ongoing(messages[i])
    BY <2>1 DEF Outcomes
  <2>3. OwnedBy(messages, Chains(messages)[i], messages[i].outcome.state) /\ InstantIsReal(messages[i].outcome)
    BY <2>2 DEF Owes, FineAt
  <2> QED BY <2>3, OwedIsOwned
<1> QED BY <1>1, <1>2, <1>3, PTL DEF AnsSpec
=============================================================================
