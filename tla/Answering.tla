----------------------------- MODULE Answering ------------------------------
(***************************************************************************)
(* A text turn of ChatService.send, for one conversation: document         *)
(* evidence, retrieval, the reply (a time conversion, a limitation or the  *)
(* model's), its verification and at most one correction, and the answer   *)
(* that is saved.  A job's turn runs under a deadline counted from its     *)
(* acceptance; a direct turn (chat.send on the RPC thread) has none.       *)
(* Prompts, styles, snippets and the trace are left out, and so is the     *)
(* turn store's own protocol (module ChatTurns): a job's question is       *)
(* waiting, being answered, answered, or unanswered for good or until a    *)
(* retry.                                                                  *)
(*                                                                         *)
(* A definition Name_Variant repeats Name with a plausible mistake in it;  *)
(* no specification uses it (README, "How the properties are validated").  *)
(***************************************************************************)
EXTENDS TimeConversion

CONSTANTS
  Contents,      \* the messages a user may send
  MaxQuestions,  \* bound on the questions
  TurnTime, PrepareTime, AnswerTime, VerifyTime, CorrectTime, VerificationTime  \* allowances

ASSUME AllowanceAssumption ==
  {TurnTime, PrepareTime, AnswerTime, VerifyTime, CorrectTime, VerificationTime} \subseteq Nat

ASSUME ContentsAssumption == Contents \subseteq Messages

VARIABLES
  messages,  \* sequence of [role, of, tracked, content, outcome]
  waiting,   \* the job's question that is accepted and not settled, and what is left of its turn
  turn,      \* the turn being served
  sent,      \* messages of the last request for an answer, by position
  saved      \* how the last answer came about

ansVars == <<messages, waiting, turn, sent, saved>>

NoTurn == [at |-> "none", job |-> FALSE]
Nobody == [question |-> 0, left |-> 0]
NoAnswer == [by |-> "none"]

Question(content, tracked) == [role |-> "user", of |-> 0, tracked |-> tracked, content |-> content, outcome |-> NotMine]
AnswerTo(q, outcome) == [role |-> "assistant", of |-> q, tracked |-> FALSE, content |-> [kind |-> "answer", said |-> <<>>], outcome |-> outcome]

Asked == Cardinality({i \in DOMAIN messages : messages[i].role = "user"})
Answered(q) == \E i \in DOMAIN messages : messages[i].of = q
Job == turn.job

-----------------------------------------------------------------------------
\* How an answer came about is kept until the next step.
Unsaid == saved' = NoAnswer

AnsInit == messages = <<>> /\ waiting = Nobody /\ turn = NoTurn /\ sent = <<>> /\ saved = NoAnswer

\* With no conversion begun, a message that would go on with one is a message like any other.
Sayable(c) == c.kind \in {"reply", "role", "cancel"} => \E i \in DOMAIN messages : messages[i].outcome # NotMine

\* jobs.submit_chat: the question is stored and its time begins; documents and verification come with it.
Accept ==
  /\ waiting = Nobody /\ Asked < MaxQuestions
  /\ \E c \in {c \in Contents : Sayable(c)} :
       /\ messages' = Append(messages, Question(c, TRUE))
       /\ waiting' = [question |-> Len(messages'), left |-> TurnTime]
  /\ UNCHANGED <<turn, sent>> /\ Unsaid

\* jobs.retry_chat: the last message is a job's question that was given up.
Retry ==
  LET q == Len(messages) IN
  /\ waiting = Nobody /\ messages # <<>> /\ messages[q].tracked /\ turn = NoTurn
  /\ waiting' = [question |-> q, left |-> TurnTime]
  /\ UNCHANGED <<messages, turn, sent>> /\ Unsaid

Beginning(q, job, docs, verify, left) ==
  [at |-> "evidence", question |-> q, job |-> job, docs |-> docs, verify |-> verify, left |-> left,
   evidence |-> "none", found |-> "none", text |-> "none", report |-> "not_run", correction |-> "none",
   began |-> left, ends |-> left, floor |-> 0]

Options(c) == IF c.kind = "documents" THEN BOOLEAN ELSE {FALSE}

\* The worker takes the question; a turn that waited too long is over before it begins.
Run ==
  /\ turn = NoTurn /\ waiting.question # 0 /\ waiting.left > 0
  /\ LET c == messages[waiting.question].content IN
     \E verify \in Options(c) : turn' = Beginning(waiting.question, TRUE, c.kind = "documents", verify, waiting.left)
  /\ UNCHANGED <<messages, waiting, sent>> /\ Unsaid

\* chat.send on the RPC thread
Send ==
  /\ turn = NoTurn /\ Asked < MaxQuestions
  /\ \E c \in {c \in Contents : Sayable(c)} : \E verify \in Options(c) :
       /\ messages' = Append(messages, Question(c, FALSE))
       /\ turn' = Beginning(Len(messages'), FALSE, c.kind = "documents", verify, TurnTime)
  /\ UNCHANGED <<waiting, sent>> /\ Unsaid

\* The answer or the question of somebody else, while a job is waiting or at work
Aside ==
  /\ waiting # Nobody /\ Asked < MaxQuestions
  /\ \E answered \in BOOLEAN :
       messages' = messages \o <<Question([kind |-> "talk", said |-> <<>>], FALSE)>>
                     \o IF answered THEN <<AnswerTo(Len(messages) + 1, NotMine)>> ELSE <<>>
  /\ UNCHANGED <<waiting, turn, sent>> /\ Unsaid

-----------------------------------------------------------------------------
\* Time.  A job's turn has what is left of it; a call is allowed the lesser of its own allowance and that.

InTime == ~Job \/ turn.left > 0
Allowed(stage) == IF Job THEN Min({stage, turn.left}) ELSE stage
After(t, spent) == IF Job THEN [t EXCEPT !.left = @ - spent] ELSE t

\* Time passes in the queue and between calls.
Elapse ==
  \/ /\ ~Job /\ waiting.left > 0
     /\ waiting' = [waiting EXCEPT !.left = @ - 1] /\ UNCHANGED turn
  \/ /\ turn.at \in {"evidence", "reply", "verify"} /\ Job /\ turn.left > 0
     /\ turn' = [turn EXCEPT !.left = @ - 1] /\ UNCHANGED waiting

Call(stage) == [turn EXCEPT !.ends = turn.left - Allowed(stage)]

-----------------------------------------------------------------------------
\* Evidence and retrieval.  Found is whether snippets were retrieved, and whether the text of a
\* scan among them has a match for the question.

CollectEvidence ==
  /\ turn.at = "evidence"
  /\ \E e \in IF turn.docs THEN {"none", "ready", "unreadable", "poor"} ELSE {"none"} :
       turn' = [turn EXCEPT !.at = "retrieve", !.evidence = e]
  /\ UNCHANGED <<messages, waiting, sent>> /\ Unsaid

GivenUp(i) == messages[i].tracked /\ ~Answered(i)
Positions == [i \in DOMAIN messages |-> i]
Others(q) == DOMAIN messages \ {q}

History_KeepsGivenUp(q) == Append(Only(Positions, Others(q)), q)
\* The model's history: what was said, without a job's questions that have no answer, and the question last.
History(q) == Append(Only(Positions, {i \in Others(q) : ~GivenUp(i)}), q)

Retrieve ==
  /\ turn.at = "retrieve" /\ InTime
  /\ \E f \in IF turn.docs THEN {"none", "some", "matched"} ELSE {"none"} :
       \E e \in IF turn.evidence = "none" /\ f # "none" THEN {"ready", "poor"} ELSE {turn.evidence} :
         turn' = [turn EXCEPT !.at = "reply", !.found = f, !.evidence = e]
  /\ sent' = History(turn.question)
  /\ UNCHANGED <<messages, waiting>> /\ Unsaid

-----------------------------------------------------------------------------
\* The reply

Previous_LastAnswer(q) ==
  LET answers == {i \in 1..(q - 1) : messages[i].role = "assistant"}
  IN IF answers = {} THEN NotMine ELSE messages[Max(answers)].outcome
\* A conversion is taken up from the message stored just before, if that is its clarification.
Previous(q) == IF q > 1 /\ messages[q - 1].role = "assistant" THEN messages[q - 1].outcome ELSE NotMine

Outcome(data) ==
  IF turn.docs \/ turn.verify THEN NotMine
  ELSE Respond(messages[turn.question].content, Previous(turn.question), turn.question, data)

Limited ==
  /\ turn.docs
  /\ \/ turn.found = "none" /\ turn.evidence \in {"none", "unreadable"}
     \/ turn.evidence = "poor" /\ turn.found # "matched"

Over == turn' = NoTurn /\ sent' = <<>>
Settled == IF Job THEN waiting' = Nobody ELSE UNCHANGED waiting

\* The whole calculation is over in time, or nothing is saved.
Convert ==
  /\ turn.at = "reply" /\ InTime
  /\ \E data \in BOOLEAN :
       /\ Outcome(data) # NotMine
       /\ messages' = Append(messages, AnswerTo(turn.question, Outcome(data)))
  /\ saved' = [by |-> "conversion"] /\ Over /\ Settled

Limit ==
  /\ turn.at = "reply" /\ InTime /\ Limited
  /\ turn' = [turn EXCEPT !.at = "verify", !.text = "limitation", !.evidence = "none"]
  /\ UNCHANGED <<messages, waiting, sent>> /\ Unsaid

\* Waiting for the model, then the answer: two allowances
Prepare ==
  /\ turn.at = "reply" /\ InTime /\ ~Limited /\ Outcome(TRUE) = NotMine
  /\ \E spent \in 0..Allowed(PrepareTime) : turn' = [After(Call(PrepareTime), spent) EXCEPT !.at = "generate", !.evidence = "none"]
  /\ UNCHANGED <<messages, waiting, sent>> /\ Unsaid

Generate ==
  /\ turn.at = "generate" /\ InTime
  /\ \E spent \in 0..Allowed(AnswerTime) :
       turn' = [After(Call(AnswerTime), spent) EXCEPT !.at = "verify", !.text = "draft"]
  /\ UNCHANGED <<messages, waiting, sent>> /\ Unsaid

-----------------------------------------------------------------------------
\* Verification.  report is the verifier's status of the text, passed only when it found every claim
\* supported.  In a job all of it shares one budget, which ends with floor left of the turn.

NeedsVerifying == turn.verify /\ turn.found # "none"
Verdicts == {"passed", "unsupported", "contradicted", "error", "timeout"}

SkipVerification ==
  /\ turn.at = "verify" /\ ~(NeedsVerifying /\ InTime)
  /\ turn' = [turn EXCEPT !.at = "save", !.report = IF NeedsVerifying THEN "timeout" ELSE "not_run"]
  /\ UNCHANGED <<messages, waiting, sent>> /\ Unsaid

Budget(left) == left - Min({VerificationTime, left})
BeginVerification ==
  /\ turn.at = "verify" /\ NeedsVerifying /\ InTime
  /\ turn' = [turn EXCEPT !.at = "check", !.began = turn.left, !.ends = turn.left, !.floor = Budget(turn.left)]
  /\ UNCHANGED <<messages, waiting, sent>> /\ Unsaid

InBudget == ~Job \/ turn.left > turn.floor
Share_OwnAllowance(stage) == Allowed(stage)
\* What a call of the verification is allowed
Share(stage) == IF Job THEN Min({stage, turn.left - turn.floor}) ELSE stage
Shared(stage, spent) == [After(turn, spent) EXCEPT !.ends = turn.left - Share(stage)]

\* _verify_answer of the draft.  Only what contradicts the sources is corrected.
Check ==
  /\ turn.at = "check"
  /\ \E spent \in 0..Share(VerifyTime), r \in Verdicts :
       turn' = [Shared(VerifyTime, spent) EXCEPT !.report = r, !.at = IF r = "contradicted" THEN "correct" ELSE "save"]
  /\ UNCHANGED <<messages, waiting, sent>> /\ Unsaid

Correct ==
  /\ turn.at = "correct"
  /\ \/ ~InBudget /\ turn' = [turn EXCEPT !.correction = "timeout", !.at = "save"]
     \/ InBudget /\ \E spent \in 0..Share(CorrectTime) :
          \/ turn' = [Shared(CorrectTime, spent) EXCEPT !.at = "recheck"]
          \/ \E fault \in {"error", "timeout"} :
               turn' = [Shared(CorrectTime, spent) EXCEPT !.correction = fault, !.at = "save"]
  /\ UNCHANGED <<messages, waiting, sent>> /\ Unsaid

\* A job's draft stands until a correction of it has passed.
Replaced(t, r) ==
  IF Job /\ r # "passed" THEN [t EXCEPT !.correction = "not_verified"]
  ELSE [t EXCEPT !.text = "corrected", !.report = r, !.correction = "completed"]

Recheck ==
  /\ turn.at = "recheck"
  /\ \/ ~InBudget /\ turn' = [Replaced(turn, "timeout") EXCEPT !.at = "save"]
     \/ InBudget /\ \E spent \in 0..Share(VerifyTime), r \in Verdicts :
          turn' = [Replaced(Shared(VerifyTime, spent), r) EXCEPT !.at = "save"]
  /\ UNCHANGED <<messages, waiting, sent>> /\ Unsaid

-----------------------------------------------------------------------------
\* The end of a turn

Notice_ReportOnly(t) == Job /\ t.report \notin {"passed", "contradicted"}
Notice(t) == Job /\ NeedsVerifying /\ t.report # "passed"

Save ==
  /\ turn.at = "save"
  /\ messages' = Append(messages, AnswerTo(turn.question, NotMine))
  /\ saved' = [by |-> turn.text, job |-> turn.job, asked |-> turn.verify, found |-> turn.found, report |-> turn.report,
               correction |-> turn.correction, notice |-> Notice(turn)]
  /\ Over /\ Settled

\* A cancel, a failure, a timeout of the model or of the turn, or the end of the process: no answer.
Stop ==
  \/ /\ turn # NoTurn /\ Over /\ Settled
     /\ UNCHANGED messages /\ Unsaid
  \/ /\ ~Job /\ waiting # Nobody /\ waiting' = Nobody
     /\ UNCHANGED <<messages, turn, sent>> /\ Unsaid

Passing == Elapse /\ UNCHANGED <<messages, sent>> /\ Unsaid

AnsNext ==
  \/ Accept \/ Retry \/ Run \/ Send \/ Aside \/ Passing
  \/ CollectEvidence \/ Retrieve \/ Convert \/ Limit \/ Prepare \/ Generate
  \/ SkipVerification \/ BeginVerification \/ Check \/ Correct \/ Recheck
  \/ Save \/ Stop

AnsSpec == AnsInit /\ [][AnsNext]_ansVars

-----------------------------------------------------------------------------
\* The model is given the question last and once, and before it whole exchanges: an answer after its
\* question, and no question of a job that nobody answered, whatever was cancelled, retried, asked
\* beside the job or cut off by a crash before (chat.send, "exactly once and last").
HistoryIsWhole ==
  turn.at \in {"reply", "generate", "verify"} =>
    /\ Last(sent) = turn.question /\ IsInjective(sent)
    /\ \A i \in DOMAIN sent :
         LET m == messages[sent[i]] IN
         /\ m.role = "assistant" => \E j \in 1..(i - 1) : sent[j] = m.of
         /\ m.role = "user" /\ m.tracked /\ i < Len(sent) => \E j \in (i + 1)..Len(sent) : messages[sent[j]].of = sent[i]

\* What the reader of a job's answer can take from it: a text that replaced the draft has passed, and
\* an answer that was to be verified and did not pass says so (_verify_and_correct: a correction
\* "replaces the draft only if it passes verification").
AnswersAreQualified ==
  saved.by \notin {"none", "conversion"} =>
    /\ saved.job /\ saved.by = "corrected" => saved.report = "passed" /\ ~saved.notice
    /\ saved.job /\ saved.asked /\ saved.found # "none" => (saved.notice <=> saved.report # "passed")
    /\ saved.report \in {"unsupported", "contradicted", "error"} => saved.asked

\* No call of a job's turn may last beyond the turn, which began when the question was accepted, and
\* verifying, correcting and verifying again stay within one budget (model_service.py:42-45).
CallsFitTheTurn ==
  turn.job =>
    /\ turn.ends >= 0
    /\ turn.at \in {"check", "correct", "recheck"} => turn.began - turn.ends <= VerificationTime

Ongoing(m) == m.outcome # NotMine /\ m.outcome.status # "cancelled"
Outcomes == {i \in DOMAIN messages : Ongoing(messages[i])}

\* The questions of the conversion that each message belongs to, if it is a step of one: back to the
\* request, each one following directly on a clarification.
Chains(ms) ==
  LET chain[i \in 0..Len(ms)] ==
        IF i = 0 \/ ~Ongoing(ms[i]) THEN {}
        ELSE LET q == ms[i].of IN {q} \cup IF ms[q].content.kind = "request" THEN {} ELSE chain[q - 1]
  IN chain

SaidFor(c, f) == IF c.kind = "role" THEN {} ELSE {c.said[k].value : k \in {k \in DOMAIN c.said : c.said[k].field = f}}

FieldsOwned(ms, i) ==
  \A f \in Known(ms[i].outcome.state) :
    LET state == ms[i].outcome.state
        r == state.refs[f] IN
    /\ r \in Chains(ms)[i]
    /\ state.fields[f] \in UNION {SaidFor(ms[q].content, g) : q \in {q \in Chains(ms)[i] : q <= r}, g \in {f, "zone"}}
    /\ \A q \in Chains(ms)[i] : q > r => SaidFor(ms[q].content, f) \subseteq {state.fields[f]}

\* A field holds what the user said for it in this conversion, and nothing else was said for it since;
\* a cancelled, failed or foreign turn in between ends the conversion.
FieldsAreTheUsers == \A i \in Outcomes : FieldsOwned(messages, i)

\* An instant that is answered is one at which the clocks of the source zone show the time given: the
\* only one, or the one of two that the user chose.
InstantIsReal(o) ==
  o.status = "converted" =>
    LET real == {u \in 0..LastMoment : Local(o.state.fields["source"], u) = Wall(o.state)}
    IN /\ o.instant \in real
       /\ o.state.occurrence = "none" => real = {o.instant}
       /\ \A u \in real : IF o.state.occurrence = "later" THEN u <= o.instant ELSE u >= o.instant
InstantsAreReal == \A i \in Outcomes : InstantIsReal(messages[i].outcome)

\* A conversion is of the time the user gave, to an instant at which the clocks show it.
ConversionsAreTheUsers == FieldsAreTheUsers /\ InstantsAreReal
=============================================================================
