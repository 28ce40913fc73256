----------------------------- MODULE ImageTurns -----------------------------
(***************************************************************************)
(* Chat about images: the image half of ChatService.send, VisionService,   *)
(* the analysis runs of ArtifactService and the conversation sources of    *)
(* SourceService, for one session.  An image turn is served on the RPC     *)
(* thread, so requests do not interleave (a question that was accepted as  *)
(* a job before an image was attached, and takes the image up on the       *)
(* worker, is left out); a turn is several steps because the process may   *)
(* stop between any two of them, and because the models it may use change  *)
(* from one turn to the next.                                              *)
(*                                                                         *)
(* A turn finds a route (who may look at the image), gets an analysis of   *)
(* one image (a new one, or the stored evidence of an earlier one), and    *)
(* has a model answer from it.  Texts, warnings, timings, derivation rows  *)
(* and the image files are left out.  Lookers are "chat" (the one that      *)
(* answers), "eye" (the one asked to look) and "florence".                 *)
(*                                                                         *)
(* A definition Name_Variant repeats Name with a plausible mistake in it;  *)
(* no specification uses it (README, "How the properties are validated").  *)
(***************************************************************************)
EXTENDS Lists

CONSTANTS
  Images,
  MaxImages,    \* active images a turn uses
  MaxQuestions, \* bound on the questions
  MaxRuns       \* bound: no further analysis on its own once there are so many rows

ASSUME ImagesAssumption == MaxImages \in Nat \ {0} /\ {MaxQuestions, MaxRuns} \subseteq Nat

VARIABLES
  messages,  \* sequence of [role, images, of]: of is the question an answer was written for
  active,    \* conversation_attachments not removed, by created_at
  deleted,   \* deleted artifacts
  runs,      \* artifact_analysis_runs, in the order of their completion
  turn,      \* the request being served
  payload    \* images per message of the last request to a model that sees

imgVars == <<messages, active, deleted, runs, turn, payload>>

Lookers == {"chat", "eye", "florence"}
None == "none"
Modes == {"automatic", "ocr_only", "vision_only", "combined"}
Backends == {"automatic", "ollama", "florence2", "ocr_only"}
NoTurn == [stage |-> None]

-----------------------------------------------------------------------------
\* The route

NativeRoute == [native |-> TRUE, mode |-> "ocr_only", backend |-> "ocr_only", eye |-> None, sees |-> "chat", via |-> "ollama"]
TextRoute == [native |-> FALSE, mode |-> "ocr_only", backend |-> "ocr_only", eye |-> None, sees |-> None, via |-> "ocr_only"]
BackendOf(m) == IF m = "florence" THEN "florence2" ELSE "ollama"
LookRoute(mode, m) ==
  [native |-> FALSE, mode |-> IF mode = "automatic" THEN "combined" ELSE mode,
   backend |-> BackendOf(m), eye |-> m, sees |-> m, via |-> BackendOf(m)]

\* Whom the mode and the backend prefer, best first; asked is the vision model named, or None.
Preference(mode, backend, asked) ==
  IF backend = "ollama" THEN <<"chat", asked>>
  ELSE IF mode = "automatic" THEN <<"chat", asked, "florence">> ELSE <<asked, "chat", "florence">>

\* Florence is taken at its word when it is asked for; everyone else must be confirmed.
Resolve(mode, backend, asked, can) ==
  IF "ocr_only" \in {mode, backend} THEN TextRoute
  ELSE IF backend = "florence2" THEN LookRoute(mode, "florence")
  ELSE LET liked == Preference(mode, backend, asked)
           fit == Only(liked, {i \in DOMAIN liked : liked[i] \in can})
       IN IF fit = <<>> THEN TextRoute ELSE IF fit[1] = "chat" THEN NativeRoute ELSE LookRoute(mode, fit[1])

-----------------------------------------------------------------------------
\* The analysis rows

NewRun(image, question) ==
  [image |-> image, question |-> question, status |-> "running", via |-> None, model |-> None,
   text |-> {}, seen |-> {}, shown |-> {}, sent |-> "unset", route |-> None]

\* text and seen name the images that the OCR text and the observations of a row came from.
HasEvidence(r) == r.text \cup r.seen # {}
Blocks(r) == ~HasEvidence(r)

Completed_AnyImage(rs, image) == {i \in DOMAIN rs : rs[i].status = "completed"}
Completed(rs, image) == {i \in DOMAIN rs : rs[i].status = "completed" /\ rs[i].image = image}
\* The row latest_completed_analysis finds, or one that says nothing.
Latest(rs, image) == LET done == Completed(rs, image)
                     IN IF done = {} THEN NewRun(None, 0) ELSE rs[Max(done)]

\* What VisionService.analyze does with a mode, a model and a backend: whether it reads text, and
\* whom it will show the image.
Plan(mode, model, backend, can) ==
  LET look(m) == [text |-> mode # "vision_only", eye |-> m]
      read == [text |-> TRUE, eye |-> None] IN
  IF "ocr_only" \in {mode, backend} THEN read
  ELSE IF backend = "florence2" THEN look("florence")
  ELSE IF backend = "ollama" THEN look(IF model = None THEN "nobody" ELSE model)
  ELSE IF model \in can THEN [text |-> TRUE, eye |-> model]
  ELSE IF "florence" \in can THEN [text |-> TRUE, eye |-> "florence"] ELSE read

\* Who is shown the image: the model planned for is asked again whether it sees, or is ready.
Viewers(plan, can) == {plan.eye} \cap can
Perceiving(plan, can) == [text |-> plan.text, eye |-> plan.eye, viewers |-> Viewers(plan, can)]

\* A later turn without images of its own routes as any, but what looked at the image before is kept.
ContextRoute(route, previous) ==
  IF route.native \/ previous.model = None THEN route
  ELSE [route EXCEPT !.mode = "combined", !.eye = previous.model, !.sees = previous.model,
                     !.backend = previous.via, !.via = previous.via]

\* What a later turn does for evidence: "reuse" what is stored, or "analyze" again.
Needs(route, previous, visual, asked) ==
  LET again(m) == [action |-> "analyze", model |-> m, backend |-> route.backend,
                   mode |-> IF m # None \/ route.backend = "florence2" THEN "combined" ELSE "ocr_only"]
      named == IF route.eye # None THEN route.eye ELSE IF previous.model # None THEN previous.model ELSE asked
      fallback == IF route.eye # None THEN route.eye ELSE asked IN
  IF HasEvidence(previous)
    THEN IF ~route.native /\ visual /\ previous.seen = {} /\ (named # None \/ route.backend = "florence2")
           THEN again(named) ELSE [action |-> "reuse"]
  ELSE IF route.native THEN [action |-> "reuse"] ELSE again(fallback)

-----------------------------------------------------------------------------
\* The conversation

Question(images) == [role |-> "user", images |-> images, of |-> 0]
Answer(q) == [role |-> "assistant", images |-> <<>>, of |-> q]

\* add_to_conversation: a source added again moves to the end; those of one request have one time.
Without(images) == Only(active, {i \in DOMAIN active : active[i] \notin images})
Added(images, order) == Without(Range(images)) \o order

\* The images of a request to a model that sees: each active image with the first question that has
\* it, those no question has with the latest one.
Attached_EachTime(ms, images) ==
  LET has(i) == IF ms[i].role = "user" THEN Range(ms[i].images) \cap Range(images) ELSE {}
      last == Max({i \in DOMAIN ms : ms[i].role = "user"})
  IN [i \in DOMAIN ms |-> has(i) \cup IF i = last THEN Range(images) \ UNION {has(j) : j \in DOMAIN ms} ELSE {}]
Attached(ms, images) ==
  LET has(i) == IF ms[i].role = "user" THEN Range(ms[i].images) \cap Range(images) ELSE {}
      first(i) == has(i) \ UNION {has(j) : j \in 1..(i - 1)}
      last == Max({i \in DOMAIN ms : ms[i].role = "user"})
  IN [i \in DOMAIN ms |-> first(i) \cup IF i = last THEN Range(images) \ UNION {has(j) : j \in DOMAIN ms} ELSE {}]

-----------------------------------------------------------------------------
ImgInit ==
  /\ messages = <<>> /\ active = <<>> /\ deleted = {} /\ runs = <<>>
  /\ turn = NoTurn /\ payload = <<>>

\* The route of a request, with the models there are when it comes
Routes(can) == {Resolve(m, b, a, can) : m \in Modes, b \in Backends, a \in {None, "eye"}}

MoreToAsk == Cardinality({i \in DOMAIN messages : messages[i].role = "user"}) < MaxQuestions

\* chat.send with images: the question, its links and the analysis row are stored, then the first
\* image is looked at.
SendWith(images, order, route, can) ==
  /\ messages' = Append(messages, Question(images))
  /\ active' = Added(images, order)
  /\ runs' = Append(runs, NewRun(images[1], Len(messages')))
  /\ turn' = [stage |-> "perceive", first |-> TRUE, question |-> Len(messages'), route |-> route,
              sent |-> "unset", plan |-> Perceiving(Plan(route.mode, route.eye, route.backend, can), can)]

SendImages ==
  /\ turn = NoTurn /\ MoreToAsk
  /\ \E images \in {<<a>> : a \in Images} \cup {<<a, b>> : a, b \in Images}, can \in SUBSET Lookers :
       /\ IsInjective(images) /\ Range(images) \cap deleted = {}
       /\ \E route \in Routes(can), order \in {images, Reverse(images)} : SendWith(images, order, route, can)
  /\ payload' = <<>> /\ UNCHANGED deleted

\* An image that was deleted is refused once the question has been stored.
SendDeleted ==
  /\ turn = NoTurn /\ MoreToAsk
  /\ \E a \in deleted : messages' = Append(messages, Question(<<>>))
  /\ UNCHANGED <<active, deleted, runs, turn, payload>>

\* chat.send without images of its own in a conversation that has some: the row says what is stored, or
\* the image is looked at again.
AskFrom(previous, context, needs, can) ==
  LET row == NewRun(active[1], Len(messages'))
      model == IF previous.model # None THEN previous.model ELSE context.sees
      via == IF previous.via # None THEN previous.via ELSE context.via IN
  /\ messages' = Append(messages, Question(<<>>))
  /\ IF needs.action = "reuse"
       THEN /\ runs' = Append(runs, [row EXCEPT !.status = "completed", !.text = previous.text, !.seen = previous.seen,
                                                !.model = model, !.via = via])
            /\ turn' = [stage |-> "decide", first |-> FALSE, question |-> Len(messages'), route |-> context,
                        sent |-> IF context.native THEN "yes" ELSE "no"]
       ELSE /\ runs' = Append(runs, row)
            /\ turn' = [stage |-> "perceive", first |-> FALSE, question |-> Len(messages'), route |-> context,
                        sent |-> IF needs.mode = "combined" THEN "yes" ELSE "no",
                        plan |-> Perceiving(Plan(needs.mode, needs.model, needs.backend, can), can)]

AskOn ==
  /\ turn = NoTurn /\ MoreToAsk /\ active # <<>>
  /\ \E can \in SUBSET Lookers, asked \in {None, "eye"}, visual \in BOOLEAN, m \in Modes, b \in Backends :
       LET previous == Latest(runs, active[1])
           context == ContextRoute(Resolve(m, b, asked, can), previous)
       IN AskFrom(previous, context, Needs(context, previous, visual, asked), can)
  /\ payload' = <<>> /\ UNCHANGED <<active, deleted>>

\* artifacts.analyze: an analysis that belongs to no question
AnalyzeAlone ==
  /\ turn = NoTurn /\ Len(runs) < MaxRuns
  /\ \E a \in Images \ deleted, can \in SUBSET Lookers, model \in {None, "eye"}, mode \in Modes, backend \in Backends :
       /\ runs' = Append(runs, NewRun(a, 0))
       /\ turn' = [stage |-> "perceive", question |-> 0, plan |-> Perceiving(Plan(mode, model, backend, can), can)]
  /\ UNCHANGED <<messages, active, deleted, payload>>

-----------------------------------------------------------------------------
\* What VisionService.analyze comes to.  A failure leaves no evidence, though the image may have been shown by then.
Row == Len(runs)
AfterPerceiving ==
  IF turn.question = 0 THEN NoTurn
  ELSE [stage |-> "decide", first |-> turn.first, question |-> turn.question, route |-> turn.route, sent |-> turn.sent]

Perceive ==
  /\ turn.stage = "perceive" /\ (turn.plan.eye # None => turn.plan.viewers # {})
  /\ \E text \in {{}, {runs[Row].image}}, seen \in {{}, {runs[Row].image}} :
       /\ turn.plan.text \/ text = {}
       /\ turn.plan.eye # None \/ seen = {}
       /\ runs' = [runs EXCEPT ![Row].status = "completed", ![Row].text = text, ![Row].seen = seen,
                               ![Row].shown = turn.plan.viewers, ![Row].model = turn.plan.eye,
                               ![Row].via = IF turn.plan.eye = None THEN "ocr_only" ELSE BackendOf(turn.plan.eye)]
  /\ turn' = AfterPerceiving
  /\ UNCHANGED <<messages, active, deleted, payload>>

PerceiveFails ==
  /\ turn.stage = "perceive"
  /\ \E status \in {"error", "timeout"}, shown \in {{}, turn.plan.viewers} :
       /\ status = "timeout" => shown # {}
       /\ runs' = [runs EXCEPT ![Row].status = status, ![Row].shown = shown]
  /\ turn' = AfterPerceiving
  /\ UNCHANGED <<messages, active, deleted, payload>>

\* Nothing to answer from, and nobody who sees is about to answer: a limitation is the answer.
Local == ~turn.route.native /\ Blocks(runs[Row])
LimitedReply ==
  /\ turn.stage = "decide" /\ Local
  /\ runs' = [runs EXCEPT ![Row].sent = "no", ![Row].route = "no_synthesis"]
  /\ messages' = Append(messages, Answer(turn.question)) /\ turn' = NoTurn
  /\ UNCHANGED <<active, deleted, payload>>

\* A first look that failed ends a turn whose own model sees without an answer.
EndUnanswered ==
  /\ turn.stage = "decide" /\ ~Local /\ turn.first /\ runs[Row].status # "completed"
  /\ turn' = NoTurn
  /\ UNCHANGED <<messages, active, deleted, runs, payload>>

\* _generate_multimodal_reply: the request to the model
Request ==
  /\ turn.stage = "decide" /\ ~Local /\ (turn.first => runs[Row].status = "completed")
  /\ turn' = [turn EXCEPT !.stage = "answer"]
  /\ IF turn.route.native
       THEN /\ payload' = Attached(messages, Upto(active, MaxImages))
            /\ runs' = [runs EXCEPT ![Row].shown = @ \cup {"chat"}]
       ELSE UNCHANGED <<payload, runs>>
  /\ UNCHANGED <<messages, active, deleted>>

\* image_request_sent of the row: what the route says, or what the row and the route imply.
Sent(r) == IF turn.sent # "unset" THEN turn.sent ELSE IF turn.route.native \/ r.model # None THEN "yes" ELSE "no"
Synthesized(r, status) ==
  [r EXCEPT !.status = status, !.sent = Sent(r), !.route = IF turn.route.native THEN "native_vision" ELSE "external_eyes_or_ocr",
            !.model = IF turn.route.sees # None THEN turn.route.sees ELSE @, !.via = turn.route.via]

Reply ==
  /\ turn.stage = "answer"
  /\ runs' = [runs EXCEPT ![Row] = Synthesized(@, @.status)]
  /\ messages' = Append(messages, Answer(turn.question)) /\ turn' = NoTurn
  /\ UNCHANGED <<active, deleted, payload>>

ReplyTimesOut ==
  /\ turn.stage = "answer"
  /\ runs' = [runs EXCEPT ![Row] = Synthesized(@, "timeout")]
  /\ turn' = NoTurn
  /\ UNCHANGED <<messages, active, deleted, payload>>

\* Any other failure of the model is the request's; the row stays as it is.
ReplyFails ==
  /\ turn.stage = "answer" /\ turn' = NoTurn
  /\ UNCHANGED <<messages, active, deleted, runs, payload>>

-----------------------------------------------------------------------------
\* sources.remove_from_conversation, sources.delete, and a new process.  With no question to come (the
\* bound) removals are left out: nothing reads what they change.

Detach(a) ==
  /\ turn = NoTurn /\ MoreToAsk /\ a \in Range(active)
  /\ active' = Without({a})
  /\ UNCHANGED <<messages, deleted, runs, turn, payload>>

\* A deleted image is no longer active; its link to the conversation stays.
Delete(a) ==
  /\ turn = NoTurn /\ MoreToAsk /\ a \notin deleted
  /\ deleted' = deleted \cup {a} /\ active' = Without({a})
  /\ UNCHANGED <<messages, runs, turn, payload>>

Restart ==
  /\ turn # NoTurn /\ turn' = NoTurn
  /\ runs' = [i \in DOMAIN runs |-> IF runs[i].status = "running" THEN [runs[i] EXCEPT !.status = "interrupted"] ELSE runs[i]]
  /\ UNCHANGED <<messages, active, deleted, payload>>

ImgNext ==
  \/ SendImages \/ SendDeleted \/ AskOn \/ AnalyzeAlone
  \/ Perceive \/ PerceiveFails
  \/ LimitedReply \/ EndUnanswered \/ Request \/ Reply \/ ReplyTimesOut \/ ReplyFails
  \/ \E a \in Images : Detach(a) \/ Delete(a)
  \/ Restart

ImgSpec == ImgInit /\ [][ImgNext]_imgVars

-----------------------------------------------------------------------------
\* The evidence of a row is of the row's own image, and what was observed in it rests on a model that
\* was shown that image, for this row or for an earlier one (_clone_context_analysis and
\* latest_completed_analysis, over removals, deletions, restarts and repeated images).
EvidenceIsOfItsImage ==
  \A i \in DOMAIN runs :
    /\ runs[i].text \cup runs[i].seen \subseteq {runs[i].image}
    /\ runs[i].seen # {} => \E j \in 1..i : runs[j].image = runs[i].image /\ runs[j].shown # {}

\* A model writes about an image only from evidence, or looking at it; when a model was shown the
\* image on the way, the row of the answer says that a request with an image was sent.
AnswersAreGrounded ==
  \A i \in DOMAIN runs : runs[i].route \in {"native_vision", "external_eyes_or_ocr"} =>
    /\ HasEvidence(runs[i]) \/ "chat" \in runs[i].shown
    /\ runs[i].shown # {} => runs[i].sent = "yes"

\* What is kept of an image turn is true of the image and of how the answer came about.
RowsAreTrue == EvidenceIsOfItsImage /\ AnswersAreGrounded

\* A request to a model that sees has each of the active images it may have exactly once, and no image
\* that was removed or deleted, however often it was attached in this conversation.
PayloadIsActive ==
  turn.stage = "answer" /\ payload # <<>> =>
    /\ UNION Range(payload) = Range(Upto(active, MaxImages)) \ deleted
    /\ \A i, j \in DOMAIN payload : i # j => payload[i] \cap payload[j] = {}

=============================================================================
