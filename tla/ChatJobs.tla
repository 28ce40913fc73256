------------------------------ MODULE ChatJobs ------------------------------
(***************************************************************************)
(* Text chat as a background job: the RPC handlers of rpc_server.py and    *)
(* the job executor's _run_chat, over the turn store (ChatTurns) and the   *)
(* job queue (JobService).  The RPC thread serves one request at a time;   *)
(* the worker runs beside it; the process may die at any point and be      *)
(* started again.  A handler that touches both the queue and the store is  *)
(* several steps, with the worker's steps and a crash between them.        *)
(*                                                                         *)
(* Every job here is a chat job and its subject is the attempt it executes.*)
(***************************************************************************)
EXTENDS ChatTurns, JobService

ASSUME SubjectsAreAttempts == Subjects = Attempts /\ NoSubject = None

VARIABLES
  rpc,   \* the handler in progress on the RPC thread, and its attempt
  run    \* where _run_chat stands on the worker thread, and the exception it is handling

chatVars == <<storeVars, jobVars, rpc, run>>

Idle == [at |-> "idle", attempt |-> None]
NotRunning == [at |-> "out", cause |-> "none"]

RpcAt(place, a) == rpc' = [at |-> place, attempt |-> a]
RunAt(place) == run' = [at |-> place, cause |-> "none"]

\* The attempt of the worker's job.
Mine == job[worker.job].subject

\* commit_answer tests and writes inside one BEGIN IMMEDIATE transaction: other writers wait.
WriterFree == run.at # "committing"

FinishIfActive(a, s) == IF attempt[a].state \in Active THEN Finish(a, s) ELSE UNCHANGED storeVars

----------------------------------------------------------------------------
ChatInit == StoreInit /\ JobInit /\ rpc = Idle /\ run = NotRunning

(* The RPC thread. *)

\* jobs.submit_chat up to the accepted turn; a known key starts nothing.
SubmitChat(s, t, a, k) ==
  /\ rpc = Idle /\ WriterFree
  /\ HasRoom(1)
  /\ Accept(s, t, a, k, {}, {})
  /\ RpcAt("accepted", a)
  /\ UNCHANGED <<jobVars, run>>

\* jobs.retry_chat up to the new attempt
RetryChat(t, a, k) ==
  /\ rpc = Idle /\ WriterFree
  /\ HasRoom(1)
  /\ Retry(t, a, k)
  /\ RpcAt("accepted", a)
  /\ UNCHANGED <<jobVars, run>>

\* _chat_operation queues the accepted attempt.
Enqueue(j) ==
  /\ rpc.at = "accepted"
  /\ SubmitOne(j, "chat", rpc.attempt)
  /\ rpc' = Idle
  /\ UNCHANGED <<storeVars, run>>

\* The worker thread cannot be started: submit_chat raises with the job already in
\* the queue, where the next submission's worker finds it.
Unstarted(j) ==
  /\ worker.at = "none"
  /\ job[j].state = "absent"
  /\ job' = [job EXCEPT ![j] = [state |-> "queued", kind |-> "chat", subject |-> rpc.attempt, cancel |-> FALSE]]
  /\ order' = Append(order, j)
  /\ queue' = Append(queue, j)
  /\ UNCHANGED <<worker, shuttingDown>>

EnqueueFails(j) ==
  /\ rpc.at = "accepted" /\ WriterFree
  /\ Unstarted(j)
  /\ FinishIfActive(rpc.attempt, "failed")
  /\ rpc' = Idle
  /\ UNCHANGED run

\* jobs.cancel, first half: the job.  A settled job is left alone, its attempt is not.
CancelJob(j) ==
  /\ rpc = Idle
  /\ job[j].subject # NoSubject
  /\ IF job[j].state \in Terminal THEN UNCHANGED jobVars ELSE Cancel(j)
  /\ RpcAt("cancelling", job[j].subject)
  /\ UNCHANGED <<storeVars, run>>

CancelAttempt_RunningOnly ==
  /\ rpc.at = "cancelling" /\ WriterFree
  /\ IF attempt[rpc.attempt].state = "running" THEN RequestCancel(rpc.attempt) ELSE UNCHANGED storeVars
  /\ rpc' = Idle
  /\ UNCHANGED <<jobVars, run>>

\* Second half: the turn.
CancelAttempt ==
  /\ rpc.at = "cancelling" /\ WriterFree
  /\ IF attempt[rpc.attempt].state \in Active THEN RequestCancel(rpc.attempt) ELSE UNCHANGED storeVars
  /\ rpc' = Idle
  /\ UNCHANGED <<jobVars, run>>

\* jobs.chat_status reads the turn; a settled one is only reported.
ReadTurn(t) ==
  /\ rpc = Idle
  /\ turn[t].row = "present"
  /\ \E a \in Attempts : IsLatestAttempt(a, t) /\ attempt[a].state \in Active
  /\ RpcAt("checking", turn[t].current)
  /\ UNCHANGED <<storeVars, jobVars, run>>

HasOngoingJob(a) == \E j \in Jobs : job[j].subject = a /\ job[j].state \in Ongoing

Reconcile_CancelIsTheEnd ==
  /\ rpc.at = "checking" /\ WriterFree
  /\ IF \E j \in Jobs : job[j].subject = rpc.attempt /\ job[j].state \in Ongoing \ {"cancel_requested"}
     THEN UNCHANGED storeVars
     ELSE FinishIfActive(rpc.attempt, "interrupted")
  /\ rpc' = Idle
  /\ UNCHANGED <<jobVars, run>>

Reconcile_UnknownJobOnly ==
  /\ rpc.at = "checking" /\ WriterFree
  /\ IF \E j \in Jobs : job[j].subject = rpc.attempt THEN UNCHANGED storeVars
     ELSE FinishIfActive(rpc.attempt, "interrupted")
  /\ rpc' = Idle
  /\ UNCHANGED <<jobVars, run>>

\* It then looks its job up, and retires an attempt that no job will settle.
Reconcile ==
  /\ rpc.at = "checking" /\ WriterFree
  /\ IF HasOngoingJob(rpc.attempt) THEN UNCHANGED storeVars
     ELSE FinishIfActive(rpc.attempt, "interrupted")
  /\ rpc' = Idle
  /\ UNCHANGED <<jobVars, run>>

\* sessions.delete asks nobody: a job may be at work on the conversation.
DeleteConversation(s) ==
  /\ rpc = Idle /\ WriterFree
  /\ DeleteSession(s)
  /\ UNCHANGED <<jobVars, rpc, run>>

\* app.shutdown or end of input; a worker that outlives the grace period goes on.
Close ==
  /\ rpc = Idle
  /\ Shutdown
  /\ RpcAt("closed", None)
  /\ UNCHANGED <<storeVars, run>>

\* The process dies, the registry and an open transaction with it, and the next one
\* retires what it left.
Forget ==
  /\ job' = [j \in Jobs |-> IF job[j].state = "absent" THEN job[j] ELSE NoRecord("pruned")]
  /\ order' = <<>>
  /\ queue' = <<>>
  /\ shuttingDown' = FALSE
  /\ WorkerAt("none", NoJob, "none")

Restart ==
  /\ Forget
  /\ ReconcileInterrupted
  /\ rpc' = Idle
  /\ run' = NotRunning

----------------------------------------------------------------------------
(* The worker thread. *)

Dispatch ==
  /\ Wait \/ Exit \/ Take \/ LookForCancel \/ Preflight \/ BuildExecutor \/ Finalize
  /\ UNCHANGED <<storeVars, rpc, run>>

\* _run_chat ends: it returns, or raises into _run_job.
Leave(outcome) == WorkerAt("finalizing", worker.job, outcome) /\ run' = NotRunning
                    /\ UNCHANGED <<job, order, queue, shuttingDown, rpc>>

\* check_cancelled on entry
Enter ==
  /\ worker.at = "executing" /\ run = NotRunning
  /\ IF job[worker.job].cancel THEN Leave("cancelled") ELSE RunAt("starting") /\ UNCHANGED <<jobVars, rpc>>
  /\ UNCHANGED storeVars

StartAttempt ==
  /\ run.at = "starting"
  /\ Start(Mine)
  /\ RunAt("started")
  /\ UNCHANGED <<jobVars, rpc>>

StartRefused_Cancelled ==
  /\ run.at = "starting"
  /\ attempt[Mine].state # "pending"
  /\ Leave("cancelled")
  /\ UNCHANGED storeVars

\* The attempt was cancelled while queued (JobCancelledError), or retired or deleted (AttemptRetired).
StartRefused ==
  /\ run.at = "starting"
  /\ attempt[Mine].state # "pending"
  /\ Leave(IF attempt[Mine].state = "cancelled" THEN "cancelled" ELSE "failed")
  /\ UNCHANGED storeVars

Announce ==
  /\ run.at = "started"
  /\ OnRunning(Mine)
  /\ RunAt("answering")
  /\ UNCHANGED <<storeVars, rpc>>

OpenCommit_EventIgnored ==
  /\ run.at = "answering"
  /\ MayCommit(Mine)
  /\ RunAt("committing")
  /\ UNCHANGED <<storeVars, jobVars, rpc>>

\* chat.send has an answer; commit_answer's tests pass under the write lock.
OpenCommit ==
  /\ run.at = "answering"
  /\ MayCommit(Mine)
  /\ ~job[worker.job].cancel
  /\ RunAt("committing")
  /\ UNCHANGED <<storeVars, jobVars, rpc>>

Commit ==
  /\ run.at = "committing"
  /\ CommitAnswer(Mine)
  /\ RunAt("answered")
  /\ UNCHANGED <<jobVars, rpc>>

\* chat.send raises: at a cancellation point or commit_answer's test, at the deadline,
\* or for any other reason, after the commit too.
Raise(cause) ==
  /\ run.at \in {"answering", "answered"}
  /\ cause = "cancelled" => job[worker.job].cancel \/ attempt[Mine].cancel
  /\ run' = [at |-> "raised", cause |-> cause]
  /\ UNCHANGED <<storeVars, jobVars, rpc>>

SettleAttempt_Unread ==
  /\ run.at = "raised"
  /\ Leave(IF run.cause = "cancelled" THEN "cancelled" ELSE "failed")
  /\ FinishIfActive(Mine, run.cause)

\* A committed answer is still a success; anything else settles the attempt and is raised again.
SettleAttempt ==
  /\ run.at = "raised"
  /\ IF attempt[Mine].state = "completed" THEN Leave("completed") /\ UNCHANGED storeVars
     ELSE /\ Leave(IF run.cause = "cancelled" THEN "cancelled" ELSE "failed")
          /\ FinishIfActive(Mine, run.cause)

Answer ==
  /\ run.at = "answered"
  /\ Leave("completed")
  /\ UNCHANGED storeVars

----------------------------------------------------------------------------
Causes == {"cancelled", "timed_out", "failed"}

RunChat ==
  \/ Enter \/ StartAttempt \/ StartRefused \/ Announce \/ OpenCommit \/ Commit
  \/ \E cause \in Causes : Raise(cause)
  \/ SettleAttempt \/ Answer

HandlerStep == (\E j \in Jobs : Enqueue(j) \/ EnqueueFails(j)) \/ CancelAttempt \/ Reconcile

Request ==
  \/ \E t \in Turns, a \in Attempts, k \in Keys :
       RetryChat(t, a, k) \/ \E s \in Sessions : SubmitChat(s, t, a, k)
  \/ \E j \in Jobs : CancelJob(j)
  \/ \E t \in Turns : ReadTurn(t)
  \/ \E s \in Sessions : DeleteConversation(s)
  \/ Close

ChatNext == Request \/ HandlerStep \/ Dispatch \/ RunChat \/ Restart

ChatSafetySpec == ChatInit /\ [][ChatNext]_chatVars

\* The client asks what became of a turn when its job failed (an unexpected error's
\* code confirms nothing) or is not known any more.
Unconfirmed(t) == \A j \in Jobs : job[j].subject = turn[t].current => job[j].state = "failed"

\* Both threads are scheduled and every stage of an answer is bounded by a timeout.
\* Requests are served in order, so a status request is not overtaken for ever.
ChatSpec ==
  /\ ChatSafetySpec
  /\ WF_chatVars(Dispatch \/ RunChat)
  /\ WF_chatVars(HandlerStep)
  /\ \A t \in Turns : SF_chatVars(ReadTurn(t) /\ Unconfirmed(t))

----------------------------------------------------------------------------
\* An attempt is executed by one job, however often its request is sent: two would
\* each ask the model, and one would report the other's outcome as its own.
OneJobPerAttempt ==
  \A i, j \in Jobs : job[i].subject # NoSubject /\ job[i].subject = job[j].subject => i = j

\* What the job reports and what the conversation holds agree: an answer that was
\* saved is never reported as failed or cancelled, nor the reverse, and a settled job
\* leaves no attempt running.
OutcomesAgree ==
  \A j \in Jobs :
    LET kept == attempt[job[j].subject].state
    IN /\ job[j].state = "completed" => kept \in {"completed", "deleted"}
       /\ job[j].state \in {"cancelled", "failed"} => kept \notin {"completed", "running"}

\* While an attempt reads "running" the worker really is between start and finish of
\* it: the conversation is never held by an attempt nobody executes.
RunningIsWorkedOn ==
  \A a \in Attempts : attempt[a].state = "running" =>
    /\ worker.at \in {"executing", "working"}
    /\ Mine = a
    /\ run.at \in {"started", "answering", "committing", "raised"}

\* An attempt that chat_status or a restart retired is not being worked on: nothing is
\* sent to the model for it any more.
RetiredIsIdle ==
  \A a \in Attempts :
    attempt[a].state = "interrupted" /\ run.at \in {"started", "answering", "committing"} => Mine # a

\* An attempt has one job, which works on it exactly as long as the conversation says so.
AttemptsHaveOneWorker == OneJobPerAttempt /\ RunningIsWorkedOn /\ RetiredIsIdle

\* A client told "cancelled" finds the conversation free: the attempt is settled, and
\* the question can be retried at once.
ReportedCancelIsSettled ==
  rpc = Idle => \A j \in Jobs : job[j].state = "cancelled" => attempt[job[j].subject].state \notin Active

\* Seen from the queue, chat is an executor as JobService assumes one: it announces
\* itself before it returns and raises JobCancelledError only after a cancel.
KeepsQueue ==
  JobInit /\ [][\/ JobNext \/ Forget
               \/ \E j \in Jobs : Unstarted(j) \/ \E a \in Attempts : SubmitOne(j, "chat", a)]_jobVars

\* A cancel that is set before the commit's test is final: no answer is saved later,
\* whether the store has heard of the cancel yet or not.
CancelIsFinal ==
  \A j \in Jobs, a \in Attempts :
    [](job[j].cancel /\ job[j].subject = a /\ attempt[a].state \in Active /\ WriterFree
         => [](attempt[a].state # "completed"))

\* Every accepted question is answered, settled or deleted while the backend is open.
EveryAttemptSettles ==
  \A a \in Attempts : attempt[a].state \in Active ~> (attempt[a].state \notin Active \/ rpc.at = "closed")
=============================================================================
