------------------------------ MODULE Campaign ------------------------------
(***************************************************************************)
(* One benchmark campaign: its row, the rows of its jobs, the thread that  *)
(* runs them one after the other on a connection of its own, and the       *)
(* requests of the RPC thread, which has another connection.  A step of    *)
(* either side is one transaction or one read; what is read in one step is *)
(* used in a later one.  The two sides share the columns status and        *)
(* requested_action, and both write them without looking.                  *)
(*                                                                         *)
(* Left out: plans and estimates, the report columns, and a thread that    *)
(* ends because the database stayed locked.  Campaigns share no rows, so   *)
(* one is enough; after a deletion the next one takes its place once no    *)
(* thread of the deleted one is left.                                      *)
(*                                                                         *)
(* A definition Name_Variant repeats Name with a plausible mistake in it;  *)
(* no specification uses it (README, "How the properties are validated").  *)
(***************************************************************************)
EXTENDS Naturals

CONSTANTS
  NumJobs,    \* jobs of the plan
  Threads,    \* names for worker threads, used again when a thread has ended
  NoThread    \* no thread was registered for the campaign

ASSUME CampaignAssumption == NumJobs \in Nat \ {0} /\ NoThread \notin Threads

VARIABLES
  status,     \* the campaign's status, "absent" while it has no row
  action,     \* requested_action
  jobs,       \* the status of every job, by sequence
  thread,     \* where each thread is, and the job it has in hand
  worker,     \* the campaign's entry in CampaignService._workers
  rpc,        \* what the RPC thread has left to do in a request
  up,         \* the sidecar runs and has finished its recovery
  wish,       \* the user's last word: to go on, or to pause or cancel
  late,       \* jobs begun since that pause or cancel, at most MaxLate
  missed      \* a retry came after the thread had counted the jobs for the last time

campaignVars == <<status, action, jobs, thread, worker, rpc, up, wish, late, missed>>

Sequence == 1..NumJobs
MaxLate == 2
Lates == 0..MaxLate

CampaignStatus == {"absent", "draft", "queued", "running", "paused", "completed",
                   "completed_with_errors", "cancelled", "interrupted", "error"}
Terminal == {"completed", "failed", "timed_out", "skipped", "cancelled"}
Waiting == {"queued", "interrupted"}
JobStatus == Terminal \union Waiting \union {"running", "absent"}
Counted == {"interrupted", "completed", "completed_with_errors"}
Places == {"dead", "begin", "loop", "cancel", "pause", "pick", "final", "claim",
           "eval", "leaving"} \union Counted

Hands == [at : Places, job : 0..NumJobs]
Dead == [at |-> "dead", job |-> 0]
IsAlive(t) == thread[t].at # "dead"
WorkerAlive == worker # NoThread /\ IsAlive(worker)
Exists == status # "absent"

\* The type of the state.
CampaignTypeOK ==
  /\ status \in CampaignStatus
  /\ action \in {"", "pause", "cancel"}
  /\ jobs \in [Sequence -> JobStatus]
  /\ thread \in [Threads -> Hands]
  /\ worker \in Threads \union {NoThread}
  /\ rpc \in {"idle", "starting", "ensuring"}
  /\ up \in BOOLEAN
  /\ wish \in {"go", "stop"}
  /\ late \in Lates
  /\ missed \in BOOLEAN

CampaignInit ==
  /\ status = "absent" /\ action = ""
  /\ jobs = [j \in Sequence |-> "absent"]
  /\ thread = [t \in Threads |-> Dead]
  /\ worker = NoThread
  /\ rpc = "idle" /\ up = TRUE
  /\ wish = "go" /\ late = 0 /\ missed = FALSE

-----------------------------------------------------------------------------
(* What the transactions compute.  An UPDATE of a deleted campaign changes  *)
(* no row.                                                                  *)

SetStatus(s) == status' = IF Exists THEN s ELSE status

SetJobs(js, s) ==
  jobs' = [j \in Sequence |-> IF Exists /\ j \in js THEN s ELSE jobs[j]]

JobsIn(statuses) == {j \in Sequence : jobs[j] \in statuses}

\* final_campaign_status over the counts of the jobs.
FinalStatus ==
  IF JobsIn(Terminal) # Sequence THEN "interrupted"
  ELSE IF JobsIn(Terminal \ {"completed"}) # {} THEN "completed_with_errors"
  ELSE "completed"

\* How a run ends: job_status_for_run, or the exception that failed it.
Outcomes == {"completed", "failed", "timed_out"}

GoOn == wish' = "go" /\ late' = 0

-----------------------------------------------------------------------------
(* The worker thread: _run_campaign and _run_job.                           *)

Goto(t, place) == thread' = [thread EXCEPT ![t].at = place]

\* _run_campaign marks the campaign running, whatever its status is.
Begin(t) ==
  /\ thread[t].at = "begin"
  /\ SetStatus("running")
  /\ Goto(t, "loop")
  /\ missed' = FALSE
  /\ UNCHANGED <<action, jobs, worker, rpc, up, wish, late>>

\* Top of the loop: read the row; the read raises when it is gone.
ReadAction(t) ==
  /\ thread[t].at = "loop"
  /\ Goto(t, IF ~Exists THEN "leaving" ELSE IF action = "" THEN "pick" ELSE action)
  /\ UNCHANGED <<status, action, jobs, worker, rpc, up, wish, late, missed>>

\* _cancel_remaining_jobs and _finalize_campaign, one transaction.
CancelRemaining(t) ==
  /\ thread[t].at = "cancel"
  /\ SetJobs(JobsIn(Waiting), "cancelled")
  /\ SetStatus("cancelled")
  /\ action' = ""
  /\ Goto(t, "leaving")
  /\ UNCHANGED <<worker, rpc, up, wish, late, missed>>

PauseNow(t) ==
  /\ thread[t].at = "pause"
  /\ SetStatus("paused")
  /\ action' = ""
  /\ Goto(t, "leaving")
  /\ UNCHANGED <<jobs, worker, rpc, up, wish, late, missed>>

\* _next_job: the waiting job that comes first.
NextJob(t) ==
  /\ thread[t].at = "pick"
  /\ \/ JobsIn(Waiting) = {} /\ Goto(t, "final")
     \/ \E j \in JobsIn(Waiting) :
          /\ \A k \in JobsIn(Waiting) : j <= k
          /\ thread' = [thread EXCEPT ![t] = [at |-> "claim", job |-> j]]
  /\ UNCHANGED <<status, action, jobs, worker, rpc, up, wish, late, missed>>

\* _finalize_campaign first counts the jobs, in a read of its own.
CountJobs(t) ==
  /\ thread[t].at = "final"
  /\ Goto(t, FinalStatus)
  /\ UNCHANGED <<status, action, jobs, worker, rpc, up, wish, late, missed>>

\* Then it writes the counts and the status they give, in one transaction.  The
\* report's columns, written next, are not modelled.
Finalize(t) ==
  /\ thread[t].at \in Counted
  /\ SetStatus(thread[t].at)
  /\ action' = ""
  /\ Goto(t, "leaving")
  /\ UNCHANGED <<jobs, worker, rpc, up, wish, late, missed>>

\* _run_job, first transaction: job and campaign are running.
Claim(t) ==
  /\ thread[t].at = "claim"
  /\ SetJobs({thread[t].job}, "running")
  /\ SetStatus("running")
  /\ late' = IF wish = "stop" /\ late < MaxLate THEN late + 1 ELSE late
  /\ Goto(t, "eval")
  /\ UNCHANGED <<action, worker, rpc, up, wish, missed>>

EndJob_PicksNext(t) ==
  /\ thread[t].at = "eval"
  /\ \E outcome \in Outcomes :
       SetJobs({thread[t].job}, outcome)
  /\ thread' = [thread EXCEPT ![t] = [at |-> "pick", job |-> 0]]
  /\ UNCHANGED <<status, action, worker, rpc, up, wish, late, missed>>

\* _run_job, second transaction: the outcome of the benchmark, or its failure.
EndJob(t) ==
  /\ thread[t].at = "eval"
  /\ \E outcome \in Outcomes :
       SetJobs({thread[t].job}, outcome)
  /\ thread' = [thread EXCEPT ![t] = [at |-> "loop", job |-> 0]]
  /\ UNCHANGED <<status, action, worker, rpc, up, wish, late, missed>>

\* The last commit is done, the thread is still alive until it returns.
Leave(t) ==
  /\ thread[t].at = "leaving"
  /\ thread' = [thread EXCEPT ![t] = Dead]
  /\ UNCHANGED <<status, action, jobs, worker, rpc, up, wish, late, missed>>

WorkerStep(t) ==
  \/ Begin(t) \/ ReadAction(t) \/ CancelRemaining(t) \/ PauseNow(t) \/ NextJob(t)
  \/ CountJobs(t) \/ Finalize(t) \/ Claim(t) \/ EndJob(t) \/ Leave(t)

-----------------------------------------------------------------------------
(* Requests.  The RPC thread serves one at a time.                          *)

Serving == up /\ rpc = "idle"

Create ==
  /\ Serving /\ ~Exists
  /\ \A t \in Threads : ~IsAlive(t)
  /\ status' = "draft"
  /\ action' = ""
  /\ jobs' = [j \in Sequence |-> "queued"]
  /\ worker' = NoThread
  /\ missed' = FALSE
  /\ GoOn
  /\ UNCHANGED <<thread, rpc, up>>

\* start reads the row and returns at once when the campaign is over.
StartRead ==
  /\ Serving
  /\ status \notin {"absent", "completed", "completed_with_errors", "cancelled"}
  /\ rpc' = "starting"
  /\ UNCHANGED <<status, action, jobs, thread, worker, up, wish, late, missed>>

StartWrite ==
  /\ rpc = "starting"
  /\ status' = IF status = "draft" THEN "queued" ELSE status
  /\ action' = ""
  /\ rpc' = "ensuring"
  /\ GoOn
  /\ UNCHANGED <<jobs, thread, worker, up, missed>>

\* resume: the campaign's row and its jobs' rows have conditions of their own.
Resume ==
  /\ Serving
  /\ IF status \in {"paused", "interrupted", "error", "draft", "queued"}
     THEN status' = "queued" /\ action' = ""
     ELSE UNCHANGED <<status, action>>
  /\ SetJobs(JobsIn({"interrupted"}), "queued")
  /\ rpc' = "ensuring"
  /\ GoOn
  /\ UNCHANGED <<thread, worker, up, missed>>

\* retry_job takes a job in any state.
RetryJob(j) ==
  /\ Serving /\ Exists
  /\ SetJobs({j}, "queued")
  /\ status' = "queued"
  /\ action' = ""
  /\ missed' = \E t \in Threads : thread[t].at \in Counted
  /\ rpc' = "ensuring"
  /\ GoOn
  /\ UNCHANGED <<thread, worker, up>>

EnsureWorker_Unchecked ==
  /\ rpc = "ensuring"
  /\ rpc' = "idle"
  /\ \E t \in Threads :
       /\ ~IsAlive(t)
       /\ thread' = [thread EXCEPT ![t] = [at |-> "begin", job |-> 0]]
       /\ worker' = t
  /\ UNCHANGED <<status, action, jobs, up, wish, late, missed>>

\* _ensure_worker, after the commit of start, resume and retry_job: a new thread
\* unless the registered one is alive.
EnsureWorker ==
  /\ rpc = "ensuring"
  /\ rpc' = "idle"
  /\ IF WorkerAlive
     THEN UNCHANGED <<thread, worker>>
     ELSE \E t \in Threads :
            /\ ~IsAlive(t)
            /\ thread' = [thread EXCEPT ![t] = [at |-> "begin", job |-> 0]]
            /\ worker' = t
  /\ UNCHANGED <<status, action, jobs, up, wish, late, missed>>

StopAsked == wish' = "stop" /\ late' = IF wish = "stop" THEN late ELSE 0

Pause ==
  /\ Serving /\ Exists
  /\ action' = "pause"
  /\ status' = IF status \in {"queued", "draft"} THEN "paused" ELSE status
  /\ StopAsked
  /\ UNCHANGED <<jobs, thread, worker, rpc, up, missed>>

\* cancel: with no thread alive the request itself finishes the campaign.
Cancel ==
  /\ Serving /\ Exists
  /\ IF WorkerAlive
     THEN action' = "cancel" /\ UNCHANGED <<status, jobs>>
     ELSE /\ SetJobs(JobsIn(Waiting), "cancelled")
          /\ status' = "cancelled"
          /\ action' = ""
  /\ StopAsked
  /\ UNCHANGED <<thread, worker, rpc, up, missed>>

\* delete: the jobs' rows go with the campaign's; a thread may still be at work.
Delete ==
  /\ Serving /\ Exists
  /\ status' = "absent"
  /\ action' = ""
  /\ jobs' = [j \in Sequence |-> "absent"]
  /\ GoOn
  /\ UNCHANGED <<thread, worker, rpc, up, missed>>

-----------------------------------------------------------------------------
(* The process ends, with all its daemon threads, and is started again:     *)
(* recover_interrupted_campaigns runs before the first request.             *)

Crash ==
  /\ up
  /\ up' = FALSE
  /\ thread' = [t \in Threads |-> Dead]
  /\ worker' = NoThread
  /\ rpc' = "idle"
  /\ UNCHANGED <<status, action, jobs, wish, late, missed>>

Recover_JobsOnly ==
  /\ ~up
  /\ up' = TRUE
  /\ SetJobs(JobsIn({"running"}), "interrupted")
  /\ UNCHANGED <<status, action, thread, worker, rpc, wish, late, missed>>

Recover ==
  /\ ~up
  /\ up' = TRUE
  /\ IF status = "running"
     THEN /\ status' = "interrupted"
          /\ action' = ""
          /\ SetJobs(JobsIn({"running"}), "interrupted")
     ELSE UNCHANGED <<status, action, jobs>>
  /\ UNCHANGED <<thread, worker, rpc, wish, late, missed>>

Rest ==
  \/ \E t \in Threads : WorkerStep(t)
  \/ Create \/ StartRead \/ StartWrite \/ Resume \/ EnsureWorker
  \/ Pause \/ Cancel \/ Delete \/ Crash \/ Recover

CampaignNext == Rest \/ \E j \in Sequence : RetryJob(j)

CampaignSpec == CampaignInit /\ [][CampaignNext]_campaignVars

\* Retries as the campaign card offers them, for failed and timed-out jobs.
OfferedNext == Rest \/ \E j \in JobsIn({"failed", "timed_out"}) : RetryJob(j)

OfferedSpec == CampaignInit /\ [][OfferedNext]_campaignVars

-----------------------------------------------------------------------------
(* Properties.                                                              *)

\* A job that has ended keeps its outcome until it is retried, which queues it and its
\* campaign together, or its campaign is deleted: no thread runs it a second time and
\* no cancel, pause, resume or recovery touches it.
FinishedJobsStay ==
  [][\A j \in Sequence : jobs[j] \in Terminal =>
       \/ jobs'[j] = jobs[j]
       \/ jobs'[j] = "queued" /\ status' = "queued"
       \/ jobs'[j] = "absent"]_campaignVars

\* What a campaign's last status says is true of its jobs: completed, all of them are;
\* completed with errors, all have ended; cancelled, none waits.  The only exception
\* is a retry between the thread's last count and the write of it.
StatusesAgree ==
  /\ status = "completed" => missed \/ JobsIn({"completed"}) = Sequence
  /\ status = "completed_with_errors" => missed \/ JobsIn(Terminal) = Sequence
  /\ status = "cancelled" => JobsIn(Waiting) = {}

\* After an accepted pause or cancel at most one more job begins, the one the thread
\* had decided on before, until a start, a resume or a retry.
AtMostOneMore == late <= 1

\* Whenever a job waits and nothing will run it, the card shows the button that goes
\* on: no sequence of requests, crashes and late threads strands a waiting job, the
\* missed retry excepted.
ResumeIsOffered ==
  (~missed /\ up /\ rpc = "idle" /\ JobsIn(Waiting) # {} /\ \A t \in Threads : ~IsAlive(t))
    => status \in {"draft", "queued", "paused", "interrupted"}

\* A campaign's status is true of its jobs and leaves a way on for those that wait.
StatusesAreTrue == StatusesAgree /\ ResumeIsOffered

\* A campaign the sidecar left in the middle can be resumed: no job is still marked
\* running when the process is up and no thread is there to run it.
NoJobLeftRunning ==
  (up /\ \A t \in Threads : ~IsAlive(t)) => JobsIn({"running"}) = {}
=============================================================================
