----------------------------- MODULE JobService -----------------------------
(***************************************************************************)
(* The single-worker heavy-job queue (services/job_service.py).  The RPC   *)
(* thread submits, cancels and shuts down; one daemon worker takes jobs in *)
(* order.  Each block under the service's lock is one action; everything   *)
(* the worker does between two blocks is a step of its own, so a cancel or *)
(* a shutdown can fall into every gap.  The condition variable is explicit:*)
(* a notification reaches only a worker that is waiting.                   *)
(*                                                                         *)
(* The executor is any domain work that keeps the protocol of              *)
(* DocumentJobExecutor: it calls on_running before it returns, and raises  *)
(* JobCancelledError only when the job's cancel event is set.              *)
(*                                                                         *)
(* A definition Name_Variant repeats Name with a plausible mistake in it;  *)
(* no specification uses it (README, "How the properties are validated").  *)
(***************************************************************************)
EXTENDS Naturals, Sequences, FiniteSets

CONSTANTS
  Jobs,        \* job ids, never reused
  Subjects,    \* documents (and, in module ChatJobs, chat attempts) jobs work on
  NoJob, NoSubject,
  MaxQueued,   \* MAX_QUEUED_JOBS
  MaxRetained  \* MAX_RETAINED_TERMINAL_JOBS

ASSUME JobAssumption ==
  /\ NoJob \notin Jobs
  /\ NoSubject \notin Subjects
  /\ MaxQueued \in Nat \ {0}
  /\ MaxRetained \in Nat \ {0}

VARIABLES
  job,           \* the JobRecords: state, kind, subject, and whether cancel_event is set
  order,         \* _order, in submission order; a pruned job keeps its place and is told by its state
  queue,         \* _queue: the jobs no worker has taken
  shuttingDown,  \* _shutdown
  worker         \* the worker thread: where it is, its job, the outcome it will record

jobVars == <<job, order, queue, shuttingDown, worker>>

Kinds == {"import", "ocr", "search", "chat"}
Terminal == {"cancelled", "completed", "failed"}
Ongoing == {"queued", "preflighting", "running", "cancel_requested"}

\* _LEGAL_TRANSITIONS, which _set_state_locked enforces by raising ValueError.
LegalFrom(s) ==
  CASE s = "queued" -> {"preflighting", "cancel_requested"}
    [] s = "preflighting" -> {"running", "failed", "cancel_requested"}
    [] s = "running" -> {"completed", "failed", "cancel_requested"}
    [] s = "cancel_requested" -> {"cancelled", "completed", "failed"}
    [] OTHER -> {}

Places == {"none", "awake", "waiting", "taken", "uncancelled", "building",
           "executing", "working", "finalizing", "exited"}

JobRows == [state : {"absent", "pruned"} \cup Ongoing \cup Terminal, kind : Kinds \cup {"none"},
            subject : Subjects \cup {NoSubject}, cancel : BOOLEAN]

NoRecord(s) == [state |-> s, kind |-> "none", subject |-> NoSubject, cancel |-> FALSE]

\* The worker's job, then the queue: the jobs that are still to settle, oldest first.
Line == (IF worker.job = NoJob THEN <<>> ELSE <<worker.job>>) \o queue

WorkerAt(place, j, outcome) == worker' = [at |-> place, job |-> j, outcome |-> outcome]

----------------------------------------------------------------------------
JobInit ==
  /\ job = [j \in Jobs |-> NoRecord("absent")]
  /\ order = <<>>
  /\ queue = <<>>
  /\ shuttingDown = FALSE
  /\ worker = [at |-> "none", job |-> NoJob, outcome |-> "none"]

\* _ensure_worker_locked and notify_all: a missing worker is started, a waiting one is woken.
StartOrWake ==
  worker' = IF worker.at \in {"none", "waiting"} THEN [worker EXCEPT !.at = "awake"] ELSE worker

\* _require_capacity_locked
HasRoom(n) == ~shuttingDown /\ Len(queue) + n <= MaxQueued

Register_Unnotified(batch, kind, subject) ==
  /\ \A i \in DOMAIN batch : job[batch[i]].state = "absent"
  /\ job' = [j \in Jobs |-> IF \E i \in DOMAIN batch : batch[i] = j
              THEN [state |-> "queued", kind |-> kind, subject |-> subject, cancel |-> FALSE] ELSE job[j]]
  /\ order' = order \o batch
  /\ queue' = queue \o batch
  /\ worker' = IF worker.at = "none" THEN [worker EXCEPT !.at = "awake"] ELSE worker
  /\ UNCHANGED shuttingDown

\* A submission's whole block: every job registered, then one notify_all.
Register(batch, kind, subject) ==
  /\ \A i, k \in DOMAIN batch : batch[i] = batch[k] => i = k
  /\ \A i \in DOMAIN batch : job[batch[i]].state = "absent"
  /\ job' = [j \in Jobs |-> IF \E i \in DOMAIN batch : batch[i] = j
              THEN [state |-> "queued", kind |-> kind, subject |-> subject, cancel |-> FALSE] ELSE job[j]]
  /\ order' = order \o batch
  /\ queue' = queue \o batch
  /\ StartOrWake
  /\ UNCHANGED shuttingDown

Batches == UNION {[1..n -> Jobs] : n \in 1..MaxQueued}

SubmitImport(batch) ==
  /\ HasRoom(Len(batch))
  /\ Register(batch, "import", NoSubject)

\* Refused while any unsettled job works on the document.
SubmitOcr(j, d) ==
  /\ HasRoom(1)
  /\ \A other \in Jobs : job[other].subject = d => job[other].state \notin Ongoing
  /\ Register(<<j>>, "ocr", d)

\* submit_search, and submit_chat for an accepted attempt
SubmitOne(j, kind, subject) ==
  /\ HasRoom(1)
  /\ Register(<<j>>, kind, subject)

Cancel_EventOnly(j) ==
  /\ job[j].state \in Ongoing
  /\ job' = [job EXCEPT ![j].cancel = TRUE]
  /\ UNCHANGED <<order, queue, shuttingDown, worker>>

\* A settled job is returned unchanged.
Cancel(j) ==
  /\ job[j].state \in Ongoing
  /\ job' = [job EXCEPT ![j].cancel = TRUE, ![j].state = "cancel_requested"]
  /\ UNCHANGED <<order, queue, shuttingDown, worker>>

CancelAll == [j \in Jobs |-> IF job[j].state \in Ongoing
                THEN [job[j] EXCEPT !.cancel = TRUE, !.state = "cancel_requested"] ELSE job[j]]

\* shutdown, up to its join: every unsettled job is asked to stop, the worker is woken.
Shutdown ==
  /\ ~shuttingDown
  /\ shuttingDown' = TRUE
  /\ job' = CancelAll
  /\ worker' = IF worker.at = "waiting" THEN [worker EXCEPT !.at = "awake"] ELSE worker
  /\ UNCHANGED <<order, queue>>

----------------------------------------------------------------------------
\* _worker_loop, its predicate tested and its job popped under one lock.
Wait ==
  /\ worker.at = "awake"
  /\ queue = <<>>
  /\ ~shuttingDown
  /\ WorkerAt("waiting", NoJob, "none")
  /\ UNCHANGED <<job, order, queue, shuttingDown>>

Exit ==
  /\ worker.at = "awake"
  /\ queue = <<>>
  /\ shuttingDown
  /\ WorkerAt("exited", NoJob, "none")
  /\ UNCHANGED <<job, order, queue, shuttingDown>>

Take_Newest ==
  /\ worker.at = "awake"
  /\ queue # <<>>
  /\ WorkerAt("taken", queue[Len(queue)], "none")
  /\ queue' = SubSeq(queue, 1, Len(queue) - 1)
  /\ UNCHANGED <<job, order, shuttingDown>>

Take ==
  /\ worker.at = "awake"
  /\ queue # <<>>
  /\ WorkerAt("taken", Head(queue), "none")
  /\ queue' = Tail(queue)
  /\ UNCHANGED <<job, order, shuttingDown>>

LookForCancel_Skipped ==
  /\ worker.at = "taken"
  /\ WorkerAt("uncancelled", worker.job, "none")
  /\ UNCHANGED <<job, order, queue, shuttingDown>>

\* The unlocked cancel_event test: a job cancelled in the queue is settled untouched.
LookForCancel ==
  /\ worker.at = "taken"
  /\ IF job[worker.job].cancel THEN WorkerAt("finalizing", worker.job, "cancelled")
     ELSE WorkerAt("uncancelled", worker.job, "none")
  /\ UNCHANGED <<job, order, queue, shuttingDown>>

\* The job may have been cancelled since the test: then it keeps cancel_requested.
Preflight ==
  /\ worker.at = "uncancelled"
  /\ job' = IF job[worker.job].state = "queued" THEN [job EXCEPT ![worker.job].state = "preflighting"] ELSE job
  /\ WorkerAt("building", worker.job, "none")
  /\ UNCHANGED <<order, queue, shuttingDown>>

\* executor_factory: it opens a database of its own, and may raise into the worker loop.
BuildExecutor ==
  /\ worker.at = "building"
  /\ \/ WorkerAt("executing", worker.job, "none")
     \/ WorkerAt("finalizing", worker.job, "failed")
  /\ UNCHANGED <<job, order, queue, shuttingDown>>

\* on_running, after a file import has created its document; an image import has none.
OnRunning(d) ==
  /\ worker.at = "executing"
  /\ IF job[worker.job].kind = "import" THEN d = NoSubject \/ \A j \in Jobs : job[j].subject # d
     ELSE d = job[worker.job].subject
  /\ job' = [job EXCEPT ![worker.job].subject = d,
                        ![worker.job].state = IF @ = "cancel_requested" THEN @ ELSE "running"]
  /\ WorkerAt("working", worker.job, "none")
  /\ UNCHANGED <<order, queue, shuttingDown>>

\* run returns; past its last cancellation check a cancelled job still completes.
Succeed ==
  /\ worker.at = "working"
  /\ WorkerAt("finalizing", worker.job, "completed")
  /\ UNCHANGED <<job, order, queue, shuttingDown>>

\* run raises, and the executor has rolled back.
Stop(outcome) ==
  /\ worker.at \in {"executing", "working"}
  /\ outcome \in {"cancelled", "failed"}
  /\ outcome = "cancelled" => job[worker.job].cancel
  /\ WorkerAt("finalizing", worker.job, outcome)
  /\ UNCHANGED <<job, order, queue, shuttingDown>>

TerminalIn(js, seq) == {i \in DOMAIN seq : js[seq[i]].state \in Terminal}

Forgotten_OffByOne(js, seq) ==
  {seq[i] : i \in {i \in TerminalIn(js, seq) : Cardinality({k \in TerminalIn(js, seq) : k >= i}) >= MaxRetained}}

\* _prune_locked: every terminal job that MaxRetained later ones follow.
Forgotten(js, seq) ==
  {seq[i] : i \in {i \in TerminalIn(js, seq) : Cardinality({k \in TerminalIn(js, seq) : k > i}) >= MaxRetained}}

\* _finalize.  An illegal outcome would raise and kill the worker: FinalizeIsLegal.
Finalize ==
  /\ worker.at = "finalizing"
  /\ worker.outcome \in LegalFrom(job[worker.job].state)
  /\ LET settled == [job EXCEPT ![worker.job].state = worker.outcome]
         gone == Forgotten(settled, order)
     IN job' = [j \in Jobs |-> IF j \in gone THEN NoRecord("pruned") ELSE settled[j]]
  /\ WorkerAt("awake", NoJob, "none")
  /\ UNCHANGED <<order, queue, shuttingDown>>

----------------------------------------------------------------------------
Client ==
  \/ \E batch \in Batches : SubmitImport(batch)
  \/ \E j \in Jobs :
       \/ \E d \in Subjects : SubmitOcr(j, d)
       \/ \E kind \in {"search", "chat"} : SubmitOne(j, kind, NoSubject)
       \/ Cancel(j)
  \/ Shutdown

Work ==
  \/ Wait \/ Exit \/ Take \/ LookForCancel \/ Preflight \/ BuildExecutor
  \/ \E d \in Subjects \cup {NoSubject} : OnRunning(d)
  \/ Succeed
  \/ \E o \in {"cancelled", "failed"} : Stop(o)
  \/ Finalize

JobNext == Client \/ Work

JobSafetySpec == JobInit /\ [][JobNext]_jobVars

\* The worker thread is scheduled and every stage of the domain work is bounded
\* by a timeout, so an executor returns; clients need not do anything.
JobSpec == JobSafetySpec /\ WF_jobVars(Work)

----------------------------------------------------------------------------
JobTypeOK ==
  /\ job \in [Jobs -> JobRows]
  /\ order \in Seq(Jobs)
  /\ queue \in Seq(Jobs)
  /\ shuttingDown \in BOOLEAN
  /\ worker \in [at : Places, job : Jobs \cup {NoJob}, outcome : Terminal \cup {"none"}]

\* _set_state_locked never raises when the worker records an outcome, wherever a
\* cancel or a shutdown fell: a raise there would end the worker thread, and
\* with it every job behind.
FinalizeIsLegal ==
  worker.at = "finalizing" => worker.outcome \in LegalFrom(job[worker.job].state)

\* Every unsettled job is in the queue once, or is the worker's, and nothing else is.
\* A job in neither place would never settle; a settled one would be run again.
NoJobLost ==
  /\ \A i, k \in DOMAIN Line : Line[i] = Line[k] => i = k
  /\ \A j \in Jobs : job[j].state \in Ongoing <=> \E i \in DOMAIN Line : Line[i] = j

\* A full queue, the worker's job and the last MaxRetained outcomes are all the
\* registry ever holds, however files are batched; and an outcome a client has yet
\* to read is not forgotten a job too early.
RegistryBounded ==
  LET settled == {j \in Jobs : job[j].state \in Terminal}
  IN /\ Len(queue) <= MaxQueued
     /\ Cardinality(settled) <= MaxRetained
     /\ (\E j \in Jobs : job[j].state = "pruned") => Cardinality(settled) = MaxRetained

\* Two unsettled jobs never work on one document, an import's new document included:
\* each would overwrite the other's pages and status.
OneJobPerDocument ==
  \A i, j \in Jobs :
    /\ job[i].state \in Ongoing /\ job[j].state \in Ongoing
    /\ job[i].subject # NoSubject /\ job[i].subject = job[j].subject
    => i = j

\* What is registered, what waits and what is in hand fit together, within the limits.
QueueIsWhole == NoJobLost /\ RegistryBounded /\ OneJobPerDocument

\* A cancel accepted while the job is still queued means no domain work is ever done.
CancelledInQueueNeverRuns ==
  \A j \in Jobs :
    [](((\E i \in DOMAIN queue : queue[i] = j) /\ job[j].cancel)
         => [](worker.job = j => worker.at \notin {"building", "executing", "working"}))

\* The service keeps its contract with clients: module JobContract.
Contract == INSTANCE JobContract WITH
  status <- [j \in Jobs |-> IF job[j].state = "pruned" THEN "forgotten" ELSE job[j].state],
  line <- Line,
  MaxBatch <- MaxQueued

KeepsContract == Contract!ContractSpec

\* Every accepted job reaches an outcome, so a client's poll loop ends.
EveryJobSettles ==
  \A j \in Jobs : job[j].state \in Ongoing ~> job[j].state \in Terminal \cup {"pruned"}

\* After shutdown begins the worker drains its queue and leaves, unless it never started.
ShutdownDrains == shuttingDown ~> (worker.at \in {"none", "exited"} /\ queue = <<>>)

\* The worker gets to the end of what it was given, and then of itself.
WorkerDelivers == EveryJobSettles /\ ShutdownDrains
=============================================================================
