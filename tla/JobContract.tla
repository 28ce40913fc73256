----------------------------- MODULE JobContract -----------------------------
(***************************************************************************)
(* What a client of the heavy-job queue may rely on, with no thread, lock, *)
(* wake-up or executor in sight: jobs form one line in submission order,   *)
(* only the job at its head works or settles, a settled job never changes, *)
(* and "cancelled" always follows a request.  JobService implements it.    *)
(***************************************************************************)
EXTENDS Naturals, Sequences

CONSTANTS Jobs, MaxBatch

VARIABLES
  status,   \* what the client is told of each job
  line      \* the unsettled jobs, oldest first

contractVars == <<status, line>>

Outcomes == {"cancelled", "completed", "failed"}
Unsettled == {"queued", "preflighting", "running", "cancel_requested"}

ContractInit ==
  /\ status = [j \in Jobs |-> "absent"]
  /\ line = <<>>

\* Several files may be submitted at once, each as a job of its own.
Batches == UNION {[1..n -> Jobs] : n \in 1..MaxBatch}

Submit(batch) ==
  /\ \A i, k \in DOMAIN batch : batch[i] = batch[k] => i = k
  /\ \A i \in DOMAIN batch : status[batch[i]] = "absent"
  /\ status' = [j \in Jobs |-> IF \E i \in DOMAIN batch : batch[i] = j THEN "queued" ELSE status[j]]
  /\ line' = line \o batch

\* One job, or every unsettled job at shutdown.
RequestCancel(J) ==
  /\ \A j \in J : status[j] \in Unsettled
  /\ status' = [j \in Jobs |-> IF j \in J THEN "cancel_requested" ELSE status[j]]
  /\ UNCHANGED line

Advance(from, to) ==
  /\ line # <<>>
  /\ status[Head(line)] = from
  /\ status' = [status EXCEPT ![Head(line)] = to]
  /\ UNCHANGED line

\* Begun work ends in an outcome, "cancelled" only after a request; older outcomes may be forgotten.
Settle(o, forgotten) ==
  /\ line # <<>>
  /\ status[Head(line)] \in CASE o = "cancelled" -> {"cancel_requested"}
                              [] o = "completed" -> {"running", "cancel_requested"}
                              [] o = "failed" -> {"preflighting", "running", "cancel_requested"}
  /\ \A j \in forgotten : status[j] \in Outcomes
  /\ status' = [j \in Jobs |-> IF j = Head(line) THEN o ELSE IF j \in forgotten THEN "forgotten" ELSE status[j]]
  /\ line' = Tail(line)

ContractNext ==
  \/ \E batch \in Batches : Submit(batch)
  \/ \E J \in SUBSET Jobs : RequestCancel(J)
  \/ Advance("queued", "preflighting")
  \/ Advance("preflighting", "running")
  \/ \E o \in Outcomes, forgotten \in SUBSET Jobs : Settle(o, forgotten)

ContractSpec == ContractInit /\ [][ContractNext]_contractVars
=============================================================================
