\* Three jobs with room for two in the queue and one retained outcome: the queue
\* fills, a batch is refused for its size, and outcomes are forgotten. Weak fairness of
\* the worker alone; no symmetry, which liveness does not allow.
SPECIFICATION JobSpec
CONSTANTS
  Jobs = {j1, j2, j3}
  Subjects = {d1}
  NoJob = NoJob
  NoSubject = NoSubject
  MaxQueued = 2
  MaxRetained = 1
INVARIANTS
  FinalizeIsLegal
  QueueIsWhole
PROPERTIES
  KeepsContract
  CancelledInQueueNeverRuns
  WorkerDelivers
\* Job ids run out and a shut-down service stops.
CHECK_DEADLOCK FALSE
