\* One conversation, three attempts: a question is answered, cancelled, failed or
\* interrupted, retried or followed by another, while the job of the attempt before may
\* still be in the queue or in hand.
SPECIFICATION ChatSafetySpec
CONSTANTS
  Sessions = {s1}
  Turns = {t1, t2}
  Attempts = {a1, a2, a3}
  Keys = {k1, k2, k3}
  Documents = {}
  None = None
  Untracked = Untracked
  Jobs = {j1, j2, j3}
  Subjects = {a1, a2, a3}
  NoJob = NoJob
  NoSubject = None
  MaxQueued = 2
  MaxRetained = 1
SYMMETRY ChatSymmetry
INVARIANTS
  OutcomesAgree
  AttemptsHaveOneWorker
  ReportedCancelIsSettled
PROPERTIES
  KeepsQueue
