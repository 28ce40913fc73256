\* One question and its retry; no symmetry, which liveness does not allow.
SPECIFICATION ChatSpec
CONSTANTS
  Sessions = {s1}
  Turns = {t1}
  Attempts = {a1, a2}
  Keys = {k1, k2}
  Documents = {}
  None = None
  Untracked = Untracked
  Jobs = {j1, j2}
  Subjects = {a1, a2}
  NoJob = NoJob
  NoSubject = None
  MaxQueued = 1
  MaxRetained = 1
PROPERTIES
  CancelIsFinal
  EveryAttemptSettles
