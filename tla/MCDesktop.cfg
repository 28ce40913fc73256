\* Host: three processes: the first, its replacement, and one more for the user's retry.
\* Campaign: three jobs: one done, one in hand and one waiting. One thread is alive at a time
\* unless a second is started beside it, so two names are enough.
SPECIFICATION DesktopSpec
CONSTANTS
  Calls = {safe, unsafe}
  Safe = {safe}
  Procs = {p1, p2, p3}
  None = None
  NumJobs = 3
  Threads = {w1, w2}
  NoThread = NoThread
SYMMETRY MCSymmetry
INVARIANTS
  UnsafeRunsOnce
  StatusesAreTrue
  AtMostOneMore
PROPERTIES
  RestartsAreSafe
  FinishedJobsStay
