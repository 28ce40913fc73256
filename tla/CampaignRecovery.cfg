\* Two jobs: one that failed and one in hand. The view offers the retry of the first.
SPECIFICATION OfferedSpec
CONSTANTS
  NumJobs = 2
  Threads = {w1}
  NoThread = NoThread
INVARIANT NoJobLeftRunning
