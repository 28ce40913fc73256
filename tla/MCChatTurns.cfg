\* Two conversations, so that "per session" differs from "overall"; two questions
\* and three attempts, so that a question can be retried, superseded by another
\* and both at once.
SPECIFICATION StoreSpec
CONSTANTS
  Sessions = {s1, s2}
  Turns = {t1, t2}
  Attempts = {a1, a2, a3}
  Keys = {k1, k2, k3}
  Documents = {d1}
  None = None
  Untracked = Untracked
SYMMETRY StoreSymmetry
INVARIANTS
  AtMostOneAnswer
  RowsAgree
PROPERTIES
  TurnsOnlyAdvance
  ImplementsConversation
\* Every id is used at most once, so a behaviour ends when the ids have run out.
CHECK_DEADLOCK FALSE
