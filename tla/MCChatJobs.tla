----------------------------- MODULE MCChatJobs -----------------------------
EXTENDS ChatJobs, TLC

\* Ids are interchangeable: no operation orders or inspects them.
ChatSymmetry == Permutations(Sessions) \cup Permutations(Turns) \cup Permutations(Attempts)
                  \cup Permutations(Keys) \cup Permutations(Jobs)
=============================================================================
