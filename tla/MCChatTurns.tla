----------------------------- MODULE MCChatTurns -----------------------------
EXTENDS ChatTurns, TLC

\* Ids are interchangeable: no operation orders or inspects them.
StoreSymmetry == Permutations(Turns) \cup Permutations(Attempts) \cup Permutations(Keys)
                   \cup Permutations(Sessions)
=============================================================================
