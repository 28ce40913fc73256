-------------------------------- MODULE Lists --------------------------------
\* What several of the modules about data need beside the community modules.
EXTENDS Integers, SequencesExt

\* The items at the places T, in order
Only(s, T) ==
  LET kept[i \in 0..Len(s)] ==
        IF i = 0 THEN <<>> ELSE IF i \in T THEN Append(kept[i - 1], s[i]) ELSE kept[i - 1]
  IN kept[Len(s)]

\* The first item of each key, in order
FirstOf(s, Key(_)) == Only(s, {i \in DOMAIN s : \A j \in 1..(i - 1) : Key(s[j]) # Key(s[i])})

\* The sum of a sequence of numbers
Total(s) ==
  LET total[i \in 0..Len(s)] == IF i = 0 THEN 0 ELSE total[i - 1] + s[i]
  IN total[Len(s)]

\* The first n items, or all
Upto(s, n) == SubSeq(s, 1, Min({n, Len(s)}))

\* The set in the order of Before, which is total on it
InOrder(S, Before(_, _)) == SortSeq(SetToSeq(S), Before)
=============================================================================
