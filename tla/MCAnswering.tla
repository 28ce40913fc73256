---------------------------- MODULE MCAnswering -----------------------------
\* Zone 10 sets its clocks back (local hour 4 comes twice), zone 11 forward (local hour 4 does not
\* exist), zones 12 and 13 are fixed offsets; days have three hours, and the calendar ends.
EXTENDS Answering

MCZones ==
  (10 :> [change |-> 4, before |-> 1, after |-> 0]) @@ (11 :> [change |-> 4, before |-> 0, after |-> 1])
    @@ (12 :> [change |-> 0, before |-> 0, after |-> 0]) @@ (13 :> [change |-> 0, before |-> -1, after |-> -1])

At(d, t) == <<Said("date", d, FALSE), Said("time", t, FALSE)>>
From(z) == <<Said("source", z, TRUE)>>
To(z) == <<Said("target", z, TRUE)>>
Asks(said) == [kind |-> "request", said |-> said]
Tells(said) == [kind |-> "reply", said |-> said]

MCContents ==
  {[kind |-> "documents", said |-> <<>>], [kind |-> "cancel", said |-> <<>>],
   [kind |-> "role", said |-> <<Said("target", Unset, TRUE)>>]}
    \cup {Asks(At(1, 1) \o From(10) \o To(12)), Asks(At(1, 1) \o From(11)),
          Asks(At(Unset, 1) \o From(10))}
    \cup {Tells(<<Said("zone", 13, FALSE)>>), Tells(<<Said("date", 0, FALSE)>>),
          Tells(<<Said("time", 0, FALSE)>>), Tells(<<Choice("later")>>), Tells(At(1, 1) \o <<Choice("earlier")>>)}
=============================================================================
