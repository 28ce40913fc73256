--------------------------- MODULE TimeConversion ---------------------------
(***************************************************************************)
(* The deterministic time conversion of time_conversion.py: what a message *)
(* does to a conversion under way, and the instant that is answered.       *)
(* Recognising a message is left out: a message comes as its kind and the  *)
(* attempts read from it.  Moments are counted in hours: a date is a whole *)
(* number of days, a time an hour, and a zone has an offset that changes   *)
(* at most once.  Wordings, issues and notes are left out.                 *)
(*                                                                         *)
(* A definition Name_Variant repeats Name with a plausible mistake in it.  *)
(***************************************************************************)
EXTENDS Lists

CONSTANTS
  DayHours,   \* hours of a day
  LastMoment, \* calendars end: moments are 0..LastMoment, in every zone
  Zones       \* [zone -> [change, before, after]]; a fixed offset has before = after

ASSUME ConversionAssumption ==
  /\ {DayHours, LastMoment} \subseteq Nat \ {0}
  /\ \A z \in DOMAIN Zones : {Zones[z].change, Zones[z].before, Zones[z].after} \subseteq Int

Fields == {"date", "time", "source", "target"}
Unset == -1

\* Something a message says: a field ("zone" if the message does not say which), the value read or
\* Unset when it could not be, and whether it was labelled.
Said(field, value, labeled) == [field |-> field, value |-> value, labeled |-> labeled]
Choice(which) == [field |-> "occurrence", value |-> which]
Attempts ==
  [field : {"date", "time"}, value : Nat \cup {Unset}, labeled : BOOLEAN]
    \cup [field : {"source", "target", "zone"}, value : DOMAIN Zones \cup {Unset}, labeled : BOOLEAN]
    \cup [field : {"occurrence"}, value : {"earlier", "later"}]
\* A message: its kind, the last three being ordinary chat here, and what it says.
Kinds == {"request", "reply", "role", "cancel", "documents", "talk", "answer"}
Messages ==
  {m \in [kind : Kinds, said : Seq(Attempts)] :
     m.kind = "role" => Len(m.said) = 1 /\ m.said[1].field \in {"source", "target"}}

NewState ==
  [fields |-> [f \in Fields |-> Unset], refs |-> [f \in Fields |-> 0], occurrence |-> "none",
   role |-> Unset, open |-> {}, expecting |-> FALSE]

-----------------------------------------------------------------------------
\* The state of a conversion

\* A value that was not asked for again and not labelled clears the field it contradicts.
Apply(s, a, q) ==
  LET current == s.fields[a.field]
      agrees == current \in {Unset, a.value} \/ a.labeled \/ a.field \in s.open
      value == IF agrees THEN a.value ELSE Unset
      moved == a.field # "target" /\ value # current IN
  [s EXCEPT !.fields[a.field] = value,
            !.refs[a.field] = IF value = Unset THEN 0 ELSE IF value = current THEN @ ELSE q,
            !.occurrence = IF moved THEN "none" ELSE @,
            !.expecting = @ /\ ~moved]

Known(s) == {f \in Fields : s.fields[f] # Unset}

\* A zone nobody gave a role takes the only role that is free, or waits for one.
AssignZones(s, attempts, q) ==
  LET missing == {"source", "target"} \ Known(s)
      fresh == {k \in DOMAIN attempts : /\ attempts[k].field = "zone" /\ attempts[k].value # Unset
                                        /\ \A f \in Fields : attempts[k].value # s.fields[f]}
      zone == attempts[CHOOSE k \in fresh : TRUE] IN
  IF Cardinality(fresh) # 1 THEN s
  ELSE IF Cardinality(missing) = 1
    THEN [Apply(s, [zone EXCEPT !.field = CHOOSE f \in missing : TRUE], q) EXCEPT !.role = Unset]
  ELSE [s EXCEPT !.role = zone.value]

ApplyOne(s, a, q) ==
  IF a.field \in Fields THEN Apply(s, a, q)
  ELSE IF a.field = "occurrence" /\ s.expecting THEN [s EXCEPT !.occurrence = a.value] ELSE s

ApplyAll(s, attempts, q) ==
  LET applied[i \in 0..Len(attempts)] == IF i = 0 THEN s ELSE ApplyOne(applied[i - 1], attempts[i], q)
      done == AssignZones(applied[Len(attempts)], attempts, q)
      settled == \/ done.role \in {done.fields[f] : f \in Known(done)}
                 \/ (\A k \in DOMAIN attempts : attempts[k].field # "zone") /\ {"source", "target"} \subseteq Known(done)
  IN IF settled THEN [done EXCEPT !.role = Unset] ELSE done

-----------------------------------------------------------------------------
\* Zones and instants

Offset(z, u) == IF u < Zones[z].change THEN Zones[z].before ELSE Zones[z].after
Local(z, u) == u + Offset(z, u)
Fixed(z) == Zones[z].before = Zones[z].after
InRange(u) == u \in 0..LastMoment

\* zoneinfo's reading of a wall time: the later of the two wall times of a change begins the new
\* offset for fold 0, the earlier one for fold 1.
Instant(z, local, fold) ==
  LET zone == Zones[z]
      turn == zone.change + IF fold = 0 THEN Max({zone.before, zone.after}) ELSE Min({zone.before, zone.after})
  IN local - IF local < turn THEN zone.before ELSE zone.after

Readings(z, local) == {Instant(z, local, 0), Instant(z, local, 1)}

\* The real instants of a wall time, or that it lies outside the calendar
Overflows(z, local) == \E u \in Readings(z, local) : ~InRange(u) \/ ~InRange(Local(z, u))
Candidates(z, local) == {u \in Readings(z, local) : Local(z, u) = local}

Wall(s) == s.fields["date"] * DayHours + s.fields["time"]

\* What a state comes to; with data the rules of the regions can be read.
Finish(s, data) ==
  LET known == Known(s)
      z == s.fields["source"]
      complete == {"date", "time", "source"} \subseteq known
      found == Candidates(z, Wall(s))
      verdict == IF ~complete THEN "incomplete"
                 ELSE IF Overflows(z, Wall(s)) THEN "range"
                 ELSE IF found = {} THEN "gap"
                 ELSE IF Cardinality(found) = 2 /\ s.occurrence = "none" THEN "twice" ELSE "one"
      instant == IF s.occurrence = "later" THEN Max(found) ELSE Min(found)
      beyond == verdict = "one" /\ "target" \in known /\ ~InRange(Local(s.fields["target"], instant))
      reopened == verdict \in {"range", "gap"} \/ beyond
      needs == (Fields \ known) \cup (CASE verdict = "range" \/ beyond -> {"date"} [] verdict = "gap" -> {"time"}
                                        [] verdict = "twice" -> {"occurrence"} [] OTHER -> {})
                 \cup IF s.role # Unset THEN {"zone_role"} ELSE {}
      left == [s EXCEPT !.open = IF reopened THEN {"date", "time"} ELSE {}, !.expecting = "occurrence" \in needs,
                        !.occurrence = IF verdict = "one" /\ Cardinality(found) = 1 THEN "none" ELSE @]
      regions == ("target" \in known /\ ~Fixed(s.fields["target"])) \/ (complete /\ ~Fixed(z)) IN
  IF regions /\ ~data THEN [status |-> "unavailable", state |-> left, instant |-> 0]
  ELSE IF needs # {} THEN [status |-> "clarified", state |-> left, instant |-> 0]
  ELSE [status |-> "converted", state |-> left, instant |-> instant]

-----------------------------------------------------------------------------
\* Kinds of messages: "reply" is a message that reads as an answer to a clarification; a "role"
\* says that the zone in waiting is the one or the other, and with none in waiting is a word that is
\* no zone.

NotMine == [status |-> "none"]

\* pending_from_metadata: a clarification can be taken up again, anything else cannot.
Pending(outcome) == outcome.status = "clarified"

Answers(message, s) ==
  IF message.kind # "role" THEN message.said
  ELSE IF s.role # Unset THEN <<[message.said[1] EXCEPT !.value = s.role]>>
  ELSE IF {"source", "target"} \subseteq Known(s) THEN <<>> ELSE <<Said("zone", Unset, FALSE)>>

\* _parse_request: the message asks for a conversion of its own.
Begins(message) == message.kind = "request"

\* respond: the outcome of a message after another outcome, NotMine when it is ordinary chat.
Respond(message, before, q, data) ==
  IF message.kind = "cancel" /\ Pending(before) THEN [status |-> "cancelled", state |-> NewState, instant |-> 0]
  ELSE IF Begins(message) THEN Finish(ApplyAll(NewState, message.said, q), data)
  ELSE IF ~Pending(before) \/ message.kind \notin {"reply", "role"} THEN NotMine
  ELSE IF Answers(message, before.state) = <<>> THEN NotMine
  ELSE Finish(ApplyAll(before.state, Answers(message, before.state), q), data)
=============================================================================
