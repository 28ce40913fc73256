----------------------------- MODULE EvidencePath -----------------------------
(***************************************************************************)
(* What a Search does with the text of one page, from passages to a cited  *)
(* answer, as SearchService.run takes the steps: rank and cut the dossier, *)
(* describe its spans, show the model as many as fit, verify what it       *)
(* chose, perhaps once more after a repair round, and resolve the marks of *)
(* the answer.  The ranking, the model's choices and its answer are        *)
(* whatever they like.                                                     *)
(***************************************************************************)
EXTENDS SearchText

CONSTANTS
  Letters, MaxText,   \* of the page
  Title,              \* its title, one letter
  MaxPassages, MaxDossier,
  MaxSelections,      \* span ids looked at in one reply: 8
  Contexts,           \* model windows, in tokens
  Unit, Fixed         \* bytes of a character, and of a prompt without its evidence

ASSUME PathAssumption ==
  /\ {MaxText, MaxPassages, MaxDossier, MaxSelections} \subseteq Nat
  /\ Contexts \subseteq Nat /\ Unit \in Nat \ {0} /\ Fixed \in Nat

VARIABLES
  at,        \* the step that is next
  text,      \* the page
  context,   \* the model's window
  round,     \* rounds of selection begun
  pool,      \* which of the page's passages were retrieved
  dossier,   \* ranges of the text
  spans,     \* of the dossier
  visible,   \* how many of them are in the prompt
  shown,     \* ranges of the text the model was ever shown
  evidence,  \* verified items
  reply,     \* the marks of the model's answer
  answer     \* the marks the user sees

pathVars == <<at, text, context, round, pool, dossier, spans, visible, shown, evidence, reply, answer>>

SpanRange(s) == <<dossier[s.passage][1] + s.from - 1, dossier[s.passage][1] + s.to - 1>>
Groups(described) ==
  LET passages == FirstOf([i \in DOMAIN described |-> described[i].passage], LAMBDA k : k)
      Of(k) == Only(described, {i \in DOMAIN described : described[i].passage = k})
  IN [g \in DOMAIN passages |->
        [i \in DOMAIN Of(passages[g]) |-> Unit * (Of(passages[g])[i].to - Of(passages[g])[i].from + 1)]]

\* What is left of a selection prompt for evidence, in bytes
Room == InputBudget(ContextTokens(context, 0)) * 3 - Fixed

PathInit ==
  /\ at = "gathering" /\ context \in Contexts
  /\ text \in BoundedSeq(Letters, MaxText)
  /\ round = 0 /\ pool = {} /\ dossier = <<>> /\ spans = <<>> /\ visible = 0 /\ shown = {}
  /\ evidence = <<>> /\ reply = <<>> /\ answer = <<>>

\* A round retrieves passages it did not have; all are ranked, cut to the dossier, and described.
Gather ==
  /\ at = "gathering"
  /\ \E new \in SUBSET (DOMAIN Passages(text) \ pool) :
       /\ new # {}
       /\ pool' = pool \cup new
       /\ \E ranked \in SetToSeqs({Passages(text)[k] : k \in pool'}) : dossier' = Dossier(text, ranked, MaxPassages, MaxDossier)
  /\ spans' = SpansOf(text, dossier', Title)
  /\ round' = round + 1
  /\ at' = "selecting"
  /\ UNCHANGED <<text, context, visible, shown, evidence, reply, answer>>

\* _select_evidence packs the window
Show ==
  /\ at = "selecting"
  /\ visible' = PackWindow(Groups(spans), Room)
  /\ shown' = shown \cup {SpanRange(spans[k]) : k \in 1..visible'}
  /\ at' = "choosing"
  /\ UNCHANGED <<text, context, round, pool, dossier, spans, evidence, reply, answer>>

\* The model's reply names spans, some that do not exist or were not shown. What verifies in a first
\* round is the evidence, as it is; what verifies in the repair round joins it without repetition.
Choose ==
  /\ at = "choosing"
  /\ \E ids \in BoundedSeq(1..Len(spans) + 1, MaxSelections + 1) :
       LET verified == Verify(text, dossier, spans, visible, Selected(ids, MaxSelections))
       IN evidence' = IF round = 1 THEN verified ELSE DedupeVerified(evidence \o verified)
  /\ at' \in IF round = 1 THEN {"gathering", "answering"} ELSE {"answering"}
  /\ UNCHANGED <<text, context, round, pool, dossier, spans, visible, shown, reply, answer>>

\* _synthesize, of a run that has evidence; a second round may also end before it gathers
Answer ==
  /\ at \in {"gathering", "answering"} /\ evidence # <<>>
  /\ evidence' = Fitted(evidence, [n \in DOMAIN evidence |-> Unit * Len(evidence[n].quote)], Fixed, Fixed, 1200, ContextTokens(context, 0))
  /\ \E marks \in BoundedSeq([kind : {"E", "number"}, n : 0..Len(evidence) + 1] \cup {Mark("word", 0)}, 1) :
       /\ reply' = marks
       /\ answer' = ResolveCitations(marks, evidence')
  /\ at' = "answered"
  /\ UNCHANGED <<text, context, round, pool, dossier, spans, visible, shown>>

PathNext == Gather \/ Show \/ Choose \/ Answer

PathSpec == PathInit /\ [][PathNext]_pathVars

-----------------------------------------------------------------------------

\* Every visible character of a page is in a passage, no passage is longer than it may be, and
\* the passages the model may choose from stay within the dossier's limits: windows that
\* overlap, back up and are trimmed (passages_for_web_document, build_dossier) lose nothing.
PageIsCovered ==
  LET passages == Passages(text)
  IN /\ \A i \in DOMAIN text : Blank(text[i]) \/ \E k \in DOMAIN passages : i \in passages[k][1]..passages[k][2]
     /\ \A k \in DOMAIN passages : passages[k][2] - passages[k][1] < MaxChars
     /\ Len(dossier) <= MaxPassages
     /\ Total(Sizes(dossier)) <= MaxDossier
     /\ \A k \in DOMAIN dossier : ~Blank(text[dossier[k][1]]) /\ ~Blank(text[dossier[k][2]])

\* The model is shown whole spans within the room of its window, and what it is credited with
\* stands in the page, letter by letter, where the citation will point, at a place it was
\* shown; the items are numbered as their citations count them, also after a second round and
\* after a trim. A place is cited twice only by a first round that showed it twice, in passages
\* that overlap, and no longer once a second round has joined (verify_evidence_span_selection,
\* dedupe_verified).
PlaceCited(n) == <<evidence[n].start, evidence[n].start + Len(evidence[n].quote) - 1>>
EvidenceIsExact ==
  /\ visible > 0 /\ at = "choosing" =>
       LET packed == Groups(SubSeq(spans, 1, visible)) IN Cost(packed, Len(packed)) <= Room
  /\ \A n \in DOMAIN evidence :
       /\ evidence[n].id = n
       /\ SubSeq(text, PlaceCited(n)[1], PlaceCited(n)[2]) = evidence[n].quote
       /\ PlaceCited(n) \in shown
  /\ \A m, n \in DOMAIN evidence : m # n /\ PlaceCited(m) = PlaceCited(n) =>
       /\ round = 2 => at \notin {"answering", "answered"}
       /\ round = 1 => \E j, k \in 1..visible :
            j # k /\ SpanRange(spans[j]) = PlaceCited(n) /\ SpanRange(spans[k]) = PlaceCited(n)

\* Every citation of an answer leads to an item of evidence the answer was made from, a mark of
\* the model to the item it named, and an answer never stands without a citation
\* (resolve_answer_citations).
CitationsResolve ==
  at = "answered" =>
    /\ Cites(answer) \subseteq DOMAIN evidence
    /\ Cites(answer) # {}
    /\ \A i \in DOMAIN reply : reply[i].kind = "E" /\ reply[i].n \in DOMAIN evidence => answer[i].n = reply[i].n
=============================================================================
