------------------------------ MODULE SearchText ------------------------------
(***************************************************************************)
(* The text algorithms of a Search (search_service.py), as operators: from *)
(* a page's text to passages, dossier, spans, a packed prompt window, and  *)
(* verified quotes with their citations.  A text is a sequence of          *)
(* characters of which only blanks, line ends, sentence ends and words are *)
(* told apart; positions count from 1 where the code's count from 0, and a *)
(* range <<a, b>> includes both its ends.  Sizes are parameters, so that   *)
(* their limits are met by short texts.                                    *)
(*                                                                         *)
(* Scores are given, not computed: bm25_rank and the model's choices are   *)
(* inputs.  A span is an exact slice, so the search for a quote never      *)
(* reaches its normalized comparison, which is left out, as are            *)
(* verify_evidence_selection and deterministic_evidence_fallback, which    *)
(* nothing calls.                                                          *)
(*                                                                         *)
(* A definition Name_Variant repeats Name with a plausible mistake in it;  *)
(* no specification uses it (README, "How the properties are validated").  *)
(***************************************************************************)
EXTENDS Lists

CONSTANTS
  MaxChars, Lead, Overlap,  \* of a passage: 1200, 300, 180
  MinRemaining,             \* what is left of the dossier for one passage more: 200
  MinQuote,                 \* words a quote must have
  MaxSpans,                 \* spans of one passage: 16
  Header                    \* what a passage costs in a prompt besides its spans

ASSUME TextAssumption ==
  /\ MaxChars \in Nat \ {0} /\ Lead \in 0..MaxChars /\ Overlap \in Nat
  /\ MinRemaining \in Nat \ {0} /\ MinQuote \in Nat /\ MaxSpans \in Nat \ {0} /\ Header \in Nat

Blank(c) == c \in {" ", "|"}   \* "|" stands for a line end

-----------------------------------------------------------------------------
\* Passages and the dossier

\* What is left of a range that is not blank without the blanks at its ends
Solid(text, a, b) == {i \in a..b : ~Blank(text[i])}
TrimFrom(text, a, b) == <<Min(Solid(text, a, b)), Max(Solid(text, a, b))>>

\* Where the window of passages_for_web_document that starts after position start ends: at the
\* end of the text, or at the last line end or sentence end past its lead.
WindowEnd(text, start) ==
  LET end == IF start + MaxChars < Len(text) THEN start + MaxChars ELSE Len(text)
      ends == {i \in start + Lead + 1..end :
                 text[i] = "|" \/ (text[i] = "." /\ i < end /\ text[i + 1] = " ")}
      last == Max(ends)
  IN IF end = Len(text) \/ ends = {} \/ last = start + Lead + 1 THEN end
     ELSE IF text[last] = "|" THEN last ELSE last + 1

\* The windows of what is left of the text, and of all of it
Windows(text) ==
  LET size == Len(text)
      windows[left \in 0..size] ==
        IF left = 0 THEN <<>>
        ELSE LET start == size - left
                 end == WindowEnd(text, start)
                 next == IF end - Overlap > start + 1 THEN end - Overlap ELSE start + 1
             IN <<<<start + 1, end>>>> \o (IF end = size THEN <<>> ELSE windows[size - next])
  IN windows[size]

\* The passages of a page: the windows without the blanks at their ends, as ranges of its text
Passages(text) ==
  LET windows == Windows(text)
      kept == Only(windows, {i \in DOMAIN windows : Solid(text, windows[i][1], windows[i][2]) # {}})
  IN [i \in DOMAIN kept |-> TrimFrom(text, kept[i][1], kept[i][2])]

Sizes(ranges) == [i \in DOMAIN ranges |-> ranges[i][2] - ranges[i][1] + 1]

\* build_dossier: ranked passages until one of the limits is met; the last may be cut.
WithPassage_Overruns(text, out, r, maxPassages, maxChars) ==
  IF Len(out) >= maxPassages \/ maxChars - Total(Sizes(out)) < MinRemaining THEN out ELSE Append(out, r)

WithPassage(text, out, r, maxPassages, maxChars) ==
  LET remaining == maxChars - Total(Sizes(out))
      end == IF r[2] - r[1] + 1 > remaining THEN r[1] + remaining - 1 ELSE r[2]
  IN IF Len(out) >= maxPassages \/ remaining < MinRemaining THEN out
     ELSE Append(out, <<r[1], Max(Solid(text, r[1], end))>>)

Dossier(text, ranked, maxPassages, maxChars) ==
  LET dossier[i \in 0..Len(ranked)] ==
        IF i = 0 THEN <<>> ELSE WithPassage(text, dossier[i - 1], ranked[i], maxPassages, maxChars)
  IN dossier[Len(ranked)]

-----------------------------------------------------------------------------
\* Spans

\* A block ends at a solid character before a blank line or the end of the text.
BlockEnd(text, i) ==
  /\ ~Blank(text[i])
  /\ \/ i = Len(text)
     \/ /\ text[i + 1] = "|"
        /\ \E k \in i + 2..Len(text) : text[k] = "|" /\ \A j \in i + 1..k : Blank(text[j])

SentenceEnd(text, i) == text[i] = "." /\ (i = Len(text) \/ Blank(text[i + 1]))

\* evidence_span_ranges: what lies between two ends, without the blanks around it
SpanRanges(text) ==
  LET blockEnds == {i \in DOMAIN text : BlockEnd(text, i)}
      cuts == IF blockEnds = {} THEN {}
              ELSE {i \in 1..Max(blockEnds) : BlockEnd(text, i) \/ SentenceEnd(text, i)}
      Begin(e) == Max({c \in cuts : c < e} \cup {0}) + 1
      ends == Only([i \in DOMAIN text |-> i], {e \in cuts : Solid(text, Begin(e), e) # {}})
  IN [k \in DOMAIN ends |-> TrimFrom(text, Begin(ends[k]), ends[k])]

\* skip_repeated_title_prefix, for a title of one word
SkipTitle(text, a, b, title) ==
  LET from[left \in 0..(b - a)] ==
        LET i == b - left
            next == Solid(text, i + 2, b)
        IN IF i < b /\ text[i] = title /\ Blank(text[i + 1]) /\ next # {} THEN from[b - Min(next)] ELSE i
  IN from[b - a]

\* build_evidence_spans: the spans of each passage of the dossier, which is a range of the text
SpansIn(text, r, k, title) ==
  LET passage == SubSeq(text, r[1], r[2])
      ranges == SpanRanges(passage)
  IN [i \in 1..Min({MaxSpans, Len(ranges)}) |->
        [passage |-> k, from |-> IF i = 1 THEN SkipTitle(passage, ranges[1][1], ranges[1][2], title) ELSE ranges[i][1],
         to |-> ranges[i][2]]]

SpansOf(text, dossier, title) ==
  LET spans[k \in 0..Len(dossier)] == IF k = 0 THEN <<>> ELSE spans[k - 1] \o SpansIn(text, dossier[k], k, title)
  IN spans[Len(dossier)]

-----------------------------------------------------------------------------
\* The prompt window

\* pack_evidence_window: how many of the spans the model is shown. Whole passages while they
\* fit; of a first one that does not, as many spans as fit. A passage costs Header besides its spans.
Cost(groups, k) == Total([i \in 1..k |-> Header + Total(groups[i])])

PackWindow(groups, budget) ==
  LET whole == Max({k \in 0..Len(groups) : k = 0 \/ Cost(groups, k) <= budget})
      Leading == {k \in 0..Len(groups[1]) : k = 0 \/ Header + Total(SubSeq(groups[1], 1, k)) <= budget}
  IN IF whole = 0 /\ groups # <<>> THEN Max(Leading) ELSE Total([i \in 1..whole |-> Len(groups[i])])

\* Tokens are estimated from bytes. What a selection prompt may hold, in tokens: a part of what
\* the reserves for the reply and the template leave. A call's messages are counted one by one.
Tokens(bytes) == (bytes + 2) \div 3
InputBudget(context) == IF context > 512 THEN ((context - 512) * 85) \div 100 ELSE 0
RequestTokens(messages, predict) == Total([i \in DOMAIN messages |-> Tokens(messages[i])]) + predict + 256

\* resolve_model_context_tokens: the configured window, the loaded one, or the default; never
\* more than is trusted.
ContextTokens(configured, loaded) ==
  LET Clamp(v) == Min({v, 32768})
  IN IF configured > 0 THEN Clamp(configured) ELSE IF loaded > 0 THEN Clamp(loaded) ELSE 4096

\* _synthesize: items are dropped from the tail until the request fits or one is left.
Fitted(items, bytes, system, fixed, predict, context) ==
  LET Request(k) == <<system, fixed + Total([i \in 1..k |-> bytes[i]])>>
      fits == {k \in 1..Len(items) : RequestTokens(Request(k), predict) <= context}
  IN SubSeq(items, 1, IF fits = {} THEN 1 ELSE Max(fits))

-----------------------------------------------------------------------------
\* Verification and citations

WordsIn(text, a, b) ==
  Cardinality({i \in a..b : text[i] \notin {" ", "|", "."} /\ (i = a \/ text[i - 1] \in {" ", "|", "."})})

\* The span ids of a reply that are looked at: the first ones, each once
Selected(reply, max) == FirstOf(Upto(reply, max), LAMBDA k : k)

\* verify_evidence_span_selection: a chosen span is verified when the model was shown it, it has
\* enough words, and verified_quote_location finds its text first where the span is. They are numbered in order.
QuoteOf(text, dossier, s) == SubSeq(SubSeq(text, dossier[s.passage][1], dossier[s.passage][2]), s.from, s.to)
ItemOf(text, dossier, s, n) ==
  [id |-> n, quote |-> QuoteOf(text, dossier, s), start |-> dossier[s.passage][1] + s.from - 1]

Verify_Unseen(text, dossier, spans, visible, chosen) ==
  LET good == Only(chosen, {i \in DOMAIN chosen : chosen[i] \in DOMAIN spans})
  IN [n \in DOMAIN good |-> ItemOf(text, dossier, spans[good[n]], n)]

Verify(text, dossier, spans, visible, chosen) ==
  LET Good(k) == /\ k \in 1..visible
                 /\ LET quote == QuoteOf(text, dossier, spans[k])
                        passage == SubSeq(text, dossier[spans[k].passage][1], dossier[spans[k].passage][2])
                    IN WordsIn(quote, 1, Len(quote)) >= MinQuote /\ IndexFirstSubSeq(quote, passage) = spans[k].from
      good == Only(chosen, {i \in DOMAIN chosen : Good(chosen[i])})
  IN [n \in DOMAIN good |-> ItemOf(text, dossier, spans[good[n]], n)]

\* dedupe_verified: one item per place in the source, numbered again
DedupeVerified_KeepsNumbers(items) == FirstOf(items, LAMBDA e : <<e.start, Len(e.quote)>>)
DedupeVerified(items) ==
  LET kept == FirstOf(items, LAMBDA e : <<e.start, Len(e.quote)>>)
  IN [n \in DOMAIN kept |-> [kept[n] EXCEPT !.id = n]]

\* resolve_answer_citations: an answer is a sequence of marks. "E" cites by evidence id and becomes
\* the number of the item; a "number" without an item is omitted; an answer that then cites
\* nothing lists every item.
Mark(kind, n) == [kind |-> kind, n |-> n]
Cites(marks) == {marks[i].n : i \in {j \in DOMAIN marks : marks[j].kind = "number"}}

ResolveCitations(answer, evidence) ==
  LET known == {evidence[i].id : i \in DOMAIN evidence}
      Resolve(mark) ==
        IF mark.kind = "E" /\ mark.n \in known
          THEN Mark("number", CHOOSE i \in DOMAIN evidence : evidence[i].id = mark.n)
        ELSE IF mark.kind = "word" \/ (mark.kind = "number" /\ mark.n \in DOMAIN evidence) THEN mark
        ELSE Mark("omitted", 0)
      clean == [i \in DOMAIN answer |-> Resolve(answer[i])]
  IN IF Cites(clean) # {} THEN clean ELSE clean \o [i \in DOMAIN evidence |-> Mark("number", i)]
=============================================================================
