------------------------------ MODULE Retrieval ------------------------------
(***************************************************************************)
(* The passages an answer is given: RAGService's index and its retrieval   *)
(* (rag_service.py, vector_store.py, embedding_service.py).  An answer is  *)
(* prepared on the worker thread; a document is indexed, recognised again  *)
(* or deleted on the RPC thread meanwhile, each write a transaction of its *)
(* own.  How a document is imported, and index runs of both threads on one *)
(* document, are left to module DocumentJobs.                              *)
(*                                                                         *)
(* A text is a sequence of characters, numbers that are 0 for a blank.     *)
(* What the scores come to is left open: any order of the candidates and   *)
(* any verdict on what matches the question is possible.  A recognised     *)
(* page is cut as any other is; the windows over its lines that are        *)
(* indexed beside these chunks (_chunk_ocr_page) are left out: they come   *)
(* from the recogniser's own list of lines.                                *)
(*                                                                         *)
(* A definition Name_Variant repeats Name with a plausible mistake in it.  *)
(***************************************************************************)
EXTENDS Lists

CONSTANTS
  Docs, Kinds,                      \* the documents, and the kind of each: "md" or "scan"
  Models,                           \* embedding models, the lexical fallback among them
  Imported,                         \* for each the pages it may have, sequences of texts
  MaxChunk, ChunkOverlap, MinChunk, \* MAX_CHUNK_CHARS, CHUNK_OVERLAP_CHARS, and 200
  Limit, FocusSize,                 \* results of a search, and of a focused one (8)
  MaxSnippets, PacketChars          \* MAX_EVIDENCE_SNIPPETS, and the characters of all of them

ASSUME RetrievalAssumption ==
  /\ {MaxChunk, ChunkOverlap, MinChunk, Limit, FocusSize, MaxSnippets, PacketChars} \subseteq Nat
  /\ ChunkOverlap < MinChunk /\ MinChunk < MaxChunk /\ Limit <= FocusSize
  /\ \A d \in Docs : Imported[d] \subseteq Seq(Seq(Nat))

VARIABLES
  doc,   \* the documents rows with their pages and live chunks
  work,  \* what the RPC thread is doing
  ask    \* the evidence being gathered

ragVars == <<doc, work, ask>>

Idle == [at |-> "idle"]
NoDoc == [pages |-> <<>>, index |-> "absent", model |-> "none", chunks |-> <<>>]
RagInit == doc = [d \in Docs |-> NoDoc] /\ work = Idle /\ ask = Idle

Live(d) == doc[d].index \notin {"absent", "deleted"}

-----------------------------------------------------------------------------
\* The chunks of a text: where one ends, and where the next one starts

BlankText(text) == \A i \in DOMAIN text : text[i] = 0
Strip(text) ==
  LET ink == {i \in DOMAIN text : text[i] # 0} IN IF ink = {} THEN <<>> ELSE SubSeq(text, Min(ink), Max(ink))

\* Characters start + 1 to ChunkEnd make a chunk, which ends before a blank if one comes late enough.
ChunkEnd(text, start) ==
  LET last == Min({Len(text), start + MaxChunk})
      blanks == {i \in start..(last - 1) : text[i + 1] = 0}
  IN IF last < Len(text) /\ blanks # {} /\ Max(blanks) > start + MinChunk THEN Max(blanks) ELSE last

Following_NoOverlap(start, end) == end
Following(start, end) == Max({end - ChunkOverlap, start + 1})

\* The chunks of what is left of the text, and of all of it
ChunkText(text) ==
  LET size == Len(text)
      pieces[left \in 0..size] ==
        IF left = 0 THEN <<>>
        ELSE LET start == size - left
                 end == ChunkEnd(text, start)
                 piece == Strip(SubSeq(text, start + 1, end))
             IN (IF piece = <<>> THEN <<>> ELSE <<piece>>) \o (IF end = size THEN <<>> ELSE pieces[size - Following(start, end)])
  IN pieces[size]

PageDrafts(page, text) == LET pieces == ChunkText(text) IN [i \in DOMAIN pieces |-> [page |-> page, text |-> pieces[i]]]

\* A chunk is known by its document, its place in it and its text.
Drafts(d, pages) ==
  LET drafts[p \in 0..Len(pages)] == IF p = 0 THEN <<>> ELSE drafts[p - 1] \o PageDrafts(p, pages[p])
      all == drafts[Len(pages)]
  IN [i \in DOMAIN all |-> [doc |-> d, index |-> i, page |-> all[i].page, text |-> all[i].text]]

-----------------------------------------------------------------------------
\* The RPC thread

Import(d) ==
  /\ work = Idle /\ doc[d].index = "absent"
  /\ \E pages \in Imported[d] : doc' = [doc EXCEPT ![d] = [NoDoc EXCEPT !.pages = pages, !.index = "pending"]]
  /\ UNCHANGED <<work, ask>>

\* run_document_ocr has replaced the pages of a scan, and its index follows.
Recognise(d) ==
  /\ work = Idle /\ Kinds[d] = "scan" /\ Live(d)
  /\ \E pages \in Imported[d] : doc' = [doc EXCEPT ![d].pages = pages, ![d].index = "pending"]
  /\ work' = [at |-> "begin", doc |-> d] /\ UNCHANGED ask

RequestIndex(d) ==
  /\ work = Idle /\ doc[d].index \notin {"absent", "deleted", "low_text"}
  /\ work' = [at |-> "begin", doc |-> d] /\ UNCHANGED <<doc, ask>>

\* mark_indexing, and the pages
BeginIndex ==
  /\ work.at = "begin"
  /\ LET d == work.doc
         drafts == Drafts(d, doc[d].pages) IN
     /\ doc' = [doc EXCEPT ![d].index = IF drafts = <<>> THEN "low_text" ELSE "indexing"]
     /\ work' = IF drafts = <<>> THEN Idle ELSE [at |-> "embed", doc |-> d, drafts |-> drafts]
  /\ UNCHANGED ask

\* Every chunk of one run has the same model: when the semantic one fails, all of them are done again.
\* Both models failing, or the process ending here, leaves the document as it is.
Embed ==
  /\ work.at = "embed"
  /\ \/ \E model \in Models : work' = [at |-> "clear", doc |-> work.doc, drafts |-> work.drafts, model |-> model]
     \/ work' = Idle
  /\ UNCHANGED <<doc, ask>>

\* vector_store.reindex_document: the old chunks go first.
ClearChunks ==
  /\ work.at = "clear"
  /\ doc' = [doc EXCEPT ![work.doc].chunks = <<>>]
  /\ work' = [work EXCEPT !.at = "put"] /\ UNCHANGED ask

Embedded(drafts, model) ==
  [i \in DOMAIN drafts |-> [model |-> model, doc |-> drafts[i].doc, index |-> drafts[i].index, page |-> drafts[i].page, text |-> drafts[i].text]]
PutChunks ==
  /\ work.at = "put"
  /\ doc' = [doc EXCEPT ![work.doc].chunks = Embedded(work.drafts, work.model)]
  /\ work' = [work EXCEPT !.at = "mark"] /\ UNCHANGED ask

MarkIndexed ==
  /\ work.at = "mark"
  /\ doc' = [doc EXCEPT ![work.doc].index = "indexed", ![work.doc].model = work.model]
  /\ work' = Idle /\ UNCHANGED ask

\* delete_document: the chunks, then the row
DeleteChunks(d) ==
  /\ work = Idle /\ Live(d)
  /\ doc' = [doc EXCEPT ![d].chunks = <<>>]
  /\ work' = [at |-> "delete", doc |-> d] /\ UNCHANGED ask
MarkDeleted ==
  /\ work.at = "delete"
  /\ doc' = [doc EXCEPT ![work.doc].index = "deleted"]
  /\ work' = Idle /\ UNCHANGED ask

-----------------------------------------------------------------------------
\* The worker thread: build_quote_context.  An empty scope is the whole library.

InScope(d, scope) == scope = {} \/ d \in scope

Retrieve ==
  /\ ask.at \in {"idle", "done"}
  /\ \E scope \in SUBSET Docs, model \in Models :
       /\ \A d \in scope : Live(d)
       /\ ask' = [at |-> "search", scope |-> scope, model |-> model]
  /\ UNCHANGED <<doc, work>>

\* A result: the chunk it counts as, the text it gives, and whether OCR text was matched word by word.
Found(chunk, text, lexical) ==
  [id |-> [doc |-> chunk.doc, index |-> chunk.index, text |-> chunk.text], page |-> chunk.page, text |-> text, lexical |-> lexical]
Whole(chunk) == Found(chunk, chunk.text, FALSE)

\* similarity_search: chunks of another model cannot be compared with the question.
Similar(scope, model) ==
  UNION {{Whole(doc[d].chunks[i]) : i \in {i \in DOMAIN doc[d].chunks : doc[d].chunks[i].model = model}}
           : d \in {d \in Docs : doc[d].index = "indexed" /\ InScope(d, scope)}}

VectorSearch ==
  /\ ask.at = "search"
  /\ ask' = [at |-> "ocr", found |-> Similar(ask.scope, ask.model)] @@ ask
  /\ UNCHANGED <<doc, work>>

\* The scans whose stored text is searched: any that was asked for, or every indexed one.
Scanned(scope) == {d \in Docs : Kinds[d] = "scan" /\ Live(d) /\ IF scope = {} THEN doc[d].index = "indexed" ELSE d \in scope}

\* A page that matches counts as the first of its chunks, or as none.
PageResult(d, p) ==
  LET its == SelectSeq(doc[d].chunks, LAMBDA c : c.page = p) IN
  Found(IF its = <<>> THEN [doc |-> d, index |-> 0, page |-> p, text |-> <<>>] ELSE its[1], doc[d].pages[p], TRUE)

Orders(found) ==
  {r \in [1..Min({Limit, Cardinality(found)}) -> found] : IsInjective(r)}

OcrSearch ==
  /\ ask.at = "ocr"
  /\ \E pages \in SUBSET UNION {{d} \X DOMAIN doc[d].pages : d \in Scanned(ask.scope)} :
       LET matches == {PageResult(x[1], x[2]) : x \in {x \in pages : ~BlankText(doc[x[1]].pages[x[2]])}}
           merged == {r \in ask.found : \A o \in matches : o.id # r.id} \cup matches IN
       \E ranking \in Orders(merged) :
         ask' = [at |-> IF ranking = <<>> THEN "done" ELSE "focus", scope |-> ask.scope, hits |-> ranking,
                 results |-> <<>>, packet |-> <<>>, coverage |-> "none"]
  /\ UNCHANGED <<doc, work>>

ChunkId(c) == [doc |-> c.doc, index |-> c.index, text |-> c.text]

Neighbours_Again(anchors, size) ==
  LET steps == [k \in 1..(FocusSize * Len(anchors)) |->
                 LET distance == ((k - 1) \div Len(anchors)) + 1
                     anchor == anchors[((k - 1) % Len(anchors)) + 1]
                 IN <<anchor + distance, anchor - distance>>]
  IN SelectSeq(FlattenSeq(steps), LAMBDA n : n \in 1..size /\ n \notin Range(anchors))

\* The other chunks by their distance from a hit; at the same distance by the hit's rank, the following
\* chunk before the preceding one.
Neighbours(anchors, size) ==
  LET steps == [k \in 1..(FocusSize * Len(anchors)) |->
                 LET distance == ((k - 1) \div Len(anchors)) + 1
                     anchor == anchors[((k - 1) % Len(anchors)) + 1]
                 IN <<anchor + distance, anchor - distance>>]
  IN FirstOf(SelectSeq(FlattenSeq(steps), LAMBDA n : n \in 1..size /\ n \notin Range(anchors)), LAMBDA n : n)

\* _expand_focused_document_results: the top document's hits, then their neighbours as they are now
Focused(hits) ==
  LET top == hits[1].id.doc
      own == SelectSeq(hits, LAMBDA r : r.id.doc = top)
      chunks == doc[top].chunks
      Place(r) == CHOOSE n \in DOMAIN chunks : ChunkId(chunks[n]) = r.id
      still == SelectSeq(own, LAMBDA r : \E n \in DOMAIN chunks : ChunkId(chunks[n]) = r.id)
      anchors == [i \in DOMAIN still |-> Place(still[i])]
      near == Upto(Neighbours(anchors, Len(chunks)), FocusSize - Len(own))
  IN IF chunks = <<>> THEN hits ELSE own \o [i \in DOMAIN near |-> Whole(chunks[near[i]])]

\* Two of the first three hits are of the top document, or the scores or the words single it out.
Leading(hits) == Cardinality({i \in 1..Min({3, Len(hits)}) : hits[i].id.doc = hits[1].id.doc}) >= 2

Focus ==
  /\ ask.at = "focus"
  /\ LET lexical == \E i \in DOMAIN ask.hits : ask.hits[i].lexical IN
     \/ ~lexical /\ ask' = [ask EXCEPT !.at = "packet", !.results = Focused(ask.hits)]
     \/ (lexical \/ ~Leading(ask.hits)) /\ ask' = [ask EXCEPT !.at = "packet", !.results = ask.hits]
  /\ UNCHANGED <<doc, work>>

Snippets(results) == [i \in DOMAIN results |-> [doc |-> results[i].id.doc, page |-> results[i].page, text |-> results[i].text]]
Size(pages) == FoldLeft(LAMBDA n, text : n + Len(text), 0, pages)

\* complete_markdown_snippets: a small imported Markdown document is given whole.
FitsWhole(results) ==
  LET d == results[1].id.doc IN
  /\ \A i \in DOMAIN results : results[i].id.doc = d
  /\ Kinds[d] = "md" /\ Live(d) /\ ~(\A p \in DOMAIN doc[d].pages : BlankText(doc[d].pages[p]))
  /\ Size(doc[d].pages) <= PacketChars

WholePages(d) ==
  SelectSeq([p \in DOMAIN doc[d].pages |-> [doc |-> d, page |-> p, text |-> doc[d].pages[p]]], LAMBDA s : ~BlankText(s.text))

\* extract_evidence_snippets: no text twice, and nothing beside the question if something is not
Packet ==
  /\ ask.at = "packet"
  /\ \/ /\ FitsWhole(ask.results)
        /\ ask' = [ask EXCEPT !.at = "done", !.hits = <<>>, !.coverage = "complete_document", !.packet = WholePages(ask.results[1].id.doc)]
     \/ /\ ~FitsWhole(ask.results)
        /\ LET texts == FirstOf(Snippets(ask.results), LAMBDA s : s.text) IN
           \E matching \in SUBSET DOMAIN texts :
             LET kept == IF matching = {} THEN DOMAIN texts ELSE matching IN
             \E best \in {r \in [1..Min({MaxSnippets, Cardinality(kept)}) -> kept] : IsInjective(r)} :
               ask' = [ask EXCEPT !.at = "done", !.hits = <<>>, !.coverage = "excerpt", !.packet = [i \in DOMAIN best |-> texts[best[i]]]]
  /\ UNCHANGED <<doc, work>>

Evidence == Retrieve \/ VectorSearch \/ OcrSearch \/ Focus \/ Packet

RagNext ==
  \/ \E d \in Docs : Import(d) \/ Recognise(d) \/ RequestIndex(d) \/ DeleteChunks(d)
  \/ BeginIndex \/ Embed \/ ClearChunks \/ PutChunks \/ MarkIndexed \/ MarkDeleted
  \/ Evidence

RagSpec == RagInit /\ [][RagNext]_ragVars

-----------------------------------------------------------------------------
Inside(piece, text) == \E i \in 0..(Len(text) - Len(piece)) : piece = SubSeq(text, i + 1, i + Len(piece))

\* An indexed document that nobody is deleting can be found by anything it says: its live chunks have the model it is marked
\* with, each is of a page it has now and in its place, and what stands together on a page, up to the
\* overlap, stands together in a chunk.
IndexIsWhole ==
  \A d \in Docs : doc[d].index = "indexed" /\ work # [at |-> "delete", doc |-> d] =>
    LET chunks == doc[d].chunks IN
    /\ \A i \in DOMAIN chunks :
         /\ chunks[i].model = doc[d].model /\ chunks[i].index = i /\ Len(chunks[i].text) \in 1..MaxChunk
         /\ Inside(chunks[i].text, doc[d].pages[chunks[i].page])
    /\ \A p \in DOMAIN doc[d].pages :
         LET text == doc[d].pages[p] IN
         \A n \in 1..Len(text) : \A last \in n..Min({n + ChunkOverlap, Len(text)}) :
           text[n] # 0 /\ text[last] # 0 =>
             \E i \in DOMAIN chunks : chunks[i].page = p /\ Inside(SubSeq(text, n, last), chunks[i].text)

\* A focused search keeps its own hits of the top document, in their order and first, and fills up with
\* the nearest of its other chunks, none twice: no chunk is left out for one further from the hits
\* (the docstring of _expand_focused_document_results).
FocusKeepsHits ==
  [][ask.at = "focus" /\ ask'.at = "packet" /\ ask'.results # ask.hits =>
       LET top == ask.hits[1].id.doc
           own == SelectSeq(ask.hits, LAMBDA r : r.id.doc = top)
           results == ask'.results
           chunks == doc[top].chunks
           Ids(rs) == {r.id : r \in Range(rs)}
           anchors == {n \in DOMAIN chunks : ChunkId(chunks[n]) \in Ids(own)}
           near == {n \in DOMAIN chunks : ChunkId(chunks[n]) \in Ids(results)} \ anchors
           Distance(n) == Min({Max({n - a, a - n}) : a \in anchors}) IN
       /\ Upto(results, Len(own)) = own
       /\ Cardinality(Ids(results)) = Len(results) /\ Len(results) <= FocusSize
       /\ Len(results) = Len(own) + Cardinality(near)
       /\ anchors # {} => \A n \in DOMAIN chunks \ (near \cup anchors) :
            Len(results) = FocusSize /\ \A m \in near : Distance(m) <= Distance(n)]_ragVars

\* What the answer is given is of the documents that were asked for.  A document given whole holds all
\* that was found, with no page cut or left out for length; and an excerpt is of a page its document has
\* or, if the document was recognised again meanwhile, had (complete_markdown_snippets).
PacketsAreWhole ==
  ask.at = "done" =>
    LET packet == ask.packet IN
    /\ \A i \in DOMAIN packet : InScope(packet[i].doc, ask.scope)
    /\ ask.results # <<>> => packet # <<>>
    /\ ask.coverage = "complete_document" =>
         /\ \A i \in DOMAIN ask.results : \E s \in Range(packet) :
              s.doc = ask.results[i].id.doc /\ s.page = ask.results[i].page /\ Inside(ask.results[i].text, s.text)
         /\ Size([i \in DOMAIN packet |-> packet[i].text]) <= PacketChars
         /\ \A p \in DOMAIN doc[packet[1].doc].pages :
              BlankText(doc[packet[1].doc].pages[p]) \/ \E s \in Range(packet) : s.page = p /\ s.text = doc[packet[1].doc].pages[p]
    /\ ask.coverage = "excerpt" =>
         /\ Len(packet) <= MaxSnippets /\ Cardinality({s.text : s \in Range(packet)}) = Len(packet)
         /\ \A s \in Range(packet) : Kinds[s.doc] = "md" => Inside(s.text, doc[s.doc].pages[s.page])

\* From the hits to the packet nothing found is lost on the way.
HitsAreGiven == FocusKeepsHits /\ []PacketsAreWhole
=============================================================================
