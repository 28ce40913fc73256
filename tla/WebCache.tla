------------------------------- MODULE WebCache -------------------------------
(***************************************************************************)
(* The web pages a Search keeps (web_source_store.py, document_service.py) *)
(* and the crawl frontier that says what is still to fetch                 *)
(* (local_discovery.py), as the transactions that write them.  A row is    *)
(* one revision of one page; ids are reused only after a purge, which      *)
(* removes the row and all that refers to it.                              *)
(*                                                                         *)
(* Left out: headers, hashes and titles of a page, the discoveries table,  *)
(* and the words the frontier search matches; the retry delay is a flag    *)
(* the environment clears.                                                 *)
(*                                                                         *)
(* A definition Name_Variant repeats Name with a plausible mistake in it;  *)
(* no specification uses it (README, "How the properties are validated").  *)
(***************************************************************************)
EXTENDS Lists

CONSTANTS
  Urls,        \* canonical URLs
  Containers,  \* those that are feeds or sitemaps
  Links,       \* [Urls -> SUBSET Urls]: what a page or container points to
  Says,        \* [Urls -> set of texts]: what a page may say when it is fetched
  Seeded,      \* what Source Packs and other seeds have put into the frontier
  MaxRows      \* rows the documents table may hold

None == "none"

ASSUME WebAssumption ==
  /\ IsFiniteSet(Urls) /\ Containers \subseteq Urls
  /\ Links \in [Urls -> SUBSET Urls]
  /\ DOMAIN Says = Urls
  /\ Seeded \subseteq Urls
  /\ MaxRows \in Nat \ {0}

VARIABLES
  rows,      \* the web rows of documents: state, page, current revision, its chunks and whether they are live
  frontier   \* crawl_frontier: status, and whether next_retry_at has come

cacheVars == <<rows, frontier>>

Rows == 1..MaxRows
Texts == UNION {Says[u] : u \in Urls}
PageRows == [state : {"absent", "staged", "kept", "deleted"}, url : Urls \cup {None},
             text : Texts \cup {None}, current : BOOLEAN, indexed : BOOLEAN, live : BOOLEAN]
FrontierRows == [status : {"unknown", "unfetched", "fetched", "failed", "blocked"}, due : BOOLEAN]

\* A row and its chunks, which are there or not
PageRow(state, u, text, whole) ==
  [state |-> state, url |-> u, text |-> text, current |-> whole, indexed |-> whole, live |-> whole]
Absent == PageRow("absent", None, None, FALSE)
Unfetched == [status |-> "unfetched", due |-> TRUE]

\* is_deleted = 0
Stands(r) == rows[r].state \in {"staged", "kept"}
CurrentRows(u) == {r \in Rows : Stands(r) /\ rows[r].url = u /\ rows[r].current}
FreeRow == CHOOSE r \in Rows : rows[r].state = "absent" /\ \A q \in Rows : rows[q].state = "absent" => r <= q

CacheTypeOK ==
  /\ rows \in [Rows -> PageRows]
  /\ frontier \in [Urls -> FrontierRows]

-----------------------------------------------------------------------------
\* web_source_store.py

\* The rows persist takes instead of a new one.
CacheHits(u, text) == {r \in Rows : Stands(r) /\ rows[r].url = u /\ rows[r].text = text}

\* The INSERT is a transaction of its own. replace_pages comes next: when it fails the row stays
\* as it is. index_document comes last: when that fails the row is purged.
InsertStaged(r, u, text) == rows' = [rows EXCEPT ![r] = PageRow("staged", u, text, FALSE)]
IndexStaged(r) == rows' = [rows EXCEPT ![r].indexed = TRUE, ![r].live = TRUE]

\* What promoting one revision makes of the rows: the other current revisions of the
\* URL lose the mark and their chunks, the revision gains both, deleted or not: its chunks if it has any.
Promote_KeepsChunks(old, r, u) ==
  [q \in Rows |->
     IF q = r THEN [old[r] EXCEPT !.state = IF @ = "staged" THEN "kept" ELSE @, !.current = TRUE, !.live = old[r].indexed]
     ELSE IF old[q].state \in {"staged", "kept"} /\ old[q].url = u /\ old[q].current
       THEN [old[q] EXCEPT !.current = FALSE] ELSE old[q]]

Promote(old, r, u) ==
  [q \in Rows |->
     IF q = r THEN [old[r] EXCEPT !.state = IF @ = "staged" THEN "kept" ELSE @, !.current = TRUE, !.live = old[r].indexed]
     ELSE IF old[q].state \in {"staged", "kept"} /\ old[q].url = u /\ old[q].current
       THEN [old[q] EXCEPT !.current = FALSE, !.live = FALSE] ELSE old[q]]

\* seen is the sequence of <<row, url>> a run observed.
PromoteAll(seen) ==
  LET promoted[i \in 0..Len(seen)] == IF i = 0 THEN rows ELSE Promote(promoted[i - 1], seen[i][1], seen[i][2])
  IN promoted[Len(seen)]

\* WebSourceStore.finalize_success, one transaction
FinalizeSuccess(seen) == rows' = PromoteAll(seen) /\ UNCHANGED frontier

\* CrawlFrontier.finalize_successful_pages, which also ends the frontier rows
FinalizePages(seen) ==
  /\ rows' = PromoteAll(seen)
  /\ frontier' = [u \in Urls |-> IF frontier[u].status # "unknown" /\ \E i \in DOMAIN seen : seen[i][2] = u
                    THEN [status |-> "fetched", due |-> TRUE] ELSE frontier[u]]

-----------------------------------------------------------------------------
\* document_service.py

\* A URL whose last current copy goes is unfetched again; copies lists those that stay.
Released(u, wasCurrent, copies) ==
  [v \in Urls |-> IF v = u /\ wasCurrent /\ copies = {} /\ frontier[v].status # "unknown"
                  THEN Unfetched ELSE frontier[v]]

Kept(r) == {q \in CurrentRows(rows[r].url) \ {r} : rows[q].state = "kept"}

\* rollback_new: only what is still staged
RollbackNew(fresh) ==
  /\ rows' = [r \in Rows |-> IF r \in fresh /\ rows[r].state = "staged" THEN Absent ELSE rows[r]]
  /\ UNCHANGED frontier

\* repair_startup_state: every staged row is purged
PurgeStaged == RollbackNew(Rows)

\* rag_service.delete_document: the chunks go in one transaction, the row in the next.
DropChunks(r) == rows' = [rows EXCEPT ![r].live = FALSE] /\ UNCHANGED frontier

MarkDeleted(r) ==
  /\ rows' = [rows EXCEPT ![r].state = "deleted"]
  /\ frontier' = Released(rows[r].url, rows[r].current, Kept(r))

-----------------------------------------------------------------------------
\* local_discovery.py, the frontier

\* discover, for each target of a page or entry of a container: new rows only
DiscoverLinks(u) ==
  [v \in Urls |-> IF v \in Links[u] /\ frontier[v].status = "unknown" THEN Unfetched ELSE frontier[v]]

\* search: what is to be fetched, or may be tried again
Eligible ==
  {u \in Urls : frontier[u].status = "unfetched" \/ (frontier[u].status \in {"failed", "blocked"} /\ frontier[u].due)}

MarkSuccess(old, u) == [old EXCEPT ![u] = [status |-> "fetched", due |-> TRUE]]

\* mark_fetch_failure: the delay grows with the attempts, and is six hours for a blocked URL.
MarkFailure(old, u, status) ==
  IF old[u].status = "unknown" THEN old ELSE [old EXCEPT ![u] = [status |-> status, due |-> FALSE]]

\* seed_cached_documents reads the current pages and then marks their URLs fetched.
CachedUrls == {rows[r].url : r \in {q \in Rows : rows[q].state = "kept" /\ rows[q].current}}
SeedCached(seeds) ==
  /\ frontier' = [u \in Urls |-> IF u \in seeds THEN [status |-> "fetched", due |-> TRUE] ELSE frontier[u]]
  /\ UNCHANGED rows

\* An empty corpus, or one kept page, perhaps with a later text of it that an earlier Search could
\* not write the pages of; the seeds that are not cached are to be fetched.
CacheInit ==
  /\ \/ rows = [r \in Rows |-> Absent]
     \/ \E u \in Urls \ Containers : \E text \in Says[u] : \E later \in (Says[u] \ {text}) \cup {None} :
          rows = [r \in Rows |-> IF r = 1 THEN PageRow("kept", u, text, TRUE)
                                 ELSE IF r = 2 /\ later # None THEN PageRow("staged", u, later, FALSE) ELSE Absent]
  /\ frontier = [u \in Urls |-> IF u \in Seeded \ CachedUrls THEN Unfetched ELSE [status |-> "unknown", due |-> TRUE]]
=============================================================================
