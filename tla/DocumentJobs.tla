---------------------------- MODULE DocumentJobs ----------------------------
(***************************************************************************)
(* Documents and the work done on them: DocumentJobExecutor's import and   *)
(* OCR jobs on the worker thread (job_service.py), the synchronous delete, *)
(* reindex and OCR requests on the RPC thread, and the repair at startup   *)
(* (document_service.py, ocr_service.py, rag_service.py).  A document is   *)
(* written by many small transactions; each is a step here, so the other   *)
(* thread, a cancel or a crash can fall between any two.  A test of the    *)
(* cancel event is one step with the transaction that follows it.          *)
(*                                                                         *)
(* The OCR engine, the text extraction and the embedding provider may      *)
(* fail; the database and the removal of an owned file do not.  Every      *)
(* document is a PDF: a text file behaves as one whose pages all have      *)
(* text.                                                                   *)
(*                                                                         *)
(* A definition Name_Variant repeats Name with a plausible mistake in it;  *)
(* no specification uses it (README, "How the properties are validated").  *)
(***************************************************************************)
EXTENDS Naturals

CONSTANTS Docs, None

ASSUME DocAssumption == None \notin Docs

VARIABLES
  doc,   \* the documents rows, their pages and live chunks, and the owned file copies
  act,   \* per thread: the work in progress, and where it stands
  up     \* the process runs

docVars == <<doc, act, up>>

Threads == {"worker", "rpc"}
Other(p) == IF p = "worker" THEN "rpc" ELSE "worker"

\* What the stored pages say: nothing extracted yet, no text, text on some pages, on all.
Texts == {"none", "scanned", "mixed", "full"}

DocRows == [row : {"absent", "present", "purged"}, file : BOOLEAN, staging : BOOLEAN, deleted : BOOLEAN,
            index : {"pending", "indexing", "indexed", "low_text", "error", "deleted"},
            ocr : {"not_needed", "needed", "running", "indexing", "indexed", "unavailable", "no_text"},
            low : BOOLEAN, pages : Texts, chunks : Texts]

NoRow(status) == [row |-> status, file |-> FALSE, staging |-> FALSE, deleted |-> FALSE, index |-> "pending",
                  ocr |-> "not_needed", low |-> FALSE, pages |-> "none", chunks |-> "none"]

Places == {"idle", "copying", "inserting", "extracting", "starting", "choosing", "ocr", "rendering", "ready",
           "reading", "marking", "embedding", "embedded", "cleared", "chunked", "ocr_marking", "committing",
           "undoing", "purging", "restoring", "deleting", "settled"}

\* text is what rag.index_document read; shield is cancellation.shield(); before is the document
\* when the work began, and alone that no other work on it began since.
Works == [task : {"none", "import", "ocr", "reindex", "delete"}, doc : Docs \union {None}, at : Places,
          text : Texts, cancel : BOOLEAN, shield : BOOLEAN, outcome : {"none", "completed", "failed", "cancelled"},
          before : DocRows, alone : BOOLEAN]

NoWork == [task |-> "none", doc |-> None, at |-> "idle", text |-> "none", cancel |-> FALSE, shield |-> FALSE,
           outcome |-> "none", before |-> NoRow("absent"), alone |-> TRUE]

\* What documents.list shows, and those of them that were deleted.
Committed(d) == doc[d].row = "present" /\ ~doc[d].staging

DocInit ==
  /\ doc = [d \in Docs |-> NoRow("absent")]
  /\ act = [p \in Threads |-> NoWork]
  /\ up = TRUE

-----------------------------------------------------------------------------
\* Steps of a thread

D(p) == act[p].doc
At(p, places) == up /\ act[p].at \in places /\ UNCHANGED up
Go(p, place) == act' = [act EXCEPT ![p].at = place]

\* Only an OCR job compares, and once a request works on its document only in what it restores.
Touched(work, d) ==
  IF work.doc # d THEN work
  ELSE [work EXCEPT !.alone = FALSE,
                    !.before = [NoRow("absent") EXCEPT !.index = work.before.index, !.ocr = work.before.ocr]]

Begin(p, task, d, place) ==
  /\ At(p, {"idle"})
  /\ LET work == [NoWork EXCEPT !.task = task, !.doc = d, !.at = place,
                                !.before = IF p = "worker" THEN doc[d] ELSE NoRow("absent")]
     IN  act' = [act EXCEPT ![p] = IF act[Other(p)].doc = d THEN Touched(work, d) ELSE work,
                            ![Other(p)] = Touched(@, d)]

\* The end of JobService._run_job, or of a handler
Finish(p, outcome) ==
  act' = [act EXCEPT ![p] = IF p = "worker" THEN [@ EXCEPT !.at = "settled", !.outcome = outcome, !.text = "none"] ELSE NoWork]

\* DocumentJobExecutor.rollback follows an exception on the worker, once the document is known to it
Raise(p, outcome) ==
  IF p = "rpc" THEN Finish(p, outcome)
  ELSE act' = [act EXCEPT ![p].at = IF act[p].task = "import" THEN "undoing" ELSE "restoring",
                          ![p].outcome = outcome, ![p].shield = FALSE]

\* UPDATE documents SET .. WHERE id = ?, which changes nothing once the row is gone
Write(d, row) == doc' = [doc EXCEPT ![d] = row]

CancelSeen(p) == act[p].cancel /\ ~act[p].shield

Cancelled(p) == CancelSeen(p) /\ Raise(p, "cancelled") /\ UNCHANGED doc

\* jobs.cancel sets the event; the record's own states belong to JobService
CancelJob ==
  /\ up /\ act["worker"].at \notin {"idle", "settled"} /\ ~act["worker"].cancel
  /\ act' = [act EXCEPT !["worker"].cancel = TRUE]
  /\ UNCHANGED <<doc, up>>

NextJob == At("worker", {"settled"}) /\ act' = [act EXCEPT !["worker"] = NoWork] /\ UNCHANGED doc

-----------------------------------------------------------------------------
\* DocumentService.import_document, staging = True

StartImport(d) ==
  /\ doc[d].row = "absent" /\ ~doc[d].file
  /\ Begin("worker", "import", d, "copying")
  /\ UNCHANGED doc

CopyFile ==
  /\ At("worker", {"copying"})
  /\ IF CancelSeen("worker") THEN Finish("worker", "cancelled") /\ UNCHANGED doc
     ELSE Go("worker", "inserting") /\ doc' = [doc EXCEPT ![D("worker")].file = TRUE]

InsertRow_Visible ==
  /\ At("worker", {"inserting"})
  /\ Write(D("worker"), [doc[D("worker")] EXCEPT !.row = "present"])
  /\ Go("worker", "extracting")

InsertRow ==
  /\ At("worker", {"inserting"})
  /\ Write(D("worker"), [doc[D("worker")] EXCEPT !.row = "present", !.staging = TRUE])
  /\ Go("worker", "extracting")

Extract(text) ==
  /\ At("worker", {"extracting"})
  /\ LET read == [doc[D("worker")] EXCEPT !.pages = text]
     IN  Write(D("worker"), IF text # "scanned" THEN read
                            ELSE [read EXCEPT !.index = "low_text", !.low = TRUE, !.ocr = "needed"])
  /\ Go("worker", "choosing")

\* job.document_id is set only when import_document returns, so there is no rollback.
ExtractFails ==
  /\ At("worker", {"extracting"})
  /\ Write(D("worker"), [doc[D("worker")] EXCEPT !.index = "error"])
  /\ Finish("worker", "failed")

\* The last test of the event, and commit_staging
CommitImport ==
  /\ At("worker", {"committing"})
  /\ IF CancelSeen("worker") THEN Cancelled("worker")
     ELSE Finish("worker", "completed") /\ Write(D("worker"), [doc[D("worker")] EXCEPT !.staging = FALSE])

\* purge_document: the owned file first, then the row with all that hangs on it
RemoveFile ==
  /\ At("worker", {"undoing"})
  /\ doc' = [doc EXCEPT ![D("worker")].file = FALSE]
  /\ Go("worker", "purging")

PurgeRow ==
  /\ At("worker", {"purging"})
  /\ Write(D("worker"), [NoRow("purged") EXCEPT !.file = doc[D("worker")].file])
  /\ Finish("worker", act["worker"].outcome)

-----------------------------------------------------------------------------
\* SourceService.index_document: OCR first where the document wants it

NeedsOcr(d) ==
  /\ ~doc[d].deleted
  /\ doc[d].ocr \notin {"indexed", "running"}
  /\ \/ doc[d].low \/ doc[d].index = "low_text"
     \/ doc[d].ocr \in {"needed", "unavailable", "no_text"}
     \/ doc[d].pages # "full"

Choose(p) ==
  /\ At(p, {"choosing"})
  /\ \/ Cancelled(p)
     \/ /\ ~CancelSeen(p)
        /\ Go(p, IF NeedsOcr(D(p)) THEN "ocr" ELSE "reading")
        /\ UNCHANGED doc

\* What the caller does when its indexing is done
AfterIndex(p) == IF act[p].task = "import" THEN Go(p, "committing") ELSE Finish(p, "completed")

\* OCR gave no index; row is the document after it.  Only index_document falls back to the text it has.
WithoutOcr(p, row) ==
  IF act[p].task # "ocr" /\ ~row.low /\ row.index # "low_text" THEN Go(p, "reading") ELSE AfterIndex(p)

\* The OCR job reads the fields it may have to restore.
StartOcrJob ==
  /\ At("worker", {"starting"})
  /\ IF CancelSeen("worker") THEN Cancelled("worker") ELSE Go("worker", "ocr") /\ UNCHANGED doc

OcrStarts(p) ==
  /\ At(p, {"ocr"})
  /\ \/ LET row == [doc[D(p)] EXCEPT !.ocr = "unavailable"] IN Write(D(p), row) /\ WithoutOcr(p, row)
     \/ Write(D(p), [doc[D(p)] EXCEPT !.ocr = "running"]) /\ Go(p, "rendering")

OcrCancelled(p) == At(p, {"rendering"}) /\ Cancelled(p)

\* OCRGuardrailError is passed on by run_document_ocr and absorbed by ensure_document_ocr_indexed;
\* any other OCRExecutionError is absorbed by both.
OcrRefused(p) ==
  /\ At(p, {"rendering"})
  /\ LET row == [doc[D(p)] EXCEPT !.ocr = "unavailable"]
     IN  /\ Write(D(p), row)
         /\ \/ act[p].task = "ocr" /\ Raise(p, "failed")
            \/ WithoutOcr(p, row)

OcrBreaks(p) == At(p, {"rendering"}) /\ Raise(p, "failed") /\ UNCHANGED doc

OcrFindsNothing(p) ==
  /\ At(p, {"rendering"})
  /\ LET row == [doc[D(p)] EXCEPT !.index = "low_text", !.low = TRUE, !.ocr = "no_text"]
     IN  Write(D(p), row) /\ WithoutOcr(p, row)

OcrFindsText_Unshielded(p) ==
  /\ At(p, {"rendering"})
  /\ Write(D(p), [doc[D(p)] EXCEPT !.index = "pending", !.low = FALSE, !.ocr = "indexing"])
  /\ Go(p, "ready")

\* mark_ocr_ready; from here to mark_ocr_indexed no test of the event sees it
OcrFindsText(p) ==
  /\ At(p, {"rendering"})
  /\ Write(D(p), [doc[D(p)] EXCEPT !.index = "pending", !.low = FALSE, !.ocr = "indexing"])
  /\ act' = [act EXCEPT ![p].at = "ready", ![p].shield = TRUE]

ReplacePages(p) ==
  /\ At(p, {"ready"})
  /\ doc' = [doc EXCEPT ![D(p)].pages = "full"]
  /\ Go(p, "reading")

-----------------------------------------------------------------------------
\* RAGService.index_document

\* The row is read once: the deleted test and the low-text return
ReadDocument(p) ==
  /\ At(p, {"reading"})
  /\ LET row == doc[D(p)]
     IN  \/ row.deleted /\ Raise(p, "failed")
         \/ /\ ~row.deleted /\ (row.low \/ row.index = "low_text")
            /\ IF act[p].shield THEN Go(p, "ocr_marking") ELSE AfterIndex(p)
         \/ ~row.deleted /\ ~row.low /\ row.index # "low_text" /\ Go(p, "marking")
  /\ UNCHANGED doc

\* mark_indexing, whatever the row has become, and the pages read after it
StartIndex(p) ==
  /\ At(p, {"marking"})
  /\ Write(D(p), [doc[D(p)] EXCEPT !.index = "indexing"])
  /\ act' = [act EXCEPT ![p].at = "embedding", ![p].text = doc[D(p)].pages]

\* Pages with hardly any text may give no chunk at all: mark_low_text.
NothingToIndex(p) ==
  /\ At(p, {"embedding"}) /\ act[p].text = "scanned"
  /\ Write(D(p), [doc[D(p)] EXCEPT !.index = "low_text", !.low = TRUE, !.ocr = "needed"])
  /\ IF act[p].shield THEN Go(p, "ocr_marking") ELSE AfterIndex(p)

Embed(p) ==
  /\ At(p, {"embedding"})
  /\ \/ Cancelled(p)
     \/ Raise(p, "failed") /\ UNCHANGED doc
     \/ Go(p, "embedded") /\ UNCHANGED doc

\* vector_store.reindex_document: the old chunks go in one transaction, the new ones come in the next
ClearChunks(p) ==
  /\ At(p, {"embedded"})
  /\ doc' = [doc EXCEPT ![D(p)].chunks = "none"]
  /\ Go(p, "cleared")

InsertChunks(p) ==
  /\ At(p, {"cleared"})
  /\ doc' = [doc EXCEPT ![D(p)].chunks = act[p].text]
  /\ act' = [act EXCEPT ![p].at = "chunked", ![p].text = "none"]

MarkIndexed(p) ==
  /\ At(p, {"chunked"})
  /\ Write(D(p), [doc[D(p)] EXCEPT !.index = "indexed"])
  /\ IF act[p].shield THEN Go(p, "ocr_marking") ELSE AfterIndex(p)

MarkOcrIndexed(p) ==
  /\ At(p, {"ocr_marking"})
  /\ Write(D(p), [doc[D(p)] EXCEPT !.index = "indexed", !.low = FALSE, !.ocr = "indexed"])
  /\ IF act[p].task = "import"
       THEN act' = [act EXCEPT ![p].at = "committing", ![p].shield = FALSE]
       ELSE Finish(p, "completed")

\* A rollback that treats every job as an import
RestoreFields_Purges ==
  /\ At("worker", {"restoring"})
  /\ Write(D("worker"), NoRow("purged"))
  /\ Finish("worker", act["worker"].outcome)

\* restore_status_fields: index_status and ocr_status as they were when the job began
RestoreFields ==
  /\ At("worker", {"restoring"})
  /\ LET was == act["worker"].before
     IN  Write(D("worker"), [doc[D("worker")] EXCEPT !.index = was.index, !.ocr = was.ocr])
  /\ Finish("worker", act["worker"].outcome)

-----------------------------------------------------------------------------
\* Requests on a listed document

SubmitOcrJob(d) == Committed(d) /\ Begin("worker", "ocr", d, "starting") /\ UNCHANGED doc

RequestReindex(d) == Committed(d) /\ ~doc[d].deleted /\ Begin("rpc", "reindex", d, "choosing") /\ UNCHANGED doc

RequestOcr(d) == Committed(d) /\ ~doc[d].deleted /\ Begin("rpc", "ocr", d, "ocr") /\ UNCHANGED doc

\* RAGService.delete_document: the chunks, then the tombstone
RequestDelete(d) ==
  /\ Committed(d) /\ ~doc[d].deleted
  /\ Begin("rpc", "delete", d, "deleting")
  /\ doc' = [doc EXCEPT ![d].chunks = "none"]

MarkDeleted ==
  /\ At("rpc", {"deleting"})
  /\ Write(D("rpc"), [doc[D("rpc")] EXCEPT !.deleted = TRUE, !.index = "deleted"])
  /\ Finish("rpc", "completed")

-----------------------------------------------------------------------------
\* The process dies, or is replaced; repair_startup_state runs before anything is served.

Crash ==
  /\ up /\ up' = FALSE
  /\ act' = [p \in Threads |-> NoWork]
  /\ UNCHANGED doc

Restart ==
  /\ ~up /\ up' = TRUE
  /\ doc' = [d \in Docs |->
       IF doc[d].row = "present" /\ doc[d].staging THEN NoRow("purged")
       ELSE IF doc[d].ocr = "running" THEN [doc[d] EXCEPT !.ocr = "needed"] ELSE doc[d]]
  /\ UNCHANGED act

WorkerStep ==
  \/ CopyFile \/ InsertRow \/ (\E text \in Texts \ {"none"} : Extract(text)) \/ ExtractFails
  \/ CommitImport \/ RemoveFile \/ PurgeRow \/ StartOcrJob \/ RestoreFields \/ NextJob

IndexStep(p) ==
  \/ Choose(p) \/ OcrStarts(p) \/ OcrCancelled(p) \/ OcrRefused(p) \/ OcrBreaks(p) \/ OcrFindsNothing(p)
  \/ OcrFindsText(p) \/ ReplacePages(p) \/ ReadDocument(p) \/ StartIndex(p) \/ NothingToIndex(p)
  \/ Embed(p) \/ ClearChunks(p) \/ InsertChunks(p)
  \/ MarkIndexed(p) \/ MarkOcrIndexed(p)

Request(d) ==
  StartImport(d) \/ SubmitOcrJob(d) \/ RequestReindex(d) \/ RequestOcr(d) \/ RequestDelete(d)

DocNext ==
  \/ WorkerStep \/ CancelJob \/ MarkDeleted \/ Crash \/ Restart
  \/ \E p \in Threads : IndexStep(p)
  \/ \E d \in Docs : Request(d)

DocSpec == DocInit /\ [][DocNext]_docVars

-----------------------------------------------------------------------------
\* Properties

Settled(task, outcomes) ==
  act["worker"].at = "settled" /\ act["worker"].task = task /\ act["worker"].outcome \in outcomes

Gone(d) == doc[d].row # "present" /\ ~doc[d].file

\* A job reported as cancelled leaves nothing of its import, neither row nor file copy, wherever
\* among the copy, extraction, OCR and indexing the cancel was seen.
CancelledImportIsGone == Settled("import", {"cancelled"}) => Gone(D("worker"))

\* A cancelled OCR job leaves its document exactly as it found it, pages and chunks included, unless
\* a request has worked on that document meanwhile.
CancelledOcrRestores ==
  Settled("ocr", {"cancelled"}) /\ act["worker"].alone => doc[D("worker")] = act["worker"].before

\* A cancelled job leaves no trace, be it an import or OCR.
CancelLeavesNoTrace == CancelledImportIsGone /\ CancelledOcrRestores

\* Once a document is listed, no rollback, cancel, failure or repair takes its row, its file or its pages.
CommittedSurvives ==
  [][\A d \in Docs : Committed(d) =>
       /\ Committed(d)'
       /\ doc'[d].file = doc[d].file
       /\ doc[d].pages # "none" => doc'[d].pages # "none"]_docVars

\* A document becomes visible only with its indexing done: it has no text, or its chunks are those
\* of the pages it holds.
VisibleIsSettled ==
  [][\A d \in Docs : ~Committed(d) /\ Committed(d)' =>
       \/ doc'[d].index = "low_text"
       \/ doc'[d].index = "indexed" /\ doc'[d].chunks = doc'[d].pages]_docVars

=============================================================================
