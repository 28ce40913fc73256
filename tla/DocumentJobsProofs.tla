------------------------- MODULE DocumentJobsProofs -------------------------
(***************************************************************************)
(* Theorems of DocumentJobs for any number of documents.                   *)
(***************************************************************************)
EXTENDS DocumentJobs, TLAPS

DocTypeOK == doc \in [Docs -> DocRows] /\ act \in [Threads -> Works] /\ up \in BOOLEAN

Reading == {"reading", "marking", "embedding", "embedded", "cleared", "chunked", "ocr_marking"}
Staged == {"extracting", "choosing", "ocr", "rendering", "ready", "committing", "undoing", "purging"} \cup Reading

Listed(r) == r.row = "present" /\ ~r.staging

\* What an import has made of its document at each place: first a file, then a hidden row, whose
\* status tells whether there is text, and whose chunks are the pages' once it is indexed.
ImportStage(at, text, shield, outcome, r) ==
  /\ at \in {"copying", "inserting", "settled"} \cup Staged
  /\ at \in {"copying", "inserting"} => r.row = "absent" /\ ~r.low /\ ~shield
  /\ at = "copying" => ~r.file
  /\ at \in Staged => r.row = "present" /\ r.staging
  /\ at = "purging" => ~r.file
  /\ at = "settled" /\ outcome = "cancelled" => r.row # "present" /\ ~r.file
  /\ at \in Staged \ {"undoing", "purging"} /\ r.low => r.index = "low_text"
  /\ at \in {"extracting", "choosing", "ocr", "rendering", "committing"} => ~shield
  /\ at = "ready" => shield
  /\ at \in {"ready", "reading", "marking"} /\ shield => ~r.low /\ r.index # "low_text"
  /\ at \in {"reading", "marking", "embedding", "embedded", "cleared"} /\ shield => r.pages = "full"
  /\ at \in {"marking", "chunked"} => ~r.low
  /\ at \in {"embedding", "embedded", "cleared"} => text = r.pages /\ ~r.low
  /\ at \in {"chunked", "ocr_marking"} => r.chunks = r.pages
  /\ at = "committing" => r.index = "low_text" \/ (r.index = "indexed" /\ r.chunks = r.pages)

\* What an OCR job has made of its document while nobody else worked on it, until it can no longer be
\* cancelled.
OcrStage(at, shield, outcome, alone, before, r) ==
  /\ at \in {"starting", "ocr", "rendering", "ready", "restoring", "settled"} \cup Reading
  /\ Listed(r)
  /\ at \in {"ready"} \cup Reading => shield
  /\ at \in {"starting", "ocr"} /\ alone => r = before
  /\ at = "rendering" /\ alone => r = [before EXCEPT !.ocr = "running"]
  /\ at = "restoring" /\ outcome = "cancelled" /\ alone => [r EXCEPT !.index = before.index, !.ocr = before.ocr] = before
  /\ at = "settled" /\ outcome = "cancelled" /\ alone => r = before

\* Work in progress and its document fit: a request is on a listed document.
Stage(p, w, r) ==
  IF p = "rpc" THEN w.task \in {"ocr", "reindex", "delete"} /\ Listed(r)
  ELSE \/ w.task = "import" /\ ImportStage(w.at, w.text, w.shield, w.outcome, r)
       \/ w.task = "ocr" /\ OcrStage(w.at, w.shield, w.outcome, w.alone, w.before, r)

\* Every thread is idle, or its work fits its document; without the process both are idle.
WorkFits ==
  /\ \A p \in Threads :
       \/ act[p] = NoWork
       \/ up /\ act[p].at # "idle" /\ act[p].doc \in Docs /\ Stage(p, act[p], doc[act[p].doc])
  /\ act["worker"] # NoWork /\ act["worker"].alone => act["rpc"].doc # act["worker"].doc

\* A document that was never imported has no status yet.
AbsentIsBlank == \A d \in Docs : doc[d].row = "absent" => ~doc[d].low

DocInv == DocTypeOK /\ WorkFits /\ AbsentIsBlank

----------------------------------------------------------------------------
(* What a step of one thread does to its work and its document. *)

\* A listed document keeps its row and file, and its pages if it has any.
Kept(old, r) ==
  r.row = old.row /\ r.staging = old.staging /\ r.file = old.file /\ (old.pages # "none" => r.pages # "none")

\* The worker's work fits its document, with a new place, text, shield and outcome.
WorkerFits(at, text, shield, outcome, r) ==
  LET w == act["worker"]
  IN \/ w.task = "import" /\ ImportStage(at, text, shield, outcome, r)
     \/ w.task = "ocr" /\ OcrStage(at, shield, outcome, w.alone, w.before, r)

\* Whatever is listed stays, and what becomes listed is settled: the steps of the properties.
Survives ==
  \A d \in Docs : Committed(d) =>
    /\ Committed(d)'
    /\ doc'[d].file = doc[d].file
    /\ doc[d].pages # "none" => doc'[d].pages # "none"

Settles ==
  \A d \in Docs : ~Committed(d) /\ Committed(d)' =>
    \/ doc'[d].index = "low_text"
    \/ doc'[d].index = "indexed" /\ doc'[d].chunks = doc'[d].pages

Sound == DocInv' /\ Survives /\ Settles

\* The work that a thread goes on with, and the row that it leaves, go together.
Fair(p, w, r) ==
  /\ w = NoWork \/ (w.at # "idle" /\ w.doc = D(p) /\ w.alone = act[p].alone /\ Stage(p, w, r))
  /\ r.row = "absent" => ~r.low
  /\ Listed(doc[D(p)]) => Kept(doc[D(p)], r)
  /\ ~Listed(doc[D(p)]) /\ Listed(r) => r.index = "low_text" \/ (r.index = "indexed" /\ r.chunks = r.pages)

\* A thread at work is on a document, with a process.
LEMMA AtWork ==
  ASSUME DocInv, NEW p \in Threads, act[p] # NoWork
  PROVE  /\ up /\ act[p] \in Works /\ act[p].at # "idle" /\ D(p) \in Docs /\ doc[D(p)] \in DocRows
         /\ act[p].doc = D(p) /\ Stage(p, act[p], doc[D(p)])
  BY DEF DocInv, DocTypeOK, WorkFits, D

\* A thread at a place of its work is at work.
LEMMA Placed ==
  ASSUME DocInv, NEW p \in Threads, NEW places, At(p, places), "idle" \notin places
  PROVE  act[p] # NoWork /\ up /\ UNCHANGED up /\ act[p].at \in places
  BY DEF At, NoWork

\* A step of one thread leaves the other's work fitting its document, which may be the same.
LEMMA Moved ==
  ASSUME DocInv, UNCHANGED up, NEW p \in Threads, act[p] # NoWork, NEW w \in Works, NEW r \in DocRows,
         act' = [act EXCEPT ![p] = w], doc' = [doc EXCEPT ![D(p)] = r], Fair(p, w, r)
  PROVE  Sound
<1>1. /\ up /\ D(p) \in Docs /\ act \in [Threads -> Works] /\ doc \in [Docs -> DocRows]
      /\ act[p].doc = D(p) /\ Stage(p, act[p], doc[D(p)])
  BY AtWork DEF DocInv, DocTypeOK
<1>2. /\ \A q \in Threads : act'[q] = IF q = p THEN w ELSE act[q]
      /\ \A d \in Docs : doc'[d] = IF d = D(p) THEN r ELSE doc[d]
  BY <1>1
<1>3. DocTypeOK'
  BY <1>1 DEF DocInv, DocTypeOK
<1>4. ASSUME NEW q \in Threads
      PROVE  act'[q] = NoWork \/ (up' /\ act'[q].at # "idle" /\ act'[q].doc \in Docs /\ Stage(q, act'[q], doc'[act'[q].doc]))
  <2>1. CASE q = p
    BY <1>1, <1>2, <2>1 DEF Fair
  <2>2. CASE q # p /\ act[q] = NoWork
    BY <1>2, <2>2
  <2>3. CASE q # p /\ act[q] # NoWork /\ act[q].doc # D(p)
    <3>1. act[q].at # "idle" /\ act[q].doc \in Docs /\ Stage(q, act[q], doc[act[q].doc])
      BY <2>3 DEF DocInv, WorkFits
    <3> QED BY <1>1, <1>2, <2>3, <3>1
  <2>4. CASE q # p /\ act[q] # NoWork /\ act[q].doc = D(p)
    <3>1. act[q].at # "idle" /\ act'[q] = act[q] /\ Stage(q, act[q], doc[D(p)]) /\ doc'[act'[q].doc] = r
      BY <1>1, <1>2, <2>4 DEF DocInv, WorkFits
    <3>2. Stage(q, act[q], r)
      <4>1. CASE q = "rpc"
        BY <3>1, <4>1 DEF Stage, Fair, Kept, Listed
      <4>2. CASE q = "worker"
        <5>1. p = "rpc"
          BY <2>4, <4>2 DEF Threads
        <5>2. Listed(doc[D(p)]) /\ Listed(r)
          BY <1>1, <5>1 DEF Stage, Fair, Kept, Listed
        <5>3. ~act[q].alone
          BY <1>1, <2>4, <4>2, <5>1 DEF DocInv, WorkFits
        <5>4. CASE act[q].task = "import" /\ ImportStage(act[q].at, act[q].text, act[q].shield, act[q].outcome, doc[D(p)])
          <6>1. act[q].at = "settled" /\ act[q].outcome # "cancelled"
            BY <5>2, <5>4 DEF ImportStage, Listed
          <6>2. ImportStage(act[q].at, act[q].text, act[q].shield, act[q].outcome, r)
            BY <6>1 DEF ImportStage, Staged, Reading
          <6> QED BY <4>2, <5>4, <6>2 DEF Stage
        <5>5. CASE /\ act[q].task = "ocr"
                   /\ OcrStage(act[q].at, act[q].shield, act[q].outcome, act[q].alone, act[q].before, doc[D(p)])
          <6>1. OcrStage(act[q].at, act[q].shield, act[q].outcome, act[q].alone, act[q].before, r)
            BY <5>2, <5>3, <5>5 DEF OcrStage
          <6> QED BY <4>2, <5>5, <6>1 DEF Stage
        <5> QED BY <3>1, <4>2, <5>4, <5>5 DEF Stage
      <4> QED BY <4>1, <4>2 DEF Threads
    <3> QED BY <1>1, <2>4, <3>1, <3>2
  <2> QED BY <2>1, <2>2, <2>3, <2>4
<1>5. act'["worker"] # NoWork /\ act'["worker"].alone => act'["rpc"].doc # act'["worker"].doc
  <2>1. None \notin Docs /\ NoWork.doc = None
    BY DocAssumption DEF NoWork
  <2>2. "worker" \in Threads /\ "rpc" \in Threads /\ p \in {"worker", "rpc"}
    BY DEF Threads
  <2>3. w = NoWork \/ (w.doc = act[p].doc /\ w.alone = act[p].alone)
    BY <1>1 DEF Fair
  <2>4. act["worker"] # NoWork => act["worker"].doc \in Docs
    BY <2>2 DEF DocInv, WorkFits
  <2>5. act["worker"] # NoWork /\ act["worker"].alone => act["rpc"].doc # act["worker"].doc
    BY DEF DocInv, WorkFits
  <2> QED BY <1>2, <2>1, <2>2, <2>3, <2>4, <2>5
<1>6. AbsentIsBlank'
  BY <1>2 DEF DocInv, AbsentIsBlank, Fair
<1>7. Survives /\ Settles
  BY <1>2 DEF Survives, Settles, Committed, Fair, Listed, Kept
<1> QED BY <1>3, <1>4, <1>5, <1>6, <1>7 DEF Sound, DocInv, WorkFits

----------------------------------------------------------------------------
(* The ways a step of IndexStep goes on.  The document stays what it is to everyone else. *)

\* The row a step at work leaves, and that it may leave.
KeepsRow(p, r) ==
  /\ doc' = [doc EXCEPT ![D(p)] = r]
  /\ r \in DocRows /\ Kept(doc[D(p)], r) /\ r.row = "present"

\* A row that is kept is as fair as the row before.
LEMMA KeptIsFair ==
  ASSUME DocInv, NEW p \in Threads, act[p] # NoWork, NEW r \in DocRows, Kept(doc[D(p)], r), r.row = "present",
         NEW w \in Works, w.at # "idle", w.doc = D(p), w.task = act[p].task, w.alone = act[p].alone, w.before = act[p].before,
         p = "worker" => WorkerFits(w.at, w.text, w.shield, w.outcome, r)
  PROVE  Fair(p, w, r)
<1>1. Stage(p, act[p], doc[D(p)])
  BY AtWork
<1>2. CASE p = "worker"
  BY <1>2 DEF Fair, Stage, WorkerFits, Listed, Kept
<1>3. CASE p = "rpc"
  BY <1>1, <1>3 DEF Fair, Stage, Listed, Kept
<1> QED BY <1>2, <1>3 DEF Threads

\* A step goes on to another place, and nothing else of the work changes.
LEMMA Went ==
  ASSUME DocInv, UNCHANGED up, NEW p \in Threads, act[p] # NoWork, NEW place \in Places, place # "idle", Go(p, place),
         NEW r, KeepsRow(p, r),
         p = "worker" => WorkerFits(place, act[p].text, act[p].shield, act[p].outcome, r)
  PROVE  Sound
<1> DEFINE w == [act[p] EXCEPT !.at = place]
<1>1. act[p] \in Works /\ act[p].doc = D(p)
  BY AtWork
<1>2. /\ w \in Works /\ act' = [act EXCEPT ![p] = w] /\ w.at = place
      /\ w.text = act[p].text /\ w.shield = act[p].shield /\ w.outcome = act[p].outcome
      /\ w.doc = act[p].doc /\ w.task = act[p].task /\ w.alone = act[p].alone /\ w.before = act[p].before
  BY <1>1 DEF Works, Go
<1> HIDE DEF w
<1>3. Fair(p, w, r)
  BY <1>1, <1>2, KeptIsFair DEF KeepsRow
<1> QED BY <1>2, <1>3, Moved DEF KeepsRow

\* The same when the step also reads a text or changes the shield.
LEMMA Turned ==
  ASSUME DocInv, UNCHANGED up, NEW p \in Threads, act[p] # NoWork, NEW place \in Places, place # "idle",
         NEW text \in Texts, NEW shield \in BOOLEAN,
         act' = [act EXCEPT ![p] = [act[p] EXCEPT !.at = place, !.text = text, !.shield = shield]],
         NEW r, KeepsRow(p, r),
         p = "worker" => WorkerFits(place, text, shield, act[p].outcome, r)
  PROVE  Sound
<1> DEFINE w == [act[p] EXCEPT !.at = place, !.text = text, !.shield = shield]
<1>1. act[p] \in Works /\ act[p].doc = D(p)
  BY AtWork
<1>2. /\ w \in Works /\ act' = [act EXCEPT ![p] = w] /\ w.at = place
      /\ w.text = text /\ w.shield = shield /\ w.outcome = act[p].outcome
      /\ w.doc = act[p].doc /\ w.task = act[p].task /\ w.alone = act[p].alone /\ w.before = act[p].before
  BY <1>1 DEF Works
<1> HIDE DEF w
<1>3. Fair(p, w, r)
  BY <1>1, <1>2, KeptIsFair DEF KeepsRow
<1> QED BY <1>2, <1>3, Moved DEF KeepsRow

\* A request ends, or the worker's job settles.
LEMMA Ended ==
  ASSUME DocInv, UNCHANGED up, NEW p \in Threads, act[p] # NoWork, NEW outcome \in {"completed", "failed", "cancelled"},
         Finish(p, outcome), NEW r, KeepsRow(p, r),
         p = "worker" => WorkerFits("settled", "none", act[p].shield, outcome, r)
  PROVE  Sound
<1>1. act[p] \in Works /\ act[p].doc = D(p)
  BY AtWork
<1>2. CASE p = "worker"
  <2> DEFINE w == [act[p] EXCEPT !.at = "settled", !.outcome = outcome, !.text = "none"]
  <2>0. "settled" \in Places /\ "none" \in Texts
    BY DEF Places, Texts
  <2>1. /\ w \in Works /\ act' = [act EXCEPT ![p] = w] /\ w.at = "settled" /\ w.text = "none"
        /\ w.shield = act[p].shield /\ w.outcome = outcome
        /\ w.doc = act[p].doc /\ w.task = act[p].task /\ w.alone = act[p].alone /\ w.before = act[p].before
    BY <1>1, <1>2, <2>0 DEF Works, Finish
  <2> HIDE DEF w
  <2>2. Fair(p, w, r)
    BY <1>1, <2>1, KeptIsFair DEF KeepsRow
  <2> QED BY <2>1, <2>2, Moved DEF KeepsRow
<1>3. CASE p = "rpc"
  <2>1. act' = [act EXCEPT ![p] = NoWork]
    BY <1>3 DEF Finish
  <2>2. NoWork \in Works
    BY DEF NoWork, Works, NoRow, DocRows, Places, Texts
  <2>3. Listed(doc[D(p)])
    BY <1>3, AtWork DEF Stage
  <2>4. Fair(p, NoWork, r)
    BY <2>3 DEF Fair, KeepsRow, Kept, Listed
  <2> QED BY <2>1, <2>2, <2>4, Moved DEF KeepsRow
<1> QED BY <1>2, <1>3 DEF Threads

\* An exception: the worker rolls its job back, a request ends.
LEMMA Raised ==
  ASSUME DocInv, UNCHANGED up, NEW p \in Threads, act[p] # NoWork, NEW outcome \in {"failed", "cancelled"},
         Raise(p, outcome), NEW r, KeepsRow(p, r),
         p = "worker" => WorkerFits(IF act[p].task = "import" THEN "undoing" ELSE "restoring", act[p].text, FALSE, outcome, r)
  PROVE  Sound
<1>1. act[p] \in Works /\ act[p].doc = D(p)
  BY AtWork
<1>2. CASE p = "worker"
  <2> DEFINE place == IF act[p].task = "import" THEN "undoing" ELSE "restoring"
             w == [act[p] EXCEPT !.at = place, !.outcome = outcome, !.shield = FALSE]
  <2>0. place \in Places /\ place # "idle"
    BY DEF Places
  <2>2. WorkerFits(place, act[p].text, FALSE, outcome, r) /\ act' = [act EXCEPT ![p] = w]
    BY <1>2 DEF Raise
  <2> HIDE DEF place
  <2>1. /\ w \in Works /\ w.at = place /\ w.text = act[p].text /\ w.shield = FALSE /\ w.outcome = outcome
        /\ w.doc = act[p].doc /\ w.task = act[p].task /\ w.alone = act[p].alone /\ w.before = act[p].before
    BY <1>1, <2>0 DEF Works
  <2> HIDE DEF w
  <2>3. Fair(p, w, r)
    BY <1>1, <2>0, <2>1, <2>2, KeptIsFair DEF KeepsRow
  <2> QED BY <2>1, <2>2, <2>3, Moved DEF KeepsRow
<1>3. CASE p = "rpc"
  BY <1>3, Ended DEF Raise
<1> QED BY <1>2, <1>3 DEF Threads

\* What the caller does when its indexing is done: an import is committed next.
LEMMA Indexed ==
  ASSUME DocInv, UNCHANGED up, NEW p \in Threads, act[p] # NoWork, AfterIndex(p), NEW r, KeepsRow(p, r),
         p = "worker" /\ act[p].task = "import" => ImportStage("committing", act[p].text, act[p].shield, act[p].outcome, r),
         p = "worker" /\ act[p].task = "ocr" => Listed(r)
  PROVE  Sound
<1>1. /\ "committing" \in Places /\ "committing" # "idle" /\ "completed" \in {"completed", "failed", "cancelled"}
      /\ p = "worker" => act[p].task \in {"import", "ocr"}
      /\ p # "worker" => act[p].task # "import"
  BY AtWork DEF Places, Stage, Threads
<1>2. CASE act[p].task = "import"
  <2>1. Go(p, "committing")
    BY <1>2 DEF AfterIndex
  <2>2. p = "worker" => WorkerFits("committing", act[p].text, act[p].shield, act[p].outcome, r)
    BY <1>2 DEF WorkerFits
  <2> QED BY <1>1, <2>1, <2>2, Went
<1>3. CASE act[p].task # "import"
  <2>1. Finish(p, "completed")
    BY <1>3 DEF AfterIndex
  <2>2. ASSUME p = "worker" PROVE WorkerFits("settled", "none", act[p].shield, "completed", r)
    <3>1. act["worker"].task = "ocr" /\ Listed(r)
      BY <1>1, <1>3, <2>2
    <3> QED BY <3>1 DEF WorkerFits, OcrStage, Reading
  <2> QED BY <1>1, <2>1, <2>2, Ended
<1> QED BY <1>2, <1>3

----------------------------------------------------------------------------
(* OCR and indexing, on either thread. *)

\* Where a thread in IndexStep stands.
IndexPlaces == {"choosing", "ocr", "rendering", "ready"} \cup Reading

\* What is known of its work and of the row.
LEMMA AtIndex ==
  ASSUME DocInv, NEW p \in Threads, act[p] # NoWork, act[p].at \in IndexPlaces
  PROVE  /\ doc[D(p)] \in DocRows /\ doc[D(p)].row = "present" /\ act[p] \in Works
         /\ p = "rpc" => act[p].task # "import"
         /\ p = "worker" =>
              /\ act["worker"].task \in {"import", "ocr"}
              /\ WorkerFits(act["worker"].at, act["worker"].text, act["worker"].shield, act["worker"].outcome, doc[D(p)])
<1>1. Stage(p, act[p], doc[D(p)]) /\ doc[D(p)] \in DocRows /\ act[p] \in Works
  BY AtWork
<1>2. CASE p = "rpc"
  BY <1>1, <1>2 DEF Stage, Listed
<1>3. CASE p = "worker"
  <2>1. act["worker"].task \in {"import", "ocr"}
        /\ WorkerFits(act["worker"].at, act["worker"].text, act["worker"].shield, act["worker"].outcome, doc[D(p)])
    BY <1>1, <1>3 DEF Stage, WorkerFits
  <2>2. doc[D(p)].row = "present"
    BY <1>3, <2>1 DEF WorkerFits, ImportStage, OcrStage, Listed, IndexPlaces, Staged
  <2> QED BY <1>1, <1>3, <2>1, <2>2
<1> QED BY <1>2, <1>3 DEF Threads

\* A step that leaves the rows alone keeps the row.
LEMMA SameKept ==
  ASSUME DocInv, NEW p \in Threads, act[p] # NoWork, act[p].at \in IndexPlaces, UNCHANGED doc
  PROVE  KeepsRow(p, doc[D(p)])
BY AtIndex DEF KeepsRow, Kept, DocInv, DocTypeOK

\* The test for OCR: a cancelled import is rolled back, another goes to OCR or to its own text.
LEMMA ChooseKeeps ==
  ASSUME DocInv, NEW p \in Threads, Choose(p)
  PROVE  Sound
<1>1. act[p] # NoWork /\ up /\ UNCHANGED up /\ act[p].at = "choosing" /\ act[p].at \in IndexPlaces
  <2>1. At(p, {"choosing"}) /\ "idle" \notin {"choosing"}
    BY DEF Choose
  <2> QED BY <2>1, Placed DEF IndexPlaces
<1>2. UNCHANGED doc
  BY DEF Choose, Cancelled
<1>3. KeepsRow(p, doc[D(p)])
  BY <1>1, <1>2, SameKept
<1>4. ASSUME p = "worker"
      PROVE  /\ act["worker"].task = "import" /\ act["worker"].at = "choosing"
             /\ ImportStage("choosing", act["worker"].text, act["worker"].shield, act["worker"].outcome, doc[D(p)])
  BY <1>1, <1>4, AtIndex DEF WorkerFits, OcrStage, Reading
<1>5. CASE Cancelled(p)
  <2>1. Raise(p, "cancelled")
    BY <1>5 DEF Cancelled
  <2>2. ASSUME p = "worker"
        PROVE  WorkerFits(IF act[p].task = "import" THEN "undoing" ELSE "restoring", act[p].text, FALSE, "cancelled", doc[D(p)])
    BY <1>4, <2>2 DEF WorkerFits, ImportStage, Staged, Reading
  <2> QED BY <1>1, <1>3, <2>1, <2>2, Raised
<1>6. CASE Go(p, "ocr")
  <2>1. ASSUME p = "worker" PROVE WorkerFits("ocr", act[p].text, act[p].shield, act[p].outcome, doc[D(p)])
    BY <1>4, <2>1 DEF WorkerFits, ImportStage, Staged, Reading
  <2>2. "ocr" \in Places /\ "ocr" # "idle"
    BY DEF Places
  <2> QED BY <1>1, <1>3, <1>6, <2>1, <2>2, Went
<1>7. CASE Go(p, "reading")
  <2>1. ASSUME p = "worker" PROVE WorkerFits("reading", act[p].text, act[p].shield, act[p].outcome, doc[D(p)])
    BY <1>4, <2>1 DEF WorkerFits, ImportStage, Staged, Reading
  <2>2. "reading" \in Places /\ "reading" # "idle"
    BY DEF Places
  <2> QED BY <1>1, <1>3, <1>7, <2>1, <2>2, Went
<1> QED BY <1>5, <1>6, <1>7 DEF Choose

\* OCR gave nothing: an import goes on with the text it has, or is committed without.
LEMMA WithoutOcrKeeps ==
  ASSUME DocInv, UNCHANGED up, NEW p \in Threads, act[p] # NoWork, act[p].at \in {"ocr", "rendering"},
         NEW r, KeepsRow(p, r), WithoutOcr(p, r), r.low => r.index = "low_text"
  PROVE  Sound
<1>1. /\ act[p].at \in IndexPlaces /\ "reading" \in Places /\ "reading" # "idle"
      /\ r.staging = doc[D(p)].staging /\ r.row = "present"
  BY DEF IndexPlaces, Places, KeepsRow, Kept
<1>2. ASSUME p = "worker", act[p].task = "import"
      PROVE  /\ ImportStage("reading", act[p].text, act[p].shield, act[p].outcome, r)
             /\ r.low \/ r.index = "low_text" => ImportStage("committing", act[p].text, act[p].shield, act[p].outcome, r)
  <2>1. ImportStage(act["worker"].at, act["worker"].text, act["worker"].shield, act["worker"].outcome, doc[D(p)])
    BY <1>1, <1>2, AtIndex DEF WorkerFits
  <2>2. act["worker"].at \in {"ocr", "rendering"} /\ ~act["worker"].shield /\ r.staging
    BY <1>1, <1>2, <2>1 DEF ImportStage, Staged
  <2> QED BY <1>1, <1>2, <2>2 DEF ImportStage, Staged, Reading
<1>3. ASSUME p = "worker", act[p].task = "ocr" PROVE Listed(r)
  BY <1>1, <1>3, AtIndex DEF WorkerFits, OcrStage, Listed
<1>4. CASE Go(p, "reading") /\ act[p].task # "ocr"
  <2>1. ASSUME p = "worker" PROVE WorkerFits("reading", act[p].text, act[p].shield, act[p].outcome, r)
    <3>1. act["worker"].task = "import"
      BY <1>1, <1>4, <2>1, AtIndex
    <3> QED BY <1>2, <2>1, <3>1 DEF WorkerFits
  <2> QED BY <1>1, <1>4, <2>1, Went
<1>5. CASE AfterIndex(p) /\ ~(act[p].task # "ocr" /\ ~r.low /\ r.index # "low_text")
  <2>1. p = "worker" /\ act[p].task = "import" => ImportStage("committing", act[p].text, act[p].shield, act[p].outcome, r)
    BY <1>2, <1>5
  <2> QED BY <1>3, <1>5, <2>1, Indexed
<1> QED BY <1>4, <1>5 DEF WithoutOcr

\* An engine that is not there leaves the document as one without OCR; another starts on its pages.
LEMMA OcrStartsKeeps ==
  ASSUME DocInv, NEW p \in Threads, OcrStarts(p)
  PROVE  Sound
<1>1. act[p] # NoWork /\ up /\ UNCHANGED up /\ act[p].at = "ocr" /\ act[p].at \in IndexPlaces
  <2>1. At(p, {"ocr"}) /\ "idle" \notin {"ocr"}
    BY DEF OcrStarts
  <2> QED BY <2>1, Placed DEF IndexPlaces
<1> DEFINE old == doc[D(p)]
<1>2. old \in DocRows /\ old.row = "present"
  BY <1>1, AtIndex
<1>3. ASSUME p = "worker", act["worker"].task = "import"
      PROVE  ImportStage("ocr", act["worker"].text, act["worker"].shield, act["worker"].outcome, old)
  BY <1>1, <1>3, AtIndex DEF WorkerFits
<1>4. ASSUME p = "worker", act["worker"].task = "ocr"
      PROVE  OcrStage("ocr", act["worker"].shield, act["worker"].outcome, act["worker"].alone, act["worker"].before, old)
  BY <1>1, <1>4, AtIndex DEF WorkerFits
<1>5. CASE /\ Write(D(p), [old EXCEPT !.ocr = "unavailable"])
           /\ WithoutOcr(p, [old EXCEPT !.ocr = "unavailable"])
  <2> DEFINE r == [old EXCEPT !.ocr = "unavailable"]
  <2>1. r \in DocRows /\ r.low = old.low /\ r.index = old.index /\ Kept(old, r) /\ r.row = "present"
    BY <1>2 DEF DocRows, Kept
  <2>2. doc' = [doc EXCEPT ![D(p)] = r] /\ WithoutOcr(p, r)
    BY <1>5 DEF Write
  <2> HIDE DEF r
  <2>3. KeepsRow(p, r) /\ r.low = old.low /\ r.index = old.index
    BY <2>1, <2>2 DEF KeepsRow
  <2>4. CASE r.low => r.index = "low_text"
    BY <1>1, <2>2, <2>3, <2>4, WithoutOcrKeeps
  <2>5. CASE r.low /\ r.index # "low_text"
    <3>1. AfterIndex(p)
      BY <2>2, <2>5 DEF WithoutOcr
    <3>2. ~(p = "worker" /\ act[p].task = "import")
      BY <1>3, <2>3, <2>5 DEF ImportStage, Staged
    <3>3. p = "worker" /\ act[p].task = "ocr" => Listed(r)
      BY <1>4, <2>3 DEF OcrStage, Listed, KeepsRow, Kept
    <3> QED BY <1>1, <2>3, <3>1, <3>2, <3>3, Indexed
  <2> QED BY <2>4, <2>5
<1>6. CASE Write(D(p), [old EXCEPT !.ocr = "running"]) /\ Go(p, "rendering")
  <2> DEFINE r == [old EXCEPT !.ocr = "running"]
  <2>1. /\ r \in DocRows /\ r.low = old.low /\ r.index = old.index /\ Kept(old, r)
        /\ r.row = "present" /\ r.staging = old.staging /\ r.file = old.file
    BY <1>2 DEF DocRows, Kept
  <2>2. doc' = [doc EXCEPT ![D(p)] = r]
    BY <1>6 DEF Write
  <2> HIDE DEF r
  <2>3. /\ KeepsRow(p, r) /\ r.low = old.low /\ r.index = old.index
        /\ r.row = "present" /\ r.staging = old.staging /\ r.file = old.file
    BY <2>1, <2>2 DEF KeepsRow
  <2>4. ASSUME p = "worker" PROVE WorkerFits("rendering", act[p].text, act[p].shield, act[p].outcome, r)
    <3>1. CASE act["worker"].task = "import"
      <4>1. ImportStage("rendering", act["worker"].text, act["worker"].shield, act["worker"].outcome, r)
        BY <1>3, <2>3, <2>4, <3>1 DEF ImportStage, Staged, Reading
      <4> QED BY <2>4, <3>1, <4>1 DEF WorkerFits
    <3>2. CASE act["worker"].task = "ocr"
      <4>1. OcrStage("rendering", act["worker"].shield, act["worker"].outcome, act["worker"].alone, act["worker"].before, r)
        <5>1. r = [old EXCEPT !.ocr = "running"]
          BY DEF r
        <5> QED BY <1>4, <2>3, <2>4, <3>2, <5>1 DEF OcrStage, Reading, Listed
      <4> QED BY <2>4, <3>2, <4>1 DEF WorkerFits
    <3> QED BY <1>1, <2>4, <3>1, <3>2, AtIndex
  <2>5. "rendering" \in Places /\ "rendering" # "idle"
    BY DEF Places
  <2> QED BY <1>1, <1>6, <2>3, <2>4, <2>5, Went
<1> QED BY <1>5, <1>6 DEF OcrStarts

\* What a thread that recognises pages knows of its document.
LEMMA AtRendering ==
  ASSUME DocInv, NEW p \in Threads, At(p, {"rendering"})
  PROVE  /\ act[p] # NoWork /\ up /\ UNCHANGED up /\ act[p].at = "rendering" /\ act[p].at \in IndexPlaces
         /\ doc[D(p)] \in DocRows /\ doc[D(p)].row = "present"
         /\ p = "worker" => act[p].task \in {"import", "ocr"}
         /\ p = "worker" /\ act[p].task = "import" =>
              ImportStage("rendering", act[p].text, act[p].shield, act[p].outcome, doc[D(p)])
         /\ p = "worker" /\ act[p].task = "ocr" =>
              OcrStage("rendering", act[p].shield, act[p].outcome, act[p].alone, act[p].before, doc[D(p)])
<1>1. act[p] # NoWork /\ up /\ UNCHANGED up /\ act[p].at = "rendering" /\ act[p].at \in IndexPlaces
  BY Placed DEF IndexPlaces
<1> QED BY <1>1, AtIndex DEF WorkerFits

\* A cancel or an error while pages are recognised is undone by the rollback.
LEMMA OcrRaiseKeeps ==
  ASSUME DocInv, NEW p \in Threads, At(p, {"rendering"}), NEW outcome \in {"failed", "cancelled"}, Raise(p, outcome),
         NEW r, KeepsRow(p, r), outcome = "cancelled" => r = doc[D(p)]
  PROVE  Sound
<1>1. r.row = "present" /\ r.staging = doc[D(p)].staging
  BY DEF KeepsRow, Kept
<1>2. ASSUME p = "worker"
      PROVE  WorkerFits(IF act[p].task = "import" THEN "undoing" ELSE "restoring", act[p].text, FALSE, outcome, r)
  <2>1. CASE act[p].task = "import"
    <3>1. ImportStage("undoing", act[p].text, FALSE, outcome, r)
      BY <1>1, <1>2, <2>1, AtRendering DEF ImportStage, Staged, Reading
    <3> QED BY <1>2, <2>1, <3>1 DEF WorkerFits
  <2>2. CASE act[p].task = "ocr"
    <3>1. OcrStage("rendering", act[p].shield, act[p].outcome, act[p].alone, act[p].before, doc[D(p)])
      BY <1>2, <2>2, AtRendering
    <3>2. act[p].before \in DocRows
      BY AtRendering, AtIndex DEF Works
    <3>3. outcome = "cancelled" /\ act[p].alone => [r EXCEPT !.index = act[p].before.index, !.ocr = act[p].before.ocr] = act[p].before
      <4> SUFFICES ASSUME outcome = "cancelled", act[p].alone
                   PROVE  [r EXCEPT !.index = act[p].before.index, !.ocr = act[p].before.ocr] = act[p].before
        OBVIOUS
      <4>1. r = [act[p].before EXCEPT !.ocr = "running"]
        BY <3>1 DEF OcrStage
      <4> QED BY <3>2, <4>1 DEF DocRows
    <3>4. OcrStage("restoring", FALSE, outcome, act[p].alone, act[p].before, r)
      BY <1>1, <3>1, <3>3 DEF OcrStage, Reading, Listed
    <3> QED BY <1>2, <2>2, <3>4 DEF WorkerFits
  <2> QED BY <1>2, <2>1, <2>2, AtRendering
<1> QED BY <1>2, AtRendering, Raised

\* Recognition of the pages that is cancelled, refused, broken or in vain.
LEMMA RenderingKeeps ==
  ASSUME DocInv, NEW p \in Threads, OcrCancelled(p) \/ OcrRefused(p) \/ OcrBreaks(p) \/ OcrFindsNothing(p)
  PROVE  Sound
<1> DEFINE old == doc[D(p)]
<1>1. At(p, {"rendering"})
  BY DEF OcrCancelled, OcrRefused, OcrBreaks, OcrFindsNothing
<1>2. /\ act[p] # NoWork /\ up /\ UNCHANGED up /\ act[p].at = "rendering" /\ act[p].at \in IndexPlaces
      /\ old \in DocRows /\ old.row = "present"
  BY <1>1, AtRendering
<1>3. CASE UNCHANGED doc /\ (Raise(p, "cancelled") \/ Raise(p, "failed"))
  <2>1. KeepsRow(p, old)
    BY <1>2, <1>3, SameKept
  <2>2. "cancelled" \in {"failed", "cancelled"} /\ "failed" \in {"failed", "cancelled"}
    OBVIOUS
  <2> QED BY <1>1, <1>3, <2>1, <2>2, OcrRaiseKeeps
<1>4. CASE OcrRefused(p)
  <2> DEFINE r == [old EXCEPT !.ocr = "unavailable"]
  <2>1. /\ r \in DocRows /\ r.low = old.low /\ r.index = old.index /\ Kept(old, r) /\ r.row = "present" /\ r.staging = old.staging
    BY <1>2 DEF DocRows, Kept
  <2>2. /\ doc' = [doc EXCEPT ![D(p)] = r]
        /\ (act[p].task = "ocr" /\ Raise(p, "failed")) \/ WithoutOcr(p, r)
    BY <1>4 DEF OcrRefused, Write
  <2> HIDE DEF r
  <2>3. KeepsRow(p, r)
    BY <2>1, <2>2 DEF KeepsRow
  <2>4. CASE Raise(p, "failed")
    <3>1. "failed" \in {"failed", "cancelled"} /\ "failed" # "cancelled"
      OBVIOUS
    <3> QED BY <1>1, <2>3, <2>4, <3>1, OcrRaiseKeeps
  <2>5. CASE WithoutOcr(p, r) /\ (r.low => r.index = "low_text")
    BY <1>2, <2>3, <2>5, WithoutOcrKeeps
  <2>6. CASE WithoutOcr(p, r) /\ r.low /\ r.index # "low_text"
    <3>1. AfterIndex(p)
      BY <2>6 DEF WithoutOcr
    <3>2. ~(p = "worker" /\ act[p].task = "import")
      BY <1>1, <2>1, <2>6, AtRendering DEF ImportStage, Staged
    <3>3. p = "worker" /\ act[p].task = "ocr" => Listed(r)
      BY <1>1, <2>1, AtRendering DEF OcrStage, Listed
    <3> QED BY <1>2, <2>3, <3>1, <3>2, <3>3, Indexed
  <2> QED BY <2>2, <2>4, <2>5, <2>6
<1>5. CASE OcrFindsNothing(p)
  <2> DEFINE r == [old EXCEPT !.index = "low_text", !.low = TRUE, !.ocr = "no_text"]
  <2>1. r \in DocRows /\ r.index = "low_text" /\ Kept(old, r) /\ r.row = "present"
    BY <1>2 DEF DocRows, Kept
  <2>2. doc' = [doc EXCEPT ![D(p)] = r] /\ WithoutOcr(p, r)
    BY <1>5 DEF OcrFindsNothing, Write
  <2> HIDE DEF r
  <2>3. KeepsRow(p, r)
    BY <2>1, <2>2 DEF KeepsRow
  <2> QED BY <1>2, <2>1, <2>2, <2>3, WithoutOcrKeeps
<1> QED BY <1>3, <1>4, <1>5 DEF OcrCancelled, OcrBreaks, Cancelled

\* From here on an OCR job can no longer be cancelled, and an import's document is no longer without text.
LEMMA FindsTextKeeps ==
  ASSUME DocInv, NEW p \in Threads, OcrFindsText(p)
  PROVE  Sound
<1> DEFINE old == doc[D(p)]
           r == [old EXCEPT !.index = "pending", !.low = FALSE, !.ocr = "indexing"]
<1>1. At(p, {"rendering"})
  BY DEF OcrFindsText
<1>2. /\ act[p] # NoWork /\ up /\ UNCHANGED up /\ old \in DocRows /\ old.row = "present" /\ act[p] \in Works
  BY <1>1, AtRendering, AtIndex
<1>3. /\ r \in DocRows /\ ~r.low /\ r.index = "pending" /\ Kept(old, r) /\ r.row = "present" /\ r.staging = old.staging
  BY <1>2 DEF DocRows, Kept
<1>4. KeepsRow(p, r)
  BY <1>3 DEF KeepsRow, OcrFindsText, Write
<1> HIDE DEF r
<1>5. /\ "ready" \in Places /\ "ready" # "idle" /\ act[p].text \in Texts /\ TRUE \in BOOLEAN
      /\ act' = [act EXCEPT ![p] = [act[p] EXCEPT !.at = "ready", !.text = act[p].text, !.shield = TRUE]]
  <2>1. [act[p] EXCEPT !.at = "ready", !.shield = TRUE] = [act[p] EXCEPT !.at = "ready", !.text = act[p].text, !.shield = TRUE]
    BY <1>2 DEF Works
  <2>2. act' = [act EXCEPT ![p] = [act[p] EXCEPT !.at = "ready", !.shield = TRUE]]
    BY DEF OcrFindsText
  <2> QED BY <1>2, <2>1, <2>2 DEF Places, Works
<1>6. ASSUME p = "worker" PROVE WorkerFits("ready", act[p].text, TRUE, act[p].outcome, r)
  <2>1. CASE act[p].task = "import"
    <3>1. ImportStage("ready", act[p].text, TRUE, act[p].outcome, r)
      BY <1>1, <1>3, <1>6, <2>1, AtRendering DEF ImportStage, Staged, Reading
    <3> QED BY <1>6, <2>1, <3>1 DEF WorkerFits
  <2>2. CASE act[p].task = "ocr"
    <3>1. OcrStage("ready", TRUE, act[p].outcome, act[p].alone, act[p].before, r)
      BY <1>1, <1>3, <1>6, <2>2, AtRendering DEF OcrStage, Listed, Reading
    <3> QED BY <1>6, <2>2, <3>1 DEF WorkerFits
  <2> QED BY <1>1, <1>6, <2>1, <2>2, AtRendering
<1> QED BY <1>2, <1>4, <1>5, <1>6, Turned

\* What a thread knows of its work and document at a place of OCR or indexing.
LEMMA AtPlace ==
  ASSUME DocInv, NEW p \in Threads, NEW place \in IndexPlaces, At(p, {place})
  PROVE  /\ act[p] # NoWork /\ up /\ UNCHANGED up /\ act[p].at = place /\ act[p].at \in IndexPlaces
         /\ doc[D(p)] \in DocRows /\ doc[D(p)].row = "present" /\ act[p] \in Works /\ D(p) \in Docs
         /\ p = "worker" => act[p].task \in {"import", "ocr"}
         /\ p = "rpc" => act[p].task # "import"
         /\ p = "worker" /\ act[p].task = "import" => ImportStage(place, act[p].text, act[p].shield, act[p].outcome, doc[D(p)])
         /\ p = "worker" /\ act[p].task = "ocr" =>
              OcrStage(place, act[p].shield, act[p].outcome, act[p].alone, act[p].before, doc[D(p)])
<1>1. "idle" \notin {place}
  BY DEF IndexPlaces, Reading
<1>2. act[p] # NoWork /\ up /\ UNCHANGED up /\ act[p].at = place /\ act[p].at \in IndexPlaces
  BY <1>1, Placed
<1> QED BY <1>2, AtIndex, AtWork DEF WorkerFits

\* The recognised pages are the whole text of the document.
LEMMA ReplaceKeeps ==
  ASSUME DocInv, NEW p \in Threads, ReplacePages(p)
  PROVE  Sound
<1> DEFINE old == doc[D(p)]
           r == [old EXCEPT !.pages = "full"]
<1>1. At(p, {"ready"}) /\ "ready" \in IndexPlaces /\ "reading" \in Places /\ "reading" # "idle"
  BY DEF ReplacePages, IndexPlaces, Places
<1>2. old \in DocRows /\ old.row = "present"
  BY <1>1, AtPlace
<1>3. /\ r \in DocRows /\ r.low = old.low /\ r.index = old.index /\ r.pages = "full" /\ Kept(old, r) /\ r.row = "present"
      /\ r.staging = old.staging
  BY <1>2 DEF DocRows, Kept, Texts
<1>4. KeepsRow(p, r) /\ Go(p, "reading")
  BY <1>3 DEF KeepsRow, ReplacePages
<1> HIDE DEF r
<1>5. ASSUME p = "worker" PROVE WorkerFits("reading", act[p].text, act[p].shield, act[p].outcome, r)
  <2>1. CASE act[p].task = "import"
    <3>1. ImportStage("reading", act[p].text, act[p].shield, act[p].outcome, r)
      BY <1>1, <1>3, <1>5, <2>1, AtPlace DEF ImportStage, Staged, Reading
    <3> QED BY <1>5, <2>1, <3>1 DEF WorkerFits
  <2>2. CASE act[p].task = "ocr"
    <3>1. OcrStage("reading", act[p].shield, act[p].outcome, act[p].alone, act[p].before, r)
      BY <1>1, <1>3, <1>5, <2>2, AtPlace DEF OcrStage, Listed, Reading
    <3> QED BY <1>5, <2>2, <3>1 DEF WorkerFits
  <2> QED BY <1>1, <1>5, <2>1, <2>2, AtPlace
<1> QED BY <1>1, <1>4, <1>5, AtPlace, Went

\* The deleted test and the low-text return of index_document: an import that recognised text has some.
LEMMA ReadKeeps ==
  ASSUME DocInv, NEW p \in Threads, ReadDocument(p)
  PROVE  Sound
<1> DEFINE old == doc[D(p)]
<1>1. At(p, {"reading"}) /\ "reading" \in IndexPlaces /\ UNCHANGED doc
  BY DEF ReadDocument, IndexPlaces, Reading
<1>2. /\ act[p] # NoWork /\ UNCHANGED up /\ old \in DocRows /\ act[p].at \in IndexPlaces
      /\ p = "worker" => act[p].task \in {"import", "ocr"}
  BY <1>1, AtPlace
<1>3. KeepsRow(p, old)
  BY <1>1, <1>2, SameKept
<1>4. ASSUME p = "worker", act[p].task = "import" PROVE ImportStage("reading", act[p].text, act[p].shield, act[p].outcome, old)
  BY <1>1, <1>4, AtPlace
<1>5. ASSUME p = "worker", act[p].task = "ocr"
      PROVE  OcrStage("reading", act[p].shield, act[p].outcome, act[p].alone, act[p].before, old)
  BY <1>1, <1>5, AtPlace
<1> HIDE DEF old
<1>6. CASE Raise(p, "failed")
  <2>1. ASSUME p = "worker"
        PROVE  WorkerFits(IF act[p].task = "import" THEN "undoing" ELSE "restoring", act[p].text, FALSE, "failed", old)
    <3>1. act[p].task = "import" => ImportStage("undoing", act[p].text, FALSE, "failed", old)
      BY <1>4, <2>1 DEF ImportStage, Staged, Reading
    <3>2. act[p].task = "ocr" => OcrStage("restoring", FALSE, "failed", act[p].alone, act[p].before, old)
      BY <1>5, <2>1 DEF OcrStage, Reading
    <3> QED BY <1>2, <2>1, <3>1, <3>2 DEF WorkerFits
  <2>2. "failed" \in {"failed", "cancelled"}
    OBVIOUS
  <2> QED BY <1>2, <1>3, <1>6, <2>1, <2>2, Raised
<1>7. CASE (old.low \/ old.index = "low_text") /\ act[p].shield /\ Go(p, "ocr_marking")
  <2>1. ASSUME p = "worker" PROVE WorkerFits("ocr_marking", act[p].text, act[p].shield, act[p].outcome, old)
    <3>1. act[p].task # "import"
      BY <1>4, <1>7, <2>1 DEF ImportStage
    <3>2. OcrStage("ocr_marking", act[p].shield, act[p].outcome, act[p].alone, act[p].before, old)
      BY <1>2, <1>5, <2>1, <3>1 DEF OcrStage, Reading
    <3> QED BY <1>2, <2>1, <3>1, <3>2 DEF WorkerFits
  <2>2. "ocr_marking" \in Places /\ "ocr_marking" # "idle"
    BY DEF Places
  <2> QED BY <1>2, <1>3, <1>7, <2>1, <2>2, Went
<1>8. CASE (old.low \/ old.index = "low_text") /\ ~act[p].shield /\ AfterIndex(p)
  <2>1. p = "worker" /\ act[p].task = "import" => ImportStage("committing", act[p].text, act[p].shield, act[p].outcome, old)
    BY <1>4, <1>8 DEF ImportStage, Staged, Reading
  <2>2. p = "worker" /\ act[p].task = "ocr" => Listed(old)
    BY <1>5 DEF OcrStage
  <2> QED BY <1>2, <1>3, <1>8, <2>1, <2>2, Indexed
<1>9. CASE ~old.low /\ old.index # "low_text" /\ Go(p, "marking")
  <2>1. ASSUME p = "worker" PROVE WorkerFits("marking", act[p].text, act[p].shield, act[p].outcome, old)
    <3>1. act[p].task = "import" => ImportStage("marking", act[p].text, act[p].shield, act[p].outcome, old)
      BY <1>4, <1>9, <2>1 DEF ImportStage, Staged, Reading
    <3>2. act[p].task = "ocr" => OcrStage("marking", act[p].shield, act[p].outcome, act[p].alone, act[p].before, old)
      BY <1>5, <2>1 DEF OcrStage, Reading
    <3> QED BY <1>2, <2>1, <3>1, <3>2 DEF WorkerFits
  <2>2. "marking" \in Places /\ "marking" # "idle"
    BY DEF Places
  <2> QED BY <1>2, <1>3, <1>9, <2>1, <2>2, Went
<1> QED BY <1>6, <1>7, <1>8, <1>9 DEF ReadDocument, old

\* The pages read are those the chunks are made of.
LEMMA StartIndexKeeps ==
  ASSUME DocInv, NEW p \in Threads, StartIndex(p)
  PROVE  Sound
<1> DEFINE old == doc[D(p)]
           r == [old EXCEPT !.index = "indexing"]
<1>1. At(p, {"marking"}) /\ "marking" \in IndexPlaces /\ "embedding" \in Places /\ "embedding" # "idle"
  BY DEF StartIndex, IndexPlaces, Reading, Places
<1>2. old \in DocRows /\ old.row = "present" /\ act[p] \in Works /\ old.pages \in Texts /\ act[p].shield \in BOOLEAN
  BY <1>1, AtPlace DEF DocRows, Works
<1>3. /\ r \in DocRows /\ r.low = old.low /\ r.index = "indexing" /\ r.pages = old.pages /\ Kept(old, r) /\ r.row = "present"
      /\ r.staging = old.staging
  BY <1>2 DEF DocRows, Kept
<1>4. KeepsRow(p, r)
  BY <1>3 DEF KeepsRow, StartIndex, Write
<1>5. act' = [act EXCEPT ![p] = [act[p] EXCEPT !.at = "embedding", !.text = old.pages, !.shield = act[p].shield]]
  <2>1. [act[p] EXCEPT !.at = "embedding", !.text = old.pages]
          = [act[p] EXCEPT !.at = "embedding", !.text = old.pages, !.shield = act[p].shield]
    BY <1>2 DEF Works
  <2>2. act' = [act EXCEPT ![p] = [act[p] EXCEPT !.at = "embedding", !.text = old.pages]]
    BY DEF StartIndex
  <2> QED BY <2>1, <2>2
<1> HIDE DEF r
<1>6. ASSUME p = "worker" PROVE WorkerFits("embedding", old.pages, act[p].shield, act[p].outcome, r)
  <2>1. ASSUME act[p].task = "import" PROVE ImportStage("embedding", old.pages, act[p].shield, act[p].outcome, r)
    <3>1. ImportStage("marking", act[p].text, act[p].shield, act[p].outcome, old)
      BY <1>1, <1>6, <2>1, AtPlace
    <3> HIDE DEF old
    <3>2. act[p].shield => old.pages = "full"
      BY <3>1 DEF ImportStage
    <3>3. ~old.low /\ old.staging
      BY <3>1 DEF ImportStage, Staged, Reading
    <3> QED BY <1>3, <3>2, <3>3 DEF ImportStage, Staged, Reading
  <2>2. ASSUME act[p].task = "ocr" PROVE OcrStage("embedding", act[p].shield, act[p].outcome, act[p].alone, act[p].before, r)
    BY <1>1, <1>3, <1>6, <2>2, AtPlace DEF OcrStage, Listed, Reading
  <2> QED BY <1>1, <1>6, <2>1, <2>2, AtPlace DEF WorkerFits
<1> QED BY <1>1, <1>2, <1>4, <1>5, <1>6, AtPlace, Turned

\* A document of which nothing can be indexed is marked as one without text.
LEMMA NothingKeeps ==
  ASSUME DocInv, NEW p \in Threads, NothingToIndex(p)
  PROVE  Sound
<1> DEFINE old == doc[D(p)]
           r == [old EXCEPT !.index = "low_text", !.low = TRUE, !.ocr = "needed"]
<1>1. At(p, {"embedding"}) /\ "embedding" \in IndexPlaces /\ "ocr_marking" \in Places /\ "ocr_marking" # "idle"
  BY DEF NothingToIndex, IndexPlaces, Reading, Places
<1>2. old \in DocRows /\ old.row = "present" /\ act[p].text = "scanned"
  BY <1>1, AtPlace DEF NothingToIndex
<1>3. r \in DocRows /\ r.index = "low_text" /\ Kept(old, r) /\ r.row = "present" /\ r.staging = old.staging
  BY <1>2 DEF DocRows, Kept
<1>4. KeepsRow(p, r)
  BY <1>3 DEF KeepsRow, NothingToIndex, Write
<1> HIDE DEF r
<1>5. ASSUME p = "worker", act[p].task = "import"
      PROVE  ~act[p].shield /\ ImportStage("committing", act[p].text, act[p].shield, act[p].outcome, r)
  <2>1. ImportStage("embedding", act[p].text, act[p].shield, act[p].outcome, old)
    BY <1>1, <1>5, AtPlace
  <2> HIDE DEF old
  <2>2. ~act[p].shield /\ old.staging
    BY <1>2, <2>1 DEF ImportStage, Staged, Reading
  <2> QED BY <1>3, <2>2 DEF ImportStage, Staged, Reading
<1>6. ASSUME p = "worker", act[p].task = "ocr"
      PROVE  Listed(r) /\ OcrStage("ocr_marking", act[p].shield, act[p].outcome, act[p].alone, act[p].before, r)
  BY <1>1, <1>3, <1>6, AtPlace DEF OcrStage, Listed, Reading
<1>7. CASE act[p].shield /\ Go(p, "ocr_marking")
  <2>1. ASSUME p = "worker" PROVE WorkerFits("ocr_marking", act[p].text, act[p].shield, act[p].outcome, r)
    BY <1>1, <1>5, <1>6, <1>7, <2>1, AtPlace DEF WorkerFits
  <2> QED BY <1>1, <1>4, <1>7, <2>1, AtPlace, Went
<1>8. CASE AfterIndex(p)
  BY <1>1, <1>4, <1>5, <1>6, <1>8, AtPlace, Indexed
<1> QED BY <1>7, <1>8 DEF NothingToIndex

\* The embedding may be cancelled, unless OCR has shielded it, or fail.
LEMMA EmbedKeeps ==
  ASSUME DocInv, NEW p \in Threads, Embed(p)
  PROVE  Sound
<1> DEFINE old == doc[D(p)]
<1>1. At(p, {"embedding"}) /\ "embedding" \in IndexPlaces /\ "embedded" \in Places /\ "embedded" # "idle" /\ UNCHANGED doc
  BY DEF Embed, Cancelled, IndexPlaces, Reading, Places
<1>2. KeepsRow(p, old)
  BY <1>1, AtPlace, SameKept
<1>3. CASE Go(p, "embedded")
  <2>1. ASSUME p = "worker" PROVE WorkerFits("embedded", act[p].text, act[p].shield, act[p].outcome, old)
    <3>1. ASSUME act[p].task = "import" PROVE ImportStage("embedded", act[p].text, act[p].shield, act[p].outcome, old)
      BY <1>1, <2>1, <3>1, AtPlace DEF ImportStage, Staged, Reading
    <3>2. ASSUME act[p].task = "ocr" PROVE OcrStage("embedded", act[p].shield, act[p].outcome, act[p].alone, act[p].before, old)
      BY <1>1, <2>1, <3>2, AtPlace DEF OcrStage, Reading
    <3> QED BY <1>1, <2>1, <3>1, <3>2, AtPlace DEF WorkerFits
  <2> QED BY <1>1, <1>2, <1>3, <2>1, AtPlace, Went
<1>4. ASSUME NEW outcome \in {"failed", "cancelled"}, Raise(p, outcome), outcome = "cancelled" => CancelSeen(p)
      PROVE  Sound
  <2>1. ASSUME p = "worker"
        PROVE  WorkerFits(IF act[p].task = "import" THEN "undoing" ELSE "restoring", act[p].text, FALSE, outcome, old)
    <3>1. ASSUME act[p].task = "import" PROVE ImportStage("undoing", act[p].text, FALSE, outcome, old)
      BY <1>1, <2>1, <3>1, AtPlace DEF ImportStage, Staged, Reading
    <3>2. ASSUME act[p].task = "ocr" PROVE OcrStage("restoring", FALSE, outcome, act[p].alone, act[p].before, old)
      <4>1. act[p].shield /\ Listed(old)
        BY <1>1, <2>1, <3>2, AtPlace DEF OcrStage, Reading
      <4>2. outcome # "cancelled"
        BY <1>4, <4>1 DEF CancelSeen
      <4> QED BY <4>1, <4>2 DEF OcrStage, Reading
    <3> QED BY <1>1, <2>1, <3>1, <3>2, AtPlace DEF WorkerFits
  <2> QED BY <1>1, <1>2, <1>4, <2>1, AtPlace, Raised
<1> QED BY <1>3, <1>4 DEF Embed, Cancelled

\* Between the two transactions of reindex_document a document has no chunks.
LEMMA ClearKeeps ==
  ASSUME DocInv, NEW p \in Threads, ClearChunks(p)
  PROVE  Sound
<1> DEFINE old == doc[D(p)]
           r == [old EXCEPT !.chunks = "none"]
<1>1. At(p, {"embedded"}) /\ "embedded" \in IndexPlaces /\ "cleared" \in Places /\ "cleared" # "idle" /\ Go(p, "cleared")
  BY DEF ClearChunks, IndexPlaces, Reading, Places
<1>2. old \in DocRows /\ old.row = "present" /\ "none" \in Texts
  BY <1>1, AtPlace DEF Texts
<1>3. /\ r \in DocRows /\ r.low = old.low /\ r.index = old.index /\ r.pages = old.pages /\ Kept(old, r) /\ r.row = "present"
      /\ r.staging = old.staging
  BY <1>2 DEF DocRows, Kept
<1>4. KeepsRow(p, r)
  BY <1>3 DEF KeepsRow, ClearChunks
<1> HIDE DEF r
<1>5. ASSUME p = "worker", act[p].task = "import"
      PROVE  ImportStage("cleared", act[p].text, act[p].shield, act[p].outcome, r)
  BY <1>1, <1>3, <1>5, AtPlace DEF ImportStage, Staged, Reading
<1>6. ASSUME p = "worker", act[p].task = "ocr"
      PROVE  OcrStage("cleared", act[p].shield, act[p].outcome, act[p].alone, act[p].before, r)
  BY <1>1, <1>3, <1>6, AtPlace DEF OcrStage, Listed, Reading
<1>7. p = "worker" => WorkerFits("cleared", act[p].text, act[p].shield, act[p].outcome, r)
  BY <1>1, <1>5, <1>6, AtPlace DEF WorkerFits
<1> QED BY <1>1, <1>4, <1>7, AtPlace, Went

\* The chunks that come in are those of the text read, which in an import is still that of the pages.
LEMMA InsertKeeps ==
  ASSUME DocInv, NEW p \in Threads, InsertChunks(p)
  PROVE  Sound
<1> DEFINE old == doc[D(p)]
           text == act[p].text
           r == [old EXCEPT !.chunks = text]
<1>1. At(p, {"cleared"}) /\ "cleared" \in IndexPlaces /\ "chunked" \in Places /\ "chunked" # "idle" /\ "none" \in Texts
  BY DEF InsertChunks, IndexPlaces, Reading, Places, Texts
<1>2. old \in DocRows /\ old.row = "present" /\ act[p] \in Works /\ text \in Texts /\ act[p].shield \in BOOLEAN
  BY <1>1, AtPlace DEF Works
<1>3. /\ r \in DocRows /\ r.low = old.low /\ r.index = old.index /\ r.pages = old.pages /\ r.chunks = text
      /\ Kept(old, r) /\ r.row = "present" /\ r.staging = old.staging
  BY <1>2 DEF DocRows, Kept
<1>4. KeepsRow(p, r)
  BY <1>3 DEF KeepsRow, InsertChunks
<1>5. act' = [act EXCEPT ![p] = [act[p] EXCEPT !.at = "chunked", !.text = "none", !.shield = act[p].shield]]
  <2>1. [act[p] EXCEPT !.at = "chunked", !.text = "none"]
          = [act[p] EXCEPT !.at = "chunked", !.text = "none", !.shield = act[p].shield]
    BY <1>2 DEF Works
  <2>2. act' = [act EXCEPT ![p] = [act[p] EXCEPT !.at = "chunked", !.text = "none"]]
    BY DEF InsertChunks
  <2> QED BY <2>1, <2>2
<1> HIDE DEF r
<1>6. ASSUME p = "worker", act[p].task = "import"
      PROVE  ImportStage("chunked", "none", act[p].shield, act[p].outcome, r)
  BY <1>1, <1>3, <1>6, AtPlace DEF ImportStage, Staged, Reading
<1>7. ASSUME p = "worker", act[p].task = "ocr"
      PROVE  OcrStage("chunked", act[p].shield, act[p].outcome, act[p].alone, act[p].before, r)
  BY <1>1, <1>3, <1>7, AtPlace DEF OcrStage, Listed, Reading
<1>8. p = "worker" => WorkerFits("chunked", "none", act[p].shield, act[p].outcome, r)
  BY <1>1, <1>6, <1>7, AtPlace DEF WorkerFits
<1> QED BY <1>1, <1>2, <1>4, <1>5, <1>8, AtPlace, Turned

\* An import with its chunks in is ready to be listed.
LEMMA MarkKeeps ==
  ASSUME DocInv, NEW p \in Threads, MarkIndexed(p)
  PROVE  Sound
<1> DEFINE old == doc[D(p)]
           r == [old EXCEPT !.index = "indexed"]
<1>1. At(p, {"chunked"}) /\ "chunked" \in IndexPlaces /\ "ocr_marking" \in Places /\ "ocr_marking" # "idle"
  BY DEF MarkIndexed, IndexPlaces, Reading, Places
<1>2. old \in DocRows /\ old.row = "present"
  BY <1>1, AtPlace
<1>3. /\ r \in DocRows /\ r.low = old.low /\ r.index = "indexed" /\ r.pages = old.pages /\ r.chunks = old.chunks
      /\ Kept(old, r) /\ r.row = "present" /\ r.staging = old.staging
  BY <1>2 DEF DocRows, Kept
<1>4. KeepsRow(p, r)
  BY <1>3 DEF KeepsRow, MarkIndexed, Write
<1> HIDE DEF r
<1>5. ASSUME p = "worker", act[p].task = "import"
      PROVE  /\ ImportStage("ocr_marking", act[p].text, act[p].shield, act[p].outcome, r)
             /\ ~act[p].shield => ImportStage("committing", act[p].text, act[p].shield, act[p].outcome, r)
  BY <1>1, <1>3, <1>5, AtPlace DEF ImportStage, Staged, Reading
<1>6. ASSUME p = "worker", act[p].task = "ocr"
      PROVE  Listed(r) /\ OcrStage("ocr_marking", act[p].shield, act[p].outcome, act[p].alone, act[p].before, r)
  BY <1>1, <1>3, <1>6, AtPlace DEF OcrStage, Listed, Reading
<1>7. CASE act[p].shield /\ Go(p, "ocr_marking")
  <2>1. p = "worker" => WorkerFits("ocr_marking", act[p].text, act[p].shield, act[p].outcome, r)
    BY <1>1, <1>5, <1>6, AtPlace DEF WorkerFits
  <2> QED BY <1>1, <1>4, <1>7, <2>1, AtPlace, Went
<1>8. CASE ~act[p].shield /\ AfterIndex(p)
  BY <1>1, <1>4, <1>5, <1>6, <1>8, AtPlace, Indexed
<1> QED BY <1>7, <1>8 DEF MarkIndexed

\* The shield is lowered with the last write of OCR.
LEMMA MarkOcrKeeps ==
  ASSUME DocInv, NEW p \in Threads, MarkOcrIndexed(p)
  PROVE  Sound
<1> DEFINE old == doc[D(p)]
           r == [old EXCEPT !.index = "indexed", !.low = FALSE, !.ocr = "indexed"]
<1>1. At(p, {"ocr_marking"}) /\ "ocr_marking" \in IndexPlaces /\ "committing" \in Places /\ "committing" # "idle"
  BY DEF MarkOcrIndexed, IndexPlaces, Reading, Places
<1>2. old \in DocRows /\ old.row = "present" /\ act[p] \in Works /\ act[p].text \in Texts
  BY <1>1, AtPlace DEF Works
<1>3. /\ r \in DocRows /\ ~r.low /\ r.index = "indexed" /\ r.pages = old.pages /\ r.chunks = old.chunks
      /\ Kept(old, r) /\ r.row = "present" /\ r.staging = old.staging
  BY <1>2 DEF DocRows, Kept
<1>4. KeepsRow(p, r)
  BY <1>3 DEF KeepsRow, MarkOcrIndexed, Write
<1> HIDE DEF r
<1>5. CASE act[p].task = "import"
  <2>1. act' = [act EXCEPT ![p] = [act[p] EXCEPT !.at = "committing", !.text = act[p].text, !.shield = FALSE]]
    <3>1. [act[p] EXCEPT !.at = "committing", !.shield = FALSE]
            = [act[p] EXCEPT !.at = "committing", !.text = act[p].text, !.shield = FALSE]
      BY <1>2 DEF Works
    <3>2. act' = [act EXCEPT ![p] = [act[p] EXCEPT !.at = "committing", !.shield = FALSE]]
      BY <1>5 DEF MarkOcrIndexed
    <3> QED BY <3>1, <3>2
  <2>2. ASSUME p = "worker" PROVE WorkerFits("committing", act[p].text, FALSE, act[p].outcome, r)
    <3>1. ImportStage("committing", act[p].text, FALSE, act[p].outcome, r)
      BY <1>1, <1>3, <1>5, <2>2, AtPlace DEF ImportStage, Staged, Reading
    <3> QED BY <1>5, <2>2, <3>1 DEF WorkerFits
  <2> QED BY <1>1, <1>2, <1>4, <2>1, <2>2, AtPlace, Turned
<1>6. CASE act[p].task # "import"
  <2>1. Finish(p, "completed") /\ "completed" \in {"completed", "failed", "cancelled"}
    BY <1>6 DEF MarkOcrIndexed
  <2>2. ASSUME p = "worker" PROVE WorkerFits("settled", "none", act[p].shield, "completed", r)
    <3>1. act[p].task = "ocr" /\ Listed(r)
      BY <1>1, <1>3, <1>6, <2>2, AtPlace DEF OcrStage, Listed
    <3>2. OcrStage("settled", act[p].shield, "completed", act[p].alone, act[p].before, r)
      BY <3>1 DEF OcrStage, Reading
    <3> QED BY <2>2, <3>1, <3>2 DEF WorkerFits
  <2> QED BY <1>1, <1>4, <2>1, <2>2, AtPlace, Ended
<1> QED BY <1>5, <1>6

\* A step of OCR or indexing keeps the invariant, on either thread.
LEMMA IndexKeeps ==
  ASSUME DocInv, NEW p \in Threads, IndexStep(p)
  PROVE  Sound
BY ChooseKeeps, OcrStartsKeeps, RenderingKeeps, FindsTextKeeps, ReplaceKeeps, ReadKeeps, StartIndexKeeps, NothingKeeps,
   EmbedKeeps, ClearKeeps, InsertKeeps, MarkKeeps, MarkOcrKeeps DEF IndexStep

----------------------------------------------------------------------------
(* The steps of the job around its indexing. *)

Outcomes == {"none", "completed", "failed", "cancelled"}

\* The worker's job with what its steps write.
Job(at, text, cancel, shield, outcome) ==
  [act["worker"] EXCEPT !.at = at, !.text = text, !.cancel = cancel, !.shield = shield, !.outcome = outcome]

\* A step of the job leaves it fitting its document, which is listed only when it is settled.
LEMMA WorkerMoved ==
  ASSUME DocInv, UNCHANGED up, act["worker"] # NoWork,
         NEW at \in Places, at # "idle", NEW text \in Texts, NEW cancel \in BOOLEAN, NEW shield \in BOOLEAN,
         NEW outcome \in Outcomes, act' = [act EXCEPT !["worker"] = Job(at, text, cancel, shield, outcome)],
         NEW r \in DocRows, doc' = [doc EXCEPT ![D("worker")] = r],
         WorkerFits(at, text, shield, outcome, r), r.row = "absent" => ~r.low,
         Listed(doc[D("worker")]) => Kept(doc[D("worker")], r),
         ~Listed(doc[D("worker")]) /\ Listed(r) => r.index = "low_text" \/ (r.index = "indexed" /\ r.chunks = r.pages)
  PROVE  Sound
<1> DEFINE w == Job(at, text, cancel, shield, outcome)
<1>1. "worker" \in Threads /\ act["worker"] \in Works /\ act["worker"].doc = D("worker")
  BY AtWork DEF Threads
<1>2. /\ w \in Works /\ w.at = at /\ w.text = text /\ w.shield = shield /\ w.outcome = outcome
      /\ w.doc = act["worker"].doc /\ w.task = act["worker"].task /\ w.alone = act["worker"].alone
      /\ w.before = act["worker"].before
  BY <1>1 DEF Works, Job, Outcomes
<1>3. act' = [act EXCEPT !["worker"] = w]
  OBVIOUS
<1> HIDE DEF w
<1>4. Stage("worker", w, r)
  BY <1>2 DEF WorkerFits, Stage
<1>5. Fair("worker", w, r)
  BY <1>1, <1>2, <1>4 DEF Fair
<1> QED BY <1>1, <1>2, <1>3, <1>5, Moved

\* What the worker's steps do to its job.
LEMMA JobForms ==
  ASSUME DocInv, act["worker"] # NoWork
  PROVE  LET w == act["worker"]
         IN /\ w.text \in Texts /\ w.cancel \in BOOLEAN /\ w.shield \in BOOLEAN /\ w.outcome \in Outcomes
            /\ \A place : Go("worker", place) =>
                 act' = [act EXCEPT !["worker"] = Job(place, w.text, w.cancel, w.shield, w.outcome)]
            /\ \A outcome : Finish("worker", outcome) =>
                 act' = [act EXCEPT !["worker"] = Job("settled", "none", w.cancel, w.shield, outcome)]
            /\ \A outcome : Raise("worker", outcome) =>
                 act' = [act EXCEPT !["worker"] =
                           Job(IF w.task = "import" THEN "undoing" ELSE "restoring", w.text, w.cancel, FALSE, outcome)]
<1> DEFINE w == act["worker"]
<1>1. w \in Works
  BY AtWork DEF Threads
<1>2. w.text \in Texts /\ w.cancel \in BOOLEAN /\ w.shield \in BOOLEAN /\ w.outcome \in Outcomes
  BY <1>1 DEF Works, Outcomes
<1>3. ASSUME NEW place
      PROVE  [w EXCEPT !.at = place] = Job(place, w.text, w.cancel, w.shield, w.outcome)
  BY <1>1 DEF Works, Job
<1>4. ASSUME NEW outcome
      PROVE  [w EXCEPT !.at = "settled", !.outcome = outcome, !.text = "none"]
               = Job("settled", "none", w.cancel, w.shield, outcome)
  BY <1>1 DEF Works, Job
<1>5. ASSUME NEW outcome, NEW place
      PROVE  [w EXCEPT !.at = place, !.outcome = outcome, !.shield = FALSE]
               = Job(place, w.text, w.cancel, FALSE, outcome)
  BY <1>1 DEF Works, Job
<1>6. ASSUME NEW place, Go("worker", place)
      PROVE  act' = [act EXCEPT !["worker"] = Job(place, w.text, w.cancel, w.shield, w.outcome)]
  BY <1>3, <1>6 DEF Go
<1>7. ASSUME NEW outcome, Finish("worker", outcome)
      PROVE  act' = [act EXCEPT !["worker"] = Job("settled", "none", w.cancel, w.shield, outcome)]
  BY <1>4, <1>7 DEF Finish
<1>8. ASSUME NEW outcome, Raise("worker", outcome)
      PROVE  act' = [act EXCEPT !["worker"] =
                       Job(IF w.task = "import" THEN "undoing" ELSE "restoring", w.text, w.cancel, FALSE, outcome)]
  BY <1>5, <1>8 DEF Raise
<1> QED BY <1>2, <1>6, <1>7, <1>8

\* What is known of the job at one of its places.
LEMMA AtJob ==
  ASSUME DocInv, NEW place, place # "idle", At("worker", {place})
  PROVE  /\ act["worker"] # NoWork /\ up /\ UNCHANGED up /\ act["worker"].at = place
         /\ doc[D("worker")] \in DocRows /\ act["worker"].before \in DocRows
         /\ WorkerFits(place, act["worker"].text, act["worker"].shield, act["worker"].outcome, doc[D("worker")])
<1>1. "idle" \notin {place} /\ "worker" \in Threads
  BY DEF Threads
<1>2. act["worker"] # NoWork /\ up /\ UNCHANGED up /\ act["worker"].at = place
  BY <1>1, Placed
<1>3. act["worker"] \in Works /\ doc[D("worker")] \in DocRows /\ Stage("worker", act["worker"], doc[D("worker")])
  BY <1>1, <1>2, AtWork
<1> QED BY <1>2, <1>3 DEF Works, Stage, WorkerFits

\* An import cancelled before its file is copied has made nothing.
LEMMA CopyKeeps ==
  ASSUME DocInv, CopyFile
  PROVE  Sound
<1> DEFINE old == doc[D("worker")]
           w == act["worker"]
<1>1. At("worker", {"copying"}) /\ "copying" # "idle"
  BY DEF CopyFile
<1>2. act["worker"] # NoWork /\ UNCHANGED up /\ old \in DocRows /\ w.task = "import"
      /\ ImportStage("copying", w.text, w.shield, w.outcome, old)
  BY <1>1, AtJob DEF WorkerFits, OcrStage, Reading
<1>3. old.row = "absent" /\ ~old.low /\ ~w.shield /\ ~old.file /\ ~Listed(old)
  BY <1>2 DEF ImportStage, Listed
<1>4. doc \in [Docs -> DocRows]
  BY DEF DocInv, DocTypeOK
<1>5. CASE Finish("worker", "cancelled") /\ UNCHANGED doc
  <2>1. act' = [act EXCEPT !["worker"] = Job("settled", "none", w.cancel, w.shield, "cancelled")]
        /\ w.cancel \in BOOLEAN /\ w.shield \in BOOLEAN
    BY <1>2, <1>5, JobForms
  <2>2. "settled" \in Places /\ "none" \in Texts /\ "cancelled" \in Outcomes /\ "settled" # "idle"
    BY DEF Places, Texts, Outcomes
  <2>3. doc' = [doc EXCEPT ![D("worker")] = old]
    BY <1>4, <1>5
  <2>4. WorkerFits("settled", "none", w.shield, "cancelled", old)
    BY <1>2, <1>3 DEF WorkerFits, ImportStage, Staged, Reading
  <2> HIDE DEF old, w
  <2> QED BY <1>2, <1>3, <2>1, <2>2, <2>3, <2>4, WorkerMoved DEF old, w
<1>6. CASE Go("worker", "inserting") /\ doc' = [doc EXCEPT ![D("worker")].file = TRUE]
  <2> DEFINE r == [old EXCEPT !.file = TRUE]
  <2>1. act' = [act EXCEPT !["worker"] = Job("inserting", w.text, w.cancel, w.shield, w.outcome)]
        /\ w.text \in Texts /\ w.cancel \in BOOLEAN /\ w.shield \in BOOLEAN /\ w.outcome \in Outcomes
    BY <1>2, <1>6, JobForms
  <2>2. "inserting" \in Places /\ "inserting" # "idle"
    BY DEF Places
  <2>3. doc' = [doc EXCEPT ![D("worker")] = r]
    BY <1>4, <1>6
  <2>4. r \in DocRows /\ r.row = "absent" /\ ~r.low
    BY <1>2, <1>3 DEF DocRows
  <2> HIDE DEF r
  <2>5. WorkerFits("inserting", w.text, w.shield, w.outcome, r)
    BY <1>2, <1>3, <2>4 DEF WorkerFits, ImportStage, Staged, Reading
  <2>6. ~Listed(r)
    BY <2>4 DEF Listed
  <2> QED BY <1>2, <1>3, <2>1, <2>2, <2>3, <2>4, <2>5, <2>6, WorkerMoved
<1> QED BY <1>5, <1>6 DEF CopyFile

\* The row is hidden from the first moment on.
LEMMA InsertRowKeeps ==
  ASSUME DocInv, InsertRow
  PROVE  Sound
<1> DEFINE old == doc[D("worker")]
           w == act["worker"]
           r == [old EXCEPT !.row = "present", !.staging = TRUE]
<1>1. At("worker", {"inserting"}) /\ "inserting" # "idle" /\ Go("worker", "extracting")
  BY DEF InsertRow
<1>2. act["worker"] # NoWork /\ UNCHANGED up /\ old \in DocRows /\ w.task = "import"
      /\ ImportStage("inserting", w.text, w.shield, w.outcome, old)
  BY <1>1, AtJob DEF WorkerFits, OcrStage, Reading
<1>3. old.row = "absent" /\ ~old.low /\ ~w.shield /\ ~Listed(old)
  BY <1>2 DEF ImportStage, Listed
<1>4. act' = [act EXCEPT !["worker"] = Job("extracting", w.text, w.cancel, w.shield, w.outcome)]
      /\ w.text \in Texts /\ w.cancel \in BOOLEAN /\ w.shield \in BOOLEAN /\ w.outcome \in Outcomes
  BY <1>1, <1>2, JobForms
<1>5. "extracting" \in Places /\ "extracting" # "idle"
  BY DEF Places
<1>6. doc' = [doc EXCEPT ![D("worker")] = r]
  BY DEF InsertRow, Write
<1>7. r \in DocRows /\ r.row = "present" /\ r.staging /\ ~r.low
  BY <1>2, <1>3 DEF DocRows
<1> HIDE DEF r
<1>8. WorkerFits("extracting", w.text, w.shield, w.outcome, r) /\ ~Listed(r)
  BY <1>2, <1>3, <1>7 DEF WorkerFits, ImportStage, Staged, Reading, Listed
<1> QED BY <1>2, <1>3, <1>4, <1>5, <1>6, <1>7, <1>8, WorkerMoved

\* A document read without any text is marked as such at once.
LEMMA ExtractKeeps ==
  ASSUME DocInv, NEW text \in Texts \ {"none"}, Extract(text)
  PROVE  Sound
<1> DEFINE old == doc[D("worker")]
           w == act["worker"]
           read == [old EXCEPT !.pages = text]
           r == IF text # "scanned" THEN read ELSE [read EXCEPT !.index = "low_text", !.low = TRUE, !.ocr = "needed"]
<1>1. At("worker", {"extracting"}) /\ "extracting" # "idle" /\ Go("worker", "choosing")
  BY DEF Extract
<1>2. act["worker"] # NoWork /\ UNCHANGED up /\ old \in DocRows /\ w.task = "import"
      /\ ImportStage("extracting", w.text, w.shield, w.outcome, old)
  BY <1>1, AtJob DEF WorkerFits, OcrStage, Reading
<1>3. /\ old.row = "present" /\ old.staging /\ (old.low => old.index = "low_text") /\ ~w.shield /\ ~Listed(old)
  BY <1>2 DEF ImportStage, Listed, Staged
<1>4. act' = [act EXCEPT !["worker"] = Job("choosing", w.text, w.cancel, w.shield, w.outcome)]
      /\ w.text \in Texts /\ w.cancel \in BOOLEAN /\ w.shield \in BOOLEAN /\ w.outcome \in Outcomes
  BY <1>1, <1>2, JobForms
<1>5. "choosing" \in Places /\ "choosing" # "idle"
  BY DEF Places
<1>6. doc' = [doc EXCEPT ![D("worker")] = r]
  BY DEF Extract, Write
<1>7. r \in DocRows /\ r.row = "present" /\ r.staging /\ (r.low => r.index = "low_text")
  BY <1>2, <1>3 DEF DocRows
<1> HIDE DEF r
<1>8. WorkerFits("choosing", w.text, w.shield, w.outcome, r) /\ ~Listed(r)
  BY <1>2, <1>3, <1>7 DEF WorkerFits, ImportStage, Staged, Reading, Listed
<1> QED BY <1>2, <1>3, <1>4, <1>5, <1>6, <1>7, <1>8, WorkerMoved

\* A failed extraction leaves a hidden row for the repair at startup.
LEMMA ExtractFailsKeeps ==
  ASSUME DocInv, ExtractFails
  PROVE  Sound
<1> DEFINE old == doc[D("worker")]
           w == act["worker"]
           r == [old EXCEPT !.index = "error"]
<1>1. At("worker", {"extracting"}) /\ "extracting" # "idle" /\ Finish("worker", "failed")
  BY DEF ExtractFails
<1>2. act["worker"] # NoWork /\ UNCHANGED up /\ old \in DocRows /\ w.task = "import"
      /\ ImportStage("extracting", w.text, w.shield, w.outcome, old)
  BY <1>1, AtJob DEF WorkerFits, OcrStage, Reading
<1>3. old.row = "present" /\ old.staging /\ ~Listed(old)
  BY <1>2 DEF ImportStage, Listed, Staged
<1>4. act' = [act EXCEPT !["worker"] = Job("settled", "none", w.cancel, w.shield, "failed")]
      /\ w.cancel \in BOOLEAN /\ w.shield \in BOOLEAN
  BY <1>1, <1>2, JobForms
<1>5. "settled" \in Places /\ "settled" # "idle" /\ "none" \in Texts /\ "failed" \in Outcomes
  BY DEF Places, Texts, Outcomes
<1>6. doc' = [doc EXCEPT ![D("worker")] = r]
  BY DEF ExtractFails, Write
<1>7. r \in DocRows /\ r.row = "present" /\ r.staging
  BY <1>2, <1>3 DEF DocRows
<1> HIDE DEF r
<1>8. WorkerFits("settled", "none", w.shield, "failed", r) /\ ~Listed(r)
  BY <1>2, <1>7 DEF WorkerFits, ImportStage, Staged, Reading, Listed
<1> QED BY <1>2, <1>3, <1>4, <1>5, <1>6, <1>7, <1>8, WorkerMoved

\* The commit: what is listed from now on is settled.  A cancel seen at the last test is rolled back.
LEMMA CommitKeeps ==
  ASSUME DocInv, CommitImport
  PROVE  Sound
<1> DEFINE old == doc[D("worker")]
           w == act["worker"]
<1>1. At("worker", {"committing"}) /\ "committing" # "idle"
  BY DEF CommitImport
<1>2. act["worker"] # NoWork /\ UNCHANGED up /\ old \in DocRows /\ w.task = "import"
      /\ ImportStage("committing", w.text, w.shield, w.outcome, old)
  BY <1>1, AtJob DEF WorkerFits, OcrStage, Reading
<1>3. /\ old.row = "present" /\ old.staging /\ ~w.shield /\ ~Listed(old)
      /\ old.index = "low_text" \/ (old.index = "indexed" /\ old.chunks = old.pages)
      /\ old.low => old.index = "low_text"
  BY <1>2 DEF ImportStage, Listed, Staged
<1>4. doc \in [Docs -> DocRows]
  BY DEF DocInv, DocTypeOK
<1>5. CASE Cancelled("worker")
  <2>1. act' = [act EXCEPT !["worker"] = Job("undoing", w.text, w.cancel, FALSE, "cancelled")]
        /\ w.text \in Texts /\ w.cancel \in BOOLEAN
    BY <1>2, <1>5, JobForms DEF Cancelled
  <2>2. "undoing" \in Places /\ "undoing" # "idle" /\ "cancelled" \in Outcomes /\ FALSE \in BOOLEAN
    BY DEF Places, Outcomes
  <2>3. doc' = [doc EXCEPT ![D("worker")] = old]
    BY <1>4, <1>5 DEF Cancelled
  <2>4. WorkerFits("undoing", w.text, FALSE, "cancelled", old)
    BY <1>2, <1>3 DEF WorkerFits, ImportStage, Staged, Reading
  <2> HIDE DEF old, w
  <2> QED BY <1>2, <1>3, <2>1, <2>2, <2>3, <2>4, WorkerMoved DEF old, w
<1>6. CASE Finish("worker", "completed") /\ Write(D("worker"), [old EXCEPT !.staging = FALSE])
  <2> DEFINE r == [old EXCEPT !.staging = FALSE]
  <2>1. act' = [act EXCEPT !["worker"] = Job("settled", "none", w.cancel, w.shield, "completed")]
        /\ w.cancel \in BOOLEAN /\ w.shield \in BOOLEAN
    BY <1>2, <1>6, JobForms
  <2>2. "settled" \in Places /\ "settled" # "idle" /\ "none" \in Texts /\ "completed" \in Outcomes
    BY DEF Places, Texts, Outcomes
  <2>3. doc' = [doc EXCEPT ![D("worker")] = r]
    BY <1>6 DEF Write
  <2>4. /\ r \in DocRows /\ r.row = "present"
        /\ r.index = "low_text" \/ (r.index = "indexed" /\ r.chunks = r.pages)
    BY <1>2, <1>3 DEF DocRows
  <2> HIDE DEF r
  <2>5. WorkerFits("settled", "none", w.shield, "completed", r)
    BY <1>2, <2>4 DEF WorkerFits, ImportStage, Staged, Reading
  <2> QED BY <1>2, <1>3, <2>1, <2>2, <2>3, <2>4, <2>5, WorkerMoved
<1> QED BY <1>5, <1>6 DEF CommitImport

\* The rollback of an import takes the file first.
LEMMA RemoveFileKeeps ==
  ASSUME DocInv, RemoveFile
  PROVE  Sound
<1> DEFINE old == doc[D("worker")]
           w == act["worker"]
           r == [old EXCEPT !.file = FALSE]
<1>1. At("worker", {"undoing"}) /\ "undoing" # "idle" /\ Go("worker", "purging")
  BY DEF RemoveFile
<1>2. act["worker"] # NoWork /\ UNCHANGED up /\ old \in DocRows /\ w.task = "import"
      /\ ImportStage("undoing", w.text, w.shield, w.outcome, old)
  BY <1>1, AtJob DEF WorkerFits, OcrStage, Reading
<1>3. old.row = "present" /\ old.staging /\ ~Listed(old)
  BY <1>2 DEF ImportStage, Listed, Staged
<1>4. act' = [act EXCEPT !["worker"] = Job("purging", w.text, w.cancel, w.shield, w.outcome)]
      /\ w.text \in Texts /\ w.cancel \in BOOLEAN /\ w.shield \in BOOLEAN /\ w.outcome \in Outcomes
  BY <1>1, <1>2, JobForms
<1>5. "purging" \in Places /\ "purging" # "idle"
  BY DEF Places
<1>6. doc' = [doc EXCEPT ![D("worker")] = r]
  BY DEF RemoveFile
<1>7. r \in DocRows /\ r.row = "present" /\ r.staging /\ ~r.file
  BY <1>2, <1>3 DEF DocRows
<1> HIDE DEF r
<1>8. WorkerFits("purging", w.text, w.shield, w.outcome, r) /\ ~Listed(r)
  BY <1>2, <1>7 DEF WorkerFits, ImportStage, Staged, Reading, Listed
<1> QED BY <1>2, <1>3, <1>4, <1>5, <1>6, <1>7, <1>8, WorkerMoved

\* Then it takes the row, so that nothing is left when the job settles.
LEMMA PurgeRowKeeps ==
  ASSUME DocInv, PurgeRow
  PROVE  Sound
<1> DEFINE old == doc[D("worker")]
           w == act["worker"]
           r == [NoRow("purged") EXCEPT !.file = old.file]
<1>1. At("worker", {"purging"}) /\ "purging" # "idle" /\ Finish("worker", w.outcome)
  BY DEF PurgeRow
<1>2. act["worker"] # NoWork /\ UNCHANGED up /\ old \in DocRows /\ w.task = "import"
      /\ ImportStage("purging", w.text, w.shield, w.outcome, old)
  BY <1>1, AtJob DEF WorkerFits, OcrStage, Reading
<1>3. old.row = "present" /\ old.staging /\ ~Listed(old) /\ ~old.file
  BY <1>2 DEF ImportStage, Listed, Staged
<1>4. act' = [act EXCEPT !["worker"] = Job("settled", "none", w.cancel, w.shield, w.outcome)]
      /\ w.cancel \in BOOLEAN /\ w.shield \in BOOLEAN /\ w.outcome \in Outcomes
  BY <1>1, <1>2, JobForms
<1>5. "settled" \in Places /\ "settled" # "idle" /\ "none" \in Texts
  BY DEF Places, Texts
<1>6. doc' = [doc EXCEPT ![D("worker")] = r]
  BY DEF PurgeRow, Write
<1>7. r \in DocRows /\ r.row = "purged" /\ ~r.file
  BY <1>2, <1>3, <1>5 DEF DocRows, NoRow
<1> HIDE DEF r
<1>8. WorkerFits("settled", "none", w.shield, w.outcome, r) /\ ~Listed(r)
  BY <1>2, <1>7 DEF WorkerFits, ImportStage, Staged, Reading, Listed
<1> QED BY <1>2, <1>3, <1>4, <1>5, <1>6, <1>7, <1>8, WorkerMoved

\* An OCR job cancelled before it began has the document as it found it.
LEMMA StartOcrKeeps ==
  ASSUME DocInv, StartOcrJob
  PROVE  Sound
<1> DEFINE old == doc[D("worker")]
           w == act["worker"]
<1>1. At("worker", {"starting"}) /\ "starting" # "idle" /\ UNCHANGED doc
  BY DEF StartOcrJob, Cancelled
<1>2. act["worker"] # NoWork /\ UNCHANGED up /\ old \in DocRows /\ w.before \in DocRows /\ w.task = "ocr"
      /\ OcrStage("starting", w.shield, w.outcome, w.alone, w.before, old)
  BY <1>1, AtJob DEF WorkerFits, ImportStage, Staged, Reading
<1>3. Listed(old) /\ old.row = "present" /\ Kept(old, old) /\ (w.alone => old = w.before)
  BY <1>2 DEF OcrStage, Listed, Kept
<1>4. doc' = [doc EXCEPT ![D("worker")] = old]
  BY <1>1 DEF DocInv, DocTypeOK
<1>5. CASE Cancelled("worker")
  <2>1. act' = [act EXCEPT !["worker"] = Job("restoring", w.text, w.cancel, FALSE, "cancelled")]
        /\ w.text \in Texts /\ w.cancel \in BOOLEAN
    BY <1>2, <1>5, JobForms DEF Cancelled
  <2>2. "restoring" \in Places /\ "restoring" # "idle" /\ "cancelled" \in Outcomes /\ FALSE \in BOOLEAN
    BY DEF Places, Outcomes
  <2>3. [w.before EXCEPT !.index = w.before.index, !.ocr = w.before.ocr] = w.before
    BY <1>2 DEF DocRows
  <2>4. OcrStage("restoring", FALSE, "cancelled", w.alone, w.before, old)
    BY <1>3, <2>3 DEF OcrStage, Reading
  <2>5. WorkerFits("restoring", w.text, FALSE, "cancelled", old)
    BY <1>2, <2>4 DEF WorkerFits
  <2> HIDE DEF old, w
  <2> QED BY <1>2, <1>3, <1>4, <2>1, <2>2, <2>5, WorkerMoved DEF old, w
<1>6. CASE Go("worker", "ocr")
  <2>1. act' = [act EXCEPT !["worker"] = Job("ocr", w.text, w.cancel, w.shield, w.outcome)]
        /\ w.text \in Texts /\ w.cancel \in BOOLEAN /\ w.shield \in BOOLEAN /\ w.outcome \in Outcomes
    BY <1>2, <1>6, JobForms
  <2>2. "ocr" \in Places /\ "ocr" # "idle"
    BY DEF Places
  <2>3. OcrStage("ocr", w.shield, w.outcome, w.alone, w.before, old)
    BY <1>3 DEF OcrStage, Reading
  <2>4. WorkerFits("ocr", w.text, w.shield, w.outcome, old)
    BY <1>2, <2>3 DEF WorkerFits
  <2> HIDE DEF old, w
  <2> QED BY <1>2, <1>3, <1>4, <2>1, <2>2, <2>4, WorkerMoved DEF old, w
<1> QED BY <1>5, <1>6 DEF StartOcrJob

\* The rollback of an OCR job: alone on its document and cancelled, it has written nothing but these fields.
LEMMA RestoreKeeps ==
  ASSUME DocInv, RestoreFields
  PROVE  Sound
<1> DEFINE old == doc[D("worker")]
           w == act["worker"]
           r == [old EXCEPT !.index = w.before.index, !.ocr = w.before.ocr]
<1>1. At("worker", {"restoring"}) /\ "restoring" # "idle" /\ Finish("worker", w.outcome)
  BY DEF RestoreFields
<1>2. act["worker"] # NoWork /\ UNCHANGED up /\ old \in DocRows /\ w.before \in DocRows /\ w.task = "ocr"
      /\ OcrStage("restoring", w.shield, w.outcome, w.alone, w.before, old)
  BY <1>1, AtJob DEF WorkerFits, ImportStage, Staged, Reading
<1>3. Listed(old) /\ (w.outcome = "cancelled" /\ w.alone => r = w.before)
  BY <1>2 DEF OcrStage
<1>4. act' = [act EXCEPT !["worker"] = Job("settled", "none", w.cancel, w.shield, w.outcome)]
      /\ w.cancel \in BOOLEAN /\ w.shield \in BOOLEAN /\ w.outcome \in Outcomes
  BY <1>1, <1>2, JobForms
<1>5. "settled" \in Places /\ "settled" # "idle" /\ "none" \in Texts
  BY DEF Places, Texts
<1>6. doc' = [doc EXCEPT ![D("worker")] = r]
  BY DEF RestoreFields, Write
<1>7. r \in DocRows /\ Kept(old, r) /\ r.row = "present" /\ Listed(r)
  BY <1>2, <1>3 DEF DocRows, Kept, Listed
<1> HIDE DEF r
<1>8. OcrStage("settled", w.shield, w.outcome, w.alone, w.before, r)
  BY <1>3, <1>7 DEF OcrStage, Reading
<1>9. WorkerFits("settled", "none", w.shield, w.outcome, r)
  BY <1>2, <1>8 DEF WorkerFits
<1> QED BY <1>2, <1>3, <1>4, <1>5, <1>6, <1>7, <1>9, WorkerMoved

\* A settled job is let go.
LEMMA NextJobKeeps ==
  ASSUME DocInv, NextJob
  PROVE  Sound
<1>1. At("worker", {"settled"}) /\ "settled" # "idle" /\ "idle" \notin {"settled"} /\ "worker" \in Threads
  BY DEF NextJob, Threads
<1>2. act["worker"] # NoWork /\ UNCHANGED up
  BY <1>1, Placed
<1>3. doc[D("worker")] \in DocRows /\ D("worker") \in Docs
  BY <1>1, <1>2, AtWork
<1>4. NoWork \in Works
  BY DEF NoWork, Works, NoRow, DocRows, Places, Texts
<1>5. doc' = [doc EXCEPT ![D("worker")] = doc[D("worker")]] /\ act' = [act EXCEPT !["worker"] = NoWork]
  BY DEF NextJob, DocInv, DocTypeOK
<1>6. Fair("worker", NoWork, doc[D("worker")])
  BY <1>3 DEF Fair, Kept, DocInv, AbsentIsBlank
<1> QED BY <1>1, <1>2, <1>3, <1>4, <1>5, <1>6, Moved

\* A cancel only sets the event.
LEMMA CancelKeeps ==
  ASSUME DocInv, CancelJob
  PROVE  Sound
<1> DEFINE w == [act["worker"] EXCEPT !.cancel = TRUE]
<1>1. "worker" \in Threads /\ act["worker"] # NoWork /\ UNCHANGED up
  BY DEF CancelJob, NoWork, Threads
<1>2. /\ act["worker"] \in Works /\ act["worker"].at # "idle" /\ D("worker") \in Docs /\ doc[D("worker")] \in DocRows
      /\ act["worker"].doc = D("worker") /\ Stage("worker", act["worker"], doc[D("worker")])
  BY <1>1, AtWork
<1>3. /\ w \in Works /\ w.at = act["worker"].at /\ w.doc = act["worker"].doc /\ w.alone = act["worker"].alone
      /\ w.task = act["worker"].task /\ w.text = act["worker"].text /\ w.shield = act["worker"].shield
      /\ w.outcome = act["worker"].outcome /\ w.before = act["worker"].before
  BY <1>2 DEF Works
<1>4. act' = [act EXCEPT !["worker"] = w] /\ doc' = [doc EXCEPT ![D("worker")] = doc[D("worker")]]
  BY DEF CancelJob, DocInv, DocTypeOK
<1> HIDE DEF w
<1>5. Stage("worker", w, doc[D("worker")])
  BY <1>2, <1>3 DEF Stage
<1>6. Fair("worker", w, doc[D("worker")])
  BY <1>2, <1>3, <1>5 DEF Fair, Kept, DocInv, AbsentIsBlank
<1> QED BY <1>1, <1>2, <1>3, <1>4, <1>6, Moved

\* The tombstone leaves row, file and pages.
LEMMA MarkDeletedKeeps ==
  ASSUME DocInv, MarkDeleted
  PROVE  Sound
<1> DEFINE old == doc[D("rpc")]
           r == [old EXCEPT !.deleted = TRUE, !.index = "deleted"]
<1>1. At("rpc", {"deleting"}) /\ "idle" \notin {"deleting"} /\ "rpc" \in Threads /\ Finish("rpc", "completed")
  BY DEF MarkDeleted, Threads
<1>2. act["rpc"] # NoWork /\ UNCHANGED up
  BY <1>1, Placed
<1>3. old \in DocRows /\ Listed(old)
  BY <1>1, <1>2, AtWork DEF Stage
<1>4. r \in DocRows /\ Kept(old, r) /\ r.row = "present"
  BY <1>3 DEF DocRows, Kept, Listed
<1>5. KeepsRow("rpc", r) /\ "completed" \in {"completed", "failed", "cancelled"} /\ "rpc" # "worker"
  BY <1>4 DEF KeepsRow, MarkDeleted, Write
<1> HIDE DEF r
<1> QED BY <1>1, <1>2, <1>5, Ended

\* Every step of the job keeps the invariant.
LEMMA WorkerKeeps ==
  ASSUME DocInv, WorkerStep
  PROVE  Sound
BY CopyKeeps, InsertRowKeeps, ExtractKeeps, ExtractFailsKeeps, CommitKeeps, RemoveFileKeeps, PurgeRowKeeps, StartOcrKeeps,
   RestoreKeeps, NextJobKeeps DEF WorkerStep

----------------------------------------------------------------------------
(* Requests, a crash and the restart. *)

\* New work fits its document and leaves the other thread's work fitting: on the same document neither
\* is alone any more.
LEMMA Began ==
  ASSUME DocInv, up, UNCHANGED up, NEW p \in Threads, act[p].at = "idle", NEW d \in Docs, NEW w \in Works,
         act' = [act EXCEPT ![p] = w, ![Other(p)] = Touched(act[Other(p)], d)],
         w.at # "idle", w.doc = d, act[Other(p)].doc = d => ~w.alone,
         NEW r \in DocRows, doc' = [doc EXCEPT ![d] = r], Kept(doc[d], r), r.low = doc[d].low, Stage(p, w, r)
  PROVE  Sound
<1> DEFINE q == Other(p)
           v == Touched(act[q], d)
<1>1. /\ q \in Threads /\ q # p /\ Threads = {p, q} /\ act \in [Threads -> Works] /\ doc \in [Docs -> DocRows]
      /\ None \notin Docs /\ NoWork.doc = None
  BY DocAssumption DEF Other, Threads, DocInv, DocTypeOK, NoWork
<1>2. act'[p] = w /\ act'[q] = v /\ doc'[d] = r /\ \A e \in Docs : e # d => doc'[e] = doc[e]
  BY <1>1
<1>3. CASE act[q].doc # d
  <2>1. v = act[q]
    BY <1>3 DEF Touched
  <2>2. v = NoWork \/ (v.at # "idle" /\ v.doc \in Docs /\ Stage(q, v, doc'[v.doc]))
    BY <1>1, <1>2, <1>3, <2>1 DEF DocInv, WorkFits
  <2>3. v \in Works /\ v.doc # d
    BY <1>1, <1>3, <2>1
  <2>4. act[q].alone = v.alone
    BY <2>1
  <2> QED
    <3>1. DocTypeOK'
      BY <1>1, <2>3 DEF DocInv, DocTypeOK
    <3>2. WorkFits'
      <4>1. \A t \in Threads : act'[t] = NoWork \/ (up' /\ act'[t].at # "idle" /\ act'[t].doc \in Docs
                                                      /\ Stage(t, act'[t], doc'[act'[t].doc]))
        BY <1>1, <1>2, <2>2
      <4>2. "worker" \in {p, q} /\ "rpc" \in {p, q} /\ "worker" # "rpc"
        BY <1>1 DEF Threads
      <4>3. act'["worker"].doc # act'["rpc"].doc
        BY <1>2, <2>3, <4>2
      <4> QED BY <4>1, <4>3 DEF WorkFits
    <3>3. AbsentIsBlank'
      BY <1>2 DEF DocInv, AbsentIsBlank, Kept
    <3>4. Survives /\ Settles
      BY <1>2 DEF Survives, Settles, Committed, Kept
    <3> QED BY <3>1, <3>2, <3>3, <3>4 DEF Sound, DocInv
<1>4. CASE act[q].doc = d
  <2>1. act[q] # NoWork
    BY <1>1, <1>4
  <2>2. /\ act[q] \in Works /\ act[q].at # "idle" /\ Stage(q, act[q], doc[d])
    BY <1>1, <1>4, <2>1, AtWork
  <2>3. /\ v \in Works /\ v.at = act[q].at /\ v.doc = d /\ v.task = act[q].task /\ v.text = act[q].text
        /\ v.shield = act[q].shield /\ v.outcome = act[q].outcome /\ ~v.alone
    <3>0. act[q].before \in DocRows /\ NoRow("absent") \in DocRows
      BY <2>2 DEF Works, NoRow, DocRows, Texts
    <3> DEFINE b == [NoRow("absent") EXCEPT !.index = act[q].before.index, !.ocr = act[q].before.ocr]
    <3>1. b \in DocRows
      BY <3>0 DEF DocRows
    <3>2. v = [act[q] EXCEPT !.alone = FALSE, !.before = b]
      BY <1>4 DEF Touched
    <3> HIDE DEF b, v
    <3> QED BY <1>4, <2>2, <3>1, <3>2 DEF Works
  <2>4. Stage(q, v, r)
    <3>1. CASE q = "rpc"
      BY <2>2, <2>3, <3>1 DEF Stage, Kept, Listed
    <3>2. CASE q = "worker"
      <4>1. p = "rpc" /\ Listed(r) /\ Listed(doc[d])
        BY <1>1, <3>2 DEF Threads, Stage, Kept, Listed
      <4>2. CASE act[q].task = "import" /\ ImportStage(act[q].at, act[q].text, act[q].shield, act[q].outcome, doc[d])
        <5>1. act[q].at = "settled" /\ act[q].outcome # "cancelled"
          BY <4>1, <4>2 DEF ImportStage, Listed
        <5>2. ImportStage(v.at, v.text, v.shield, v.outcome, r)
          BY <2>3, <5>1 DEF ImportStage, Staged, Reading
        <5> QED BY <2>3, <3>2, <4>2, <5>2 DEF Stage
      <4>3. CASE /\ act[q].task = "ocr"
                 /\ OcrStage(act[q].at, act[q].shield, act[q].outcome, act[q].alone, act[q].before, doc[d])
        <5>1. OcrStage(v.at, v.shield, v.outcome, v.alone, v.before, r)
          BY <2>3, <4>1, <4>3 DEF OcrStage
        <5> QED BY <2>3, <3>2, <4>3, <5>1 DEF Stage
      <4> QED BY <2>2, <3>2, <4>2, <4>3 DEF Stage
    <3> QED BY <1>1, <3>1, <3>2 DEF Threads
  <2>5. ~w.alone
    BY <1>4
  <2> HIDE DEF v
  <2>6. DocTypeOK'
    BY <1>1, <2>3 DEF DocInv, DocTypeOK, v
  <2>7. WorkFits'
    <3>1. \A t \in Threads : act'[t] = NoWork \/ (up' /\ act'[t].at # "idle" /\ act'[t].doc \in Docs
                                                    /\ Stage(t, act'[t], doc'[act'[t].doc]))
      BY <1>1, <1>2, <2>2, <2>3, <2>4
    <3>2. "worker" \in {p, q}
      BY <1>1 DEF Threads
    <3>3. ~act'["worker"].alone
      BY <1>2, <2>3, <2>5, <3>2
    <3> QED BY <3>1, <3>3 DEF WorkFits
  <2>8. AbsentIsBlank'
    BY <1>2 DEF DocInv, AbsentIsBlank, Kept
  <2>9. Survives /\ Settles
    BY <1>2 DEF Survives, Settles, Committed, Kept
  <2> QED BY <2>6, <2>7, <2>8, <2>9 DEF Sound, DocInv
<1> QED BY <1>3, <1>4

\* What Begin makes of a new piece of work.
LEMMA BeganWork ==
  ASSUME DocInv, NEW p \in Threads, NEW task \in {"import", "ocr", "reindex", "delete"}, NEW d \in Docs,
         NEW place \in Places, place # "idle", Begin(p, task, d, place)
  PROVE  \E w \in Works :
           /\ act' = [act EXCEPT ![p] = w, ![Other(p)] = Touched(act[Other(p)], d)]
           /\ w.task = task /\ w.doc = d /\ w.at = place /\ w.text = "none" /\ ~w.shield /\ w.outcome = "none"
           /\ act[Other(p)].doc = d => ~w.alone
           /\ p = "worker" /\ w.alone => w.before = doc[d]
<1> DEFINE b == IF p = "worker" THEN doc[d] ELSE NoRow("absent")
           work == [NoWork EXCEPT !.task = task, !.doc = d, !.at = place, !.before = b]
           c == [NoRow("absent") EXCEPT !.index = work.before.index, !.ocr = work.before.ocr]
           w == IF act[Other(p)].doc = d THEN Touched(work, d) ELSE work
<1>1. NoRow("absent") \in DocRows /\ "none" \in Texts
  BY DEF NoRow, DocRows, Texts
<1>2. b \in DocRows
  BY <1>1 DEF DocInv, DocTypeOK
<1> HIDE DEF b
<1>3. /\ work \in Works /\ work.task = task /\ work.doc = d /\ work.at = place /\ work.before = b /\ work.text = "none"
      /\ ~work.shield /\ work.outcome = "none"
  BY <1>1, <1>2 DEF NoWork, Works
<1>4. act' = [act EXCEPT ![p] = w, ![Other(p)] = Touched(act[Other(p)], d)]
  <2>1. Other(p) # p /\ Other(p) \in Threads /\ act \in [Threads -> Works]
    BY DEF Other, Threads, DocInv, DocTypeOK
  <2> QED BY <2>1 DEF Begin, b
<1> HIDE DEF work
<1>5. c \in DocRows
  BY <1>1, <1>2, <1>3 DEF DocRows
<1>6. Touched(work, d) = [work EXCEPT !.alone = FALSE, !.before = c]
  BY <1>3 DEF Touched
<1> HIDE DEF c
<1>7. CASE act[Other(p)].doc = d
  <2>1. w = [work EXCEPT !.alone = FALSE, !.before = c]
    BY <1>6, <1>7
  <2> HIDE DEF w
  <2>2. /\ w \in Works /\ w.task = task /\ w.doc = d /\ w.at = place /\ ~w.alone /\ w.text = "none"
        /\ ~w.shield /\ w.outcome = "none"
    BY <1>3, <1>5, <2>1 DEF Works
  <2> QED BY <1>4, <2>2
<1>8. CASE act[Other(p)].doc # d
  <2>1. w = work
    BY <1>8
  <2> HIDE DEF w
  <2> QED BY <1>3, <1>4, <1>8, <2>1 DEF b
<1> QED BY <1>7, <1>8

\* Every request fits the document it is on.
LEMMA RequestKeeps ==
  ASSUME DocInv, NEW d \in Docs, Request(d)
  PROVE  Sound
<1>1. /\ doc[d] \in DocRows /\ doc \in [Docs -> DocRows] /\ "worker" \in Threads /\ "rpc" \in Threads
      /\ Kept(doc[d], doc[d]) /\ (doc[d].row = "absent" => ~doc[d].low)
  BY DEF DocInv, DocTypeOK, Threads, Kept, AbsentIsBlank
<1>2. UNCHANGED doc => doc' = [doc EXCEPT ![d] = doc[d]]
  BY <1>1
<1>3. {"copying", "starting", "choosing", "ocr", "deleting"} \subseteq Places
  BY DEF Places
<1>4. CASE StartImport(d)
  <2>1. /\ Begin("worker", "import", d, "copying") /\ UNCHANGED doc /\ doc[d].row = "absent" /\ ~doc[d].file
        /\ up /\ UNCHANGED up /\ act["worker"].at = "idle" /\ "copying" \in Places
    BY <1>3, <1>4 DEF StartImport, Begin, At
  <2>2. PICK w \in Works :
           /\ act' = [act EXCEPT !["worker"] = w, ![Other("worker")] = Touched(act[Other("worker")], d)]
           /\ w.task = "import" /\ w.doc = d /\ w.at = "copying" /\ w.text = "none" /\ ~w.shield /\ w.outcome = "none"
           /\ act[Other("worker")].doc = d => ~w.alone
    BY <1>1, <2>1, BeganWork
  <2>3. Stage("worker", w, doc[d])
    BY <1>1, <2>1, <2>2 DEF Stage, ImportStage, Staged, Reading
  <2> QED BY <1>1, <1>2, <2>1, <2>2, <2>3, Began
<1>5. CASE SubmitOcrJob(d)
  <2>1. /\ Begin("worker", "ocr", d, "starting") /\ UNCHANGED doc /\ Listed(doc[d])
        /\ up /\ UNCHANGED up /\ act["worker"].at = "idle" /\ "starting" \in Places
    BY <1>3, <1>5 DEF SubmitOcrJob, Begin, At, Committed, Listed
  <2>2. PICK w \in Works :
           /\ act' = [act EXCEPT !["worker"] = w, ![Other("worker")] = Touched(act[Other("worker")], d)]
           /\ w.task = "ocr" /\ w.doc = d /\ w.at = "starting" /\ w.text = "none" /\ ~w.shield /\ w.outcome = "none"
           /\ act[Other("worker")].doc = d => ~w.alone
           /\ w.alone => w.before = doc[d]
    BY <1>1, <2>1, BeganWork
  <2>3. Stage("worker", w, doc[d])
    BY <2>1, <2>2 DEF Stage, OcrStage, Reading
  <2> QED BY <1>1, <1>2, <2>1, <2>2, <2>3, Began
<1>6. ASSUME NEW task \in {"ocr", "reindex", "delete"}, NEW place \in {"choosing", "ocr", "deleting"},
             Begin("rpc", task, d, place), Listed(doc[d]),
             NEW r \in DocRows, doc' = [doc EXCEPT ![d] = r], Kept(doc[d], r), r.low = doc[d].low
      PROVE  Sound
  <2>1. up /\ UNCHANGED up /\ act["rpc"].at = "idle" /\ place \in Places /\ place # "idle"
        /\ task \in {"import", "ocr", "reindex", "delete"}
    BY <1>3, <1>6 DEF Begin, At
  <2>2. PICK w \in Works :
           /\ act' = [act EXCEPT !["rpc"] = w, ![Other("rpc")] = Touched(act[Other("rpc")], d)]
           /\ w.task = task /\ w.doc = d /\ w.at = place
           /\ act[Other("rpc")].doc = d => ~w.alone
    BY <1>1, <1>6, <2>1, BeganWork
  <2>3. Stage("rpc", w, r)
    BY <1>6, <2>2 DEF Stage, Listed, Kept
  <2> QED BY <1>1, <1>6, <2>1, <2>2, <2>3, Began
<1>7. CASE RequestReindex(d)
  BY <1>1, <1>2, <1>6, <1>7 DEF RequestReindex, Committed, Listed
<1>8. CASE RequestOcr(d)
  BY <1>1, <1>2, <1>6, <1>8 DEF RequestOcr, Committed, Listed
<1>9. CASE RequestDelete(d)
  <2> DEFINE r == [doc[d] EXCEPT !.chunks = "none"]
  <2>1. /\ r \in DocRows /\ Kept(doc[d], r) /\ r.low = doc[d].low
    BY <1>1 DEF DocRows, Kept, Texts
  <2>2. doc' = [doc EXCEPT ![d] = r] /\ Begin("rpc", "delete", d, "deleting") /\ Listed(doc[d])
    BY <1>1, <1>9 DEF RequestDelete, Committed, Listed
  <2> HIDE DEF r
  <2> QED BY <1>6, <2>1, <2>2
<1> QED BY <1>4, <1>5, <1>7, <1>8, <1>9 DEF Request

\* A crash leaves the documents as they are, and no work.
LEMMA CrashKeeps ==
  ASSUME DocInv, Crash
  PROVE  Sound
<1>1. NoWork \in Works
  BY DEF NoWork, Works, NoRow, DocRows, Places, Texts
<1>2. /\ \A p \in Threads : act'[p] = NoWork
      /\ "worker" \in Threads /\ UNCHANGED doc
  BY DEF Crash, Threads
<1>3. DocTypeOK'
  BY <1>1 DEF Crash, DocInv, DocTypeOK
<1>4. WorkFits'
  BY <1>2 DEF WorkFits
<1>5. AbsentIsBlank' /\ Survives /\ Settles
  BY <1>2 DEF DocInv, AbsentIsBlank, Survives, Settles, Committed
<1> QED BY <1>3, <1>4, <1>5 DEF Sound, DocInv

\* The repair purges what is hidden and takes nothing that is listed.
LEMMA RestartKeeps ==
  ASSUME DocInv, Restart
  PROVE  Sound
<1>1. /\ doc \in [Docs -> DocRows] /\ act \in [Threads -> Works] /\ ~up /\ up' /\ UNCHANGED act
      /\ "worker" \in Threads /\ "rpc" \in Threads
  BY DEF Restart, DocInv, DocTypeOK, Threads
<1>2. \A p \in Threads : act'[p] = NoWork
  BY <1>1 DEF DocInv, WorkFits
<1> DEFINE r(d) == IF doc[d].row = "present" /\ doc[d].staging THEN NoRow("purged")
                   ELSE IF doc[d].ocr = "running" THEN [doc[d] EXCEPT !.ocr = "needed"] ELSE doc[d]
<1>3. doc' = [d \in Docs |-> r(d)]
  BY DEF Restart
<1>4. NoRow("purged") \in DocRows
  BY DEF NoRow, DocRows, Texts
<1>5. ASSUME NEW d \in Docs
      PROVE  /\ r(d) \in DocRows
             /\ doc[d].row = "present" /\ ~doc[d].staging => Kept(doc[d], r(d))
             /\ ~(doc[d].row = "present" /\ ~doc[d].staging) => ~(r(d).row = "present" /\ ~r(d).staging)
             /\ r(d).row = "absent" => ~r(d).low
  <2>1. doc[d] \in DocRows /\ (doc[d].row = "absent" => ~doc[d].low)
    BY <1>1 DEF DocInv, AbsentIsBlank
  <2>2. CASE doc[d].row = "present" /\ doc[d].staging
    <3>1. r(d) = NoRow("purged") /\ NoRow("purged").row = "purged"
      BY <2>2 DEF NoRow
    <3> HIDE DEF r
    <3> QED BY <1>4, <2>2, <3>1
  <2>3. CASE ~(doc[d].row = "present" /\ doc[d].staging) /\ doc[d].ocr = "running"
    <3>1. r(d) = [doc[d] EXCEPT !.ocr = "needed"]
      BY <2>3
    <3> HIDE DEF r
    <3> QED BY <2>1, <2>3, <3>1 DEF DocRows, Kept
  <2>4. CASE ~(doc[d].row = "present" /\ doc[d].staging) /\ doc[d].ocr # "running"
    <3>1. r(d) = doc[d]
      BY <2>4
    <3> HIDE DEF r
    <3> QED BY <2>1, <2>4, <3>1 DEF Kept
  <2> QED BY <2>2, <2>3, <2>4
<1> HIDE DEF r
<1>6. DocTypeOK'
  BY <1>1, <1>3, <1>5 DEF DocTypeOK
<1>7. WorkFits'
  BY <1>1, <1>2 DEF WorkFits
<1>8. AbsentIsBlank'
  BY <1>3, <1>5 DEF AbsentIsBlank
<1>9. Survives /\ Settles
  BY <1>3, <1>5 DEF Survives, Settles, Committed, Kept
<1> QED BY <1>6, <1>7, <1>8, <1>9 DEF Sound, DocInv

----------------------------------------------------------------------------
(* The theorems. *)

\* With no document imported and no work in progress, the invariant holds.
LEMMA DocBegins == DocInit => DocInv
<1> SUFFICES ASSUME DocInit PROVE DocInv
  OBVIOUS
<1>1. NoWork \in Works /\ NoRow("absent") \in DocRows /\ ~NoRow("absent").low
  BY DEF NoWork, Works, NoRow, DocRows, Places, Texts
<1>2. "worker" \in Threads
  BY DEF Threads
<1> QED BY <1>1, <1>2 DEF DocInit, DocInv, DocTypeOK, WorkFits, AbsentIsBlank

\* Every step keeps the invariant, what is listed, and what being listed means.
LEMMA DocSteps == DocInv /\ [DocNext]_docVars => Sound
<1> SUFFICES ASSUME DocInv, [DocNext]_docVars PROVE Sound
  OBVIOUS
<1>1. CASE DocNext
  BY <1>1, WorkerKeeps, CancelKeeps, MarkDeletedKeeps, CrashKeeps, RestartKeeps, IndexKeeps, RequestKeeps DEF DocNext
<1>2. CASE UNCHANGED docVars
  BY <1>2 DEF docVars, Sound, DocInv, DocTypeOK, WorkFits, AbsentIsBlank, Survives, Settles, Committed
<1> QED BY <1>1, <1>2

\* The work in progress fits its document at every moment, whatever the threads, cancels and crashes do.
THEOREM WorkAlwaysFits == DocSpec => []DocInv
<1>1. DocInv /\ [DocNext]_docVars => DocInv'
  BY DocSteps DEF Sound
<1> QED BY <1>1, DocBegins, PTL DEF DocSpec

\* A cancelled import leaves nothing, a cancelled OCR job its document as it was (job_service.py's rollback).
THEOREM CancelsLeaveNothing == DocSpec => []CancelLeavesNoTrace
<1>1. DocInv => CancelLeavesNoTrace
  <2> SUFFICES ASSUME DocInv PROVE CancelLeavesNoTrace
    OBVIOUS
  <2>1. CASE act["worker"].at = "settled"
    <3>1. act["worker"] # NoWork /\ "worker" \in Threads
      BY <2>1 DEF NoWork, Threads
    <3>2. Stage("worker", act["worker"], doc[D("worker")])
      BY <3>1, AtWork
    <3>3. CASE /\ act["worker"].task = "import"
               /\ ImportStage(act["worker"].at, act["worker"].text, act["worker"].shield, act["worker"].outcome,
                              doc[D("worker")])
      BY <2>1, <3>3 DEF ImportStage, CancelLeavesNoTrace, CancelledImportIsGone, CancelledOcrRestores, Settled, Gone
    <3>4. CASE /\ act["worker"].task = "ocr"
               /\ OcrStage(act["worker"].at, act["worker"].shield, act["worker"].outcome, act["worker"].alone,
                           act["worker"].before, doc[D("worker")])
      BY <2>1, <3>4 DEF OcrStage, CancelLeavesNoTrace, CancelledImportIsGone, CancelledOcrRestores, Settled
    <3> QED BY <3>2, <3>3, <3>4 DEF Stage
  <2>2. CASE act["worker"].at # "settled"
    BY <2>2 DEF CancelLeavesNoTrace, CancelledImportIsGone, CancelledOcrRestores, Settled
  <2> QED BY <2>1, <2>2
<1> QED BY <1>1, WorkAlwaysFits, PTL

\* What is listed keeps its row, file and pages through rollbacks, cancels, failures and repairs.
THEOREM ListedSurvives == DocSpec => CommittedSurvives
<1>1. DocInv /\ [DocNext]_docVars => [Survives]_docVars
  BY DocSteps DEF Sound
<1> QED BY <1>1, WorkAlwaysFits, PTL DEF DocSpec, CommittedSurvives, Survives

\* A document becomes visible only when its indexing is done (commit_staging after index_document).
THEOREM ShownSettled == DocSpec => VisibleIsSettled
<1>1. DocInv /\ [DocNext]_docVars => [Settles]_docVars
  BY DocSteps DEF Sound
<1> QED BY <1>1, WorkAlwaysFits, PTL DEF DocSpec, VisibleIsSettled, Settles

=============================================================================
