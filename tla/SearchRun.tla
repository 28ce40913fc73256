------------------------------ MODULE SearchRun ------------------------------
(***************************************************************************)
(* A Search (search_service.py, SearchService.run) on the worker thread,   *)
(* beside a user who deletes a kept page or the conversation on the RPC    *)
(* thread, cancels, and a process that dies and is started again.  Every   *)
(* transaction is a step; a model call, a fetch and a test of the cancel   *)
(* event take the step of what follows them.  Which of the Search budgets  *)
(* runs out (time, bytes, model context) is left to chance at each place   *)
(* that asks; the counted ones (model calls, fetches, pages) are counted.  *)
(*                                                                         *)
(* A definition Name_Variant repeats Name with a plausible mistake in it;  *)
(* no specification uses it (README, "How the properties are validated").  *)
(***************************************************************************)
EXTENDS WebCache

CONSTANTS
  Modes,       \* search_mode: "external" (a provider) or "local" (the frontier)
  MaxRuns,     \* Searches asked in one behaviour
  CallBudgets, \* what max_model_calls may be
  MaxFetches,  \* max_fetches
  MaxPages     \* LocalDiscoveryLimits.max_new_urls

ASSUME SearchAssumption ==
  /\ Modes \subseteq {"external", "local"}
  /\ MaxRuns \in Nat /\ MaxFetches \in Nat \ {0} /\ MaxPages \in Nat
  /\ CallBudgets \subseteq 3..5   \* SearchBudget.from_database clamps it

VARIABLES
  run,       \* the locals of SearchService.run
  log,       \* per run: its search_runs row, its messages and its evidence rows
  session,   \* the conversation is there
  deleting,  \* the row rag_service.delete_document is between its transactions on, or 0
  cancel,    \* the job's cancel event
  up         \* the process runs

searchVars == <<rows, frontier, run, log, session, deleting, cancel, up>>

RunIds == 1..MaxRuns
Ended == {"completed", "failed", "cancelled", "interrupted"}
Places == {"idle", "asking", "noting_question", "planning", "retrieving", "providing", "seeding", "querying", "fetching",
           "storing", "indexing", "selecting", "repairing", "concluding", "synthesizing", "promoting", "resyncing",
           "evidencing", "answering", "linking", "titling", "completing", "marking", "undoing", "closing"}

NoRun == [at |-> "idle", n |-> 0, mode |-> None, second |-> FALSE, budget |-> 0, repair |-> FALSE, calls |-> 0, attempts |-> 0,
          limit |-> 0, pages |-> 0, tried |-> <<>>, seeds |-> {}, todo |-> <<>>, sched |-> {}, got |-> <<>>, row |-> 0,
          fresh |-> {}, seen |-> <<>>, pool |-> {}, round |-> {}, picked |-> {}, malformed |-> FALSE,
          ending |-> None]

NoLog == [status |-> None, note |-> None, linked |-> FALSE, answer |-> FALSE, resultsOnly |-> FALSE, evidence |-> {}]

At(place) == up /\ run.at = place
Go(place) == run' = [run EXCEPT !.at = place]
Local == run.mode = "local"
PoolRows == {p[1] : p \in run.pool}

UnchangedBut(changed) ==
  /\ "cache" \notin changed => UNCHANGED cacheVars
  /\ "log" \notin changed => UNCHANGED log
  /\ "cancel" \notin changed => UNCHANGED cancel
  /\ "user" \notin changed => UNCHANGED <<session, deleting>>
  /\ "up" \notin changed => UNCHANGED up

\* An exception of the run, and one that the repair round survives.
EndAs(ending) == run' = [run EXCEPT !.at = "undoing", !.ending = ending]
Raise == IF run.repair THEN Go("concluding") ELSE EndAs("failed")

\* check_cancelled, and what follows when the event is not set
Cancelled == cancel /\ EndAs("cancelled") /\ UnchangedBut({})

\* _model_call, which counts the call
MayCallModel == ~cancel /\ run.calls < run.budget

-----------------------------------------------------------------------------
\* The run row and the question

Begin(mode, second, calls) ==
  /\ At("idle") /\ session
  /\ \E n \in RunIds :
       /\ log[n].status = None
       /\ \A k \in RunIds : log[k].status = None => n <= k
       /\ log' = [log EXCEPT ![n].status = "running"]
       /\ run' = [NoRun EXCEPT !.at = "asking", !.n = n, !.mode = mode, !.second = second, !.budget = calls]
  /\ cancel' = FALSE
  /\ UnchangedBut({"log", "cancel"})

\* add_message, outside the try: without the conversation the run row stays running.
AddQuestion ==
  /\ At("asking")
  /\ IF session
       THEN log' = [log EXCEPT ![run.n].note = "running"] /\ Go("noting_question")
       ELSE run' = NoRun /\ UNCHANGED log
  /\ UnchangedBut({"log"})

LinkQuestion ==
  /\ At("noting_question")
  /\ log' = [log EXCEPT ![run.n].linked = TRUE]
  /\ Go("planning")
  /\ UnchangedBut({"log"})

-----------------------------------------------------------------------------
\* A round: queries, candidates, pages

\* _plan_queries: a model that fails leaves the question itself as the only query.
Plan ==
  /\ At("planning")
  /\ \/ Cancelled
     \/ MayCallModel /\ run' = [run EXCEPT !.at = "retrieving", !.calls = @ + 1] /\ UnchangedBut({})
     \/ EndAs("failed") /\ UnchangedBut({})

\* _local_passages: what the corpus has; a failed retrieval gives nothing.
RetrieveLocal ==
  /\ At("retrieving")
  /\ \E found \in {{}, {r \in Rows : rows[r].state = "kept" /\ rows[r].current /\ rows[r].live}} :
       run' = [run EXCEPT !.at = "providing", !.pool = {<<r, "local">> : r \in found}]
  /\ UnchangedBut({})

\* The fetches this round may still make: two are set aside for the repair round.
RepairShare == IF run.second /\ MaxFetches > 1 THEN IF MaxFetches > 2 THEN 2 ELSE 1 ELSE 0

FetchLimitOf(repair) ==
  IF repair
    THEN IF RepairShare < MaxFetches - run.attempts THEN RepairShare
         ELSE IF run.attempts < MaxFetches THEN MaxFetches - run.attempts ELSE 0
    ELSE MaxFetches - RepairShare
FetchLimit == FetchLimitOf(run.repair)

Observed == {run.seen[i][2] : i \in DOMAIN run.seen}
Pages(urls) == Cardinality(urls \ Containers)

\* bound_candidates; the limit on pages of one host is left out.
Bounded(urls, excluded, limit) ==
  {s \in SUBSET (urls \ excluded) : Cardinality(s) <= limit /\ Pages(s) <= MaxPages - run.pages}

\* The candidates of a round: without any, the round is over.
Schedule(urls) ==
  run' = [run EXCEPT !.at = IF urls # {} THEN "fetching" ELSE IF run.repair THEN "concluding" ELSE "selecting",
                     !.todo = SetToSeq(urls), !.sched = urls, !.limit = FetchLimit,
                     !.attempts = @ + Cardinality(urls), !.round = {}, !.got = <<>>]

\* A provider answers for some of the queries, or for none, which raises.
AskProvider ==
  /\ At("providing")
  /\ \/ Raise
     \/ ~Local /\ cancel /\ EndAs("cancelled")
     \/ ~Local /\ \E urls \in {s \in SUBSET (Urls \ Containers) : Cardinality(s) <= FetchLimit} : Schedule(urls)
  /\ UnchangedBut({})

\* LocalDiscoveryProvider.search, for each query of a round: the frontier is seeded with what is
\* kept, which is read in one step and marked in the next, and then it is searched.
Prepare ==
  /\ ((At("providing") /\ Local) \/ At("querying"))
  /\ IF cancel THEN EndAs("cancelled") ELSE run' = [run EXCEPT !.at = "seeding", !.seeds = CachedUrls]
  /\ UnchangedBut({})

Seed ==
  /\ At("seeding")
  /\ SeedCached(run.seeds)
  /\ run' = [run EXCEPT !.at = "querying", !.seeds = {}]
  /\ UnchangedBut({"cache"})

QueryFrontier ==
  /\ At("querying")
  /\ \E urls \in Bounded(Eligible, Observed, FetchLimit) : Schedule(urls)
  /\ UnchangedBut({})

\* The pool of an external round: every page at once, kept in the order of the candidates.
FetchAll ==
  /\ At("fetching") /\ ~Local
  /\ \/ Cancelled
     \/ Raise /\ UnchangedBut({})
     \/ /\ ~cancel
        /\ \E said \in [Range(run.todo) -> Texts \cup {None}] :
             /\ \A u \in Range(run.todo) : said[u] \in Says[u] \cup {None}
             /\ LET ok == Only(run.todo, {i \in DOMAIN run.todo : said[run.todo[i]] # None})
                IN run' = [run EXCEPT !.at = "storing", !.todo = <<>>, !.sched = {},
                                      !.got = [i \in DOMAIN ok |-> <<ok[i], said[ok[i]]>>]]
        /\ UnchangedBut({})

\* The next candidate of a local round is fetched: more is what its links add to the list.
Fetched(counted, got, more) ==
  run' = [run EXCEPT !.at = "fetching", !.pages = @ + counted,
                     !.tried = IF counted = 1 THEN Append(@, Head(run.todo)) ELSE @,
                     !.todo = Tail(@) \o SetToSeq(more), !.sched = @ \cup more,
                     !.attempts = @ + Cardinality(more), !.got = @ \o got]

\* search_discovered_links, once the page is counted: which of them match is left to chance
FollowUps ==
  {s \in Bounded(Eligible' \ Containers, run.sched \cup Observed, run.limit) :
     /\ Links[Head(run.todo)] = {} => s = {}
     /\ Pages(s) < MaxPages - run.pages}

FetchOne ==
  /\ At("fetching") /\ Local
  /\ IF run.todo = <<>> \/ run.pages >= MaxPages
       THEN run' = [run EXCEPT !.at = "storing", !.todo = <<>>, !.sched = {}] /\ UnchangedBut({})
       ELSE LET u == Head(run.todo) IN
            /\ ~cancel
            /\ UNCHANGED rows
            /\ \/ \E counted \in {0, 1} : Fetched(counted, <<>>, {}) /\ frontier' = MarkFailure(frontier, u, "failed")
               \/ Fetched(0, <<>>, {}) /\ frontier' = MarkFailure(frontier, u, "blocked")
               \/ u \in Containers /\ frontier' = MarkSuccess(DiscoverLinks(u), u) /\ Fetched(0, <<>>, {})
               \/ /\ u \notin Containers
                  /\ frontier' = DiscoverLinks(u)
                  /\ \E text \in Says[u], more \in FollowUps : Fetched(1, <<<<u, text>>>>, more)
               \/ /\ u \notin Containers   \* no text in it, but links
                  /\ frontier' = MarkFailure(DiscoverLinks(u), u, "failed")
                  /\ \E more \in FollowUps : Fetched(1, <<>>, more)
            /\ UnchangedBut({"cache"})

\* A run budget is exhausted: what this round fetched is lost, and its frontier rows are as before.
FetchStops ==
  /\ At("fetching") /\ Local /\ run.todo # <<>> /\ run.pages < MaxPages
  /\ \/ Cancelled
     \/ Raise /\ UnchangedBut({})

\* web_sources.persist: a standing revision with this text is used again.
StoreHit ==
  /\ At("storing") /\ run.got # <<>> /\ ~cancel
  /\ \E r \in CacheHits(run.got[1][1], run.got[1][2]) :
       run' = [run EXCEPT !.got = Tail(@), !.seen = Append(@, <<r, run.got[1][1]>>), !.round = @ \cup {<<r, "web">>},
                          !.fresh = IF rows[r].state = "staged" THEN @ \cup {r} ELSE @]
  /\ UnchangedBut({})

StoreNew ==
  /\ At("storing") /\ run.got # <<>> /\ ~cancel
  /\ CacheHits(run.got[1][1], run.got[1][2]) = {}
  /\ \E r \in Rows : rows[r].state = "absent"
  /\ InsertStaged(FreeRow, run.got[1][1], run.got[1][2])
  /\ run' = [run EXCEPT !.at = "indexing", !.row = FreeRow]
  /\ UNCHANGED frontier /\ UnchangedBut({"cache"})

Index ==
  /\ At("indexing")
  /\ run' = [run EXCEPT !.at = "storing", !.row = 0, !.got = Tail(@), !.seen = Append(@, <<run.row, run.got[1][1]>>),
                        !.round = @ \cup {<<run.row, "web">>}, !.fresh = @ \cup {run.row}]
  /\ IndexStaged(run.row)
  /\ UNCHANGED frontier /\ UnchangedBut({"cache"})

\* An error of the disk or the database is the store's own: the page is marked failed, and a
\* repair round survives it.
StoreError == frontier' = (IF Local THEN MarkFailure(frontier, run.got[1][1], "failed") ELSE frontier) /\ Raise

\* replace_pages fails, and the row stays staged, without chunks: the run does not know of it.
PagesFail ==
  /\ At("indexing")
  /\ UNCHANGED rows /\ StoreError
  /\ UnchangedBut({"cache"})

\* index_document fails: the row is purged.
IndexFails ==
  /\ At("indexing")
  /\ rows' = [rows EXCEPT ![run.row] = Absent]
  /\ \/ StoreError
     \/ UNCHANGED frontier /\ EndAs(IF cancel THEN "cancelled" ELSE "failed")
  /\ UnchangedBut({"cache"})

StoreFails ==
  /\ At("storing") /\ run.got # <<>>
  /\ \/ Cancelled
     \/ ~cancel /\ UNCHANGED rows /\ StoreError /\ UnchangedBut({"cache"})

\* The round ends: its passages join the others, unless a repair found nothing new.
Stored ==
  /\ At("storing") /\ run.got = <<>>
  /\ run' = [run EXCEPT !.at = IF run.repair /\ run.round \subseteq run.pool THEN "concluding" ELSE "selecting",
                        !.pool = @ \cup run.round]
  /\ UnchangedBut({})

-----------------------------------------------------------------------------
\* Evidence

\* _select_evidence and the verification of what it selects. An empty dossier asks no
\* model; a reply that cannot be read selects nothing and is remembered. The second
\* selection adds to what the first one verified.
Select ==
  /\ At("selecting")
  /\ \/ Cancelled
     \/ Raise /\ UnchangedBut({})
     \/ /\ run.pool = {} \/ MayCallModel
        /\ \E verified \in SUBSET PoolRows, more \in BOOLEAN, malformed \in BOOLEAN :
             /\ run.pool = {} => ~more /\ ~malformed
             /\ malformed => verified = {} /\ ~more
             /\ run' = [run EXCEPT !.at = IF more /\ run.second /\ ~run.repair THEN "repairing" ELSE "concluding",
                                   !.calls = IF run.pool = {} THEN @ ELSE @ + 1,
                                   !.picked = @ \cup verified, !.malformed = @ \/ malformed]
        /\ UnchangedBut({})

RepairAffordable_TwoCalls == run.budget - run.calls >= 2
RepairAffordable == run.budget - run.calls >= 3

\* _plan_repair_query: skipped when the budget does not hold another round and the
\* synthesis after it; its query may be one that was asked before.
Repair ==
  /\ At("repairing")
  /\ IF FetchLimitOf(TRUE) = 0 \/ ~RepairAffordable
       THEN Go("concluding")
       ELSE \/ cancel /\ EndAs("cancelled")
            \/ Go("concluding")   \* the model fails, or a budget
            \/ /\ MayCallModel
               /\ \E place \in {"concluding", "providing"} :
                    run' = [run EXCEPT !.at = place, !.repair = place = "providing", !.calls = @ + 1]
  /\ UnchangedBut({})

\* Verified evidence is synthesized. Without any, a malformed selection gives the results
\* only, and a local Search still keeps the pages it stored before it fails.
Conclude ==
  /\ At("concluding")
  /\ LET over == [run EXCEPT !.repair = FALSE] IN
     IF run.picked # {} THEN run' = [over EXCEPT !.at = "synthesizing"]
     ELSE IF ~run.malformed /\ ~Local THEN EndAs("failed")
     ELSE IF cancel THEN EndAs("cancelled") ELSE run' = [over EXCEPT !.at = "promoting"]
  /\ UnchangedBut({})

Synthesize ==
  /\ At("synthesizing")
  /\ \/ Cancelled
     \/ EndAs("failed") /\ UnchangedBut({})
     \/ /\ MayCallModel
        /\ \E used \in (SUBSET run.picked) \ {{}} :   \* evidence may be trimmed to fit
             run' = [run EXCEPT !.at = "promoting", !.calls = @ + 1, !.picked = used]
        /\ UnchangedBut({})

-----------------------------------------------------------------------------
\* The end of a run

ResultsOnly == run.picked = {} /\ run.malformed
AfterPromotion == IF ResultsOnly THEN "answering" ELSE IF run.picked = {} THEN "undoing" ELSE "evidencing"

\* finalize_success, or _finalize_local_observations; the end of a run without evidence is a failure.
FinalizeRun ==
  /\ At("promoting")
  /\ IF ~Local THEN FinalizeSuccess(run.seen) /\ Go(AfterPromotion)
     ELSE IF run.seen = <<>>
       THEN UNCHANGED cacheVars /\ run' = [run EXCEPT !.at = AfterPromotion, !.ending = "failed"]
     ELSE IF cancel THEN UNCHANGED cacheVars /\ EndAs("cancelled")
     ELSE FinalizePages(run.seen) /\ Go("resyncing")
  /\ UnchangedBut({"cache"})

\* LocalSearchIndex.sync tests the cancel event for each row of the corpus, which is not empty.
ResyncIndex ==
  /\ At("resyncing")
  /\ IF cancel THEN EndAs("cancelled")
     ELSE run' = [run EXCEPT !.at = AfterPromotion, !.ending = "failed"]
  /\ UnchangedBut({})

PersistEvidence ==
  /\ At("evidencing")
  /\ log' = [log EXCEPT ![run.n].evidence = run.picked]
  /\ Go("answering")
  /\ UnchangedBut({"log"})

AddAnswer ==
  /\ At("answering")
  /\ IF session
       THEN /\ log' = [log EXCEPT ![run.n].answer = TRUE, ![run.n].resultsOnly = ResultsOnly]
            /\ Go(IF ResultsOnly THEN "titling" ELSE "linking")
       ELSE UNCHANGED log /\ EndAs("failed")
  /\ UnchangedBut({"log"})

\* link_message raises when a document of the evidence was deleted.
LinkDocuments ==
  /\ At("linking")
  /\ IF \E r \in run.picked : rows[r].state = "deleted" THEN EndAs("failed") ELSE Go("titling")
  /\ UnchangedBut({})

TitleSession ==
  /\ At("titling")
  /\ IF session THEN Go("completing") ELSE EndAs("failed")
  /\ UnchangedBut({})

\* _complete_run, of a Search that succeeded or ended as an exception; then the mark on the question.
CompleteRun(status) == log' = [log EXCEPT ![run.n].status = status]

Complete ==
  /\ At("completing")
  /\ CompleteRun("completed")
  /\ run' = [run EXCEPT !.at = "marking", !.ending = "completed"]
  /\ UnchangedBut({"log"})

Undo ==
  /\ At("undoing")
  /\ RollbackNew(run.fresh)
  /\ Go("closing")
  /\ UnchangedBut({"cache"})

CloseFailed ==
  /\ At("closing")
  /\ CompleteRun(run.ending)
  /\ Go("marking")
  /\ UnchangedBut({"log"})

MarkQuestion ==
  /\ At("marking")
  /\ log' = [log EXCEPT ![run.n].note = IF session THEN run.ending ELSE @]
  /\ run' = NoRun
  /\ UnchangedBut({"log"})

-----------------------------------------------------------------------------
\* The user, the clock and the process

Cancel ==
  /\ up /\ run.at # "idle" /\ ~cancel
  /\ cancel' = TRUE
  /\ UNCHANGED run /\ UnchangedBut({"cancel"})

DeletePage(r) ==
  /\ up /\ deleting = 0 /\ rows[r].state = "kept"
  /\ DropChunks(r)
  /\ deleting' = r
  /\ UNCHANGED <<run, session>> /\ UnchangedBut({"cache", "user"})

FinishDelete ==
  /\ up /\ deleting # 0
  /\ MarkDeleted(deleting)
  /\ deleting' = 0
  /\ UNCHANGED <<run, session>> /\ UnchangedBut({"cache", "user"})

\* Messages go with the conversation; run rows and evidence stay.
DeleteSession ==
  /\ up /\ session
  /\ session' = FALSE
  /\ log' = [n \in RunIds |-> [log[n] EXCEPT !.note = IF @ = None THEN @ ELSE "gone", !.answer = FALSE]]
  /\ UNCHANGED <<run, deleting>> /\ UnchangedBut({"log", "user"})

\* The shortest retry delay is longer than a Search may take.
RetryComes ==
  /\ At("idle")
  /\ \E u \in Urls :
       /\ ~frontier[u].due
       /\ frontier' = [frontier EXCEPT ![u].due = TRUE]
  /\ UNCHANGED <<rows, run>> /\ UnchangedBut({"cache"})

Crash ==
  /\ up /\ (run.at # "idle" \/ deleting # 0)
  /\ up' = FALSE
  /\ run' = NoRun /\ deleting' = 0 /\ cancel' = FALSE
  /\ UNCHANGED session /\ UnchangedBut({"up", "cancel", "user"})

\* recover_interrupted_search_runs, then the purge of repair_startup_state
RecoverRuns_Unlinked ==
  log' = [n \in RunIds |-> IF log[n].status = "running" THEN [log[n] EXCEPT !.note = "interrupted"] ELSE log[n]]
RecoverRuns ==
  log' = [n \in RunIds |-> IF log[n].status # "running" THEN log[n]
            ELSE [log[n] EXCEPT !.status = "interrupted",
                                !.note = IF log[n].linked /\ @ # "gone" THEN "interrupted" ELSE @]]

Restart ==
  /\ ~up /\ up' = TRUE
  /\ RecoverRuns
  /\ PurgeStaged
  /\ UNCHANGED run /\ UnchangedBut({"log", "cache", "up"})

-----------------------------------------------------------------------------
SearchInit ==
  /\ CacheInit
  /\ run = NoRun
  /\ log = [n \in RunIds |-> NoLog]
  /\ session = TRUE /\ deleting = 0 /\ cancel = FALSE /\ up = TRUE

Work ==
  \/ AddQuestion \/ LinkQuestion \/ Plan \/ RetrieveLocal \/ AskProvider \/ Prepare \/ Seed \/ QueryFrontier
  \/ FetchAll \/ FetchOne \/ FetchStops \/ StoreHit \/ StoreNew \/ Index \/ PagesFail \/ IndexFails \/ StoreFails
  \/ Stored \/ Select \/ Repair \/ Conclude \/ Synthesize \/ FinalizeRun \/ ResyncIndex \/ PersistEvidence \/ AddAnswer \/ LinkDocuments \/ TitleSession
  \/ Complete \/ Undo \/ CloseFailed \/ MarkQuestion

SearchNext ==
  \/ \E mode \in Modes, second \in BOOLEAN, calls \in CallBudgets : Begin(mode, second, calls)
  \/ Work
  \/ Cancel \/ DeleteSession \/ RetryComes \/ Crash \/ Restart \/ FinishDelete
  \/ \E r \in Rows : DeletePage(r)

SearchSpec == SearchInit /\ [][SearchNext]_searchVars

-----------------------------------------------------------------------------
\* Properties

\* What a Search keeps is usable and single: a page has at most one current revision and
\* one revision with the same text, a superseded one cannot be retrieved, what is retrieved was
\* indexed, and between Searches nothing is staged but a page that could not be written.
CacheIsSound ==
  /\ CacheTypeOK
  /\ \A u \in Urls : Cardinality(CurrentRows(u)) <= 1
  /\ \A r, q \in Rows : Stands(r) /\ Stands(q) /\ rows[r].url = rows[q].url /\ rows[r].text = rows[q].text => r = q
  /\ \A r \in Rows : rows[r].state = "kept" /\ rows[r].live => rows[r].current /\ rows[r].indexed
  /\ up /\ run.at = "idle" => \A r \in Rows : rows[r].state = "staged" => ~rows[r].indexed

\* A page that could not be stored is not promoted (docs/search-v1-local-discovery.md): what the
\* cache keeps has its pages and chunks. Its row stays staged, and a later Search finds it by its
\* text, takes it for a page that was stored and promotes it (persist, finalize_success).
KeptWasIndexed == \A r \in Rows : rows[r].state = "kept" => rows[r].indexed

\* The counted budgets: a Search that has evidence can always pay for its synthesis, whatever
\* the repair round cost, an external one never plans more fetches than it may, and a local
\* one never fetches more pages, nor one of them twice, through follow-up links, failures and
\* the repair round.
BudgetsHold ==
  /\ run.calls <= run.budget
  /\ run.at = "synthesizing" => run.calls < run.budget
  /\ run.mode = "external" => run.attempts <= MaxFetches
  /\ run.pages <= MaxPages
  /\ Local => IsInjective(run.tried)

\* What a run's row, its messages and its evidence say of it agree: a completed one was answered,
\* unless the conversation is gone, and every quote of its answer has a source row, even a
\* deleted one; the mark on the question is the outcome or not yet written; only a
\* run in hand, or one whose conversation went before its question, is still running.
RunsAgree ==
  \A n \in RunIds :
    /\ log[n].status = "completed" =>
         /\ log[n].answer \/ ~session
         /\ log[n].resultsOnly <=> log[n].evidence = {}
         /\ \A r \in log[n].evidence : rows[r].state \in {"kept", "deleted"}
    /\ log[n].note \in {None, "gone", "running", log[n].status}
    /\ log[n].status = "running" => run.n = n \/ ~up \/ ~session

=============================================================================
