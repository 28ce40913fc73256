---------------------------- MODULE SearchProofs ----------------------------
(***************************************************************************)
(* Theorems of SearchRun for any pages, links and texts, any number of     *)
(* Searches and any budgets.                                               *)
(***************************************************************************)
EXTENDS SearchRun, DataProofs

RunModes == {None, "external", "local"}
Endings == Ended \cup {None}
Runs ==
  [at : Places, n : 0..MaxRuns, mode : RunModes, second : BOOLEAN, budget : Nat,
   repair : BOOLEAN, calls : Nat, attempts : Nat, limit : Nat, pages : Nat, tried : Seq(Urls),
   seeds : SUBSET Urls, todo : Seq(Urls), sched : SUBSET Urls, got : Seq(Urls \X Texts), row : 0..MaxRows,
   fresh : SUBSET Rows, seen : Seq(Rows \X Urls), pool : SUBSET (Rows \X {"local", "web"}),
   round : SUBSET (Rows \X {"local", "web"}), picked : SUBSET Rows, malformed : BOOLEAN,
   ending : Endings]

Logs ==
  [status : Ended \cup {None, "running"}, note : Ended \cup {None, "running", "gone"}, linked : BOOLEAN,
   answer : BOOLEAN, resultsOnly : BOOLEAN, evidence : SUBSET Rows]

SearchTypeOK ==
  /\ CacheTypeOK /\ run \in Runs /\ log \in [RunIds -> Logs]
  /\ session \in BOOLEAN /\ deleting \in 0..MaxRows /\ cancel \in BOOLEAN /\ up \in BOOLEAN

-----------------------------------------------------------------------------
\* The places of a run before its first page, in its rounds, between them and the promotion, and after it

Early == {"asking", "noting_question", "planning", "retrieving"}
Rounds == {"providing", "seeding", "querying", "fetching", "storing", "indexing", "selecting", "repairing"}
Over == {"concluding", "synthesizing", "promoting"}
Late == {"resyncing", "evidencing", "answering", "linking", "titling", "completing"}
Closing == {"undoing", "closing", "marking"}

SeenRows == {run.seen[i][1] : i \in DOMAIN run.seen}

\* A run that is not there has no locals, and one that is has its row, its mode and its budget.
RunPlaced ==
  /\ run.at = "idle" \/ ~up => run = NoRun
  /\ ~up => deleting = 0
  /\ run.at # "idle" => run.n \in RunIds /\ run.mode \in Modes /\ run.budget \in 3..5
  /\ run.at \in Early => run.seen = <<>> /\ run.fresh = {} /\ run.picked = {} /\ run.round = {} /\ run.pool = {}
  /\ run.at \in Early \cup {"providing", "seeding", "querying", "selecting", "repairing"} => run.got = <<>>
  /\ run.at = "indexing" => run.got # <<>>
  /\ run.at \in {"seeding", "querying"} => Local

\* What the rows of a table say of one another
StandsIn(rs, r) == rs[r].state \in {"staged", "kept"}
OneCurrent(rs) ==
  \A r, q \in Rows : StandsIn(rs, r) /\ StandsIn(rs, q) /\ rs[r].url = rs[q].url /\ rs[r].current /\ rs[q].current => r = q
OneOfEachText(rs) ==
  \A r, q \in Rows : StandsIn(rs, r) /\ StandsIn(rs, q) /\ rs[r].url = rs[q].url /\ rs[r].text = rs[q].text => r = q
LiveIsCurrent(rs) == \A r \in Rows : rs[r].state = "kept" /\ rs[r].live => rs[r].current /\ rs[r].indexed

RowsSound ==
  /\ OneCurrent(rows) /\ OneOfEachText(rows) /\ LiveIsCurrent(rows)
  /\ \A r \in Rows : rows[r].state # "absent" => rows[r].url \in Urls
  /\ deleting # 0 => rows[deleting].state = "kept"

\* The rows a run has in hand: what it saw is stored under the URL it was seen at, what is staged with its
\* chunks it can take back and has seen, and a row being indexed is staged, without chunks and not yet seen.
RowsInHand ==
  /\ run.at \in Rounds \cup Over => \A i \in DOMAIN run.seen : rows[run.seen[i][1]].state # "absent" /\ rows[run.seen[i][1]].url = run.seen[i][2]
  /\ run.at = "indexing" => run.row # 0 /\ rows[run.row].state = "staged" /\ rows[run.row].url = run.got[1][1] /\ ~rows[run.row].indexed /\ run.row \notin SeenRows
  /\ up => \A r \in Rows : rows[r].state = "staged" =>
       ~rows[r].indexed \/ (run.at \in Rounds \cup Over \cup {"undoing"} /\ r \in run.fresh)
  /\ run.at \in Rounds \cup Over => run.fresh \subseteq SeenRows

\* What may become evidence is a page that is kept, or was, or one this run has seen.
PoolStands ==
  run.at \in Early \cup Rounds \cup Over =>
    /\ \A p \in run.round : p[1] \in SeenRows
    /\ \A r \in PoolRows \cup run.picked : r \in SeenRows \/ rows[r].state \in {"kept", "deleted"}

-----------------------------------------------------------------------------
\* Model calls: what a repair round may still cost has been set aside.
CallsFunded ==
  /\ run.calls <= run.budget
  /\ run.at \in {"asking", "noting_question", "planning"} => run.calls = 0
  /\ run.at = "retrieving" => run.calls <= 1
  /\ run.at \in Early => ~run.repair
  /\ run.at = "repairing" => run.calls <= 2 /\ ~run.repair
  /\ run.at \in Rounds \ {"repairing"} => (IF run.repair THEN run.calls <= run.budget - 2 ELSE run.calls <= 1)
  /\ run.at \in {"concluding", "synthesizing"} => run.calls < run.budget

FetchesFunded ==
  /\ run.mode = "external" => run.attempts <= MaxFetches
  /\ run.at \in Early \/ (run.at = "providing" /\ ~run.repair) => run.attempts = 0
  /\ run.pages <= MaxPages

-----------------------------------------------------------------------------
\* Local Searches: what is to be fetched, and what cannot be fetched again

KeptCurrent(u) == \E r \in Rows : rows[r].state = "kept" /\ rows[r].current /\ rows[r].url = u
Barred(u) == frontier[u].status \in {"failed", "blocked"} /\ ~frontier[u].due /\ ~KeptCurrent(u)
GotUrls == {run.got[i][1] : i \in DOMAIN run.got}

CachedIsFetched == \A u \in Urls : KeptCurrent(u) => frontier[u].status = "fetched"

\* A page that was tried is seen, in hand, or failed and not to be tried again before the run is over.
TriedOnce ==
  /\ Local => IsInjective(run.tried)
  /\ run.at \in Early => run.tried = <<>>
  /\ run.at \in Rounds /\ Local => \A u \in Range(run.tried) : u \in Observed \cup GotUrls \/ Barred(u)
  /\ run.at = "seeding" =>
       /\ \A u \in Urls : KeptCurrent(u) => u \in run.seeds
       /\ \A u \in Range(run.tried) : u \in Observed \cup GotUrls \/ u \notin run.seeds
  /\ run.at \in {"querying", "fetching"} /\ Local => CachedIsFetched
  /\ run.at = "fetching" /\ Local =>
       /\ IsInjective(run.todo) /\ Range(run.todo) \subseteq run.sched /\ GotUrls \subseteq run.sched
       /\ Range(run.tried) \cap Range(run.todo) = {}
       /\ \A u \in Range(run.todo) : frontier[u].status # "unknown" /\ ~KeptCurrent(u)

-----------------------------------------------------------------------------
\* The row of a run, its messages and its evidence
Told(n) ==
  /\ log[n].status = None => log[n] = NoLog
  /\ log[n].status = "completed" =>
       /\ log[n].answer \/ ~session
       /\ log[n].resultsOnly <=> log[n].evidence = {}
  /\ \A r \in log[n].evidence : rows[r].state \in {"kept", "deleted"}
  /\ log[n].note \in {None, "gone", "running", log[n].status}
  /\ log[n].status = "running" => run.n = n \/ ~up \/ ~session

\* What the run in hand has written of itself
Telling ==
  /\ run.at \notin {"idle", "marking"} => log[run.n].status = "running"
  /\ run.at = "marking" => log[run.n].status = run.ending /\ run.ending \in Ended
  /\ run.at = "undoing" \/ run.at = "closing" => run.ending \in {"failed", "cancelled"}
  /\ run.at \in {"resyncing", "evidencing", "answering", "linking", "titling", "completing"} =>
       /\ run.picked = {} /\ run.at # "resyncing" => run.malformed
       /\ \A r \in run.picked : rows[r].state \in {"kept", "deleted"}
  /\ run.at = "promoting" /\ ~Local /\ run.picked = {} => run.malformed
  /\ run.at = "evidencing" => run.picked # {}
  /\ run.at = "resyncing" => Local
  /\ run.at \in {"answering", "linking", "titling", "completing"} => log[run.n].evidence = run.picked
  /\ run.at \notin {"idle", "answering", "linking", "titling", "completing", "undoing", "closing", "marking"} => log[run.n].evidence = {}
  /\ run.at \in {"linking", "titling", "completing"} =>
       /\ log[run.n].answer \/ ~session
       /\ log[run.n].resultsOnly <=> log[run.n].evidence = {}

RunsTold == Telling /\ \A n \in RunIds : Told(n)

SearchInv ==
  /\ SearchTypeOK /\ RunPlaced
  /\ RowsSound /\ RowsInHand /\ PoolStands
  /\ CallsFunded /\ FetchesFunded /\ TriedOnce
  /\ RunsTold

-----------------------------------------------------------------------------
\* Records and sets of URLs

LEMMA RunRecords ==
  ASSUME run \in Runs
  PROVE  /\ run.at \in Places /\ run.n \in 0..MaxRuns /\ run.mode \in RunModes
         /\ run.budget \in Nat /\ run.calls \in Nat /\ run.attempts \in Nat /\ run.limit \in Nat /\ run.pages \in Nat
         /\ run.tried \in Seq(Urls) /\ run.seeds \subseteq Urls /\ run.todo \in Seq(Urls) /\ run.sched \subseteq Urls
         /\ run.got \in Seq(Urls \X Texts) /\ run.row \in 0..MaxRows /\ run.fresh \subseteq Rows
         /\ run.seen \in Seq(Rows \X Urls) /\ run.picked \subseteq Rows
         /\ run.pool \subseteq Rows \X {"local", "web"} /\ run.round \subseteq Rows \X {"local", "web"}
         /\ run.second \in BOOLEAN /\ run.repair \in BOOLEAN /\ run.malformed \in BOOLEAN /\ run.ending \in Endings
  BY DEF Runs

LEMMA NoRunRecord == NoRun \in Runs
<1>1. /\ "idle" \in Places /\ 0 \in 0..MaxRuns /\ 0 \in 0..MaxRows /\ 0 \in Nat
  BY SearchAssumption, WebAssumption DEF Places
<1>2. <<>> \in Seq(Urls) /\ <<>> \in Seq(Urls \X Texts) /\ <<>> \in Seq(Rows \X Urls)
  OBVIOUS
<1> QED BY <1>1, <1>2 DEF Runs, NoRun, None, RunModes, Endings

LEMMA PlaceNames ==
  /\ "idle" \in Places /\ "asking" \in Places /\ "noting_question" \in Places /\ "planning" \in Places /\ "retrieving" \in Places
  /\ "seeding" \in Places /\ "providing" \in Places /\ "querying" \in Places /\ "fetching" \in Places /\ "storing" \in Places /\ "indexing" \in Places
  /\ "selecting" \in Places /\ "repairing" \in Places /\ "concluding" \in Places /\ "synthesizing" \in Places /\ "promoting" \in Places
  /\ "resyncing" \in Places /\ "evidencing" \in Places /\ "answering" \in Places /\ "linking" \in Places /\ "titling" \in Places
  /\ "completing" \in Places /\ "marking" \in Places /\ "undoing" \in Places /\ "closing" \in Places
  BY DEF Places

\* The row a new page takes is the first that is free.
LEMMA FreeRowIs ==
  ASSUME \E r \in Rows : rows[r].state = "absent"
  PROVE  FreeRow \in Rows /\ rows[FreeRow].state = "absent"
<1> DEFINE Free == {r \in Rows : rows[r].state = "absent"}
<1>1. Free # {} /\ Free \in SUBSET Nat
  BY WebAssumption DEF Rows
<1>2. \E m \in Free : \A r \in Free : m <= r
  <2> HIDE DEF Free
  <2> QED BY <1>1, LeastElement
<1>3. \E r \in Rows : rows[r].state = "absent" /\ \A q \in Rows : rows[q].state = "absent" => r <= q
  BY <1>2
<1> QED BY <1>3 DEF FreeRow

LEMMA LimitIsNumber ==
  ASSUME run \in Runs, NEW repair \in BOOLEAN
  PROVE  FetchLimitOf(repair) \in Nat
  BY SearchAssumption DEF FetchLimitOf, RepairShare, Runs

\* What an external round fetched: the candidates that said something, with what they said
FetchedOf(ok, said) == [i \in DOMAIN ok |-> <<ok[i], said[ok[i]]>>]

LEMMA SaidIs ==
  ASSUME NEW todo \in Seq(Urls), NEW said, \A u \in Range(todo) : said[u] \in Says[u] \cup {None}, NEW T,
         T = {i \in DOMAIN todo : said[todo[i]] # None}
  PROVE  FetchedOf(Only(todo, T), said) \in Seq(Urls \X Texts)
<1> DEFINE ok == Only(todo, T)
<1>0. KeptFrom(ok, Urls, todo, T)
  BY OnlyItems
<1> HIDE DEF ok
<1>1. ok \in Seq(Urls) /\ \A k \in 1..Len(ok) : \E i \in 1..Len(todo) : i \in T /\ ok[k] = todo[i]
  BY <1>0 DEF KeptFrom
<1>2. Len(ok) \in Nat /\ DOMAIN ok = 1..Len(ok)
  BY <1>1
<1>3. ASSUME NEW k \in 1..Len(ok) PROVE <<ok[k], said[ok[k]]>> \in Urls \X Texts
  <2>1. PICK i \in 1..Len(todo) : i \in T /\ ok[k] = todo[i]
    BY <1>1
  <2>2. todo[i] \in Urls /\ todo[i] \in Range(todo) /\ said[todo[i]] # None
    BY <2>1 DEF Range
  <2>3. said[todo[i]] \in Says[todo[i]]
    BY <2>2
  <2> QED BY <2>1, <2>2, <2>3 DEF Texts
<1>4. [i \in DOMAIN ok |-> <<ok[i], said[ok[i]]>>] \in Seq(Urls \X Texts)
  BY <1>2, <1>3
<1> QED BY <1>4 DEF ok, FetchedOf

LEMMA SubsetsOfUrls ==
  ASSUME NEW urls \in SUBSET Urls
  PROVE  /\ IsFiniteSet(urls) /\ Cardinality(urls) \in Nat
         /\ SetToSeq(urls) \in Seq(Urls) /\ IsInjective(SetToSeq(urls)) /\ Range(SetToSeq(urls)) = urls
<1>1. IsFiniteSet(urls) /\ Cardinality(urls) \in Nat
  BY WebAssumption, FS_Subset, FS_CardinalityType
<1>2. SetToSeq(urls) \in Seq(urls) /\ IsInjective(SetToSeq(urls)) /\ Range(SetToSeq(urls)) = urls
  BY <1>1, SetToSeqIs
<1> QED BY <1>1, <1>2

-----------------------------------------------------------------------------
\* What promoting the revisions a run has seen makes of the rows

LEMMA PromoteIs ==
  ASSUME NEW old \in [Rows -> PageRows], NEW r \in Rows, NEW u
  PROVE  /\ Promote(old, r, u) \in [Rows -> PageRows]
         /\ \A q \in Rows :
              LET new == Promote(old, r, u)[q] IN
              /\ new.url = old[q].url /\ new.text = old[q].text /\ new.indexed = old[q].indexed
              /\ new.state = IF q = r /\ old[q].state = "staged" THEN "kept" ELSE old[q].state
              /\ q = r => new.current /\ (new.live <=> old[q].indexed)
              /\ q # r /\ StandsIn(old, q) /\ old[q].url = u /\ old[q].current => ~new.current /\ ~new.live
              /\ q # r /\ ~(StandsIn(old, q) /\ old[q].url = u /\ old[q].current) => new = old[q]
<1> DEFINE First == [old[r] EXCEPT !.state = IF @ = "staged" THEN "kept" ELSE @, !.current = TRUE, !.live = old[r].indexed]
           Other(q) == [old[q] EXCEPT !.current = FALSE, !.live = FALSE]
<1>1. /\ First \in PageRows /\ First.url = old[r].url /\ First.text = old[r].text /\ First.indexed = old[r].indexed
      /\ First.current /\ First.live = old[r].indexed
      /\ First.state = IF old[r].state = "staged" THEN "kept" ELSE old[r].state
  BY DEF PageRows
<1>2. \A q \in Rows : /\ Other(q) \in PageRows /\ Other(q).url = old[q].url /\ Other(q).text = old[q].text
                      /\ Other(q).indexed = old[q].indexed /\ ~Other(q).current /\ ~Other(q).live /\ Other(q).state = old[q].state
  BY DEF PageRows
<1>3. \A q \in Rows : Promote(old, r, u)[q] =
        IF q = r THEN First ELSE IF StandsIn(old, q) /\ old[q].url = u /\ old[q].current THEN Other(q) ELSE old[q]
  BY DEF Promote, StandsIn
<1> HIDE DEF First, Other
<1>4. \A q \in Rows : Promote(old, r, u)[q] \in PageRows
  BY <1>1, <1>2, <1>3
<1>5. Promote(old, r, u) = [q \in Rows |-> Promote(old, r, u)[q]]
  BY DEF Promote
<1>6. Promote(old, r, u) \in [Rows -> PageRows]
  <2> DEFINE new == Promote(old, r, u)
  <2> HIDE DEF new
  <2> QED BY <1>4, <1>5 DEF new
<1> QED BY <1>1, <1>2, <1>3, <1>6 DEF StandsIn

\* The tables after each of the promotions
LEMMA PromotionsExist ==
  ASSUME rows \in [Rows -> PageRows], NEW seen \in Seq(Rows \X Urls)
  PROVE  \E promoted \in [0..Len(seen) -> [Rows -> PageRows]] :
           /\ PromoteAll(seen) = promoted[Len(seen)] /\ promoted[0] = rows
           /\ \A i \in 1..Len(seen) : promoted[i] = Promote(promoted[i - 1], seen[i][1], seen[i][2])
<1> DEFINE n == Len(seen)
           Tables == [Rows -> PageRows]
           Next(i, old) == IF i = 0 THEN rows ELSE Promote(old, seen[i][1], seen[i][2])
           step == [i \in 0..n |-> [f \in [0..n -> Tables] |-> Next(i, f[i - 1])]]
           Is(g) == g = [i \in 0..n |-> IF i = 0 THEN rows ELSE Promote(g[i - 1], seen[i][1], seen[i][2])]
<1>1. n \in Nat /\ rows \in Tables
  OBVIOUS
<1>2. ASSUME NEW i \in 0..n, NEW old, i # 0 => old \in Tables PROVE Next(i, old) \in Tables
  <2>1. CASE i = 0
    BY <2>1
  <2>2. CASE i # 0
    <3>1. seen[i] \in Rows \X Urls
      BY <2>2
    <3>2. seen[i][1] \in Rows
      BY <3>1
    <3> QED BY <1>2, <2>2, <3>2, PromoteIs
  <2> QED BY <2>1, <2>2
<1> HIDE DEF Next, Tables
<1>3. ASSUME NEW i \in 0..n, NEW f \in [0..n -> Tables]
      PROVE  (i # 0 => f[i - 1] \in Tables) /\ step[i][f] = Next(i, f[i - 1]) /\ Next(i, f[i - 1]) \in Tables
  <2>1. i # 0 => i - 1 \in 0..n
    BY <1>1
  <2>2. i # 0 => f[i - 1] \in Tables
    BY <2>1
  <2>3. Next(i, f[i - 1]) \in Tables
    BY <1>2, <2>2
  <2> QED BY <2>2, <2>3
<1>4. step \in [0..n -> [[0..n -> Tables] -> Tables]]
  BY <1>3
<1>5. LooksBack(n, Tables, step)
  <2> SUFFICES ASSUME NEW i \in 0..n, NEW f \in [0..n -> Tables], NEW g \in [0..n -> Tables], \A j \in 0..(i - 1) : f[j] = g[j]
      PROVE  step[i][f] = step[i][g]
    BY DEF LooksBack
  <2>1. i # 0 => f[i - 1] = g[i - 1]
    BY <1>1
  <2>2. Next(i, f[i - 1]) = Next(i, g[i - 1])
    BY <2>1 DEF Next
  <2> QED BY <1>3, <2>2
<1> HIDE DEF step
<1>6. PICK f : IsRecursive(n, Tables, step, f)
  <2> HIDE DEF n
  <2> QED BY <1>1, <1>4, <1>5, RecursionExists
<1>7. f \in [0..n -> Tables] /\ \A i \in 0..n : f[i] = Next(i, f[i - 1])
  BY <1>3, <1>6 DEF IsRecursive
<1>8. Is(f)
  BY <1>7 DEF Next
<1> DEFINE promoted == CHOOSE g : Is(g)
<1>9. Is(promoted)
  <2> HIDE DEF Is
  <2> QED BY <1>8
<1>10. PromoteAll(seen) = promoted[n]
  BY DEF PromoteAll
<1>11. promoted = f
  <2> DEFINE same == {i \in 0..n : promoted[i] = f[i]}
  <2> HIDE DEF promoted
  <2>1. \A i \in 0..n : promoted[i] = Next(i, promoted[i - 1])
    BY <1>9 DEF Next
  <2>2. 0 \in same
    BY <2>1, <1>7, <1>1 DEF Next
  <2>3. ASSUME NEW i \in 0..(n - 1), i \in same PROVE i + 1 \in same
    <3>1. i + 1 \in 0..n /\ (i + 1) - 1 = i /\ promoted[i] = f[i]
      BY <1>1, <2>3
    <3> QED BY <3>1, <2>1, <1>7
  <2>4. same = 0..n
    <3>1. same \in SUBSET (0..n)
      OBVIOUS
    <3> HIDE DEF same
    <3> QED BY <3>1, <2>2, <2>3, <1>1, UpFromZero
  <2>5. promoted = [i \in 0..n |-> promoted[i]]
    BY <1>9
  <2> QED BY <2>4, <2>5, <1>7
<1>12. f[0] = rows /\ \A i \in 1..n : f[i] = Promote(f[i - 1], seen[i][1], seen[i][2])
  BY <1>1, <1>7 DEF Next
<1> QED BY <1>7, <1>10, <1>11, <1>12 DEF Tables

LEMMA PromoteAllIs ==
  ASSUME rows \in [Rows -> PageRows], NEW seen \in Seq(Rows \X Urls), OneCurrent(rows), LiveIsCurrent(rows),
         \A i \in 1..Len(seen) : rows[seen[i][1]].url = seen[i][2]
  PROVE  LET new == PromoteAll(seen) IN
         /\ new \in [Rows -> PageRows] /\ OneCurrent(new) /\ LiveIsCurrent(new)
         /\ \A r \in Rows :
              /\ new[r].url = rows[r].url /\ new[r].text = rows[r].text /\ new[r].indexed = rows[r].indexed
              /\ new[r].state = IF rows[r].state = "staged" /\ \E i \in 1..Len(seen) : seen[i][1] = r THEN "kept" ELSE rows[r].state
<1>1. PICK promoted \in [0..Len(seen) -> [Rows -> PageRows]] :
        /\ PromoteAll(seen) = promoted[Len(seen)] /\ promoted[0] = rows
        /\ \A i \in 1..Len(seen) : promoted[i] = Promote(promoted[i - 1], seen[i][1], seen[i][2])
  BY PromotionsExist
<1> DEFINE n == Len(seen)
           Ok(i, new) ==
             /\ OneCurrent(new) /\ LiveIsCurrent(new)
             /\ \A r \in Rows :
                  /\ new[r].url = rows[r].url /\ new[r].text = rows[r].text /\ new[r].indexed = rows[r].indexed
                  /\ new[r].state = IF rows[r].state = "staged" /\ \E j \in 1..i : seen[j][1] = r THEN "kept" ELSE rows[r].state
           good == {i \in 0..n : Ok(i, promoted[i])}
<1>2. n \in Nat
  OBVIOUS
<1>3. 0 \in good
  BY <1>1, <1>2
<1>4. ASSUME NEW i \in 0..(n - 1), i \in good PROVE i + 1 \in good
  <2> DEFINE old == promoted[i]
             new == promoted[i + 1]
             p == seen[i + 1][1]
             u == seen[i + 1][2]
  <2>1. i \in 0..n /\ i + 1 \in 1..n /\ i + 1 \in 0..n /\ (i + 1) - 1 = i /\ old \in [Rows -> PageRows] /\ Ok(i, old)
    <3>1. i \in 0..n /\ i + 1 \in 1..n /\ i + 1 \in 0..n /\ (i + 1) - 1 = i
      BY <1>2
    <3> HIDE DEF Ok
    <3>2. old \in [Rows -> PageRows] /\ Ok(i, old)
      BY <1>4, <3>1
    <3> QED BY <3>1, <3>2
  <2>2. new = Promote(old, p, u)
    BY <1>1, <2>1
  <2>3. p \in Rows /\ rows[p].url = u
    BY <2>1
  <2>4. \A j \in 1..(i + 1) : j = i + 1 \/ j \in 1..i
    BY <2>1
  <2>5. \A j \in 1..i : j \in 1..(i + 1)
    BY <2>1
  <2>6. i + 1 \in 1..(i + 1)
    BY <2>1
  <2> HIDE DEF n
  <2>7. \A q \in Rows :
         /\ new[q].url = old[q].url /\ new[q].text = old[q].text /\ new[q].indexed = old[q].indexed
         /\ new[q].state = IF q = p /\ old[q].state = "staged" THEN "kept" ELSE old[q].state
         /\ q = p => new[q].current /\ (new[q].live <=> old[q].indexed)
         /\ q # p /\ StandsIn(old, q) /\ old[q].url = u /\ old[q].current => ~new[q].current /\ ~new[q].live
         /\ q # p /\ ~(StandsIn(old, q) /\ old[q].url = u /\ old[q].current) => new[q] = old[q]
    <3>1. old \in [Rows -> PageRows] /\ p \in Rows
      BY <2>1, <2>3
    <3> HIDE DEF old, new, p, u, Ok
    <3> QED BY <2>2, <3>1, PromoteIs
  <2> HIDE DEF old, new, p, u
  <2>8. OneCurrent(new)
    BY <2>1, <2>3, <2>7 DEF OneCurrent, StandsIn
  <2>9. LiveIsCurrent(new)
    BY <2>1, <2>7 DEF LiveIsCurrent, StandsIn
  <2>10. ASSUME NEW r \in Rows
         PROVE  /\ new[r].url = rows[r].url /\ new[r].text = rows[r].text /\ new[r].indexed = rows[r].indexed
                /\ new[r].state = IF rows[r].state = "staged" /\ \E j \in 1..(i + 1) : seen[j][1] = r THEN "kept" ELSE rows[r].state
    <3>1. (\E j \in 1..(i + 1) : seen[j][1] = r) <=> (\E j \in 1..i : seen[j][1] = r) \/ p = r
      BY <2>4, <2>5, <2>6 DEF p
    <3>2. /\ old[r].url = rows[r].url /\ old[r].text = rows[r].text /\ old[r].indexed = rows[r].indexed
          /\ old[r].state = IF rows[r].state = "staged" /\ \E j \in 1..i : seen[j][1] = r THEN "kept" ELSE rows[r].state
      BY <2>1
    <3> QED BY <2>7, <3>1, <3>2
  <2> QED BY <2>1, <2>8, <2>9, <2>10 DEF new
<1>5. good = 0..n
  <2>1. good \in SUBSET (0..n)
    OBVIOUS
  <2> HIDE DEF good, n
  <2> QED BY <1>2, <1>3, <1>4, <2>1, UpFromZero
<1>6. n \in good
  BY <1>2, <1>5
<1> QED BY <1>1, <1>2, <1>6

-----------------------------------------------------------------------------
\* Types

\* A step that moves the run, or ends it
LEMMA RunGoes ==
  ASSUME run \in Runs,
         \/ run' = run \/ run' = NoRun
         \/ \E place \in Places : Go(place)
         \/ \E ending \in Ended : EndAs(ending)
         \/ Raise
  PROVE  run' \in Runs
<1>1. CASE run' = run \/ run' = NoRun
  BY <1>1, NoRunRecord
<1>2. CASE \E place \in Places : Go(place)
  <2>1. PICK place \in Places : run' = [run EXCEPT !.at = place]
    BY <1>2 DEF Go
  <2> QED BY <2>1 DEF Runs
<1>3. ASSUME NEW ending \in Ended, EndAs(ending) PROVE run' \in Runs
  <2>1. ending \in Endings /\ run' = [run EXCEPT !.at = "undoing", !.ending = ending]
    BY <1>3 DEF EndAs, Endings
  <2> QED BY <2>1, PlaceNames DEF Runs
<1>4. "failed" \in Ended
  BY DEF Ended
<1>5. CASE Raise
  <2>1. CASE run.repair
    BY <1>2, <1>5, <2>1, PlaceNames DEF Raise
  <2>2. CASE ~run.repair
    BY <1>3, <1>4, <1>5, <2>2 DEF Raise
  <2> QED BY <2>1, <2>2
<1> QED BY <1>1, <1>2, <1>3, <1>5

LEMMA RunTypes ==
  ASSUME SearchTypeOK, RunPlaced, RowsSound, RowsInHand, [SearchNext]_searchVars
  PROVE  run' \in Runs
<1> USE RunRecords, PlaceNames DEF SearchTypeOK
<1> USE DEF Cancelled, MayCallModel
<1>0. "failed" \in Ended /\ "cancelled" \in Ended /\ "completed" \in Ended
  BY DEF Ended
<1>1. CASE \/ UNCHANGED searchVars \/ AddQuestion \/ LinkQuestion \/ LinkDocuments \/ TitleSession \/ PersistEvidence \/ AddAnswer
           \/ Undo \/ CloseFailed \/ MarkQuestion \/ Cancel \/ DeleteSession \/ RetryComes \/ Crash \/ Restart \/ FinishDelete
           \/ (\E r \in Rows : DeletePage(r)) \/ FetchStops \/ StoreFails \/ PagesFail \/ IndexFails
  <2>1. \/ run' = run \/ run' = NoRun
        \/ \E place \in Places : Go(place)
        \/ \E ending \in Ended : EndAs(ending)
        \/ Raise
    BY <1>0, <1>1 DEF AddQuestion, LinkQuestion, LinkDocuments, TitleSession, PersistEvidence, AddAnswer, Undo, CloseFailed,
         MarkQuestion, Cancel, DeleteSession, RetryComes, Crash, Restart, FinishDelete, DeletePage, searchVars, FetchStops, StoreFails, PagesFail, IndexFails, StoreError
  <2> QED BY <2>1, RunGoes
<1>2. ASSUME NEW mode \in Modes, NEW second \in BOOLEAN, NEW calls \in CallBudgets, Begin(mode, second, calls) PROVE run' \in Runs
  <2>1. PICK n \in RunIds : run' = [NoRun EXCEPT !.at = "asking", !.n = n, !.mode = mode, !.second = second, !.budget = calls]
    BY <1>2 DEF Begin
  <2>2. n \in 0..MaxRuns /\ calls \in Nat /\ mode \in RunModes
    BY SearchAssumption DEF RunIds, RunModes
  <2> QED BY <2>1, <2>2, NoRunRecord DEF Runs
<1>3. CASE Plan
  <2>1. run.calls + 1 \in Nat
    OBVIOUS
  <2>2. CASE run' = [run EXCEPT !.at = "retrieving", !.calls = @ + 1]
    BY <2>1, <2>2 DEF Runs
  <2> QED BY <1>0, <1>3, <2>2, RunGoes DEF Plan
<1>4. CASE RetrieveLocal
  <2>1. PICK found \in SUBSET Rows : run' = [run EXCEPT !.at = "providing", !.pool = {<<r, "local">> : r \in found}]
    BY <1>4 DEF RetrieveLocal
  <2>3. {<<r, "local">> : r \in found} \subseteq Rows \X {"local", "web"}
    OBVIOUS
  <2> QED BY <2>1, <2>3 DEF Runs
<1>5. CASE Seed \/ Prepare
  <2>1. CachedUrls \subseteq Urls
    BY DEF CachedUrls, RowsSound
  <2>2. CASE run' = [run EXCEPT !.at = "seeding", !.seeds = CachedUrls]
    BY <2>1, <2>2 DEF Runs
  <2>3. CASE Seed
    BY <2>3 DEF Seed, Runs
  <2> QED BY <1>0, <1>5, <2>2, <2>3, RunGoes DEF Prepare
<1>6. CASE AskProvider \/ QueryFrontier
  <2>1. CASE \E urls \in SUBSET Urls : Schedule(urls)
    <3>1. PICK urls \in SUBSET Urls, place \in Places :
               run' = [run EXCEPT !.at = place, !.todo = SetToSeq(urls), !.sched = urls, !.limit = FetchLimit,
                                  !.attempts = @ + Cardinality(urls), !.round = {}, !.got = <<>>]
      BY <2>1 DEF Schedule
    <3>2. SetToSeq(urls) \in Seq(Urls) /\ run.attempts + Cardinality(urls) \in Nat /\ FetchLimit \in Nat /\ <<>> \in Seq(Urls \X Texts)
      <4>1. SetToSeq(urls) \in Seq(Urls) /\ Cardinality(urls) \in Nat
        BY SubsetsOfUrls
      <4>2. FetchLimit \in Nat
        BY LimitIsNumber DEF FetchLimit
      <4> QED BY <4>1, <4>2
    <3> QED BY <3>1, <3>2 DEF Runs
  <2>2. \A urls \in Bounded(Eligible, Observed, FetchLimit) : urls \in SUBSET Urls
    BY DEF Bounded, Eligible
  <2>3. CASE AskProvider
    BY <1>0, <2>1, <2>3, RunGoes DEF AskProvider
  <2>4. CASE QueryFrontier
    BY <2>1, <2>2, <2>4 DEF QueryFrontier
  <2> QED BY <1>6, <2>3, <2>4
<1>7. CASE FetchAll
  <2>1. CASE \E said \in [Range(run.todo) -> Texts \cup {None}] :
              /\ \A u \in Range(run.todo) : said[u] \in Says[u] \cup {None}
              /\ LET ok == Only(run.todo, {i \in DOMAIN run.todo : said[run.todo[i]] # None})
                 IN run' = [run EXCEPT !.at = "storing", !.todo = <<>>, !.sched = {},
                                       !.got = [i \in DOMAIN ok |-> <<ok[i], said[ok[i]]>>]]
    <3>1. PICK said \in [Range(run.todo) -> Texts \cup {None}] :
              /\ \A u \in Range(run.todo) : said[u] \in Says[u] \cup {None}
              /\ LET ok == Only(run.todo, {i \in DOMAIN run.todo : said[run.todo[i]] # None})
                 IN run' = [run EXCEPT !.at = "storing", !.todo = <<>>, !.sched = {},
                                       !.got = [i \in DOMAIN ok |-> <<ok[i], said[ok[i]]>>]]
      BY <2>1
    <3> DEFINE T == {i \in DOMAIN run.todo : said[run.todo[i]] # None}
               ok == Only(run.todo, T)
               got == [i \in DOMAIN ok |-> <<ok[i], said[ok[i]]>>]
    <3>2. got \in Seq(Urls \X Texts)
      <4> DEFINE todo == run.todo
      <4>1. todo \in Seq(Urls) /\ \A u \in Range(todo) : said[u] \in Says[u] \cup {None}
        BY <3>1
      <4>2. T = {i \in DOMAIN todo : said[todo[i]] # None} /\ got = FetchedOf(Only(todo, T), said)
        BY DEF FetchedOf
      <4> HIDE DEF T, todo, ok, got
      <4> QED BY <4>1, <4>2, SaidIs
    <3>3. <<>> \in Seq(Urls) /\ run' = [run EXCEPT !.at = "storing", !.todo = <<>>, !.sched = {}, !.got = got]
      BY <3>1
    <3> HIDE DEF got
    <3> QED BY <3>2, <3>3 DEF Runs
  <2> QED BY <1>0, <1>7, <2>1, RunGoes DEF FetchAll
<1>8. CASE FetchOne
  <2>1. ASSUME NEW counted \in {0, 1}, NEW got \in Seq(Urls \X Texts), NEW more \in SUBSET Urls, run.todo # <<>>, Fetched(counted, got, more)
        PROVE  run' \in Runs
    <3>1. Head(run.todo) \in Urls /\ Tail(run.todo) \in Seq(Urls)
      BY <2>1
    <3>2. SetToSeq(more) \in Seq(Urls) /\ Cardinality(more) \in Nat
      BY SubsetsOfUrls
    <3>3. /\ run.pages + counted \in Nat /\ run.attempts + Cardinality(more) \in Nat /\ run.sched \cup more \subseteq Urls
          /\ Tail(run.todo) \o SetToSeq(more) \in Seq(Urls) /\ run.got \o got \in Seq(Urls \X Texts)
      BY <3>1, <3>2
    <3>t. (IF counted = 1 THEN Append(run.tried, Head(run.todo)) ELSE run.tried) \in Seq(Urls)
      <4>1. PICK before, first : before = run.tried /\ first = Head(run.todo) /\ before \in Seq(Urls) /\ first \in Urls
        BY <3>1
      <4>2. Append(before, first) \in Seq(Urls)
        BY <4>1
      <4> QED BY <4>1, <4>2, Zenon
    <3> DEFINE pages == run.pages + counted
               attempts == run.attempts + Cardinality(more)
               sched == run.sched \cup more
               todo == Tail(run.todo) \o SetToSeq(more)
               all == run.got \o got
               tried == IF counted = 1 THEN Append(run.tried, Head(run.todo)) ELSE run.tried
    <3>4. run' = [run EXCEPT !.at = "fetching", !.pages = pages, !.tried = tried, !.todo = todo, !.sched = sched,
                             !.attempts = attempts, !.got = all]
      BY <2>1 DEF Fetched
    <3>5. /\ pages \in Nat /\ attempts \in Nat /\ sched \subseteq Urls /\ todo \in Seq(Urls)
          /\ all \in Seq(Urls \X Texts) /\ tried \in Seq(Urls)
      BY <3>3, <3>t
    <3> HIDE DEF pages, attempts, sched, todo, all, tried
    <3> QED BY <3>4, <3>5 DEF Runs
  <2>2. <<>> \in Seq(Urls) /\ <<>> \in Seq(Urls \X Texts) /\ {} \in SUBSET Urls
    OBVIOUS
  <2>3. CASE run' = [run EXCEPT !.at = "storing", !.todo = <<>>, !.sched = {}]
    BY <2>2, <2>3 DEF Runs
  <2>4. CASE run.todo # <<>>
    <3>1. Head(run.todo) \in Urls
      BY <2>4
    <3>2. \A text \in Says[Head(run.todo)] : <<<<Head(run.todo), text>>>> \in Seq(Urls \X Texts)
      BY <3>1 DEF Texts
    <3>3. \A more \in FollowUps : more \in SUBSET Urls
      BY DEF FollowUps, Bounded, Eligible
    <3>4. \/ run' = [run EXCEPT !.at = "storing", !.todo = <<>>, !.sched = {}]
          \/ \E counted \in {0, 1} : Fetched(counted, <<>>, {})
          \/ \E text \in Says[Head(run.todo)], more \in FollowUps : Fetched(1, <<<<Head(run.todo), text>>>>, more)
          \/ \E more \in FollowUps : Fetched(1, <<>>, more)
      BY <1>8, <2>4 DEF FetchOne
    <3> QED BY <2>1, <2>2, <2>3, <2>4, <3>2, <3>3, <3>4
  <2> QED BY <1>8, <2>3, <2>4 DEF FetchOne
<1>9. CASE StoreHit
  <2>1. PICK r \in Rows : run' = [run EXCEPT !.got = Tail(@), !.seen = Append(@, <<r, run.got[1][1]>>), !.round = @ \cup {<<r, "web">>},
                                            !.fresh = IF rows[r].state = "staged" THEN @ \cup {r} ELSE @]
    BY <1>9 DEF StoreHit, CacheHits
  <2>2. run.got # <<>>
    BY <1>9 DEF StoreHit
  <2>3. /\ Tail(run.got) \in Seq(Urls \X Texts) /\ run.got[1] \in Urls \X Texts /\ run.got[1][1] \in Urls
    BY <2>2
  <2>4. /\ Append(run.seen, <<r, run.got[1][1]>>) \in Seq(Rows \X Urls)
        /\ run.round \cup {<<r, "web">>} \subseteq Rows \X {"local", "web"}
        /\ (IF rows[r].state = "staged" THEN run.fresh \cup {r} ELSE run.fresh) \subseteq Rows
    BY <2>3
  <2> QED BY <2>1, <2>3, <2>4 DEF Runs
<1>10. CASE StoreNew
  <2>1. run' = [run EXCEPT !.at = "indexing", !.row = FreeRow] /\ \E r \in Rows : rows[r].state = "absent"
    BY <1>10 DEF StoreNew
  <2>2. FreeRow \in 0..MaxRows
    BY <2>1, FreeRowIs, WebAssumption DEF Rows
  <2> QED BY <2>1, <2>2 DEF Runs
<1>11. CASE Index
  <2>1. /\ run' = [run EXCEPT !.at = "storing", !.row = 0, !.got = Tail(@), !.seen = Append(@, <<run.row, run.got[1][1]>>),
                               !.round = @ \cup {<<run.row, "web">>}, !.fresh = @ \cup {run.row}]
        /\ run.got # <<>> /\ run.row # 0
    BY <1>11 DEF Index, At, RunPlaced, RowsInHand
  <2>2. /\ Tail(run.got) \in Seq(Urls \X Texts) /\ run.got[1] \in Urls \X Texts /\ run.got[1][1] \in Urls
        /\ run.row \in Rows /\ 0 \in 0..MaxRows
    BY <2>1, WebAssumption DEF Rows
  <2>3. /\ Append(run.seen, <<run.row, run.got[1][1]>>) \in Seq(Rows \X Urls)
        /\ run.round \cup {<<run.row, "web">>} \subseteq Rows \X {"local", "web"}
        /\ run.fresh \cup {run.row} \subseteq Rows
    BY <2>2
  <2> QED BY <2>1, <2>2, <2>3 DEF Runs
<1>12. CASE Stored
  <2>1. /\ run.pool \cup run.round \subseteq Rows \X {"local", "web"}
        /\ (IF run.repair /\ run.round \subseteq run.pool THEN "concluding" ELSE "selecting") \in Places
    OBVIOUS
  <2> QED BY <1>12, <2>1 DEF Stored, Runs
<1>13. CASE Select
  <2>1. ASSUME NEW verified \in SUBSET PoolRows, NEW more \in BOOLEAN, NEW malformed \in BOOLEAN,
               run' = [run EXCEPT !.at = IF more /\ run.second /\ ~run.repair THEN "repairing" ELSE "concluding",
                                  !.calls = IF run.pool = {} THEN @ ELSE @ + 1,
                                  !.picked = @ \cup verified, !.malformed = @ \/ malformed]
        PROVE  run' \in Runs
    <3>1. PoolRows \subseteq Rows
      BY DEF PoolRows
    <3>2. /\ (IF more /\ run.second /\ ~run.repair THEN "repairing" ELSE "concluding") \in Places
          /\ (IF run.pool = {} THEN run.calls ELSE run.calls + 1) \in Nat
          /\ run.picked \cup verified \subseteq Rows /\ (run.malformed \/ malformed) \in BOOLEAN
      BY <3>1
    <3> DEFINE place == IF more /\ run.second /\ ~run.repair THEN "repairing" ELSE "concluding"
               unread == run.malformed \/ malformed
               calls == IF run.pool = {} THEN run.calls ELSE run.calls + 1
               picked == run.picked \cup verified
    <3>3. run' = [run EXCEPT !.at = place, !.calls = calls, !.picked = picked, !.malformed = unread]
      BY <2>1
    <3>4. place \in Places /\ unread \in BOOLEAN /\ calls \in Nat /\ picked \subseteq Rows
      BY <3>2
    <3> HIDE DEF place, unread, calls, picked
    <3> QED BY <3>3, <3>4 DEF Runs
  <2> QED BY <1>0, <1>13, <2>1, RunGoes DEF Select
<1>14. CASE Repair
  <2>1. ASSUME NEW place \in {"concluding", "providing"},
               run' = [run EXCEPT !.at = place, !.repair = place = "providing", !.calls = @ + 1]
        PROVE  run' \in Runs
    <3>1. place \in Places /\ (place = "providing") \in BOOLEAN /\ run.calls + 1 \in Nat
      OBVIOUS
    <3> QED BY <2>1, <3>1 DEF Runs
  <2> QED BY <1>0, <1>14, <2>1, RunGoes DEF Repair
<1>15. CASE Conclude
  <2>1. ASSUME NEW place \in Places, run' = [[run EXCEPT !.repair = FALSE] EXCEPT !.at = place] PROVE run' \in Runs
    BY <2>1 DEF Runs
  <2> QED BY <1>0, <1>15, <2>1, RunGoes DEF Conclude
<1>16. CASE Synthesize
  <2>1. ASSUME NEW used \in SUBSET run.picked, run' = [run EXCEPT !.at = "promoting", !.calls = @ + 1, !.picked = used]
        PROVE  run' \in Runs
    <3>1. used \subseteq Rows /\ run.calls + 1 \in Nat
      OBVIOUS
    <3> QED BY <2>1, <3>1 DEF Runs
  <2> QED BY <1>0, <1>16, <2>1, RunGoes DEF Synthesize
<1>17. CASE FinalizeRun \/ ResyncIndex \/ Complete
  <2>1. \/ \E place \in Places, ending \in Ended : run' = [run EXCEPT !.at = place, !.ending = ending]
        \/ \E ending \in Ended : EndAs(ending)
        \/ \E place \in Places : Go(place)
    BY <1>0, <1>17 DEF FinalizeRun, ResyncIndex, Complete, AfterPromotion
  <2>2. ASSUME NEW place \in Places, NEW ending \in Ended, run' = [run EXCEPT !.at = place, !.ending = ending] PROVE run' \in Runs
    <3>1. ending \in Endings
      BY DEF Endings
    <3> QED BY <2>2, <3>1 DEF Runs
  <2> QED BY <2>1, <2>2, RunGoes
<1> QED BY <1>1, <1>2, <1>3, <1>4, <1>5, <1>6, <1>7, <1>8, <1>9, <1>10, <1>11, <1>12, <1>13, <1>14, <1>15, <1>16, <1>17 DEF SearchNext, Work

\* The steps that leave the logs alone, and those that leave the pages alone
LogKept ==
  \/ UNCHANGED searchVars \/ Plan \/ RetrieveLocal \/ AskProvider \/ Prepare \/ Seed \/ QueryFrontier \/ FetchAll \/ FetchOne \/ FetchStops
  \/ StoreHit \/ StoreNew \/ Index \/ PagesFail \/ IndexFails \/ StoreFails \/ Stored \/ Select \/ Repair \/ Conclude
  \/ Synthesize \/ FinalizeRun \/ ResyncIndex \/ LinkDocuments \/ TitleSession \/ Undo
  \/ Cancel \/ RetryComes \/ Crash \/ FinishDelete \/ \E r \in Rows : DeletePage(r)

PagesKept ==
  \/ UNCHANGED searchVars \/ AddQuestion \/ LinkQuestion \/ Plan \/ RetrieveLocal \/ AskProvider \/ Prepare \/ QueryFrontier \/ FetchAll \/ FetchStops
  \/ StoreHit \/ Stored \/ Select \/ Repair \/ Conclude \/ Synthesize \/ ResyncIndex \/ PersistEvidence \/ AddAnswer
  \/ LinkDocuments \/ TitleSession \/ Complete \/ CloseFailed \/ MarkQuestion \/ Cancel \/ DeleteSession \/ Crash
  \/ \E mode \in Modes, second \in BOOLEAN, calls \in CallBudgets : Begin(mode, second, calls)

LEMMA LogIsKept == LogKept => log' = log /\ session' = session
  BY DEF LogKept, searchVars, Cancelled, Plan, RetrieveLocal, AskProvider, Prepare, Seed, QueryFrontier, FetchAll, FetchOne, FetchStops,
     StoreHit, StoreNew, Index, PagesFail, IndexFails, StoreFails, Stored, Select, Repair, Conclude, Synthesize, FinalizeRun, ResyncIndex, LinkDocuments,
     TitleSession, Undo, Cancel, RetryComes, Crash, FinishDelete, DeletePage, UnchangedBut

LEMMA PagesAreKept == PagesKept => rows' = rows /\ frontier' = frontier
  BY DEF PagesKept, searchVars, Cancelled, AddQuestion, LinkQuestion, Plan, RetrieveLocal, AskProvider, Prepare, QueryFrontier, FetchAll, FetchStops,
     StoreHit, Stored, Select, Repair, Conclude, Synthesize, ResyncIndex, PersistEvidence, AddAnswer, LinkDocuments,
     TitleSession, Complete, CloseFailed, MarkQuestion, Cancel, DeleteSession, Crash, Begin, UnchangedBut, cacheVars

\* The row of a run in one place, the others as before
LEMMA LogOfOne ==
  ASSUME log \in [RunIds -> Logs], NEW n \in RunIds, NEW l \in Logs, log' = [log EXCEPT ![n] = l]
  PROVE  log' \in [RunIds -> Logs] /\ log'[n] = l /\ \A k \in RunIds : k # n => log'[k] = log[k]
  OBVIOUS

LEMMA LogTypes ==
  ASSUME SearchTypeOK, RunPlaced, [SearchNext]_searchVars
  PROVE  log' \in [RunIds -> Logs]
<1> DEFINE one == log[run.n]
<1>0. run.at # "idle" => run.n \in RunIds /\ one \in Logs
  BY DEF SearchTypeOK, RunPlaced
<1>1. CASE LogKept
  BY <1>1, LogIsKept DEF SearchTypeOK
<1>2. ASSUME NEW mode \in Modes, NEW second \in BOOLEAN, NEW calls \in CallBudgets, Begin(mode, second, calls) PROVE log' \in [RunIds -> Logs]
  <2>1. PICK n \in RunIds : log' = [log EXCEPT ![n].status = "running"]
    BY <1>2 DEF Begin
  <2>2. [log[n] EXCEPT !.status = "running"] \in Logs
    BY DEF SearchTypeOK, Logs
  <2> QED BY <2>1, <2>2 DEF SearchTypeOK
<1>3. CASE AddQuestion
  <2>1. [one EXCEPT !.note = "running"] \in Logs
    BY <1>0, <1>3 DEF AddQuestion, At, Logs
  <2> QED BY <1>3, <2>1 DEF AddQuestion, SearchTypeOK
<1>4. CASE LinkQuestion
  <2>1. [one EXCEPT !.linked = TRUE] \in Logs
    BY <1>0, <1>4 DEF LinkQuestion, At, Logs
  <2> QED BY <1>4, <2>1 DEF LinkQuestion, SearchTypeOK
<1>5. CASE PersistEvidence
  <2>1. [one EXCEPT !.evidence = run.picked] \in Logs
    BY <1>0, <1>5, RunRecords DEF PersistEvidence, At, Logs, SearchTypeOK
  <2> QED BY <1>5, <2>1 DEF PersistEvidence, SearchTypeOK
<1>6. CASE AddAnswer
  <2>1. [[one EXCEPT !.answer = TRUE] EXCEPT !.resultsOnly = ResultsOnly] \in Logs
    <3>1. ResultsOnly \in BOOLEAN
      BY DEF ResultsOnly
    <3> QED BY <1>0, <1>6, <3>1 DEF AddAnswer, At, Logs
  <2>2. CASE session
    <3>1. log' = [[log EXCEPT ![run.n].answer = TRUE] EXCEPT ![run.n].resultsOnly = ResultsOnly]
      BY <1>6, <2>2 DEF AddAnswer
    <3>2. run.n \in RunIds
      BY <1>0, <1>6 DEF AddAnswer, At
    <3>3. log' = [log EXCEPT ![run.n] = [[one EXCEPT !.answer = TRUE] EXCEPT !.resultsOnly = ResultsOnly]]
      BY <3>1, <3>2 DEF SearchTypeOK
    <3> QED BY <2>1, <3>2, <3>3 DEF SearchTypeOK
  <2> QED BY <1>6, <2>2 DEF AddAnswer, SearchTypeOK
<1>7. CASE Complete \/ CloseFailed
  <2>1. PICK status \in Endings : log' = [log EXCEPT ![run.n].status = status] /\ (status = "completed" \/ status = run.ending)
    BY <1>7, RunRecords DEF Complete, CloseFailed, CompleteRun, Endings, Ended, SearchTypeOK
  <2>2. [one EXCEPT !.status = status] \in Logs
    BY <1>0, <1>7, <2>1 DEF Complete, CloseFailed, At, Logs, Endings
  <2> QED BY <2>1, <2>2 DEF SearchTypeOK
<1>8. CASE MarkQuestion
  <2> DEFINE note == IF session THEN run.ending ELSE one.note
  <2>1. [one EXCEPT !.note = note] \in Logs
    <3>1. note \in Ended \cup {None, "running", "gone"}
      BY <1>0, <1>8, RunRecords DEF MarkQuestion, At, Logs, Endings, SearchTypeOK
    <3> HIDE DEF note
    <3> QED BY <1>0, <1>8, <3>1 DEF MarkQuestion, At, Logs
  <2> QED BY <1>8, <2>1 DEF MarkQuestion, SearchTypeOK
<1>9. CASE DeleteSession
  <2>1. \A n \in RunIds : [log[n] EXCEPT !.note = IF @ = None THEN @ ELSE "gone", !.answer = FALSE] \in Logs
    BY DEF SearchTypeOK, Logs
  <2> QED BY <1>9, <2>1 DEF DeleteSession
<1>10. CASE Restart
  <2>1. \A n \in RunIds : [log[n] EXCEPT !.status = "interrupted", !.note = IF log[n].linked /\ @ # "gone" THEN "interrupted" ELSE @] \in Logs
    BY DEF SearchTypeOK, Logs, Ended
  <2> QED BY <1>10, <2>1 DEF Restart, RecoverRuns, SearchTypeOK
<1> QED BY <1>1, <1>2, <1>3, <1>4, <1>5, <1>6, <1>7, <1>8, <1>9, <1>10 DEF SearchNext, Work, LogKept

LEMMA PageTypes ==
  ASSUME SearchTypeOK, RunPlaced, RowsSound, RowsInHand, [SearchNext]_searchVars
  PROVE  CacheTypeOK'
<1> USE RunRecords DEF SearchTypeOK, CacheTypeOK
<1>0. [status |-> "fetched", due |-> TRUE] \in FrontierRows /\ Unfetched \in FrontierRows
  BY DEF FrontierRows, Unfetched
<1>a. \A u \in Urls : DiscoverLinks(u) \in [Urls -> FrontierRows]
  BY <1>0 DEF DiscoverLinks
<1>b. ASSUME NEW old \in [Urls -> FrontierRows], NEW u \in Urls
      PROVE  MarkSuccess(old, u) \in [Urls -> FrontierRows] /\ \A status \in {"failed", "blocked"} : MarkFailure(old, u, status) \in [Urls -> FrontierRows]
  <2>1. \A status \in {"failed", "blocked"} : [status |-> status, due |-> FALSE] \in FrontierRows
    BY DEF FrontierRows
  <2> QED BY <1>0, <2>1 DEF MarkSuccess, MarkFailure
<1>c. Absent \in PageRows
  BY DEF Absent, PageRow, PageRows
<1>1. CASE PagesKept
  BY <1>1, PagesAreKept
<1>2. CASE Seed
  BY <1>0, <1>2 DEF Seed, SeedCached
<1>3. CASE FetchOne
  <2>1. CASE run.todo = <<>> \/ run.pages >= MaxPages
    BY <1>3, <2>1 DEF FetchOne, UnchangedBut, cacheVars
  <2>2. CASE run.todo # <<>> /\ ~(run.pages >= MaxPages)
    <3>1. Head(run.todo) \in Urls
      BY <2>2
    <3>2. rows' = rows
      BY <1>3, <2>2 DEF FetchOne
    <3>3. \/ \E status \in {"failed", "blocked"} : frontier' = MarkFailure(frontier, Head(run.todo), status)
          \/ frontier' = MarkSuccess(DiscoverLinks(Head(run.todo)), Head(run.todo))
          \/ frontier' = DiscoverLinks(Head(run.todo))
          \/ frontier' = MarkFailure(DiscoverLinks(Head(run.todo)), Head(run.todo), "failed")
      BY <1>3, <2>2 DEF FetchOne
    <3> DEFINE u == Head(run.todo)
    <3>4. DiscoverLinks(u) \in [Urls -> FrontierRows]
      BY <1>a, <3>1
    <3>5. frontier' \in [Urls -> FrontierRows]
      <4> HIDE DEF u
      <4>1. CASE \E status \in {"failed", "blocked"} : frontier' = MarkFailure(frontier, u, status)
        <5>1. frontier \in [Urls -> FrontierRows] /\ u \in Urls
          BY <3>1 DEF u
        <5>2. \A status \in {"failed", "blocked"} : MarkFailure(frontier, u, status) \in [Urls -> FrontierRows]
          BY <1>b, <5>1, Zenon
        <5> QED BY <4>1, <5>2, Zenon
      <4>2. CASE frontier' = MarkSuccess(DiscoverLinks(u), u)
        BY <1>b, <3>1, <3>4, <4>2 DEF u
      <4>3. CASE frontier' = MarkFailure(DiscoverLinks(u), u, "failed")
        BY <1>b, <3>1, <3>4, <4>3 DEF u
      <4> QED BY <3>3, <3>4, <4>1, <4>2, <4>3 DEF u
    <3> QED BY <3>2, <3>5
  <2> QED BY <2>1, <2>2
<1>4. CASE StoreNew
  <2>1. run.got[1][1] \in Urls /\ run.got[1][2] \in Texts
    BY <1>4 DEF StoreNew
  <2>2. PageRow("staged", run.got[1][1], run.got[1][2], FALSE) \in PageRows
    BY <2>1 DEF PageRow, PageRows
  <2> QED BY <1>4, <2>2 DEF StoreNew, InsertStaged
<1>5. CASE Index
  <2>1. \A r \in Rows : [rows[r] EXCEPT !.indexed = TRUE, !.live = TRUE] \in PageRows
    BY DEF PageRows
  <2>2. rows' = [r \in Rows |-> IF r = run.row THEN [rows[r] EXCEPT !.indexed = TRUE, !.live = TRUE] ELSE rows[r]]
    BY <1>5 DEF Index, IndexStaged
  <2> QED BY <1>5, <2>1, <2>2 DEF Index
<1>6. CASE PagesFail \/ IndexFails
  <2>1. run.got[1][1] \in Urls
    BY <1>6 DEF PagesFail, IndexFails, At, RunPlaced
  <2>2. StoreError => frontier' \in [Urls -> FrontierRows]
    <3> HIDE DEF FrontierRows
    <3> QED BY <1>b, <2>1 DEF StoreError
  <2>3. rows' \in [Rows -> PageRows]
    BY <1>6, <1>c DEF PagesFail, IndexFails
  <2> QED BY <1>6, <2>2, <2>3 DEF PagesFail, IndexFails
<1>7. CASE StoreFails
  <2>1. run.got[1][1] \in Urls
    BY <1>7 DEF StoreFails
  <2> QED BY <1>7, <1>b, <2>1 DEF StoreFails, StoreError, Cancelled, UnchangedBut, cacheVars
<1>8. CASE FinalizeRun
  <2>1. PromoteAll(run.seen) \in [Rows -> PageRows]
    <3>1. \A i \in 1..Len(run.seen) : rows[run.seen[i][1]].url = run.seen[i][2]
      BY <1>8 DEF FinalizeRun, At, RowsInHand, Over
    <3> QED BY <3>1, PromoteAllIs DEF RowsSound
  <2>2. \/ UNCHANGED cacheVars \/ FinalizeSuccess(run.seen) \/ FinalizePages(run.seen)
    BY <1>8 DEF FinalizeRun
  <2> QED BY <1>0, <2>1, <2>2 DEF cacheVars, FinalizeSuccess, FinalizePages
<1>9. CASE Undo \/ Restart
  BY <1>9, <1>c DEF Undo, Restart, PurgeStaged, RollbackNew
<1>10. ASSUME NEW r \in Rows, DeletePage(r) PROVE CacheTypeOK'
  <2>1. [rows[r] EXCEPT !.live = FALSE] \in PageRows
    BY DEF PageRows
  <2> QED BY <1>10, <2>1 DEF DeletePage, DropChunks
<1>11. CASE FinishDelete
  <2>1. deleting \in Rows => [rows[deleting] EXCEPT !.state = "deleted"] \in PageRows
    BY DEF PageRows
  <2> QED BY <1>0, <1>11, <2>1 DEF FinishDelete, MarkDeleted, Released
<1>12. CASE RetryComes
  <2>1. \A u \in Urls : [frontier[u] EXCEPT !.due = TRUE] \in FrontierRows
    BY DEF FrontierRows
  <2> QED BY <1>12, <2>1 DEF RetryComes
<1> QED BY <1>1, <1>2, <1>3, <1>4, <1>5, <1>6, <1>7, <1>8, <1>9, <1>10, <1>11, <1>12 DEF SearchNext, Work, PagesKept

\* Only the user and the process change what is neither the run's nor the database's.
LEMMA OthersKept ==
  ASSUME [SearchNext]_searchVars
  PROVE  /\ session' = session \/ DeleteSession
         /\ \/ deleting' = deleting \/ Crash \/ FinishDelete \/ \E r \in Rows : DeletePage(r)
         /\ \/ cancel' = cancel \/ Crash \/ Cancel
            \/ \E mode \in Modes, second \in BOOLEAN, calls \in CallBudgets : Begin(mode, second, calls)
         /\ up' = up \/ Crash \/ Restart
<1>1. CASE Plan \/ RetrieveLocal \/ AskProvider \/ Prepare \/ Seed \/ QueryFrontier \/ FetchAll \/ FetchOne \/ FetchStops \/ StoreHit \/ StoreNew \/ Index
  <2>1. session' = session /\ deleting' = deleting /\ cancel' = cancel /\ up' = up
    BY <1>1 DEF Cancelled, Plan, RetrieveLocal, AskProvider, Prepare, Seed, QueryFrontier, FetchAll, FetchOne, FetchStops, StoreHit, StoreNew, Index, UnchangedBut
  <2> QED BY <2>1
<1>4. CASE \/ PagesFail \/ IndexFails \/ StoreFails \/ Stored \/ Select \/ Repair \/ Conclude \/ Synthesize \/ FinalizeRun \/ ResyncIndex
           \/ LinkDocuments \/ TitleSession \/ Undo \/ RetryComes \/ UNCHANGED searchVars
  <2>1. session' = session /\ deleting' = deleting /\ cancel' = cancel /\ up' = up
    BY <1>4 DEF searchVars, Cancelled, PagesFail, IndexFails, StoreFails, Stored, Select, Repair, Conclude, Synthesize, FinalizeRun, ResyncIndex,
       LinkDocuments, TitleSession, Undo, RetryComes, UnchangedBut
  <2> QED BY <2>1
<1>5. CASE Cancel
  BY <1>5 DEF Cancel, UnchangedBut
<1>6. CASE FinishDelete \/ \E r \in Rows : DeletePage(r)
  <2>1. session' = session /\ cancel' = cancel /\ up' = up
    BY <1>6 DEF FinishDelete, DeletePage, UnchangedBut
  <2> QED BY <1>6, <2>1
<1>7. CASE Crash
  BY <1>7 DEF Crash
<1>2. CASE AddQuestion \/ LinkQuestion \/ PersistEvidence \/ AddAnswer \/ Complete \/ CloseFailed \/ MarkQuestion \/ DeleteSession \/ Restart
  BY <1>2 DEF AddQuestion, LinkQuestion, PersistEvidence, AddAnswer, Complete, CloseFailed, MarkQuestion, DeleteSession, Restart, UnchangedBut
<1>3. CASE \E mode \in Modes, second \in BOOLEAN, calls \in CallBudgets : Begin(mode, second, calls)
  BY <1>3 DEF Begin, UnchangedBut
<1> QED BY <1>1, <1>2, <1>3, <1>4, <1>5, <1>6, <1>7 DEF SearchNext, Work

LEMMA TypesKept ==
  ASSUME SearchTypeOK, RunPlaced, RowsSound, RowsInHand, [SearchNext]_searchVars
  PROVE  SearchTypeOK'
<1>1. session' \in BOOLEAN /\ deleting' \in 0..MaxRows /\ cancel' \in BOOLEAN /\ up' \in BOOLEAN
  <2>1. session' \in BOOLEAN
    BY OthersKept DEF SearchTypeOK, DeleteSession
  <2>2. deleting' \in 0..MaxRows
    <3>1. deleting' = deleting \/ deleting' = 0 \/ \E r \in Rows : deleting' = r
      BY OthersKept DEF Crash, FinishDelete, DeletePage
    <3> QED BY <3>1, WebAssumption DEF SearchTypeOK, Rows
  <2>3. cancel' \in BOOLEAN
    BY OthersKept DEF SearchTypeOK, Crash, Cancel, Begin
  <2>4. up' \in BOOLEAN
    BY OthersKept DEF SearchTypeOK, Crash, Restart
  <2> QED BY <2>1, <2>2, <2>3, <2>4
<1> QED BY <1>1, RunTypes, LogTypes, PageTypes DEF SearchTypeOK

-----------------------------------------------------------------------------
\* What a step makes of the locals of a run: it ends or moves on with all of them, or computes

KeepsAsked == run'.n = run.n /\ run'.mode = run.mode /\ run'.second = run.second /\ run'.budget = run.budget
KeepsCalls == run'.repair = run.repair /\ run'.calls = run.calls
KeepsFetches == run'.attempts = run.attempts /\ run'.pages = run.pages
KeepsTodo == run'.tried = run.tried /\ run'.todo = run.todo /\ run'.sched = run.sched
KeepsFound == run'.got = run.got /\ run'.row = run.row /\ run'.fresh = run.fresh /\ run'.seen = run.seen
KeepsPool == run'.pool = run.pool /\ run'.round = run.round
KeepsPicked == run'.picked = run.picked /\ run'.malformed = run.malformed
Keeps == KeepsAsked /\ KeepsCalls /\ KeepsFetches /\ KeepsTodo /\ KeepsFound /\ KeepsPool /\ KeepsPicked

Fallible == {"planning", "providing", "querying", "fetching", "storing", "indexing", "selecting", "repairing", "concluding", "synthesizing",
             "promoting", "resyncing", "answering", "linking", "titling"}

\* The run is over; or a repair round is, by an exception of its own
Fails ==
  run.at \in Fallible /\ run'.at = "undoing" /\ run'.ending \in {"failed", "cancelled"} /\ (run.at = "indexing" => IndexFails \/ PagesFail) /\ Keeps
GivesUpRepair ==
  /\ (run.at \in {"providing", "fetching", "storing", "indexing", "selecting"} /\ run.repair) \/ run.at = "repairing"
  /\ run'.at = "concluding" /\ (run.at = "indexing" => IndexFails \/ PagesFail) /\ Keeps
MovesOn ==
  /\ Keeps
  /\ \/ run.at = "asking" /\ run'.at = "noting_question"
     \/ run.at = "noting_question" /\ run'.at = "planning"
     \/ run.at = "seeding" /\ run'.at = "querying" /\ Seed
     \/ run.at = "promoting" /\ Local /\ run'.at = "resyncing" /\ FinalizeRun /\ rows' = PromoteAll(run.seen)
     \/ run.at = "promoting" /\ ~Local /\ run'.at = AfterPromotion /\ FinalizeRun /\ rows' = PromoteAll(run.seen)
     \/ run.at = "promoting" /\ run.seen = <<>> /\ run'.at = AfterPromotion /\ run'.ending = "failed" /\ FinalizeRun
     \/ run.at = "resyncing" /\ Local /\ run'.at = AfterPromotion /\ run'.ending = "failed"
     \/ run.at = "evidencing" /\ run'.at = "answering" /\ PersistEvidence
     \/ run.at = "answering" /\ run'.at \in {"linking", "titling"} /\ AddAnswer /\ session
     \/ run.at = "linking" /\ run'.at = "titling"
     \/ run.at = "titling" /\ run'.at = "completing"
     \/ run.at = "completing" /\ run'.at = "marking" /\ run'.ending = "completed" /\ Complete
     \/ run.at = "undoing" /\ run'.at = "closing" /\ run'.ending = run.ending /\ Undo
     \/ run.at = "closing" /\ run'.at = "marking" /\ run'.ending = run.ending /\ CloseFailed

PlanGoes ==
  /\ run.at = "planning" /\ MayCallModel
  /\ run'.at = "retrieving" /\ run'.calls = run.calls + 1 /\ run'.repair = run.repair
  /\ KeepsAsked /\ KeepsFetches /\ KeepsTodo /\ KeepsFound /\ KeepsPool /\ KeepsPicked
Retrieves ==
  /\ run.at = "retrieving"
  /\ \E found \in SUBSET {r \in Rows : rows[r].state = "kept"} : run'.pool = {<<r, "local">> : r \in found}
  /\ run'.at = "providing" /\ run'.round = run.round
  /\ KeepsAsked /\ KeepsCalls /\ KeepsFetches /\ KeepsTodo /\ KeepsFound /\ KeepsPicked
Prepares ==
  /\ run.at \in {"providing", "querying"} /\ Local
  /\ run'.at = "seeding" /\ run'.seeds = CachedUrls
  /\ rows' = rows /\ frontier' = frontier /\ Keeps
Asks(urls) ==
  /\ run.at = (IF Local THEN "querying" ELSE "providing") /\ urls \subseteq Urls
  /\ IF Local THEN urls \in Bounded(Eligible, Observed, FetchLimit) ELSE Cardinality(urls) <= FetchLimit
  /\ rows' = rows /\ frontier' = frontier
  /\ run'.at = (IF urls # {} THEN "fetching" ELSE IF run.repair THEN "concluding" ELSE "selecting")
  /\ run'.todo = SetToSeq(urls) /\ run'.sched = urls /\ run'.attempts = run.attempts + Cardinality(urls)
  /\ run'.round = {} /\ run'.got = <<>> /\ run'.tried = run.tried /\ run'.pages = run.pages
  /\ run'.row = run.row /\ run'.fresh = run.fresh /\ run'.seen = run.seen /\ run'.pool = run.pool
  /\ KeepsAsked /\ KeepsCalls /\ KeepsPicked
GetsAll ==
  /\ run.at = "fetching" /\ ~Local /\ run'.at = "storing" /\ run'.todo = <<>> /\ run'.sched = {} /\ run'.tried = run.tried
  /\ run'.row = run.row /\ run'.fresh = run.fresh /\ run'.seen = run.seen
  /\ KeepsAsked /\ KeepsCalls /\ KeepsFetches /\ KeepsPool /\ KeepsPicked
GetsNoMore ==
  /\ run.at = "fetching" /\ Local /\ run'.at = "storing" /\ run'.todo = <<>> /\ run'.sched = {} /\ run'.tried = run.tried
  /\ rows' = rows /\ frontier' = frontier
  /\ KeepsAsked /\ KeepsCalls /\ KeepsFetches /\ KeepsFound /\ KeepsPool /\ KeepsPicked
Gets(counted, got, more) ==
  /\ run.at = "fetching" /\ Local /\ run.todo # <<>> /\ run.pages < MaxPages
  /\ run'.at = "fetching" /\ run'.pages = run.pages + counted
  /\ run'.tried = IF counted = 1 THEN Append(run.tried, Head(run.todo)) ELSE run.tried
  /\ run'.todo = Tail(run.todo) \o SetToSeq(more) /\ run'.sched = run.sched \cup more
  /\ run'.got = run.got \o got
  /\ run'.row = run.row /\ run'.fresh = run.fresh /\ run'.seen = run.seen
  /\ KeepsAsked /\ KeepsCalls /\ KeepsPool /\ KeepsPicked
GetsOne ==
  LET u == Head(run.todo) IN
  /\ rows' = rows
  /\ \/ \E counted \in {0, 1} : Gets(counted, <<>>, {}) /\ frontier' = MarkFailure(frontier, u, "failed")
     \/ Gets(0, <<>>, {}) /\ frontier' = MarkFailure(frontier, u, "blocked")
     \/ u \in Containers /\ frontier' = MarkSuccess(DiscoverLinks(u), u) /\ Gets(0, <<>>, {})
     \/ frontier' = DiscoverLinks(u) /\ \E text \in Says[u], more \in FollowUps : Gets(1, <<<<u, text>>>>, more)
     \/ frontier' = MarkFailure(DiscoverLinks(u), u, "failed") /\ \E more \in FollowUps : Gets(1, <<>>, more)
Sees(r) ==
  /\ run.got # <<>> /\ r \in Rows
  /\ run'.at = "storing" /\ run'.got = Tail(run.got) /\ run'.seen = Append(run.seen, <<r, run.got[1][1]>>)
  /\ run'.round = run.round \cup {<<r, "web">>} /\ run'.pool = run.pool
  /\ KeepsAsked /\ KeepsCalls /\ KeepsFetches /\ KeepsTodo /\ KeepsPicked
Hits(r) ==
  /\ run.at = "storing" /\ r \in CacheHits(run.got[1][1], run.got[1][2]) /\ Sees(r)
  /\ run'.fresh = IF rows[r].state = "staged" THEN run.fresh \cup {r} ELSE run.fresh
Inserts ==
  /\ StoreNew /\ run.at = "storing" /\ run'.at = "indexing" /\ run'.row = FreeRow
  /\ run'.got = run.got /\ run'.fresh = run.fresh /\ run'.seen = run.seen
  /\ KeepsAsked /\ KeepsCalls /\ KeepsFetches /\ KeepsTodo /\ KeepsPool /\ KeepsPicked
Indexes == run.at = "indexing" /\ IndexStaged(run.row) /\ frontier' = frontier /\ Sees(run.row) /\ run'.fresh = run.fresh \cup {run.row}
Joins ==
  /\ run.at = "storing" /\ run.got = <<>>
  /\ run'.at = (IF run.repair /\ run.round \subseteq run.pool THEN "concluding" ELSE "selecting")
  /\ run'.pool = run.pool \cup run.round /\ run'.round = run.round
  /\ KeepsAsked /\ KeepsCalls /\ KeepsFetches /\ KeepsTodo /\ KeepsFound /\ KeepsPicked
Selects ==
  /\ run.at = "selecting" /\ (run.pool = {} \/ MayCallModel) /\ \E verified \in SUBSET PoolRows : run'.picked = run.picked \cup verified
  /\ run'.at = "concluding" \/ (run'.at = "repairing" /\ ~run.repair)
  /\ run'.calls = (IF run.pool = {} THEN run.calls ELSE run.calls + 1) /\ run'.repair = run.repair
  /\ KeepsAsked /\ KeepsFetches /\ KeepsTodo /\ KeepsFound /\ KeepsPool
Repairs ==
  /\ run.at = "repairing" /\ RepairAffordable /\ MayCallModel
  /\ run'.at \in {"concluding", "providing"} /\ run'.repair = (run'.at = "providing") /\ run'.calls = run.calls + 1
  /\ KeepsAsked /\ KeepsFetches /\ KeepsTodo /\ KeepsFound /\ KeepsPool /\ KeepsPicked
Concludes ==
  /\ run.at = "concluding"
  /\ \/ run'.at = "synthesizing" /\ run.picked # {}
     \/ run'.at = "promoting" /\ (Local \/ run.malformed)
  /\ run'.calls = run.calls
  /\ KeepsAsked /\ KeepsFetches /\ KeepsTodo /\ KeepsFound /\ KeepsPool /\ KeepsPicked
SynthesisGoes ==
  /\ run.at = "synthesizing" /\ MayCallModel /\ run'.picked \in (SUBSET run.picked) \ {{}}
  /\ run'.at = "promoting" /\ run'.calls = run.calls + 1
  /\ KeepsAsked /\ KeepsFetches /\ KeepsTodo /\ KeepsFound /\ KeepsPool

Computes ==
  \/ PlanGoes \/ Retrieves \/ Prepares \/ (\E urls : Asks(urls)) \/ GetsAll \/ GetsNoMore \/ GetsOne
  \/ (\E r : Hits(r)) \/ Inserts \/ Indexes \/ Joins \/ Selects \/ Repairs \/ Concludes \/ SynthesisGoes

LEMMA EndsKeeps ==
  ASSUME run \in Runs, NEW place, NEW ending, run' = [run EXCEPT !.at = place, !.ending = ending]
  PROVE  Keeps /\ run'.at = place /\ run'.ending = ending
  BY DEF Keeps, KeepsAsked, KeepsCalls, KeepsFetches, KeepsTodo, KeepsFound, KeepsPool, KeepsPicked, Runs

LEMMA GoesKeeps ==
  ASSUME run \in Runs, NEW place, Go(place)
  PROVE  Keeps /\ run'.at = place /\ run'.ending = run.ending
  BY DEF Keeps, KeepsAsked, KeepsCalls, KeepsFetches, KeepsTodo, KeepsFound, KeepsPool, KeepsPicked, Runs, Go

LEMMA RaiseIs ==
  ASSUME run \in Runs, Raise
  PROVE  Keeps /\ ((run.repair /\ run'.at = "concluding") \/ (run'.at = "undoing" /\ run'.ending = "failed"))
<1>1. CASE run.repair
  BY <1>1, GoesKeeps DEF Raise
<1>2. CASE ~run.repair
  BY <1>2, EndsKeeps DEF Raise, EndAs
<1> QED BY <1>1, <1>2

LEMMA EndAsIs ==
  ASSUME run \in Runs, NEW ending, EndAs(ending)
  PROVE  Keeps /\ run'.at = "undoing" /\ run'.ending = ending
  BY EndsKeeps DEF EndAs

\* Where the run is when a step of its own is taken, and whether it stays
RunRests ==
  \/ UNCHANGED searchVars \/ Cancel \/ DeleteSession \/ RetryComes \/ Restart \/ FinishDelete \/ \E r \in Rows : DeletePage(r)

LEMMA StepsOfRounds ==
  ASSUME run \in Runs, run.at = "querying" => Local,
         \/ Plan \/ RetrieveLocal \/ AskProvider \/ Prepare \/ Seed \/ QueryFrontier
         \/ FetchAll \/ FetchOne \/ FetchStops \/ StoreFails \/ PagesFail \/ IndexFails
  PROVE  Fails \/ GivesUpRepair \/ MovesOn \/ Computes
<1> USE DEF At, Cancelled, KeepsAsked, KeepsCalls, KeepsFetches, KeepsTodo, KeepsFound, KeepsPool, KeepsPicked
<1>1. CASE Plan
  <2>1. CASE MayCallModel /\ run' = [run EXCEPT !.at = "retrieving", !.calls = @ + 1]
    BY <1>1, <2>1 DEF Plan, Computes, PlanGoes, Runs
  <2> QED BY <1>1, <2>1, EndAsIs DEF Plan, Fails, Fallible
<1>2. CASE RetrieveLocal
  <2>1. PICK found \in SUBSET {r \in Rows : rows[r].state = "kept"} :
           run' = [run EXCEPT !.at = "providing", !.pool = {<<r, "local">> : r \in found}]
    BY <1>2 DEF RetrieveLocal
  <2>2. Retrieves
    BY <1>2, <2>1 DEF RetrieveLocal, Retrieves, Runs
  <2> QED BY <2>2 DEF Computes
<1>3. CASE Seed
  <2>1. run' = [run EXCEPT !.at = "querying", !.seeds = {}]
    BY <1>3 DEF Seed
  <2>2. Keeps /\ run'.at = "querying"
    BY <2>1 DEF Keeps, Runs
  <2> QED BY <1>3, <2>2 DEF Seed, MovesOn
<1>4. CASE AskProvider \/ QueryFrontier
  <2>1. ASSUME NEW urls \in SUBSET Urls, Schedule(urls), run.at = (IF Local THEN "querying" ELSE "providing"),
               IF Local THEN urls \in Bounded(Eligible, Observed, FetchLimit) ELSE Cardinality(urls) <= FetchLimit
        PROVE  Asks(urls)
    <3>1. rows' = rows /\ frontier' = frontier
      BY <1>4 DEF AskProvider, QueryFrontier, UnchangedBut, cacheVars
    <3> QED BY <2>1, <3>1 DEF Schedule, Asks, Runs
  <2>2. CASE AskProvider
    <3>1. EndAs("cancelled") \/ Raise \/ \E urls : Asks(urls)
      BY <2>1, <2>2 DEF AskProvider
    <3> QED BY <2>2, <3>1, EndAsIs, RaiseIs DEF AskProvider, Computes, Fails, GivesUpRepair, Fallible
  <2>3. CASE QueryFrontier
    <3>1. \A urls \in Bounded(Eligible, Observed, FetchLimit) : urls \in SUBSET Urls
      BY DEF Bounded, Eligible
    <3>2. \E urls : Asks(urls)
      BY <2>1, <2>3, <3>1 DEF QueryFrontier
    <3> QED BY <3>2 DEF Computes
  <2> QED BY <1>4, <2>2, <2>3
<1>10. CASE Prepare
  <2>1. CASE run' = [run EXCEPT !.at = "seeding", !.seeds = CachedUrls]
    <3>1. Keeps /\ run'.at = "seeding" /\ run'.seeds = CachedUrls
      BY <2>1 DEF Keeps, Runs
    <3>2. Prepares
      BY <1>10, <3>1 DEF Prepare, Prepares, UnchangedBut, cacheVars
    <3> QED BY <3>2 DEF Computes
  <2> QED BY <1>10, <2>1, EndAsIs DEF Prepare, Fails, Fallible
<1>5. CASE FetchAll
  <2>1. ASSUME NEW got, run' = [run EXCEPT !.at = "storing", !.todo = <<>>, !.sched = {}, !.got = got] PROVE GetsAll
    BY <1>5, <2>1 DEF FetchAll, GetsAll, Runs
  <2>2. Cancelled \/ Raise \/ \E got : run' = [run EXCEPT !.at = "storing", !.todo = <<>>, !.sched = {}, !.got = got]
    BY <1>5 DEF FetchAll
  <2> QED BY <1>5, <2>1, <2>2, EndAsIs, RaiseIs DEF FetchAll, Computes, Fails, GivesUpRepair, Fallible
<1>6. CASE FetchOne
  <2>1. CASE run.todo = <<>> \/ run.pages >= MaxPages
    <3>1. run' = [run EXCEPT !.at = "storing", !.todo = <<>>, !.sched = {}] /\ rows' = rows /\ frontier' = frontier
      BY <1>6, <2>1 DEF FetchOne, UnchangedBut, cacheVars
    <3> QED BY <1>6, <3>1 DEF FetchOne, GetsNoMore, Computes, Runs
  <2>2. CASE ~(run.todo = <<>> \/ run.pages >= MaxPages)
    <3>1. ASSUME NEW counted, NEW got, NEW more, Fetched(counted, got, more) PROVE Gets(counted, got, more)
      <4>1. run.at = "fetching" /\ Local /\ run.todo # <<>> /\ run.pages < MaxPages
        BY <1>6, <2>2, SearchAssumption, RunRecords DEF FetchOne
      <4> QED BY <3>1, <4>1 DEF Fetched, Gets, Runs
    <3>2. GetsOne
      BY <1>6, <2>2, <3>1 DEF FetchOne, GetsOne
    <3> QED BY <3>2 DEF Computes
  <2> QED BY <2>1, <2>2
<1>7. CASE FetchStops
  BY <1>7, EndAsIs, RaiseIs DEF FetchStops, Fails, GivesUpRepair, Fallible
<1>8. CASE StoreFails
  BY <1>8, EndAsIs, RaiseIs DEF StoreFails, StoreError, Fails, GivesUpRepair, Fallible
<1>9. CASE PagesFail \/ IndexFails
  BY <1>9, EndAsIs, RaiseIs DEF PagesFail, IndexFails, StoreError, Fails, GivesUpRepair, Fallible
<1> QED BY <1>1, <1>2, <1>3, <1>4, <1>5, <1>6, <1>7, <1>8, <1>9, <1>10

LEMMA StepsOfStoring ==
  ASSUME run \in Runs, StoreHit \/ StoreNew \/ Index \/ Stored, run.at = "indexing" => run.got # <<>> /\ run.row # 0
  PROVE  Computes
<1> USE DEF At, KeepsAsked, KeepsCalls, KeepsFetches, KeepsTodo, KeepsFound, KeepsPool, KeepsPicked
<1>1. CASE StoreHit
  <2>1. PICK r \in CacheHits(run.got[1][1], run.got[1][2]) :
           run' = [run EXCEPT !.got = Tail(@), !.seen = Append(@, <<r, run.got[1][1]>>), !.round = @ \cup {<<r, "web">>},
                              !.fresh = IF rows[r].state = "staged" THEN @ \cup {r} ELSE @]
    BY <1>1 DEF StoreHit
  <2>2. r \in Rows /\ run.at = "storing" /\ run.got # <<>>
    BY <1>1, <2>1 DEF StoreHit, CacheHits
  <2>3. Sees(r)
    BY <2>1, <2>2 DEF Sees, Runs
  <2>4. run'.fresh = IF rows[r].state = "staged" THEN run.fresh \cup {r} ELSE run.fresh
    BY <2>1 DEF Runs
  <2>5. Hits(r)
    BY <2>1, <2>2, <2>3, <2>4 DEF Hits
  <2> QED BY <2>5 DEF Computes
<1>2. CASE StoreNew
  <2>1. Inserts
    BY <1>2 DEF StoreNew, Inserts, Runs
  <2> QED BY <2>1 DEF Computes
<1>3. CASE Index
  <2>1. run.row \in Rows /\ run.got # <<>>
    BY <1>3, RunRecords, WebAssumption DEF Index, Rows
  <2>2. run' = [run EXCEPT !.at = "storing", !.row = 0, !.got = Tail(@), !.seen = Append(@, <<run.row, run.got[1][1]>>),
                        !.round = @ \cup {<<run.row, "web">>}, !.fresh = @ \cup {run.row}]
    BY <1>3 DEF Index
  <2>3. Sees(run.row) /\ run'.fresh = run.fresh \cup {run.row}
    BY <2>1, <2>2 DEF Sees, Runs
  <2>4. Indexes
    BY <1>3, <2>3 DEF Index, Indexes
  <2> QED BY <2>4 DEF Computes
<1>4. CASE Stored
  <2>1. Joins
    BY <1>4 DEF Stored, Joins, Runs
  <2> QED BY <2>1 DEF Computes
<1> QED BY <1>1, <1>2, <1>3, <1>4

LEMMA StepsOfTheEnd ==
  ASSUME run \in Runs,
         run.at = "resyncing" => Local,
         Select \/ Repair \/ Conclude \/ Synthesize \/ FinalizeRun \/ ResyncIndex \/ LinkDocuments \/ TitleSession \/ PersistEvidence
         \/ AddAnswer \/ Complete \/ Undo \/ CloseFailed \/ LinkQuestion \/ (AddQuestion /\ session)
  PROVE  Fails \/ GivesUpRepair \/ MovesOn \/ Computes
<1> USE DEF At, Cancelled, KeepsAsked, KeepsCalls, KeepsFetches, KeepsTodo, KeepsFound, KeepsPool, KeepsPicked
<1>1. CASE Select
  <2>1. ASSUME NEW verified \in SUBSET PoolRows, NEW more \in BOOLEAN, NEW malformed \in BOOLEAN, run.pool = {} \/ MayCallModel,
               run' = [run EXCEPT !.at = IF more /\ run.second /\ ~run.repair THEN "repairing" ELSE "concluding",
                                  !.calls = IF run.pool = {} THEN @ ELSE @ + 1,
                                  !.picked = @ \cup verified, !.malformed = @ \/ malformed]
        PROVE  Selects
    BY <1>1, <2>1 DEF Select, Selects, Runs
  <2>2. Cancelled \/ Raise \/ Selects
    BY <1>1, <2>1 DEF Select
  <2> QED BY <1>1, <2>2, EndAsIs, RaiseIs DEF Select, Fails, GivesUpRepair, Computes, Fallible
<1>2. CASE Repair
  <2>1. ASSUME NEW place \in {"concluding", "providing"}, MayCallModel, RepairAffordable,
               run' = [run EXCEPT !.at = place, !.repair = place = "providing", !.calls = @ + 1]
        PROVE  Repairs
    BY <1>2, <2>1 DEF Repair, Repairs, Runs
  <2>2. EndAs("cancelled") \/ Go("concluding") \/ Repairs
    BY <1>2, <2>1 DEF Repair
  <2> QED BY <1>2, <2>2, EndAsIs, GoesKeeps DEF Repair, Fails, GivesUpRepair, Computes, Fallible
<1>3. CASE Conclude
  <2>1. CASE run.picked # {} /\ run' = [[run EXCEPT !.repair = FALSE] EXCEPT !.at = "synthesizing"]
    BY <1>3, <2>1 DEF Conclude, Concludes, Computes, Runs
  <2>2. CASE (run.malformed \/ Local) /\ run' = [[run EXCEPT !.repair = FALSE] EXCEPT !.at = "promoting"]
    BY <1>3, <2>2 DEF Conclude, Concludes, Computes, Runs
  <2> QED BY <1>3, <2>1, <2>2, EndAsIs DEF Conclude, Fails, Fallible
<1>4. CASE Synthesize
  <2>1. ASSUME NEW used \in (SUBSET run.picked) \ {{}}, MayCallModel, run' = [run EXCEPT !.at = "promoting", !.calls = @ + 1, !.picked = used]
        PROVE  SynthesisGoes
    BY <1>4, <2>1 DEF Synthesize, SynthesisGoes, Runs
  <2> QED BY <1>4, <2>1, EndAsIs DEF Synthesize, Fails, Computes, Fallible
<1>5. CASE FinalizeRun
  <2>1. CASE ~Local
    <3>1. Go(AfterPromotion) /\ rows' = PromoteAll(run.seen) /\ run.at = "promoting"
      BY <1>5, <2>1 DEF FinalizeRun, FinalizeSuccess
    <3> QED BY <1>5, <2>1, <3>1, GoesKeeps DEF MovesOn
  <2>2. CASE Local
    <3>1. \/ EndAs("cancelled") \/ (Go("resyncing") /\ rows' = PromoteAll(run.seen))
          \/ run' = [run EXCEPT !.at = AfterPromotion, !.ending = "failed"] /\ run.seen = <<>>
      BY <1>5, <2>2 DEF FinalizeRun, FinalizePages
    <3>2. run.at = "promoting"
      BY <1>5 DEF FinalizeRun
    <3> QED BY <1>5, <2>2, <3>1, <3>2, EndAsIs, GoesKeeps, EndsKeeps DEF Fails, MovesOn, Fallible
  <2> QED BY <2>1, <2>2
<1>6. CASE ResyncIndex
  BY <1>6, EndAsIs, EndsKeeps DEF ResyncIndex, Fails, MovesOn, Fallible
<1>7. CASE LinkDocuments \/ TitleSession \/ AddAnswer
  BY <1>7, EndAsIs, GoesKeeps DEF LinkDocuments, TitleSession, AddAnswer, Fails, MovesOn, Fallible
<1>8. CASE PersistEvidence \/ Undo \/ CloseFailed \/ LinkQuestion \/ (AddQuestion /\ session)
  BY <1>8, GoesKeeps DEF PersistEvidence, Undo, CloseFailed, LinkQuestion, AddQuestion, MovesOn
<1>9. CASE Complete
  BY <1>9, EndsKeeps DEF Complete, MovesOn
<1> QED BY <1>1, <1>2, <1>3, <1>4, <1>5, <1>6, <1>7, <1>8, <1>9

LEMMA Steps ==
  ASSUME SearchTypeOK, RunPlaced, RowsInHand, RunsTold, [SearchNext]_searchVars
  PROVE  \/ run' = run /\ RunRests
         \/ run' = NoRun /\ ((AddQuestion /\ ~session) \/ MarkQuestion \/ Crash)
         \/ \E mode \in Modes, second \in BOOLEAN, calls \in CallBudgets : Begin(mode, second, calls)
         \/ Fails \/ GivesUpRepair \/ MovesOn \/ Computes
<1>1. run \in Runs
  BY DEF SearchTypeOK
<1>2. CASE RunRests
  BY <1>2 DEF RunRests, searchVars, Cancel, DeleteSession, RetryComes, Restart, FinishDelete, DeletePage
<1>3. CASE (AddQuestion /\ ~session) \/ MarkQuestion \/ Crash
  BY <1>3 DEF AddQuestion, MarkQuestion, Crash
<1>4. run.at = "indexing" => run.got # <<>> /\ run.row # 0
  BY DEF RunPlaced, RowsInHand
<1>5. (run.at = "resyncing" => Local) /\ (run.at = "querying" => Local)
  BY DEF RunsTold, Telling, RunPlaced
<1> QED BY <1>1, <1>2, <1>3, <1>4, <1>5, StepsOfRounds, StepsOfStoring, StepsOfTheEnd DEF SearchNext, Work, RunRests

\* What a Search starts with
Starts ==
  /\ run.at = "idle" /\ run'.at = "asking" /\ run'.n \in RunIds /\ run'.mode \in Modes /\ run'.budget \in 3..5
  /\ ~run'.repair /\ run'.calls = 0 /\ run'.attempts = 0 /\ run'.pages = 0 /\ run'.tried = <<>> /\ run'.todo = <<>> /\ run'.sched = {}
  /\ run'.got = <<>> /\ run'.row = 0 /\ run'.fresh = {} /\ run'.seen = <<>> /\ run'.pool = {} /\ run'.round = {}
  /\ run'.picked = {} /\ ~run'.malformed

LEMMA BeginIs ==
  ASSUME NEW mode \in Modes, NEW second \in BOOLEAN, NEW calls \in CallBudgets, Begin(mode, second, calls)
  PROVE  Starts /\ log[run'.n].status = None /\ log' = [log EXCEPT ![run'.n].status = "running"]
<1>1. PICK n \in RunIds : /\ log[n].status = None /\ log' = [log EXCEPT ![n].status = "running"]
                          /\ run' = [NoRun EXCEPT !.at = "asking", !.n = n, !.mode = mode, !.second = second, !.budget = calls]
  BY DEF Begin
<1>2. run'.n = n
  BY <1>1 DEF NoRun
<1>3. run.at = "idle"
  BY DEF Begin, At
<1> QED BY <1>1, <1>2, <1>3, SearchAssumption DEF Starts, NoRun

-----------------------------------------------------------------------------
\* The locals of a run

LEMMA PlacedKept ==
  ASSUME SearchTypeOK, RunPlaced, RowsInHand, RunsTold, [SearchNext]_searchVars
  PROVE  RunPlaced'
<1> USE DEF RunPlaced, Early
<1>a. up' = up \/ (~up' /\ run' = NoRun /\ deleting' = 0) \/ Restart
  BY OthersKept DEF Crash
<1>b. deleting' = deleting \/ deleting' = 0 \/ up
  BY OthersKept DEF DeletePage, Crash, FinishDelete
<1>c. ~up' => deleting' = 0
  BY <1>a, <1>b DEF Restart
<1>1. CASE run' = run
  BY <1>1, <1>a, <1>c DEF Restart, Local
<1>2. CASE run' = NoRun
  BY <1>2, <1>c DEF NoRun
<1>3. CASE \E mode \in Modes, second \in BOOLEAN, calls \in CallBudgets : Begin(mode, second, calls)
  <2>1. Starts /\ up' = up /\ up
    <3>1. PICK mode \in Modes, second \in BOOLEAN, calls \in CallBudgets : Begin(mode, second, calls)
      BY <1>3
    <3>2. up' = up /\ up
      BY <3>1 DEF Begin, UnchangedBut, At
    <3> QED BY <3>1, <3>2, BeginIs
  <2> QED BY <2>1, <1>c DEF Starts
<1>d. (run'.at # "idle" /\ run.at # "idle") => up' /\ up
  BY <1>a DEF Restart, NoRun
<1>4. CASE Fails
  BY <1>4, <1>c, <1>d DEF Fails, Fallible, Keeps, KeepsAsked
<1>5. CASE GivesUpRepair
  BY <1>5, <1>c, <1>d DEF GivesUpRepair, Keeps, KeepsAsked
<1>6. CASE MovesOn
  <2>1. /\ run.at # "idle" /\ run'.at # "idle" /\ run'.at \notin {"retrieving", "providing", "seeding", "indexing", "selecting", "repairing"}
        /\ run'.at \in Early => run.at \in Early
        /\ run'.at = "querying" => run.at = "seeding"
    BY <1>6 DEF MovesOn, AfterPromotion
  <2> QED BY <1>6, <1>c, <1>d, <2>1 DEF MovesOn, Keeps, KeepsAsked, KeepsFound, KeepsPool, KeepsPicked, Local
<1>7. CASE Computes
  <2> USE DEF Computes, KeepsAsked, KeepsFound, KeepsPool, KeepsPicked
  <2>1. run.at # "idle" /\ run'.at # "idle" /\ KeepsAsked
    BY <1>7 DEF PlanGoes, Retrieves, Prepares, Keeps, Asks, GetsAll, GetsNoMore, GetsOne, Gets, Sees, Hits, Inserts, Indexes, Joins, Selects, Repairs, Concludes, SynthesisGoes
  <2>2. CASE PlanGoes \/ Retrieves
    BY <2>1, <2>2, <1>c, <1>d DEF PlanGoes, Retrieves
  <2>6. CASE Prepares
    BY <2>1, <2>6, <1>c, <1>d DEF Prepares, Keeps, Local
  <2>3. CASE (\E urls : Asks(urls)) \/ GetsAll \/ GetsNoMore \/ GetsOne
    BY <2>1, <2>3, <1>c, <1>d DEF Asks, GetsAll, GetsNoMore, GetsOne, Gets
  <2>4. CASE (\E r : Hits(r)) \/ Inserts \/ Indexes
    BY <2>1, <2>4, <1>c, <1>d DEF Sees, Hits, Inserts, Indexes, StoreNew
  <2>5. CASE Joins \/ Selects \/ Repairs \/ Concludes \/ SynthesisGoes
    BY <2>1, <2>5, <1>c, <1>d DEF Joins, Selects, Repairs, Concludes, SynthesisGoes
  <2> QED BY <1>7, <2>2, <2>3, <2>4, <2>5, <2>6
<1> QED BY Steps, <1>1, <1>2, <1>3, <1>4, <1>5, <1>6, <1>7

LEMMA CallsKept ==
  ASSUME SearchTypeOK, RunPlaced, RowsInHand, RunsTold, CallsFunded, [SearchNext]_searchVars
  PROVE  CallsFunded'
<1> USE DEF CallsFunded, Early, Rounds
<1>0. /\ run.calls \in Nat /\ run.budget \in Nat /\ run.repair \in BOOLEAN
      /\ run.at # "idle" => run.budget \in 3..5
  BY RunRecords DEF SearchTypeOK, RunPlaced
<1>1. CASE run' = run
  BY <1>1
<1>2. CASE run' = NoRun
  BY <1>2 DEF NoRun
<1>3. CASE \E mode \in Modes, second \in BOOLEAN, calls \in CallBudgets : Begin(mode, second, calls)
  BY <1>3, BeginIs DEF Starts
<1>4. CASE Fails
  BY <1>4 DEF Fails, Keeps, KeepsAsked, KeepsCalls
<1>5. CASE GivesUpRepair
  BY <1>0, <1>5 DEF GivesUpRepair, Keeps, KeepsAsked, KeepsCalls
<1>6. CASE MovesOn
  BY <1>0, <1>6 DEF MovesOn, Keeps, KeepsAsked, KeepsCalls, AfterPromotion
<1>7. CASE Computes
  <2> USE DEF Computes, KeepsAsked, KeepsCalls
  <2>2. CASE PlanGoes \/ Retrieves
    BY <1>0, <2>2 DEF PlanGoes, Retrieves
  <2>3. CASE Prepares \/ (\E urls : Asks(urls)) \/ GetsAll \/ GetsNoMore \/ GetsOne
    <3>1. KeepsAsked /\ KeepsCalls /\ run.at \in {"providing", "querying", "fetching"}
      BY <2>3 DEF Prepares, Keeps, Asks, GetsAll, GetsNoMore, GetsOne, Gets
    <3>2. run'.at \in {"seeding", "fetching", "selecting", "storing"} \/ (run'.at = "concluding" /\ run.repair)
      BY <2>3 DEF Prepares, Asks, GetsAll, GetsNoMore, GetsOne, Gets
    <3> QED BY <1>0, <3>1, <3>2
  <2>4. CASE (\E r : Hits(r)) \/ Inserts \/ Indexes \/ Joins
    <3>1. KeepsAsked /\ KeepsCalls /\ run.at \in {"storing", "indexing"}
      BY <2>4 DEF Sees, Hits, Inserts, Indexes, Joins
    <3>2. run'.at \in {"storing", "indexing", "selecting"} \/ (run'.at = "concluding" /\ run.repair)
      BY <2>4 DEF Sees, Hits, Inserts, Indexes, Joins
    <3> QED BY <1>0, <3>1, <3>2
  <2>5. CASE Selects
    BY <1>0, <2>5 DEF Selects, MayCallModel
  <2>6. CASE Repairs
    <3>1. run.calls + 1 <= run.budget - 2 /\ run'.calls = run.calls + 1 /\ run'.budget = run.budget
      BY <1>0, <2>6 DEF Repairs, RepairAffordable
    <3>2. CASE run'.at = "providing"
      <4>1. run'.repair
        BY <2>6, <3>2 DEF Repairs
      <4> QED BY <1>0, <3>1, <3>2, <4>1
    <3>3. CASE run'.at = "concluding"
      BY <1>0, <3>1, <3>3
    <3> QED BY <2>6, <3>2, <3>3 DEF Repairs
  <2>7. CASE Concludes \/ SynthesisGoes
    BY <1>0, <2>7 DEF Concludes, SynthesisGoes, MayCallModel
  <2> QED BY <1>7, <2>2, <2>3, <2>4, <2>5, <2>6, <2>7
<1> QED BY Steps, <1>1, <1>2, <1>3, <1>4, <1>5, <1>6, <1>7

LEMMA FetchesKept ==
  ASSUME SearchTypeOK, RunPlaced, RowsInHand, RunsTold, FetchesFunded, [SearchNext]_searchVars
  PROVE  FetchesFunded'
<1> USE SearchAssumption DEF FetchesFunded, Early
<1>0. run.attempts \in Nat /\ run.pages \in Nat /\ run.repair \in BOOLEAN
  BY RunRecords DEF SearchTypeOK
<1>1. CASE run' = run
  BY <1>1
<1>2. CASE run' = NoRun
  BY <1>2 DEF NoRun, None
<1>3. CASE \E mode \in Modes, second \in BOOLEAN, calls \in CallBudgets : Begin(mode, second, calls)
  BY <1>3, BeginIs DEF Starts
<1>4. CASE Fails
  BY <1>4 DEF Fails, Keeps, KeepsAsked, KeepsFetches
<1>5. CASE GivesUpRepair
  BY <1>5 DEF GivesUpRepair, Keeps, KeepsAsked, KeepsFetches
<1>6. CASE MovesOn
  BY <1>6 DEF MovesOn, Keeps, KeepsAsked, KeepsFetches, KeepsCalls, AfterPromotion
<1>7. CASE Computes
  <2> USE DEF Computes, KeepsAsked, KeepsCalls, KeepsFetches
  <2>1. ASSUME NEW urls, Asks(urls) PROVE FetchesFunded'
    <3>1. Cardinality(urls) \in Nat
      BY <2>1, SubsetsOfUrls DEF Asks
    <3>2. ~Local => Cardinality(urls) <= FetchLimit
      BY <2>1 DEF Asks
    <3>3. run.mode = "external" => run.attempts + FetchLimit <= MaxFetches
      <4>1. RepairShare \in Nat /\ RepairShare <= MaxFetches
        BY DEF RepairShare
      <4>2. CASE run.repair
        BY <1>0, <4>1, <4>2 DEF FetchLimit, FetchLimitOf
      <4>3. CASE ~run.repair
        BY <1>0, <2>1, <4>1, <4>3 DEF FetchLimit, FetchLimitOf, Asks, Local
      <4> QED BY <4>2, <4>3
    <3>4. FetchLimit \in Nat
      BY LimitIsNumber DEF FetchLimit, SearchTypeOK, Runs
    <3>5. run.mode = "external" => run'.attempts <= MaxFetches
      <4>1. run.mode = "external" => ~Local
        BY DEF Local
      <4>2. run'.attempts = run.attempts + Cardinality(urls)
        BY <2>1 DEF Asks
      <4> QED BY <1>0, <3>1, <3>2, <3>3, <3>4, <4>1, <4>2
    <3> QED BY <2>1, <3>5 DEF Asks
  <2>2. CASE PlanGoes \/ Retrieves \/ Prepares \/ GetsAll \/ GetsNoMore
    BY <2>2 DEF PlanGoes, Retrieves, Prepares, Keeps, GetsAll, GetsNoMore
  <2>3. CASE GetsOne
    <3>1. PICK counted \in {0, 1} : \E got, more : Gets(counted, got, more)
      BY <2>3 DEF GetsOne
    <3>2. run.mode = "local" /\ run'.mode = "local" /\ run'.at = "fetching" /\ run'.pages <= MaxPages
      BY <1>0, <3>1 DEF Gets, Local
    <3> QED BY <3>2
  <2>4. CASE (\E r : Hits(r)) \/ Inserts \/ Indexes \/ Joins
    BY <2>4 DEF Sees, Hits, Inserts, Indexes, Joins
  <2>6. CASE Selects \/ Repairs \/ Concludes \/ SynthesisGoes
    BY <2>6 DEF Selects, Repairs, Concludes, SynthesisGoes
  <2> QED BY <1>7, <2>1, <2>2, <2>3, <2>4, <2>6
<1> QED BY Steps, <1>1, <1>2, <1>3, <1>4, <1>5, <1>6, <1>7

-----------------------------------------------------------------------------
\* The rows of the pages

\* A kept row stays or is deleted, a staged one may be kept or purged, and a free one taken.
RowMoves(r) ==
  /\ rows[r].state = "kept" => rows'[r].state \in {"kept", "deleted"}
  /\ rows[r].state = "deleted" => rows'[r].state = "deleted"
  /\ rows[r].state = "staged" =>
       rows'[r].state = "staged" \/ (rows'[r].state = "kept" /\ FinalizeRun) \/ (rows'[r].state = "absent" /\ ((IndexFails /\ r = run.row) \/ Undo \/ Restart))
  /\ rows[r].state = "absent" => rows'[r].state = "absent" \/ (StoreNew /\ r = FreeRow /\ rows'[r].state = "staged" /\ ~rows'[r].indexed)
  /\ rows[r].state # "absent" /\ rows'[r].state # "absent" =>
       rows'[r].url = rows[r].url /\ (rows'[r].indexed => rows[r].indexed \/ (Index /\ r = run.row))

TableKept == rows' = rows /\ (deleting' = deleting \/ deleting' = 0)
TableSteps ==
  \/ TableKept \/ StoreNew \/ Index \/ IndexFails \/ (FinalizeRun /\ rows' = PromoteAll(run.seen)) \/ Undo \/ Restart
  \/ FinishDelete \/ \E r \in Rows : DeletePage(r)

LEMMA StepsOfTheTable == ASSUME [SearchNext]_searchVars PROVE TableSteps
<1>1. CASE PagesKept \/ Seed \/ FetchOne \/ StoreFails \/ PagesFail \/ RetryComes \/ (FinalizeRun /\ rows' = rows)
  <2>1. rows' = rows
    <3>1. CASE PagesKept
      BY <3>1, PagesAreKept
    <3>2. CASE FetchOne
      BY <3>2 DEF FetchOne, UnchangedBut, cacheVars
    <3> QED BY <1>1, <3>1, <3>2 DEF Seed, SeedCached, StoreFails, PagesFail, Cancelled, RetryComes, UnchangedBut, cacheVars
  <2>2. CASE FinishDelete \/ \E r \in Rows : DeletePage(r)
    BY <2>2 DEF TableSteps
  <2>3. CASE ~(FinishDelete \/ \E r \in Rows : DeletePage(r))
    <3>1. deleting' = deleting \/ deleting' = 0
      BY <2>3, OthersKept DEF Crash
    <3> QED BY <2>1, <3>1 DEF TableSteps, TableKept
  <2> QED BY <2>2, <2>3
<1>2. CASE FinalizeRun
  BY <1>1, <1>2 DEF FinalizeRun, FinalizeSuccess, FinalizePages, TableSteps, cacheVars
<1> QED BY <1>1, <1>2 DEF SearchNext, Work, PagesKept, TableSteps

\* Rows that differ in nothing but what can be retrieved
LEMMA RowsAlike ==
  ASSUME NEW old, NEW new, OneCurrent(old), OneOfEachText(old),
         \A r \in Rows : /\ new[r].state = old[r].state /\ new[r].url = old[r].url
                          /\ new[r].text = old[r].text /\ new[r].current = old[r].current
  PROVE  OneCurrent(new) /\ OneOfEachText(new)
<1>1. OneCurrent(new)
  BY DEF OneCurrent, StandsIn
<1>2. OneOfEachText(new)
  BY DEF OneOfEachText, StandsIn
<1> QED BY <1>1, <1>2

LEMMA RowsMove ==
  ASSUME SearchTypeOK, RunPlaced, RowsSound, RowsInHand, RunsTold, [SearchNext]_searchVars
  PROVE  RowsSound' /\ \A r \in Rows : RowMoves(r)
<1> USE RunRecords DEF SearchTypeOK, CacheTypeOK
<1> USE DEF RowsSound, OneCurrent, OneOfEachText, LiveIsCurrent, StandsIn, RowMoves
<1>a. deleting # 0 => deleting \in Rows
  BY WebAssumption DEF Rows
<1>1. CASE TableKept
  BY <1>1 DEF TableKept
<1>2. CASE StoreNew
  <2>1. /\ FreeRow \in Rows /\ rows[FreeRow].state = "absent"
        /\ run.got # <<>> /\ run.got[1][1] \in Urls /\ run.got[1][2] \in Texts
    BY <1>2, FreeRowIs DEF StoreNew
  <2>2. \A r \in Rows : rows'[r] = IF r = FreeRow
          THEN [state |-> "staged", url |-> run.got[1][1], text |-> run.got[1][2], current |-> FALSE, indexed |-> FALSE, live |-> FALSE] ELSE rows[r]
    BY <1>2, <2>1 DEF StoreNew, InsertStaged, PageRow
  <2>3. \A r \in Rows : ~(rows[r].state \in {"staged", "kept"} /\ rows[r].url = run.got[1][1] /\ rows[r].text = run.got[1][2])
    BY <1>2 DEF StoreNew, CacheHits, Stands
  <2>4. deleting' = deleting
    BY <1>2 DEF StoreNew, UnchangedBut
  <2> HIDE DEF FreeRow
  <2>5. OneOfEachText(rows')
    <3>1. PICK f, u, x : f = FreeRow /\ f \in Rows /\ u = run.got[1][1] /\ x = run.got[1][2]
      BY <2>1
    <3>2. \A r \in Rows : r # f => rows'[r] = rows[r]
      BY <2>2, <3>1
    <3>3. rows'[f].url = u /\ rows'[f].text = x
      BY <2>2, <3>1
    <3>4. OneOfEachText(rows)
      OBVIOUS
    <3>5. \A r \in Rows : ~(StandsIn(rows, r) /\ rows[r].url = u /\ rows[r].text = x)
      BY <2>3, <3>1
    <3>6. \A r \in Rows : r # f /\ StandsIn(rows', r) => StandsIn(rows, r)
      BY <3>2
    <3> HIDE DEF StandsIn
    <3>7. ASSUME NEW r \in Rows, NEW q \in Rows, StandsIn(rows', r), StandsIn(rows', q),
                 rows'[r].url = rows'[q].url, rows'[r].text = rows'[q].text
          PROVE  r = q
      BY <3>2, <3>3, <3>4, <3>5, <3>6, <3>7
    <3> QED BY <3>7
  <2>6. OneCurrent(rows')
    BY <2>1, <2>2
  <2>7. LiveIsCurrent(rows')
    BY <2>1, <2>2
  <2>8. \A r \in Rows : RowMoves(r)
    BY <1>2, <2>1, <2>2
  <2>9. \A r \in Rows : rows'[r].state # "absent" => rows'[r].url \in Urls
    BY <2>1, <2>2
  <2>10. deleting' # 0 => rows'[deleting'].state = "kept"
    BY <1>a, <2>1, <2>2, <2>4
  <2> HIDE DEF OneCurrent, OneOfEachText, LiveIsCurrent, RowMoves
  <2> QED BY <2>5, <2>6, <2>7, <2>8, <2>9, <2>10
<1>3. CASE Index
  <2>1. run.row \in Rows /\ rows[run.row].state = "staged"
    BY <1>3, WebAssumption DEF Index, At, RowsInHand, Rows
  <2>2. \A r \in Rows : /\ rows'[r].state = rows[r].state /\ rows'[r].url = rows[r].url /\ rows'[r].text = rows[r].text
                         /\ rows'[r].current = rows[r].current /\ (rows'[r].live => rows[r].live \/ r = run.row)
                         /\ (rows'[r].indexed <=> rows[r].indexed \/ r = run.row)
    BY <1>3, <2>1 DEF Index, IndexStaged, PageRows
  <2>3. deleting' = deleting
    BY <1>3 DEF Index, UnchangedBut
  <2>4. OneCurrent(rows') /\ OneOfEachText(rows')
    <3>1. OneCurrent(rows) /\ OneOfEachText(rows)
      OBVIOUS
    <3> HIDE DEF OneCurrent, OneOfEachText, LiveIsCurrent, RowMoves, RowsSound
    <3> QED BY <2>2, <3>1, RowsAlike
  <2>5. LiveIsCurrent(rows')
    BY <2>1, <2>2
  <2>6. \A r \in Rows : RowMoves(r)
    BY <1>3, <2>2
  <2>7. deleting' # 0 => rows'[deleting'].state = "kept"
    BY <1>a, <2>2, <2>3
  <2>8. \A r \in Rows : rows'[r].state # "absent" => rows'[r].url \in Urls
    BY <2>2
  <2> HIDE DEF OneCurrent, OneOfEachText, LiveIsCurrent, RowMoves
  <2> QED BY <2>4, <2>5, <2>6, <2>7, <2>8
<1>4. CASE IndexFails \/ Undo \/ Restart
  <2>1. \A r \in Rows : rows'[r] = rows[r] \/ (rows'[r] = Absent /\ rows[r].state = "staged" /\ ((IndexFails /\ r = run.row) \/ Undo \/ Restart))
    BY <1>4 DEF IndexFails, Undo, Restart, PurgeStaged, RollbackNew, At, RowsInHand
  <2>2. deleting' = deleting
    BY <1>4 DEF IndexFails, Undo, Restart, UnchangedBut
  <2>3. Absent.state = "absent"
    BY DEF Absent, PageRow
  <2> QED BY <1>a, <2>1, <2>2, <2>3
<1>5. CASE FinalizeRun /\ rows' = PromoteAll(run.seen)
  <2>1. \A i \in 1..Len(run.seen) : rows[run.seen[i][1]].url = run.seen[i][2]
    BY <1>5 DEF FinalizeRun, At, RowsInHand, Over
  <2>2. /\ OneCurrent(rows') /\ LiveIsCurrent(rows')
        /\ \A r \in Rows :
             /\ rows'[r].url = rows[r].url /\ rows'[r].text = rows[r].text /\ rows'[r].indexed = rows[r].indexed
             /\ rows'[r].state = IF rows[r].state = "staged" /\ \E i \in 1..Len(run.seen) : run.seen[i][1] = r THEN "kept" ELSE rows[r].state
    <3> HIDE DEF RowsSound, OneCurrent, OneOfEachText, LiveIsCurrent, StandsIn, RowMoves
    <3> QED BY <1>5, <2>1, PromoteAllIs DEF RowsSound
  <2>3. deleting' = deleting
    BY <1>5 DEF FinalizeRun, UnchangedBut
  <2>4. \A r \in Rows : /\ rows'[r].url = rows[r].url /\ rows'[r].text = rows[r].text /\ rows'[r].indexed = rows[r].indexed
                        /\ rows'[r].state = rows[r].state \/ (rows[r].state = "staged" /\ rows'[r].state = "kept" /\ FinalizeRun)
    BY <1>5, <2>2
  <2>5. OneOfEachText(rows')
    <3>1. \A r \in Rows : StandsIn(rows', r) => StandsIn(rows, r)
      BY <2>4 DEF StandsIn
    <3>2. \A r \in Rows : rows'[r].url = rows[r].url /\ rows'[r].text = rows[r].text
      BY <2>4
    <3>3. OneOfEachText(rows)
      BY DEF RowsSound
    <3> HIDE DEF StandsIn
    <3> QED BY <3>1, <3>2, <3>3 DEF OneOfEachText
  <2>6. \A r \in Rows : RowMoves(r)
    BY <2>4
  <2>7. deleting' # 0 => rows'[deleting'].state = "kept"
    BY <1>a, <2>3, <2>4
  <2>8. \A r \in Rows : rows'[r].state # "absent" => rows'[r].url \in Urls
    BY <2>4
  <2> HIDE DEF OneCurrent, OneOfEachText, LiveIsCurrent, RowMoves
  <2> QED BY <2>2, <2>5, <2>6, <2>7, <2>8
<1>6. ASSUME NEW q \in Rows, DeletePage(q) PROVE RowsSound' /\ \A r \in Rows : RowMoves(r)
  <2>1. \A r \in Rows : /\ rows'[r].state = rows[r].state /\ rows'[r].url = rows[r].url /\ rows'[r].text = rows[r].text
                         /\ rows'[r].current = rows[r].current /\ rows'[r].indexed = rows[r].indexed /\ (rows'[r].live => rows[r].live)
    BY <1>6 DEF DeletePage, DropChunks, PageRows
  <2>2. deleting' = q /\ rows[q].state = "kept"
    BY <1>6 DEF DeletePage
  <2>a. \A r \in Rows : StandsIn(rows', r) => StandsIn(rows, r)
    BY <2>1
  <2>b. OneCurrent(rows')
    <3>1. \A r \in Rows : rows'[r].url = rows[r].url /\ rows'[r].current = rows[r].current
      BY <2>1
    <3>2. OneCurrent(rows)
      BY DEF RowsSound
    <3> HIDE DEF StandsIn
    <3> QED BY <2>a, <3>1, <3>2 DEF OneCurrent
  <2>c. OneOfEachText(rows')
    <3>1. \A r \in Rows : rows'[r].url = rows[r].url /\ rows'[r].text = rows[r].text
      BY <2>1
    <3>2. OneOfEachText(rows)
      BY DEF RowsSound
    <3> HIDE DEF StandsIn
    <3> QED BY <2>a, <3>1, <3>2 DEF OneOfEachText
  <2>d. LiveIsCurrent(rows')
    BY <2>1
  <2>3. deleting' # 0 => rows'[deleting'].state = "kept"
    BY <2>1, <2>2
  <2>4. \A r \in Rows : rows'[r].state # "absent" => rows'[r].url \in Urls
    BY <2>1
  <2>5. \A r \in Rows : RowMoves(r)
    BY <2>1
  <2> HIDE DEF OneCurrent, OneOfEachText, LiveIsCurrent, RowMoves
  <2> QED BY <2>b, <2>c, <2>d, <2>3, <2>4, <2>5
<1>7. CASE FinishDelete
  <2>1. deleting \in Rows /\ rows[deleting].state = "kept" /\ deleting' = 0
    BY <1>7, <1>a DEF FinishDelete
  <2>2. \A r \in Rows : /\ rows'[r].state = (IF r = deleting THEN "deleted" ELSE rows[r].state) /\ rows'[r].url = rows[r].url
                         /\ rows'[r].text = rows[r].text /\ rows'[r].current = rows[r].current
                         /\ rows'[r].indexed = rows[r].indexed /\ rows'[r].live = rows[r].live
    BY <1>7, <2>1 DEF FinishDelete, MarkDeleted, PageRows
  <2>a. \A r \in Rows : StandsIn(rows', r) => StandsIn(rows, r)
    BY <2>2
  <2>b. OneCurrent(rows')
    <3>1. \A r \in Rows : rows'[r].url = rows[r].url /\ rows'[r].current = rows[r].current
      BY <2>2
    <3>2. OneCurrent(rows)
      BY DEF RowsSound
    <3> HIDE DEF StandsIn
    <3> QED BY <2>a, <3>1, <3>2 DEF OneCurrent
  <2>c. OneOfEachText(rows')
    <3>1. \A r \in Rows : rows'[r].url = rows[r].url /\ rows'[r].text = rows[r].text
      BY <2>2
    <3>2. OneOfEachText(rows)
      BY DEF RowsSound
    <3> HIDE DEF StandsIn
    <3> QED BY <2>a, <3>1, <3>2 DEF OneOfEachText
  <2>d. LiveIsCurrent(rows')
    BY <2>2
  <2>3. \A r \in Rows : rows'[r].state # "absent" => rows'[r].url \in Urls
    BY <2>1, <2>2
  <2>4. \A r \in Rows : RowMoves(r)
    BY <2>1, <2>2
  <2> HIDE DEF OneCurrent, OneOfEachText, LiveIsCurrent, RowMoves
  <2> QED BY <2>1, <2>3, <2>4, <2>b, <2>c, <2>d
<1> QED BY StepsOfTheTable, <1>1, <1>2, <1>3, <1>4, <1>5, <1>6, <1>7 DEF TableSteps

\* What a page that is stored adds to what the run has seen
LEMMA SeesIs ==
  ASSUME run \in Runs, NEW r, Sees(r)
  PROVE  /\ run.got[1] \in Urls \X Texts /\ run.got[1][1] \in Urls
         /\ SeenRows' = SeenRows \cup {r} /\ Observed' = Observed \cup {run.got[1][1]}
         /\ \A i \in DOMAIN run'.seen : (i \in DOMAIN run.seen /\ run'.seen[i] = run.seen[i]) \/ run'.seen[i] = <<r, run.got[1][1]>>
         /\ GotUrls = GotUrls' \cup {run.got[1][1]}
<1> DEFINE seen == run.seen
           got == run.got
           p == <<r, got[1][1]>>
<1>1. seen \in Seq(Rows \X Urls) /\ got \in Seq(Urls \X Texts) /\ got # <<>> /\ r \in Rows
  BY RunRecords DEF Sees
<1>2. run'.seen = Append(seen, p) /\ run'.got = Tail(got)
  BY DEF Sees
<1>3. got[1] \in Urls \X Texts /\ got[1][1] \in Urls /\ p \in Rows \X Urls
  BY <1>1
<1> DEFINE n == Len(seen)
           more == Append(seen, p)
<1>4. /\ n \in Nat /\ DOMAIN seen = 1..n /\ DOMAIN more = 1..(n + 1)
      /\ \A i \in 1..n : more[i] = seen[i]
      /\ more[n + 1] = p
  BY <1>1, <1>3
<1> DEFINE m == Len(got)
           rest == Tail(got)
<1>5. /\ m \in Nat \ {0} /\ DOMAIN got = 1..m /\ DOMAIN rest = 1..(m - 1)
      /\ \A i \in 1..(m - 1) : rest[i] = got[i + 1]
  BY <1>1
<1> HIDE DEF seen, got, p, n, more, m, rest
<1>6. \A i \in 1..(n + 1) : i \in 1..n \/ i = n + 1
  BY <1>4
<1>7. SeenRows' = SeenRows \cup {r}
  <2>1. \A x : x \in SeenRows' <=> \E i \in 1..(n + 1) : more[i][1] = x
    BY <1>2, <1>4 DEF SeenRows, more
  <2>2. \A x : x \in SeenRows <=> \E i \in 1..n : seen[i][1] = x
    BY <1>4 DEF SeenRows, seen
  <2>3. p[1] = r
    BY DEF p
  <2>4. \A x : x \in SeenRows' <=> x \in SeenRows \cup {r}
    BY <1>4, <2>1, <2>2, <2>3
  <2> QED BY <2>4
<1>8. Observed' = Observed \cup {got[1][1]}
  <2>1. \A x : x \in Observed' <=> \E i \in 1..(n + 1) : more[i][2] = x
    BY <1>2, <1>4 DEF Observed, more
  <2>2. \A x : x \in Observed <=> \E i \in 1..n : seen[i][2] = x
    BY <1>4 DEF Observed, seen
  <2>3. p[2] = got[1][1]
    BY DEF p
  <2>4. \A x : x \in Observed' <=> x \in Observed \cup {got[1][1]}
    BY <1>4, <2>1, <2>2, <2>3
  <2> QED BY <2>4
<1>9. GotUrls = GotUrls' \cup {got[1][1]}
  <2>1. \A x : x \in GotUrls' <=> \E i \in 1..(m - 1) : rest[i][1] = x
    BY <1>2, <1>5 DEF GotUrls, rest
  <2>2. \A x : x \in GotUrls <=> \E i \in 1..m : got[i][1] = x
    BY <1>5 DEF GotUrls, got
  <2>3. \A x : x \in GotUrls' => x \in GotUrls
    BY <1>5, <2>1, <2>2
  <2>4. ASSUME NEW x, x \in GotUrls PROVE x \in GotUrls' \cup {got[1][1]}
    <3>1. PICK i \in 1..m : got[i][1] = x
      BY <2>2, <2>4
    <3>2. CASE i # 1
      <4>1. i - 1 \in 1..(m - 1) /\ (i - 1) + 1 = i
        BY <1>5, <3>2
      <4> QED BY <1>5, <2>1, <3>1, <4>1
    <3> QED BY <3>1, <3>2
  <2>5. 1 \in 1..m
    BY <1>5
  <2> QED BY <2>2, <2>3, <2>4, <2>5
<1>10. \A i \in DOMAIN run'.seen : (i \in DOMAIN seen /\ run'.seen[i] = seen[i]) \/ run'.seen[i] = p
  BY <1>2, <1>4, <1>6 DEF more
<1> QED BY <1>3, <1>7, <1>8, <1>9, <1>10 DEF seen, got, p

LEMMA HandKept ==
  ASSUME SearchTypeOK, RunPlaced, RowsSound, RowsInHand, RunsTold, [SearchNext]_searchVars
  PROVE  RowsInHand'
<1> USE DEF RowsInHand, Early, Rounds, Over
<1>a. run \in Runs /\ \A r \in Rows : RowMoves(r)
  BY RowsMove DEF SearchTypeOK
<1>b. /\ StoreNew => run.at = "storing" /\ run'.at = "indexing" /\ run'.row = FreeRow
      /\ IndexFails => run.at = "indexing" /\ run'.at \in {"undoing", "concluding"}
      /\ Undo => run.at = "undoing" /\ run'.at = "closing" /\ run'.fresh = run.fresh
      /\ Restart => run.at = "idle" /\ run' = run
      /\ FinalizeRun => run.at = "promoting"
  <2>1. StoreNew => run.at = "storing" /\ run'.at = "indexing" /\ run'.row = FreeRow
    BY <1>a DEF StoreNew, At, Runs
  <2>2. IndexFails => run.at = "indexing" /\ run'.at \in {"undoing", "concluding"}
    BY <1>a, RaiseIs, EndAsIs DEF IndexFails, StoreError, At
  <2>3. Undo => run.at = "undoing" /\ run'.at = "closing" /\ run'.fresh = run.fresh
    BY <1>a, GoesKeeps DEF Undo, At, Keeps, KeepsFound
  <2>4. (Restart => run.at = "idle" /\ run' = run) /\ (FinalizeRun => run.at = "promoting")
    BY DEF Restart, FinalizeRun, At, RunPlaced, NoRun
  <2> QED BY <2>1, <2>2, <2>3, <2>4
<1>c. run.at \in Rounds \cup Over => \A r \in SeenRows : r \in Rows /\ rows'[r].state # "absent" /\ rows'[r].url = rows[r].url
  <2>1. ASSUME run.at \in Rounds \cup Over, NEW r \in SeenRows PROVE r \in Rows /\ rows'[r].state # "absent" /\ rows'[r].url = rows[r].url
    <3>1. r \in Rows /\ rows[r].state # "absent"
      <4>1. PICK i \in DOMAIN run.seen : r = run.seen[i][1]
        BY DEF SeenRows
      <4> QED BY <1>a, <2>1, <4>1, RunRecords
    <3>2. ~(IndexFails /\ r = run.row) /\ ~Undo /\ ~Restart
      BY <1>b, <2>1
    <3>3. rows[r].state \in {"staged", "kept", "deleted"}
      BY <3>1 DEF SearchTypeOK, CacheTypeOK, PageRows
    <3> QED BY <1>a, <3>1, <3>2, <3>3 DEF RowMoves
  <2> QED BY <2>1
<1>d. run.at \in Early => SeenRows = {}
  BY DEF RunPlaced, SeenRows
\* What is staged after the step was, unless it was stored just now.
<1>e. ASSUME up', NEW r \in Rows, rows'[r].state = "staged", rows'[r].indexed
      PROVE  (Index /\ r = run.row) \/ (run.at \in Rounds \cup Over \cup {"undoing"} /\ r \in run.fresh)
  <2>1. rows[r].state = "staged" /\ (rows[r].indexed \/ (Index /\ r = run.row))
    BY <1>a, <1>e DEF RowMoves, SearchTypeOK, CacheTypeOK, PageRows
  <2>2. up
    <3>1. Restart => rows'[r].state # "staged"
      BY DEF Restart, PurgeStaged, RollbackNew, Absent, PageRow
    <3> QED BY <1>e, <3>1, OthersKept DEF Crash
  <2> QED BY <2>1, <2>2
<1>g. Undo => \A r \in Rows \cap run.fresh : rows'[r].state # "staged"
  BY DEF Undo, RollbackNew, Absent, PageRow
<1>h. Index => run.at = "indexing" /\ run'.at = "storing" /\ run'.fresh = run.fresh \cup {run.row}
  BY <1>a DEF Index, At, Runs
<1>1. CASE run' = run /\ RunRests
  <2>1. SeenRows' = SeenRows
    BY <1>1 DEF SeenRows
  <2>2. run.at \in Rounds \cup Over => \A i \in DOMAIN run.seen : run.seen[i][1] \in SeenRows
    BY DEF SeenRows
  <2>3. run.at \in Rounds \cup Over => \A i \in DOMAIN run.seen : rows'[run.seen[i][1]].state # "absent" /\ rows'[run.seen[i][1]].url = run.seen[i][2]
    BY <1>c, <2>2
  <2>4. run.at = "indexing" => rows'[run.row].state = "staged" /\ rows'[run.row].url = rows[run.row].url /\ ~rows'[run.row].indexed
    <3>1. run.at = "indexing" => run.row \in Rows /\ ~FinalizeRun /\ ~IndexFails /\ ~Undo /\ ~Restart /\ ~Index
      BY <1>a, <1>b, <1>h, <1>1, RunRecords, WebAssumption DEF Rows
    <3> QED BY <1>a, <3>1 DEF RowMoves, SearchTypeOK, CacheTypeOK, PageRows
  <2>5. ASSUME up', NEW r \in Rows, rows'[r].state = "staged", rows'[r].indexed
        PROVE  run.at \in Rounds \cup Over \cup {"undoing"} /\ r \in run.fresh
    BY <1>1, <1>e, <1>h, <2>5
  <2> QED BY <1>1, <2>1, <2>3, <2>4, <2>5
<1>2. CASE run' = NoRun /\ ((AddQuestion /\ ~session) \/ MarkQuestion \/ Crash)
  <2>1. up' => run.at \in {"asking", "marking"}
    BY <1>2, <1>a DEF AddQuestion, MarkQuestion, Crash, At
  <2>2. up' => \A r \in Rows : rows'[r].state = "staged" => ~rows'[r].indexed
    BY <1>e, <1>h, <2>1
  <2> QED BY <1>2, <2>2 DEF NoRun
<1>3. CASE \E mode \in Modes, second \in BOOLEAN, calls \in CallBudgets : Begin(mode, second, calls)
  <2>1. Starts
    BY <1>3, BeginIs
  <2>2. up' => \A r \in Rows : rows'[r].state = "staged" => ~rows'[r].indexed
    BY <1>e, <1>h, <2>1 DEF Starts
  <2> QED BY <2>1, <2>2 DEF Starts
<1>4. CASE Fails
  <2>1. run'.at = "undoing" /\ run'.fresh = run.fresh
    BY <1>4 DEF Fails, Keeps, KeepsFound
  <2>2. ASSUME up', NEW r \in Rows, rows'[r].state = "staged", rows'[r].indexed PROVE r \in run.fresh
    BY <1>e, <1>h, <2>1, <2>2
  <2> QED BY <2>1, <2>2
<1>5. CASE GivesUpRepair
  <2>1. run'.at = "concluding" /\ run'.fresh = run.fresh /\ run'.seen = run.seen /\ SeenRows' = SeenRows /\ run.at \in Rounds
    BY <1>5 DEF GivesUpRepair, Keeps, KeepsFound, SeenRows
  <2>2. ASSUME up', NEW r \in Rows, rows'[r].state = "staged", rows'[r].indexed PROVE r \in run.fresh
    BY <1>e, <1>h, <2>1, <2>2
  <2>3. \A i \in DOMAIN run.seen : run.seen[i][1] \in SeenRows
    BY DEF SeenRows
  <2> QED BY <1>c, <2>1, <2>2, <2>3
<1>6. CASE MovesOn
  <2>0. run'.fresh = run.fresh /\ run'.seen = run.seen /\ run'.at # "indexing"
    BY <1>6 DEF MovesOn, Keeps, KeepsFound, AfterPromotion
  <2>1. CASE run.at = "promoting"
    <3>1. rows' = PromoteAll(run.seen) \/ run.seen = <<>>
      BY <1>6, <2>1 DEF MovesOn
    <3>2. run'.at \notin Rounds \cup Over
      BY <1>6, <2>1 DEF MovesOn, AfterPromotion
    <3>3. ASSUME NEW r \in Rows, r \in SeenRows, rows' = PromoteAll(run.seen) PROVE rows'[r].state # "staged"
      <4>1. PICK i \in DOMAIN run.seen : run.seen[i][1] = r
        BY <3>3 DEF SeenRows
      <4>2. run.seen \in Seq(Rows \X Urls) /\ i \in 1..Len(run.seen)
        BY <1>a, <4>1, RunRecords
      <4>3. \A j \in 1..Len(run.seen) : rows[run.seen[j][1]].url = run.seen[j][2]
        BY <2>1, <4>2
      <4>4. rows'[r].state = IF rows[r].state = "staged" /\ \E j \in 1..Len(run.seen) : run.seen[j][1] = r THEN "kept" ELSE rows[r].state
        BY <3>3, <4>2, <4>3, PromoteAllIs DEF RowsSound, SearchTypeOK, CacheTypeOK
      <4> QED BY <4>1, <4>2, <4>4
    <3>4. run.seen = <<>> => SeenRows = {}
      BY DEF SeenRows
    <3>5. ASSUME up', NEW r \in Rows, rows'[r].state = "staged", rows'[r].indexed PROVE FALSE
      BY <1>e, <1>h, <2>0, <2>1, <3>1, <3>3, <3>4, <3>5
    <3> QED BY <2>0, <3>2, <3>5
  <2>2. CASE run.at = "undoing"
    <3>1. Undo /\ run'.at = "closing"
      BY <1>6, <2>2 DEF MovesOn
    <3>2. ASSUME up', NEW r \in Rows, rows'[r].state = "staged", rows'[r].indexed PROVE FALSE
      BY <1>e, <1>g, <1>h, <2>0, <2>2, <3>1, <3>2
    <3> QED BY <3>1, <3>2
  <2>3. CASE run.at = "seeding"
    <3>1. run'.at = "querying" /\ SeenRows' = SeenRows
      BY <1>6, <2>0, <2>3 DEF MovesOn, SeenRows
    <3>2. ASSUME up', NEW r \in Rows, rows'[r].state = "staged", rows'[r].indexed PROVE r \in run.fresh
      BY <1>e, <1>h, <2>3, <3>2
    <3>3. \A i \in DOMAIN run.seen : run.seen[i][1] \in SeenRows
      BY DEF SeenRows
    <3> QED BY <1>c, <2>0, <2>3, <3>1, <3>2, <3>3
  <2>4. CASE run.at \notin {"promoting", "undoing", "seeding"}
    <3>1. run.at \notin Rounds \cup Over \cup {"undoing"} /\ run'.at \notin Rounds \cup Over
      BY <1>6, <2>4 DEF MovesOn, AfterPromotion
    <3>2. ASSUME up', NEW r \in Rows, rows'[r].state = "staged", rows'[r].indexed PROVE FALSE
      BY <1>e, <1>h, <3>1, <3>2
    <3> QED BY <2>0, <3>1, <3>2
  <2> QED BY <2>1, <2>2, <2>3, <2>4
<1>7. CASE Computes
  <2> USE DEF KeepsFound
  <2>s. run'.seen = run.seen => SeenRows' = SeenRows
    BY DEF SeenRows
  <2>t. \A i \in DOMAIN run.seen : run.seen[i][1] \in SeenRows
    BY DEF SeenRows
  <2>1. CASE PlanGoes \/ Retrieves
    <3>1. run.at \in {"planning", "retrieving"} /\ run'.at \in {"retrieving", "providing"} /\ run'.seen = <<>> /\ run'.fresh = {}
      BY <2>1 DEF PlanGoes, Retrieves, RunPlaced
    <3>2. ASSUME up', NEW r \in Rows, rows'[r].state = "staged", rows'[r].indexed PROVE FALSE
      BY <1>e, <1>h, <3>1, <3>2
    <3> QED BY <3>1, <3>2
  <2>2. CASE Prepares \/ (\E urls : Asks(urls)) \/ GetsAll \/ GetsNoMore \/ GetsOne \/ Joins \/ Selects \/ Repairs \/ Concludes \/ SynthesisGoes
    <3>1. /\ run.at \in (Rounds \cup Over) \ {"indexing"} /\ run'.at \in (Rounds \cup Over) \ {"indexing"}
          /\ run'.seen = run.seen /\ run'.fresh = run.fresh
      BY <2>2 DEF Prepares, Keeps, Asks, GetsAll, GetsNoMore, GetsOne, Gets, Joins, Selects, Repairs, Concludes, SynthesisGoes
    <3>2. ASSUME up', NEW r \in Rows, rows'[r].state = "staged", rows'[r].indexed PROVE r \in run.fresh
      BY <1>e, <1>h, <3>1, <3>2
    <3> QED BY <1>c, <2>s, <2>t, <3>1, <3>2
  <2>3. CASE Inserts
    <3>1. /\ run.at = "storing" /\ run'.at = "indexing" /\ run'.row = FreeRow
          /\ run'.got = run.got /\ run'.seen = run.seen /\ run'.fresh = run.fresh
      BY <2>3 DEF Inserts
    <3>2. FreeRow \in Rows /\ rows[FreeRow].state = "absent"
      BY <2>3, FreeRowIs DEF Inserts, StoreNew
    <3>3. rows'[FreeRow].state = "staged" /\ rows'[FreeRow].url = run.got[1][1] /\ ~rows'[FreeRow].indexed
      BY <2>3, <3>2 DEF Inserts, StoreNew, InsertStaged, PageRow, SearchTypeOK, CacheTypeOK
    <3>4. FreeRow \notin SeenRows
      BY <3>1, <3>2 DEF SeenRows
    <3>5. FreeRow # 0
      BY <3>2 DEF Rows
    <3>6. ASSUME up', NEW r \in Rows, rows'[r].state = "staged", rows'[r].indexed PROVE r \in run.fresh
      BY <1>e, <1>h, <3>1, <3>6
    <3> HIDE DEF FreeRow
    <3> QED BY <1>c, <2>s, <2>t, <3>1, <3>3, <3>4, <3>5, <3>6
  <2>4. ASSUME NEW r, Sees(r), run.at \in {"storing", "indexing"}, rows[r].state # "absent", rows[r].url = run.got[1][1],
               run.fresh \subseteq run'.fresh /\ run'.fresh \subseteq run.fresh \cup {r},
               run.at = "indexing" => r = run.row, r \in run'.fresh \/ rows[r].state # "staged"
        PROVE  RowsInHand'
    <3>1. r \in Rows /\ run'.at = "storing" /\ SeenRows' = SeenRows \cup {r}
      BY <1>a, <2>4, SeesIs DEF Sees
    <3>2. rows'[r].state # "absent" /\ rows'[r].url = run.got[1][1]
      <4>1. ~IndexFails /\ ~Undo /\ ~Restart
        BY <1>b, <2>4, <3>1
      <4>2. rows[r].state \in {"staged", "kept", "deleted"}
        BY <2>4, <3>1 DEF SearchTypeOK, CacheTypeOK, PageRows
      <4> QED BY <1>a, <2>4, <3>1, <4>1, <4>2 DEF RowMoves
    <3>3. \A i \in DOMAIN run'.seen : (i \in DOMAIN run.seen /\ run'.seen[i] = run.seen[i]) \/ run'.seen[i] = <<r, run.got[1][1]>>
      BY <1>a, <2>4, SeesIs
    <3>4. \A i \in DOMAIN run'.seen : rows'[run'.seen[i][1]].state # "absent" /\ rows'[run'.seen[i][1]].url = run'.seen[i][2]
      BY <1>c, <2>4, <2>t, <3>2, <3>3
    <3>5. ASSUME up', NEW q \in Rows, rows'[q].state = "staged", rows'[q].indexed PROVE q \in run'.fresh
      BY <1>e, <1>h, <2>4, <3>5
    <3>6. run'.fresh \subseteq SeenRows'
      BY <2>4, <3>1
    <3> QED BY <3>1, <3>4, <3>5, <3>6
  <2>5. ASSUME NEW r, Hits(r) PROVE RowsInHand'
    <3>1. /\ Sees(r) /\ run.at = "storing" /\ r \in Rows /\ rows[r].state \in {"staged", "kept"} /\ rows[r].url = run.got[1][1]
          /\ run'.fresh = IF rows[r].state = "staged" THEN run.fresh \cup {r} ELSE run.fresh
      BY <2>5 DEF Hits, CacheHits, Stands
    <3>2. run.fresh \subseteq run'.fresh /\ run'.fresh \subseteq run.fresh \cup {r} /\ (r \in run'.fresh \/ rows[r].state # "staged")
      BY <3>1
    <3> QED BY <2>4, <3>1, <3>2
  <2>6. CASE Indexes
    <3>1. Sees(run.row) /\ run.at = "indexing" /\ run'.fresh = run.fresh \cup {run.row}
      BY <2>6 DEF Indexes
    <3>2. rows[run.row].state = "staged" /\ rows[run.row].url = run.got[1][1]
      BY <3>1
    <3> QED BY <2>4, <3>1, <3>2
  <2> QED BY <1>7, <2>1, <2>2, <2>3, <2>5, <2>6 DEF Computes
<1> QED BY Steps, <1>1, <1>2, <1>3, <1>4, <1>5, <1>6, <1>7

LEMMA PoolKept ==
  ASSUME SearchTypeOK, RunPlaced, RowsSound, RowsInHand, RunsTold, PoolStands, [SearchNext]_searchVars
  PROVE  PoolStands'
<1> DEFINE Stays == Early \cup Rounds \cup Over
<1> USE DEF PoolStands
<1>a. run \in Runs /\ \A r \in Rows : rows[r].state \in {"kept", "deleted"} => rows'[r].state \in {"kept", "deleted"}
  BY RowsMove DEF SearchTypeOK, RowMoves
<1>b. PoolRows \cup run.picked \subseteq Rows
  BY <1>a, RunRecords DEF PoolRows
<1>c. (run'.seen = run.seen => SeenRows' = SeenRows) /\ (run'.pool = run.pool => PoolRows' = PoolRows)
  BY DEF SeenRows, PoolRows
<1>d. ASSUME run.at \in Stays, NEW r \in PoolRows \cup run.picked PROVE r \in SeenRows \/ rows'[r].state \in {"kept", "deleted"}
  BY <1>a, <1>b, <1>d
\* A step that neither sees nor picks anything new
<1>e. ASSUME run.at \in Stays, run'.seen = run.seen, run'.pool = run.pool, run'.round = run.round, run'.picked \subseteq run.picked \cup PoolRows
      PROVE  PoolStands'
  BY <1>c, <1>d, <1>e
<1>1. CASE run' = run
  BY <1>1, <1>e
<1>2. CASE run' = NoRun
  BY <1>2 DEF NoRun, Early, Rounds, Over
<1>3. CASE \E mode \in Modes, second \in BOOLEAN, calls \in CallBudgets : Begin(mode, second, calls)
  <2>1. Starts
    BY <1>3, BeginIs
  <2>2. PoolRows' = {}
    BY <2>1 DEF Starts, PoolRows
  <2> QED BY <2>1, <2>2 DEF Starts
<1>4. CASE Fails
  BY <1>4 DEF Fails, Early, Rounds, Over
<1>5. CASE GivesUpRepair \/ MovesOn
  <2>1. CASE run'.at \in Stays
    <3>1. run.at \in Stays /\ Keeps
      BY <1>5, <2>1 DEF GivesUpRepair, MovesOn, AfterPromotion, Early, Rounds, Over
    <3> QED BY <3>1, <1>e DEF Keeps, KeepsFound, KeepsPool, KeepsPicked
  <2> QED BY <2>1
<1>7. CASE Computes
  <2> USE DEF KeepsFound, KeepsPool, KeepsPicked
  <2>0. run.at \in Stays
    BY <1>7 DEF Computes, PlanGoes, Retrieves, Prepares, Asks, GetsAll, GetsNoMore, GetsOne, Gets, Sees, Hits, Inserts, Indexes, Joins, Selects, Repairs,
       Concludes, SynthesisGoes, Early, Rounds, Over
  <2>1. CASE PlanGoes \/ Prepares \/ GetsAll \/ GetsNoMore \/ GetsOne \/ Inserts \/ Selects \/ Repairs \/ Concludes \/ SynthesisGoes
    <3>1. /\ run'.seen = run.seen /\ run'.pool = run.pool /\ run'.round = run.round /\ run'.picked \subseteq run.picked \cup PoolRows
      BY <2>1 DEF PlanGoes, Prepares, Keeps, GetsAll, GetsNoMore, GetsOne, Gets, Inserts, Selects, Repairs, Concludes, SynthesisGoes
    <3> QED BY <2>0, <3>1, <1>e
  <2>2. CASE Retrieves
    <3>1. PICK found \in SUBSET {r \in Rows : rows[r].state = "kept"} : run'.pool = {<<r, "local">> : r \in found}
      BY <2>2 DEF Retrieves
    <3>2. PoolRows' \subseteq {r \in Rows : rows[r].state = "kept"}
      BY <3>1 DEF PoolRows
    <3>3. run'.picked = run.picked /\ run'.round = run.round /\ run'.seen = run.seen
      BY <2>2 DEF Retrieves
    <3> QED BY <1>a, <1>c, <1>d, <2>0, <3>2, <3>3
  <2>3. CASE \E urls : Asks(urls)
    <3>1. run'.picked = run.picked /\ run'.round = {} /\ run'.seen = run.seen /\ run'.pool = run.pool
      BY <2>3 DEF Asks
    <3> QED BY <1>c, <1>d, <2>0, <3>1
  <2>4. ASSUME NEW r, Sees(r) PROVE PoolStands'
    <3>1. SeenRows' = SeenRows \cup {r} /\ run'.round = run.round \cup {<<r, "web">>} /\ run'.picked = run.picked /\ PoolRows' = PoolRows
      BY <1>a, <1>c, <2>4, SeesIs DEF Sees
    <3> QED BY <1>d, <2>0, <3>1
  <2>5. CASE Joins
    <3>1. run'.seen = run.seen /\ run'.pool = run.pool \cup run.round /\ run'.round = run.round /\ run'.picked = run.picked
      BY <2>5 DEF Joins
    <3>2. PoolRows' \subseteq PoolRows \cup SeenRows
      BY <2>0, <3>1 DEF PoolRows
    <3> QED BY <1>c, <1>d, <2>0, <3>1, <3>2
  <2> QED BY <1>7, <2>1, <2>2, <2>3, <2>4, <2>5 DEF Computes, Hits, Indexes
<1> QED BY Steps, <1>1, <1>2, <1>3, <1>4, <1>5, <1>7

-----------------------------------------------------------------------------
\* The rows of the runs

LogSteps ==
  \/ (AddQuestion /\ session) \/ LinkQuestion \/ PersistEvidence \/ (AddAnswer /\ session) \/ Complete \/ CloseFailed
  \/ MarkQuestion \/ DeleteSession \/ Restart
  \/ \E mode \in Modes, second \in BOOLEAN, calls \in CallBudgets : Begin(mode, second, calls)

LEMMA LogMoves == ASSUME [SearchNext]_searchVars, ~LogSteps PROVE log' = log /\ session' = session
<1>1. CASE AddQuestion \/ AddAnswer
  BY <1>1 DEF AddQuestion, AddAnswer, UnchangedBut, LogSteps
<1> QED BY <1>1, LogIsKept DEF LogSteps, LogKept, SearchNext, Work

\* What is told of a run still is, when its own row stays, and what the steps of others do to it.
LEMMA ToldStill ==
  ASSUME \A r \in Rows : RowMoves(r), SearchTypeOK, NEW n \in RunIds, Told(n), log'[n] = log[n], session' = session,
         log[n].status = "running" /\ (run.n = n \/ ~up) => run'.n = n \/ ~up' \/ ~session'
  PROVE  Told(n)'
<1>1. log[n].evidence \subseteq Rows
  BY DEF SearchTypeOK, Logs
<1>2. \A r \in log[n].evidence : rows'[r].state \in {"kept", "deleted"}
  BY <1>1 DEF Told, RowMoves
<1> QED BY <1>2 DEF Told

\* A step that writes the row of the run in hand
LEMMA OwnRow ==
  ASSUME SearchTypeOK, RunPlaced, RowsSound, RowsInHand, RunsTold, [SearchNext]_searchVars,
         up, run.at # "idle", NEW l, log' = [log EXCEPT ![run.n] = l], session' = session, run'.n = run.n \/ l.status # "running",
         /\ l.status # None
         /\ l.status = "completed" => (l.answer \/ ~session) /\ (l.resultsOnly <=> l.evidence = {})
         /\ l.evidence \in SUBSET Rows /\ \A r \in l.evidence : rows[r].state \in {"kept", "deleted"}
         /\ l.note \in {None, "gone", "running", l.status}
  PROVE  log'[run.n] = l /\ \A n \in RunIds : Told(n)'
<1>1. run.n \in RunIds /\ log'[run.n] = l /\ \A k \in RunIds : k # run.n => log'[k] = log[k]
  BY DEF RunPlaced, SearchTypeOK
<1>2. \A r \in Rows : RowMoves(r)
  BY RowsMove
<1>3. ASSUME NEW n \in RunIds, n # run.n PROVE Told(n)'
  <2>1. Told(n)
    BY DEF RunsTold
  <2> QED BY <1>1, <1>2, <1>3, <2>1, ToldStill
<1>4. ASSUME NEW n \in RunIds, n = run.n PROVE Told(n)'
  <2>1. \A r \in l.evidence : rows'[r].state \in {"kept", "deleted"}
    BY <1>2 DEF RowMoves
  <2>2. log'[n] = l /\ (run'.n = n \/ l.status # "running")
    BY <1>1, <1>4
  <2> HIDE <1>4
  <2> QED BY <2>1, <2>2 DEF Told
<1> QED BY <1>1, <1>3, <1>4

\* What the run in hand says of itself before a step that writes its row
LEMMA OwnRowIs ==
  ASSUME SearchTypeOK, RunPlaced, RunsTold, run.at # "idle"
  PROVE  /\ run.n \in RunIds /\ log[run.n] \in Logs
         /\ run.at # "marking" => log[run.n].status = "running"
         /\ log[run.n].note \in {None, "gone", "running", log[run.n].status}
         /\ log[run.n].evidence \subseteq Rows /\ \A r \in log[run.n].evidence : rows[r].state \in {"kept", "deleted"}
<1>1. run.n \in RunIds /\ log[run.n] \in Logs
  BY DEF RunPlaced, SearchTypeOK
<1>2. Told(run.n) /\ Telling
  BY <1>1 DEF RunsTold
<1> QED BY <1>1, <1>2 DEF Told, Telling, Logs

LEMMA RunsTellOfSteps ==
  ASSUME SearchTypeOK, RunPlaced, RowsSound, RowsInHand, RunsTold, PoolStands, [SearchNext]_searchVars,
         (AddQuestion /\ session) \/ LinkQuestion \/ PersistEvidence \/ (AddAnswer /\ session) \/ Complete \/ CloseFailed \/ MarkQuestion
  PROVE  RunsTold'
<1> DEFINE one == log[run.n]
<1>a. run \in Runs /\ up /\ run.at # "idle" /\ (up' = up) /\ session' = session /\ rows' = rows
  <2>1. up /\ run.at # "idle"
    BY DEF AddQuestion, LinkQuestion, PersistEvidence, AddAnswer, Complete, CloseFailed, MarkQuestion, At
  <2>2. up' = up /\ session' = session /\ rows' = rows
    BY DEF AddQuestion, LinkQuestion, PersistEvidence, AddAnswer, Complete, CloseFailed, MarkQuestion, UnchangedBut, cacheVars
  <2> QED BY <2>1, <2>2 DEF SearchTypeOK
<1>b. /\ run.n \in RunIds /\ one \in Logs
      /\ run.at # "marking" => one.status = "running"
      /\ one.note \in {None, "gone", "running", one.status}
      /\ one.evidence \subseteq Rows /\ \A r \in one.evidence : rows[r].state \in {"kept", "deleted"}
  BY <1>a, OwnRowIs
<1>c. Telling /\ log \in [RunIds -> Logs]
  BY DEF RunsTold, SearchTypeOK
<1> HIDE DEF one
<1>1. CASE AddQuestion /\ session
  <2> DEFINE l == [one EXCEPT !.note = "running"]
  <2>1. l.status = "running" /\ l.note = "running" /\ l.evidence = one.evidence
    BY <1>1, <1>b DEF AddQuestion, At, Logs
  <2>2. log' = [log EXCEPT ![run.n] = l]
    BY <1>1 DEF AddQuestion, one
  <2>3. run'.n = run.n /\ run'.at = "noting_question" /\ run.at = "asking" /\ run'.mode = run.mode /\ run'.picked = run.picked /\ run'.malformed = run.malformed
    BY <1>1, <1>a, GoesKeeps DEF AddQuestion, At, Keeps, KeepsAsked, KeepsPicked
  <2> HIDE DEF l
  <2>4. log'[run.n] = l /\ \A n \in RunIds : Told(n)'
    BY <1>a, <1>b, <2>1, <2>2, <2>3, OwnRow DEF None
  <2> QED BY <1>b, <1>c, <2>1, <2>3, <2>4 DEF RunsTold, Telling, one
<1>2. CASE LinkQuestion
  <2> DEFINE l == [one EXCEPT !.linked = TRUE]
  <2>1. l.status = "running" /\ l.note = one.note /\ l.evidence = one.evidence
    BY <1>2, <1>b DEF LinkQuestion, At, Logs
  <2>2. log' = [log EXCEPT ![run.n] = l]
    BY <1>2 DEF LinkQuestion, one
  <2>3. run'.n = run.n /\ run'.at = "planning" /\ run.at = "noting_question" /\ run'.mode = run.mode /\ run'.picked = run.picked /\ run'.malformed = run.malformed
    BY <1>2, <1>a, GoesKeeps DEF LinkQuestion, At, Keeps, KeepsAsked, KeepsPicked
  <2> HIDE DEF l
  <2>4. log'[run.n] = l /\ \A n \in RunIds : Told(n)'
    BY <1>a, <1>b, <2>1, <2>2, <2>3, OwnRow DEF None
  <2> QED BY <1>b, <1>c, <2>1, <2>3, <2>4 DEF RunsTold, Telling, one
<1>3. CASE PersistEvidence
  <2> DEFINE l == [one EXCEPT !.evidence = run.picked]
  <2>1. l.status = "running" /\ l.note = one.note /\ l.evidence = run.picked
    BY <1>3, <1>b DEF PersistEvidence, At, Logs
  <2>2. log' = [log EXCEPT ![run.n] = l]
    BY <1>3 DEF PersistEvidence, one
  <2>3. run'.n = run.n /\ run'.at = "answering" /\ run.at = "evidencing" /\ run'.mode = run.mode /\ run'.picked = run.picked /\ run'.malformed = run.malformed
    BY <1>3, <1>a, GoesKeeps DEF PersistEvidence, At, Keeps, KeepsAsked, KeepsPicked
  <2>4. run.picked \subseteq Rows /\ \A r \in run.picked : rows[r].state \in {"kept", "deleted"}
    BY <1>a, <1>c, <2>3, RunRecords DEF Telling
  <2> HIDE DEF l
  <2>5. log'[run.n] = l /\ \A n \in RunIds : Told(n)'
    BY <1>a, <1>b, <2>1, <2>2, <2>3, <2>4, OwnRow DEF None
  <2> QED BY <1>a, <1>b, <1>c, <2>1, <2>3, <2>4, <2>5 DEF RunsTold, Telling
<1>4. CASE AddAnswer /\ session
  <2> DEFINE told == ResultsOnly
             l == [one EXCEPT !.answer = TRUE, !.resultsOnly = told]
  <2>0. told \in BOOLEAN /\ (told <=> run.picked = {} /\ run.malformed)
    BY DEF ResultsOnly
  <2>1. log' = [log EXCEPT ![run.n] = l]
    <3>1. log' = [log EXCEPT ![run.n].answer = TRUE, ![run.n].resultsOnly = told]
      BY <1>4 DEF AddAnswer
    <3> HIDE DEF told
    <3> QED BY <1>b, <1>c, <3>1 DEF one
  <2> HIDE DEF told
  <2>2. l.status = "running" /\ l.note = one.note /\ l.evidence = one.evidence /\ l.answer /\ (l.resultsOnly <=> told)
    BY <1>4, <1>b, <2>0 DEF AddAnswer, At, Logs
  <2>3. run'.n = run.n /\ run'.at \in {"linking", "titling"} /\ run.at = "answering" /\ run'.mode = run.mode /\ run'.picked = run.picked /\ run'.malformed = run.malformed
    BY <1>4, <1>a, GoesKeeps DEF AddAnswer, At, Keeps, KeepsAsked, KeepsPicked
  <2>4. one.evidence = run.picked /\ (told <=> one.evidence = {})
    BY <1>c, <2>0, <2>3 DEF Telling, one
  <2> HIDE DEF l
  <2>5. log'[run.n] = l /\ \A n \in RunIds : Told(n)'
    BY <1>a, <1>b, <2>1, <2>2, <2>3, OwnRow DEF None
  <2> QED BY <1>a, <1>b, <1>c, <2>2, <2>3, <2>4, <2>5 DEF RunsTold, Telling
<1>5. CASE Complete
  <2> DEFINE l == [one EXCEPT !.status = "completed"]
  <2>1. l.status = "completed" /\ l.note = one.note /\ l.evidence = one.evidence /\ l.answer = one.answer /\ l.resultsOnly = one.resultsOnly /\ one.status = "running"
    BY <1>5, <1>b DEF Complete, At, Logs
  <2>2. log' = [log EXCEPT ![run.n] = l]
    BY <1>5 DEF Complete, CompleteRun, one
  <2>3. run'.n = run.n /\ run'.at = "marking" /\ run.at = "completing" /\ run'.ending = "completed"
    BY <1>5, <1>a, EndsKeeps DEF Complete, At, Keeps, KeepsAsked
  <2>4. (one.answer \/ ~session) /\ (one.resultsOnly <=> one.evidence = {}) /\ one.note \in {None, "gone", "running"}
    BY <1>b, <1>c, <2>1, <2>3 DEF Telling, one
  <2> HIDE DEF l
  <2>5. log'[run.n] = l /\ \A n \in RunIds : Told(n)'
    BY <1>a, <1>b, <2>1, <2>2, <2>3, <2>4, OwnRow DEF None
  <2> QED BY <1>a, <1>b, <2>1, <2>3, <2>5 DEF RunsTold, Telling, Ended
<1>6. CASE CloseFailed
  <2> DEFINE l == [one EXCEPT !.status = run.ending]
  <2>0. run.at = "closing" /\ run.ending \in {"failed", "cancelled"}
    BY <1>6, <1>c DEF CloseFailed, At, Telling
  <2>1. l.status = run.ending /\ l.note = one.note /\ l.evidence = one.evidence /\ one.note \in {None, "gone", "running"}
    BY <1>b, <2>0 DEF Logs
  <2>2. log' = [log EXCEPT ![run.n] = l]
    BY <1>6 DEF CloseFailed, CompleteRun, one
  <2>3. run'.n = run.n /\ run'.at = "marking" /\ run'.ending = run.ending
    BY <1>6, <1>a, GoesKeeps DEF CloseFailed, Keeps, KeepsAsked
  <2> HIDE DEF l
  <2>5. log'[run.n] = l /\ \A n \in RunIds : Told(n)'
    BY <1>a, <1>b, <2>0, <2>1, <2>2, <2>3, OwnRow DEF None
  <2> QED BY <1>a, <1>b, <2>0, <2>1, <2>3, <2>5 DEF RunsTold, Telling, Ended
<1>7. CASE MarkQuestion
  <2> DEFINE note == IF session THEN run.ending ELSE one.note
             l == [one EXCEPT !.note = note]
  <2>0. run.at = "marking" /\ one.status = run.ending /\ run.ending \in Ended
    BY <1>7, <1>c DEF MarkQuestion, At, Telling, one
  <2>1. l.status = one.status /\ l.note = note /\ l.evidence = one.evidence /\ l.answer = one.answer /\ l.resultsOnly = one.resultsOnly
    BY <1>b DEF Logs
  <2>2. log' = [log EXCEPT ![run.n] = l]
    BY <1>7 DEF MarkQuestion, one
  <2>3. note \in {None, "gone", "running", one.status}
    BY <1>b, <2>0
  <2>4. one.status = "completed" => (one.answer \/ ~session) /\ (one.resultsOnly <=> one.evidence = {})
    BY <1>b DEF RunsTold, Told, one
  <2>5. l.status # None /\ l.status # "running" /\ run'.at = "idle"
    BY <1>7, <2>0, <2>1 DEF Ended, None, MarkQuestion, NoRun
  <2> HIDE DEF l, note
  <2>6. log'[run.n] = l /\ \A n \in RunIds : Told(n)'
    BY <1>a, <1>b, <2>1, <2>2, <2>3, <2>4, <2>5, OwnRow
  <2> QED BY <2>5, <2>6 DEF RunsTold, Telling
<1> QED BY <1>1, <1>2, <1>3, <1>4, <1>5, <1>6, <1>7

LEMMA RunsTellOfOthers ==
  ASSUME SearchTypeOK, RunPlaced, RowsSound, RowsInHand, RunsTold, [SearchNext]_searchVars,
         DeleteSession \/ Restart \/ \E mode \in Modes, second \in BOOLEAN, calls \in CallBudgets : Begin(mode, second, calls)
  PROVE  RunsTold'
<1>a. Telling /\ (\A n \in RunIds : Told(n)) /\ log \in [RunIds -> Logs] /\ \A r \in Rows : RowMoves(r)
  BY RowsMove DEF RunsTold, SearchTypeOK
<1>1. CASE DeleteSession
  <2>1. run' = run /\ rows' = rows /\ up' = up /\ session' = FALSE
    BY <1>1 DEF DeleteSession, UnchangedBut, cacheVars
  <2>2. \A n \in RunIds : /\ log'[n].status = log[n].status /\ log'[n].evidence = log[n].evidence /\ log'[n].resultsOnly = log[n].resultsOnly
                           /\ log'[n].note = (IF log[n].note = None THEN None ELSE "gone") /\ (log[n] = NoLog => log'[n] = NoLog)
    <3>1. \A n \in RunIds : log'[n] = [log[n] EXCEPT !.note = IF @ = None THEN @ ELSE "gone", !.answer = FALSE]
      BY <1>1 DEF DeleteSession
    <3>2. \A n \in RunIds : log[n] = NoLog => log'[n] = NoLog
      <4> SUFFICES ASSUME NEW n \in RunIds, log[n] = NoLog PROVE log'[n] = NoLog
        OBVIOUS
      <4> DEFINE gone == log'[n]
      <4>2. log[n].note = None /\ log[n].answer = FALSE
        BY DEF NoLog
      <4> HIDE DEF None
      <4>1. gone = [log[n] EXCEPT !.note = None, !.answer = FALSE] /\ log[n] \in Logs
        <5>1. gone = [log[n] EXCEPT !.note = IF log[n].note = None THEN log[n].note ELSE "gone", !.answer = FALSE]
          BY <3>1
        <5> QED BY <1>a, <4>2, <5>1
      <4>3. [log[n] EXCEPT !.note = None, !.answer = FALSE] = log[n]
        BY <4>1, <4>2 DEF Logs
      <4> QED BY <4>1, <4>3
    <3>3. \A n \in RunIds : log[n] \in Logs
      BY <1>a
    <3>4. ASSUME NEW n \in RunIds
          PROVE  /\ log'[n].status = log[n].status /\ log'[n].evidence = log[n].evidence /\ log'[n].resultsOnly = log[n].resultsOnly
                 /\ log'[n].note = IF log[n].note = None THEN None ELSE "gone"
      BY <3>1, <3>3 DEF Logs
    <3> QED BY <3>2, <3>4
  <2>3. \A n \in RunIds : Told(n)'
    BY <1>a, <2>1, <2>2 DEF Told
  <2>4. run.at # "idle" => run.n \in RunIds
    BY DEF RunPlaced
  <2>5. Telling'
    BY <1>a, <2>1, <2>2, <2>4 DEF Telling, Local
  <2> QED BY <2>3, <2>5 DEF RunsTold
<1>2. CASE Restart
  <2>1. run' = run /\ run = NoRun /\ up'
    BY <1>2 DEF Restart, RunPlaced
  <2>2. ASSUME NEW n \in RunIds PROVE Told(n)'
    <3>1. CASE log[n].status # "running"
      <4>1. log'[n] = log[n] /\ session' = session
        BY <1>2, <1>a, <3>1 DEF Restart, RecoverRuns, UnchangedBut
      <4> QED BY <1>a, <3>1, <4>1, ToldStill
    <3>2. CASE log[n].status = "running"
      <4>1. log'[n] = [log[n] EXCEPT !.status = "interrupted", !.note = IF log[n].linked /\ @ # "gone" THEN "interrupted" ELSE @]
        BY <1>2, <3>2 DEF Restart, RecoverRuns
      <4>2. /\ log'[n].status = "interrupted" /\ log'[n].evidence = log[n].evidence
            /\ log'[n].note = "interrupted" \/ log'[n].note = log[n].note
        BY <1>a, <4>1 DEF Logs
      <4>3. log[n].evidence \subseteq Rows /\ log[n].note \in {None, "gone", "running"} /\ \A r \in log[n].evidence : rows[r].state \in {"kept", "deleted"}
        BY <1>a, <3>2 DEF Logs, Told
      <4>4. \A r \in log[n].evidence : rows'[r].state \in {"kept", "deleted"}
        BY <1>a, <4>3 DEF RowMoves
      <4> QED BY <4>2, <4>3, <4>4 DEF Told, None
    <3> QED BY <3>1, <3>2
  <2>3. Telling'
    BY <2>1 DEF Telling, NoRun
  <2> QED BY <2>2, <2>3 DEF RunsTold
<1>3. ASSUME NEW mode \in Modes, NEW second \in BOOLEAN, NEW calls \in CallBudgets, Begin(mode, second, calls) PROVE RunsTold'
  <2>1. Starts /\ log[run'.n].status = None /\ log' = [log EXCEPT ![run'.n].status = "running"] /\ up /\ session /\ session' = session
    <3>1. Starts /\ log[run'.n].status = None /\ log' = [log EXCEPT ![run'.n].status = "running"]
      BY <1>3, BeginIs
    <3>2. up /\ session /\ session' = session
      BY <1>3 DEF Begin, At, UnchangedBut
    <3> QED BY <3>1, <3>2
  <2>2. /\ run'.n \in RunIds /\ log[run'.n] = NoLog
        /\ log'[run'.n] = [NoLog EXCEPT !.status = "running"] /\ \A k \in RunIds : k # run'.n => log'[k] = log[k]
    BY <1>a, <2>1 DEF Starts, Told
  <2>3. /\ log'[run'.n].status = "running" /\ log'[run'.n].note = None /\ log'[run'.n].evidence = {}
    BY <2>2 DEF NoLog
  <2>4. ASSUME NEW n \in RunIds PROVE Told(n)'
    <3>1. CASE n # run'.n
      <4>1. run.n = 0 /\ n # 0
        BY <2>1 DEF Starts, RunPlaced, NoRun, RunIds
      <4> QED BY <1>a, <2>1, <2>2, <3>1, <4>1, ToldStill
    <3>2. CASE n = run'.n
      BY <2>3, <3>2 DEF Told, None
    <3> QED BY <3>1, <3>2
  <2>5. Telling'
    BY <2>1, <2>3 DEF Telling, Starts
  <2> QED BY <2>4, <2>5 DEF RunsTold
<1> QED BY <1>1, <1>2, <1>3

LEMMA RunsKept ==
  ASSUME SearchTypeOK, RunPlaced, RowsSound, RowsInHand, RunsTold, PoolStands, [SearchNext]_searchVars
  PROVE  RunsTold'
<1>1. CASE LogSteps
  BY <1>1, RunsTellOfSteps, RunsTellOfOthers DEF LogSteps
<1>2. CASE ~LogSteps
  <2>0. log' = log /\ session' = session
    BY <1>2, LogMoves
  <2>a. run \in Runs /\ Telling /\ (\A n \in RunIds : Told(n)) /\ \A r \in Rows : RowMoves(r)
    BY RowsMove DEF RunsTold, SearchTypeOK
  <2>b. run.picked \subseteq Rows /\ (run.at # "idle" => run.n \in RunIds)
    BY <2>a, RunRecords DEF RunPlaced
  <2>c. (\A r \in run.picked : rows[r].state \in {"kept", "deleted"}) => \A r \in run.picked : rows'[r].state \in {"kept", "deleted"}
    BY <2>a, <2>b DEF RowMoves
  <2>d. ~Restart
    BY <1>2 DEF LogSteps
  <2>1. ASSUME run'.n = run.n \/ ~up' PROVE \A n \in RunIds : Told(n)'
    <3>1. ~up => ~up'
      BY <2>d, OthersKept DEF Crash
    <3> QED BY <2>0, <2>1, <2>a, <3>1, ToldStill
  <2>2. CASE run' = run
    <3>1. Telling'
      BY <2>0, <2>a, <2>c, <2>2 DEF Telling, Local
    <3> QED BY <2>1, <2>2, <3>1 DEF RunsTold
  <2>3. CASE run' = NoRun /\ ((AddQuestion /\ ~session) \/ Crash)
    <3>1. Telling'
      BY <2>3 DEF Telling, NoRun
    <3>2. CASE Crash
      BY <2>1, <3>1, <3>2 DEF Crash, RunsTold
    <3>3. CASE ~session
      BY <2>0, <2>a, <3>1, <3>3, ToldStill DEF RunsTold
    <3> QED BY <2>3, <3>2, <3>3
  <2>4. CASE Fails
    <3>1. run'.n = run.n /\ run'.at = "undoing" /\ run'.ending \in {"failed", "cancelled"} /\ run.at \notin {"idle", "marking"}
      BY <2>4 DEF Fails, Fallible, Keeps, KeepsAsked
    <3>2. Telling'
      BY <2>0, <2>a, <3>1 DEF Telling
    <3> QED BY <2>1, <3>1, <3>2 DEF RunsTold
  <2>5. CASE GivesUpRepair
    <3>1. run'.n = run.n /\ run'.at = "concluding" /\ run.at \in Rounds
      BY <2>5 DEF GivesUpRepair, Keeps, KeepsAsked, Rounds
    <3>2. Telling'
      BY <2>0, <2>a, <3>1 DEF Telling, Rounds
    <3> QED BY <2>1, <3>1, <3>2 DEF RunsTold
  <2>6. CASE MovesOn
    <3>1. run'.n = run.n /\ run'.mode = run.mode /\ run'.picked = run.picked /\ run'.malformed = run.malformed
      BY <2>6 DEF MovesOn, Keeps, KeepsAsked, KeepsPicked
    <3>2. CASE run.at = "promoting"
      <4>1. ASSUME NEW r \in run.picked PROVE rows'[r].state \in {"kept", "deleted"}
        <5>1. r \in Rows /\ (r \in SeenRows \/ rows[r].state \in {"kept", "deleted"})
          BY <2>b, <3>2, <4>1 DEF PoolStands, Over
        <5>2. CASE rows[r].state \in {"kept", "deleted"}
          BY <2>a, <5>1, <5>2 DEF RowMoves
        <5>3. CASE r \in SeenRows /\ rows' = PromoteAll(run.seen)
          <6>1. PICK i \in DOMAIN run.seen : run.seen[i][1] = r
            BY <5>3 DEF SeenRows
          <6>2. run.seen \in Seq(Rows \X Urls) /\ i \in 1..Len(run.seen)
            BY <2>a, <6>1, RunRecords
          <6>3. \A j \in 1..Len(run.seen) : rows[run.seen[j][1]].state # "absent" /\ rows[run.seen[j][1]].url = run.seen[j][2]
            BY <3>2, <6>2 DEF RowsInHand, Over
          <6>4. rows'[r].state = IF rows[r].state = "staged" /\ \E j \in 1..Len(run.seen) : run.seen[j][1] = r THEN "kept" ELSE rows[r].state
            BY <5>1, <5>3, <6>2, <6>3, PromoteAllIs DEF RowsSound, SearchTypeOK, CacheTypeOK
          <6>5. rows[r].state \in {"staged", "kept", "deleted"}
            BY <5>1, <6>1, <6>2, <6>3 DEF SearchTypeOK, CacheTypeOK, PageRows
          <6> QED BY <6>1, <6>2, <6>4, <6>5
        <5>4. run.seen = <<>> => SeenRows = {}
          BY DEF SeenRows
        <5> QED BY <2>6, <3>2, <5>1, <5>2, <5>3, <5>4 DEF MovesOn
      <4>2. (run'.at = "resyncing" /\ Local) \/ (run'.at = AfterPromotion /\ (run'.ending = "failed" \/ ~Local))
        BY <2>6, <3>2 DEF MovesOn
      <4>3. log[run.n].status = "running" /\ log[run.n].evidence = {} /\ (~Local /\ run.picked = {} => run.malformed)
        BY <2>a, <3>2 DEF Telling
      <4>4. Telling'
        BY <2>0, <3>1, <4>1, <4>2, <4>3 DEF Telling, AfterPromotion, ResultsOnly, Local
      <4> QED BY <2>1, <3>1, <4>4 DEF RunsTold
    <3>3. CASE run.at = "resyncing"
      <4>1. run'.at = AfterPromotion /\ run'.ending = "failed"
        BY <2>6, <3>3 DEF MovesOn
      <4>2. log[run.n].status = "running" /\ log[run.n].evidence = {} /\ \A r \in run.picked : rows'[r].state \in {"kept", "deleted"}
        BY <2>a, <2>c, <3>3 DEF Telling
      <4>3. Telling'
        BY <2>0, <3>1, <4>1, <4>2 DEF Telling, AfterPromotion, ResultsOnly
      <4> QED BY <2>1, <3>1, <4>3 DEF RunsTold
    <3>4. CASE run.at \notin {"promoting", "resyncing"}
      <4>1. \/ run.at = "asking" /\ run'.at = "noting_question"
            \/ run.at = "noting_question" /\ run'.at = "planning"
            \/ run.at = "seeding" /\ run'.at = "querying"
            \/ run.at = "linking" /\ run'.at = "titling"
            \/ run.at = "titling" /\ run'.at = "completing"
            \/ run.at = "undoing" /\ run'.at = "closing" /\ run'.ending = run.ending
        BY <1>2, <2>6, <3>4 DEF MovesOn, LogSteps
      <4>2. Telling'
        BY <2>0, <2>a, <2>c, <3>1, <4>1 DEF Telling
      <4> QED BY <2>1, <3>1, <4>2 DEF RunsTold
    <3> QED BY <3>2, <3>3, <3>4
  <2>7. CASE Computes
    <3> DEFINE Stays == Early \cup Rounds \cup Over
    <3>1. run'.n = run.n /\ run'.mode = run.mode /\ run.at \in Stays /\ run'.at \in Stays
      BY <2>7 DEF Computes, KeepsAsked, PlanGoes, Retrieves, Prepares, Keeps, Asks, GetsAll, GetsNoMore, GetsOne, Gets, Sees, Hits, Inserts, Indexes, Joins, Selects,
         Repairs, Concludes, SynthesisGoes, Early, Rounds, Over
    <3>2. run'.at = "promoting" => Local \/ run'.malformed \/ run'.picked # {}
      <4>1. run'.at = "promoting" => Concludes \/ SynthesisGoes
        BY <2>7 DEF Computes, PlanGoes, Retrieves, Prepares, Asks, GetsAll, GetsNoMore, GetsOne, Gets, Sees, Hits, Inserts, Indexes, Joins, Selects, Repairs
      <4> QED BY <4>1 DEF Concludes, SynthesisGoes, KeepsPicked
    <3>3. log[run.n].status = "running" /\ log[run.n].evidence = {}
      BY <2>a, <3>1 DEF Telling, Early, Rounds, Over
    <3>4. Telling'
      BY <2>0, <3>1, <3>2, <3>3 DEF Telling, Early, Rounds, Over, Local
    <3> QED BY <2>1, <3>1, <3>4 DEF RunsTold
  <2> QED BY <1>2, Steps, <2>2, <2>3, <2>4, <2>5, <2>6, <2>7 DEF LogSteps
<1> QED BY <1>1, <1>2

-----------------------------------------------------------------------------
\* What was tried

\* What is not fetched again stays so, what is known stays known, and nothing becomes current.
Quiet ==
  /\ \A u \in Urls : KeptCurrent(u)' => KeptCurrent(u)
  /\ \A u \in Urls : Barred(u) => Barred(u)'
  /\ \A u \in Urls : frontier[u].status # "unknown" => frontier'[u].status # "unknown"
  /\ CachedIsFetched => CachedIsFetched'

LEMMA CurrentFalls ==
  ASSUME SearchTypeOK, RunPlaced, RowsSound, RowsInHand, [SearchNext]_searchVars, ~FinalizeRun
  PROVE  \A r \in Rows : rows'[r].state = "kept" /\ rows'[r].current => rows[r].state = "kept" /\ rows[r].current /\ rows'[r].url = rows[r].url
<1> USE DEF SearchTypeOK, CacheTypeOK
<1>1. CASE TableKept
  BY <1>1 DEF TableKept
<1>2. CASE StoreNew \/ IndexFails \/ Undo \/ Restart
  BY <1>2 DEF StoreNew, InsertStaged, PageRow, IndexFails, Undo, Restart, PurgeStaged, RollbackNew, Absent
<1>3. CASE Index \/ \E r \in Rows : DeletePage(r)
  <2>1. PICK q : rows' = [rows EXCEPT ![q].indexed = TRUE, ![q].live = TRUE] \/ rows' = [rows EXCEPT ![q].live = FALSE]
    BY <1>3 DEF Index, IndexStaged, DeletePage, DropChunks
  <2>2. \A r \in Rows : rows'[r].state = rows[r].state /\ rows'[r].current = rows[r].current /\ rows'[r].url = rows[r].url
    BY <2>1 DEF PageRows
  <2> QED BY <2>2
<1>4. CASE FinishDelete
  BY <1>4 DEF FinishDelete, MarkDeleted, PageRows
<1> QED BY StepsOfTheTable, <1>1, <1>2, <1>3, <1>4 DEF TableSteps

LEMMA StaysQuiet ==
  ASSUME SearchTypeOK, RunPlaced, RowsSound, RowsInHand, [SearchNext]_searchVars, ~FinalizeRun, frontier' = frontier \/ FinishDelete
  PROVE  Quiet
<1>1. \A u \in Urls : KeptCurrent(u)' => KeptCurrent(u)
  BY CurrentFalls DEF KeptCurrent
<1>2. CASE frontier' = frontier
  BY <1>1, <1>2 DEF Quiet, Barred, CachedIsFetched
<1>3. CASE FinishDelete
  <2>1. deleting \in Rows /\ rows[deleting].state = "kept"
    BY <1>3, WebAssumption DEF FinishDelete, RowsSound, SearchTypeOK, Rows
  <2>0. PICK v \in Urls : v = rows[deleting].url
    BY <2>1 DEF RowsSound
  <2> DEFINE again == rows[deleting].current /\ Kept(deleting) = {} /\ frontier[v].status # "unknown"
  <2>2. \A u \in Urls : frontier'[u] = IF u = v /\ again THEN Unfetched ELSE frontier[u]
    BY <1>3, <2>0 DEF FinishDelete, MarkDeleted, Released
  <2>3. again => KeptCurrent(v)
    BY <2>0, <2>1 DEF KeptCurrent
  <2>4. again => ~KeptCurrent(v)'
    <3> SUFFICES ASSUME again, NEW r \in Rows, rows'[r].state = "kept", rows'[r].current, rows'[r].url = v PROVE FALSE
      BY DEF KeptCurrent
    <3>1. rows[r].state = "kept" /\ rows[r].current /\ rows[r].url = v /\ r # deleting
      BY <1>3, <2>1 DEF FinishDelete, MarkDeleted, SearchTypeOK, CacheTypeOK, PageRows
    <3>2. r \in Kept(deleting)
      BY <2>0, <3>1 DEF Kept, CurrentRows, Stands
    <3> QED BY <3>2
  <2>5. Unfetched.status = "unfetched"
    BY DEF Unfetched
  <2>6. ASSUME NEW u \in Urls
        PROVE  /\ Barred(u) => Barred(u)'
               /\ frontier[u].status # "unknown" => frontier'[u].status # "unknown"
               /\ KeptCurrent(u)' /\ frontier[u].status = "fetched" => frontier'[u].status = "fetched"
    <3>1. CASE u = v /\ again
      <4>2. KeptCurrent(u) /\ frontier'[u].status = "unfetched"
        BY <2>2, <2>3, <2>5, <3>1
      <4>3. ~KeptCurrent(u)'
        BY <2>4, <3>1
      <4> QED BY <4>2, <4>3 DEF Barred
    <3>2. CASE ~(u = v /\ again)
      <4>1. frontier'[u] = frontier[u]
        BY <2>2, <3>2
      <4> HIDE DEF again
      <4> QED BY <1>1, <4>1 DEF Barred
    <3> QED BY <3>1, <3>2
  <2>7. CachedIsFetched => CachedIsFetched'
    BY <1>1, <2>6 DEF CachedIsFetched
  <2> QED BY <1>1, <2>6, <2>7 DEF Quiet
<1> QED BY <1>2, <1>3

FrontierSteps ==
  frontier' = frontier \/ Seed \/ FetchOne \/ PagesFail \/ IndexFails \/ StoreFails \/ FinalizeRun \/ FinishDelete \/ RetryComes

LEMMA StepsOfTheFrontier == ASSUME [SearchNext]_searchVars PROVE FrontierSteps
<1>1. CASE PagesKept
  BY <1>1, PagesAreKept DEF FrontierSteps
<1>2. CASE StoreNew \/ Index \/ Undo \/ Restart \/ \E r \in Rows : DeletePage(r)
  BY <1>2 DEF StoreNew, Index, Undo, Restart, PurgeStaged, RollbackNew, DeletePage, DropChunks, FrontierSteps
<1> QED BY <1>1, <1>2 DEF SearchNext, Work, PagesKept, FrontierSteps

\* Where the run is when a step of its own changes the frontier
LEMMA FrontierPlaces ==
  ASSUME run \in Runs
  PROVE  /\ Seed => run.at = "seeding"
         /\ FetchOne => run.at = "fetching"
         /\ PagesFail => run.at = "indexing" /\ run'.at \in {"undoing", "concluding"}
         /\ IndexFails => run.at = "indexing" /\ run'.at \in {"undoing", "concluding"}
         /\ StoreFails => run.at = "storing" /\ run'.at \in {"undoing", "concluding"}
         /\ FinalizeRun => run.at = "promoting"
         /\ RetryComes => run.at = "idle"
<1>1. Seed => run.at = "seeding"
  BY DEF Seed, At
<1>2. (FetchOne => run.at = "fetching") /\ (FinalizeRun => run.at = "promoting") /\ (RetryComes => run.at = "idle")
  BY DEF FetchOne, FinalizeRun, RetryComes, At
<1>3. PagesFail \/ IndexFails => run.at = "indexing" /\ run'.at \in {"undoing", "concluding"}
  BY RaiseIs, EndAsIs DEF PagesFail, IndexFails, StoreError, At
<1>4. StoreFails => run.at = "storing" /\ run'.at \in {"undoing", "concluding"}
  BY RaiseIs, EndAsIs DEF StoreFails, StoreError, Cancelled, At
<1> QED BY <1>1, <1>2, <1>3, <1>4

\* What a fetch makes of the frontier: a page that failed is barred, the others are as before or known now.
FrontierFails(u) ==
  (\E status \in {"failed", "blocked"} : frontier' = MarkFailure(frontier, u, status)) \/ frontier' = MarkFailure(DiscoverLinks(u), u, "failed")
FrontierOf(u) == FrontierFails(u) \/ frontier' = MarkSuccess(DiscoverLinks(u), u) \/ frontier' = DiscoverLinks(u)
FrontierSound(u) ==
  /\ CachedIsFetched'
  /\ \A v \in Urls : frontier[v].status # "unknown" => frontier'[v].status # "unknown"
  /\ \A v \in Urls : KeptCurrent(v)' <=> KeptCurrent(v)
  /\ \A v \in Urls \ {u} : Barred(v) => Barred(v)'
  /\ FrontierFails(u) => Barred(u)'

LEMMA FetchedFrontier ==
  ASSUME frontier \in [Urls -> FrontierRows], rows' = rows, CachedIsFetched,
         NEW u \in Urls, ~KeptCurrent(u), frontier[u].status # "unknown", FrontierOf(u)
  PROVE  FrontierSound(u)
<1>1. \A v \in Urls : KeptCurrent(v)' <=> KeptCurrent(v)
  BY DEF KeptCurrent
<1> DEFINE found == DiscoverLinks(u)
<1>2. \A v \in Urls : found[v] = frontier[v] \/ (frontier[v].status = "unknown" /\ found[v].status = "unfetched")
  BY DEF DiscoverLinks, Unfetched
<1>3. found \in [Urls -> FrontierRows] /\ found[u] = frontier[u]
  <2>1. Unfetched \in FrontierRows
    BY DEF Unfetched, FrontierRows
  <2>2. found \in [Urls -> FrontierRows]
    BY <2>1 DEF DiscoverLinks
  <2> HIDE DEF found
  <2> QED BY <1>2, <2>2
<1> HIDE DEF found
<1>4. \A v \in Urls \ {u} : frontier'[v] = frontier[v] \/ (frontier[v].status = "unknown" /\ frontier'[v].status = "unfetched")
  BY <1>2, <1>3 DEF MarkFailure, MarkSuccess, found, FrontierOf, FrontierFails
<1>5. frontier'[u].status # "unknown"
  BY <1>2, <1>3 DEF MarkFailure, MarkSuccess, found, FrontierOf, FrontierFails
<1>6. ASSUME FrontierFails(u) PROVE Barred(u)'
  <2>1. frontier'[u].status \in {"failed", "blocked"} /\ ~frontier'[u].due
    BY <1>3, <1>6 DEF MarkFailure, FrontierFails, found
  <2> QED BY <1>1, <2>1 DEF Barred
<1>7. \A v \in Urls \ {u} : Barred(v) => Barred(v)'
  BY <1>1, <1>4 DEF Barred
<1>8. CachedIsFetched'
  BY <1>1, <1>4 DEF CachedIsFetched
<1>9. \A v \in Urls : frontier[v].status # "unknown" => frontier'[v].status # "unknown"
  BY <1>4, <1>5
<1> QED BY <1>1, <1>6, <1>7, <1>8, <1>9 DEF FrontierSound

\* What one fetch has in hand
GetsOf(u, counted, got, more) ==
  /\ counted \in {0, 1} /\ Gets(counted, got, more) /\ more \subseteq Urls /\ (more = {} \/ more \in FollowUps)
  /\ got = <<>> \/ \E text \in Says[u] : got = <<<<u, text>>>>
  /\ counted = 1 => (\E text \in Says[u] : got = <<<<u, text>>>>) \/ FrontierFails(u)

LEMMA FetchesOne ==
  ASSUME GetsOne, NEW u, u = Head(run.todo)
  PROVE  rows' = rows /\ FrontierOf(u) /\ \E counted, got, more : GetsOf(u, counted, got, more)
<1>1. \A more \in FollowUps : more \subseteq Urls
  BY DEF FollowUps, Bounded, Eligible
<1>2. rows' = rows /\ FrontierOf(u)
  BY DEF GetsOne, FrontierOf, FrontierFails
<1> USE DEF FrontierFails
<1>3. ASSUME NEW counted \in {0, 1}, Gets(counted, <<>>, {}), frontier' = MarkFailure(frontier, u, "failed") PROVE GetsOf(u, counted, <<>>, {})
  BY <1>3 DEF GetsOf
<1>4. ASSUME Gets(0, <<>>, {}) PROVE GetsOf(u, 0, <<>>, {})
  BY <1>4 DEF GetsOf
<1>5. ASSUME NEW text \in Says[u], NEW more \in FollowUps, Gets(1, <<<<u, text>>>>, more) PROVE GetsOf(u, 1, <<<<u, text>>>>, more)
  BY <1>1, <1>5 DEF GetsOf
<1>6. ASSUME NEW more \in FollowUps, Gets(1, <<>>, more), frontier' = MarkFailure(DiscoverLinks(u), u, "failed") PROVE GetsOf(u, 1, <<>>, more)
  BY <1>1, <1>6 DEF GetsOf
<1>7. \/ \E counted \in {0, 1} : Gets(counted, <<>>, {}) /\ frontier' = MarkFailure(frontier, u, "failed")
      \/ Gets(0, <<>>, {})
      \/ \E text \in Says[u], more \in FollowUps : Gets(1, <<<<u, text>>>>, more)
      \/ \E more \in FollowUps : Gets(1, <<>>, more) /\ frontier' = MarkFailure(DiscoverLinks(u), u, "failed")
  BY DEF GetsOne
<1>8. 0 \in {0, 1} /\ 1 \in {0, 1}
  OBVIOUS
<1> HIDE DEF FrontierFails
<1>9. \E counted, got, more : GetsOf(u, counted, got, more)
  BY <1>3, <1>4, <1>5, <1>6, <1>7, <1>8
<1> QED BY <1>2, <1>9

LEMMA FetchingKeepsTried ==
  ASSUME SearchTypeOK, TriedOnce, GetsOne
  PROVE  TriedOnce'
<1>0. PICK u : u = Head(run.todo)
  OBVIOUS
<1>1. PICK counted, got, more : GetsOf(u, counted, got, more)
  BY <1>0, FetchesOne
<1>2. run.at = "fetching" /\ Local /\ run.todo # <<>> /\ run'.mode = run.mode /\ run'.at = "fetching" /\ run'.seen = run.seen
  BY <1>1 DEF GetsOf, Gets, KeepsAsked
<1>3. /\ run \in Runs /\ run.todo \in Seq(Urls) /\ run.tried \in Seq(Urls) /\ run.got \in Seq(Urls \X Texts)
      /\ frontier \in [Urls -> FrontierRows] /\ u \in Urls
  BY <1>0, <1>2, RunRecords DEF SearchTypeOK, CacheTypeOK
<1>4. /\ IsInjective(run.tried) /\ CachedIsFetched /\ (\A v \in Range(run.tried) : v \in Observed \cup GotUrls \/ Barred(v))
      /\ IsInjective(run.todo) /\ Range(run.todo) \subseteq run.sched /\ GotUrls \subseteq run.sched
      /\ Range(run.tried) \cap Range(run.todo) = {}
      /\ \A v \in Range(run.todo) : frontier[v].status # "unknown" /\ ~KeptCurrent(v)
  BY <1>2 DEF TriedOnce, Rounds
<1>5. /\ u \in Range(run.todo) /\ Range(Tail(run.todo)) \subseteq Range(run.todo)
      /\ IsInjective(Tail(run.todo)) /\ u \notin Range(Tail(run.todo)) /\ Tail(run.todo) \in Seq(Urls)
  BY <1>0, <1>2, <1>3, <1>4, OneLess
<1>6. Range(run.tried) \subseteq Urls /\ Range(run.todo) \subseteq Urls
  BY <1>3 DEF Range
<1>7. rows' = rows /\ FrontierOf(u)
  BY <1>0, FetchesOne
<1>8. PICK next \in Seq(Urls) : next = SetToSeq(more) /\ IsInjective(next) /\ Range(next) = more
  BY <1>1, SubsetsOfUrls DEF GetsOf
<1>a. ~KeptCurrent(u) /\ frontier[u].status # "unknown"
  BY <1>4, <1>5
<1>b. FrontierSound(u)
  BY <1>3, <1>4, <1>7, <1>a, FetchedFrontier
<1>9. /\ CachedIsFetched'
      /\ \A v \in Urls : frontier[v].status # "unknown" => frontier'[v].status # "unknown"
      /\ \A v \in Urls : KeptCurrent(v)' <=> KeptCurrent(v)
      /\ \A v \in Urls \ {u} : Barred(v) => Barred(v)'
      /\ FrontierFails(u) => Barred(u)'
  BY <1>b DEF FrontierSound
\* The pages that are added
<1>10. more \cap (run.sched \cup Observed) = {} /\ \A v \in more : v \in Eligible'
  BY <1>1 DEF GetsOf, FollowUps, Bounded
<1>11. \A v \in more : frontier'[v].status # "unknown" /\ ~KeptCurrent(v)' /\ ~Barred(v)'
  <2>1. \A v \in more : frontier'[v].status \in {"unfetched", "failed", "blocked"} /\ (frontier'[v].status # "unfetched" => frontier'[v].due)
    BY <1>10 DEF Eligible
  <2>2. \A v \in more : v \in Urls
    BY <1>1 DEF GetsOf
  <2> QED BY <1>9, <2>1, <2>2 DEF CachedIsFetched, Barred
\* What is in hand
<1>12. Observed' = Observed /\ GotUrls \subseteq GotUrls' /\ GotUrls' \subseteq GotUrls \cup {u}
       /\ ((\E text \in Says[u] : got = <<<<u, text>>>>) => u \in GotUrls')
  <2>1. run'.got = run.got \o got /\ Observed' = Observed
    BY <1>1, <1>2 DEF GetsOf, Gets, Observed
  <2>2. CASE got = <<>>
    <3>1. run'.got = run.got
      BY <1>3, <2>1, <2>2
    <3>2. GotUrls' = GotUrls
      BY <3>1 DEF GotUrls
    <3>3. \A text : got # <<<<u, text>>>>
      BY <2>2
    <3> QED BY <2>1, <3>2, <3>3
  <2>3. ASSUME NEW text \in Says[u], got = <<<<u, text>>>> PROVE GotUrls' = GotUrls \cup {u}
    <3>0. text \in Texts
      BY <1>3 DEF Texts
    <3> DEFINE p == <<u, text>>
               old == run.got
               new == run'.got
               n == Len(old)
    <3>1. new = old \o <<p>> /\ p \in Urls \X Texts /\ old \in Seq(Urls \X Texts)
      BY <1>3, <2>1, <2>3, <3>0
    <3>2. p[1] = u
      OBVIOUS
    <3> HIDE DEF p, old, new
    <3>3. n \in Nat /\ DOMAIN old = 1..n /\ DOMAIN new = 1..(n + 1) /\ (\A i \in 1..n : new[i] = old[i]) /\ new[n + 1] = p
      BY <3>1
    <3> HIDE DEF n
    <3>4. (\A i \in 1..(n + 1) : i \in 1..n \/ i = n + 1) /\ (\A i \in 1..n : i \in 1..(n + 1)) /\ n + 1 \in 1..(n + 1)
      BY <3>3
    <3>5. \A x : x \in GotUrls' <=> \E i \in 1..(n + 1) : new[i][1] = x
      BY <3>3 DEF GotUrls, new
    <3>6. \A x : x \in GotUrls <=> \E i \in 1..n : old[i][1] = x
      BY <3>3 DEF GotUrls, old
    <3>7. \A x : x \in GotUrls' <=> x \in GotUrls \cup {u}
      BY <3>2, <3>3, <3>4, <3>5, <3>6
    <3> QED BY <3>7
  <2> QED BY <1>1, <2>1, <2>2, <2>3 DEF GetsOf
<1>13. run'.todo = Tail(run.todo) \o next /\ run'.sched = run.sched \cup more
       /\ run'.tried = IF counted = 1 THEN Append(run.tried, u) ELSE run.tried
  BY <1>0, <1>1, <1>8 DEF GetsOf, Gets
\* What is to be fetched
<1>14. IsInjective(run'.todo) /\ Range(run'.todo) = Range(Tail(run.todo)) \cup more
  <2>1. Range(Tail(run.todo)) \cap Range(next) = {}
    BY <1>4, <1>5, <1>8, <1>10
  <2>2. PICK rest \in Seq(Urls) : rest = Tail(run.todo)
    BY <1>5
  <2>3. Range(rest \o next) = Range(rest) \cup Range(next) /\ IsInjective(rest \o next)
    BY <1>5, <1>8, <2>1, <2>2, OneAfterTheOther
  <2> QED BY <1>8, <1>13, <2>2, <2>3
<1>15. IsInjective(run'.tried) /\ Range(run'.tried) = Range(run.tried) \cup (IF counted = 1 THEN {u} ELSE {})
  <2>1. u \notin Range(run.tried)
    BY <1>4, <1>5
  <2>2. CASE counted = 1
    BY <1>3, <1>4, <1>13, <2>1, <2>2, OneMore
  <2>3. CASE counted # 1
    BY <1>4, <1>13, <2>3
  <2> QED BY <2>2, <2>3
<1>16. ASSUME NEW v \in Range(run'.tried) PROVE v \in Observed' \cup GotUrls' \/ Barred(v)'
  <2>1. CASE v \in Range(run.tried)
    <3>1. v # u /\ v \in Urls
      BY <1>4, <1>5, <1>6, <2>1
    <3> QED BY <1>4, <1>9, <1>12, <2>1, <3>1
  <2>2. CASE v = u /\ counted = 1
    <3>1. u \in GotUrls' \/ Barred(u)'
      BY <1>1, <1>9, <1>12, <2>2 DEF GetsOf
    <3> QED BY <2>2, <3>1
  <2> QED BY <1>15, <2>1, <2>2
<1>17. Range(run'.tried) \cap Range(run'.todo) = {}
  <2>1. \A v \in Range(run.tried) : v \notin more
    BY <1>4, <1>5, <1>6, <1>9, <1>10, <1>11
  <2>2. u \notin more
    BY <1>4, <1>5, <1>10
  <2> QED BY <1>4, <1>5, <1>14, <1>15, <2>1, <2>2
<1>18. \A v \in Range(run'.todo) : frontier'[v].status # "unknown" /\ ~KeptCurrent(v)'
  BY <1>4, <1>5, <1>6, <1>9, <1>11, <1>14
<1>19. Range(run'.todo) \subseteq run'.sched /\ GotUrls' \subseteq run'.sched
  BY <1>4, <1>5, <1>12, <1>13, <1>14
<1> QED BY <1>2, <1>9, <1>14, <1>15, <1>16, <1>17, <1>18, <1>19 DEF TriedOnce, Early

\* A run that is over, or not yet in its rounds, has nothing to fetch again.
LEMMA LeavingKeepsTried ==
  ASSUME TriedOnce, run'.mode = run.mode, run'.tried = run.tried, run'.at \notin Early \cup Rounds
  PROVE  TriedOnce'
  BY DEF TriedOnce, Early, Rounds, Local

LEMMA StartingKeepsTried ==
  ASSUME run'.tried = <<>>, run'.at \notin Rounds, run'.at # "seeding"
  PROVE  TriedOnce'
<1>1. IsInjective(run'.tried)
  BY DEF IsInjective
<1> QED BY <1>1 DEF TriedOnce, Rounds

LEMMA QuietKeepsTried ==
  ASSUME TriedOnce, Quiet, run.tried \in Seq(Urls), run.at \in Rounds,
         run'.mode = run.mode, run'.tried = run.tried, run'.at \in Rounds \ {"seeding", "querying", "fetching"},
         Observed \cup GotUrls \subseteq Observed' \cup GotUrls'
  PROVE  TriedOnce'
<1>1. Range(run.tried) \subseteq Urls
  BY DEF Range
<1>2. Local => \A u \in Range(run.tried) : u \in Observed' \cup GotUrls' \/ Barred(u)'
  BY <1>1 DEF TriedOnce, Quiet
<1> QED BY <1>2 DEF TriedOnce, Quiet, Early, Rounds, Local

\* Within the rounds only a seeding, a fetch and the end of a store change the frontier.
LEMMA RoundsQuiet ==
  ASSUME SearchTypeOK, RunPlaced, RowsSound, RowsInHand, [SearchNext]_searchVars, run.at \in Rounds \ {"seeding", "fetching"}, run'.at \in Rounds
  PROVE  Quiet
<1>1. ~FinalizeRun /\ ~RetryComes /\ ~Seed /\ ~FetchOne /\ ~PagesFail /\ ~IndexFails /\ ~StoreFails
  BY FrontierPlaces DEF Rounds, SearchTypeOK
<1>2. frontier' = frontier \/ FinishDelete
  BY <1>1, StepsOfTheFrontier DEF FrontierSteps
<1> QED BY <1>1, <1>2, StaysQuiet

\* Another step than one of the run's
LEMMA RestKeepsTried ==
  ASSUME SearchTypeOK, RunPlaced, RowsSound, RowsInHand, TriedOnce, [SearchNext]_searchVars, run' = run, RunRests
  PROVE  TriedOnce'
<1>1. CASE run.at = "idle"
  BY <1>1 DEF TriedOnce, Early, Rounds, Local
<1>2. CASE run.at # "idle"
  <2>1. ~FinalizeRun
    <3> SUFFICES ASSUME FinalizeRun PROVE FALSE
      OBVIOUS
    <3>1. run \in Runs /\ run.at = "promoting"
      BY FrontierPlaces DEF SearchTypeOK
    <3>2. AfterPromotion # "promoting"
      BY DEF AfterPromotion
    <3>3. Go(AfterPromotion) \/ Go("resyncing") \/ EndAs("cancelled") \/ run' = [run EXCEPT !.at = AfterPromotion, !.ending = "failed"]
      BY DEF FinalizeRun
    <3>4. run'.at # "promoting"
      BY <3>1, <3>2, <3>3, GoesKeeps, EndsKeeps, EndAsIs
    <3> QED BY <3>1, <3>4
  <2>2. frontier' = frontier \/ FinishDelete
    BY <1>2 DEF RunRests, searchVars, UnchangedBut, cacheVars, Cancel, DeleteSession, RetryComes, Restart, PurgeStaged, RollbackNew, DeletePage,
       DropChunks, At
  <2>3. Quiet
    BY <2>1, <2>2, StaysQuiet
  <2>4. run.tried \in Seq(Urls) /\ run.todo \in Seq(Urls)
    BY RunRecords DEF SearchTypeOK
  <2>5. Range(run.tried) \subseteq Urls /\ Range(run.todo) \subseteq Urls
    BY <2>4 DEF Range
  <2>6. Observed' = Observed /\ GotUrls' = GotUrls
    BY DEF Observed, GotUrls
  <2>7. run.at = "seeding" =>
          /\ \A u \in Urls : KeptCurrent(u)' => u \in run.seeds
          /\ \A u \in Range(run.tried) : u \in Observed' \cup GotUrls' \/ u \notin run.seeds
    BY <2>3, <2>6 DEF TriedOnce, Quiet
  <2>8. run.at \in Rounds /\ Local => \A u \in Range(run.tried) : u \in Observed' \cup GotUrls' \/ Barred(u)'
    BY <2>3, <2>5, <2>6 DEF TriedOnce, Quiet
  <2>10. run.at \in {"querying", "fetching"} /\ Local => CachedIsFetched'
    BY <2>3 DEF TriedOnce, Quiet
  <2>9. run.at = "fetching" /\ Local => \A u \in Range(run.todo) : frontier'[u].status # "unknown" /\ ~KeptCurrent(u)'
    BY <2>3, <2>5 DEF TriedOnce, Quiet
  <2> QED BY <2>6, <2>7, <2>8, <2>9, <2>10 DEF TriedOnce, Local
<1> QED BY <1>1, <1>2

\* Seeding reads what is kept, which no page that was tried and is not seen can be, and then marks it fetched.
LEMMA PreparingKeepsTried ==
  ASSUME SearchTypeOK, TriedOnce, Prepares
  PROVE  TriedOnce'
<1>1. /\ run.at \in Rounds /\ Local /\ run'.at = "seeding" /\ run'.seeds = CachedUrls /\ rows' = rows /\ frontier' = frontier
      /\ run'.mode = run.mode /\ run'.tried = run.tried /\ Observed' = Observed /\ GotUrls' = GotUrls
  BY DEF Prepares, Keeps, KeepsAsked, KeepsTodo, KeepsFound, Observed, GotUrls, Rounds
<1>2. run.tried \in Seq(Urls)
  BY RunRecords DEF SearchTypeOK
<1>3. \A u \in Range(run.tried) : u \in Urls /\ (u \in Observed \cup GotUrls \/ Barred(u))
  BY <1>1, <1>2 DEF TriedOnce, Range
<1>4. \A u \in Urls : u \in CachedUrls <=> KeptCurrent(u)
  BY DEF CachedUrls, KeptCurrent
<1>5. \A u \in Urls : (KeptCurrent(u)' <=> KeptCurrent(u)) /\ (Barred(u)' <=> Barred(u))
  BY <1>1 DEF KeptCurrent, Barred
<1>6. \A u \in Range(run.tried) : u \in Observed \cup GotUrls \/ (Barred(u)' /\ u \notin CachedUrls)
  BY <1>3, <1>4, <1>5 DEF Barred
<1>7. IsInjective(run.tried)
  BY <1>1 DEF TriedOnce
<1> QED BY <1>1, <1>4, <1>5, <1>6, <1>7 DEF TriedOnce, Early

LEMMA SeedingKeepsTried ==
  ASSUME SearchTypeOK, TriedOnce, run.at = "seeding", run'.at = "querying", Seed, run'.mode = run.mode, run'.tried = run.tried,
         run'.seen = run.seen, run'.got = run.got
  PROVE  TriedOnce'
<1>1. /\ \A u \in Urls : KeptCurrent(u) => u \in run.seeds
      /\ \A u \in Range(run.tried) : u \in Observed \cup GotUrls \/ u \notin run.seeds
      /\ Local => IsInjective(run.tried)
      /\ Local => \A u \in Range(run.tried) : u \in Observed \cup GotUrls \/ Barred(u)
  BY DEF TriedOnce, Rounds
<1>2. rows' = rows /\ \A u \in Urls : frontier'[u] = IF u \in run.seeds THEN [status |-> "fetched", due |-> TRUE] ELSE frontier[u]
  BY DEF Seed, SeedCached
<1>3. CachedIsFetched'
  BY <1>1, <1>2 DEF CachedIsFetched, KeptCurrent
<1>4. Observed' = Observed /\ GotUrls' = GotUrls
  BY DEF Observed, GotUrls
<1>5. Range(run.tried) \subseteq Urls
  BY RunRecords DEF SearchTypeOK, Range
<1>6. \A u \in Urls \ run.seeds : Barred(u) => Barred(u)'
  BY <1>2 DEF Barred, KeptCurrent
<1>7. Local => \A u \in Range(run.tried) : u \in Observed' \cup GotUrls' \/ Barred(u)'
  BY <1>1, <1>4, <1>5, <1>6
<1> QED BY <1>1, <1>3, <1>7 DEF TriedOnce, Early, Rounds, Local

LEMMA AskingKeepsTried ==
  ASSUME SearchTypeOK, RunPlaced, TriedOnce, NEW urls, Asks(urls), run'.at = "fetching", Local
  PROVE  TriedOnce'
<1>1. /\ run.at = "querying" /\ run'.tried = run.tried /\ run'.mode = run.mode /\ run'.seen = run.seen /\ run'.got = <<>> /\ run'.sched = urls
      /\ rows' = rows /\ frontier' = frontier /\ urls \subseteq Urls /\ urls \in Bounded(Eligible, Observed, FetchLimit)
  BY DEF Asks, KeepsAsked
<1>2. /\ IsInjective(run.tried) /\ CachedIsFetched
      /\ \A u \in Range(run.tried) : u \in Observed \cup GotUrls \/ Barred(u)
  BY <1>1 DEF TriedOnce, Rounds
<1>3. run.got = <<>>
  BY <1>1 DEF RunPlaced
<1>4. GotUrls = {} /\ GotUrls' = {} /\ Observed' = Observed
  BY <1>1, <1>3 DEF GotUrls, Observed
<1>5. \A u \in urls : u \in Urls /\ u \notin Observed /\ u \in Eligible
  BY <1>1 DEF Bounded
<1>6. \A u \in urls : frontier[u].status \in {"unfetched", "failed", "blocked"} /\ (frontier[u].status # "unfetched" => frontier[u].due)
  BY <1>5 DEF Eligible
<1>7. \A u \in urls : frontier[u].status # "unknown" /\ ~KeptCurrent(u) /\ ~Barred(u)
  BY <1>2, <1>5, <1>6 DEF CachedIsFetched, Barred
<1>8. IsInjective(run'.todo) /\ Range(run'.todo) = urls
  BY <1>1, SubsetsOfUrls DEF Asks
<1>9. Range(run.tried) \cap urls = {}
  BY <1>2, <1>4, <1>5, <1>7
<1>10. CachedIsFetched' /\ (\A u : KeptCurrent(u)' <=> KeptCurrent(u)) /\ (\A u : Barred(u)' <=> Barred(u))
  BY <1>1, <1>2 DEF CachedIsFetched, KeptCurrent, Barred
<1>11. \A u \in Range(run'.tried) : u \in Observed' \cup GotUrls' \/ Barred(u)'
  BY <1>1, <1>2, <1>4, <1>10
<1>12. \A u \in Range(run'.todo) : frontier'[u].status # "unknown" /\ ~KeptCurrent(u)'
  BY <1>1, <1>7, <1>8, <1>10
<1> QED BY <1>1, <1>2, <1>4, <1>8, <1>9, <1>10, <1>11, <1>12 DEF TriedOnce, Early

LEMMA TriedKept ==
  ASSUME SearchTypeOK, RunPlaced, RowsSound, RowsInHand, RunsTold, TriedOnce, [SearchNext]_searchVars
  PROVE  TriedOnce'
<1>a. run \in Runs /\ run.tried \in Seq(Urls)
  BY RunRecords DEF SearchTypeOK
<1>1. CASE run' = run /\ RunRests
  BY <1>1, RestKeepsTried
<1>2. CASE run' = NoRun
  BY <1>2, StartingKeepsTried DEF NoRun, Rounds
<1>3. ASSUME NEW mode \in Modes, NEW second \in BOOLEAN, NEW calls \in CallBudgets, Begin(mode, second, calls) PROVE TriedOnce'
  BY <1>3, BeginIs, StartingKeepsTried DEF Starts, Rounds
<1>4. CASE Fails \/ GivesUpRepair
  BY <1>4, LeavingKeepsTried DEF Fails, GivesUpRepair, Keeps, KeepsAsked, KeepsTodo, Early, Rounds
<1>5. CASE MovesOn
  <2>0. run'.mode = run.mode /\ run'.tried = run.tried
    BY <1>5 DEF MovesOn, Keeps, KeepsAsked, KeepsTodo
  <2>1. CASE run.at \in {"asking", "noting_question"} /\ run'.at \in {"noting_question", "planning"}
    <3>1. run'.tried = <<>>
      BY <2>0, <2>1 DEF TriedOnce, Early
    <3> QED BY <2>1, <3>1, StartingKeepsTried DEF Rounds
  <2>2. CASE run.at = "seeding" /\ run'.at = "querying" /\ Seed
    <3>1. run'.seen = run.seen /\ run'.got = run.got
      BY <1>5 DEF MovesOn, Keeps, KeepsFound
    <3> QED BY <2>0, <2>2, <3>1, SeedingKeepsTried
  <2>3. CASE run'.at \notin Early \cup Rounds
    BY <2>0, <2>3, LeavingKeepsTried
  <2> QED BY <1>5, <2>1, <2>2, <2>3 DEF MovesOn, AfterPromotion, Early, Rounds
<1>6. CASE PlanGoes
  <2>1. run'.tried = <<>> /\ run'.at = "retrieving"
    BY <1>6 DEF PlanGoes, KeepsTodo, TriedOnce, Early
  <2> QED BY <2>1, StartingKeepsTried DEF Rounds
<1>7. CASE Retrieves
  <2>1. run'.tried = <<>> /\ run'.at = "providing"
    BY <1>7 DEF Retrieves, KeepsTodo, TriedOnce, Early
  <2>2. Range(run'.tried) = {} /\ IsInjective(run'.tried)
    BY <2>1 DEF Range, IsInjective
  <2> QED BY <2>1, <2>2 DEF TriedOnce
<1>16. CASE Prepares
  BY <1>16, PreparingKeepsTried
<1>8. ASSUME NEW urls, Asks(urls) PROVE TriedOnce'
  <2>1. run'.mode = run.mode /\ run'.tried = run.tried /\ run.at \in {"providing", "querying"} /\ run'.at \in {"fetching", "concluding", "selecting"}
    BY <1>8 DEF Asks, KeepsAsked
  <2>2. CASE Local /\ run'.at = "fetching"
    BY <1>8, <2>2, AskingKeepsTried
  <2>3. CASE ~Local
    BY <2>1, <2>3 DEF TriedOnce, Early, Rounds, Local
  <2>4. CASE run'.at = "concluding"
    BY <2>1, <2>4, LeavingKeepsTried DEF Early, Rounds
  <2>5. CASE run'.at = "selecting"
    <3>1. Quiet
      BY <2>1, <2>5, RoundsQuiet DEF Rounds
    <3>2. GotUrls = {} /\ Observed' = Observed
      BY <1>8, <2>1 DEF RunPlaced, Asks, Observed, GotUrls
    <3> QED BY <1>a, <2>1, <2>5, <3>1, <3>2, QuietKeepsTried DEF Rounds
  <2> QED BY <2>1, <2>2, <2>3, <2>4, <2>5
<1>9. CASE GetsAll
  <2>1. ~Local /\ run'.mode = run.mode /\ run'.at = "storing"
    BY <1>9 DEF GetsAll, KeepsAsked
  <2> QED BY <2>1 DEF TriedOnce, Early, Local
<1>10. CASE GetsNoMore
  <2>1. /\ run'.mode = run.mode /\ run'.tried = run.tried /\ run.at = "fetching" /\ run'.at = "storing"
        /\ Observed' = Observed /\ GotUrls' = GotUrls /\ rows' = rows /\ frontier' = frontier
    BY <1>10 DEF GetsNoMore, KeepsAsked, KeepsFound, Observed, GotUrls
  <2>2. Quiet
    BY <2>1 DEF Quiet, KeptCurrent, Barred, CachedIsFetched
  <2> QED BY <1>a, <2>1, <2>2, QuietKeepsTried DEF Rounds
<1>11. CASE GetsOne
  BY <1>11, FetchingKeepsTried
<1>12. ASSUME NEW r, Sees(r), run.at \in {"storing", "indexing"} PROVE TriedOnce'
  <2>1. run'.mode = run.mode /\ run'.tried = run.tried /\ run'.at = "storing"
    BY <1>12 DEF Sees, KeepsAsked, KeepsTodo
  <2>2. Observed \cup GotUrls \subseteq Observed' \cup GotUrls'
    BY <1>a, <1>12, SeesIs
  <2>3. Quiet
    BY <1>12, <2>1, RoundsQuiet DEF Rounds
  <2> QED BY <1>a, <1>12, <2>1, <2>2, <2>3, QuietKeepsTried DEF Rounds
<1>13. CASE Inserts \/ Joins \/ Selects \/ Repairs
  <2>1. /\ run'.mode = run.mode /\ run'.tried = run.tried /\ run.at \in {"storing", "selecting", "repairing"}
        /\ run'.at \in {"indexing", "concluding", "selecting", "repairing", "providing"}
    BY <1>13 DEF Inserts, Joins, Selects, Repairs, KeepsAsked, KeepsTodo
  <2>2. run'.got = run.got /\ run'.seen = run.seen
    BY <1>13 DEF Inserts, Joins, Selects, Repairs, KeepsFound
  <2>3. CASE run'.at = "concluding"
    BY <2>1, <2>3, LeavingKeepsTried DEF Early, Rounds
  <2>4. CASE run'.at # "concluding"
    <3>1. Quiet
      BY <2>1, <2>4, RoundsQuiet DEF Rounds
    <3>2. Observed' = Observed /\ GotUrls' = GotUrls
      BY <2>2 DEF Observed, GotUrls
    <3> QED BY <1>a, <2>1, <2>4, <3>1, <3>2, QuietKeepsTried DEF Rounds
  <2> QED BY <2>3, <2>4
<1>14. CASE Concludes \/ SynthesisGoes
  <2>1. run'.mode = run.mode /\ run'.tried = run.tried /\ run'.at \in {"synthesizing", "promoting"}
    BY <1>14 DEF Concludes, SynthesisGoes, KeepsAsked, KeepsTodo
  <2> QED BY <2>1, LeavingKeepsTried DEF Early, Rounds
<1>15. CASE Computes
  <2>1. (\E r : Hits(r)) \/ Indexes => TriedOnce'
    BY <1>12 DEF Hits, Indexes
  <2> QED BY <1>15, <2>1, <1>6, <1>7, <1>8, <1>9, <1>10, <1>11, <1>13, <1>14, <1>16 DEF Computes
<1> QED BY Steps, <1>1, <1>2, <1>3, <1>4, <1>5, <1>15

-----------------------------------------------------------------------------
\* The theorems

LEMMA StartsSound ==
  ASSUME SearchInit
  PROVE  SearchInv
<1>1. run = NoRun /\ log = [n \in RunIds |-> NoLog] /\ session = TRUE /\ deleting = 0 /\ cancel = FALSE /\ up = TRUE /\ CacheInit
  BY DEF SearchInit
<1>2. run.at = "idle" /\ run.calls = 0 /\ run.budget = 0 /\ run.attempts = 0 /\ run.pages = 0 /\ run.mode = None /\ run.n = 0
  BY <1>1 DEF NoRun
<1>3. NoLog \in Logs
  BY DEF NoLog, Logs, None
<1>4. 0 \in 0..MaxRows /\ 1 \in Rows /\ Absent \in PageRows /\ Absent.state = "absent"
  BY WebAssumption DEF Rows, Absent, PageRow, PageRows
<1>5. frontier \in [Urls -> FrontierRows]
  <2>1. \A u \in Urls : frontier[u] \in FrontierRows
    BY <1>1 DEF CacheInit, Unfetched, FrontierRows
  <2> QED BY <1>1, <2>1 DEF CacheInit
\* The page that is kept, and the later text of it that could not be written
<1> DEFINE First(r) == r = 1 /\ rows[r].state = "kept" /\ rows[r].url \in Urls /\ rows[r].current /\ rows[r].indexed
           Later(r) == /\ r = 2 /\ rows[r].state = "staged" /\ rows[r].url \in Urls /\ ~rows[r].current /\ ~rows[r].indexed
                       /\ rows[r].text # rows[1].text
<1>6. rows \in [Rows -> PageRows] /\ \A r \in Rows : rows[r] = Absent \/ First(r) \/ Later(r)
  <2>1. CASE rows = [r \in Rows |-> Absent]
    BY <1>4, <2>1
  <2>2. ASSUME NEW u \in Urls, NEW text \in Says[u], NEW later \in (Says[u] \ {text}) \cup {None},
               rows = [r \in Rows |-> IF r = 1 THEN PageRow("kept", u, text, TRUE)
                                      ELSE IF r = 2 /\ later # None THEN PageRow("staged", u, later, FALSE) ELSE Absent]
        PROVE  rows \in [Rows -> PageRows] /\ \A r \in Rows : rows[r] = Absent \/ First(r) \/ Later(r)
    <3>1. text \in Texts /\ (later # None => later \in Texts /\ later # text)
      BY DEF Texts
    <3>2. /\ PageRow("kept", u, text, TRUE) \in PageRows /\ PageRow("kept", u, text, TRUE).state = "kept"
          /\ PageRow("kept", u, text, TRUE).url = u /\ PageRow("kept", u, text, TRUE).text = text
          /\ PageRow("kept", u, text, TRUE).current /\ PageRow("kept", u, text, TRUE).indexed
      BY <3>1 DEF PageRow, PageRows
    <3>3. later # None =>
            /\ PageRow("staged", u, later, FALSE) \in PageRows /\ PageRow("staged", u, later, FALSE).state = "staged"
            /\ PageRow("staged", u, later, FALSE).url = u /\ PageRow("staged", u, later, FALSE).text = later
            /\ ~PageRow("staged", u, later, FALSE).current /\ ~PageRow("staged", u, later, FALSE).indexed
      BY <3>1 DEF PageRow, PageRows
    <3> QED BY <1>4, <2>2, <3>1, <3>2, <3>3
  <2> QED BY <1>1, <2>1, <2>2 DEF CacheInit
<1>7. SearchTypeOK
  BY <1>1, <1>3, <1>4, <1>5, <1>6, NoRunRecord DEF SearchTypeOK, CacheTypeOK
<1>8. RunPlaced
  BY <1>1, <1>2 DEF RunPlaced, Early
<1>9. RowsSound
  BY <1>1, <1>4, <1>6 DEF RowsSound, OneCurrent, OneOfEachText, LiveIsCurrent, StandsIn
<1>10. RowsInHand /\ PoolStands
  BY <1>2, <1>4, <1>6 DEF RowsInHand, PoolStands, Early, Rounds, Over
<1>11. CallsFunded /\ FetchesFunded
  BY <1>2, SearchAssumption DEF CallsFunded, FetchesFunded, Early, Rounds, None
<1>12. TriedOnce
  BY <1>2 DEF TriedOnce, Local, Early, Rounds, None
<1>13. RunsTold
  BY <1>1, <1>2 DEF RunsTold, Telling, Told, NoLog, None
<1> QED BY <1>7, <1>8, <1>9, <1>10, <1>11, <1>12, <1>13 DEF SearchInv

LEMMA StepsSound ==
  ASSUME SearchInv, [SearchNext]_searchVars
  PROVE  SearchInv'
<1>1. SearchTypeOK' /\ RunPlaced'
  BY TypesKept, PlacedKept DEF SearchInv
<1>2. RowsSound' /\ RowsInHand' /\ PoolStands'
  BY RowsMove, HandKept, PoolKept DEF SearchInv
<1>3. CallsFunded' /\ FetchesFunded' /\ TriedOnce'
  BY CallsKept, FetchesKept, TriedKept DEF SearchInv
<1>4. RunsTold'
  BY RunsKept DEF SearchInv
<1> QED BY <1>1, <1>2, <1>3, <1>4 DEF SearchInv

\* The inductive invariant: the stored pages agree with one another and with what the run in hand has of them,
\* its budgets are funded, what it tried it does not try again, and what its rows say of it is what it did.
THEOREM SearchInvariant == SearchSpec => []SearchInv
<1>1. SearchInit => SearchInv
  BY StartsSound
<1>2. SearchInv /\ [SearchNext]_searchVars => SearchInv'
  BY StepsSound
<1> QED BY <1>1, <1>2, PTL DEF SearchSpec

\* What Searches keep is usable and single, at every moment of every run, deletion, crash and restart: one current
\* revision of a page, one with a given text, no retrievable page that is superseded or was not indexed, and nothing
\* staged between Searches but a page that could not be written.
THEOREM SearchCacheIsSound == SearchSpec => []CacheIsSound
<1>1. ASSUME SearchInv PROVE CacheIsSound
  <2>0. CacheTypeOK /\ OneCurrent(rows) /\ OneOfEachText(rows) /\ LiveIsCurrent(rows)
    BY <1>1 DEF SearchInv, SearchTypeOK, RowsSound
  <2>1. ASSUME NEW u \in Urls PROVE Cardinality(CurrentRows(u)) <= 1
    <3>1. \A r, q \in CurrentRows(u) : r = q
      BY <2>0 DEF CurrentRows, OneCurrent, StandsIn, Stands
    <3>2. CurrentRows(u) = {} \/ \E r : CurrentRows(u) = {r}
      BY <3>1
    <3>3. Cardinality(CurrentRows(u)) = 0 \/ Cardinality(CurrentRows(u)) = 1
      BY <3>2, FS_EmptySet, FS_Singleton
    <3> QED BY <3>3
  <2>2. up /\ run.at = "idle" => \A r \in Rows : rows[r].state = "staged" => ~rows[r].indexed
    BY <1>1 DEF SearchInv, RowsInHand, Rounds, Over
  <2> QED BY <2>0, <2>1, <2>2 DEF CacheIsSound, OneOfEachText, LiveIsCurrent, StandsIn, Stands
<1> QED BY <1>1, SearchInvariant, PTL

\* The counted budgets hold for every budget: model calls, fetches and pages stay within them, a Search with evidence
\* can pay for its synthesis, and a local one never fetches a page twice.
THEOREM SearchBudgetsHold == SearchSpec => []BudgetsHold
<1>1. ASSUME SearchInv PROVE BudgetsHold
  BY <1>1 DEF SearchInv, CallsFunded, FetchesFunded, TriedOnce, BudgetsHold
<1> QED BY <1>1, SearchInvariant, PTL

\* The row of a run, its messages and its evidence agree after any number of Searches, deletions and crashes.
THEOREM SearchRunsAgree == SearchSpec => []RunsAgree
<1>1. ASSUME SearchInv PROVE RunsAgree
  BY <1>1 DEF SearchInv, RunsTold, Told, RunsAgree
<1> QED BY <1>1, SearchInvariant, PTL
=============================================================================
