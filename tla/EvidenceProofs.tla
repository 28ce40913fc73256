--------------------------- MODULE EvidenceProofs ---------------------------
(***************************************************************************)
(* Theorems of WebAccess, for any number of queries, origins and pages,    *)
(* any limits and any length of time, of ImageTurns, for any images and    *)
(* any bounds, and of the index of Retrieval, for any documents of any     *)
(* text.  The three share no variable: a proof of one never speaks of      *)
(* another.                                                                *)
(***************************************************************************)
EXTENDS WebAccess, ImageTurns, Retrieval, DataProofs

Calls == [at : {"ready", "waiting", "asked", "done"}, tries : Nat, wait : Nat, target : Nat]
SentRows == [query : Queries, at : Nat, due : Nat]
Failures == {"none", "pattern", "fetch_failed", "robots_disallowed", "robots_unsupported_pattern"}
Rows == [at : Int, failure : Failures, allowed : SUBSET Pages]
Requests == [kind : {"none", "robots", "page", "metadata"}, page : Pages \cup {"none"},
             hops : Nat, read : Nat, since : Nat, limit : Nat]

AccessTypeOK ==
  /\ now \in Nat /\ slot \in Nat /\ holder \in Queries \cup {"none"}
  /\ caller \in [Queries -> Calls] /\ sent \in Seq(SentRows)
  /\ file \in [Origins -> Files] /\ robots \in [Origins -> Rows] /\ heard \in [Origins -> Rows]
  /\ spent \in [bytes : Nat, pages : Nat] /\ req \in Requests /\ blamed \subseteq Pages \X Nat /\ ended \in BOOLEAN

SentBy(q) == {i \in DOMAIN sent : sent[i].query = q}

\* Who waits has the lock, and waits at least until the slot booked by the request before.
ThrottleHeld ==
  /\ \A q \in Queries : caller[q].at = "waiting" => holder = q /\ caller[q].target >= slot
  /\ \A i \in DOMAIN sent : sent[i].at + Interval <= slot

\* A thread counts its own requests, and tries again only while it may.
TriesCounted ==
  \A q \in Queries :
    /\ Cardinality(SentBy(q)) = caller[q].tries
    /\ caller[q].tries <= MaxRetries + 1
    /\ caller[q].at \in {"ready", "waiting"} => caller[q].tries <= MaxRetries

\* A row that denies nothing outright says what the origin's file said when it was last read.
RowsHeard ==
  \A o \in Origins : robots[o].at >= 0 /\ robots[o].failure = "none" => heard[o] = robots[o]

\* The request under way has a page of the run, and what it may still read is the run's to spend.
RequestFunded ==
  /\ req = NoRequest \/ (req.kind # "none" /\ req.page \in Pages)
  /\ req.read <= req.limit /\ req.limit <= ResponseLimit
  /\ spent.bytes + req.limit <= TotalBytes

ThrottleInv == ThrottleHeld /\ TriesCounted /\ RequestsKeepApart
LocalInv == RowsHeard /\ RequestFunded /\ RobotsObeyed /\ TotalsHold
AccessInv == AccessTypeOK /\ ThrottleInv /\ LocalInv

----------------------------------------------------------------------------
\* Nothing was sent, heard or read yet.
LEMMA AccessBegins == AccessInit => AccessInv
<1> SUFFICES ASSUME AccessInit PROVE AccessInv
  OBVIOUS
<1>1. /\ now = 0 /\ slot = 0 /\ holder = "none" /\ sent = <<>> /\ spent = [bytes |-> 0, pages |-> 0]
      /\ req = NoRequest /\ blamed = {} /\ ended = FALSE
      /\ \A q \in Queries : caller[q] = [at |-> "ready", tries |-> 0, wait |-> 0, target |-> 0]
      /\ \A o \in Origins : robots[o] = NoRow /\ heard[o] = NoRow
  BY DEF AccessInit
<1>2. AccessTypeOK
  <2>1. NoRow \in Rows /\ NoRequest \in Requests
    <3>1. "none" \in Failures /\ {} \in SUBSET Pages /\ "none" \in Pages \cup {"none"}
      BY Zenon DEF Failures
    <3>2. 0 - 1 \in Int /\ 0 \in Nat
      OBVIOUS
    <3>3. NoRow \in Rows
      BY <3>1, <3>2, Zenon DEF NoRow, Rows
    <3>4. NoRequest \in Requests
      BY <3>1, <3>2, Zenon DEF NoRequest, Requests
    <3> QED BY <3>3, <3>4
  <2>2. [at |-> "ready", tries |-> 0, wait |-> 0, target |-> 0] \in Calls
    BY DEF Calls
  <2>3. caller \in [Queries -> Calls] /\ robots \in [Origins -> Rows] /\ heard \in [Origins -> Rows]
    BY <2>1, <2>2 DEF AccessInit
  <2>4. sent \in Seq(SentRows)
    <3>1. <<>> \in Seq(SentRows)
      OBVIOUS
    <3> QED BY <1>1, <3>1
  <2>5. [bytes |-> 0, pages |-> 0] \in [bytes : Nat, pages : Nat]
    OBVIOUS
  <2> QED BY <1>1, <2>1, <2>3, <2>4, <2>5 DEF AccessTypeOK, AccessInit
<1>3. DOMAIN sent = {} /\ \A q \in Queries : SentBy(q) = {}
  BY <1>1 DEF SentBy
<1>4. Cardinality({}) = 0
  BY FS_EmptySet
<1>5. ThrottleHeld /\ TriesCounted
  <2>1. /\ \A q \in Queries : caller[q].at = "ready" /\ caller[q].tries = 0
        /\ \A q \in Queries : Cardinality(SentBy(q)) = 0
    <3>1. \A q \in Queries : caller[q].at = "ready" /\ caller[q].tries = 0
      BY <1>1
    <3>2. \A q \in Queries : Cardinality(SentBy(q)) = 0
      BY <1>3, <1>4, Zenon
    <3> QED BY <3>1, <3>2
  <2>2. ThrottleHeld
    BY <1>3, <2>1 DEF ThrottleHeld
  <2>3. MaxRetries \in Nat
    BY AccessAssumption
  <2>4. TriesCounted
    BY <2>1, <2>3 DEF TriesCounted
  <2> QED BY <2>2, <2>4
<1>6. RequestsKeepApart
  <2>1. \A q \in Queries : Cardinality({i \in DOMAIN sent : sent[i].query = q}) <= MaxRetries + 1
    BY <1>3, <1>4, AccessAssumption DEF SentBy
  <2> QED BY <1>3, <2>1 DEF RequestsKeepApart
<1>7. RowsHeard /\ RobotsObeyed
  BY <1>1 DEF RowsHeard, RobotsObeyed, NoRow, NoRequest
<1>8. RequestFunded /\ TotalsHold
  BY <1>1, AccessAssumption DEF RequestFunded, TotalsHold, NoRequest
<1> QED BY <1>2, <1>5, <1>6, <1>7, <1>8 DEF AccessInv, ThrottleInv, LocalInv

----------------------------------------------------------------------------
(* The provider's threads. *)

\* A step that sends nothing keeps the pace; its thread waits at least until the slot.
LEMMA QuietKeepsPace ==
  ASSUME AccessInv, NEW q \in Queries, NEW c \in Calls,
         caller' = [caller EXCEPT ![q] = c], UNCHANGED <<slot, sent>>,
         c.tries = caller[q].tries,
         c.at \in {"ready", "waiting"} => c.tries <= MaxRetries,
         c.at = "waiting" => holder' = q /\ c.target >= slot,
         \A p \in Queries : p # q /\ holder = p => holder' = p
  PROVE  ThrottleInv'
<1> USE DEF AccessInv, ThrottleInv
<1>1. \A p \in Queries : caller'[p] = IF p = q THEN c ELSE caller[p]
  BY DEF AccessTypeOK
<1>2. ThrottleHeld'
  BY <1>1 DEF ThrottleHeld
<1>3. TriesCounted'
  <2>1. \A p \in Queries : SentBy(p)' = SentBy(p)
    BY DEF SentBy
  <2> QED BY <1>1, <2>1 DEF TriesCounted
<1>4. RequestsKeepApart'
  BY DEF RequestsKeepApart
<1> QED BY <1>2, <1>3, <1>4

\* A request is sent by the thread that has the lock, when its wait is over.
LEMMA SendKeepsPace ==
  ASSUME AccessInv, NEW q \in Queries, Send(q)
  PROVE  ThrottleInv' /\ slot' \in Nat /\ sent' \in Seq(SentRows) /\ caller' \in [Queries -> Calls] /\ holder' = "none"
<1> USE DEF AccessInv, ThrottleInv
<1> DEFINE new == [query |-> q, at |-> now, due |-> caller[q].target]
           n == Len(sent) + 1
<1>1. /\ caller[q].at = "waiting" /\ now >= caller[q].target /\ holder = q /\ caller[q].target >= slot
      /\ holder' = "none" /\ slot' = now + Interval /\ sent' = Append(sent, new)
      /\ caller' = [caller EXCEPT ![q].at = "asked", ![q].tries = @ + 1]
  BY DEF Send, ThrottleHeld
<1>2. /\ now \in Nat /\ slot \in Nat /\ Interval \in Nat /\ MaxRetries \in Nat /\ caller \in [Queries -> Calls]
      /\ sent \in Seq(SentRows) /\ caller[q].target \in Nat
  BY AccessAssumption DEF AccessTypeOK, Calls
<1>3. new \in SentRows /\ new.at = now /\ new.due = caller[q].target /\ new.query = q
  <2>1. now \in Nat /\ caller[q].target \in Nat
    BY <1>2
  <2> QED BY <2>1, Zenon DEF SentRows
<1> HIDE DEF new
<1>4. /\ sent' \in Seq(SentRows) /\ DOMAIN sent' = DOMAIN sent \cup {n} /\ n \notin DOMAIN sent /\ sent'[n] = new
      /\ \A i \in DOMAIN sent : sent'[i] = sent[i] /\ i < n /\ i \in Nat
      /\ n \in Nat
  <2>1. /\ Len(sent) \in Nat /\ DOMAIN sent = 1..Len(sent) /\ sent' \in Seq(SentRows)
        /\ Len(sent') = Len(sent) + 1 /\ DOMAIN sent' = 1..(Len(sent) + 1)
    BY <1>1, <1>2, <1>3
  <2>2. sent'[Len(sent) + 1] = new /\ \A i \in 1..Len(sent) : sent'[i] = sent[i]
    BY <1>1, <1>2, <1>3
  <2> QED BY <2>1, <2>2
<1>5. \A i \in DOMAIN sent : sent[i] \in SentRows /\ sent[i].at \in Nat /\ sent[i].due \in Nat
  <2> SUFFICES ASSUME NEW i \in DOMAIN sent PROVE sent[i] \in SentRows /\ sent[i].at \in Nat /\ sent[i].due \in Nat
    OBVIOUS
  <2>1. sent[i] \in SentRows
    <3>1. sent \in Seq(SentRows)
      BY <1>2
    <3> HIDE DEF AccessInv
    <3> QED BY <3>1
  <2> QED BY <2>1 DEF SentRows
<1> HIDE DEF n
<1>6. /\ \A p \in Queries : p # q => caller'[p] = caller[p]
      /\ caller'[q].at = "asked" /\ caller'[q].tries = caller[q].tries + 1
      /\ caller' \in [Queries -> Calls]
  BY <1>1, <1>2 DEF Calls
<1>7. ThrottleHeld'
  <2>1. \A p \in Queries : caller'[p].at # "waiting"
    BY <1>1, <1>6 DEF ThrottleHeld
  <2>2. \A i \in DOMAIN sent' : sent'[i].at + Interval <= slot'
    BY <1>1, <1>2, <1>3, <1>4, <1>5 DEF ThrottleHeld
  <2> QED BY <2>1, <2>2 DEF ThrottleHeld
<1>8. \A p \in Queries : Cardinality(SentBy(p)') = Cardinality(SentBy(p)) + IF p = q THEN 1 ELSE 0
  <2>1. \A p \in Queries : SentBy(p)' = IF p = q THEN SentBy(p) \cup {n} ELSE SentBy(p)
    BY <1>3, <1>4 DEF SentBy
  <2>2. \A p \in Queries : n \notin SentBy(p) /\ SentBy(p) \subseteq DOMAIN sent
    BY <1>4 DEF SentBy
  <2>3. IsFiniteSet(DOMAIN sent)
    <3>1. DOMAIN sent = 1..Len(sent) /\ Len(sent) \in Nat
      BY <1>2
    <3> QED BY <3>1, FS_Interval
  <2>4. \A p \in Queries : IsFiniteSet(SentBy(p)) /\ Cardinality(SentBy(p)) \in Nat
    BY <2>2, <2>3, FS_Subset, FS_CardinalityType
  <2>5. Cardinality(SentBy(q) \cup {n}) = Cardinality(SentBy(q)) + 1
    BY <2>2, <2>4, FS_AddElement
  <2>6. \A p \in Queries : p # q => Cardinality(SentBy(p)') = Cardinality(SentBy(p)) + 0
    BY <2>1, <2>4
  <2>7. Cardinality(SentBy(q)') = Cardinality(SentBy(q)) + 1
    BY <2>1, <2>5
  <2> QED BY <2>6, <2>7
<1>9. TriesCounted'
  BY <1>1, <1>2, <1>6, <1>8 DEF TriesCounted, Calls
<1>10. RequestsKeepApart'
  <2>1. \A i, j \in DOMAIN sent' : i < j => sent'[j].at - sent'[i].at >= Interval
    <3> SUFFICES ASSUME NEW i \in DOMAIN sent', NEW j \in DOMAIN sent', i < j
                 PROVE  sent'[j].at - sent'[i].at >= Interval
      OBVIOUS
    <3>1. i \in DOMAIN sent
      BY <1>4
    <3>2. CASE j \in DOMAIN sent
      BY <1>4, <3>1, <3>2 DEF RequestsKeepApart
    <3>3. CASE j = n
      <4>1. sent[i].at + Interval <= slot /\ sent'[i] = sent[i] /\ sent'[j].at = now /\ sent[i].at \in Nat
        BY <1>3, <1>4, <1>5, <3>1, <3>3 DEF ThrottleHeld
      <4> QED BY <1>1, <1>2, <4>1
    <3> QED BY <1>4, <3>2, <3>3
  <2>2. \A i \in DOMAIN sent' : sent'[i].at >= sent'[i].due
    BY <1>1, <1>3, <1>4 DEF RequestsKeepApart
  <2>3. \A p \in Queries : Cardinality({i \in DOMAIN sent' : sent'[i].query = p}) <= MaxRetries + 1
    BY <1>9 DEF TriesCounted, SentBy
  <2> QED BY <2>1, <2>2, <2>3 DEF RequestsKeepApart
<1> QED BY <1>1, <1>2, <1>4, <1>6, <1>7, <1>9, <1>10

\* Whatever a provider thread does, the invariant is kept; the other threads' waits are not its own.
LEMMA ProviderKeeps ==
  ASSUME AccessInv, ProviderStep
  PROVE  AccessInv'
<1> USE DEF AccessInv
<1>0. LocalInv' /\ UNCHANGED <<now, localVars>>
  BY DEF ProviderStep, localVars, LocalInv, RowsHeard, RequestFunded, RobotsObeyed, TotalsHold
<1>1. PICK q \in Queries : Reserve(q) \/ Send(q) \/ Result(q) \/ TooMany(q) \/ GiveUp(q)
  BY DEF ProviderStep
<1>2. /\ caller \in [Queries -> Calls] /\ slot \in Nat /\ now \in Nat /\ MaxRetries \in Nat /\ MaxWait \in Nat /\ Waits \subseteq Nat
      /\ caller[q] \in Calls /\ caller[q].tries \in Nat /\ caller[q].wait \in Nat /\ sent \in Seq(SentRows)
      /\ holder \in Queries \cup {"none"} /\ "none" \notin Queries
  BY AccessAssumption DEF AccessTypeOK, Calls
<1>3. CASE Send(q)
  BY <1>0, <1>3, SendKeepsPace DEF AccessTypeOK, localVars
<1>4. ASSUME NEW c \in Calls, caller' = [caller EXCEPT ![q] = c], UNCHANGED <<slot, sent>>,
             c.tries = caller[q].tries,
             c.at \in {"ready", "waiting"} => c.tries <= MaxRetries,
             c.at = "waiting" => holder' = q /\ c.target >= slot,
             holder' \in Queries \cup {"none"},
             \A p \in Queries : p # q /\ holder = p => holder' = p
      PROVE  AccessInv'
  <2>1. ThrottleInv'
    BY <1>4, QuietKeepsPace
  <2>2. caller' \in [Queries -> Calls]
    BY <1>2, <1>4
  <2>3. AccessTypeOK'
    BY <1>0, <1>4, <2>2 DEF AccessTypeOK, localVars
  <2> QED BY <1>0, <2>1, <2>3
<1>5. CASE Reserve(q)
  <2> DEFINE own == now + caller[q].wait
             t == IF slot > own THEN slot ELSE own
             c == [caller[q] EXCEPT !.at = "waiting", !.target = t]
  <2>1. t \in Nat /\ t >= slot
    BY <1>2
  <2>2. /\ caller[q].at = "ready" /\ holder = "none" /\ holder' = q /\ UNCHANGED <<slot, sent>>
        /\ caller' = [caller EXCEPT ![q].at = "waiting", ![q].target = t]
    BY <1>5 DEF Reserve
  <2> HIDE DEF t
  <2>3. c \in Calls /\ c.at = "waiting" /\ c.tries = caller[q].tries /\ c.target = t /\ caller' = [caller EXCEPT ![q] = c]
    BY <1>2, <2>1, <2>2 DEF Calls
  <2>4. caller[q].tries <= MaxRetries
    BY <2>2 DEF ThrottleInv, TriesCounted
  <2> HIDE DEF c
  <2> QED BY <1>2, <1>4, <2>1, <2>2, <2>3, <2>4
<1>6. CASE Result(q) \/ GiveUp(q)
  <2> DEFINE c == [caller[q] EXCEPT !.at = "done"]
  <2>1. /\ c \in Calls /\ c.at = "done" /\ c.tries = caller[q].tries /\ caller' = [caller EXCEPT ![q] = c]
        /\ UNCHANGED <<slot, sent>> /\ holder' \in {holder, "none"}
    BY <1>2, <1>6 DEF Calls, Result, GiveUp
  <2>2. \A p \in Queries : p # q /\ holder = p => holder' = p
    BY <1>2, <1>6 DEF Result, GiveUp, ThrottleInv, ThrottleHeld
  <2> HIDE DEF c
  <2> QED BY <1>2, <1>4, <2>1, <2>2
<1>7. CASE TooMany(q)
  <2>1. PICK w \in Nat : caller' = IF caller[q].tries <= MaxRetries
                                   THEN [caller EXCEPT ![q].at = "ready", ![q].wait = w]
                                   ELSE [caller EXCEPT ![q].at = "done"]
    BY <1>2, <1>7 DEF TooMany
  <2>2. UNCHANGED <<slot, sent, holder>>
    BY <1>7 DEF TooMany
  <2>3. CASE caller[q].tries <= MaxRetries
    <3> DEFINE c == [caller[q] EXCEPT !.at = "ready", !.wait = w]
    <3>1. c \in Calls /\ c.at = "ready" /\ c.tries = caller[q].tries /\ caller' = [caller EXCEPT ![q] = c]
      BY <1>2, <2>1, <2>3 DEF Calls
    <3> HIDE DEF c
    <3> QED BY <1>2, <1>4, <2>2, <2>3, <3>1
  <2>4. CASE ~(caller[q].tries <= MaxRetries)
    <3> DEFINE c == [caller[q] EXCEPT !.at = "done"]
    <3>1. c \in Calls /\ c.at = "done" /\ c.tries = caller[q].tries /\ caller' = [caller EXCEPT ![q] = c]
      BY <1>2, <2>1, <2>4 DEF Calls
    <3> HIDE DEF c
    <3> QED BY <1>2, <1>4, <2>2, <3>1
  <2> QED BY <2>3, <2>4
<1> QED BY <1>1, <1>3, <1>5, <1>6, <1>7

----------------------------------------------------------------------------
(* The worker's requests to pages and robots files. *)

\* What fetch may begin with: the bytes it starts from are within the run's, and a page, feed or
\* sitemap has a robots answer that lets it be asked for now.
LEMMA FetchKeeps ==
  ASSUME AccessInv, NEW kind \in {"robots", "page", "metadata"}, NEW p \in Pages, NEW bytes \in Nat,
         Fetch(kind, p, bytes), bytes <= TotalBytes,
         RowsHeard', robots' \in [Origins -> Rows], heard' \in [Origins -> Rows],
         UNCHANGED <<mode, now, throttleVars, file, blamed>>,
         kind # "robots" => /\ heard'[OriginOf[p]].at >= 0 /\ heard'[OriginOf[p]].failure = "none"
                            /\ p \in heard'[OriginOf[p]].allowed /\ now - heard'[OriginOf[p]].at < SuccessTTL
  PROVE  AccessInv'
<1>1. /\ TotalBytes \in Nat /\ ResponseLimit \in Nat /\ MaxPages \in Nat /\ MaxRedirects \in Nat /\ Deadline \in Nat /\ now \in Nat
      /\ spent \in [bytes : Nat, pages : Nat]
  BY AccessAssumption DEF AccessInv, AccessTypeOK
<1>2. ThrottleInv'
  BY DEF AccessInv, throttleVars, ThrottleInv, ThrottleHeld, TriesCounted, SentBy, RequestsKeepApart
<1>3. spent.pages <= MaxPages /\ \A b \in blamed : b[2] = ResponseLimit
  BY DEF AccessInv, LocalInv, TotalsHold
<1>4. CASE now >= Deadline \/ bytes >= TotalBytes \/ (kind = "page" /\ spent.pages >= MaxPages)
  <2>1. ended' = TRUE /\ req' = NoRequest /\ spent' = [spent EXCEPT !.bytes = bytes]
    BY <1>4 DEF Fetch
  <2>2. spent' \in [bytes : Nat, pages : Nat] /\ spent'.bytes = bytes /\ spent'.pages = spent.pages
    BY <1>1, <2>1
  <2>3. /\ req'.kind = "none" /\ req'.page = "none" /\ req'.hops = 0 /\ req'.read = 0 /\ req'.since = 0 /\ req'.limit = 0
        /\ req' \in Requests
    BY <2>1 DEF NoRequest, Requests
  <2>4. AccessTypeOK'
    BY <2>1, <2>2, <2>3 DEF AccessInv, AccessTypeOK, throttleVars
  <2>5. RequestFunded'
    BY <1>1, <2>1, <2>2, <2>3 DEF RequestFunded
  <2>6. TotalsHold'
    BY <1>1, <1>3, <2>2, <2>3 DEF TotalsHold
  <2>7. RobotsObeyed'
    BY <2>3 DEF RobotsObeyed
  <2> QED BY <1>2, <2>4, <2>5, <2>6, <2>7 DEF AccessInv, LocalInv
<1>5. CASE ~(now >= Deadline \/ bytes >= TotalBytes \/ (kind = "page" /\ spent.pages >= MaxPages))
  <2> DEFINE left == TotalBytes - bytes
             limit == IF left < ResponseLimit THEN left ELSE ResponseLimit
             more == IF kind = "page" THEN 1 ELSE 0
  <2>1. limit \in Nat /\ limit <= ResponseLimit /\ bytes + limit <= TotalBytes /\ more \in Nat /\ spent.pages + more <= MaxPages
    BY <1>1, <1>3, <1>5
  <2>2. /\ req' = [kind |-> kind, page |-> p, hops |-> 0, read |-> 0, since |-> now, limit |-> limit]
        /\ spent' = [bytes |-> bytes, pages |-> spent.pages + more] /\ ended' = ended
    BY <1>5 DEF Fetch
  <2> HIDE DEF limit, more
  <2>3. /\ req'.kind = kind /\ req'.page = p /\ req'.hops = 0 /\ req'.read = 0 /\ req'.since = now /\ req'.limit = limit
    BY <2>2
  <2>4. req' \in Requests
    BY <1>1, <2>1, <2>2 DEF Requests
  <2>5. spent' \in [bytes : Nat, pages : Nat] /\ spent'.bytes = bytes /\ spent'.pages = spent.pages + more
    BY <1>1, <2>1, <2>2
  <2>6. AccessTypeOK'
    BY <2>2, <2>4, <2>5 DEF AccessInv, AccessTypeOK, throttleVars
  <2>7. RequestFunded'
    BY <2>1, <2>3, <2>5, <1>1 DEF RequestFunded
  <2>8. TotalsHold'
    BY <1>1, <1>3, <2>1, <2>3, <2>5 DEF TotalsHold
  <2>9. RobotsObeyed'
    BY <2>3 DEF RobotsObeyed
  <2> QED BY <1>2, <2>6, <2>7, <2>8, <2>9 DEF AccessInv, LocalInv
<1> QED BY <1>4, <1>5

\* A request under way goes on: it follows a redirect or reads a chunk it may read.
LEMMA ReadingKeeps ==
  ASSUME AccessInv, Redirected \/ ReadChunk, UNCHANGED <<mode, now, throttleVars, file>>
  PROVE  AccessInv'
<1>1. /\ req \in Requests /\ req # NoRequest /\ spent.bytes \in Nat /\ req.read \in Nat /\ req.hops \in Nat /\ req.limit \in Nat
      /\ TotalBytes \in Nat /\ MaxRedirects \in Nat
  BY AccessAssumption DEF AccessInv, AccessTypeOK, Requests, Redirected, ReadChunk
<1>2. UNCHANGED <<robots, heard, spent, blamed, ended>>
  BY DEF Redirected, ReadChunk
<1>3. /\ req' \in Requests /\ req'.kind = req.kind /\ req'.page = req.page /\ req'.since = req.since /\ req'.limit = req.limit
      /\ req'.read \in {req.read, req.read + 1} /\ req'.read <= req'.limit /\ req'.hops <= MaxRedirects
  <2>1. req.read <= req.limit /\ req.hops <= MaxRedirects
    BY DEF AccessInv, LocalInv, RequestFunded, TotalsHold
  <2>2. CASE Redirected
    BY <1>1, <2>1, <2>2 DEF Redirected, Requests
  <2>3. CASE ReadChunk
    BY <1>1, <2>1, <2>3 DEF ReadChunk, Requests
  <2> QED BY <2>2, <2>3
<1>4. ThrottleInv'
  BY DEF AccessInv, throttleVars, ThrottleInv, ThrottleHeld, TriesCounted, SentBy, RequestsKeepApart
<1>5. AccessTypeOK'
  BY <1>2, <1>3 DEF AccessInv, AccessTypeOK, throttleVars
<1>6. RequestFunded'
  BY <1>1, <1>2, <1>3 DEF AccessInv, LocalInv, RequestFunded
<1>7. TotalsHold'
  BY <1>1, <1>2, <1>3, <1>6 DEF AccessInv, LocalInv, TotalsHold, RequestFunded
<1>8. RobotsObeyed' /\ RowsHeard'
  BY <1>2, <1>3 DEF AccessInv, LocalInv, RobotsObeyed, RowsHeard
<1> QED BY <1>4, <1>5, <1>6, <1>7, <1>8 DEF AccessInv, LocalInv

\* A request ends without another: nothing is under way, and what was read is counted or dropped.
LEMMA EndKeeps ==
  ASSUME AccessInv, req' = NoRequest, UNCHANGED <<mode, now, throttleVars, file>>,
         RowsHeard', robots' \in [Origins -> Rows], heard' \in [Origins -> Rows], ended' \in BOOLEAN,
         NEW read \in Nat, read <= req.limit, spent' = [spent EXCEPT !.bytes = @ + read],
         blamed' \subseteq Pages \X Nat, \A b \in blamed' : b[2] = ResponseLimit
  PROVE  AccessInv'
<1>1. /\ TotalBytes \in Nat /\ ResponseLimit \in Nat /\ MaxRedirects \in Nat /\ spent \in [bytes : Nat, pages : Nat] /\ req.limit \in Nat
      /\ spent.bytes + req.limit <= TotalBytes /\ spent.pages <= MaxPages
  BY AccessAssumption DEF AccessInv, AccessTypeOK, LocalInv, RequestFunded, TotalsHold, Requests
<1>2. spent' \in [bytes : Nat, pages : Nat] /\ spent'.bytes = spent.bytes + read /\ spent'.pages = spent.pages
  BY <1>1
<1>3. /\ req'.kind = "none" /\ req'.page = "none" /\ req'.hops = 0 /\ req'.read = 0 /\ req'.since = 0 /\ req'.limit = 0
      /\ req' \in Requests
  BY DEF NoRequest, Requests
<1>4. ThrottleInv'
  BY DEF AccessInv, throttleVars, ThrottleInv, ThrottleHeld, TriesCounted, SentBy, RequestsKeepApart
<1>5. AccessTypeOK'
  BY <1>2, <1>3 DEF AccessInv, AccessTypeOK, throttleVars
<1>6. RequestFunded'
  BY <1>1, <1>2, <1>3 DEF RequestFunded
<1>7. TotalsHold'
  BY <1>1, <1>2, <1>3 DEF TotalsHold
<1>8. RobotsObeyed'
  BY <1>3 DEF RobotsObeyed
<1> QED BY <1>4, <1>5, <1>6, <1>7, <1>8 DEF AccessInv, LocalInv

\* The row kept of a file that could not be read denies, so it need not be what was heard.
LEMMA FailedKeepsRows ==
  ASSUME AccessInv, NEW o \in Origins, Failed(o), UNCHANGED <<now, file>>
  PROVE  RowsHeard' /\ robots' \in [Origins -> Rows] /\ heard' \in [Origins -> Rows]
<1>1. robots \in [Origins -> Rows] /\ heard \in [Origins -> Rows] /\ heard' = heard /\ now \in Nat /\ RowsHeard
  BY DEF AccessInv, AccessTypeOK, Failed, LocalInv
<1>2. CASE robots' = robots
  BY <1>1, <1>2 DEF RowsHeard
<1>3. CASE KeepRow(o, "fetch_failed")
  <2> DEFINE row == [at |-> now, failure |-> "fetch_failed", allowed |-> Pages]
  <2>1. robots' = [robots EXCEPT ![o] = row]
    BY <1>3 DEF KeepRow
  <2>2. now \in Int /\ "fetch_failed" \in Failures /\ Pages \in SUBSET Pages
    BY <1>1 DEF Failures
  <2>3. row \in Rows
    BY <2>2, Zenon DEF Rows
  <2>4. row.failure # "none"
    OBVIOUS
  <2> HIDE DEF row
  <2> QED BY <1>1, <2>1, <2>3, <2>4 DEF RowsHeard
<1> QED BY <1>2, <1>3 DEF Failed

\* The row kept of a file that was read is the file, unless it denies the page it was read for.
LEMMA ReadKeepsRows ==
  ASSUME AccessInv, NEW o \in Origins, NEW failure \in {"none", "robots_disallowed", "robots_unsupported_pattern"},
         KeepRow(o, failure),
         heard' = [heard EXCEPT ![o] = [at |-> now, failure |-> IF file[o].pattern THEN "pattern" ELSE "none",
                                        allowed |-> file[o].allowed]],
         failure = "none" => ~file[o].pattern
  PROVE  RowsHeard' /\ robots' \in [Origins -> Rows] /\ heard' \in [Origins -> Rows]
<1> DEFINE row == [at |-> now, failure |-> failure, allowed |-> file[o].allowed]
           last == [at |-> now, failure |-> IF file[o].pattern THEN "pattern" ELSE "none", allowed |-> file[o].allowed]
<1>1. robots \in [Origins -> Rows] /\ heard \in [Origins -> Rows] /\ now \in Nat /\ RowsHeard /\ file[o].allowed \in SUBSET Pages
  BY DEF AccessInv, AccessTypeOK, LocalInv, Files
<1>2. robots' = [robots EXCEPT ![o] = row] /\ heard' = [heard EXCEPT ![o] = last]
  BY DEF KeepRow
<1>3. now \in Int /\ failure \in Failures /\ (IF file[o].pattern THEN "pattern" ELSE "none") \in Failures
  BY <1>1 DEF Failures
<1>4. row \in Rows /\ last \in Rows
  BY <1>1, <1>3, Zenon DEF Rows
<1>5. row.failure = "none" => row = last
  OBVIOUS
<1> HIDE DEF row, last
<1> QED BY <1>1, <1>2, <1>4, <1>5 DEF RowsHeard

\* robots_allows and fetch for a candidate: a kept answer lets the page be asked for only while it is fresh.
LEMMA CandidateKeeps ==
  ASSUME AccessInv, NEW p \in Pages, TakeCandidate(p), UNCHANGED <<mode, now, throttleVars, file>>
  PROVE  AccessInv'
<1> DEFINE o == OriginOf[p]
<1>1. /\ o \in Origins /\ now \in Nat /\ spent.bytes \in Nat /\ TotalBytes \in Nat /\ SuccessTTL \in Nat
      /\ robots \in [Origins -> Rows] /\ heard \in [Origins -> Rows] /\ RowsHeard /\ req = NoRequest
  BY AccessAssumption DEF AccessInv, AccessTypeOK, LocalInv, TakeCandidate
<1>2. UNCHANGED <<robots, heard, blamed>>
  BY DEF TakeCandidate
<1>3. RowsHeard' /\ robots' \in [Origins -> Rows] /\ heard' \in [Origins -> Rows]
  BY <1>1, <1>2 DEF RowsHeard
<1>4. spent.bytes <= TotalBytes
  <2>1. req.limit \in Nat /\ spent.bytes + req.limit <= TotalBytes
    BY DEF AccessInv, AccessTypeOK, LocalInv, RequestFunded, Requests
  <2> QED BY <1>1, <2>1
<1>5. KindOf(p) \in {"page", "metadata"}
  BY DEF KindOf
<1>6. CASE ~Fresh(o) /\ Fetch("robots", p, spent.bytes)
  BY <1>1, <1>2, <1>3, <1>4, <1>6, FetchKeeps
<1>7. CASE Fresh(o) /\ CachedAllows(p) /\ Fetch(KindOf(p), p, spent.bytes)
  <2>1. robots[o].at >= 0 /\ robots[o].failure = "none" /\ p \in robots[o].allowed /\ now - robots[o].at < SuccessTTL
    BY <1>7 DEF Fresh, CachedAllows, TtlOf
  <2>2. heard'[o] = robots[o]
    BY <1>1, <1>2, <2>1 DEF RowsHeard
  <2>3. heard'[o].at >= 0 /\ heard'[o].failure = "none" /\ p \in heard'[o].allowed /\ now - heard'[o].at < SuccessTTL
    BY <2>1, <2>2
  <2> QED BY <1>1, <1>2, <1>3, <1>4, <1>5, <1>7, <2>3, FetchKeeps
<1>8. CASE UNCHANGED <<req, spent, ended>>
  BY <1>2, <1>3, <1>8 DEF AccessInv, AccessTypeOK, ThrottleInv, ThrottleHeld, TriesCounted, SentBy, RequestsKeepApart,
       throttleVars, LocalInv, RequestFunded, RobotsObeyed, TotalsHold
<1> QED BY <1>6, <1>7, <1>8 DEF TakeCandidate

\* A request that fails counts none of its bytes, and blames the page only for a whole response.
LEMMA EndingKeeps ==
  ASSUME AccessInv, TooLarge \/ Breaks, UNCHANGED <<mode, now, throttleVars, file>>
  PROVE  AccessInv'
<1> DEFINE o == OriginOf[req.page]
<1>1. /\ req # NoRequest /\ req.page \in Pages /\ req.limit \in Nat /\ req.limit <= ResponseLimit /\ ResponseLimit \in Nat
      /\ spent \in [bytes : Nat, pages : Nat] /\ robots \in [Origins -> Rows] /\ heard \in [Origins -> Rows] /\ RowsHeard
      /\ ended \in BOOLEAN /\ blamed \subseteq Pages \X Nat /\ \A b \in blamed : b[2] = ResponseLimit
  BY AccessAssumption DEF AccessInv, AccessTypeOK, LocalInv, RequestFunded, TotalsHold, Requests, TooLarge, Breaks
<1>2. o \in Origins
  BY <1>1, AccessAssumption
<1>3. /\ req' = NoRequest /\ spent' = spent
      /\ RowsHeard' /\ robots' \in [Origins -> Rows] /\ heard' \in [Origins -> Rows]
      /\ ended' \in BOOLEAN
  <2>1. CASE Failed(o)
    BY <1>1, <1>2, <2>1, FailedKeepsRows DEF Failed
  <2>2. CASE ended' = TRUE /\ req' = NoRequest /\ UNCHANGED <<robots, heard, spent, blamed>>
    BY <1>1, <2>2 DEF RowsHeard
  <2> QED BY <2>1, <2>2 DEF TooLarge, Breaks
<1>4. blamed' \subseteq Pages \X Nat /\ \A b \in blamed' : b[2] = ResponseLimit
  <2>1. CASE blamed' = blamed
    BY <1>1, <2>1
  <2>2. CASE ~(req.limit < ResponseLimit) /\ blamed' = blamed \cup {<<req.page, req.limit>>}
    BY <1>1, <2>2
  <2> QED BY <2>1, <2>2 DEF TooLarge, Breaks
<1>5. 0 \in Nat /\ 0 <= req.limit /\ spent' = [spent EXCEPT !.bytes = @ + 0]
  BY <1>1, <1>3
<1> QED BY <1>3, <1>4, <1>5, EndKeeps

\* A body that was read is counted; a robots file is kept and may be followed by its page.
LEMMA FinishedKeeps ==
  ASSUME AccessInv, Finished, UNCHANGED <<mode, now, throttleVars, file>>
  PROVE  AccessInv'
<1> DEFINE o == OriginOf[req.page]
           bytes == spent.bytes + req.read
<1>1. /\ req # NoRequest /\ req.page \in Pages /\ req.limit \in Nat /\ req.read \in Nat /\ req.read <= req.limit /\ TotalBytes \in Nat
      /\ spent.bytes \in Nat /\ spent.bytes + req.limit <= TotalBytes /\ now \in Nat /\ SuccessTTL \in Nat /\ SuccessTTL > 0
      /\ robots \in [Origins -> Rows] /\ heard \in [Origins -> Rows] /\ RowsHeard
      /\ ended \in BOOLEAN /\ blamed \subseteq Pages \X Nat /\ \A b \in blamed : b[2] = ResponseLimit /\ UNCHANGED blamed
  BY AccessAssumption DEF AccessInv, AccessTypeOK, LocalInv, RequestFunded, TotalsHold, Requests, Finished
<1>2. o \in Origins /\ bytes \in Nat /\ bytes <= TotalBytes /\ UNCHANGED blamed
  BY <1>1, AccessAssumption DEF Finished
<1>3. CASE req.kind # "robots"
  <2>1. req' = NoRequest /\ spent' = [spent EXCEPT !.bytes = @ + req.read] /\ UNCHANGED <<robots, heard, ended>>
    BY <1>3 DEF Finished
  <2>2. RowsHeard' /\ robots' \in [Origins -> Rows] /\ heard' \in [Origins -> Rows]
    BY <1>1, <2>1 DEF RowsHeard
  <2> QED BY <1>1, <1>2, <2>1, <2>2, EndKeeps
<1>4. CASE RobotsRead
  <2> DEFINE failure == IF file[o].pattern THEN "robots_unsupported_pattern"
                        ELSE IF req.page \in file[o].allowed THEN "none" ELSE "robots_disallowed"
             last == [at |-> now, failure |-> IF file[o].pattern THEN "pattern" ELSE "none", allowed |-> file[o].allowed]
  <2>1. /\ KeepRow(o, failure) /\ heard' = [heard EXCEPT ![o] = last]
        /\ IF failure = "none" THEN Fetch(KindOf(req.page), req.page, bytes)
           ELSE req' = NoRequest /\ spent' = [spent EXCEPT !.bytes = bytes] /\ UNCHANGED ended
    BY <1>4 DEF RobotsRead
  <2>2. /\ failure \in {"none", "robots_disallowed", "robots_unsupported_pattern"}
        /\ failure = "none" => ~file[o].pattern /\ req.page \in file[o].allowed
    OBVIOUS
  <2> HIDE DEF failure
  <2>3. RowsHeard' /\ robots' \in [Origins -> Rows] /\ heard' \in [Origins -> Rows]
    BY <1>2, <2>1, <2>2, ReadKeepsRows
  <2>4. CASE failure = "none"
    <3>1. KindOf(req.page) \in {"page", "metadata"}
      BY DEF KindOf
    <3>2. heard'[o] = last
      BY <1>1, <1>2, <2>1
    <3>3. heard'[o].at >= 0 /\ heard'[o].failure = "none" /\ req.page \in heard'[o].allowed /\ now - heard'[o].at < SuccessTTL
      BY <1>1, <2>2, <2>4, <3>2
    <3>4. Fetch(KindOf(req.page), req.page, bytes)
      BY <2>1, <2>4
    <3> QED BY <1>1, <1>2, <2>3, <3>1, <3>3, <3>4, FetchKeeps
  <2>5. CASE failure # "none"
    <3>1. req' = NoRequest /\ spent' = [spent EXCEPT !.bytes = @ + req.read] /\ UNCHANGED ended
      BY <2>1, <2>5
    <3> QED BY <1>1, <1>2, <2>3, <3>1, EndKeeps
  <2> QED BY <2>4, <2>5
<1> QED BY <1>3, <1>4 DEF Finished

\* Every step of AccessNext keeps the invariant.
LEMMA AccessStep == AccessInv /\ [AccessNext]_accessVars => AccessInv'
<1> SUFFICES ASSUME AccessInv, [AccessNext]_accessVars PROVE AccessInv'
  OBVIOUS
<1>1. CASE ProviderStep
  BY <1>1, ProviderKeeps
<1>2. CASE LocalStep
  BY <1>2, CandidateKeeps, ReadingKeeps, EndingKeeps, FinishedKeeps DEF LocalStep
<1>3. CASE Tick \/ SiteChanges \/ UNCHANGED accessVars
  <2>1. UNCHANGED <<throttleVars, robots, heard, spent, req, blamed, ended>>
    BY <1>3 DEF Tick, SiteChanges, accessVars, localVars
  <2>2. now' \in Nat /\ file' \in [Origins -> Files]
    <3>1. now \in Nat /\ file \in [Origins -> Files]
      BY DEF AccessInv, AccessTypeOK
    <3>2. CASE Tick
      BY <3>1, <3>2 DEF Tick, localVars
    <3>3. CASE SiteChanges
      BY <3>1, <3>3 DEF SiteChanges
    <3>4. CASE UNCHANGED accessVars
      BY <3>1, <3>4 DEF accessVars, localVars
    <3> QED BY <1>3, <3>2, <3>3, <3>4
  <2>3. AccessTypeOK'
    BY <2>1, <2>2 DEF AccessInv, AccessTypeOK, throttleVars
  <2>4. ThrottleInv'
    BY <2>1 DEF AccessInv, throttleVars, ThrottleInv, ThrottleHeld, TriesCounted, SentBy, RequestsKeepApart
  <2>5. LocalInv'
    BY <2>1 DEF AccessInv, LocalInv, RowsHeard, RequestFunded, RobotsObeyed, TotalsHold
  <2> QED BY <2>3, <2>4, <2>5 DEF AccessInv
<1> QED BY <1>1, <1>2, <1>3 DEF AccessNext

----------------------------------------------------------------------------
(* The theorems. *)

\* What holds of the throttle, the robots rows and the run's totals is never lost, whichever
\* threads, sites and failures there are.
THEOREM AccessInvariant == AccessSpec => []AccessInv
<1> QED BY AccessBegins, AccessStep, PTL DEF AccessSpec

\* Provider requests keep their distance and their retries, and a local run its totals, for any
\* number of threads and pages and any interval and limits.
THEOREM LimitsKept == AccessSpec => []LimitsHold
<1>1. AccessInv => LimitsHold
  BY DEF AccessInv, ThrottleInv, LocalInv, LimitsHold
<1> QED BY <1>1, AccessInvariant, PTL

\* A page is asked for only under a robots file that allowed it and is not too old, however the
\* files of the sites change and however the rows age.
THEOREM RobotsKept == AccessSpec => []RobotsObeyed
<1>1. AccessInv => RobotsObeyed
  BY DEF AccessInv, LocalInv
<1> QED BY <1>1, AccessInvariant, PTL


-----------------------------------------------------------------------------
\* The records of image turns: analysis rows, routes, plans and the request being served
Statuses == {"running", "completed", "error", "timeout", "interrupted"}
Servers == {None, "ollama", "florence2", "ocr_only"}
Someone == Lookers \cup {None}
ImageRows ==
  [image : Images \cup {None}, question : Nat, status : Statuses, via : Servers, model : Someone,
   text : SUBSET Images, seen : SUBSET Images, shown : SUBSET Lookers, sent : {"unset", "yes", "no"},
   route : {None, "no_synthesis", "native_vision", "external_eyes_or_ocr"}]
Itineraries ==
  [native : BOOLEAN, mode : Modes, backend : Backends \cup {None}, eye : Someone, sees : Someone, via : Servers]
Plans == [text : BOOLEAN, eye : Lookers \cup {None, "nobody"}, viewers : SUBSET Lookers]
Looks ==
  [stage : {"perceive"}, first : BOOLEAN, question : Nat \ {0}, route : Itineraries, sent : {"unset", "yes", "no"}, plan : Plans]
Alone == [stage : {"perceive"}, question : {0}, plan : Plans]
Deciding ==
  [stage : {"decide", "answer"}, first : BOOLEAN, question : Nat \ {0}, route : Itineraries, sent : {"unset", "yes", "no"}]
ImageMessages == [role : {"user", "assistant"}, images : Seq(Images), of : Nat]

ImgTypeOK ==
  /\ messages \in Seq(ImageMessages) /\ active \in Seq(Images) /\ deleted \subseteq Images
  /\ runs \in Seq(ImageRows)
  /\ turn = NoTurn \/ turn \in Looks \/ turn \in Alone \/ turn \in Deciding
  /\ payload \in Seq(SUBSET Images)
  /\ Range(active) \cap deleted = {}

\* A turn has a row, which is not an answer's yet, and a question.
TurnHasRow ==
  turn # NoTurn =>
    /\ runs # <<>> /\ runs[Row].route = None
    /\ turn.question # 0 => \E i \in DOMAIN messages : messages[i].role = "user"

\* A row in the making says nothing yet; the plan shows the image to nobody but the model it names.
LooksBeforeItSees ==
  turn.stage = "perceive" =>
    /\ runs[Row].text = {} /\ runs[Row].seen = {} /\ runs[Row].shown = {} /\ runs[Row].image \in Images
    /\ turn.plan.viewers \subseteq {turn.plan.eye}
    /\ turn.question # 0 => payload = <<>>
    /\ turn.question # 0 /\ turn.sent = "unset" => turn.first
    /\ turn.question # 0 /\ turn.sent = "no" => ~turn.route.native /\ turn.plan.viewers = {}

\* What a turn will say of the request it sends is so already.
SaysWhatItSent ==
  turn.stage \in {"decide", "answer"} =>
    /\ turn.stage = "decide" => payload = <<>>
    /\ turn.sent = "unset" => turn.first /\ (runs[Row].status = "completed" /\ runs[Row].shown # {} => turn.route.native \/ runs[Row].model # None)
    /\ turn.sent = "no" => ~turn.route.native /\ runs[Row].shown = {}
    /\ turn.stage = "answer" =>
         /\ turn.first => runs[Row].status = "completed"
         /\ IF turn.route.native THEN "chat" \in runs[Row].shown ELSE HasEvidence(runs[Row])

ImgInv == ImgTypeOK /\ TurnHasRow /\ LooksBeforeItSees /\ SaysWhatItSent /\ RowsAreTrue /\ PayloadIsActive

-----------------------------------------------------------------------------
\* Images that are active, and those of a request

LEMMA WithoutIs ==
  ASSUME active \in Seq(Images), NEW images
  PROVE  Without(images) \in Seq(Images) /\ Range(Without(images)) = Range(active) \ images
<1> DEFINE T == {i \in DOMAIN active : active[i] \notin images}
           r == Only(active, T)
<1>1. KeptFrom(r, Images, active, T)
  BY OnlyItems
<1>2. r = Without(images)
  BY DEF Without
<1> HIDE DEF r
<1>3. DOMAIN active = 1..Len(active) /\ DOMAIN r = 1..Len(r) /\ r \in Seq(Images)
  BY <1>1 DEF KeptFrom
<1>4. \A x \in Range(r) : x \in Range(active) \ images
  BY <1>1, <1>3 DEF KeptFrom, Range
<1>5. \A x \in Range(active) \ images : x \in Range(r)
  BY <1>1, <1>3 DEF KeptFrom, Range
<1> QED BY <1>2, <1>3, <1>4, <1>5

\* The images of a request are one or two, in either order.
LEMMA OrderIs ==
  ASSUME NEW images, images \in {<<a>> : a \in Images} \cup {<<a, b>> : a, b \in Images}, NEW order \in {images, Reverse(images)}
  PROVE  images \in Seq(Images) /\ order \in Seq(Images) /\ Range(order) = Range(images) /\ images[1] \in Images /\ images # <<>>
<1>1. CASE \E a \in Images : images = <<a>>
  <2>1. PICK a \in Images : images = <<a>>
    BY <1>1
  <2>2. images \in Seq(Images) /\ Len(images) = 1 /\ images[1] = a
    BY <2>1
  <2>3. Reverse(images) = [i \in 1..1 |-> images[2 - i]]
    BY <2>2 DEF Reverse
  <2>4. \A i \in 1..1 : images[2 - i] = images[i]
    BY <2>2
  <2>5. Reverse(images) = images
    BY <2>2, <2>3, <2>4
  <2>6. order = images
    BY <2>5
  <2>7. images # <<>> /\ images[1] \in Images
    BY <2>2
  <2>8. Range(order) = Range(images) /\ order \in Seq(Images)
    BY <2>2, <2>6
  <2> QED BY <2>2, <2>7, <2>8
<1>2. CASE \E a, b \in Images : images = <<a, b>>
  <2>1. PICK a \in Images, b \in Images : images = <<a, b>>
    BY <1>2
  <2>2. images \in Seq(Images) /\ Len(images) = 2 /\ images[1] = a /\ images[2] = b
    BY <2>1
  <2>3. Range(images) = {a, b}
    BY <2>2 DEF Range
  <2>4. Reverse(images) = <<b, a>>
    <3>1. Reverse(images) = [i \in 1..2 |-> images[3 - i]]
      BY <2>2 DEF Reverse
    <3>2. \A i \in 1..2 : images[3 - i] = <<b, a>>[i]
      BY <2>2
    <3> QED BY <3>1, <3>2
  <2>5. Range(<<b, a>>) = {a, b} /\ <<b, a>> \in Seq(Images)
    BY DEF Range
  <2>6. order \in Seq(Images) /\ Range(order) = {a, b}
    <3>1. CASE order = images
      BY <2>2, <2>3, <3>1
    <3>2. CASE order = Reverse(images)
      BY <2>4, <2>5, <3>2
    <3> QED BY <3>1, <3>2
  <2> QED BY <2>2, <2>3, <2>6
<1> QED BY <1>1, <1>2

\* Each image of a request is with one message.
LEMMA AttachedIs ==
  ASSUME NEW ms \in Seq(ImageMessages), NEW images, images \in Seq(Images), \E i \in DOMAIN ms : ms[i].role = "user"
  PROVE  /\ Attached(ms, images) \in Seq(SUBSET Images) /\ UNION Range(Attached(ms, images)) = Range(images)
         /\ \A i, j \in DOMAIN Attached(ms, images) : i # j => Attached(ms, images)[i] \cap Attached(ms, images)[j] = {}
<1> DEFINE n == Len(ms)
           has(i) == IF ms[i].role = "user" THEN Range(ms[i].images) \cap Range(images) ELSE {}
           first(i) == has(i) \ UNION {has(j) : j \in 1..(i - 1)}
           asked == {i \in DOMAIN ms : ms[i].role = "user"}
           last == Max(asked)
           shared == UNION {has(j) : j \in DOMAIN ms}
           att == [i \in DOMAIN ms |-> first(i) \cup IF i = last THEN Range(images) \ shared ELSE {}]
<1>1. n \in Nat /\ DOMAIN ms = 1..n /\ Range(images) \subseteq Images
  BY DEF Range
<1>2. last \in 1..n
  <2>1. asked \in SUBSET (0..n) /\ asked # {} /\ asked \subseteq 1..n
    BY <1>1
  <2> HIDE DEF asked
  <2> QED BY <1>1, <2>1, MaxIs
<1>3. att = Attached(ms, images)
  BY DEF Attached
<1>4. \A i : has(i) \subseteq Range(images)
  OBVIOUS
<1>5. \A i \in 1..n : first(i) \subseteq has(i)
  OBVIOUS
<1>6. \A i, j \in 1..n : i < j => first(j) \cap has(i) = {}
  <2> SUFFICES ASSUME NEW i \in 1..n, NEW j \in 1..n, i < j PROVE first(j) \cap has(i) = {}
    OBVIOUS
  <2>1. i \in 1..(j - 1)
    OBVIOUS
  <2> HIDE DEF has
  <2> QED BY <2>1
<1>7. \A x \in shared : \E i \in 1..n : x \in first(i)
  <2> SUFFICES ASSUME NEW x \in shared PROVE \E i \in 1..n : x \in first(i)
    OBVIOUS
  <2> DEFINE Having == {i \in 1..n : x \in has(i)}
  <2>1. Having # {} /\ Having \in SUBSET Nat
    BY <1>1
  <2>2. \E m \in Having : \A i \in Having : m <= i
    <3> HIDE DEF Having
    <3> QED BY <2>1, LeastElement
  <2>3. PICK m \in Having : \A i \in Having : m <= i
    BY <2>2
  <2>4. \A j \in 1..(m - 1) : x \notin has(j)
    <3> SUFFICES ASSUME NEW j \in 1..(m - 1), x \in has(j) PROVE FALSE
      OBVIOUS
    <3>1. j \in Having /\ j < m
      BY <1>1
    <3> QED BY <2>3, <3>1
  <2> HIDE DEF has
  <2> QED BY <2>4
<1>8. \A i \in 1..n : att[i] = first(i) \cup IF i = last THEN Range(images) \ shared ELSE {}
  BY <1>1
<1>9. \A i \in 1..n : has(i) \subseteq shared
  BY <1>1
<1>10. DOMAIN att = 1..n /\ att \in Seq(SUBSET Images)
  <2>1. \A i \in 1..n : att[i] \subseteq Images
    BY <1>1, <1>4, <1>5, <1>8
  <2> QED BY <1>1, <2>1
<1>11. shared \subseteq Range(images)
  BY <1>1, <1>4
<1> HIDE DEF has, first, shared, last, att
<1>12. UNION Range(att) = Range(images)
  <2>1. \A x \in UNION Range(att) : x \in Range(images)
    BY <1>4, <1>5, <1>8, <1>10 DEF Range
  <2>2. ASSUME NEW x \in Range(images) PROVE \E i \in 1..n : x \in att[i]
    BY <1>2, <1>7, <1>8, <2>2
  <2> QED BY <1>10, <2>1, <2>2 DEF Range
<1>13. ASSUME NEW i \in 1..n, NEW j \in 1..n, i < j PROVE att[i] \cap att[j] = {}
  BY <1>5, <1>6, <1>8, <1>9, <1>13
<1>14. \A i, j \in 1..n : i # j => i < j \/ j < i
  BY <1>1
<1>15. \A i, j \in 1..n : i # j => att[i] \cap att[j] = {}
  BY <1>13, <1>14
<1> QED BY <1>3, <1>10, <1>12, <1>15

-----------------------------------------------------------------------------
\* Rows

\* What a row says is of its image, and rests on a look at it up to then.
RowTrue(rs, i) ==
  /\ rs[i].text \cup rs[i].seen \subseteq {rs[i].image}
  /\ rs[i].seen # {} => \E j \in 1..i : rs[j].image = rs[i].image /\ rs[j].shown # {}
  /\ rs[i].route \in {"native_vision", "external_eyes_or_ocr"} =>
       /\ HasEvidence(rs[i]) \/ "chat" \in rs[i].shown
       /\ rs[i].shown # {} => rs[i].sent = "yes"

LEMMA RowsTrueEach == RowsAreTrue <=> \A i \in DOMAIN runs : RowTrue(runs, i)
  BY DEF RowsAreTrue, EvidenceIsOfItsImage, AnswersAreGrounded, RowTrue

LEMMA NewRunIs ==
  ASSUME NEW image \in Images \cup {None}, NEW question \in Nat
  PROVE  /\ NewRun(image, question) \in ImageRows /\ NewRun(image, question).image = image /\ NewRun(image, question).route = None
         /\ NewRun(image, question).text = {} /\ NewRun(image, question).seen = {} /\ NewRun(image, question).shown = {}
         /\ NewRun(image, question).model = None /\ NewRun(image, question).status = "running"
  BY DEF NewRun, ImageRows, Statuses, Servers, Someone

LEMMA RowAdded ==
  ASSUME runs \in Seq(ImageRows), RowsAreTrue, NEW r \in ImageRows, runs' = Append(runs, r), r.route = None,
         r.text \cup r.seen \subseteq {r.image}, r.seen # {} => \E j \in DOMAIN runs : runs[j].image = r.image /\ runs[j].shown # {}
  PROVE  runs' \in Seq(ImageRows) /\ RowsAreTrue' /\ runs' # <<>> /\ runs'[Len(runs')] = r
<1> DEFINE n == Len(runs)
<1>1. /\ n \in Nat /\ DOMAIN runs = 1..n /\ DOMAIN runs' = 1..(n + 1) /\ runs' \in Seq(ImageRows) /\ Len(runs') = n + 1
      /\ runs'[n + 1] = r /\ \A i \in 1..n : runs'[i] = runs[i]
  OBVIOUS
<1> HIDE DEF n
<1>2. ASSUME NEW i \in 1..n PROVE RowTrue(runs', i)
  <2>1. RowTrue(runs, i)
    BY <1>1, RowsTrueEach
  <2>2. \A j \in 1..i : j \in 1..n
    BY <1>1
  <2> QED BY <1>1, <2>1, <2>2 DEF RowTrue
<1>3. RowTrue(runs', n + 1)
  <2>1. \A j \in 1..n : j \in 1..(n + 1)
    BY <1>1
  <2> QED BY <1>1, <2>1 DEF RowTrue, None
<1>4. \A i \in 1..(n + 1) : i \in 1..n \/ i = n + 1
  BY <1>1
<1>5. \A i \in DOMAIN runs' : RowTrue(runs', i)
  BY <1>1, <1>2, <1>3, <1>4
<1>6. RowsAreTrue'
  BY <1>5 DEF RowsAreTrue, EvidenceIsOfItsImage, AnswersAreGrounded, RowTrue
<1> QED BY <1>1, <1>6

LEMMA RowChanged ==
  ASSUME runs \in Seq(ImageRows), RowsAreTrue, NEW n, n = Len(runs), runs # <<>>, NEW r \in ImageRows, runs' = [runs EXCEPT ![n] = r],
         r.image = runs[n].image,
         r.text \cup r.seen \subseteq {r.image}, r.seen = {} \/ r.shown # {} \/ (r.seen = runs[n].seen /\ r.shown = runs[n].shown),
         r.route \in {"native_vision", "external_eyes_or_ocr"} => (HasEvidence(r) \/ "chat" \in r.shown) /\ (r.shown # {} => r.sent = "yes")
  PROVE  runs' \in Seq(ImageRows) /\ RowsAreTrue' /\ Len(runs') = n /\ runs' # <<>> /\ runs'[n] = r
<1>1. /\ n \in Nat \ {0} /\ n \in 1..n /\ DOMAIN runs = 1..n /\ DOMAIN runs' = 1..n /\ runs' \in Seq(ImageRows) /\ Len(runs') = n
      /\ runs'[n] = r /\ \A i \in 1..n : i # n => runs'[i] = runs[i]
  OBVIOUS
<1>2. ASSUME NEW i \in 1..n, i # n PROVE RowTrue(runs', i)
  <2>1. RowTrue(runs, i)
    BY <1>1, RowsTrueEach
  <2>2. \A j \in 1..i : j \in 1..n /\ j # n
    BY <1>1, <1>2
  <2> QED BY <1>1, <1>2, <2>1, <2>2 DEF RowTrue
<1>3. RowTrue(runs', n)
  <2>1. RowTrue(runs, n)
    BY <1>1, RowsTrueEach
  <2>2. r.seen # {} => \E j \in 1..n : runs'[j].image = r.image /\ runs'[j].shown # {}
    <3>1. CASE r.shown # {}
      BY <1>1, <3>1
    <3>2. CASE r.seen = runs[n].seen /\ r.shown = runs[n].shown /\ r.seen # {}
      <4>1. PICK j \in 1..n : runs[j].image = runs[n].image /\ runs[j].shown # {}
        BY <2>1, <3>2 DEF RowTrue
      <4> QED BY <1>1, <3>2, <4>1
    <3> QED BY <3>1, <3>2
  <2> QED BY <1>1, <2>2 DEF RowTrue
<1>4. \A i \in DOMAIN runs' : RowTrue(runs', i)
  BY <1>1, <1>2, <1>3
<1>5. RowsAreTrue'
  BY <1>4 DEF RowsAreTrue, EvidenceIsOfItsImage, AnswersAreGrounded, RowTrue
<1> QED BY <1>1, <1>5

-----------------------------------------------------------------------------
\* Routes and plans

LEMMA PlanIs ==
  ASSUME NEW can \in SUBSET Lookers, NEW how, NEW model \in Someone, NEW backend, NEW p, p = Perceiving(Plan(how, model, backend, can), can)
  PROVE  p \in Plans /\ p.viewers \subseteq {p.eye} /\ (how = "ocr_only" => p.viewers = {})
<1> DEFINE q == Plan(how, model, backend, can)
<1>1. q.text \in BOOLEAN /\ q.eye \in Lookers \cup {None, "nobody"} /\ (how = "ocr_only" => q.eye = None)
  BY DEF Plan, Someone, Lookers
<1>2. p = [text |-> q.text, eye |-> q.eye, viewers |-> {q.eye} \cap can]
  BY DEF Perceiving, Viewers
<1> HIDE DEF q
<1>3. None \notin can
  BY DEF Lookers, None
<1> QED BY <1>1, <1>2, <1>3 DEF Plans

LEMMA RoutePlan ==
  ASSUME NEW can \in SUBSET Lookers, NEW route \in Itineraries,
         NEW p, p = Perceiving(Plan(route.mode, route.eye, route.backend, can), can)
  PROVE  p \in Plans /\ p.viewers \subseteq {p.eye}
<1>1. route.eye \in Someone
  BY DEF Itineraries
<1> QED BY <1>1, PlanIs

LEMMA ResolveIs ==
  ASSUME NEW how \in Modes, NEW backend \in Backends, NEW asked \in {None, "eye"}, NEW can \in SUBSET Lookers
  PROVE  Resolve(how, backend, asked, can) \in Itineraries
<1> DEFINE liked == Preference(how, backend, asked)
           T == {i \in DOMAIN liked : liked[i] \in can}
           fit == Only(liked, T)
<1>1. liked \in Seq(Someone)
  <2>1. "chat" \in Someone /\ "florence" \in Someone /\ asked \in Someone
    BY DEF Someone, Lookers
  <2>2. <<"chat", asked>> \in Seq(Someone) /\ <<"chat", asked, "florence">> \in Seq(Someone) /\ <<asked, "chat", "florence">> \in Seq(Someone)
    BY <2>1
  <2> QED BY <2>2 DEF Preference
<1>2. KeptFrom(fit, Someone, liked, T)
  <2> HIDE DEF liked, T
  <2> QED BY <1>1, OnlyItems DEF fit
<1>3. fit \in Seq(Someone)
  BY <1>2 DEF KeptFrom
<1> HIDE DEF fit
<1>4. fit # <<>> => fit[1] \in Someone
  BY <1>3
<1>5. TextRoute \in Itineraries /\ NativeRoute \in Itineraries
  BY DEF TextRoute, NativeRoute, Itineraries, Modes, Backends, Someone, Lookers, Servers, None
<1>6. \A m \in Someone : LookRoute(how, m) \in Itineraries
  BY DEF LookRoute, BackendOf, Itineraries, Modes, Backends, Someone, Lookers, Servers, None
<1>7. "florence" \in Someone
  BY DEF Someone, Lookers
<1>8. Resolve(how, backend, asked, can) \in {TextRoute, NativeRoute, LookRoute(how, "florence")}
      \/ (fit # <<>> /\ Resolve(how, backend, asked, can) = LookRoute(how, fit[1]))
  BY DEF Resolve, fit
<1> QED BY <1>4, <1>5, <1>6, <1>7, <1>8

LEMMA ContextIs ==
  ASSUME NEW route \in Itineraries, NEW previous \in ImageRows, NEW context, context = ContextRoute(route, previous)
  PROVE  context \in Itineraries
<1>1. "combined" \in Modes /\ previous.model \in Someone /\ previous.via \in Backends \cup {None} /\ previous.via \in Servers
  BY DEF Modes, ImageRows, Servers, Backends
<1> QED BY <1>1 DEF ContextRoute, Itineraries

LEMMA NeedsAre ==
  ASSUME NEW context \in Itineraries, NEW previous \in ImageRows, NEW visual \in BOOLEAN, NEW asked \in {None, "eye"},
         NEW needs, needs = Needs(context, previous, visual, asked)
  PROVE  needs.action = "reuse" \/ (needs.model \in Someone /\ needs.mode \in {"combined", "ocr_only"} /\ ~context.native)
<1>1. context.eye \in Someone /\ previous.model \in Someone /\ asked \in Someone /\ context.native \in BOOLEAN
  BY DEF Itineraries, ImageRows, Someone, Lookers
<1> QED BY <1>1 DEF Needs

-----------------------------------------------------------------------------
\* The turn

LEMMA TurnIs ==
  ASSUME ImgTypeOK
  PROVE  /\ turn.stage = "perceive" => turn \in Looks \/ turn \in Alone
         /\ turn.stage \in {"decide", "answer"} => turn \in Deciding
         /\ turn # NoTurn <=> turn.stage # None
         /\ turn # NoTurn => turn.stage \in {"perceive", "decide", "answer"}
         /\ turn \in Alone => turn.question = 0
         /\ turn \in Looks \/ turn \in Deciding => turn.question # 0
  BY DEF ImgTypeOK, Looks, Alone, Deciding, NoTurn, None

LEMMA MessagesAre ==
  /\ \A images \in Seq(Images) : Question(images) \in ImageMessages /\ Question(images).role = "user"
  /\ \A q \in Nat : Answer(q) \in ImageMessages
  BY DEF Question, Answer, ImageMessages

\* A message more
LEMMA MessageAdded ==
  ASSUME messages \in Seq(ImageMessages), NEW m \in ImageMessages, messages' = Append(messages, m)
  PROVE  /\ messages' \in Seq(ImageMessages) /\ Len(messages') \in Nat \ {0} /\ Len(messages') = Len(messages) + 1
         /\ m.role = "user" \/ (\E i \in DOMAIN messages : messages[i].role = "user") => \E i \in DOMAIN messages' : messages'[i].role = "user"
<1> DEFINE n == Len(messages)
<1>1. /\ n \in Nat /\ DOMAIN messages = 1..n /\ DOMAIN messages' = 1..(n + 1) /\ messages' \in Seq(ImageMessages) /\ Len(messages') = n + 1
      /\ messages'[n + 1] = m /\ \A i \in 1..n : messages'[i] = messages[i]
  OBVIOUS
<1> HIDE DEF n
<1>2. n + 1 \in 1..(n + 1) /\ \A i \in 1..n : i \in 1..(n + 1)
  BY <1>1
<1> QED BY <1>1, <1>2 DEF n

\* A turn that begins with a look at the image
LEMMA LookBegins ==
  ASSUME ImgInv, NEW image \in Images, NEW question \in Nat, runs' = Append(runs, NewRun(image, question)),
         messages' \in Seq(ImageMessages), active' \in Seq(Images), deleted' = deleted, Range(active') \cap deleted = {},
         payload' = <<>> \/ (payload' = payload /\ turn'.question = 0),
         turn' \in Looks \/ turn' \in Alone, turn'.plan.viewers \subseteq {turn'.plan.eye},
         turn'.question # 0 => /\ \E i \in DOMAIN messages' : messages'[i].role = "user"
                               /\ turn'.sent = "unset" => turn'.first
                               /\ turn'.sent = "no" => ~turn'.route.native /\ turn'.plan.viewers = {}
  PROVE  ImgInv'
<1> DEFINE r == NewRun(image, question)
<1>1. /\ r \in ImageRows /\ r.image = image /\ r.route = None /\ r.text = {} /\ r.seen = {} /\ r.shown = {}
  BY NewRunIs
<1> HIDE DEF r
<1>2. runs' \in Seq(ImageRows) /\ RowsAreTrue' /\ runs' # <<>> /\ runs'[Len(runs')] = r
  BY <1>1, RowAdded DEF ImgInv, ImgTypeOK, r
<1>3. turn'.stage = "perceive"
  BY DEF Looks, Alone
<1>4. ImgTypeOK'
  <2>1. payload' \in Seq(SUBSET Images)
    <3>1. <<>> \in Seq(SUBSET Images) /\ payload \in Seq(SUBSET Images)
      BY DEF ImgInv, ImgTypeOK
    <3> QED BY <3>1
  <2> QED BY <1>2, <2>1 DEF ImgInv, ImgTypeOK
<1>5. TurnHasRow' /\ LooksBeforeItSees'
  BY <1>1, <1>2, <1>3 DEF TurnHasRow, LooksBeforeItSees, Row
<1>6. SaysWhatItSent' /\ PayloadIsActive'
  BY <1>3 DEF SaysWhatItSent, PayloadIsActive
<1> QED BY <1>2, <1>4, <1>5, <1>6 DEF ImgInv

\* A turn that is over
LEMMA Rests ==
  ASSUME messages' \in Seq(ImageMessages), active' \in Seq(Images), deleted' \subseteq Images, runs' \in Seq(ImageRows),
         payload' \in Seq(SUBSET Images), Range(active') \cap deleted' = {}, RowsAreTrue', turn' = NoTurn
  PROVE  ImgInv'
<1>1. turn'.stage = None
  BY DEF NoTurn
<1> QED BY <1>1 DEF ImgInv, ImgTypeOK, TurnHasRow, LooksBeforeItSees, SaysWhatItSent, PayloadIsActive, None

\* A look at the image is over; what came of it is of the image, and the plan's model was shown it.
LEMMA LookEnds ==
  ASSUME ImgInv, turn.stage = "perceive", UNCHANGED <<messages, active, deleted, payload>>, turn' = AfterPerceiving,
         NEW r \in ImageRows, runs' = [runs EXCEPT ![Row] = r], r.image = runs[Row].image, r.route = runs[Row].route,
         r.text \cup r.seen \subseteq {r.image}, r.seen = {} \/ r.shown # {}, r.shown \subseteq turn.plan.viewers,
         r.status = "completed" => r.model = turn.plan.eye
  PROVE  ImgInv'
<1>1. /\ messages' \in Seq(ImageMessages) /\ active' \in Seq(Images) /\ deleted' \subseteq Images
      /\ payload' \in Seq(SUBSET Images) /\ Range(active') \cap deleted' = {} /\ runs \in Seq(ImageRows) /\ RowsAreTrue
  BY DEF ImgInv, ImgTypeOK
<1>2. /\ runs # <<>> /\ runs[Row].route = None /\ turn.plan.viewers \subseteq {turn.plan.eye} /\ turn # NoTurn
      /\ (turn.question # 0 => payload = <<>> /\ \E i \in DOMAIN messages : messages[i].role = "user")
      /\ (turn.question # 0 /\ turn.sent = "unset" => turn.first)
      /\ (turn.question # 0 /\ turn.sent = "no" => ~turn.route.native /\ turn.plan.viewers = {})
  BY TurnIs DEF ImgInv, TurnHasRow, LooksBeforeItSees, NoTurn, None
<1>3. runs' \in Seq(ImageRows) /\ RowsAreTrue' /\ Len(runs') = Row /\ runs' # <<>> /\ runs'[Row] = r
  <2>1. r.route \notin {"native_vision", "external_eyes_or_ocr"}
    BY <1>2 DEF None
  <2> QED BY <1>1, <1>2, <2>1, RowChanged DEF Row
<1>4. CASE turn.question = 0
  BY <1>1, <1>3, <1>4, Rests DEF AfterPerceiving
<1>5. CASE turn.question # 0
  <2>1. turn \in Looks
    BY <1>5, TurnIs DEF ImgInv
  <2>2. /\ turn' \in Deciding /\ turn'.stage = "decide" /\ turn'.first = turn.first /\ turn'.sent = turn.sent /\ turn'.route = turn.route
        /\ turn'.question # 0
    BY <1>5, <2>1 DEF AfterPerceiving, Looks, Deciding
  <2>3. r.status = "completed" /\ r.shown # {} => r.model # None
    <3>1. turn.plan.viewers \subseteq Lookers /\ None \notin Lookers
      BY <2>1 DEF Looks, Plans, Lookers, None
    <3> QED BY <1>2, <3>1
  <2>4. ImgTypeOK'
    BY <1>1, <1>3, <2>2 DEF ImgTypeOK
  <2>5. TurnHasRow' /\ LooksBeforeItSees' /\ PayloadIsActive'
    BY <1>2, <1>3, <1>5, <2>2 DEF TurnHasRow, LooksBeforeItSees, PayloadIsActive, Row
  <2>6. SaysWhatItSent'
    BY <1>2, <1>3, <1>5, <2>2, <2>3 DEF SaysWhatItSent, Row
  <2> QED BY <1>3, <2>4, <2>5, <2>6 DEF ImgInv
<1> QED BY <1>4, <1>5

LEMMA LookKept ==
  ASSUME ImgInv, Perceive \/ PerceiveFails
  PROVE  ImgInv'
<1> DEFINE old == runs[Row]
<1>0. turn.stage = "perceive" /\ runs \in Seq(ImageRows) /\ runs # <<>> /\ turn \in Looks \cup Alone
  BY TurnIs DEF Perceive, PerceiveFails, ImgInv, ImgTypeOK, TurnHasRow, NoTurn, None
<1>1. /\ old \in ImageRows /\ Row \in DOMAIN runs /\ old.text = {} /\ old.seen = {} /\ old.shown = {} /\ old.image \in Images
      /\ turn.plan \in Plans /\ turn.plan.viewers \subseteq {turn.plan.eye}
  <2>1. Row \in 1..Len(runs)
    BY <1>0 DEF Row
  <2> QED BY <1>0, <2>1 DEF ImgInv, LooksBeforeItSees, Looks, Alone
<1>2. UNCHANGED <<messages, active, deleted, payload>> /\ turn' = AfterPerceiving
  BY DEF Perceive, PerceiveFails
<1> HIDE DEF old
<1>3. CASE Perceive
  <2>1. PICK text \in {{}, {old.image}}, seen \in {{}, {old.image}} :
          /\ turn.plan.eye # None \/ seen = {}
          /\ runs' = [runs EXCEPT ![Row].status = "completed", ![Row].text = text, ![Row].seen = seen,
                                  ![Row].shown = turn.plan.viewers, ![Row].model = turn.plan.eye,
                                  ![Row].via = IF turn.plan.eye = None THEN "ocr_only" ELSE BackendOf(turn.plan.eye)]
    BY <1>3 DEF Perceive, old
  <2> DEFINE via == IF turn.plan.eye = None THEN "ocr_only" ELSE BackendOf(turn.plan.eye)
             r == [old EXCEPT !.status = "completed", !.text = text, !.seen = seen, !.shown = turn.plan.viewers,
                              !.model = turn.plan.eye, !.via = via]
  <2>2. runs' = [runs EXCEPT ![Row] = r]
    BY <1>1, <2>1 DEF old
  <2>3. via \in Servers
    BY DEF Servers, BackendOf
  <2>4. turn.plan.eye # None => turn.plan.viewers # {}
    BY <1>3 DEF Perceive
  <2>5. turn.plan.eye \in Someone /\ turn.plan.viewers \subseteq Lookers
    BY <1>1, <2>4 DEF Plans, Someone
  <2>6. text \subseteq Images /\ seen \subseteq Images /\ text \cup seen \subseteq {old.image}
    BY <1>1
  <2> HIDE DEF via
  <2>7. r \in ImageRows
    BY <1>1, <2>3, <2>5, <2>6 DEF ImageRows, Statuses
  <2>8. /\ r.image = old.image /\ r.route = old.route /\ r.text = text /\ r.seen = seen /\ r.shown = turn.plan.viewers
        /\ r.model = turn.plan.eye
    BY <1>1 DEF ImageRows
  <2>9. r.seen = {} \/ r.shown # {}
    BY <2>1, <2>4, <2>8
  <2> HIDE DEF r
  <2> QED BY <1>0, <1>2, <2>2, <2>6, <2>7, <2>8, <2>9, LookEnds DEF old
<1>4. CASE PerceiveFails
  <2>1. PICK status \in {"error", "timeout"}, shown \in {{}, turn.plan.viewers} :
          runs' = [runs EXCEPT ![Row].status = status, ![Row].shown = shown]
    BY <1>4 DEF PerceiveFails
  <2> DEFINE r == [old EXCEPT !.status = status, !.shown = shown]
  <2>2. runs' = [runs EXCEPT ![Row] = r]
    BY <1>1, <2>1 DEF old
  <2>3. shown \subseteq Lookers /\ shown \subseteq turn.plan.viewers
    BY <1>1 DEF Plans
  <2>4. r \in ImageRows
    BY <1>1, <2>3 DEF ImageRows, Statuses
  <2>5. r.image = old.image /\ r.route = old.route /\ r.text = {} /\ r.seen = {} /\ r.shown = shown /\ r.status # "completed"
    BY <1>1 DEF ImageRows
  <2> HIDE DEF r
  <2> QED BY <1>0, <1>2, <2>2, <2>3, <2>4, <2>5, LookEnds DEF old
<1> QED BY <1>3, <1>4

\* The row that latest_completed_analysis finds is one of the image, or says nothing.
LEMMA LatestIs ==
  ASSUME runs \in Seq(ImageRows), RowsAreTrue, NEW image \in Images, NEW p, p = Latest(runs, image)
  PROVE  /\ p \in ImageRows /\ p.text \cup p.seen \subseteq {image}
         /\ p.seen # {} => \E j \in DOMAIN runs : runs[j].image = image /\ runs[j].shown # {}
<1> DEFINE done == Completed(runs, image)
           n == Len(runs)
<1>1. n \in Nat /\ DOMAIN runs = 1..n /\ (\A i \in 1..n : RowTrue(runs, i)) /\ \A i \in 1..n : runs[i] \in ImageRows
  BY RowsTrueEach
<1>2. CASE done = {}
  <2>1. p = NewRun(None, 0)
    BY <1>2 DEF Latest
  <2>2. None \in Images \cup {None} /\ 0 \in Nat
    OBVIOUS
  <2>3. p \in ImageRows /\ p.text = {} /\ p.seen = {}
    BY <2>1, <2>2, NewRunIs
  <2> QED BY <2>3
<1>3. CASE done # {}
  <2>1. p = runs[Max(done)]
    BY <1>3 DEF Latest
  <2>2. done \in SUBSET (0..n) /\ \A i \in done : i \in 1..n /\ runs[i].image = image
    BY <1>1 DEF Completed
  <2> HIDE DEF done
  <2>3. Max(done) \in done
    BY <1>1, <1>3, <2>2, MaxIs
  <2>4. PICK m \in 1..n : m = Max(done) /\ runs[m].image = image
    BY <2>2, <2>3
  <2>5. RowTrue(runs, m) /\ \A j \in 1..m : j \in 1..n
    BY <1>1
  <2> QED BY <1>1, <2>1, <2>4, <2>5 DEF RowTrue
<1> QED BY <1>2, <1>3

LEMMA SendImagesKept ==
  ASSUME ImgInv, SendImages
  PROVE  ImgInv'
<1>1. PICK images \in {<<a>> : a \in Images} \cup {<<a, b>> : a, b \in Images}, can \in SUBSET Lookers :
        /\ Range(images) \cap deleted = {}
        /\ \E route \in Routes(can), order \in {images, Reverse(images)} : SendWith(images, order, route, can)
  BY DEF SendImages
<1>2. PICK route \in Routes(can), order \in {images, Reverse(images)} : SendWith(images, order, route, can)
  BY <1>1
<1>3. images \in Seq(Images) /\ order \in Seq(Images) /\ Range(order) = Range(images) /\ images[1] \in Images
  BY <1>1, <1>2, OrderIs
<1>4. messages \in Seq(ImageMessages) /\ active \in Seq(Images) /\ Range(active) \cap deleted = {}
  BY DEF ImgInv, ImgTypeOK
<1>5. /\ messages' \in Seq(ImageMessages) /\ Len(messages') \in Nat \ {0}
      /\ \E i \in DOMAIN messages' : messages'[i].role = "user"
  <2>1. Question(images) \in ImageMessages /\ Question(images).role = "user"
    BY <1>3, MessagesAre
  <2>2. messages' = Append(messages, Question(images))
    BY <1>2 DEF SendWith
  <2> QED BY <1>4, <2>1, <2>2, MessageAdded
<1>6. active' \in Seq(Images) /\ Range(active') \cap deleted = {}
  <2> DEFINE kept == Without(Range(images))
  <2>1. kept \in Seq(Images) /\ Range(kept) = Range(active) \ Range(images)
    BY <1>4, WithoutIs
  <2>2. active' = kept \o order
    BY <1>2 DEF SendWith, Added
  <2> HIDE DEF kept
  <2>3. active' \in Seq(Images) /\ Range(active') \subseteq Range(kept) \cup Range(order)
    BY <1>3, <2>1, <2>2 DEF Range
  <2> QED BY <1>1, <1>3, <1>4, <2>1, <2>3
<1>7. route \in Itineraries
  BY <1>1, <1>2, ResolveIs DEF Routes
<1>8. PICK p : p = Perceiving(Plan(route.mode, route.eye, route.backend, can), can)
  OBVIOUS
<1>9. p \in Plans /\ p.viewers \subseteq {p.eye}
  BY <1>1, <1>7, <1>8, RoutePlan
<1>10. /\ turn' \in Looks /\ turn'.plan = p /\ turn'.first /\ turn'.sent = "unset"
  BY <1>2, <1>5, <1>7, <1>8, <1>9 DEF Looks, SendWith
<1>11. payload' = <<>> /\ deleted' = deleted
  BY DEF SendImages
<1>12. PICK question \in Nat : question = Len(messages') /\ question # 0
  BY <1>5
<1>13. runs' = Append(runs, NewRun(images[1], question))
  BY <1>2, <1>12 DEF SendWith
<1> QED BY <1>3, <1>5, <1>6, <1>9, <1>10, <1>11, <1>13, LookBegins

LEMMA AnalyzeAloneKept ==
  ASSUME ImgInv, AnalyzeAlone
  PROVE  ImgInv'
<1>1. PICK a \in Images \ deleted, can \in SUBSET Lookers, model \in {None, "eye"}, how \in Modes, backend \in Backends :
        /\ runs' = Append(runs, NewRun(a, 0))
        /\ turn' = [stage |-> "perceive", question |-> 0, plan |-> Perceiving(Plan(how, model, backend, can), can)]
  BY DEF AnalyzeAlone
<1>2. PICK p : p = Perceiving(Plan(how, model, backend, can), can)
  OBVIOUS
<1>3. p \in Plans /\ p.viewers \subseteq {p.eye}
  <2>1. model \in Someone
    BY DEF Someone, Lookers
  <2> QED BY <1>1, <1>2, <2>1, PlanIs
<1>4. turn' \in Alone /\ turn'.plan = p /\ turn'.question = 0
  BY <1>1, <1>2, <1>3 DEF Alone
<1>5. UNCHANGED <<messages, active, deleted, payload>>
  BY DEF AnalyzeAlone
<1>6. messages' \in Seq(ImageMessages) /\ active' \in Seq(Images) /\ Range(active') \cap deleted = {}
  BY <1>5 DEF ImgInv, ImgTypeOK
<1> QED BY <1>1, <1>3, <1>4, <1>5, <1>6, LookBegins

LEMMA AskOnKept ==
  ASSUME ImgInv, AskOn
  PROVE  ImgInv'
<1>1. PICK can \in SUBSET Lookers, asked \in {None, "eye"}, visual \in BOOLEAN, m \in Modes, b \in Backends :
        LET previous == Latest(runs, active[1])
            context == ContextRoute(Resolve(m, b, asked, can), previous)
        IN AskFrom(previous, context, Needs(context, previous, visual, asked), can)
  BY DEF AskOn
<1>2. PICK route : route = Resolve(m, b, asked, can)
  OBVIOUS
<1>3. PICK image, question : image = active[1] /\ question = Len(messages')
  OBVIOUS
<1>4. PICK previous : previous = Latest(runs, image)
  OBVIOUS
<1>5. PICK context : context = ContextRoute(route, previous)
  OBVIOUS
<1>6. PICK needs : needs = Needs(context, previous, visual, asked)
  OBVIOUS
<1>61. AskFrom(previous, context, needs, can)
  BY <1>1, <1>2, <1>3, <1>4, <1>5, <1>6
<1>7. PICK row : row = NewRun(image, question)
  OBVIOUS
<1> DEFINE model == IF previous.model # None THEN previous.model ELSE context.sees
           via == IF previous.via # None THEN previous.via ELSE context.via
           r == [row EXCEPT !.status = "completed", !.text = previous.text, !.seen = previous.seen, !.model = model, !.via = via]
           Reused ==
             /\ runs' = Append(runs, r)
             /\ turn' = [stage |-> "decide", first |-> FALSE, question |-> Len(messages'), route |-> context,
                         sent |-> IF context.native THEN "yes" ELSE "no"]
           Again ==
             /\ runs' = Append(runs, row)
             /\ turn' = [stage |-> "perceive", first |-> FALSE, question |-> Len(messages'), route |-> context,
                         sent |-> IF needs.mode = "combined" THEN "yes" ELSE "no",
                         plan |-> Perceiving(Plan(needs.mode, needs.model, needs.backend, can), can)]
<1>8. messages' = Append(messages, Question(<<>>)) /\ IF needs.action = "reuse" THEN Reused ELSE Again
  BY <1>3, <1>61, <1>7 DEF AskFrom
<1>9. active # <<>> /\ payload' = <<>> /\ UNCHANGED <<active, deleted>>
  BY DEF AskOn
<1>10. messages \in Seq(ImageMessages) /\ active \in Seq(Images) /\ Range(active) \cap deleted = {} /\ runs \in Seq(ImageRows) /\ RowsAreTrue
       /\ deleted \subseteq Images
  BY DEF ImgInv, ImgTypeOK
<1>11. image \in Images
  BY <1>3, <1>9, <1>10
<1>12. /\ messages' \in Seq(ImageMessages) /\ Len(messages') \in Nat \ {0} /\ question \in Nat
       /\ \E i \in DOMAIN messages' : messages'[i].role = "user"
  <2>1. Question(<<>>) \in ImageMessages /\ Question(<<>>).role = "user"
    <3>1. <<>> \in Seq(Images)
      OBVIOUS
    <3>2. Question(<<>>).role = "user"
      BY DEF Question
    <3> QED BY <3>1, <3>2, MessagesAre
  <2> QED BY <1>3, <1>8, <1>10, <2>1, MessageAdded
<1>13. /\ previous \in ImageRows /\ previous.text \cup previous.seen \subseteq {image}
       /\ previous.seen # {} => \E j \in DOMAIN runs : runs[j].image = image /\ runs[j].shown # {}
  BY <1>4, <1>10, <1>11, LatestIs
<1>14. context \in Itineraries
  <2>1. route \in Itineraries
    BY <1>1, <1>2, ResolveIs
  <2> QED BY <1>5, <1>13, <2>1, ContextIs
<1>15. /\ row \in ImageRows /\ row.image = image /\ row.route = None /\ row.shown = {}
  BY <1>7, <1>11, <1>12, NewRunIs
<1>16. CASE needs.action = "reuse"
  <2>1. Reused
    BY <1>8, <1>16
  <2>2. model \in Someone /\ via \in Servers
    BY <1>13, <1>14 DEF ImageRows, Itineraries
  <2> HIDE DEF model, via
  <2>20. previous.text \in SUBSET Images /\ previous.seen \in SUBSET Images
    BY <1>13 DEF ImageRows
  <2>21. PICK txt, sn : txt = previous.text /\ sn = previous.seen
    OBVIOUS
  <2>22. r = [row EXCEPT !.status = "completed", !.text = txt, !.seen = sn, !.model = model, !.via = via]
    BY <2>21
  <2>23. txt \in SUBSET Images /\ sn \in SUBSET Images
    BY <2>20, <2>21
  <2> HIDE DEF r
  <2>24. r \in ImageRows /\ r.image = row.image /\ r.route = row.route /\ r.shown = row.shown /\ r.text = txt /\ r.seen = sn
    BY <1>15, <2>2, <2>22, <2>23 DEF ImageRows, Statuses
  <2>3. /\ r \in ImageRows /\ r.image = image /\ r.route = None /\ r.shown = {} /\ r.text = previous.text /\ r.seen = previous.seen
    BY <1>15, <2>21, <2>24
  <2>4. runs' = Append(runs, r)
    BY <2>1
  <2>5. runs' \in Seq(ImageRows) /\ RowsAreTrue' /\ runs' # <<>> /\ runs'[Len(runs')] = r
    BY <1>10, <1>13, <2>3, <2>4, RowAdded
  <2>6. /\ turn' \in Deciding /\ turn'.stage = "decide" /\ turn'.question # 0 /\ turn'.sent # "unset"
        /\ turn'.sent = "no" => ~turn'.route.native
    BY <1>12, <1>14, <2>1 DEF Deciding
  <2>7. ImgTypeOK'
    <3>1. <<>> \in Seq(SUBSET Images)
      OBVIOUS
    <3> QED BY <1>9, <1>10, <1>12, <2>5, <2>6, <3>1 DEF ImgTypeOK
  <2>8. TurnHasRow' /\ LooksBeforeItSees' /\ PayloadIsActive'
    BY <1>12, <2>3, <2>5, <2>6 DEF TurnHasRow, LooksBeforeItSees, PayloadIsActive, Row
  <2>9. SaysWhatItSent'
    BY <1>9, <2>3, <2>5, <2>6 DEF SaysWhatItSent, Row
  <2> QED BY <2>5, <2>7, <2>8, <2>9 DEF ImgInv
<1>17. CASE needs.action # "reuse"
  <2>1. Again
    BY <1>8, <1>17
  <2>2. needs.model \in Someone /\ needs.mode \in {"combined", "ocr_only"} /\ ~context.native
    BY <1>1, <1>6, <1>13, <1>14, <1>17, NeedsAre
  <2>3. PICK p : p = Perceiving(Plan(needs.mode, needs.model, needs.backend, can), can)
    OBVIOUS
  <2>4. p \in Plans /\ p.viewers \subseteq {p.eye} /\ (needs.mode = "ocr_only" => p.viewers = {})
    BY <1>1, <2>2, <2>3, PlanIs
  <2>5. /\ turn' \in Looks /\ turn'.plan = p /\ turn'.sent # "unset" /\ turn'.route = context
        /\ turn'.sent = "no" => p.viewers = {}
    BY <1>12, <1>14, <2>1, <2>2, <2>3, <2>4 DEF Looks
  <2>6. active' \in Seq(Images) /\ Range(active') \cap deleted = {} /\ deleted' = deleted
    BY <1>9, <1>10
  <2>7. runs' = Append(runs, NewRun(image, question))
    BY <1>7, <2>1
  <2> QED BY <1>9, <1>11, <1>12, <2>2, <2>4, <2>5, <2>6, <2>7, LookBegins
<1> QED BY <1>16, <1>17

\* What ends a turn, or comes between turns, and changes no row
LEMMA RowsLeft ==
  ASSUME ImgInv, SendDeleted \/ EndUnanswered \/ ReplyFails \/ \E a \in Images : Detach(a) \/ Delete(a)
  PROVE  ImgInv'
<1>1. /\ messages \in Seq(ImageMessages) /\ active \in Seq(Images) /\ deleted \subseteq Images /\ runs \in Seq(ImageRows)
      /\ payload \in Seq(SUBSET Images) /\ Range(active) \cap deleted = {} /\ RowsAreTrue
  BY DEF ImgInv, ImgTypeOK
<1>2. turn' = NoTurn /\ UNCHANGED <<runs, payload>>
  BY DEF SendDeleted, EndUnanswered, ReplyFails, Detach, Delete
<1>3. runs' \in Seq(ImageRows) /\ RowsAreTrue' /\ payload' \in Seq(SUBSET Images)
  BY <1>1, <1>2 DEF RowsAreTrue, EvidenceIsOfItsImage, AnswersAreGrounded
<1>4. messages' \in Seq(ImageMessages)
  <2>1. Question(<<>>) \in ImageMessages
    <3>1. <<>> \in Seq(Images)
      OBVIOUS
    <3> QED BY <3>1, MessagesAre
  <2>2. messages' \in {messages, Append(messages, Question(<<>>))}
    BY DEF SendDeleted, EndUnanswered, ReplyFails, Detach, Delete
  <2> QED BY <1>1, <2>1, <2>2
<1>5. deleted' \subseteq Images /\ active' \in Seq(Images) /\ Range(active') \cap deleted' = {}
  <2>1. CASE UNCHANGED <<active, deleted>>
    BY <1>1, <2>1
  <2>2. ASSUME NEW a \in Images, active' = Without({a}), deleted' = deleted \/ deleted' = deleted \cup {a}
        PROVE  deleted' \subseteq Images /\ active' \in Seq(Images) /\ Range(active') \cap deleted' = {}
    <3>1. active' \in Seq(Images) /\ Range(active') = Range(active) \ {a}
      BY <1>1, <2>2, WithoutIs
    <3> QED BY <1>1, <2>2, <3>1
  <2>3. UNCHANGED <<active, deleted>> \/ \E a \in Images : active' = Without({a}) /\ (deleted' = deleted \/ deleted' = deleted \cup {a})
    BY DEF SendDeleted, EndUnanswered, ReplyFails, Detach, Delete
  <2> QED BY <2>1, <2>2, <2>3
<1> QED BY <1>2, <1>3, <1>4, <1>5, Rests

LEMMA RestartKept ==
  ASSUME ImgInv, Restart
  PROVE  ImgInv'
<1>1. /\ messages' \in Seq(ImageMessages) /\ active' \in Seq(Images) /\ deleted' \subseteq Images /\ turn' = NoTurn
      /\ payload' \in Seq(SUBSET Images) /\ Range(active') \cap deleted' = {} /\ runs \in Seq(ImageRows)
  BY DEF ImgInv, ImgTypeOK, Restart
<1>2. runs' = [i \in DOMAIN runs |-> IF runs[i].status = "running" THEN [runs[i] EXCEPT !.status = "interrupted"] ELSE runs[i]]
  BY DEF Restart
<1>3. PICK n : n = Len(runs)
  OBVIOUS
<1>4. n \in Nat /\ DOMAIN runs = 1..n /\ (\A i \in 1..n : runs[i] \in ImageRows /\ RowTrue(runs, i)) /\ DOMAIN runs' = 1..n
  BY <1>1, <1>2, <1>3, RowsTrueEach DEF ImgInv
<1>5. \A i \in 1..n :
        /\ runs'[i] \in ImageRows /\ runs'[i].image = runs[i].image /\ runs'[i].text = runs[i].text /\ runs'[i].seen = runs[i].seen
        /\ runs'[i].shown = runs[i].shown /\ runs'[i].route = runs[i].route /\ runs'[i].sent = runs[i].sent
  <2> SUFFICES ASSUME NEW i \in 1..n
               PROVE  /\ runs'[i] \in ImageRows /\ runs'[i].image = runs[i].image /\ runs'[i].text = runs[i].text /\ runs'[i].seen = runs[i].seen
                      /\ runs'[i].shown = runs[i].shown /\ runs'[i].route = runs[i].route /\ runs'[i].sent = runs[i].sent
    OBVIOUS
  <2>1. PICK r \in ImageRows : r = runs[i]
    BY <1>4
  <2>2. runs'[i] = r \/ runs'[i] = [r EXCEPT !.status = "interrupted"]
    BY <1>2, <1>4, <2>1
  <2> QED BY <2>1, <2>2 DEF ImageRows, Statuses
<1>6. runs' \in Seq(ImageRows)
  <2>1. runs' = [i \in 1..n |-> runs'[i]]
    BY <1>2, <1>4
  <2> QED BY <1>4, <1>5, <2>1
<1>7. \A i \in 1..n : RowTrue(runs', i)
  <2> SUFFICES ASSUME NEW i \in 1..n PROVE RowTrue(runs', i)
    OBVIOUS
  <2>1. \A j \in 1..i : j \in 1..n
    BY <1>4
  <2>2. RowTrue(runs, i)
    BY <1>4
  <2> QED BY <1>5, <2>1, <2>2 DEF RowTrue, HasEvidence
<1>8. RowsAreTrue'
  BY <1>4, <1>7 DEF RowsAreTrue, EvidenceIsOfItsImage, AnswersAreGrounded, RowTrue
<1> QED BY <1>1, <1>6, <1>8, Rests

\* A row more is decided from: the answer that a limitation is
LEMMA LimitedReplyKept ==
  ASSUME ImgInv, LimitedReply
  PROVE  ImgInv'
<1> DEFINE old == runs[Row]
<1>1. turn.stage = "decide" /\ runs \in Seq(ImageRows) /\ runs # <<>> /\ turn \in Deciding /\ RowsAreTrue
  BY TurnIs DEF LimitedReply, ImgInv, ImgTypeOK, TurnHasRow, NoTurn, None
<1>2. old \in ImageRows /\ Row \in DOMAIN runs /\ RowTrue(runs, Row)
  <2>1. Row \in 1..Len(runs)
    BY <1>1 DEF Row
  <2> QED BY <1>1, <2>1, RowsTrueEach
<1>3. runs' = [runs EXCEPT ![Row].sent = "no", ![Row].route = "no_synthesis"]
  BY DEF LimitedReply
<1> HIDE DEF old
<1> DEFINE r == [old EXCEPT !.sent = "no", !.route = "no_synthesis"]
<1>4. runs' = [runs EXCEPT ![Row] = r]
  BY <1>2, <1>3 DEF old
<1>5. r \in ImageRows /\ r.image = old.image /\ r.text = old.text /\ r.seen = old.seen /\ r.shown = old.shown /\ r.route = "no_synthesis"
  BY <1>2 DEF ImageRows
<1> HIDE DEF r
<1>6. r.text \cup r.seen \subseteq {r.image}
  BY <1>2, <1>5 DEF RowTrue, old
<1>7. runs' \in Seq(ImageRows) /\ RowsAreTrue'
  BY <1>1, <1>4, <1>5, <1>6, RowChanged DEF Row, old
<1>8. /\ active' \in Seq(Images) /\ deleted' \subseteq Images /\ payload' \in Seq(SUBSET Images) /\ Range(active') \cap deleted' = {}
      /\ turn' = NoTurn
  BY DEF LimitedReply, ImgInv, ImgTypeOK
<1>9. messages' \in Seq(ImageMessages)
  <2>1. Answer(turn.question) \in ImageMessages
    BY <1>1, MessagesAre DEF Deciding
  <2>2. messages \in Seq(ImageMessages) /\ messages' = Append(messages, Answer(turn.question))
    BY DEF LimitedReply, ImgInv, ImgTypeOK
  <2> QED BY <2>1, <2>2
<1> QED BY <1>7, <1>8, <1>9, Rests

LEMMA RequestKept ==
  ASSUME ImgInv, ImagesAssumption, Request
  PROVE  ImgInv'
<1> DEFINE old == runs[Row]
<1>1. turn.stage = "decide" /\ runs \in Seq(ImageRows) /\ runs # <<>> /\ turn \in Deciding /\ RowsAreTrue
  BY TurnIs DEF Request, ImgInv, ImgTypeOK, TurnHasRow, NoTurn, None
<1>2. /\ old \in ImageRows /\ Row \in DOMAIN runs /\ RowTrue(runs, Row) /\ old.route = None /\ turn # NoTurn /\ turn.question # 0
      /\ \E i \in DOMAIN messages : messages[i].role = "user"
  <2>1. Row \in 1..Len(runs)
    BY <1>1 DEF Row
  <2>2. turn # NoTurn /\ turn.question # 0
    BY <1>1, TurnIs DEF ImgInv, None
  <2> QED BY <1>1, <2>1, <2>2, RowsTrueEach DEF ImgInv, TurnHasRow
<1>3. /\ payload = <<>>
      /\ turn.sent = "unset" => turn.first /\ (old.status = "completed" /\ old.shown # {} => turn.route.native \/ old.model # None)
      /\ turn.sent = "no" => ~turn.route.native /\ old.shown = {}
  BY <1>1 DEF ImgInv, SaysWhatItSent
<1>4. /\ turn.first => old.status = "completed"
      /\ turn.route.native \/ HasEvidence(old)
  BY DEF Request, Local, Blocks
<1>5. /\ turn' \in Deciding /\ turn'.stage = "answer" /\ turn'.first = turn.first /\ turn'.sent = turn.sent /\ turn'.route = turn.route
      /\ turn'.question = turn.question
  BY <1>1 DEF Request, Deciding
<1>6. /\ messages' = messages /\ active' = active /\ deleted' = deleted /\ messages \in Seq(ImageMessages) /\ active \in Seq(Images)
      /\ deleted \subseteq Images /\ Range(active) \cap deleted = {}
  BY DEF Request, ImgInv, ImgTypeOK
<1> HIDE DEF old
<1>7. CASE turn.route.native
  <2> DEFINE r == [old EXCEPT !.shown = @ \cup {"chat"}]
             some == Upto(active, MaxImages)
  <2>1. runs' = [runs EXCEPT ![Row] = r] /\ payload' = Attached(messages, some)
    BY <1>2, <1>7 DEF Request, old
  <2>2. /\ r \in ImageRows /\ r.image = old.image /\ r.text = old.text /\ r.seen = old.seen /\ r.shown = old.shown \cup {"chat"}
        /\ r.route = None /\ r.status = old.status /\ r.model = old.model
    BY <1>2 DEF ImageRows, Lookers
  <2> HIDE DEF r
  <2>3. r.text \cup r.seen \subseteq {r.image} /\ r.route \notin {"native_vision", "external_eyes_or_ocr"}
    BY <1>2, <2>2 DEF RowTrue, old, None
  <2>4. runs' \in Seq(ImageRows) /\ RowsAreTrue' /\ Len(runs') = Row /\ runs' # <<>> /\ runs'[Row] = r
    BY <1>1, <2>1, <2>2, <2>3, RowChanged DEF Row, old
  <2>5. some \in Seq(Images) /\ Range(some) \subseteq Range(active)
    BY <1>6, UptoIs, ImagesAssumption
  <2>6. /\ payload' \in Seq(SUBSET Images) /\ UNION Range(payload') = Range(some)
        /\ \A i, j \in DOMAIN payload' : i # j => payload'[i] \cap payload'[j] = {}
    <3> HIDE DEF some
    <3> QED BY <1>2, <1>6, <2>1, <2>5, AttachedIs
  <2>7. ImgTypeOK'
    BY <1>5, <1>6, <2>4, <2>6 DEF ImgTypeOK
  <2>8. TurnHasRow' /\ LooksBeforeItSees'
    BY <1>2, <1>5, <1>6, <2>2, <2>4 DEF TurnHasRow, LooksBeforeItSees, Row
  <2>9. SaysWhatItSent'
    BY <1>3, <1>4, <1>5, <1>7, <2>2, <2>4 DEF SaysWhatItSent, Row
  <2>10. PayloadIsActive'
    BY <1>6, <2>5, <2>6 DEF PayloadIsActive
  <2> QED BY <2>4, <2>7, <2>8, <2>9, <2>10 DEF ImgInv
<1>8. CASE ~turn.route.native
  <2>1. runs' = runs /\ payload' = payload
    BY <1>8 DEF Request
  <2>2. runs'[Len(runs')] = old
    BY <2>1 DEF old, Row
  <2>3. ImgTypeOK'
    BY <1>1, <1>3, <1>5, <1>6, <2>1 DEF ImgTypeOK, ImgInv
  <2>4. TurnHasRow' /\ LooksBeforeItSees' /\ PayloadIsActive'
    BY <1>1, <1>2, <1>3, <1>5, <1>6, <2>1, <2>2 DEF TurnHasRow, LooksBeforeItSees, PayloadIsActive, Row
  <2>5. SaysWhatItSent'
    BY <1>3, <1>4, <1>5, <1>8, <2>2 DEF SaysWhatItSent, Row
  <2>6. RowsAreTrue'
    BY <1>1, <2>1 DEF RowsAreTrue, EvidenceIsOfItsImage, AnswersAreGrounded
  <2> QED BY <2>3, <2>4, <2>5, <2>6 DEF ImgInv
<1> QED BY <1>7, <1>8

\* The answer, or none in time: the row says what was sent.
LEMMA ReplyKept ==
  ASSUME ImgInv, Reply \/ ReplyTimesOut
  PROVE  ImgInv'
<1> DEFINE old == runs[Row]
<1>1. turn.stage = "answer" /\ runs \in Seq(ImageRows) /\ runs # <<>> /\ turn \in Deciding /\ RowsAreTrue
  BY TurnIs DEF Reply, ReplyTimesOut, ImgInv, ImgTypeOK, TurnHasRow, NoTurn, None
<1>2. old \in ImageRows /\ Row \in DOMAIN runs /\ RowTrue(runs, Row)
  <2>1. Row \in 1..Len(runs)
    BY <1>1 DEF Row
  <2> QED BY <1>1, <2>1, RowsTrueEach
<1>3. /\ turn.sent = "unset" => turn.first /\ (old.status = "completed" /\ old.shown # {} => turn.route.native \/ old.model # None)
      /\ turn.sent = "no" => ~turn.route.native /\ old.shown = {}
      /\ turn.first => old.status = "completed"
      /\ IF turn.route.native THEN "chat" \in old.shown ELSE HasEvidence(old)
  BY <1>1 DEF ImgInv, SaysWhatItSent
<1> HIDE DEF old
<1>4. PICK status \in Statuses : runs' = [runs EXCEPT ![Row] = Synthesized(old, status)]
  <2>1. CASE Reply
    <3>1. old.status \in Statuses
      BY <1>2 DEF ImageRows
    <3>2. runs' = [runs EXCEPT ![Row] = Synthesized(old, old.status)]
      BY <1>2, <2>1 DEF Reply, old
    <3> QED BY <3>1, <3>2
  <2>2. CASE ReplyTimesOut
    <3>1. runs' = [runs EXCEPT ![Row] = Synthesized(old, "timeout")]
      BY <1>2, <2>2 DEF ReplyTimesOut, old
    <3> QED BY <3>1 DEF Statuses
  <2> QED BY <2>1, <2>2
<1> DEFINE told == Sent(old)
           route == IF turn.route.native THEN "native_vision" ELSE "external_eyes_or_ocr"
           model == IF turn.route.sees # None THEN turn.route.sees ELSE old.model
           r == Synthesized(old, status)
<1>5. told \in {"unset", "yes", "no"} /\ route \in {"native_vision", "external_eyes_or_ocr"} /\ model \in Someone /\ turn.route.via \in Servers
  BY <1>1, <1>2 DEF Sent, Deciding, Itineraries, ImageRows
<1>6. old.shown # {} => told = "yes"
  BY <1>1, <1>3 DEF Sent, Deciding
<1>7. r = [old EXCEPT !.status = status, !.sent = told, !.route = route, !.model = model, !.via = turn.route.via]
  BY <1>2 DEF Synthesized, ImageRows
<1> HIDE DEF told, route, model, r
<1>8. /\ r \in ImageRows /\ r.image = old.image /\ r.text = old.text /\ r.seen = old.seen /\ r.shown = old.shown /\ r.sent = told
  BY <1>2, <1>4, <1>5, <1>7 DEF ImageRows
<1>9. /\ r.text \cup r.seen \subseteq {r.image}
      /\ HasEvidence(r) \/ "chat" \in r.shown
      /\ r.shown # {} => r.sent = "yes"
  BY <1>2, <1>3, <1>6, <1>8 DEF RowTrue, old, HasEvidence
<1>10. runs' \in Seq(ImageRows) /\ RowsAreTrue'
  <2>1. runs' = [runs EXCEPT ![Row] = r]
    BY <1>4 DEF r
  <2> QED BY <1>1, <1>8, <1>9, <2>1, RowChanged DEF Row, old
<1>11. /\ active' \in Seq(Images) /\ deleted' \subseteq Images /\ payload' \in Seq(SUBSET Images) /\ Range(active') \cap deleted' = {}
       /\ turn' = NoTurn
  BY DEF Reply, ReplyTimesOut, ImgInv, ImgTypeOK
<1>12. messages' \in Seq(ImageMessages)
  <2>1. Answer(turn.question) \in ImageMessages
    BY <1>1, MessagesAre DEF Deciding
  <2>2. messages \in Seq(ImageMessages) /\ messages' \in {messages, Append(messages, Answer(turn.question))}
    BY DEF Reply, ReplyTimesOut, ImgInv, ImgTypeOK
  <2> QED BY <2>1, <2>2
<1> QED BY <1>10, <1>11, <1>12, Rests

-----------------------------------------------------------------------------
LEMMA ImgBegins ==
  ASSUME ImgInit PROVE ImgInv
<1>1. messages = <<>> /\ active = <<>> /\ deleted = {} /\ runs = <<>> /\ turn = NoTurn /\ payload = <<>>
  BY DEF ImgInit
<1>2. ImgTypeOK
  <2>1. Range(active) = {}
    BY <1>1 DEF Range
  <2>2. messages \in Seq(ImageMessages) /\ active \in Seq(Images) /\ runs \in Seq(ImageRows) /\ payload \in Seq(SUBSET Images)
    BY <1>1
  <2> QED BY <1>1, <2>1, <2>2 DEF ImgTypeOK
<1>3. turn.stage = None
  BY <1>1 DEF NoTurn
<1>4. RowsAreTrue
  BY <1>1 DEF RowsAreTrue, EvidenceIsOfItsImage, AnswersAreGrounded
<1> QED BY <1>1, <1>2, <1>3, <1>4 DEF ImgInv, TurnHasRow, LooksBeforeItSees, SaysWhatItSent, PayloadIsActive, None

LEMMA ImgStays ==
  ASSUME ImgInv, ImagesAssumption, [ImgNext]_imgVars PROVE ImgInv'
<1>1. CASE SendImages
  BY <1>1, SendImagesKept
<1>2. CASE AskOn
  BY <1>2, AskOnKept
<1>3. CASE AnalyzeAlone
  BY <1>3, AnalyzeAloneKept
<1>4. CASE Perceive \/ PerceiveFails
  BY <1>4, LookKept
<1>5. CASE LimitedReply
  BY <1>5, LimitedReplyKept
<1>6. CASE Request
  BY <1>6, RequestKept
<1>7. CASE Reply \/ ReplyTimesOut
  BY <1>7, ReplyKept
<1>8. CASE SendDeleted \/ EndUnanswered \/ ReplyFails \/ \E a \in Images : Detach(a) \/ Delete(a)
  BY <1>8, RowsLeft
<1>9. CASE Restart
  BY <1>9, RestartKept
<1>10. CASE UNCHANGED imgVars
  BY <1>10 DEF ImgInv, ImgTypeOK, TurnHasRow, LooksBeforeItSees, SaysWhatItSent, RowsAreTrue, EvidenceIsOfItsImage, AnswersAreGrounded,
               PayloadIsActive, imgVars, Row
<1> QED BY <1>1, <1>2, <1>3, <1>4, <1>5, <1>6, <1>7, <1>8, <1>9, <1>10 DEF ImgNext

\* The inductive invariant of image turns (ChatService.send with images, VisionService, ArtifactService,
\* SourceService), for any images and any bounds.
THEOREM ImageInvariant == ImgSpec => []ImgInv
<1>1. ImgInit => ImgInv
  BY ImgBegins
<1>2. ImgInv /\ [ImgNext]_imgVars => ImgInv'
  BY ImgStays, ImagesAssumption
<1> QED BY <1>1, <1>2, PTL DEF ImgSpec

\* What is kept of an image turn is true: the evidence of a row is of the row's image, observations rest
\* on a look, and an answer on evidence or a look that its row owns up to.
THEOREM ImageRowsAreTrue == ImgSpec => []RowsAreTrue
<1>1. ImgInv => RowsAreTrue
  BY DEF ImgInv
<1> QED BY <1>1, ImageInvariant, PTL

\* A request to a model that sees has each active image exactly once, and none that was removed.
THEOREM ImagePayloadIsActive == ImgSpec => []PayloadIsActive
<1>1. ImgInv => PayloadIsActive
  BY DEF ImgInv
<1> QED BY <1>1, ImageInvariant, PTL

----------------------------------------------------------------------------
Characters == Seq(Nat)

\* What lies within a stretch of a text is inside that stretch.
LEMMA InsideAPart ==
  ASSUME NEW text \in Characters, NEW a \in 1..Len(text), NEW b \in a..Len(text), NEW n \in a..b, NEW last \in n..b
  PROVE  Inside(SubSeq(text, n, last), SubSeq(text, a, b))
<1>1. PICK t : t = SubSeq(text, a, b) /\ Len(t) = b - a + 1
  <2>1. Len(SubSeq(text, a, b)) = b - a + 1
    BY PartIs DEF Characters
  <2> QED BY <2>1, Zenon
<1>0. Len(text) \in Nat
  BY DEF Characters
<1>2. PICK i, j : i = n - a /\ j = last - n + 1
  OBVIOUS
<1>6. /\ n \in 1..Len(text) /\ last \in n..Len(text) /\ i + 1 \in 1..(b - a + 1) /\ i + j \in (i + 1)..(b - a + 1)
      /\ i \in 0..(Len(t) - j) /\ a + (i + 1) - 1 = n /\ a + (i + j) - 1 = last
  BY <1>0, <1>1, <1>2
<1>3. PICK u : u = SubSeq(text, n, last) /\ Len(u) = j
  <2>1. Len(SubSeq(text, n, last)) = last - n + 1
    BY <1>6, PartIs DEF Characters
  <2> QED BY <1>2, <2>1, Zenon
<1>4. SubSeq(t, i + 1, i + j) = u
  <2>1. PICK p, q : p = i + 1 /\ q = i + j
    OBVIOUS
  <2>2. SubSeq(SubSeq(text, a, b), p, q) = SubSeq(text, a + p - 1, a + q - 1)
    <3>1. p \in 1..(b - a + 1) /\ q \in p..(b - a + 1)
      BY <1>6, <2>1
    <3> QED BY <3>1, PartOfPart DEF Characters
  <2> QED BY <1>1, <1>3, <1>6, <2>1, <2>2
<1>5. Inside(u, t)
  BY <1>6, <1>3, <1>4 DEF Inside
<1> QED BY <1>1, <1>3, <1>5

\* The stretch of a text without the blanks at its ends
LEMMA StripIs ==
  ASSUME NEW text \in Characters, NEW a \in 1..Len(text), NEW b \in a..Len(text)
  PROVE  LET piece == Strip(SubSeq(text, a, b)) IN
         \/ piece = <<>> /\ \A i \in a..b : text[i] = 0
         \/ \E c \in a..b, e \in a..b : c <= e /\ piece = SubSeq(text, c, e) /\ \A i \in a..b : text[i] # 0 => i \in c..e
<1>1. PICK t : t = SubSeq(text, a, b) /\ t \in Characters /\ Len(t) = b - a + 1 /\ \A i \in 1..(b - a + 1) : t[i] = text[a + i - 1]
  <2>1. SubSeq(text, a, b) \in Characters /\ Len(SubSeq(text, a, b)) = b - a + 1 /\ \A i \in 1..(b - a + 1) : SubSeq(text, a, b)[i] = text[a + i - 1]
    BY PartIs DEF Characters
  <2> QED BY <2>1, Zenon
<1>2. PICK m : m = b - a + 1 /\ m \in Nat /\ DOMAIN t = 1..m
  BY <1>1 DEF Characters
<1>3. PICK ink : ink = {i \in DOMAIN t : t[i] # 0}
  OBVIOUS
<1>4. \A i \in a..b : i - a + 1 \in 1..m /\ t[i - a + 1] = text[i]
  BY <1>1, <1>2 DEF Characters
<1>5. CASE ink = {}
  <2>1. Strip(t) = <<>>
    BY <1>3, <1>5 DEF Strip
  <2>2. \A i \in a..b : text[i] = 0
    BY <1>2, <1>3, <1>4, <1>5
  <2> QED BY <1>1, <2>1, <2>2
<1>6. CASE ink # {}
  <2>1. ink \in SUBSET Nat /\ ink \in SUBSET (0..m)
    BY <1>2, <1>3
  <2>2. Min(ink) \in ink /\ \A x \in ink : Min(ink) <= x
    BY <1>6, <2>1, MinIs
  <2>3. Max(ink) \in ink /\ \A x \in ink : x <= Max(ink)
    BY <1>2, <1>6, <2>1, MaxIs
  <2>4. Strip(t) = SubSeq(t, Min(ink), Max(ink))
    BY <1>3, <1>6 DEF Strip
  <2>5. PICK lo, hi : lo = Min(ink) /\ hi = Max(ink)
    OBVIOUS
  <2>6. lo \in 1..m /\ hi \in lo..m
    BY <1>2, <1>3, <2>2, <2>3, <2>5
  <2>7. PICK c, e : c = a + lo - 1 /\ e = a + hi - 1
    OBVIOUS
  <2>8. c \in a..b /\ e \in a..b /\ c <= e
    BY <1>2, <2>6, <2>7 DEF Characters
  <2>9. SubSeq(t, lo, hi) = SubSeq(text, c, e)
    BY <1>1, <1>2, <2>6, <2>7, PartOfPart DEF Characters
  <2>10. ASSUME NEW i \in a..b, text[i] # 0 PROVE i \in c..e
    <3>1. i - a + 1 \in ink
      BY <1>2, <1>3, <1>4, <2>10
    <3>2. lo <= i - a + 1 /\ i - a + 1 <= hi
      BY <2>2, <2>3, <2>5, <3>1
    <3> QED BY <2>6, <2>7, <3>2 DEF Characters
  <2> QED BY <1>1, <2>4, <2>5, <2>8, <2>9, <2>10
<1> QED BY <1>5, <1>6

\* Where a chunk ends: behind its start, no longer than a chunk may be, and, if the text goes on, longer
\* than the overlap; and where the next one starts.
LEMMA CutsAre ==
  ASSUME RetrievalAssumption, NEW text \in Characters, NEW start \in 0..(Len(text) - 1)
  PROVE  LET end == ChunkEnd(text, start) IN
         /\ end \in (start + 1)..Len(text) /\ end <= start + MaxChunk
         /\ end # Len(text) => end > start + MinChunk /\ Following(start, end) = end - ChunkOverlap /\ end - ChunkOverlap > start
<1>1. MaxChunk \in Nat /\ MinChunk \in Nat /\ ChunkOverlap \in Nat /\ ChunkOverlap < MinChunk /\ MinChunk < MaxChunk
  BY DEF RetrievalAssumption
<1>2. PICK size : size = Len(text) /\ size \in Nat /\ start \in Nat /\ start < size
  BY DEF Characters
<1>3. PICK last : last = Min({size, start + MaxChunk}) /\ last \in {size, start + MaxChunk} /\ last <= size /\ last <= start + MaxChunk
  <2>1. size \in Int /\ start + MaxChunk \in Int
    BY <1>1, <1>2
  <2>2. PICK b : b = start + MaxChunk
    OBVIOUS
  <2>3. Min({size, b}) \in {size, b} /\ Min({size, b}) <= size /\ Min({size, b}) <= b
    BY <2>1, <2>2, MinOfTwo
  <2> QED BY <2>2, <2>3
<1>4. PICK blanks : blanks = {i \in start..(last - 1) : text[i + 1] = 0}
  OBVIOUS
<1>5. PICK end : end = ChunkEnd(text, start) /\ end = IF last < size /\ blanks # {} /\ Max(blanks) > start + MinChunk THEN Max(blanks) ELSE last
  BY <1>2, <1>3, <1>4 DEF ChunkEnd
<1>6. end \in (start + 1)..size /\ end <= start + MaxChunk /\ (end # size => end > start + MinChunk)
  <2>1. CASE last < size /\ blanks # {} /\ Max(blanks) > start + MinChunk
    <3>1. blanks \in SUBSET (0..size)
      BY <1>2, <1>3, <1>4
    <3>2. Max(blanks) \in blanks
      BY <1>2, <2>1, <3>1, MaxIs
    <3>3. Max(blanks) \in start..(last - 1)
      BY <1>4, <3>2
    <3>4. PICK e : e = Max(blanks) /\ e \in start..(last - 1) /\ e > start + MinChunk
      BY <2>1, <3>3
    <3> QED BY <1>1, <1>2, <1>3, <1>5, <2>1, <3>4
  <2>2. CASE ~(last < size /\ blanks # {} /\ Max(blanks) > start + MinChunk)
    <3>1. end = last
      BY <1>5, <2>2
    <3> QED BY <1>1, <1>2, <1>3, <3>1
  <2> QED BY <2>1, <2>2
<1>7. ASSUME end # size PROVE Following(start, end) = end - ChunkOverlap /\ end - ChunkOverlap > start
  <2>1. end - ChunkOverlap > start /\ end - ChunkOverlap \in Int /\ start + 1 \in Int /\ end - ChunkOverlap >= start + 1
    BY <1>1, <1>2, <1>6, <1>7
  <2>2. PICK x, y : x = end - ChunkOverlap /\ y = start + 1
    OBVIOUS
  <2>3. Max({x, y}) = x
    BY <2>1, <2>2, MaxOfTwo
  <2> QED BY <2>1, <2>2, <2>3 DEF Following
<1> QED BY <1>2, <1>5, <1>6, <1>7
-----------------------------------------------------------------------------
\* The chunks of what is left of a text, from the chunks of what is left after the first of them
Pieces(text, left, rest) ==
  LET start == Len(text) - left
      end == ChunkEnd(text, start)
      piece == Strip(SubSeq(text, start + 1, end))
  IN IF left = 0 THEN <<>>
     ELSE (IF piece = <<>> THEN <<>> ELSE <<piece>>) \o (IF end = Len(text) THEN <<>> ELSE rest)
\* How much is left then
After(text, left) == LET start == Len(text) - left IN Len(text) - Following(start, ChunkEnd(text, start))

\* A chunk is a stretch of its text, without blanks at its ends.
IsChunk(piece, text) == \E c \in 1..Len(text), e \in 1..Len(text) : c <= e /\ e - c + 1 <= MaxChunk /\ piece = SubSeq(text, c, e)

\* What stands together in what is left of the text, up to the overlap, stands together in a chunk.
Covered(text, left, pieces) ==
  \A n \in (Len(text) - left + 1)..Len(text) : \A last \in n..Len(text) :
    last <= n + ChunkOverlap /\ text[n] # 0 /\ text[last] # 0 => \E k \in DOMAIN pieces : Inside(SubSeq(text, n, last), pieces[k])

\* The chunks of what is left are right if those of what is left after the first are.
LEMMA PiecesKept ==
  ASSUME RetrievalAssumption, NEW text \in Characters, NEW left \in 0..Len(text), NEW rest \in Seq(Characters),
         \A k \in DOMAIN rest : IsChunk(rest[k], text),
         After(text, left) \in 0..(left - 1) => Covered(text, After(text, left), rest)
  PROVE  /\ Pieces(text, left, rest) \in Seq(Characters)
         /\ \A k \in DOMAIN Pieces(text, left, rest) : IsChunk(Pieces(text, left, rest)[k], text)
         /\ Covered(text, left, Pieces(text, left, rest))
<1>1. PICK size : size = Len(text) /\ size \in Nat
  <2>1. Len(text) \in Nat
    BY DEF Characters
  <2> QED BY <2>1, Zenon
<1>2. CASE left = 0
  <2>1. Pieces(text, left, rest) = <<>>
    BY <1>2 DEF Pieces
  <2>2. \A n \in (size - left + 1)..size : FALSE
    BY <1>1, <1>2
  <2>3. <<>> \in Seq(Characters) /\ DOMAIN <<>> = {}
    OBVIOUS
  <2>4. Covered(text, left, <<>>)
    BY <1>1, <2>2 DEF Covered
  <2> QED BY <2>1, <2>3, <2>4
<1>3. CASE left # 0
  <2>1. PICK start : start = Len(text) - left /\ start \in 0..(size - 1) /\ left = size - start
    BY <1>1, <1>3
  <2>2. PICK end : end = ChunkEnd(text, start)
    OBVIOUS
  <2>3. /\ end \in (start + 1)..size /\ end <= start + MaxChunk
        /\ end # size => end > start + MinChunk /\ Following(start, end) = end - ChunkOverlap /\ end - ChunkOverlap > start
    BY <1>1, <2>1, <2>2, CutsAre
  <2>p. start \in Nat /\ end \in Nat /\ left \in Nat /\ start < end /\ end <= size /\ left = size - start
    BY <1>1, <2>1, <2>3
  <2>4. PICK piece : piece = Strip(SubSeq(text, start + 1, end))
    OBVIOUS
  <2>5. \/ piece = <<>> /\ \A i \in (start + 1)..end : text[i] = 0
        \/ \E c \in (start + 1)..end, e \in (start + 1)..end :
              c <= e /\ piece = SubSeq(text, c, e) /\ \A i \in (start + 1)..end : text[i] # 0 => i \in c..e
    <3>1. start + 1 \in 1..Len(text) /\ end \in (start + 1)..Len(text)
      BY <1>1, <2>1, <2>3
    <3>2. PICK a : a = start + 1
      OBVIOUS
    <3> QED BY <2>4, <3>1, <3>2, StripIs
  <2>6. PICK first, more : /\ first = (IF piece = <<>> THEN <<>> ELSE <<piece>>) /\ more = (IF end = size THEN <<>> ELSE rest)
                           /\ Pieces(text, left, rest) = first \o more
    BY <1>1, <1>3, <2>1, <2>2, <2>4 DEF Pieces
  <2>7. piece # <<>> => piece \in Characters /\ IsChunk(piece, text)
    <3>1. ASSUME NEW c \in (start + 1)..end, NEW e \in (start + 1)..end, c <= e, piece = SubSeq(text, c, e)
          PROVE  piece \in Characters /\ IsChunk(piece, text)
      <4>1. c \in 1..Len(text) /\ e \in c..Len(text) /\ e \in 1..Len(text) /\ e - c + 1 <= MaxChunk
        BY <1>1, <2>1, <2>3, <3>1 DEF RetrievalAssumption
      <4>2. SubSeq(text, c, e) \in Characters
        BY <4>1, PartIs DEF Characters
      <4> QED BY <3>1, <4>1, <4>2 DEF IsChunk
    <3> QED BY <2>5, <3>1
  <2>8. first \in Seq(Characters) /\ \A k \in DOMAIN first : k = 1 /\ first = <<piece>> /\ piece # <<>> /\ first[k] = piece
    BY <2>6, <2>7
  <2>9. more \in Seq(Characters) /\ \A k \in DOMAIN more : IsChunk(more[k], text)
    BY <2>6
  <2>10. PICK all : all = first \o more /\ all \in Seq(Characters) /\ Range(all) = Range(first) \cup Range(more)
    <3>1. Range(first \o more) = Range(first) \cup Range(more)
      BY <2>8, <2>9, OneAfterTheOther
    <3>2. first \o more \in Seq(Characters)
      BY <2>8, <2>9
    <3> QED BY <3>1, <3>2, Zenon
  <2>11. \A k \in DOMAIN all : IsChunk(all[k], text)
    <3> SUFFICES ASSUME NEW k \in DOMAIN all PROVE IsChunk(all[k], text)
      OBVIOUS
    <3>1. all[k] \in Range(first) \cup Range(more)
      BY <2>10 DEF Range
    <3>2. \A x \in Range(first) : x = piece /\ piece # <<>>
      BY <2>8 DEF Range
    <3>3. \A x \in Range(more) : IsChunk(x, text)
      BY <2>9 DEF Range
    <3> QED BY <2>7, <3>1, <3>2, <3>3
  <2>12. ASSUME NEW n \in (start + 1)..size, NEW last \in n..size, last <= n + ChunkOverlap, text[n] # 0, text[last] # 0
         PROVE  \E x \in Range(all) : Inside(SubSeq(text, n, last), x)
    <3>1. CASE last <= end
      <4>1. n \in (start + 1)..end /\ last \in (start + 1)..end
        <5>1. n \in Int /\ last \in Int /\ start + 1 <= n /\ n <= last
          OBVIOUS
        <5> QED BY <2>p, <3>1, <5>1
      <4>2. PICK c \in (start + 1)..end, e \in (start + 1)..end :
              c <= e /\ piece = SubSeq(text, c, e) /\ \A i \in (start + 1)..end : text[i] # 0 => i \in c..e
        BY <2>5, <2>12, <4>1
      <4>3. n \in c..e /\ last \in n..e /\ c \in 1..Len(text) /\ e \in c..Len(text)
        <5>1. n \in c..e /\ last \in c..e
          BY <2>12, <4>1, <4>2
        <5>2. c \in 1..Len(text) /\ e \in 1..Len(text) /\ c <= e
          <6>1. ASSUME NEW x \in (start + 1)..end PROVE x \in 1..size
            <7>1. x \in Int /\ start + 1 <= x /\ x <= end
              OBVIOUS
            <7> QED BY <1>1, <2>p, <7>1
          <6>2. 1..size = 1..Len(text)
            BY <1>1, Zenon
          <6> QED BY <4>2, <6>1, <6>2
        <5> QED BY <1>1, <5>1, <5>2
      <4>4. Inside(SubSeq(text, n, last), piece)
        BY <4>2, <4>3, InsideAPart
      <4>5. piece # <<>>
        <5>1. Len(SubSeq(text, c, e)) = e - c + 1
          BY <4>3, PartIs DEF Characters
        <5>2. Len(piece) # 0
          BY <1>1, <4>2, <4>3, <5>1
        <5> QED BY <5>2
      <4>6. piece \in Range(first)
        <5>1. first = <<piece>>
          BY <2>6, <4>5
        <5> QED BY <5>1 DEF Range
      <4> QED BY <2>10, <4>4, <4>6
    <3>2. CASE last > end
      <4>1. end # size /\ last \in Nat /\ n \in Nat
        BY <1>1, <2>1, <3>2
      <4>2. PICK left2 : left2 = After(text, left) /\ left2 = size - (end - ChunkOverlap)
        BY <1>1, <2>1, <2>2, <2>3, <4>1 DEF After
      <4>3. left2 \in 0..(left - 1) /\ n \in (size - left2 + 1)..size /\ more = rest
        <5>1. ChunkOverlap \in Nat
          BY DEF RetrievalAssumption
        <5>2. more = rest
          BY <2>6, <4>1
        <5>3. end \in Nat /\ end - ChunkOverlap > start /\ end < size
          <6>1. end - ChunkOverlap > start
            BY <2>3, <4>1, Zenon
          <6>2. end < size
            BY <1>1, <2>p, <4>1
          <6> QED BY <2>p, <6>1, <6>2
        <5>4. left2 \in 0..(left - 1)
          BY <1>1, <2>p, <4>2, <5>1, <5>3
        <5>5. n > end - ChunkOverlap /\ n <= size
          BY <1>1, <2>12, <3>2, <4>1, <5>1, <5>3
        <5>6. n \in (size - left2 + 1)..size
          BY <1>1, <4>1, <4>2, <5>1, <5>3, <5>5
        <5> QED BY <5>2, <5>4, <5>6
      <4>4. Covered(text, left2, rest)
        BY <4>2, <4>3
      <4>5. \E k \in DOMAIN rest : Inside(SubSeq(text, n, last), rest[k])
        BY <1>1, <2>12, <4>3, <4>4 DEF Covered
      <4> QED BY <2>10, <4>3, <4>5 DEF Range
    <3> QED BY <1>1, <2>1, <2>3, <3>1, <3>2
  <2>13. Covered(text, left, all)
    <3> SUFFICES ASSUME NEW n \in (Len(text) - left + 1)..Len(text), NEW last \in n..Len(text),
                        last <= n + ChunkOverlap, text[n] # 0, text[last] # 0
                 PROVE  \E k \in DOMAIN all : Inside(SubSeq(text, n, last), all[k])
      BY DEF Covered
    <3>1. n \in (start + 1)..size /\ last \in n..size
      BY <1>1, <2>1
    <3>2. \E x \in Range(all) : Inside(SubSeq(text, n, last), x)
      BY <2>12, <3>1
    <3> QED BY <3>2 DEF Range
  <2> QED BY <2>6, <2>10, <2>11, <2>13
<1> QED BY <1>2, <1>3

\* The chunks of what is left, where rest is known of less
PiecesFrom(text, left, rest) == Pieces(text, left, IF After(text, left) \in 0..(left - 1) THEN rest[After(text, left)] ELSE <<>>)

\* ChunkText is what its recursion says.
LEMMA PiecesExist ==
  ASSUME RetrievalAssumption, NEW text \in Characters
  PROVE  \E pieces : ChunkText(text) = pieces[Len(text)] /\ \A left \in 0..Len(text) : pieces[left] = PiecesFrom(text, left, pieces)
<1> DEFINE n == Len(text)
           S == Seq(Characters)
           step == [left \in 0..n |-> [f \in [0..n -> S] |-> PiecesFrom(text, left, f)]]
           Value(left, f) == IF left = 0 THEN <<>>
                             ELSE LET start == n - left
                                      end == ChunkEnd(text, start)
                                      piece == Strip(SubSeq(text, start + 1, end))
                                  IN (IF piece = <<>> THEN <<>> ELSE <<piece>>) \o (IF end = n THEN <<>> ELSE f[n - Following(start, end)])
           Is(g) == g = [left \in 0..n |-> Value(left, g)]
<1>1. n \in Nat /\ <<>> \in S
  BY DEF Characters
<1>2. ASSUME NEW left \in 0..n, NEW f PROVE Value(left, f) = PiecesFrom(text, left, f)
  <2>1. CASE left = 0
    BY <2>1 DEF PiecesFrom, Pieces
  <2>2. CASE left # 0
    <3>1. PICK start : start = n - left /\ start \in 0..(n - 1)
      BY <1>1, <2>2
    <3>2. PICK end : end = ChunkEnd(text, start)
      OBVIOUS
    <3>3. CASE end = n
      BY <2>2, <3>1, <3>2, <3>3 DEF PiecesFrom, Pieces
    <3>4. CASE end # n
      <4>1. Following(start, end) = end - ChunkOverlap /\ end - ChunkOverlap > start /\ end \in (start + 1)..n
        BY <3>1, <3>2, <3>4, CutsAre
      <4>2. n - Following(start, end) \in 0..(left - 1)
        <5>1. ChunkOverlap \in Nat
          BY DEF RetrievalAssumption
        <5>2. end \in Nat /\ start \in Nat /\ end <= n
          BY <1>1, <3>1, <4>1
        <5> QED BY <1>1, <3>1, <4>1, <5>1, <5>2
      <4>3. After(text, left) = n - Following(start, end)
        BY <3>1, <3>2 DEF After
      <4>4. PiecesFrom(text, left, f) = Pieces(text, left, f[n - Following(start, end)])
        BY <4>2, <4>3 DEF PiecesFrom
      <4> QED BY <2>2, <3>1, <3>2, <3>4, <4>4 DEF Pieces
    <3> QED BY <3>3, <3>4
  <2> QED BY <2>1, <2>2
<1> HIDE DEF Value
<1>3. ASSUME NEW left \in 0..n, NEW f \in [0..n -> S] PROVE PiecesFrom(text, left, f) \in S
  <2>1. PICK rest \in S : rest = IF After(text, left) \in 0..(left - 1) THEN f[After(text, left)] ELSE <<>>
    <3>1. After(text, left) \in 0..(left - 1) => After(text, left) \in 0..n
      BY <1>1
    <3> QED BY <1>1, <3>1
  <2>2. Strip(SubSeq(text, n - left + 1, ChunkEnd(text, n - left))) \in Characters \/ left = 0
    <3> SUFFICES ASSUME left # 0 PROVE Strip(SubSeq(text, n - left + 1, ChunkEnd(text, n - left))) \in Characters
      OBVIOUS
    <3>1. PICK a, b : a = n - left + 1 /\ b = ChunkEnd(text, n - left) /\ a \in 1..n /\ b \in a..n
      <4>1. n - left \in 0..(n - 1)
        BY <1>1
      <4>2. ChunkEnd(text, n - left) \in (n - left + 1)..n
        BY <4>1, CutsAre
      <4>3. n - left + 1 \in 1..n
        BY <1>1
      <4> QED BY <4>2, <4>3
    <3>2. \/ Strip(SubSeq(text, a, b)) = <<>>
          \/ \E c \in a..b, e \in a..b : c <= e /\ Strip(SubSeq(text, a, b)) = SubSeq(text, c, e)
      <4>1. a \in 1..Len(text) /\ b \in a..Len(text)
        BY <3>1
      <4>2. \/ Strip(SubSeq(text, a, b)) = <<>> /\ \A i \in a..b : text[i] = 0
            \/ \E c \in a..b, e \in a..b :
                 c <= e /\ Strip(SubSeq(text, a, b)) = SubSeq(text, c, e) /\ \A i \in a..b : text[i] # 0 => i \in c..e
        BY <4>1, StripIs
      <4> QED BY <4>2
    <3>3. ASSUME NEW c \in a..b, NEW e \in a..b, c <= e PROVE SubSeq(text, c, e) \in Characters
      <4>1. c \in 1..n /\ e \in c..n
        BY <1>1, <3>1, <3>3
      <4> QED BY <4>1, PartIs DEF Characters
    <3>4. <<>> \in Characters
      BY DEF Characters
    <3> QED BY <3>1, <3>2, <3>3, <3>4
  <2>3. Pieces(text, left, rest) \in S
    BY <2>2 DEF Pieces
  <2> QED BY <2>1, <2>3 DEF PiecesFrom
<1>4. step \in [0..n -> [[0..n -> S] -> S]] /\ \A left \in 0..n : \A f \in [0..n -> S] : step[left][f] = PiecesFrom(text, left, f)
  BY <1>3
<1> HIDE DEF step
<1>5. LooksBack(n, S, step)
  <2> SUFFICES ASSUME NEW left \in 0..n, NEW f \in [0..n -> S], NEW g \in [0..n -> S], \A j \in 0..(left - 1) : f[j] = g[j]
               PROVE  step[left][f] = step[left][g]
    BY DEF LooksBack
  <2>1. PiecesFrom(text, left, f) = PiecesFrom(text, left, g)
    BY DEF PiecesFrom
  <2> QED BY <1>4, <2>1
<1>6. PICK f : IsRecursive(n, S, step, f)
  <2> HIDE DEF n, S
  <2> QED BY <1>1, <1>4, <1>5, RecursionExists
<1>7. f \in [0..n -> S] /\ \A left \in 0..n : f[left] = Value(left, f)
  BY <1>2, <1>4, <1>6 DEF IsRecursive
<1>8. Is(f)
  BY <1>7
<1> DEFINE pieces == CHOOSE g : Is(g)
<1>9. Is(pieces)
  <2> HIDE DEF Is
  <2> QED BY <1>8
<1>10. ChunkText(text) = pieces[n]
  BY DEF ChunkText, Value
<1> HIDE DEF pieces
<1>11. \A left \in 0..n : pieces[left] = PiecesFrom(text, left, pieces)
  BY <1>2, <1>9
<1> QED BY <1>10, <1>11

\* The chunks of a text are stretches of it that fit, and what stands together in it, up to the overlap,
\* stands together in one of them.
LEMMA ChunksOfText ==
  ASSUME RetrievalAssumption, NEW text \in Characters
  PROVE  /\ ChunkText(text) \in Seq(Characters)
         /\ \A k \in DOMAIN ChunkText(text) : IsChunk(ChunkText(text)[k], text)
         /\ Covered(text, Len(text), ChunkText(text))
<1>1. PICK pieces : ChunkText(text) = pieces[Len(text)] /\ \A left \in 0..Len(text) : pieces[left] = PiecesFrom(text, left, pieces)
  BY PiecesExist
<1> DEFINE n == Len(text)
           Right(left) == /\ pieces[left] \in Seq(Characters)
                          /\ \A k \in DOMAIN pieces[left] : IsChunk(pieces[left][k], text)
                          /\ Covered(text, left, pieces[left])
           good == {left \in 0..n : Right(left)}
<1>2. n \in Nat
  BY DEF Characters
<1>3. ASSUME NEW left \in 0..n, \A j \in 0..(left - 1) : j \in good PROVE left \in good
  <2>1. PICK rest : rest = IF After(text, left) \in 0..(left - 1) THEN pieces[After(text, left)] ELSE <<>>
    OBVIOUS
  <2>2. /\ rest \in Seq(Characters) /\ \A k \in DOMAIN rest : IsChunk(rest[k], text)
        /\ After(text, left) \in 0..(left - 1) => Covered(text, After(text, left), rest)
    <3>1. CASE After(text, left) \in 0..(left - 1)
      BY <1>3, <2>1, <3>1
    <3>2. CASE After(text, left) \notin 0..(left - 1)
      BY <2>1, <3>2
    <3> QED BY <3>1, <3>2
  <2>3. pieces[left] = Pieces(text, left, rest)
    BY <1>1, <2>1 DEF PiecesFrom
  <2>4. Right(left)
    BY <2>2, <2>3, PiecesKept
  <2> QED BY <2>4
<1>4. good = 0..n
  <2>1. good \in SUBSET (0..n)
    OBVIOUS
  <2> HIDE DEF good, n
  <2> QED BY <1>2, <1>3, <2>1, UpFromBelow
<1>5. n \in good
  BY <1>2, <1>4
<1> QED BY <1>1, <1>5

-----------------------------------------------------------------------------
\* The chunks of a document: those of its pages, one page after the other

Passages == [page : Nat, text : Characters]

LEMMA PagesAreCut ==
  ASSUME RetrievalAssumption, NEW text \in Characters, NEW p \in Nat
  PROVE  /\ PageDrafts(p, text) \in Seq(Passages)
         /\ \A x \in Range(PageDrafts(p, text)) : x.page = p /\ IsChunk(x.text, text)
         /\ \A k \in DOMAIN ChunkText(text) : \E x \in Range(PageDrafts(p, text)) : x.page = p /\ x.text = ChunkText(text)[k]
<1>1. PICK pieces : pieces = ChunkText(text) /\ pieces \in Seq(Characters) /\ \A k \in DOMAIN pieces : IsChunk(pieces[k], text)
  BY ChunksOfText
<1>2. PageDrafts(p, text) = [i \in DOMAIN pieces |-> [page |-> p, text |-> pieces[i]]]
  BY <1>1 DEF PageDrafts
<1>3. PICK drafts : drafts = [i \in DOMAIN pieces |-> [page |-> p, text |-> pieces[i]]]
  OBVIOUS
<1>4. DOMAIN drafts = DOMAIN pieces /\ \A i \in DOMAIN pieces : drafts[i] = [page |-> p, text |-> pieces[i]]
  BY <1>3
<1>5. drafts \in Seq(Passages)
  <2>1. PICK n \in Nat : DOMAIN pieces = 1..n /\ \A i \in 1..n : pieces[i] \in Characters
    BY <1>1
  <2>2. drafts \in [1..n -> Passages]
    BY <1>3, <2>1 DEF Passages
  <2> QED BY <2>1, <2>2
<1>6. \A x \in Range(drafts) : x.page = p /\ IsChunk(x.text, text)
  <2> SUFFICES ASSUME NEW i \in DOMAIN pieces PROVE drafts[i].page = p /\ IsChunk(drafts[i].text, text)
    BY <1>4 DEF Range
  <2>1. drafts[i].page = p /\ drafts[i].text = pieces[i]
    BY <1>4
  <2> QED BY <1>1, <2>1
<1>7. \A k \in DOMAIN pieces : \E x \in Range(drafts) : x.page = p /\ x.text = pieces[k]
  <2> TAKE k \in DOMAIN pieces
  <2>1. drafts[k] \in Range(drafts) /\ drafts[k].page = p /\ drafts[k].text = pieces[k]
    BY <1>4 DEF Range
  <2> QED BY <2>1
<1> QED BY <1>1, <1>2, <1>3, <1>5, <1>6, <1>7

\* What the passages taken from the first p pages hold
Cut(pages, p, passages) ==
  /\ passages \in Seq(Passages)
  /\ \A x \in Range(passages) : x.page \in 1..p /\ IsChunk(x.text, pages[x.page])
  /\ \A q \in 1..p : \A k \in DOMAIN ChunkText(pages[q]) : \E x \in Range(passages) : x.page = q /\ x.text = ChunkText(pages[q])[k]

LEMMA PagesAreCutInTurn ==
  ASSUME RetrievalAssumption, NEW pages \in Seq(Characters), NEW p \in 1..Len(pages), NEW before, Cut(pages, p - 1, before)
  PROVE  Cut(pages, p, before \o PageDrafts(p, pages[p]))
<1>1. p \in Nat /\ pages[p] \in Characters
  OBVIOUS
<1>2. PICK own : /\ own = PageDrafts(p, pages[p]) /\ own \in Seq(Passages)
                 /\ \A x \in Range(own) : x.page = p /\ IsChunk(x.text, pages[p])
                 /\ \A k \in DOMAIN ChunkText(pages[p]) : \E x \in Range(own) : x.page = p /\ x.text = ChunkText(pages[p])[k]
  <2>1. /\ PageDrafts(p, pages[p]) \in Seq(Passages)
        /\ \A x \in Range(PageDrafts(p, pages[p])) : x.page = p /\ IsChunk(x.text, pages[p])
        /\ \A k \in DOMAIN ChunkText(pages[p]) : \E x \in Range(PageDrafts(p, pages[p])) : x.page = p /\ x.text = ChunkText(pages[p])[k]
    BY <1>1, PagesAreCut
  <2> QED BY <2>1, Zenon
<1>3. before \in Seq(Passages)
  BY DEF Cut
<1>4. before \o own \in Seq(Passages)
  BY <1>2, <1>3
<1>5. Range(before \o own) = Range(before) \cup Range(own)
  BY <1>2, <1>3, OneAfterTheOther
<1>6. PICK all : all = before \o own /\ all \in Seq(Passages) /\ Range(all) = Range(before) \cup Range(own)
  BY <1>4, <1>5, Zenon
<1>7. ASSUME NEW x \in Range(all) PROVE x.page \in 1..p /\ IsChunk(x.text, pages[x.page])
  <2>1. CASE x \in Range(before)
    <3>1. x.page \in 1..(p - 1) /\ IsChunk(x.text, pages[x.page])
      BY <2>1 DEF Cut
    <3> QED BY <1>1, <3>1
  <2>2. CASE x \in Range(own)
    <3>1. x.page = p /\ IsChunk(x.text, pages[p])
      BY <1>2, <2>2
    <3> QED BY <1>1, <3>1
  <2> QED BY <1>6, <1>7, <2>1, <2>2
<1>8. ASSUME NEW q \in 1..p, NEW k \in DOMAIN ChunkText(pages[q]) PROVE \E x \in Range(all) : x.page = q /\ x.text = ChunkText(pages[q])[k]
  <2>1. CASE q = p
    BY <1>2, <1>6, <1>8, <2>1
  <2>2. CASE q # p
    <3>1. q \in 1..(p - 1)
      BY <1>1, <2>2
    <3>2. \E x \in Range(before) : x.page = q /\ x.text = ChunkText(pages[q])[k]
      BY <1>8, <3>1 DEF Cut
    <3> QED BY <1>6, <3>2
  <2> QED BY <2>1, <2>2
<1>9. Cut(pages, p, all)
  BY <1>6, <1>7, <1>8 DEF Cut
<1> QED BY <1>2, <1>6, <1>9

\* Drafts numbers what its recursion collects.
LEMMA DraftsExist ==
  ASSUME RetrievalAssumption, NEW d, NEW pages \in Seq(Characters)
  PROVE  \E all : /\ Cut(pages, Len(pages), all)
                  /\ Drafts(d, pages) = [i \in DOMAIN all |-> [doc |-> d, index |-> i, page |-> all[i].page, text |-> all[i].text]]
<1> DEFINE n == Len(pages)
           S == Seq(Passages)
           Value(p, f) == IF p = 0 THEN <<>> ELSE f[p - 1] \o PageDrafts(p, pages[p])
           step == [p \in 0..n |-> [f \in [0..n -> S] |-> Value(p, f)]]
           Is(g) == g = [p \in 0..n |-> Value(p, g)]
<1>1. n \in Nat /\ <<>> \in S
  OBVIOUS
<1>2. ASSUME NEW p \in 0..n, NEW f \in [0..n -> S] PROVE Value(p, f) \in S
  <2>1. CASE p # 0
    <3>1. p \in Nat /\ pages[p] \in Characters /\ f[p - 1] \in S
      <4>1. p \in 1..n /\ p - 1 \in 0..n /\ p \in Nat
        BY <1>1, <2>1
      <4>2. pages[p] \in Characters
        BY <4>1
      <4>3. f[p - 1] \in S
        BY <4>1
      <4> QED BY <4>1, <4>2, <4>3
    <3>2. PageDrafts(p, pages[p]) \in S
      BY <3>1, PagesAreCut
    <3>3. f[p - 1] \o PageDrafts(p, pages[p]) \in S
      BY <3>1, <3>2
    <3> QED BY <2>1, <3>3
  <2> QED BY <1>1, <2>1
<1>3. step \in [0..n -> [[0..n -> S] -> S]] /\ \A p \in 0..n : \A f \in [0..n -> S] : step[p][f] = Value(p, f)
  BY <1>2
<1>4. LooksBack(n, S, step)
  <2> SUFFICES ASSUME NEW p \in 0..n, NEW f \in [0..n -> S], NEW g \in [0..n -> S], \A j \in 0..(p - 1) : f[j] = g[j]
               PROVE  step[p][f] = step[p][g]
    BY DEF LooksBack
  <2> HIDE DEF step
  <2>1. p # 0 => f[p - 1] = g[p - 1]
    BY <1>1
  <2> QED BY <1>3, <2>1
<1> HIDE DEF step
<1>5. PICK f : IsRecursive(n, S, step, f)
  <2> HIDE DEF n, S
  <2> QED BY <1>1, <1>3, <1>4, RecursionExists
<1>6. Is(f)
  BY <1>3, <1>5 DEF IsRecursive
<1> DEFINE drafts == CHOOSE g : Is(g)
<1>7. Is(drafts)
  <2> HIDE DEF Is
  <2> QED BY <1>6
<1>8. Drafts(d, pages) = [i \in DOMAIN drafts[n] |-> [doc |-> d, index |-> i, page |-> drafts[n][i].page, text |-> drafts[n][i].text]]
  BY DEF Drafts
<1> HIDE DEF drafts
<1>9. \A p \in 0..n : drafts[p] = Value(p, drafts)
  BY <1>7
<1> DEFINE good == {p \in 0..n : Cut(pages, p, drafts[p])}
<1>10. 0 \in good
  <2>1. drafts[0] = <<>>
    BY <1>1, <1>9
  <2>2. <<>> \in S /\ Range(<<>>) = {} /\ \A q \in 1..0 : FALSE
    BY DEF Range
  <2>3. Cut(pages, 0, <<>>)
    BY <2>2 DEF Cut
  <2> QED BY <1>1, <2>1, <2>3
<1>11. ASSUME NEW p \in 0..(n - 1), p \in good PROVE p + 1 \in good
  <2>1. PICK q : q = p + 1 /\ q \in 1..n /\ q \in 0..n /\ q # 0 /\ q - 1 = p
    BY <1>1
  <2>2. drafts[q] = drafts[p] \o PageDrafts(q, pages[q])
    BY <1>9, <2>1
  <2>3. Cut(pages, q, drafts[q])
    <3>1. Cut(pages, q - 1, drafts[p])
      BY <1>11, <2>1
    <3> QED BY <2>1, <2>2, <3>1, PagesAreCutInTurn
  <2> QED BY <2>1, <2>3
<1>12. good = 0..n
  <2>1. good \in SUBSET (0..n)
    OBVIOUS
  <2> HIDE DEF good, n
  <2> QED BY <1>1, <1>10, <1>11, <2>1, UpFromZero
<1>13. Cut(pages, n, drafts[n])
  BY <1>1, <1>12
<1> QED BY <1>8, <1>13

-----------------------------------------------------------------------------
\* The index

ChunkRows == [model : Models, doc : Docs, index : Nat, page : Nat, text : Characters]
DocRows == [pages : Seq(Characters), index : {"absent", "pending", "low_text", "indexing", "indexed", "deleted"},
            model : Models \cup {"none"}, chunks : Seq(ChunkRows)]

\* What the RPC thread has in hand at each place of an index run: the chunks of the pages as they are, embedded
\* under one model once they are in, of a document whose status says that it is being indexed.
RunFits ==
  /\ work.at \in {"idle", "begin", "embed", "clear", "put", "mark", "delete"}
  /\ work.at # "idle" => work.doc \in Docs
  /\ work.at \in {"embed", "clear", "put", "mark"} => doc[work.doc].index = "indexing" /\ work.drafts = Drafts(work.doc, doc[work.doc].pages)
  /\ work.at \in {"clear", "put", "mark"} => work.model \in Models
  /\ work.at = "mark" => doc[work.doc].chunks = Embedded(work.drafts, work.model)
  /\ work.at = "delete" => work = [at |-> "delete", doc |-> work.doc]

\* An indexed document that nobody is deleting has the chunks of its pages under the model it is marked with.
IndexFits ==
  \A d \in Docs : doc[d].index = "indexed" /\ work # [at |-> "delete", doc |-> d] =>
    doc[d].chunks = Embedded(Drafts(d, doc[d].pages), doc[d].model)

RagInv == doc \in [Docs -> DocRows] /\ RunFits /\ IndexFits

LEMMA DraftsAreRows ==
  ASSUME RetrievalAssumption, NEW d \in Docs, NEW pages \in Seq(Characters), NEW model \in Models
  PROVE  Embedded(Drafts(d, pages), model) \in Seq(ChunkRows)
<1>1. PICK all : /\ Cut(pages, Len(pages), all)
                 /\ Drafts(d, pages) = [i \in DOMAIN all |-> [doc |-> d, index |-> i, page |-> all[i].page, text |-> all[i].text]]
  BY DraftsExist
<1>2. PICK n \in Nat : DOMAIN all = 1..n /\ \A i \in 1..n : all[i] \in Passages
  BY <1>1 DEF Cut
<1>3. \A i \in 1..n : i \in Nat /\ all[i].page \in Nat /\ all[i].text \in Characters
  BY <1>2 DEF Passages
<1>4. Embedded(Drafts(d, pages), model) = [i \in 1..n |-> [model |-> model, doc |-> d, index |-> i, page |-> all[i].page, text |-> all[i].text]]
  BY <1>1, <1>2 DEF Embedded
<1>5. \A i \in 1..n : [model |-> model, doc |-> d, index |-> i, page |-> all[i].page, text |-> all[i].text] \in ChunkRows
  BY <1>3 DEF ChunkRows
<1> QED BY <1>4, <1>5

\* The parts of IndexIsWhole, of the chunks of one document
IsWhole(pages, chunks, model) ==
  /\ \A i \in DOMAIN chunks :
       /\ chunks[i].model = model /\ chunks[i].index = i /\ Len(chunks[i].text) \in 1..MaxChunk
       /\ Inside(chunks[i].text, pages[chunks[i].page])
  /\ \A p \in DOMAIN pages : \A n \in 1..Len(pages[p]) : \A last \in n..Min({n + ChunkOverlap, Len(pages[p])}) :
       pages[p][n] # 0 /\ pages[p][last] # 0 =>
         \E i \in DOMAIN chunks : chunks[i].page = p /\ Inside(SubSeq(pages[p], n, last), chunks[i].text)

\* What is embedded so is whole.
LEMMA DraftsAreWhole ==
  ASSUME RetrievalAssumption, NEW d \in Docs, NEW pages \in Seq(Characters), NEW model, NEW chunks, chunks = Embedded(Drafts(d, pages), model)
  PROVE  IsWhole(pages, chunks, model)
<1>1. PICK all : /\ Cut(pages, Len(pages), all)
                 /\ Drafts(d, pages) = [i \in DOMAIN all |-> [doc |-> d, index |-> i, page |-> all[i].page, text |-> all[i].text]]
  BY DraftsExist
<1>2. DOMAIN chunks = DOMAIN all /\ \A i \in DOMAIN all : chunks[i] = [model |-> model, doc |-> d, index |-> i, page |-> all[i].page, text |-> all[i].text]
  BY <1>1 DEF Embedded
<1>3. ASSUME NEW i \in DOMAIN chunks
      PROVE  /\ chunks[i].model = model /\ chunks[i].index = i /\ Len(chunks[i].text) \in 1..MaxChunk
             /\ Inside(chunks[i].text, pages[chunks[i].page])
  <2>1. PICK x \in Range(all) : chunks[i] = [model |-> model, doc |-> d, index |-> i, page |-> x.page, text |-> x.text]
    BY <1>2 DEF Range
  <2>2. x.page \in 1..Len(pages) /\ IsChunk(x.text, pages[x.page])
    BY <1>1 DEF Cut
  <2>3. PICK text \in Characters : text = pages[x.page]
    BY <2>2
  <2>4. PICK c \in 1..Len(text), e \in 1..Len(text) : c <= e /\ e - c + 1 <= MaxChunk /\ x.text = SubSeq(text, c, e)
    BY <2>2, <2>3 DEF IsChunk
  <2>5. Len(text) \in Nat /\ MaxChunk \in Nat
    BY DEF Characters, RetrievalAssumption
  <2>6. c \in 1..Len(text) /\ e \in c..Len(text) /\ c \in Nat /\ e \in Nat
    BY <2>4, <2>5
  <2>7. Len(x.text) = e - c + 1
    BY <2>4, <2>6, PartIs DEF Characters
  <2>8. Inside(x.text, text)
    <3>1. PICK k, m : k = c - 1 /\ m = e - c + 1
      OBVIOUS
    <3>2. k \in 0..(Len(text) - m) /\ k + 1 = c /\ k + m = e
      BY <2>5, <2>6, <3>1
    <3> QED BY <2>4, <2>7, <3>1, <3>2 DEF Inside
  <2>9. Len(x.text) \in 1..MaxChunk
    BY <2>4, <2>5, <2>6, <2>7
  <2> QED BY <2>1, <2>3, <2>8, <2>9
<1>4. ASSUME NEW p \in DOMAIN pages, NEW n \in 1..Len(pages[p]), NEW last \in n..Min({n + ChunkOverlap, Len(pages[p])}),
             pages[p][n] # 0, pages[p][last] # 0
      PROVE  \E i \in DOMAIN chunks : chunks[i].page = p /\ Inside(SubSeq(pages[p], n, last), chunks[i].text)
  <2>1. PICK text \in Characters : text = pages[p]
    OBVIOUS
  <2>2. Len(text) \in Nat /\ ChunkOverlap \in Nat /\ n \in 1..Len(text)
    BY <2>1 DEF Characters, RetrievalAssumption
  <2>3. last \in n..Len(text) /\ last <= n + ChunkOverlap
    <3>1. PICK a, b : a = n + ChunkOverlap /\ b = Len(text) /\ a \in Int /\ b \in Int
      BY <2>2
    <3>2. Min({a, b}) \in {a, b} /\ Min({a, b}) <= a /\ Min({a, b}) <= b
      BY <3>1, MinOfTwo
    <3>3. PICK m : m = Min({a, b}) /\ m \in Int /\ last \in n..m /\ m <= a /\ m <= b
      BY <2>1, <3>1, <3>2
    <3> QED BY <2>2, <3>1, <3>3
  <2>4. PICK k \in DOMAIN ChunkText(text) : Inside(SubSeq(text, n, last), ChunkText(text)[k])
    <3>1. Covered(text, Len(text), ChunkText(text))
      BY ChunksOfText
    <3>2. n \in (Len(text) - Len(text) + 1)..Len(text)
      BY <2>2
    <3> QED BY <1>4, <2>1, <2>3, <3>1, <3>2 DEF Covered
  <2>5. PICK x \in Range(all) : x.page = p /\ x.text = ChunkText(text)[k]
    <3>1. p \in 1..Len(pages) /\ k \in DOMAIN ChunkText(pages[p])
      BY <2>1, <2>4
    <3>2. \E x \in Range(all) : x.page = p /\ x.text = ChunkText(pages[p])[k]
      BY <1>1, <3>1 DEF Cut
    <3> QED BY <2>1, <3>2
  <2>6. PICK i \in DOMAIN all : all[i] = x
    BY DEF Range
  <2> QED BY <1>2, <2>1, <2>4, <2>5, <2>6
<1> QED BY <1>3, <1>4 DEF IsWhole

LEMMA FitsIsWhole == ASSUME RetrievalAssumption, RagInv PROVE IndexIsWhole
<1> SUFFICES ASSUME NEW d \in Docs, doc[d].index = "indexed", work # [at |-> "delete", doc |-> d]
             PROVE  IsWhole(doc[d].pages, doc[d].chunks, doc[d].model)
  BY DEF IndexIsWhole, IsWhole
<1>1. doc[d].pages \in Seq(Characters)
  BY DEF RagInv, DocRows
<1>2. doc[d].chunks = Embedded(Drafts(d, doc[d].pages), doc[d].model)
  BY DEF RagInv, IndexFits
<1> QED BY <1>1, <1>2, DraftsAreWhole

LEMMA RagBegins == RagInit => RagInv
<1> SUFFICES ASSUME RagInit PROVE RagInv
  OBVIOUS
<1>1. NoDoc \in DocRows /\ NoDoc.index = "absent"
  BY DEF NoDoc, DocRows
<1> QED BY <1>1 DEF RagInit, RagInv, RunFits, IndexFits, Idle

\* What no document's row and the work in hand are changed by
LEMMA RagLeftAlone == ASSUME RagInv, UNCHANGED <<doc, work>> PROVE RagInv'
BY DEF RagInv, RunFits, IndexFits

\* A document that is not indexed, as long as no index run has it in hand
LEMMA RowReplaced ==
  ASSUME RagInv, work = Idle, NEW d \in Docs, NEW row \in DocRows, doc' = [doc EXCEPT ![d] = row], row.index # "indexed",
         work' \in {Idle, [at |-> "begin", doc |-> d]}
  PROVE  RagInv'
<1>1. doc' \in [Docs -> DocRows] /\ \A e \in Docs : doc'[e] = IF e = d THEN row ELSE doc[e]
  BY DEF RagInv
<1>3. RunFits'
  <2>1. work'.at \in {"idle", "begin"} /\ (work'.at = "begin" => work'.doc = d)
    BY DEF Idle
  <2> QED BY <2>1 DEF RunFits
<1>4. IndexFits'
  <2> SUFFICES ASSUME NEW e \in Docs, doc'[e].index = "indexed" PROVE doc'[e].chunks = Embedded(Drafts(e, doc'[e].pages), doc'[e].model)
    BY DEF IndexFits
  <2>1. e # d /\ doc'[e] = doc[e]
    BY <1>1
  <2>2. work # [at |-> "delete", doc |-> e]
    <3>1. work.at = "idle"
      BY DEF Idle
    <3> QED BY <3>1
  <2> QED BY <2>1, <2>2 DEF RagInv, IndexFits
<1> QED BY <1>1, <1>3, <1>4 DEF RagInv

LEMMA DocumentsKept ==
  ASSUME RetrievalAssumption, RagInv, NEW d \in Docs, Import(d) \/ Recognise(d) \/ RequestIndex(d) \/ DeleteChunks(d)
  PROVE  RagInv'
<1>1. work = Idle /\ doc[d] \in DocRows /\ Imported[d] \subseteq Seq(Characters)
  BY DEF Import, Recognise, RequestIndex, DeleteChunks, RagInv, RetrievalAssumption, Characters
<1>2. CASE Import(d)
  <2>1. PICK pages \in Imported[d] : doc' = [doc EXCEPT ![d] = [NoDoc EXCEPT !.pages = pages, !.index = "pending"]]
    BY <1>2 DEF Import
  <2>2. PICK row : row = [NoDoc EXCEPT !.pages = pages, !.index = "pending"]
    OBVIOUS
  <2>3. row \in DocRows /\ row.index = "pending"
    <3>1. row = [pages |-> pages, index |-> "pending", model |-> "none", chunks |-> <<>>]
      BY <2>2 DEF NoDoc
    <3>2. pages \in Seq(Characters) /\ <<>> \in Seq(ChunkRows)
      BY <1>1
    <3> QED BY <3>1, <3>2 DEF DocRows
  <2>4. work' = Idle
    BY <1>1, <1>2 DEF Import
  <2> QED BY <1>1, <2>1, <2>2, <2>3, <2>4, RowReplaced
<1>3. CASE Recognise(d)
  <2>1. PICK pages \in Imported[d] : doc' = [doc EXCEPT ![d].pages = pages, ![d].index = "pending"]
    BY <1>3 DEF Recognise
  <2>2. PICK row : row = [[doc[d] EXCEPT !.pages = pages] EXCEPT !.index = "pending"]
    OBVIOUS
  <2>3. row \in DocRows /\ row.index = "pending"
    BY <1>1, <2>2 DEF DocRows
  <2>4. doc' = [doc EXCEPT ![d] = row]
    BY <2>1, <2>2 DEF RagInv
  <2>5. work' = [at |-> "begin", doc |-> d]
    BY <1>3 DEF Recognise
  <2> QED BY <1>1, <2>3, <2>4, <2>5, RowReplaced
<1>4. CASE RequestIndex(d)
  <2>1. work' = [at |-> "begin", doc |-> d] /\ doc' = doc
    BY <1>4 DEF RequestIndex
  <2>2. RunFits'
    BY <2>1 DEF RunFits
  <2>3. IndexFits'
    <3>1. work.at = "idle"
      BY <1>1 DEF Idle
    <3>2. \A e \in Docs : work # [at |-> "delete", doc |-> e]
      BY <3>1
    <3> QED BY <2>1, <3>2 DEF RagInv, IndexFits
  <2> QED BY <2>1, <2>2, <2>3 DEF RagInv
<1>5. CASE DeleteChunks(d)
  <2>1. work' = [at |-> "delete", doc |-> d] /\ doc' = [doc EXCEPT ![d].chunks = <<>>]
    BY <1>5 DEF DeleteChunks
  <2>2. doc' \in [Docs -> DocRows] /\ \A e \in Docs : e # d => doc'[e] = doc[e]
    <3>1. [doc[d] EXCEPT !.chunks = <<>>] \in DocRows
      <4>1. <<>> \in Seq(ChunkRows)
        OBVIOUS
      <4> QED BY <1>1, <4>1 DEF DocRows
    <3>2. doc' = [doc EXCEPT ![d] = [doc[d] EXCEPT !.chunks = <<>>]]
      BY <2>1 DEF RagInv
    <3> QED BY <3>1, <3>2 DEF RagInv
  <2>3. RunFits'
    BY <2>1 DEF RunFits
  <2>4. IndexFits'
    <3> SUFFICES ASSUME NEW e \in Docs, doc'[e].index = "indexed", e # d PROVE doc'[e].chunks = Embedded(Drafts(e, doc'[e].pages), doc'[e].model)
      BY <2>1 DEF IndexFits
    <3>1. work.at = "idle"
      BY <1>1 DEF Idle
    <3>2. work # [at |-> "delete", doc |-> e]
      BY <3>1
    <3> QED BY <2>2, <3>2 DEF RagInv, IndexFits
  <2> QED BY <2>2, <2>3, <2>4 DEF RagInv
<1> QED BY <1>2, <1>3, <1>4, <1>5

\* The row of the document in hand gets other values.
LEMMA InHandReplaced ==
  ASSUME RagInv, NEW d \in Docs, work.at # "idle", work.doc = d, NEW row \in DocRows, doc' = [doc EXCEPT ![d] = row]
  PROVE  doc' \in [Docs -> DocRows] /\ doc'[d] = row /\ \A e \in Docs : e # d => doc'[e] = doc[e]
BY DEF RagInv

\* Beside the document in hand nothing becomes indexed, and no other document is being deleted.
LEMMA OthersFit ==
  ASSUME RagInv, NEW d \in Docs, work.at # "idle", work.doc = d, \A e \in Docs : e # d => doc'[e] = doc[e],
         doc'[d].index = "indexed" => doc'[d].chunks = Embedded(Drafts(d, doc'[d].pages), doc'[d].model)
  PROVE  IndexFits'
<1> SUFFICES ASSUME NEW e \in Docs, doc'[e].index = "indexed" PROVE doc'[e].chunks = Embedded(Drafts(e, doc'[e].pages), doc'[e].model)
  BY DEF IndexFits
<1>1. CASE e # d
  <2>1. work # [at |-> "delete", doc |-> e]
    BY <1>1
  <2> QED BY <1>1, <2>1 DEF RagInv, IndexFits
<1>2. CASE e = d
  BY <1>2
<1> QED BY <1>1, <1>2

LEMMA BeginIndexKept == ASSUME RetrievalAssumption, RagInv, BeginIndex PROVE RagInv'
<1>1. PICK d \in Docs : d = work.doc /\ work.at = "begin" /\ doc[d] \in DocRows
  BY DEF BeginIndex, RagInv, RunFits
<1>2. PICK drafts : drafts = Drafts(d, doc[d].pages)
  OBVIOUS
<1>3. PICK status \in {"low_text", "indexing"} : status = IF drafts = <<>> THEN "low_text" ELSE "indexing"
  BY Zenon
<1>4. doc' = [doc EXCEPT ![d].index = status] /\ work' = IF drafts = <<>> THEN Idle ELSE [at |-> "embed", doc |-> d, drafts |-> drafts]
  BY <1>1, <1>2, <1>3 DEF BeginIndex
<1>5. PICK row : row = [doc[d] EXCEPT !.index = status]
  OBVIOUS
<1>6. row \in DocRows /\ row.index = status /\ row.pages = doc[d].pages
  BY <1>1, <1>3, <1>5 DEF DocRows
<1>7. doc' = [doc EXCEPT ![d] = row]
  BY <1>4, <1>5 DEF RagInv
<1>8. doc' \in [Docs -> DocRows] /\ doc'[d] = row /\ \A e \in Docs : e # d => doc'[e] = doc[e]
  BY <1>1, <1>6, <1>7, InHandReplaced
<1>9. IndexFits'
  <2>1. doc'[d].index # "indexed"
    BY <1>3, <1>6, <1>8
  <2> QED BY <1>1, <1>8, <2>1, OthersFit
<1>10. RunFits'
  <2>1. CASE drafts = <<>>
    BY <1>4, <2>1 DEF RunFits, Idle
  <2>2. CASE drafts # <<>>
    <3>1. work' = [at |-> "embed", doc |-> d, drafts |-> drafts]
      BY <1>4, <2>2
    <3>2. doc'[d].index = "indexing" /\ drafts = Drafts(d, doc'[d].pages)
      BY <1>2, <1>3, <1>6, <1>8, <2>2
    <3> QED BY <3>1, <3>2 DEF RunFits
  <2> QED BY <2>1, <2>2
<1> QED BY <1>8, <1>9, <1>10 DEF RagInv

LEMMA EmbedKept == ASSUME RagInv, Embed PROVE RagInv'
<1>1. work.at = "embed" /\ doc' = doc /\ work.doc \in Docs /\ doc[work.doc].index = "indexing" /\ work.drafts = Drafts(work.doc, doc[work.doc].pages)
  BY DEF Embed, RagInv, RunFits
<1>2. RunFits'
  <2>1. CASE work' = Idle
    BY <2>1 DEF RunFits, Idle
  <2>2. ASSUME NEW model \in Models, work' = [at |-> "clear", doc |-> work.doc, drafts |-> work.drafts, model |-> model] PROVE RunFits'
    BY <1>1, <2>2 DEF RunFits
  <2> QED BY <2>1, <2>2 DEF Embed
<1>3. IndexFits'
  BY <1>1 DEF RagInv, IndexFits
<1> QED BY <1>1, <1>2, <1>3 DEF RagInv

LEMMA ClearChunksKept == ASSUME RagInv, ClearChunks PROVE RagInv'
<1>1. PICK d \in Docs : d = work.doc /\ work.at = "clear" /\ doc[d] \in DocRows /\ doc[d].index = "indexing" /\ work.model \in Models
                       /\ work.drafts = Drafts(d, doc[d].pages)
  BY DEF ClearChunks, RagInv, RunFits
<1>2. PICK row : row = [doc[d] EXCEPT !.chunks = <<>>]
  OBVIOUS
<1>3. row \in DocRows /\ row.index = "indexing" /\ row.pages = doc[d].pages
  <2>1. <<>> \in Seq(ChunkRows)
    OBVIOUS
  <2> QED BY <1>1, <1>2, <2>1 DEF DocRows
<1>4. doc' = [doc EXCEPT ![d] = row]
  BY <1>1, <1>2 DEF ClearChunks, RagInv
<1>5. doc' \in [Docs -> DocRows] /\ doc'[d] = row /\ \A e \in Docs : e # d => doc'[e] = doc[e]
  BY <1>1, <1>3, <1>4, InHandReplaced
<1>6. work'.at = "put" /\ work'.doc = d /\ work'.drafts = work.drafts /\ work'.model = work.model
  BY <1>1 DEF ClearChunks
<1>7. RunFits'
  BY <1>1, <1>3, <1>5, <1>6 DEF RunFits
<1>8. IndexFits'
  BY <1>1, <1>3, <1>5, OthersFit
<1> QED BY <1>5, <1>7, <1>8 DEF RagInv

LEMMA PutChunksKept == ASSUME RetrievalAssumption, RagInv, PutChunks PROVE RagInv'
<1>1. PICK d \in Docs : d = work.doc /\ work.at = "put" /\ doc[d] \in DocRows /\ doc[d].index = "indexing" /\ work.model \in Models
                       /\ work.drafts = Drafts(d, doc[d].pages)
  BY DEF PutChunks, RagInv, RunFits
<1>2. PICK chunks : chunks = Embedded(work.drafts, work.model)
  OBVIOUS
<1>3. chunks \in Seq(ChunkRows)
  <2>1. doc[d].pages \in Seq(Characters)
    BY <1>1 DEF DocRows
  <2> QED BY <1>1, <1>2, <2>1, DraftsAreRows
<1>4. PICK row : row = [doc[d] EXCEPT !.chunks = chunks]
  OBVIOUS
<1>5. row \in DocRows /\ row.index = "indexing" /\ row.pages = doc[d].pages /\ row.chunks = chunks
  BY <1>1, <1>3, <1>4 DEF DocRows
<1>6. doc' = [doc EXCEPT ![d] = row]
  BY <1>1, <1>2, <1>4 DEF PutChunks, RagInv
<1>7. doc' \in [Docs -> DocRows] /\ doc'[d] = row /\ \A e \in Docs : e # d => doc'[e] = doc[e]
  BY <1>1, <1>5, <1>6, InHandReplaced
<1>8. work'.at = "mark" /\ work'.doc = d /\ work'.drafts = work.drafts /\ work'.model = work.model
  BY <1>1 DEF PutChunks
<1>9. RunFits'
  BY <1>1, <1>2, <1>5, <1>7, <1>8 DEF RunFits
<1>10. IndexFits'
  BY <1>1, <1>5, <1>7, OthersFit
<1> QED BY <1>7, <1>9, <1>10 DEF RagInv

LEMMA MarkIndexedKept == ASSUME RagInv, MarkIndexed PROVE RagInv'
<1>1. PICK d \in Docs : d = work.doc /\ work.at = "mark" /\ doc[d] \in DocRows /\ work.model \in Models
                       /\ doc[d].chunks = Embedded(Drafts(d, doc[d].pages), work.model)
  BY DEF MarkIndexed, RagInv, RunFits
<1>2. PICK row : row = [[doc[d] EXCEPT !.index = "indexed"] EXCEPT !.model = work.model]
  OBVIOUS
<1>3. row \in DocRows /\ row.pages = doc[d].pages /\ row.chunks = doc[d].chunks /\ row.model = work.model
  BY <1>1, <1>2 DEF DocRows
<1>4. doc' = [doc EXCEPT ![d] = row]
  BY <1>1, <1>2 DEF MarkIndexed, RagInv
<1>5. doc' \in [Docs -> DocRows] /\ doc'[d] = row /\ \A e \in Docs : e # d => doc'[e] = doc[e]
  BY <1>1, <1>3, <1>4, InHandReplaced
<1>6. RunFits'
  BY DEF MarkIndexed, RunFits, Idle
<1>7. IndexFits'
  BY <1>1, <1>3, <1>5, OthersFit
<1> QED BY <1>5, <1>6, <1>7 DEF RagInv

LEMMA MarkDeletedKept == ASSUME RagInv, MarkDeleted PROVE RagInv'
<1>1. PICK d \in Docs : d = work.doc /\ work.at = "delete" /\ doc[d] \in DocRows
  BY DEF MarkDeleted, RagInv, RunFits
<1>2. PICK row : row = [doc[d] EXCEPT !.index = "deleted"]
  OBVIOUS
<1>3. row \in DocRows /\ row.index = "deleted"
  BY <1>1, <1>2 DEF DocRows
<1>4. doc' = [doc EXCEPT ![d] = row]
  BY <1>1, <1>2 DEF MarkDeleted, RagInv
<1>5. doc' \in [Docs -> DocRows] /\ doc'[d] = row /\ \A e \in Docs : e # d => doc'[e] = doc[e]
  BY <1>1, <1>3, <1>4, InHandReplaced
<1>6. RunFits'
  BY DEF MarkDeleted, RunFits, Idle
<1>7. IndexFits'
  BY <1>1, <1>3, <1>5, OthersFit
<1> QED BY <1>5, <1>6, <1>7 DEF RagInv

LEMMA RagStays == ASSUME RetrievalAssumption, RagInv, [RagNext]_ragVars PROVE RagInv'
<1>1. CASE \E d \in Docs : Import(d) \/ Recognise(d) \/ RequestIndex(d) \/ DeleteChunks(d)
  BY <1>1, DocumentsKept
<1>2. CASE BeginIndex \/ Embed \/ ClearChunks
  BY <1>2, BeginIndexKept, EmbedKept, ClearChunksKept
<1>3. CASE PutChunks \/ MarkIndexed \/ MarkDeleted
  BY <1>3, PutChunksKept, MarkIndexedKept, MarkDeletedKept
<1>4. CASE Evidence
  <2>1. UNCHANGED <<doc, work>>
    BY <1>4 DEF Evidence, Retrieve, VectorSearch, OcrSearch, Focus, Packet
  <2> QED BY <2>1, RagLeftAlone
<1>5. CASE UNCHANGED ragVars
  BY <1>5, RagLeftAlone DEF ragVars
<1> QED BY <1>1, <1>2, <1>3, <1>4, <1>5 DEF RagNext

\* The inductive invariant of the index (RAGService.index_document, SQLiteNumPyVectorStore), for any documents,
\* pages, models and sizes of chunks.
THEOREM IndexInvariant == RagSpec => []RagInv
<1>1. RagInit => RagInv
  BY RagBegins
<1>2. RagInv /\ [RagNext]_ragVars => RagInv'
  BY RagStays, RetrievalAssumption
<1> QED BY <1>1, <1>2, PTL DEF RagSpec

\* An indexed document can be found by anything it says: what stands together on one of its pages, up to the
\* overlap, stands together in a live chunk (RAGService._chunk_text, _chunk_pages, vector_store.reindex_document).
THEOREM IndexesAreWhole == RagSpec => []IndexIsWhole
<1>1. RagInv => IndexIsWhole
  BY FitsIsWhole, RetrievalAssumption
<1> QED BY <1>1, IndexInvariant, PTL

=============================================================================
