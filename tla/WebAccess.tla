------------------------------ MODULE WebAccess ------------------------------
(***************************************************************************)
(* How a Search reaches the network.  An external one asks the provider    *)
(* from several threads, which share a throttle (search_provider.py).  A   *)
(* local one asks each origin for its robots file, keeps the answer, and   *)
(* fetches pages one by one through redirects and in chunks, within the    *)
(* budget of the run (local_discovery.py, web_fetcher.py).  A byte and a   *)
(* second are units chosen so that every limit is met.                     *)
(*                                                                         *)
(* Left out: which addresses and content types are accepted, the words of  *)
(* a URL, decompression (its output has the limit of the body), the legacy *)
(* form of a robots row, and sitemaps (module Discovery).                  *)
(*                                                                         *)
(* A definition Name_Variant repeats Name with a plausible mistake in it;  *)
(* no specification uses it (README, "How the properties are validated").  *)
(***************************************************************************)
EXTENDS Integers, Sequences, FiniteSets

CONSTANTS
  Queries,        \* of the round, one provider thread each
  Interval,       \* BRAVE_MIN_REQUEST_INTERVAL_SECONDS
  Waits, MaxWait, \* what Retry-After may say, and what is believed of it
  MaxRetries,     \* BRAVE_MAX_RETRIES
  Origins, Pages, OriginOf, Metadata,   \* URLs; Metadata are the feeds and sitemaps among them
  SuccessTTL, PolicyTTL, FailureTTL,    \* of a robots row
  ResponseLimit, TotalBytes, MaxPages, MaxRedirects, Deadline,
  MaxNow          \* bounds time

ASSUME AccessAssumption ==
  /\ OriginOf \in [Pages -> Origins] /\ Metadata \subseteq Pages
  /\ Interval \in Nat /\ MaxRetries \in Nat /\ Waits \subseteq Nat /\ MaxWait \in Nat
  /\ {SuccessTTL, PolicyTTL, FailureTTL, ResponseLimit, TotalBytes, MaxPages, MaxRedirects, Deadline, MaxNow} \subseteq Nat
  /\ SuccessTTL > 0 /\ "none" \notin Queries

VARIABLES
  mode,          \* the provider of the Search: "external" or "local"
  now,
  slot, holder,  \* _next_request_at, and the thread that has the throttle's lock
  caller,        \* per query: where its thread is, tries made, wait asked for
  sent,          \* provider requests, in order
  file,          \* what each origin's robots file says now
  robots,        \* robots_cache
  heard,         \* the last robots file read from each origin (history)
  spent,         \* LocalRunBudget
  req,           \* the request under way
  blamed,        \* URLs marked failed because of their size
  ended          \* the run's local budget is exhausted

throttleVars == <<slot, holder, caller, sent>>
localVars == <<file, robots, heard, spent, req, blamed, ended>>
accessVars == <<mode, now, throttleVars, localVars>>

Files == [allowed : SUBSET Pages, pattern : BOOLEAN]
NoRow == [at |-> 0 - 1, failure |-> "none", allowed |-> {}]
NoRequest == [kind |-> "none", page |-> "none", hops |-> 0, read |-> 0, since |-> 0, limit |-> 0]

AccessInit ==
  /\ mode \in {"external", "local"}
  /\ now = 0 /\ slot = 0 /\ holder = "none" /\ sent = <<>>
  /\ caller = [q \in Queries |-> [at |-> "ready", tries |-> 0, wait |-> 0, target |-> 0]]
  /\ file \in [Origins -> Files]
  /\ robots = [o \in Origins |-> NoRow] /\ heard = [o \in Origins |-> NoRow]
  /\ spent = [bytes |-> 0, pages |-> 0] /\ req = NoRequest /\ blamed = {} /\ ended = FALSE

-----------------------------------------------------------------------------
\* BraveSearchProvider.search, on a thread of the round

\* _reserve_request_slot takes the lock and waits under it.
Reserve(q) ==
  /\ caller[q].at = "ready" /\ holder = "none"
  /\ holder' = q
  /\ LET own == now + caller[q].wait
     IN caller' = [caller EXCEPT ![q].at = "waiting", ![q].target = IF slot > own THEN slot ELSE own]
  /\ UNCHANGED <<slot, sent>>

Send_BooksTarget(q) ==
  /\ caller[q].at = "waiting" /\ now >= caller[q].target
  /\ holder' = "none" /\ slot' = caller[q].target + Interval
  /\ sent' = Append(sent, [query |-> q, at |-> now, due |-> caller[q].target])
  /\ caller' = [caller EXCEPT ![q].at = "asked", ![q].tries = @ + 1]

Send(q) ==
  /\ caller[q].at = "waiting" /\ now >= caller[q].target
  /\ holder' = "none" /\ slot' = now + Interval
  /\ sent' = Append(sent, [query |-> q, at |-> now, due |-> caller[q].target])
  /\ caller' = [caller EXCEPT ![q].at = "asked", ![q].tries = @ + 1]

\* A result, an error that ends the query, or 429 with a Retry-After
Result(q) ==
  /\ caller[q].at = "asked"
  /\ caller' = [caller EXCEPT ![q].at = "done"]
  /\ UNCHANGED <<slot, holder, sent>>

TooMany(q) ==
  /\ caller[q].at = "asked"
  /\ \E wait \in Waits :
       caller' = IF caller[q].tries <= MaxRetries
         THEN [caller EXCEPT ![q].at = "ready", ![q].wait = IF wait < MaxWait THEN wait ELSE MaxWait]
         ELSE [caller EXCEPT ![q].at = "done"]
  /\ UNCHANGED <<slot, holder, sent>>

\* The wait ends early when the Search is cancelled.
GiveUp(q) ==
  /\ caller[q].at = "waiting"
  /\ caller' = [caller EXCEPT ![q].at = "done"] /\ holder' = "none"
  /\ UNCHANGED <<slot, sent>>

ProviderStep ==
  /\ mode = "external"
  /\ \E q \in Queries : Reserve(q) \/ Send(q) \/ Result(q) \/ TooMany(q) \/ GiveUp(q)
  /\ UNCHANGED <<mode, now, localVars>>

-----------------------------------------------------------------------------
\* DiscoveryParser.robots_allows and LocalRunBudget.fetch, on the worker thread

TtlOf(row) ==
  IF row.failure = "none" THEN SuccessTTL ELSE IF row.failure = "fetch_failed" THEN FailureTTL ELSE PolicyTTL
Fresh(o) == robots[o].at >= 0 /\ now - robots[o].at < TtlOf(robots[o])

\* A row that failed denies every page; one that did not is parsed again for the page.
CachedAllows_BodyOnly(p) == p \in robots[OriginOf[p]].allowed
CachedAllows(p) == robots[OriginOf[p]].failure = "none" /\ p \in robots[OriginOf[p]].allowed

\* fetch begins a request if time, bytes and pages are left, bytes being what the run has read so
\* far; a response may take what is left.
Fetch(kind, p, bytes) ==
  IF now >= Deadline \/ bytes >= TotalBytes \/ (kind = "page" /\ spent.pages >= MaxPages)
    THEN ended' = TRUE /\ req' = NoRequest /\ spent' = [spent EXCEPT !.bytes = bytes]
    ELSE /\ req' = [kind |-> kind, page |-> p, hops |-> 0, read |-> 0, since |-> now,
                    limit |-> IF TotalBytes - bytes < ResponseLimit THEN TotalBytes - bytes ELSE ResponseLimit]
         /\ spent' = [bytes |-> bytes, pages |-> spent.pages + IF kind = "page" THEN 1 ELSE 0]
         /\ UNCHANGED ended

KindOf(p) == IF p \in Metadata THEN "metadata" ELSE "page"

\* A candidate that is fetched automatically; a denied one is marked blocked.
TakeCandidate(p) ==
  /\ ~ended /\ req = NoRequest
  /\ IF ~Fresh(OriginOf[p]) THEN Fetch("robots", p, spent.bytes)
     ELSE IF CachedAllows(p) THEN Fetch(KindOf(p), p, spent.bytes)
     ELSE UNCHANGED <<req, spent, ended>>
  /\ UNCHANGED <<robots, heard, blamed>>

\* SafeHttpFetcher.fetch follows redirects itself, and reads a body in chunks.
Redirected ==
  /\ req # NoRequest /\ req.read = 0 /\ req.hops < MaxRedirects
  /\ req' = [req EXCEPT !.hops = @ + 1]
  /\ UNCHANGED <<robots, heard, spent, blamed, ended>>

ReadChunk ==
  /\ req # NoRequest /\ req.read < req.limit
  /\ req' = [req EXCEPT !.read = @ + 1]
  /\ UNCHANGED <<robots, heard, spent, blamed, ended>>

\* robots_allows ends: it keeps the row, and goes on to the page it asked for.
KeepRow(o, failure) ==
  robots' = [robots EXCEPT ![o] = [at |-> now, failure |-> failure,
                                   allowed |-> IF failure = "fetch_failed" THEN Pages ELSE file[o].allowed]]

Failed(o) ==
  /\ req' = NoRequest
  /\ IF req.kind = "robots" THEN KeepRow(o, "fetch_failed") ELSE UNCHANGED robots
  /\ UNCHANGED <<heard, spent, ended>>

\* A declared length over the limit, or one byte more than it: the run's doing when less than a response was left, and then it
\* ends; the page's otherwise, which is marked failed.
TooLarge ==
  /\ req # NoRequest /\ req.read \in {0, req.limit}
  /\ IF req.limit < ResponseLimit
       THEN ended' = TRUE /\ req' = NoRequest /\ UNCHANGED <<robots, heard, spent, blamed>>
       ELSE /\ Failed(OriginOf[req.page])
            /\ blamed' = IF req.kind = "robots" THEN blamed ELSE blamed \cup {<<req.page, req.limit>>}

\* Any other error, a redirect too many and a timeout among them
Breaks ==
  /\ req # NoRequest
  /\ Failed(OriginOf[req.page])
  /\ UNCHANGED blamed

\* A robots file was read; its bytes count like all others, and the page may follow.
RobotsRead ==
  LET o == OriginOf[req.page]
      failure == IF file[o].pattern THEN "robots_unsupported_pattern"
                 ELSE IF req.page \in file[o].allowed THEN "none" ELSE "robots_disallowed"
      bytes == spent.bytes + req.read
  IN /\ KeepRow(o, failure)
     /\ heard' = [heard EXCEPT ![o] = [at |-> now, failure |-> IF file[o].pattern THEN "pattern" ELSE "none",
                                       allowed |-> file[o].allowed]]
     /\ IF failure = "none" THEN Fetch(KindOf(req.page), req.page, bytes)
        ELSE req' = NoRequest /\ spent' = [spent EXCEPT !.bytes = bytes] /\ UNCHANGED ended

Finished ==
  /\ req # NoRequest
  /\ IF req.kind = "robots" THEN RobotsRead
     ELSE req' = NoRequest /\ spent' = [spent EXCEPT !.bytes = @ + req.read] /\ UNCHANGED <<robots, heard, ended>>
  /\ UNCHANGED blamed

LocalStep ==
  /\ mode = "local"
  /\ \/ \E p \in Pages : TakeCandidate(p)
     \/ Redirected \/ ReadChunk \/ TooLarge \/ Breaks \/ Finished
  /\ UNCHANGED <<mode, now, throttleVars, file>>

-----------------------------------------------------------------------------
\* The world

Tick == now < MaxNow /\ now' = now + 1 /\ UNCHANGED <<mode, throttleVars, localVars>>

SiteChanges ==
  /\ mode = "local"
  /\ \E o \in Origins : \E f \in Files : file' = [file EXCEPT ![o] = f]
  /\ UNCHANGED <<mode, now, throttleVars, robots, heard, spent, req, blamed, ended>>

AccessNext == ProviderStep \/ LocalStep \/ Tick \/ SiteChanges

AccessSpec == AccessInit /\ [][AccessNext]_accessVars

-----------------------------------------------------------------------------

\* Whatever the threads of a round do, two provider requests are never sent closer together than
\* the interval, none before the wait its 429 asked for is over, and a query is sent at most once
\* more for every retry it has (BraveSearchProvider).
RequestsKeepApart ==
  /\ \A i, j \in DOMAIN sent : i < j => sent[j].at - sent[i].at >= Interval
  /\ \A i \in DOMAIN sent : sent[i].at >= sent[i].due
  /\ \A q \in Queries : Cardinality({i \in DOMAIN sent : sent[i].query = q}) <= MaxRetries + 1

\* A page, feed or sitemap is requested only while the last robots file read from its origin is
\* not older than a kept answer may be, allows it, and has no pattern the parser cannot read; a
\* file that could not be read allows nothing (robots_allows).
RobotsObeyed ==
  req.kind \in {"page", "metadata"} =>
    LET last == heard[OriginOf[req.page]]
    IN last.at >= 0 /\ last.failure = "none" /\ req.page \in last.allowed /\ req.since - last.at < SuccessTTL

\* The bytes of a run, what is being read included, and its pages stay within their totals, and a
\* URL is marked failed for its size only when a whole response did not suffice, never because
\* the run had less than that left (LocalRunBudget.fetch).
TotalsHold ==
  /\ spent.bytes + req.read <= TotalBytes /\ spent.pages <= MaxPages /\ req.hops <= MaxRedirects
  /\ \A b \in blamed : b[2] = ResponseLimit

\* The limits on what a Search asks of others hold: the provider's pace and the run's totals.
LimitsHold == RequestsKeepApart /\ TotalsHold

=============================================================================
