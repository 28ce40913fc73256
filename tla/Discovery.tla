------------------------------ MODULE Discovery ------------------------------
(***************************************************************************)
(* How a local Search finds what to fetch (local_discovery.py, and the     *)
(* local half of SearchService._acquire_round): before each query the      *)
(* pages that are kept go into the frontier, Source Packs put URLs into it *)
(* when the query matches them, robots files, sitemaps, feeds and pages    *)
(* put in what they name, the frontier is searched, and what it offers is  *)
(* merged and bounded.  A page is fetched again only when it was deleted   *)
(* or its Search failed; statuses and retries are module WebCache's, and   *)
(* so is a deletion beside the seeding.                                    *)
(*                                                                         *)
(* Texts are left out: which rows match a query, and in which order, is    *)
(* any; with them go priorities, titles, the discoveries table and         *)
(* the metrics.  A page is the sequence of its tags and words, a robots    *)
(* file that of its lines.                                                 *)
(*                                                                         *)
(* A definition Name_Variant repeats Name with a plausible mistake in it;  *)
(* no specification uses it (README, "How the properties are validated").  *)
(***************************************************************************)
EXTENDS Lists

CONSTANTS
  Urls, HostOf, NotPublic,  \* URLs, their hosts, and those at a literal private address
  Conventional,             \* per host: its /sitemap.xml
  Packs,                    \* sequence of [title, words, seeds, containers], in the order of their paths
  Asked, WordsOf,           \* the queries of each round, and the words of each
  KeptBefore,               \* pages that Searches may have kept before there was a frontier
  Technical,                \* words that make one shared word enough
  Html,                     \* [URLs -> sequence of tags] of the pages
  Entries,                  \* [URLs -> [index, urls]] of the sitemaps and feeds
  RobotsFiles,              \* what a robots file may be
  MaxDepth, ResultsPerQuery, MaxPerHost, MaxFetches, PageRequests, MaxEntries, MaxLinks

ASSUME DiscoveryAssumption ==
  /\ NotPublic \subseteq Urls /\ KeptBefore \subseteq Urls \ NotPublic /\ DOMAIN HostOf = Urls
  /\ UNION {Range(Asked[r]) : r \in DOMAIN Asked} \subseteq DOMAIN WordsOf
  /\ DOMAIN Html \cap DOMAIN Entries = {}
  /\ {MaxDepth, ResultsPerQuery, MaxPerHost, MaxFetches, PageRequests, MaxEntries, MaxLinks} \subseteq Nat

VARIABLES
  stage,
  pass,       \* the round whose queries are asked
  known,      \* crawl_frontier: kind, depth and metadata of each URL in it
  robotsOf,   \* per host: the robots file it has
  decided,    \* per host: what was made of it, once it was read
  offered,    \* what the frontier offered the queries of this round, one by one
  todo,       \* candidates still to be fetched, with the depth they were offered with
  scheduled,  \* all of the round
  cached,     \* current pages of the corpus
  gone,       \* no longer eligible: kept pages, fetched containers, and what failed or was denied
  observed,   \* pages kept by this Search
  pages,      \* page requests of this Search
  ways        \* history: <<a, b>> when page a was seen to link to b; a is "pack", "cached", "robots" or "entry" elsewhere

discVars == <<stage, pass, known, robotsOf, decided, offered, todo, scheduled, cached, gone, observed, pages, ways>>

Unknown == [kind |-> "none", depth |-> 0, container |-> FALSE, pack |-> ""]
Hosts == {HostOf[u] : u \in Urls}

-----------------------------------------------------------------------------
\* FrontierStore

\* discover: kind and metadata stay those of the first discovery, the depth is the least.
Discover(old, u, kind, depth, container, pack) ==
  [old EXCEPT ![u] = IF @.kind = "none" THEN [kind |-> kind, depth |-> depth, container |-> container, pack |-> pack]
                     ELSE [@ EXCEPT !.depth = Min({@, depth})]]

\* search: the rows that match, best first; a limit is applied before the packs are, and one after.
SearchFrontier(rows, allowed, ranked) ==
  LET limit == 4 * Max({1, ResultsPerQuery})
  IN Upto(SelectSeq(Upto(ranked, 4 * limit), LAMBDA u : rows[u].pack = "" \/ rows[u].pack \in allowed), limit)

\* What a query may match
Rankings(rows, out) ==
  LET eligible == {u \in Urls : rows[u].kind # "none" /\ rows[u].depth <= MaxDepth /\ u \notin out}
  IN UNION {SetToSeqs(s) : s \in SUBSET eligible}

\* BoundedNavigationHTMLParser: the link of an outer anchor ends with the first end tag, one
\* without words is dropped, and none begins once there are enough.
NavigationLinks(tags) ==
  FoldLeft(LAMBDA p, tag :
      IF tag.is = "a" THEN IF p.href = "" /\ Len(p.links) < MaxLinks THEN [p EXCEPT !.href = tag.to, !.words = FALSE] ELSE p
      ELSE IF tag.is = "/a" /\ p.href # ""
        THEN [p EXCEPT !.href = "", !.links = IF p.words THEN Append(@, p.href) ELSE @]
      ELSE IF tag.is = "word" THEN [p EXCEPT !.words = TRUE] ELSE p,
    [href |-> "", words |-> FALSE, links |-> <<>>], tags).links

Public(s) == SelectSeq(s, LAMBDA u : u \notin NotPublic)

\* discover_links, for a page at some depth
LinksOf(u) == IF u \in DOMAIN Html THEN Public(NavigationLinks(Html[u])) ELSE <<>>

DiscoverLinks(old, u, depth) ==
  FoldLeft(LAMBDA rows, v : Discover(rows, v, "hyperlink", depth + 1, FALSE, ""), old, LinksOf(u))

\* parse_sitemap and parse_feed: the first entries, those at a private address among them
EntriesOf(u) == Public(Upto(Entries[u].urls, MaxEntries))
ParseEntries(old, u) ==
  FoldLeft(LAMBDA rows, v : Discover(rows, v, "entry", IF Entries[u].index THEN 0 ELSE 1, Entries[u].index, ""),
           old, EntriesOf(u))

-----------------------------------------------------------------------------
\* Robots files

\* robots_has_unsupported_pattern
HasPattern(lines) ==
  FoldLeft(LAMBDA p, line :
      IF line.is = "agent"
        THEN [p EXCEPT !.applies = (@ /\ ~p.directives) \/ line.ours, !.directives = FALSE]
      ELSE IF line.is = "rule" THEN [p EXCEPT !.directives = TRUE, !.found = @ \/ (p.applies /\ line.pattern)] ELSE p,
    [applies |-> FALSE, directives |-> FALSE, found |-> FALSE], lines).found

\* The sitemaps robots_allows takes from a file, or the conventional one when the page is
\* allowed and the file names none
Sitemaps(lines, host, allowed) ==
  LET declared == Upto(SelectSeq(lines, LAMBDA l : l.is = "sitemap"), MaxEntries)
      named == FirstOf(Public([i \in DOMAIN declared |-> declared[i].to]), LAMBDA u : u)
  IN IF named = <<>> /\ allowed THEN <<Conventional[host]>> ELSE named

RobotsAllows(host) == IF HasPattern(robotsOf[host]) THEN {"pattern"} ELSE {"none", "disallowed"}

-----------------------------------------------------------------------------
\* Source Packs

\* matching_packs, by the share of the pack's words that the query has
MatchingPacks(q) ==
  LET Shared(p) == Cardinality(Packs[p].words \cap WordsOf[q])
      matching == {p \in DOMAIN Packs : Shared(p) >= 2 \/ (Shared(p) = 1 /\ WordsOf[q] \cap Technical # {})}
      Before(p, r) == LET a == Shared(p) * Cardinality(Packs[r].words)
                          b == Shared(r) * Cardinality(Packs[p].words)
                      IN a > b \/ (a = b /\ p < r)
  IN InOrder(matching, Before)

\* activate: a URL at a private address raises, and what came before it stays.
PackUrls(p) == [i \in DOMAIN Packs[p].seeds |-> [url |-> Packs[p].seeds[i], container |-> FALSE, pack |-> Packs[p].title]]
               \o [i \in DOMAIN Packs[p].containers |-> [url |-> Packs[p].containers[i], container |-> TRUE, pack |-> Packs[p].title]]
Before(urls) == SubSeq(urls, 1, Min({i \in DOMAIN urls : urls[i].url \in NotPublic} \cup {Len(urls) + 1}) - 1)
Activate(old, urls) == FoldLeft(LAMBDA rows, x : Discover(rows, x.url, "source_pack", 0, x.container, x.pack), old, urls)

\* seed_cached_documents: a page that is kept is named by the corpus itself, at depth 0.
Seeded(old) == FoldSet(LAMBDA u, rows : Discover(rows, u, "cached", 0, FALSE, ""), old, cached)

-----------------------------------------------------------------------------
\* Candidates

\* prioritize_candidates: each URL a query was offered, once; their weights are left out.
Prioritized(lists) == SetToSeqs(UNION {Range(lists[q]) : q \in DOMAIN lists})

Bound_CountsContainers(candidates, rows, remaining, out) ==
  FoldLeft(LAMBDA s, u :
      IF \/ s # <<>> /\ Len(s) >= MaxFetches
         \/ u \in out
         \/ Len(SelectSeq(s, LAMBDA v : HostOf[v] = HostOf[u])) >= MaxPerHost
         \/ ~rows[u].container /\ Len(s) >= remaining
      THEN s ELSE Append(s, u), <<>>, candidates)

\* bound_candidates, which takes one before it looks at its limit
Bound(candidates, rows, remaining, out) ==
  FoldLeft(LAMBDA s, u :
      IF \/ s # <<>> /\ Len(s) >= MaxFetches
         \/ u \in out
         \/ Len(SelectSeq(s, LAMBDA v : HostOf[v] = HostOf[u])) >= MaxPerHost
         \/ ~rows[u].container /\ Len(SelectSeq(s, LAMBDA v : ~rows[v].container)) >= remaining
      THEN s ELSE Append(s, u), <<>>, candidates)

Remaining == PageRequests - pages
WithDepth(urls, rows) == [i \in DOMAIN urls |-> [url |-> urls[i], depth |-> rows[urls[i]].depth]]

-----------------------------------------------------------------------------
\* Rounds

DiscInit ==
  /\ stage = "asking" /\ pass = 1
  /\ known = [u \in Urls |-> Unknown]
  /\ robotsOf \in [Hosts -> RobotsFiles] /\ decided = [h \in Hosts |-> "unread"]
  /\ offered = <<>> /\ todo = <<>> /\ scheduled = {}
  /\ cached \in SUBSET KeptBefore /\ gone = {} /\ observed = {} /\ pages = 0 /\ ways = {}

\* LocalDiscoveryProvider.search for the next query: seed what is kept, activate what matches, then search
Ask ==
  /\ stage = "asking" /\ Len(offered) < Len(Asked[pass])
  /\ LET packs == MatchingPacks(Asked[pass][Len(offered) + 1])
         urls == FlattenSeq([i \in DOMAIN packs |-> PackUrls(packs[i])])
         good == Before(urls)
     IN /\ known' = Activate(Seeded(known), good)
        /\ gone' = gone \cup cached
        /\ ways' = ways \cup {<<"cached", u>> : u \in cached} \cup {<<"pack", good[i].url>> : i \in DOMAIN good}
        /\ IF good # urls THEN stage' = "failed" /\ UNCHANGED offered
           ELSE /\ \E ranked \in Rankings(known', gone') :
                     offered' = Append(offered, Upto(SearchFrontier(known', {Packs[p].title : p \in Range(packs)}, ranked), ResultsPerQuery))
                /\ UNCHANGED stage
  /\ UNCHANGED <<pass, robotsOf, decided, todo, scheduled, cached, observed, pages>>

Merge ==
  /\ stage = "asking" /\ Len(offered) = Len(Asked[pass])
  /\ \E candidates \in Prioritized(offered) : todo' = WithDepth(Bound(candidates, known, Remaining, observed), known)
  /\ scheduled' = {todo'[i].url : i \in DOMAIN todo'}
  /\ stage' = "fetching"
  /\ UNCHANGED <<pass, known, robotsOf, decided, offered, cached, gone, observed, pages, ways>>

\* _fetch_and_extract, for the first of the candidates
Candidate == Head(todo)
Host == HostOf[Candidate.url]
Fetching == stage = "fetching" /\ todo # <<>> /\ Remaining > 0

ReadRobots ==
  /\ Fetching /\ decided[Host] = "unread"
  /\ \E failure \in RobotsAllows(Host) :
       LET sitemaps == Sitemaps(robotsOf[Host], Host, failure = "none")
       IN /\ decided' = [decided EXCEPT ![Host] = failure]
          /\ known' = FoldLeft(LAMBDA rows, v : Discover(rows, v, "sitemap", 0, TRUE, ""), known, sitemaps)
          /\ ways' = ways \cup {<<"robots", v>> : v \in Range(sitemaps)}
  /\ UNCHANGED <<stage, pass, robotsOf, offered, todo, scheduled, cached, gone, observed, pages>>

Drop ==
  /\ Fetching /\ decided[Host] # "unread"
  /\ todo' = Tail(todo) /\ gone' = gone \cup {Candidate.url}
  /\ pages' \in IF decided[Host] = "none" /\ ~known[Candidate.url].container THEN {pages, pages + 1} ELSE {pages}
  /\ UNCHANGED <<stage, pass, known, robotsOf, decided, offered, scheduled, cached, observed, ways>>

FetchContainer ==
  /\ Fetching /\ decided[Host] = "none" /\ known[Candidate.url].container
  /\ Candidate.url \in DOMAIN Entries
  /\ known' = ParseEntries(known, Candidate.url)
  /\ ways' = ways \cup {<<IF Entries[Candidate.url].index THEN "robots" ELSE "entry", v>> : v \in Range(EntriesOf(Candidate.url))}
  /\ todo' = Tail(todo) /\ gone' = gone \cup {Candidate.url}
  /\ UNCHANGED <<stage, pass, robotsOf, decided, offered, scheduled, cached, observed, pages>>

\* A page whose text may be unusable; if it has links, they are searched at once, without the packs.
FetchPage ==
  /\ Fetching /\ decided[Host] = "none" /\ ~known[Candidate.url].container
  /\ pages' = pages + 1
  /\ \E usable \in BOOLEAN :
       /\ observed' = IF usable THEN observed \cup {Candidate.url} ELSE observed
       /\ gone' = IF usable THEN gone ELSE gone \cup {Candidate.url}
  /\ LET Linked(s) == Upto(SelectSeq(s, LAMBDA u : known'[u].kind = "hyperlink"), ResultsPerQuery)
     IN /\ known' = DiscoverLinks(known, Candidate.url, Candidate.depth)
        /\ ways' = ways \cup {<<Candidate.url, v>> : v \in Range(LinksOf(Candidate.url))}
        /\ \E lists \in [DOMAIN Asked[pass] -> IF LinksOf(Candidate.url) = <<>> THEN {<<>>}
                              ELSE {Linked(SearchFrontier(known', {}, ranked)) : ranked \in Rankings(known', gone)}] :
           \E candidates \in Prioritized(lists) :
             LET more == Bound(candidates, known', PageRequests - pages', scheduled \cup observed)
             IN todo' = Tail(todo) \o WithDepth(more, known') /\ scheduled' = scheduled \cup Range(more)
  /\ UNCHANGED <<stage, pass, robotsOf, decided, offered, cached>>

\* A round is over, and with it perhaps the Search, which keeps its pages or, when it fails, does not.
EndRound ==
  /\ stage = "fetching" /\ ~Fetching
  /\ offered' = <<>> /\ todo' = <<>> /\ scheduled' = {}
  /\ UNCHANGED <<known, robotsOf, decided, ways>>

RepairRound ==
  /\ EndRound /\ pass < Len(Asked)
  /\ stage' = "asking" /\ pass' = pass + 1
  /\ UNCHANGED <<cached, gone, observed, pages>>

EndSearch ==
  /\ EndRound
  /\ \E kept \in {{}, observed} : cached' = cached \cup kept /\ gone' = gone \cup kept
  /\ observed' = {} /\ pages' = 0
  /\ IF pass < Len(Asked) THEN stage' = "asking" /\ pass' = pass + 1 ELSE stage' = "done" /\ UNCHANGED pass

\* The user deletes a kept page, which is to be fetched again, at the depth it has.
ForgetPage(u) ==
  /\ u \in cached
  /\ cached' = cached \ {u} /\ gone' = gone \ {u}
  /\ UNCHANGED <<stage, pass, known, robotsOf, decided, offered, todo, scheduled, observed, pages, ways>>

DiscNext ==
  \/ Ask \/ Merge \/ ReadRobots \/ Drop \/ FetchContainer \/ FetchPage \/ RepairRound \/ EndSearch
  \/ \E u \in cached : ForgetPage(u)

DiscSpec == DiscInit /\ [][DiscNext]_discVars

-----------------------------------------------------------------------------

\* What the frontier offers is within max_depth links of a place the user or a site named or of a
\* page that was kept, whatever detours the crawl found it by and however old the depth a page was
\* offered with, and nothing at a private address is ever in it (FrontierStore.discover,
\* seed_cached_documents, discover_links).
Within[n \in 0..MaxDepth] ==
  LET named(kinds) == {w[2] : w \in {x \in ways : x[1] \in kinds}}
  IN named({"pack", "cached", "robots"}) \cup (IF n = 0 THEN {} ELSE named({"entry"} \cup Within[n - 1]) \cup Within[n - 1])
OfferedIsNear ==
  /\ \A q \in DOMAIN offered : Range(offered[q]) \subseteq Within[MaxDepth]
  /\ scheduled \subseteq Within[MaxDepth]
  /\ \A u \in NotPublic : known[u] = Unknown

\* A robots file has a pattern the parser cannot read for us exactly when a rule of a group with
\* our agent in it has one (robots_has_unsupported_pattern, which reads the lines once).
RobotsFileIsUnderstood ==
  \A h \in Hosts :
    LET lines == robotsOf[h]
        Governs(a, i) == /\ a < i /\ lines[a].is = "agent" /\ lines[a].ours
                         /\ ~ \E j, k \in a..i : j < k /\ lines[j].is = "rule" /\ lines[k].is = "agent"
    IN decided[h] # "unread" =>
         (decided[h] = "pattern" <=> \E i \in DOMAIN lines : lines[i].is = "rule" /\ lines[i].pattern /\ \E a \in DOMAIN lines : Governs(a, i))

\* The candidates of a round are different URLs within the limits on requests, hosts and pages,
\* none was kept before, and what was left out did not fit one of them (bound_candidates).
CandidatesAreBounded ==
  [][stage = "asking" /\ stage' = "fetching" =>
       LET taken == scheduled'
           OfHost(u) == Cardinality({v \in taken : HostOf[v] = HostOf[u]})
           Taken == Cardinality({v \in taken : ~known[v].container})
       IN /\ Len(todo') = Cardinality(taken) /\ Cardinality(taken) <= Max({1, MaxFetches})
          /\ taken \cap observed = {} /\ Taken <= Remaining /\ \A u \in taken : OfHost(u) <= MaxPerHost
          /\ \A q \in DOMAIN offered : \A u \in Range(offered[q]) \ (taken \cup observed) :
               Cardinality(taken) >= MaxFetches \/ OfHost(u) >= MaxPerHost \/ (~known[u].container /\ Taken >= Remaining)]_discVars

\* Together: what a local Search decides to fetch is near, allowed for all it can tell, and in bounds.
DiscoveryIsBounded == []OfferedIsNear /\ []RobotsFileIsUnderstood /\ CandidatesAreBounded
=============================================================================
