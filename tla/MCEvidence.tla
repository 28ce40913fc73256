------------------------------ MODULE MCEvidence ------------------------------
(***************************************************************************)
(* The four ways evidence comes to an answer, each with its own state: the *)
(* text of a web page (EvidencePath), what a local Search finds to fetch   *)
(* (Discovery), how a Search reaches the network (WebAccess), and the      *)
(* passages of the user's documents (Retrieval).  They share no state, so  *)
(* a behaviour runs one of them and the others stay as they are.           *)
(***************************************************************************)
EXTENDS EvidencePath, Discovery, WebAccess, Retrieval

VARIABLE runs \* which of them

evidenceVars == <<runs, pathVars, discVars, accessVars, ragVars>>

EvidenceInit ==
  /\ runs \in {"path", "discovery", "access", "retrieval"}
  /\ PathInit /\ (runs # "path" => text = <<>> /\ context = 0)
  /\ DiscInit /\ (runs # "discovery" => cached = {} /\ \A h \in Hosts : robotsOf[h] = <<>>)
  /\ cached # {} => \A h \in Hosts : \A i \in DOMAIN robotsOf[h] : robotsOf[h][i].is = "sitemap"
  /\ AccessInit /\ (runs # "access" => mode = "external" /\ \A o \in Origins : file[o] = [allowed |-> {}, pattern |-> FALSE])
  /\ RagInit

EvidenceNext ==
  \/ runs = "path" /\ PathNext /\ UNCHANGED <<runs, discVars, accessVars, ragVars>>
  \/ runs = "discovery" /\ DiscNext /\ UNCHANGED <<runs, pathVars, accessVars, ragVars>>
  \/ runs = "access" /\ AccessNext /\ UNCHANGED <<runs, pathVars, discVars, ragVars>>
  \/ runs = "retrieval" /\ RagNext /\ UNCHANGED <<runs, pathVars, discVars, accessVars>>

EvidenceSpec == EvidenceInit /\ [][EvidenceNext]_evidenceVars

-----------------------------------------------------------------------------
\* Discovery: three rounds: a pack with a page, one with a feed that only technical words call for,
\* one that has a private address, a page that links on, and robots files of up to four lines
\* (of which an agent without rules at the end governs nothing, and none is tried). A page that was kept before
\* is tried with the files that only name sitemaps.

MCHostOf == [u \in Urls |-> "site"]
MCConventional == [h \in {"site"} |-> "map"]
MCPacks == <<[title |-> "A", words |-> {"tea", "leaf"}, seeds |-> <<"page">>, containers |-> <<>>],
             [title |-> "B", words |-> {"milk", "cup", "tea"}, seeds |-> <<>>, containers |-> <<"feed">>],
             [title |-> "C", words |-> {"rice", "bowl"}, seeds |-> <<"deep", "inside">>, containers |-> <<>>]>>
MCAsked == <<<<"q1">>, <<"q2">>, <<"q3">>>>
MCWordsOf == [q1 |-> {"tea", "leaf"}, q2 |-> {"tea", "api"}, q3 |-> {"rice", "bowl"}]
A(u) == [is |-> "a", to |-> u]
End == [is |-> "/a"]
Word == [is |-> "word"]
MCHtml == [page |-> <<A("next"), A("inside"), Word, End, A("map"), End, A("inside"), Word, End>>,
           next |-> <<A("deep"), Word, End, A("page"), Word, End>>]
MCEntries == [feed |-> [index |-> FALSE, urls |-> <<"inside", "page", "deep">>],
              map |-> [index |-> TRUE, urls |-> <<"feed">>]]
Lines == {[is |-> "agent", ours |-> TRUE], [is |-> "agent", ours |-> FALSE],
          [is |-> "rule", pattern |-> TRUE], [is |-> "rule", pattern |-> FALSE]}
MCRobotsFiles == {s \in BoundedSeq(Lines, 4) : s # <<>> => s[1].is = "agent" /\ Last(s).is = "rule"} \cup BoundedSeq([is : {"sitemap"}, to : {"map", "inside"}], 2)

-----------------------------------------------------------------------------
\* WebAccess: one site with a page and a feed, and two queries of a round.

MCOriginOf == [p \in Pages |-> "site"]

-----------------------------------------------------------------------------
\* Retrieval: a Markdown document and a scan, each with a long page and a short one, two pages that
\* fit a packet together, or nothing.

MCKinds == [d \in Docs |-> IF d = "notes" THEN "md" ELSE "scan"]
MCImported ==
  [d \in Docs |-> IF d = "notes" THEN {<<<<1, 2, 3, 0, 4, 5, 6, 7, 8, 10, 11>>, <<9>>>>, <<<<12, 0, 13>>, <<14>>>>}
                  ELSE {<<<<15>>, <<14>>>>, <<<<0>>>>}]
MCSymmetry == Permutations(Models)
=============================================================================
