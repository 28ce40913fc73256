----------------------------- MODULE MCSearchRun -----------------------------
\* One Search run, small: a page with a link to another, and a feed that lists the first.
EXTENDS SearchRun

MCLinks == [u \in Urls |-> IF u = "feed" THEN {"page"} ELSE IF u = "page" THEN {"next"} \cap Urls ELSE {}]
MCSays == [u \in Urls |-> IF u = "page" THEN {"x", "y"} ELSE {"z"}]

\* From a cache in which nothing was left behind
PersistenceSpec == SearchInit /\ (\A r \in Rows : rows[r].state # "staged") /\ [][SearchNext]_searchVars
=============================================================================
