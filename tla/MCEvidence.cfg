\* One behaviour, one of the four; every limit is small enough to be met.
SPECIFICATION EvidenceSpec
CONSTANTS
  MaxChars = 4
  Lead = 1
  Overlap = 1
  MinRemaining = 2
  MinQuote = 1
  MaxSpans = 2
  Header = 300
  Letters = {"a", ".", " ", "|"}
  MaxText = 5
  Title = "a"
  MaxPassages = 2
  MaxDossier = 5
  MaxSelections = 2
  Contexts = {0, 1200}
  Unit = 300
  Fixed = 300
  Urls = {"page", "feed", "next", "deep", "map", "inside"}
  HostOf <- MCHostOf
  NotPublic = {"inside"}
  Conventional <- MCConventional
  Packs <- MCPacks
  Asked <- MCAsked
  WordsOf <- MCWordsOf
  KeptBefore = {"next"}
  Technical = {"api"}
  Html <- MCHtml
  Entries <- MCEntries
  RobotsFiles <- MCRobotsFiles
  MaxDepth = 1
  ResultsPerQuery = 2
  MaxPerHost = 2
  MaxFetches = 3
  PageRequests = 2
  MaxEntries = 2
  MaxLinks = 2
  Queries = {"q1", "q2"}
  Interval = 2
  Waits = {1, 4}
  MaxWait = 3
  MaxRetries = 1
  Origins = {"site"}
  Pages = {"page", "feed"}
  OriginOf <- MCOriginOf
  Metadata = {"feed"}
  SuccessTTL = 4
  PolicyTTL = 2
  FailureTTL = 1
  ResponseLimit = 2
  TotalBytes = 3
  MaxPages = 1
  MaxRedirects = 1
  Deadline = 5
  MaxNow = 6
  Models = {semantic, lexical}
  Docs = {"notes", "scan"}
  Kinds <- MCKinds
  Imported <- MCImported
  MaxChunk = 4
  ChunkOverlap = 1
  MinChunk = 2
  Limit = 2
  FocusSize = 4
  MaxSnippets = 2
  PacketChars = 6
SYMMETRY MCSymmetry
INVARIANTS
  PageIsCovered
  EvidenceIsExact
  CitationsResolve
  LimitsHold
  RobotsObeyed
  IndexIsWhole
PROPERTIES
  DiscoveryIsBounded
  HitsAreGiven
\* Each of them comes to an end.
CHECK_DEADLOCK FALSE
