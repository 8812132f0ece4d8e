SPECIFICATION Spec

CONSTANTS
  p1 = p1
  p2 = p2
  r1 = r1
  r2 = r2
  t1 = t1
  t2 = t2

  Publishers = {p1, p2}
  Sources = {"robot", "site"}
  Docs = {"pdd", "sdd", "page"}
  SourceOf <- MCSourceOf
  Corpus <- MCCorpus
  Described <- MCDescribed
  Contents <- MCContents
  Jobs <- MCJobs
  Registries <- MCRegistries
  MaxChars = 2
  MaxJobs = 2
  MaxEdits = 1

  Limit = 2
  TopK = 4
  Pages <- MCPages

  Runners = {r1, r2}
  Directories <- MCDirectories
  MaxSeeds = 3

  Questions <- MCQuestions
  Replies <- MCReplies
  Clocks <- MCClocks
  SeededFrom = 115
  Hours = 2
  FirstYear = 2024
  Years = 2

  Tabs = {t1, t2}
  Inactivity = 2
  Absolute = 3
  Horizon = 7
  MaxLogins = 1

  Datasets <- MCDatasets
  Suites <- MCSuites
  Mapped = {"pdd"}
  Searches <- MCSearches
  Blocks <- MCBlocks
  Exchanges <- MCExchanges

CHECK_DEADLOCK FALSE

INVARIANTS
  ServicesTypeOK
  WholeDocuments
  OneVersionOfEach
  CasesAreWhole
  NamedCaseOnly
  TotalsMeanTheirWords
  PassIsEarned

PROPERTIES
  LetInInTime
