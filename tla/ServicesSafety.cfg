SPECIFICATION Spec
CONSTANTS
  r = r
  k = k
  c1 = c1
  c2 = c2
  p1 = p1
  p2 = p2
  x1 = x1
  x2 = x2
  x3 = x3
  q1 = q1
  q2 = q2
  g1 = g1
  g2 = g2
  g3 = g3
  Keys <- MCKeys
  Facts <- MCFacts
  MaxAccess = 1
  Words <- MCWords
  InKey <- MCInKey
  InSummary <- MCInSummary
  Similar <- MCSimilar
  Overhead <- MCOverhead
  SummaryLen = 2
  FactLen = 3
  MinLeft = 3
  Limit = 2
  Budget = 7
  MaxWrites = 2
  MaxFaults = 1
  CaMaxWrites = 2
  CaMaxFaults = 2
  Results = r
  Deployments <- MCDeployments
  MinHealthy = 2
  Sources <- MCSources
  SourceType <- MCSourceType
  SourceTier <- MCSourceTier
  MaxReports = 1
  MaxCycles = 2
  MaxDecided = 1
  MaxCrashes = 1
  Publishers <- MCPublishers
  Docs <- MCDocs
  PublishedAt <- MCPublishedAt
  FreshUntil <- MCFreshUntil
  IndexCap = 2
  SearchLimit = 1
  PKMaxTime = 2
  PKMaxOps = 4
  PKMaxFaults = 1
  Digest <- MCDigest
  KeyLatest = g3
  NoDigest = NoDigest
  DgMaxFaults = 2
  Callers = {"u", "v"}
  Queries <- MCQueries
  Gathered <- MCGathered
  FrontPage = q1
  HasKey = {"x"}
  TTL = 1
  FdMaxNow = 3
  FdMaxCalls = 2
SYMMETRY Alike
INVARIANTS
  CopiesFollow
  RecallFits
  ProposalsComplete
  StoredAsPromised
  AnswersAreOwn
PROPERTIES
  CanaryKeepsWord
CHECK_DEADLOCK FALSE
