SPECIFICATION Spec
CONSTANTS
  Models = {"qwen", "haiku", "sonnet"}
  Target = "sonnet"
  CostRank <- MCCostRank
  ProviderOf <- MCProviderOf
  Penalty <- MCPenalty
  LangOf <- MCLangOf
  Runs = {"r", "s"}
  Cascades = {"r", "s"}
  Complex = {"s"}
  SkipAttempts = 2
  MaxTries = 2
  Executions = {"loop1", "loop2", "judged", "plain", "headless", "abreast", "inline", "pipe", "branch", "lost", "alone"}
  ModeOf <- MCModeOf
  Width = 3
  Leaderless = {"headless", "lost"}
  Judged = {"judged"}
  MaxSubtasks = 3
  MaxSteps = 3
  Scores = {1, 5, 8}
  Unscored = 10
  Teams = {"info", "stock", "meta", "c/own"}
  MetaTeams = {"meta"}
  Info = "info"
  OwnerOf <- MCOwnerOf
  Companies = {"c"}
  Tasks = {"said", "tagged", "fits", "direct", "odd"}
  CompanyOf <- MCCompanyOf
  TagOf <- MCTagOf
  BoundTo <- MCBoundTo
  Matches <- MCMatches
  Keywords <- MCKeywords
  Unknown = {"odd"}
  Bindings <- MCBindings
  Names = {"a"}
  LoopIds = {1, 2, 3}
  Hands = {"h"}
  MaxEdition = 2
  Jobs = {"d", "i"}
  Dates = {"d"}
  UsMaxFires = 2
  UsMaxStops = 2
  Calls = {"a", "b"}
  AgentCalls = {"a", "b"}
  EventCap = 1
  MaxAttempts = 2
  MaxConns = 3
  Events = {"e1", "e2", "e3"}
  Consoles = {"u"}
  MaxSubscribers = 1
  QueueSize = 1
  EvMaxConnects = 2
  EvMaxFaults = 2
INVARIANTS
  EscalatesBeforeSettling
  AttemptsCounted
  DoneWorkSurvives
  ProgressTells
  DecisionsHold
  RunsAreTold
  
  ClientInHand
  EventsKeepTheirNumbers
CHECK_DEADLOCK FALSE
