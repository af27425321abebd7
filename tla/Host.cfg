SPECIFICATION HostSpec
CONSTANTS
  Parts = {"setup", "feed", "calls", "stall", "cache", "messages", "responses",
           "translation"}
  OssProviders = {"openrouter"}
  FrontierProviders = {"anthropic"}
  MaxSetups = 2
  BaseUrls <- MCBaseUrls
  MaxVersion = 2
  MaxStops = 2
  Flaws = {"schema", "envelope", "registry", "version"}
  Calls = {c1, c2}
  Adapters = {"sdk", "oauth", "codex"}
  MaxAttempts = 2
  MaxRotations = 2
  Sessions = {s1, s2, s3}
  Tools = {"none", "edit", "read"}
  MaxEntries = 2
  Ttl = 1
  Repeats = 2
  Errored = 1
  TurnFloor = 3
  MaxTurns = 3
  MaxRequests = 3
  MaxTime = 2
  Keys = {k1, k2, k3}
  CacheSize = 2
  CacheTtls = {0, 1}
  CacheClock = 2
  MaxUses = 5
  Upstreams = {"anthropic", "openai"}
  MaxBlocks = 3
  MaxDeltas = 4
  MaxParts = 4
  MaxCalls = 2
  MaxAnswers = 2
  AnswerBlocks = 3
INVARIANTS
  HostTypeOK
  ReadyAfterSetup
  VerifiedConfigRoutes
  NothingLeftRunning
  RegistryVouchedFor
  RejectedTokenNotResent
  FailuresClassified
  VerdictMatchesHistory
  ReportedOncePerStay
  LookupsMatchHistory
  ContentSurvives
  StopReasonSurvives
  OutputHoldsStream
  ConversationSurvives
PROPERTIES
  ComesUp
  EvictedForCause
  ImplementsAnthropicWire
  ImplementsResponsesWire
CHECK_DEADLOCK FALSE
