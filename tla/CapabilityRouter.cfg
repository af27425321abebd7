SPECIFICATION FairSpec
CONSTANTS
  c1 = c1
  c2 = c2
  Registry <- SmallRegistry
  Eligible = {"vllm", "fireworks", "anthropic"}
  Configured = {"vllm", "fireworks", "anthropic"}
  Threshold = 70
  FallbackDepth = 5
  ReliabilityFloor = 40
  EscalateTokens = 64000
  Callers = {c1, c2}
  Requests = {"saver", "auto", "refused", "nothing"}
  Asked <- FewRequests
  Passthrough = {c2}
  SkipUnhealthy = TRUE
  TTL = 1
  MaxFaults = 1

INVARIANTS
  TypeOK
  SaverCeiling
  SlugIsTheProviders
  QualifiedIfOneRow
PROPERTIES
  VouchedFor
  BackInRotation
