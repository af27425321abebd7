SPECIFICATION Spec
CONSTANTS
  c1 = c1
  c2 = c2
  Registry <- SmallRegistry
  Eligible = {"vllm", "fireworks", "together"}
  Configured = {"vllm", "fireworks", "together"}
  Threshold = 70
  FallbackDepth = 5
  ReliabilityFloor = 40
  EscalateTokens = 64000
  Callers = {c1}
  Requests = {"careful"}
  Asked <- CarefulRequest
  Passthrough = {}
  SkipUnhealthy = TRUE
  TTL = 1
  MaxFaults = 1

INVARIANT
  ExcludedStaysOut
