SPECIFICATION FairSpec
CONSTANTS
  c1 = c1
  c2 = c2
  Callers = {c1, c2}
  Passthrough = {c2}
  Configured = {"local", "cloud"}
  Preferences = {"local", "cloud"}
  Unserved <- CloudOnlyModel
  SkipUnhealthy = TRUE
  Threshold = 2
  TTL = 2
  MaxFaults = 1
INVARIANTS
  TypeOK
  OutForCause
PROPERTY BackInRotation
