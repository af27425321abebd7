SPECIFICATION Spec
CONSTANTS
  Upstreams = {"openai"}
  MaxBlocks = 2
  MaxDeltas = 2
INVARIANT DeltasOnOpenBlocks
CHECK_DEADLOCK FALSE
