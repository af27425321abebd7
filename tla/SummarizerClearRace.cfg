SPECIFICATION MCSpec
CONSTANTS
  Workers = {w1, w2}
  Readers = {}
  Casts = {{w1, w2}}
  Requests = {r1, r2}
  Backends = {"postgres"}
  Threshold = 1
  MaxRetries = 1
  HotZoneCap = 2
  MaxClears = 1
SYMMETRY RequestSymmetry
INVARIANT SummaryNeverSkips
