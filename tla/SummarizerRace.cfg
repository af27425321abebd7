SPECIFICATION MCSpec
CONSTANTS
  Workers = {w1, w2}
  Readers = {x1}
  Casts = {{w1, w2}, {w1, x1}}
  Requests = {r1, r2}
  Backends = {"in_memory", "postgres"}
  Threshold = 1
  MaxRetries = 2
  HotZoneCap = 1
  MaxClears = 1
INVARIANTS
  TypeOK
  SummaryFoldsPrefix
  HighWaterInLog
  ContextRepeatsNothing
  ContextGapIsSummarized
  ExchangesInOrder
PROPERTIES
  ImplementsSummaryLog
  RunOnceEnds
