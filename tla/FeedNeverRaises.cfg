SPECIFICATION FeedSpec
CONSTANTS
  MaxVersion = 1
  MaxStops = 1
  Flaws = {}
INVARIANT FetchNeverRaises
CHECK_DEADLOCK FALSE
