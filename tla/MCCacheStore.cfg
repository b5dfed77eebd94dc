SPECIFICATION StoreSpec
CONSTANTS
  k1 = k1
  k2 = k2
  v1 = v1
  v2 = v2
  Keys = {k1, k2}
  Values = {v1, v2}
  NoValue = NoValue
  Putters = {p1, p2, p3}
  Owner = Owner
  Puts <- MCPuts
  Legacy <- MCLegacy
  Capacity = 1
  MaxOpens = 2
  MaxSessions = 2
INVARIANTS StoreTypeOK ServedIsSaved
PROPERTIES IsResultCache EveryStopEnds
CHECK_DEADLOCK FALSE
