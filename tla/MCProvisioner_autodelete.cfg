SPECIFICATION Spec
CONSTANTS
  p1 = p1
  p2 = p2
  c1 = c1
  c2 = c2
  g1 = g1
  g2 = g2
  g3 = g3
  g4 = g4
  u1 = u1
  o1 = o1
  o2 = o2
  none = none
  NoBucket = none
  UserBuckets = {u1}
  Objects = {o1}
  PageSize = 1
  Claims = {c1}
  Procs = {p1}
  Generated = {g1, g2}
  ConfigBucketAccessPolicy = TRUE
  ConfigQuotaLimit = TRUE
  MaxFaults = 1
  Existing <- MixedExisting
  Requests <- SpellingRequests
  Faults <- AllFaults
CHECK_DEADLOCK FALSE
INVARIANTS AutoDeleteImpliesAutoCreate
