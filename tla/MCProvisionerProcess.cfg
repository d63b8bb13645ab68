SPECIFICATION FairSpec
CONSTANTS
  j1 = j1
  j2 = j2
  j3 = j3
  b1 = b1
  b2 = b2
  none = none
  system = system
  Jobs = {j1, j2, j3}
  Bundles = {b1, b2}
  NoBundle = none
  System = system
  Threads = 2
  ConfigBucketAccessPolicy = TRUE
  Worlds <- MCWorlds
  Faults = {"info", "crash", "socket", "collision", "call"}
  MaxFaults = 2
  Text <- MCText
  Atoi <- MCAtoi
  JsonInts <- MCJsonInts
  Schemed <- MCSchemed
  Addresses = {"10.0.0.1"}
  TrimSpace <- MCTrimSpace
  ServiceEndpoint = "https://svc"
  AllowCrossNsSecret = FALSE
CHECK_DEADLOCK FALSE
INVARIANTS TypeOK OwnBundleTrusted AcceptedMounts MountsAsAsked
PROPERTIES OutageLosesNobody OthersGoOn
