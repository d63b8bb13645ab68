SPECIFICATION Spec
CONSTANTS
  p1 = p1
  p2 = p2
  t1 = t1
  b1 = b1
  s1 = s1
  s2 = s2
  none = none
  tmpfs = tmpfs
  Buckets = {b1}
  Secrets = {s1, s2}
  NoSecret = none
  Tmpfs = tmpfs
  Procs = {p1}
  Targets = {t1}
  Requests <- MCRequests
  Faults <- UnmountFaults
  MaxFaults = 2
SYMMETRY MCSymmetry
CHECK_DEADLOCK FALSE
INVARIANTS UnmountedMeansUnmounted
