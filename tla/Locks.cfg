SPECIFICATION MCSpec
CONSTANTS
  s1 = s1
  s2 = s2
  n1 = n1
  n2 = n2
  v1 = v1
  Top <- MCTop
  Opens = {s1, s2}
  Owners = {n1, n2, v1}
  V4Names <- MCV4Names
  ClientOf <- MCClientOf
  Ask <- MCAsk
  SmbRanges <- MCSmbRanges
  UniRanges <- MCUniRanges
  MaxIDs = 4
  Workloads <- MCWorkloads
  Passes = {p1, p2}
  MaxSpawned = 1
  MaxQueue = 2
  MaxTries <- MCMaxTries
  MaxBoots = 2
INVARIANTS
  LocksWellFormed  BlockedIsQueued 
 
SYMMETRY PassSymmetry
\* Lock ids are bounded and run out.
CHECK_DEADLOCK FALSE
