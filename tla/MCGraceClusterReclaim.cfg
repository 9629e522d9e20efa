SPECIFICATION FairSpec
CONSTANTS
  n1 = n1
  n2 = n2
  c1 = c1
  Mounts <- BothServers
  Nodes = {n1, n2}
  Clients = {c1}
  MaxItems = 2
  EnableNLM = FALSE
  SlowStart = FALSE
  MaxCrashes = 1
  MaxEpoch = 4
INVARIANT
  ReclaimExcludesNewState
