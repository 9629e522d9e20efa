SPECIFICATION FairSpec
CONSTANTS
  n1 = n1
  n2 = n2
  c1 = c1
  Mounts <- OneServer
  Nodes = {n1, n2}
  Clients = {c1}
  MaxItems = 2
  EnableNLM = FALSE
  SlowStart = FALSE
  MaxCrashes = 3
  MaxEpoch = 6
INVARIANTS
  
  RecoveryInGrace
PROPERTIES
  GraceStable
  SourceKept
  
