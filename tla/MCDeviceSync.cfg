CONSTANTS
  o1 = o1
  o2 = o2
  o3 = o3
  q1 = q1
  i1 = i1
  i2 = i2
  n1 = n1
  n2 = n2
  a1 = a1
  a2 = a2
  p1 = p1
  k1 = k1
  h1 = h1
  h2 = h2
  NULL = NULL
  ProfObjs = {q1}
  ProfNames = {p1}
  ProfIds = {k1}
  Protocols = {a1, a2}
  Autos = {"none", "some"}
  Objs = {o1, o2, o3}
  Ids = {i1, i2}
  Names = {n1, n2}
  Fetched <- Updates
  Handlers = {h1, h2}
  Threads = {h1, h2}
  Worlds <- AnyWorld
SPECIFICATION SyncSpec
INVARIANTS
  Converged
  DriverInformed
PROPERTIES
  EventuallySynced
  
CHECK_DEADLOCK FALSE
