CONSTANTS
  o1 = o1
  o2 = o2
  q1 = q1
  q2 = q2
  i1 = i1
  i2 = i2
  n1 = n1
  n2 = n2
  a1 = a1
  a2 = a2
  p1 = p1
  p2 = p2
  k1 = k1
  k2 = k2
  t1 = t1
  t2 = t2
  NULL = NULL
  Objs = {o1, o2}
  ProfObjs = {q1, q2}
  Ids = {i1, i2}
  Names = {n1, n2}
  Protocols = {a1, a2}
  ProfNames = {p1, p2}
  ProfIds = {k1, k2}
  Autos = {"none", "some"}
  Fetched <- Changes
  Threads = {t1, t2}
SPECIFICATION Spec
SYMMETRY Symm
INVARIANTS
  TypeOK
  
  RefsExact
  NameIndexSound
  MappedProfileLive
PROPERTY
  HeldDeviceStable
CHECK_DEADLOCK FALSE
