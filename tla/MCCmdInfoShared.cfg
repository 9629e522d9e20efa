CONSTANTS
  t1 = t1
  t2 = t2
  NULL = NULL
  Profiles <- ManyProfiles
  Queries <- AllQueries
  Threads = {t1, t2}
SPECIFICATION Spec
INVARIANTS
  TypeOK
  FoundIsMeant
  
PROPERTY
  LookupEnds
