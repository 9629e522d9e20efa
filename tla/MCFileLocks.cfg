SPECIFICATION FairSpec
CONSTANTS
  a = a
  b = b
  c = c
  Owners = {a, b, c}
  MaxOff = 3
  Plain <- MCPlain
  Endless <- MCEndless
  Cuts <- MCCuts
  Eofs <- Both
  MaxReq = 3
INVARIANTS Exclusive WaitsForHolder 
PROPERTIES UnlockClears  
CHECK_DEADLOCK FALSE
