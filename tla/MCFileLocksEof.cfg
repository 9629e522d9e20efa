SPECIFICATION Spec
CONSTANTS
  a = a
  b = b
  c = c
  Owners = {a, b}
  MaxOff = 3
  Plain <- MCPlain
  Endless <- MCEndless
  Cuts <- MCCuts
  Eofs <- Only
  MaxReq = 2
INVARIANT NewReplacesOld
CHECK_DEADLOCK FALSE
