CONSTANTS a1 = a1 a2 = a2 w1 = w1 w2 = w2 v1 = v1 NULL = NULL
CONSTANTS Ais = {a1, a2} Workers = {w1, w2} Readings = {v1} MaxQueue = 1 MaxHeld = 1
CONSTANTS Managed = {FALSE} OnChange = {FALSE} Stoppable = FALSE
SPECIFICATION Spec
CHECK_DEADLOCK FALSE
INVARIANT InProgressUnharmed
