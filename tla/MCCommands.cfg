CONSTANTS d1 = d1 d2 = d2 t1 = t1 t2 = t2 NULL = NULL
CONSTANTS Devices = {d1, d2} Profiles <- AllProfiles Requests <- AllRequests Threads = {t1, t2}
CONSTANTS MaxCmdOps = 2 MaxChanges = 1
SPECIFICATION Spec
CONSTRAINT AtOnce
INVARIANTS TypeOK RefsBalanced  LockedUntouched  
PROPERTY EveryRequestAnswered
