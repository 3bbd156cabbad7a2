SPECIFICATION FairSpec
CONSTANTS
 c1 = c1
 Callers = {c1}
 Requests <- R2
 Credentialed = {}
 HolderOf <- OwnNames
 None = None
 Capacity = 1
 MaxFaults = 0
 MaxRestarts = 0
INVARIANTS StoreOrder LateResultHonoured
PROPERTIES FifoRefined CancelEnds QueuedIsServed
CHECK_DEADLOCK FALSE
