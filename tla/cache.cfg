\* Every call returns when concurrent writers leave keys with a TTL, and a
\* confirmed delete returns Ok only while its key or field is absent.
CONSTANTS
  t1 = t1
  t2 = t2
  Tasks <- MCTasks
  Keys = {"k", "l"}
  Fields = {"f"}
  InitStores <- MCInitStores
  Elems = {"x", "1"}
  Redis7 = FALSE
  NegativeUsize = "wrap"
  Calls <- MCCallsTtl
  MaxSize = 1
  MaxCalls = 2
  MaxFaults = 1
  NestWhileHolding = FALSE

SPECIFICATION Spec

PROPERTY CallReturns 

CHECK_DEADLOCK FALSE
