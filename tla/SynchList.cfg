SPECIFICATION SynchListFairSpec
CONSTANTS
  Thread = {main, t1, t2}
  MainThread = main
  lock = lock
  listEmpty = listEmpty
  Object = {lock, listEmpty}
  Locks = {lock}
  Conditions = {listEmpty}
  OwnerInit = {NULL, Stale, t1}
  WaitingLockInit = {NULL}
  MaxCalls = 1
  NULL = NULL
INVARIANTS
  ItemCovered
PROPERTIES
  OperationsReturn
\* The machine halts when every thread sleeps.
CHECK_DEADLOCK FALSE
