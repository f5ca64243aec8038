SPECIFICATION SynchListFairSpec
CONSTANTS
  Thread = {main, t1}
  MainThread = main
  lock = lock
  listEmpty = listEmpty
  Object = {lock, listEmpty}
  Locks = {lock}
  Conditions = {listEmpty}
  OwnerInit = {NULL}
  WaitingLockInit = {NULL, Stale}
  MaxCalls = 1
  NULL = NULL
PROPERTIES
  RemoveWaits
CHECK_DEADLOCK FALSE
