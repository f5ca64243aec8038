SPECIFICATION LockSpec
CONSTANTS
  Thread = {main, t1, t2}
  MainThread = main
  Object = {l1}
  Locks = {l1}
  OwnerInit = {NULL}
  NULL = NULL
INVARIANT MutualExclusion
CHECK_DEADLOCK FALSE
