SPECIFICATION ClientsSpec
CONSTANTS
  Thread = {main, t1, t2}
  MainThread = main
  s1 = s1
  s2 = s2
  l1 = l1
  l2 = l2
  c1 = c1
  Programs <- MCPrograms
  Object = {s1, s2, l1, l2, c1}
  Semaphores = {s1, s2}
  InitialValue <- MCInitialValue
  MaxValue = 2
  Locks = {l1, l2}
  Conditions = {c1}
  OwnerInit = {NULL, t1}
  WaitingLockInit = {NULL, Stale, l2}
  NULL = NULL
INVARIANTS
  BooksRight
  NoLostWakeup
  NoStrandedWaiter
  SameLock
PROPERTIES
  ImplementsThreads
  ImplementsSynch
\* The machine halts when every thread sleeps.
CHECK_DEADLOCK FALSE
