SPECIFICATION OfficeSpec
CONSTANTS
  c1 = c1
  c2 = c2
  a1 = a1
  mgr = mgr
  Client = {c1, c2}
  Clerk = {a1}
  Manager = mgr
  Process = {c1, c2, a1, mgr}
  Lines <- MCLines
  WorksAt <- MCWorksAt
  Number <- MCNumber
  Shifts <- MCShifts
  Semaphores = {}
  InitialValue <- NoSemaphore
  MaxValue = 0
  Locks <- DeskLocks
  Conditions <- DeskCVs
  OwnerInit = {NULL}
  WaitingLockInit = {NULL}
  NULL = NULL
INVARIANT BreakWhenNobodyWaits
CHECK_DEADLOCK FALSE
