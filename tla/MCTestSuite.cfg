SPECIFICATION TestFairSpec
CONSTANTS
  Thread = {"main", "t1_t1", "t1_t2", "t1_t3", "t2_t1", "t2_t2",
            "waiter0", "waiter1", "waiter2", "signaller", "t5_t1", "t5_t2"}
  MainThread = "main"
  Object = {"l1", "l2", "c1", "s1", "s2", "s3", "done"}
  Semaphores = {"s1", "s2", "s3", "done"}
  InitialValue <- Closed
  MaxValue = 8
  Locks = {"l1", "l2"}
  OwnerInit = {NULL}
  Conditions = {"c1"}
  WaitingLockInit = {NULL}
  Tests = {1, 2, 3, 4, 5}
  Waiter <- ThreeWaiters
  NULL = NULL
INVARIANTS
  TestVerdicts
PROPERTIES
  TestCompletes
\* The machine halts when every thread has finished or sleeps for ever.
CHECK_DEADLOCK FALSE
