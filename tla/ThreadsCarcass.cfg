SPECIFICATION ThreadsSpec
CONSTANTS
  Thread = {main, t1, t2}
  MainThread = main
  Object = {o}
  NULL = NULL
INVARIANT CarcassKept
CHECK_DEADLOCK FALSE
