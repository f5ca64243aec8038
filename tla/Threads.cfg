SPECIFICATION ThreadsFairSpec
CONSTANTS
  Thread = {main, t1, t2, t3}
  MainThread = main
  Object = {o}
  NULL = NULL
INVARIANTS
  OnePlace
  NoUseAfterDestroy
PROPERTIES
  ReadyRuns
\* The machine halts when every thread sleeps and no interrupt is pending.
CHECK_DEADLOCK FALSE
