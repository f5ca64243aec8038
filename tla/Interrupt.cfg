SPECIFICATION InterruptFairSpec
CONSTANTS
  Devices = {"DiskInt", "ConsoleWriteInt"}
  RequestTime = {1, 4}
  ConsoleTime = 3
  TimerTicks = 2
  SystemTick = 2
INVARIANTS
  InterruptsKept
  HaltsWhenDone
  SliceNotStale
PROPERTIES
  UsersServed
\* The machine halts when nothing is left to wait for.
CHECK_DEADLOCK FALSE
