SPECIFICATION Spec
CONSTANTS
  ByteBits = 1
  PageSize = 4
  NumPhysPages = 4
  GPR <- MCGPR
  JumpBits = 1
  Scenarios <- MCScenarios
  UserStackSize = 4
  StackMargin = 4
  MaxOpenFiles = 4
  MaxHandles = 3
  Name <- MCName
  NULL = NULL
  MaxSteps = 5
INVARIANTS
  HandlesExact
  ImageLoaded
PROPERTIES
  MemoryExact
  ArithmeticExact
  TrapsPrecise
  IdsStable
\* The machine halts, and the bound on instructions ends a scenario.
CHECK_DEADLOCK FALSE
