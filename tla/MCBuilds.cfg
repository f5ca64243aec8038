SPECIFICATION BuildsSpec
CONSTANTS
  c1 = c1
  c2 = c2
  c3 = c3
  a1 = a1
  a2 = a2
  p1 = p1
  pp1 = pp1
  pp4 = pp4
  k1 = k1
  mgr = mgr
  d1 = d1
  d2 = d2
  r1 = r1
  r2 = r2
  r3 = r3
  x1 = x1
  x2 = x2
  x3 = x3
  e = e
  w1 = w1
  w2 = w2
  u1 = u1
  u2 = u2
  s1 = s1
  s2 = s2
  g1 = g1
  g2 = g2
  m1 = m1
  m2 = m2
  Client = {c1, c2, c3}
  Clerk = {a1, a2, p1, pp1, pp4, k1}
  Manager = mgr
  Lines <- MCLines
  WorksAt <- MCWorksAt
  Number <- MCNumber
  Shifts <- MCShifts
  Process = {c1, c2, c3, a1, a2, p1, pp1, pp4, k1, mgr, d1, d2, r1, r2, r3, x1, x2, x3, e, w1, w2, u1, u2, s1, s2, g1, g2}
  Semaphores <- MCSemaphores
  InitialValue <- MCInitialValue
  MaxValue = 3
  Locks <- MCLocks
  Conditions <- MCConditions
  OwnerInit = {NULL}
  WaitingLockInit = {NULL}
  NULL = NULL
  DiskThread = {d1, d2}
  diskLock <- MCdiskLock
  diskSemaphore <- MCdiskSemaphore
  SectorsPerTrack = 3
  NumSectors = 6
  SeekTime = 3
  RotationTime = 2
  MaxTicks = 12
  Reader = {r1, r2, r3}
  Writer = {x1, x2, x3}
  Echo = {e}
  Crews <- MCCrews
  inputMutex <- MCinputMutex
  outputMutex <- MCoutputMutex
  inputAvailable <- MCinputAvailable
  outputDone <- MCoutputDone
  Typed <- MCTyped
  Newline = "newline"
  Quit = "quit"
  EOF = "EOF"
  LineSize = 2
  Line <- MCLine
  Machine = {m1, m2}
  Worker <- MCWorker
  User = {u1, u2, s1, s2, g1, g2}
  On <- MCOn
  Far <- MCFar
  Program <- MCProgram
  Posts <- MCPosts
  Boxes = {0, 1}
INVARIANTS
  InBounds
  LocksMove
  LatencyRight
  CompletionsMatch
  ArrivalsMatch
  TrafficConserved
  AckMeansDelivered
  AllServed
\* The clients leave, the clerks and the manager sleep on, the programs end.
CHECK_DEADLOCK FALSE
