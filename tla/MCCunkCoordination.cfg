SPECIFICATION Spec
CONSTANTS
  SchedTasks = {k1, k2}
  SchedDelays = {0, 1}
  SchedInterval = 1
  Horizon = 2
  e1 = e1
  e2 = e2
  e3 = e3
  x = x
  y = y
  h1 = h1
  h2 = h2
  LoopEvents = {e1, e2, e3}
  LoopTypes = {x, y}
  LoopTypeOf <- MCTypeOf
  LoopHandlers = {h1, h2}
  LoopCapacity = 2
  LoopMaxRuns = 2
  ChainLength = 3
  PushThreads = {p1, p2}
  PushMax = 2
  PushCapacity = 1
  SpinCount = 1
INVARIANTS OffEndsCalls PushEntersOnce
PROPERTIES ShutdownJoins ScheduledRuns StopEndsRun QueuedReachesHandler ChainAdvances
CHECK_DEADLOCK FALSE
