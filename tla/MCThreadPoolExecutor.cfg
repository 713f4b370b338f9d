\* Two workers that steal from each other, shutdown at any moment.
SPECIFICATION FairSpec
CONSTANTS
    N = 2
    Submitters = {s1, s2}
    MaxTasks = 3
    WorkerCapacity = 2
    GlobalCapacity = 2
INVARIANTS ExactlyOnce DrainedAtShutdown
PROPERTIES ShutdownReturns EventuallyRun
CHECK_DEADLOCK FALSE
