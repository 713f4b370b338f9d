\* More submissions than the worker's queue holds.
SPECIFICATION Spec
CONSTANTS
    N = 1
    Submitters = {s1, s2}
    MaxTasks = 3
    WorkerCapacity = 2
    GlobalCapacity = 2
SYMMETRY Symmetry
INVARIANTS NoTaskLost
CHECK_DEADLOCK FALSE
