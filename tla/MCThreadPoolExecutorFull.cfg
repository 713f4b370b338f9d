\* One worker and more tasks than both queues hold.
SPECIFICATION Spec
CONSTANTS
    N = 1
    Submitters = {s1, s2}
    MaxTasks = 5
    WorkerCapacity = 2
    GlobalCapacity = 2
SYMMETRY Symmetry
INVARIANT TypeOK
CHECK_DEADLOCK FALSE
