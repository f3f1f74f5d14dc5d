\* kernel::Mutex with three tasks, both mutex types and the three kinds of
\* timeout (tryLock, one tick, forever).
CONSTANTS
    Tasks = {1, 2, 3}
    MutexTypes = {"NORMAL", "RECURSIVE"}
    MUTEX_WAIT_FOREVER = MUTEX_WAIT_FOREVER
    Timeouts = {0, 1, MUTEX_WAIT_FOREVER}
    MaxNest = 2
    MaxLockCalls = 2
SPECIFICATION Spec
INVARIANTS
    TypeOK
    MutualExclusion
    WaitListWellFormed
PROPERTIES
    LockCallReturns
