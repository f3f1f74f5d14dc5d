\* A read then a write of one page of an anonymous VMA: spec.md scenario 5
\* says the write succeeds.
\* Deadlock is not checked: after the fault handler's hlt the CPU really
\* stops.
CONSTANTS
    USER_START = 2
    USER_END = 6
    MAX_MEMORY_AREAS = 3
    MmapPages = {0, 1, 2}
    ExecPages = {1}
    StackPages = 1
    ELF_PAGES = {1}
SPECIFICATION Spec
CHECK_DEADLOCK FALSE
INVARIANTS
    NoHaltInsideArea
