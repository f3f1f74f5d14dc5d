\* One address space with four user pages (2 .. 5), page 1 standing for the
\* 1 MiB execve maps at 0x100000, and five VMA slots: enough for mmap(0)
\* to leave an empty area between two others and for two more areas after
\* it.  Mmap lengths 0, 1 and 2 pages; a one-page executable; a one-page
\* stack.
\* Deadlock is not checked: after the fault handler's hlt the CPU really
\* stops.
CONSTANTS
    USER_START = 2
    USER_END = 6
    MAX_MEMORY_AREAS = 5
    MmapPages = {0, 1, 2}
    ExecPages = {1}
    StackPages = 1
    ELF_PAGES = {1}
SPECIFICATION Spec
CHECK_DEADLOCK FALSE
INVARIANTS
    TypeOK
    TotalVmMatchesAreas
