\* Opens past the end of the fd table: a table of 4 slots, so fds 3 and 4
\* are the last two allocate_fd hands out before next_fd is overwritten.
\* Once a store lands outside the Context the model stops (no deadlock
\* check): kernel memory is corrupt and nothing after it is modelled.
CONSTANTS
    Archive <- MCArchive
    Mounts <- MCMounts
    OpenPaths <- MCOpenPathsConsole
    DirPaths = {}
    ChdirPaths = {}
    Ext2Name = "f"
    MAX_PROCESS_FDS = 4
    CallFds = {}
    WriteLens = {}
    SeekOffsets = {}
    DentsCaps = {}
    ReadLens = {}
    MaxOpens = 4
    MaxInodes = 4
    MaxSize = 1
    NDIR = 1
    PTRS = 2
    BS = 2
    FileSize = 8
SPECIFICATION Spec
PROPERTY
    OpenedFdUsable
CHECK_DEADLOCK FALSE
