\* The booted task's file system calls in any order: opens of MemFS nodes
\* and of the ext2 file, reads, writes, seeks and closes on them and on the
\* console fds 0-2, mkdir, unlink, rmdir and the ls loop.
CONSTANTS
    Archive <- MCArchive
    Mounts <- MCMounts
    OpenPaths <- MCOpenPaths
    DirPaths <- MCDirPaths
    ChdirPaths <- MCChdirPaths
    Ext2Name = "f"
    MAX_PROCESS_FDS = 5
    CallFds = {1, 3, 4}
    WriteLens = {1}
    SeekOffsets = {0}
    DentsCaps = {28}
    ReadLens = {3}
    MaxOpens = 2
    MaxInodes = 5
    MaxSize = 1
    NDIR = 1
    PTRS = 2
    BS = 2
    FileSize = 8
SPECIFICATION Spec
INVARIANTS
    TypeOK
    TreeWellFormed
    FdTableConsistent
    GetBlockIdMatchesLayout
    ListingComplete
    Ext2ListingComplete
    ChdirAcceptsExactlyDirectories
PROPERTY
    ReadReturnsFileContents
