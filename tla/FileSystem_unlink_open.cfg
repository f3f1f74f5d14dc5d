\* A file unlinked while a descriptor of it is open.
CONSTANTS
    Archive <- MCArchive
    Mounts <- MCMounts
    OpenPaths <- MCOpenPaths
    DirPaths <- MCDirPaths
    ChdirPaths = {}
    Ext2Name = "f"
    MAX_PROCESS_FDS = 5
    CallFds = {1, 3, 4}
    WriteLens = {1}
    SeekOffsets = {0}
    DentsCaps = {28}
    ReadLens = {3}
    MaxOpens = 2
    MaxInodes = 5
    MaxSize = 1
    NDIR = 1
    PTRS = 2
    BS = 2
    FileSize = 8
SPECIFICATION Spec
INVARIANT
    DescriptorInodesLive
