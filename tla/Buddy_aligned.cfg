\* pfn 7 holds the PageInfo array; pfns 8..15 are managed: memory_start is
\* 2^3-aligned and the managed size is exactly 2^3 pages.
CONSTANTS
    ZoneStart = 7
    ZoneSize = 9
    MAX_ORDER = 20
    PageInfoBytes = 16
    PageBytes = 4096
    ReqOrders = {0, 1, 2}
    MaxRefCount = 1
SPECIFICATION Spec
INVARIANTS
    TypeOK
    NoFrameHandedOutTwice
    FreeAllRestoresInitialBlock
    AllocatedAligned
    ZoneCountsFreeFrames
PROPERTIES
    BuddyRefinesFrames
