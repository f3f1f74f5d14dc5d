\* The Normal zone's layout in miniature: the PageInfo array (pfn 1) pushes
\* memory_start (pfn 2) off the 4- and 8-page boundaries, and the 5 managed
\* pages are not a power of two, so init puts one 8-page block at pfn 2
\* that runs 3 pages past the zone end (pfn 7), as the real zone's 224400
\* managed pages from pfn 0x1370 become one 2^18-page block.
CONSTANTS
    ZoneStart = 1
    ZoneSize = 6
    MAX_ORDER = 20
    PageInfoBytes = 16
    PageBytes = 4096
    ReqOrders = {0, 1, 2}
    MaxRefCount = 1
SPECIFICATION Spec
CHECK_DEADLOCK FALSE
INVARIANT
    AllocatedInZone
