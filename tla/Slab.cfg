\* size-1024 cache: (4096 - 24) / 1024 = 3 objects per slab; four frames
\* cover every slab callers can need with four allocations; large requests
\* are of one and two pages
CONSTANTS
    OBJS_PER_SLAB = 3
    NumFrames = 4
    Orders = {0, 1}
    MaxHeld = 4
INIT Init
NEXT Next
INVARIANTS
    TypeOK
    SlabListsWellFormed
    ObjectsAccounted
PROPERTIES
    KmallocRoutesToSmallestFit
