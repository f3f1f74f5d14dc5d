\* size-1024 cache on a page allocator with two free frames; callers hold
\* up to six allocations, more than the two frames' slabs can hold
CONSTANTS
    OBJS_PER_SLAB = 3
    NumFrames = 2
    Orders = {0}
    MaxHeld = 6
INIT Init
NEXT Next
INVARIANTS
    ObjectsAccounted
