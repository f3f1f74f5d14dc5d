------------------------------- MODULE Buddy --------------------------------
(***************************************************************************)
(* The physical frame allocator of the Normal zone: Zone (zone.cpp), its   *)
(* BuddyAllocator (buddy_allocator.cpp) and the KernelMemory entry points  *)
(* alloc_pages / free_pages that route to it (kernel_memory.cpp).          *)
(*                                                                         *)
(* Frames are page frame numbers.  The free lists keep the code's LIFO     *)
(* order.  The code XORs kernel virtual addresses (phys + 0xC0000000) to   *)
(* find a buddy; below 2^18 pages that offset has no bits set, so the XOR  *)
(* is taken on frame numbers.  page_info keeps the fields the code reads   *)
(* (ref_count, is_compound, compound_head); compound_order and is_cow are  *)
(* written but never read on these paths.  held is the callers' side: the  *)
(* blocks alloc_pages returned and nobody has freed yet.                   *)
(***************************************************************************)
EXTENDS Naturals, FiniteSets, Sequences, SequencesExt, Bitwise

CONSTANTS
    ZoneStart,      \* zone_start_pfn
    ZoneSize,       \* zone_end_pfn - zone_start_pfn
    MAX_ORDER,      \* BuddyAllocator::MAX_ORDER
    PageInfoBytes,  \* sizeof(PageInfo)
    PageBytes,      \* PAGE_SIZE
    ReqOrders,      \* orders callers pass to alloc_pages
    MaxRefCount     \* model bound: a ref_count saturates here ("this many or more")

ASSUME ZoneSize * PageInfoBytes < ZoneSize * PageBytes

VARIABLES
    free_lists,     \* BuddyAllocator::free_lists, order -> sequence of heads
    page_info,      \* BuddyAllocator::page_info, index -> metadata record
    nr_free_pages,  \* Zone::nr_free_pages
    held            \* blocks returned to callers, as <<pfn, order>>

vars == <<free_lists, page_info, nr_free_pages, held>>

Orders == 0 .. MAX_ORDER

(* BuddyAllocator::init: the PageInfo array takes the first pages of the   *)
(* zone, and the rest goes on one free list as a single block whose order *)
(* get_block_order rounds up.                                              *)
page_count == ZoneSize
InfoPages == (page_count * PageInfoBytes + PageBytes - 1) \div PageBytes
memory_start == ZoneStart + InfoPages
memory_size == ZoneSize - InfoPages
ZoneEnd == ZoneStart + ZoneSize

RECURSIVE Bits(_)
Bits(n) == IF n = 0 THEN 0 ELSE 1 + Bits(n \div 2)

get_block_order(num_pages) == Bits(num_pages - 1)

InitOrder == get_block_order(memory_size)

Run(p, o) == p .. (p + 2^o - 1)

NoInfo == [ref |-> 0, compound |-> FALSE, head |-> 0]

(* Every index the code can compute: relative indices of managed frames   *)
(* and the absolute frame numbers increment_ref_count uses.  Indices at   *)
(* or past page_count lie beyond the PageInfo array.                       *)
InfoIdx == 0 .. (memory_start + 2^InitOrder - 1)

Init ==
    /\ free_lists = [k \in Orders |-> IF k = InitOrder THEN <<memory_start>> ELSE <<>>]
    /\ page_info = [i \in InfoIdx |-> NoInfo]
    /\ nr_free_pages = ZoneSize
    /\ held = {}

(* allocate_pages, split loop: the upper half of each split goes on the    *)
(* head of the next lower list.                                            *)
(* Bug variant: the split keeps no offset and files the lower half.       *)
RECURSIVE SplitBlockNoOffset(_, _, _, _)
SplitBlockNoOffset(lists, block, k, o) ==
    IF k > o
    THEN SplitBlockNoOffset([lists EXCEPT ![k - 1] = <<block>> \o @], block, k - 1, o)
    ELSE lists

RECURSIVE SplitBlock(_, _, _, _)
SplitBlock(lists, block, k, o) ==
    IF k > o
    THEN SplitBlock([lists EXCEPT ![k - 1] = <<block + 2^(k - 1)>> \o @], block, k - 1, o)
    ELSE lists

(* allocate_pages: the compound markers use the index relative to         *)
(* memory_start.                                                           *)
(* Bug variant: compound_head stored as the byte address and used as an    *)
(* index without the division by PAGE_SIZE.                               *)
MarkCompoundPhysHead(info, p, o) ==
    [i \in DOMAIN info |->
        IF i \in Run(p - memory_start, o)
        THEN [info[i] EXCEPT !.compound = TRUE, !.head = p * PageBytes]
        ELSE info[i]]

MarkCompound(info, p, o) ==
    [i \in DOMAIN info |->
        IF i \in Run(p - memory_start, o)
        THEN [info[i] EXCEPT !.compound = TRUE, !.head = p]
        ELSE info[i]]

(* BuddyAllocator::increment_ref_count(phys, 0): the index is the         *)
(* absolute frame number phys / PAGE_SIZE.                                 *)
Inc(n) == IF n < MaxRefCount THEN n + 1 ELSE n

increment_ref_count(info, p) ==
    IF p < ZoneStart \/ p >= memory_start + memory_size
    THEN info
    ELSE IF info[p].compound
         THEN [info EXCEPT ![info[p].head].ref = Inc(@)]
         ELSE [info EXCEPT ![p].ref = Inc(@)]

(* free_pages: clears the metadata of the run at relative indices.        *)
ClearInfo(info, p, o) ==
    [i \in DOMAIN info |-> IF i \in Run(p - memory_start, o) THEN NoInfo ELSE info[i]]

get_buddy_address(a, k) == a ^^ (2^k)

(* try_merge_buddy: the XOR buddy of the block at a is on the list of     *)
(* order k (the unlink is done by the caller below).                       *)
try_merge_buddy(lists, a, k) == Contains(lists[k], get_buddy_address(a, k))

(* Bug variants of the merge loop: the buddy is left on its list; the      *)
(* merged block keeps the higher address; only one merge is tried.        *)
RECURSIVE CoalesceNoUnlink(_, _, _)
CoalesceNoUnlink(lists, a, k) ==
    LET b == get_buddy_address(a, k) IN
    IF k < MAX_ORDER /\ try_merge_buddy(lists, a, k)
    THEN CoalesceNoUnlink(lists, IF a < b THEN a ELSE b, k + 1)
    ELSE <<lists, a, k>>

RECURSIVE CoalesceHigher(_, _, _)
CoalesceHigher(lists, a, k) ==
    LET b == get_buddy_address(a, k) IN
    IF k < MAX_ORDER /\ try_merge_buddy(lists, a, k)
    THEN CoalesceHigher([lists EXCEPT ![k] = RemoveFirst(@, b)], IF a < b THEN b ELSE a, k + 1)
    ELSE <<lists, a, k>>

CoalesceOnce(lists, a, k) ==
    LET b == get_buddy_address(a, k) IN
    IF k < MAX_ORDER /\ try_merge_buddy(lists, a, k)
    THEN <<[lists EXCEPT ![k] = RemoveFirst(@, b)], IF a < b THEN a ELSE b, k + 1>>
    ELSE <<lists, a, k>>

(* free_pages merge loop: while the XOR buddy is on the list of the        *)
(* current order, unlink it, keep the lower address and go up one order;  *)
(* the result is <<lists, block, order reached>>.                          *)
RECURSIVE Coalesce(_, _, _)
Coalesce(lists, a, k) ==
    LET b == get_buddy_address(a, k) IN
    IF k < MAX_ORDER /\ try_merge_buddy(lists, a, k)
    THEN Coalesce([lists EXCEPT ![k] = RemoveFirst(@, b)], IF a < b THEN a ELSE b, k + 1)
    ELSE <<lists, a, k>>

(* allocate_pages: the smallest order >= o whose list is not empty, and    *)
(* the block at its head.                                                  *)
CanAllocate(o) == \E k \in o .. MAX_ORDER : free_lists[k] # <<>>

FoundOrder(o) ==
    CHOOSE k \in o .. MAX_ORDER :
        free_lists[k] # <<>> /\ \A j \in o .. (k - 1) : free_lists[j] = <<>>

AllocBlock(o) == Head(free_lists[FoundOrder(o)])

(* BuddyAllocator::allocate_pages: unlink the head block, split it down to *)
(* order o, mark the run compound and count a reference.  With every list *)
(* empty it returns 0 and changes nothing.                                 *)
allocate_pages(o) ==
    LET k == FoundOrder(o)
        block == AllocBlock(o)
    IN
    /\ CanAllocate(o)
    /\ free_lists' = SplitBlock([free_lists EXCEPT ![k] = Tail(@)], block, k, o)
    /\ page_info' = increment_ref_count(MarkCompound(page_info, block, o), block)

(* Bug variant: the count is taken as the order instead of 1 << order.   *)
allocPagesCountsOrder(o) ==
    /\ o <= nr_free_pages
    /\ allocate_pages(o)
    /\ nr_free_pages' = nr_free_pages - o

(* Zone::allocPages: refuse when 2^o > nr_free_pages, else allocate and    *)
(* count the pages as used.                                                *)
allocPages(o) ==
    /\ 2^o <= nr_free_pages
    /\ allocate_pages(o)
    /\ nr_free_pages' = nr_free_pages - 2^o

(* KernelMemory::get_zone_for_allocation: the Normal zone when its free    *)
(* pages cover the request in bytes (the DMA and High zones are commented  *)
(* out), else none.                                                        *)
get_zone_for_allocation(size) == nr_free_pages * PageBytes >= size

(* KernelMemory::alloc_pages: orders above 20 are refused; the zone the    *)
(* request is routed to serves it and the caller holds the block.          *)
AllocPages(o) ==
    /\ o <= 20
    /\ get_zone_for_allocation(2^o * PageBytes)
    /\ allocPages(o)
    /\ held' = held \cup {<<AllocBlock(o), o>>}

(* Bug variant: the merged block is filed on the list of the order the     *)
(* caller passed instead of the order it reached.                         *)
free_pages_request_order(p, o) ==
    LET merged == Coalesce(free_lists, p, o) IN
    IF p < memory_start \/ p >= memory_start + memory_size
    THEN UNCHANGED <<free_lists, page_info>>
    ELSE /\ page_info' = ClearInfo(page_info, p, o)
         /\ free_lists' = [merged[1] EXCEPT ![o] = <<merged[2]>> \o @]

(* BuddyAllocator::free_pages: outside [memory_start, memory_start +       *)
(* memory_size) it returns at once; otherwise clear the run's metadata,    *)
(* coalesce, and push the result on the head of its list.  Nothing checks *)
(* that the run is allocated.                                              *)
free_pages(p, o) ==
    LET merged == Coalesce(free_lists, p, o) IN
    IF p < memory_start \/ p >= memory_start + memory_size
    THEN UNCHANGED <<free_lists, page_info>>
    ELSE /\ page_info' = ClearInfo(page_info, p, o)
         /\ free_lists' = [merged[1] EXCEPT ![merged[3]] = <<merged[2]>> \o @]

(* Zone::freePages for a run inside the zone: the buddy frees it and the  *)
(* count goes back, even when the buddy's own range check returned early. *)
freePages(p, o) ==
    /\ p >= ZoneStart /\ p + 2^o <= ZoneEnd
    /\ free_pages(p, o)
    /\ nr_free_pages' = nr_free_pages + 2^o

(* KernelMemory::free_pages by a caller that passes the order it           *)
(* allocated (phys is never 0 and the order never above 20 here).         *)
FreePages(b) ==
    /\ freePages(b[1], b[2])
    /\ held' = held \ {b}

(* Zone::freePages returns at once for a run that does not end inside the *)
(* zone; the caller's block is gone and never comes back.                  *)
FreeOutsideZone(b) ==
    /\ b[1] + 2^b[2] > ZoneEnd
    /\ held' = held \ {b}
    /\ UNCHANGED <<free_lists, page_info, nr_free_pages>>

Next ==
    \/ \E o \in ReqOrders : AllocPages(o)
    \/ \E b \in held : FreePages(b)
    \/ \E b \in held : FreeOutsideZone(b)

Spec == Init /\ [][Next]_vars

-----------------------------------------------------------------------------
(***************************************************************************)
(* Properties                                                              *)
(***************************************************************************)

FreeBlocks == UNION {{<<free_lists[k][i], k>> : i \in 1 .. Len(free_lists[k])} : k \in Orders}

FreeFrames == UNION {Run(bl[1], bl[2]) : bl \in FreeBlocks}

HeldFrames == UNION {Run(bl[1], bl[2]) : bl \in held}

TypeOK ==
    /\ free_lists \in [Orders -> Seq(Nat)]
    /\ page_info \in [InfoIdx -> [ref : 0 .. MaxRefCount, compound : BOOLEAN, head : InfoIdx]]
    /\ nr_free_pages \in Nat
    /\ held \subseteq Nat \X ReqOrders

(* Splitting in allocate_pages and XOR coalescing in free_pages never make *)
(* two blocks overlap: no frame is on two free blocks, on a free block and *)
(* a held one, or on two held ones, even when memory_start is unaligned.  *)
NoFrameHandedOutTwice ==
    LET blocks == FreeBlocks \cup held IN
    /\ \A k \in Orders : \A i, j \in 1 .. Len(free_lists[k]) :
           i # j => free_lists[k][i] # free_lists[k][j]
    /\ \A b1, b2 \in blocks :
           b1 # b2 => Run(b1[1], b1[2]) \cap Run(b2[1], b2[2]) = {}

(* The zone behaves as the abstract frame allocator: every successful      *)
(* alloc_pages hands out 2^order contiguous free frames, and free_pages    *)
(* returns them, with nothing lost or invented by split and merge.         *)
Abs == INSTANCE FrameAllocator WITH
           Frames <- Run(memory_start, InitOrder),
           Orders <- ReqOrders,
           free <- FreeFrames,
           allocated <- held

BuddyRefinesFrames == Abs!Spec

(* spec.md 8: freeing everything that was allocated restores every free   *)
(* list to its initial state, i.e. coalescing undoes every split.         *)
FreeAllRestoresInitialBlock ==
    held = {} =>
        free_lists = [k \in Orders |-> IF k = InitOrder THEN <<memory_start>> ELSE <<>>]

(* spec.md 8: every block the allocator hands out is aligned to its own    *)
(* size (address mod 2^order pages = 0).                                   *)
AllocatedAligned == \A b \in held : b[1] % 2^b[2] = 0

(* spec.md 8: every block the allocator hands out lies inside the managed  *)
(* range [memory_start, memory_start + memory_size).                       *)
AllocatedInZone ==
    \A b \in held : Run(b[1], b[2]) \subseteq memory_start .. (memory_start + memory_size - 1)

(* Zone::nr_free_pages, which alone decides whether allocPages asks the    *)
(* buddy, stays equal to the frames on the buddy's free lists plus the    *)
(* PageInfo pages Zone::init counts as free, across every split in        *)
(* allocate_pages and every merge in free_pages.                          *)
ZoneCountsFreeFrames ==
    nr_free_pages = Cardinality(FreeFrames) + InfoPages

(* Metadata writes stay inside the PageInfo array of page_count entries:   *)
(* the slots past it are managed frames and must keep their contents.     *)
MetadataWithinArray ==
    \A i \in InfoIdx : i >= page_count => page_info[i] = NoInfo
=============================================================================
