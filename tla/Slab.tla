------------------------------- MODULE Slab --------------------------------
(***************************************************************************)
(* One general cache of the slab allocator (SlabCache, slab_allocator.cpp) *)
(* with the kmalloc/kfree entry points of SlabAllocator, over the page     *)
(* frames they take from KernelMemory.                                     *)
(*                                                                         *)
(* A slab is named by the physical frame its page sits on.  Its header's   *)
(* next pointer, inuse count and embedded free-object list are state, and  *)
(* the three list heads of the cache are pointers into them, so a slab    *)
(* linked onto two lists, or a list that loops, is a reachable state.      *)
(* An object is <<frame, index>>; objects are never page-aligned (they     *)
(* start after the header), which is how kfree tells them from large      *)
(* allocations.  The Slab::free counter is always OBJS_PER_SLAB - inuse    *)
(* (alloc and free change both together) and is not kept separately.      *)
(* Every entry point holds slab_global_lock throughout, so each is one    *)
(* step.  Contiguity of a large block is the buddy's business (Buddy) and  *)
(* a block is modelled as a set of frames headed by its lowest.            *)
(***************************************************************************)
EXTENDS Naturals, Sequences, SequencesExt

CONSTANTS
    OBJS_PER_SLAB,  \* (PAGE_SIZE - sizeof(Slab)) / object_size of the cache
    NumFrames,      \* frames 1 .. NumFrames are free at the start
    Orders,         \* orders of the large kmalloc requests (size > 2048)
    MaxHeld         \* bound on the allocations callers hold at once

NULL == -1
Frames == 1 .. NumFrames
Pages == 0 .. NumFrames     \* frame 0: phys2Virt(0), where a failed alloc_pages lands
Objs == 0 .. OBJS_PER_SLAB - 1

VARIABLES
    slabs_full, slabs_partial, slabs_free,  \* SlabCache list heads
    next,           \* Slab::next of each page's header
    inuse,          \* Slab::inuse
    freelist,       \* Slab::freelist, head first, as object indices
    slabs,          \* pages create_slab has initialised as slabs of the cache
    held,           \* small objects handed out by kmalloc and not yet freed
    large,          \* large blocks handed out by kmalloc (sets of frames)
    freeFrames,     \* frames the page allocator holds free
    hung            \* a list walk looped for ever under slab_global_lock

vars == <<slabs_full, slabs_partial, slabs_free, next, inuse, freelist,
          slabs, held, large, freeFrames, hung>>

Init ==
    /\ slabs_full = NULL /\ slabs_partial = NULL /\ slabs_free = NULL
    /\ next = [p \in Pages |-> NULL]
    /\ inuse = [p \in Pages |-> 0]
    /\ freelist = [p \in Pages |-> <<>>]
    /\ slabs = {}
    /\ held = {}
    /\ large = {}
    /\ freeFrames = Frames
    /\ hung = FALSE

(* The list from head h following next, cut after |Pages| + 1 nodes: a    *)
(* result that long means the list loops.                                  *)
RECURSIVE Walk(_, _, _)
Walk(h, nx, k) == IF h = NULL \/ k = 0 THEN <<>> ELSE <<h>> \o Walk(nx[h], nx, k - 1)
List(h, nx) == Walk(h, nx, Cardinality(Pages) + 1)
Loops(h, nx) == Len(List(h, nx)) > Cardinality(Pages)

(* Bug variant: the walk finds slab but never stores slab->next. *)
UnlinkNoStore(h, nx, s) ==
    LET l == List(h, nx) IN
    [found |-> s \in ToSet(l), spins |-> s \notin ToSet(l) /\ Loops(h, nx),
     head |-> h, next |-> nx]

(* The pointer-to-pointer walk of SlabCache::free: follow prev from the   *)
(* head until it points at NULL or at slab, then, if it stopped at slab,  *)
(* store slab->next through it.  The result: the head and next pointers   *)
(* after it, whether slab was found, and whether the walk never ends.      *)
Unlink(h, nx, s) ==
    LET l == List(h, nx)
        i == SelectInSeq(l, LAMBDA x : x = s)
    IN [found |-> i > 0,
        spins |-> i = 0 /\ Loops(h, nx),
        head  |-> IF i = 1 THEN nx[s] ELSE h,
        next  |-> IF i > 1 THEN [nx EXCEPT ![l[i - 1]] = nx[s]] ELSE nx]

(* alloc_pages(0, 0) for create_slab: any free frame, or 0 when there is   *)
(* none, which phys2Virt turns into a non-null page that create_slab      *)
(* accepts.                                                                *)
AllocPage == IF freeFrames = {} THEN {0} ELSE freeFrames

(* create_slab threads the objects of a new slab in address order.       *)
InitialFreelist == [k \in 1 .. OBJS_PER_SLAB |-> k - 1]

(* kmalloc(size) for 0 < size <= 2048: SlabCache::alloc of the cache,      *)
(* creating a slab (create_slab) when neither partial nor free has one,   *)
(* then popping the head object and moving the slab from partial or free  *)
(* to full when its last object went, or from free to partial.            *)
(* An empty free list here would be a null dereference at obj->next; it    *)
(* cannot be reached while ObjectsAccounted and SlabListsWellFormed hold.  *)
CacheAlloc ==
    \E pa \in AllocPage :
    LET s0  == IF slabs_partial # NULL THEN slabs_partial ELSE slabs_free
        new == s0 = NULL
        s   == IF new THEN pa ELSE s0
        f1  == IF new THEN s ELSE slabs_free
        nx1 == IF new THEN [next EXCEPT ![s] = NULL] ELSE next
        fl1 == IF new THEN InitialFreelist ELSE freelist[s]
        in1 == IF new THEN 0 ELSE inuse[s]
    IN
    /\ fl1 # <<>>
    /\ Cardinality(held) + Cardinality(large) < MaxHeld
    /\ freelist' = [freelist EXCEPT ![s] = Tail(fl1)]
    /\ inuse' = [inuse EXCEPT ![s] = in1 + 1]
    /\ held' = held \cup {<<s, Head(fl1)>>}
    /\ slabs' = slabs \cup {s}
    /\ freeFrames' = IF new THEN freeFrames \ {s} ELSE freeFrames
    /\ IF OBJS_PER_SLAB - (in1 + 1) = 0
       THEN /\ slabs_partial' = IF s = slabs_partial THEN nx1[s] ELSE slabs_partial
            /\ slabs_free' = IF s = slabs_partial THEN f1 ELSE nx1[s]
            /\ next' = [nx1 EXCEPT ![s] = slabs_full]
            /\ slabs_full' = s
       ELSE IF s = f1
       THEN /\ slabs_free' = nx1[s]
            /\ next' = [nx1 EXCEPT ![s] = slabs_partial]
            /\ slabs_partial' = s
            /\ UNCHANGED slabs_full
       ELSE /\ next' = nx1
            /\ slabs_free' = f1
            /\ UNCHANGED <<slabs_full, slabs_partial>>
    /\ UNCHANGED <<large, hung>>

(* Bug variants: the object is not pushed back; inuse is not decremented. *)
ReleaseObjectNoPush(s, o) == [freelist |-> freelist, inuse |-> inuse[s] - 1]
ReleaseObjectNoDec(s, o) == [freelist |-> <<o>> \o freelist[s], inuse |-> inuse[s]]

(* SlabCache::free, first half: object o goes on the head of its slab's   *)
(* free list and inuse drops by one.                                       *)
ReleaseObject(s, o) == [freelist |-> <<o>> \o freelist[s], inuse |-> inuse[s] - 1]

(* kfree(ptr) of a small object: SlabCache::free on the slab at           *)
(* ptr & ~(PAGE_SIZE-1), after which a slab left with no object in use    *)
(* goes to the free list, unlinked from the head of full or else searched *)
(* for on partial only; a slab with exactly one free object is searched   *)
(* for on full and, if found there, moved to partial.                      *)
CacheFree(obj) ==
    LET s   == obj[1]
        r   == ReleaseObject(s, obj[2])
        up  == Unlink(slabs_partial, next, s)
        uf  == Unlink(slabs_full, next, s)
    IN
    /\ freelist' = [freelist EXCEPT ![s] = r.freelist]
    /\ inuse' = [inuse EXCEPT ![s] = r.inuse]
    /\ held' = held \ {obj}
    /\ CASE r.inuse = 0 /\ s = slabs_full ->
              /\ slabs_full' = next[s]
              /\ next' = [next EXCEPT ![s] = slabs_free]
              /\ slabs_free' = s
              /\ UNCHANGED <<slabs_partial, hung>>
         [] r.inuse = 0 ->
              /\ hung' = up.spins
              /\ slabs_partial' = up.head
              /\ next' = [up.next EXCEPT ![s] = slabs_free]
              /\ slabs_free' = s
              /\ UNCHANGED slabs_full
         [] OBJS_PER_SLAB - r.inuse = 1 ->
              /\ hung' = uf.spins
              /\ slabs_full' = uf.head
              /\ next' = IF uf.found THEN [uf.next EXCEPT ![s] = slabs_partial] ELSE next
              /\ slabs_partial' = IF uf.found THEN s ELSE slabs_partial
              /\ UNCHANGED slabs_free
         [] OTHER ->
              UNCHANGED <<slabs_full, slabs_partial, slabs_free, next, hung>>
    /\ UNCHANGED <<slabs, large, freeFrames>>

(* Routing of a request size.  SlabAllocator::init builds the caches of  *)
(* general_sizes, and get_general_cache scans them in order for the first *)
(* one the size fits; kmalloc sends sizes above 2048 to the page           *)
(* allocator with the order its while loop computes from the page count.   *)
PAGE_SIZE == 4096
general_sizes == <<8, 16, 32, 64, 128, 256, 512, 1024, 2048>>

RECURSIVE ScanCaches(_, _)
ScanCaches(size, i) ==
    IF i > Len(general_sizes) THEN NULL
    ELSE IF size <= general_sizes[i] THEN general_sizes[i]
    ELSE ScanCaches(size, i + 1)

\* Bug variant: a strict comparison skips the cache of exactly that size.
get_general_cache_strict(size) ==
    LET F[i \in 1 .. Len(general_sizes) + 1] ==
            IF i > Len(general_sizes) THEN NULL
            ELSE IF size < general_sizes[i] THEN general_sizes[i] ELSE F[i + 1]
    IN F[1]

get_general_cache(size) == ScanCaches(size, 1)

RECURSIVE OrderLoop(_, _)
OrderLoop(num_pages, order) ==
    IF 2^order < num_pages THEN OrderLoop(num_pages, order + 1) ELSE order

\* The route kmalloc takes: nullptr for 0, a cache size, or a page order.
KmallocRoute(size) ==
    IF size = 0 THEN [kind |-> "null"]
    ELSE IF size > 2048
         THEN [kind |-> "pages",
               order |-> OrderLoop((size + PAGE_SIZE - 1) \div PAGE_SIZE, 0)]
    ELSE [kind |-> "cache", size |-> get_general_cache(size)]

(* kmalloc(size) for size > 2048: alloc_pages(0, order) for the smallest  *)
(* order covering the size; a failed allocation returns nullptr and       *)
(* changes nothing.                                                        *)
KmallocLarge(o) ==
    /\ Cardinality(held) + Cardinality(large) < MaxHeld
    /\ \E b \in SUBSET freeFrames :
          /\ Cardinality(b) = 2^o
          /\ large' = large \cup {b}
          /\ freeFrames' = freeFrames \ b
    /\ UNCHANGED <<slabs_full, slabs_partial, slabs_free, next, inuse, freelist,
                   slabs, held, hung>>

(* kfree(ptr) of a page-aligned pointer: free_pages(virt2Phys(ptr), 0)     *)
(* returns the head frame alone, whatever order kmalloc took.              *)
KfreeLarge(b) ==
    /\ large' = large \ {b}
    /\ freeFrames' = freeFrames \cup {Min(b)}

KfreeLargeStep(b) ==
    /\ KfreeLarge(b)
    /\ UNCHANGED <<slabs_full, slabs_partial, slabs_free, next, inuse, freelist,
                   slabs, held, hung>>

(* A CPU spinning in the list walk holds slab_global_lock: no later        *)
(* kmalloc or kfree gets past the Locker.                                   *)
Next ==
    /\ ~hung
    /\ \/ CacheAlloc
       \/ \E obj \in held : CacheFree(obj)
       \/ \E o \in Orders : KmallocLarge(o)
       \/ \E b \in large : KfreeLargeStep(b)

Spec == Init /\ [][Next]_vars

-----------------------------------------------------------------------------
(***************************************************************************)
(* Properties                                                              *)
(***************************************************************************)

TypeOK ==
    /\ {slabs_full, slabs_partial, slabs_free} \subseteq Pages \cup {NULL}
    /\ next \in [Pages -> Pages \cup {NULL}]
    /\ inuse \in [Pages -> 0 .. OBJS_PER_SLAB]
    /\ freelist \in [Pages -> Seq(Objs)]
    /\ slabs \subseteq Pages
    /\ held \subseteq Pages \X Objs
    /\ large \subseteq SUBSET Frames
    /\ freeFrames \subseteq Frames
    /\ hung \in BOOLEAN

Lists == <<slabs_full, slabs_partial, slabs_free>>

(* The slab a full, partial or free list may hold, by its inuse count.    *)
Belongs(i, s) ==
    CASE i = 1 -> inuse[s] = OBJS_PER_SLAB
      [] i = 2 -> 0 < inuse[s] /\ inuse[s] < OBJS_PER_SLAB
      [] i = 3 -> inuse[s] = 0

(* spec.md 4.B: every slab of the cache is on exactly one of the full,    *)
(* partial and free lists, the one its inuse count calls for, and each    *)
(* list ends.  alloc and free move a slab by relinking its next pointer,  *)
(* free finding it by a walk that only looks at one list: a slab left on  *)
(* one list while pushed on another makes the lists share a tail or loop. *)
SlabListsWellFormed ==
    /\ \A i \in 1 .. 3 : ~Loops(Lists[i], next)
    /\ \A i, j \in 1 .. 3 : i # j =>
          ToSet(List(Lists[i], next)) \cap ToSet(List(Lists[j], next)) = {}
    /\ \A i \in 1 .. 3 : \A k, m \in 1 .. Len(List(Lists[i], next)) :
          k # m => List(Lists[i], next)[k] # List(Lists[i], next)[m]
    /\ slabs = UNION {ToSet(List(Lists[i], next)) : i \in 1 .. 3}
    /\ \A i \in 1 .. 3 : \A s \in ToSet(List(Lists[i], next)) : Belongs(i, s)

HeldIn(s) == {o \in Objs : <<s, o>> \in held}

(* No object is handed out twice: in every slab the embedded free list    *)
(* and the objects callers hold split the slab's objects between them,    *)
(* and inuse counts the held ones.  Breaks if a slab header is            *)
(* initialised again while objects of it are out.                          *)
ObjectsAccounted ==
    \A s \in slabs :
        /\ IsInjective(freelist[s])
        /\ ToSet(freelist[s]) \cap HeldIn(s) = {}
        /\ ToSet(freelist[s]) \cup HeldIn(s) = Objs
        /\ inuse[s] = Cardinality(HeldIn(s))

(* Every frame is in exactly one place: free in the page allocator, under *)
(* a slab, or in a large block a caller holds.  kfree returns a large     *)
(* block through free_pages(pa, 0), so this needs the order it frees to   *)
(* be the order kmalloc took; and create_slab must only take frames the   *)
(* allocator handed out.  Under Slab.cfg TLC breaks it in two steps:      *)
(* kmalloc of two pages, then its kfree, which frees one.  No run keeps   *)
(* it: the leak is recorded as a hazard.                                   *)
FramesAccounted ==
    /\ 0 \notin slabs
    /\ \A b, c \in large : b # c => b \cap c = {}
    /\ Frames = freeFrames \cup slabs \cup UNION large
    /\ freeFrames \cap (slabs \cup UNION large) = {}
    /\ slabs \cap UNION large = {}

(* Request sizes at every boundary of the routing: each side of each      *)
(* cache size, of the 2048 cut-over and of one, two and four pages.        *)
RequestSizes ==
    {0, 1} \cup {general_sizes[i] + d : i \in 1 .. Len(general_sizes), d \in {-1, 0, 1}}
           \cup {k * PAGE_SIZE + d : k \in {1, 2, 3, 4}, d \in {0, 1}}

(* kmalloc gives every non-zero size the smallest general cache whose     *)
(* objects hold it, or, above 2048, the smallest power-of-two run of pages *)
(* that holds it (get_general_cache's scan and kmalloc's order loop).      *)
RoutedToSmallestFit(size) ==
    LET r == KmallocRoute(size)
        fits == {c \in Range(general_sizes) : size <= c}
    IN  CASE size = 0 -> r.kind = "null"
          [] fits # {} -> r.kind = "cache" /\ r.size = Min(fits)
          [] OTHER ->
               /\ r.kind = "pages"
               /\ 2^r.order * PAGE_SIZE >= size
               /\ r.order = 0 \/ 2^(r.order - 1) * PAGE_SIZE < size

(* Every kmalloc or kfree step is taken with the routing above in force:   *)
(* the request sizes at every boundary go to the smallest fit.             *)
KmallocRoutesToSmallestFit ==
    [][\A size \in RequestSizes : RoutedToSmallestFit(size)]_vars

=============================================================================
