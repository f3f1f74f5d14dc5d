---------------------------- MODULE AddressSpace ----------------------------
(***************************************************************************)
(* One user address space: the VMA array of UserMemory (user_memory.cpp),  *)
(* the state of its page-table entries, the system calls that change them  *)
(* (mmap with fd < 0, execve's load buffer, the user stack) and the page   *)
(* fault handler (kernel.cpp).                                             *)
(*                                                                         *)
(* Addresses are page numbers: every size reaching allocate_area is        *)
(* rounded up to whole pages first, and uint32 arithmetic on byte          *)
(* addresses is arithmetic modulo 2^20 on page numbers.  A PTE is one of   *)
(* "NONE" (0), "LAZY" (not present, USER|WRITE kept for the fault          *)
(* handler), "RO" or "RW" (present, backed by its own frame), or "KERNEL"  *)
(* (present, user-writable, mapping kernel physical memory).  Page        *)
(* tables themselves, and the frames behind them, are left out.            *)
(***************************************************************************)
EXTENDS Naturals, Sequences, SequencesExt

CONSTANTS
    USER_START,         \* first user page (0x40000000 >> 12)
    USER_END,           \* first page past user space (0xC0000000 >> 12)
    MAX_MEMORY_AREAS,   \* UserMemory::MAX_MEMORY_AREAS
    MmapPages,          \* mmap lengths, in pages after rounding
    ExecPages,          \* sizes of the executables execve reads, in pages
    StackPages,         \* USER_STACK_SIZE in pages
    ELF_PAGES           \* pages standing for 0x100000 .. 0x1FFFFF, below USER_START

PageWrap == 2^20        \* uint32 byte addresses as page numbers wrap here

Pages == 0 .. USER_END - 1
Types == {"ANONYMOUS", "STACK", "CODE"}

VARIABLES
    user_mm,    \* the task's UserMemory: areas[0 .. num_areas-1] as a
                \* sequence of [start, end, type], total_vm in pages, and
                \* pte: page -> state of its entry in the page tables
    halted      \* the page whose fault ended in the handler's hlt, or -1

vars == <<user_mm, halted>>

(* UserMemory::init: no areas; the page tables cloned for init hold no     *)
(* user mappings.                                                          *)
Init ==
    /\ user_mm = [areas |-> <<>>, total_vm |-> 0, pte |-> [p \in Pages |-> "NONE"]]
    /\ halted = -1

Area(a) == a.start .. a.end - 1

(* Bug variant: the gap after area i is measured from its start. *)
find_free_area_gap_from_start(mm, size) ==
    LET as == mm.areas
        n == Len(as)
        gap(i) == (as[i + 1].start - as[i].start) % PageWrap
        fits == {i \in 1 .. n - 1 : gap(i) >= size}
    IN
    IF n = 0 THEN USER_START
    ELSE IF as[1].start > USER_START /\ as[1].start - USER_START >= size
         THEN USER_START
    ELSE IF fits # {} THEN as[Min(fits)].start
    ELSE IF as[n].end < USER_END /\ USER_END - as[n].end >= size
         THEN as[n].end
    ELSE 0

(* UserMemory::find_free_area: first fit over the array in array order:   *)
(* before the first area, between consecutive entries (the gap is an      *)
(* unsigned difference), after the last; 0 if nothing fits.               *)
find_free_area(mm, size) ==
    LET as == mm.areas
        n == Len(as)
        gap(i) == (as[i + 1].start - as[i].end) % PageWrap
        fits == {i \in 1 .. n - 1 : gap(i) >= size}
    IN
    IF n = 0 THEN USER_START
    ELSE IF as[1].start > USER_START /\ as[1].start - USER_START >= size
         THEN USER_START
    ELSE IF fits # {} THEN as[Min(fits)].end
    ELSE IF as[n].end < USER_END /\ USER_END - as[n].end >= size
         THEN as[n].end
    ELSE 0

(* Bug variant: no MAX_MEMORY_AREAS check. *)
AreaStartNoLimit(mm, size) == find_free_area(mm, size)

(* UserMemory::allocate_area: the start it returns, 0 when the array is   *)
(* full or nothing fits ...                                                *)
AreaStart(mm, size) ==
    IF Len(mm.areas) >= MAX_MEMORY_AREAS THEN 0 ELSE find_free_area(mm, size)

(* ... and the UserMemory it leaves: the area appended at the end of the  *)
(* array, total_vm increased, and a PTE for every page: a fresh frame     *)
(* mapped for a stack, not present with USER|WRITE kept otherwise.        *)
allocate_area(mm, size, type) ==
    LET start == AreaStart(mm, size) IN
    IF start = 0 THEN mm
    ELSE [mm EXCEPT
            !.areas = Append(@, [start |-> start, end |-> start + size, type |-> type]),
            !.total_vm = @ + size,
            !.pte = [p \in Pages |-> IF p \in start .. start + size - 1
                                     THEN IF type = "STACK" THEN "RW" ELSE "LAZY"
                                     ELSE @[p]]]

(* UserMemory::map_pages: a present PTE with its own frame for every page *)
(* of the range (whatever the entry held before).                         *)
map_pages(mm, start, size, mode) ==
    [mm EXCEPT !.pte = [p \in Pages |-> IF p \in start .. start + size - 1 THEN mode ELSE @[p]]]

(* UserMemory::unmap_pages: every present PTE in the range is cleared and *)
(* its frame freed; entries that are not present are left as they are.    *)
unmap_pages(mm, start, size) ==
    [mm EXCEPT !.pte = [p \in Pages |->
                          IF p \in start .. start + size - 1 /\ @[p] \in {"RO", "RW", "KERNEL"}
                          THEN "NONE" ELSE @[p]]]

(* Bug variant: free_area leaves total_vm alone. *)
free_area_keeps_total_vm(mm, start) ==
    LET i == SelectInSeq(mm.areas, LAMBDA a : a.start = start)
        size == IF i = 0 THEN 0 ELSE mm.areas[i].end - mm.areas[i].start
        mm1 == IF i = 0 THEN mm ELSE [mm EXCEPT !.areas = RemoveAt(@, i)]
    IN unmap_pages(mm1, start, size)

(* UserMemory::free_area: remove the first area that starts at start      *)
(* (later entries move down) and unmap_pages(start, its size); a start    *)
(* that matches nothing unmaps 0 pages.                                    *)
free_area(mm, start) ==
    LET i == SelectInSeq(mm.areas, LAMBDA a : a.start = start)
        size == IF i = 0 THEN 0 ELSE mm.areas[i].end - mm.areas[i].start
        mm1 == IF i = 0 THEN mm
               ELSE [mm EXCEPT !.areas = RemoveAt(@, i), !.total_vm = @ - size]
    IN unmap_pages(mm1, start, size)

(* sys_mmap with fd < 0: allocate_area(length, 0, MEM_TYPE_ANONYMOUS).    *)
Mmap(len) ==
    /\ user_mm' = allocate_area(user_mm, len, "ANONYMOUS")
    /\ UNCHANGED halted

(* Task::allocUserStack / Stacks::allocSpace: a USER_STACK_SIZE area of    *)
(* type stack, eagerly backed.                                             *)
AllocUserStack ==
    /\ user_mm' = allocate_area(user_mm, StackPages, "STACK")
    /\ UNCHANGED halted

(* execve: allocate_area(size, PAGE_WRITE, 0) for the file, a fresh frame  *)
(* mapped at every page of it (from filep, which is 0 if the allocation    *)
(* failed), sys_read; if the read fails free_area(filep) and return.       *)
(* Otherwise the 1 MiB at 0x100000 is mapped user-writable onto the same   *)
(* physical memory and the ELF is loaded; if that fails free_area(filep).  *)
(* On success the task enters user mode with the area left in place.       *)
Execve(size, outcome) ==
    LET filep == AreaStart(user_mm, size)
        loaded == map_pages(allocate_area(user_mm, size, "CODE"), filep, size, "RW")
        elf == map_pages(loaded, Min(ELF_PAGES), Cardinality(ELF_PAGES), "KERNEL")
    IN
    /\ user_mm' = CASE outcome = "read_fails" -> free_area(loaded, filep)
                    [] outcome = "load_fails" -> free_area(elf, filep)
                    [] outcome = "ok"         -> elf
    /\ UNCHANGED halted

(* A user access to page p that the MMU refuses (not present, or a write   *)
(* to a read-only page) enters page_fault_handler.  Not present: a fresh   *)
(* frame is mapped, writable only for a write access.  Present and a       *)
(* write: copyCOWPage reads the PTE flags through getPageFlags, which      *)
(* dereferences the page table's physical address as a virtual one; for   *)
(* the zone's frames that address is unmapped, the nested kernel fault     *)
(* ends in "kernel page fault unexpected" and the hlt at the panic label.  *)
PageFault(p, write) ==
    LET e == user_mm.pte[p] IN
    /\ \/ e \in {"NONE", "LAZY"}
       \/ write /\ e = "RO"
    /\ IF e \in {"NONE", "LAZY"}
       THEN /\ user_mm' = map_pages(user_mm, p, 1, IF write THEN "RW" ELSE "RO")
            /\ UNCHANGED halted
       ELSE /\ halted' = p
            /\ UNCHANGED user_mm

Outcomes == {"read_fails", "load_fails", "ok"}

(* Nothing runs on a CPU that has executed the panic hlt with interrupts   *)
(* off.                                                                    *)
Next ==
    /\ halted = -1
    /\ \/ \E len \in MmapPages : Mmap(len)
       \/ AllocUserStack
       \/ \E size \in ExecPages, o \in Outcomes : Execve(size, o)
       \/ \E p \in Pages, w \in BOOLEAN : PageFault(p, w)

Spec == Init /\ [][Next]_vars

-----------------------------------------------------------------------------
(***************************************************************************)
(* Properties                                                              *)
(***************************************************************************)

AreaPages == UNION {Area(user_mm.areas[i]) : i \in 1 .. Len(user_mm.areas)}

TypeOK ==
    /\ user_mm.areas \in Seq([start : 0 .. PageWrap - 1, end : 0 .. PageWrap, type : Types])
    /\ Len(user_mm.areas) <= MAX_MEMORY_AREAS
    /\ user_mm.total_vm \in Nat
    /\ user_mm.pte \in [Pages -> {"NONE", "LAZY", "RO", "RW", "KERNEL"}]
    /\ halted \in Pages \cup {-1}

(* spec.md 2 and 8: the VMAs of an address space are pairwise disjoint    *)
(* and inside [USER_START, USER_END).  find_free_area scans the array in   *)
(* array order, allocate_area appends wherever the area lands and mmap(0)  *)
(* adds an empty area at the next free start, which can lie below the end  *)
(* of the entry before it; the unsigned gap after that entry then wraps    *)
(* to a huge value and the next area is placed at that entry's end,       *)
(* over a later area or past USER_END.  Under AddressSpace.cfg TLC breaks *)
(* it after mmap(1), mmap(2), mmap(0), mmap(2); no run keeps it, and the   *)
(* overlap is recorded as a hazard.                                        *)
AreasWellFormed ==
    LET as == user_mm.areas IN
    /\ \A i \in 1 .. Len(as) : USER_START <= as[i].start /\ as[i].end <= USER_END
    /\ \A i, j \in 1 .. Len(as) : i # j => Area(as[i]) \cap Area(as[j]) = {}

(* total_vm counts the pages of the areas: allocate_area adds a size and   *)
(* free_area subtracts the size of the area it removed.                    *)
TotalVmMatchesAreas ==
    user_mm.total_vm = FoldLeft(LAMBDA acc, a : acc + a.end - a.start, 0, user_mm.areas)

(* spec.md scenario 5: an access inside a VMA is served by the fault       *)
(* handler: the first read of an anonymous page maps it, and a later       *)
(* write to it succeeds.  The CPU halts only for faults outside every VMA. *)
NoHaltInsideArea ==
    halted # -1 => halted \notin AreaPages

=============================================================================
