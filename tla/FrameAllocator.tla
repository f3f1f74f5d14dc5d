--------------------------- MODULE FrameAllocator ---------------------------
(***************************************************************************)
(* What a physical frame allocator promises its callers (spec.md 4.A):     *)
(* an allocation of order o hands out 2^o contiguous frames that are free, *)
(* and a free gives a held run back.  Which run is chosen, and whether an  *)
(* allocation fails, is left open.                                         *)
(***************************************************************************)
EXTENDS Naturals

CONSTANTS
    Frames,     \* the frames the allocator starts with
    Orders      \* the orders callers ask for

VARIABLES
    free,       \* frames not handed out
    allocated   \* runs handed out, as <<first frame, order>>

vars == <<free, allocated>>

Run(p, o) == p .. (p + 2^o - 1)

Init ==
    /\ free = Frames
    /\ allocated = {}

Alloc(o) ==
    \E p \in free :
        /\ Run(p, o) \subseteq free
        /\ free' = free \ Run(p, o)
        /\ allocated' = allocated \cup {<<p, o>>}

Free(b) ==
    /\ b \in allocated
    /\ free' = free \cup Run(b[1], b[2])
    /\ allocated' = allocated \ {b}

Next ==
    \/ \E o \in Orders : Alloc(o)
    \/ \E b \in allocated : Free(b)

Spec == Init /\ [][Next]_vars
=============================================================================
