----------------------------- MODULE Allocator -----------------------------
(***************************************************************************)
(* The heap of kernel/src/allocator.c: next-fit search, split, coalesce,   *)
(* release by owner.  Every call runs under PRIMASK (kernel.c), so calls   *)
(* do not interleave; the loops that change headers take a step a turn.    *)
(*                                                                         *)
(* heap.blocks maps the address of each block header in use to its header. *)
(* A header that a merge removes becomes payload, which is never read.     *)
(* The marker and the reserved bytes only detect stray writes, allocated   *)
(* always agrees with owner, and the counters of calls are only reported:  *)
(* all are left out.  So a call that fails changes nothing here.           *)
(***************************************************************************)
EXTENDS Integers, FiniteSetsExt

CONSTANTS
    Owners,                 \* task ids
    Sizes,                  \* requests, in bytes
    OS_MEMORY_ALIGNMENT,
    BLOCK_SIZE,             \* sizeof(os_memory_block_t)
    ArenaBegin, ArenaEnd    \* the memory given to os_allocator_init

ASSUME AllocatorConstants ==
    /\ 0 \notin Owners
    /\ OS_MEMORY_ALIGNMENT \in Nat \ {0}
    /\ BLOCK_SIZE \in Nat \ {0}
    /\ BLOCK_SIZE % OS_MEMORY_ALIGNMENT = 0     \* the static assertion
    /\ ArenaBegin \in Nat \ {0} /\ ArenaEnd \in Nat
    /\ Sizes \subseteq Nat

NULL == 0
OS_MEMORY_OWNER_NONE == 0

align_down(value) == value - (value % OS_MEMORY_ALIGNMENT)
align_up(value) == align_down(value + OS_MEMORY_ALIGNMENT - 1)

heap_begin == align_up(ArenaBegin)
heap_end == align_down(ArenaEnd)

ASSUME ArenaHoldsABlock ==
    heap_end - heap_begin >= BLOCK_SIZE + OS_MEMORY_ALIGNMENT

VARIABLES
    heap,
    caller,     \* the owner argument of the last call
    pc,         \* the loop that runs: "ready" when no call does
    block       \* the address in its variable block

vars == <<heap, caller, pc, block>>

Free(header) == header.owner = OS_MEMORY_OWNER_NONE

\* os_allocator_init
Init ==
    /\ heap = [blocks |-> [a \in {heap_begin} |->
                            [capacity |-> heap_end - heap_begin - BLOCK_SIZE,
                             next |-> NULL, previous |-> NULL,
                             owner |-> OS_MEMORY_OWNER_NONE]],
               next_fit |-> heap_begin,
               allocated_bytes |-> 0,
               high_watermark_bytes |-> 0]
    /\ caller = OS_MEMORY_OWNER_NONE
    /\ pc = "ready"
    /\ block = heap_begin

\* The bytes in use that a walk along the chain counts.
computed_allocated(h) ==
    LET from[a \in DOMAIN h.blocks] ==
            (IF Free(h.blocks[a]) THEN 0 ELSE h.blocks[a].capacity)
              + (IF h.blocks[a].next = NULL THEN 0
                 ELSE from[h.blocks[a].next])
    IN from[heap_begin]

\* block_chain_valid: the chain tiles the heap, both ways, and next_fit and
\* the byte counts agree with it.
block_chain_valid(h) ==
    /\ heap_begin \in DOMAIN h.blocks
    /\ \A a \in DOMAIN h.blocks :
          LET header == h.blocks[a]
              expected_next == a + BLOCK_SIZE + header.capacity
          IN
          /\ a % OS_MEMORY_ALIGNMENT = 0
          /\ header.capacity % OS_MEMORY_ALIGNMENT = 0
          /\ IF expected_next = heap_end THEN header.next = NULL
             ELSE /\ expected_next < heap_end
                  /\ header.next = expected_next
                  /\ expected_next \in DOMAIN h.blocks
                  /\ h.blocks[expected_next].previous = a
    /\ h.blocks[heap_begin].previous = NULL
    /\ h.next_fit \in DOMAIN h.blocks
    /\ computed_allocated(h) = h.allocated_bytes
    /\ h.high_watermark_bytes >= h.allocated_bytes

----------------------------------------------------------------------------
\* os_allocator_alloc

Suitable(h, bytes) ==
    {a \in DOMAIN h.blocks : Free(h.blocks[a])
                               /\ h.blocks[a].capacity >= bytes}

\* The search starts at next_fit and wraps; the chain is in address order.
NextFit(h, bytes) ==
    LET ahead == {a \in Suitable(h, bytes) : a >= h.next_fit}
    IN Min(IF ahead # {} THEN ahead ELSE Suitable(h, bytes))

\* Whether what remains of a block makes one.
Splits(h, a, bytes) ==
    h.blocks[a].capacity - bytes >= BLOCK_SIZE + OS_MEMORY_ALIGNMENT

\* The blocks once a has been cut to bytes.
Split(h, a, bytes) ==
    LET split == a + BLOCK_SIZE + bytes
        after == h.blocks[a].next
    IN [b \in DOMAIN h.blocks \cup {split} |->
           CASE b = split -> [capacity |-> h.blocks[a].capacity - bytes
                                             - BLOCK_SIZE,
                              next |-> after, previous |-> a,
                              owner |-> OS_MEMORY_OWNER_NONE]
             [] b = a -> [h.blocks[a] EXCEPT !.capacity = bytes,
                                             !.next = split]
             [] b = after -> [h.blocks[b] EXCEPT !.previous = split]
             [] OTHER -> h.blocks[b]]

Allocated(h, a, bytes, owner) ==
    LET cut == IF Splits(h, a, bytes) THEN Split(h, a, bytes) ELSE h.blocks
        total == h.allocated_bytes + cut[a].capacity
    IN [blocks |-> [cut EXCEPT ![a].owner = owner],
        next_fit |-> IF cut[a].next # NULL THEN cut[a].next ELSE heap_begin,
        allocated_bytes |-> total,
        high_watermark_bytes |->
            IF total > h.high_watermark_bytes THEN total
            ELSE h.high_watermark_bytes]

os_allocator_alloc(size, owner) ==
    LET bytes == align_up(size) IN
    /\ pc = "ready" /\ block_chain_valid(heap) /\ size # 0
    /\ Suitable(heap, bytes) # {}
    /\ heap' = Allocated(heap, NextFit(heap, bytes), bytes, owner)
    /\ caller' = owner
    /\ UNCHANGED <<pc, block>>

----------------------------------------------------------------------------
\* os_allocator_free and os_allocator_release_owner

SetFree(h, a) ==
    [h EXCEPT !.blocks[a].owner = OS_MEMORY_OWNER_NONE,
              !.allocated_bytes = @ - h.blocks[a].capacity]

\* The block after a becomes part of it.
Joined(h, a) ==
    LET removed == h.blocks[a].next
        after == h.blocks[removed].next
    IN [b \in DOMAIN h.blocks \ {removed} |->
           CASE b = a -> [h.blocks[a] EXCEPT
                            !.capacity = @ + BLOCK_SIZE
                                           + h.blocks[removed].capacity,
                            !.next = after]
             [] b = after -> [h.blocks[b] EXCEPT !.previous = a]
             [] OTHER -> h.blocks[b]]

\* Mutant: next_fit left on a header that is gone.
MergeForgettingNextFit(h, a) == [h EXCEPT !.blocks = Joined(h, a)]

merge_with_next(h, a) ==
    [h EXCEPT !.blocks = Joined(h, a),
              !.next_fit = IF @ = h.blocks[a].next THEN a ELSE @]

BothFree(h, a) ==
    /\ h.blocks[a].next # NULL
    /\ Free(h.blocks[a]) /\ Free(h.blocks[h.blocks[a].next])

Coalesces == pc \in {"free coalesces", "release coalesces"}

\* Mutant: one merge, though the block after may be free too.
MergesOnce ==
    /\ Coalesces /\ BothFree(heap, block)
    /\ heap' = merge_with_next(heap, block)
    /\ block' = IF heap'.blocks[block].next = NULL THEN block
                ELSE heap'.blocks[block].next
    /\ UNCHANGED <<caller, pc>>

\* A turn of coalesce_all's loop stays where it merges, else it goes on.
Merges ==
    /\ Coalesces /\ BothFree(heap, block)
    /\ heap' = merge_with_next(heap, block)
    /\ UNCHANGED <<caller, pc, block>>

GoesOn ==
    /\ Coalesces /\ ~BothFree(heap, block)
    /\ heap.blocks[block].next # NULL
    /\ block' = heap.blocks[block].next
    /\ UNCHANGED <<heap, caller, pc>>

\* The end of the loop, and of the call; a release starts the next search at
\* the first block.
Returns ==
    /\ Coalesces /\ heap.blocks[block].next = NULL
    /\ heap' = IF pc = "release coalesces"
               THEN [heap EXCEPT !.next_fit = heap_begin] ELSE heap
    /\ pc' = "ready"
    /\ block' = heap_begin
    /\ UNCHANGED caller

coalesce_all == Merges \/ GoesOn \/ Returns

\* Mutant: anybody may free.
OwnedByAnybody(h, payload, owner) ==
    {a \in DOMAIN h.blocks : a + BLOCK_SIZE = payload /\ ~Free(h.blocks[a])}

\* The block a pointer names, if it is allocated and the caller's
\* (find_payload_block).
OwnedBlock(h, payload, owner) ==
    {a \in DOMAIN h.blocks : a + BLOCK_SIZE = payload
                               /\ h.blocks[a].owner = owner}

os_allocator_free(payload, owner) ==
    /\ pc = "ready" /\ block_chain_valid(heap)
    /\ \E a \in OwnedBlock(heap, payload, owner) : heap' = SetFree(heap, a)
    /\ caller' = owner
    /\ pc' = "free coalesces"
    /\ UNCHANGED block

\* A call that finds no block of the owner's changes nothing.
os_allocator_release_owner(owner) ==
    /\ pc = "ready" /\ block_chain_valid(heap)
    /\ \E a \in DOMAIN heap.blocks : heap.blocks[a].owner = owner
    /\ caller' = owner
    /\ pc' = "release"
    /\ UNCHANGED <<heap, block>>

\* A turn of the loop that frees the caller's blocks.
ReleaseTurn ==
    LET next == heap.blocks[block].next IN
    /\ pc = "release"
    /\ heap' = IF heap.blocks[block].owner = caller THEN SetFree(heap, block)
               ELSE heap
    /\ block' = IF next # NULL THEN next ELSE heap_begin
    /\ pc' = IF next # NULL THEN pc ELSE "release coalesces"
    /\ UNCHANGED caller

Next ==
    \/ \E size \in Sizes, owner \in Owners : os_allocator_alloc(size, owner)
    \/ \E payload \in heap_begin .. heap_end, owner \in Owners :
          os_allocator_free(payload, owner)
    \/ \E owner \in Owners : os_allocator_release_owner(owner)
    \/ ReleaseTurn
    \/ coalesce_all

Spec == Init /\ [][Next]_vars

----------------------------------------------------------------------------

\* The validation that guards every call succeeds, after every sequence of
\* calls and even between two turns of their loops: no allocation, free or
\* release ever breaks the chain.
AlwaysValid == block_chain_valid(heap)

\* Free space is never left split between neighbours, so that a request fails
\* only if no gap between the live blocks is large enough for it.
FullyCoalesced ==
    pc = "ready" => \A a \in DOMAIN heap.blocks : ~BothFree(heap, a)

----------------------------------------------------------------------------
\* The chain of blocks implements disjoint regions with owners; no pointer or
\* owner passed to a call frees, shrinks or hands over another task's block.
\* A release takes back all that is the owner's, though it does so one by one.
Live == {a \in DOMAIN heap.blocks :
            /\ ~Free(heap.blocks[a])
            /\ ~(pc = "release" /\ heap.blocks[a].owner = caller)}

Region(a) == [payload |-> a + BLOCK_SIZE,
              capacity |-> heap.blocks[a].capacity,
              owner |-> heap.blocks[a].owner]

Regions == INSTANCE Memory WITH live <- {Region(a) : a \in Live}

ImplementsMemory == Regions!Spec
=============================================================================
