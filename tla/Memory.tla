------------------------------- MODULE Memory -------------------------------
(***************************************************************************)
(* What the allocator promises to the tasks: regions of the heap that are  *)
(* aligned, do not overlap, are at least as large as asked for and belong  *)
(* to one task until it gives them back or is reclaimed.                   *)
(***************************************************************************)
EXTENDS Integers

CONSTANTS Owners, Sizes, OS_MEMORY_ALIGNMENT, BLOCK_SIZE, heap_begin, heap_end

VARIABLES
    live,       \* the regions in use
    caller      \* whom the last call was made for

vars == <<live, caller>>

Addresses == {a \in heap_begin .. heap_end : a % OS_MEMORY_ALIGNMENT = 0}
\* Payloads never touch, nor do they leave the heap: the bytes before each
\* hold the allocator's own record of it.
Fits(region) ==
    /\ region.payload >= heap_begin + BLOCK_SIZE
    /\ region.payload + region.capacity <= heap_end
Apart(r, s) == \/ r.payload + r.capacity + BLOCK_SIZE <= s.payload
               \/ s.payload + s.capacity + BLOCK_SIZE <= r.payload

Init == live = {} /\ caller \notin Owners

\* At most a block too small to be one, and the alignment, are wasted.
Grant(size, owner) ==
    \E payload \in Addresses,
      capacity \in size .. size + BLOCK_SIZE + 2 * OS_MEMORY_ALIGNMENT - 1 :
        LET region == [payload |-> payload, capacity |-> capacity,
                       owner |-> owner]
        IN
        /\ Fits(region)
        /\ \A other \in live : Apart(region, other)
        /\ live' = live \cup {region}

\* Nobody gives back what belongs to another task.
Return(owner) ==
    \E region \in live : region.owner = owner /\ live' = live \ {region}

Reclaim(owner) == live' = {region \in live : region.owner # owner}

Next == \E owner \in Owners :
            /\ caller' = owner
            /\ \/ \E size \in Sizes : Grant(size, owner)
               \/ Return(owner)
               \/ Reclaim(owner)

Spec == Init /\ [][Next]_vars
=============================================================================
