-------------------------- MODULE AllocatorProofs --------------------------
(***************************************************************************)
(* The heap is never corrupt, its free space is never left split, and its  *)
(* blocks are the disjoint regions of Memory.tla: for every arena,         *)
(* alignment, size of a header, set of owners and set of requests.         *)
(***************************************************************************)
EXTENDS Allocator, WellFoundedInduction, TLAPS

----------------------------------------------------------------------------
\* Alignment.

Aligned(n) == n % OS_MEMORY_ALIGNMENT = 0

\* An aligned number is a multiple of the alignment, and only such a one is.
LEMMA AlignedMultiple ==
    ASSUME NEW n \in Int
    PROVE  Aligned(n) <=> \E k \in Int : n = OS_MEMORY_ALIGNMENT * k
  <1>1. OS_MEMORY_ALIGNMENT \in Nat \ {0}
    BY AllocatorConstants
  <1>2. /\ n = OS_MEMORY_ALIGNMENT * (n \div OS_MEMORY_ALIGNMENT)
                 + (n % OS_MEMORY_ALIGNMENT)
        /\ n \div OS_MEMORY_ALIGNMENT \in Int
    BY <1>1
  <1>3. \A k \in Int : (OS_MEMORY_ALIGNMENT * k) % OS_MEMORY_ALIGNMENT = 0
    BY <1>1
  <1> QED BY <1>1, <1>2, <1>3 DEF Aligned

\* Sums and differences of aligned numbers are aligned.
LEMMA AlignedSum ==
    ASSUME NEW m \in Int, Aligned(m), NEW n \in Int, Aligned(n)
    PROVE  Aligned(m + n) /\ Aligned(m - n)
  <1> DEFINE A == OS_MEMORY_ALIGNMENT
  <1>1. A \in Nat
    BY AllocatorConstants
  <1>2. PICK i \in Int : m = A * i
    BY AlignedMultiple
  <1>3. PICK j \in Int : n = A * j
    BY AlignedMultiple
  <1> HIDE DEF A
  <1>4. /\ m + n = A * (i + j) /\ i + j \in Int
        /\ m - n = A * (i - j) /\ i - j \in Int
    BY <1>1, <1>2, <1>3
  <1> QED BY <1>4, AlignedMultiple DEF A

\* What is aligned, and between the two, whatever the number
\* (align_up_address, align_down_address, align_up_size).
LEMMA AlignTo ==
    ASSUME NEW n \in Int
    PROVE  /\ align_down(n) \in Int /\ Aligned(align_down(n))
           /\ align_down(n) <= n /\ n < align_down(n) + OS_MEMORY_ALIGNMENT
           /\ align_up(n) \in Int /\ Aligned(align_up(n))
           /\ n <= align_up(n) /\ align_up(n) < n + OS_MEMORY_ALIGNMENT
  <1> DEFINE A == OS_MEMORY_ALIGNMENT
  <1>1. A \in Nat \ {0}
    BY AllocatorConstants
  <1>2. ASSUME NEW m \in Int
        PROVE  /\ align_down(m) \in Int /\ Aligned(align_down(m))
               /\ align_down(m) <= m /\ m < align_down(m) + A
    <2> HIDE DEF A
    <2>1. /\ m % A \in 0 .. A - 1
          /\ m = A * (m \div A) + (m % A) /\ m \div A \in Int
      BY <1>1
    <2>2. align_down(m) = m - (m % A)
      BY DEF align_down, A
    <2>3. align_down(m) = A * (m \div A)
      BY <1>1, <2>1, <2>2
    <2>4. align_down(m) \in Int /\ align_down(m) <= m
            /\ m < align_down(m) + A
      BY <1>1, <2>1, <2>2
    <2>5. Aligned(align_down(m))
      BY <2>1, <2>3, <2>4, AlignedMultiple DEF A
    <2> QED BY <2>4, <2>5
  <1>3. n + A - 1 \in Int
    BY <1>1
  <1>4. align_up(n) = align_down(n + A - 1)
    BY DEF align_up
  <1>5. /\ align_up(n) \in Int /\ Aligned(align_up(n))
        /\ align_up(n) <= n + A - 1 /\ n + A - 1 < align_up(n) + A
    BY <1>2, <1>3, <1>4
  <1> HIDE DEF A
  <1>6. n <= align_up(n) /\ align_up(n) < n + A
    BY <1>1, <1>5
  <1> QED BY <1>2, <1>5, <1>6 DEF A

\* The bounds of the heap, which are aligned, and its room for a block.
LEMMA HeapBounds ==
    /\ heap_begin \in Nat \ {0} /\ Aligned(heap_begin)
    /\ heap_end \in Nat /\ Aligned(heap_end)
    /\ heap_begin + BLOCK_SIZE < heap_end
    /\ BLOCK_SIZE \in Nat \ {0} /\ Aligned(BLOCK_SIZE)
    /\ OS_MEMORY_ALIGNMENT \in Nat \ {0}
    /\ OS_MEMORY_OWNER_NONE \notin Owners
  <1>1. /\ BLOCK_SIZE \in Nat \ {0} /\ Aligned(BLOCK_SIZE)
        /\ OS_MEMORY_ALIGNMENT \in Nat \ {0}
        /\ ArenaBegin \in Nat \ {0} /\ ArenaEnd \in Nat
        /\ OS_MEMORY_OWNER_NONE \notin Owners
    BY AllocatorConstants DEF Aligned, OS_MEMORY_OWNER_NONE
  <1>2. /\ heap_begin \in Int /\ Aligned(heap_begin)
        /\ ArenaBegin <= heap_begin
        /\ heap_end \in Int /\ Aligned(heap_end)
    BY <1>1, AlignTo DEF heap_begin, heap_end
  <1>3. heap_end - heap_begin >= BLOCK_SIZE + OS_MEMORY_ALIGNMENT
    BY ArenaHoldsABlock
  <1>4. heap_begin \in Nat \ {0} /\ heap_end \in Nat
          /\ heap_begin + BLOCK_SIZE < heap_end
    BY <1>1, <1>2, <1>3
  <1> QED BY <1>1, <1>2, <1>4
----------------------------------------------------------------------------
\* The inductive invariant.

Header == [capacity : Nat, next : Nat, previous : Nat,
           owner : Owners \cup {OS_MEMORY_OWNER_NONE}]

Chains == UNION {[D -> Header] : D \in SUBSET (heap_begin .. heap_end)}

Heaps == [blocks : Chains, next_fit : Nat,
          allocated_bytes : Int, high_watermark_bytes : Int]

\* The address after the block at a, which is also its successor's: its own
\* next is that or, at the end of the heap, NULL.
BlockEnd(c, a) == a + BLOCK_SIZE + c[a].capacity

Linked(c, a) ==
    /\ Aligned(a) /\ Aligned(c[a].capacity)
    /\ \/ BlockEnd(c, a) = heap_end /\ c[a].next = NULL
       \/ /\ BlockEnd(c, a) < heap_end /\ c[a].next = BlockEnd(c, a)
          /\ c[a].next \in DOMAIN c
          /\ c[c[a].next].previous = a

\* The blocks tile the heap: links alone would allow headers off the chain.
Tiles(c) ==
    /\ c \in Chains
    /\ heap_begin \in DOMAIN c
    /\ c[heap_begin].previous = NULL
    /\ \A a \in DOMAIN c : Linked(c, a)
    /\ \A a, b \in DOMAIN c : a < b => BlockEnd(c, a) <= b

\* The bytes in use from each block on, given those from its successor on.
InUse(c, a) == IF Free(c[a]) THEN 0 ELSE c[a].capacity
Tallied(c, q) ==
    [a \in DOMAIN c |-> InUse(c, a)
                          + (IF c[a].next = NULL THEN 0 ELSE q[c[a].next])]

Counted(h) ==
    /\ \E q \in [DOMAIN h.blocks -> Int] :
          q = Tallied(h.blocks, q) /\ q[heap_begin] = h.allocated_bytes
    /\ h.high_watermark_bytes >= h.allocated_bytes

ChainInv(h) ==
    /\ h \in Heaps
    /\ Tiles(h.blocks)
    /\ h.next_fit \in DOMAIN h.blocks
    /\ Counted(h)

\* What a loop has done so far it has done below its block.
LoopInv ==
    /\ pc \in {"ready", "release", "free coalesces", "release coalesces"}
    /\ caller \in Owners \cup {OS_MEMORY_OWNER_NONE}
    /\ block \in DOMAIN heap.blocks
    /\ pc = "ready" => block = heap_begin
    /\ pc = "release" =>
          /\ caller \in Owners
          /\ \A a \in DOMAIN heap.blocks :
                a < block => heap.blocks[a].owner # caller
    /\ Coalesces =>
          \A a \in DOMAIN heap.blocks : a < block => ~BothFree(heap, a)

HeapInv == ChainInv(heap) /\ LoopInv /\ FullyCoalesced

----------------------------------------------------------------------------
\* The chain.

\* What a header holds.
LEMMA HeaderTypes ==
    ASSUME NEW c \in Chains, NEW a \in DOMAIN c
    PROVE  /\ c[a] \in Header
           /\ a \in Nat /\ heap_begin <= a /\ a <= heap_end
           /\ c[a].capacity \in Nat /\ c[a].next \in Nat
           /\ c[a].previous \in Nat
           /\ c[a].owner \in Owners \cup {OS_MEMORY_OWNER_NONE}
  <1>1. PICK D \in SUBSET (heap_begin .. heap_end) : c \in [D -> Header]
    BY DEF Chains
  <1>2. DOMAIN c = D /\ c[a] \in Header
    BY <1>1
  <1>3. a \in heap_begin .. heap_end
    BY <1>1, <1>2
  <1> QED BY <1>2, <1>3, HeapBounds DEF Header

\* A function from addresses in the heap to headers is a chain.
LEMMA ChainType ==
    ASSUME NEW D \in SUBSET (heap_begin .. heap_end), NEW c \in [D -> Header]
    PROVE  c \in Chains
  BY DEF Chains

\* Where a block's successor is, and that nothing is between the two.
LEMMA Follows ==
    ASSUME NEW c, Tiles(c), NEW a \in DOMAIN c
    PROVE  /\ BlockEnd(c, a) \in Nat /\ BlockEnd(c, a) <= heap_end
           /\ a + BLOCK_SIZE <= BlockEnd(c, a) /\ a < BlockEnd(c, a)
           /\ c[a].next = NULL => /\ BlockEnd(c, a) = heap_end
                                  /\ \A b \in DOMAIN c : b <= a
           /\ c[a].next # NULL => /\ BlockEnd(c, a) < heap_end
                                  /\ c[a].next = BlockEnd(c, a)
                                  /\ c[a].next \in DOMAIN c
                                  /\ c[c[a].next].previous = a
                                  /\ \A b \in DOMAIN c :
                                        b <= a \/ c[a].next <= b
  <1>1. c \in Chains
    BY DEF Tiles
  <1>2. \A b \in DOMAIN c : b \in Nat /\ c[b].capacity \in Nat
                              /\ c[b].next \in Nat
    BY <1>1, HeaderTypes
  <1>3. BLOCK_SIZE \in Nat \ {0} /\ heap_end \in Nat
    BY HeapBounds
  <1>4. \A b \in DOMAIN c : /\ BlockEnd(c, b) \in Nat
                            /\ BlockEnd(c, b) >= b + BLOCK_SIZE
                            /\ BlockEnd(c, b) > b
    BY <1>2, <1>3 DEF BlockEnd
  <1>5. \A b \in DOMAIN c : BlockEnd(c, b) <= heap_end
    BY <1>3, <1>4 DEF Tiles, Linked
  <1>6. \A b \in DOMAIN c : a < b => BlockEnd(c, a) <= b
    BY DEF Tiles
  <1>7. Linked(c, a)
    BY DEF Tiles
  <1>8. CASE c[a].next = NULL
    <2>1. BlockEnd(c, a) = heap_end
      BY <1>2, <1>4, <1>7, <1>8 DEF Linked, NULL
    <2>2. ASSUME NEW b \in DOMAIN c PROVE b <= a
      <3>1. BlockEnd(c, b) <= heap_end /\ BlockEnd(c, b) > b
        BY <1>4, <1>5
      <3>2. a < b => BlockEnd(c, a) <= b
        BY <1>6
      <3> QED BY <2>1, <3>1, <3>2, <1>2, <1>3, <1>4
    <2> QED BY <1>4, <1>5, <1>8, <2>1, <2>2
  <1>9. CASE c[a].next # NULL
    <2>1. /\ BlockEnd(c, a) < heap_end /\ c[a].next = BlockEnd(c, a)
          /\ c[a].next \in DOMAIN c /\ c[c[a].next].previous = a
      BY <1>7, <1>9 DEF Linked
    <2>2. ASSUME NEW b \in DOMAIN c PROVE b <= a \/ c[a].next <= b
      BY <1>2, <1>6, <2>1
    <2> QED BY <1>4, <1>5, <1>9, <2>1, <2>2
  <1> QED BY <1>8, <1>9

\* Headers are a multiple of the alignment apart, so what a cut leaves over is.
LEMMA AlignedEnd ==
    ASSUME NEW c, Tiles(c), NEW a \in DOMAIN c
    PROVE  Aligned(a) /\ Aligned(c[a].capacity) /\ Aligned(BlockEnd(c, a))
  <1>1. Aligned(a) /\ Aligned(c[a].capacity) /\ c \in Chains
    BY DEF Tiles, Linked
  <1>2. a \in Int /\ c[a].capacity \in Int
    BY <1>1, HeaderTypes
  <1>3. BLOCK_SIZE \in Int /\ Aligned(BLOCK_SIZE)
    BY HeapBounds
  <1>4. Aligned(a + BLOCK_SIZE) /\ a + BLOCK_SIZE \in Int
    <2>1. Aligned(a + BLOCK_SIZE)
      BY <1>1, <1>2, <1>3, AlignedSum
    <2> QED BY <1>2, <1>3, <2>1
  <1>5. Aligned((a + BLOCK_SIZE) + c[a].capacity)
    BY <1>1, <1>2, <1>4, AlignedSum
  <1> QED BY <1>1, <1>2, <1>3, <1>5 DEF BlockEnd
----------------------------------------------------------------------------
\* The bytes in use.

\* A set of naturals that is not empty has a least element.
LEMMA LeastNat ==
    ASSUME NEW T \in SUBSET Nat, T # {}
    PROVE  \E m \in T : \A n \in T : m <= n
  <1>1. PICK m \in T : \A n \in T : ~(<<n, m>> \in OpToRel(<, Nat))
    BY NatLessThanWellFounded, WFMin, Zenon
  <1>2. ASSUME NEW n \in T PROVE m <= n
    <2>1. ~(n < m)
      BY <1>1, m \in Nat, n \in Nat DEF OpToRel
    <2> QED BY <2>1, m \in Nat, n \in Nat
  <1> QED BY <1>2

\* Of some addresses of the heap one is the greatest: an induction over the
\* chain starts at its end.
LEMMA LastAddress ==
    ASSUME NEW T \in SUBSET (heap_begin .. heap_end), T # {}
    PROVE  \E m \in T : \A n \in T : n <= m
  <1> DEFINE distances == {heap_end - a : a \in T}
  <1>1. heap_end \in Nat /\ heap_begin \in Nat
    BY HeapBounds
  <1>2. distances \in SUBSET Nat /\ distances # {}
    <2>1. \A a \in T : a \in heap_begin .. heap_end
      OBVIOUS
    <2>2. \A a \in T : heap_end - a \in Nat
      BY <1>1, <2>1
    <2> QED BY <2>2
  <1> HIDE DEF distances
  <1>3. PICK d \in distances : \A e \in distances : d <= e
    BY <1>2, LeastNat
  <1>4. PICK m \in T : d = heap_end - m
    BY DEF distances
  <1>5. ASSUME NEW n \in T PROVE n <= m
    <2>1. heap_end - n \in distances
      BY DEF distances
    <2>2. heap_end - m <= heap_end - n
      BY <1>3, <1>4, <2>1
    <2>3. m \in Int /\ n \in Int
      BY <1>1
    <2> QED BY <1>1, <2>2, <2>3
  <1> QED BY <1>5

\* A chain has one tally, for its links lead to its end.
LEMMA TallyUnique ==
    ASSUME NEW c, Tiles(c), NEW q, q = Tallied(c, q),
           NEW r, r = Tallied(c, r)
    PROVE  q = r
  <1> DEFINE T == {a \in DOMAIN c : q[a] # r[a]}
  <1>1. /\ DOMAIN q = DOMAIN c /\ DOMAIN r = DOMAIN c
        /\ \A a \in DOMAIN c :
              /\ q[a] = InUse(c, a)
                          + (IF c[a].next = NULL THEN 0 ELSE q[c[a].next])
              /\ r[a] = InUse(c, a)
                          + (IF c[a].next = NULL THEN 0 ELSE r[c[a].next])
    BY DEF Tallied
  <1>2. T = {}
    <2> SUFFICES ASSUME T # {} PROVE FALSE
      OBVIOUS
    <2>1. DOMAIN c \in SUBSET (heap_begin .. heap_end)
      BY DEF Tiles, Chains
    <2>2. PICK a \in T : \A b \in T : b <= a
      <3>1. T \in SUBSET (heap_begin .. heap_end)
        BY <2>1
      <3> HIDE DEF T
      <3> QED BY <3>1, LastAddress
    <2>3. a \in DOMAIN c /\ q[a] # r[a]
      OBVIOUS
    <2>4. CASE c[a].next = NULL
      BY <1>1, <2>3, <2>4
    <2>5. CASE c[a].next # NULL
      <3>1. /\ c[a].next \in DOMAIN c /\ c[a].next = BlockEnd(c, a)
            /\ a < BlockEnd(c, a) /\ BlockEnd(c, a) \in Nat
        BY <2>3, <2>5, Follows
      <3>2. a \in Nat
        BY <2>3, HeaderTypes DEF Tiles
      <3>3. c[a].next \notin T
        BY <2>2, <3>1, <3>2
      <3>4. q[c[a].next] = r[c[a].next]
        BY <3>1, <3>3
      <3> QED BY <1>1, <2>3, <2>5, <3>4
    <2> QED BY <2>4, <2>5
  <1>3. \A a \in DOMAIN c : q[a] = r[a]
    BY <1>2
  <1>4. /\ q = [a \in DOMAIN c |-> q[a]]
        /\ r = [a \in DOMAIN c |-> r[a]]
    BY <1>1 DEF Tallied
  <1> QED BY <1>3, <1>4

\* The walk of block_chain_valid computes the tally of the first block.
LEMMA WalkComputes ==
    ASSUME NEW h, Tiles(h.blocks), NEW q, q = Tallied(h.blocks, q)
    PROVE  computed_allocated(h) = q[heap_begin]
  <1> DEFINE from == CHOOSE f : f = Tallied(h.blocks, f)
  <1>1. from = Tallied(h.blocks, from)
    OBVIOUS
  <1>2. computed_allocated(h) = from[heap_begin]
    BY DEF computed_allocated, Tallied, InUse
  <1> HIDE DEF from
  <1>3. from = q
    BY <1>1, TallyUnique
  <1> QED BY <1>2, <1>3

\* The invariant is what the code validates before every call.
LEMMA InvIsValid ==
    ASSUME NEW h, ChainInv(h)
    PROVE  block_chain_valid(h)
  <1> DEFINE c == h.blocks
  <1>1. Tiles(c) /\ h.next_fit \in DOMAIN c
    BY DEF ChainInv
  <1>2. PICK q : q = Tallied(c, q) /\ q[heap_begin] = h.allocated_bytes
    BY DEF ChainInv, Counted
  <1>3. computed_allocated(h) = h.allocated_bytes
    BY <1>1, <1>2, WalkComputes
  <1>4. h.high_watermark_bytes >= h.allocated_bytes
    BY DEF ChainInv, Counted
  <1>5. /\ heap_begin \in DOMAIN c
        /\ c[heap_begin].previous = NULL
        /\ \A a \in DOMAIN c : Linked(c, a)
    BY <1>1 DEF Tiles
  <1>6. ASSUME NEW a \in DOMAIN c
        PROVE  LET header == h.blocks[a]
                   expected_next == a + BLOCK_SIZE + header.capacity
               IN /\ a % OS_MEMORY_ALIGNMENT = 0
                  /\ header.capacity % OS_MEMORY_ALIGNMENT = 0
                  /\ IF expected_next = heap_end THEN header.next = NULL
                     ELSE /\ expected_next < heap_end
                          /\ header.next = expected_next
                          /\ expected_next \in DOMAIN h.blocks
                          /\ h.blocks[expected_next].previous = a
    <2>1. Linked(c, a) /\ BlockEnd(c, a) \in Nat /\ heap_end \in Nat
      BY <1>1, <1>5, Follows, HeapBounds
    <2> QED BY <2>1 DEF Linked, BlockEnd, Aligned
  <1> QED BY <1>1, <1>3, <1>4, <1>5, <1>6 DEF block_chain_valid
----------------------------------------------------------------------------
\* A block changes hands.

Reowned(c, a, o) == [c EXCEPT ![a].owner = o]

\* Only the owner of that block changes.
LEMMA ReownedHeaders ==
    ASSUME NEW c \in Chains, NEW a \in DOMAIN c,
           NEW o \in Owners \cup {OS_MEMORY_OWNER_NONE}
    PROVE  /\ Reowned(c, a, o) \in Chains
           /\ DOMAIN Reowned(c, a, o) = DOMAIN c
           /\ \A b \in DOMAIN c :
                 /\ Reowned(c, a, o)[b].capacity = c[b].capacity
                 /\ Reowned(c, a, o)[b].next = c[b].next
                 /\ Reowned(c, a, o)[b].previous = c[b].previous
                 /\ Reowned(c, a, o)[b].owner
                       = IF b = a THEN o ELSE c[b].owner
  <1>1. PICK D \in SUBSET (heap_begin .. heap_end) : c \in [D -> Header]
    BY DEF Chains
  <1>2. \A b \in D : c[b] \in Header
    BY <1>1
  <1>3. DOMAIN c = D /\ a \in D
    BY <1>1
  <1>4. [c[a] EXCEPT !.owner = o] \in Header
    BY <1>2, <1>3 DEF Header
  <1>5. Reowned(c, a, o) = [c EXCEPT ![a] = [c[a] EXCEPT !.owner = o]]
    BY DEF Reowned
  <1>6. Reowned(c, a, o) \in [D -> Header]
    BY <1>1, <1>4, <1>5
  <1>7. Reowned(c, a, o) \in Chains
    BY <1>6, ChainType
  <1>8. ASSUME NEW b \in DOMAIN c
        PROVE  /\ Reowned(c, a, o)[b].capacity = c[b].capacity
               /\ Reowned(c, a, o)[b].next = c[b].next
               /\ Reowned(c, a, o)[b].previous = c[b].previous
               /\ Reowned(c, a, o)[b].owner
                     = IF b = a THEN o ELSE c[b].owner
    BY <1>2, <1>3, <1>5 DEF Header
  <1> QED BY <1>3, <1>6, <1>7, <1>8

\* Owners have no part in the tiling.
LEMMA ReownedTiles ==
    ASSUME NEW c, Tiles(c), NEW a \in DOMAIN c,
           NEW o \in Owners \cup {OS_MEMORY_OWNER_NONE}
    PROVE  Tiles(Reowned(c, a, o))
  <1> DEFINE d == Reowned(c, a, o)
  <1>1. c \in Chains /\ heap_begin \in DOMAIN c
    BY DEF Tiles
  <1>2. /\ d \in Chains /\ DOMAIN d = DOMAIN c
        /\ \A b \in DOMAIN c : /\ d[b].capacity = c[b].capacity
                               /\ d[b].next = c[b].next
                               /\ d[b].previous = c[b].previous
    BY <1>1, ReownedHeaders
  <1> HIDE DEF d
  <1>3. \A b \in DOMAIN c : BlockEnd(d, b) = BlockEnd(c, b)
    BY <1>2 DEF BlockEnd
  <1>4. \A b \in DOMAIN c : Linked(d, b)
    BY <1>2, <1>3 DEF Linked, Tiles
  <1> QED BY <1>2, <1>3, <1>4 DEF Tiles, d

\* The tally changes up to the block by what is in use there now, less what
\* was.
LEMMA ReownedTally ==
    ASSUME NEW c, Tiles(c), NEW a \in DOMAIN c,
           NEW o \in Owners \cup {OS_MEMORY_OWNER_NONE},
           NEW q \in [DOMAIN c -> Int], q = Tallied(c, q)
    PROVE  \E r \in [DOMAIN c -> Int] :
              /\ r = Tallied(Reowned(c, a, o), r)
              /\ r[heap_begin] = q[heap_begin]
                                   + (InUse(Reowned(c, a, o), a) - InUse(c, a))
  <1> DEFINE d == Reowned(c, a, o)
             change == InUse(d, a) - InUse(c, a)
             r == [b \in DOMAIN c |-> IF b <= a THEN q[b] + change ELSE q[b]]
  <1>1. c \in Chains /\ heap_begin \in DOMAIN c
    BY DEF Tiles
  <1>2. /\ DOMAIN d = DOMAIN c
        /\ \A b \in DOMAIN c : /\ d[b].capacity = c[b].capacity
                               /\ d[b].next = c[b].next
                               /\ b # a => d[b].owner = c[b].owner
    BY <1>1, ReownedHeaders
  <1>3. \A b \in DOMAIN c : /\ b \in Nat /\ heap_begin <= b
                            /\ InUse(c, b) \in Int
                            /\ b # a => InUse(d, b) = InUse(c, b)
    BY <1>1, <1>2, HeaderTypes DEF InUse, Free
  <1>4. InUse(d, a) \in Int
    BY <1>1, <1>2, HeaderTypes DEF InUse
  <1>5. \A b \in DOMAIN c : q[b] = InUse(c, b)
                              + (IF c[b].next = NULL THEN 0 ELSE q[c[b].next])
    BY DEF Tallied
  <1>6. change \in Int
    BY <1>3, <1>4
  <1>7. r \in [DOMAIN c -> Int]
    BY <1>6
  <1>8. ASSUME NEW b \in DOMAIN c
        PROVE  r[b] = InUse(d, b)
                        + (IF d[b].next = NULL THEN 0 ELSE r[d[b].next])
    <2> DEFINE n == c[b].next
    <2>1. CASE n = NULL
      <3>1. a <= b /\ q[b] = InUse(c, b)
        BY <1>3, <1>5, <2>1, Follows
      <3>2. CASE b = a
        BY <1>2, <1>3, <1>4, <2>1, <3>1, <3>2
      <3>3. CASE b # a
        <4>1. r[b] = q[b]
          BY <1>3, <3>1, <3>3
        <4> QED BY <1>2, <1>3, <2>1, <3>1, <3>3, <4>1
      <3> QED BY <3>2, <3>3
    <2>2. CASE n # NULL
      <3>1. /\ n \in DOMAIN c /\ b < n /\ (a <= b \/ n <= a)
            /\ q[b] = InUse(c, b) + q[n] /\ q[n] \in Int /\ n \in Nat
        BY <1>3, <1>5, <2>2, Follows
      <3>2. CASE b = a
        <4>1. r[n] = q[n] /\ r[b] = q[b] + change
          BY <1>3, <3>1, <3>2
        <4> QED BY <1>2, <1>3, <1>4, <2>2, <3>1, <3>2, <4>1
      <3>3. CASE b # a /\ a <= b
        <4>1. r[n] = q[n] /\ r[b] = q[b]
          BY <1>3, <3>1, <3>3
        <4> QED BY <1>2, <1>3, <2>2, <3>1, <3>3, <4>1
      <3>4. CASE b # a /\ n <= a
        <4>1. r[n] = q[n] + change /\ r[b] = q[b] + change
          BY <1>3, <3>1, <3>4
        <4> HIDE DEF change
        <4> QED BY <1>2, <1>3, <1>6, <2>2, <3>1, <3>4, <4>1
      <3> QED BY <3>1, <3>2, <3>3, <3>4
    <2> QED BY <2>1, <2>2
  <1>9. r = Tallied(d, r)
    BY <1>2, <1>8 DEF Tallied
  <1>10. r[heap_begin] = q[heap_begin] + change
    BY <1>1, <1>3
  <1> QED BY <1>7, <1>9, <1>10
----------------------------------------------------------------------------
\* A merge.

\* What merge_with_next makes d of the headers c: the block at a takes in its
\* successor, the block behind both links back to it, and no other changes.
JoinShape(c, d, a) ==
    LET removed == c[a].next
        after == c[removed].next
    IN
    /\ removed \in DOMAIN c /\ removed # a /\ NULL \notin DOMAIN c
    /\ after # NULL => after \in DOMAIN c /\ after \notin {a, removed}
    /\ d \in Chains
    /\ DOMAIN d = DOMAIN c \ {removed}
    /\ d[a].capacity = c[a].capacity + BLOCK_SIZE + c[removed].capacity
    /\ d[a].next = after
    /\ d[a].previous = c[a].previous
    /\ d[a].owner = c[a].owner
    /\ after # NULL => /\ d[after].capacity = c[after].capacity
                       /\ d[after].next = c[after].next
                       /\ d[after].previous = a
                       /\ d[after].owner = c[after].owner
    /\ \A b \in DOMAIN d \ {a, after} : d[b] = c[b]

\* merge_with_next makes that of them.
LEMMA JoinedHeaders ==
    ASSUME NEW h, Tiles(h.blocks), NEW a \in DOMAIN h.blocks,
           h.blocks[a].next # NULL
    PROVE  JoinShape(h.blocks, Joined(h, a), a)
  <1> DEFINE c == h.blocks
             d == Joined(h, a)
             removed == c[a].next
             after == c[removed].next
  <1>1. c \in Chains /\ Tiles(c) /\ a \in DOMAIN c
    BY DEF Tiles
  <1>2. /\ removed \in DOMAIN c /\ a < removed
        /\ a \in Nat /\ removed \in Nat
    BY <1>1, Follows, HeaderTypes
  <1>3. after # NULL => /\ after \in DOMAIN c /\ removed < after
                        /\ after \in Nat
    BY <1>1, <1>2, Follows, HeaderTypes
  <1>4. after \notin {a, removed}
    BY <1>2, <1>3, <1>1, HeaderTypes, HeapBounds DEF NULL
  <1>5. \A b \in DOMAIN c : c[b] \in Header /\ b # NULL
                              /\ b \in heap_begin .. heap_end
    <2>1. \A b \in DOMAIN c : c[b] \in Header /\ b \in Nat
                                /\ heap_begin <= b /\ b <= heap_end
      BY <1>1, HeaderTypes
    <2> QED BY <2>1, HeapBounds DEF NULL
  <1> DEFINE sum == c[a].capacity + BLOCK_SIZE + c[removed].capacity
             grown == [c[a] EXCEPT !.capacity = sum, !.next = after]
             moved == [c[after] EXCEPT !.previous = a]
  <1>6. d = [b \in DOMAIN c \ {removed} |->
               CASE b = a -> grown [] b = after -> moved [] OTHER -> c[b]]
    BY <1>1, <1>5 DEF Joined, Header
  <1>7. /\ grown \in Header
        /\ grown.capacity = sum
        /\ grown.next = after /\ grown.previous = c[a].previous
        /\ grown.owner = c[a].owner
    <2>1. sum \in Nat /\ after \in Nat /\ c[a] \in Header
      BY <1>1, <1>2, <1>5, HeaderTypes, HeapBounds
    <2> HIDE DEF sum, after
    <2> QED BY <2>1 DEF Header
  <1>8. after # NULL => /\ moved \in Header
                        /\ moved.capacity = c[after].capacity
                        /\ moved.next = c[after].next
                        /\ moved.previous = a
                        /\ moved.owner = c[after].owner
    BY <1>2, <1>3, <1>5 DEF Header
  <1> HIDE DEF grown, moved, d
  <1>9. DOMAIN d = DOMAIN c \ {removed} /\ d[a] = grown
    <2>1. a \in DOMAIN c \ {removed}
      BY <1>1, <1>2
    <2> HIDE DEF c, removed, after
    <2> QED BY <1>4, <1>6, <2>1
  <1>10. after # NULL => d[after] = moved
    BY <1>3, <1>4, <1>6
  <1>11. \A b \in DOMAIN d \ {a, after} : d[b] = c[b]
    BY <1>6
  <1>12. \A b \in DOMAIN d : d[b] \in Header
    <2> SUFFICES ASSUME NEW b \in DOMAIN d PROVE d[b] \in Header
      OBVIOUS
    <2>1. b \in DOMAIN c /\ b # NULL /\ c[b] \in Header
      BY <1>5, <1>9
    <2> QED BY <2>1, <1>7, <1>8, <1>9, <1>10, <1>11
  <1>13. d \in Chains
    <2>1. d \in [DOMAIN d -> Header]
      BY <1>6, <1>12
    <2>2. DOMAIN d \in SUBSET (heap_begin .. heap_end)
      BY <1>5, <1>9
    <2> QED BY <2>1, <2>2, ChainType
  <1> QED
    BY <1>2, <1>3, <1>4, <1>5, <1>7, <1>8, <1>9, <1>10, <1>11, <1>13
    DEF d, JoinShape

\* The blocks tile the heap after a merge.
LEMMA JoinedTiles ==
    ASSUME NEW h, Tiles(h.blocks), NEW a \in DOMAIN h.blocks,
           h.blocks[a].next # NULL
    PROVE  Tiles(Joined(h, a))
  <1> DEFINE c == h.blocks
             d == Joined(h, a)
             removed == c[a].next
             after == c[removed].next
  <1>1. /\ c \in Chains /\ Tiles(c) /\ a \in DOMAIN c /\ a \in Nat
        /\ heap_begin \in DOMAIN c /\ heap_begin <= a
        /\ c[heap_begin].previous = NULL
    BY HeaderTypes DEF Tiles
  <1>2. /\ removed \in DOMAIN c /\ removed # a
        /\ after # NULL => after \in DOMAIN c /\ after \notin {a, removed}
        /\ d \in Chains
        /\ DOMAIN d = DOMAIN c \ {removed}
        /\ d[a].capacity = c[a].capacity + BLOCK_SIZE + c[removed].capacity
        /\ d[a].next = after
        /\ d[a].previous = c[a].previous
        /\ after # NULL => /\ d[after].capacity = c[after].capacity
                           /\ d[after].next = c[after].next
                           /\ d[after].previous = a
        /\ \A b \in DOMAIN d \ {a, after} : d[b] = c[b]
        /\ NULL \notin DOMAIN c
    <2>1. JoinShape(c, d, a)
      BY JoinedHeaders
    <2> HIDE DEF d, c
    <2> QED BY <2>1 DEF JoinShape
  <1> HIDE DEF d
  <1>3. /\ removed = BlockEnd(c, a) /\ a < removed /\ removed \in Nat
        /\ c[removed].previous = a
    BY <1>1, Follows
  <1>4. \A b \in DOMAIN c : /\ b \in Nat /\ b # NULL /\ heap_begin <= b
                            /\ c[b].capacity \in Nat /\ c[b].next \in Nat
                            /\ Linked(c, b) /\ BlockEnd(c, b) \in Nat
    BY <1>1, HeaderTypes, HeapBounds, Follows DEF NULL, Tiles
  <1>5. BlockEnd(d, a) = BlockEnd(c, removed)
    <2> DEFINE first == c[a].capacity
               second == c[removed].capacity
    <2>1. first \in Nat /\ second \in Nat /\ BLOCK_SIZE \in Nat /\ a \in Nat
      BY <1>1, <1>2, <1>4, HeapBounds
    <2>2. /\ d[a].capacity = first + BLOCK_SIZE + second
          /\ removed = a + BLOCK_SIZE + first
      BY <1>2, <1>3 DEF BlockEnd
    <2>3. BlockEnd(c, removed) = removed + BLOCK_SIZE + second
      BY DEF BlockEnd
    <2>4. BlockEnd(d, a) = a + BLOCK_SIZE + d[a].capacity
      BY DEF BlockEnd
    <2> HIDE DEF first, second, removed, d
    <2> QED BY <2>1, <2>2, <2>3, <2>4
  <1>5a. /\ after = NULL => BlockEnd(c, removed) = heap_end
         /\ after # NULL => /\ BlockEnd(c, removed) < heap_end
                            /\ after = BlockEnd(c, removed)
                            /\ removed < after
                            /\ c[after].previous = removed
    <2>1. Tiles(c) /\ removed \in DOMAIN c
      BY <1>1, <1>2
    <2> HIDE DEF c, removed
    <2> QED BY <2>1, Follows DEF after
  <1>6. \A b \in DOMAIN d \ {a} : /\ d[b].capacity = c[b].capacity
                                  /\ d[b].next = c[b].next
                                  /\ BlockEnd(d, b) = BlockEnd(c, b)
    BY <1>2 DEF BlockEnd
  <1>7. \A b \in DOMAIN d \ {after} : d[b].previous = c[b].previous
    BY <1>2
  <1>8. heap_begin \in DOMAIN d /\ d[heap_begin].previous = NULL
    <2>1. heap_begin # removed
      BY <1>1, <1>3, HeapBounds
    <2>2. heap_begin # after
      <3>1. heap_begin # NULL /\ heap_begin \in Nat
        BY HeapBounds DEF NULL
      <3>2. after # NULL => after \in Nat /\ removed < after
        BY <1>2, <1>4, <1>5a
      <3> QED BY <1>1, <1>3, <3>1, <3>2
    <2> QED BY <1>1, <1>2, <1>7, <2>1, <2>2
  <1>9. ASSUME NEW b \in DOMAIN d PROVE Linked(d, b)
    <2>1. b \in DOMAIN c /\ b # removed
      BY <1>2
    <2>2. CASE b = a
      <3>1. Linked(c, removed) /\ BlockEnd(c, removed) \in Nat
        BY <1>2, <1>4
      <3>2. Aligned(d[a].capacity)
        <4>1. /\ Aligned(c[a].capacity) /\ c[a].capacity \in Int
              /\ Aligned(c[removed].capacity) /\ c[removed].capacity \in Int
              /\ Aligned(BLOCK_SIZE) /\ BLOCK_SIZE \in Int
          <5>1. Linked(c, a) /\ Linked(c, removed)
            BY <1>1, <1>2, <1>4
          <5>2. c[a].capacity \in Nat /\ c[removed].capacity \in Nat
            BY <1>1, <1>2, <1>4
          <5>3. BLOCK_SIZE \in Nat /\ Aligned(BLOCK_SIZE)
            BY HeapBounds
          <5>4. Aligned(c[a].capacity) /\ Aligned(c[removed].capacity)
            BY <5>1 DEF Linked
          <5> QED BY <5>2, <5>3, <5>4
        <4>2. Aligned(c[a].capacity + BLOCK_SIZE)
          BY <4>1, AlignedSum
        <4>3. c[a].capacity + BLOCK_SIZE \in Int
          BY <4>1
        <4> QED BY <1>2, <4>1, <4>2, <4>3, AlignedSum
      <3>3. Aligned(a)
        BY <1>1, <1>4 DEF Linked
      <3>4. CASE after = NULL
        <4>1. BlockEnd(c, removed) = heap_end
          BY <1>5a, <3>4
        <4> QED BY <1>2, <1>5, <2>2, <3>2, <3>3, <3>4, <4>1 DEF Linked
      <3>5. CASE after # NULL
        <4>1. /\ BlockEnd(c, removed) < heap_end
              /\ after = BlockEnd(c, removed)
          BY <1>5a, <3>5
        <4>2. after \in DOMAIN d /\ d[after].previous = a
          BY <1>2, <3>5
        <4> QED BY <1>2, <1>5, <2>2, <3>2, <3>3, <3>5, <4>1, <4>2 DEF Linked
      <3> QED BY <3>4, <3>5
    <2>3. CASE b # a
      <3>1. /\ Linked(c, b) /\ d[b].capacity = c[b].capacity
            /\ d[b].next = c[b].next /\ BlockEnd(d, b) = BlockEnd(c, b)
        BY <1>4, <1>6, <2>1, <2>3
      <3>2. CASE c[b].next = NULL
        <4>1. BlockEnd(c, b) = heap_end
          BY <1>1, <2>1, <3>2, Follows
        <4> QED BY <3>1, <3>2, <4>1 DEF Linked
      <3>3. CASE c[b].next # NULL
        <4> DEFINE n == c[b].next
        <4>1. /\ BlockEnd(c, b) < heap_end /\ n = BlockEnd(c, b)
              /\ n \in DOMAIN c /\ c[n].previous = b
          BY <1>1, <2>1, <3>3, Follows
        <4>2. n # removed
          BY <1>3, <2>3, <4>1
        <4>3. n # after
          BY <1>5a, <2>1, <3>3, <4>1
        <4>4. n \in DOMAIN d /\ d[n].previous = b
          BY <1>2, <1>7, <4>1, <4>2, <4>3
        <4> QED BY <3>1, <3>3, <4>1, <4>4 DEF Linked
      <3> QED BY <3>2, <3>3
    <2> QED BY <2>2, <2>3
  <1>10. ASSUME NEW b1 \in DOMAIN d, NEW b2 \in DOMAIN d, b1 < b2
         PROVE  BlockEnd(d, b1) <= b2
    <2>1. /\ b1 \in DOMAIN c /\ b2 \in DOMAIN c /\ b2 # removed
          /\ b1 \in Nat /\ b2 \in Nat
      BY <1>2, <1>4
    <2>2. CASE b1 = a
      <3>1. removed <= b2
        BY <1>1, <1>10, <2>1, <2>2, Follows
      <3>2. removed < b2
        BY <1>3, <2>1, <3>1
      <3>3. BlockEnd(c, removed) <= b2
        BY <1>1, <1>2, <2>1, <3>2 DEF Tiles
      <3> QED BY <1>5, <2>2, <3>3
    <2>3. CASE b1 # a
      BY <1>1, <1>6, <1>10, <2>1, <2>3 DEF Tiles
    <2> QED BY <2>2, <2>3
  <1>11. Tiles(d)
    BY <1>2, <1>8, <1>9, <1>10 DEF Tiles
  <1> QED BY <1>11 DEF d

\* A merge of two free blocks keeps the tally of every other block.
LEMMA JoinedTally ==
    ASSUME NEW h, Tiles(h.blocks), NEW a \in DOMAIN h.blocks,
           BothFree(h, a),
           NEW q \in [DOMAIN h.blocks -> Int], q = Tallied(h.blocks, q)
    PROVE  \E r \in [DOMAIN Joined(h, a) -> Int] :
              /\ r = Tallied(Joined(h, a), r)
              /\ r[heap_begin] = q[heap_begin]
  <1> DEFINE c == h.blocks
             d == Joined(h, a)
             removed == c[a].next
             after == c[removed].next
             r == [b \in DOMAIN d |-> q[b]]
  <1>1. /\ c[a].next # NULL /\ Free(c[a]) /\ Free(c[removed])
        /\ Tiles(c) /\ Tiles(d) /\ c \in Chains
    BY JoinedTiles DEF BothFree, Tiles
  <1>2. /\ removed \in DOMAIN c
        /\ after # NULL => after \in DOMAIN c /\ after \notin {a, removed}
        /\ DOMAIN d = DOMAIN c \ {removed}
        /\ d[a].next = after
        /\ d[a].owner = c[a].owner
        /\ after # NULL => /\ d[after].capacity = c[after].capacity
                           /\ d[after].next = c[after].next
                           /\ d[after].owner = c[after].owner
        /\ \A b \in DOMAIN d \ {a, after} : d[b] = c[b]
        /\ NULL \notin DOMAIN c
    <2>1. c[a].next # NULL
      BY <1>1
    <2>2. JoinShape(c, d, a)
      BY <2>1, JoinedHeaders
    <2> HIDE DEF d, c
    <2> QED BY <2>2 DEF JoinShape
  <1> HIDE DEF d
  <1>3. \A b \in DOMAIN d \ {a} : /\ d[b].capacity = c[b].capacity
                                  /\ d[b].next = c[b].next
                                  /\ d[b].owner = c[b].owner
    BY <1>2
  <1>4. \A b \in DOMAIN c : q[b] = InUse(c, b)
                              + (IF c[b].next = NULL THEN 0 ELSE q[c[b].next])
    BY DEF Tallied
  <1>5. \A b \in DOMAIN c : q[b] \in Int
    OBVIOUS
  <1>6. r \in [DOMAIN d -> Int]
    BY <1>2, <1>5
  <1>7. ASSUME NEW b \in DOMAIN d
        PROVE  r[b] = InUse(d, b)
                        + (IF d[b].next = NULL THEN 0 ELSE r[d[b].next])
    <2>1. d[b].next # NULL => d[b].next \in DOMAIN d
      BY <1>1, Follows
    <2>2. d[b].next # NULL => r[d[b].next] = q[d[b].next]
      BY <2>1
    <2>3. b \in DOMAIN c /\ r[b] = q[b]
      BY <1>2
    <2>4. CASE b = a
      <3>1. InUse(c, a) = 0 /\ InUse(d, a) = 0 /\ InUse(c, removed) = 0
        BY <1>1, <1>2 DEF InUse, Free
      <3>2. q[a] = 0 + q[removed]
        BY <1>1, <1>4, <3>1
      <3>3. q[removed] = 0 + (IF after = NULL THEN 0 ELSE q[after])
        BY <1>2, <1>4, <3>1
      <3>4. q[a] \in Int /\ q[removed] \in Int
        BY <1>2, <1>5
      <3>5. q[a] = q[removed]
        BY <3>2, <3>4
      <3> QED BY <1>2, <2>2, <2>3, <2>4, <3>1, <3>3, <3>5
    <2>5. CASE b # a
      <3>1. /\ InUse(d, b) = InUse(c, b) /\ d[b].next = c[b].next
        BY <1>3, <2>5 DEF InUse, Free
      <3> QED BY <1>4, <2>2, <2>3, <3>1
    <2> QED BY <2>4, <2>5
  <1>8. r = Tallied(d, r)
    BY <1>7 DEF Tallied
  <1>9. r[heap_begin] = q[heap_begin]
    BY <1>1 DEF Tiles
  <1> HIDE DEF r
  <1>10. \E s \in [DOMAIN d -> Int] :
            s = Tallied(d, s) /\ s[heap_begin] = q[heap_begin]
    BY <1>6, <1>8, <1>9
  <1> QED BY <1>10 DEF d
----------------------------------------------------------------------------
\* What the operations make of a valid heap.

\* Setting a block of a task free.
LEMMA SetFreeKeeps ==
    ASSUME NEW h, ChainInv(h), NEW a \in DOMAIN h.blocks,
           h.blocks[a].owner \in Owners
    PROVE  /\ ChainInv(SetFree(h, a))
           /\ SetFree(h, a).blocks
                = Reowned(h.blocks, a, OS_MEMORY_OWNER_NONE)
  <1> DEFINE c == h.blocks
             none == OS_MEMORY_OWNER_NONE
             g == SetFree(h, a)
             d == Reowned(c, a, none)
             left == h.allocated_bytes - c[a].capacity
  <1>1. /\ h \in Heaps /\ Tiles(c) /\ c \in Chains
        /\ h.next_fit \in DOMAIN c /\ Counted(h)
    BY DEF ChainInv, Tiles
  <1>2. g = [h EXCEPT !.blocks = d, !.allocated_bytes = left]
    BY <1>1 DEF SetFree, Reowned, Heaps
  <1>3. c[a].capacity \in Nat
    BY <1>1, HeaderTypes
  <1>4. /\ Tiles(d) /\ DOMAIN d = DOMAIN c /\ d \in Chains
        /\ d[a].owner = none
    <2>1. none \in Owners \cup {OS_MEMORY_OWNER_NONE}
      OBVIOUS
    <2>2. Tiles(d)
      BY <1>1, <2>1, ReownedTiles
    <2> QED BY <1>1, <2>1, <2>2, ReownedHeaders
  <1>5. InUse(d, a) = 0 /\ InUse(c, a) = c[a].capacity
    BY <1>4, HeapBounds DEF InUse, Free
  <1>6. PICK q \in [DOMAIN c -> Int] :
           q = Tallied(c, q) /\ q[heap_begin] = h.allocated_bytes
    BY <1>1 DEF Counted
  <1>7. PICK r \in [DOMAIN c -> Int] :
           /\ r = Tallied(d, r)
           /\ r[heap_begin] = q[heap_begin] + (InUse(d, a) - InUse(c, a))
    BY <1>1, <1>6, ReownedTally
  <1>8. r[heap_begin] = left /\ left \in Int
    BY <1>1, <1>3, <1>5, <1>6, <1>7 DEF Heaps
  <1>9. h.high_watermark_bytes >= left
    <2>1. h.high_watermark_bytes >= h.allocated_bytes
            /\ h.high_watermark_bytes \in Int /\ h.allocated_bytes \in Int
      BY <1>1 DEF Counted, Heaps
    <2> QED BY <1>3, <2>1
  <1> HIDE DEF d, left
  <1>10. /\ g.blocks = d /\ g.next_fit = h.next_fit
         /\ g.allocated_bytes = left
         /\ g.high_watermark_bytes = h.high_watermark_bytes
         /\ g \in Heaps
    BY <1>1, <1>2, <1>4, <1>8 DEF Heaps
  <1> HIDE DEF g
  <1>11. Counted(g)
    BY <1>4, <1>7, <1>8, <1>9, <1>10 DEF Counted
  <1>12. ChainInv(g) /\ g.blocks = d
    BY <1>1, <1>4, <1>10, <1>11 DEF ChainInv
  <1> QED BY <1>12 DEF g, d

\* Merging a free block with the free block behind it.
LEMMA MergeKeeps ==
    ASSUME NEW h, ChainInv(h), NEW a \in DOMAIN h.blocks, BothFree(h, a)
    PROVE  /\ ChainInv(merge_with_next(h, a))
           /\ merge_with_next(h, a).blocks = Joined(h, a)
           /\ JoinShape(h.blocks, Joined(h, a), a)
  <1> DEFINE c == h.blocks
             g == merge_with_next(h, a)
             d == Joined(h, a)
             fit == IF h.next_fit = c[a].next THEN a ELSE h.next_fit
  <1>1. /\ h \in Heaps /\ Tiles(c) /\ h.next_fit \in DOMAIN c
        /\ Counted(h) /\ c[a].next # NULL
    BY DEF ChainInv, BothFree
  <1>2. g = [h EXCEPT !.blocks = d, !.next_fit = fit]
    BY <1>1 DEF merge_with_next, Heaps
  <1>3. JoinShape(c, d, a) /\ Tiles(d)
    BY <1>1, JoinedHeaders, JoinedTiles
  <1>4. PICK q \in [DOMAIN c -> Int] :
           q = Tallied(c, q) /\ q[heap_begin] = h.allocated_bytes
    BY <1>1 DEF Counted
  <1>5. PICK r \in [DOMAIN d -> Int] :
           r = Tallied(d, r) /\ r[heap_begin] = h.allocated_bytes
    BY <1>1, <1>4, JoinedTally
  <1> HIDE DEF d
  <1>6. DOMAIN d = DOMAIN c \ {c[a].next} /\ c[a].next # a
    BY <1>3 DEF JoinShape
  <1>7. fit \in DOMAIN d /\ d \in Chains
    BY <1>1, <1>3, <1>6 DEF Tiles
  <1>8. fit \in Nat
    BY <1>7, HeaderTypes
  <1> HIDE DEF fit
  <1>9. /\ g.blocks = d /\ g.next_fit = fit
        /\ g.allocated_bytes = h.allocated_bytes
        /\ g.high_watermark_bytes = h.high_watermark_bytes
        /\ g \in Heaps
    BY <1>1, <1>2, <1>7, <1>8 DEF Heaps
  <1> HIDE DEF g
  <1>10. Counted(g)
    BY <1>1, <1>5, <1>9 DEF Counted
  <1>11. ChainInv(g) /\ g.blocks = d
    BY <1>3, <1>7, <1>9, <1>10 DEF ChainInv
  <1> QED BY <1>3, <1>11 DEF g, d

\* The start of a search may be any block.
LEMMA NextFitKeeps ==
    ASSUME NEW h, ChainInv(h), NEW a \in DOMAIN h.blocks
    PROVE  /\ ChainInv([h EXCEPT !.next_fit = a])
           /\ [h EXCEPT !.next_fit = a].blocks = h.blocks
  <1> DEFINE g == [h EXCEPT !.next_fit = a]
  <1>1. h \in Heaps /\ Tiles(h.blocks) /\ Counted(h)
    BY DEF ChainInv
  <1>2. a \in Nat
    BY <1>1, HeaderTypes DEF Tiles
  <1>3. /\ g \in Heaps /\ g.next_fit = a /\ g.blocks = h.blocks
        /\ g.allocated_bytes = h.allocated_bytes
        /\ g.high_watermark_bytes = h.high_watermark_bytes
    BY <1>1, <1>2 DEF Heaps
  <1> HIDE DEF g
  <1>4. ChainInv(g)
    BY <1>1, <1>3 DEF ChainInv, Counted
  <1> QED BY <1>3, <1>4 DEF g
----------------------------------------------------------------------------
\* A cut.

\* What os_allocator_alloc makes d of the headers c where it cuts the block at
\* a to bytes: the remainder becomes a free block behind it.
SplitShape(c, d, a, bytes) ==
    LET split == a + BLOCK_SIZE + bytes
        after == c[a].next
    IN
    /\ split \notin DOMAIN c /\ a < split /\ NULL \notin DOMAIN c
    /\ after # NULL => after \in DOMAIN c /\ after # a
    /\ d \in Chains
    /\ DOMAIN d = DOMAIN c \cup {split}
    /\ d[split].capacity = c[a].capacity - bytes - BLOCK_SIZE
    /\ d[split].capacity \in Nat
    /\ d[split].next = after
    /\ d[split].previous = a
    /\ d[split].owner = OS_MEMORY_OWNER_NONE
    /\ d[a].capacity = bytes
    /\ d[a].next = split
    /\ d[a].previous = c[a].previous
    /\ d[a].owner = c[a].owner
    /\ after # NULL => /\ d[after].capacity = c[after].capacity
                       /\ d[after].next = c[after].next
                       /\ d[after].previous = split
                       /\ d[after].owner = c[after].owner
    /\ \A b \in DOMAIN c \ {a, after} : d[b] = c[b]

\* Where a block is cut.
LEMMA SplitPlace ==
    ASSUME NEW h, Tiles(h.blocks), NEW a \in DOMAIN h.blocks,
           NEW bytes \in Nat, Splits(h, a, bytes)
    PROVE  LET c == h.blocks
               split == a + BLOCK_SIZE + bytes
               rest == c[a].capacity - bytes - BLOCK_SIZE
           IN
           /\ a \in Nat /\ split \in Nat /\ a < split
           /\ rest \in Nat /\ split + BLOCK_SIZE + rest = BlockEnd(c, a)
           /\ split < BlockEnd(c, a) /\ split < heap_end
           /\ heap_begin <= a /\ heap_begin <= split
           /\ split \notin DOMAIN c
  <1> DEFINE c == h.blocks
             split == a + BLOCK_SIZE + bytes
             rest == c[a].capacity - bytes - BLOCK_SIZE
  <1>1. /\ a \in Nat /\ heap_begin <= a /\ c[a].capacity \in Nat
        /\ c[a].next \in Nat
    BY HeaderTypes DEF Tiles
  <1>2. /\ BLOCK_SIZE \in Nat \ {0} /\ OS_MEMORY_ALIGNMENT \in Nat \ {0}
        /\ heap_begin \in Nat /\ heap_end \in Nat
    BY HeapBounds
  <1>3. c[a].capacity - bytes >= BLOCK_SIZE + OS_MEMORY_ALIGNMENT
    BY DEF Splits
  <1>4. /\ BlockEnd(c, a) <= heap_end /\ BlockEnd(c, a) \in Nat
        /\ \A b \in DOMAIN c : b <= a \/ BlockEnd(c, a) <= b
    <2>1. CASE c[a].next = NULL
      BY <2>1, Follows
    <2>2. CASE c[a].next # NULL
      BY <2>2, Follows
    <2> QED BY <2>1, <2>2
  <1>5. BlockEnd(c, a) = a + BLOCK_SIZE + c[a].capacity
    BY DEF BlockEnd
  <1>6. /\ split \in Nat /\ a < split /\ rest \in Nat
        /\ split + BLOCK_SIZE + rest = BlockEnd(c, a)
        /\ split < BlockEnd(c, a) /\ split < heap_end
        /\ heap_begin <= split
    BY <1>1, <1>2, <1>3, <1>4, <1>5
  <1>7. split \notin DOMAIN c
    BY <1>1, <1>4, <1>6
  <1> QED BY <1>1, <1>6, <1>7

\* os_allocator_alloc makes that of them.
LEMMA SplitHeaders ==
    ASSUME NEW h, Tiles(h.blocks), NEW a \in DOMAIN h.blocks,
           NEW bytes \in Nat, Splits(h, a, bytes)
    PROVE  SplitShape(h.blocks, Split(h, a, bytes), a, bytes)
  <1> DEFINE c == h.blocks
             d == Split(h, a, bytes)
             split == a + BLOCK_SIZE + bytes
             after == c[a].next
             rest == c[a].capacity - bytes - BLOCK_SIZE
  <1>1. Tiles(c) /\ c \in Chains /\ a \in DOMAIN c
    BY DEF Tiles
  <1>2. /\ a \in Nat /\ split \in Nat /\ a < split /\ rest \in Nat
        /\ split < heap_end /\ heap_begin <= split /\ split \notin DOMAIN c
    BY SplitPlace
  <1>3. after # NULL => /\ after \in DOMAIN c /\ a < after
                        /\ after \in Nat
    BY <1>1, Follows, HeaderTypes
  <1>4. after # NULL => after # a /\ after # split
    BY <1>2, <1>3
  <1>5. \A b \in DOMAIN c : c[b] \in Header /\ b # NULL
                              /\ b \in heap_begin .. heap_end
    <2>1. \A b \in DOMAIN c : c[b] \in Header /\ b \in Nat
                                /\ heap_begin <= b /\ b <= heap_end
      BY <1>1, HeaderTypes
    <2> QED BY <2>1, HeapBounds DEF NULL
  <1>6. a # NULL /\ split # NULL /\ a # split
    BY <1>1, <1>2, <1>5 DEF NULL
  <1> DEFINE remainder == [capacity |-> rest, next |-> after, previous |-> a,
                           owner |-> OS_MEMORY_OWNER_NONE]
             cut == [c[a] EXCEPT !.capacity = bytes, !.next = split]
             moved == [c[after] EXCEPT !.previous = split]
  <1>7. d = [b \in DOMAIN c \cup {split} |->
               CASE b = split -> remainder
                 [] b = a -> cut
                 [] b = after -> moved
                 [] OTHER -> c[b]]
    BY DEF Split
  <1>8. remainder \in Header
    <2>1. after \in Nat
      BY <1>1, HeaderTypes
    <2> HIDE DEF rest, after
    <2> QED BY <1>2, <2>1 DEF Header
  <1>9. /\ cut \in Header /\ cut.capacity = bytes /\ cut.next = split
        /\ cut.previous = c[a].previous /\ cut.owner = c[a].owner
    <2>1. c[a] \in Header
      BY <1>1, <1>5
    <2> HIDE DEF split
    <2> QED BY <1>2, <2>1 DEF Header
  <1>10. after # NULL => /\ moved \in Header
                         /\ moved.capacity = c[after].capacity
                         /\ moved.next = c[after].next
                         /\ moved.previous = split
                         /\ moved.owner = c[after].owner
    <2>1. after # NULL => c[after] \in Header
      BY <1>3, <1>5
    <2> HIDE DEF split, after
    <2> QED BY <1>2, <2>1 DEF Header
  <1>11. /\ remainder.capacity = rest /\ remainder.next = after
         /\ remainder.previous = a
         /\ remainder.owner = OS_MEMORY_OWNER_NONE
    OBVIOUS
  <1> HIDE DEF d, remainder, cut, moved
  <1>12. /\ DOMAIN d = DOMAIN c \cup {split}
         /\ d[split] = remainder /\ d[a] = cut
         /\ after # NULL => d[after] = moved
         /\ \A b \in DOMAIN c \ {a, after} : d[b] = c[b]
    <2>1. after # split /\ after # a
      BY <1>1, <1>2, <1>4, <1>6
    <2> HIDE DEF c, split, after
    <2>2. DOMAIN d = DOMAIN c \cup {split}
      BY <1>7
    <2>3. d[split] = remainder
      BY <1>6, <1>7, <2>1
    <2>4. d[a] = cut
      BY <1>1, <1>6, <1>7, <2>1
    <2>5. after # NULL => d[after] = moved
      BY <1>3, <1>7, <2>1
    <2>6. \A b \in DOMAIN c \ {a, after} : d[b] = c[b]
      BY <1>2, <1>7
    <2> QED BY <2>2, <2>3, <2>4, <2>5, <2>6
  <1>13. \A b \in DOMAIN d : d[b] \in Header
    <2> SUFFICES ASSUME NEW b \in DOMAIN d PROVE d[b] \in Header
      OBVIOUS
    <2>1. b = split \/ (b \in DOMAIN c /\ b # NULL /\ c[b] \in Header)
      BY <1>5, <1>12
    <2> QED BY <2>1, <1>8, <1>9, <1>10, <1>12
  <1>14. d \in Chains
    <2>1. d \in [DOMAIN d -> Header]
      BY <1>7, <1>13
    <2>2. DOMAIN d \in SUBSET (heap_begin .. heap_end)
      <3>1. split \in heap_begin .. heap_end
        BY <1>2, HeapBounds
      <3> QED BY <1>5, <1>12, <3>1
    <2> QED BY <2>1, <2>2, ChainType
  <1>15. NULL \notin DOMAIN c
    BY <1>5
  <1> QED
    BY <1>2, <1>3, <1>4, <1>9, <1>10, <1>11, <1>12, <1>14, <1>15
    DEF d, SplitShape
\* The blocks tile the heap after a cut to an aligned size.
LEMMA SplitTiles ==
    ASSUME NEW h, Tiles(h.blocks), NEW a \in DOMAIN h.blocks,
           NEW bytes \in Nat, Aligned(bytes), Splits(h, a, bytes)
    PROVE  Tiles(Split(h, a, bytes))
  <1> DEFINE c == h.blocks
             d == Split(h, a, bytes)
             split == a + BLOCK_SIZE + bytes
             after == c[a].next
             rest == c[a].capacity - bytes - BLOCK_SIZE
  <1>1. /\ Tiles(c) /\ c \in Chains /\ a \in DOMAIN c
        /\ heap_begin \in DOMAIN c /\ c[heap_begin].previous = NULL
    BY DEF Tiles
  <1>2. SplitShape(c, d, a, bytes)
    BY SplitHeaders
  <1>3. /\ a \in Nat /\ split \in Nat /\ a < split /\ rest \in Nat
        /\ split + BLOCK_SIZE + rest = BlockEnd(c, a)
        /\ split < BlockEnd(c, a) /\ split < heap_end
        /\ heap_begin <= a
    BY SplitPlace
  <1> HIDE DEF d
  <1>4. /\ split \notin DOMAIN c /\ NULL \notin DOMAIN c
        /\ after # NULL => after \in DOMAIN c /\ after # a
        /\ d \in Chains
        /\ DOMAIN d = DOMAIN c \cup {split}
        /\ d[split].capacity = rest /\ d[split].next = after
        /\ d[split].previous = a
        /\ d[a].capacity = bytes /\ d[a].next = split
        /\ d[a].previous = c[a].previous
        /\ after # NULL => /\ d[after].capacity = c[after].capacity
                           /\ d[after].next = c[after].next
                           /\ d[after].previous = split
        /\ \A b \in DOMAIN c \ {a, after} : d[b] = c[b]
    BY <1>2 DEF SplitShape
  <1>5. \A b \in DOMAIN c : /\ b \in Nat /\ heap_begin <= b
                            /\ Linked(c, b) /\ BlockEnd(c, b) \in Nat
    BY <1>1, HeaderTypes, Follows DEF Tiles
  <1>6. BlockEnd(d, split) = BlockEnd(c, a) /\ BlockEnd(d, a) = split
    BY <1>3, <1>4 DEF BlockEnd
  <1>7. \A b \in DOMAIN c \ {a} : /\ d[b].capacity = c[b].capacity
                                  /\ d[b].next = c[b].next
                                  /\ BlockEnd(d, b) = BlockEnd(c, b)
    BY <1>4 DEF BlockEnd
  <1>8. \A b \in DOMAIN c \ {after} : d[b].previous = c[b].previous
    BY <1>4
  <1>9. heap_begin \in DOMAIN d /\ d[heap_begin].previous = NULL
    <2>1. after # NULL => a < after
      BY <1>1, Follows
    <2>2. heap_begin # after
      BY <1>1, <1>3, <1>4, <2>1, HeapBounds
    <2> QED BY <1>1, <1>4, <1>8, <2>2
  <1>10. ASSUME NEW b \in DOMAIN d PROVE Linked(d, b)
    <2>1. /\ Aligned(a) /\ Aligned(c[a].capacity) /\ c[a].capacity \in Int
          /\ Aligned(BLOCK_SIZE) /\ BLOCK_SIZE \in Int
      BY <1>1, AlignedEnd, HeaderTypes, HeapBounds
    <2>2. CASE b = split
      <3>1. Aligned(split)
        <4>1. Aligned(a + BLOCK_SIZE)
          BY <1>3, <2>1, AlignedSum
        <4>2. a + BLOCK_SIZE \in Int
          BY <1>3, <2>1
        <4> QED BY <4>1, <4>2, AlignedSum
      <3>2. Aligned(rest)
        <4>1. Aligned(c[a].capacity - bytes)
          <5>1. bytes \in Int /\ c[a].capacity \in Int
            BY <2>1
          <5> HIDE DEF c
          <5> QED BY <2>1, <5>1, AlignedSum
        <4>2. c[a].capacity - bytes \in Int
          BY <2>1
        <4> QED BY <2>1, <4>1, <4>2, AlignedSum
      <3> HIDE DEF split, rest
      <3>3. CASE after = NULL
        <4>1. BlockEnd(c, a) = heap_end
          BY <1>1, <3>3, Follows
        <4> QED BY <1>4, <1>6, <2>2, <3>1, <3>2, <3>3, <4>1 DEF Linked
      <3>4. CASE after # NULL
        <4>1. BlockEnd(c, a) < heap_end /\ after = BlockEnd(c, a)
          BY <1>1, <3>4, Follows
        <4>2. after \in DOMAIN d /\ d[after].previous = split
          BY <1>4, <3>4
        <4> QED BY <1>4, <1>6, <2>2, <3>1, <3>2, <3>4, <4>1, <4>2
              DEF Linked
      <3> QED BY <3>3, <3>4
    <2>3. CASE b = a
      <3> HIDE DEF split
      <3> QED BY <1>3, <1>4, <1>6, <2>1, <2>3 DEF Linked
    <2>4. CASE b \in DOMAIN c \ {a}
      <3>1. /\ Linked(c, b) /\ d[b].capacity = c[b].capacity
            /\ d[b].next = c[b].next /\ BlockEnd(d, b) = BlockEnd(c, b)
        BY <1>5, <1>7, <2>4
      <3>2. CASE c[b].next = NULL
        <4>1. BlockEnd(c, b) = heap_end
          BY <1>1, <2>4, <3>2, Follows
        <4> QED BY <3>1, <3>2, <4>1 DEF Linked
      <3>3. CASE c[b].next # NULL
        <4> DEFINE n == c[b].next
        <4>1. /\ BlockEnd(c, b) < heap_end /\ n = BlockEnd(c, b)
              /\ n \in DOMAIN c /\ c[n].previous = b
          BY <1>1, <2>4, <3>3, Follows
        <4>2. n # after
          <5>1. after # NULL => c[after].previous = a
            BY <1>1, Follows
          <5> QED BY <2>4, <3>3, <4>1, <5>1
        <4>3. n \in DOMAIN d /\ d[n].previous = b
          BY <1>4, <1>8, <4>1, <4>2
        <4> QED BY <3>1, <3>3, <4>1, <4>3 DEF Linked
      <3> QED BY <3>2, <3>3
    <2> QED BY <1>4, <2>2, <2>3, <2>4
  <1>11. ASSUME NEW b1 \in DOMAIN d, NEW b2 \in DOMAIN d, b1 < b2
         PROVE  BlockEnd(d, b1) <= b2
    <2>1. \A b \in DOMAIN c : /\ a < b => BlockEnd(c, a) <= b
                              /\ b <= a \/ BlockEnd(c, a) <= b
      BY <1>1, <1>5 DEF Tiles
    <2>2. \A b \in DOMAIN c : /\ b < a => BlockEnd(c, b) <= a
                              /\ b < b2 /\ b2 \in DOMAIN c
                                    => BlockEnd(c, b) <= b2
      BY <1>1 DEF Tiles
    <2>3. BlockEnd(c, a) \in Nat
      BY <1>1, <1>5
    <2> HIDE DEF split, rest
    <2>4. CASE b1 = split
      <3>1. b2 \in DOMAIN c /\ b2 \in Nat /\ ~(b2 <= a)
        BY <1>3, <1>4, <1>5, <1>11, <2>4
      <3> QED BY <1>6, <2>1, <2>4, <3>1
    <2>5. CASE b1 = a
      <3>1. CASE b2 = split
        BY <1>3, <1>6, <2>5, <3>1
      <3>2. CASE b2 \in DOMAIN c
        BY <1>3, <1>5, <1>6, <1>11, <2>1, <2>3, <2>5, <3>2
      <3> QED BY <1>4, <3>1, <3>2
    <2>6. CASE b1 \in DOMAIN c \ {a}
      <3>1. b1 \in Nat /\ BlockEnd(c, b1) \in Nat
        BY <1>5, <2>6
      <3>2. CASE b2 = split
        <4>1. b1 < a
          BY <1>3, <1>11, <2>1, <2>3, <2>6, <3>1, <3>2
        <4> QED BY <1>3, <1>7, <2>2, <2>6, <3>1, <3>2, <4>1
      <3>3. CASE b2 \in DOMAIN c
        BY <1>7, <1>11, <2>2, <2>6, <3>3
      <3> QED BY <1>4, <3>2, <3>3
    <2> QED BY <1>4, <2>4, <2>5, <2>6
  <1>12. Tiles(d)
    BY <1>4, <1>9, <1>10, <1>11 DEF Tiles
  <1> QED BY <1>12 DEF d

\* A cut of a free block keeps the tally, which the remainder shares with it.
LEMMA SplitTally ==
    ASSUME NEW h, Tiles(h.blocks), NEW a \in DOMAIN h.blocks,
           Free(h.blocks[a]),
           NEW bytes \in Nat, Aligned(bytes), Splits(h, a, bytes),
           NEW q \in [DOMAIN h.blocks -> Int], q = Tallied(h.blocks, q)
    PROVE  \E r \in [DOMAIN Split(h, a, bytes) -> Int] :
              /\ r = Tallied(Split(h, a, bytes), r)
              /\ r[heap_begin] = q[heap_begin]
  <1> DEFINE c == h.blocks
             d == Split(h, a, bytes)
             split == a + BLOCK_SIZE + bytes
             after == c[a].next
             r == [b \in DOMAIN d |-> IF b = split THEN q[a] ELSE q[b]]
  <1>1. Tiles(c) /\ Tiles(d) /\ a \in DOMAIN c /\ heap_begin \in DOMAIN c
    BY SplitTiles DEF Tiles
  <1>2. SplitShape(c, d, a, bytes)
    BY SplitHeaders
  <1> HIDE DEF d
  <1>3. /\ split \notin DOMAIN c
        /\ after # NULL => after \in DOMAIN c
        /\ DOMAIN d = DOMAIN c \cup {split}
        /\ d[split].next = after /\ Free(d[split])
        /\ d[a].next = split /\ Free(d[a])
        /\ NULL \notin DOMAIN c /\ split # NULL
        /\ after # NULL => /\ d[after].capacity = c[after].capacity
                           /\ d[after].next = c[after].next
                           /\ d[after].owner = c[after].owner
        /\ \A b \in DOMAIN c \ {a, after} : d[b] = c[b]
    <2>1. split # NULL
      BY SplitPlace DEF NULL
    <2> QED BY <1>2, <2>1 DEF SplitShape, Free
  <1> HIDE DEF split
  <1>4. \A b \in DOMAIN c \ {a} : /\ d[b].next = c[b].next
                                  /\ InUse(d, b) = InUse(c, b)
    BY <1>3 DEF InUse, Free
  <1>5. InUse(d, split) = 0 /\ InUse(d, a) = 0 /\ InUse(c, a) = 0
    BY <1>3 DEF InUse
  <1>6. \A b \in DOMAIN c :
           /\ q[b] \in Int
           /\ q[b] = InUse(c, b)
                       + (IF c[b].next = NULL THEN 0 ELSE q[c[b].next])
    BY DEF Tallied
  <1>7. r \in [DOMAIN d -> Int]
    BY <1>1, <1>3, <1>6
  <1>8. /\ r[split] = q[a]
        /\ \A b \in DOMAIN c : r[b] = q[b]
    BY <1>3
  <1>9. DOMAIN r = DOMAIN d /\ r = [b \in DOMAIN d |-> r[b]]
    OBVIOUS
  <1> HIDE DEF r
  <1>10. ASSUME NEW b \in DOMAIN d
         PROVE  r[b] = InUse(d, b)
                         + (IF d[b].next = NULL THEN 0 ELSE r[d[b].next])
    <2>1. CASE b = split
      BY <1>1, <1>3, <1>5, <1>6, <1>8, <2>1
    <2>2. CASE b = a
      BY <1>1, <1>3, <1>5, <1>6, <1>8, <2>2
    <2>3. CASE b \in DOMAIN c \ {a}
      <3>1. c[b].next # NULL => c[b].next \in DOMAIN c
        BY <1>1, <2>3, Follows
      <3> QED BY <1>4, <1>6, <1>8, <2>3, <3>1
    <2> QED BY <1>3, <2>1, <2>2, <2>3
  <1>11. r = Tallied(d, r)
    BY <1>9, <1>10 DEF Tallied
  <1>12. r[heap_begin] = q[heap_begin]
    BY <1>1, <1>8
  <1>13. \E s \in [DOMAIN d -> Int] :
            s = Tallied(d, s) /\ s[heap_begin] = q[heap_begin]
    BY <1>7, <1>11, <1>12
  <1> QED BY <1>13 DEF d
----------------------------------------------------------------------------
\* An allocation.

Cut(h, a, bytes) == IF Splits(h, a, bytes) THEN Split(h, a, bytes) ELSE h.blocks

\* The free block that an allocation takes, once it is cut where that makes
\* sense: it is large enough, and little is wasted.
LEMMA CutKeeps ==
    ASSUME NEW h, ChainInv(h), NEW bytes \in Nat, Aligned(bytes),
           NEW a \in Suitable(h, bytes)
    PROVE  LET d == Cut(h, a, bytes) IN
           /\ Tiles(d) /\ a \in DOMAIN d /\ Free(d[a])
           /\ bytes <= d[a].capacity
           /\ d[a].capacity < bytes + BLOCK_SIZE + OS_MEMORY_ALIGNMENT
           /\ \E q \in [DOMAIN d -> Int] :
                 q = Tallied(d, q) /\ q[heap_begin] = h.allocated_bytes
  <1> DEFINE c == h.blocks
             d == Cut(h, a, bytes)
  <1>1. /\ Tiles(c) /\ c \in Chains /\ a \in DOMAIN c /\ Free(c[a])
        /\ c[a].capacity >= bytes
    BY DEF ChainInv, Tiles, Suitable
  <1>2. PICK q \in [DOMAIN c -> Int] :
           q = Tallied(c, q) /\ q[heap_begin] = h.allocated_bytes
    BY DEF ChainInv, Counted
  <1>3. /\ c[a].capacity \in Nat
        /\ BLOCK_SIZE \in Nat \ {0} /\ OS_MEMORY_ALIGNMENT \in Nat \ {0}
    BY <1>1, HeaderTypes, HeapBounds
  <1>4. CASE Splits(h, a, bytes)
    <2>1. d = Split(h, a, bytes)
      BY <1>4 DEF Cut
    <2>2. Tiles(d)
      BY <1>1, <1>4, <2>1, SplitTiles
    <2>3. SplitShape(c, d, a, bytes)
      BY <1>1, <1>4, <2>1, SplitHeaders
    <2>4. \E r \in [DOMAIN d -> Int] :
             r = Tallied(d, r) /\ r[heap_begin] = q[heap_begin]
      BY <1>1, <1>2, <1>4, <2>1, SplitTally
    <2> HIDE DEF d
    <2>5. /\ a \in DOMAIN d /\ d[a].owner = c[a].owner
          /\ d[a].capacity = bytes
      BY <1>1, <2>3 DEF SplitShape
    <2>6. /\ bytes <= d[a].capacity
          /\ d[a].capacity < bytes + BLOCK_SIZE + OS_MEMORY_ALIGNMENT
      BY <1>3, <2>5
    <2>7. Free(d[a])
      BY <1>1, <2>5 DEF Free
    <2> QED BY <1>2, <2>2, <2>4, <2>5, <2>6, <2>7 DEF d
  <1>5. CASE ~Splits(h, a, bytes)
    <2>1. d = c
      BY <1>5 DEF Cut
    <2>2. c[a].capacity < bytes + BLOCK_SIZE + OS_MEMORY_ALIGNMENT
      BY <1>3, <1>5 DEF Splits
    <2> HIDE DEF d
    <2> QED BY <1>1, <1>2, <1>3, <2>1, <2>2 DEF d
  <1> QED BY <1>4, <1>5

\* The block taken becomes the caller's.
LEMMA AllocatedKeeps ==
    ASSUME NEW h, ChainInv(h), NEW bytes \in Nat, Aligned(bytes),
           NEW a \in Suitable(h, bytes), NEW owner \in Owners
    PROVE  /\ ChainInv(Allocated(h, a, bytes, owner))
           /\ Allocated(h, a, bytes, owner).blocks
                = Reowned(Cut(h, a, bytes), a, owner)
  <1> DEFINE g == Allocated(h, a, bytes, owner)
             c == Cut(h, a, bytes)
             d == Reowned(c, a, owner)
             total == h.allocated_bytes + c[a].capacity
             fit == IF c[a].next # NULL THEN c[a].next ELSE heap_begin
             mark == IF total > h.high_watermark_bytes THEN total
                     ELSE h.high_watermark_bytes
  <1>1. /\ Tiles(c) /\ a \in DOMAIN c /\ Free(c[a])
        /\ \E q \in [DOMAIN c -> Int] :
              q = Tallied(c, q) /\ q[heap_begin] = h.allocated_bytes
    BY CutKeeps
  <1>2. g = [blocks |-> d, next_fit |-> fit, allocated_bytes |-> total,
             high_watermark_bytes |-> mark]
    BY DEF Allocated, Cut, Reowned
  <1> HIDE DEF c
  <1>3. c \in Chains /\ heap_begin \in DOMAIN c
    BY <1>1 DEF Tiles
  <1>4. PICK q \in [DOMAIN c -> Int] :
           q = Tallied(c, q) /\ q[heap_begin] = h.allocated_bytes
    BY <1>1
  <1>5. /\ owner \in Owners \cup {OS_MEMORY_OWNER_NONE}
        /\ owner # OS_MEMORY_OWNER_NONE
    BY HeapBounds
  <1>6. Tiles(d)
    BY <1>1, <1>5, ReownedTiles
  <1>7. /\ d \in Chains /\ DOMAIN d = DOMAIN c
        /\ d[a].owner = owner /\ d[a].capacity = c[a].capacity
    BY <1>1, <1>3, <1>5, ReownedHeaders
  <1>8. PICK r \in [DOMAIN c -> Int] :
           /\ r = Tallied(d, r)
           /\ r[heap_begin] = q[heap_begin] + (InUse(d, a) - InUse(c, a))
    BY <1>1, <1>4, <1>5, ReownedTally
  <1>9. InUse(d, a) = c[a].capacity /\ InUse(c, a) = 0
    BY <1>1, <1>5, <1>7 DEF InUse, Free
  <1>10. /\ c[a].capacity \in Nat /\ h.allocated_bytes \in Int
         /\ h.high_watermark_bytes \in Int
    BY <1>1, <1>3, HeaderTypes DEF ChainInv, Heaps
  <1>11. r[heap_begin] = total /\ total \in Int
    BY <1>4, <1>8, <1>9, <1>10
  <1>12. fit \in DOMAIN c
    BY <1>1, <1>3, Follows
  <1>13. fit \in Nat
    BY <1>3, <1>12, HeaderTypes
  <1> HIDE DEF total, fit, d
  <1>14. mark \in Int /\ mark >= total
    BY <1>10, <1>11
  <1> HIDE DEF mark
  <1>15. /\ g \in Heaps /\ g.blocks = d /\ g.next_fit = fit
         /\ g.allocated_bytes = total /\ g.high_watermark_bytes = mark
    BY <1>2, <1>7, <1>11, <1>13, <1>14 DEF Heaps
  <1> HIDE DEF g
  <1>16. Counted(g)
    BY <1>7, <1>8, <1>11, <1>14, <1>15 DEF Counted
  <1>17. ChainInv(g) /\ g.blocks = d
    BY <1>6, <1>7, <1>12, <1>15, <1>16 DEF ChainInv
  <1> QED BY <1>17 DEF g, d, c

\* The search finds a block that is suitable where there is one.
LEMMA NextFitSuits ==
    ASSUME NEW h, ChainInv(h), NEW bytes \in Nat, Suitable(h, bytes) # {}
    PROVE  NextFit(h, bytes) \in Suitable(h, bytes)
  <1> DEFINE ahead == {a \in Suitable(h, bytes) : a >= h.next_fit}
             S == IF ahead # {} THEN ahead ELSE Suitable(h, bytes)
  <1>1. \A a \in DOMAIN h.blocks : a \in Nat
    BY HeaderTypes DEF ChainInv, Tiles
  <1>2. /\ S \in SUBSET Nat /\ S # {}
        /\ \A a \in S : a \in Suitable(h, bytes)
    BY <1>1 DEF Suitable
  <1>3. NextFit(h, bytes) = Min(S)
    BY DEF NextFit
  <1> HIDE DEF S
  <1>4. \E m \in S : \A n \in S : m <= n
    BY <1>2, LeastNat
  <1>5. Min(S) \in S
    BY <1>4 DEF Min
  <1> QED BY <1>2, <1>3, <1>5
----------------------------------------------------------------------------
\* The invariant is inductive.

\* A chain starts at the first address of the heap and is made of headers.
LEMMA ChainFacts ==
    ASSUME NEW h, ChainInv(h)
    PROVE  /\ h.blocks \in Chains /\ Tiles(h.blocks)
           /\ heap_begin \in DOMAIN h.blocks
           /\ \A a \in DOMAIN h.blocks : a \in Nat /\ heap_begin <= a
  <1>1. h.blocks \in Chains /\ Tiles(h.blocks)
    BY DEF ChainInv, Tiles
  <1> QED BY <1>1, HeaderTypes DEF Tiles

\* The heap starts as one free block.
LEMMA InitInv == Init => HeapInv
  <1> SUFFICES ASSUME Init PROVE HeapInv
    OBVIOUS
  <1> DEFINE c == heap.blocks
             room == heap_end - heap_begin - BLOCK_SIZE
             first == [capacity |-> room, next |-> NULL, previous |-> NULL,
                       owner |-> OS_MEMORY_OWNER_NONE]
             q == [a \in {heap_begin} |-> 0]
  <1>1. /\ heap_begin \in Nat \ {0} /\ Aligned(heap_begin)
        /\ heap_end \in Nat /\ Aligned(heap_end)
        /\ heap_begin + BLOCK_SIZE < heap_end
        /\ BLOCK_SIZE \in Nat \ {0} /\ Aligned(BLOCK_SIZE)
    BY HeapBounds
  <1>2. /\ room \in Nat
        /\ heap_begin + BLOCK_SIZE + room = heap_end
    BY <1>1
  <1>3. Aligned(room)
    <2>1. Aligned(heap_end - heap_begin) /\ heap_end - heap_begin \in Int
      BY <1>1, AlignedSum
    <2> QED BY <1>1, <2>1, AlignedSum
  <1> HIDE DEF room
  <1>4. first \in Header
    BY <1>2 DEF Header, NULL
  <1>5. /\ c = [a \in {heap_begin} |-> first]
        /\ heap.next_fit = heap_begin
        /\ heap.allocated_bytes = 0 /\ heap.high_watermark_bytes = 0
        /\ heap = [blocks |-> c, next_fit |-> heap_begin,
                   allocated_bytes |-> 0, high_watermark_bytes |-> 0]
    BY DEF Init, room
  <1>6. DOMAIN c = {heap_begin} /\ c[heap_begin] = first
    BY <1>5
  <1>7. c \in Chains
    <2>1. {heap_begin} \in SUBSET (heap_begin .. heap_end)
      BY <1>1
    <2>2. c \in [{heap_begin} -> Header]
      BY <1>4, <1>5
    <2> QED BY <2>1, <2>2, ChainType
  <1>8. Tiles(c)
    <2>1. BlockEnd(c, heap_begin) = heap_end
      BY <1>2, <1>6 DEF BlockEnd
    <2>2. Linked(c, heap_begin)
      BY <1>1, <1>3, <1>6, <2>1 DEF Linked
    <2>3. c[heap_begin].previous = NULL
      BY <1>6
    <2> QED BY <1>1, <1>6, <1>7, <2>2, <2>3 DEF Tiles
  <1>9. q \in [DOMAIN c -> Int] /\ q = Tallied(c, q) /\ q[heap_begin] = 0
    BY <1>6 DEF Tallied, InUse, Free
  <1> HIDE DEF q
  <1>10. heap \in Heaps
    BY <1>1, <1>5, <1>7 DEF Heaps
  <1>11. ChainInv(heap)
    BY <1>5, <1>6, <1>8, <1>9, <1>10 DEF ChainInv, Counted
  <1>12. LoopInv
    BY <1>6 DEF Init, LoopInv, Coalesces
  <1>13. FullyCoalesced
    BY <1>6 DEF FullyCoalesced, BothFree
  <1> QED BY <1>11, <1>12, <1>13 DEF HeapInv

\* An allocation leaves no two free blocks side by side: the remainder of a
\* cut is free, but what was behind the block is not.
LEMMA AllocationCoalesced ==
    ASSUME NEW h, ChainInv(h), \A b \in DOMAIN h.blocks : ~BothFree(h, b),
           NEW bytes \in Nat, Aligned(bytes),
           NEW a \in Suitable(h, bytes), NEW owner \in Owners,
           NEW g, g.blocks = Reowned(Cut(h, a, bytes), a, owner)
    PROVE  \A b \in DOMAIN g.blocks : ~BothFree(g, b)
  <1> DEFINE c == h.blocks
             e == Cut(h, a, bytes)
             d == g.blocks
  <1>1. /\ Tiles(c) /\ c \in Chains /\ a \in DOMAIN c /\ Free(c[a])
        /\ Tiles(e) /\ e \in Chains /\ a \in DOMAIN e
    BY CutKeeps DEF ChainInv, Tiles, Suitable
  <1>2. /\ owner \in Owners \cup {OS_MEMORY_OWNER_NONE}
        /\ owner # OS_MEMORY_OWNER_NONE
    BY HeapBounds
  <1>3. /\ DOMAIN d = DOMAIN e
        /\ \A b \in DOMAIN e : /\ d[b].next = e[b].next
                               /\ d[b].owner = IF b = a THEN owner
                                               ELSE e[b].owner
    BY <1>1, <1>2, ReownedHeaders
  <1>4. ~Free(d[a])
    BY <1>1, <1>2, <1>3 DEF Free
  <1>5. \A b \in DOMAIN c : BothFree(h, b) <=> /\ c[b].next # NULL
                                               /\ Free(c[b])
                                               /\ Free(c[c[b].next])
    BY DEF BothFree
  <1> SUFFICES ASSUME NEW b \in DOMAIN d, BothFree(g, b) PROVE FALSE
    OBVIOUS
  <1> DEFINE n == d[b].next
  <1>6. n # NULL /\ Free(d[b]) /\ Free(d[n])
    BY DEF BothFree
  <1>7. b # a /\ n # a
    BY <1>4, <1>6
  <1>8. b \in DOMAIN e /\ e[b].next = n /\ n \in DOMAIN e
    BY <1>1, <1>3, <1>6, Follows
  <1>9. Free(e[b]) /\ Free(e[n])
    BY <1>3, <1>6, <1>7, <1>8 DEF Free
  <1> HIDE DEF e, n
  <1>10. CASE ~Splits(h, a, bytes)
    <2>1. e = c
      BY <1>10 DEF Cut, e
    <2> QED BY <1>5, <1>6, <1>8, <1>9, <2>1
  <1>11. CASE Splits(h, a, bytes)
    <2> DEFINE split == a + BLOCK_SIZE + bytes
               after == c[a].next
    <2>1. SplitShape(c, e, a, bytes)
      BY <1>1, <1>11, SplitHeaders DEF Cut, e
    <2>2. /\ split \notin DOMAIN c
          /\ after # NULL => after \in DOMAIN c /\ after # a
          /\ DOMAIN e = DOMAIN c \cup {split}
          /\ e[split].next = after
          /\ after # NULL => /\ e[after].next = c[after].next
                             /\ e[after].owner = c[after].owner
          /\ \A x \in DOMAIN c \ {a, after} : e[x] = c[x]
      BY <2>1 DEF SplitShape
    <2> HIDE DEF split
    <2>3. CASE b = split
      <3>1. n = after /\ after \in DOMAIN c
        BY <1>6, <1>8, <2>2, <2>3
      <3>2. Free(c[after])
        BY <1>6, <1>9, <2>2, <3>1 DEF Free
      <3> QED BY <1>1, <1>5, <1>6, <3>1, <3>2
    <2>4. CASE b \in DOMAIN c
      <3>1. NULL \notin DOMAIN c
        BY <2>1 DEF SplitShape
      <3>2. \A x \in DOMAIN c \ {a} : /\ e[x].next = c[x].next
                                      /\ e[x].owner = c[x].owner
        BY <2>2, <3>1
      <3>3. c[b].next = n /\ n \in DOMAIN c
        BY <1>1, <1>6, <1>7, <1>8, <2>4, <3>2, Follows
      <3>4. Free(c[b]) /\ Free(c[n])
        BY <1>7, <1>9, <2>4, <3>2, <3>3 DEF Free
      <3> QED BY <1>5, <1>6, <2>4, <3>3, <3>4
    <2> QED BY <1>8, <2>2, <2>3, <2>4
  <1> QED BY <1>10, <1>11
\* An allocation keeps the invariant.
LEMMA AllocStep ==
    ASSUME HeapInv, NEW size \in Sizes, NEW owner \in Owners,
           os_allocator_alloc(size, owner)
    PROVE  HeapInv'
  <1> DEFINE bytes == align_up(size)
             a == NextFit(heap, bytes)
  <1>1. /\ ChainInv(heap) /\ pc = "ready" /\ block = heap_begin
        /\ \A b \in DOMAIN heap.blocks : ~BothFree(heap, b)
    BY DEF HeapInv, LoopInv, FullyCoalesced, os_allocator_alloc
  <1>2. bytes \in Nat /\ Aligned(bytes)
    <2>1. size \in Nat
      BY AllocatorConstants
    <2> QED BY <2>1, AlignTo
  <1>3. /\ Suitable(heap, bytes) # {}
        /\ heap' = Allocated(heap, a, bytes, owner)
        /\ caller' = owner /\ pc' = pc /\ block' = block
    BY DEF os_allocator_alloc
  <1> HIDE DEF bytes
  <1>4. a \in Suitable(heap, bytes)
    BY <1>1, <1>2, <1>3, NextFitSuits
  <1> HIDE DEF a
  <1>5. /\ ChainInv(heap')
        /\ heap'.blocks = Reowned(Cut(heap, a, bytes), a, owner)
    BY <1>1, <1>2, <1>3, <1>4, AllocatedKeeps
  <1>6. \A b \in DOMAIN heap'.blocks : ~BothFree(heap', b)
    BY <1>1, <1>2, <1>4, <1>5, AllocationCoalesced
  <1>7. heap_begin \in DOMAIN heap'.blocks
    BY <1>5, ChainFacts
  <1>8. LoopInv'
    BY <1>1, <1>3, <1>7 DEF LoopInv, Coalesces
  <1>9. FullyCoalesced'
    BY <1>6 DEF FullyCoalesced
  <1> QED BY <1>5, <1>8, <1>9 DEF HeapInv

\* A free makes one block free; merging it begins at the first block.
LEMMA FreeStep ==
    ASSUME HeapInv, NEW payload, NEW owner \in Owners,
           os_allocator_free(payload, owner)
    PROVE  HeapInv'
  <1>1. ChainInv(heap) /\ pc = "ready" /\ block = heap_begin
    BY DEF HeapInv, LoopInv, os_allocator_free
  <1>2. PICK a \in OwnedBlock(heap, payload, owner) : heap' = SetFree(heap, a)
    BY DEF os_allocator_free
  <1>3. caller' = owner /\ pc' = "free coalesces" /\ block' = block
    BY DEF os_allocator_free
  <1>4. a \in DOMAIN heap.blocks /\ heap.blocks[a].owner \in Owners
    BY <1>2 DEF OwnedBlock
  <1>5. ChainInv(heap')
    BY <1>1, <1>2, <1>4, SetFreeKeeps
  <1>6. /\ heap_begin \in DOMAIN heap'.blocks /\ heap_begin \in Nat
        /\ \A b \in DOMAIN heap'.blocks : b \in Nat /\ heap_begin <= b
    BY <1>5, ChainFacts
  <1>7. \A b \in DOMAIN heap'.blocks : ~(b < heap_begin)
    BY <1>6
  <1>8. LoopInv'
    BY <1>1, <1>3, <1>6, <1>7 DEF LoopInv, Coalesces
  <1>9. FullyCoalesced'
    BY <1>3 DEF FullyCoalesced
  <1> QED BY <1>5, <1>8, <1>9 DEF HeapInv

\* The release of an owner's blocks begins at the first block.
LEMMA ReleaseStep ==
    ASSUME HeapInv, NEW owner \in Owners, os_allocator_release_owner(owner)
    PROVE  HeapInv'
  <1>1. ChainInv(heap) /\ pc = "ready" /\ block = heap_begin
    BY DEF HeapInv, LoopInv, os_allocator_release_owner
  <1>2. heap' = heap /\ caller' = owner /\ pc' = "release" /\ block' = block
    BY DEF os_allocator_release_owner
  <1>3. /\ heap_begin \in DOMAIN heap.blocks /\ heap_begin \in Nat
        /\ \A b \in DOMAIN heap.blocks : b \in Nat /\ heap_begin <= b
    BY <1>1, ChainFacts
  <1>4. \A b \in DOMAIN heap.blocks : ~(b < heap_begin)
    BY <1>3
  <1>5. LoopInv'
    BY <1>1, <1>2, <1>3, <1>4 DEF LoopInv, Coalesces
  <1>6. ChainInv(heap') /\ FullyCoalesced'
    BY <1>1, <1>2 DEF FullyCoalesced
  <1> QED BY <1>5, <1>6 DEF HeapInv

\* A turn of the release: the block is not the owner's afterwards, nor is any
\* before it.
LEMMA ReleaseTurnStep ==
    ASSUME HeapInv, ReleaseTurn
    PROVE  HeapInv'
  <1> DEFINE c == heap.blocks
             n == c[block].next
  <1>1. /\ ChainInv(heap) /\ pc = "release" /\ caller \in Owners
        /\ block \in DOMAIN c
        /\ \A b \in DOMAIN c : b < block => c[b].owner # caller
    BY DEF HeapInv, LoopInv, ReleaseTurn
  <1>2. /\ heap' = IF c[block].owner = caller THEN SetFree(heap, block)
                   ELSE heap
        /\ block' = IF n # NULL THEN n ELSE heap_begin
        /\ pc' = IF n # NULL THEN pc ELSE "release coalesces"
        /\ caller' = caller
    BY DEF ReleaseTurn
  <1>3. Tiles(c) /\ c \in Chains /\ heap_begin \in DOMAIN c
    BY <1>1, ChainFacts
  <1>4. /\ ChainInv(heap')
        /\ DOMAIN heap'.blocks = DOMAIN c
        /\ heap'.blocks[block].owner # caller
        /\ \A b \in DOMAIN c \ {block} : heap'.blocks[b].owner = c[b].owner
    <2>1. CASE c[block].owner = caller
      <3>1. /\ ChainInv(heap')
            /\ heap'.blocks = Reowned(c, block, OS_MEMORY_OWNER_NONE)
        BY <1>1, <1>2, <2>1, SetFreeKeeps
      <3>2. OS_MEMORY_OWNER_NONE # caller
        BY <1>1, HeapBounds
      <3>3. OS_MEMORY_OWNER_NONE \in Owners \cup {OS_MEMORY_OWNER_NONE}
        OBVIOUS
      <3> QED BY <1>1, <1>3, <3>1, <3>2, <3>3, ReownedHeaders
    <2>2. CASE c[block].owner # caller
      BY <1>1, <1>2, <2>2
    <2> QED BY <2>1, <2>2
  <1>5. block' \in DOMAIN c
    BY <1>1, <1>2, <1>3, Follows
  <1>6. /\ pc' \in {"release", "release coalesces"}
        /\ caller' \in Owners
    BY <1>1, <1>2
  <1>7. pc' = "release" =>
           \A b \in DOMAIN c : b < block' => heap'.blocks[b].owner # caller'
    <2> SUFFICES ASSUME pc' = "release", NEW b \in DOMAIN c, b < block'
                 PROVE  heap'.blocks[b].owner # caller
      BY <1>2
    <2>1. n # NULL /\ block' = n
      BY <1>2
    <2>2. b <= block
      <3>1. b <= block \/ n <= b
        BY <1>1, <1>3, <2>1, Follows
      <3>2. b \in Nat /\ n \in Nat
        BY <1>1, <1>3, HeaderTypes
      <3> QED BY <2>1, <3>1, <3>2
    <2>3. b = block \/ b < block
      BY <1>1, <1>3, <2>2, HeaderTypes
    <2> QED BY <1>1, <1>4, <2>3
  <1>8. Coalesces' => \A b \in DOMAIN c : ~(b < block')
    <2>1. Coalesces' => block' = heap_begin
      BY <1>1, <1>2 DEF Coalesces
    <2>2. \A b \in DOMAIN c : b \in Nat /\ heap_begin <= b
      BY <1>1, ChainFacts
    <2>3. heap_begin \in Nat
      BY HeapBounds
    <2> QED BY <2>1, <2>2, <2>3
  <1>9. LoopInv'
    BY <1>4, <1>5, <1>6, <1>7, <1>8 DEF LoopInv
  <1>10. FullyCoalesced'
    BY <1>6 DEF FullyCoalesced
  <1> QED BY <1>4, <1>9, <1>10 DEF HeapInv

\* A merge disturbs no block below: the last of those links to this one, which
\* was free before.
LEMMA MergesStep ==
    ASSUME HeapInv, Merges
    PROVE  HeapInv'
  <1> DEFINE c == heap.blocks
             d == heap'.blocks
             removed == c[block].next
             after == c[removed].next
  <1>1. /\ ChainInv(heap) /\ Coalesces /\ block \in DOMAIN c
        /\ BothFree(heap, block)
        /\ caller \in Owners \cup {OS_MEMORY_OWNER_NONE}
        /\ \A b \in DOMAIN c : b < block => ~BothFree(heap, b)
    BY DEF HeapInv, LoopInv, Merges
  <1>2. /\ heap' = merge_with_next(heap, block)
        /\ caller' = caller /\ pc' = pc /\ block' = block
    BY DEF Merges
  <1>3. /\ ChainInv(heap') /\ JoinShape(c, d, block)
    BY <1>1, <1>2, MergeKeeps
  <1>4. Tiles(c) /\ c \in Chains
    BY <1>1, ChainFacts
  <1> HIDE DEF d
  <1>5. /\ removed \in DOMAIN c /\ removed # block /\ NULL \notin DOMAIN c
        /\ DOMAIN d = DOMAIN c \ {removed}
        /\ d[block].owner = c[block].owner
        /\ after # NULL => d[after].next = c[after].next
                             /\ d[after].owner = c[after].owner
        /\ \A b \in DOMAIN d \ {block, after} : d[b] = c[b]
    BY <1>3 DEF JoinShape
  <1>6. \A b \in DOMAIN d : d[b].owner = c[b].owner
    BY <1>5
  <1>7. \A b \in DOMAIN d \ {block} : d[b].next = c[b].next
    BY <1>5
  <1>8. ASSUME NEW b \in DOMAIN d, b < block
        PROVE  ~BothFree(heap', b)
    <2> SUFFICES ASSUME BothFree(heap', b) PROVE FALSE
      OBVIOUS
    <2> DEFINE n == d[b].next
    <2>1. n # NULL /\ Free(d[b]) /\ Free(d[n])
      BY DEF BothFree, d
    <2>2. b # block /\ b \in DOMAIN c /\ b \in Nat /\ block \in Nat
      BY <1>1, <1>4, <1>5, <1>8, HeaderTypes
    <2>3. n = c[b].next
      BY <1>7, <2>2
    <2>4. n \in DOMAIN c /\ n <= block /\ n \in Nat
      <3>1. n \in DOMAIN c /\ (block <= b \/ n <= block)
        BY <1>1, <1>4, <2>1, <2>2, <2>3, Follows
      <3>2. n \in Nat
        BY <1>4, <3>1, HeaderTypes
      <3> QED BY <1>8, <2>2, <3>1, <3>2
    <2>5. n # removed
      <3>1. block < removed /\ removed \in Nat
        <4>1. removed \in Nat
          BY <1>4, <1>5, HeaderTypes
        <4>2. /\ removed = BlockEnd(c, block) /\ block < BlockEnd(c, block)
          BY <1>1, <1>4, <1>5, Follows
        <4> QED BY <4>1, <4>2
      <3> QED BY <2>2, <2>4, <3>1
    <2>6. Free(c[b]) /\ Free(c[n])
      BY <1>5, <1>6, <2>1, <2>4, <2>5 DEF Free
    <2>7. BothFree(heap, b)
      BY <2>1, <2>3, <2>6 DEF BothFree
    <2> QED BY <1>1, <1>8, <2>2, <2>7
  <1>9. block \in DOMAIN d
    BY <1>1, <1>5
  <1>10. pc' \in {"free coalesces", "release coalesces"}
    BY <1>1, <1>2 DEF Coalesces
  <1>11. LoopInv'
    BY <1>1, <1>2, <1>8, <1>9, <1>10 DEF LoopInv, d
  <1>12. FullyCoalesced'
    BY <1>10 DEF FullyCoalesced
  <1> QED BY <1>3, <1>11, <1>12 DEF HeapInv

\* Going on, the loop leaves behind a block it could not merge.
LEMMA GoesOnStep ==
    ASSUME HeapInv, GoesOn
    PROVE  HeapInv'
  <1> DEFINE c == heap.blocks
             n == c[block].next
  <1>1. /\ ChainInv(heap) /\ Coalesces /\ block \in DOMAIN c
        /\ ~BothFree(heap, block) /\ n # NULL
        /\ caller \in Owners \cup {OS_MEMORY_OWNER_NONE}
        /\ \A b \in DOMAIN c : b < block => ~BothFree(heap, b)
    BY DEF HeapInv, LoopInv, GoesOn
  <1>2. block' = n /\ heap' = heap /\ caller' = caller /\ pc' = pc
    BY DEF GoesOn
  <1>3. Tiles(c) /\ c \in Chains
    BY <1>1, ChainFacts
  <1>4. n \in DOMAIN c /\ \A b \in DOMAIN c : b <= block \/ n <= b
    BY <1>1, <1>3, Follows
  <1>5. \A b \in DOMAIN c : b \in Nat
    BY <1>3, HeaderTypes
  <1>6. \A b \in DOMAIN c : b < n => ~BothFree(heap, b)
    <2> SUFFICES ASSUME NEW b \in DOMAIN c, b < n PROVE ~BothFree(heap, b)
      OBVIOUS
    <2>1. b = block \/ b < block
      BY <1>1, <1>4, <1>5
    <2> QED BY <1>1, <2>1
  <1>7. pc' \in {"free coalesces", "release coalesces"}
    BY <1>1, <1>2 DEF Coalesces
  <1>8. LoopInv'
    BY <1>1, <1>2, <1>4, <1>6, <1>7 DEF LoopInv
  <1>9. ChainInv(heap') /\ FullyCoalesced'
    BY <1>1, <1>2, <1>7 DEF FullyCoalesced
  <1> QED BY <1>8, <1>9 DEF HeapInv

\* At the last block the loop has passed every pair of neighbours.
LEMMA ReturnsStep ==
    ASSUME HeapInv, Returns
    PROVE  HeapInv'
  <1> DEFINE c == heap.blocks
  <1>1. /\ ChainInv(heap) /\ block \in DOMAIN c /\ c[block].next = NULL
        /\ caller \in Owners \cup {OS_MEMORY_OWNER_NONE}
        /\ \A b \in DOMAIN c : b < block => ~BothFree(heap, b)
    BY DEF HeapInv, LoopInv, Returns
  <1>2. /\ heap' = IF pc = "release coalesces"
                   THEN [heap EXCEPT !.next_fit = heap_begin] ELSE heap
        /\ pc' = "ready" /\ block' = heap_begin /\ caller' = caller
    BY DEF Returns
  <1>3. Tiles(c) /\ c \in Chains /\ heap_begin \in DOMAIN c
    BY <1>1, ChainFacts
  <1>4. ChainInv(heap') /\ heap'.blocks = c
    BY <1>1, <1>2, <1>3, NextFitKeeps
  <1>5. ASSUME NEW b \in DOMAIN c PROVE ~BothFree(heap', b)
    <2>1. b <= block /\ b \in Nat /\ block \in Nat
      BY <1>1, <1>3, Follows, HeaderTypes
    <2>2. BothFree(heap', b) <=> BothFree(heap, b)
      BY <1>4 DEF BothFree
    <2>3. CASE b = block
      BY <1>1, <2>2, <2>3 DEF BothFree
    <2>4. CASE b < block
      BY <1>1, <2>2, <2>4
    <2> QED BY <2>1, <2>3, <2>4
  <1>6. LoopInv'
    BY <1>1, <1>2, <1>3, <1>4 DEF LoopInv, Coalesces
  <1>7. FullyCoalesced'
    BY <1>4, <1>5 DEF FullyCoalesced
  <1> QED BY <1>4, <1>6, <1>7 DEF HeapInv

\* Every step keeps the invariant.
LEMMA StepInv ==
    ASSUME HeapInv, [Next]_vars
    PROVE  HeapInv'
  <1>1. ASSUME NEW size \in Sizes, NEW owner \in Owners,
               os_allocator_alloc(size, owner)
        PROVE  HeapInv'
    BY <1>1, AllocStep
  <1>2. ASSUME NEW payload \in heap_begin .. heap_end, NEW owner \in Owners,
               os_allocator_free(payload, owner)
        PROVE  HeapInv'
    BY <1>2, FreeStep
  <1>3. ASSUME NEW owner \in Owners, os_allocator_release_owner(owner)
        PROVE  HeapInv'
    BY <1>3, ReleaseStep
  <1>4. CASE ReleaseTurn
    BY <1>4, ReleaseTurnStep
  <1>5. CASE coalesce_all
    BY <1>5, MergesStep, GoesOnStep, ReturnsStep DEF coalesce_all
  <1>6. CASE UNCHANGED vars
    BY <1>6 DEF vars, HeapInv, LoopInv, FullyCoalesced, Coalesces
  <1> QED BY <1>1, <1>2, <1>3, <1>4, <1>5, <1>6 DEF Next

\* The chain is valid and the loops have done their work as far as they came,
\* always (os_allocator_alloc, os_allocator_free, os_allocator_release_owner).
THEOREM HeapSafe == Spec => []HeapInv
  BY InitInv, StepInv, PTL DEF Spec

\* Every call's validation succeeds after every sequence of calls and at every
\* turn of their loops: nothing the allocator does corrupts the heap
\* (block_chain_valid).
THEOREM ValidSafe == Spec => []AlwaysValid
  <1>1. HeapInv => AlwaysValid
    BY InvIsValid DEF HeapInv, AlwaysValid
  <1> QED BY <1>1, HeapSafe, PTL

\* When a call returns no two neighbours are free (coalesce_all): a request
\* fails only if no gap between the blocks in use is large enough.
THEOREM CoalescedSafe == Spec => []FullyCoalesced
  <1>1. HeapInv => FullyCoalesced
    BY DEF HeapInv
  <1> QED BY <1>1, HeapSafe, PTL
----------------------------------------------------------------------------
\* The chain implements regions.

Given == {Region(a) : a \in Live}

\* A cut and an allocation touch no block in use: the cut adds a free one.
LEMMA CutOthers ==
    ASSUME NEW h, ChainInv(h), NEW bytes \in Nat, Aligned(bytes),
           NEW a \in Suitable(h, bytes)
    PROVE  LET e == Cut(h, a, bytes) IN
           /\ \A b \in DOMAIN h.blocks \ {a} :
                 /\ b \in DOMAIN e
                 /\ e[b].capacity = h.blocks[b].capacity
                 /\ e[b].owner = h.blocks[b].owner
           /\ \A b \in DOMAIN e : b \in DOMAIN h.blocks \/ Free(e[b])
  <1> DEFINE c == h.blocks
             e == Cut(h, a, bytes)
  <1>1. Tiles(c) /\ a \in DOMAIN c
    BY DEF ChainInv, Suitable
  <1>2. CASE ~Splits(h, a, bytes)
    BY <1>2 DEF Cut
  <1>3. CASE Splits(h, a, bytes)
    <2>1. SplitShape(c, e, a, bytes)
      BY <1>1, <1>3, SplitHeaders DEF Cut
    <2> HIDE DEF e
    <2>2. \A b \in DOMAIN c \ {a} : /\ b \in DOMAIN e
                                    /\ e[b].capacity = c[b].capacity
                                    /\ e[b].owner = c[b].owner
      BY <2>1 DEF SplitShape
    <2>3. \A b \in DOMAIN e : b \in DOMAIN c \/ Free(e[b])
      BY <2>1 DEF SplitShape, Free
    <2> QED BY <2>2, <2>3 DEF e
  <1> QED BY <1>2, <1>3

\* No region is in use at first, nor has anybody called.
LEMMA InitRefines == Init => Regions!Init
  <1> SUFFICES ASSUME Init PROVE Regions!Init
    OBVIOUS
  <1>1. \A a \in DOMAIN heap.blocks : Free(heap.blocks[a])
    BY DEF Init, Free
  <1>2. Given = {}
    BY <1>1 DEF Given, Live
  <1>3. caller \notin Owners
    BY HeapBounds DEF Init
  <1> QED BY <1>2, <1>3 DEF Regions!Init, Given

\* An allocation grants a region.
LEMMA AllocRefines ==
    ASSUME HeapInv, NEW size \in Sizes, NEW owner \in Owners,
           os_allocator_alloc(size, owner)
    PROVE  caller' = owner /\ Regions!Grant(size, owner)
  <1> DEFINE bytes == align_up(size)
             a == NextFit(heap, bytes)
             c == heap.blocks
             e == Cut(heap, a, bytes)
             d == heap'.blocks
             region == [payload |-> a + BLOCK_SIZE,
                        capacity |-> d[a].capacity, owner |-> owner]
  <1>1. ChainInv(heap) /\ pc = "ready" /\ Tiles(c) /\ c \in Chains
    BY ChainFacts DEF HeapInv, os_allocator_alloc
  <1>2. /\ size \in Nat
        /\ bytes \in Nat /\ Aligned(bytes) /\ size <= bytes
        /\ bytes < size + OS_MEMORY_ALIGNMENT
    <2>1. size \in Nat
      BY AllocatorConstants
    <2> QED BY <2>1, AlignTo
  <1>3. /\ Suitable(heap, bytes) # {}
        /\ heap' = Allocated(heap, a, bytes, owner)
        /\ caller' = owner /\ pc' = pc /\ block' = block
    BY DEF os_allocator_alloc
  <1> HIDE DEF bytes
  <1>4. a \in Suitable(heap, bytes)
    BY <1>1, <1>2, <1>3, NextFitSuits
  <1> HIDE DEF a
  <1>5. ChainInv(heap') /\ d = Reowned(e, a, owner)
    BY <1>1, <1>2, <1>3, <1>4, AllocatedKeeps
  <1>6. /\ Tiles(e) /\ a \in DOMAIN e /\ e \in Chains
        /\ bytes <= e[a].capacity
        /\ e[a].capacity < bytes + BLOCK_SIZE + OS_MEMORY_ALIGNMENT
    BY <1>1, <1>2, <1>4, CutKeeps DEF Tiles
  <1>7. /\ \A b \in DOMAIN c \ {a} : /\ b \in DOMAIN e
                                     /\ e[b].capacity = c[b].capacity
                                     /\ e[b].owner = c[b].owner
        /\ \A b \in DOMAIN e : b \in DOMAIN c \/ Free(e[b])
    BY <1>1, <1>2, <1>4, CutOthers
  <1>8. a \in DOMAIN c /\ Free(c[a])
    BY <1>4 DEF Suitable
  <1>9. /\ owner \in Owners \cup {OS_MEMORY_OWNER_NONE}
        /\ owner # OS_MEMORY_OWNER_NONE
    BY HeapBounds
  <1> HIDE DEF e
  <1>10. /\ DOMAIN d = DOMAIN e
         /\ \A b \in DOMAIN e : /\ d[b].capacity = e[b].capacity
                                /\ d[b].owner = IF b = a THEN owner
                                                ELSE e[b].owner
    BY <1>5, <1>6, <1>9, ReownedHeaders
  <1>11. Tiles(d) /\ d \in Chains
    BY <1>5, ChainFacts
  <1>12. \A b \in DOMAIN d : b \in Nat /\ d[b].capacity \in Nat
    BY <1>11, HeaderTypes
  <1>13. /\ a \in DOMAIN d /\ a \in Nat /\ heap_begin <= a
         /\ d[a].capacity \in Nat /\ d[a].capacity = e[a].capacity
    BY <1>6, <1>10, <1>11, HeaderTypes
  <1>14. Live = {b \in DOMAIN c : ~Free(c[b])}
    BY <1>1 DEF Live
  <1>15. Live' = {b \in DOMAIN d : ~Free(d[b])}
    BY <1>1, <1>3 DEF Live
  <1>16. /\ \A b \in Live : /\ b \in DOMAIN d /\ b # a
                            /\ d[b].capacity = c[b].capacity
                            /\ d[b].owner = c[b].owner
         /\ Live' = Live \cup {a}
    <2>1. \A b \in Live : b \in DOMAIN c \ {a} /\ ~Free(c[b])
      BY <1>8, <1>14
    <2>2. \A b \in Live : /\ b \in DOMAIN d /\ b # a
                          /\ d[b].capacity = c[b].capacity
                          /\ d[b].owner = c[b].owner
      BY <1>7, <1>10, <2>1
    <2>3. \A b \in Live : b \in Live'
      BY <1>15, <2>1, <2>2 DEF Free
    <2>4. a \in Live'
      BY <1>6, <1>9, <1>10, <1>15 DEF Free
    <2>5. ASSUME NEW b \in Live', b # a PROVE b \in Live
      <3>1. b \in DOMAIN e /\ ~Free(d[b]) /\ d[b].owner = e[b].owner
        BY <1>10, <1>15, <2>5
      <3>2. b \in DOMAIN c /\ ~Free(e[b])
        BY <1>7, <3>1 DEF Free
      <3> QED BY <1>7, <1>14, <2>5, <3>2 DEF Free
    <2> QED BY <2>2, <2>3, <2>4, <2>5
  <1>17. /\ Given' = {[payload |-> b + BLOCK_SIZE,
                       capacity |-> d[b].capacity,
                       owner |-> d[b].owner] : b \in Live'}
         /\ Given = {[payload |-> b + BLOCK_SIZE,
                      capacity |-> c[b].capacity,
                      owner |-> c[b].owner] : b \in Live}
    BY DEF Given, Region
  <1>18. d[a].owner = owner
    BY <1>6, <1>10
  <1>19. Given' = Given \cup {region}
    BY <1>16, <1>17, <1>18
  <1>20. /\ BlockEnd(d, a) <= heap_end /\ BlockEnd(d, a) \in Nat
         /\ BlockEnd(d, a) = a + BLOCK_SIZE + d[a].capacity
    BY <1>11, <1>13, Follows DEF BlockEnd
  <1>21. /\ BLOCK_SIZE \in Nat /\ OS_MEMORY_ALIGNMENT \in Nat \ {0}
         /\ heap_begin \in Nat /\ heap_end \in Nat
    BY HeapBounds
  <1>22. a + BLOCK_SIZE \in Regions!Addresses
    <2>1. Aligned(a) /\ Aligned(BLOCK_SIZE) /\ BLOCK_SIZE \in Int
      BY <1>11, <1>13, AlignedEnd, HeapBounds
    <2>2. Aligned(a + BLOCK_SIZE)
      BY <1>13, <2>1, AlignedSum
    <2>3. a + BLOCK_SIZE \in heap_begin .. heap_end
      BY <1>13, <1>20, <1>21
    <2> QED BY <2>2, <2>3 DEF Regions!Addresses, Aligned
  <1>23. d[a].capacity \in
            size .. size + BLOCK_SIZE + 2 * OS_MEMORY_ALIGNMENT - 1
    BY <1>2, <1>6, <1>13, <1>21
  <1>24. Regions!Fits(region)
    BY <1>13, <1>20, <1>21 DEF Regions!Fits
  <1>25. ASSUME NEW other \in Given PROVE Regions!Apart(region, other)
    <2>1. PICK b \in Live : /\ other.payload = b + BLOCK_SIZE
                            /\ other.capacity = c[b].capacity
      BY <1>17
    <2>2. /\ b \in DOMAIN d /\ b # a /\ b \in Nat
          /\ d[b].capacity \in Nat /\ other.capacity = d[b].capacity
      BY <1>12, <1>16, <2>1
    <2>3. /\ region.payload = a + BLOCK_SIZE
          /\ region.capacity = d[a].capacity
      OBVIOUS
    <2>4. CASE a < b
      <3>1. a + BLOCK_SIZE + d[a].capacity <= b
        BY <1>11, <1>13, <2>2, <2>4 DEF Tiles, BlockEnd
      <3>2. region.payload + region.capacity + BLOCK_SIZE <= other.payload
        BY <1>13, <1>21, <2>1, <2>2, <2>3, <3>1
      <3> QED BY <3>2 DEF Regions!Apart
    <2>5. CASE b < a
      <3>1. b + BLOCK_SIZE + d[b].capacity <= a
        BY <1>11, <1>13, <2>2, <2>5 DEF Tiles, BlockEnd
      <3>2. other.payload + other.capacity + BLOCK_SIZE <= region.payload
        BY <1>13, <1>21, <2>1, <2>2, <2>3, <3>1
      <3> QED BY <3>2 DEF Regions!Apart
    <2> QED BY <1>13, <2>2, <2>4, <2>5
  <1> QED
    BY <1>3, <1>19, <1>22, <1>23, <1>24, <1>25 DEF Regions!Grant, Given

\* A free returns a region of the caller's.
LEMMA FreeRefines ==
    ASSUME HeapInv, NEW payload, NEW owner \in Owners,
           os_allocator_free(payload, owner)
    PROVE  caller' = owner /\ Regions!Return(owner)
  <1> DEFINE c == heap.blocks
             d == heap'.blocks
  <1>1. ChainInv(heap) /\ pc = "ready" /\ Tiles(c) /\ c \in Chains
    BY ChainFacts DEF HeapInv, os_allocator_free
  <1>2. PICK a \in OwnedBlock(heap, payload, owner) : heap' = SetFree(heap, a)
    BY DEF os_allocator_free
  <1>3. caller' = owner /\ pc' = "free coalesces"
    BY DEF os_allocator_free
  <1>4. a \in DOMAIN c /\ c[a].owner = owner
    BY <1>2 DEF OwnedBlock
  <1>5. d = Reowned(c, a, OS_MEMORY_OWNER_NONE)
    BY <1>1, <1>2, <1>4, SetFreeKeeps
  <1>6. OS_MEMORY_OWNER_NONE \in Owners \cup {OS_MEMORY_OWNER_NONE}
    OBVIOUS
  <1>7. /\ DOMAIN d = DOMAIN c
        /\ \A b \in DOMAIN c : /\ d[b].capacity = c[b].capacity
                               /\ d[b].owner = IF b = a
                                               THEN OS_MEMORY_OWNER_NONE
                                               ELSE c[b].owner
    BY <1>1, <1>4, <1>5, <1>6, ReownedHeaders
  <1> HIDE DEF d
  <1>8. /\ Live = {b \in DOMAIN c : ~Free(c[b])}
        /\ Live' = {b \in DOMAIN d : ~Free(d[b])}
    BY <1>1, <1>3 DEF Live, d
  <1>9. a \in Live /\ Live' = Live \ {a}
    BY <1>4, <1>7, <1>8, HeapBounds DEF Free
  <1> DEFINE at(b) == [payload |-> b + BLOCK_SIZE,
                       capacity |-> c[b].capacity, owner |-> c[b].owner]
  <1>10. Given = {at(b) : b \in Live} /\ Given' = {at(b) : b \in Live'}
    <2>1. /\ Given = {at(b) : b \in Live}
          /\ Given' = {[payload |-> b + BLOCK_SIZE,
                        capacity |-> d[b].capacity,
                        owner |-> d[b].owner] : b \in Live'}
      BY DEF Given, Region, d
    <2>2. \A b \in Live' : /\ d[b].capacity = c[b].capacity
                           /\ d[b].owner = c[b].owner
      BY <1>7, <1>8, <1>9
    <2> QED BY <2>1, <2>2
  <1>11. \A b \in Live : at(b) = at(a) => b = a
    <2>1. \A b \in Live : b \in Nat
      BY <1>1, <1>8, HeaderTypes
    <2>2. \A b \in Live : at(b) = at(a) => b + BLOCK_SIZE = a + BLOCK_SIZE
      OBVIOUS
    <2> QED BY <1>9, <2>1, <2>2, HeapBounds
  <1>12. at(a).owner = owner
    BY <1>4
  <1> HIDE DEF at
  <1>13. at(a) \in Given /\ Given' = Given \ {at(a)}
    BY <1>9, <1>10, <1>11
  <1> QED BY <1>3, <1>12, <1>13 DEF Regions!Return, Given

\* A release reclaims all the regions of the owner at its call.
LEMMA ReleaseRefines ==
    ASSUME HeapInv, NEW owner \in Owners, os_allocator_release_owner(owner)
    PROVE  caller' = owner /\ Regions!Reclaim(owner)
  <1> DEFINE c == heap.blocks
  <1>1. /\ pc = "ready" /\ heap' = heap /\ caller' = owner
        /\ pc' = "release"
    BY DEF os_allocator_release_owner
  <1>2. /\ Live = {b \in DOMAIN c : ~Free(c[b])}
        /\ Live' = {b \in DOMAIN c : ~Free(c[b]) /\ c[b].owner # owner}
    BY <1>1 DEF Live
  <1>3. Given' = {Region(b) : b \in Live'}
    BY <1>1 DEF Given, Region
  <1>4. \A b \in Live : Region(b).owner = c[b].owner
    BY DEF Region
  <1>5. Given' = {region \in Given : region.owner # owner}
    BY <1>2, <1>3, <1>4 DEF Given
  <1> QED BY <1>1, <1>5 DEF Regions!Reclaim, Given

\* The turns of a release and of the merging change no region.
LEMMA LoopsStutter ==
    ASSUME HeapInv, ReleaseTurn \/ coalesce_all
    PROVE  Given' = Given /\ caller' = caller
  <1> DEFINE c == heap.blocks
             d == heap'.blocks
  <1>1. ChainInv(heap) /\ Tiles(c) /\ c \in Chains /\ block \in DOMAIN c
    BY ChainFacts DEF HeapInv, LoopInv
  <1>2. caller' = caller
    BY DEF ReleaseTurn, coalesce_all, Merges, GoesOn, Returns
  <1>3. /\ Given' = {[payload |-> b + BLOCK_SIZE,
                      capacity |-> d[b].capacity,
                      owner |-> d[b].owner] : b \in Live'}
        /\ Given = {[payload |-> b + BLOCK_SIZE,
                     capacity |-> c[b].capacity,
                     owner |-> c[b].owner] : b \in Live}
    BY DEF Given, Region
  <1>4. SUFFICES /\ Live' = Live
                 /\ \A b \in Live : /\ d[b].capacity = c[b].capacity
                                    /\ d[b].owner = c[b].owner
    BY <1>2, <1>3
  <1>5. CASE ReleaseTurn
    <2>1. /\ pc = "release" /\ caller \in Owners
          /\ \A b \in DOMAIN c : b < block => c[b].owner # caller
      BY <1>5 DEF HeapInv, LoopInv, ReleaseTurn
    <2>2. /\ heap' = IF c[block].owner = caller THEN SetFree(heap, block)
                     ELSE heap
          /\ pc' = IF c[block].next # NULL THEN pc ELSE "release coalesces"
      BY <1>5 DEF ReleaseTurn
    <2>3. /\ DOMAIN d = DOMAIN c
          /\ \A b \in DOMAIN c :
                /\ d[b].capacity = c[b].capacity
                /\ d[b].owner = IF b = block /\ c[block].owner = caller
                                THEN OS_MEMORY_OWNER_NONE ELSE c[b].owner
      <3>1. CASE c[block].owner = caller
        <4>1. d = Reowned(c, block, OS_MEMORY_OWNER_NONE)
          BY <1>1, <2>1, <2>2, <3>1, SetFreeKeeps
        <4>2. OS_MEMORY_OWNER_NONE \in Owners \cup {OS_MEMORY_OWNER_NONE}
          OBVIOUS
        <4> QED BY <1>1, <3>1, <4>1, <4>2, ReownedHeaders
      <3>2. CASE c[block].owner # caller
        BY <2>2, <3>2
      <3> QED BY <3>1, <3>2
    <2> HIDE DEF d
    <2>4. Live = {b \in DOMAIN c : ~Free(c[b]) /\ c[b].owner # caller}
      BY <2>1 DEF Live
    <2>5. Live' = {b \in DOMAIN c : ~Free(d[b]) /\ d[b].owner # caller}
      <3>1. CASE pc' = "release"
        BY <1>2, <2>3, <3>1 DEF Live, d
      <3>2. CASE pc' # "release"
        <4>1. c[block].next = NULL
          BY <2>1, <2>2, <3>2
        <4>2. \A b \in DOMAIN c : b = block \/ b < block
          BY <1>1, <4>1, Follows, HeaderTypes
        <4>3. \A b \in DOMAIN c : d[b].owner # caller
          BY <2>1, <2>3, <4>2, HeapBounds
        <4>4. Live' = {b \in DOMAIN d : ~Free(d[b])}
          BY <3>2 DEF Live, d
        <4> QED BY <2>3, <4>3, <4>4
      <3> QED BY <3>1, <3>2
    <2>6. \A b \in DOMAIN c : ~Free(d[b]) /\ d[b].owner # caller
                                <=> ~Free(c[b]) /\ c[b].owner # caller
      BY <2>1, <2>3, HeapBounds DEF Free
    <2>7. \A b \in Live : d[b].owner = c[b].owner
      BY <2>3, <2>4
    <2> QED BY <2>3, <2>4, <2>5, <2>6, <2>7 DEF d
  <1>6. CASE Merges
    <2> DEFINE removed == c[block].next
               after == c[removed].next
    <2>1. /\ BothFree(heap, block) /\ pc # "release" /\ pc' = pc
          /\ heap' = merge_with_next(heap, block)
      BY <1>6 DEF Merges, Coalesces
    <2>2. JoinShape(c, d, block)
      BY <1>1, <2>1, MergeKeeps
    <2>3. Free(c[block]) /\ Free(c[removed])
      BY <2>1 DEF BothFree
    <2>4. /\ Live = {b \in DOMAIN c : ~Free(c[b])}
          /\ Live' = {b \in DOMAIN d : ~Free(d[b])}
      BY <2>1 DEF Live
    <2> HIDE DEF d
    <2>5. /\ DOMAIN d = DOMAIN c \ {removed}
          /\ \A b \in DOMAIN d \ {block} : d[b].capacity = c[b].capacity
          /\ \A b \in DOMAIN d : d[b].owner = c[b].owner
      BY <2>2 DEF JoinShape
    <2>6. Live' = Live
      BY <2>3, <2>4, <2>5 DEF Free
    <2>7. \A b \in Live : b \in DOMAIN d \ {block}
      BY <2>3, <2>4, <2>5
    <2> QED BY <2>5, <2>6, <2>7 DEF d
  <1>7. CASE GoesOn
    BY <1>2, <1>7 DEF GoesOn, Live
  <1>8. CASE Returns
    <2>1. pc # "release" /\ pc' # "release"
      BY <1>8 DEF Returns, Coalesces
    <2>2. heap_begin \in DOMAIN c
      BY <1>1 DEF Tiles
    <2>3. d = c
      BY <1>1, <1>8, <2>2, NextFitKeeps DEF Returns
    <2> QED BY <2>1, <2>3 DEF Live
  <1> QED BY <1>5, <1>6, <1>7, <1>8 DEF coalesce_all

\* The chain of headers is regions that are aligned, apart, large enough and
\* their owners' until these free them or are reclaimed: no call of one task
\* touches a block of another (ImplementsMemory).
THEOREM MemoryImplemented == Spec => ImplementsMemory
  <1>1. Init => Regions!Init
    BY InitRefines
  <1>2. HeapInv /\ [Next]_vars => [Regions!Next]_(Regions!vars)
    <2> SUFFICES ASSUME HeapInv, [Next]_vars
                 PROVE  [Regions!Next]_(Regions!vars)
      OBVIOUS
    <2>1. ASSUME NEW size \in Sizes, NEW owner \in Owners,
                 os_allocator_alloc(size, owner)
          PROVE  Regions!Next
      BY <2>1, AllocRefines DEF Regions!Next
    <2>2. ASSUME NEW payload \in heap_begin .. heap_end, NEW owner \in Owners,
                 os_allocator_free(payload, owner)
          PROVE  Regions!Next
      BY <2>2, FreeRefines DEF Regions!Next
    <2>3. ASSUME NEW owner \in Owners, os_allocator_release_owner(owner)
          PROVE  Regions!Next
      BY <2>3, ReleaseRefines DEF Regions!Next
    <2>4. CASE ReleaseTurn \/ coalesce_all
      BY <2>4, LoopsStutter DEF Regions!vars, Given
    <2>5. CASE UNCHANGED vars
      BY <2>5 DEF vars, Regions!vars, Live, Region
    <2> QED BY <2>1, <2>2, <2>3, <2>4, <2>5 DEF Next
  <1> QED BY <1>1, <1>2, HeapSafe, PTL DEF Spec, ImplementsMemory, Regions!Spec
=============================================================================
