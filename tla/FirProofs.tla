------------------------------ MODULE FirProofs ------------------------------
(***************************************************************************)
(* The filters of dsp/src, for any lane width, address width and number of *)
(* taps: validation accepts exactly the safe calls, packing loses nothing, *)
(* saturation is the nearest lane, no accumulator overflows, and every     *)
(* implementation stores the reference filter of its inputs and no more.   *)
(*                                                                         *)
(* The sums over taps are compared through a smallest set, or number of    *)
(* taps, on which they would differ.                                       *)
(***************************************************************************)
EXTENDS FirQ15, FiniteSetTheorems, NaturalsInduction,
        WellFoundedInduction, TLAPS

----------------------------------------------------------------------------
\* Ranges of bytes.

\* byte_range succeeds when the range ends in the address space, where its
\* end does not wrap.
LEMMA ByteRange ==
    ASSUME NEW pointer \in 0 .. UINTPTR_MAX, NEW count \in 0 .. UINTPTR_MAX
    PROVE  /\ byte_range(pointer, count)
                <=> pointer + count * ELEMENT <= UINTPTR_MAX
           /\ byte_range(pointer, count)
                => EndOf(pointer, count) = pointer + count * ELEMENT
  <1> DEFINE M == UINTPTR_MAX
             half == M \div 2
             last == pointer + count * 2
  <1>1. M \in Nat \ {0} /\ pointer \in 0 .. M /\ count \in 0 .. M
    BY FirConstants
  <1> HIDE DEF M
  <1>2. half \in Nat /\ 2 * half <= M /\ M < 2 * half + 2
    BY <1>1
  <1> HIDE DEF half
  <1>3. last \in Nat
    BY <1>1
  <1>4. (count <= half /\ count * 2 <= M - pointer) <=> last <= M
    BY <1>1, <1>2
  <1>5. byte_range(pointer, count) <=> last <= M
    BY <1>4 DEF byte_range, ELEMENT, M, half
  <1>6. ASSUME last <= M
        PROVE  EndOf(pointer, count) = last
    <2> HIDE DEF last
    <2>1. last % (M + 1) = last
      BY <1>1, <1>3, <1>6
    <2> QED BY <2>1 DEF EndOf, ELEMENT, M, last
  <1> QED BY <1>5, <1>6 DEF M, ELEMENT

\* All bytes of an array that is not empty are below the last address exactly
\* when the array ends in the address space.
LEMMA BytesBelow ==
    ASSUME NEW pointer \in Nat, NEW count \in Nat \ {0}
    PROVE  (\A byte \in Bytes(pointer, count) : byte < UINTPTR_MAX)
             <=> pointer + count * ELEMENT <= UINTPTR_MAX
  <1> DEFINE last == pointer + count * 2 - 1
  <1>1. /\ UINTPTR_MAX \in Nat /\ last \in Nat /\ pointer <= last
        /\ Bytes(pointer, count) = pointer .. last
        /\ pointer + count * ELEMENT = last + 1
    BY FirConstants DEF Bytes, ELEMENT
  <1> HIDE DEF last
  <1>2. last \in pointer .. last
    BY <1>1
  <1>3. (\A byte \in pointer .. last : byte < UINTPTR_MAX)
          <=> last + 1 <= UINTPTR_MAX
    BY <1>1, <1>2
  <1> QED BY <1>1, <1>3

\* Two arrays that are not empty share no byte exactly when their ranges do
\* not overlap.
LEMMA BytesApart ==
    ASSUME NEW p \in Nat, NEW n \in Nat \ {0}, NEW q \in Nat,
           NEW k \in Nat \ {0}
    PROVE  Bytes(p, n) \cap Bytes(q, k) = {}
             <=> ~ranges_overlap(p, p + n * ELEMENT, q, q + k * ELEMENT)
  <1> DEFINE a == p + n * 2
             b == q + k * 2
  <1>1. /\ a \in Nat /\ b \in Nat /\ p < a /\ q < b
        /\ Bytes(p, n) = p .. a - 1 /\ Bytes(q, k) = q .. b - 1
        /\ p + n * ELEMENT = a /\ q + k * ELEMENT = b
    BY DEF Bytes, ELEMENT
  <1> HIDE DEF a, b
  <1>2. CASE p < b /\ q < a
    <2> DEFINE both == IF p < q THEN q ELSE p
    <2>1. both \in p .. a - 1 /\ both \in q .. b - 1
      BY <1>1, <1>2
    <2> HIDE DEF both
    <2> QED BY <1>1, <1>2, <2>1 DEF ranges_overlap
  <1>3. CASE ~(p < b /\ q < a)
    <2>1. (p .. a - 1) \cap (q .. b - 1) = {}
      BY <1>1, <1>3
    <2> QED BY <1>1, <1>3, <2>1 DEF ranges_overlap
  <1> QED BY <1>2, <1>3

\* aymos_fir_q15_validate accepts a call exactly when it is safe.
LEMMA ValidIsSafe ==
    ASSUME NEW c \in Call
    PROVE  aymos_fir_q15_validate(c) = "OK" <=> SafeCall(c)
  <1>1. /\ c.samples \in 0 .. UINTPTR_MAX /\ c.sample_count \in 0 .. UINTPTR_MAX
        /\ c.coefficients \in 0 .. UINTPTR_MAX
        /\ c.tap_count \in 0 .. UINTPTR_MAX
        /\ c.output \in 0 .. UINTPTR_MAX
        /\ c.output_capacity \in 0 .. UINTPTR_MAX
        /\ UINTPTR_MAX \in Nat /\ AYMOS_FIR_Q15_MAX_TAPS \in Nat
    BY FirConstants DEF Call
  <1> DEFINE Shaped == /\ NULL \notin {c.samples, c.coefficients, c.output}
                       /\ c.tap_count \in 1 .. AYMOS_FIR_Q15_MAX_TAPS
                       /\ ~(c.sample_count < c.tap_count)
                       /\ ~(c.output_capacity < OutputCount(c))
             InRange == /\ byte_range(c.samples, c.sample_count)
                        /\ byte_range(c.coefficients, c.tap_count)
                        /\ byte_range(c.output, OutputCount(c))
  <1>2. aymos_fir_q15_validate(c) = "OK"
          <=> Shaped /\ InRange /\ ~OutputCollides(c)
    BY DEF aymos_fir_q15_validate
  <1>3. CASE ~/\ c.tap_count \in 1 .. AYMOS_FIR_Q15_MAX_TAPS
              /\ c.tap_count <= c.sample_count
    <2>1. ~Shaped
      BY <1>1, <1>3
    <2>2. ~SafeCall(c)
      BY <1>1, <1>3 DEF SafeCall
    <2> QED BY <1>2, <2>1, <2>2
  <1>4. CASE /\ c.tap_count \in 1 .. AYMOS_FIR_Q15_MAX_TAPS
             /\ c.tap_count <= c.sample_count
    <2> DEFINE n == c.sample_count
               k == c.tap_count
               m == c.sample_count - c.tap_count + 1
    <2>1. OutputCount(c) = m
      BY <1>1, <1>4 DEF OutputCount, valid_output_count
    <2>2. /\ n \in Nat \ {0} /\ k \in Nat \ {0} /\ m \in Nat \ {0}
          /\ m \in 0 .. UINTPTR_MAX
      BY <1>1, <1>4
    <2>3. Shaped <=> /\ 0 \notin {c.samples, c.coefficients, c.output}
                     /\ c.sample_count < c.tap_count + c.output_capacity
      BY <1>1, <1>4, <2>1 DEF NULL
    <2> DEFINE inputs == Bytes(c.samples, n) \cup Bytes(c.coefficients, k)
               outputs == Bytes(c.output, m)
    <2>4. SafeCall(c)
            <=> /\ Shaped
                /\ \A byte \in inputs \cup outputs : byte < UINTPTR_MAX
                /\ inputs \cap outputs = {}
      <3>1. 1 <= c.tap_count /\ c.tap_count <= AYMOS_FIR_Q15_MAX_TAPS
        BY <1>1, <1>4
      <3> HIDE DEF Shaped
      <3> QED BY <1>4, <2>3, <3>1 DEF SafeCall
    <2> HIDE DEF n, k, m, Shaped
    <2>5. /\ c.samples \in Nat /\ c.coefficients \in Nat /\ c.output \in Nat
      BY <1>1
    <2>6. (\A byte \in inputs \cup outputs : byte < UINTPTR_MAX) <=> InRange
      <3>1. /\ (\A byte \in Bytes(c.samples, n) : byte < UINTPTR_MAX)
                  <=> byte_range(c.samples, n)
            /\ (\A byte \in Bytes(c.coefficients, k) : byte < UINTPTR_MAX)
                  <=> byte_range(c.coefficients, k)
            /\ (\A byte \in Bytes(c.output, m) : byte < UINTPTR_MAX)
                  <=> byte_range(c.output, m)
        <4>1. n \in 0 .. UINTPTR_MAX /\ k \in 0 .. UINTPTR_MAX
          BY <1>1 DEF n, k
        <4> QED BY <1>1, <2>2, <2>5, <4>1, ByteRange, BytesBelow
      <3>2. InRange <=> /\ byte_range(c.samples, n)
                        /\ byte_range(c.coefficients, k)
                        /\ byte_range(c.output, m)
        BY <2>1 DEF n, k
      <3> HIDE DEF InRange
      <3> QED BY <3>1, <3>2
    <2>7. InRange => (inputs \cap outputs = {} <=> ~OutputCollides(c))
      <3> SUFFICES ASSUME InRange
                   PROVE  inputs \cap outputs = {} <=> ~OutputCollides(c)
        OBVIOUS
      <3>1. /\ EndOf(c.samples, n) = c.samples + n * ELEMENT
            /\ EndOf(c.coefficients, k) = c.coefficients + k * ELEMENT
            /\ EndOf(c.output, m) = c.output + m * ELEMENT
        <4>1. n \in 0 .. UINTPTR_MAX /\ k \in 0 .. UINTPTR_MAX
          BY <1>1 DEF n, k
        <4>2. /\ byte_range(c.samples, n) /\ byte_range(c.coefficients, k)
              /\ byte_range(c.output, m)
          BY <2>1 DEF n, k
        <4> QED BY <1>1, <2>2, <4>1, <4>2, ByteRange
      <3>2. OutputCollides(c)
              <=> \/ ranges_overlap(c.output, c.output + m * ELEMENT,
                                    c.samples, c.samples + n * ELEMENT)
                  \/ ranges_overlap(c.output, c.output + m * ELEMENT,
                                    c.coefficients,
                                    c.coefficients + k * ELEMENT)
        BY <2>1, <3>1 DEF OutputCollides, n, k
      <3>3. /\ Bytes(c.output, m) \cap Bytes(c.samples, n) = {}
                 <=> ~ranges_overlap(c.output, c.output + m * ELEMENT,
                                     c.samples, c.samples + n * ELEMENT)
            /\ Bytes(c.output, m) \cap Bytes(c.coefficients, k) = {}
                 <=> ~ranges_overlap(c.output, c.output + m * ELEMENT,
                                     c.coefficients,
                                     c.coefficients + k * ELEMENT)
        BY <2>2, <2>5, BytesApart
      <3>4. inputs \cap outputs = {}
              <=> /\ Bytes(c.output, m) \cap Bytes(c.samples, n) = {}
                  /\ Bytes(c.output, m) \cap Bytes(c.coefficients, k) = {}
        OBVIOUS
      <3> QED BY <3>2, <3>3, <3>4
    <2> HIDE DEF inputs, outputs, InRange
    <2> QED BY <1>2, <2>4, <2>6, <2>7
  <1> QED BY <1>3, <1>4

----------------------------------------------------------------------------

\* The verdict is the validation's, on the arguments of the call.
FirInv ==
    /\ call \in Call
    /\ status # "CALLED" => status = aymos_fir_q15_validate(call)

\* Every call that is accepted is safe, and every safe call is accepted
\* (aymos_fir_q15_validate), at every size of the address space.
THEOREM ValidationSafe == Spec => []AcceptsExactly
  <1>1. Init => FirInv
    BY FirConstants DEF Init, FirInv
  <1>2. FirInv /\ [Next]_vars => FirInv'
    BY DEF FirInv, Next, vars, Validate, StoreOutput, aymos_fir_q15_scalar,
           aymos_fir_q15_packed_portable, aymos_fir_q15_m4
  <1>3. FirInv => AcceptsExactly
    BY ValidIsSafe DEF FirInv, AcceptsExactly
  <1> QED BY <1>1, <1>2, <1>3, PTL DEF Spec

----------------------------------------------------------------------------
\* Lanes, pairs and accumulators.

\* A number in two's complement of m bits patterns, m even: what signed_lane
\* and signed_accumulator undo.
LEMMA TwosComplement ==
    ASSUME NEW half \in Nat \ {0}, NEW value \in -half .. half - 1
    PROVE  LET bits == value % (2 * half) IN
           /\ bits \in 0 .. 2 * half - 1
           /\ value = IF bits <= half - 1 THEN bits
                      ELSE -1 - (2 * half - 1 - bits)
  <1> DEFINE m == 2 * half
  <1>1. m \in Nat \ {0}
    OBVIOUS
  <1>2. CASE value >= 0
    <2>1. value \in 0 .. m - 1
      BY <1>2
    <2> HIDE DEF m
    <2>2. value % m = value
      BY <1>1, <2>1
    <2> QED BY <1>2, <2>1, <2>2 DEF m
  <1>3. CASE value < 0
    <2>1. value + m \in 0 .. m - 1 /\ value \in -m .. -1
      BY <1>3
    <2> HIDE DEF m
    <2>2. value % m = value + m
      BY <1>1, <2>1
    <2> QED BY <1>3, <2>1, <2>2 DEF m
  <1> QED BY <1>2, <1>3

\* The two halves of a number in base m.
LEMMA Halves ==
    ASSUME NEW m \in Nat \ {0}, NEW low \in 0 .. m - 1, NEW high \in Int
    PROVE  /\ (low + high * m) % m = low
           /\ (low + high * m) \div m = high
  <1> DEFINE sum == low + high * m
             q == sum \div m
             r == sum % m
  <1>1. high * m \in Int /\ sum \in Int
    OBVIOUS
  <1>2. sum = high * m + low
    BY <1>1
  <1>3. q \in Int /\ r \in 0 .. m - 1 /\ sum = q * m + r
    <2> HIDE DEF sum
    <2> QED BY <1>1
  <1> HIDE DEF sum, q, r
  <1>4. q = high
    <2>1. CASE q < high
      <3>1. q + 1 <= high
        BY <1>3, <2>1
      <3>2. (q + 1) * m <= high * m /\ (q + 1) * m = q * m + m
        BY <1>3, <3>1
      <3>3. q * m \in Int /\ (q + 1) * m \in Int
        BY <1>3
      <3> QED BY <1>1, <1>2, <1>3, <3>2, <3>3
    <2>2. CASE q > high
      <3>1. high + 1 <= q
        BY <1>3, <2>2
      <3>2. (high + 1) * m <= q * m /\ (high + 1) * m = high * m + m
        BY <1>3, <3>1
      <3>3. q * m \in Int /\ (high + 1) * m \in Int
        BY <1>3
      <3> QED BY <1>1, <1>2, <1>3, <3>2, <3>3
    <2> QED BY <1>3, <2>1, <2>2
  <1>5. r = low
    <2>1. q * m = high * m /\ q * m \in Int
      BY <1>3, <1>4
    <2> QED BY <1>2, <1>3, <2>1
  <1> QED BY <1>4, <1>5 DEF q, r, sum

\* Packing two lanes loses neither (aymos_fir_q15_pack, signed_lane).
LEMMA PackRoundTrip ==
    ASSUME NEW low \in Lanes, NEW high \in Lanes
    PROVE  /\ Low(aymos_fir_q15_pack(low, high)) = low
           /\ High(aymos_fir_q15_pack(low, high)) = high
  <1> DEFINE m == 2 * LANE
             a == Bits(low)
             b == Bits(high)
  <1>1. /\ LANE \in Nat \ {0} /\ m \in Nat \ {0}
        /\ low \in -LANE .. LANE - 1 /\ high \in -LANE .. LANE - 1
    BY FirConstants DEF Lanes
  <1>2. /\ a \in 0 .. m - 1 /\ signed_lane(a) = low
        /\ b \in 0 .. m - 1 /\ signed_lane(b) = high
    BY <1>1, TwosComplement DEF Bits, signed_lane
  <1>3. aymos_fir_q15_pack(low, high) = a + b * m
    BY DEF aymos_fir_q15_pack
  <1> HIDE DEF a, b
  <1>4. (a + b * m) % m = a /\ (a + b * m) \div m = b
    <2> HIDE DEF m
    <2> QED BY <1>1, <1>2, Halves
  <1>5. /\ Low(aymos_fir_q15_pack(low, high)) = signed_lane(a)
        /\ High(aymos_fir_q15_pack(low, high)) = signed_lane(b)
    BY <1>3, <1>4 DEF Low, High
  <1> QED BY <1>2, <1>5

\* A packed multiply-accumulate is the sum of the two products, for all lanes:
\* the packed loops of fir_q15_packed_portable.c and fir_q15_m4.c add what the
\* scalar one adds.
THEOREM PairMacExact ==
    ASSUME NEW s0 \in Lanes, NEW s1 \in Lanes,
           NEW c0 \in Lanes, NEW c1 \in Lanes
    PROVE  portable_pair_mac(aymos_fir_q15_pack(s0, s1),
                             aymos_fir_q15_pack(c0, c1))
             = s0 * c0 + s1 * c1
  BY PackRoundTrip DEF portable_pair_mac

\* The accumulator comes back from its bits (signed_accumulator).
LEMMA AccumulatorRoundTrip ==
    ASSUME NEW value \in -ACCUMULATOR .. ACCUMULATOR - 1
    PROVE  signed_accumulator(value % (2 * ACCUMULATOR)) = value
  <1>1. ACCUMULATOR \in Nat \ {0}
    BY FirConstants
  <1> QED BY <1>1, TwosComplement DEF signed_accumulator

\* The saturating instruction does what the C code does, on every sum; the
\* result is the nearest lane (aymos_fir_q15_saturate).
THEOREM SaturationNearest ==
    ASSUME NEW value \in Int
    PROVE  LET lane == aymos_fir_q15_saturate(value)
               distance(other) == IF other < value THEN value - other
                                  ELSE other - value
           IN /\ lane \in Lanes
              /\ \A other \in Lanes : distance(lane) <= distance(other)
              /\ SSAT(value) = lane
  <1> DEFINE lane == aymos_fir_q15_saturate(value)
  <1>1. LANE \in Nat \ {0}
    BY FirConstants
  <1>2. lane \in Lanes
    BY <1>1 DEF aymos_fir_q15_saturate, Lanes
  <1>3. ASSUME NEW other \in Lanes
        PROVE  (IF lane < value THEN value - lane ELSE lane - value)
                 <= (IF other < value THEN value - other ELSE other - value)
    BY <1>1 DEF aymos_fir_q15_saturate, Lanes
  <1>4. SSAT(value) = lane
    <2> DEFINE low == IF value < LANE - 1 THEN value ELSE LANE - 1
    <2>1. Min({LANE - 1, value}) = low
      BY <1>1 DEF Min
    <2>2. low \in Int
      BY <1>1
    <2>3. SSAT(value) = Max({-LANE, low})
      BY <2>1 DEF SSAT
    <2> DEFINE high == IF low > -LANE THEN low ELSE -LANE
    <2>4. Max({-LANE, low}) = high
      <3> HIDE DEF low
      <3> QED BY <1>1, <2>2 DEF Max
    <2>5. high = lane
      BY <1>1 DEF aymos_fir_q15_saturate
    <2> QED BY <2>3, <2>4, <2>5
  <1> QED BY <1>2, <1>3, <1>4

----------------------------------------------------------------------------
\* Sums over finite sets of taps.

\* A set of naturals that is not empty has a least element.
LEMMA NatMinimum ==
    ASSUME NEW T \in SUBSET Nat, T # {}
    PROVE  \E m \in T : \A n \in T : m <= n
  <1>1. \E m \in T : \A n \in T : ~(<<n, m>> \in OpToRel(<, Nat))
    BY NatLessThanWellFounded, WFMin, Zenon
  <1>2. PICK m \in T : \A n \in T : ~(<<n, m>> \in OpToRel(<, Nat))
    BY <1>1
  <1>3. ASSUME NEW n \in T PROVE m <= n
    <2>1. ~(<<n, m>> \in OpToRel(<, Nat))
      BY <1>2
    <2>2. ~(n < m)
      BY <2>1, m \in Nat, n \in Nat DEF OpToRel
    <2> QED BY <2>2, m \in Nat, n \in Nat
  <1> QED BY <1>3

\* Among finite sets there is one of the least size.
LEMMA Smallest ==
    ASSUME NEW S, IsFiniteSet(S), NEW Bad \in SUBSET SUBSET S, Bad # {}
    PROVE  \E P \in Bad : \A Q \in Bad : Cardinality(P) <= Cardinality(Q)
  <1> DEFINE sizes == {Cardinality(P) : P \in Bad}
  <1>1. sizes \in SUBSET Nat /\ sizes # {}
    BY FS_Subset, FS_CardinalityType
  <1>2. PICK k \in sizes : \A j \in sizes : k <= j
    <2> HIDE DEF sizes
    <2> QED BY <1>1, NatMinimum
  <1>3. PICK P \in Bad : Cardinality(P) = k
    BY <1>2
  <1>4. \A Q \in Bad : Cardinality(Q) \in sizes
    OBVIOUS
  <1> QED BY <1>2, <1>3, <1>4

\* The sum that MapThenSumSet computes over the sets of at most k elements.
Taken(P) == CHOOSE x \in P : TRUE

UpTo(S, k) == {P \in SUBSET S : Cardinality(P) <= k}

Sums(values, domain, f) ==
    f = [P \in domain |->
           IF P = {} THEN 0 ELSE values[Taken(P)] + f[P \ {Taken(P)}]]

\* A set that is not empty, without the element a sum takes first.
LEMMA OneLess ==
    ASSUME NEW S, IsFiniteSet(S), NEW P \in SUBSET S, P # {}
    PROVE  /\ Taken(P) \in P
           /\ P \ {Taken(P)} \in SUBSET S
           /\ Cardinality(P) \in Nat
           /\ Cardinality(P \ {Taken(P)}) \in Nat
           /\ Cardinality(P \ {Taken(P)}) = Cardinality(P) - 1
  <1>1. Taken(P) \in P
    BY DEF Taken
  <1>2. IsFiniteSet(P) /\ IsFiniteSet(P \ {Taken(P)})
    BY FS_Subset, FS_RemoveElement
  <1> QED BY <1>1, <1>2, FS_RemoveElement, FS_CardinalityType

\* There is such a function, for sets of any size.
LEMMA SumsExist ==
    ASSUME NEW values, NEW S, IsFiniteSet(S), NEW n \in Nat
    PROVE  \E f : Sums(values, UpTo(S, n), f)
  <1> DEFINE Bad == {k \in 0 .. n : ~ \E f : Sums(values, UpTo(S, k), f)}
  <1>1. Bad = {}
    <2> SUFFICES ASSUME Bad # {} PROVE FALSE
      OBVIOUS
    <2>1. Bad \in SUBSET Nat
      OBVIOUS
    <2>2. PICK k \in Bad : \A j \in Bad : k <= j
      <3> HIDE DEF Bad
      <3> QED BY <2>1, NatMinimum
    <2>3. CASE k = 0
      <3> DEFINE f == [P \in UpTo(S, 0) |-> 0]
      <3>1. ASSUME NEW P \in UpTo(S, 0) PROVE P = {}
        <4>1. P \in SUBSET S /\ Cardinality(P) <= 0
          BY <3>1 DEF UpTo
        <4>2. SUFFICES ASSUME P # {} PROVE FALSE
          OBVIOUS
        <4>3. /\ Cardinality(P) \in Nat
              /\ Cardinality(P \ {Taken(P)}) \in Nat
              /\ Cardinality(P \ {Taken(P)}) = Cardinality(P) - 1
          BY <4>1, <4>2, OneLess
        <4> QED BY <4>1, <4>3
      <3>2. f = [P \in UpTo(S, 0) |->
                   IF P = {} THEN 0
                   ELSE values[Taken(P)] + f[P \ {Taken(P)}]]
        BY <3>1
      <3>3. Sums(values, UpTo(S, 0), f)
        BY <3>2 DEF Sums
      <3> QED BY <2>2, <2>3, <3>3
    <2>4. CASE k # 0
      <3>1. k - 1 \in 0 .. n /\ k - 1 \notin Bad /\ k \in 1 .. n
        BY <2>2, <2>4
      <3>2. PICK f : Sums(values, UpTo(S, k - 1), f)
        BY <3>1
      <3> DEFINE g == [P \in UpTo(S, k) |->
                         IF P = {} THEN 0
                         ELSE values[Taken(P)] + f[P \ {Taken(P)}]]
      <3>3. ASSUME NEW P \in UpTo(S, k), P # {}
            PROVE  /\ P \ {Taken(P)} \in UpTo(S, k - 1)
                   /\ P \ {Taken(P)} \in UpTo(S, k)
        <4>1. P \in SUBSET S /\ Cardinality(P) <= k
          BY <3>3 DEF UpTo
        <4>2. /\ P \ {Taken(P)} \in SUBSET S
              /\ Cardinality(P) \in Nat
              /\ Cardinality(P \ {Taken(P)}) \in Nat
              /\ Cardinality(P \ {Taken(P)}) = Cardinality(P) - 1
          BY <3>3, <4>1, OneLess
        <4>3. /\ Cardinality(P \ {Taken(P)}) <= k - 1
              /\ Cardinality(P \ {Taken(P)}) <= k
          BY <3>1, <4>1, <4>2
        <4> QED BY <4>2, <4>3 DEF UpTo
      <3>4. ASSUME NEW P \in UpTo(S, k - 1) PROVE P \in UpTo(S, k) /\ g[P] = f[P]
        <4>1. P \in SUBSET S /\ Cardinality(P) <= k - 1
          BY <3>4 DEF UpTo
        <4>2. Cardinality(P) \in Nat
          BY <4>1, FS_Subset, FS_CardinalityType
        <4>3. Cardinality(P) <= k
          BY <3>1, <4>1, <4>2
        <4>4. P \in UpTo(S, k)
          BY <4>1, <4>3 DEF UpTo
        <4>5. f[P] = IF P = {} THEN 0
                     ELSE values[Taken(P)] + f[P \ {Taken(P)}]
          BY <3>2, <3>4 DEF Sums
        <4> QED BY <4>4, <4>5
      <3>5. ASSUME NEW P \in UpTo(S, k)
            PROVE  g[P] = IF P = {} THEN 0
                          ELSE values[Taken(P)] + g[P \ {Taken(P)}]
        <4>1. CASE P = {}
          BY <4>1
        <4>2. CASE P # {}
          <5>1. g[P \ {Taken(P)}] = f[P \ {Taken(P)}]
            BY <3>3, <3>4, <4>2
          <5> QED BY <4>2, <5>1
        <4> QED BY <4>1, <4>2
      <3>6. g = [P \in UpTo(S, k) |-> g[P]]
        OBVIOUS
      <3> HIDE DEF g
      <3>7. g = [P \in UpTo(S, k) |->
                   IF P = {} THEN 0
                   ELSE values[Taken(P)] + g[P \ {Taken(P)}]]
        BY <3>5, <3>6
      <3>8. Sums(values, UpTo(S, k), g)
        BY <3>7 DEF Sums
      <3> QED BY <2>2, <3>8
    <2> QED BY <2>3, <2>4
  <1> QED BY <1>1

\* A set without one of its elements is smaller.
LEMMA Smaller ==
    ASSUME NEW S, IsFiniteSet(S), NEW P \in SUBSET S, NEW x \in P
    PROVE  /\ P \ {x} \in SUBSET S
           /\ ~(Cardinality(P) <= Cardinality(P \ {x}))
  <1>1. IsFiniteSet(P)
    BY FS_Subset
  <1>2. Cardinality(P) \in Nat /\ Cardinality(P \ {x}) = Cardinality(P) - 1
    BY <1>1, FS_RemoveElement, FS_CardinalityType
  <1> QED BY <1>2

\* There is one only.
LEMMA SumsUnique ==
    ASSUME NEW S, IsFiniteSet(S), NEW v, NEW f, Sums(v, SUBSET S, f),
           NEW g, Sums(v, SUBSET S, g)
    PROVE  \A P \in SUBSET S : f[P] = g[P]
  <1> DEFINE Bad == {P \in SUBSET S : f[P] # g[P]}
  <1>1. Bad = {}
    <2> SUFFICES ASSUME Bad # {} PROVE FALSE
      OBVIOUS
    <2>1. PICK P \in Bad : \A Q \in Bad : Cardinality(P) <= Cardinality(Q)
      <3> HIDE DEF Bad
      <3>1. Bad \in SUBSET SUBSET S
        BY DEF Bad
      <3> QED BY <3>1, Smallest
    <2>2. P \in SUBSET S /\ f[P] # g[P]
      BY <2>1
    <2>3. /\ f[P] = IF P = {} THEN 0 ELSE v[Taken(P)] + f[P \ {Taken(P)}]
          /\ g[P] = IF P = {} THEN 0 ELSE v[Taken(P)] + g[P \ {Taken(P)}]
      BY <2>2 DEF Sums
    <2>4. P # {}
      BY <2>2, <2>3
    <2>5. Taken(P) \in P
      BY <2>4 DEF Taken
    <2>6. /\ P \ {Taken(P)} \in SUBSET S
          /\ ~(Cardinality(P) <= Cardinality(P \ {Taken(P)}))
      BY <2>2, <2>5, Smaller
    <2>7. P \ {Taken(P)} \notin Bad
      BY <2>1, <2>6
    <2>8. f[P \ {Taken(P)}] = g[P \ {Taken(P)}]
      BY <2>6, <2>7
    <2> QED BY <2>2, <2>3, <2>4, <2>8
  <1> QED BY <1>1

\* A sum of integers is one.
LEMMA SumsInteger ==
    ASSUME NEW S, IsFiniteSet(S), NEW v \in [S -> Int], NEW f,
           Sums(v, SUBSET S, f)
    PROVE  \A P \in SUBSET S : f[P] \in Int
  <1> DEFINE Bad == {P \in SUBSET S : f[P] \notin Int}
  <1>1. Bad = {}
    <2> SUFFICES ASSUME Bad # {} PROVE FALSE
      OBVIOUS
    <2>1. PICK P \in Bad : \A Q \in Bad : Cardinality(P) <= Cardinality(Q)
      <3> HIDE DEF Bad
      <3>1. Bad \in SUBSET SUBSET S
        BY DEF Bad
      <3> QED BY <3>1, Smallest
    <2>2. P \in SUBSET S /\ f[P] \notin Int
      BY <2>1
    <2>3. f[P] = IF P = {} THEN 0 ELSE v[Taken(P)] + f[P \ {Taken(P)}]
      BY <2>2 DEF Sums
    <2>4. P # {}
      BY <2>2, <2>3
    <2>5. Taken(P) \in P
      BY <2>4 DEF Taken
    <2>6. /\ P \ {Taken(P)} \in SUBSET S
          /\ ~(Cardinality(P) <= Cardinality(P \ {Taken(P)}))
      BY <2>2, <2>5, Smaller
    <2>7. P \ {Taken(P)} \notin Bad
      BY <2>1, <2>6
    <2>8. f[P \ {Taken(P)}] \in Int /\ v[Taken(P)] \in Int
      BY <2>2, <2>5, <2>6, <2>7
    <2> QED BY <2>2, <2>3, <2>4, <2>8
  <1> QED BY <1>1

\* Any element may be taken first.
LEMMA SumsTake ==
    ASSUME NEW S, IsFiniteSet(S), NEW v \in [S -> Int], NEW f,
           Sums(v, SUBSET S, f), NEW P0 \in SUBSET S, NEW x0 \in P0
    PROVE  f[P0] = v[x0] + f[P0 \ {x0}]
  <1> DEFINE Bad == {P \in SUBSET S :
                       \E x \in P : f[P] # v[x] + f[P \ {x}]}
  <1>1. Bad = {}
    <2> SUFFICES ASSUME Bad # {} PROVE FALSE
      OBVIOUS
    <2>1. PICK P \in Bad : \A Q \in Bad : Cardinality(P) <= Cardinality(Q)
      <3> HIDE DEF Bad
      <3>1. Bad \in SUBSET SUBSET S
        BY DEF Bad
      <3> QED BY <3>1, Smallest
    <2>2. P \in SUBSET S
      BY <2>1
    <2>3. PICK x \in P : f[P] # v[x] + f[P \ {x}]
      BY <2>1
    <2> DEFINE y == Taken(P)
    <2>4. y \in P /\ f[P] = v[y] + f[P \ {y}]
      <3>1. y \in P
        BY <2>3 DEF Taken
      <3> QED BY <2>2, <3>1 DEF Sums
    <2> HIDE DEF y
    <2>5. x # y
      BY <2>3, <2>4
    <2>6. /\ P \ {y} \in SUBSET S /\ P \ {y} \notin Bad
          /\ P \ {x} \in SUBSET S /\ P \ {x} \notin Bad
      <3> HIDE DEF Bad
      <3> QED BY <2>1, <2>2, <2>3, <2>4, Smaller
    <2>7. /\ f[P \ {y}] = v[x] + f[(P \ {y}) \ {x}]
          /\ f[P \ {x}] = v[y] + f[(P \ {x}) \ {y}]
      BY <2>3, <2>4, <2>5, <2>6
    <2> DEFINE rest == f[(P \ {x}) \ {y}]
    <2>8. f[(P \ {y}) \ {x}] = rest
      <3>1. (P \ {y}) \ {x} = (P \ {x}) \ {y}
        OBVIOUS
      <3> QED BY <3>1
    <2>9. /\ v[x] \in Int /\ v[y] \in Int
          /\ (P \ {x}) \ {y} \in SUBSET S
      BY <2>2, <2>3, <2>4, <2>6
    <2>10. rest \in Int
      BY <2>9, SumsInteger
    <2>11. /\ f[P] = v[y] + (v[x] + rest)
           /\ f[P \ {x}] = v[y] + rest
      BY <2>4, <2>7, <2>8
    <2> HIDE DEF rest
    <2>12. v[y] + (v[x] + rest) = v[x] + (v[y] + rest)
      BY <2>9, <2>10
    <2> QED BY <2>3, <2>11, <2>12
  <1> QED BY <1>1

----------------------------------------------------------------------------
\* A sum over pairs of taps.

Taps(n) == 0 .. n - 1
Firsts(n) == {tap \in Taps(n) : tap % 2 = 0 /\ tap + 1 < n}

\* Sets of taps are finite.
LEMMA TapsFinite ==
    ASSUME NEW n \in Nat
    PROVE  IsFiniteSet(Taps(n)) /\ IsFiniteSet(Firsts(n))
  <1>1. IsFiniteSet(Taps(n))
    BY FS_Interval DEF Taps
  <1>2. Firsts(n) \in SUBSET Taps(n)
    BY DEF Firsts
  <1> QED BY <1>1, <1>2, FS_Subset

\* The last tap of the first m + 1 may be added last.
LEMMA TapTake ==
    ASSUME NEW n \in Nat, NEW v \in [Taps(n) -> Int],
           NEW f, Sums(v, SUBSET Taps(n), f), NEW m \in Nat, m < n
    PROVE  f[Taps(m + 1)] = v[m] + f[Taps(m)]
  <1>1. ASSUME NEW tap PROVE tap \in Taps(m + 1) <=> tap \in Taps(m) \/ tap = m
    BY DEF Taps
  <1>2. m \notin Taps(m) /\ Taps(m + 1) \in SUBSET Taps(n)
    BY DEF Taps
  <1>3. m \in Taps(m + 1) /\ Taps(m + 1) \ {m} = Taps(m)
    BY <1>1, <1>2
  <1> QED BY <1>2, <1>3, TapsFinite, SumsTake

\* The sum over the pairs, and the tap that an odd number leaves over, is the
\* sum over all taps.
LEMMA PairedSum ==
    ASSUME NEW n \in Nat,
           NEW v \in [Taps(n) -> Int], NEW w \in [Firsts(n) -> Int],
           \A tap \in Firsts(n) : w[tap] = v[tap] + v[tap + 1],
           NEW f, Sums(v, SUBSET Taps(n), f),
           NEW g, Sums(w, SUBSET Firsts(n), g)
    PROVE  f[Taps(n)] = g[Firsts(n)] + (IF n % 2 = 0 THEN 0 ELSE v[n - 1])
  <1> DEFINE Below(k) == {tap \in Firsts(n) : tap < 2 * k}
             Agrees(k) == f[Taps(2 * k)] = g[Below(k)]
             Bad == {k \in Nat : 2 * k <= n /\ ~Agrees(k)}
  <1>1. Bad = {}
    <2> SUFFICES ASSUME Bad # {} PROVE FALSE
      OBVIOUS
    <2>1. PICK k \in Bad : \A j \in Bad : k <= j
      <3> HIDE DEF Bad
      <3>1. Bad \in SUBSET Nat
        BY DEF Bad
      <3> QED BY <3>1, NatMinimum
    <2>2. k \in Nat /\ 2 * k <= n /\ ~Agrees(k)
      BY <2>1
    <2>3. CASE k = 0
      <3>1. Taps(2 * k) = {} /\ Below(k) = {}
        BY <2>3 DEF Taps, Firsts
      <3>2. f[{}] = 0 /\ g[{}] = 0
        BY DEF Sums
      <3> QED BY <2>2, <3>1, <3>2
    <2>4. CASE k # 0
      <3> DEFINE j == k - 1
      <3>1. j \in Nat /\ k = j + 1 /\ 2 * j + 1 \in Nat /\ 2 * j + 1 < n
        BY <2>2, <2>4
      <3>2. Agrees(j)
        <4>1. ~(k <= j) /\ 2 * j <= n
          BY <2>2, <3>1
        <4>2. j \notin Bad
          BY <2>1, <4>1
        <4> HIDE DEF Agrees, j
        <4> QED BY <3>1, <4>1, <4>2
      <3> HIDE DEF j
      <3>3. 2 * k = 2 * j + 2
        BY <3>1
      <3>4. /\ f[Taps(2 * j + 2)] = v[2 * j + 1] + f[Taps(2 * j + 1)]
            /\ f[Taps(2 * j + 1)] = v[2 * j] + f[Taps(2 * j)]
        <4>1. (2 * j + 1) + 1 = 2 * j + 2 /\ 2 * j \in Nat /\ 2 * j < n
          BY <3>1
        <4>2. /\ f[Taps((2 * j + 1) + 1)] = v[2 * j + 1] + f[Taps(2 * j + 1)]
              /\ f[Taps(2 * j + 1)] = v[2 * j] + f[Taps(2 * j)]
          BY <3>1, <4>1, TapTake
        <4> QED BY <4>1, <4>2
      <3>5. /\ 2 * j \in Firsts(n) /\ 2 * j \in Taps(n) /\ 2 * j + 1 \in Taps(n)
            /\ Below(k) \in SUBSET Firsts(n)
            /\ 2 * j \in Below(k)
            /\ Below(k) \ {2 * j} = Below(j)
        <4>1. (2 * j) % 2 = 0
          BY <3>1
        <4>2. /\ 2 * j \in Firsts(n) /\ 2 * j \in Taps(n)
              /\ 2 * j + 1 \in Taps(n)
          BY <3>1, <4>1 DEF Firsts, Taps
        <4>3. ASSUME NEW tap \in Firsts(n), tap # 2 * j
              PROVE  tap < 2 * j + 2 <=> tap < 2 * j
          <5>1. tap \in Nat /\ tap % 2 = 0
            BY DEF Firsts, Taps
          <5>2. tap # 2 * j + 1
            BY <3>1, <5>1
          <5>3. 2 * j \in Nat
            BY <3>1
          <5> QED BY <4>3, <5>1, <5>2, <5>3
        <4>4. 2 * j < 2 * j + 2 /\ ~(2 * j < 2 * j)
          BY <3>1
        <4>5. \A tap \in Firsts(n) : tap \in Below(k) <=> tap < 2 * j + 2
          BY <3>3
        <4>6. \A tap \in Firsts(n) : tap \in Below(j) <=> tap < 2 * j
          OBVIOUS
        <4>7. Below(k) \in SUBSET Firsts(n) /\ Below(j) \in SUBSET Firsts(n)
          OBVIOUS
        <4> HIDE DEF Below
        <4> QED BY <4>2, <4>3, <4>4, <4>5, <4>6, <4>7
      <3>6. g[Below(k)] = w[2 * j] + g[Below(j)]
        <4> HIDE DEF Below
        <4>1. IsFiniteSet(Firsts(n))
          BY TapsFinite
        <4>2. g[Below(k)] = w[2 * j] + g[Below(k) \ {2 * j}]
          BY <3>5, <4>1, SumsTake
        <4> QED BY <3>5, <4>2
      <3>7. /\ w[2 * j] = v[2 * j] + v[2 * j + 1]
            /\ v[2 * j] \in Int /\ v[2 * j + 1] \in Int
            /\ f[Taps(2 * j)] \in Int
        <4>1. Taps(2 * j) \in SUBSET Taps(n)
          BY <3>1 DEF Taps
        <4> QED BY <3>5, <4>1, TapsFinite, SumsInteger
      <3> HIDE DEF Below
      <3> QED BY <2>2, <3>2, <3>3, <3>4, <3>6, <3>7
    <2> QED BY <2>3, <2>4
  <1> DEFINE h == n \div 2
  <1>2. h \in Nat /\ (n = 2 * h \/ n = 2 * h + 1) /\ 2 * h <= n
        /\ (n % 2 = 0 <=> n = 2 * h)
    OBVIOUS
  <1> HIDE DEF h
  <1>3. Agrees(h)
    <2> HIDE DEF Agrees
    <2> QED BY <1>1, <1>2
  <1>4. Below(h) = Firsts(n)
    <2>1. ASSUME NEW tap \in Firsts(n) PROVE tap < 2 * h
      BY <1>2, <2>1 DEF Firsts, Taps
    <2> QED BY <2>1
  <1>5. f[Taps(2 * h)] = g[Firsts(n)]
    BY <1>3, <1>4
  <1>6. f[Taps(2 * h)] \in Int
    <2>1. Taps(2 * h) \in SUBSET Taps(n)
      BY <1>2 DEF Taps
    <2> QED BY <2>1, TapsFinite, SumsInteger
  <1>7. CASE n = 2 * h
    <2>1. n % 2 = 0
      BY <1>2, <1>7
    <2> QED BY <1>5, <1>6, <1>7, <2>1
  <1>8. CASE n = 2 * h + 1
    <2>1. f[Taps(2 * h + 1)] = v[2 * h] + f[Taps(2 * h)]
      BY <1>2, <1>8, TapTake
    <2>2. n - 1 = 2 * h /\ n - 1 \in Taps(n) /\ n % 2 # 0
      BY <1>2, <1>8 DEF Taps
    <2>3. v[n - 1] \in Int
      BY <2>2
    <2> QED BY <1>5, <1>6, <1>8, <2>1, <2>2, <2>3
  <1> QED BY <1>2, <1>7, <1>8

----------------------------------------------------------------------------
\* The accumulators.

\* A sum of bounded products is bounded.
LEMMA TapsBound ==
    ASSUME NEW n \in Nat, NEW v \in [Taps(n) -> Int],
           NEW f, Sums(v, SUBSET Taps(n), f), NEW most \in Nat,
           \A tap \in Taps(n) : -most <= v[tap] /\ v[tap] <= most
    PROVE  /\ f[Taps(n)] \in Int
           /\ -(n * most) <= f[Taps(n)] /\ f[Taps(n)] <= n * most
  <1> DEFINE Fits(m) == /\ f[Taps(m)] \in Int
                        /\ -(m * most) <= f[Taps(m)]
                        /\ f[Taps(m)] <= m * most
             Bad == {m \in 0 .. n : ~Fits(m)}
  <1>1. Bad = {}
    <2> SUFFICES ASSUME Bad # {} PROVE FALSE
      OBVIOUS
    <2>1. PICK m \in Bad : \A j \in Bad : m <= j
      <3> HIDE DEF Fits
      <3>1. Bad \in SUBSET Nat
        OBVIOUS
      <3> HIDE DEF Bad
      <3> QED BY <3>1, NatMinimum
    <2>2. m \in 0 .. n /\ ~Fits(m)
      BY <2>1
    <2>3. CASE m = 0
      <3>1. Taps(m) = {}
        BY <2>3 DEF Taps
      <3>2. f[{}] = 0
        BY DEF Sums
      <3>3. m * most = 0
        BY <2>3
      <3> QED BY <2>2, <3>1, <3>2, <3>3
    <2>4. CASE m # 0
      <3> DEFINE j == m - 1
      <3>1. j \in 0 .. n /\ m = j + 1 /\ j < n /\ j \in Taps(n) /\ ~(m <= j)
        BY <2>2, <2>4 DEF Taps
      <3> HIDE DEF j
      <3>2. Fits(j)
        <4> HIDE DEF Fits
        <4> QED BY <2>1, <3>1
      <3>3. f[Taps(m)] = v[j] + f[Taps(j)]
        BY <3>1, TapTake
      <3>4. /\ v[j] \in Int /\ -most <= v[j] /\ v[j] <= most
        BY <3>1
      <3>5. m * most = j * most + most /\ j * most \in Nat
        BY <3>1
      <3> QED BY <2>2, <3>2, <3>3, <3>4, <3>5
    <2> QED BY <2>3, <2>4
  <1>2. n \in 0 .. n
    OBVIOUS
  <1>3. Fits(n)
    <2> HIDE DEF Fits
    <2> QED BY <1>1, <1>2
  <1> QED BY <1>3

\* Wrapping an addend changes nothing once the sum is wrapped.
LEMMA ModAdd ==
    ASSUME NEW m \in Nat \ {0}, NEW a \in Int, NEW b \in Int
    PROVE  ((a % m) + b) % m = (a + b) % m
  <1> DEFINE q == a \div m
             r == a % m
             t == (r + b) \div m
             s == (r + b) % m
  <1>1. q \in Int /\ r \in 0 .. m - 1 /\ a = q * m + r
    OBVIOUS
  <1> HIDE DEF q, r
  <1>2. t \in Int /\ s \in 0 .. m - 1 /\ r + b = t * m + s
    <2>1. r + b \in Int
      BY <1>1
    <2> QED BY <2>1
  <1> HIDE DEF t, s
  <1>3. (q + t) * m = q * m + t * m /\ q * m \in Int /\ t * m \in Int
    BY <1>1, <1>2
  <1>4. a + b = s + (q + t) * m
    BY <1>1, <1>2, <1>3
  <1>5. (s + (q + t) * m) % m = s
    BY <1>1, <1>2, Halves
  <1> QED BY <1>4, <1>5 DEF r, s

\* An accumulator that wraps at every turn ends with the sum, wrapped.
Accumulates(w, m, S, h) ==
    h = [P \in SUBSET S |->
           IF P = {} THEN 0 ELSE (h[P \ {Taken(P)}] + w[Taken(P)]) % m]

\* Wrapping at every turn is one such accumulation.
LEMMA WrappedSum ==
    ASSUME NEW S, IsFiniteSet(S), NEW w \in [S -> Int], NEW m \in Nat \ {0},
           NEW g, Sums(w, SUBSET S, g)
    PROVE  \E h : Accumulates(w, m, S, h) /\ h[S] = g[S] % m
  <1> DEFINE h == [P \in SUBSET S |-> g[P] % m]
  <1>1. ASSUME NEW P \in SUBSET S
        PROVE  h[P] = IF P = {} THEN 0
                      ELSE (h[P \ {Taken(P)}] + w[Taken(P)]) % m
    <2>1. g[P] = IF P = {} THEN 0 ELSE w[Taken(P)] + g[P \ {Taken(P)}]
      BY DEF Sums
    <2>2. CASE P = {}
      <3>1. 0 % m = 0
        OBVIOUS
      <3> QED BY <2>1, <2>2, <3>1
    <2>3. CASE P # {}
      <3> DEFINE x == Taken(P)
      <3>1. x \in P /\ x \in S
        BY <2>3 DEF Taken
      <3> HIDE DEF x
      <3>2. P \ {x} \in SUBSET S
        OBVIOUS
      <3>3. g[P \ {x}] \in Int /\ w[x] \in Int
        BY <3>1, <3>2, SumsInteger
      <3>4. h[P \ {x}] = g[P \ {x}] % m /\ h[P] = g[P] % m
        BY <3>2
      <3>5. ((g[P \ {x}] % m) + w[x]) % m = (g[P \ {x}] + w[x]) % m
        BY <3>3, ModAdd
      <3>6. g[P] = g[P \ {x}] + w[x]
        BY <2>1, <2>3, <3>3 DEF x
      <3> HIDE DEF h
      <3>7. h[P] = (h[P \ {x}] + w[x]) % m
        BY <3>4, <3>5, <3>6
      <3> QED BY <2>3, <3>7 DEF x
    <2> QED BY <2>2, <2>3
  <1>2. h = [P \in SUBSET S |-> h[P]]
    OBVIOUS
  <1>3. h[S] = g[S] % m
    <2>1. S \in SUBSET S
      OBVIOUS
    <2> QED BY <2>1
  <1> HIDE DEF h
  <1>4. Accumulates(w, m, S, h)
    BY <1>1, <1>2 DEF Accumulates
  <1> QED BY <1>3, <1>4

\* There is one accumulation only: it ends with the wrapped sum.
LEMMA AccumulatedSum ==
    ASSUME NEW S, IsFiniteSet(S), NEW w \in [S -> Int], NEW m \in Nat \ {0},
           NEW g, Sums(w, SUBSET S, g), NEW h, Accumulates(w, m, S, h)
    PROVE  h[S] = g[S] % m
  <1>1. PICK k : Accumulates(w, m, S, k) /\ k[S] = g[S] % m
    BY WrappedSum
  <1> DEFINE Bad == {P \in SUBSET S : h[P] # k[P]}
  <1>2. Bad = {}
    <2> SUFFICES ASSUME Bad # {} PROVE FALSE
      OBVIOUS
    <2>1. PICK P \in Bad : \A Q \in Bad : Cardinality(P) <= Cardinality(Q)
      <3>1. Bad \in SUBSET SUBSET S
        OBVIOUS
      <3> HIDE DEF Bad
      <3> QED BY <3>1, Smallest
    <2>2. P \in SUBSET S /\ h[P] # k[P]
      BY <2>1
    <2>3. /\ h[P] = IF P = {} THEN 0
                    ELSE (h[P \ {Taken(P)}] + w[Taken(P)]) % m
          /\ k[P] = IF P = {} THEN 0
                    ELSE (k[P \ {Taken(P)}] + w[Taken(P)]) % m
      BY <1>1, <2>2 DEF Accumulates
    <2>4. P # {}
      BY <2>2, <2>3
    <2>5. Taken(P) \in P
      BY <2>4 DEF Taken
    <2>6. /\ P \ {Taken(P)} \in SUBSET S
          /\ ~(Cardinality(P) <= Cardinality(P \ {Taken(P)}))
      BY <2>2, <2>5, Smaller
    <2>7. P \ {Taken(P)} \notin Bad
      BY <2>1, <2>6
    <2>8. h[P \ {Taken(P)}] = k[P \ {Taken(P)}]
      BY <2>6, <2>7
    <2> QED BY <2>2, <2>3, <2>4, <2>8
  <1>3. S \in SUBSET S
    OBVIOUS
  <1> QED BY <1>1, <1>2, <1>3
----------------------------------------------------------------------------
\* The three loops as sums of products.

Products(m, c, index) ==
    [tap \in Taps(c.tap_count) |-> Product(m, c, index, tap)]

PairProducts(m, c, index) ==
    [tap \in Firsts(c.tap_count) |->
       portable_pair_mac(SamplePair(m, c, index, tap),
                         CoefficientPair(m, c, tap))]

Filtered(exact) == aymos_fir_q15_saturate(aymos_fir_q15_truncate(exact))

Rounded(exact) ==
    LET magnitude == (IF exact < 0 THEN -exact ELSE exact) \div LANE
    IN IF exact < 0 THEN -magnitude ELSE magnitude

NearestLane(exact) ==
    CHOOSE lane \in Lanes :
        \A other \in Lanes :
            (lane - Rounded(exact)) * (lane - Rounded(exact))
              <= (other - Rounded(exact)) * (other - Rounded(exact))

\* The existence of a sum over a finite set.
LEMMA SumsOver ==
    ASSUME NEW v, NEW S, IsFiniteSet(S)
    PROVE  \E f : Sums(v, SUBSET S, f)
  <1>1. PICK n \in Nat : n = Cardinality(S)
    BY FS_CardinalityType
  <1>2. UpTo(S, n) = SUBSET S
    BY <1>1, FS_Subset DEF UpTo
  <1>3. \E f : Sums(v, UpTo(S, n), f)
    BY SumsExist
  <1> QED BY <1>2, <1>3

\* The scalar loop filters the sum of the products, and the reference is the
\* lane nearest to it.
LEMMA ScalarIsSum ==
    ASSUME NEW m, NEW c, c.tap_count \in Nat, NEW index
    PROVE  \E f : /\ Sums(Products(m, c, index), SUBSET Taps(c.tap_count), f)
                  /\ ScalarOutput(m, c, index) = Filtered(f[Taps(c.tap_count)])
                  /\ Reference(m, c, index) = NearestLane(f[Taps(c.tap_count)])
  <1> DEFINE S == Taps(c.tap_count)
             v == Products(m, c, index)
             Sum(f) ==
               f = [P \in SUBSET (0 .. c.tap_count - 1) |->
                      IF P = {} THEN 0
                      ELSE m[c.samples + (index + (CHOOSE x \in P : TRUE))
                                           * ELEMENT]
                             * m[c.coefficients + (CHOOSE x \in P : TRUE)
                                                    * ELEMENT]
                             + f[P \ {CHOOSE x \in P : TRUE}]]
             chosen == CHOOSE f : Sum(f)
  <1>1. IsFiniteSet(S)
    BY TapsFinite
  <1>2. \E f : Sums(v, SUBSET S, f)
    BY <1>1, SumsOver
  <1>3. ASSUME NEW P \in SUBSET S, P # {}
        PROVE  v[Taken(P)] = m[c.samples + (index + Taken(P)) * ELEMENT]
                               * m[c.coefficients + Taken(P) * ELEMENT]
    <2>1. Taken(P) \in S
      BY <1>3 DEF Taken
    <2> QED BY <2>1 DEF Products, Product, Sample, Coefficient
  <1>4. ASSUME NEW f PROVE Sum(f) <=> Sums(v, SUBSET S, f)
    <2> HIDE DEF v
    <2>1. [P \in SUBSET S |->
             IF P = {} THEN 0
             ELSE m[c.samples + (index + Taken(P)) * ELEMENT]
                    * m[c.coefficients + Taken(P) * ELEMENT]
                    + f[P \ {Taken(P)}]]
          = [P \in SUBSET S |->
               IF P = {} THEN 0 ELSE v[Taken(P)] + f[P \ {Taken(P)}]]
      BY <1>3
    <2> QED BY <2>1 DEF Sums, Taken, Taps
  <1>5. ScalarOutput(m, c, index) = Filtered(chosen[S])
    BY DEF ScalarOutput, Filtered, MapThenSumSet, MapThenFoldSet, Product,
           Sample, Coefficient, Taps
  <1>6. Reference(m, c, index) = NearestLane(chosen[S])
    BY DEF Reference, NearestLane, Rounded, MapThenSumSet, MapThenFoldSet, Taps
  <1> HIDE DEF Sum, v
  <1>7. \E f : Sum(f)
    BY <1>2, <1>4
  <1>8. Sum(chosen)
    BY <1>7
  <1> HIDE DEF chosen
  <1> QED BY <1>4, <1>5, <1>6, <1>8 DEF v

\* The packed loop filters the sum of the pairs and the tap left over.
LEMMA PackedIsSum ==
    ASSUME NEW m, NEW c, c.tap_count \in Nat, NEW index
    PROVE  \E g : /\ Sums(PairProducts(m, c, index),
                          SUBSET Firsts(c.tap_count), g)
                  /\ PackedOutput(m, c, index) =
                       Filtered(g[Firsts(c.tap_count)] + Tail(m, c, index))
  <1> DEFINE S == Firsts(c.tap_count)
             w == PairProducts(m, c, index)
             Sum(f) ==
               f = [P \in SUBSET Pairs(c) |->
                      IF P = {} THEN 0
                      ELSE portable_pair_mac(
                             SamplePair(m, c, index, CHOOSE x \in P : TRUE),
                             CoefficientPair(m, c, CHOOSE x \in P : TRUE))
                             + f[P \ {CHOOSE x \in P : TRUE}]]
             chosen == CHOOSE f : Sum(f)
  <1>1. IsFiniteSet(S)
    BY TapsFinite
  <1>2. \E f : Sums(w, SUBSET S, f)
    BY <1>1, SumsOver
  <1>3. ASSUME NEW P \in SUBSET S, P # {}
        PROVE  w[Taken(P)] = portable_pair_mac(
                               SamplePair(m, c, index, Taken(P)),
                               CoefficientPair(m, c, Taken(P)))
    <2>1. Taken(P) \in S
      BY <1>3 DEF Taken
    <2> QED BY <2>1 DEF PairProducts
  <1>4. Pairs(c) = S
    BY DEF Pairs, Firsts, Taps
  <1>5. ASSUME NEW f PROVE Sum(f) <=> Sums(w, SUBSET S, f)
    <2> HIDE DEF w
    <2>1. [P \in SUBSET S |->
             IF P = {} THEN 0
             ELSE portable_pair_mac(SamplePair(m, c, index, Taken(P)),
                                    CoefficientPair(m, c, Taken(P)))
                    + f[P \ {Taken(P)}]]
          = [P \in SUBSET S |->
               IF P = {} THEN 0 ELSE w[Taken(P)] + f[P \ {Taken(P)}]]
      BY <1>3
    <2> QED BY <1>4, <2>1 DEF Sums, Taken
  <1>6. PackedOutput(m, c, index)
          = Filtered(chosen[Pairs(c)] + Tail(m, c, index))
    BY DEF PackedOutput, Filtered, MapThenSumSet, MapThenFoldSet
  <1> HIDE DEF Sum, w
  <1>7. \E f : Sum(f)
    BY <1>2, <1>5
  <1>8. Sum(chosen)
    BY <1>7
  <1> HIDE DEF chosen
  <1> QED BY <1>4, <1>5, <1>6, <1>8 DEF w

\* The SMLALD loop ends with the wrapped sum of the pairs; the tap left over
\* is added to it.
LEMMA M4IsSum ==
    ASSUME NEW m, NEW c, c.tap_count \in Nat, NEW index,
           PairProducts(m, c, index) \in [Firsts(c.tap_count) -> Int],
           NEW g,
           Sums(PairProducts(m, c, index), SUBSET Firsts(c.tap_count), g)
    PROVE  M4Output(m, c, index) =
             SSAT(aymos_fir_q15_truncate(signed_accumulator(
                 ((g[Firsts(c.tap_count)] % (2 * ACCUMULATOR))
                    + Tail(m, c, index)) % (2 * ACCUMULATOR))))
  <1> DEFINE S == Firsts(c.tap_count)
             w == PairProducts(m, c, index)
             M == 2 * ACCUMULATOR
             Turns(h) ==
               h = [P \in SUBSET Pairs(c) |->
                      IF P = {} THEN 0
                      ELSE SMLALD(
                             SamplePair(m, c, index, CHOOSE x \in P : TRUE),
                             CoefficientPair(m, c, CHOOSE x \in P : TRUE),
                             h[P \ {CHOOSE x \in P : TRUE}])]
             chosen == CHOOSE h : Turns(h)
  <1>1. IsFiniteSet(S) /\ M \in Nat \ {0}
    BY TapsFinite, FirConstants
  <1>2. \E h : Accumulates(w, M, S, h)
    <2> HIDE DEF w, M
    <2>1. \E h : Accumulates(w, M, S, h) /\ h[S] = g[S] % M
      BY <1>1, WrappedSum DEF w
    <2> QED BY <2>1
  <1>3. ASSUME NEW P \in SUBSET S, P # {}
        PROVE  w[Taken(P)] = portable_pair_mac(
                               SamplePair(m, c, index, Taken(P)),
                               CoefficientPair(m, c, Taken(P)))
    <2>1. Taken(P) \in S
      BY <1>3 DEF Taken
    <2> QED BY <2>1 DEF PairProducts
  <1>4. Pairs(c) = S
    BY DEF Pairs, Firsts, Taps
  <1>5. ASSUME NEW h PROVE Turns(h) <=> Accumulates(w, M, S, h)
    <2> HIDE DEF w
    <2>1. [P \in SUBSET S |->
             IF P = {} THEN 0
             ELSE (h[P \ {Taken(P)}]
                     + portable_pair_mac(SamplePair(m, c, index, Taken(P)),
                                         CoefficientPair(m, c, Taken(P)))) % M]
          = [P \in SUBSET S |->
               IF P = {} THEN 0 ELSE (h[P \ {Taken(P)}] + w[Taken(P)]) % M]
      BY <1>3
    <2> QED BY <1>4, <2>1 DEF Accumulates, Taken, SMLALD
  <1>6. M4Output(m, c, index) =
          SSAT(aymos_fir_q15_truncate(signed_accumulator(
              (chosen[Pairs(c)] + Tail(m, c, index)) % M)))
    BY DEF M4Output, FoldSet, MapThenFoldSet
  <1> HIDE DEF Turns, w, M
  <1>7. \E h : Turns(h)
    BY <1>2, <1>5
  <1>8. Turns(chosen)
    BY <1>7
  <1> HIDE DEF chosen
  <1>9. chosen[S] = g[S] % M
    BY <1>1, <1>5, <1>8, AccumulatedSum DEF w
  <1> QED BY <1>4, <1>6, <1>9 DEF M

----------------------------------------------------------------------------

\* The product of two magnitudes is at most the square of their bound.
LEMMA Times ==
    ASSUME NEW x \in Nat, NEW y \in Nat, NEW most \in Nat,
           x <= most, y <= most
    PROVE  x * y \in Nat /\ x * y <= most * most
  <1>1. x * y <= most * y
    OBVIOUS
  <1>2. most * y <= most * most
    OBVIOUS
  <1>3. x * y \in Nat /\ most * y \in Nat /\ most * most \in Nat
    OBVIOUS
  <1> QED BY <1>1, <1>2, <1>3

\* The product of two lanes.
LEMMA LaneProduct ==
    ASSUME NEW a \in Lanes, NEW b \in Lanes
    PROVE  /\ LANE * LANE \in Nat /\ a * b \in Int
           /\ -(LANE * LANE) <= a * b /\ a * b <= LANE * LANE
  <1> DEFINE x == IF a < 0 THEN -a ELSE a
             y == IF b < 0 THEN -b ELSE b
  <1>1. /\ LANE \in Nat /\ a \in Int /\ b \in Int
        /\ x \in Nat /\ x <= LANE /\ (a = x \/ a = -x)
        /\ y \in Nat /\ y <= LANE /\ (b = y \/ b = -y)
    BY FirConstants DEF Lanes
  <1> HIDE DEF x, y
  <1>2. x * y \in Nat /\ x * y <= LANE * LANE
    BY <1>1, Times
  <1>3. LANE * LANE \in Nat /\ a * b \in Int
    BY <1>1
  <1>4. a * b = x * y \/ a * b = -(x * y)
    <2>1. /\ x * (-y) = -(x * y) /\ (-x) * y = -(x * y)
          /\ (-x) * (-y) = x * y
      BY <1>1
    <2> QED BY <1>1, <2>1
  <1> QED BY <1>2, <1>3, <1>4

\* Squares of naturals are ordered as the naturals are.
LEMMA SquareLess ==
    ASSUME NEW x \in Nat, NEW y \in Nat, x < y
    PROVE  x * x \in Nat /\ y * y \in Nat /\ x * x < y * y
  <1>1. x * x <= x * y /\ x * y + y <= y * y
    <2>1. x * x <= x * y
      OBVIOUS
    <2>2. (x + 1) * y <= y * y
      OBVIOUS
    <2>3. (x + 1) * y = x * y + y
      OBVIOUS
    <2> QED BY <2>1, <2>2, <2>3
  <1>2. x * x \in Nat /\ x * y \in Nat /\ y * y \in Nat
    OBVIOUS
  <1> QED BY <1>1, <1>2

\* The nearer of two numbers has the lesser square.
LEMMA Squares ==
    ASSUME NEW value \in Int, NEW lane \in Int, NEW other \in Int
    PROVE  LET far(l) == IF l < value THEN value - l ELSE l - value IN
           far(lane) < far(other)
             => ~((other - value) * (other - value)
                    <= (lane - value) * (lane - value))
  <1> DEFINE far(l) == IF l < value THEN value - l ELSE l - value
  <1>1. ASSUME NEW l \in Int
        PROVE  /\ far(l) \in Nat
               /\ (l - value) * (l - value) = far(l) * far(l)
    <2> DEFINE d == l - value
    <2>1. d \in Int /\ (far(l) = d \/ far(l) = -d) /\ far(l) \in Nat
      OBVIOUS
    <2> HIDE DEF d
    <2>2. (-d) * (-d) = d * d
      BY <2>1
    <2> HIDE DEF far
    <2>3. far(l) * far(l) = d * d
      BY <2>1, <2>2
    <2> QED BY <2>1, <2>3 DEF d
  <1> HIDE DEF far
  <1>2. ASSUME far(lane) < far(other)
        PROVE  ~((other - value) * (other - value)
                   <= (lane - value) * (lane - value))
    <2>1. far(lane) \in Nat /\ far(other) \in Nat
      BY <1>1
    <2>2. /\ far(lane) * far(lane) \in Nat /\ far(other) * far(other) \in Nat
          /\ far(lane) * far(lane) < far(other) * far(other)
      BY <1>2, <2>1, SquareLess
    <2>3. ~(far(other) * far(other) <= far(lane) * far(lane))
      BY <2>2
    <2> QED BY <1>1, <2>3
  <1> QED BY <1>2 DEF far

\* C's division and clamping, on an exact sum, give the nearest lane.
LEMMA FilteredNearest ==
    ASSUME NEW exact \in Int
    PROVE  /\ Filtered(exact) = NearestLane(exact)
           /\ Filtered(exact) \in Lanes
           /\ SSAT(aymos_fir_q15_truncate(exact)) = Filtered(exact)
  <1> DEFINE value == Rounded(exact)
             lane == aymos_fir_q15_saturate(value)
             square(l) == (l - value) * (l - value)
             far(l) == IF l < value THEN value - l ELSE l - value
  <1>1. LANE \in Nat \ {0}
    BY FirConstants
  <1>2. value \in Int /\ aymos_fir_q15_truncate(exact) = value
    <2>1. \A n \in Nat : n \div LANE \in Int
      BY <1>1
    <2> QED BY <2>1 DEF Rounded, aymos_fir_q15_truncate
  <1> HIDE DEF value
  <1>3. lane \in Lanes /\ SSAT(value) = lane
    BY <1>2, SaturationNearest
  <1>4. Lanes \in SUBSET Int
    BY <1>1 DEF Lanes
  <1>5. ASSUME NEW other \in Lanes, other # lane
        PROVE  far(lane) < far(other)
    <2>1. other \in -LANE .. LANE - 1
      BY DEF Lanes
    <2> QED BY <1>1, <1>2, <1>5, <2>1 DEF aymos_fir_q15_saturate
  <1>6. ASSUME NEW other \in Lanes, other # lane
        PROVE  ~(square(other) <= square(lane))
    <2>1. lane \in Int /\ other \in Int
      BY <1>3, <1>4
    <2> HIDE DEF lane
    <2>2. far(lane) < far(other)
      BY <1>5, <1>6
    <2> QED BY <1>2, <2>1, <2>2, Squares
  <1>7. ASSUME NEW other \in Lanes
        PROVE  square(lane) <= square(other)
    <2> DEFINE d == lane - value
               e == other - value
    <2>1. square(lane) \in Int /\ square(other) \in Int
      <3>1. lane \in Int /\ other \in Int
        BY <1>3, <1>4
      <3> HIDE DEF lane
      <3>2. d \in Int /\ e \in Int
        BY <1>2, <3>1
      <3>3. square(lane) = d * d /\ square(other) = e * e
        OBVIOUS
      <3> HIDE DEF d, e, square
      <3>4. d * d \in Int /\ e * e \in Int
        BY <3>2
      <3> QED BY <3>3, <3>4
    <2> HIDE DEF lane
    <2>2. CASE other = lane
      BY <2>1, <2>2
    <2>3. CASE other # lane
      <3>1. ~(square(other) <= square(lane))
        BY <1>6, <2>3
      <3> HIDE DEF square
      <3> QED BY <2>1, <3>1
    <2> QED BY <2>2, <2>3
  <1>8. NearestLane(exact)
          = CHOOSE l \in Lanes : \A other \in Lanes : square(l) <= square(other)
    BY DEF NearestLane, value
  <1> HIDE DEF square, lane
  <1>9. NearestLane(exact) = lane
    BY <1>3, <1>6, <1>7, <1>8
  <1> QED BY <1>2, <1>3, <1>9 DEF lane, Filtered

----------------------------------------------------------------------------
\* The inputs of one output.

Readable(m, c, index) ==
    /\ c.tap_count \in 1 .. AYMOS_FIR_Q15_MAX_TAPS
    /\ index \in Nat
    /\ \A tap \in Taps(c.tap_count) : /\ Sample(m, c, index + tap) \in Lanes
                                      /\ Coefficient(m, c, tap) \in Lanes

\* The pairs' products are sums of the taps', which are bounded.
LEMMA ProductsPair ==
    ASSUME NEW m, NEW c, NEW index, Readable(m, c, index)
    PROVE  /\ Products(m, c, index) \in [Taps(c.tap_count) -> Int]
           /\ \A tap \in Taps(c.tap_count) :
                 /\ -(LANE * LANE) <= Products(m, c, index)[tap]
                 /\ Products(m, c, index)[tap] <= LANE * LANE
           /\ PairProducts(m, c, index) \in [Firsts(c.tap_count) -> Int]
           /\ \A tap \in Firsts(c.tap_count) :
                 PairProducts(m, c, index)[tap]
                   = Products(m, c, index)[tap] + Products(m, c, index)[tap + 1]
  <1> DEFINE v == Products(m, c, index)
             w == PairProducts(m, c, index)
             n == c.tap_count
  <1>1. ASSUME NEW tap \in Taps(n)
        PROVE  /\ v[tap] = Sample(m, c, index + tap) * Coefficient(m, c, tap)
               /\ v[tap] \in Int
               /\ -(LANE * LANE) <= v[tap] /\ v[tap] <= LANE * LANE
    <2>1. v[tap] = Sample(m, c, index + tap) * Coefficient(m, c, tap)
      BY DEF Products, Product
    <2>2. Sample(m, c, index + tap) \in Lanes /\ Coefficient(m, c, tap) \in Lanes
      BY DEF Readable
    <2> HIDE DEF v
    <2> QED BY <2>1, <2>2, LaneProduct
  <1>2. ASSUME NEW tap \in Firsts(n)
        PROVE  /\ w[tap] = v[tap] + v[tap + 1]
               /\ w[tap] \in Int
    <2>1. /\ tap \in Taps(n) /\ tap + 1 \in Taps(n)
          /\ tap \in Nat /\ index \in Nat
      BY DEF Firsts, Taps, Readable
    <2>2. index + tap + 1 = index + (tap + 1)
      BY <2>1
    <2>3. /\ Sample(m, c, index + tap) \in Lanes
          /\ Sample(m, c, index + tap + 1) \in Lanes
          /\ Coefficient(m, c, tap) \in Lanes
          /\ Coefficient(m, c, tap + 1) \in Lanes
      BY <2>1, <2>2 DEF Readable
    <2>4. w[tap] = portable_pair_mac(SamplePair(m, c, index, tap),
                                     CoefficientPair(m, c, tap))
      BY DEF PairProducts
    <2>5. w[tap] = Sample(m, c, index + tap) * Coefficient(m, c, tap)
                     + Sample(m, c, index + tap + 1)
                         * Coefficient(m, c, tap + 1)
      BY <2>3, <2>4, PairMacExact DEF SamplePair, CoefficientPair
    <2>6. /\ v[tap] = Sample(m, c, index + tap) * Coefficient(m, c, tap)
          /\ v[tap + 1] = Sample(m, c, index + tap + 1)
                            * Coefficient(m, c, tap + 1)
          /\ v[tap] \in Int /\ v[tap + 1] \in Int
      BY <1>1, <2>1, <2>2
    <2> HIDE DEF v, w
    <2> QED BY <2>5, <2>6
  <1>3. v = [tap \in Taps(n) |-> v[tap]] /\ w = [tap \in Firsts(n) |-> w[tap]]
    BY DEF Products, PairProducts
  <1> HIDE DEF v, w
  <1>4. v \in [Taps(n) -> Int] /\ w \in [Firsts(n) -> Int]
    BY <1>1, <1>2, <1>3
  <1> QED BY <1>1, <1>2, <1>4 DEF v, w

\* The scalar loop, the packed loop and the instructions of the DSP extension
\* all store the reference filter's lane, at any number of taps that the
\* validation accepts: no accumulator overflows (aymos_fir_q15_scalar,
\* aymos_fir_q15_packed_portable, aymos_fir_q15_m4).
THEOREM FiltersAgree ==
    ASSUME NEW m, NEW c, NEW index, Readable(m, c, index)
    PROVE  /\ Reference(m, c, index) \in Lanes
           /\ ScalarOutput(m, c, index) = Reference(m, c, index)
           /\ PackedOutput(m, c, index) = Reference(m, c, index)
           /\ M4Output(m, c, index) = Reference(m, c, index)
  <1> DEFINE n == c.tap_count
             v == Products(m, c, index)
             w == PairProducts(m, c, index)
             tail == Tail(m, c, index)
  <1>1. n \in Nat \ {0} /\ n <= AYMOS_FIR_Q15_MAX_TAPS
    BY FirConstants DEF Readable
  <1>2. /\ v \in [Taps(n) -> Int] /\ w \in [Firsts(n) -> Int]
        /\ \A tap \in Taps(n) :
              -(LANE * LANE) <= v[tap] /\ v[tap] <= LANE * LANE
        /\ \A tap \in Firsts(n) : w[tap] = v[tap] + v[tap + 1]
    BY ProductsPair
  <1>3. PICK f : /\ Sums(v, SUBSET Taps(n), f)
                 /\ ScalarOutput(m, c, index) = Filtered(f[Taps(n)])
                 /\ Reference(m, c, index) = NearestLane(f[Taps(n)])
    BY <1>1, ScalarIsSum
  <1>4. PICK g : /\ Sums(w, SUBSET Firsts(n), g)
                 /\ PackedOutput(m, c, index) = Filtered(g[Firsts(n)] + tail)
    BY <1>1, PackedIsSum
  <1> DEFINE sum == f[Taps(n)]
             paired == g[Firsts(n)]
             M == 2 * ACCUMULATOR
  <1>5. M4Output(m, c, index) =
          SSAT(aymos_fir_q15_truncate(signed_accumulator(
              ((paired % M) + tail) % M)))
    BY <1>1, <1>2, <1>4, M4IsSum
  <1>6. tail = IF n % 2 = 0 THEN 0 ELSE v[n - 1]
    <2>1. n - 1 \in Taps(n)
      BY <1>1 DEF Taps
    <2> QED BY <2>1 DEF Tail, Products
  <1> HIDE DEF v, w, tail, n
  <1>7. sum = paired + tail
    BY <1>1, <1>2, <1>3, <1>4, <1>6, PairedSum
  <1>8. paired \in Int /\ tail \in Int
    <2>1. IsFiniteSet(Firsts(n)) /\ Firsts(n) \in SUBSET Firsts(n)
      BY <1>1, TapsFinite
    <2>2. paired \in Int
      BY <1>2, <1>4, <2>1, SumsInteger
    <2>3. n - 1 \in Taps(n)
      BY <1>1 DEF Taps
    <2>4. tail \in Int
      BY <1>2, <1>6, <2>3
    <2> QED BY <2>2, <2>4
  <1>9. sum \in -ACCUMULATOR .. ACCUMULATOR - 1
    <2> DEFINE most == LANE * LANE
               taps == AYMOS_FIR_Q15_MAX_TAPS
    <2>1. LANE \in Nat /\ taps \in Nat /\ ACCUMULATOR \in Nat
          /\ taps * LANE * LANE < ACCUMULATOR
      BY FirConstants
    <2>2. most \in Nat /\ taps * LANE * LANE = taps * most
      BY <2>1
    <2>3. /\ sum \in Int /\ -(n * most) <= sum /\ sum <= n * most
      <3> HIDE DEF most
      <3> QED BY <1>1, <1>2, <1>3, <2>2, TapsBound DEF most
    <2> HIDE DEF most, taps
    <2>4. n * most <= taps * most
      BY <1>1, <2>1, <2>2 DEF taps
    <2>5. n * most \in Nat /\ taps * most \in Nat
      BY <1>1, <2>1, <2>2
    <2> HIDE DEF sum
    <2> QED BY <2>1, <2>2, <2>3, <2>4, <2>5
  <1> HIDE DEF sum, paired
  <1>10. ((paired % M) + tail) % M = sum % M
    <2>1. M \in Nat \ {0}
      BY FirConstants
    <2> HIDE DEF M
    <2> QED BY <1>7, <1>8, <2>1, ModAdd
  <1>11. signed_accumulator(sum % M) = sum
    BY <1>9, AccumulatorRoundTrip
  <1>12. sum \in Int
    BY <1>7, <1>8
  <1>13. /\ Filtered(sum) = NearestLane(sum) /\ Filtered(sum) \in Lanes
         /\ SSAT(aymos_fir_q15_truncate(sum)) = Filtered(sum)
    BY <1>12, FilteredNearest
  <1> QED BY <1>3, <1>4, <1>5, <1>7, <1>10, <1>11, <1>13 DEF sum, paired

\* The reference filter depends on what it reads only.
LEMMA ReadsInputs ==
    ASSUME NEW m, NEW b, NEW c, c.tap_count \in Nat, NEW index,
           Products(m, c, index) = Products(b, c, index)
    PROVE  Reference(m, c, index) = Reference(b, c, index)
  <1> DEFINE S == Taps(c.tap_count)
             v == Products(m, c, index)
  <1>1. PICK f : /\ Sums(v, SUBSET S, f)
                 /\ Reference(m, c, index) = NearestLane(f[S])
    BY ScalarIsSum
  <1>2. PICK g : /\ Sums(v, SUBSET S, g)
                 /\ Reference(b, c, index) = NearestLane(g[S])
    BY ScalarIsSum
  <1>3. f[S] = g[S]
    <2>1. IsFiniteSet(S) /\ S \in SUBSET S
      BY TapsFinite
    <2> HIDE DEF v, S
    <2> QED BY <1>1, <1>2, <2>1, SumsUnique
  <1> QED BY <1>1, <1>2, <1>3

----------------------------------------------------------------------------
\* What a call stores.

\* OutputsExact of a memory m, with count outputs stored by the call c that
\* found the memory b.
Stored(m, b, c, accepted, count) ==
    \A a \in Addresses :
        LET index == (a - c.output) \div ELEMENT IN
        m[a] = IF /\ accepted /\ index \in 0 .. count - 1
                  /\ a = c.output + index * ELEMENT
               THEN Reference(b, c, index)
               ELSE b[a]

\* Beyond FirInv: the arrays are aligned, no accepted call has stored more
\* outputs than it has room for, and what is stored is exact.
OutputInv ==
    /\ FirInv
    /\ Aligned(call.samples) /\ Aligned(call.coefficients)
    /\ Aligned(call.output)
    /\ memory \in [Addresses -> Lanes] /\ before \in [Addresses -> Lanes]
    /\ sample_index \in Nat
    /\ status # "OK" => sample_index = 0
    /\ status = "OK" => sample_index <= OutputCount(call)
    /\ Stored(memory, before, call, status = "OK", sample_index)

\* The elements of aligned arrays below the end of the address space.
LEMMA ElementAddress ==
    ASSUME NEW pointer \in Nat \ {0}, Aligned(pointer), NEW count \in Nat,
           \A byte \in Bytes(pointer, count) : byte < UINTPTR_MAX,
           NEW index \in 0 .. count - 1
    PROVE  /\ pointer + index * ELEMENT \in Addresses
           /\ pointer + index * ELEMENT \in Bytes(pointer, count)
           /\ (pointer + index * ELEMENT - pointer) \div ELEMENT = index
  <1> DEFINE a == pointer + index * 2
             last == pointer + count * 2 - 1
  <1>1. /\ index \in Nat /\ count \in Nat /\ index + 1 <= count
        /\ a \in Nat /\ last \in Nat /\ pointer <= a /\ a <= last /\ 1 <= a
    OBVIOUS
  <1>2. a \in Bytes(pointer, count)
    <2>1. a \in pointer .. last
      <3> HIDE DEF a, last
      <3> QED BY <1>1
    <2> QED BY <2>1 DEF Bytes, ELEMENT
  <1>3. a % 2 = 0
    <2>1. pointer % 2 = 0
      BY DEF Aligned, ELEMENT
    <2> QED BY <1>1, <2>1
  <1>4. (a - pointer) \div 2 = index
    <2>1. a - pointer = index * 2
      BY <1>1
    <2>2. (index * 2) \div 2 = index
      BY <1>1
    <2> QED BY <2>1, <2>2
  <1>5. a < UINTPTR_MAX /\ UINTPTR_MAX \in Nat
    BY <1>2, FirConstants
  <1>6. a \in Addresses
    <2>1. a \in 1 .. UINTPTR_MAX - 1
      <3> HIDE DEF a
      <3> QED BY <1>1, <1>5
    <2> QED BY <1>3, <2>1 DEF Addresses, ELEMENT
  <1> QED BY <1>2, <1>4, <1>6 DEF ELEMENT

\* Whatever a safe call has stored, the inputs of its next output are still
\* those it was made with.
LEMMA InputsKept ==
    ASSUME NEW m, NEW b \in [Addresses -> Lanes], NEW c \in Call, SafeCall(c),
           Aligned(c.samples), Aligned(c.coefficients), Aligned(c.output),
           NEW count \in Nat, count < OutputCount(c),
           Stored(m, b, c, TRUE, count)
    PROVE  /\ Readable(m, c, count)
           /\ Products(m, c, count) = Products(b, c, count)
  <1> DEFINE n == c.sample_count
             k == c.tap_count
             outputs == Bytes(c.output, n - k + 1)
  <1>1. /\ c.samples \in Nat \ {0} /\ c.coefficients \in Nat \ {0}
        /\ c.output \in Nat \ {0}
        /\ n \in Nat /\ k \in Nat /\ 1 <= k /\ k <= n
        /\ k \in 1 .. AYMOS_FIR_Q15_MAX_TAPS
    BY FirConstants DEF Call, SafeCall
  <1>2. OutputCount(c) = n - k + 1
    BY <1>1 DEF OutputCount, valid_output_count
  <1>3. /\ \A byte \in Bytes(c.samples, n) : byte < UINTPTR_MAX
        /\ \A byte \in Bytes(c.coefficients, k) : byte < UINTPTR_MAX
        /\ \A byte \in outputs : byte < UINTPTR_MAX
        /\ \A byte \in Bytes(c.samples, n) : byte \notin outputs
        /\ \A byte \in Bytes(c.coefficients, k) : byte \notin outputs
    BY DEF SafeCall
  <1>4. ASSUME NEW a \in Addresses, a \notin outputs
        PROVE  m[a] = b[a]
    <2> DEFINE index == (a - c.output) \div ELEMENT
    <2>1. ~(index \in 0 .. count - 1 /\ a = c.output + index * ELEMENT)
      <3> SUFFICES ASSUME index \in 0 .. count - 1,
                          a = c.output + index * ELEMENT
                   PROVE  FALSE
        OBVIOUS
      <3> HIDE DEF index
      <3>1. index \in 0 .. (n - k + 1) - 1 /\ n - k + 1 \in Nat
        BY <1>1, <1>2
      <3>2. a \in outputs
        BY <1>1, <1>3, <3>1, ElementAddress
      <3> QED BY <1>4, <3>2
    <2> QED BY <2>1 DEF Stored
  <1>5. ASSUME NEW tap \in Taps(k)
        PROVE  /\ Sample(m, c, count + tap) = Sample(b, c, count + tap)
               /\ Coefficient(m, c, tap) = Coefficient(b, c, tap)
               /\ Sample(b, c, count + tap) \in Lanes
               /\ Coefficient(b, c, tap) \in Lanes
    <2>1. count + tap \in 0 .. n - 1 /\ tap \in 0 .. k - 1
      BY <1>1, <1>2 DEF Taps
    <2>2. /\ c.samples + (count + tap) * ELEMENT \in Addresses
          /\ c.samples + (count + tap) * ELEMENT \in Bytes(c.samples, n)
      BY <1>1, <1>3, <2>1, ElementAddress
    <2>3. /\ c.coefficients + tap * ELEMENT \in Addresses
          /\ c.coefficients + tap * ELEMENT \in Bytes(c.coefficients, k)
      BY <1>1, <1>3, <2>1, ElementAddress
    <2> QED BY <1>3, <1>4, <2>2, <2>3 DEF Sample, Coefficient
  <1>6. Readable(m, c, count)
    BY <1>1, <1>5 DEF Readable
  <1>7. Products(m, c, count) = Products(b, c, count)
    BY <1>5 DEF Products, Product
  <1> QED BY <1>6, <1>7

\* Storing one output more.
LEMMA StoresExact ==
    ASSUME NEW m \in [Addresses -> Lanes], NEW b \in [Addresses -> Lanes],
           NEW c \in Call, SafeCall(c), Aligned(c.output),
           NEW count \in Nat, count < OutputCount(c),
           Stored(m, b, c, TRUE, count), NEW value \in Lanes,
           value = Reference(b, c, count),
           NEW stored,
           stored = [m EXCEPT ![c.output + count * ELEMENT] = value]
    PROVE  /\ stored \in [Addresses -> Lanes]
           /\ Stored(stored, b, c, TRUE, count + 1)
  <1> DEFINE outputs == OutputCount(c)
             place == c.output + count * ELEMENT
  <1>1. /\ c.output \in Nat \ {0} /\ outputs \in Nat
        /\ outputs = c.sample_count - c.tap_count + 1
        /\ \A byte \in Bytes(c.output, outputs) : byte < UINTPTR_MAX
    BY FirConstants DEF Call, SafeCall, OutputCount, valid_output_count
  <1>2. count \in 0 .. outputs - 1
    BY <1>1
  <1>3. place \in Addresses /\ (place - c.output) \div ELEMENT = count
    <2> DEFINE pointer == c.output
    <2>1. /\ pointer \in Nat \ {0} /\ Aligned(pointer) /\ outputs \in Nat
          /\ \A byte \in Bytes(pointer, outputs) : byte < UINTPTR_MAX
          /\ count \in 0 .. outputs - 1
      BY <1>1, <1>2
    <2> HIDE DEF outputs, pointer
    <2>2. /\ pointer + count * ELEMENT \in Addresses
          /\ (pointer + count * ELEMENT - pointer) \div ELEMENT = count
      BY <2>1, ElementAddress
    <2>3. c.output \in Nat /\ count * ELEMENT \in Nat
      BY <1>1 DEF ELEMENT
    <2> QED BY <2>2, <2>3 DEF pointer
  <1>4. stored \in [Addresses -> Lanes]
    BY <1>3
  <1>5. ASSUME NEW a \in Addresses
        PROVE  LET index == (a - c.output) \div ELEMENT IN
               stored[a] = IF /\ index \in 0 .. (count + 1) - 1
                              /\ a = c.output + index * ELEMENT
                           THEN Reference(b, c, index)
                           ELSE b[a]
    <2> DEFINE index == (a - c.output) \div ELEMENT
    <2>1. CASE a = place
      <3>1. index = count /\ stored[a] = value
        BY <1>3, <2>1
      <3>2. index \in 0 .. (count + 1) - 1
        BY <3>1
      <3> HIDE DEF index
      <3>3. stored[a] = IF /\ index \in 0 .. (count + 1) - 1
                           /\ a = c.output + index * ELEMENT
                        THEN Reference(b, c, index)
                        ELSE b[a]
        BY <2>1, <3>1, <3>2
      <3> QED BY <3>3 DEF index
    <2>2. CASE a # place
      <3>1. stored[a] = m[a]
        BY <2>2
      <3>2. m[a] = IF index \in 0 .. count - 1 /\ a = c.output + index * ELEMENT
                   THEN Reference(b, c, index)
                   ELSE b[a]
        BY DEF Stored
      <3> HIDE DEF index
      <3>3. ASSUME a = c.output + index * ELEMENT
            PROVE  index \in 0 .. count - 1 <=> index \in 0 .. (count + 1) - 1
        <4>1. index # count
          BY <2>2, <3>3
        <4> QED BY <4>1
      <3>4. stored[a] = IF /\ index \in 0 .. (count + 1) - 1
                           /\ a = c.output + index * ELEMENT
                        THEN Reference(b, c, index)
                        ELSE b[a]
        BY <3>1, <3>2, <3>3
      <3> QED BY <3>4 DEF index
    <2> QED BY <2>1, <2>2
  <1>6. Stored(stored, b, c, TRUE, count + 1)
    BY <1>5 DEF Stored
  <1> QED BY <1>4, <1>6

\* One turn of an implementation that computes the reference.
LEMMA StoreKeeps ==
    ASSUME OutputInv, NEW name, NEW value, StoreOutput(name, value),
           Readable(memory, call, sample_index)
             => value = Reference(memory, call, sample_index)
    PROVE  OutputInv'
  <1>1. /\ status = "OK" /\ sample_index < OutputCount(call)
        /\ memory' = [memory EXCEPT
                        ![call.output + sample_index * ELEMENT] = value]
        /\ sample_index' = sample_index + 1
        /\ call' = call /\ status' = status /\ before' = before
    BY DEF StoreOutput
  <1>2. /\ call \in Call /\ SafeCall(call) /\ sample_index \in Nat
        /\ memory \in [Addresses -> Lanes] /\ before \in [Addresses -> Lanes]
        /\ Stored(memory, before, call, TRUE, sample_index)
        /\ Aligned(call.samples) /\ Aligned(call.coefficients)
        /\ Aligned(call.output)
    BY <1>1, ValidIsSafe DEF OutputInv, FirInv
  <1>3. /\ Readable(memory, call, sample_index)
        /\ Products(memory, call, sample_index)
             = Products(before, call, sample_index)
    BY <1>1, <1>2, InputsKept
  <1>4. call.tap_count \in Nat
    BY FirConstants, <1>2 DEF Call
  <1>5. /\ Reference(memory, call, sample_index) \in Lanes
        /\ Reference(memory, call, sample_index)
             = Reference(before, call, sample_index)
    BY <1>3, <1>4, FiltersAgree, ReadsInputs
  <1>6. value \in Lanes /\ value = Reference(before, call, sample_index)
    BY <1>3, <1>5
  <1>7. /\ memory' \in [Addresses -> Lanes]
        /\ Stored(memory', before, call, TRUE, sample_index + 1)
    BY <1>1, <1>2, <1>6, StoresExact
  <1>8. OutputCount(call) \in Nat
    BY <1>2, FirConstants DEF Call, OutputCount, valid_output_count
  <1>9. sample_index + 1 \in Nat /\ sample_index + 1 <= OutputCount(call)
    BY <1>1, <1>2, <1>8
  <1>10. (status' = "OK") = TRUE
    BY <1>1
  <1>11. Stored(memory', before', call', status' = "OK", sample_index')
    BY <1>1, <1>7, <1>10
  <1>12. FirInv'
    BY <1>1 DEF OutputInv, FirInv
  <1> QED BY <1>1, <1>2, <1>7, <1>9, <1>11, <1>12 DEF OutputInv

\* What a call leaves in memory: each output the reference filter of the
\* inputs it was made with, whichever implementation ran, and nothing else
\* changed (aymos_fir_q15_scalar, aymos_fir_q15_packed_portable,
\* aymos_fir_q15_m4 after aymos_fir_q15_validate).
THEOREM OutputsSafe == Spec => []OutputsExact
  <1>1. Init => OutputInv
    <2> SUFFICES ASSUME Init PROVE OutputInv
      OBVIOUS
    <2>1. /\ FirInv /\ memory \in [Addresses -> Lanes]
          /\ Aligned(call.samples) /\ Aligned(call.coefficients)
          /\ Aligned(call.output)
          /\ before = memory /\ sample_index = 0 /\ status = "CALLED"
      BY FirConstants, ArraysAligned DEF Init, FirInv
    <2>2. Stored(memory, before, call, status = "OK", sample_index)
      BY <2>1 DEF Stored
    <2> QED BY <2>1, <2>2 DEF OutputInv
  <1>2. OutputInv /\ [Next]_vars => OutputInv'
    <2> SUFFICES ASSUME OutputInv, [Next]_vars PROVE OutputInv'
      OBVIOUS
    <2>1. CASE Validate
      <3>1. /\ memory' = memory /\ before' = before /\ call' = call
            /\ sample_index' = sample_index
            /\ status = "CALLED" /\ status' = aymos_fir_q15_validate(call)
        BY <2>1 DEF Validate
      <3>2. FirInv'
        BY <3>1 DEF OutputInv, FirInv
      <3>3. sample_index = 0 /\ sample_index' \in Nat
        BY <3>1 DEF OutputInv
      <3>4. OutputCount(call) \in Nat
        BY FirConstants
        DEF OutputInv, FirInv, Call, OutputCount, valid_output_count
      <3>5. sample_index' = 0 /\ sample_index' <= OutputCount(call')
        BY <3>1, <3>3, <3>4
      <3>6. \A a \in Addresses : memory[a] = before[a]
        BY <3>1 DEF OutputInv, Stored
      <3>7. Stored(memory', before', call', status' = "OK", sample_index')
        <4> DEFINE accepted == status' = "OK"
        <4>1. \A index : index \notin 0 .. 0 - 1
          OBVIOUS
        <4> HIDE DEF accepted
        <4>2. Stored(memory, before, call, accepted, 0)
          BY <3>6, <4>1 DEF Stored
        <4> QED BY <3>1, <3>5, <4>2 DEF accepted
      <3> QED BY <3>1, <3>2, <3>3, <3>5, <3>7 DEF OutputInv
    <2>2. CASE aymos_fir_q15_scalar
      BY <2>2, FiltersAgree, StoreKeeps DEF aymos_fir_q15_scalar
    <2>3. CASE aymos_fir_q15_packed_portable
      BY <2>3, FiltersAgree, StoreKeeps DEF aymos_fir_q15_packed_portable
    <2>4. CASE aymos_fir_q15_m4
      BY <2>4, FiltersAgree, StoreKeeps DEF aymos_fir_q15_m4
    <2>5. CASE UNCHANGED vars
      BY <2>5 DEF OutputInv, FirInv, vars
    <2> QED BY <2>1, <2>2, <2>3, <2>4, <2>5 DEF Next
  <1>3. OutputInv => OutputsExact
    BY DEF OutputInv, OutputsExact, Stored
  <1> QED BY <1>1, <1>2, <1>3, PTL DEF Spec
=============================================================================
