------------------------------- MODULE FirQ15 -------------------------------
(***************************************************************************)
(* The FIR filters of dsp/src: one call of aymos_fir_q15_scalar,           *)
(* aymos_fir_q15_packed_portable or aymos_fir_q15_m4 on arrays in memory.  *)
(*                                                                         *)
(* The call validates its arguments, then computes and stores one output   *)
(* after another, reading samples and coefficients from the memory it      *)
(* stores to.  Addresses are bytes; memory maps the address of each        *)
(* element to its lane.  Widths are constants: a lane holds -LANE ..       *)
(* LANE - 1 (LANE is 32768 in the code), the accumulator 64 bits.          *)
(***************************************************************************)
EXTENDS Integers, FiniteSetsExt

CONSTANTS
    LANE,                       \* 2^15
    ACCUMULATOR,                \* 2^63
    UINTPTR_MAX,                \* also SIZE_MAX
    AYMOS_FIR_Q15_MAX_TAPS,
    Inputs                      \* memories and calls to start from

Lanes == -LANE .. LANE - 1
ELEMENT == 2                    \* sizeof(int16_t)
NULL == 0
Addresses == {a \in 1 .. UINTPTR_MAX - 1 : a % ELEMENT = 0}

Call == [samples : 0 .. UINTPTR_MAX, sample_count : 0 .. UINTPTR_MAX,
         coefficients : 0 .. UINTPTR_MAX, tap_count : 0 .. UINTPTR_MAX,
         output : 0 .. UINTPTR_MAX, output_capacity : 0 .. UINTPTR_MAX]

ASSUME FirConstants ==
    /\ {LANE, ACCUMULATOR, UINTPTR_MAX} \subseteq Nat \ {0}
    /\ AYMOS_FIR_Q15_MAX_TAPS \in Nat
    /\ AYMOS_FIR_Q15_MAX_TAPS * LANE * LANE < ACCUMULATOR
    /\ \A input \in Inputs : /\ input.call \in Call
                             /\ input.memory \in [Addresses -> Lanes]

\* What the type int16_t * asks of a pointer.
Aligned(pointer) == pointer % ELEMENT = 0

ASSUME ArraysAligned ==
    \A input \in Inputs : /\ Aligned(input.call.samples)
                          /\ Aligned(input.call.coefficients)
                          /\ Aligned(input.call.output)

Implementations == {"scalar", "packed_portable", "m4"}

Status == {"OK", "NULL_POINTER", "INVALID_TAP_COUNT", "INPUT_TOO_SHORT",
           "OUTPUT_TOO_SMALL", "SIZE_OVERFLOW", "OVERLAPPING_OUTPUT"}

----------------------------------------------------------------------------
\* fir_q15_common.c: the checks.

\* Mutant: the address wraps instead.
CountFits(pointer, count) == count <= UINTPTR_MAX \div ELEMENT

\* byte_range succeeds; the range is then pointer .. EndOf(pointer, count).
byte_range(pointer, count) ==
    /\ count <= UINTPTR_MAX \div ELEMENT
    /\ count * ELEMENT <= UINTPTR_MAX - pointer

EndOf(pointer, count) == (pointer + count * ELEMENT) % (UINTPTR_MAX + 1)

ranges_overlap(first_begin, first_end, second_begin, second_end) ==
    first_begin < second_end /\ second_begin < first_end

valid_output_count(sample_count, tap_count) ==
    IF tap_count \in 1 .. AYMOS_FIR_Q15_MAX_TAPS /\ sample_count >= tap_count
    THEN sample_count - tap_count + 1
    ELSE 0

OutputCount(c) == valid_output_count(c.sample_count, c.tap_count)

OutputCollides(c) ==
    LET output_end == EndOf(c.output, OutputCount(c)) IN
    \/ ranges_overlap(c.output, output_end,
                      c.samples, EndOf(c.samples, c.sample_count))
    \/ ranges_overlap(c.output, output_end,
                      c.coefficients, EndOf(c.coefficients, c.tap_count))

\* The first check that fails decides.
aymos_fir_q15_validate(c) ==
    IF NULL \in {c.samples, c.coefficients, c.output}
    THEN "NULL_POINTER"
    ELSE IF c.tap_count \notin 1 .. AYMOS_FIR_Q15_MAX_TAPS
    THEN "INVALID_TAP_COUNT"
    ELSE IF c.sample_count < c.tap_count
    THEN "INPUT_TOO_SHORT"
    ELSE IF c.output_capacity < OutputCount(c)
    THEN "OUTPUT_TOO_SMALL"
    ELSE IF ~(/\ byte_range(c.samples, c.sample_count)
              /\ byte_range(c.coefficients, c.tap_count)
              /\ byte_range(c.output, OutputCount(c)))
    THEN "SIZE_OVERFLOW"
    ELSE IF OutputCollides(c)
    THEN "OVERLAPPING_OUTPUT"
    ELSE "OK"

----------------------------------------------------------------------------
\* Arithmetic.

\* Mutant: division that rounds down.
FloorQuotient(q30_value) == q30_value \div LANE

\* C's division rounds toward zero.
aymos_fir_q15_truncate(q30_value) ==
    IF q30_value >= 0 THEN q30_value \div LANE ELSE -((-q30_value) \div LANE)

aymos_fir_q15_saturate(q15_value) ==
    IF q15_value > LANE - 1 THEN LANE - 1
    ELSE IF q15_value < -LANE THEN -LANE
    ELSE q15_value

\* The conversion to uint16_t, and back.
Bits(lane) == lane % (2 * LANE)
signed_lane(bits) ==
    IF bits <= LANE - 1 THEN bits ELSE -1 - (2 * LANE - 1 - bits)

aymos_fir_q15_pack(low_lane, high_lane) ==
    Bits(low_lane) + Bits(high_lane) * (2 * LANE)

Low(pair) == signed_lane(pair % (2 * LANE))
High(pair) == signed_lane(pair \div (2 * LANE))

portable_pair_mac(sample_pair, coefficient_pair) ==
    Low(sample_pair) * Low(coefficient_pair)
      + High(sample_pair) * High(coefficient_pair)

\* Two instructions of the DSP extension: multiply-accumulate two lanes into
\* 64 bits, and saturate to 16.
SMLALD(sample_pair, coefficient_pair, accumulator) ==
    (accumulator + portable_pair_mac(sample_pair, coefficient_pair))
      % (2 * ACCUMULATOR)
SSAT(value) == Max({-LANE, Min({LANE - 1, value})})

signed_accumulator(value) ==
    IF value <= ACCUMULATOR - 1 THEN value
    ELSE -1 - (2 * ACCUMULATOR - 1 - value)

----------------------------------------------------------------------------
\* The loops over the taps, for the output at sample_index.

Sample(m, c, index) == m[c.samples + index * ELEMENT]
Coefficient(m, c, index) == m[c.coefficients + index * ELEMENT]

Product(m, c, sample_index, tap_index) ==
    Sample(m, c, sample_index + tap_index) * Coefficient(m, c, tap_index)

ScalarOutput(m, c, sample_index) ==
    aymos_fir_q15_saturate(aymos_fir_q15_truncate(
        MapThenSumSet(LAMBDA tap : Product(m, c, sample_index, tap),
                      0 .. c.tap_count - 1)))

\* The first taps of the pairs; an odd number of taps leaves one over.
Pairs(c) == {tap \in 0 .. c.tap_count - 1 :
                tap % 2 = 0 /\ tap + 1 < c.tap_count}

SamplePair(m, c, sample_index, tap) ==
    aymos_fir_q15_pack(Sample(m, c, sample_index + tap),
                       Sample(m, c, sample_index + tap + 1))
CoefficientPair(m, c, tap) ==
    aymos_fir_q15_pack(Coefficient(m, c, tap), Coefficient(m, c, tap + 1))

Tail(m, c, sample_index) ==
    IF c.tap_count % 2 = 0 THEN 0
    ELSE Product(m, c, sample_index, c.tap_count - 1)

PackedOutput(m, c, sample_index) ==
    aymos_fir_q15_saturate(aymos_fir_q15_truncate(
        MapThenSumSet(LAMBDA tap :
                          portable_pair_mac(SamplePair(m, c, sample_index, tap),
                                            CoefficientPair(m, c, tap)),
                      Pairs(c))
          + Tail(m, c, sample_index)))

M4Output(m, c, sample_index) ==
    LET paired == FoldSet(LAMBDA tap, accumulator :
                              SMLALD(SamplePair(m, c, sample_index, tap),
                                     CoefficientPair(m, c, tap), accumulator),
                          0, Pairs(c))
        accumulator == (paired + Tail(m, c, sample_index)) % (2 * ACCUMULATOR)
    IN SSAT(aymos_fir_q15_truncate(signed_accumulator(accumulator)))

----------------------------------------------------------------------------

VARIABLES
    memory, call, implementation,
    status,             \* "CALLED" until the arguments are validated
    sample_index,       \* outputs stored so far
    before              \* history: the memory at the call

vars == <<memory, call, implementation, status, sample_index, before>>

Init ==
    /\ \E input \in Inputs : memory = input.memory /\ call = input.call
    /\ implementation \in Implementations
    /\ status = "CALLED"
    /\ sample_index = 0
    /\ before = memory

Validate ==
    /\ status = "CALLED"
    /\ status' = aymos_fir_q15_validate(call)
    /\ UNCHANGED <<memory, call, implementation, sample_index, before>>

\* One turn of an implementation's outer loop.
StoreOutput(name, value) ==
    /\ implementation = name
    /\ status = "OK" /\ sample_index < OutputCount(call)
    /\ memory' = [memory EXCEPT
                    ![call.output + sample_index * ELEMENT] = value]
    /\ sample_index' = sample_index + 1
    /\ UNCHANGED <<call, implementation, status, before>>

aymos_fir_q15_scalar ==
    StoreOutput("scalar", ScalarOutput(memory, call, sample_index))

aymos_fir_q15_packed_portable ==
    StoreOutput("packed_portable", PackedOutput(memory, call, sample_index))

aymos_fir_q15_m4 ==
    StoreOutput("m4", M4Output(memory, call, sample_index))

Next == \/ Validate
        \/ aymos_fir_q15_scalar
        \/ aymos_fir_q15_packed_portable
        \/ aymos_fir_q15_m4

Spec == Init /\ [][Next]_vars

----------------------------------------------------------------------------

\* The bytes of an array, in unbounded arithmetic.
Bytes(pointer, count) == pointer .. pointer + count * ELEMENT - 1

\* A call that reads and writes inside its arrays only, none of which reaches
\* the end of the address space, and whose output is apart from its inputs.
SafeCall(c) ==
    LET inputs == Bytes(c.samples, c.sample_count)
                    \cup Bytes(c.coefficients, c.tap_count)
        outputs == Bytes(c.output, c.sample_count - c.tap_count + 1)
    IN
    /\ 0 \notin {c.samples, c.coefficients, c.output}
    /\ 1 <= c.tap_count /\ c.tap_count <= AYMOS_FIR_Q15_MAX_TAPS
    /\ c.tap_count <= c.sample_count
    /\ c.sample_count < c.tap_count + c.output_capacity
    /\ \A byte \in inputs \cup outputs : byte < UINTPTR_MAX
    /\ inputs \cap outputs = {}

\* aymos_fir_q15_validate accepts exactly the safe calls, also where sizes or
\* addresses reach the end of their range.
AcceptsExactly ==
    status # "CALLED" => (status = "OK" <=> SafeCall(call))

\* The output as a formula: the exact sum, rounded toward zero and clamped.
Reference(m, c, index) ==
    LET exact == MapThenSumSet(LAMBDA tap :
                     m[c.samples + (index + tap) * ELEMENT]
                       * m[c.coefficients + tap * ELEMENT],
                     0 .. c.tap_count - 1)
        magnitude == (IF exact < 0 THEN -exact ELSE exact) \div LANE
        rounded == IF exact < 0 THEN -magnitude ELSE magnitude
    IN CHOOSE lane \in Lanes :
           \A other \in Lanes : (lane - rounded) * (lane - rounded)
                                  <= (other - rounded) * (other - rounded)

\* The three implementations agree: whatever the lanes, the parity of the taps
\* and the place of the arrays, each stores the reference filter of the inputs
\* the call was made with, in its output only; a rejected call stores nothing.
OutputsExact ==
    \A a \in Addresses :
        LET index == (a - call.output) \div ELEMENT IN
        memory[a] = IF /\ status = "OK" /\ index \in 0 .. sample_index - 1
                       /\ a = call.output + index * ELEMENT
                    THEN Reference(before, call, index)
                    ELSE before[a]
=============================================================================
