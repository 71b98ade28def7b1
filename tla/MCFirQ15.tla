------------------------------ MODULE MCFirQ15 ------------------------------
(* Calls of the filters for TLC. *)
EXTENDS FirQ15

\* The extreme lanes, and ones whose products round.
SomeLanes == {-LANE, -LANE + 1, -1, 0, LANE - 1}

\* Every filter of three samples with one to three taps: all sums, roundings
\* and saturations, in arrays far apart.
FilterInputs ==
    UNION {
        {[memory |-> [a \in Addresses |-> IF a \in 2 .. 6 THEN s[a]
                                          ELSE IF a \in DOMAIN h THEN h[a]
                                          ELSE 0],
          call |-> [samples |-> 2, sample_count |-> 3, coefficients |-> 8,
                    tap_count |-> taps, output |-> 24,
                    output_capacity |-> 4 - taps]] :
            s \in [{2, 4, 6} -> SomeLanes],
            h \in [{8 + 2 * tap : tap \in 0 .. taps - 1} -> SomeLanes]} :
        taps \in 1 .. 3}

\* Arrays anywhere, also overlapping, with sizes at their limits.
LayoutInputs ==
    {[memory |-> [a \in Addresses |-> ((a \div 2) % (2 * LANE)) - LANE],
      call |-> c] :
        c \in [samples : {0, 2, 6, 8, 26, 30},
               sample_count : {0, 1, 3, 16},
               coefficients : {0, 2, 4, 10, 28},
               tap_count : {0, 1, 2, 3, 4},
               output : {0, 2, 6, 8, 10, 28, 30},
               output_capacity : {0, 1, 3}]}

AllInputs == FilterInputs \cup LayoutInputs
=============================================================================
