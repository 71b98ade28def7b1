----------------------------- MODULE TraceProofs -----------------------------
(***************************************************************************)
(* The trace ring, for any capacity, batch size and counter width: what is *)
(* accepted is in order, batches stay whole, every attempt is accounted    *)
(* for, loss reports are exact, and the circular buffer is a bounded log.  *)
(* And the end of a trace: what the host decoder accepts is the whole of   *)
(* it, and what lost nothing is accepted, wherever the UART fails.         *)
(***************************************************************************)
EXTENDS TraceRuntime, SequenceTheorems, TLAPS

----------------------------------------------------------------------------
\* Positions in the circular buffer.

\* The remainder of what is in range is itself.
LEMMA ModSmall ==
    ASSUME NEW c \in Nat \ {0}, NEW a \in 0 .. c - 1
    PROVE  a % c = a
  OBVIOUS

\* The remainder of one wrap too far is what is over.
LEMMA ModOver ==
    ASSUME NEW c \in Nat \ {0}, NEW a \in c .. 2 * c - 1
    PROVE  a % c = a - c
  OBVIOUS

\* The remainder of one wrap too short is what is missing from the end.
LEMMA ModUnder ==
    ASSUME NEW c \in Nat \ {0}, NEW a \in -c .. -1
    PROVE  a % c = a + c
  OBVIOUS

\* A remainder is in range.
LEMMA ModRange ==
    ASSUME NEW c \in Nat \ {0}, NEW a \in Int
    PROVE  a % c \in 0 .. c - 1
  OBVIOUS

\* The slot n places after slot.
Ahead(slot, n) == (slot + n) % Capacity

\* Going ahead wraps at most once.
LEMMA AheadValue ==
    ASSUME NEW slot \in Slots, NEW n \in 0 .. Capacity
    PROVE  /\ Ahead(slot, n) \in Slots
           /\ Ahead(slot, n) = IF slot + n < Capacity THEN slot + n
                               ELSE slot + n - Capacity
  <1>1. Capacity \in Nat \ {0} /\ slot \in 0 .. Capacity - 1
    BY TraceConstants DEF Slots
  <1>2. CASE slot + n < Capacity
    BY <1>1, <1>2, ModSmall DEF Ahead, Slots
  <1>3. CASE slot + n >= Capacity
    <2> DEFINE sum == slot + n
    <2>1. sum \in Capacity .. 2 * Capacity - 1
      BY <1>1, <1>3
    <2>2. sum % Capacity = sum - Capacity
      <3> HIDE DEF sum
      <3> QED BY <1>1, <2>1, ModOver
    <2>3. sum - Capacity \in 0 .. Capacity - 1 /\ ~(sum < Capacity)
      BY <1>1, <1>3
    <2>4. Ahead(slot, n) = sum - Capacity
      BY <2>2 DEF Ahead
    <2> QED BY <1>1, <2>3, <2>4 DEF Slots
  <1> QED BY <1>1, <1>2, <1>3

\* Going ahead in two parts is going ahead by their sum.
LEMMA AheadTwice ==
    ASSUME NEW slot \in Slots, NEW m \in Nat, NEW n \in Nat, m + n <= Capacity
    PROVE  Ahead(Ahead(slot, m), n) = Ahead(slot, m + n)
  <1>1. /\ Capacity \in Nat /\ slot \in 0 .. Capacity - 1
        /\ m \in 0 .. Capacity /\ n \in 0 .. Capacity
        /\ m + n \in 0 .. Capacity
    BY TraceConstants DEF Slots
  <1>2. /\ Ahead(slot, m) \in Slots
        /\ Ahead(slot, m) = IF slot + m < Capacity THEN slot + m
                            ELSE slot + m - Capacity
    BY <1>1, AheadValue
  <1>3. Ahead(Ahead(slot, m), n)
          = IF Ahead(slot, m) + n < Capacity THEN Ahead(slot, m) + n
            ELSE Ahead(slot, m) + n - Capacity
    BY <1>1, <1>2, AheadValue
  <1>4. Ahead(slot, m + n)
          = IF slot + (m + n) < Capacity THEN slot + (m + n)
            ELSE slot + (m + n) - Capacity
    BY <1>1, AheadValue
  <1> QED BY <1>1, <1>2, <1>3, <1>4

\* How far one slot is behind another: n places, counted from the slot m
\* places after the same one.
LEMMA Distance ==
    ASSUME NEW slot \in Slots, NEW m \in 0 .. Capacity,
           NEW n \in 0 .. Capacity - 1
    PROVE  (Ahead(slot, n) - Ahead(slot, m)) % Capacity
             = IF m <= n THEN n - m ELSE n - m + Capacity
  <1>1. Capacity \in Nat \ {0} /\ slot \in 0 .. Capacity - 1
    BY TraceConstants DEF Slots
  <1>2. /\ Ahead(slot, m) = IF slot + m < Capacity THEN slot + m
                            ELSE slot + m - Capacity
        /\ Ahead(slot, n) = IF slot + n < Capacity THEN slot + n
                            ELSE slot + n - Capacity
    BY <1>1, AheadValue
  <1> DEFINE d == Ahead(slot, n) - Ahead(slot, m)
  <1>3. \/ d = n - m
        \/ d = n - m + Capacity /\ m > n
        \/ d = n - m - Capacity /\ m <= n
    BY <1>1, <1>2
  <1> HIDE DEF d
  <1>4. CASE d \in 0 .. Capacity - 1
    BY <1>1, <1>3, <1>4, ModSmall DEF d
  <1>5. CASE d \in -Capacity .. -1
    BY <1>1, <1>3, <1>5, ModUnder DEF d
  <1>6. d \in Int /\ d \in -Capacity .. Capacity - 1
    BY <1>1, <1>2 DEF d
  <1> QED BY <1>1, <1>4, <1>5, <1>6

----------------------------------------------------------------------------
\* The ring of trace.c.

Reports == [dropped : Counts, attempted : Counts, emitted : Counts]

Rings ==
    [records : [Slots -> Record], read_index : Slots, write_index : Slots,
     count : 0 .. Capacity, next_sequence : Counts, attempted : Counts,
     emitted : Counts, dropped : Counts, reported_dropped : Counts,
     enabled : BOOLEAN, sequence_exhausted : BOOLEAN]

\* Between the read and the write index there are count records.
Linked(r) == r.write_index = Ahead(r.read_index, r.count)

\* The i-th unread record, and the k-th of a batch numbered from first on.
At(r, i) == r.records[Ahead(r.read_index, i - 1)]

Item(first, k, event, report, count) ==
    [sequence |-> first + k - 1, event |-> event, first |-> first,
     size |-> count, report |-> report]

\* The constants as numbers, and what the ranges of the counters hold.
LEMMA TraceNumbers ==
    /\ Capacity \in Nat \ {0} /\ UINT32_MAX \in Nat \ {0}
    /\ OS_TRACE_MAX_BATCH_RECORDS \in Nat \ {0}
    /\ \A n : n \in Counts <=> n \in Nat /\ n <= UINT32_MAX
    /\ \A n \in Batches : n \in Nat \ {0}
    /\ Batches \subseteq Counts
  BY TraceConstants DEF Counts, Batches

\* A saturating addition stays in range, does not decrease, and is exact when
\* it fits.
LEMMA AddType ==
    ASSUME NEW value \in Counts, NEW count \in Batches
    PROVE  /\ AddSaturating(value, count) \in Counts
           /\ value <= AddSaturating(value, count)
           /\ value + count <= UINT32_MAX =>
                AddSaturating(value, count) = value + count
  BY TraceNumbers DEF AddSaturating

\* The numbers a batch takes fit; the next one is 0 when they were the last.
LEMMA NumbersFit ==
    ASSUME NEW r \in Rings, NEW count \in Batches, ~SequenceRunsOut(r, count)
    PROVE  LET following == (r.next_sequence + count) % (UINT32_MAX + 1) IN
           /\ r.next_sequence + count - 1 <= UINT32_MAX
           /\ following \in Counts
           /\ following # 0 => following = r.next_sequence + count
           /\ following = 0 <=> r.next_sequence + count = UINT32_MAX + 1
  <1> DEFINE sum == r.next_sequence + count
  <1>1. /\ r.next_sequence \in Nat /\ count \in Nat \ {0}
        /\ UINT32_MAX \in Nat /\ count <= UINT32_MAX
        /\ r.next_sequence <= UINT32_MAX
    BY TraceNumbers DEF Rings
  <1>2. r.next_sequence <= UINT32_MAX - (count - 1)
    BY <1>1 DEF SequenceRunsOut
  <1>3. sum \in 1 .. UINT32_MAX + 1
    BY <1>1, <1>2
  <1>4. CASE sum <= UINT32_MAX
    <2>1. sum \in 0 .. (UINT32_MAX + 1) - 1 /\ UINT32_MAX + 1 \in Nat \ {0}
      BY <1>1, <1>3, <1>4
    <2> HIDE DEF sum
    <2>2. sum % (UINT32_MAX + 1) = sum
      BY <2>1, ModSmall
    <2> QED BY <1>1, <1>3, <1>4, <2>2, TraceNumbers DEF sum
  <1>5. CASE sum = UINT32_MAX + 1
    <2>1. sum % (UINT32_MAX + 1) = 0
      BY <1>1, <1>5
    <2> QED BY <1>1, <1>5, <2>1, TraceNumbers DEF sum
  <1> QED BY <1>1, <1>3, <1>4, <1>5

\* A push that is stored appends its batch and keeps what is unread.
LEMMA StoredEffect ==
    ASSUME NEW r \in Rings, Linked(r), NEW count \in Batches,
           NEW event \in {"EVENT", "OVERFLOW"}, NEW report \in Reports,
           ~SequenceRunsOut(r, count), Fits(r, count)
    PROVE  LET s == Stored(r, event, report, count) IN
           /\ s \in Rings /\ Linked(s)
           /\ s.count = r.count + count
           /\ \A i \in 1 .. r.count : At(s, i) = At(r, i)
           /\ \A k \in 1 .. count :
                 At(s, r.count + k)
                   = Item(r.next_sequence, k, event, report, count)
           /\ s.attempted = AddSaturating(r.attempted, count)
           /\ s.emitted = AddSaturating(r.emitted, count)
           /\ s.dropped = r.dropped
           /\ s.reported_dropped = r.reported_dropped
           /\ s.enabled = r.enabled
           /\ s.next_sequence
                = (r.next_sequence + count) % (UINT32_MAX + 1)
           /\ s.sequence_exhausted <=> s.next_sequence = 0
  <1> DEFINE following == (r.next_sequence + count) % (UINT32_MAX + 1)
             gap(slot) == (slot - r.write_index) % Capacity
             written == [slot \in Slots |->
                           IF gap(slot) < count
                           THEN Written(r, event, report, count, slot)
                           ELSE r.records[slot]]
             s == Stored(r, event, report, count)
  <1>1. /\ Capacity \in Nat \ {0} /\ count \in Nat \ {0}
        /\ r.count \in 0 .. Capacity /\ r.count + count <= Capacity
        /\ r.read_index \in Slots /\ r.write_index \in Slots
        /\ r.records \in [Slots -> Record]
        /\ r.next_sequence \in Nat
        /\ ~r.sequence_exhausted
    BY TraceNumbers DEF Rings, Fits, SequenceRunsOut
  <1>2. /\ s.records = written
        /\ s.read_index = r.read_index
        /\ s.write_index = Ahead(r.write_index, count)
        /\ s.count = r.count + count
        /\ s.next_sequence = following
        /\ s.attempted = AddSaturating(r.attempted, count)
        /\ s.emitted = AddSaturating(r.emitted, count)
        /\ s.dropped = r.dropped
        /\ s.reported_dropped = r.reported_dropped
        /\ s.enabled = r.enabled
        /\ s.sequence_exhausted = (r.sequence_exhausted \/ following = 0)
    BY DEF Stored, Numbered, Rings, Ahead
  <1>3. ASSUME NEW slot \in Slots
        PROVE  /\ gap(slot) \in 0 .. Capacity - 1
               /\ gap(slot) < count =>
                    Written(r, event, report, count, slot) \in Record
    <2>1. slot - r.write_index \in Int
      BY <1>1 DEF Slots
    <2>2. gap(slot) \in 0 .. Capacity - 1
      <3> DEFINE d == slot - r.write_index
      <3>1. d \in Int
        BY <2>1
      <3> HIDE DEF d
      <3>2. d % Capacity \in 0 .. Capacity - 1
        BY <1>1, <3>1, ModRange
      <3> QED BY <3>2 DEF d
    <2>3. r.next_sequence + count - 1 <= UINT32_MAX
      BY NumbersFit
    <2>4. gap(slot) < count => r.next_sequence + gap(slot) \in Counts
      <3> HIDE DEF gap
      <3> QED BY <1>1, <2>2, <2>3, TraceNumbers
    <2>5. r.next_sequence \in Counts
      BY DEF Rings
    <2>6. Written(r, event, report, count, slot)
            = [sequence |-> r.next_sequence + gap(slot), event |-> event,
               first |-> r.next_sequence, size |-> count, report |-> report]
      BY DEF Written
    <2> HIDE DEF gap
    <2> QED BY <2>2, <2>4, <2>5, <2>6 DEF Record, Reports
  <1>4. written \in [Slots -> Record]
    <2>1. \A slot \in Slots :
             (IF gap(slot) < count
              THEN Written(r, event, report, count, slot)
              ELSE r.records[slot]) \in Record
      <3> HIDE DEF gap
      <3> QED BY <1>1, <1>3
    <2> HIDE DEF gap
    <2> QED BY <2>1
  <1>5. s \in Rings
    <2> DEFINE W == Ahead(r.write_index, count)
               A == AddSaturating(r.attempted, count)
               E == AddSaturating(r.emitted, count)
               X == r.sequence_exhausted \/ following = 0
               numbered == Numbered(r, count)
    <2>1. numbered = [r EXCEPT !.attempted = A, !.next_sequence = following,
                               !.sequence_exhausted = X]
      BY DEF Numbered
    <2>2. W \in Slots
      BY <1>1, AheadValue
    <2>3. A \in Counts /\ E \in Counts
      BY AddType DEF Rings
    <2>4. following \in Counts
      BY NumbersFit
    <2>5. r.count + count \in 0 .. Capacity
      BY <1>1
    <2>6. X \in BOOLEAN
      OBVIOUS
    <2>7. s = [numbered EXCEPT
                 !.records = [slot \in Slots |->
                                IF (slot - r.write_index) % Capacity < count
                                THEN Written(r, event, report, count, slot)
                                ELSE @[slot]],
                 !.write_index = (@ + count) % Capacity,
                 !.count = @ + count,
                 !.emitted = AddSaturating(@, count)]
      BY DEF Stored
    <2> HIDE DEF W, A, E, X, following, numbered
    <2>8. /\ numbered \in Rings
          /\ numbered.records = r.records /\ numbered.count = r.count
          /\ numbered.write_index = r.write_index
          /\ numbered.emitted = r.emitted
      BY <2>1, <2>3, <2>4, <2>6 DEF Rings
    <2>9. s = [numbered EXCEPT !.records = written, !.write_index = W,
                               !.count = r.count + count, !.emitted = E]
      BY <2>7, <2>8 DEF W, E, Ahead
    <2> HIDE DEF written, s
    <2> QED BY <1>4, <2>2, <2>3, <2>5, <2>8, <2>9 DEF Rings
  <1>6. Linked(s)
    <2>1. s.write_index = Ahead(Ahead(r.read_index, r.count), count)
      BY <1>2 DEF Linked
    <2>2. Ahead(Ahead(r.read_index, r.count), count)
            = Ahead(r.read_index, r.count + count)
      BY <1>1, AheadTwice
    <2> QED BY <1>2, <2>1, <2>2 DEF Linked
  <1>7. ASSUME NEW i \in 1 .. r.count PROVE At(s, i) = At(r, i)
    <2>1. /\ r.count \in 0 .. Capacity /\ i - 1 \in 0 .. Capacity - 1
          /\ ~(r.count <= i - 1) /\ i - 1 \in 0 .. Capacity
      BY <1>1
    <2>2. /\ Ahead(r.read_index, i - 1) \in Slots
          /\ gap(Ahead(r.read_index, i - 1)) = i - 1 - r.count + Capacity
      BY <1>1, <2>1, AheadValue, Distance DEF Linked
    <2>3. ~(i - 1 - r.count + Capacity < count)
      BY <1>1
    <2>4. written[Ahead(r.read_index, i - 1)]
            = r.records[Ahead(r.read_index, i - 1)]
      <3> HIDE DEF gap
      <3> QED BY <2>2, <2>3
    <2> QED BY <1>2, <2>4 DEF At
  <1>8. ASSUME NEW k \in 1 .. count
        PROVE  At(s, r.count + k)
                 = Item(r.next_sequence, k, event, report, count)
    <2> DEFINE n == r.count + k - 1
    <2>1. /\ n \in 0 .. Capacity - 1 /\ n \in 0 .. Capacity
          /\ r.count <= n /\ n - r.count = k - 1
          /\ k - 1 < count
      BY <1>1
    <2> HIDE DEF n
    <2>2. /\ Ahead(r.read_index, n) \in Slots
          /\ gap(Ahead(r.read_index, n)) = k - 1
      BY <1>1, <2>1, AheadValue, Distance DEF Linked
    <2>3. written[Ahead(r.read_index, n)]
            = Written(r, event, report, count, Ahead(r.read_index, n))
      <3> HIDE DEF gap
      <3> QED BY <2>1, <2>2
    <2>4. Written(r, event, report, count, Ahead(r.read_index, n))
            = Item(r.next_sequence, k, event, report, count)
      <3>1. r.next_sequence + (k - 1) = r.next_sequence + k - 1
        BY <1>1
      <3> QED BY <2>2, <3>1 DEF Written, Item
    <2>5. At(s, r.count + k) = s.records[Ahead(s.read_index, n)]
      <3> HIDE DEF s
      <3>1. (r.count + k) - 1 = n
        BY <1>1 DEF n
      <3> QED BY <3>1 DEF At
    <2>6. s.records = written /\ s.read_index = r.read_index
      BY <1>2
    <2> HIDE DEF written, s
    <2> QED BY <2>3, <2>4, <2>5, <2>6
  <1>9. s.sequence_exhausted <=> s.next_sequence = 0
    BY <1>1, <1>2
  <1> HIDE DEF s
  <1> QED BY <1>2, <1>5, <1>6, <1>7, <1>8, <1>9 DEF s

----------------------------------------------------------------------------
\* What is unread, and the whole history.

History(rd, r) == rd \o Unread(r)

\* T is S with the batch of count numbered from first on after it.
Appended(S, T, first, count, event, report) ==
    /\ S \in Seq(Record) /\ T \in Seq(Record)
    /\ Len(T) = Len(S) + count
    /\ \A i \in 1 .. Len(S) : T[i] = S[i]
    /\ \A k \in 1 .. count :
          T[Len(S) + k] = Item(first, k, event, report, count)

\* The unread records are count, At(r, i) the i-th of them.
LEMMA UnreadItems ==
    ASSUME NEW r \in Rings
    PROVE  /\ Unread(r) \in Seq(Record)
           /\ Len(Unread(r)) = r.count
           /\ \A i \in 1 .. r.count : Unread(r)[i] = At(r, i)
  <1>1. /\ Capacity \in Nat \ {0} /\ r.count \in 0 .. Capacity
        /\ r.read_index \in Slots /\ r.read_index \in Nat
        /\ r.records \in [Slots -> Record]
    BY TraceNumbers DEF Rings, Slots
  <1>2. ASSUME NEW i \in 1 .. r.count
        PROVE  /\ r.records[(r.read_index + i - 1) % Capacity] = At(r, i)
               /\ At(r, i) \in Record
    <2>1. i - 1 \in 0 .. Capacity
      BY <1>1
    <2>2. Ahead(r.read_index, i - 1) \in Slots
      BY <1>1, <2>1, AheadValue
    <2>3. r.read_index + i - 1 = r.read_index + (i - 1)
      BY <1>1
    <2> QED BY <1>1, <2>2, <2>3 DEF At, Ahead
  <1>3. Unread(r) = [i \in 1 .. r.count |-> At(r, i)]
    BY <1>2 DEF Unread
  <1>4. Unread(r) \in [1 .. r.count -> Record] /\ r.count \in Nat
    BY <1>1, <1>2, <1>3
  <1>5. Unread(r) \in Seq(Record) /\ Len(Unread(r)) = r.count
    BY <1>4
  <1> QED BY <1>3, <1>5

\* The history is what was read and then what is unread.
LEMMA HistoryItems ==
    ASSUME NEW r \in Rings, NEW rd \in Seq(Record)
    PROVE  /\ History(rd, r) \in Seq(Record)
           /\ Len(History(rd, r)) = Len(rd) + r.count
           /\ \A i \in 1 .. Len(rd) : History(rd, r)[i] = rd[i]
           /\ \A i \in 1 .. r.count : History(rd, r)[Len(rd) + i] = At(r, i)
  <1>1. /\ Unread(r) \in Seq(Record) /\ Len(Unread(r)) = r.count
        /\ \A i \in 1 .. r.count : Unread(r)[i] = At(r, i)
        /\ r.count \in Nat /\ Len(rd) \in Nat
    BY UnreadItems, LenProperties, TraceNumbers DEF Rings
  <1>2. /\ rd \o Unread(r) \in Seq(Record)
        /\ Len(rd \o Unread(r)) = Len(rd) + r.count
        /\ \A i \in 1 .. Len(rd) + r.count :
              (rd \o Unread(r))[i]
                = IF i <= Len(rd) THEN rd[i] ELSE Unread(r)[i - Len(rd)]
    <2> DEFINE U == Unread(r)
    <2>1. U \in Seq(Record) /\ Len(U) = r.count
      BY <1>1
    <2> HIDE DEF U
    <2>2. /\ rd \o U \in Seq(Record)
          /\ Len(rd \o U) = Len(rd) + Len(U)
          /\ \A i \in 1 .. Len(rd) + Len(U) :
                (rd \o U)[i] = IF i <= Len(rd) THEN rd[i] ELSE U[i - Len(rd)]
      BY <2>1, ConcatProperties
    <2>3. /\ rd \o U \in Seq(Record)
          /\ Len(rd \o U) = Len(rd) + r.count
          /\ \A i \in 1 .. Len(rd) + r.count :
                (rd \o U)[i] = IF i <= Len(rd) THEN rd[i] ELSE U[i - Len(rd)]
      BY <2>1, <2>2
    <2> QED BY <2>3 DEF U
  <1>3. ASSUME NEW i \in 1 .. r.count
        PROVE  (rd \o Unread(r))[Len(rd) + i] = At(r, i)
    <2>1. /\ Len(rd) + i \in 1 .. Len(rd) + r.count
          /\ ~(Len(rd) + i <= Len(rd)) /\ (Len(rd) + i) - Len(rd) = i
      BY <1>1
    <2> QED BY <1>1, <1>2, <2>1
  <1>4. ASSUME NEW i \in 1 .. Len(rd)
        PROVE  (rd \o Unread(r))[i] = rd[i]
    BY <1>1, <1>2
  <1> QED BY <1>2, <1>3, <1>4 DEF History

\* What is appended to the unread records is appended to the history.
LEMMA HistoryGrows ==
    ASSUME NEW r \in Rings, NEW s \in Rings, NEW rd \in Seq(Record),
           NEW first, NEW count \in Nat, NEW event, NEW report,
           Appended(Unread(r), Unread(s), first, count, event, report)
    PROVE  Appended(History(rd, r), History(rd, s), first, count, event,
                    report)
  <1>1. /\ Len(Unread(r)) = r.count /\ Len(Unread(s)) = s.count
        /\ \A i \in 1 .. r.count : Unread(r)[i] = At(r, i)
        /\ \A i \in 1 .. s.count : Unread(s)[i] = At(s, i)
        /\ r.count \in Nat /\ s.count \in Nat /\ Len(rd) \in Nat
    <2>1. Len(Unread(r)) = r.count /\ \A i \in 1 .. r.count :
                                         Unread(r)[i] = At(r, i)
      BY UnreadItems
    <2>2. Len(Unread(s)) = s.count /\ \A i \in 1 .. s.count :
                                         Unread(s)[i] = At(s, i)
      BY UnreadItems
    <2>3. r.count \in 0 .. Capacity /\ s.count \in 0 .. Capacity
      BY DEF Rings
    <2>4. r.count \in Nat /\ s.count \in Nat
      BY <2>3, TraceNumbers
    <2>5. Len(rd) \in Nat
      BY LenProperties
    <2> QED BY <2>1, <2>2, <2>4, <2>5
  <1>2. /\ s.count = r.count + count
        /\ \A i \in 1 .. r.count : At(s, i) = At(r, i)
        /\ \A k \in 1 .. count :
              At(s, r.count + k) = Item(first, k, event, report, count)
    <2>1. s.count = r.count + count
      BY <1>1 DEF Appended
    <2>2. ASSUME NEW i \in 1 .. r.count PROVE At(s, i) = At(r, i)
      <3>1. i \in 1 .. s.count
        BY <1>1, <2>1
      <3>2. Unread(s)[i] = Unread(r)[i]
        BY <1>1 DEF Appended
      <3> QED BY <1>1, <3>1, <3>2
    <2>3. ASSUME NEW k \in 1 .. count
          PROVE  At(s, r.count + k) = Item(first, k, event, report, count)
      <3>1. r.count + k \in 1 .. s.count
        BY <1>1, <2>1
      <3> QED BY <1>1, <3>1 DEF Appended
    <2> QED BY <2>1, <2>2, <2>3
  <1> DEFINE S == History(rd, r)
             T == History(rd, s)
  <1>3. /\ S \in Seq(Record) /\ T \in Seq(Record)
        /\ Len(S) = Len(rd) + r.count /\ Len(T) = Len(rd) + s.count
        /\ \A i \in 1 .. Len(rd) : S[i] = rd[i] /\ T[i] = rd[i]
        /\ \A i \in 1 .. r.count : S[Len(rd) + i] = At(r, i)
        /\ \A i \in 1 .. s.count : T[Len(rd) + i] = At(s, i)
    BY HistoryItems
  <1> HIDE DEF S, T
  <1>4. Len(T) = Len(S) + count
    BY <1>1, <1>2, <1>3
  <1>5. ASSUME NEW i \in 1 .. Len(S) PROVE T[i] = S[i]
    <2>1. CASE i \in 1 .. Len(rd)
      BY <1>3, <2>1
    <2>2. CASE i > Len(rd)
      <3> DEFINE j == i - Len(rd)
      <3>1. j \in 1 .. r.count /\ j \in 1 .. s.count /\ i = Len(rd) + j
        BY <1>1, <1>2, <1>3, <2>2
      <3> HIDE DEF j
      <3> QED BY <1>2, <1>3, <3>1
    <2> QED BY <1>1, <1>3, <2>1, <2>2
  <1>6. ASSUME NEW k \in 1 .. count
        PROVE  T[Len(S) + k] = Item(first, k, event, report, count)
    <2>1. /\ r.count + k \in 1 .. s.count
          /\ Len(S) + k = Len(rd) + (r.count + k)
      <3>1. /\ s.count = r.count + count /\ Len(S) = Len(rd) + r.count
            /\ r.count \in Nat /\ Len(rd) \in Nat
        BY <1>1, <1>2, <1>3
      <3> QED BY <3>1
    <2> QED BY <1>2, <1>3, <2>1
  <1> QED BY <1>3, <1>4, <1>5, <1>6 DEF Appended, S, T

----------------------------------------------------------------------------
\* push_batch, in three outcomes: refused, accepted, lost.

\* The next sequence number, UINT32_MAX + 1 once they are out.
Number(r) == IF r.sequence_exhausted THEN UINT32_MAX + 1 ELSE r.next_sequence

\* A push of count from r to s spends an attempt and numbers either way.
Spent(r, s, count) ==
    /\ s \in Rings /\ Linked(s)
    /\ s.attempted = AddSaturating(r.attempted, count)
    /\ s.reported_dropped = r.reported_dropped
    /\ s.enabled = r.enabled
    /\ Number(s) = IF SequenceRunsOut(r, count) THEN UINT32_MAX + 1
                   ELSE r.next_sequence + count

Accepting(r, s, event, report, count) ==
    /\ Spent(r, s, count)
    /\ ~SequenceRunsOut(r, count) /\ Fits(r, count)
    /\ Appended(Unread(r), Unread(s), r.next_sequence, count, event, report)
    /\ s.emitted = AddSaturating(r.emitted, count)
    /\ s.dropped = r.dropped

Losing(r, s, count) ==
    /\ Spent(r, s, count)
    /\ SequenceRunsOut(r, count) \/ ~Fits(r, count)
    /\ Unread(s) = Unread(r)
    /\ s.emitted = r.emitted
    /\ s.dropped = AddSaturating(r.dropped, count)

\* A ring is out of numbers exactly when its number is past the last.
LEMMA NumberRange ==
    ASSUME NEW r \in Rings
    PROVE  /\ Number(r) \in Nat /\ Number(r) <= UINT32_MAX + 1
           /\ ~r.sequence_exhausted <=> Number(r) <= UINT32_MAX
           /\ ~r.sequence_exhausted => Number(r) = r.next_sequence
           /\ \A count \in Batches :
                 SequenceRunsOut(r, count)
                   <=> ~(Number(r) <= UINT32_MAX - (count - 1))
  <1>1. /\ r.next_sequence \in Nat /\ r.next_sequence <= UINT32_MAX
        /\ UINT32_MAX \in Nat /\ r.sequence_exhausted \in BOOLEAN
        /\ \A count \in Batches : count \in Nat \ {0}
    BY TraceNumbers DEF Rings
  <1>2. CASE r.sequence_exhausted
    BY <1>1, <1>2 DEF Number, SequenceRunsOut
  <1>3. CASE ~r.sequence_exhausted
    BY <1>1, <1>3 DEF Number, SequenceRunsOut
  <1> QED BY <1>2, <1>3

\* A push with numbers and room left is accepted.
LEMMA AcceptedPush ==
    ASSUME NEW r \in Rings, Linked(r), NEW count \in Batches,
           NEW event \in {"EVENT", "OVERFLOW"}, NEW report \in Reports,
           ~SequenceRunsOut(r, count), Fits(r, count)
    PROVE  Accepting(r, Stored(r, event, report, count), event, report, count)
  <1> DEFINE s == Stored(r, event, report, count)
  <1>1. /\ s \in Rings /\ Linked(s)
        /\ s.count = r.count + count
        /\ \A i \in 1 .. r.count : At(s, i) = At(r, i)
        /\ \A k \in 1 .. count :
              At(s, r.count + k)
                = Item(r.next_sequence, k, event, report, count)
        /\ s.attempted = AddSaturating(r.attempted, count)
        /\ s.emitted = AddSaturating(r.emitted, count)
        /\ s.dropped = r.dropped
        /\ s.reported_dropped = r.reported_dropped
        /\ s.enabled = r.enabled
        /\ s.next_sequence = (r.next_sequence + count) % (UINT32_MAX + 1)
        /\ s.sequence_exhausted <=> s.next_sequence = 0
    BY StoredEffect
  <1> HIDE DEF s
  <1>2. Number(s) = r.next_sequence + count
    <2> DEFINE following == (r.next_sequence + count) % (UINT32_MAX + 1)
    <2>1. /\ following # 0 => following = r.next_sequence + count
          /\ following = 0 <=> r.next_sequence + count = UINT32_MAX + 1
      BY NumbersFit
    <2>2. s.next_sequence = following /\ s.sequence_exhausted \in BOOLEAN
      BY <1>1 DEF Rings
    <2> HIDE DEF following
    <2> QED BY <1>1, <2>1, <2>2 DEF Number
  <1>3. Spent(r, s, count)
    BY <1>1, <1>2 DEF Spent
  <1>4. Appended(Unread(r), Unread(s), r.next_sequence, count, event, report)
    <2>1. /\ Unread(r) \in Seq(Record) /\ Unread(s) \in Seq(Record)
          /\ Len(Unread(r)) = r.count /\ Len(Unread(s)) = s.count
      BY <1>1, UnreadItems
    <2>2. /\ \A i \in 1 .. r.count : Unread(r)[i] = At(r, i)
          /\ \A i \in 1 .. s.count : Unread(s)[i] = At(s, i)
      BY <1>1, UnreadItems
    <2>3. /\ s.count = r.count + count
          /\ r.count \in Nat /\ count \in Nat
      BY <1>1, TraceNumbers DEF Rings
    <2>4. ASSUME NEW i \in 1 .. r.count PROVE Unread(s)[i] = Unread(r)[i]
      <3>1. i \in 1 .. s.count
        BY <2>3
      <3> QED BY <1>1, <2>2, <3>1
    <2>5. ASSUME NEW k \in 1 .. count
          PROVE  Unread(s)[r.count + k]
                   = Item(r.next_sequence, k, event, report, count)
      <3>1. r.count + k \in 1 .. s.count
        BY <2>3
      <3> QED BY <1>1, <2>2, <3>1
    <2> QED BY <2>1, <2>3, <2>4, <2>5 DEF Appended
  <1> QED BY <1>1, <1>3, <1>4 DEF Accepting, s

\* The counters of a lost batch, whether or not its numbers were left.
LEMMA LostPush ==
    ASSUME NEW r \in Rings, Linked(r), NEW count \in Batches,
           SequenceRunsOut(r, count) \/ ~Fits(r, count),
           NEW s,
           s = IF SequenceRunsOut(r, count)
               THEN [r EXCEPT !.sequence_exhausted = TRUE,
                              !.attempted = AddSaturating(@, count),
                              !.dropped = AddSaturating(@, count)]
               ELSE [Numbered(r, count) EXCEPT
                        !.dropped = AddSaturating(@, count)]
    PROVE  Losing(r, s, count)
  <1> DEFINE A == AddSaturating(r.attempted, count)
             D == AddSaturating(r.dropped, count)
             following == (r.next_sequence + count) % (UINT32_MAX + 1)
             out == r.sequence_exhausted \/ following = 0
  <1>1. A \in Counts /\ D \in Counts
    BY AddType DEF Rings
  <1>2. CASE SequenceRunsOut(r, count)
    <2>1. s = [r EXCEPT !.sequence_exhausted = TRUE,
                        !.attempted = A, !.dropped = D]
      BY <1>2
    <2> HIDE DEF A, D
    <2>2. /\ s \in Rings
          /\ s.records = r.records /\ s.read_index = r.read_index
          /\ s.write_index = r.write_index /\ s.count = r.count
          /\ s.emitted = r.emitted /\ s.enabled = r.enabled
          /\ s.reported_dropped = r.reported_dropped
          /\ s.attempted = A /\ s.dropped = D /\ s.sequence_exhausted = TRUE
      BY <1>1, <2>1 DEF Rings
    <2> QED BY <1>2, <2>2 DEF Losing, Spent, Number, Linked, Unread, A, D
  <1>3. CASE ~SequenceRunsOut(r, count)
    <2>1. s = [r EXCEPT !.attempted = A, !.next_sequence = following,
                        !.sequence_exhausted = out, !.dropped = D]
      BY <1>3 DEF Numbered, Rings
    <2>2. /\ following \in Counts
          /\ following # 0 => following = r.next_sequence + count
          /\ following = 0 <=> r.next_sequence + count = UINT32_MAX + 1
          /\ ~r.sequence_exhausted
      BY <1>3, NumbersFit DEF SequenceRunsOut
    <2>3. out \in BOOLEAN /\ (out <=> following = 0)
      BY <2>2
    <2> HIDE DEF A, D, following, out
    <2>4. /\ s \in Rings
          /\ s.records = r.records /\ s.read_index = r.read_index
          /\ s.write_index = r.write_index /\ s.count = r.count
          /\ s.emitted = r.emitted /\ s.enabled = r.enabled
          /\ s.reported_dropped = r.reported_dropped
          /\ s.attempted = A /\ s.dropped = D
          /\ s.sequence_exhausted = out /\ s.next_sequence = following
      BY <1>1, <2>1, <2>2, <2>3 DEF Rings
    <2>5. Number(s) = r.next_sequence + count
      BY <2>2, <2>3, <2>4 DEF Number
    <2> QED BY <1>3, <2>4, <2>5 DEF Losing, Spent, Linked, Unread, A, D
  <1> QED BY <1>2, <1>3

\* A push is refused, accepted or lost, and nothing else.
LEMMA PushEffect ==
    ASSUME NEW r \in Rings, Linked(r), NEW count \in Batches,
           NEW event \in {"EVENT", "OVERFLOW"}, NEW report \in Reports
    PROVE  LET s == push_batch(r, event, report, count) IN
           \/ ~PushAllowed(r, count) /\ s = r
           \/ PushAllowed(r, count) /\ Accepting(r, s, event, report, count)
           \/ PushAllowed(r, count) /\ Losing(r, s, count)
  <1> DEFINE s == push_batch(r, event, report, count)
  <1>1. CASE ~PushAllowed(r, count)
    BY <1>1 DEF push_batch
  <1>2. CASE PushAllowed(r, count) /\ SequenceRunsOut(r, count)
    <2>1. s = [r EXCEPT !.sequence_exhausted = TRUE,
                        !.attempted = AddSaturating(@, count),
                        !.dropped = AddSaturating(@, count)]
      BY <1>2 DEF push_batch
    <2> HIDE DEF s
    <2> QED BY <1>2, <2>1, LostPush DEF s
  <1>3. CASE PushAllowed(r, count) /\ ~SequenceRunsOut(r, count)
    <2>1. CASE Fits(r, count)
      <3>1. s = Stored(r, event, report, count)
        BY <1>3, <2>1 DEF push_batch
      <3> HIDE DEF s
      <3> QED BY <1>3, <2>1, <3>1, AcceptedPush DEF s
    <2>2. CASE ~Fits(r, count)
      <3>1. s = [Numbered(r, count) EXCEPT !.dropped = AddSaturating(@, count)]
        BY <1>3, <2>2 DEF push_batch
      <3> HIDE DEF s
      <3> QED BY <1>3, <2>2, <3>1, LostPush DEF s
    <2> QED BY <2>1, <2>2
  <1> QED BY <1>1, <1>2, <1>3

----------------------------------------------------------------------------
\* What the history keeps when a batch is appended.

\* BatchesWhole and ReportsExact, of any sequence of records.
Whole(S) ==
    \A i \in DOMAIN S :
        LET first == i - (S[i].sequence - S[i].first) IN
        /\ first >= 1
        /\ first + S[i].size - 1 <= Len(S)
        /\ \A k \in 0 .. S[i].size - 1 :
              /\ S[first + k].sequence = S[i].first + k
              /\ S[first + k].first = S[i].first
        /\ i > 1 => S[i - 1].sequence < S[i].sequence

Told(S) ==
    \A i \in DOMAIN S :
        LET this == S[i] IN
        this.event = "OVERFLOW" =>
            /\ this.report.emitted = i - 1
            /\ this.report.attempted = this.sequence
            /\ this.report.dropped = this.sequence - (i - 1)
            /\ \A j \in 1 .. i - 1 :
                  S[j].event = "OVERFLOW" =>
                      S[j].report.dropped < this.report.dropped

Below(S, number) == \A i \in 1 .. Len(S) : S[i].sequence < number

ToldUpTo(S, loss) ==
    \A i \in 1 .. Len(S) :
        S[i].event = "OVERFLOW" => S[i].report.dropped <= loss

\* The fields of a record of the history.
LEMMA RecordFields ==
    ASSUME NEW S \in Seq(Record), NEW i \in 1 .. Len(S)
    PROVE  /\ S[i].sequence \in Nat /\ S[i].first \in Nat
           /\ S[i].size \in Nat \ {0}
           /\ S[i].report.dropped \in Nat
  <1>1. S[i] \in Record
    BY ElementOfSeq
  <1>2. /\ S[i].sequence \in Counts /\ S[i].first \in Counts
        /\ S[i].size \in Batches /\ S[i].report.dropped \in Counts
    BY <1>1 DEF Record
  <1> QED BY <1>2, TraceNumbers

\* A batch numbered past everything before it leaves the batches whole.
LEMMA AppendedWhole ==
    ASSUME NEW S, NEW T, NEW first \in Nat, NEW count \in Nat \ {0},
           NEW event, NEW report,
           Appended(S, T, first, count, event, report),
           Whole(S), Below(S, first)
    PROVE  Whole(T) /\ Below(T, first + count)
  <1> DEFINE n == Len(S)
  <1>1. /\ S \in Seq(Record) /\ T \in Seq(Record)
        /\ n \in Nat /\ Len(T) = n + count
        /\ DOMAIN S = 1 .. n /\ DOMAIN T = 1 .. n + count
    BY LenProperties DEF Appended
  <1>2. \A i \in 1 .. n : T[i] = S[i]
    BY DEF Appended
  <1>3. \A k \in 1 .. count :
           /\ T[n + k].sequence = first + k - 1
           /\ T[n + k].first = first /\ T[n + k].size = count
    <2>1. \A k \in 1 .. count :
             T[n + k] = Item(first, k, event, report, count)
      BY DEF Appended
    <2> HIDE DEF n
    <2>2. ASSUME NEW k \in 1 .. count
          PROVE  /\ T[n + k].sequence = first + k - 1
                 /\ T[n + k].first = first /\ T[n + k].size = count
      <3> DEFINE item == T[n + k]
      <3>1. item = Item(first, k, event, report, count)
        BY <2>1
      <3> HIDE DEF item
      <3>2. /\ item.sequence = first + k - 1
            /\ item.first = first /\ item.size = count
        BY <3>1 DEF Item
      <3> QED BY <3>2 DEF item
    <2> QED BY <2>2
  <1> HIDE DEF n
  <1>4. \A i \in 1 .. n : /\ S[i].sequence \in Nat /\ S[i].first \in Nat
                          /\ S[i].size \in Nat \ {0}
                          /\ S[i].sequence < first
    BY <1>1, RecordFields DEF Below, n
  <1>5. ASSUME NEW i \in 1 .. n
        PROVE  LET f == i - (T[i].sequence - T[i].first) IN
               /\ f >= 1
               /\ f + T[i].size - 1 <= n + count
               /\ \A k \in 0 .. T[i].size - 1 :
                     /\ T[f + k].sequence = T[i].first + k
                     /\ T[f + k].first = T[i].first
               /\ i > 1 => T[i - 1].sequence < T[i].sequence
    <2> DEFINE f == i - (S[i].sequence - S[i].first)
    <2>1. /\ f >= 1 /\ f + S[i].size - 1 <= n
          /\ \A k \in 0 .. S[i].size - 1 :
                /\ S[f + k].sequence = S[i].first + k
                /\ S[f + k].first = S[i].first
          /\ i > 1 => S[i - 1].sequence < S[i].sequence
      BY <1>1 DEF Whole, n
    <2>2. f \in Int /\ T[i] = S[i]
      BY <1>2, <1>4
    <2> HIDE DEF f
    <2>3. ASSUME NEW k \in 0 .. S[i].size - 1
          PROVE  T[f + k] = S[f + k]
      <3>1. f + k \in 1 .. n
        <4> DEFINE z == S[i].size
        <4>1. /\ z \in Nat /\ k \in 0 .. z - 1 /\ f \in Int /\ n \in Nat
              /\ f >= 1 /\ f + z - 1 <= n
          BY <1>1, <1>4, <2>1, <2>2
        <4> HIDE DEF z
        <4> QED BY <4>1
      <3> QED BY <1>2, <3>1
    <2>4. i > 1 => T[i - 1] = S[i - 1]
      <3>1. i > 1 => i - 1 \in 1 .. n
        BY <1>1
      <3> QED BY <1>2, <3>1
    <2>5. f + S[i].size - 1 <= n + count
      BY <1>1, <1>4, <2>1, <2>2
    <2> QED BY <2>1, <2>2, <2>3, <2>4, <2>5 DEF f
  <1>6. ASSUME NEW k \in 1 .. count
        PROVE  LET i == n + k
                   f == i - (T[i].sequence - T[i].first) IN
               /\ f >= 1
               /\ f + T[i].size - 1 <= n + count
               /\ \A j \in 0 .. T[i].size - 1 :
                     /\ T[f + j].sequence = T[i].first + j
                     /\ T[f + j].first = T[i].first
               /\ i > 1 => T[i - 1].sequence < T[i].sequence
    <2> DEFINE i == n + k
               f == i - (T[i].sequence - T[i].first)
    <2>1. f = n + 1
      <3>1. (n + k) - ((first + k - 1) - first) = n + 1
        BY <1>1
      <3> QED BY <1>3, <3>1
    <2>2. ASSUME NEW j \in 0 .. count - 1
          PROVE  /\ T[n + 1 + j].sequence = first + j
                 /\ T[n + 1 + j].first = first
      <3>1. /\ j + 1 \in 1 .. count /\ n + (j + 1) = n + 1 + j
            /\ first + (j + 1) - 1 = first + j
        BY <1>1
      <3> QED BY <1>3, <3>1
    <2>3. i > 1 => T[i - 1].sequence < first + k - 1
      <3>1. CASE k = 1
        <4>1. i - 1 = n /\ (i > 1 => n \in 1 .. n) /\ first + k - 1 = first
          BY <1>1, <3>1
        <4> HIDE DEF i
        <4> QED BY <1>2, <1>4, <4>1
      <3>2. CASE k # 1
        <4>1. k - 1 \in 1 .. count /\ i - 1 = n + (k - 1)
          BY <1>1, <3>2
        <4>2. T[i - 1].sequence = first + (k - 1) - 1
          <5> HIDE DEF i
          <5> QED BY <1>3, <4>1
        <4>3. first + (k - 1) - 1 < first + k - 1
          BY <1>1
        <4> QED BY <4>2, <4>3
      <3> QED BY <3>1, <3>2
    <2>4. /\ T[i].size = count /\ T[i].sequence = first + k - 1
          /\ T[i].first = first
      BY <1>3
    <2>5. n + 1 >= 1 /\ n + 1 + count - 1 <= n + count
      BY <1>1
    <2> HIDE DEF i, f
    <2>6. /\ f >= 1 /\ f + T[i].size - 1 <= n + count
          /\ \A j \in 0 .. T[i].size - 1 :
                /\ T[f + j].sequence = T[i].first + j
                /\ T[f + j].first = T[i].first
          /\ i > 1 => T[i - 1].sequence < T[i].sequence
      BY <2>1, <2>2, <2>3, <2>4, <2>5
    <2> QED BY <2>6 DEF f, i
  <1>7. Whole(T)
    <2> SUFFICES ASSUME NEW i \in 1 .. n + count
                 PROVE  LET f == i - (T[i].sequence - T[i].first) IN
                        /\ f >= 1
                        /\ f + T[i].size - 1 <= n + count
                        /\ \A k \in 0 .. T[i].size - 1 :
                              /\ T[f + k].sequence = T[i].first + k
                              /\ T[f + k].first = T[i].first
                        /\ i > 1 => T[i - 1].sequence < T[i].sequence
      BY <1>1 DEF Whole
    <2>1. CASE i \in 1 .. n
      BY <1>5, <2>1
    <2>2. CASE i > n
      <3> DEFINE k == i - n
      <3>1. k \in 1 .. count /\ i = n + k
        BY <1>1, <2>2
      <3> HIDE DEF k
      <3> QED BY <1>6, <3>1
    <2> QED BY <1>1, <2>1, <2>2
  <1>8. Below(T, first + count)
    <2> SUFFICES ASSUME NEW i \in 1 .. n + count
                 PROVE  T[i].sequence < first + count
      BY <1>1 DEF Below
    <2>1. CASE i \in 1 .. n
      BY <1>2, <1>4, <2>1
    <2>2. CASE i > n
      <3> DEFINE k == i - n
      <3>1. k \in 1 .. count /\ i = n + k
        BY <1>1, <2>2
      <3> HIDE DEF k
      <3>2. T[i].sequence = first + k - 1
        BY <1>3, <3>1
      <3> QED BY <3>1, <3>2
    <2> QED BY <1>1, <2>1, <2>2
  <1> QED BY <1>7, <1>8

\* A report of the loss so far, the first to tell of it, leaves the reports
\* exact; so does anything that is not a report.
LEMMA AppendedTold ==
    ASSUME NEW S, NEW T, NEW first \in Nat, NEW count \in Nat \ {0},
           NEW event, NEW report, NEW loss \in Nat, NEW upto \in Nat,
           Appended(S, T, first, count, event, report),
           Told(S), ToldUpTo(S, loss),
           IF event = "OVERFLOW"
           THEN /\ count = 1 /\ loss < report.dropped
                /\ report.emitted = Len(S) /\ report.attempted = first
                /\ report.dropped = first - Len(S)
                /\ upto = report.dropped
           ELSE upto = loss
    PROVE  Told(T) /\ ToldUpTo(T, upto)
  <1> DEFINE n == Len(S)
  <1>1. /\ S \in Seq(Record) /\ T \in Seq(Record)
        /\ n \in Nat /\ Len(T) = n + count
        /\ DOMAIN S = 1 .. n /\ DOMAIN T = 1 .. n + count
    BY LenProperties DEF Appended
  <1>2. \A i \in 1 .. n : T[i] = S[i]
    BY DEF Appended
  <1>3. ASSUME NEW k \in 1 .. count
        PROVE  /\ T[n + k].sequence = first + k - 1
               /\ T[n + k].event = event /\ T[n + k].report = report
    <2> DEFINE item == T[n + k]
    <2>1. item = Item(first, k, event, report, count)
      BY DEF Appended
    <2> HIDE DEF item
    <2>2. /\ item.sequence = first + k - 1
          /\ item.event = event /\ item.report = report
      BY <2>1 DEF Item
    <2> QED BY <2>2 DEF item
  <1>4. /\ loss <= upto
        /\ event = "OVERFLOW" =>
             /\ count = 1 /\ loss < report.dropped
             /\ report.emitted = n /\ report.attempted = first
             /\ report.dropped = first - n /\ upto = report.dropped
             /\ report.dropped \in Nat
    OBVIOUS
  <1> HIDE DEF n
  <1>5. \A i \in 1 .. n : /\ S[i].report.dropped \in Nat
                          /\ S[i].event = "OVERFLOW" =>
                               S[i].report.dropped <= loss
    BY <1>1, RecordFields DEF ToldUpTo, n
  <1>6. ASSUME NEW i \in 1 .. n + count, T[i].event = "OVERFLOW"
        PROVE  /\ T[i].report.emitted = i - 1
               /\ T[i].report.attempted = T[i].sequence
               /\ T[i].report.dropped = T[i].sequence - (i - 1)
               /\ \A j \in 1 .. i - 1 :
                     T[j].event = "OVERFLOW" =>
                         T[j].report.dropped < T[i].report.dropped
               /\ T[i].report.dropped <= upto
    <2>1. CASE i \in 1 .. n
      <3>1. /\ S[i].report.emitted = i - 1
            /\ S[i].report.attempted = S[i].sequence
            /\ S[i].report.dropped = S[i].sequence - (i - 1)
            /\ \A j \in 1 .. i - 1 :
                  S[j].event = "OVERFLOW" =>
                      S[j].report.dropped < S[i].report.dropped
        BY <1>1, <1>2, <1>6, <2>1 DEF Told
      <3>2. ASSUME NEW j \in 1 .. i - 1, T[j].event = "OVERFLOW"
            PROVE  T[j].report.dropped < T[i].report.dropped
        <4>1. j \in 1 .. n
          BY <1>1, <2>1
        <4> QED BY <1>2, <2>1, <3>1, <3>2, <4>1
      <3>3. S[i].report.dropped <= upto
        <4> DEFINE d == S[i].report.dropped
        <4>1. d \in Nat /\ d <= loss
          BY <1>2, <1>5, <1>6, <2>1
        <4> HIDE DEF d
        <4>2. d <= upto
          BY <1>4, <4>1
        <4> QED BY <4>2 DEF d
      <3> QED BY <1>2, <2>1, <3>1, <3>2, <3>3
    <2>2. CASE i > n
      <3> DEFINE k == i - n
      <3>1. k \in 1 .. count /\ i = n + k
        BY <1>1, <2>2
      <3> HIDE DEF k
      <3>2. /\ T[i].sequence = first + k - 1
            /\ T[i].event = event /\ T[i].report = report
        BY <1>3, <3>1
      <3>3. /\ count = 1 /\ k = 1 /\ i - 1 = n /\ first + k - 1 = first
            /\ event = "OVERFLOW"
        BY <1>1, <1>4, <1>6, <3>1, <3>2
      <3>4. ASSUME NEW j \in 1 .. i - 1, T[j].event = "OVERFLOW"
            PROVE  T[j].report.dropped < T[i].report.dropped
        <4>1. j \in 1 .. n
          BY <3>3
        <4> DEFINE d == S[j].report.dropped
                   e == report.dropped
        <4>2. d \in Nat /\ d <= loss /\ T[j].report.dropped = d
          BY <1>2, <1>5, <3>4, <4>1
        <4>3. loss < e /\ e \in Nat /\ T[i].report.dropped = e
          BY <1>4, <3>2, <3>3
        <4> HIDE DEF d, e
        <4>4. d < e
          BY <4>2, <4>3
        <4> QED BY <4>2, <4>3, <4>4
      <3>5. T[i].report.dropped <= upto
        BY <1>4, <3>2, <3>3
      <3>6. /\ T[i].report.emitted = i - 1
            /\ T[i].report.attempted = T[i].sequence
            /\ T[i].report.dropped = T[i].sequence - (i - 1)
        BY <1>4, <3>2, <3>3
      <3> QED BY <3>4, <3>5, <3>6
    <2> QED BY <1>1, <2>1, <2>2
  <1>7. Told(T)
    BY <1>1, <1>6 DEF Told
  <1>8. ToldUpTo(T, upto)
    BY <1>1, <1>6 DEF ToldUpTo
  <1> QED BY <1>7, <1>8

----------------------------------------------------------------------------
\* The history and the counters together.

\* Until the numbers are out, every number is an accepted record's or a lost
\* one's.
Counted(S, r) ==
    ~r.sequence_exhausted =>
        /\ r.attempted = r.emitted + r.dropped
        /\ r.attempted = r.next_sequence
        /\ r.emitted = Len(S)
        /\ Below(S, r.next_sequence)

LogInv(S, r) ==
    /\ Whole(S) /\ Told(S) /\ Counted(S, r)
    /\ ToldUpTo(S, r.reported_dropped)
    /\ r.reported_dropped <= r.dropped

\* While numbers are left the counters are below UINT32_MAX.
LEMMA NumbersSpent ==
    ASSUME NEW r \in Rings, NEW s \in Rings, NEW count \in Batches,
           ~SequenceRunsOut(r, count), Number(s) = r.next_sequence + count,
           ~s.sequence_exhausted
    PROVE  /\ ~r.sequence_exhausted
           /\ s.next_sequence = r.next_sequence + count
           /\ r.next_sequence + count <= UINT32_MAX
  <1>1. Number(s) <= UINT32_MAX /\ Number(s) = s.next_sequence
    BY NumberRange
  <1> QED BY <1>1 DEF SequenceRunsOut

\* An accepted batch, or a report, keeps both.
LEMMA AcceptedKeeps ==
    ASSUME NEW r \in Rings, NEW s \in Rings, NEW S, NEW T,
           NEW count \in Batches, NEW event, NEW report,
           LogInv(S, r), ~SequenceRunsOut(r, count),
           Appended(S, T, r.next_sequence, count, event, report),
           Number(s) = r.next_sequence + count,
           s.attempted = AddSaturating(r.attempted, count),
           s.emitted = AddSaturating(r.emitted, count),
           s.dropped = r.dropped,
           IF event = "OVERFLOW"
           THEN /\ count = 1 /\ r.dropped # r.reported_dropped
                /\ report = [dropped |-> r.dropped, attempted |-> r.attempted,
                             emitted |-> r.emitted]
                /\ s.reported_dropped = r.dropped
           ELSE s.reported_dropped = r.reported_dropped
    PROVE  LogInv(T, s)
  <1>1. /\ r.next_sequence \in Nat /\ r.attempted \in Counts
        /\ r.emitted \in Counts /\ r.dropped \in Nat
        /\ r.emitted \in Nat /\ r.attempted \in Nat
        /\ r.reported_dropped \in Nat /\ s.reported_dropped \in Nat
        /\ count \in Nat \ {0} /\ UINT32_MAX \in Nat
        /\ ~r.sequence_exhausted /\ Len(S) \in Nat /\ Len(T) = Len(S) + count
    BY TraceNumbers, LenProperties DEF Rings, SequenceRunsOut, Appended
  <1>2. /\ r.attempted = r.emitted + r.dropped
        /\ r.attempted = r.next_sequence
        /\ r.emitted = Len(S)
        /\ Below(S, r.next_sequence)
        /\ r.reported_dropped <= r.dropped
        /\ Whole(S) /\ Told(S) /\ ToldUpTo(S, r.reported_dropped)
    BY <1>1 DEF LogInv, Counted
  <1>3. Whole(T) /\ Below(T, r.next_sequence + count)
    BY <1>1, <1>2, AppendedWhole
  <1>4. Told(T) /\ ToldUpTo(T, s.reported_dropped)
    <2>1. CASE event = "OVERFLOW"
      <3>1. /\ report.dropped = r.dropped /\ report.attempted = r.attempted
            /\ report.emitted = r.emitted /\ s.reported_dropped = r.dropped
            /\ count = 1
        BY <2>1
      <3>2. /\ r.reported_dropped < r.dropped
            /\ r.dropped = r.next_sequence - Len(S)
        BY <1>1, <1>2, <2>1
      <3> QED BY <1>1, <1>2, <2>1, <3>1, <3>2, AppendedTold
    <2>2. CASE event # "OVERFLOW"
      BY <1>1, <1>2, <2>2, AppendedTold
    <2> QED BY <2>1, <2>2
  <1>5. Counted(T, s)
    <2> SUFFICES ASSUME ~s.sequence_exhausted
                 PROVE  /\ s.attempted = s.emitted + s.dropped
                        /\ s.attempted = s.next_sequence
                        /\ s.emitted = Len(T)
                        /\ Below(T, s.next_sequence)
      BY DEF Counted
    <2>1. /\ s.next_sequence = r.next_sequence + count
          /\ r.next_sequence + count <= UINT32_MAX
      BY NumbersSpent
    <2>2. /\ r.attempted + count <= UINT32_MAX
          /\ r.emitted + count <= UINT32_MAX
      BY <1>1, <1>2, <2>1
    <2>3. /\ s.attempted = r.attempted + count
          /\ s.emitted = r.emitted + count
      BY <1>1, <2>2, AddType
    <2>4. /\ r.attempted + count = (r.emitted + count) + r.dropped
          /\ r.emitted + count = Len(S) + count
      BY <1>1, <1>2
    <2> QED BY <1>1, <1>2, <1>3, <2>1, <2>3, <2>4
  <1>6. s.reported_dropped <= s.dropped
    BY <1>1, <1>2
  <1> QED BY <1>3, <1>4, <1>5, <1>6 DEF LogInv

\* A lost batch keeps both.
LEMMA LostKeeps ==
    ASSUME NEW r \in Rings, NEW S \in Seq(Record), NEW s,
           NEW count \in Batches, LogInv(S, r), Losing(r, s, count)
    PROVE  LogInv(S, s)
  <1>1. /\ r.next_sequence \in Nat /\ r.attempted \in Counts
        /\ r.dropped \in Counts /\ r.dropped \in Nat
        /\ r.emitted \in Nat /\ r.attempted \in Nat
        /\ r.reported_dropped \in Nat
        /\ count \in Nat \ {0} /\ UINT32_MAX \in Nat
    BY TraceNumbers DEF Rings
  <1>2. /\ s \in Rings /\ s.emitted = r.emitted
        /\ s.reported_dropped = r.reported_dropped
        /\ s.attempted = AddSaturating(r.attempted, count)
        /\ s.dropped = AddSaturating(r.dropped, count)
        /\ Number(s) = IF SequenceRunsOut(r, count) THEN UINT32_MAX + 1
                       ELSE r.next_sequence + count
    BY DEF Losing, Spent
  <1>3. Counted(S, s)
    <2> SUFFICES ASSUME ~s.sequence_exhausted
                 PROVE  /\ s.attempted = s.emitted + s.dropped
                        /\ s.attempted = s.next_sequence
                        /\ s.emitted = Len(S)
                        /\ Below(S, s.next_sequence)
      BY DEF Counted
    <2>1. ~SequenceRunsOut(r, count)
      <3>1. Number(s) <= UINT32_MAX
        BY <1>2, NumberRange
      <3> QED BY <1>1, <1>2, <3>1
    <2>2. /\ ~r.sequence_exhausted
          /\ s.next_sequence = r.next_sequence + count
          /\ r.next_sequence + count <= UINT32_MAX
      BY <1>2, <2>1, NumbersSpent
    <2>3. /\ r.attempted = r.emitted + r.dropped
          /\ r.attempted = r.next_sequence
          /\ r.emitted = Len(S)
          /\ Below(S, r.next_sequence)
      BY <2>2 DEF LogInv, Counted
    <2>4. /\ r.attempted + count <= UINT32_MAX
          /\ r.dropped + count <= UINT32_MAX
      BY <1>1, <2>2, <2>3
    <2>5. /\ s.attempted = r.attempted + count
          /\ s.dropped = r.dropped + count
      BY <1>1, <1>2, <2>4, AddType
    <2>6. r.attempted + count = r.emitted + (r.dropped + count)
      BY <1>1, <2>3
    <2>7. Below(S, s.next_sequence)
      <3> SUFFICES ASSUME NEW i \in 1 .. Len(S)
                   PROVE  S[i].sequence < s.next_sequence
        BY DEF Below
      <3>1. S[i].sequence \in Nat /\ S[i].sequence < r.next_sequence
        BY <2>3, RecordFields DEF Below
      <3> DEFINE q == S[i].sequence
      <3> HIDE DEF q
      <3>2. q \in Nat /\ q < r.next_sequence
        BY <3>1 DEF q
      <3>3. q < s.next_sequence
        BY <1>1, <2>2, <3>2
      <3> QED BY <3>3 DEF q
    <2> QED BY <1>2, <2>2, <2>3, <2>5, <2>6, <2>7
  <1>4. s.reported_dropped <= s.dropped
    <2>1. r.dropped <= s.dropped /\ s.dropped \in Nat
      BY <1>1, <1>2, AddType, TraceNumbers
    <2>2. r.reported_dropped <= r.dropped
      BY DEF LogInv
    <2> QED BY <1>1, <1>2, <2>1, <2>2
  <1> QED BY <1>2, <1>3, <1>4 DEF LogInv

----------------------------------------------------------------------------
\* The steps.

LossReport(r) == [dropped |-> r.dropped, attempted |-> r.attempted,
                  emitted |-> r.emitted]

\* A report, when one is due, is accepted and remembered.
Reported(r, m) ==
    /\ m \in Rings /\ Linked(m)
    /\ ~SequenceRunsOut(r, 1) /\ r.dropped # r.reported_dropped
    /\ Appended(Unread(r), Unread(m), r.next_sequence, 1, "OVERFLOW",
                LossReport(r))
    /\ m.attempted = AddSaturating(r.attempted, 1)
    /\ m.emitted = AddSaturating(r.emitted, 1)
    /\ m.dropped = r.dropped /\ m.reported_dropped = r.dropped
    /\ m.enabled = r.enabled
    /\ Number(m) = r.next_sequence + 1

\* report_overflow appends a report when one is due, and else does nothing.
LEMMA ReportEffect ==
    ASSUME NEW r \in Rings, Linked(r)
    PROVE  IF ReportDue(r) THEN Reported(r, report_overflow(r))
           ELSE report_overflow(r) = r
  <1>1. CASE ~ReportDue(r)
    BY <1>1 DEF report_overflow
  <1>2. CASE ReportDue(r)
    <2> DEFINE p == push_batch(r, "OVERFLOW", LossReport(r), 1)
               m == [p EXCEPT !.reported_dropped = r.dropped]
    <2>1. /\ r.enabled /\ r.count < Capacity /\ ~r.sequence_exhausted
          /\ r.dropped # r.reported_dropped
      BY <1>2 DEF ReportDue
    <2>2. /\ 1 \in Batches /\ 1 <= Capacity
          /\ r.next_sequence \in Nat /\ r.next_sequence <= UINT32_MAX
          /\ r.count \in Nat /\ Capacity \in Nat /\ UINT32_MAX \in Nat
      BY TraceNumbers, TraceConstants DEF Rings, Batches
    <2>3. PushAllowed(r, 1) /\ ~SequenceRunsOut(r, 1) /\ Fits(r, 1)
      BY <2>1, <2>2 DEF PushAllowed, SequenceRunsOut, Fits
    <2>4. LossReport(r) \in Reports
      BY DEF LossReport, Reports, Rings
    <2>5. p = Stored(r, "OVERFLOW", LossReport(r), 1)
      BY <2>3 DEF push_batch
    <2>6. Accepting(r, p, "OVERFLOW", LossReport(r), 1)
      <3> HIDE DEF p
      <3> QED BY <2>2, <2>3, <2>4, <2>5, AcceptedPush
    <2>7. report_overflow(r) = m
      BY <1>2 DEF report_overflow, LossReport
    <2> HIDE DEF p
    <2>8. p \in Rings /\ r.dropped \in Counts
      BY <2>6 DEF Accepting, Spent, Rings
    <2>9. /\ m \in Rings
          /\ m.records = p.records /\ m.read_index = p.read_index
          /\ m.write_index = p.write_index /\ m.count = p.count
          /\ m.emitted = p.emitted /\ m.enabled = p.enabled
          /\ m.dropped = p.dropped /\ m.reported_dropped = r.dropped
          /\ m.attempted = p.attempted /\ m.next_sequence = p.next_sequence
          /\ m.sequence_exhausted = p.sequence_exhausted
      BY <2>8 DEF Rings
    <2> HIDE DEF m
    <2>10. Unread(m) = Unread(p) /\ Number(m) = Number(p) /\ Linked(m)
      <3>1. Linked(p)
        BY <2>6 DEF Accepting, Spent
      <3> QED BY <2>9, <3>1 DEF Unread, Number, Linked
    <2>11. Reported(r, m)
      BY <2>1, <2>3, <2>6, <2>9, <2>10 DEF Accepting, Spent, Reported
    <2> QED BY <1>2, <2>7, <2>11
  <1> QED BY <1>1, <1>2

\* Reading takes the oldest record: the history stays what it was.
LEMMA PopEffect ==
    ASSUME NEW r \in Rings, Linked(r), r.count > 0, NEW rd \in Seq(Record)
    PROVE  LET item == r.records[r.read_index] IN
           /\ popped(r) \in Rings /\ Linked(popped(r))
           /\ item \in Record
           /\ Append(rd, item) \in Seq(Record)
           /\ Unread(r) # << >>
           /\ item = Head(Unread(r))
           /\ Unread(popped(r)) = Tail(Unread(r))
           /\ History(Append(rd, item), popped(r)) = History(rd, r)
  <1> DEFINE s == popped(r)
             item == r.records[r.read_index]
  <1>1. /\ Capacity \in Nat \ {0} /\ r.count \in 1 .. Capacity
        /\ r.read_index \in Slots /\ r.records \in [Slots -> Record]
    BY TraceNumbers DEF Rings
  <1>2. s = [r EXCEPT !.read_index = Ahead(r.read_index, 1),
                      !.count = r.count - 1]
    BY DEF popped, Ahead
  <1>3. Ahead(r.read_index, 1) \in Slots /\ r.count - 1 \in 0 .. Capacity
    BY <1>1, AheadValue
  <1> HIDE DEF s
  <1>4. /\ s \in Rings
        /\ s.records = r.records /\ s.write_index = r.write_index
        /\ s.read_index = Ahead(r.read_index, 1) /\ s.count = r.count - 1
    <2> DEFINE i == Ahead(r.read_index, 1)
               c == r.count - 1
    <2>1. i \in Slots /\ c \in 0 .. Capacity
      BY <1>3
    <2>2. s = [r EXCEPT !.read_index = i, !.count = c]
      BY <1>2
    <2> HIDE DEF i, c
    <2>3. /\ s \in Rings
          /\ s.records = r.records /\ s.write_index = r.write_index
          /\ s.read_index = i /\ s.count = c
      BY <2>1, <2>2 DEF Rings
    <2> QED BY <2>3 DEF i, c
  <1>5. Linked(s)
    <2>1. Ahead(Ahead(r.read_index, 1), r.count - 1)
            = Ahead(r.read_index, 1 + (r.count - 1))
      BY <1>1, AheadTwice
    <2>2. 1 + (r.count - 1) = r.count
      BY <1>1
    <2> QED BY <1>4, <2>1, <2>2 DEF Linked
  <1>6. ASSUME NEW i \in 1 .. r.count - 1 PROVE At(s, i) = At(r, i + 1)
    <2>1. /\ 1 \in Nat /\ i - 1 \in Nat /\ 1 + (i - 1) <= Capacity
          /\ 1 + (i - 1) = (i + 1) - 1
      BY <1>1
    <2>2. Ahead(Ahead(r.read_index, 1), i - 1)
            = Ahead(r.read_index, 1 + (i - 1))
      BY <1>1, <2>1, AheadTwice
    <2> QED BY <1>4, <2>1, <2>2 DEF At
  <1>7. item \in Record
    BY <1>1
  <1>8. At(r, 1) = item
    <2>1. Ahead(r.read_index, 0) = r.read_index
      <3>1. /\ 0 \in 0 .. Capacity /\ r.read_index + 0 < Capacity
            /\ r.read_index + 0 = r.read_index
        BY <1>1 DEF Slots
      <3>2. Ahead(r.read_index, 0) = r.read_index + 0
        BY <1>1, <3>1, AheadValue
      <3> QED BY <3>1, <3>2
    <2> QED BY <2>1 DEF At
  <1> HIDE DEF item
  <1> DEFINE U == Unread(r)
             V == Unread(s)
  <1>9. /\ U \in Seq(Record) /\ V \in Seq(Record)
        /\ Len(U) = r.count /\ Len(V) = r.count - 1
        /\ \A i \in 1 .. r.count : U[i] = At(r, i)
        /\ \A i \in 1 .. r.count - 1 : V[i] = At(r, i + 1)
    BY <1>4, <1>6, UnreadItems
  <1>10. U # << >> /\ item = Head(U) /\ V = Tail(U)
    <2> HIDE DEF U, V
    <2>1. U # << >>
      BY <1>1, <1>9, EmptySeq
    <2>2. /\ Tail(U) \in Seq(Record) /\ Len(Tail(U)) = r.count - 1
          /\ \A i \in 1 .. r.count - 1 : Tail(U)[i] = U[i + 1]
      BY <1>9, <2>1, HeadTailProperties
    <2>3. ASSUME NEW i \in 1 .. r.count - 1 PROVE V[i] = Tail(U)[i]
      <3>1. i + 1 \in 1 .. r.count
        BY <1>1
      <3> QED BY <1>9, <2>2, <3>1
    <2>4. V = Tail(U)
      BY <1>9, <2>2, <2>3, SeqEqual
    <2>5. Head(U) = U[1] /\ U[1] = At(r, 1)
      BY <1>1, <1>9
    <2> QED BY <1>8, <2>1, <2>4, <2>5
  <1>11. /\ Append(rd, item) \in Seq(Record)
         /\ Len(Append(rd, item)) = Len(rd) + 1
         /\ \A i \in 1 .. Len(rd) : Append(rd, item)[i] = rd[i]
         /\ Append(rd, item)[Len(rd) + 1] = item
    BY <1>7, AppendProperties
  <1>12. History(Append(rd, item), s) = History(rd, r)
    <2> DEFINE rd2 == Append(rd, item)
               H == History(rd, r)
               G == History(rd2, s)
    <2>1. /\ H \in Seq(Record) /\ Len(H) = Len(rd) + r.count
          /\ \A i \in 1 .. Len(rd) : H[i] = rd[i]
          /\ \A i \in 1 .. r.count : H[Len(rd) + i] = At(r, i)
      BY HistoryItems
    <2>2. /\ G \in Seq(Record) /\ Len(G) = Len(rd2) + s.count
          /\ \A i \in 1 .. Len(rd2) : G[i] = rd2[i]
          /\ \A i \in 1 .. s.count : G[Len(rd2) + i] = At(s, i)
      <3>1. rd2 \in Seq(Record)
        BY <1>11
      <3> HIDE DEF rd2
      <3> QED BY <1>4, <3>1, HistoryItems
    <2> HIDE DEF rd2, H, G
    <2>3. /\ rd2 \in Seq(Record) /\ Len(rd2) = Len(rd) + 1
          /\ \A i \in 1 .. Len(rd) : rd2[i] = rd[i]
          /\ rd2[Len(rd) + 1] = item
      BY <1>11 DEF rd2
    <2>4. Len(rd) \in Nat /\ r.count \in Nat \ {0} /\ s.count = r.count - 1
      BY <1>1, <1>4, LenProperties
    <2>5. Len(G) = Len(H)
      BY <2>1, <2>2, <2>3, <2>4
    <2>6. ASSUME NEW i \in 1 .. Len(G) PROVE G[i] = H[i]
      <3>1. CASE i \in 1 .. Len(rd)
        <4>1. i \in 1 .. Len(rd2)
          BY <2>3, <2>4, <3>1
        <4> QED BY <2>1, <2>2, <2>3, <3>1, <4>1
      <3>2. CASE i = Len(rd) + 1
        <4>1. i \in 1 .. Len(rd2) /\ 1 \in 1 .. r.count
          BY <2>3, <2>4, <3>2
        <4>2. G[i] = item
          BY <2>2, <2>3, <3>2, <4>1
        <4>3. H[i] = item
          BY <1>8, <2>1, <3>2, <4>1
        <4> QED BY <4>2, <4>3
      <3>3. CASE i > Len(rd) + 1
        <4> DEFINE j == i - Len(rd2)
        <4>1. /\ j \in 1 .. s.count /\ j \in 1 .. r.count - 1
              /\ i = Len(rd2) + j /\ j + 1 \in 1 .. r.count
              /\ i = Len(rd) + (j + 1)
          BY <2>2, <2>3, <2>4, <3>3
        <4> HIDE DEF j
        <4>2. G[i] = At(s, j)
          BY <2>2, <4>1
        <4>3. H[i] = At(r, j + 1)
          BY <2>1, <4>1
        <4> QED BY <1>6, <4>1, <4>2, <4>3
      <3> QED BY <2>4, <3>1, <3>2, <3>3
    <2>7. G = H
      BY <2>1, <2>2, <2>5, <2>6, SeqEqual
    <2> QED BY <2>7 DEF G, H, rd2
  <1> QED BY <1>4, <1>5, <1>7, <1>10, <1>11, <1>12 DEF s, item

----------------------------------------------------------------------------
\* The invariant, and the steps that keep it.

TraceInv ==
    /\ ring \in Rings /\ Linked(ring)
    /\ read \in Seq(Record)
    /\ LogInv(History(read, ring), ring)

\* os_trace_ring_init establishes the invariant.
LEMMA InitTrace == Init => TraceInv
  <1> SUFFICES ASSUME Init PROVE TraceInv
    OBVIOUS
  <1>1. /\ Capacity \in Nat \ {0} /\ 0 \in Counts /\ 1 \in Batches
        /\ 0 \in Slots /\ 0 \in 0 .. Capacity
    BY TraceNumbers, TraceConstants DEF Slots, Batches
  <1>2. Cleared \in Record
    BY <1>1 DEF Cleared, NoReport, Record
  <1>3. [slot \in Slots |-> Cleared] \in [Slots -> Record]
    BY <1>2
  <1>4. ring \in Rings
    BY <1>1, <1>3 DEF Init, EmptyRing, Rings
  <1>5. Linked(ring)
    <2>1. Ahead(0, 0) = 0
      BY <1>1, AheadValue
    <2> QED BY <2>1 DEF Init, EmptyRing, Linked
  <1>6. read \in Seq(Record) /\ Len(read) = 0
    BY EmptySeq DEF Init
  <1> DEFINE S == History(read, ring)
  <1>7. S \in Seq(Record) /\ Len(S) = 0
    <2>1. ring.count = 0
      BY DEF Init, EmptyRing
    <2>2. S \in Seq(Record) /\ Len(S) = Len(read) + ring.count
      BY <1>4, <1>6, HistoryItems
    <2> HIDE DEF S
    <2> QED BY <1>6, <2>1, <2>2
  <1> HIDE DEF S
  <1>8. DOMAIN S = {}
    BY <1>7, LenProperties
  <1>9. /\ ring.attempted = 0 /\ ring.emitted = 0 /\ ring.dropped = 0
        /\ ring.next_sequence = 0 /\ ring.reported_dropped = 0
    BY DEF Init, EmptyRing
  <1>10. Below(S, 0) /\ ToldUpTo(S, 0)
    BY <1>7 DEF Below, ToldUpTo
  <1>11. LogInv(S, ring)
    BY <1>7, <1>8, <1>9, <1>10 DEF LogInv, Whole, Told, Counted
  <1> QED BY <1>4, <1>5, <1>6, <1>11 DEF TraceInv, S

\* A record that reports earlier loss keeps the invariant.
LEMMA ReportKeeps ==
    ASSUME NEW r \in Rings, Linked(r), NEW rd \in Seq(Record),
           LogInv(History(rd, r), r)
    PROVE  LET m == report_overflow(r) IN
           /\ m \in Rings /\ Linked(m)
           /\ LogInv(History(rd, m), m)
  <1> DEFINE m == report_overflow(r)
  <1>1. CASE ~ReportDue(r)
    BY <1>1, ReportEffect
  <1>2. CASE ReportDue(r)
    <2>1. Reported(r, m)
      BY <1>2, ReportEffect
    <2> HIDE DEF m
    <2>2. /\ m \in Rings /\ Linked(m) /\ ~SequenceRunsOut(r, 1)
          /\ r.dropped # r.reported_dropped
          /\ Appended(Unread(r), Unread(m), r.next_sequence, 1, "OVERFLOW",
                      LossReport(r))
          /\ m.attempted = AddSaturating(r.attempted, 1)
          /\ m.emitted = AddSaturating(r.emitted, 1)
          /\ m.dropped = r.dropped /\ m.reported_dropped = r.dropped
          /\ Number(m) = r.next_sequence + 1
      BY <2>1 DEF Reported
    <2>3. 1 \in Batches
      BY TraceConstants DEF Batches
    <2>4. Appended(History(rd, r), History(rd, m), r.next_sequence, 1,
                   "OVERFLOW", LossReport(r))
      BY <2>2, HistoryGrows
    <2>5. LogInv(History(rd, m), m)
      BY <2>2, <2>3, <2>4, AcceptedKeeps DEF LossReport
    <2> QED BY <2>2, <2>5 DEF m
  <1> QED BY <1>1, <1>2

\* So does the push of a batch of events.
LEMMA PushKeeps ==
    ASSUME NEW r \in Rings, Linked(r), NEW rd \in Seq(Record),
           NEW count \in Batches, LogInv(History(rd, r), r)
    PROVE  LET s == push_batch(r, "EVENT", NoReport, count) IN
           /\ s \in Rings /\ Linked(s)
           /\ LogInv(History(rd, s), s)
  <1> DEFINE s == push_batch(r, "EVENT", NoReport, count)
  <1>1. NoReport \in Reports
    BY TraceNumbers DEF NoReport, Reports
  <1>2. \/ s = r
        \/ Accepting(r, s, "EVENT", NoReport, count)
        \/ Losing(r, s, count)
    BY <1>1, PushEffect
  <1> HIDE DEF s
  <1>3. CASE s = r
    BY <1>3 DEF s
  <1>4. CASE Accepting(r, s, "EVENT", NoReport, count)
    <2>1. /\ s \in Rings /\ Linked(s) /\ ~SequenceRunsOut(r, count)
          /\ Appended(Unread(r), Unread(s), r.next_sequence, count, "EVENT",
                      NoReport)
          /\ s.attempted = AddSaturating(r.attempted, count)
          /\ s.emitted = AddSaturating(r.emitted, count)
          /\ s.dropped = r.dropped
          /\ s.reported_dropped = r.reported_dropped
          /\ Number(s) = r.next_sequence + count
      BY <1>4 DEF Accepting, Spent
    <2>2. Appended(History(rd, r), History(rd, s), r.next_sequence, count,
                   "EVENT", NoReport)
      BY <2>1, HistoryGrows, TraceNumbers
    <2>3. LogInv(History(rd, s), s)
      BY <2>1, <2>2, AcceptedKeeps
    <2> QED BY <2>1, <2>3 DEF s
  <1>5. CASE Losing(r, s, count)
    <2>1. s \in Rings /\ Linked(s) /\ History(rd, s) = History(rd, r)
      BY <1>5 DEF Losing, Spent, History
    <2>2. History(rd, r) \in Seq(Record)
      BY HistoryItems
    <2>3. LogInv(History(rd, r), s)
      BY <1>5, <2>2, LostKeeps
    <2> QED BY <2>1, <2>3 DEF s
  <1> QED BY <1>2, <1>3, <1>4, <1>5

\* A producer's call keeps the invariant.
LEMMA EmitKeeps ==
    ASSUME TraceInv, NEW count \in Batches, Emit(count)
    PROVE  TraceInv'
  <1> DEFINE m == report_overflow(ring)
  <1>1. m \in Rings /\ Linked(m) /\ LogInv(History(read, m), m)
    BY ReportKeeps DEF TraceInv
  <1> HIDE DEF m
  <1> DEFINE s == push_batch(m, "EVENT", NoReport, count)
  <1>2. read \in Seq(Record)
    BY DEF TraceInv
  <1>3. s \in Rings /\ Linked(s) /\ LogInv(History(read, s), s)
    BY <1>1, <1>2, PushKeeps
  <1>4. ring' = s /\ read' = read
    BY DEF Emit, m
  <1> HIDE DEF s
  <1>5. /\ ring' \in Rings /\ read' \in Seq(Record)
        /\ Linked(ring') /\ LogInv(History(read', ring'), ring')
    BY <1>2, <1>3, <1>4
  <1> QED BY <1>5 DEF TraceInv

\* So does a pop.
LEMMA PopKeeps ==
    ASSUME TraceInv, Pop
    PROVE  TraceInv'
  <1> DEFINE s == popped(ring)
             rd == Append(read, ring.records[ring.read_index])
  <1>1. /\ ring \in Rings /\ Linked(ring) /\ ring.count > 0
        /\ read \in Seq(Record) /\ LogInv(History(read, ring), ring)
    BY DEF TraceInv, Pop
  <1>2. /\ s \in Rings /\ Linked(s) /\ rd \in Seq(Record)
        /\ History(rd, s) = History(read, ring)
    BY <1>1, PopEffect
  <1>3. ring' = s /\ read' = rd
    BY DEF Pop
  <1>4. /\ s.attempted = ring.attempted /\ s.emitted = ring.emitted
        /\ s.dropped = ring.dropped /\ s.next_sequence = ring.next_sequence
        /\ s.reported_dropped = ring.reported_dropped
        /\ s.sequence_exhausted = ring.sequence_exhausted
    BY <1>1 DEF popped, Rings
  <1> HIDE DEF s, rd
  <1>5. LogInv(History(rd, s), s)
    BY <1>1, <1>2, <1>4 DEF LogInv, Counted
  <1>6. /\ ring' \in Rings /\ read' \in Seq(Record)
        /\ Linked(ring') /\ LogInv(History(read', ring'), ring')
    BY <1>2, <1>3, <1>5
  <1> QED BY <1>6 DEF TraceInv

\* So does closing.
LEMMA CloseKeeps ==
    ASSUME TraceInv, Close
    PROVE  TraceInv'
  <1> DEFINE s == [ring EXCEPT !.enabled = FALSE]
  <1>1. /\ ring \in Rings /\ Linked(ring)
        /\ read \in Seq(Record) /\ LogInv(History(read, ring), ring)
    BY DEF TraceInv
  <1>2. ring' = s /\ read' = read
    BY DEF Close
  <1>3. /\ s \in Rings
        /\ s.attempted = ring.attempted /\ s.emitted = ring.emitted
        /\ s.dropped = ring.dropped /\ s.next_sequence = ring.next_sequence
        /\ s.reported_dropped = ring.reported_dropped
        /\ s.sequence_exhausted = ring.sequence_exhausted
        /\ s.records = ring.records /\ s.read_index = ring.read_index
        /\ s.write_index = ring.write_index /\ s.count = ring.count
    BY <1>1 DEF Rings
  <1> HIDE DEF s
  <1>4. Linked(s) /\ History(read, s) = History(read, ring)
    BY <1>1, <1>3 DEF Linked, History, Unread
  <1>5. LogInv(History(read, s), s)
    BY <1>1, <1>3, <1>4 DEF LogInv, Counted
  <1>6. /\ ring' \in Rings /\ read' \in Seq(Record)
        /\ Linked(ring') /\ LogInv(History(read', ring'), ring')
    BY <1>1, <1>2, <1>3, <1>4, <1>5
  <1> QED BY <1>6 DEF TraceInv

\* The invariant holds in every reachable state: the ring is well formed, and
\* its history and counters agree.
THEOREM TraceSafe == Spec => []TraceInv
  <1>1. Init => TraceInv
    BY InitTrace
  <1>2. TraceInv /\ [Next]_vars => TraceInv'
    <2> SUFFICES ASSUME TraceInv, [Next]_vars PROVE TraceInv'
      OBVIOUS
    <2>1. ASSUME NEW count \in Batches, Emit(count) PROVE TraceInv'
      BY <2>1, EmitKeeps
    <2>2. CASE Pop
      BY <2>2, PopKeeps
    <2>3. CASE Close
      BY <2>3, CloseKeeps
    <2>4. CASE UNCHANGED vars
      <3>1. ring' = ring /\ read' = read
        BY <2>4 DEF vars
      <3>2. /\ ring' \in Rings /\ read' \in Seq(Record)
            /\ Linked(ring') /\ LogInv(History(read', ring'), ring')
        BY <3>1 DEF TraceInv
      <3> QED BY <3>2 DEF TraceInv
    <2> QED BY <2>1, <2>2, <2>3, <2>4 DEF Next
  <1> QED BY <1>1, <1>2, PTL DEF Spec

\* What is accepted is in order and every batch is whole (push_batch checks
\* the space for all of a batch before it writes any of it).
THEOREM BatchesWholeSafe == Spec => []BatchesWhole
  <1>1. TraceInv => BatchesWhole
    BY DEF TraceInv, LogInv, Whole, BatchesWhole, History, Accepted
  <1> QED BY <1>1, TraceSafe, PTL

\* Every attempt is an accepted record or a counted loss, until the sequence
\* numbers are out.
THEOREM AttemptsSafe == Spec => []AttemptsAccounted
  <1>1. TraceInv => AttemptsAccounted
    BY DEF TraceInv, LogInv, Counted, AttemptsAccounted, History, Accepted
  <1> QED BY <1>1, TraceSafe, PTL

\* Every overflow record tells the loss before it exactly.
THEOREM ReportsSafe == Spec => []ReportsExact
  <1>1. TraceInv => ReportsExact
    BY DEF TraceInv, LogInv, Told, ReportsExact, History, Accepted
  <1> QED BY <1>1, TraceSafe, PTL

----------------------------------------------------------------------------
\* The circular buffer is a bounded log.

\* Appending splits the sequence into what was there and the batch.
LEMMA AppendedSplits ==
    ASSUME NEW S, NEW T, NEW first \in Nat, NEW count \in Nat \ {0},
           NEW event, NEW report,
           Appended(S, T, first, count, event, report)
    PROVE  LET batch == SubSeq(T, Len(S) + 1, Len(T)) IN
           /\ T = S \o batch
           /\ Log!Numbered(batch, first, count, event)
           /\ \A k \in 1 .. count : batch[k].report = report
           /\ SubSeq(T, 1, Len(S)) = S
  <1> DEFINE n == Len(S)
             b == SubSeq(T, n + 1, Len(T))
  <1>1. /\ S \in Seq(Record) /\ T \in Seq(Record)
        /\ n \in Nat /\ Len(T) = n + count
    BY LenProperties DEF Appended
  <1>2. /\ \A i \in 1 .. n : T[i] = S[i]
        /\ \A k \in 1 .. count :
              T[n + k] = Item(first, k, event, report, count)
    BY DEF Appended
  <1>3. \A i \in 1 .. Len(T) : T[i] \in Record
    BY <1>1, ElementOfSeq
  <1>4. /\ b \in Seq(Record) /\ Len(b) = count
        /\ \A k \in 1 .. count : b[k] = T[n + k]
    <2> HIDE DEF n
    <2> DEFINE low == n + 1
               high == n + count
    <2>1. /\ low \in Int /\ high \in Int /\ low <= high
          /\ high - low + 1 = count
          /\ \A i \in low .. high : i \in 1 .. Len(T)
          /\ \A k \in 1 .. count : low + k - 1 = n + k
      BY <1>1
    <2>2. \A i \in low .. high : T[i] \in Record
      BY <1>3, <2>1
    <2>3. b = SubSeq(T, low, high)
      BY <1>1
    <2> HIDE DEF low, high, b
    <2>4. /\ SubSeq(T, low, high) \in Seq(Record)
          /\ Len(SubSeq(T, low, high)) = high - low + 1
          /\ \A k \in 1 .. high - low + 1 :
                SubSeq(T, low, high)[k] = T[low + k - 1]
      BY <2>1, <2>2, SubSeqProperties
    <2> QED BY <2>1, <2>3, <2>4
  <1> HIDE DEF b
  <1>5. ASSUME NEW k \in 1 .. count
        PROVE  /\ b[k].sequence = first + k - 1
               /\ b[k].first = first /\ b[k].event = event
               /\ b[k].report = report
    <2> DEFINE item == b[k]
    <2>1. item = Item(first, k, event, report, count)
      BY <1>2, <1>4
    <2> HIDE DEF item
    <2>2. /\ item.sequence = first + k - 1
          /\ item.first = first /\ item.event = event
          /\ item.report = report
      BY <2>1 DEF Item
    <2> QED BY <2>2 DEF item
  <1>6. T = S \o b
    <2>1. /\ S \o b \in Seq(Record)
          /\ Len(S \o b) = n + Len(b)
          /\ \A i \in 1 .. n + Len(b) :
                (S \o b)[i] = IF i <= n THEN S[i] ELSE b[i - n]
      BY <1>1, <1>4, ConcatProperties
    <2> DEFINE U == S \o b
    <2> HIDE DEF n, U
    <2>2. ASSUME NEW i \in 1 .. Len(T) PROVE T[i] = U[i]
      <3>1. CASE i <= n
        <4>1. i \in 1 .. n /\ i \in 1 .. n + Len(b)
          BY <1>1, <1>4, <3>1
        <4> QED BY <1>2, <2>1, <3>1, <4>1 DEF U
      <3>2. CASE ~(i <= n)
        <4> DEFINE k == i - n
        <4>1. k \in 1 .. count /\ i = n + k /\ i \in 1 .. n + Len(b)
          BY <1>1, <1>4, <3>2
        <4>2. U[i] = b[k]
          BY <2>1, <3>2, <4>1 DEF U
        <4> HIDE DEF k
        <4> QED BY <1>4, <4>1, <4>2
      <3> QED BY <3>1, <3>2
    <2>3. Len(U) = Len(T) /\ U \in Seq(Record)
      BY <1>1, <1>4, <2>1 DEF U
    <2>4. T = U
      BY <1>1, <2>2, <2>3, SeqEqual
    <2> QED BY <2>4 DEF U
  <1>7. SubSeq(T, 1, n) = S
    <2> DEFINE P == SubSeq(T, 1, n)
    <2> HIDE DEF n
    <2>1. /\ 1 \in Int /\ n \in Int
          /\ \A i \in 1 .. n : T[i] \in Record
      BY <1>1, <1>3
    <2>2. /\ P \in Seq(Record)
          /\ Len(P) = IF 1 <= n THEN n - 1 + 1 ELSE 0
          /\ \A i \in 1 .. n - 1 + 1 : P[i] = T[1 + i - 1]
      BY <2>1, SubSeqProperties
    <2> HIDE DEF P
    <2>3. Len(P) = n /\ n - 1 + 1 = n
      BY <1>1, <2>2
    <2>4. ASSUME NEW i \in 1 .. n PROVE P[i] = S[i]
      <3>1. 1 + i - 1 = i
        BY <1>1
      <3> QED BY <1>2, <2>2, <2>3, <3>1
    <2>5. Len(P) = Len(S) /\ \A i \in 1 .. Len(P) : P[i] = S[i]
      BY <2>3, <2>4 DEF n
    <2>6. P = S
      BY <1>1, <2>2, <2>5, SeqEqual
    <2> QED BY <2>6 DEF P
  <1>8. Log!Numbered(b, first, count, event)
    BY <1>4, <1>5 DEF Log!Numbered
  <1> QED BY <1>5, <1>6, <1>7, <1>8 DEF b

\* A sequence with one record appended.
LEMMA AppendedOne ==
    ASSUME NEW S, NEW T, NEW first \in Nat, NEW event, NEW report,
           Appended(S, T, first, 1, event, report)
    PROVE  LET last == T[Len(T)] IN
           /\ Len(T) = Len(S) + 1
           /\ T = Append(S, last)
           /\ Log!Numbered(<<last>>, first, 1, event)
           /\ last.report = report
  <1> DEFINE last == T[Len(T)]
             A == Append(S, last)
  <1>1. /\ S \in Seq(Record) /\ T \in Seq(Record)
        /\ Len(S) \in Nat /\ Len(T) = Len(S) + 1
        /\ \A i \in 1 .. Len(S) : T[i] = S[i]
    BY LenProperties DEF Appended
  <1>2. last = Item(first, 1, event, report, 1)
    <2>1. T[Len(S) + 1] = Item(first, 1, event, report, 1)
      BY DEF Appended
    <2> QED BY <1>1, <2>1
  <1>3. last \in Record
    BY <1>1, ElementOfSeq
  <1> HIDE DEF last
  <1>4. /\ A \in Seq(Record) /\ Len(A) = Len(S) + 1
        /\ \A i \in 1 .. Len(S) : A[i] = S[i]
        /\ A[Len(S) + 1] = last
    BY <1>1, <1>3, AppendProperties
  <1> HIDE DEF A
  <1>5. T[Len(S) + 1] = last
    BY <1>1 DEF last
  <1>6. ASSUME NEW i \in 1 .. Len(T) PROVE T[i] = A[i]
    <2>1. CASE i \in 1 .. Len(S)
      BY <1>1, <1>4, <2>1
    <2>2. CASE i = Len(S) + 1
      BY <1>4, <1>5, <2>2
    <2> QED BY <1>1, <2>1, <2>2
  <1>7. T = A
    BY <1>1, <1>4, <1>6, SeqEqual
  <1>8. /\ last.sequence = first /\ last.first = first
        /\ last.event = event /\ last.report = report
    BY <1>2 DEF Item
  <1>9. Log!Numbered(<<last>>, first, 1, event)
    <2> DEFINE one == <<last>>
    <2>1. Len(one) = 1 /\ one[1] = last
      OBVIOUS
    <2> HIDE DEF one
    <2>2. first + 1 - 1 = first
      OBVIOUS
    <2>3. \A k \in 1 .. 1 : k = 1
      OBVIOUS
    <2>4. \A k \in 1 .. 1 : /\ one[k].sequence = first + k - 1
                            /\ one[k].first = first
                            /\ one[k].event = event
      BY <1>8, <2>1, <2>2, <2>3
    <2>5. Log!Numbered(one, first, 1, event)
      BY <2>1, <2>4 DEF Log!Numbered
    <2> QED BY <2>5 DEF one
  <1> QED BY <1>1, <1>7, <1>8, <1>9 DEF A, last

\* The push of a batch offers it to the log, or is refused for its size.
LEMMA PushImplements ==
    ASSUME NEW m \in Rings, Linked(m), m.enabled, NEW count \in Batches,
           ring' = push_batch(m, "EVENT", NoReport, count)
    PROVE  /\ \/ Log!Offered(Unread(m), Number(m), count, m.dropped)
              \/ Log!Refused(Unread(m), Number(m), count, m.dropped)
           /\ Unread(ring') \in Seq(Record)
           /\ Len(Unread(ring')) >= Len(Unread(m))
           /\ SubSeq(Unread(ring'), 1, Len(Unread(m))) = Unread(m)
           /\ ring'.reported_dropped = m.reported_dropped
           /\ ring'.enabled = m.enabled
  <1> DEFINE U == Unread(m)
             s == push_batch(m, "EVENT", NoReport, count)
  <1>1. NoReport \in Reports
    BY TraceNumbers DEF NoReport, Reports
  <1>2. \/ ~PushAllowed(m, count) /\ s = m
        \/ PushAllowed(m, count) /\ Accepting(m, s, "EVENT", NoReport, count)
        \/ PushAllowed(m, count) /\ Losing(m, s, count)
    BY <1>1, PushEffect
  <1>3. ring' = s
    OBVIOUS
  <1> HIDE DEF s
  <1>4. /\ m.next_sequence \in Nat /\ m.count \in Nat /\ Capacity \in Nat
        /\ count \in Nat \ {0}
        /\ U \in Seq(Record) /\ Len(U) = m.count /\ Len(U) \in Nat
    BY TraceNumbers, UnreadItems DEF Rings
  <1>5. PushAllowed(m, count) <=> count <= Capacity
    BY DEF PushAllowed
  <1>6. SequenceRunsOut(m, count) <=> ~Log!NumbersLeft(Number(m), count)
    BY NumberRange DEF Log!NumbersLeft
  <1>7. Fits(m, count) <=> Len(U) + count <= Capacity
    BY <1>4 DEF Fits
  <1>8. ~SequenceRunsOut(m, count) => Number(m) = m.next_sequence
    BY DEF SequenceRunsOut, Number
  <1>9. /\ SubSeq(U, 1, Len(U)) = U /\ Len(U) >= Len(U)
        /\ U \in Seq(Record)
    <2>1. U \in Seq(Record) /\ Len(U) \in Nat
      BY <1>4
    <2> HIDE DEF U
    <2> QED BY <2>1, SubSeqFull
  <1>10. CASE ~PushAllowed(m, count)
    <2>1. ring' = m /\ count > Capacity
      BY <1>2, <1>3, <1>4, <1>5, <1>10
    <2>2. Log!Refused(U, Number(m), count, m.dropped)
      BY <2>1 DEF Log!Refused, Number
    <2>3. Unread(ring') = U
      BY <2>1
    <2> QED BY <1>9, <2>1, <2>2, <2>3
  <1>11. CASE PushAllowed(m, count) /\ Losing(m, s, count)
    <2>1. /\ SequenceRunsOut(m, count) \/ ~Fits(m, count)
          /\ Unread(s) = U /\ s.dropped = AddSaturating(m.dropped, count)
          /\ s.reported_dropped = m.reported_dropped /\ s.enabled = m.enabled
          /\ Number(s) = IF SequenceRunsOut(m, count) THEN UINT32_MAX + 1
                         ELSE m.next_sequence + count
      BY <1>11 DEF Losing, Spent
    <2>2. ~(/\ Log!NumbersLeft(Number(m), count)
            /\ Len(U) + count <= Capacity)
      BY <1>6, <1>7, <2>1
    <2>3. Number(s) = IF Log!NumbersLeft(Number(m), count)
                      THEN Number(m) + count ELSE UINT32_MAX + 1
      BY <1>6, <1>8, <2>1
    <2>4. Log!Offered(U, Number(m), count, m.dropped)
      BY <1>3, <1>5, <1>11, <2>1, <2>2, <2>3
         DEF Log!Offered, Number, AddSaturating
    <2>5. Unread(ring') = U
      BY <1>3, <2>1
    <2> QED BY <1>3, <1>9, <2>1, <2>4, <2>5
  <1>12. CASE /\ PushAllowed(m, count)
              /\ Accepting(m, s, "EVENT", NoReport, count)
    <2> DEFINE V == Unread(s)
               batch == SubSeq(V, Len(U) + 1, Len(V))
    <2>1. /\ ~SequenceRunsOut(m, count) /\ Fits(m, count)
          /\ Appended(U, V, m.next_sequence, count, "EVENT", NoReport)
          /\ s.dropped = m.dropped
          /\ s.reported_dropped = m.reported_dropped /\ s.enabled = m.enabled
          /\ Number(s) = m.next_sequence + count
      BY <1>12 DEF Accepting, Spent
    <2>2. V \in Seq(Record) /\ Len(V) = Len(U) + count /\ Len(V) >= Len(U)
      <3>1. V \in Seq(Record) /\ Len(V) = Len(U) + count
        BY <2>1 DEF Appended
      <3> HIDE DEF U, V
      <3> QED BY <1>4, <3>1
    <2>3. /\ V = U \o batch
          /\ Log!Numbered(batch, m.next_sequence, count, "EVENT")
          /\ SubSeq(V, 1, Len(U)) = U
      <3> HIDE DEF U, V
      <3> QED BY <1>4, <2>1, AppendedSplits
    <2>4. /\ Log!NumbersLeft(Number(m), count)
          /\ Len(U) + count <= Capacity
          /\ Number(m) = m.next_sequence /\ count <= Capacity
          /\ Number(s) = Number(m) + count
      BY <1>5, <1>6, <1>7, <1>8, <1>12, <2>1
    <2>5. Unread(ring') = V
      BY <1>3
    <2>6. Log!Offered(U, Number(m), count, m.dropped)
      BY <1>3, <2>1, <2>3, <2>4, <2>5 DEF Log!Offered, Number
    <2> QED BY <1>3, <2>1, <2>2, <2>3, <2>5, <2>6
  <1> QED BY <1>2, <1>10, <1>11, <1>12

\* A producer's call is one attempt of the log, or nothing once it is closed.
LEMMA EmitImplements ==
    ASSUME TraceInv, NEW count \in Batches, Emit(count)
    PROVE  Log!Attempt(count) \/ UNCHANGED Log!vars
  <1> DEFINE m == report_overflow(ring)
             U == Unread(ring)
             W == Unread(m)
             V == Unread(ring')
  <1>1. /\ ring \in Rings /\ Linked(ring)
        /\ read' = read /\ ring' = push_batch(m, "EVENT", NoReport, count)
    BY DEF TraceInv, Emit
  <1>2. CASE ~ring.enabled
    <2>1. m = ring
      BY <1>2 DEF report_overflow, ReportDue
    <2>2. ring' = ring
      BY <1>1, <1>2, <2>1 DEF push_batch, PushAllowed
    <2>3. UNCHANGED Log!vars
      BY <1>1, <2>2 DEF Log!vars
    <2> QED BY <2>3
  <1>3. CASE ring.enabled
    <2>1. Log!ToReport <=> ReportDue(ring)
      <3>1. Len(Unread(ring)) = ring.count
        BY <1>1, UnreadItems
      <3>2. /\ Number(ring) \in Nat /\ UINT32_MAX \in Nat
            /\ ~ring.sequence_exhausted <=> Number(ring) <= UINT32_MAX
        BY <1>1, NumberRange, TraceNumbers
      <3>3. Log!NumbersLeft(Number(ring), 1) <=> ~ring.sequence_exhausted
        BY <3>2 DEF Log!NumbersLeft
      <3>4. Log!NumbersLeft(IF ring.sequence_exhausted THEN UINT32_MAX + 1
                            ELSE ring.next_sequence, 1)
              <=> ~ring.sequence_exhausted
        BY <3>3 DEF Number
      <3> QED BY <1>3, <3>1, <3>4 DEF Log!ToReport, ReportDue
    <2>2. CASE ~ReportDue(ring)
      <3>1. m = ring
        BY <1>1, <2>2, ReportEffect
      <3>2. /\ \/ Log!Offered(U, Number(ring), count, ring.dropped)
               \/ Log!Refused(U, Number(ring), count, ring.dropped)
            /\ ring'.reported_dropped = ring.reported_dropped
            /\ ring'.enabled = ring.enabled
        BY <1>1, <1>3, <3>1, PushImplements
      <3>3. Log!Attempt(count)
        BY <1>1, <1>3, <2>1, <2>2, <3>2 DEF Log!Attempt, Number
      <3> QED BY <3>3
    <2>3. CASE ReportDue(ring)
      <3>1. Reported(ring, m)
        BY <1>1, <2>3, ReportEffect
      <3> HIDE DEF m
      <3>2. /\ m \in Rings /\ Linked(m) /\ m.enabled
            /\ Appended(U, W, ring.next_sequence, 1, "OVERFLOW",
                        LossReport(ring))
            /\ m.dropped = ring.dropped
            /\ m.reported_dropped = ring.dropped
            /\ Number(m) = ring.next_sequence + 1
            /\ Number(ring) = ring.next_sequence
            /\ ring.next_sequence \in Nat
        BY <1>1, <1>3, <3>1, TraceNumbers
           DEF Reported, SequenceRunsOut, Number, Rings
      <3>3. /\ \/ Log!Offered(W, Number(m), count, m.dropped)
               \/ Log!Refused(W, Number(m), count, m.dropped)
            /\ V \in Seq(Record) /\ Len(V) >= Len(W)
            /\ SubSeq(V, 1, Len(W)) = W
            /\ ring'.reported_dropped = m.reported_dropped
            /\ ring'.enabled = m.enabled
        BY <1>1, <3>2, PushImplements
      <3> DEFINE last == W[Len(W)]
      <3>4. /\ Len(W) = Len(U) + 1
            /\ W = Append(U, last)
            /\ Log!Numbered(<<last>>, ring.next_sequence, 1, "OVERFLOW")
            /\ last.report = LossReport(ring)
        <4> HIDE DEF U, W
        <4> QED BY <3>2, AppendedOne
      <3>5. last.report.dropped = ring.dropped
        BY <3>4 DEF LossReport
      <3>6. Len(V) > Len(U) /\ SubSeq(V, 1, Len(U) + 1) = W
        <4>1. Len(U) \in Nat /\ Len(V) \in Nat
          BY <1>1, <3>3, UnreadItems, LenProperties
        <4> HIDE DEF U, V, W, last
        <4> QED BY <3>3, <3>4, <4>1
      <3>7. /\ \/ Log!Offered(W, Number(ring) + 1, count, ring.dropped)
               \/ Log!Refused(W, Number(ring) + 1, count, ring.dropped)
            /\ ring'.reported_dropped = ring.dropped
            /\ ring'.enabled = ring.enabled
        BY <1>3, <3>2, <3>3
      <3>8. Log!Attempt(count)
        <4> HIDE DEF last, W
        <4> QED BY <1>1, <1>3, <2>1, <2>3, <3>2, <3>4, <3>5, <3>6, <3>7
                DEF Log!Attempt, Number, last
      <3> QED BY <3>8
    <2> QED BY <2>2, <2>3
  <1> QED BY <1>2, <1>3

\* A pop takes the oldest record of the log.
LEMMA PopImplements ==
    ASSUME TraceInv, Pop
    PROVE  Log!Take
  <1>1. /\ ring \in Rings /\ Linked(ring) /\ ring.count > 0
        /\ read \in Seq(Record)
        /\ read' = Append(read, ring.records[ring.read_index])
        /\ ring' = popped(ring)
    BY DEF TraceInv, Pop
  <1>2. /\ Unread(ring) # << >>
        /\ ring.records[ring.read_index] = Head(Unread(ring))
        /\ Unread(popped(ring)) = Tail(Unread(ring))
    BY <1>1, PopEffect
  <1>3. /\ ring'.sequence_exhausted = ring.sequence_exhausted
        /\ ring'.next_sequence = ring.next_sequence
        /\ ring'.dropped = ring.dropped
        /\ ring'.reported_dropped = ring.reported_dropped
        /\ ring'.enabled = ring.enabled
    BY <1>1 DEF popped, Rings
  <1>4. read' = Append(read, Head(Unread(ring)))
    BY <1>1, <1>2
  <1>5. Unread(ring') = Tail(Unread(ring))
    BY <1>1, <1>2
  <1> QED BY <1>2, <1>3, <1>4, <1>5 DEF Log!Take

\* Closing the ring closes the log.
LEMMA CloseImplements ==
    ASSUME TraceInv, Close
    PROVE  Log!CloseLog
  <1>1. ring \in Rings /\ ring.enabled /\ read' = read
        /\ ring' = [ring EXCEPT !.enabled = FALSE]
    BY DEF TraceInv, Close
  <1>2. /\ ring'.sequence_exhausted = ring.sequence_exhausted
        /\ ring'.next_sequence = ring.next_sequence
        /\ ring'.dropped = ring.dropped
        /\ ring'.reported_dropped = ring.reported_dropped
        /\ ring'.enabled = FALSE
        /\ ring'.records = ring.records /\ ring'.count = ring.count
        /\ ring'.read_index = ring.read_index
    BY <1>1 DEF Rings
  <1>3. Unread(ring') = Unread(ring)
    BY <1>2 DEF Unread
  <1> QED BY <1>1, <1>2, <1>3 DEF Log!CloseLog

\* An empty ring is an empty log.
LEMMA InitImplements == Init => Log!Init
  <1> SUFFICES ASSUME Init PROVE Log!Init
    OBVIOUS
  <1>1. Unread(ring) = << >>
    <2>1. TraceInv
      BY InitTrace
    <2>2. ring.count = 0
      BY DEF Init, EmptyRing
    <2>3. Unread(ring) \in Seq(Record) /\ Len(Unread(ring)) = 0
      BY <2>1, <2>2, UnreadItems DEF TraceInv
    <2> DEFINE U == Unread(ring)
    <2> HIDE DEF U
    <2>4. U \in Seq(Record) /\ Len(U) = 0
      BY <2>3 DEF U
    <2>5. U = << >>
      BY <2>4, EmptySeq
    <2> QED BY <2>5 DEF U
  <1>2. /\ read = << >> /\ ring.dropped = 0 /\ ring.reported_dropped = 0
        /\ ring.enabled = TRUE /\ ring.sequence_exhausted = FALSE
        /\ ring.next_sequence = 0
    BY DEF Init, EmptyRing
  <1> QED BY <1>1, <1>2 DEF Log!Init

\* The circular buffer of trace.c, driven as trace_runtime.c drives it, is the
\* bounded log of TraceLog: first in first out, whole batches, loss told.
THEOREM LogImplemented == Spec => ImplementsLog
  <1>1. Init => Log!Init
    BY InitImplements
  <1>2. TraceInv /\ [Next]_vars => [Log!Next]_(Log!vars)
    <2> SUFFICES ASSUME TraceInv, [Next]_vars
                 PROVE  [Log!Next]_(Log!vars)
      OBVIOUS
    <2>1. ASSUME NEW count \in Batches, Emit(count)
          PROVE  [Log!Next]_(Log!vars)
      <3>1. count \in 1 .. OS_TRACE_MAX_BATCH_RECORDS
        BY DEF Batches
      <3> QED BY <2>1, <3>1, EmitImplements DEF Log!Next
    <2>2. CASE Pop
      BY <2>2, PopImplements DEF Log!Next
    <2>3. CASE Close
      BY <2>3, CloseImplements DEF Log!Next
    <2>4. CASE UNCHANGED vars
      <3>1. ring' = ring /\ read' = read
        BY <2>4 DEF vars
      <3>2. UNCHANGED Log!vars
        BY <3>1 DEF Log!vars
      <3> QED BY <3>2
    <2> QED BY <2>1, <2>2, <2>3, <2>4 DEF Next
  <1> QED BY <1>1, <1>2, TraceSafe, PTL DEF Spec, ImplementsLog, Log!Spec

----------------------------------------------------------------------------
\* The end of a trace.

Footers == [attempted : Counts, emitted : Counts, dropped : Counts,
            final_sequence : Int, flags : {0, 1}]

Frame ==
    [type : {"RECORD"}, record : Record]
        \cup [type : {"FOOTER"}, footer : Footers]
        \cup {BrokenFrame}

Steps == {"open", "drain", "record", "footer", "done", "failed"}

\* The ring is open until os_trace_finish closes it; from then on its counters
\* are the footer's; and what was offered is what the ring was asked to take.
EndInv ==
    /\ step \in Steps
    /\ step = "open" <=> ring.enabled
    /\ step # "open" => final = Footer(ring)
    /\ final \in Footers
    /\ offered \in Nat
    /\ ~ring.sequence_exhausted => offered = ring.attempted

\* The frames are the records read, in order; the last one may be broken, or
\* the footer, once every record is read.
WireItem(i) ==
    \/ i <= Len(read) /\ wire[i] = RecordFrame(read[i])
    \/ i = Len(wire) /\ step = "failed" /\ wire[i] = BrokenFrame
    \/ /\ i = Len(wire) /\ step \in {"done", "failed"}
       /\ i = Len(read) + 1 /\ ring.count = 0
       /\ wire[i] = FooterFrame(final)

WireInv ==
    /\ wire \in Seq(Frame)
    /\ \A i \in 1 .. Len(wire) : WireItem(i)
    /\ step = "open" => Len(wire) = 0 /\ Len(read) = 0
    /\ step \in {"drain", "footer"} => Len(wire) = Len(read)
    /\ step = "record" => Len(read) = Len(wire) + 1
    /\ step = "done" => Len(wire) = Len(read) + 1
    /\ step = "footer" => ring.count = 0

\* A history without loss holds events only, numbered without a gap.
Clean(S, r) ==
    r.dropped = 0 =>
        \A i \in 1 .. Len(S) :
            /\ S[i].event = "EVENT"
            /\ ~r.sequence_exhausted => S[i].sequence = i - 1

RuntimeInv ==
    /\ TraceInv
    /\ EndInv
    /\ WireInv
    /\ Clean(History(read, ring), ring)
----------------------------------------------------------------------------
\* A producer's call.

\* The report of earlier loss is one attempt more, and leaves a clean history
\* clean: without loss there is no report.
LEMMA ReportCounts ==
    ASSUME NEW r \in Rings, Linked(r), NEW rd \in Seq(Record),
           LogInv(History(rd, r), r), Clean(History(rd, r), r)
    PROVE  LET m == report_overflow(r) IN
           /\ m \in Rings /\ Linked(m) /\ LogInv(History(rd, m), m)
           /\ m.enabled = r.enabled
           /\ ~m.sequence_exhausted =>
                /\ ~r.sequence_exhausted
                /\ m.attempted = r.attempted + (IF ReportDue(r) THEN 1 ELSE 0)
           /\ Clean(History(rd, m), m)
  <1> DEFINE m == report_overflow(r)
  <1>1. m \in Rings /\ Linked(m) /\ LogInv(History(rd, m), m)
    BY ReportKeeps
  <1>2. r.attempted \in Nat /\ r.dropped \in Nat /\ r.reported_dropped \in Nat
    BY TraceNumbers DEF Rings
  <1>3. CASE ~ReportDue(r)
    <2>1. m = r
      BY <1>3, ReportEffect
    <2> HIDE DEF m
    <2> QED BY <1>2, <1>3, <2>1 DEF m
  <1>4. CASE ReportDue(r)
    <2>1. Reported(r, m)
      BY <1>4, ReportEffect
    <2> HIDE DEF m
    <2>2. /\ m.enabled = r.enabled /\ ~SequenceRunsOut(r, 1)
          /\ Number(m) = r.next_sequence + 1
          /\ m.attempted = AddSaturating(r.attempted, 1)
          /\ m.dropped = r.dropped /\ r.dropped # r.reported_dropped
      BY <2>1 DEF Reported
    <2>3. r.reported_dropped <= r.dropped
      BY DEF LogInv
    <2>4. m.dropped # 0
      BY <1>2, <2>2, <2>3
    <2>5. ASSUME ~m.sequence_exhausted
          PROVE  ~r.sequence_exhausted /\ m.attempted = r.attempted + 1
      <3>1. 1 \in Batches /\ r.attempted \in Counts
        BY TraceConstants DEF Batches, Rings
      <3>2. ~r.sequence_exhausted /\ r.next_sequence + 1 <= UINT32_MAX
        BY <1>1, <2>2, <2>5, <3>1, NumbersSpent DEF m
      <3>3. r.attempted = r.next_sequence
        BY <3>2 DEF LogInv, Counted
      <3> QED BY <2>2, <3>1, <3>2, <3>3, AddType
    <2> QED BY <1>1, <1>4, <2>2, <2>4, <2>5 DEF Clean, m
  <1> QED BY <1>3, <1>4

\* A batch counts as many attempts as it has records if it is not refused, and
\* leaves a clean history clean.
LEMMA PushCounts ==
    ASSUME NEW r \in Rings, Linked(r), NEW rd \in Seq(Record),
           NEW count \in Batches,
           LogInv(History(rd, r), r), Clean(History(rd, r), r)
    PROVE  LET s == push_batch(r, "EVENT", NoReport, count) IN
           /\ s.enabled = r.enabled
           /\ ~s.sequence_exhausted =>
                /\ ~r.sequence_exhausted
                /\ s.attempted = r.attempted
                       + (IF PushAllowed(r, count) THEN count ELSE 0)
           /\ Clean(History(rd, s), s)
  <1> DEFINE s == push_batch(r, "EVENT", NoReport, count)
             S == History(rd, r)
             T == History(rd, s)
  <1>1. NoReport \in Reports
    BY TraceNumbers DEF NoReport, Reports
  <1>2. /\ r.attempted \in Nat /\ r.attempted \in Counts
        /\ r.dropped \in Nat /\ r.dropped \in Counts
        /\ r.next_sequence \in Nat /\ count \in Nat \ {0}
        /\ UINT32_MAX \in Nat \ {0}
    BY TraceNumbers DEF Rings
  <1>3. \/ ~PushAllowed(r, count) /\ s = r
        \/ PushAllowed(r, count) /\ Accepting(r, s, "EVENT", NoReport, count)
        \/ PushAllowed(r, count) /\ Losing(r, s, count)
    BY <1>1, PushEffect
  <1>4. CASE ~PushAllowed(r, count) /\ s = r
    <2> HIDE DEF s
    <2> QED BY <1>2, <1>4 DEF s
  <1>5. ASSUME Spent(r, s, count), ~s.sequence_exhausted
        PROVE  /\ ~r.sequence_exhausted
               /\ s.attempted = r.attempted + count
               /\ ~SequenceRunsOut(r, count)
               /\ s.next_sequence = r.next_sequence + count
    <2> HIDE DEF s
    <2>1. /\ s \in Rings
          /\ s.attempted = AddSaturating(r.attempted, count)
          /\ Number(s) = IF SequenceRunsOut(r, count) THEN UINT32_MAX + 1
                         ELSE r.next_sequence + count
      BY <1>5 DEF Spent
    <2>2. ~SequenceRunsOut(r, count)
      <3>1. Number(s) <= UINT32_MAX
        BY <1>5, <2>1, NumberRange
      <3> QED BY <1>2, <2>1, <3>1
    <2>3. /\ ~r.sequence_exhausted
          /\ s.next_sequence = r.next_sequence + count
          /\ r.next_sequence + count <= UINT32_MAX
      BY <1>5, <2>1, <2>2, NumbersSpent
    <2>4. r.attempted = r.next_sequence
      BY <2>3 DEF LogInv, Counted
    <2> QED BY <1>2, <2>1, <2>2, <2>3, <2>4, AddType
  <1>6. CASE PushAllowed(r, count) /\ Accepting(r, s, "EVENT", NoReport, count)
    <2> HIDE DEF s
    <2>1. /\ Spent(r, s, count) /\ s.enabled = r.enabled /\ s \in Rings
          /\ Appended(Unread(r), Unread(s), r.next_sequence, count, "EVENT",
                      NoReport)
          /\ s.dropped = r.dropped
      BY <1>6 DEF Accepting, Spent
    <2>2. Appended(S, T, r.next_sequence, count, "EVENT", NoReport)
      BY <1>2, <2>1, HistoryGrows
    <2>3. Clean(T, s)
      <3> HIDE DEF S, T
      <3> SUFFICES ASSUME s.dropped = 0, NEW i \in 1 .. Len(T)
                   PROVE  /\ T[i].event = "EVENT"
                          /\ ~s.sequence_exhausted => T[i].sequence = i - 1
        BY DEF Clean
      <3>1. /\ Len(S) \in Nat /\ Len(T) = Len(S) + count /\ i \in Nat
        BY <2>2, LenProperties DEF Appended
      <3>2. CASE i <= Len(S)
        <4>1. i \in 1 .. Len(S) /\ T[i] = S[i]
          BY <2>2, <3>1, <3>2 DEF Appended
        <4>2. /\ S[i].event = "EVENT"
              /\ ~r.sequence_exhausted => S[i].sequence = i - 1
          BY <2>1, <4>1 DEF Clean, S
        <4> QED BY <1>5, <2>1, <4>1, <4>2 DEF s
      <3>3. CASE ~(i <= Len(S))
        <4> DEFINE k == i - Len(S)
        <4>1. k \in 1 .. count /\ i = Len(S) + k /\ k \in Nat
          BY <1>2, <3>1, <3>3
        <4> HIDE DEF k
        <4>2. T[i] = Item(r.next_sequence, k, "EVENT", NoReport, count)
          BY <2>2, <4>1 DEF Appended
        <4>3. /\ T[i].event = "EVENT"
              /\ T[i].sequence = r.next_sequence + k - 1
          BY <4>2 DEF Item
        <4>4. ASSUME ~s.sequence_exhausted PROVE T[i].sequence = i - 1
          <5>1. ~r.sequence_exhausted
            BY <1>5, <2>1, <4>4 DEF s
          <5>2. /\ r.attempted = r.emitted + r.dropped
                /\ r.attempted = r.next_sequence /\ r.emitted = Len(S)
            BY <5>1 DEF LogInv, Counted, S
          <5>3. r.next_sequence = Len(S)
            BY <2>1, <3>1, <5>2
          <5> QED BY <3>1, <4>1, <4>3, <5>3
        <4> QED BY <4>3, <4>4
      <3> QED BY <3>2, <3>3
    <2> QED BY <1>5, <1>6, <2>1, <2>3 DEF s
  <1>7. CASE PushAllowed(r, count) /\ Losing(r, s, count)
    <2> HIDE DEF s
    <2>1. /\ Spent(r, s, count) /\ s.enabled = r.enabled
          /\ s.dropped = AddSaturating(r.dropped, count)
      BY <1>7 DEF Losing, Spent
    <2>2. s.dropped # 0
      BY <1>2, <2>1 DEF AddSaturating
    <2> QED BY <1>5, <1>7, <2>1, <2>2 DEF Clean, s
  <1> QED BY <1>3, <1>4, <1>6, <1>7

\* A closed ring refuses every call: a producer changes nothing.
LEMMA ClosedRefuses ==
    ASSUME ~ring.enabled, NEW count \in Batches, Emit(count)
    PROVE  ring' = ring /\ read' = read
  BY DEF Emit, report_overflow, ReportDue, push_batch, PushAllowed
----------------------------------------------------------------------------
\* The steps.

\* Before the first call nothing is offered, read or sent.
LEMMA InitRuntime == RuntimeInit => RuntimeInv
  <1> SUFFICES ASSUME RuntimeInit PROVE RuntimeInv
    OBVIOUS
  <1>1. TraceInv
    BY InitTrace DEF RuntimeInit
  <1>2. /\ ring = EmptyRing /\ read = << >> /\ step = "open"
        /\ final = Footer(EmptyRing) /\ wire = << >> /\ offered = 0
    BY DEF RuntimeInit, Init
  <1>3. EndInv
    <2>1. Footer(EmptyRing) \in Footers
      BY TraceNumbers DEF Footer, FinalSequence, EmptyRing, Footers, Counts
    <2>2. ring.enabled /\ ring.attempted = 0
      BY <1>2 DEF EmptyRing
    <2> QED BY <1>2, <2>1, <2>2 DEF EndInv, Steps
  <1>4. WireInv
    <2>1. wire \in Seq(Frame) /\ Len(wire) = 0 /\ Len(read) = 0
      BY <1>2, EmptySeq
    <2> QED BY <1>2, <2>1 DEF WireInv
  <1>5. Clean(History(read, ring), ring)
    <2> DEFINE S == History(read, ring)
    <2>1. Len(S) = Len(read) + ring.count
      BY <1>1, HistoryItems DEF TraceInv
    <2>2. Len(read) = 0 /\ ring.count = 0
      BY <1>2, EmptySeq DEF EmptyRing
    <2> HIDE DEF S
    <2>3. Len(S) = 0
      BY <2>1, <2>2
    <2> QED BY <2>3 DEF Clean, S
  <1> QED BY <1>1, <1>3, <1>4, <1>5 DEF RuntimeInv

\* A producer's call (os_trace_emit), before the close or after it.
LEMMA ProduceKeeps ==
    ASSUME RuntimeInv, NEW count \in Batches, Produce(count)
    PROVE  RuntimeInv'
  <1>1. /\ Emit(count) /\ step' = step /\ final' = final /\ wire' = wire
        /\ read' = read
        /\ offered' = offered
             + (IF ring.enabled /\ count <= Capacity THEN count ELSE 0)
             + (IF ReportDue(ring) THEN 1 ELSE 0)
    BY DEF Produce, Emit
  <1>2. TraceInv /\ EndInv /\ WireInv /\ Clean(History(read, ring), ring)
    BY DEF RuntimeInv
  <1>3. TraceInv'
    BY <1>1, <1>2, EmitKeeps
  <1>4. CASE ~ring.enabled
    <2>1. ring' = ring /\ read' = read
      BY <1>1, <1>4, ClosedRefuses
    <2>2. offered' = offered
      BY <1>1, <1>2, <1>4 DEF ReportDue, EndInv
    <2>3. EndInv'
      BY <1>1, <1>2, <2>1, <2>2 DEF EndInv
    <2>4. WireInv'
      BY <1>1, <1>2, <2>1 DEF WireInv, WireItem
    <2>5. Clean(History(read', ring'), ring')
      BY <1>2, <2>1
    <2> QED BY <1>3, <2>3, <2>4, <2>5 DEF RuntimeInv, History, Unread, Clean
  <1>5. CASE ring.enabled
    <2> DEFINE m == report_overflow(ring)
               s == push_batch(m, "EVENT", NoReport, count)
    <2>1. /\ ring \in Rings /\ Linked(ring) /\ read \in Seq(Record)
          /\ LogInv(History(read, ring), ring)
      BY <1>2 DEF TraceInv
    <2>2. /\ m \in Rings /\ Linked(m) /\ LogInv(History(read, m), m)
          /\ m.enabled = ring.enabled
          /\ ~m.sequence_exhausted =>
                /\ ~ring.sequence_exhausted
                /\ m.attempted = ring.attempted
                                   + (IF ReportDue(ring) THEN 1 ELSE 0)
          /\ Clean(History(read, m), m)
      BY <1>2, <2>1, ReportCounts
    <2>3. ring' = s
      BY <1>1 DEF Emit
    <2> HIDE DEF m
    <2>4. /\ s.enabled = m.enabled
          /\ ~s.sequence_exhausted =>
                /\ ~m.sequence_exhausted
                /\ s.attempted = m.attempted
                       + (IF PushAllowed(m, count) THEN count ELSE 0)
          /\ Clean(History(read, s), s)
      BY <2>1, <2>2, PushCounts
    <2> HIDE DEF s
    <2>5. step = "open" /\ ring'.enabled
      BY <1>2, <1>5, <2>2, <2>3, <2>4 DEF EndInv
    <2>6. offered' \in Nat
      BY <1>1, <1>2, TraceNumbers DEF EndInv
    <2>7. ASSUME ~ring'.sequence_exhausted
          PROVE  offered' = ring'.attempted
      <3>1. /\ ~m.sequence_exhausted /\ ~ring.sequence_exhausted
            /\ m.attempted = ring.attempted
                               + (IF ReportDue(ring) THEN 1 ELSE 0)
            /\ ring'.attempted = m.attempted
                       + (IF PushAllowed(m, count) THEN count ELSE 0)
        BY <2>2, <2>3, <2>4, <2>7
      <3>2. PushAllowed(m, count) <=> ring.enabled /\ count <= Capacity
        BY <2>2 DEF PushAllowed
      <3>3. offered = ring.attempted /\ offered \in Nat /\ count \in Nat
        BY <1>2, <3>1, TraceNumbers DEF EndInv
      <3> DEFINE told == IF ReportDue(ring) THEN 1 ELSE 0
                 taken == IF ring.enabled /\ count <= Capacity THEN count
                          ELSE 0
      <3>4. told \in Nat /\ taken \in Nat
        BY <3>3
      <3>5. /\ m.attempted = offered + told
            /\ ring'.attempted = m.attempted + taken
            /\ offered' = offered + taken + told
        BY <1>1, <3>1, <3>2, <3>3
      <3> HIDE DEF told, taken
      <3> QED BY <3>3, <3>4, <3>5
    <2>8. EndInv'
      BY <1>1, <1>2, <2>5, <2>6, <2>7 DEF EndInv
    <2>9. Len(wire) = 0 /\ Len(read) = 0 /\ wire \in Seq(Frame)
      BY <1>2, <2>5 DEF WireInv
    <2>10. WireInv'
      BY <1>1, <2>5, <2>9 DEF WireInv
    <2>11. Clean(History(read', ring'), ring')
      BY <1>1, <2>3, <2>4
    <2> QED BY <1>3, <2>8, <2>10, <2>11
            DEF RuntimeInv, History, Unread, Clean
  <1> QED BY <1>4, <1>5
\* The close takes the footer from the counters as they are.
LEMMA FinishCloseKeeps ==
    ASSUME RuntimeInv, FinishClose
    PROVE  RuntimeInv'
  <1>1. TraceInv /\ EndInv /\ WireInv /\ Clean(History(read, ring), ring)
    BY DEF RuntimeInv
  <1>2. /\ Close /\ step = "open" /\ step' = "drain" /\ final' = Footer(ring)
        /\ wire' = wire /\ offered' = offered /\ read' = read
        /\ ring' = [ring EXCEPT !.enabled = FALSE]
    BY DEF FinishClose, Close
  <1>3. TraceInv'
    BY <1>1, <1>2, CloseKeeps
  <1>4. /\ ring \in Rings /\ ring' \in Rings /\ ring'.enabled = FALSE
        /\ ring'.attempted = ring.attempted /\ ring'.emitted = ring.emitted
        /\ ring'.dropped = ring.dropped
        /\ ring'.next_sequence = ring.next_sequence
        /\ ring'.sequence_exhausted = ring.sequence_exhausted
        /\ ring'.records = ring.records
        /\ ring'.read_index = ring.read_index
        /\ ring'.count = ring.count
    BY <1>1, <1>2 DEF TraceInv, Rings
  <1>5. Footer(ring') = Footer(ring)
    BY <1>4 DEF Footer, FinalSequence
  <1>6. Footer(ring) \in Footers
    <2>1. FinalSequence(ring) \in Int
      BY <1>4, TraceNumbers DEF FinalSequence, Rings
    <2> QED BY <1>4, <2>1 DEF Footer, Footers, Rings
  <1>7. EndInv'
    BY <1>1, <1>2, <1>4, <1>5, <1>6 DEF EndInv, Steps
  <1>8. WireInv'
    <2>1. Len(wire) = 0 /\ Len(read) = 0 /\ wire \in Seq(Frame)
      BY <1>1, <1>2 DEF WireInv
    <2> QED BY <1>2, <2>1 DEF WireInv
  <1>9. Clean(History(read, ring), ring)'
    <2>1. Unread(ring') = Unread(ring)
      BY <1>4 DEF Unread
    <2>2. History(read', ring') = History(read, ring)
      BY <1>2, <2>1 DEF History
    <2> DEFINE S == History(read, ring)
    <2>3. Clean(S, ring)
      BY <1>1
    <2> HIDE DEF S
    <2>4. Clean(S, ring')
      BY <1>4, <2>3 DEF Clean
    <2>5. Clean(History(read', ring'), ring')
      BY <2>2, <2>4 DEF S
    <2> QED BY <2>5 DEF Clean, History, Unread
  <1> QED BY <1>3, <1>7, <1>8, <1>9 DEF RuntimeInv

\* A pop takes one record to send; with none left the footer is next.
LEMMA FinishPopKeeps ==
    ASSUME RuntimeInv, FinishPop
    PROVE  RuntimeInv'
  <1>1. TraceInv /\ EndInv /\ WireInv /\ Clean(History(read, ring), ring)
    BY DEF RuntimeInv
  <1>2. /\ step = "drain" /\ final' = final /\ wire' = wire
        /\ offered' = offered
        /\ \/ Pop /\ step' = "record"
           \/ ring.count = 0 /\ step' = "footer" /\ ring' = ring
              /\ read' = read
    BY DEF FinishPop
  <1>3. Len(wire) = Len(read) /\ wire \in Seq(Frame)
    BY <1>1, <1>2 DEF WireInv
  <1>4. ASSUME NEW i \in 1 .. Len(wire)
        PROVE  i <= Len(read) /\ wire[i] = RecordFrame(read[i])
    BY <1>1, <1>2, <1>3 DEF WireInv, WireItem
  <1>5. CASE Pop /\ step' = "record"
    <2> DEFINE item == ring.records[ring.read_index]
    <2>1. TraceInv'
      BY <1>1, <1>5, PopKeeps
    <2>2. /\ ring' = popped(ring) /\ read' = Append(read, item)
          /\ ring \in Rings /\ Linked(ring) /\ ring.count > 0
          /\ read \in Seq(Record)
      BY <1>1, <1>5 DEF Pop, TraceInv
    <2>3. /\ item \in Record
          /\ History(read', ring') = History(read, ring)
      BY <2>2, PopEffect
    <2>4. /\ ring'.attempted = ring.attempted /\ ring'.emitted = ring.emitted
          /\ ring'.dropped = ring.dropped /\ ring'.enabled = ring.enabled
          /\ ring'.next_sequence = ring.next_sequence
          /\ ring'.sequence_exhausted = ring.sequence_exhausted
      BY <2>2 DEF popped, Rings
    <2> HIDE DEF item
    <2>5. /\ Len(read') = Len(read) + 1 /\ Len(read) \in Nat
          /\ \A i \in 1 .. Len(read) : read'[i] = read[i]
      BY <2>2, <2>3, AppendProperties
    <2>6. EndInv'
      <3>1. Footer(ring') = Footer(ring)
        BY <2>4 DEF Footer, FinalSequence
      <3> QED BY <1>1, <1>2, <1>5, <2>4, <3>1 DEF EndInv, Steps
    <2>7. WireInv'
      <3>1. ASSUME NEW i \in 1 .. Len(wire)
            PROVE  i <= Len(read') /\ wire[i] = RecordFrame(read'[i])
        <4>1. /\ i <= Len(read) /\ wire[i] = RecordFrame(read[i])
              /\ i \in 1 .. Len(read)
          BY <1>4
        <4> QED BY <2>5, <4>1
      <3>2. \A i \in 1 .. Len(wire') : WireItem(i)'
        BY <1>2, <3>1 DEF WireItem
      <3> QED BY <1>2, <1>3, <1>5, <2>5, <3>2 DEF WireInv
    <2>8. Clean(History(read, ring), ring)'
      BY <1>1, <2>3, <2>4 DEF Clean, History, Unread
    <2> QED BY <2>1, <2>6, <2>7, <2>8 DEF RuntimeInv
  <1>6. CASE ring.count = 0 /\ step' = "footer" /\ ring' = ring
             /\ read' = read
    <2>1. TraceInv'
      BY <1>1, <1>6 DEF TraceInv, Linked, LogInv, Counted, History, Unread
    <2>2. EndInv'
      BY <1>1, <1>2, <1>6 DEF EndInv, Steps
    <2>3. WireInv'
      BY <1>2, <1>3, <1>4, <1>6 DEF WireInv, WireItem
    <2>4. Clean(History(read, ring), ring)'
      BY <1>1, <1>6 DEF Clean, History, Unread
    <2> QED BY <2>1, <2>2, <2>3, <2>4 DEF RuntimeInv
  <1> QED BY <1>2, <1>5, <1>6

\* A step that sends, or fails to, changes the wire only: it keeps the rest.
LEMMA SendKeepsRest ==
    ASSUME RuntimeInv, ring' = ring, read' = read, final' = final,
           offered' = offered, step \in Steps \ {"open"},
           step' \in Steps \ {"open"}
    PROVE  TraceInv' /\ EndInv' /\ Clean(History(read, ring), ring)'
  <1>1. TraceInv /\ EndInv /\ Clean(History(read, ring), ring)
    BY DEF RuntimeInv
  <1>2. TraceInv'
    BY <1>1 DEF TraceInv, Linked, LogInv, Counted, History, Unread
  <1>3. EndInv'
    BY <1>1 DEF EndInv
  <1>4. Clean(History(read, ring), ring)'
    BY <1>1 DEF Clean, History, Unread
  <1> QED BY <1>2, <1>3, <1>4

\* A record goes out whole, broken or not at all.
LEMMA SendRecordKeeps ==
    ASSUME RuntimeInv, FinishSendRecord
    PROVE  RuntimeInv'
  <1> DEFINE n == Len(read)
             frame == RecordFrame(read[Len(read)])
  <1>1. /\ step = "record" /\ ring' = ring /\ read' = read /\ final' = final
        /\ offered' = offered
        /\ \/ wire' = Append(wire, frame) /\ step' = "drain"
           \/ /\ wire' \in {wire, Append(wire, BrokenFrame),
                            Append(wire, frame)}
              /\ step' = "failed"
    BY DEF FinishSendRecord, send_frame
  <1>2. TraceInv' /\ EndInv' /\ Clean(History(read, ring), ring)'
    BY <1>1, SendKeepsRest DEF Steps
  <1>3. /\ wire \in Seq(Frame) /\ read \in Seq(Record)
        /\ n = Len(wire) + 1 /\ Len(wire) \in Nat /\ n \in 1 .. Len(read)
    BY <1>1, LenProperties DEF RuntimeInv, WireInv, TraceInv
  <1>4. ASSUME NEW i \in 1 .. Len(wire)
        PROVE  i <= Len(read) /\ wire[i] = RecordFrame(read[i])
    BY <1>1 DEF RuntimeInv, WireInv, WireItem
  <1>5. frame \in Frame /\ BrokenFrame \in Frame
    <2>1. read[n] \in Record
      BY <1>3, ElementOfSeq
    <2> QED BY <2>1 DEF RecordFrame, Frame
  <1>6. ASSUME NEW last \in Frame, wire' = Append(wire, last),
               \/ last = frame
               \/ last = BrokenFrame /\ step' = "failed"
        PROVE  /\ wire' \in Seq(Frame) /\ Len(wire') = Len(wire) + 1
               /\ \A i \in 1 .. Len(wire') : WireItem(i)'
    <2> HIDE DEF frame
    <2>1. /\ wire' \in Seq(Frame) /\ Len(wire') = Len(wire) + 1
          /\ \A i \in 1 .. Len(wire) : wire'[i] = wire[i]
          /\ wire'[Len(wire) + 1] = last
      BY <1>3, <1>6, AppendProperties
    <2>2. ASSUME NEW i \in 1 .. Len(wire) + 1 PROVE WireItem(i)'
      <3>1. CASE i \in 1 .. Len(wire)
        BY <1>1, <1>4, <2>1, <3>1 DEF WireItem
      <3>2. CASE i = Len(wire) + 1
        <4>1. i <= Len(read) /\ read'[i] = read[n] /\ i = Len(wire')
          BY <1>1, <1>3, <2>1, <3>2
        <4> QED BY <1>1, <1>6, <2>1, <3>2, <4>1 DEF WireItem, frame
      <3> QED BY <1>3, <3>1, <3>2
    <2> QED BY <2>1, <2>2
  <1> HIDE DEF frame
  <1>7. CASE step' = "failed" /\ wire' = wire
    BY <1>1, <1>2, <1>3, <1>4, <1>7 DEF RuntimeInv, WireInv, WireItem
  <1>8. CASE step' = "failed" /\ wire' = Append(wire, BrokenFrame)
    BY <1>2, <1>5, <1>6, <1>8 DEF RuntimeInv, WireInv
  <1>9. CASE step' \in {"drain", "failed"} /\ wire' = Append(wire, frame)
    BY <1>1, <1>2, <1>3, <1>5, <1>6, <1>9 DEF RuntimeInv, WireInv
  <1> QED BY <1>1, <1>7, <1>8, <1>9
\* So does the footer, once every record is read.
LEMMA SendFooterKeeps ==
    ASSUME RuntimeInv, FinishSendFooter
    PROVE  RuntimeInv'
  <1> DEFINE frame == FooterFrame(final)
  <1>1. /\ step = "footer" /\ ring' = ring /\ read' = read /\ final' = final
        /\ offered' = offered
        /\ \/ wire' = Append(wire, frame) /\ step' = "done"
           \/ /\ wire' \in {wire, Append(wire, BrokenFrame),
                            Append(wire, frame)}
              /\ step' = "failed"
    BY DEF FinishSendFooter, send_frame
  <1>2. TraceInv' /\ EndInv' /\ Clean(History(read, ring), ring)'
    BY <1>1, SendKeepsRest DEF Steps
  <1>3. /\ wire \in Seq(Frame) /\ Len(read) = Len(wire)
        /\ Len(wire) \in Nat /\ ring.count = 0
    BY <1>1, LenProperties DEF RuntimeInv, WireInv
  <1>4. ASSUME NEW i \in 1 .. Len(wire)
        PROVE  i <= Len(read) /\ wire[i] = RecordFrame(read[i])
    BY <1>1, <1>3 DEF RuntimeInv, WireInv, WireItem
  <1>5. frame \in Frame /\ BrokenFrame \in Frame
    BY DEF RuntimeInv, EndInv, FooterFrame, Frame
  <1>6. ASSUME NEW last \in Frame, wire' = Append(wire, last),
               \/ last = frame /\ step' \in {"done", "failed"}
               \/ last = BrokenFrame /\ step' = "failed"
        PROVE  /\ wire' \in Seq(Frame) /\ Len(wire') = Len(wire) + 1
               /\ \A i \in 1 .. Len(wire') : WireItem(i)'
    <2> HIDE DEF frame
    <2>1. /\ wire' \in Seq(Frame) /\ Len(wire') = Len(wire) + 1
          /\ \A i \in 1 .. Len(wire) : wire'[i] = wire[i]
          /\ wire'[Len(wire) + 1] = last
      BY <1>3, <1>6, AppendProperties
    <2>2. ASSUME NEW i \in 1 .. Len(wire) + 1 PROVE WireItem(i)'
      <3>1. CASE i \in 1 .. Len(wire)
        BY <1>1, <1>4, <2>1, <3>1 DEF WireItem
      <3>2. CASE i = Len(wire) + 1
        <4>1. i = Len(read') + 1 /\ i = Len(wire')
          BY <1>1, <1>3, <2>1, <3>2
        <4> QED BY <1>1, <1>3, <1>6, <2>1, <3>2, <4>1 DEF WireItem, frame
      <3> QED BY <1>3, <3>1, <3>2
    <2> QED BY <2>1, <2>2
  <1> HIDE DEF frame
  <1>7. CASE step' = "failed" /\ wire' = wire
    BY <1>1, <1>2, <1>3, <1>4, <1>7 DEF RuntimeInv, WireInv, WireItem
  <1>8. CASE step' = "failed" /\ wire' = Append(wire, BrokenFrame)
    BY <1>2, <1>5, <1>6, <1>8 DEF RuntimeInv, WireInv
  <1>9. CASE step' \in {"done", "failed"} /\ wire' = Append(wire, frame)
    BY <1>1, <1>2, <1>3, <1>5, <1>6, <1>9 DEF RuntimeInv, WireInv
  <1> QED BY <1>1, <1>7, <1>8, <1>9

\* The invariant holds between any two steps of os_trace_finish and its
\* producers.
THEOREM RuntimeSafe == RuntimeSpec => []RuntimeInv
  <1>1. RuntimeInit => RuntimeInv
    BY InitRuntime
  <1>2. RuntimeInv /\ [RuntimeNext]_runtime_vars => RuntimeInv'
    <2> SUFFICES ASSUME RuntimeInv, [RuntimeNext]_runtime_vars
                 PROVE  RuntimeInv'
      OBVIOUS
    <2>1. ASSUME NEW count \in Batches, Produce(count) PROVE RuntimeInv'
      BY <2>1, ProduceKeeps
    <2>2. CASE FinishClose
      BY <2>2, FinishCloseKeeps
    <2>3. CASE FinishPop
      BY <2>3, FinishPopKeeps
    <2>4. CASE FinishSendRecord
      BY <2>4, SendRecordKeeps
    <2>5. CASE FinishSendFooter
      BY <2>5, SendFooterKeeps
    <2>6. CASE UNCHANGED runtime_vars
      <3>1. /\ ring' = ring /\ read' = read /\ step' = step
            /\ final' = final /\ wire' = wire /\ offered' = offered
        BY <2>6 DEF runtime_vars, vars
      <3>2. TraceInv' /\ Clean(History(read, ring), ring)'
        BY <3>1 DEF RuntimeInv, TraceInv, Linked, LogInv, Counted, History,
                    Unread, Clean
      <3>3. EndInv' /\ WireInv'
        BY <3>1 DEF RuntimeInv, EndInv, WireInv, WireItem
      <3> QED BY <3>2, <3>3 DEF RuntimeInv
    <2> QED BY <2>1, <2>2, <2>3, <2>4, <2>5, <2>6
            DEF RuntimeNext, os_trace_finish
  <1> QED BY <1>1, <1>2, PTL DEF RuntimeSpec

----------------------------------------------------------------------------
\* The decoder.

\* The part of the wire before its last frame.
LEMMA BeforeLast ==
    ASSUME wire \in Seq(Frame), wire # << >>
    PROVE  LET front == SubSeq(wire, 1, Len(wire) - 1) IN
           /\ Len(wire) \in Nat \ {0}
           /\ Len(front) = Len(wire) - 1
           /\ DOMAIN front = 1 .. Len(wire) - 1
           /\ \A i \in 1 .. Len(wire) - 1 : front[i] = wire[i]
  <1>1. Len(wire) \in Nat \ {0}
    BY EmptySeq, LenProperties
  <1>2. 1 \in 1 .. Len(wire) + 1 /\ Len(wire) - 1 \in 0 .. Len(wire)
    BY <1>1
  <1>3. \A i \in 1 .. Len(wire) - 1 : i \in 1 .. Len(wire)
    BY <1>1
  <1> DEFINE front == SubSeq(wire, 1, Len(wire) - 1)
  <1>4. front = [i \in 1 .. (Len(wire) - 1) |-> wire[i]]
    BY <1>1
  <1>5. Len(front) = Len(wire) - 1
    <2> DEFINE m == Len(wire) - 1
    <2>1. m \in Nat
      BY <1>1
    <2>2. \A i \in 1 .. m : wire[i] \in Frame
      BY <1>3, ElementOfSeq
    <2>3. front = [i \in 1 .. m |-> wire[i]]
      BY <1>4
    <2> HIDE DEF front, m
    <2>4. front \in [1 .. m -> Frame]
      BY <2>2, <2>3
    <2>5. Len(front) = m
      BY <2>1, <2>4
    <2> QED BY <2>5 DEF m
  <1> HIDE DEF front
  <1> QED BY <1>1, <1>4, <1>5 DEF front

\* A trace that decode accepts holds every record that producers offered
\* before the close, in order (docs/TRACE_FORMAT.md, "Ring, closure, and
\* overflow").
THEOREM AcceptedSafe == RuntimeSpec => []AcceptedIsComplete
  <1>1. RuntimeInv => AcceptedIsComplete
    <2> SUFFICES ASSUME RuntimeInv, Decodes(wire)
                 PROVE  /\ Len(wire) - 1 = offered
                        /\ \A i \in 1 .. offered :
                              wire[i] = RecordFrame(read[i])
      BY DEF AcceptedIsComplete
    <2> DEFINE n == Len(wire)
    <2>1. wire \in Seq(Frame) /\ wire # << >> /\ EndInv /\ TraceInv
      BY DEF RuntimeInv, WireInv, Decodes
    <2>2. /\ n \in Nat \ {0}
          /\ Len(SubSeq(wire, 1, n - 1)) = n - 1
      BY <2>1, BeforeLast
    <2>3. /\ wire[n].type = "FOOTER"
          /\ FooterMatches(wire[n].footer, SubSeq(wire, 1, n - 1))
      BY DEF Decodes
    <2>4. WireItem(n) /\ n \in 1 .. n
      BY <2>2 DEF RuntimeInv, WireInv
    <2>5. /\ step \in {"done", "failed"} /\ n = Len(read) + 1
          /\ ring.count = 0 /\ wire[n] = FooterFrame(final)
      BY <2>3, <2>4 DEF WireItem, RecordFrame, BrokenFrame
    <2>6. final = Footer(ring)
      BY <2>1, <2>5 DEF EndInv
    <2>7. /\ final.flags = 0 /\ final.emitted = n - 1
          /\ final.attempted = final.emitted + final.dropped
          /\ final.dropped = 0
      <3>1. wire[n].footer = final
        BY <2>5 DEF FooterFrame
      <3>2. FooterMatches(final, SubSeq(wire, 1, n - 1))
        BY <2>3, <3>1
      <3> HIDE DEF n
      <3> QED BY <2>2, <3>2 DEF FooterMatches
    <2>8. ~ring.sequence_exhausted
      BY <2>6, <2>7 DEF Footer
    <2>9. offered = ring.attempted /\ final.attempted = ring.attempted
      BY <2>1, <2>6, <2>8 DEF EndInv, Footer
    <2>10. offered = n - 1
      BY <2>2, <2>7, <2>9
    <2>11. ASSUME NEW i \in 1 .. n - 1 PROVE wire[i] = RecordFrame(read[i])
      <3>1. i \in 1 .. n /\ i # n
        BY <2>2
      <3>2. WireItem(i)
        BY <3>1 DEF RuntimeInv, WireInv
      <3> QED BY <3>1, <3>2 DEF WireItem
    <2> QED BY <2>10, <2>11
  <1> QED BY <1>1, RuntimeSafe, PTL

\* A trace that lost nothing and was sent to its end is one that decode
\* accepts.
THEOREM CompleteSafe == RuntimeSpec => []CompleteIsAccepted
  <1>1. RuntimeInv => CompleteIsAccepted
    <2> SUFFICES ASSUME RuntimeInv, step = "done", ring.dropped = 0,
                        ~ring.sequence_exhausted
                 PROVE  Decodes(wire)
      BY DEF CompleteIsAccepted
    <2> DEFINE n == Len(wire)
               S == History(read, ring)
               front == SubSeq(wire, 1, n - 1)
    <2>1. /\ wire \in Seq(Frame) /\ read \in Seq(Record) /\ ring \in Rings
          /\ final = Footer(ring) /\ n = Len(read) + 1
          /\ LogInv(S, ring) /\ Clean(S, ring)
      BY DEF RuntimeInv, EndInv, WireInv, TraceInv
    <2>2. Len(read) \in Nat
      BY <2>1, LenProperties
    <2>3. wire # << >>
      BY <2>1, <2>2, EmptySeq
    <2>4. /\ n \in Nat \ {0} /\ Len(front) = n - 1
          /\ DOMAIN front = 1 .. n - 1
          /\ \A i \in 1 .. n - 1 : front[i] = wire[i]
      BY <2>1, <2>3, BeforeLast
    <2>5. ring.count = 0 /\ wire[n] = FooterFrame(final)
      <3>1. WireItem(n)
        BY <2>4 DEF RuntimeInv, WireInv
      <3> QED BY <2>1, <2>2, <3>1 DEF WireItem
    <2>6. /\ Len(S) = Len(read)
          /\ \A i \in 1 .. Len(read) : S[i] = read[i]
      <3>1. /\ Len(S) = Len(read) + ring.count
            /\ \A i \in 1 .. Len(read) : S[i] = read[i]
        BY <2>1, HistoryItems
      <3> HIDE DEF S
      <3> QED BY <2>2, <2>5, <3>1
    <2> HIDE DEF S, front
    <2>7. ASSUME NEW i \in DOMAIN front
          PROVE  /\ front[i].type = "RECORD"
                 /\ front[i].record.sequence = i - 1
                 /\ front[i].record.event # "OVERFLOW"
      <3>1. i \in 1 .. n - 1 /\ i \in 1 .. Len(read) /\ i \in 1 .. n
        BY <2>1, <2>2, <2>4
      <3>2. WireItem(i)
        BY <3>1 DEF RuntimeInv, WireInv
      <3>3. front[i] = RecordFrame(S[i])
        BY <2>1, <2>2, <2>4, <2>6, <3>1, <3>2 DEF WireItem
      <3>4. S[i].event = "EVENT" /\ S[i].sequence = i - 1
        BY <2>1, <2>6, <3>1 DEF Clean
      <3> QED BY <3>3, <3>4 DEF RecordFrame
    <2>8. FooterMatches(final, front)
      <3>1. /\ ring.attempted = ring.emitted + ring.dropped
            /\ ring.attempted = ring.next_sequence
            /\ ring.emitted = Len(S)
        BY <2>1 DEF LogInv, Counted
      <3>2. /\ ring.emitted = Len(front)
        BY <2>1, <2>2, <2>4, <2>6, <3>1
      <3> QED BY <2>1, <3>1, <3>2 DEF Footer, FinalSequence, FooterMatches
    <2>9. wire[n].type = "FOOTER" /\ wire[n].footer = final
      BY <2>5 DEF FooterFrame
    <2> QED BY <2>3, <2>7, <2>8, <2>9 DEF Decodes, front
  <1> QED BY <1>1, RuntimeSafe, PTL
=============================================================================
