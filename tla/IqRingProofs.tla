---------------------------- MODULE IqRingProofs ----------------------------
(***************************************************************************)
(* The circular buffer implements the window of a stream, for any capacity *)
(* and any messages.                                                       *)
(***************************************************************************)
EXTENDS IqRing, SequenceTheorems, TLAPS

(***************************************************************************)
(* Indices: a slot is at most one wrap away.                               *)
(***************************************************************************)

LEMMA Wraps ==
  ASSUME NEW x \in 0..(2 * Capacity - 1)
  PROVE  x % Capacity = IF x < Capacity THEN x ELSE x - Capacity
<1> DEFINE q == x \div Capacity
           r == x % Capacity
<1>1. Capacity \in Nat \ {0}
  BY RingAssumption
<1>2. q \in Int /\ r \in 0..(Capacity - 1) /\ x = Capacity * q + r
  BY <1>1
<1> HIDE DEF q, r
<1>3. q = 0 \/ q = 1
  <2>1. CASE q >= 2
    BY <1>1, <1>2, <2>1
  <2>2. CASE q <= -1
    BY <1>1, <1>2, <2>2
  <2> QED BY <1>2, <2>1, <2>2
<1>4. r = IF x < Capacity THEN x ELSE x - Capacity
  BY <1>1, <1>2, <1>3
<1> QED BY <1>4 DEF r

LEMMA WrapsBack ==
  ASSUME NEW x \in (1 - Capacity)..(Capacity - 1)
  PROVE  x % Capacity = IF x >= 0 THEN x ELSE x + Capacity
<1> DEFINE q == x \div Capacity
           r == x % Capacity
<1>1. Capacity \in Nat \ {0}
  BY RingAssumption
<1>2. q \in Int /\ r \in 0..(Capacity - 1) /\ x = Capacity * q + r
  BY <1>1
<1> HIDE DEF q, r
<1>3. q = 0 \/ q = -1
  <2>1. CASE q >= 1
    BY <1>1, <1>2, <2>1
  <2>2. CASE q <= -2
    BY <1>1, <1>2, <2>2
  <2> QED BY <1>2, <2>1, <2>2
<1>4. r = IF x >= 0 THEN x ELSE x + Capacity
  BY <1>1, <1>2, <1>3
<1> QED BY <1>4 DEF r

\* The inductive invariant: the storage, the start and the size stay in range.
RingInv ==
  /\ buffer \in [Index -> Sample]
  /\ next_sequence \in Nat
  /\ start \in Index
  /\ size \in 0..Capacity

\* A slot is in the buffer, at most one wrap from the start.
LEMMA SlotInRing ==
  ASSUME RingInv, NEW i \in 0..Capacity
  PROVE  /\ Slot(i) \in Index
         /\ Slot(i) = IF start + i < Capacity THEN start + i ELSE start + i - Capacity
<1>1. Capacity \in Nat \ {0} /\ start \in 0..(Capacity - 1)
  BY RingAssumption DEF RingInv, Index
<1>2. start + i \in 0..(2 * Capacity - 1)
  BY <1>1
<1>3. Slot(i) = IF start + i < Capacity THEN start + i ELSE start + i - Capacity
  BY <1>1, <1>2, Wraps DEF Slot
<1>4. Slot(i) \in 0..(Capacity - 1)
  BY <1>1, <1>2, <1>3
<1> QED BY <1>3, <1>4 DEF Index

\* The window kept, slot by slot.
KeptFacts ==
  /\ Kept \in Seq(Sample) /\ Len(Kept) = size
  /\ \A i \in 1..size : Kept[i] = buffer[Slot(i - 1)]

LEMMA KeptIsSeq == RingInv => KeptFacts
<1> SUFFICES ASSUME RingInv PROVE KeptFacts
  OBVIOUS
<1>1. size \in Nat /\ Capacity \in Nat /\ size <= Capacity
  BY RingAssumption DEF RingInv
<1>2. ASSUME NEW i \in 1..size PROVE buffer[Slot(i - 1)] \in Sample
  <2>1. i - 1 \in 0..Capacity
    BY <1>1
  <2> QED BY <2>1, SlotInRing DEF RingInv
<1>3. Kept \in [1..size -> Sample]
  BY <1>2 DEF Kept
<1> QED BY <1>1, <1>3 DEF Kept, KeptFacts

LEMMA KeptIsSeqNext == RingInv' => KeptFacts'
BY KeptIsSeq, PTL

LEMMA ViewIsRing ==
  ASSUME RingInv
  PROVE  Stream!View = [next |-> next_sequence, size |-> size]
<1>1. Len(Kept) = size /\ size \in Int /\ next_sequence \in Int
  BY KeptIsSeq, RingAssumption DEF RingInv, KeptFacts
<1> QED BY <1>1 DEF Stream!View, earliest_sequence

LEMMA InitRefines == Init => RingInv /\ Stream!Init
<1> SUFFICES ASSUME Init PROVE RingInv /\ Stream!Init
  OBVIOUS
<1>1. Capacity \in Nat \ {0}
  BY RingAssumption
<1>2. RingInv
  BY <1>1 DEF Init, RingInv, Index
<1>3. Kept = << >>
  BY <1>2, KeptIsSeq DEF Init, KeptFacts
<1> QED BY <1>2, <1>3 DEF Init, Stream!Init, earliest_sequence

\* A push that fits appends to the window: no slot that is kept is overwritten.
LEMMA PushRefines ==
  ASSUME RingInv, NEW samples \in Chunks, Push(samples)
  PROVE  RingInv' /\ Stream!Push(samples)
<1> DEFINE n == Len(samples)
<1>1. /\ samples \in Seq(Sample) /\ n \in Nat /\ Capacity \in Nat \ {0}
      /\ size \in 0..Capacity /\ next_sequence \in Nat /\ start \in 0..(Capacity - 1)
      /\ buffer \in [Index -> Sample]
  BY RingAssumption DEF RingInv, Index
<1>2. Stream!View = [next |-> next_sequence, size |-> size]
  BY ViewIsRing
<1>3. Stream!CanPush(Stream!View, n, Capacity) <=> n <= Capacity - size
  BY <1>2 DEF Stream!CanPush, Stream!FreeCapacity
<1>4. UNCHANGED start /\ next_sequence + n <= MaxSequence
  BY DEF Push
<1>5. ASSUME samples # << >>, ~Fits(n), result' = Stream!Failed,
             UNCHANGED <<buffer, size, next_sequence>>
      PROVE  RingInv' /\ Stream!Push(samples)
  <2>1. RingInv'
    BY <1>4, <1>5 DEF RingInv
  <2>2. Kept' = Kept /\ UNCHANGED earliest_sequence
    BY <1>4, <1>5 DEF Kept, Slot, earliest_sequence
  <2>3. ~(n <= Capacity - size)
    BY <1>1, <1>5 DEF Fits
  <2> QED BY <1>2, <1>3, <1>4, <1>5, <2>1, <2>2, <2>3 DEF Stream!Push
<1>6. ASSUME samples = << >> \/ Fits(n), buffer' = Written(samples), size' = size + n,
             next_sequence' = next_sequence + n, result' = Stream!Done
      PROVE  RingInv' /\ Stream!Push(samples)
  <2>1. n <= Capacity - size
    BY <1>1, <1>6 DEF Fits
  <2> HIDE DEF n
  <2>2. ASSUME NEW i \in 0..(size + n - 1)
        PROVE  /\ Slot(i) \in Index
               /\ (Slot(i) - Slot(size)) % Capacity
                    = IF i < size THEN i - size + Capacity ELSE i - size
    <3>1. i \in 0..Capacity /\ size \in 0..Capacity
      BY <1>1, <2>1
    <3>2. /\ Slot(i) \in Index /\ Slot(size) \in Index
          /\ Slot(i) = IF start + i < Capacity THEN start + i ELSE start + i - Capacity
          /\ Slot(size) = IF start + size < Capacity THEN start + size
                          ELSE start + size - Capacity
      BY <3>1, SlotInRing
    <3>3. Slot(i) - Slot(size) \in (1 - Capacity)..(Capacity - 1)
      BY <1>1, <3>2 DEF Index
    <3>4. (Slot(i) - Slot(size)) % Capacity
            = IF Slot(i) - Slot(size) >= 0 THEN Slot(i) - Slot(size)
              ELSE Slot(i) - Slot(size) + Capacity
      BY <3>3, WrapsBack
    <3>5. i <= Capacity - 1
      BY <1>1, <2>1
    <3> QED BY <1>1, <3>1, <3>2, <3>4, <3>5
  <2>3. ASSUME NEW k \in Index PROVE buffer'[k] \in Sample
    <3> DEFINE b == (k - Slot(size)) % Capacity
    <3>1. b \in 0..(Capacity - 1)
      <4>1. Slot(size) \in Int /\ k \in Int
        BY <1>1, SlotInRing DEF Index
      <4> QED BY <1>1, <4>1
    <3>2. buffer'[k] = IF b < n THEN samples[b + 1] ELSE buffer[k]
      BY <1>6 DEF Written, n
    <3> HIDE DEF b
    <3>3. b < n => b + 1 \in 1..n
      BY <1>1, <3>1
    <3> QED BY <1>1, <3>2, <3>3 DEF n
  <2>4. buffer' \in [Index -> Sample]
    BY <1>6, <2>3 DEF Written
  <2>5. RingInv'
    <3>1. size' \in 0..Capacity /\ next_sequence' \in Nat
      BY <1>1, <1>6, <2>1
    <3> QED BY <1>4, <2>4, <3>1 DEF RingInv
  <2>6. Kept' = Kept \o samples
    <3>1. /\ Kept \in Seq(Sample) /\ Len(Kept) = size
          /\ \A i \in 1..size : Kept[i] = buffer[Slot(i - 1)]
      BY KeptIsSeq DEF KeptFacts
    <3>2. /\ Kept' \in Seq(Sample) /\ Len(Kept') = size + n
          /\ \A i \in 1..(size + n) : Kept'[i] = buffer'[Slot(i - 1)]
      <4>1. /\ Kept' \in Seq(Sample) /\ Len(Kept') = size'
            /\ \A i \in 1..size' : Kept'[i] = buffer'[Slot(i - 1)']
        BY <2>5, KeptIsSeqNext DEF KeptFacts
      <4>2. \A i : Slot(i)' = Slot(i)
        BY <1>4 DEF Slot
      <4> QED BY <1>6, <4>1, <4>2
    <3>3. /\ Kept \o samples \in Seq(Sample) /\ Len(Kept \o samples) = size + n
          /\ \A i \in 1..(size + n) :
              (Kept \o samples)[i] = IF i <= size THEN Kept[i] ELSE samples[i - size]
      BY <1>1, <3>1, ConcatProperties DEF n
    <3>4. ASSUME NEW i \in 1..(size + n) PROVE Kept'[i] = (Kept \o samples)[i]
      <4> DEFINE b == (Slot(i - 1) - Slot(size)) % Capacity
      <4>1. /\ Slot(i - 1) \in Index
            /\ b = IF i - 1 < size THEN i - 1 - size + Capacity ELSE i - 1 - size
        <5>1. i - 1 \in 0..(size + n - 1)
          BY <1>1
        <5> QED BY <2>2, <5>1
      <4>2. buffer'[Slot(i - 1)] = IF b < n THEN samples[b + 1] ELSE buffer[Slot(i - 1)]
        BY <1>6, <4>1 DEF Written, n
      <4> HIDE DEF b
      <4>3. CASE i <= size
        <5>1. ~(b < n)
          BY <1>1, <2>1, <4>1, <4>3
        <5> QED BY <1>1, <3>1, <3>2, <3>3, <4>2, <4>3, <5>1
      <4>4. CASE ~(i <= size)
        <5>1. b < n /\ b + 1 = i - size
          BY <1>1, <4>1, <4>4
        <5> QED BY <3>2, <3>3, <4>2, <4>4, <5>1
      <4> QED BY <4>3, <4>4
    <3> QED BY <3>2, <3>3, <3>4, SeqEqual
  <2>7. UNCHANGED earliest_sequence
    BY <1>1, <1>6 DEF earliest_sequence
  <2> QED BY <1>2, <1>3, <1>4, <1>6, <2>1, <2>5, <2>6, <2>7 DEF Stream!Push, n
<1> QED BY <1>5, <1>6 DEF Push

\* Any part of the window, read slot by slot.
LEMMA PartOfKept ==
  ASSUME RingInv, NEW first \in Nat \ {0}, NEW last \in Int, last <= size
  PROVE  /\ SubSeq(Kept, first, last) \in Seq(Sample)
         /\ Len(SubSeq(Kept, first, last)) = IF first <= last THEN last - first + 1 ELSE 0
         /\ \A i \in 1..(last - first + 1) :
              SubSeq(Kept, first, last)[i] = buffer[Slot(first + i - 2)]
<1>1. /\ Kept \in Seq(Sample) /\ Len(Kept) = size
      /\ \A i \in 1..size : Kept[i] = buffer[Slot(i - 1)]
  BY KeptIsSeq DEF KeptFacts
<1>2. size \in Nat
  BY RingAssumption DEF RingInv
<1>3. \A i \in first..last : Kept[i] \in Sample
  <2> SUFFICES ASSUME NEW i \in first..last PROVE Kept[i] \in Sample
    OBVIOUS
  <2>1. i \in 1..Len(Kept)
    BY <1>1, <1>2
  <2> QED BY <1>1, <2>1
<1>4. /\ SubSeq(Kept, first, last) \in Seq(Sample)
      /\ Len(SubSeq(Kept, first, last)) = IF first <= last THEN last - first + 1 ELSE 0
      /\ \A i \in 1..(last - first + 1) : SubSeq(Kept, first, last)[i] = Kept[first + i - 1]
  BY <1>3, SubSeqProperties
<1>5. ASSUME NEW i \in 1..(last - first + 1)
      PROVE  SubSeq(Kept, first, last)[i] = buffer[Slot(first + i - 2)]
  <2>1. /\ first + i - 1 \in 1..size
        /\ (first + i - 1) - 1 = first + i - 2
    BY <1>2
  <2>2. Kept[first + i - 1] = buffer[Slot((first + i - 1) - 1)]
    BY <1>1, <2>1
  <2> QED BY <1>4, <2>1, <2>2
<1> QED BY <1>4, <1>5

\* A read returns the window's own samples, across the end of the buffer too.
LEMMA ReadRefines ==
  ASSUME RingInv, NEW sequence \in Nat, NEW n \in Nat, Read(sequence, n)
  PROVE  RingInv' /\ Stream!Read(sequence, n)
<1>1. /\ size \in Nat /\ next_sequence \in Nat /\ earliest_sequence \in Int
      /\ earliest_sequence + size = next_sequence
  BY RingAssumption DEF RingInv, earliest_sequence
<1>2. Stream!CanRead(Stream!View, sequence, n) <=> (n = 0 \/ Readable(sequence, n))
  BY ViewIsRing DEF Stream!CanRead, Stream!EarliestSequence, Readable, earliest_sequence
<1>3. RingInv' /\ UNCHANGED <<earliest_sequence, Kept>>
  BY DEF Read, RingInv, earliest_sequence, Kept, Slot
<1>4. CASE n = 0
  BY <1>2, <1>3, <1>4 DEF Read, Stream!Read
<1>5. CASE n # 0 /\ ~Readable(sequence, n)
  BY <1>2, <1>3, <1>5 DEF Read, Stream!Read
<1>6. CASE n # 0 /\ Readable(sequence, n)
  <2> DEFINE offset == sequence - earliest_sequence
             read == [i \in 1..n |-> buffer[Slot(offset + i - 1)]]
             part == SubSeq(Kept, offset + 1, offset + n)
  <2>1. offset \in Nat /\ offset + n <= size
    BY <1>1, <1>6 DEF Readable
  <2> HIDE DEF offset
  <2>2. /\ part \in Seq(Sample) /\ Len(part) = n
        /\ \A i \in 1..n : part[i] = buffer[Slot(offset + i - 1)]
    <3>1. /\ part \in Seq(Sample)
          /\ Len(part) = IF offset + 1 <= offset + n THEN (offset + n) - (offset + 1) + 1 ELSE 0
          /\ \A i \in 1..((offset + n) - (offset + 1) + 1) :
               part[i] = buffer[Slot((offset + 1) + i - 2)]
      <4>1. offset + 1 \in Nat \ {0} /\ offset + n \in Int
        BY <2>1
      <4> QED BY <2>1, <4>1, PartOfKept
    <3>2. /\ offset + 1 <= offset + n /\ (offset + n) - (offset + 1) + 1 = n
          /\ \A i \in 1..n : (offset + 1) + i - 2 = offset + i - 1
      BY <1>6, <2>1
    <3> HIDE DEF part
    <3> QED BY <3>1, <3>2
  <2> HIDE DEF part
  <2>3. read \in Seq(Sample) /\ Len(read) = n
    <3>1. \A i \in 1..n : part[i] \in Sample
      BY <2>2
    <3>2. \A i \in 1..n : buffer[Slot(offset + i - 1)] \in Sample
      BY <2>2, <3>1
    <3> QED BY <3>2
  <2>4. read = part
    <3>1. \A i \in 1..n : read[i] = part[i]
      BY <2>2
    <3> HIDE DEF read
    <3> QED BY <2>2, <2>3, <3>1, SeqEqual
  <2>5. result' = Stream!Returned(read)
    BY <1>6 DEF Read, offset
  <2>6. part = SubSeq(Kept, sequence - earliest_sequence + 1,
                      (sequence - earliest_sequence + 1) + n - 1)
    <3>1. offset + n = (offset + 1) + n - 1
      BY <2>1
    <3> QED BY <3>1 DEF part, offset
  <2> HIDE DEF read
  <2> QED BY <1>2, <1>3, <1>6, <2>4, <2>5, <2>6 DEF Stream!Read
<1> QED BY <1>4, <1>5, <1>6

\* A discard drops samples from the front of the window only: moving the start
\* past the end of the buffer keeps the others, in order.
LEMMA DiscardRefines ==
  ASSUME RingInv, NEW sequence \in Nat, DiscardBefore(sequence)
  PROVE  RingInv' /\ Stream!DiscardBefore(sequence)
<1> DEFINE d == sequence - earliest_sequence
           after == Stream!DiscardedBefore(Stream!View, sequence)
<1>1. /\ size \in Nat /\ next_sequence \in Nat /\ earliest_sequence \in Int
      /\ earliest_sequence + size = next_sequence /\ size <= Capacity
      /\ Capacity \in Nat \ {0} /\ start \in 0..(Capacity - 1)
  BY RingAssumption DEF RingInv, earliest_sequence, Index
<1>2. /\ Kept \in Seq(Sample) /\ Len(Kept) = size
      /\ \A i \in 1..size : Kept[i] = buffer[Slot(i - 1)]
  BY KeptIsSeq DEF KeptFacts
<1>3. after = IF sequence <= earliest_sequence
              THEN [next |-> next_sequence, size |-> size]
              ELSE [next |-> next_sequence,
                    size |-> IF sequence >= next_sequence THEN 0 ELSE next_sequence - sequence]
  BY ViewIsRing DEF Stream!DiscardedBefore, Stream!EarliestSequence, earliest_sequence
<1> HIDE DEF after
<1>4. result' = Stream!Done /\ UNCHANGED <<buffer, next_sequence>>
  BY DEF DiscardBefore
<1>5. ASSUME NEW front \in Nat, front <= size, RingInv',
             Stream!EarliestSequence(after) = earliest_sequence + front,
             earliest_sequence' = earliest_sequence + front,
             Kept' = SubSeq(Kept, front + 1, size)
      PROVE  RingInv' /\ Stream!DiscardBefore(sequence)
  <2>1. (earliest_sequence + front) - earliest_sequence + 1 = front + 1
    BY <1>1, <1>5
  <2>2. Kept' = SubSeq(Kept, Stream!EarliestSequence(after) - earliest_sequence + 1, Len(Kept))
    BY <1>2, <1>5, <2>1
  <2> QED BY <1>4, <1>5, <2>2 DEF Stream!DiscardBefore, after
<1>6. CASE sequence <= earliest_sequence \/ size = 0
  <2>1. UNCHANGED <<start, size>>
    BY <1>1, <1>6 DEF DiscardBefore
  <2>2. RingInv' /\ UNCHANGED <<earliest_sequence, Kept>>
    BY <1>4, <2>1 DEF RingInv, earliest_sequence, Kept, Slot
  <2>3. Stream!EarliestSequence(after) = earliest_sequence
    BY <1>1, <1>3, <1>6 DEF Stream!EarliestSequence
  <2>4. Kept = SubSeq(Kept, 1, size)
    BY <1>2, SubSeqFull
  <2>5. earliest_sequence + 0 = earliest_sequence /\ 0 + 1 = 1 /\ 0 \in Nat /\ 0 <= size
    BY <1>1
  <2> QED BY <1>5, <2>2, <2>3, <2>4, <2>5
<1>7. CASE sequence > earliest_sequence /\ size > 0 /\ sequence >= next_sequence
  <2>1. start' = 0 /\ size' = 0
    BY <1>1, <1>7 DEF DiscardBefore
  <2>2. RingInv'
    BY <1>1, <1>4, <2>1 DEF RingInv, Index
  <2>3. earliest_sequence' = earliest_sequence + size
    BY <1>1, <1>4, <2>1 DEF earliest_sequence
  <2>4. Stream!EarliestSequence(after) = earliest_sequence + size
    BY <1>1, <1>3, <1>7 DEF Stream!EarliestSequence
  <2>5. Kept' = << >>
    BY <2>1, <2>2, KeptIsSeqNext DEF KeptFacts
  <2>6. SubSeq(Kept, size + 1, size) = << >>
    <3>1. size + 1 \in Int /\ size \in Int /\ size < size + 1
      BY <1>1
    <3> QED BY <3>1, SubSeqEmpty
  <2> QED BY <1>1, <1>5, <2>2, <2>3, <2>4, <2>5, <2>6
<1>8. CASE sequence > earliest_sequence /\ size > 0 /\ sequence < next_sequence
  <2>1. start' = (start + d) % Capacity /\ size' = size - d
    BY <1>1, <1>8 DEF DiscardBefore, StartAfter
  <2>2. d \in Nat \ {0} /\ d < size /\ sequence = earliest_sequence + d
    BY <1>1, <1>8
  <2> HIDE DEF d
  <2>3. start' = IF start + d < Capacity THEN start + d ELSE (start + d) - Capacity
    <3>1. start + d \in 0..(2 * Capacity - 1)
      BY <1>1, <2>2
    <3> QED BY <1>1, <2>1, <3>1, Wraps
  <2>4. RingInv'
    <3>1. start' \in Index
      BY <1>1, <2>2, <2>3 DEF Index
    <3>2. size' \in 0..Capacity
      BY <1>1, <2>1, <2>2
    <3> QED BY <1>4, <3>1, <3>2 DEF RingInv
  <2>5. earliest_sequence' = earliest_sequence + d
    BY <1>1, <1>4, <2>1, <2>2 DEF earliest_sequence
  <2>6. Stream!EarliestSequence(after) = earliest_sequence + d
    BY <1>1, <1>3, <1>8, <2>2 DEF Stream!EarliestSequence
  <2>7. ASSUME NEW i \in 1..(size - d) PROVE Slot(i - 1)' = Slot((d + 1) + i - 2)
    <3>1. Slot(i - 1)' = (start' + (i - 1)) % Capacity
      BY DEF Slot
    <3>2. start' + (i - 1) \in 0..(2 * Capacity - 1)
      BY <1>1, <2>2, <2>3
    <3>3. (d + 1) + i - 2 \in 0..Capacity
      BY <1>1, <2>2
    <3>4. Slot((d + 1) + i - 2)
            = IF start + ((d + 1) + i - 2) < Capacity THEN start + ((d + 1) + i - 2)
              ELSE start + ((d + 1) + i - 2) - Capacity
      BY <3>3, SlotInRing
    <3>5. Slot(i - 1)' = IF start' + (i - 1) < Capacity THEN start' + (i - 1)
                         ELSE start' + (i - 1) - Capacity
      <4>1. PICK x \in 0..(2 * Capacity - 1) : x = start' + (i - 1)
        BY <3>2
      <4>2. x % Capacity = IF x < Capacity THEN x ELSE x - Capacity
        BY Wraps
      <4>3. Slot(i - 1)' = x % Capacity
        BY <3>1, <4>1
      <4> QED BY <1>1, <2>2, <2>3, <4>1, <4>2, <4>3
    <3>6. (d + 1) + i - 2 = d + (i - 1) /\ i - 1 \in Nat /\ d + (i - 1) < Capacity
      BY <1>1, <2>2
    <3>7. CASE start + d < Capacity
      BY <1>1, <2>2, <2>3, <3>4, <3>5, <3>6, <3>7
    <3>8. CASE ~(start + d < Capacity)
      BY <1>1, <2>2, <2>3, <3>4, <3>5, <3>6, <3>8
    <3> QED BY <3>7, <3>8
  <2>8. Kept' = SubSeq(Kept, d + 1, size)
    <3>1. /\ Kept' \in Seq(Sample) /\ Len(Kept') = size - d
          /\ \A i \in 1..(size - d) : Kept'[i] = buffer'[Slot(i - 1)']
      BY <2>1, <2>4, KeptIsSeqNext DEF KeptFacts
    <3>2. /\ SubSeq(Kept, d + 1, size) \in Seq(Sample)
          /\ Len(SubSeq(Kept, d + 1, size)) = size - d
          /\ \A i \in 1..(size - d) :
               SubSeq(Kept, d + 1, size)[i] = buffer[Slot((d + 1) + i - 2)]
      <4>1. /\ d + 1 \in Nat \ {0} /\ size \in Int /\ size <= size
            /\ d + 1 <= size /\ size - (d + 1) + 1 = size - d
        BY <1>1, <2>2
      <4> QED BY <4>1, PartOfKept
    <3>3. \A i \in 1..(size - d) : Kept'[i] = SubSeq(Kept, d + 1, size)[i]
      BY <1>4, <2>7, <3>1, <3>2
    <3> QED BY <3>1, <3>2, <3>3, SeqEqual
  <2> QED BY <1>1, <1>5, <2>2, <2>4, <2>5, <2>6, <2>8
<1> QED BY <1>1, <1>6, <1>7, <1>8

(***************************************************************************)
(* The theorem.                                                            *)
(***************************************************************************)

LEMMA StepRefines == RingInv /\ [Next]_vars => RingInv' /\ [Stream!Next]_(Stream!vars)
<1> SUFFICES ASSUME RingInv, [Next]_vars PROVE RingInv' /\ [Stream!Next]_(Stream!vars)
  OBVIOUS
<1>1. CASE UNCHANGED vars
  BY <1>1 DEF vars, RingInv, Stream!vars, earliest_sequence, Kept, Slot
<1>2. ASSUME NEW samples \in Chunks, Push(samples)
      PROVE  RingInv' /\ Stream!Next
  BY <1>2, PushRefines DEF Stream!Next
<1>3. 0..MaxSequence + 1 \subseteq Nat /\ 0..Capacity + 1 \subseteq Nat
  BY RingAssumption
<1>4. ASSUME NEW sequence \in 0..MaxSequence + 1, DiscardBefore(sequence)
      PROVE  RingInv' /\ Stream!Next
  BY <1>3, <1>4, DiscardRefines DEF Stream!Next
<1>5. ASSUME NEW sequence \in 0..MaxSequence + 1, NEW n \in 0..Capacity + 1,
             Read(sequence, n)
      PROVE  RingInv' /\ Stream!Next
  BY <1>3, <1>5, ReadRefines DEF Stream!Next
<1> QED BY <1>1, <1>2, <1>4, <1>5 DEF Next

\* A ring of any capacity, given any messages, behaves as the window of the
\* stream pushed into it (ring.cpp): a push that fits overwrites no sample that
\* is kept, a discard moves the start around the end of the buffer without
\* losing one, and a read returns exactly the samples of the sequence numbers
\* asked for, or fails where the window would.
THEOREM RingIsStream == Spec => IsStream
<1>1. Init => RingInv /\ Stream!Init
  BY InitRefines
<1>2. RingInv /\ [Next]_vars => RingInv' /\ [Stream!Next]_(Stream!vars)
  BY StepRefines
<1> QED BY <1>1, <1>2, PTL DEF Spec, IsStream, Stream!Spec
=============================================================================
