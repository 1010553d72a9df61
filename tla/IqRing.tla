------------------------------- MODULE IqRing -------------------------------
(***************************************************************************)
(* src/ring.cpp: the circular buffer behind every device's ring.  All its  *)
(* operations run under the device's ring mutex, so each is one action.    *)
(***************************************************************************)
EXTENDS IqWindow, Sequences

CONSTANTS
  Sample,       \* the values a sample may have
  Capacity,     \* capacity_samples
  Chunks,       \* the messages that may be pushed, sequences of samples
  MaxSequence   \* bound: samples pushed in a run

ASSUME RingAssumption ==
  /\ Capacity \in Nat \ {0}
  /\ Chunks \subseteq Seq(Sample)
  /\ MaxSequence \in Nat

VARIABLES buffer, next_sequence, start, size, result

vars == <<buffer, next_sequence, start, size, result>>

Index == 0..Capacity - 1

earliest_sequence == next_sequence - size

\* buffer_ index of the i-th sample kept, the first being 0.
Slot(i) == (start + i) % Capacity

\* The samples kept, oldest first.
Kept == [i \in 1..size |-> buffer[Slot(i - 1)]]

Stream == INSTANCE IqStream WITH earliest <- earliest_sequence, window <- Kept

\* reset: the buffer is allocated with zero samples.
Init ==
  /\ \E zero \in Sample : buffer = [k \in Index |-> zero]
  /\ next_sequence = 0 /\ start = 0 /\ size = 0
  /\ result = Stream!Done

Fits(n) == n <= Capacity /\ size + n <= Capacity

\* The slots after the last sample kept, in order, wrapping at the end.
Written(samples) ==
  LET behind(k) == (k - Slot(size)) % Capacity
  IN  [k \in Index |-> IF behind(k) < Len(samples) THEN samples[behind(k) + 1]
                       ELSE buffer[k]]

Push(samples) ==
  /\ next_sequence + Len(samples) <= MaxSequence
  /\ \/ /\ samples = << >> \/ Fits(Len(samples))
        /\ buffer' = Written(samples)
        /\ size' = size + Len(samples)
        /\ next_sequence' = next_sequence + Len(samples)
        /\ result' = Stream!Done
     \/ /\ samples # << >> /\ ~Fits(Len(samples))
        /\ result' = Stream!Failed
        /\ UNCHANGED <<buffer, size, next_sequence>>
  /\ UNCHANGED start

Readable(sequence, n) ==
  sequence >= earliest_sequence /\ sequence + n <= next_sequence

Read(sequence, n) ==
  /\ result' =
       IF n = 0 THEN Stream!Done
       ELSE IF Readable(sequence, n)
       THEN LET offset == sequence - earliest_sequence
            IN  Stream!Returned([i \in 1..n |-> buffer[Slot(offset + i - 1)]])
       ELSE Stream!Failed
  /\ UNCHANGED <<buffer, next_sequence, start, size>>

\* Mutated form of StartAfter: the start does not wrap.
StartAfterUnwrapped(count) == IF start + count < Capacity THEN start + count ELSE 0

StartAfter(count) == (start + count) % Capacity

DiscardBefore(sequence) ==
  /\ \/ /\ sequence <= earliest_sequence \/ size = 0
        /\ UNCHANGED <<start, size>>
     \/ /\ sequence > earliest_sequence /\ size > 0
        /\ sequence >= next_sequence
        /\ start' = 0 /\ size' = 0
     \/ /\ sequence > earliest_sequence /\ size > 0
        /\ sequence < next_sequence
        /\ start' = StartAfter(sequence - earliest_sequence)
        /\ size' = size - (sequence - earliest_sequence)
  /\ result' = Stream!Done
  /\ UNCHANGED <<buffer, next_sequence>>

Next ==
  \/ \E samples \in Chunks : Push(samples)
  \/ \E sequence \in 0..MaxSequence + 1 :
       DiscardBefore(sequence) \/ \E n \in 0..Capacity + 1 : Read(sequence, n)

Spec == Init /\ [][Next]_vars

-----------------------------------------------------------------------------
\* The ring behaves like a window of the stream pushed into it: it returns the
\* samples asked for, in order and unaltered, or fails as the window would.
IsStream == Stream!Spec
=============================================================================
