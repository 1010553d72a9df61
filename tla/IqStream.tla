------------------------------ MODULE IqStream ------------------------------
(***************************************************************************)
(* What an IqRing promises its users: a bounded window of a stream of      *)
(* samples, addressed by sequence number.  It remembers the samples, where *)
(* IqWindow only remembers how many there are.                             *)
(***************************************************************************)
EXTENDS IqWindow, Sequences

CONSTANTS
  Sample,       \* the values a sample may have
  Capacity,     \* samples the window may hold
  Chunks,       \* the messages that may be pushed, sequences of samples
  MaxSequence   \* bound: samples pushed in a run

VARIABLES
  earliest,  \* sequence number of the first sample of the window
  window,    \* the samples kept
  result     \* what the last operation returned

View == [next |-> earliest + Len(window), size |-> Len(window)]

\* An operation returns whether it succeeded, a read also the samples.
Failed       == [ok |-> FALSE, out |-> << >>]
Returned(out) == [ok |-> TRUE, out |-> out]
Done         == Returned(<< >>)

Init == earliest = 0 /\ window = << >> /\ result = Done

Push(samples) ==
  /\ View.next + Len(samples) <= MaxSequence
  /\ IF CanPush(View, Len(samples), Capacity)
     THEN window' = window \o samples /\ result' = Done
     ELSE result' = Failed /\ UNCHANGED window
  /\ UNCHANGED earliest

Read(sequence, n) ==
  /\ result' = IF ~CanRead(View, sequence, n) THEN Failed
               ELSE IF n = 0 THEN Done
               ELSE LET first == sequence - earliest + 1
                    IN  Returned(SubSeq(window, first, first + n - 1))
  /\ UNCHANGED <<earliest, window>>

DiscardBefore(sequence) ==
  LET after == DiscardedBefore(View, sequence)
  IN  /\ earliest' = EarliestSequence(after)
      /\ window' = SubSeq(window, EarliestSequence(after) - earliest + 1, Len(window))
      /\ result' = Done

Next ==
  \/ \E samples \in Chunks : Push(samples)
  \/ \E sequence \in 0..MaxSequence + 1 :
       DiscardBefore(sequence) \/ \E n \in 0..Capacity + 1 : Read(sequence, n)

vars == <<earliest, window, result>>

Spec == Init /\ [][Next]_vars
=============================================================================
