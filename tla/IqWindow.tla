------------------------------ MODULE IqWindow ------------------------------
(***************************************************************************)
(* What the relay relies on of one IqRing: the ring keeps the newest       *)
(* `size' samples of a stream of `next' samples, named by their sequence   *)
(* numbers.  A ring is the record [next, size]; the samples themselves are *)
(* in IqRing, which refines this view.                                     *)
(***************************************************************************)
EXTENDS Integers

EmptyWindow == [next |-> 0, size |-> 0]

EarliestSequence(r) == r.next - r.size

FreeCapacity(r, capacity) == capacity - r.size

\* Mutated form of CanPush: what the ring already holds is forgotten.
CanPushIntoEmpty(r, n, capacity) == n <= capacity

CanPush(r, n, capacity) == n <= FreeCapacity(r, capacity)

Pushed(r, n) == [next |-> r.next + n, size |-> r.size + n]

DiscardedBefore(r, sequence) ==
  IF sequence <= EarliestSequence(r)
  THEN r
  ELSE [next |-> r.next,
        size |-> IF sequence >= r.next THEN 0 ELSE r.next - sequence]

CanRead(r, sequence, n) ==
  \/ n = 0
  \/ /\ EarliestSequence(r) <= sequence
     /\ sequence + n <= r.next
=============================================================================
