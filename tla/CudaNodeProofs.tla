--------------------------- MODULE CudaNodeProofs ---------------------------
(***************************************************************************)
(* Theorems of CudaNode: an edge of a node on the GPU is the tdl step of   *)
(* the CPU backend, in every serve within reach of the path it takes.      *)
(***************************************************************************)
EXTENDS CudaNode, FiniteSetTheorems, SequenceTheorems, TLAPS

(***************************************************************************)
(* Induction, by the least number at which something fails.                *)
(***************************************************************************)

Below == OpToRel(<, Nat)

LEMMA BelowIsLess == \A a \in Nat, b \in Nat : <<a, b>> \in Below <=> a < b
  BY DEF Below, OpToRel

LEMMA LeastNatural ==
  ASSUME NEW T \in SUBSET Nat, T # {}
  PROVE  \E m \in T : \A n \in T : m <= n
<1>1. IsWellFoundedOn(Below, Nat)
  BY NatLessThanWellFounded DEF Below
<1>2. PICK m \in T : \A n \in T : ~(<<n, m>> \in Below)
  BY <1>1, WFMin
<1>3. ASSUME NEW n \in T PROVE m <= n
  <2>1. ~(n < m)
    BY <1>2, BelowIsLess
  <2> QED BY <2>1
<1> QED BY <1>3

\* The numbers at which something holds, up to a bound, are all of them.
LEMMA UpTo ==
  ASSUME NEW N \in Nat, NEW Holds, 0 \in Holds,
         \A n \in 0..(N - 1) : n \in Holds => n + 1 \in Holds
  PROVE  0..N \subseteq Holds
<1> DEFINE Fails == {n \in 0..N : n \notin Holds}
<1> SUFFICES ASSUME Fails # {} PROVE FALSE
  OBVIOUS
<1>1. Fails \in SUBSET Nat
  OBVIOUS
<1>2. PICK m \in Fails : \A n \in Fails : m <= n
  BY <1>1, LeastNatural
<1>3. m # 0 /\ m - 1 \in 0..(N - 1) /\ m - 1 \notin Fails
  BY <1>2
<1>4. m - 1 \in Holds /\ (m - 1) + 1 = m
  BY <1>3
<1> QED BY <1>3, <1>4

\* g is what a step function builds from a first value, N steps on.
Iterates(N, S, first, step, g) ==
  /\ g \in [0..N -> S]
  /\ g[0] = first /\ \A k \in 1..N : g[k] = step[k][g[k - 1]]

LEMMA Iterated ==
  ASSUME NEW N \in Nat, NEW S, NEW first \in S, NEW step \in [1..N -> [S -> S]]
  PROVE  \E g : Iterates(N, S, first, step, g)
<1> DEFINE Builds(n, g) == /\ g \in [0..n -> S] /\ g[0] = first
                           /\ \A k \in 1..n : g[k] = step[k][g[k - 1]]
           Holds == {n \in Nat : \E g : Builds(n, g)}
<1>1. 0 \in Holds
  <2>1. Builds(0, [i \in 0..0 |-> first])
    OBVIOUS
  <2> QED BY <2>1
<1>2. ASSUME NEW n \in 0..(N - 1), n \in Holds PROVE n + 1 \in Holds
  <2>1. PICK g : Builds(n, g)
    BY <1>2
  <2> DEFINE next == step[n + 1][g[n]]
             h == [i \in 0..(n + 1) |-> IF i <= n THEN g[i] ELSE next]
  <2>2. next \in S
    <3>1. g[n] \in S /\ n + 1 \in 1..N
      BY <2>1
    <3> QED BY <3>1
  <2> HIDE DEF next
  <2>3. h \in [0..(n + 1) -> S] /\ h[0] = first
    BY <2>1, <2>2
  <2>4. ASSUME NEW k \in 1..(n + 1) PROVE h[k] = step[k][h[k - 1]]
    <3>1. CASE k <= n
      BY <2>1, <3>1
    <3>2. CASE k = n + 1
      BY <2>1, <3>2 DEF next
    <3> QED BY <3>1, <3>2
  <2> HIDE DEF h
  <2>5. Builds(n + 1, h) /\ n + 1 \in Nat
    BY <2>3, <2>4
  <2> QED BY <2>5
<1> HIDE DEF Holds
<1>3. 0..N \subseteq Holds
  BY <1>1, <1>2, UpTo
<1>4. N \in Holds
  BY <1>3
<1> QED BY <1>4 DEF Holds, Iterates

\* A tdl with taps has a longest delay.
LEMMA LongestExists ==
  ASSUME NEW taps \in Seq(Nat), taps # <<>>
  PROVE  \E d \in Delays(taps) : \A e \in Delays(taps) : e <= d
<1> DEFINE Longest(n, k) == k \in 1..n /\ \A i \in 1..n : taps[i] <= taps[k]
           Holds == {n \in 0..Len(taps) : n = 0 \/ \E k : Longest(n, k)}
<1>1. Len(taps) \in Nat \ {0} /\ \A i \in 1..Len(taps) : taps[i] \in Nat
  OBVIOUS
<1>2. 0 \in Holds
  BY <1>1
<1>3. ASSUME NEW n \in 0..(Len(taps) - 1), n \in Holds PROVE n + 1 \in Holds
  <2>1. n + 1 \in 1..Len(taps)
    BY <1>1
  <2>2. CASE n = 0
    <3>1. Longest(n + 1, 1)
      BY <1>1, <2>2
    <3> QED BY <2>1, <3>1
  <2>3. CASE n # 0
    <3>1. PICK k : Longest(n, k)
      BY <1>3, <2>3
    <3>2. taps[k] \in Nat /\ taps[n + 1] \in Nat /\ \A i \in 1..n : taps[i] \in Nat
      BY <1>1, <2>1, <3>1
    <3>3. CASE taps[n + 1] <= taps[k]
      <4>1. Longest(n + 1, k)
        BY <3>1, <3>2, <3>3
      <4> QED BY <2>1, <4>1
    <3>4. CASE ~(taps[n + 1] <= taps[k])
      <4>1. Longest(n + 1, n + 1)
        BY <3>1, <3>2, <3>4
      <4> QED BY <2>1, <4>1
    <3> QED BY <3>2, <3>3, <3>4
  <2> QED BY <2>2, <2>3
<1> HIDE DEF Holds
<1>4. 0..Len(taps) \subseteq Holds
  BY <1>1, <1>2, <1>3, UpTo
<1>5. Len(taps) \in Holds
  BY <1>1, <1>4
<1> QED BY <1>1, <1>5 DEF Holds, Delays

(***************************************************************************)
(* Sources: the slot of an edge holds the window of an edge of its radio.  *)
(***************************************************************************)

LEMMA EdgesOfNode ==
  ASSUME node \in Nodes
  PROVE  /\ Edges \in Seq(EdgeConfigs)
         /\ EdgeIndex = 1..Len(Edges) /\ Len(Edges) \in Nat
         /\ \A k \in EdgeIndex : Edges[k] \in EdgeConfigs
<1>1. Edges \in Seq(EdgeConfigs)
  BY NodeAssumption DEF Edges
<1>2. EdgeIndex = 1..Len(Edges) /\ Len(Edges) \in Nat
  BY <1>1 DEF EdgeIndex
<1> QED BY <1>1, <1>2

\* A radio that an edge comes from has a first edge.
LEMMA FirstEdgeExists ==
  ASSUME node \in Nodes, NEW k \in EdgeIndex
  PROVE  \E f \in EdgeIndex : IsFirstEdge(Edges, f, Edges[k].from)
<1> DEFINE Same == {j \in EdgeIndex : Edges[j].from = Edges[k].from}
<1>1. EdgeIndex = 1..Len(Edges) /\ Len(Edges) \in Nat
  BY EdgesOfNode
<1>2. Same \in SUBSET Nat /\ k \in Same
  BY <1>1
<1>3. PICK f \in Same : \A j \in Same : f <= j
  BY <1>2, LeastNatural
<1>4. ASSUME NEW j \in 1..(f - 1) PROVE Edges[j].from # Edges[k].from
  <2>1. j \in EdgeIndex /\ ~(f <= j)
    BY <1>1, <1>3
  <2> QED BY <1>3, <2>1
<1> QED BY <1>3, <1>4 DEF IsFirstEdge

LEMMA SlotsOfFirstEdges ==
  ASSUME node \in Nodes, NEW f \in FirstEdges, NEW g \in FirstEdges, SlotOf(f) = SlotOf(g)
  PROVE  f = g
<1> DEFINE Before(h) == {e \in FirstEdges : e < h}
<1>1. FirstEdges \subseteq Nat /\ IsFiniteSet(FirstEdges)
  <2>1. EdgeIndex = 1..Len(Edges) /\ Len(Edges) \in Nat
    BY EdgesOfNode
  <2>2. IsFiniteSet(1..Len(Edges))
    BY <2>1, FS_Interval
  <2>3. FirstEdges \in SUBSET (1..Len(Edges))
    BY <2>1 DEF FirstEdges
  <2>4. IsFiniteSet(FirstEdges)
    BY <2>2, <2>3, FS_Subset
  <2> QED BY <2>1, <2>3, <2>4
<1>2. ASSUME NEW a \in FirstEdges, NEW b \in FirstEdges, a < b PROVE SlotOf(a) # SlotOf(b)
  <2>1. Before(a) \in SUBSET Before(b) /\ Before(b) \in SUBSET FirstEdges
    <3>1. \A e \in FirstEdges : e \in Nat
      BY <1>1
    <3>2. ASSUME NEW e \in FirstEdges, e < a PROVE e < b
      BY <1>2, <3>1, <3>2
    <3> QED BY <3>2
  <2>2. a \in Before(b) /\ a \notin Before(a)
    BY <1>1, <1>2
  <2>3. Before(a) # Before(b)
    BY <2>2
  <2> HIDE DEF Before
  <2>4. IsFiniteSet(Before(b))
    BY <1>1, <2>1, FS_Subset
  <2>5. Cardinality(Before(a)) # Cardinality(Before(b))
    BY <2>1, <2>3, <2>4, FS_Subset
  <2> QED BY <2>5 DEF SlotOf, Before
<1> QED BY <1>1, <1>2

\* The window in the slot of an edge is one of the edge's own radio.
LEMMA SourceOfSlot ==
  ASSUME node \in Nodes, NEW k \in EdgeIndex
  PROVE  /\ source_first_edge(src_index(k)) \in EdgeIndex
         /\ Edges[source_first_edge(src_index(k))].from = Edges[k].from
<1> DEFINE f == CHOOSE f \in EdgeIndex : IsFirstEdge(Edges, f, Edges[k].from)
<1>1. f \in EdgeIndex /\ IsFirstEdge(Edges, f, Edges[k].from)
  <2>1. \E e \in EdgeIndex : IsFirstEdge(Edges, e, Edges[k].from)
    BY FirstEdgeExists
  <2> QED BY <2>1
<1> HIDE DEF f
<1>2. f \in FirstEdges /\ Edges[f].from = Edges[k].from
  BY <1>1 DEF FirstEdges, IsFirstEdge
<1>3. src_index(k) = SlotOf(f)
  BY DEF src_index, f
<1>4. source_first_edge(SlotOf(f)) = f
  <2>1. \A g \in FirstEdges : SlotOf(g) = SlotOf(f) => g = f
    BY <1>2, SlotsOfFirstEdges
  <2> QED BY <1>2, <2>1 DEF source_first_edge
<1> QED BY <1>1, <1>2, <1>3, <1>4

(***************************************************************************)
(* Delay lines and windows, as the step of a CPU link names their samples. *)
(***************************************************************************)

LEMMA RingIsCpuRing ==
  ASSUME NEW m \in Nodes, NEW k
  PROVE  CpuStep(m, k)!RingSize = RingOf(m.edges[k].taps)
BY DEF CpuStep!RingSize, CpuStep!MaxDelay, CpuStep!Ceil, CpuStep!LongestDelay,
       CpuStep!Delays, CpuStep!FilterTaps, RingOf, Ceil, LongestDelay, Delays, FilterTaps

LEMMA RingIsNat ==
  ASSUME node \in Nodes, NEW k \in EdgeIndex, Leads(Edges[k])
  PROVE  RingOf(Edges[k].taps) \in Nat \ {0}
<1>1. Edges[k].taps \in Seq(Nat)
  BY EdgesOfNode DEF EdgeConfigs
<1>2. \E d \in Delays(Edges[k].taps) : \A e \in Delays(Edges[k].taps) : e <= d
  <2>1. Edges[k].taps # <<>>
    BY NodeAssumption DEF Edges, EdgeIndex
  <2> QED BY <1>1, <2>1, LongestExists
<1>3. LongestDelay(Edges[k].taps) \in Delays(Edges[k].taps)
  BY <1>2 DEF LongestDelay
<1>4. LongestDelay(Edges[k].taps) \in Nat
  BY <1>1, <1>3 DEF Delays
<1> QED BY <1>4 DEF RingOf, Ceil, FilterTaps

LEMMA InputAsFed ==
  ASSUME node \in Nodes, NEW k \in EdgeIndex, NEW e \in EdgeIndex,
         Edges[e].from = Edges[k].from, NEW idx
  PROVE  AsFed(k, Input(e, idx)) = fed + 1 + idx
<1>1. Edges[e].from # "silence"
  BY EdgesOfNode, NodeAssumption DEF EdgeConfigs
<1>2. Input(e, idx) # Silent
  BY <1>1 DEF Input, Silent
<1> QED BY <1>2 DEF AsFed, Input

LEMMA ReadAsFed ==
  ASSUME NEW m \in Nodes, node = m, NEW k \in EdgeIndex, Leads(Edges[k]), NEW e \in EdgeIndex,
         Edges[e].from = Edges[k].from,
         NEW line, DOMAIN line = 0..(RingOf(Edges[k].taps) - 1),
         NEW n \in Nat, NEW idx \in Int
  PROVE  AsFed(k, ReadSample(e, line, RingOf(Edges[k].taps), n, idx))
           = CpuStep(m, k)!Read(LineAsFed(k, line), n, idx)
<1> DEFINE R == RingOf(Edges[k].taps)
<1>1. R \in Nat /\ CpuStep(m, k)!RingSize = R
  BY RingIsNat, RingIsCpuRing DEF Edges
<1> HIDE DEF R
<1>2. CASE idx >= n
  BY <1>2 DEF ReadSample, CpuStep!Read, AsFed
<1>3. CASE idx \in 0..(n - 1)
  BY <1>3, InputAsFed DEF ReadSample, CpuStep!Read, CpuStep!Input
<1>4. CASE idx < 0 /\ R + idx >= 0
  <2>1. R + idx \in DOMAIN line
    BY <1>1, <1>4 DEF R
  <2> QED BY <1>1, <1>4, <2>1 DEF ReadSample, CpuStep!Read, LineAsFed, R
<1>5. CASE idx < 0 /\ R + idx < 0
  BY <1>1, <1>5 DEF ReadSample, CpuStep!Read, AsFed, R
<1> QED BY <1>1, <1>2, <1>3, <1>4, <1>5

LEMMA ShapedAsFed ==
  ASSUME NEW m \in Nodes, node = m, NEW k \in EdgeIndex, Leads(Edges[k]),
         NEW e \in EdgeIndex, Edges[e].from = Edges[k].from,
         NEW line, DOMAIN line = 0..(RingOf(Edges[k].taps) - 1),
         NEW taps \in Seq(Nat), NEW n \in Nat
  PROVE  ReadsAsFed(k, Shaped(e, taps, line, RingOf(Edges[k].taps), n))
           = CpuStep(m, k)!Convolve(taps, LineAsFed(k, line), n)
<1> DEFINE R == RingOf(Edges[k].taps)
           Read(j, t, i) == ReadSample(e, line, R, n, ReadIndex(j, taps[t], i))
<1>1. ASSUME NEW j \in 0..(n - 1), NEW t \in 1..Len(taps), NEW i \in Aperture(taps[t])
      PROVE  AsFed(k, Read(j, t, i))
               = CpuStep(m, k)!Read(LineAsFed(k, line), n, ReadIndex(j, taps[t], i))
  <2>1. taps[t] \in Nat
    OBVIOUS
  <2>2. i \in Int
    BY DEF Aperture, FilterTaps
  <2>3. ReadIndex(j, taps[t], i) \in Int
    BY <2>1, <2>2 DEF ReadIndex, Floor
  <2> QED BY <2>3, ReadAsFed
<1>2. ReadsAsFed(k, Shaped(e, taps, line, R, n))
        = [j \in 0..(n - 1) |->
            [t \in 1..Len(taps) |-> [i \in Aperture(taps[t]) |-> AsFed(k, Read(j, t, i))]]]
  BY DEF ReadsAsFed, Shaped
<1>3. CpuStep(m, k)!Convolve(taps, LineAsFed(k, line), n)
        = [j \in 0..(n - 1) |->
            [t \in 1..Len(taps) |->
              [i \in Aperture(taps[t]) |->
                CpuStep(m, k)!Read(LineAsFed(k, line), n, ReadIndex(j, taps[t], i))]]]
  BY DEF CpuStep!Convolve, CpuStep!Aperture, CpuStep!ReadIndex, CpuStep!Floor,
         CpuStep!FilterTaps, Aperture, ReadIndex, Floor, FilterTaps
<1> HIDE DEF Read
<1> QED BY <1>1, <1>2, <1>3

LEMMA RolledAsFed ==
  ASSUME NEW m \in Nodes, node = m, NEW k \in EdgeIndex, Leads(Edges[k]),
         NEW e \in EdgeIndex, Edges[e].from = Edges[k].from,
         NEW line, DOMAIN line = 0..(RingOf(Edges[k].taps) - 1), NEW n \in Nat
  PROVE  LineAsFed(k, Rolled(e, line, RingOf(Edges[k].taps), n))
           = CpuStep(m, k)!Rolled(LineAsFed(k, line), n)
<1> DEFINE R == RingOf(Edges[k].taps)
<1>1. R \in Nat /\ CpuStep(m, k)!RingSize = R
  BY RingIsNat, RingIsCpuRing DEF Edges
<1> HIDE DEF R
<1>2. ASSUME NEW j \in 0..(R - 1)
      PROVE  AsFed(k, Rolled(e, line, R, n)[j])
               = CpuStep(m, k)!Rolled(LineAsFed(k, line), n)[j]
  <2>1. CASE n >= R
    BY <1>1, <2>1, InputAsFed DEF Rolled, CpuStep!Rolled, CpuStep!Input
  <2>2. CASE n < R /\ j < R - n
    <3>1. j + n \in DOMAIN line
      BY <1>1, <2>2 DEF R
    <3>2. Rolled(e, line, R, n)[j] = line[j + n]
      BY <1>1, <2>2 DEF Rolled
    <3>3. CpuStep(m, k)!Rolled(LineAsFed(k, line), n)[j] = LineAsFed(k, line)[j + n]
      BY <1>1, <2>2 DEF CpuStep!Rolled
    <3> QED BY <3>1, <3>2, <3>3 DEF LineAsFed
  <2>3. CASE n < R /\ ~(j < R - n)
    BY <1>1, <2>3, InputAsFed DEF Rolled, CpuStep!Rolled, CpuStep!Input
  <2> QED BY <1>1, <2>1, <2>2, <2>3
<1>3. LineAsFed(k, Rolled(e, line, R, n))
        = [j \in 0..(R - 1) |-> AsFed(k, Rolled(e, line, R, n)[j])]
  BY DEF LineAsFed, Rolled
<1>4. CpuStep(m, k)!Rolled(LineAsFed(k, line), n)
        = [j \in 0..(R - 1) |-> CpuStep(m, k)!Rolled(LineAsFed(k, line), n)[j]]
  BY <1>1 DEF CpuStep!Rolled
<1>5. LineAsFed(k, Rolled(e, line, R, n)) = CpuStep(m, k)!Rolled(LineAsFed(k, line), n)
  BY <1>2, <1>3, <1>4
<1> QED BY <1>5 DEF R

LEMMA SilenceAsFed ==
  ASSUME NEW m \in Nodes, node = m, NEW k \in EdgeIndex
  PROVE  LineAsFed(k, SilentRing(RingOf(Edges[k].taps))) = CpuStep(m, k)!Silence
<1>1. CpuStep(m, k)!RingSize = RingOf(Edges[k].taps)
  BY RingIsCpuRing DEF Edges
<1> QED BY <1>1 DEF LineAsFed, SilentRing, CpuStep!Silence, AsFed

(***************************************************************************)
(* The fading grid: a serve that needs no more points than the device has. *)
(***************************************************************************)

LEMMA MinOfTwo ==
  ASSUME NEW a \in Int, NEW b \in Int
  PROVE  Min({a, b}) = IF a <= b THEN a ELSE b
<1> DEFINE c == IF a <= b THEN a ELSE b
<1>1. c \in {a, b} /\ \A y \in {a, b} : c <= y
  OBVIOUS
<1>2. \A x \in {a, b} : (\A y \in {a, b} : x <= y) => x = c
  OBVIOUS
<1> HIDE DEF c
<1>3. Min({a, b}) = c
  BY <1>1, <1>2 DEF Min
<1> QED BY <1>3 DEF c

LEMMA DivMonotone ==
  ASSUME NEW a \in Nat, NEW b \in Nat, a <= b, NEW s \in Nat \ {0}
  PROVE  a \div s \in Nat /\ b \div s \in Nat /\ a \div s <= b \div s
<1> DEFINE p == a \div s
           q == b \div s
<1>1. p \in Nat /\ p * s <= a
  OBVIOUS
<1>2. q \in Nat /\ b < q * s + s
  OBVIOUS
<1> HIDE DEF p, q
<1>3. ASSUME q < p PROVE FALSE
  <2>1. PICK c \in Nat : p = q + 1 + c
    <3>1. p - q - 1 \in Nat /\ p = q + 1 + (p - q - 1)
      BY <1>1, <1>2, <1>3
    <3> QED BY <3>1
  <2>2. p * s = q * s + s + c * s /\ c * s \in Nat /\ q * s \in Nat
    BY <1>2, <2>1
  <2> QED BY <1>1, <1>2, <2>2
<1> QED BY <1>1, <1>2, <1>3 DEF p, q

LEMMA GridIsCpuGrid ==
  ASSUME NEW m \in Nodes, node = m, NEW k, NEW n \in Nat
  PROVE  GridTimes(TimeOf(k), n, GridCount(n)) = CpuStep(m, k)!GridTimes(n)
<1> DEFINE last == (n + GridStride - 1) \div GridStride
<1>1. GridStride \in Nat \ {0}
  BY NodeAssumption
<1>2. ASSUME NEW j \in 0..(n - 1)
      PROVE  /\ Min({j \div GridStride, GridCount(n) - 1}) = j \div GridStride
             /\ Min({j \div GridStride + 1, GridCount(n) - 1}) = CpuStep(m, k)!GridCeil(j, n)
  <2>1. j \in Nat /\ n + GridStride - 1 \in Nat /\ j <= n + GridStride - 1
    BY <1>1
  <2>2. j \div GridStride \in Nat /\ last \in Nat /\ j \div GridStride <= last
    BY <1>1, <2>1, DivMonotone
  <2>3. GridCount(n) - 1 = last /\ CpuStep(m, k)!GridCount(n) - 1 = last
    BY <2>2 DEF GridCount, CpuStep!GridCount
  <2> HIDE DEF last
  <2>4. CpuStep(m, k)!GridCeil(j, n)
          = IF j \div GridStride + 1 <= last THEN j \div GridStride + 1 ELSE last
    BY <2>3 DEF CpuStep!GridCeil, CpuStep!GridFloor
  <2>5. Min({j \div GridStride, last}) = j \div GridStride
    BY <2>2, MinOfTwo
  <2>6. Min({j \div GridStride + 1, last})
          = IF j \div GridStride + 1 <= last THEN j \div GridStride + 1 ELSE last
    <3>1. j \div GridStride + 1 \in Int
      BY <2>2
    <3> QED BY <2>2, <3>1, MinOfTwo
  <2> QED BY <2>3, <2>4, <2>5, <2>6
<1> QED BY <1>2 DEF GridTimes, CpuStep!GridTimes, CpuStep!GridFloor

(***************************************************************************)
(* Type correctness.                                                       *)
(***************************************************************************)

LEMMA AllocationsAreFreed == ASSUME node \in Nodes PROVE Allocations \in Seq(Freed)
<1> DEFINE first == <<"host_staged", "host_output", "device_staged", "device_output",
                      "device_steps", "device_step_meta", "stream", "h2d_start", "h2d_done",
                      "kernel_done", "d2h_done">>
           rx == IF node.rx # <<>> THEN <<"device_rx_steps">> ELSE <<>>
           rest == <<"device_link_states", "host_source_iq", "device_source_iq">>
<1>1. /\ "host_staged" \in Freed /\ "host_output" \in Freed /\ "device_staged" \in Freed
      /\ "device_output" \in Freed /\ "device_steps" \in Freed
      /\ "device_step_meta" \in Freed /\ "stream" \in Freed /\ "h2d_start" \in Freed
      /\ "h2d_done" \in Freed /\ "kernel_done" \in Freed /\ "d2h_done" \in Freed
      /\ "device_rx_steps" \in Freed /\ "device_link_states" \in Freed
      /\ "host_source_iq" \in Freed /\ "device_source_iq" \in Freed
  BY DEF Freed
<1>2. first \in Seq(Freed)
  BY <1>1
<1>3. rx \in Seq(Freed) /\ rest \in Seq(Freed)
  BY <1>1
<1>4. Allocations = first \o rx \o rest
  BY DEF Allocations
<1> HIDE DEF first, rx, rest
<1> QED BY <1>2, <1>3, <1>4

LEMMA SlotIsNat == ASSUME node \in Nodes, NEW k \in EdgeIndex PROVE src_index(k) \in Nat
<1>1. EdgeIndex = 1..Len(Edges) /\ Len(Edges) \in Nat
  BY EdgesOfNode
<1>2. IsFiniteSet(1..Len(Edges))
  BY <1>1, FS_Interval
<1>3. ASSUME NEW f PROVE SlotOf(f) \in Nat
  <2>1. {g \in FirstEdges : g < f} \in SUBSET (1..Len(Edges))
    BY <1>1 DEF FirstEdges
  <2> QED BY <1>2, <2>1, FS_Subset, FS_CardinalityType DEF SlotOf
<1> QED BY <1>3 DEF src_index

LEMMA UpdatedSeq ==
  ASSUME NEW seq \in Seq(Nat), NEW d \in Nat
  PROVE  [seq EXCEPT ![1] = d] \in Seq(Nat) /\ Len([seq EXCEPT ![1] = d]) = Len(seq)
<1>1. seq \in [1..Len(seq) -> Nat] /\ Len(seq) \in Nat
  OBVIOUS
<1>2. [seq EXCEPT ![1] = d] \in [1..Len(seq) -> Nat]
  BY <1>1
<1>3. [seq EXCEPT ![1] = d] \in Seq(Nat)
  BY <1>1, <1>2, SeqDef
<1> QED BY <1>1, <1>2, <1>3

LEMMA PairIn == ASSUME NEW A, NEW B, NEW a \in A, NEW b \in B PROVE <<a, b>> \in A \X B
  OBVIOUS

LEMMA SilentRingType ==
  ASSUME NEW top \in Nat, NEW size
  PROVE  SilentRing(size) \in [0..(size - 1) -> Origin \X (0..top)]
<1>1. 0 \in 0..top
  OBVIOUS
<1>2. "silence" \in Origin
  BY Zenon DEF Origin
<1>3. Silent = <<"silence", 0>>
  BY DEF Silent
<1>4. Silent \in Origin \X (0..top)
  BY <1>1, <1>2, <1>3, PairIn
<1> QED BY <1>4 DEF SilentRing

LEMMA BuiltFits ==
  ASSUME node \in Nodes, NEW k \in EdgeIndex
  PROVE  StateFitsDevice(build_device_link_state(k), 0)
<1>1. src_index(k) \in Nat /\ Edges[k].taps \in Seq(Nat)
  BY SlotIsNat, EdgesOfNode DEF EdgeConfigs
<1>2. MaxTaps \in Nat \ {0} /\ MaxDelayLine \in Nat
  BY NodeAssumption
<1>3. ASSUME NEW has_tdl \in BOOLEAN, NEW taps \in Seq(Nat), Len(taps) <= MaxTaps,
             NEW size \in 0..MaxDelayLine,
             build_device_link_state(k)
               = [has_tdl |-> has_tdl, taps |-> taps, delay_line_size |-> size,
                  delay_line |-> SilentRing(size), slot_start_samples |-> 0,
                  src_index |-> src_index(k)]
      PROVE  StateFitsDevice(build_device_link_state(k), 0)
  <2>1. SilentRing(size) \in [0..(size - 1) -> Origin \X (0..0)]
    BY SilentRingType
  <2> QED BY <1>1, <1>3, <2>1 DEF StateFitsDevice, LinkStates
<1>4. CASE FitsDevice(Edges[k])
  <2>1. RingOf(Edges[k].taps) \in 0..MaxDelayLine /\ Len(Edges[k].taps) <= MaxTaps
    BY <1>2, <1>4, RingIsNat DEF FitsDevice
  <2>2. build_device_link_state(k)
          = [has_tdl |-> TRUE, taps |-> Edges[k].taps,
             delay_line_size |-> RingOf(Edges[k].taps),
             delay_line |-> SilentRing(RingOf(Edges[k].taps)), slot_start_samples |-> 0,
             src_index |-> src_index(k)]
    BY <1>4 DEF build_device_link_state
  <2> QED BY <1>1, <1>3, <2>1, <2>2
<1>5. CASE ~FitsDevice(Edges[k])
  <2>1. 0 \in 0..MaxDelayLine /\ <<>> \in Seq(Nat) /\ Len(<<>>) <= MaxTaps
    BY <1>2
  <2>2. build_device_link_state(k)
          = [has_tdl |-> FALSE, taps |-> <<>>, delay_line_size |-> 0,
             delay_line |-> SilentRing(0), slot_start_samples |-> 0,
             src_index |-> src_index(k)]
    BY <1>5 DEF build_device_link_state
  <2> QED BY <1>3, <2>1, <2>2
<1> QED BY <1>4, <1>5

LEMMA RefreshFits ==
  ASSUME node \in Nodes, NEW top \in Nat, NEW k \in EdgeIndex, NEW u \in Updates,
         live_tap0[k] \in Nat, live_profile[k] \in Seq(Nat),
         NEW state, StateFitsDevice(state, top)
  PROVE  StateFitsDevice(Refresh(state, k, u), top)
<1> DEFINE size == state.delay_line_size
           line == IF profile_just_activated(k, u) THEN SilentRing(size) ELSE state.delay_line
           taps == RefreshedTaps(state.taps, k, u)
<1>1. MaxTaps \in Nat \ {0} /\ Tap0Delays \subseteq Nat /\ Profiles \subseteq Seq(Nat)
  BY NodeAssumption
<1>2. Tap0After(k, u) \in Nat /\ ProfileAfter(k, u) \in Seq(Nat)
  BY <1>1 DEF Updates, Tap0After, ProfileAfter
<1>3. state \in LinkStates(size, top) /\ size \in 0..MaxDelayLine /\ Len(state.taps) <= MaxTaps
  BY DEF StateFitsDevice
<1>4. state.taps \in Seq(Nat) /\ state.delay_line \in [0..(size - 1) -> Origin \X (0..top)]
  BY <1>3 DEF LinkStates
<1>5. line \in [0..(size - 1) -> Origin \X (0..top)]
  BY <1>4, SilentRingType
<1>6. taps \in Seq(Nat) /\ Len(taps) <= MaxTaps
  <2>1. CASE ProfileAfter(k, u) # <<>>
    <3> DEFINE p == ProfileAfter(k, u)
               l == Min({Len(p), MaxTaps})
    <3>1. l \in Nat /\ l <= Len(p) /\ l <= MaxTaps
      <4>1. Len(p) \in Nat /\ Len(p) \in Int /\ MaxTaps \in Int
        BY <1>1, <1>2
      <4>2. l = IF Len(p) <= MaxTaps THEN Len(p) ELSE MaxTaps
        BY <4>1, MinOfTwo
      <4> QED BY <1>1, <4>1, <4>2
    <3>2. taps = SubSeq(p, 1, l)
      BY <2>1 DEF RefreshedTaps
    <3> HIDE DEF l, p, taps
    <3>3. p \in Seq(Nat)
      BY <1>2 DEF p
    <3>4. \A i \in 1..l : p[i] \in Nat
      BY <3>1, <3>3
    <3>5. SubSeq(p, 1, l) \in Seq(Nat) /\ Len(SubSeq(p, 1, l)) = IF 1 <= l THEN l - 1 + 1 ELSE 0
      BY <3>1, <3>4, SubSeqProperties
    <3> QED BY <1>1, <3>1, <3>2, <3>5
  <2>2. CASE ~(ProfileAfter(k, u) # <<>>)
    <3>1. taps = [state.taps EXCEPT ![1] = Tap0After(k, u)]
      BY <2>2 DEF RefreshedTaps
    <3> HIDE DEF taps
    <3>2. taps \in Seq(Nat) /\ Len(taps) = Len(state.taps)
      BY <1>2, <1>4, <3>1, UpdatedSeq
    <3> QED BY <1>3, <3>2
  <2> QED BY <2>1, <2>2
<1>7. Refresh(state, k, u) = [state EXCEPT !.taps = taps, !.delay_line = line]
  BY DEF Refresh
<1> HIDE DEF taps, line
<1>8. /\ Refresh(state, k, u) \in LinkStates(size, top)
      /\ Refresh(state, k, u).delay_line_size = size /\ Refresh(state, k, u).taps = taps
  BY <1>3, <1>5, <1>6, <1>7 DEF LinkStates
<1> QED BY <1>3, <1>6, <1>8 DEF StateFitsDevice

LEMMA SnappedFits ==
  ASSUME node \in Nodes, NEW top \in Nat, NEW k \in EdgeIndex, NEW u \in Updates,
         live_tap0[k] \in Nat, live_profile[k] \in Seq(Nat),
         StateFitsDevice(device_link_states[k], top),
         device_link_states[k].src_index = src_index(k)
  PROVE  StateFitsDevice(Snapped(k, u), top) /\ Snapped(k, u).src_index = src_index(k)
<1>1. CASE IsRefreshed(k, u)
  <2>1. Snapped(k, u) = Refresh(device_link_states[k], k, u)
    BY <1>1 DEF Snapped
  <2>2. StateFitsDevice(Refresh(device_link_states[k], k, u), top)
    BY RefreshFits
  <2>3. Refresh(device_link_states[k], k, u).src_index = src_index(k)
    BY DEF Refresh, StateFitsDevice, LinkStates
  <2> QED BY <2>1, <2>2, <2>3
<1>2. CASE ~IsRefreshed(k, u)
  BY <1>2 DEF Snapped
<1> QED BY <1>1, <1>2

LEMMA KernelFits ==
  ASSUME node \in Nodes, fed \in Nat, NEW k \in EdgeIndex, NEW n \in Nat,
         NEW state, StateFitsDevice(state, fed), state.src_index = src_index(k)
  PROVE  /\ StateFitsDevice(UpdateDelayLineKernel(state, n), fed + n)
         /\ UpdateDelayLineKernel(state, n).src_index = src_index(k)
<1> DEFINE size == state.delay_line_size
           e == source_first_edge(state.src_index)
           line == Rolled(e, state.delay_line, size, n)
<1>1. /\ state \in LinkStates(size, fed) /\ size \in 0..MaxDelayLine
      /\ Len(state.taps) <= MaxTaps /\ MaxDelayLine \in Nat
  BY NodeAssumption DEF StateFitsDevice
<1>2. state.delay_line \in [0..(size - 1) -> Origin \X (0..fed)]
  BY <1>1 DEF LinkStates
<1>3. ASSUME NEW sample \in Origin \X (0..fed) PROVE sample \in Origin \X (0..(fed + n))
  BY <1>3
<1>4. CASE ~state.has_tdl
  <2>1. state.delay_line \in [0..(size - 1) -> Origin \X (0..(fed + n))]
    BY <1>2, <1>3
  <2>2. state \in LinkStates(size, fed + n)
    BY <1>1, <2>1 DEF LinkStates
  <2> QED BY <1>1, <1>4, <2>2 DEF StateFitsDevice, UpdateDelayLineKernel
<1>5. CASE state.has_tdl
  <2>1. e \in EdgeIndex /\ Edges[e].from \in Origin
    BY SourceOfSlot, EdgesOfNode DEF EdgeConfigs, Origin
  <2> HIDE DEF e
  <2>2. ASSUME NEW idx \in 0..(n - 1) PROVE Input(e, idx) \in Origin \X (0..(fed + n))
    <3>1. fed + 1 + idx \in 0..(fed + n)
      OBVIOUS
    <3> QED BY <2>1, <3>1, PairIn DEF Input
  <2>3. ASSUME NEW j \in 0..(size - 1) PROVE line[j] \in Origin \X (0..(fed + n))
    <3>1. CASE n >= size
      <4>1. n - size + j \in 0..(n - 1)
        BY <1>1, <3>1
      <4> QED BY <2>2, <3>1, <4>1 DEF Rolled
    <3>2. CASE n < size /\ j < size - n
      <4>1. j + n \in 0..(size - 1) /\ ~(n >= size)
        BY <1>1, <3>2
      <4> QED BY <1>2, <1>3, <3>2, <4>1 DEF Rolled
    <3>3. CASE n < size /\ ~(j < size - n)
      <4>1. j - (size - n) \in 0..(n - 1) /\ ~(n >= size)
        BY <1>1, <3>3
      <4> QED BY <2>2, <3>3, <4>1 DEF Rolled
    <3> QED BY <1>1, <3>1, <3>2, <3>3
  <2>4. line \in [0..(size - 1) -> Origin \X (0..(fed + n))]
    BY <2>3 DEF Rolled
  <2> DEFINE time == state.slot_start_samples + n
  <2>5. UpdateDelayLineKernel(state, n)
          = [state EXCEPT !.delay_line = line, !.slot_start_samples = time]
    BY <1>5 DEF UpdateDelayLineKernel, e
  <2> HIDE DEF line
  <2> DEFINE Lines == [0..(size - 1) -> Origin \X (0..(fed + n))]
             Before == [0..(size - 1) -> Origin \X (0..fed)]
  <2>6. line \in Lines
    BY <2>4
  <2>7. state \in [has_tdl : BOOLEAN, taps : Seq(Nat), delay_line_size : {size},
                   delay_line : Before, slot_start_samples : Nat, src_index : Nat]
    BY <1>1 DEF LinkStates
  <2>11. time \in Nat
    BY <2>7
  <2> HIDE DEF Lines, Before, size, time
  <2>8. UpdateDelayLineKernel(state, n)
          \in [has_tdl : BOOLEAN, taps : Seq(Nat), delay_line_size : {size},
               delay_line : Lines, slot_start_samples : Nat, src_index : Nat]
    BY <2>5, <2>6, <2>7, <2>11
  <2>9. /\ UpdateDelayLineKernel(state, n).delay_line_size = size
        /\ UpdateDelayLineKernel(state, n).taps = state.taps
        /\ UpdateDelayLineKernel(state, n).src_index = state.src_index
    BY <2>5, <2>7
  <2>10. UpdateDelayLineKernel(state, n) \in LinkStates(size, fed + n)
    BY <2>8 DEF LinkStates, Lines
  <2> QED BY <1>1, <2>9, <2>10 DEF StateFitsDevice
<1> QED BY <1>4, <1>5

(***************************************************************************)
(* The inductive invariant of the types: a link keeps the slot of its      *)
(* source, so its delay line is rolled over a window of the node.          *)
(***************************************************************************)

KeepsSlot == \A k \in EdgeIndex : device_link_states[k].src_index = src_index(k)

TypeInv == TypeOK /\ KeepsSlot

LEMMA InitType == Init => TypeInv
<1> SUFFICES ASSUME Init PROVE TypeInv
  OBVIOUS
<1>1. node \in Nodes /\ fed = 0 /\ count = 0 /\ phase = "preparing" /\ owned = {}
  BY DEF Init
<1>2. live_tap0 \in [EdgeIndex -> Nat]
  <2>1. ASSUME NEW k \in EdgeIndex, Leads(Edges[k]) PROVE Edges[k].taps[1] \in Nat
    <3>1. Edges[k].taps \in Seq(Nat)
      BY <1>1, EdgesOfNode DEF EdgeConfigs
    <3>2. Edges[k].taps # <<>>
      BY <1>1, <2>1, NodeAssumption DEF Edges, EdgeIndex
    <3> QED BY <3>1, <3>2
  <2> QED BY <2>1 DEF Init
<1>3. live_profile \in [EdgeIndex -> Seq(Nat)]
  BY DEF Init
<1>4. ASSUME NEW k \in EdgeIndex
      PROVE  StateFitsDevice(device_link_states[k], fed)
             /\ device_link_states[k].src_index = src_index(k)
  <2>1. device_link_states[k] = build_device_link_state(k)
    BY DEF Init
  <2>2. build_device_link_state(k).src_index = src_index(k)
    BY DEF build_device_link_state
  <2> QED BY <1>1, <2>1, <2>2, BuiltFits
<1>5. ASSUME NEW k \in EdgeIndex PROVE counters[k] \in [1..StepCount(k) -> Nat]
  BY DEF Init
<1>6. origin \in [EdgeIndex -> 0..fed] /\ count \in 0..fed
  BY <1>1 DEF Init
<1> QED BY <1>1, <1>2, <1>3, <1>4, <1>5, <1>6 DEF TypeInv, TypeOK, KeepsSlot

\* What prepare and the destructor leave alone.
LEMMA QuietType ==
  ASSUME TypeInv, UNCHANGED <<node, links, steps, signal>>,
         phase' \in {"preparing", "ready", "thrown", "gone"}, owned' \subseteq Range(Allocations)
  PROVE  TypeInv'
<1>1. /\ node' = node /\ fed' = fed /\ count' = count /\ live_tap0' = live_tap0
      /\ live_profile' = live_profile /\ device_link_states' = device_link_states
      /\ counters' = counters /\ origin' = origin /\ Edges' = Edges /\ EdgeIndex' = EdgeIndex
  BY DEF links, steps, signal, Edges, EdgeIndex
<1>2. \A k \in EdgeIndex : src_index(k)' = src_index(k) /\ StepCount(k)' = StepCount(k)
  BY <1>1 DEF src_index, SlotOf, FirstEdges, StepCount
<1>3. Allocations' = Allocations
  BY <1>1 DEF Allocations
<1>4. KeepsSlot'
  BY <1>1, <1>2 DEF TypeInv, KeepsSlot
<1>5. TypeOK'
  <2>1. \A k \in EdgeIndex' : (counters[k] \in [1..StepCount(k) -> Nat])'
    BY <1>1, <1>2 DEF TypeInv, TypeOK
  <2>2. \A k \in EdgeIndex' : StateFitsDevice(device_link_states[k], fed)'
    BY <1>1 DEF TypeInv, TypeOK, StateFitsDevice, LinkStates
  <2>3. (origin \in [EdgeIndex -> 0..fed])' /\ (live_tap0 \in [EdgeIndex -> Nat])'
        /\ (live_profile \in [EdgeIndex -> Seq(Nat)])'
    BY <1>1 DEF TypeInv, TypeOK
  <2> QED BY <1>1, <1>3, <2>1, <2>2, <2>3 DEF TypeInv, TypeOK
<1> QED BY <1>4, <1>5 DEF TypeInv

LEMMA ServeType ==
  ASSUME TypeInv, NEW n \in ServeSizes, NEW upd \in [EdgeIndex -> Updates], Serve(n, upd)
  PROVE  TypeInv'
<1>1. /\ node \in Nodes /\ node' = node /\ fed \in Nat /\ n \in Nat /\ fed' = fed + n
      /\ count' = n /\ Edges' = Edges /\ EdgeIndex' = EdgeIndex
      /\ phase' = phase /\ owned' = owned
  BY NodeAssumption DEF TypeInv, TypeOK, Serve, resources, Edges, EdgeIndex
<1>2. live_tap0' \in [EdgeIndex -> Nat] /\ live_profile' \in [EdgeIndex -> Seq(Nat)]
  <2>1. ASSUME NEW k \in EdgeIndex
        PROVE  Tap0After(k, upd[k]) \in Nat /\ ProfileAfter(k, upd[k]) \in Seq(Nat)
    <3>1. upd[k] \in Updates
      OBVIOUS
    <3> QED BY <3>1, NodeAssumption DEF Updates, Tap0After, ProfileAfter, TypeInv, TypeOK
  <2> QED BY <2>1 DEF Serve
<1>3. ASSUME NEW k \in EdgeIndex
      PROVE  /\ StateFitsDevice(device_link_states'[k], fed + n)
             /\ device_link_states'[k].src_index = src_index(k)
  <2>1. /\ StateFitsDevice(device_link_states[k], fed)
        /\ device_link_states[k].src_index = src_index(k)
    BY DEF TypeInv, TypeOK, KeepsSlot
  <2>2. CASE OnDevice(n, upd)
    <3>1. device_link_states'[k] = UpdateDelayLineKernel(Snapped(k, upd[k]), n)
      BY <2>2 DEF OnDevice
    <3>2. upd[k] \in Updates /\ live_tap0[k] \in Nat /\ live_profile[k] \in Seq(Nat)
      BY DEF TypeInv, TypeOK
    <3>3. /\ StateFitsDevice(Snapped(k, upd[k]), fed)
          /\ Snapped(k, upd[k]).src_index = src_index(k)
      BY <1>1, <2>1, <3>2, SnappedFits
    <3> QED BY <1>1, <3>1, <3>3, KernelFits
  <2>3. CASE OnHost(n)
    <3>1. device_link_states'[k] = device_link_states[k]
      BY <2>3 DEF OnHost
    <3>2. \A sample \in Origin \X (0..fed) : sample \in Origin \X (0..(fed + n))
      BY <1>1
    <3>3. ASSUME NEW size, NEW line \in [0..(size - 1) -> Origin \X (0..fed)]
          PROVE  line \in [0..(size - 1) -> Origin \X (0..(fed + n))]
      BY <3>2
    <3>4. StateFitsDevice(device_link_states[k], fed + n)
      BY <2>1, <3>3 DEF StateFitsDevice, LinkStates
    <3> QED BY <2>1, <3>1, <3>4
  <2> QED BY <2>2, <2>3 DEF Serve
<1>4. ASSUME NEW k \in EdgeIndex PROVE counters'[k] \in [1..StepCount(k) -> Nat]
  <2>1. counters'[k] = Advanced(Edges[k].chain, counters[k], n)
    BY DEF Serve, SuperposeKernel
  <2>2. counters[k] \in [1..StepCount(k) -> Nat] /\ StepCount(k) = Len(Edges[k].chain)
    BY DEF TypeInv, TypeOK, StepCount
  <2>3. Edges[k].chain \in Seq(StepKinds)
    BY <1>1, EdgesOfNode DEF EdgeConfigs
  <2>4. DOMAIN Edges[k].chain = 1..StepCount(k)
    BY <2>2, <2>3
  <2> QED BY <1>1, <2>1, <2>2, <2>4 DEF Advanced
<1>5. origin' \in [EdgeIndex -> 0..(fed + n)]
  <2>1. origin \in [EdgeIndex -> 0..fed] /\ fed \in 0..(fed + n)
    BY <1>1 DEF TypeInv, TypeOK
  <2>2. CASE OnDevice(n, upd)
    BY <1>1, <2>1, <2>2 DEF OnDevice
  <2>3. CASE OnHost(n)
    BY <1>1, <2>1, <2>3 DEF OnHost
  <2> QED BY <2>2, <2>3 DEF Serve
<1>6. \A k \in EdgeIndex : src_index(k)' = src_index(k) /\ StepCount(k)' = StepCount(k)
  BY <1>1 DEF src_index, SlotOf, FirstEdges, StepCount, Edges, EdgeIndex
<1>7. KeepsSlot'
  BY <1>1, <1>3, <1>6 DEF KeepsSlot
<1>8. Allocations' = Allocations
  BY <1>1 DEF Allocations
<1>9. \A k \in EdgeIndex : StateFitsDevice(device_link_states[k], fed)'
  BY <1>1, <1>3 DEF StateFitsDevice, LinkStates
<1>10. TypeOK'
  <2>1. /\ node' \in Nodes /\ phase' \in {"preparing", "ready", "thrown", "gone"}
        /\ owned' \subseteq Range(Allocations)'
    BY <1>1, <1>8 DEF TypeInv, TypeOK
  <2>2. \A k \in EdgeIndex' : (counters[k] \in [1..StepCount(k) -> Nat])'
    BY <1>1, <1>4, <1>6
  <2>3. fed' \in Nat /\ count' \in 0..fed'
    BY <1>1
  <2>4. (origin \in [EdgeIndex -> 0..fed])'
    BY <1>1, <1>5
  <2>5. (live_tap0 \in [EdgeIndex -> Nat])' /\ (live_profile \in [EdgeIndex -> Seq(Nat)])'
    BY <1>1, <1>2
  <2> QED BY <1>1, <1>9, <2>1, <2>2, <2>3, <2>4, <2>5 DEF TypeOK
<1> QED BY <1>7, <1>10 DEF TypeInv

LEMMA StepType == TypeInv /\ [Next]_vars => TypeInv'
<1> SUFFICES ASSUME TypeInv, [Next]_vars PROVE TypeInv'
  OBVIOUS
<1>1. node \in Nodes /\ phase \in {"preparing", "ready", "thrown", "gone"}
      /\ owned \subseteq Range(Allocations)
  BY DEF TypeInv, TypeOK
<1>2. CASE Allocate
  <2>1. \A i \in DOMAIN Allocations : Allocations[i] \in Range(Allocations)
    BY DEF Range
  <2>2. owned' \subseteq Range(Allocations)
    BY <1>1, <1>2, <2>1 DEF Allocate
  <2> QED BY <1>1, <1>2, <2>2, QuietType DEF Allocate
<1>3. CASE PrepareReturns
  BY <1>1, <1>3, QuietType DEF PrepareReturns
<1>4. CASE PrepareThrows
  BY <1>1, <1>4, QuietType DEF PrepareThrows
<1>5. CASE Destroy
  BY <1>1, <1>5, QuietType DEF Destroy
<1>6. ASSUME NEW n \in ServeSizes, NEW upd \in UpdatesOfServe, Serve(n, upd) PROVE TypeInv'
  BY <1>6, ServeType DEF UpdatesOfServe
<1>7. CASE UNCHANGED vars
  BY <1>1, <1>7, QuietType DEF vars, resources
<1> QED BY <1>2, <1>3, <1>4, <1>5, <1>6, <1>7 DEF Next

\* Whatever updates and swaps arrive and however the stream is cut, the state of a
\* link never outgrows the arrays that DeviceLinkState has for taps and delay line,
\* and the delay line holds nothing that has not been fed.
THEOREM TypeCorrect == Spec => []TypeOK
<1>1. TypeInv => TypeOK
  BY DEF TypeInv
<1> QED BY <1>1, InitType, StepType, PTL DEF Spec

(***************************************************************************)
(* Chains: the kernel runs on an edge its own steps, from where the last   *)
(* serve left them.                                                        *)
(***************************************************************************)

LEMMA EmptyThen ==
  ASSUME NEW S, NEW s \in Seq(S)
  PROVE  <<>> \o s = s
  BY ConcatEmptySeq

\* total_steps counts the steps of the edges packed so far.
LEMMA TotalSteps ==
  ASSUME node \in Nodes
  PROVE  /\ total_steps[0] = 0
         /\ \A k \in EdgeIndex : total_steps[k] = total_steps[k - 1] + StepCount(k)
<1> DEFINE N == Len(Edges)
           add == [k \in 1..N |-> [v \in Nat |-> v + StepCount(k)]]
           Sums(g) == g = [k \in 0..N |-> IF k = 0 THEN 0 ELSE g[k - 1] + StepCount(k)]
<1>1. EdgeIndex = 1..N /\ N \in Nat
  BY EdgesOfNode
<1>2. \A k \in 1..N : StepCount(k) \in Nat
  BY <1>1, EdgesOfNode DEF StepCount, EdgeConfigs
<1>3. add \in [1..N -> [Nat -> Nat]]
  BY <1>2
<1>4. PICK g : Iterates(N, Nat, 0, add, g)
  <2>1. N \in Nat /\ 0 \in Nat
    BY <1>1
  <2> HIDE DEF add, N
  <2> QED BY <1>3, <2>1, Iterated
<1>5. ASSUME NEW k \in 1..N PROVE g[k] = g[k - 1] + StepCount(k)
  <2>1. g[k - 1] \in Nat
    BY <1>1, <1>4 DEF Iterates
  <2> QED BY <1>4, <2>1 DEF Iterates
<1>6. Sums(g)
  BY <1>1, <1>4, <1>5 DEF Iterates
<1>7. Sums(total_steps)
  BY <1>6 DEF total_steps
<1> HIDE DEF N
<1>8. \A k \in 0..N :
        total_steps[k] = IF k = 0 THEN 0 ELSE total_steps[k - 1] + StepCount(k)
  BY <1>7
<1> QED BY <1>1, <1>8

\* FlattenSeq puts one sequence behind the other.
LEMMA Flattened ==
  ASSUME NEW S, NEW N \in Nat \ {0}, NEW seqs \in [1..N -> Seq(S)]
  PROVE  \E g \in [0..N -> Seq(S)] :
           /\ g[0] = <<>> /\ \A k \in 1..N : g[k] = g[k - 1] \o seqs[k]
           /\ FlattenSeq(seqs) = g[N]
<1> DEFINE add == [k \in 1..N |-> [s \in Seq(S) |-> s \o seqs[k]]]
           Flat(f) == f = [i \in 1..N |-> IF i = 1 THEN seqs[i] ELSE f[i - 1] \o seqs[i]]
           flat == CHOOSE f : Flat(f)
<1>1. add \in [1..N -> [Seq(S) -> Seq(S)]] /\ <<>> \in Seq(S)
  OBVIOUS
<1>2. PICK g : Iterates(N, Seq(S), <<>>, add, g)
  <2>1. N \in Nat
    OBVIOUS
  <2> HIDE DEF add
  <2> QED BY <1>1, <2>1, Iterated
<1>3. ASSUME NEW k \in 1..N PROVE g[k] = g[k - 1] \o seqs[k]
  <2>1. g[k - 1] \in Seq(S)
    BY <1>2 DEF Iterates
  <2> QED BY <1>2, <2>1 DEF Iterates
<1>4. g[1] = seqs[1]
  <2>1. 1 \in 1..N /\ seqs[1] \in Seq(S)
      OBVIOUS
  <2>2. g[1] = g[1 - 1] \o seqs[1]
    BY <1>3, <2>1
  <2>3. g[1 - 1] = <<>>
    BY <1>2 DEF Iterates
  <2>4. g[1] = <<>> \o seqs[1]
    BY <2>2, <2>3
  <2> QED BY <2>1, <2>4, EmptyThen
<1>5. Flat([i \in 1..N |-> g[i]])
  <2> DEFINE f == [i \in 1..N |-> g[i]]
  <2>2. ASSUME NEW i \in 1..N
        PROVE  f[i] = IF i = 1 THEN seqs[i] ELSE f[i - 1] \o seqs[i]
    <3>1. CASE i = 1
      BY <1>4, <3>1
    <3>2. CASE i # 1
      <4>1. i - 1 \in 1..N /\ f[i - 1] = g[i - 1] /\ f[i] = g[i]
        BY <3>2
      <4> QED BY <1>3, <3>2, <4>1
    <3> QED BY <3>1, <3>2
  <2>3. f = [i \in 1..N |-> f[i]]
    OBVIOUS
  <2> HIDE DEF f
  <2>4. Flat(f)
    BY <2>2, <2>3
  <2> QED BY <2>4 DEF f
<1>6. Flat(flat)
  BY <1>5
<1>7. \A i \in 1..N : flat[i] = IF i = 1 THEN seqs[i] ELSE flat[i - 1] \o seqs[i]
  <2> HIDE DEF flat
  <2> QED BY <1>6
<1>8. FlattenSeq(seqs) = flat[N]
  <2>1. Len(seqs) = N
    OBVIOUS
  <2> QED BY <2>1 DEF FlattenSeq
<1> HIDE DEF flat
<1> DEFINE Holds == {i \in 0..N : i = 0 \/ flat[i] = g[i]}
<1>9. ASSUME NEW i \in 0..(N - 1), i \in Holds PROVE i + 1 \in Holds
  <2>1. CASE i = 0
    <3>1. 1 \in 1..N /\ 1 \in 0..N
      OBVIOUS
    <3>2. flat[1] = seqs[1]
      BY <1>7, <3>1
    <3> QED BY <1>4, <2>1, <3>1, <3>2
  <2>2. CASE i # 0
    <3>1. flat[i] = g[i] /\ i + 1 \in 1..N /\ (i + 1) - 1 = i /\ i + 1 # 1
      BY <1>9, <2>2
    <3>2. g[i + 1] = g[i] \o seqs[i + 1]
      BY <1>3, <3>1
    <3>3. flat[i + 1] = flat[i] \o seqs[i + 1]
      BY <1>7, <3>1
    <3>4. flat[i + 1] = g[i + 1] /\ i + 1 \in 0..N
      BY <3>1, <3>2, <3>3
    <3> QED BY <3>4
  <2> QED BY <2>1, <2>2
<1>10. 0 \in Holds
  OBVIOUS
<1> HIDE DEF Holds
<1>11. 0..N \subseteq Holds
  BY <1>9, <1>10, UpTo
<1>12. flat[N] = g[N]
  BY <1>11 DEF Holds
<1> QED BY <1>2, <1>3, <1>8, <1>12 DEF Iterates

\* c is b put behind a.
IsBehind(a, b, c) ==
  /\ Len(a) \in Nat /\ Len(b) \in Nat /\ Len(c) = Len(a) + Len(b)
  /\ \A j \in 1..Len(a) : c[j] = a[j]
  /\ \A j \in 1..Len(b) : c[Len(a) + j] = b[j]

LEMMA Behind ==
  ASSUME NEW S, NEW a \in Seq(S), NEW b \in Seq(S)
  PROVE  IsBehind(a, b, a \o b)
<1>1. /\ Len(a) \in Nat /\ Len(b) \in Nat /\ Len(a \o b) = Len(a) + Len(b)
      /\ \A i \in 1..(Len(a) + Len(b)) :
           (a \o b)[i] = IF i <= Len(a) THEN a[i] ELSE b[i - Len(a)]
  BY ConcatProperties
<1>2. ASSUME NEW j \in 1..Len(a) PROVE (a \o b)[j] = a[j]
  BY <1>1
<1>3. ASSUME NEW j \in 1..Len(b) PROVE (a \o b)[Len(a) + j] = b[j]
  <2>1. /\ Len(a) + j \in 1..(Len(a) + Len(b)) /\ ~(Len(a) + j <= Len(a))
        /\ (Len(a) + j) - Len(a) = j
    BY <1>1
  <2> QED BY <1>1, <2>1
<1> QED BY <1>1, <1>2, <1>3 DEF IsBehind

\* total[k] is the length of the first k of N sequences.
RunningTotal(N, seqs, total) ==
  total[0] = 0 /\ \A k \in 1..N : total[k] = total[k - 1] + Len(seqs[k])

\* A sequence packed behind others is found at the sum of their lengths.
LEMMA FoundInPlace ==
  ASSUME NEW S, NEW N \in Nat \ {0}, NEW seqs \in [1..N -> Seq(S)],
         NEW total, RunningTotal(N, seqs, total), NEW k \in 1..N
  PROVE  SubSeq(FlattenSeq(seqs), total[k - 1] + 1, total[k - 1] + Len(seqs[k])) = seqs[k]
<1>1. PICK g \in [0..N -> Seq(S)] :
        /\ g[0] = <<>> /\ \A i \in 1..N : g[i] = g[i - 1] \o seqs[i]
        /\ FlattenSeq(seqs) = g[N]
  BY Flattened
<1> DEFINE At(i, e) == /\ total[e - 1] \in Nat /\ total[e - 1] + Len(seqs[e]) <= Len(g[i])
                       /\ \A j \in 1..Len(seqs[e]) : g[i][total[e - 1] + j] = seqs[e][j]
           Holds == {i \in 0..N : Len(g[i]) = total[i] /\ \A e \in 1..i : At(i, e)}
<1>2. 0 \in Holds
  <2>1. Len(g[0]) = total[0] /\ 0 \in 0..N
    BY <1>1 DEF RunningTotal
  <2> HIDE DEF At
  <2> QED BY <2>1
<1>3. ASSUME NEW i \in 0..(N - 1), i \in Holds PROVE i + 1 \in Holds
  <2>1. i + 1 \in 1..N /\ i + 1 \in 0..N /\ (i + 1) - 1 = i /\ i \in 0..N
    OBVIOUS
  <2>2. g[i] \in Seq(S) /\ seqs[i + 1] \in Seq(S) /\ g[i + 1] = g[i] \o seqs[i + 1]
    BY <1>1, <2>1
  <2>3. Len(g[i]) = total[i] /\ \A e \in 1..i : At(i, e)
    BY <1>3
  <2>4. PICK old, new, all : old = g[i] /\ new = seqs[i + 1] /\ all = g[i + 1]
    OBVIOUS
  <2>5. IsBehind(old, new, all) /\ Len(old) = total[i]
    BY <2>2, <2>3, <2>4, Behind
  <2>6. total[i + 1] = Len(all)
    <3>1. total[i + 1] = total[i] + Len(new)
      BY <2>1, <2>4 DEF RunningTotal
    <3> QED BY <2>5, <3>1 DEF IsBehind
  <2>7. ASSUME NEW e \in 1..i PROVE At(i + 1, e)
    <3>1. PICK o, l : o = total[e - 1] /\ l = Len(seqs[e])
      OBVIOUS
    <3>2. o \in Nat /\ o + l <= Len(old) /\ \A j \in 1..l : old[o + j] = seqs[e][j]
      BY <2>3, <2>4, <3>1
    <3>3. l \in Nat
      <4>1. e \in 1..N
        BY <2>1
      <4> QED BY <3>1, <4>1
    <3>4. Len(old) \in Nat /\ Len(new) \in Nat /\ Len(all) = Len(old) + Len(new)
      BY <2>5 DEF IsBehind
    <3>5. PICK m, x, y : m = Len(old) /\ x = Len(new) /\ y = Len(all)
      OBVIOUS
    <3>6. o \in Nat /\ o + l <= m
      BY <3>2, <3>5
    <3>7. m \in Nat /\ x \in Nat /\ y = m + x
      BY <3>4, <3>5
    <3>8. o + l <= y
      BY <3>3, <3>6, <3>7
    <3>9. ASSUME NEW j \in 1..l PROVE all[o + j] = seqs[e][j]
      <4>1. o + j \in 1..m
        BY <3>3, <3>6, <3>7
      <4> QED BY <2>5, <3>2, <3>5, <4>1 DEF IsBehind
    <3>10. o \in Nat /\ o + l <= Len(all)
      BY <3>5, <3>6, <3>8
    <3> QED BY <2>4, <3>1, <3>9, <3>10
  <2>8. At(i + 1, i + 1)
    <3>1. total[(i + 1) - 1] = Len(old)
      BY <2>1, <2>5
    <3> QED BY <2>4, <2>5, <3>1 DEF IsBehind
  <2> HIDE DEF At
  <2>9. \A e \in 1..(i + 1) : At(i + 1, e)
    BY <2>7, <2>8
  <2> QED BY <2>1, <2>4, <2>6, <2>9
<1>4. N \in Holds
  <2> HIDE DEF Holds
  <2>1. 0..N \subseteq Holds
    BY <1>2, <1>3, UpTo
  <2> QED BY <2>1
<1>5. At(N, k)
  <2> HIDE DEF At
  <2> QED BY <1>4
<1> DEFINE o == total[k - 1]
           l == Len(seqs[k])
           all == g[N]
           found == SubSeq(all, o + 1, o + l)
<1>6. /\ o \in Nat /\ l \in Nat /\ o + l <= Len(all) /\ all \in Seq(S) /\ seqs[k] \in Seq(S)
      /\ \A j \in 1..l : all[o + j] = seqs[k][j]
  <2>1. N \in 0..N /\ seqs[k] \in Seq(S) /\ Len(seqs[k]) \in Nat
    OBVIOUS
  <2>2. g[N] \in Seq(S)
    BY <1>1, <2>1
  <2> QED BY <1>5, <2>1, <2>2
<1> HIDE DEF o, l, all, found
<1>7. /\ found \in Seq(S) /\ Len(found) = l
      /\ \A j \in 1..l : found[j] = all[o + j]
  <2>1. \A i \in (o + 1)..(o + l) : all[i] \in S
    BY <1>6
  <2>2. o + 1 \in Int /\ o + l \in Int /\ (o + l) - (o + 1) + 1 = l
    BY <1>6
  <2>3. /\ found \in Seq(S)
        /\ Len(found) = IF o + 1 <= o + l THEN (o + l) - (o + 1) + 1 ELSE 0
        /\ \A j \in 1..((o + l) - (o + 1) + 1) : found[j] = all[(o + 1) + j - 1]
    BY <2>1, <2>2, SubSeqProperties DEF found
  <2>4. \A j \in 1..l : (o + 1) + j - 1 = o + j
    BY <1>6
  <2> QED BY <1>6, <2>2, <2>3, <2>4
<1>8. found = seqs[k]
  <2>1. Len(found) = Len(seqs[k]) /\ \A j \in 1..Len(found) : found[j] = seqs[k][j]
    BY <1>6, <1>7 DEF l
  <2> QED BY <1>6, <1>7, <2>1, SeqEqual
<1> QED BY <1>1, <1>8 DEF found, all, o, l

\* A kernel is handed one step for each of the chain, of the owner.
LEMMA PackedSteps ==
  ASSUME NEW owner \in Nat, NEW chain \in Seq(StepKinds), NEW counter \in [1..Len(chain) -> Nat]
  PROVE  /\ GpuSteps(owner, chain, counter) \in Seq([of : Nat, step : Nat, start : Nat])
         /\ Len(GpuSteps(owner, chain, counter)) = Len(chain)
<1> DEFINE Steps == [of : Nat, step : Nat, start : Nat]
           packed == GpuSteps(owner, chain, counter)
<1>1. Len(chain) \in Nat /\ DOMAIN chain = 1..Len(chain)
  OBVIOUS
<1>2. ASSUME NEW i \in 1..Len(chain)
      PROVE  [of |-> owner, step |-> i, start |-> counter[i]] \in Steps
  <2>1. i \in Nat /\ counter[i] \in Nat
    BY <1>1
  <2> QED BY <2>1
<1>3. packed = [i \in 1..Len(chain) |-> [of |-> owner, step |-> i, start |-> counter[i]]]
  BY <1>1 DEF GpuSteps
<1> HIDE DEF Steps, packed
<1>4. packed \in [1..Len(chain) -> Steps]
  BY <1>2, <1>3
<1>5. packed \in Seq(Steps) /\ Len(packed) = Len(chain)
  BY <1>1, <1>4
<1> QED BY <1>5 DEF packed, Steps

\* What the kernel finds at the offset of an edge are the steps of that edge.
LEMMA OwnSteps ==
  ASSUME node \in Nodes, \A k \in EdgeIndex : counters[k] \in [1..StepCount(k) -> Nat],
         NEW k \in EdgeIndex
  PROVE  SubSeq(host_steps, StepOffset(k) + 1, StepOffset(k) + StepCount(k))
           = GpuSteps(k, Edges[k].chain, counters[k])
<1> DEFINE N == Len(Edges)
           Steps == [of : Nat, step : Nat, start : Nat]
           seqs == [e \in EdgeIndex |-> GpuSteps(e, Edges[e].chain, counters[e])]
<1>1. EdgeIndex = 1..N /\ N \in Nat \ {0}
  BY EdgesOfNode
<1>2. ASSUME NEW e \in EdgeIndex
      PROVE  seqs[e] \in Seq(Steps) /\ Len(seqs[e]) = StepCount(e)
  <2>1. e \in Nat /\ Edges[e].chain \in Seq(StepKinds)
    BY <1>1, EdgesOfNode DEF EdgeConfigs
  <2> QED BY <2>1, PackedSteps DEF StepCount
<1>3. seqs \in [1..N -> Seq(Steps)] /\ seqs[k] = GpuSteps(k, Edges[k].chain, counters[k])
  <2>1. seqs = [e \in 1..N |-> seqs[e]]
    BY <1>1
  <2> HIDE DEF seqs, Steps
  <2>2. seqs \in [1..N -> Seq(Steps)]
    BY <1>1, <1>2, <2>1
  <2> QED BY <2>2 DEF seqs
<1>4. host_steps = FlattenSeq(seqs)
  BY DEF host_steps
<1> HIDE DEF seqs, Steps, N
<1>5. RunningTotal(N, seqs, total_steps)
  BY <1>1, <1>2, TotalSteps DEF RunningTotal
<1>6. k \in 1..N /\ Len(seqs[k]) = StepCount(k)
  BY <1>1, <1>2
<1>7. SubSeq(FlattenSeq(seqs), total_steps[k - 1] + 1, total_steps[k - 1] + Len(seqs[k]))
        = seqs[k]
  <2>1. PICK m, S, packed, total, e :
          m = N /\ S = Steps /\ packed = seqs /\ total = total_steps /\ e = k
    OBVIOUS
  <2>2. m \in Nat \ {0} /\ packed \in [1..m -> Seq(S)] /\ e \in 1..m
    BY <1>1, <1>3, <1>6, <2>1
  <2>3. RunningTotal(m, packed, total)
    BY <1>5, <2>1
  <2>4. SubSeq(FlattenSeq(packed), total[e - 1] + 1, total[e - 1] + Len(packed[e])) = packed[e]
    BY ONLY <2>2, <2>3, FoundInPlace
  <2> QED BY <2>1, <2>4
<1> QED BY <1>3, <1>4, <1>6, <1>7 DEF StepOffset

(***************************************************************************)
(* The inductive invariant of the chains: phase and noise stand where the  *)
(* samples fed have brought them.                                          *)
(***************************************************************************)

\* The counters of a chain that has run over the first samples of its stream.
CountersAt(chain, samples) ==
  [i \in DOMAIN chain |-> IF chain[i] \in Counting THEN samples ELSE 0]

CountersKept ==
  /\ \A k \in EdgeIndex : counters[k] = CountersAt(Edges[k].chain, fed)
  /\ rx_counters = CountersAt(node.rx, fed)

ChainInv == CountersKept /\ ChainsContinuous

LEMMA AdvancedCounters ==
  ASSUME NEW chain, NEW samples \in Nat, NEW n \in Nat
  PROVE  Advanced(chain, CountersAt(chain, samples), n) = CountersAt(chain, samples + n)
  BY DEF Advanced, CountersAt

LEMMA StartedSteps ==
  ASSUME NEW owner, NEW chain, NEW samples \in Nat
  PROVE  GpuSteps(owner, chain, CountersAt(chain, samples))
           = StepsWithStart(owner, chain, samples)
  BY DEF GpuSteps, CountersAt, StepsWithStart

LEMMA InitChains == Init => ChainInv
<1> SUFFICES ASSUME Init PROVE ChainInv
  OBVIOUS
<1>1. node \in Nodes /\ fed = 0 /\ count = 0
  BY DEF Init
<1>2. ASSUME NEW k \in EdgeIndex PROVE counters[k] = CountersAt(Edges[k].chain, fed)
  <2>1. counters[k] = [i \in 1..StepCount(k) |-> 0] /\ Edges[k].chain \in Seq(StepKinds)
    BY <1>1, EdgesOfNode DEF Init, EdgeConfigs
  <2>2. DOMAIN Edges[k].chain = 1..StepCount(k)
    BY <2>1 DEF StepCount
  <2> QED BY <1>1, <2>1, <2>2 DEF CountersAt
<1>3. rx_counters = CountersAt(node.rx, fed)
  <2>1. rx_counters = [i \in 1..Len(node.rx) |-> 0] /\ DOMAIN node.rx = 1..Len(node.rx)
    BY <1>1, NodeAssumption DEF Init
  <2> QED BY <1>1, <2>1 DEF CountersAt
<1> QED BY <1>1, <1>2, <1>3 DEF ChainInv, CountersKept, ChainsContinuous

\* What prepare and the destructor leave alone.
LEMMA QuietChains ==
  ASSUME ChainInv, UNCHANGED <<node, links, steps, signal>>
  PROVE  ChainInv'
<1>1. /\ node' = node /\ fed' = fed /\ count' = count /\ counters' = counters
      /\ rx_counters' = rx_counters /\ applied' = applied /\ rx_applied' = rx_applied
  BY DEF steps, signal
<1> QED BY <1>1 DEF ChainInv, CountersKept, ChainsContinuous, Edges, EdgeIndex

LEMMA ServeChains ==
  ASSUME TypeInv, ChainInv, NEW n \in ServeSizes, NEW upd \in [EdgeIndex -> Updates],
         Serve(n, upd)
  PROVE  ChainInv'
<1>1. /\ node \in Nodes /\ node' = node /\ fed \in Nat /\ n \in Nat /\ fed' = fed + n
      /\ count' = n /\ Edges' = Edges /\ EdgeIndex' = EdgeIndex /\ fed' - count' = fed
  BY NodeAssumption DEF TypeInv, TypeOK, Serve, resources, Edges, EdgeIndex
<1>2. ASSUME NEW k \in EdgeIndex
      PROVE  /\ counters'[k] = CountersAt(Edges[k].chain, fed + n)
             /\ applied'[k] = StepsWithStart(k, Edges[k].chain, fed)
  <2>1. counters[k] = CountersAt(Edges[k].chain, fed)
    BY DEF ChainInv, CountersKept
  <2>2. counters'[k] = Advanced(Edges[k].chain, counters[k], n)
    BY DEF Serve, SuperposeKernel
  <2>3. applied'[k] = SubSeq(host_steps, StepOffset(k) + 1, StepOffset(k) + StepCount(k))
    BY DEF Serve, SuperposeKernel
  <2>4. applied'[k] = GpuSteps(k, Edges[k].chain, counters[k])
    BY <1>1, <2>3, OwnSteps DEF TypeInv, TypeOK
  <2> QED BY <1>1, <2>1, <2>2, <2>4, AdvancedCounters, StartedSteps
<1>3. /\ rx_counters' = CountersAt(node.rx, fed + n)
      /\ rx_applied' = StepsWithStart(0, node.rx, fed)
  <2>1. rx_counters = CountersAt(node.rx, fed)
    BY DEF ChainInv, CountersKept
  <2>2. /\ rx_counters' = Advanced(node.rx, rx_counters, n)
        /\ rx_applied' = GpuSteps(0, node.rx, rx_counters)
    BY DEF Serve, SuperposeKernel
  <2> QED BY <1>1, <2>1, <2>2, AdvancedCounters, StartedSteps
<1>4. CountersKept'
  BY <1>1, <1>2, <1>3 DEF CountersKept
<1>5. ChainsContinuous'
  BY <1>1, <1>2, <1>3 DEF ChainsContinuous
<1> QED BY <1>4, <1>5 DEF ChainInv

LEMMA StepChains == TypeInv /\ ChainInv /\ [Next]_vars => ChainInv'
<1> SUFFICES ASSUME TypeInv, ChainInv, [Next]_vars PROVE ChainInv'
  OBVIOUS
<1>1. CASE Allocate
  BY <1>1, QuietChains DEF Allocate
<1>2. CASE PrepareReturns
  BY <1>2, QuietChains DEF PrepareReturns
<1>3. CASE PrepareThrows
  BY <1>3, QuietChains DEF PrepareThrows
<1>4. CASE Destroy
  BY <1>4, QuietChains DEF Destroy
<1>5. ASSUME NEW n \in ServeSizes, NEW upd \in UpdatesOfServe, Serve(n, upd) PROVE ChainInv'
  BY <1>5, ServeChains DEF UpdatesOfServe
<1>6. CASE UNCHANGED vars
  BY <1>6, QuietChains DEF vars, resources
<1> QED BY <1>1, <1>2, <1>3, <1>4, <1>5, <1>6 DEF Next

\* However many edges a node has, whatever chains they carry and however the stream
\* is cut into serves, the kernel finds at the offset of an edge the steps of that
\* edge alone, in their order, and their phase and noise start where the serve before
\* ended; so do those of the receiver model.
THEOREM ChainsGoOn == Spec => []ChainsContinuous
<1>1. ChainInv => ChainsContinuous
  BY DEF ChainInv
<1> QED BY <1>1, InitType, StepType, InitChains, StepChains, PTL DEF Spec

(***************************************************************************)
(* Resources.                                                              *)
(***************************************************************************)

\* Whichever call of prepare fails, and when the processor is destroyed, each
\* allocation that was made is freed.
THEOREM NoLeaks == Spec => []NothingLeaks
<1>1. Init => NothingLeaks
  BY DEF Init, NothingLeaks
<1>2. TypeOK /\ NothingLeaks /\ [Next]_vars => NothingLeaks'
  <2> SUFFICES ASSUME TypeOK, NothingLeaks, [Next]_vars PROVE NothingLeaks'
    OBVIOUS
  <2>1. owned \subseteq Freed
    <3>1. Allocations \in Seq(Freed)
      BY AllocationsAreFreed DEF TypeOK
    <3>2. Range(Allocations) \subseteq Freed
      BY <3>1 DEF Range
    <3> QED BY <3>2 DEF TypeOK
  <2>2. CASE Allocate
    BY <2>2 DEF Allocate, NothingLeaks
  <2>3. CASE PrepareReturns
    BY <2>3 DEF PrepareReturns, NothingLeaks
  <2>4. CASE PrepareThrows
    BY <2>1, <2>4 DEF PrepareThrows, NothingLeaks
  <2>5. CASE Destroy
    BY <2>1, <2>5 DEF Destroy, NothingLeaks
  <2>6. ASSUME NEW n, NEW upd, Serve(n, upd) PROVE NothingLeaks'
    BY <2>6 DEF Serve, resources, NothingLeaks
  <2>7. CASE UNCHANGED vars
    BY <2>7 DEF vars, resources, NothingLeaks
  <2> QED BY <2>2, <2>3, <2>4, <2>5, <2>6, <2>7 DEF Next
<1> QED BY <1>1, <1>2, TypeCorrect, PTL DEF Spec

(***************************************************************************)
(* Edges are tdl steps of the CPU backend.                                 *)
(***************************************************************************)

\* The taps of a CPU step of edge k, of a live profile and tap 0.
TapsOf(k, p, tap0) == IF p = <<>> THEN [Edges[k].taps EXCEPT ![1] = tap0] ELSE p

\* The device runs on the live taps of a link that fits it and has its whole delay
\* line; the host stages a leading tdl with a whole delay line.
MatchedOnDevice(k) ==
  /\ device_link_states[k].has_tdl /\ host_link_states[k].has_tdl
  /\ device_link_states[k].delay_line_size = RingOf(Edges[k].taps)
  /\ device_link_states[k].taps = TapsOf(k, live_profile[k], live_tap0[k])
MatchedOnHost(k) ==
  Leads(Edges[k]) => DOMAIN delay_line[k] = 0..(RingOf(Edges[k].taps) - 1)

MatchInv ==
  \A k \in EdgeIndex :
    /\ live_profile[k] = <<>> \/ live_profile[k] \in Profiles
    /\ use_device_channel /\ FitsDevice(Edges[k]) => MatchedOnDevice(k)
    /\ ~use_device_channel => MatchedOnHost(k)

LEMMA EmptyReads == ASSUME NEW k PROVE ReadsAsFed(k, <<>>) = <<>>
<1>1. DOMAIN <<>> = {}
  OBVIOUS
<1>2. ReadsAsFed(k, <<>>) = [j \in {} |-> 0]
  BY <1>1 DEF ReadsAsFed
<1>3. <<>> = [j \in {} |-> 0]
  OBVIOUS
<1> QED BY <1>2, <1>3

LEMMA SameTap == ASSUME NEW taps \in Seq(Nat) PROVE [taps EXCEPT ![1] = taps[1]] = taps
  OBVIOUS

LEMMA InitMatches == Init => MatchInv
<1> SUFFICES ASSUME Init, NEW k \in EdgeIndex
             PROVE  /\ live_profile[k] = <<>>
                    /\ use_device_channel /\ FitsDevice(Edges[k]) => MatchedOnDevice(k)
                    /\ ~use_device_channel => MatchedOnHost(k)
  BY DEF MatchInv
<1>1. node \in Nodes /\ live_profile[k] = <<>>
  BY DEF Init
<1>2. ASSUME use_device_channel, FitsDevice(Edges[k]) PROVE MatchedOnDevice(k)
  <2>1. FitsDevice(Edges[k]) /\ Leads(Edges[k])
    BY <1>2 DEF FitsDevice
  <2>2. /\ device_link_states[k] = build_device_link_state(k)
        /\ host_link_states[k] = build_device_link_state(k)
        /\ live_tap0[k] = Edges[k].taps[1]
    BY <2>1 DEF Init
  <2>3. [Edges[k].taps EXCEPT ![1] = Edges[k].taps[1]] = Edges[k].taps
    BY <1>1, EdgesOfNode, SameTap DEF EdgeConfigs
  <2>4. /\ build_device_link_state(k).has_tdl
        /\ build_device_link_state(k).taps = Edges[k].taps
        /\ build_device_link_state(k).delay_line_size = RingOf(Edges[k].taps)
    BY <2>1 DEF build_device_link_state
  <2> QED BY <1>1, <2>2, <2>3, <2>4 DEF MatchedOnDevice, TapsOf
<1>3. MatchedOnHost(k)
  <2>1. delay_line[k] = RingOfEdge(Edges[k])
    BY DEF Init
  <2> QED BY <2>1 DEF MatchedOnHost, RingOfEdge, SilentRing
<1> QED BY <1>1, <1>2, <1>3

\* A swap to no more taps than the device has is run in full.
LEMMA SnappedMatches ==
  ASSUME node \in Nodes, use_device_channel, NEW k \in EdgeIndex, NEW u \in Updates,
         live_profile[k] = <<>> \/ live_profile[k] \in Profiles,
         MatchedOnDevice(k)
  PROVE  /\ Snapped(k, u).has_tdl
         /\ Snapped(k, u).delay_line_size = RingOf(Edges[k].taps)
         /\ Snapped(k, u).taps = TapsOf(k, ProfileAfter(k, u), Tap0After(k, u))
         /\ Snapped(k, u).delay_line
              = IF profile_just_activated(k, u) THEN SilentRing(RingOf(Edges[k].taps))
                ELSE device_link_states[k].delay_line
         /\ Snapped(k, u).slot_start_samples = device_link_states[k].slot_start_samples
<1> DEFINE state == device_link_states[k]
<1>1. state.has_tdl /\ state.delay_line_size = RingOf(Edges[k].taps)
      /\ state.taps = TapsOf(k, live_profile[k], live_tap0[k]) /\ host_link_states[k].has_tdl
  BY DEF MatchedOnDevice
<1>2. CASE u.kind = "none"
  <2>1. /\ Snapped(k, u) = state /\ ~profile_just_activated(k, u)
        /\ ProfileAfter(k, u) = live_profile[k] /\ Tap0After(k, u) = live_tap0[k]
    BY <1>2 DEF Snapped, IsRefreshed, profile_just_activated, ProfileAfter, Tap0After
  <2> QED BY <1>1, <2>1
<1>3. CASE u.kind # "none"
  <2>1. Snapped(k, u) = Refresh(state, k, u)
    BY <1>1, <1>3 DEF Snapped, IsRefreshed
  <2> HIDE DEF state
  <2>2. RefreshedTaps(state.taps, k, u) = TapsOf(k, ProfileAfter(k, u), Tap0After(k, u))
    <3>1. CASE ProfileAfter(k, u) # <<>>
      <4> DEFINE p == ProfileAfter(k, u)
      <4>1. p \in Profiles
        BY <3>1 DEF ProfileAfter, Updates
      <4>2. p \in Seq(Nat) /\ Len(p) <= MaxTaps /\ MaxTaps \in Nat
        BY <4>1, NodeAssumption
      <4>3. Min({Len(p), MaxTaps}) = Len(p)
        <5>1. Len(p) \in Int /\ MaxTaps \in Int
          BY <4>2
        <5> QED BY <4>2, <5>1, MinOfTwo
      <4>4. SubSeq(p, 1, Len(p)) = p
        BY <4>2, SubSeqFull
      <4> QED BY <3>1, <4>3, <4>4 DEF RefreshedTaps, TapsOf
    <3>2. CASE ProfileAfter(k, u) = <<>>
      <4>1. live_profile[k] = <<>>
        <5>1. u.kind # "profile"
          <6>1. Leads(Edges[k])
            BY DEF use_device_channel
          <6> QED BY <3>2, <6>1, NodeAssumption DEF ProfileAfter, Updates
        <5> QED BY <3>2, <5>1 DEF ProfileAfter
      <4>2. state.taps = [Edges[k].taps EXCEPT ![1] = live_tap0[k]]
        BY <1>1, <4>1 DEF TapsOf
      <4>3. Edges[k].taps \in Seq(Nat)
        BY EdgesOfNode DEF EdgeConfigs
      <4>4. [state.taps EXCEPT ![1] = Tap0After(k, u)]
              = [Edges[k].taps EXCEPT ![1] = Tap0After(k, u)]
        BY <4>2, <4>3
      <4> QED BY <3>2, <4>4 DEF RefreshedTaps, TapsOf
    <3> QED BY <3>1, <3>2
  <2> QED BY <1>1, <2>1, <2>2 DEF Refresh, state
<1> QED BY <1>2, <1>3

\* A serve that convolves the taps after an update with the delay line that the update
\* leaves is a serve of the CPU step.
LEMMA StepIsCpuStep ==
  ASSUME NEW m \in Nodes, node = m, node' = m, NEW k, NEW n \in ServeSizes, NEW u \in Updates,
         NEW p, NEW tap0, NEW line,
         p = IF u.kind = "profile" THEN u.taps ELSE live_profile[k],
         tap0 = IF u.kind = "tap0" THEN u.delay ELSE live_tap0[k],
         line = IF u.kind # "none" /\ p # <<>> THEN CpuStep(m, k)!Silence
                ELSE LineAsFed(k, LineOf(k)),
         live_profile'[k] = p, live_tap0'[k] = tap0,
         CpuStep(m, k)!Apply(TapsOf(k, p, tap0), line, n),
         origin'[k] = IF u.kind # "none" /\ p # <<>> THEN fed ELSE origin[k]
  PROVE  CpuStep(m, k)!Next
<1>1. TapsOf(k, p, tap0) = CpuStep(m, k)!Effective(p, tap0)
  BY DEF TapsOf, CpuStep!Effective, Edges
<1>2. CASE u.kind = "none"
  <2>1. CpuStep(m, k)!Serve(n)
    BY <1>1, <1>2 DEF CpuStep!Serve
  <2> QED BY <2>1 DEF CpuStep!Next
<1>3. CASE u.kind = "tap0"
  <2>1. u.delay \in Tap0Delays
    BY <1>3 DEF Updates
  <2>2. CpuStep(m, k)!ServeTap0(u.delay, n)
    BY <1>1, <1>3 DEF CpuStep!ServeTap0
  <2> QED BY <2>1, <2>2 DEF CpuStep!Next
<1>4. CASE u.kind = "profile"
  <2>1. u.taps \in Profiles /\ u.taps # <<>>
    BY <1>4, NodeAssumption DEF Updates
  <2>2. CpuStep(m, k)!ServeProfile(u.taps, n)
    BY <1>1, <1>4, <2>1 DEF CpuStep!ServeProfile, TapsOf
  <2> QED BY <2>1, <2>2 DEF CpuStep!Next
<1>5. u.kind \in {"none", "tap0", "profile"}
  BY DEF Updates
<1> QED BY <1>2, <1>3, <1>4, <1>5

\* On the device: the kernel reads the source's window and the link's delay line.
LEMMA DeviceStep ==
  ASSUME TypeInv, MatchInv, NEW m \in Nodes, node = m, node' = m,
         use_device_channel, NEW k \in EdgeIndex, FitsDevice(Edges[k]), NEW n \in ServeSizes,
         NEW upd \in [EdgeIndex -> Updates], Serve(n, upd)
  PROVE  /\ MatchedOnDevice(k)'
         /\ WithinReach(k)' => CpuStep(m, k)!Next
<1> DEFINE u == upd[k]
           s == Snapped(k, u)
           e == source_first_edge(src_index(k))
           R == RingOf(Edges[k].taps)
           p == ProfileAfter(k, u)
           tap0 == Tap0After(k, u)
           line == LineAsFed(k, s.delay_line)
<1>1. /\ u \in Updates /\ node \in Nodes /\ fed \in Nat /\ n \in Nat
      /\ live_tap0[k] \in Nat /\ live_profile[k] \in Seq(Nat)
      /\ live_profile[k] = <<>> \/ live_profile[k] \in Profiles
      /\ StateFitsDevice(device_link_states[k], fed)
      /\ device_link_states[k].src_index = src_index(k) /\ MatchedOnDevice(k)
  BY NodeAssumption DEF TypeInv, TypeOK, KeepsSlot, MatchInv
<1>2. /\ Edges' = Edges /\ EdgeIndex' = EdgeIndex /\ use_device_channel'
      /\ Leads(Edges[k])
  BY DEF Edges, EdgeIndex, use_device_channel
<1>3. /\ s.has_tdl /\ s.delay_line_size = R
      /\ s.taps = TapsOf(k, ProfileAfter(k, u), Tap0After(k, u))
      /\ s.delay_line = IF profile_just_activated(k, u) THEN SilentRing(R)
                        ELSE device_link_states[k].delay_line
      /\ s.slot_start_samples = device_link_states[k].slot_start_samples
  BY <1>1, SnappedMatches
<1>4. StateFitsDevice(s, fed) /\ s.src_index = src_index(k)
  BY <1>1, SnappedFits
<1>5. e \in EdgeIndex /\ Edges[e].from = Edges[k].from
  BY <1>1, SourceOfSlot
<1>6. s.taps \in Seq(Nat) /\ DOMAIN s.delay_line = 0..(R - 1) /\ s.slot_start_samples \in Nat
  <2>1. s \in LinkStates(R, fed)
    BY <1>3, <1>4 DEF StateFitsDevice
  <2> QED BY <2>1 DEF LinkStates
<1>7. /\ live_tap0'[k] = Tap0After(k, u) /\ live_profile'[k] = ProfileAfter(k, u)
      /\ count' = n /\ fed' = fed + n /\ fed + n <= MaxFed
  BY DEF Serve
<1>8. OnDevice(n, upd)
  BY DEF Serve, OnHost
<1>9. /\ device_staged'[k] = ChannelKernel(k, s, n)
      /\ grid'[k] = GridTimes(device_link_states[k].slot_start_samples, n, GridPoints(n))
      /\ device_link_states'[k] = UpdateDelayLineKernel(s, n)
      /\ host_link_states'[k] = IF IsRefreshed(k, u) THEN s ELSE host_link_states[k]
      /\ origin'[k] = IF profile_just_activated(k, u) THEN fed ELSE origin[k]
  BY <1>8 DEF OnDevice
<1>10. /\ device_link_states'[k].has_tdl /\ device_link_states'[k].delay_line_size = R
       /\ device_link_states'[k].taps = s.taps
       /\ device_link_states'[k].delay_line = Rolled(e, s.delay_line, R, n)
       /\ device_link_states'[k].slot_start_samples = s.slot_start_samples + n
  <2> HIDE DEF s, e, R
  <2>1. UpdateDelayLineKernel(s, n)
          = [s EXCEPT !.delay_line = Rolled(e, s.delay_line, R, n),
                      !.slot_start_samples = s.slot_start_samples + n]
    BY <1>3, <1>4 DEF UpdateDelayLineKernel, e
  <2>2. s \in LinkStates(R, fed)
    BY <1>3, <1>4 DEF StateFitsDevice
  <2> QED BY <1>3, <1>9, <2>1, <2>2 DEF LinkStates
<1>11. host_link_states'[k].has_tdl
  BY <1>1, <1>3, <1>9 DEF MatchedOnDevice
<1>12. MatchedOnDevice(k)'
  BY <1>2, <1>3, <1>7, <1>10, <1>11 DEF MatchedOnDevice, TapsOf
<1>13. WithinReach(k)' => GridCount(n) <= MaxGridPoints
  BY <1>2, <1>7 DEF WithinReach, GridCount
<1>14. /\ LineOf(k) = device_link_states[k].delay_line
       /\ LineOf(k)' = device_link_states'[k].delay_line
       /\ TimeOf(k) = device_link_states[k].slot_start_samples
       /\ TimeOf(k)' = device_link_states'[k].slot_start_samples
  BY <1>2 DEF LineOf, TimeOf
<1>15. line = IF u.kind # "none" /\ p # <<>> THEN CpuStep(m, k)!Silence
              ELSE LineAsFed(k, LineOf(k))
  BY <1>3, <1>14, SilenceAsFed DEF profile_just_activated
<1>16. ReadsAsFed(k, device_staged[k])' = CpuStep(m, k)!Convolve(s.taps, line, n)
  <2>1. ChannelKernel(k, s, n) = Shaped(e, s.taps, s.delay_line, R, n)
    BY <1>3, <1>4 DEF ChannelKernel
  <2>2. ReadsAsFed(k, device_staged[k])' = ReadsAsFed(k, device_staged'[k])
    BY <1>2 DEF ReadsAsFed, AsFed
  <2> HIDE DEF s, e
  <2>3. ReadsAsFed(k, Shaped(e, s.taps, s.delay_line, R, n))
          = CpuStep(m, k)!Convolve(s.taps, line, n)
    BY <1>1, <1>2, <1>5, <1>6, ShapedAsFed
  <2> QED BY <1>9, <2>1, <2>2, <2>3
<1>17. LineAsFed(k, LineOf(k))' = CpuStep(m, k)!Rolled(line, n)
  <2>1. LineAsFed(k, LineOf(k))' = LineAsFed(k, device_link_states'[k].delay_line)
    BY <1>2, <1>14 DEF LineAsFed, AsFed
  <2> HIDE DEF s, e
  <2>2. LineAsFed(k, Rolled(e, s.delay_line, R, n)) = CpuStep(m, k)!Rolled(line, n)
    BY <1>1, <1>2, <1>5, <1>6, RolledAsFed
  <2> QED BY <1>10, <2>1, <2>2
<1>18. ASSUME WithinReach(k)' PROVE grid'[k] = CpuStep(m, k)!GridTimes(n)
  <2>1. GridCount(n) \in Int /\ MaxGridPoints \in Int /\ GridCount(n) <= MaxGridPoints
    BY <1>1, <1>13, <1>18, NodeAssumption DEF GridCount
  <2>2. GridPoints(n) = GridCount(n)
    BY <2>1, MinOfTwo DEF GridPoints
  <2>3. grid'[k] = GridTimes(TimeOf(k), n, GridCount(n))
    BY <1>9, <1>14, <2>2
  <2> QED BY <1>1, <2>3, GridIsCpuGrid
<1>19. TimeOf(k)' = TimeOf(k) + n
  BY <1>3, <1>10, <1>14
<1>20. ASSUME WithinReach(k)'
       PROVE  CpuStep(m, k)!Apply(TapsOf(k, p, tap0), line, n)
  <2>1. s.taps = TapsOf(k, p, tap0)
    BY <1>3
  <2> HIDE DEF s, line
  <2> QED BY <1>7, <1>16, <1>17, <1>18, <1>19, <1>20, <2>1 DEF CpuStep!Apply
<1>21. live_tap0'[k] = tap0 /\ tap0 = IF u.kind = "tap0" THEN u.delay ELSE live_tap0[k]
  BY <1>7 DEF Tap0After
<1>22. live_profile'[k] = p /\ p = IF u.kind = "profile" THEN u.taps ELSE live_profile[k]
  <2>1. Leads(Edges[k])
    BY DEF use_device_channel
  <2> HIDE DEF u
  <2> QED BY <1>7, <2>1 DEF ProfileAfter
<1>23. origin'[k] = IF u.kind # "none" /\ p # <<>> THEN fed ELSE origin[k]
  BY <1>9 DEF profile_just_activated
<1>24. ASSUME WithinReach(k)' PROVE CpuStep(m, k)!Next
  <2> HIDE DEF u, p, tap0, line
  <2> QED BY <1>1, <1>15, <1>20, <1>21, <1>22, <1>23, <1>24, StepIsCpuStep
<1> QED BY <1>12, <1>24

\* On the host: the taps of the YAML model, which are the live ones of a link that
\* runs as configured; the update of this serve then changed nothing, or set tap 0
\* back to what the model says.
LEMMA HostStep ==
  ASSUME TypeInv, MatchInv, NEW m \in Nodes, node = m, node' = m,
         ~use_device_channel, NEW k \in EdgeIndex, Leads(Edges[k]), NEW n \in ServeSizes,
         NEW upd \in [EdgeIndex -> Updates], Serve(n, upd)
  PROVE  /\ MatchedOnHost(k)'
         /\ WithinReach(k)' => CpuStep(m, k)!Next
<1> DEFINE u == upd[k]
           R == RingOf(Edges[k].taps)
           taps == Edges[k].taps
           line == LineAsFed(k, delay_line[k])
<1>1. /\ u \in Updates /\ node \in Nodes /\ n \in Nat /\ MatchedOnHost(k)
      /\ taps \in Seq(Nat)
  BY NodeAssumption, EdgesOfNode DEF EdgeConfigs, MatchInv
<1>2. Edges' = Edges /\ EdgeIndex' = EdgeIndex /\ ~use_device_channel'
  BY DEF Edges, EdgeIndex, use_device_channel
<1>3. /\ OnHost(n) /\ count' = n /\ fed' = fed + n /\ fed + n <= MaxFed
      /\ live_tap0'[k] = Tap0After(k, u) /\ live_profile'[k] = ProfileAfter(k, u)
  BY DEF Serve, OnDevice
<1>4. /\ device_staged'[k] = Shaped(k, taps, delay_line[k], R, n)
      /\ grid'[k] = GridTimes(fading_time[k], n, GridCount(n))
      /\ delay_line'[k] = Rolled(k, delay_line[k], R, n)
      /\ fading_time'[k] = fading_time[k] + n
      /\ origin'[k] = origin[k]
  BY <1>3 DEF OnHost
<1>5. MatchedOnHost(k)'
  BY <1>2, <1>4 DEF MatchedOnHost, Rolled
<1>6. ASSUME WithinReach(k)' PROVE CpuStep(m, k)!Next
  <2>1. live_tap0'[k] = taps[1] /\ live_profile'[k] = <<>>
    BY <1>2, <1>6 DEF WithinReach, AsConfigured
  <2>2. u.kind # "profile" /\ live_profile[k] = <<>>
    <3>1. u.kind # "profile"
      <4> HIDE DEF u
      <4> QED BY <1>1, <1>3, <2>1, NodeAssumption DEF ProfileAfter, Updates
    <3> QED BY <1>3, <2>1, <3>1 DEF ProfileAfter
  <2>3. /\ taps[1] = IF u.kind = "tap0" THEN u.delay ELSE live_tap0[k]
        /\ <<>> = IF u.kind = "profile" THEN u.taps ELSE live_profile[k]
    BY <1>3, <2>1, <2>2 DEF Tap0After
  <2>4. DOMAIN delay_line[k] = 0..(R - 1)
    BY <1>1 DEF MatchedOnHost
  <2>5. /\ LineOf(k) = delay_line[k] /\ LineOf(k)' = delay_line'[k]
        /\ TimeOf(k) = fading_time[k] /\ TimeOf(k)' = fading_time'[k]
    BY <1>2 DEF LineOf, TimeOf
  <2>6. TapsOf(k, <<>>, taps[1]) = taps
    <3>1. [taps EXCEPT ![1] = taps[1]] = taps
      BY <1>1, SameTap
    <3> QED BY <3>1 DEF TapsOf
  <2>7. ReadsAsFed(k, device_staged[k])' = CpuStep(m, k)!Convolve(taps, line, n)
    <3>1. ReadsAsFed(k, device_staged[k])' = ReadsAsFed(k, device_staged'[k])
      BY <1>2 DEF ReadsAsFed, AsFed
    <3>2. ReadsAsFed(k, Shaped(k, taps, delay_line[k], R, n))
            = CpuStep(m, k)!Convolve(taps, line, n)
      BY <1>1, <2>4, ShapedAsFed
    <3> QED BY <1>4, <3>1, <3>2
  <2>8. LineAsFed(k, LineOf(k))' = CpuStep(m, k)!Rolled(line, n)
    <3>1. LineAsFed(k, LineOf(k))' = LineAsFed(k, delay_line'[k])
      BY <1>2, <2>5 DEF LineAsFed, AsFed
    <3>2. LineAsFed(k, Rolled(k, delay_line[k], R, n)) = CpuStep(m, k)!Rolled(line, n)
      BY <1>1, <2>4, RolledAsFed
    <3> QED BY <1>4, <3>1, <3>2
  <2>9. grid'[k] = CpuStep(m, k)!GridTimes(n)
    BY <1>1, <1>4, <2>5, GridIsCpuGrid
  <2>10. CpuStep(m, k)!Apply(TapsOf(k, <<>>, taps[1]), line, n)
    <3> HIDE DEF line, taps
    <3> QED BY <1>3, <1>4, <2>5, <2>6, <2>7, <2>8, <2>9 DEF CpuStep!Apply
  <2>11. line = LineAsFed(k, LineOf(k))
    BY <2>5
  <2> HIDE DEF u, line, taps
  <2> QED BY <1>1, <1>4, <2>1, <2>3, <2>10, <2>11, StepIsCpuStep
<1> QED BY <1>5, <1>6

\* Prepare and the destructor leave every edge as it was.
LEMMA QuietMatches ==
  ASSUME MatchInv, NEW m \in Nodes, node = m, UNCHANGED <<node, links, steps, signal>>
  PROVE  /\ MatchInv'
         /\ \A k \in EdgeIndex : UNCHANGED CpuStep(m, k)!vars
<1>1. /\ node' = node /\ fed' = fed /\ count' = count /\ live_tap0' = live_tap0
      /\ live_profile' = live_profile /\ device_link_states' = device_link_states
      /\ host_link_states' = host_link_states /\ delay_line' = delay_line
      /\ fading_time' = fading_time /\ device_staged' = device_staged /\ grid' = grid
      /\ origin' = origin /\ Edges' = Edges /\ EdgeIndex' = EdgeIndex
      /\ use_device_channel' = use_device_channel
  BY DEF links, steps, signal, Edges, EdgeIndex, use_device_channel
<1>2. \A k \in EdgeIndex : /\ MatchedOnDevice(k)' = MatchedOnDevice(k)
                          /\ MatchedOnHost(k)' = MatchedOnHost(k)
  BY <1>1 DEF MatchedOnDevice, MatchedOnHost, TapsOf
<1>3. MatchInv'
  BY <1>1, <1>2 DEF MatchInv
<1>4. ASSUME NEW k \in EdgeIndex PROVE UNCHANGED CpuStep(m, k)!vars
  <2>1. LineAsFed(k, LineOf(k))' = LineAsFed(k, LineOf(k)) /\ TimeOf(k)' = TimeOf(k)
    BY <1>1 DEF LineAsFed, AsFed, LineOf, TimeOf
  <2>2. ReadsAsFed(k, device_staged[k])' = ReadsAsFed(k, device_staged[k])
    BY <1>1 DEF ReadsAsFed, AsFed
  <2> QED BY <1>1, <2>1, <2>2 DEF CpuStep!vars
<1> QED BY <1>3, <1>4

LEMMA InitIsCpuInit ==
  ASSUME Init, NEW m \in Nodes, node = m, NEW k \in EdgeIndex, Leads(Edges[k]),
         WithinReach(k)
  PROVE  CpuStep(m, k)!Init
<1>1. /\ live_tap0[k] = Edges[k].taps[1] /\ live_profile[k] = <<>> /\ fading_time[k] = 0
      /\ device_link_states[k] = build_device_link_state(k)
      /\ delay_line[k] = RingOfEdge(Edges[k])
      /\ device_staged[k] = <<>> /\ grid[k] = <<>> /\ origin[k] = 0 /\ count = 0 /\ fed = 0
  BY DEF Init
<1>2. TimeOf(k) = 0
  BY <1>1 DEF TimeOf, build_device_link_state
<1>3. LineOf(k) = SilentRing(RingOf(Edges[k].taps))
  <2>1. CASE use_device_channel
    <3>1. FitsDevice(Edges[k])
      BY <2>1 DEF WithinReach
    <3> QED BY <1>1, <2>1, <3>1 DEF LineOf, build_device_link_state
  <2>2. CASE ~use_device_channel
    BY <1>1, <2>2 DEF LineOf, RingOfEdge
  <2> QED BY <2>1, <2>2
<1> QED BY <1>1, <1>2, <1>3, EmptyReads, SilenceAsFed
        DEF CpuStep!Init, CpuStep!Tap0FromYaml, Edges

LEMMA StepMatches ==
  ASSUME TypeInv, MatchInv, [Next]_vars, NEW m \in Nodes, node = m
  PROVE  /\ MatchInv'
         /\ \A k \in LeadingEdges(m) :
              WithinReach(k)' => [CpuStep(m, k)!Next]_(CpuStep(m, k)!vars)
<1>1. LeadingEdges(m) = {k \in EdgeIndex : Leads(Edges[k])}
  BY DEF LeadingEdges, Edges, EdgeIndex
<1>2. CASE UNCHANGED <<node, links, steps, signal>>
  BY <1>1, <1>2, QuietMatches
<1>3. ASSUME NEW n \in ServeSizes, NEW upd \in UpdatesOfServe, Serve(n, upd)
      PROVE  /\ MatchInv'
             /\ \A k \in EdgeIndex :
                  Leads(Edges[k]) /\ WithinReach(k)' => CpuStep(m, k)!Next
  <2>1. /\ node' = m /\ Edges' = Edges /\ EdgeIndex' = EdgeIndex
        /\ use_device_channel' = use_device_channel
        /\ upd \in [EdgeIndex -> Updates]
    BY <1>3 DEF Serve, resources, Edges, EdgeIndex, use_device_channel, UpdatesOfServe
  <2>2. ASSUME NEW k \in EdgeIndex
        PROVE  live_profile'[k] = <<>> \/ live_profile'[k] \in Profiles
    <3>1. live_profile'[k] = ProfileAfter(k, upd[k]) /\ upd[k] \in Updates
      BY <1>3, <2>1 DEF Serve
    <3> QED BY <3>1 DEF ProfileAfter, Updates, MatchInv
  <2>3. CASE use_device_channel
    <3>1. \A k \in EdgeIndex :
            FitsDevice(Edges[k]) => /\ MatchedOnDevice(k)'
                                    /\ WithinReach(k)' => CpuStep(m, k)!Next
      BY <1>3, <2>1, <2>3, DeviceStep
    <3>2. \A k \in EdgeIndex : WithinReach(k)' => FitsDevice(Edges[k])
      BY <2>1, <2>3 DEF WithinReach
    <3> QED BY <2>1, <2>2, <2>3, <3>1, <3>2 DEF MatchInv
  <2>4. CASE ~use_device_channel
    <3>1. \A k \in EdgeIndex :
            Leads(Edges[k]) => /\ MatchedOnHost(k)'
                               /\ WithinReach(k)' => CpuStep(m, k)!Next
      BY <1>3, <2>1, <2>4, HostStep
    <3>2. \A k \in EdgeIndex : ~Leads(Edges[k]) => MatchedOnHost(k)'
      BY <2>1 DEF MatchedOnHost
    <3> QED BY <2>1, <2>2, <2>4, <3>1, <3>2 DEF MatchInv
  <2> QED BY <2>3, <2>4
<1> QED BY <1>1, <1>2, <1>3
        DEF Next, Allocate, PrepareReturns, PrepareThrows, Destroy, vars, resources

\* An edge that leads with a tdl is the tdl step of the CPU backend in every serve
\* within reach: for every node, whatever radios its edges share, however the stream is
\* cut and whichever links are updated.  A link that fits the device is a CPU step there
\* whatever becomes of the other links of its node, and again after a serve with more
\* grid points than the kernel holds; a staged link is one while its live parameters are
\* those of its model.
THEOREM EdgesAreCpuSteps == Spec => EdgeIsCpuStep
<1>1. Init => \A m \in Nodes : node = m =>
                \A k \in LeadingEdges(m) : WithinReach(k) => CpuStep(m, k)!Init
  BY InitIsCpuInit DEF LeadingEdges, Edges, EdgeIndex
<1>2. Init => TypeInv /\ MatchInv
  BY InitType, InitMatches
<1>3. TypeInv /\ MatchInv /\ [Next]_vars => TypeInv' /\ MatchInv'
  <2> SUFFICES ASSUME TypeInv, MatchInv, [Next]_vars PROVE TypeInv' /\ MatchInv'
    OBVIOUS
  <2>1. node \in Nodes
    BY DEF TypeInv, TypeOK
  <2> QED BY <2>1, StepType, StepMatches
<1>4. TypeInv /\ MatchInv /\ [Next]_vars
        => [\A m \in Nodes : node = m =>
              \A k \in LeadingEdges(m) :
                WithinReach(k)' => [CpuStep(m, k)!Next]_(CpuStep(m, k)!vars)]_vars
  BY StepMatches
<1> QED BY <1>1, <1>2, <1>3, <1>4, PTL DEF Spec, EdgeIsCpuStep
=============================================================================
