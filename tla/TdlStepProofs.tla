--------------------------- MODULE TdlStepProofs ----------------------------
(***************************************************************************)
(* Theorems of TdlStep, for every model, update, serve size and bound.     *)
(*                                                                         *)
(* The inductive invariant is that the delay line holds the tail of the    *)
(* stream and that the fading process and the stream have one time.        *)
(***************************************************************************)
EXTENDS TdlStep, SequenceTheorems, TLAPS

\* line is the tail of a stream of at samples that was silent up to o.
IsTail(line, at, o) ==
  \A j \in 0..(RingSize - 1) :
    line[j] = IF at - RingSize + 1 + j > o THEN at - RingSize + 1 + j ELSE 0

Line(top) == [0..(RingSize - 1) -> 0..top]

TdlInv ==
  /\ TypeOK
  /\ IsTail(delay_line, fed, origin)
  /\ slot_start_samples = fed

LEMMA MaxDelayOfTaps ==
  /\ MaxDelay \in Nat
  /\ \A d \in Delays(Prepared) : d \in Nat /\ d <= MaxDelay
<1>1. \A d \in Delays(Prepared) : d \in Nat
  BY StepAssumption DEF Delays
<1>2. MaxDelay \in Delays(Prepared) /\ \A e \in Delays(Prepared) : e <= MaxDelay
  BY StepAssumption DEF MaxDelay, LongestDelay
<1> QED BY <1>1, <1>2

LEMMA RingSizeNat == RingSize \in Nat /\ RingSize >= 8
  BY MaxDelayOfTaps DEF RingSize, Ceil, FilterTaps

LEMMA SilenceIsTail ==
  ASSUME NEW at \in Nat
  PROVE  Silence \in Line(at) /\ IsTail(Silence, at, at)
<1>1. \A j \in 0..(RingSize - 1) : ~(at - RingSize + 1 + j > at)
  BY RingSizeNat
<1> QED BY <1>1 DEF Silence, Line, IsTail

\* Rolling the delay line over n new samples keeps the tail, whether the serve
\* is shorter than the delay line or not.
LEMMA RolledIsTail ==
  ASSUME NEW n \in Nat \ {0}, fed \in Nat, NEW o \in 0..fed,
         NEW line \in Line(fed), IsTail(line, fed, o)
  PROVE  Rolled(line, n) \in Line(fed + n) /\ IsTail(Rolled(line, n), fed + n, o)
<1>1. RingSize \in Nat /\ RingSize >= 8
  BY RingSizeNat
<1>2. ASSUME NEW j \in 0..(RingSize - 1)
      PROVE  /\ Rolled(line, n)[j] \in 0..(fed + n)
             /\ Rolled(line, n)[j]
                  = IF (fed + n) - RingSize + 1 + j > o
                    THEN (fed + n) - RingSize + 1 + j ELSE 0
  <2>1. Rolled(line, n)[j]
          = IF n >= RingSize THEN Input(n - RingSize + j)
            ELSE IF j < RingSize - n THEN line[j + n] ELSE Input(j - (RingSize - n))
    BY DEF Rolled
  <2>2. CASE n >= RingSize
    BY <1>1, <2>1, <2>2 DEF Input
  <2>3. CASE n < RingSize /\ j < RingSize - n
    <3>1. j + n \in 0..(RingSize - 1)
      BY <1>1, <2>3
    <3>2. line[j + n]
            = IF fed - RingSize + 1 + (j + n) > o THEN fed - RingSize + 1 + (j + n) ELSE 0
      BY <3>1 DEF IsTail
    <3>3. line[j + n] \in 0..fed
      BY <3>1 DEF Line
    <3> QED BY <1>1, <2>1, <2>3, <3>2, <3>3
  <2>4. CASE n < RingSize /\ ~(j < RingSize - n)
    BY <1>1, <2>1, <2>4 DEF Input
  <2> QED BY <1>1, <2>2, <2>3, <2>4
<1>3. Rolled(line, n) = [j \in 0..(RingSize - 1) |-> Rolled(line, n)[j]]
  BY DEF Rolled
<1>4. Rolled(line, n) \in Line(fed + n)
  BY <1>2, <1>3 DEF Line
<1>5. IsTail(Rolled(line, n), fed + n, o)
  BY <1>2 DEF IsTail
<1> QED BY <1>4, <1>5

\* What a serve does to the delay line and to the clocks.
LEMMA ApplyKeeps ==
  ASSUME TdlInv, NEW n \in Nat \ {0}, NEW taps, NEW line \in Line(fed), NEW o \in 0..fed,
         IsTail(line, fed, o), Apply(taps, line, n), origin' = o
  PROVE  /\ delay_line' \in Line(fed') /\ IsTail(delay_line', fed', origin')
         /\ slot_start_samples' = fed' /\ fed' \in Nat
         /\ count' \in 0..fed' /\ origin' \in 0..fed'
<1>1. fed \in Nat
  BY DEF TdlInv, TypeOK
<1>2. fed' = fed + n /\ count' = n /\ slot_start_samples' = slot_start_samples + n
      /\ delay_line' = Rolled(line, n)
  BY DEF Apply
<1> QED BY <1>1, <1>2, RolledIsTail DEF TdlInv

\* Every action is a serve of the taps in force, over a delay line that is the
\* tail of the stream.
LEMMA ActionIsApply ==
  ASSUME TdlInv, NEW n \in ServeSizes,
         Serve(n) \/ (\E d \in Tap0Delays : ServeTap0(d, n))
                  \/ (\E p \in Profiles : ServeProfile(p, n))
  PROVE  /\ \E line \in Line(fed) :
              Apply(Taps', line, n) /\ origin' \in 0..fed /\ IsTail(line, fed, origin')
         /\ live_tap0' \in Nat /\ profile' \in Seq(Nat)
<1>1. /\ delay_line \in Line(fed) /\ IsTail(delay_line, fed, origin)
      /\ fed \in Nat /\ origin \in 0..fed /\ live_tap0 \in Nat /\ profile \in Seq(Nat)
  BY DEF TdlInv, TypeOK, Line
<1>2. Silence \in Line(fed) /\ IsTail(Silence, fed, fed) /\ fed \in 0..fed
  BY <1>1, SilenceIsTail
<1>3. CASE Serve(n)
  BY <1>1, <1>3 DEF Serve, Taps
<1>4. ASSUME NEW d \in Tap0Delays, ServeTap0(d, n)
      PROVE  /\ \E line \in Line(fed) :
                  Apply(Taps', line, n) /\ origin' \in 0..fed /\ IsTail(line, fed, origin')
             /\ live_tap0' \in Nat /\ profile' \in Seq(Nat)
  <2>1. live_tap0' = d /\ profile' = profile /\ d \in Nat
    BY <1>4, StepAssumption DEF ServeTap0
  <2>2. CASE profile = <<>>
    BY <1>1, <1>4, <2>1, <2>2 DEF ServeTap0, Taps
  <2>3. CASE profile # <<>>
    BY <1>1, <1>2, <1>4, <2>1, <2>3 DEF ServeTap0, Taps
  <2> QED BY <2>2, <2>3
<1>5. ASSUME NEW p \in Profiles, ServeProfile(p, n)
      PROVE  /\ \E line \in Line(fed) :
                  Apply(Taps', line, n) /\ origin' \in 0..fed /\ IsTail(line, fed, origin')
             /\ live_tap0' \in Nat /\ profile' \in Seq(Nat)
  <2>1. profile' = p /\ live_tap0' = live_tap0 /\ p \in Seq(Nat) /\ p # <<>>
    BY <1>5, StepAssumption DEF ServeProfile
  <2>2. Taps' = p
    BY <2>1 DEF Taps, Effective
  <2> QED BY <1>1, <1>2, <1>5, <2>1, <2>2 DEF ServeProfile
<1> QED BY <1>3, <1>4, <1>5

LEMMA InitInv == Init => TdlInv
<1> SUFFICES ASSUME Init PROVE TdlInv
  OBVIOUS
<1>1. Silence \in Line(0) /\ IsTail(Silence, 0, 0)
  BY SilenceIsTail
<1>2. Tap0FromYaml \in Nat
  <2>1. Prepared \in Seq(Nat) /\ Prepared # <<>>
    BY StepAssumption
  <2> QED BY <2>1 DEF Tap0FromYaml
<1> QED BY <1>1, <1>2 DEF Init, TdlInv, TypeOK, Line

LEMMA NextInv == TdlInv /\ [Next]_vars => TdlInv'
<1> SUFFICES ASSUME TdlInv, [Next]_vars PROVE TdlInv'
  OBVIOUS
<1>1. CASE UNCHANGED vars
  BY <1>1 DEF TdlInv, TypeOK, IsTail, vars
<1>2. CASE Next
  <2>1. PICK n \in ServeSizes :
          Serve(n) \/ (\E d \in Tap0Delays : ServeTap0(d, n))
                   \/ (\E p \in Profiles : ServeProfile(p, n))
    BY <1>2 DEF Next
  <2>2. n \in Nat \ {0}
    BY StepAssumption
  <2>3. PICK line \in Line(fed) :
          Apply(Taps', line, n) /\ origin' \in 0..fed /\ IsTail(line, fed, origin')
    BY <2>1, ActionIsApply
  <2>4. live_tap0' \in Nat /\ profile' \in Seq(Nat)
    BY <2>1, ActionIsApply
  <2>5. /\ delay_line' \in Line(fed') /\ IsTail(delay_line', fed', origin')
        /\ slot_start_samples' = fed' /\ fed' \in Nat
        /\ count' \in 0..fed' /\ origin' \in 0..fed'
    BY <2>2, <2>3, ApplyKeeps
  <2> QED BY <2>4, <2>5 DEF TdlInv, TypeOK, Line
<1> QED BY <1>1, <1>2

THEOREM TdlInvariant == Spec => []TdlInv
  BY InitInv, NextInv, PTL DEF Spec

\* The types of the step; the delay line never grows.
THEOREM TypeCorrect == Spec => []TypeOK
<1>1. TdlInv => TypeOK
  BY DEF TdlInv
<1> QED BY <1>1, TdlInvariant, PTL

\* Between serves the delay line is the tail of the stream.
THEOREM HistoryIsKept == Spec => []HistoryKept
<1>1. TdlInv => HistoryKept
  BY DEF TdlInv, IsTail, HistoryKept, StreamAt
<1> QED BY <1>1, TdlInvariant, PTL

\* Reads inside the delay line read the stream, and silence after the serve.
LEMMA ReadIsStream ==
  ASSUME fed \in Nat, NEW n \in Nat \ {0}, NEW o \in 0..fed,
         NEW line \in Line(fed), IsTail(line, fed, o), NEW idx \in Int, idx >= -RingSize
  PROVE  Read(line, n, idx)
           = IF idx >= n THEN 0 ELSE IF fed + 1 + idx > o THEN fed + 1 + idx ELSE 0
<1>1. RingSize \in Nat /\ RingSize >= 8
  BY RingSizeNat
<1>2. CASE idx >= n
  BY <1>1, <1>2 DEF Read
<1>3. CASE idx \in 0..(n - 1)
  BY <1>1, <1>3 DEF Read, Input
<1>4. CASE idx < 0
  <2>1. Read(line, n, idx) = line[RingSize + idx]
    BY <1>1, <1>4 DEF Read
  <2>2. RingSize + idx \in 0..(RingSize - 1)
    BY <1>1, <1>4
  <2>3. line[RingSize + idx]
          = IF fed - RingSize + 1 + (RingSize + idx) > o
            THEN fed - RingSize + 1 + (RingSize + idx) ELSE 0
    BY <2>2 DEF IsTail
  <2> QED BY <1>1, <1>4, <2>1, <2>3
<1> QED BY <1>2, <1>3, <1>4

\* The taps of the YAML step, and the live taps that fit, read inside the delay line.
LEMMA FittingTapReads ==
  ASSUME NEW d \in Nat, d \in Delays(Prepared) \/ Fits(d),
         NEW j \in Nat, NEW i \in Aperture(d)
  PROVE  ReadIndex(j, d, i) \in Int /\ ReadIndex(j, d, i) >= -RingSize
<1>1. i \in 0..7
  BY DEF Aperture, FilterTaps
<1>2. d \div 2 \in Nat
  OBVIOUS
<1>3. CASE d \in Delays(Prepared)
  <2>1. MaxDelay \in Nat /\ d <= MaxDelay
    BY <1>3, MaxDelayOfTaps
  <2>2. d \div 2 <= (MaxDelay + 1) \div 2 /\ (MaxDelay + 1) \div 2 \in Nat
    BY <2>1
  <2> QED BY <1>1, <1>2, <2>2 DEF ReadIndex, Floor, RingSize, Ceil, FilterTaps
<1>4. CASE Fits(d)
  <2>1. d \div 2 + i - 3 <= RingSize
    BY <1>4 DEF Fits, Floor
  <2> QED BY <1>1, <1>2, <2>1, RingSizeNat DEF ReadIndex, Floor
<1> QED BY <1>3, <1>4

LEMMA EffectiveNat ==
  ASSUME NEW p \in Seq(Nat), NEW tap0 \in Nat
  PROVE  Effective(p, tap0) \in Seq(Nat)
<1>1. Prepared \in Seq(Nat) /\ Prepared # <<>>
  BY StepAssumption
<1>2. Prepared \in [1..Len(Prepared) -> Nat]
  BY <1>1
<1>3. [Prepared EXCEPT ![1] = tap0] \in [1..Len(Prepared) -> Nat]
  BY <1>2
<1>4. [Prepared EXCEPT ![1] = tap0] \in Seq(Nat)
  BY <1>1, <1>3, SeqDef
<1> QED BY <1>4 DEF Effective

\* Every serve reads what a convolution over the whole stream reads.
LEMMA NextEchoes == TdlInv /\ EchoesExact /\ [Next]_vars => EchoesExact'
<1> SUFFICES ASSUME TdlInv, EchoesExact, [Next]_vars PROVE EchoesExact'
  OBVIOUS
<1>1. CASE UNCHANGED vars
  BY <1>1 DEF EchoesExact, Taps, ReadsAreExpected, Expected, StreamAt, vars
<1>2. CASE Next
  <2>1. PICK n \in ServeSizes :
          Serve(n) \/ (\E d \in Tap0Delays : ServeTap0(d, n))
                   \/ (\E p \in Profiles : ServeProfile(p, n))
    BY <1>2 DEF Next
  <2>2. n \in Nat \ {0} /\ fed \in Nat
    BY StepAssumption DEF TdlInv, TypeOK
  <2>3. PICK line \in Line(fed) :
          Apply(Taps', line, n) /\ origin' \in 0..fed /\ IsTail(line, fed, origin')
    BY <2>1, ActionIsApply
  <2>4. Taps' \in Seq(Nat)
    <3>1. live_tap0' \in Nat /\ profile' \in Seq(Nat)
      BY <2>1, ActionIsApply
    <3> QED BY <3>1, EffectiveNat DEF Taps
  <2>5. /\ fed' = fed + n /\ count' = n
        /\ out' = [j \in 0..(n - 1) |->
                    [k \in 1..Len(Taps') |->
                      [i \in Aperture(Taps'[k]) |->
                        Read(line, n, ReadIndex(j, Taps'[k], i))]]]
    BY <2>3 DEF Apply, Convolve
  <2>6. ASSUME NEW k \in 1..Len(Taps'), Taps'[k] \in Delays(Prepared) \/ Fits(Taps'[k]),
               NEW j \in 0..(n - 1), NEW i \in Aperture(Taps'[k])
        PROVE  out'[j][k][i] = Expected(ReadIndex(j, Taps[k], i))'
    <3> DEFINE idx == ReadIndex(j, Taps'[k], i)
    <3>1. Taps'[k] \in Nat
      BY <2>4
    <3>2. idx \in Int /\ idx >= -RingSize
      BY <2>2, <2>6, <3>1, FittingTapReads
    <3>3. out'[j][k][i] = Read(line, n, idx)
      BY <2>5
    <3>4. Read(line, n, idx)
            = IF idx >= n THEN 0
              ELSE IF fed + 1 + idx > origin' THEN fed + 1 + idx ELSE 0
      BY <2>2, <2>3, <3>2, ReadIsStream
    <3>5. fed' - count' + 1 + idx = fed + 1 + idx
      BY <2>2, <2>5, <3>2
    <3> QED BY <2>5, <3>3, <3>4, <3>5 DEF Expected, StreamAt
  <2> QED BY <2>5, <2>6 DEF EchoesExact, ReadsAreExpected
<1> QED BY <1>1, <1>2

\* The taps of the YAML step, and every live tap whose filter fits the delay
\* line, read what a convolution over the whole stream reads.
THEOREM EchoesAreExact == Spec => []EchoesExact
<1>1. Init => EchoesExact
  <2> SUFFICES ASSUME Init PROVE EchoesExact
    OBVIOUS
  <2>1. 0..(count - 1) = {}
    BY DEF Init
  <2> QED BY <2>1 DEF EchoesExact, ReadsAreExpected
<1> QED BY <1>1, NextEchoes, TdlInvariant, PTL DEF Spec

\* Integer delays, and delays of three samples and more, do not show where the
\* stream was cut into serves.
THEOREM CutsLeaveNoTrace == Spec => []CutLeavesNoTrace
<1>1. TdlInv /\ EchoesExact => CutLeavesNoTrace
  <2> SUFFICES ASSUME TdlInv, EchoesExact, NEW k \in 1..Len(Taps),
                      Taps[k] \in Delays(Prepared) \/ Fits(Taps[k]),
                      Floor(Taps[k]) >= 3 \/ Taps[k] % 2 = 0,
                      NEW j \in 0..(count - 1), NEW i \in Aperture(Taps[k])
               PROVE  out[j][k][i] = StreamAt(fed - count + 1 + ReadIndex(j, Taps[k], i))
    BY DEF CutLeavesNoTrace
  <2>1. count \in Nat /\ Taps[k] \in Nat
    <3>1. fed \in Nat /\ count \in 0..fed /\ live_tap0 \in Nat /\ profile \in Seq(Nat)
      BY DEF TdlInv, TypeOK
    <3>2. Taps \in Seq(Nat)
      BY <3>1, EffectiveNat DEF Taps
    <3> QED BY <3>1, <3>2
  <2>2. out[j][k][i] = Expected(ReadIndex(j, Taps[k], i))
    BY DEF EchoesExact, ReadsAreExpected
  <2>3. ReadIndex(j, Taps[k], i) < count
    <3>1. i \in 0..7 /\ (Taps[k] % 2 = 0 => i = 3)
      BY DEF Aperture, FilterTaps
    <3>2. Taps[k] \div 2 \in Nat
      BY <2>1
    <3> QED BY <2>1, <3>1, <3>2 DEF ReadIndex, Floor
  <2>4. ~(ReadIndex(j, Taps[k], i) >= count)
    <3>1. ReadIndex(j, Taps[k], i) \in Int
      BY <2>1, FittingTapReads
    <3> QED BY <2>1, <2>3, <3>1
  <2> QED BY <2>2, <2>4 DEF Expected
<1> QED BY <1>1, EchoesAreExact, TdlInvariant, PTL

LEMMA DivBounds ==
  ASSUME NEW x \in Nat, NEW s \in Nat \ {0}
  PROVE  /\ x \div s \in Nat
         /\ (x \div s) * s <= x
         /\ x < (x \div s) * s + s
  OBVIOUS

LEMMA DivBelow ==
  ASSUME NEW a \in Nat, NEW b \in Nat, NEW s \in Nat \ {0}, a * s < b * s
  PROVE  a + 1 <= b
<1>1. CASE a >= b
  <2>1. PICK c \in Nat : a = b + c
    <3>1. a - b \in Nat /\ a = b + (a - b)
      BY <1>1
    <3> QED BY <3>1
  <2>2. a * s = b * s + c * s /\ c * s \in Nat /\ b * s \in Nat
    BY <2>1
  <2> QED BY <2>2
<1>2. CASE a < b
  BY <1>2
<1> QED BY <1>1, <1>2

\* The fading of a sample is interpolated between its two neighbours on a grid
\* in stream time, up to the last sample of a serve.
THEOREM FadingIsInTime == Spec => []FadingInTime
<1>1. Init => FadingInTime
  BY DEF Init, FadingInTime
<1>2. TdlInv /\ FadingInTime /\ [Next]_vars => FadingInTime'
  <2> SUFFICES ASSUME TdlInv, FadingInTime, [Next]_vars PROVE FadingInTime'
    OBVIOUS
  <2>1. CASE UNCHANGED vars
    BY <2>1 DEF FadingInTime, vars
  <2>2. CASE Next
    <3>1. PICK n \in ServeSizes :
            Serve(n) \/ (\E d \in Tap0Delays : ServeTap0(d, n))
                     \/ (\E p \in Profiles : ServeProfile(p, n))
      BY <2>2 DEF Next
    <3>2. n \in Nat \ {0} /\ GridStride \in Nat \ {0} /\ fed \in Nat
      BY StepAssumption DEF TdlInv, TypeOK
    <3>3. fed' = fed + n /\ count' = n /\ grid' = GridTimes(n)
      BY <3>1, ActionIsApply DEF Apply
    <3>4. ASSUME NEW j \in 0..(n - 1)
          PROVE  /\ grid'[j].floor <= fed + j
                 /\ fed + j < grid'[j].ceil
                 /\ grid'[j].ceil = grid'[j].floor + GridStride
      <4> DEFINE q == j \div GridStride
                 r == (n + GridStride - 1) \div GridStride
      <4>1. q \in Nat /\ q * GridStride <= j /\ j < q * GridStride + GridStride
        BY <3>2, DivBounds
      <4>2. n + GridStride - 1 \in Nat
        BY <3>2
      <4>3. r \in Nat /\ n + GridStride - 1 < r * GridStride + GridStride
        BY <3>2, <4>2, DivBounds
      <4>4. q * GridStride < r * GridStride
        <5>1. q * GridStride \in Nat /\ r * GridStride \in Nat
          BY <3>2, <4>1, <4>3
        <5> QED BY <3>2, <4>1, <4>3, <5>1
      <4>5. q + 1 <= r
        BY <3>2, <4>1, <4>3, <4>4, DivBelow
      <4>6. GridFloor(j) = q /\ GridCeil(j, n) = q + 1
        BY <4>1, <4>3, <4>5 DEF GridFloor, GridCeil, GridCount
      <4>7. /\ grid'[j].floor = fed + q * GridStride
            /\ grid'[j].ceil = fed + (q + 1) * GridStride
        BY <3>3, <4>6 DEF GridTimes, TdlInv
      <4>8. (q + 1) * GridStride = q * GridStride + GridStride
            /\ q * GridStride \in Nat
        BY <3>2, <4>1
      <4> QED BY <3>2, <4>1, <4>7, <4>8
    <3>5. fed' - count' = fed
      BY <3>2, <3>3
    <3> QED BY <3>3, <3>4, <3>5 DEF FadingInTime
  <2> QED BY <2>1, <2>2
<1> QED BY <1>1, <1>2, TdlInvariant, PTL DEF Spec
=============================================================================
