------------------------------ MODULE TdlStep -------------------------------
(***************************************************************************)
(* The first tdl step of a link: the multi-tap convolution of              *)
(* apply_tdl_step and apply_tdl_step_fading, whose input comes in serves   *)
(* of any size and whose delay line carries the tail of one serve into the *)
(* next.                                                                   *)
(*                                                                         *)
(* A sample of the input is named by its position in the stream, 1, 2, ... *)
(* and 0 is silence.  What a tap contributes to an output sample is the    *)
(* list of the input samples its filter reads, its coefficients left out.  *)
(***************************************************************************)
EXTENDS TdlTaps

CONSTANTS
  Leading,     \* whether the step leads the chain of its model
  Prepared,    \* delays of the taps of the YAML step, as folded for the link
  Tap0Delays,  \* values that updates of tap0_delay_samples carry
  Profiles,    \* delays of the taps that profile swaps carry
  ServeSizes,  \* samples a serve may carry
  GridStride,  \* samples between two points of the fading grid
  MaxFed       \* bound: samples fed

ASSUME StepAssumption ==
  /\ Leading \in BOOLEAN
  /\ Prepared \in Seq(Nat) /\ Prepared # <<>>
  /\ \E d \in Delays(Prepared) : \A e \in Delays(Prepared) : e <= d
  /\ Tap0Delays \subseteq Nat
  /\ Profiles \subseteq Seq(Nat) \ {<<>>}
  /\ ServeSizes \subseteq Nat \ {0}
  /\ GridStride \in Nat \ {0}
  /\ MaxFed \in Nat

VARIABLES
  live_tap0,           \* tap0_delay_samples of the live parameters
  profile,             \* the delays of the live profile, <<>> until a swap
  delay_line,
  slot_start_samples,  \* time origin of the fading process
  out,                 \* what the last serve read for each output sample and tap
  grid,                \* times of the two grid points around each output sample
  count,               \* history: samples of the last serve
  fed,                 \* history: samples fed to the step
  origin               \* history: samples fed when the delay line was last silenced

vars == <<live_tap0, profile, delay_line, slot_start_samples, out, grid, count, fed,
          origin>>

MaxDelay == LongestDelay(Prepared)

\* A mutated form of RingSize: no room for the filter's aperture.
RingSizeOfTaps == Ceil(MaxDelay)

RingSize == Ceil(MaxDelay) + FilterTaps

Silence == [j \in 0..(RingSize - 1) |-> 0]

\* Sample idx of the input of the serve that starts after fed samples.
Input(idx) == fed + 1 + idx

\* The lambda `read`: silence past the serve and before the delay line.
Read(line, n, idx) ==
  CASE idx >= n                        -> 0
    [] idx \in 0..(n - 1)              -> Input(idx)
    [] idx < 0 /\ RingSize + idx >= 0  -> line[RingSize + idx]
    [] idx < 0 /\ RingSize + idx < 0   -> 0

Convolve(taps, line, n) ==
  [j \in 0..(n - 1) |->
    [k \in 1..Len(taps) |->
      [i \in Aperture(taps[k]) |-> Read(line, n, ReadIndex(j, taps[k], i))]]]

\* Mutated forms of Rolled: the tail copied one sample late, or a short serve
\* that overwrites the oldest samples in place.
RolledOneLate(line, n) ==
  [j \in 0..(RingSize - 1) |->
    IF n >= RingSize THEN Input(n - RingSize + j + 1)
    ELSE IF j < RingSize - n THEN line[j + n]
    ELSE Input(j - (RingSize - n) + 1)]
RolledInPlace(line, n) ==
  [j \in 0..(RingSize - 1) |->
    IF n >= RingSize THEN Input(n - RingSize + j)
    ELSE IF j < RingSize - n THEN line[j]
    ELSE Input(j - (RingSize - n))]

Rolled(line, n) ==
  [j \in 0..(RingSize - 1) |->
    IF n >= RingSize THEN Input(n - RingSize + j)
    ELSE IF j < RingSize - n THEN line[j + n]
    ELSE Input(j - (RingSize - n))]

\* A mutated form of GridCount: no point after the last interval.
GridCountWithoutEnd(n) == (n + GridStride - 1) \div GridStride

GridCount(n) == (n + GridStride - 1) \div GridStride + 1

GridFloor(j) == j \div GridStride
GridCeil(j, n) ==
  IF GridFloor(j) + 1 <= GridCount(n) - 1 THEN GridFloor(j) + 1 ELSE GridCount(n) - 1

GridTimes(n) ==
  [j \in 0..(n - 1) |->
    [floor |-> slot_start_samples + GridFloor(j) * GridStride,
     ceil  |-> slot_start_samples + GridCeil(j, n) * GridStride]]

Effective(p, tap0) == IF p = <<>> THEN [Prepared EXCEPT ![1] = tap0] ELSE p

Apply(taps, line, n) ==
  /\ fed + n <= MaxFed
  /\ out' = Convolve(taps, line, n)
  /\ grid' = GridTimes(n)
  /\ delay_line' = Rolled(line, n)
  /\ slot_start_samples' = slot_start_samples + n
  /\ count' = n
  /\ fed' = fed + n

\* populate_mutable_params_from_yaml takes tap 0 of a leading step only.
Tap0FromYaml == IF Leading THEN Prepared[1] ELSE 0

Init ==
  /\ live_tap0 = Tap0FromYaml
  /\ profile = <<>>
  /\ delay_line = Silence
  /\ slot_start_samples = 0
  /\ out = <<>>
  /\ grid = <<>>
  /\ count = 0
  /\ fed = 0
  /\ origin = 0

\* A serve without an update of the link.
Serve(n) ==
  /\ Apply(Effective(profile, live_tap0), delay_line, n)
  /\ UNCHANGED <<live_tap0, profile, origin>>

\* A serve that snaps a new tap0_delay_samples: an active profile is copied
\* again, and its delay line emptied, while its taps ignore the scalar.
ServeTap0(d, n) ==
  /\ live_tap0' = d
  /\ UNCHANGED profile
  /\ IF profile = <<>>
     THEN Apply(Effective(profile, d), delay_line, n) /\ UNCHANGED origin
     ELSE Apply(Effective(profile, d), Silence, n) /\ origin' = fed

\* A mutated form of ServeProfile: the new taps run on the old history.
ServeProfileStale(p, n) ==
  /\ profile' = p
  /\ origin' = fed
  /\ Apply(p, delay_line, n)
  /\ UNCHANGED live_tap0

\* A serve that snaps a profile swap, a forced one if the step does not lead.
ServeProfile(p, n) ==
  /\ profile' = p
  /\ origin' = fed
  /\ Apply(p, Silence, n)
  /\ UNCHANGED live_tap0

Next ==
  \E n \in ServeSizes :
    \/ Serve(n)
    \/ \E d \in Tap0Delays : ServeTap0(d, n)
    \/ \E p \in Profiles : ServeProfile(p, n)

Spec == Init /\ [][Next]_vars

(***************************************************************************)
(* Properties.                                                             *)
(***************************************************************************)

\* The delay line never grows and never holds a sample that has not been fed.
TypeOK ==
  /\ live_tap0 \in Nat
  /\ profile \in Seq(Nat)
  /\ delay_line \in [0..(RingSize - 1) -> 0..fed]
  /\ slot_start_samples \in Nat
  /\ count \in 0..fed
  /\ fed \in Nat
  /\ origin \in 0..fed

\* The stream as the step should see it, silent up to its origin.
StreamAt(pos) == IF pos > origin THEN pos ELSE 0

\* Between serves the delay line is the tail of the stream, however the stream
\* was cut into serves.
HistoryKept ==
  \A j \in 0..(RingSize - 1) : delay_line[j] = StreamAt(fed - RingSize + 1 + j)

Taps == Effective(profile, live_tap0)

\* The samples of the delay line that the filter of a tap reaches back to.
Fits(d) == \A i \in Aperture(d) : Floor(d) + i - 3 <= RingSize

\* The convolution over the whole stream; input after the serve reads as silence.
Expected(idx) == IF idx >= count THEN 0 ELSE StreamAt(fed - count + 1 + idx)

ReadsAreExpected(k) ==
  \A j \in 0..(count - 1) : \A i \in Aperture(Taps[k]) :
    out[j][k][i] = Expected(ReadIndex(j, Taps[k], i))

\* Every tap of the YAML step, and every live tap whose filter fits the delay line,
\* reads what a convolution over the whole stream reads.
EchoesExact ==
  \A k \in 1..Len(Taps) :
    Taps[k] \in Delays(Prepared) \/ Fits(Taps[k]) => ReadsAreExpected(k)

\* A step whose link has no update convolves with the taps of its YAML model.
EchoesConfigured ==
  \A k \in 1..Len(Prepared) : \A j \in 0..(count - 1) :
    out[j][k] = [i \in Aperture(Prepared[k]) |-> Expected(ReadIndex(j, Prepared[k], i))]

\* A tap of an integer delay, or of three samples and more, reads no input of a
\* later serve: how the stream is cut into serves leaves no trace in its output.
CutLeavesNoTrace ==
  \A k \in 1..Len(Taps) :
    /\ Taps[k] \in Delays(Prepared) \/ Fits(Taps[k])
    /\ Floor(Taps[k]) >= 3 \/ Taps[k] % 2 = 0
    => \A j \in 0..(count - 1) : \A i \in Aperture(Taps[k]) :
        out[j][k][i] = StreamAt(fed - count + 1 + ReadIndex(j, Taps[k], i))

\* The fading of an output sample is interpolated between the two neighbouring
\* points of a grid in stream time, also at the end of a serve.
FadingInTime ==
  \A j \in 0..(count - 1) :
    /\ grid[j].floor <= fed - count + j
    /\ fed - count + j < grid[j].ceil
    /\ grid[j].ceil = grid[j].floor + GridStride
=============================================================================
