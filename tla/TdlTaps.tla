------------------------------ MODULE TdlTaps ------------------------------
(***************************************************************************)
(* The taps of a tapped delay line, as every implementation of the step    *)
(* sees them: the CPU step, the host staging of the CUDA backend and its   *)
(* channel kernel.  A delay is counted in half samples: an even one is an  *)
(* integer delay, an odd one stands for any fractional delay.              *)
(***************************************************************************)
EXTENDS Integers, Sequences

FilterTaps == 8  \* kTdlFracFilterTaps

Delays(taps) == {taps[k] : k \in 1..Len(taps)}

Floor(d) == d \div 2
Ceil(d)  == (d + 1) \div 2

\* prepare_tdl_state sizes the delay line by the longest YAML delay.
LongestDelay(taps) == CHOOSE d \in Delays(taps) : \A e \in Delays(taps) : e <= d

\* compute_windowed_sinc_taps: an integer delay is a unit impulse at 3.
Aperture(d) == IF d % 2 = 0 THEN {3} ELSE 0..(FilterTaps - 1)

ReadIndex(j, d, i) == j - Floor(d) + 3 - i
=============================================================================
