----------------------------- MODULE MCTdlStep ------------------------------
(* A step of two taps, delays 0 and 1.5 samples: a delay line of ten.        *)
EXTENDS TdlStep

YamlTaps      == <<0, 3>>
FittingSwaps  == {<<2>>, <<7, 4>>}   \* 1 sample; 3.5 and 2 samples
BehindLoss    == <<4, 3>>            \* 2 and 1.5 samples
=============================================================================
