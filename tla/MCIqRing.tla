------------------------------ MODULE MCIqRing ------------------------------
(***************************************************************************)
(* A ring of three samples of two values, filled past its end twice.       *)
(***************************************************************************)
EXTENDS IqRing

MCSample == {0, 1}
MCChunks == {<< >>, <<0>>, <<1>>, <<0, 1>>, <<1, 0>>, <<1, 1, 0>>, <<1, 0, 0, 1>>}
=============================================================================
