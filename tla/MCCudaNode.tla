----------------------------- MODULE MCCudaNode -----------------------------
(* Nodes of two and three edges; the delay line of taps 0 and 1.5 samples    *)
(* has ten samples, that of a tap of 4 samples twelve.                       *)
EXTENDS CudaNode

Edge(from, chain, taps) == [from |-> from, chain |-> chain, taps |-> taps]

\* Two edges of one radio around one of another, chains of different lengths.
SharedSource ==
  [edges |-> <<Edge("ue1", <<"tdl", "cfo", "awgn">>, <<0, 3>>),
               Edge("gnb", <<"tdl">>, <<4>>),
               Edge("ue1", <<"tdl", "awgn">>, <<5>>)>>,
   rx |-> <<"awgn">>]

Mixed ==
  [edges |-> <<Edge("gnb", <<"path_loss", "cfo">>, <<>>),
               Edge("ue1", <<"tdl", "awgn">>, <<0, 3>>)>>,
   rx |-> <<>>]

\* A delay line of eighteen samples, on the first of two edges of one radio.
Far ==
  [edges |-> <<Edge("gnb", <<"tdl">>, <<4, 20>>),
               Edge("gnb", <<"tdl", "awgn">>, <<0, 3>>)>>,
   rx |-> <<>>]

AllNodes   == {SharedSource, Mixed, Far}
StagedNode == {Mixed}
SomeSwaps    == {<<2, 4>>}
=============================================================================
