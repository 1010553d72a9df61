----------------------------- MODULE MCRelayLoop -----------------------------
(***************************************************************************)
(* One radio that hears itself: a puller and a server share a single ring. *)
(***************************************************************************)
EXTENDS Relay

LoopDev   == {"gnb"}
LoopLink  == {1}
LoopSrc   == <<"gnb">>
LoopDst   == <<"gnb">>
LoopBatch == [d \in LoopDev |-> 2]
LoopRate  == [d \in LoopDev |-> 3]
LoopLead  == [d \in LoopDev |-> 6]
=============================================================================
