----------------------------- MODULE MCRelayEcho -----------------------------
(***************************************************************************)
(* A gNB that also hears itself: with three links its ring fans out to two *)
(* readers on different threads, and its server superposes two sources.    *)
(***************************************************************************)
EXTENDS Relay

EchoDev   == {"gnb", "ue"}
EchoLink  == 1..3
EchoSrc   == <<"gnb", "gnb", "ue">>
EchoDst   == <<"ue", "gnb", "gnb">>
EchoBatch == [d \in EchoDev |-> 2]
EchoRate  == [d \in EchoDev |-> 3]
EchoLead  == [d \in EchoDev |-> 2]

\* A gNB that may be ahead by less than a batch: its last chunk is partial.
EchoShortLead == [d \in EchoDev |-> IF d = "gnb" THEN 1 ELSE 2]
=============================================================================
