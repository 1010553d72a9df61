---------------------------- MODULE MCTelemetry -----------------------------
(* Two links, one of which is published twice: a read can fall between two  *)
(* publishes, overlap one, and overlap two.                                  *)
EXTENDS Telemetry

TwicePublished == [l \in Links |-> IF l = CHOOSE m \in Links : TRUE THEN 2 ELSE 1]
=============================================================================
