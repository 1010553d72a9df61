--------------------------- MODULE TelemetryFeed ---------------------------
(***************************************************************************)
(* What the telemetry feed promises: a frame shows the snapshot of its     *)
(* link that was published last, whole.                                    *)
(***************************************************************************)
EXTENDS Naturals

CONSTANT Links

VARIABLES
  published,  \* number of snapshots published of each link
  frame       \* the last frame: the link, and which of its snapshots it shows

Init ==
  /\ published = [l \in Links |-> 0]
  /\ frame \in [link : Links, shows : {0}]

Publish(l) ==
  /\ published' = [published EXCEPT ![l] = @ + 1]
  /\ UNCHANGED frame

Sample(l) ==
  /\ frame' = [link |-> l, shows |-> published[l]]
  /\ UNCHANGED published

Next == \E l \in Links : Publish(l) \/ Sample(l)

Spec == Init /\ [][Next]_<<published, frame>>
=============================================================================
