--------------------------- MODULE MCLinkControl ----------------------------
(* Small instances of LinkControl: the links "a" and "b" start with a tdl    *)
(* step, "c" has none.                                                       *)
EXTENDS LinkControl

DelayLines == [l \in Link |-> CASE l = "a" -> 3 [] l = "b" -> 5 [] l = "c" -> 0]
LongAndShort == [l \in Link |-> IF l = "a" THEN 4 ELSE 2]
ThreeServes  == [l \in Link |-> 3]
TwoServes    == [l \in Link |-> 2]
FullServes   == [l \in Link |-> 2]
=============================================================================
