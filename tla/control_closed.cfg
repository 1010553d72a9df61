\* Clients that wait for telemetry before they update a link again, full serves.
\* Clients may stop sending and the serves are bounded, so a run may end.
SPECIFICATION Spec
CONSTANTS
  Link = {"a", "b"}
  Param = {"cfo_hz"}
  Leading = {"a", "b"}
  DelayLine <- DelayLines
  SlotHint <- FullServes
  WarmupCap = 2
  ServeSizes = {2}
  TakeEffect = {1}
  BatchId = {"x"}
  Forces = {FALSE}
  ClosedLoop = TRUE
  Rejected = TRUE
  MaxMessages = 4
  MaxStaged = 2
  MaxSlot <- LongAndShort
INVARIANTS Accounted WholeProfile KeepsPromise
PROPERTIES NeverEarly WarmupFlagged WarmupCapped
CHECK_DEADLOCK FALSE
