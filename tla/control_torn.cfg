\* A second profile swap while the first is being copied.
\* Clients may stop sending and the serves are bounded, so a run may end.
SPECIFICATION Spec
CONSTANTS
  Link = {"a"}
  Param = {"cfo_hz"}
  Leading = {"a"}
  DelayLine <- DelayLines
  SlotHint <- FullServes
  WarmupCap = 0
  ServeSizes = {2}
  TakeEffect = {0}
  BatchId = {}
  Forces = {FALSE}
  ClosedLoop = FALSE
  Rejected = FALSE
  MaxMessages = 2
  MaxStaged = 2
  MaxSlot <- TwoServes
INVARIANT WholeProfile
CHECK_DEADLOCK FALSE
