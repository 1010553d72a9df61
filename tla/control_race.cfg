\* Any client against one link: updates and swaps race the serving thread.
\* Clients may stop sending and the serves are bounded, so a run may end.
SPECIFICATION FairSpec
CONSTANTS
  Link = {"a"}
  Param = {"cfo_hz", "path_loss_db"}
  Leading = {"a"}
  DelayLine <- DelayLines
  SlotHint <- FullServes
  WarmupCap = 0
  ServeSizes = {2}
  TakeEffect = {0, 2}
  BatchId = {}
  Forces = {FALSE}
  ClosedLoop = FALSE
  Rejected = FALSE
  MaxMessages = 2
  MaxStaged = 2
  MaxSlot <- ThreeServes
INVARIANTS TypeOK NoLostUpdate NoLostProfile
PROPERTY EventuallyLive
CHECK_DEADLOCK FALSE
