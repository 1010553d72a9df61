\* A gNB that hears itself: fan-out, fan-in and a last batch that is partial.
\* Radios stop when every sample is delivered, so a run may end.
SPECIFICATION FairSpec
CONSTANTS
  Dev <- EchoDev
  Link <- EchoLink
  Src <- EchoSrc
  Dst <- EchoDst
  Batch <- EchoBatch
  Queue = 4
  Rate <- EchoRate
  MsgSizes = {1}
  Lead <- EchoShortLead
  MaxSamples = 3
  MaxLate = 0
  CanStop = FALSE
INVARIANTS
  CursorInWindow
  WindowHolds
  CommonEpoch
  ExactlyOnce
  NoFaults
PROPERTY AllDelivered
CHECK_DEADLOCK FALSE
