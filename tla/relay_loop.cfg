\* One ring, messages of any size next to its capacity, stopped at any moment.
\* Radios may be done and the workers stopped, so a run may end.
SPECIFICATION BrokerSpec
CONSTANTS
  Dev <- LoopDev
  Link <- LoopLink
  Src <- LoopSrc
  Dst <- LoopDst
  Batch <- LoopBatch
  Queue = 4
  Rate <- LoopRate
  MsgSizes = {1, 2, 3, 5}
  Lead <- LoopLead
  MaxSamples = 7
  MaxLate = 2
  CanStop = TRUE
INVARIANTS
  TypeOK
  NothingDropped
  SocketDiscipline
PROPERTY ShutdownCompletes
CHECK_DEADLOCK FALSE
