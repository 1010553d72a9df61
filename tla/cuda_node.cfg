\* Nodes on the device with a shared source or with a link that does not fit, and one
\* staged on the host; the longest serve needs a grid point more than there is room for.
\* The stream is bounded, and prepare may fail, so a run may end.
SPECIFICATION Spec
CONSTANTS
  Radios = {"ue1", "gnb"}
  Nodes <- AllNodes
  MaxTaps = 2
  MaxDelayLine = 12
  MaxGridPoints = 5
  Tap0Delays = {5}
  Profiles <- SomeSwaps
  ServeSizes = {3, 12, 15}
  GridStride = 3
  MaxUpdated = 1
  MaxFed = 18
INVARIANTS TypeOK NothingLeaks ChainsContinuous
PROPERTY EdgeIsCpuStep
CHECK_DEADLOCK FALSE
