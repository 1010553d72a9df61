\* A node staged on the host, whose links are updated.
\* The stream is bounded, and prepare may fail, so a run may end.
SPECIFICATION Spec
CONSTANTS
  Radios = {"ue1", "gnb"}
  Nodes <- StagedNode
  MaxTaps = 2
  MaxDelayLine = 12
  MaxGridPoints = 5
  Tap0Delays = {5}
  Profiles <- SomeSwaps
  ServeSizes = {3, 12}
  GridStride = 3
  MaxUpdated = 1
  MaxFed = 18
PROPERTY BackendsAgree
CHECK_DEADLOCK FALSE
