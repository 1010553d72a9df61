\* A tdl step behind a path_loss step, on a link that no client updates.
\* The stream is bounded, so a run may end.
SPECIFICATION Spec
CONSTANTS
  Leading = FALSE
  Prepared <- BehindLoss
  Tap0Delays = {}
  Profiles = {}
  ServeSizes = {4, 6}
  GridStride = 3
  MaxFed = 24
INVARIANT EchoesConfigured
CHECK_DEADLOCK FALSE
