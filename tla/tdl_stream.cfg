\* Serves shorter and longer than the delay line, live taps that fit it.
\* The stream is bounded, so a run may end.
SPECIFICATION Spec
CONSTANTS
  Leading = TRUE
  Prepared <- YamlTaps
  Tap0Delays = {0, 5}
  Profiles <- FittingSwaps
  ServeSizes = {1, 3, 4, 12}
  GridStride = 3
  MaxFed = 24
INVARIANTS TypeOK HistoryKept EchoesExact CutLeavesNoTrace FadingInTime
CHECK_DEADLOCK FALSE
