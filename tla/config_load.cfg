\* Every way a load goes on files of two radios; a load ends.
SPECIFICATION Spec
CONSTANTS
  Files <- SomeFiles
  HasCuda = TRUE
INVARIANTS TypeOK ReadsAsNested EachDelayOnce DelaysWithinCap AcceptedIsRelayable
CHECK_DEADLOCK FALSE
