\* Any number of starts and stops, and a subscriber that reads on.
\* The owner may free the links at any time, so a run may end.
SPECIFICATION FairSpec
CONSTANTS
  Links = {"dl", "ul"}
  Words = {"slot", "live"}
  Retries = 2
  HighWater = 1
  Publishes <- TwicePublished
INVARIANTS TypeOK StopLeavesNoThread
PROPERTIES AcceptedIsLatest StopReturns
CHECK_DEADLOCK FALSE
