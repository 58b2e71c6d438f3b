SPECIFICATION Spec
CONSTANTS
  Rates <- SomeRates
  Requests <- SomeRequests
  Faults <- BothFaults
  TimeSteps <- SomeSteps
  MaxFrames = 800
  MaxCaptured = 2048
  MaxTime = 1536
INVARIANTS BufferHoldsPeriod FailuresKeepPace
PROPERTIES FramesInOrder PositionsCredible
CHECK_DEADLOCK FALSE
