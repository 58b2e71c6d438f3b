SPECIFICATION Spec
CONSTANTS
  Numerals <- OneNumeral
  Cameras = 2
  MaxSessions = 2
  MaxBusy = 1
  Settings <- OneSetting
  Faults <- AllFaults
INVARIANTS StartedPreviewRuns PreviewWasAsked CallbackFindsUser
  ReleasedOnce KeptParamsAreCurrent
CHECK_DEADLOCK FALSE
