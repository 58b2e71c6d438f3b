SPECIFICATION Spec
CONSTANTS
  Frequencies <- TwoFrequencies
  PowerSaveCap <- LowCaps
  BoostBuild = FALSE
  TapToWakeNode = TRUE
  Faults <- NodeFaults
INVARIANTS CapsRestored InputsComeBack
