SPECIFICATION Spec
CONSTANTS
  OutRoutes <- SpeakerSco
  InRoutes <- BuiltinMic
  UsedSources <- PlainSource
  ModeChanges <- CellularModes
  Volumes <- TwoVolumes
  BtParams <- WidebandSwitch
  WbReports <- WideReport
  Garbage <- OneGarbage
  Faults <- NoFaults
  Audience = TRUE
  ForcedVoice = "no"
  MaxCallEntries = 2
  MaxLostUsers = 2
INVARIANTS OneCallEntry CallSharesDevices CallVolumeDelivered EndpointsAgree
PROPERTY NoUnmuteWhileMuted
