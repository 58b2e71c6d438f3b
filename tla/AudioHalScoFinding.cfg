SPECIFICATION Spec
CONSTANTS
  OutRoutes <- SpeakerSco
  InRoutes <- BuiltinMic
  UsedSources <- PlainSource
  ModeChanges <- VoipModes
  Volumes <- OneVolume
  BtParams <- NoBtParams
  WbReports <- NoReports
  Garbage <- OneGarbage
  Faults <- NoFaults
  Audience = FALSE
  ForcedVoice = "no"
  MaxCallEntries = 2
  MaxLostUsers = 2
PROPERTY ScoOnIfNeeded
