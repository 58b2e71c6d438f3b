SPECIFICATION Spec
CONSTANTS
  OutRoutes <- SpeakerSco
  InRoutes <- BuiltinAndCallMic
  UsedSources <- PlainSource
  ModeChanges <- CallModes
  Volumes <- OneVolume
  BtParams <- NoBtParams
  WbReports <- NoReports
  Garbage <- OneGarbage
  Faults <- StartFaults
  Audience = FALSE
  ForcedVoice = "no"
  MaxCallEntries = 2
  MaxLostUsers = 2
INVARIANTS TypeOK RefCountsMatch StreamsMatchUsecases SessionsMatchPcms
