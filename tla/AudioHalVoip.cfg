SPECIFICATION Spec
CONSTANTS
  OutRoutes <- SpeakerSco
  InRoutes <- BuiltinMic
  UsedSources <- VoipSource
  ModeChanges <- VoipModes
  Volumes <- OneVolume
  BtParams <- NoBtParams
  WbReports <- NoReports
  Garbage <- OneGarbage
  Faults <- ModemAndResampler
  Audience = FALSE
  ForcedVoice = "no"
  MaxCallEntries = 2
  MaxLostUsers = 2
VIEW Deciding
INVARIANTS PlaybacksShareDevice StreamsMatchUsecases
