SPECIFICATION Spec
CONSTANTS
  Bootloaders <- SomeBootloaders
  Platform = "exynos5"
  LargeBattery <- SomeBatteries
  VoiceConfigs <- SomeConfigs
  VolumeSteps = 15
  Refusals <- SomeRefusals
  Permissions <- AllOrMost
  UserModes <- ThreeModes
  ModeMax = 6
  Intensities <- EndIntensities
  Colors <- LeastColor
  MaxFailures = 1
  MaxBoots = 2
INVARIANTS
  MostSpecificVariant
  UserDefaultSurvives
  ControlsReport
  SupportedOnceLoaded
  DeviceComplete
CHECK_DEADLOCK FALSE
