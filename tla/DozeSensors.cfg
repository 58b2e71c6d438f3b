SPECIFICATION Spec
CONSTANTS
  HandwaveMaxDelta = 1
  PocketMinDelta = 2
  MinPulseInterval = 3
  MaxTime = 6
  MaxTasks = 2
PROPERTIES PickupPulsesApart WatchedCovers
