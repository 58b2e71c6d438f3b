SPECIFICATION FairSpec
CONSTANTS
  Threads <- SomeThreads
  Operations <- SomeOperations
  ResamplerFails = TRUE
INVARIANTS LocksInOrder FlagMatchesUsecase
PROPERTIES ImplementsStreamLife CallsReturn
