SPECIFICATION FairSpec
CONSTANTS
  MaxServices = 2
  MaxMail = 2
  MaxTasks = 2
INVARIANT StoppedServiceLetsGo
PROPERTY DozeOffSilencesSensors
