CONSTANTS
  FaultThreshold <- MCFaultThreshold
  MbSize <- MCMbSize
  MaxPlugEvents <- MCMaxPlugEvents
  SlowDetect = FALSE
  MountCanFail = TRUE

SPECIFICATION FairSpec

PROPERTY Remount
