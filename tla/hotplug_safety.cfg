CONSTANTS
  FaultThreshold <- MCFaultThreshold
  MbSize <- MCMbSize
  MaxPlugEvents <- MCMaxPlugEvents
  SlowDetect = TRUE
  MountCanFail = TRUE

SPECIFICATION Spec

INVARIANT TypeOK
INVARIANT NoMissedFault
