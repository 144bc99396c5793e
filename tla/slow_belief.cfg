CONSTANTS
  FaultThreshold <- MCFaultThreshold
  MbSize <- MCMbSize
  MaxPlugEvents <- MCMaxPlugEvents
  SlowDetect = TRUE
  MountCanFail = FALSE
SPECIFICATION Spec
INVARIANT MonitorBeliefConsistent
