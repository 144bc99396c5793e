CONSTANTS
  FIFO_DEPTH <- MCFifoDepth
  SpeedReqs <- MCSpeedReqs
  Lens <- MCLens
  MaxMsgs <- MCMaxMsgs

SPECIFICATION Spec

INVARIANT SpeedNotAbove
