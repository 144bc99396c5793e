CONSTANTS
  TIMER_LOAD_VAL <- MCLoad
  COUNTS_PER_USEC <- MCCountsPerUsec
  USEC_PER_MSEC <- MCUsecPerMsec
  WD_PERIOD <- MCWdPeriod
  Gaps <- MCFastCpuGaps
  MaxMsec <- MCMaxMsec
  MaxUsec <- MCMaxUsec

SPECIFICATION Spec

INVARIANT DelayLongEnough
