CONSTANTS
  SecsPerDay <- MCSecsPerDay
  Days <- MCDays
  Years <- MCYears
  MaxTicks <- MCMaxTicks
  BusyCanStick = FALSE
SPECIFICATION Spec
INVARIANT SetTimeExact
