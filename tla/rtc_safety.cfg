CONSTANTS
  SecsPerDay <- MCSecsPerDay
  Days <- MCDays
  Years <- MCYears
  MaxTicks <- MCMaxTicks
  BusyCanStick = TRUE
SPECIFICATION FairSpec
INVARIANT TypeOK
INVARIANT GetMatchesInstant
INVARIANT GetNotMidSet
PROPERTY CtrlReturns
