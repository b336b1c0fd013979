SPECIFICATION Spec
CONSTANTS
  UInt16Max = 4
  UInt64Max = 7
  Time = {1, 2}
  Inputs <- OneOrTwoProcs
INVARIANT TypeOK
INVARIANT SlicesMatch
INVARIANT WarningExact
INVARIANT TimesWithinSession
INVARIANT Complete
