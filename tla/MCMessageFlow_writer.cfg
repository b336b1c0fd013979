SPECIFICATION AnyTraces
CONSTANTS
  UInt16Max = 4
  UInt64Max = 7
  Time = {1, 2}
  NMSGS = 2
  MaxTime = 3
  FlowId = {1, 2}
  Inputs <- TwoProcs
INVARIANT TypeOK
INVARIANT PrvInTimeOrder
INVARIANT TimesOnTimeline
INVARIANT StatesKept
INVARIANT ArrowsDoNotCross
INVARIANT FlowsAccounted
INVARIANT MessagesDrawn
INVARIANT ArrowsPointForward
