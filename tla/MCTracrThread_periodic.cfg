SPECIFICATION CounterSpec
CONSTANTS
  Channel = {0}
  UInt16Max = 3
  UInt32Max = 0
  Capacity = 2
  Policy = "periodic"
  Unset = Unset
  NoThread = NoThread
  MaxStores = 4
  UInt64Max = 7
  Second = 2
  Frequency = 3
  MaxTicks = 4
  Timestamp = {0, 1, 2}
INVARIANT TypeOK
INVARIANT FileInTimeOrder
PROPERTY LogSpec
PROPERTY ClockSpec
