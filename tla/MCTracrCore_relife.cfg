SPECIFICATION Spec
CONSTANTS
  Thread = {m, w1}
  Main = m
  Capacity = 2
  Policy = "ignore"
  Unset = Unset
  NoThread = NoThread
  NoProc = NoProc
  Destroyed = Destroyed
  NoFolder = NoFolder
  NoFile = NoFile
  Truncated = Truncated
  Client = "joined"
  Faults = {}
  MaxClock = 3
  MaxSessions = 1
  MaxLives = 2
INVARIANT TracesKept
