SPECIFICATION FairSpec
CONSTANTS
  Thread = {m, w1, w2}
  Main = m
  Capacity = 2
  Policy = "periodic"
  Unset = Unset
  NoThread = NoThread
  NoProc = NoProc
  Destroyed = Destroyed
  NoFolder = NoFolder
  NoFile = NoFile
  Truncated = Truncated
  Client = "joined"
  Faults = {"io", "kill", "misuse"}
  MaxClock = 5
  MaxSessions = 2
  MaxLives = 1
INVARIANT CountExact
INVARIANT AnchorsCoverTraces
PROPERTY SessionEnds
