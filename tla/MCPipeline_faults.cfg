SPECIFICATION PipelineSpec
CONSTANTS
  Thread = {m, w1}
  Main = m
  Capacity = 2
  Policy = "abort"
  Unset = Unset
  NoThread = NoThread
  NoProc = NoProc
  Destroyed = Destroyed
  NoFolder = NoFolder
  NoFile = NoFile
  Truncated = Truncated
  Client = "started"
  Faults = {"io", "kill", "misuse"}
  MaxClock = 4
  MaxSessions = 2
  MaxLives = 1
  Self = 2
  Neighbour = 1
INVARIANT PipelineTypeOK
INVARIANT LoadedIsFlushed
INVARIANT CompleteSessionLoads
INVARIANT ProcsComplete
INVARIANT OnlyThisThread
INVARIANT NoUseAfterReset
INVARIANT MetadataCommits
PROPERTY Sealed
