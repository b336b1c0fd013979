SPECIFICATION ChannelsSpec
CONSTANTS
  UInt16Max = 4
  Label = {a, b}
  FirstLazyColor = 4
  NoFile = NoFile
  ListLength = {2}
  ChannelCount = {3}
  MaxDeclarations = 1
  MaxSessions = 1
SYMMETRY Labels
INVARIANT LabelsAuthoritative
