SPECIFICATION ChannelsSpec
CONSTANTS
  UInt16Max = 4
  Label = {a, b}
  FirstLazyColor = 4
  NoFile = NoFile
  ListLength = {2}
  ChannelCount = {3}
  MaxDeclarations = 2
  MaxSessions = 2
SYMMETRY Labels
INVARIANT TypeOK
INVARIANT RegistryCoherent
INVARIANT MetadataCoherent
INVARIANT LazyNeverCollides
INVARIANT DumpComplete
INVARIANT LastNamesDecide
