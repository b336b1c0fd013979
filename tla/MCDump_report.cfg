SPECIFICATION DumpSpec
CONSTANTS
  UInt16Max = 3
  UInt32Max = 1
  Time = {0, 1, 2}
  Element <- Stamped
  Collections <- Threads
INVARIANT TypeOK
INVARIANT HeapHoldsHeads
INVARIANT OutputSorted
INVARIANT ReportExact
PROPERTY MergeSpec
PROPERTY EverythingMerged
