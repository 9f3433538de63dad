SPECIFICATION FairSpec
CONSTANTS
  HeapStart = 4
  HeapSize = 16
  Header = 1
  Slack = 1
  Sizes <- SmallSizes
  UserMin = 8
  UserMax = 16
INVARIANT WellFormed
INVARIANT FreeSpaceIsWhole
INVARIANT NullMeansFull
PROPERTY ImplementsAllocator
PROPERTY CallsReturn
