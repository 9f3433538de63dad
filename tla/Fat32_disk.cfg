SPECIFICATION FairSpec
CONSTANTS
  LastCluster = 4
  Root = 2
  Copies = 2
  Slots = 2
  ClusterBytes = 2
  Names <- ShortNames
  Sizes <- SmallSizes
  MaxCrashes = 1
CHECK_DEADLOCK FALSE
INVARIANT VolumeWellFormed
INVARIANT NoCrossLinks
INVARIANT OnlyTargetDangles
INVARIANT NothingLeaks
INVARIANT WriteIsHonest
INVARIANT PathNamesCwd
INVARIANT WritesStayOnTarget
PROPERTY CallsReturn
