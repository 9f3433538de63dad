SPECIFICATION Spec
CONSTANTS
  LastCluster = 4
  Root = 2
  Copies = 2
  Slots = 2
  ClusterBytes = 2
  Names <- LongNames
  Sizes <- OneSize
  MaxCrashes = 0
PROPERTY TouchClobbersNothing
