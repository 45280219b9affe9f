SPECIFICATION Spec
CONSTANTS
  Address <- MCAddress
  our_id_ = 0
  Bits = 4
  NumBuckets = 4
  CloserToTarget <- MCCloserToTarget
  CommonLeadingBits <- MCCommonLeadingBits
  GroupSize = 3
  OptimalSize = 4
  BucketSize = 1
  Parallelism = 2
  Thread = {t1, t2}
  NoThread = NoThread
  NoNode = NoNode
SYMMETRY ThreadSymmetry
INVARIANT CloseGroupRetained
INVARIANT SizeBounded
INVARIANT ReturnValuesTellContents
INVARIANT TargetNodesReachClosest
INVARIANT CheckNodeLinearizable
PROPERTY AddNodeKeepsBuckets
