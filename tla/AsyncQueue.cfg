\* Three threads, up to five pushes and five pops.
CONSTANTS
  Thread = {t1, t2, t3}
  MaxOps = 5
SPECIFICATION FairSpec
CHECK_DEADLOCK FALSE
INVARIANT NeverBothWaiting
PROPERTY Implements
PROPERTY EventuallyDelivered
