SPECIFICATION Spec
CONSTANTS
  TimeToLive = 1
  Name = {n1, n2, n3}
  NoName = NoName
  Sender = {s1, s2}
  Value = {v1, v2}
  MaxNow = 4
SYMMETRY Symmetry
INVARIANT OrderMatchesStorage
INVARIANT IdleEntriesExpire
PROPERTY NothingLostEarly
PROPERTY PartsOnlyAccumulate
