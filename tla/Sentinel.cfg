SPECIFICATION SentinelSpec
CONSTANTS
  TimeToLive = 1
  Group = {"g1", "g2"}
  Client = {"c1"}
  Member = {m1, m2, m3}
  MessageId = {1, 2}
  AccountId = {2}
  Payload = {"p1", "p2"}
  NoPayload = NoPayload
  KeysFrom <- MCKeysFrom
  Merge <- MCMerge
  QuorumSize = 2
  Scenario <- MCScenario
SYMMETRY MemberSymmetry
CHECK_DEADLOCK FALSE
INVARIANT ResultHasQuorum
INVARIANT AtMostOnce
 
