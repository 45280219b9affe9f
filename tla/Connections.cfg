\* A node reached at two endpoints, one port to accept on.
CONSTANTS
  Endpoint = {e1, e2}
  Id = {a}
  IdAt <- MCSameId
  Port = {p1}
  Absent = Absent
  MaxSockets = 3
  MaxOps = 3
  MaxQueue = 1
SYMMETRY EndpointSymmetry
SPECIFICATION ConnectionsSpec
INVARIANT KnownIdsAreConnected
 
INVARIANT ShutdownCancels
PROPERTY ErrorClosesOwnConnection
