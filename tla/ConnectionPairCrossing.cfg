CONSTANTS
  Node = {a, b}
  Connection = {1, 2}
  End <- MCEnd
  Peer <- MCPeer
  None = None
  Ok = Ok
  Failed = Failed
SPECIFICATION PairSpec
CHECK_DEADLOCK FALSE
INVARIANT TwoNodesConnect
