\* Two nodes that make two connections, one each or both by one of them.
CONSTANTS
  Node = {a, b}
  Connection = {1, 2}
  End <- MCEnd
  Peer <- MCPeer
  None = None
  Ok = Ok
  Failed = Failed
SPECIFICATION PairFairSpec
CHECK_DEADLOCK FALSE
INVARIANT HandlerCalledOnce
INVARIANT SuccessMeansBoth
PROPERTY AttemptsEnd
PROPERTY LoneAttemptConnects
PROPERTY EstablishedSurvives
