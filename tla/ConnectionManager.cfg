\* Node 1 is connected to; nodes 1 and 2 may connect to us.
CONSTANTS
  Endpoint = {e1}
  Address = {1, 2}
  Assumed = {None, 2}
  IdAt <- MCIdAt
  Port = {p1}
  Handler = {h1}
  GroupSize = 1
  None = None
  MaxSockets = 3
  MaxOps = 2
SPECIFICATION FairSpec
CHECK_DEADLOCK FALSE
INVARIANT BeingConnectedHasPending
INVARIANT OneReceivePerPeer
PROPERTY ShutdownCancels
PROPERTY DestroyedIsUntouched
PROPERTY AttemptsEnd
PROPERTY ReceiveHandlerKept
