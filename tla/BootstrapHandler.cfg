CONSTANTS
  Id = {a, b}
  Endpoint <- MCEndpoint
  V4Space = 4
  MaxListSize = 2
  InsertLimit = 7
  MaxContacts = 3
  MaxUpdates = 2
  None = None
SPECIFICATION FairSpec
PROPERTY UpdatesAreWhole
 
PROPERTY UpdatesEnd
CHECK_DEADLOCK FALSE
