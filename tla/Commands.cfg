SPECIFICATION FairSpec
CONSTANT KeyCount <- MCKeyCount
CONSTANT Count <- MCCount
CONSTANT Respondents = {r1, r2}
CONSTANT GroupSize = 2
CONSTANT ManyMessages = 2
CONSTANT MaxCommands = 2
CONSTANT Slot <- MCSlot
CONSTANT None = None
 
 
 
PROPERTY CommandsReturn
CHECK_DEADLOCK FALSE
