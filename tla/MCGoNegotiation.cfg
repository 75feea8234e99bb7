SPECIFICATION Spec
CONSTANTS
  GoIntents <- DecidedIntents
  Ties = {0}
  ConnectLimit = 2
  WaitLimit = 2
  MaxToken = 255
  MaxInbox = 2
  MaxCommands = 1
CHECK_DEADLOCK FALSE
INVARIANTS
  TypeOK
  
  
