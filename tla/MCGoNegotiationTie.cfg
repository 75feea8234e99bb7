SPECIFICATION Spec
CONSTANTS
  GoIntents <- EqualIntents
  Ties = {0, 1}
  ConnectLimit = 1
  WaitLimit = 2
  MaxToken = 255
  MaxInbox = 2
  MaxCommands = 1
CHECK_DEADLOCK FALSE
INVARIANTS
  RolesAgree
