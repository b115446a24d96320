\* A ParaTime transaction, then one of another network.
SPECIFICATION Spec
CONSTANTS
  Message <- MixedMessages
  Before <- MixedMessages
  MaxMessages = 2
INVARIANTS
  NetworkIsSent
CHECK_DEADLOCK FALSE
