\* registry.UnfreezeNode without a fee.
SPECIFICATION Spec
CONSTANTS
  Message <- UnfreezeMessages
  Before <- UnfreezeMessages
  MaxMessages = 1
INVARIANTS
  AllShown
CHECK_DEADLOCK FALSE
