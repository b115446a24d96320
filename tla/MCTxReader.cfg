\* Three transactions, the last of every kind and with every fault.
SPECIFICATION Spec
CONSTANTS
  Message <- OrdinaryMessages
  Before <- Traces
  MaxMessages = 3
INVARIANTS
  ReaderTypeOK
  AllShown
  MalformedRefused
  ShownAsSent
  BodyShown
PROPERTIES
  WellFormedAccepted
CHECK_DEADLOCK FALSE
