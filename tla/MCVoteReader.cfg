\* Votes as validators send them and all short messages, cut anywhere.
SPECIFICATION ReaderSpec
CONSTANTS
  Message <- VoteMessages
  Previous <- Memories
INVARIANTS
  ReaderTypeOK
  ReadsItems
  ReadsStayClose
PROPERTIES
  ReaderTerminates
CHECK_DEADLOCK FALSE
