\* Two transactions, in packets of every size that has the header in the first.
SPECIFICATION Spec
CONSTANTS
  Message <- Messages
  PacketSize = {30, 150, 400}
  BufferSize = 500
  MaxMessages = 2
INVARIANTS
  ReaderTypeOK
  ReviewedAtEnd
  HeaderWasChecked
  FieldsAreSent
  ReadsInBuffer
  ParityRecovered
CHECK_DEADLOCK FALSE
