\* Contract calls with data of up to three levels, one after the other.
SPECIFICATION Spec
CONSTANTS
  a = a
  b = b
  c = c
  NoData = NoData
  Datum <- Data
  Transaction <- Transactions
  Index = {0, 1, 2, 3, 255}
  MaxDepth = 3
INVARIANTS
  TypeOK
  ItemIsOfLevel
  CountIsOfLevel
  OpensDataOnly
