\* An Ethereum address with confirmation.
SPECIFICATION Spec
CONSTANTS
  o = o
  r = r
  k = k
  b = b
  d = d
  e = e
  f = f
  x = x
  p1 = p1
  e1 = e1
  bad1 = bad1
  bad2 = bad2
  NoPath = NoPath
  Unit <- Units
  Chunk <- FewChunks
  Path = {p1}
  BadPath = {}
  EthPath = {e1}
  BadEthPath = {bad2}
  BufferSize = 2
  Declared <- MCDeclared
  Parse <- MCParse
  Scheme = {"ed25519"}
INVARIANTS
  AddressArrives
