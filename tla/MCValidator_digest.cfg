\* The digest the validator build signs.
SPECIFICATION Spec
CONSTANTS
  p1 = p1
  e1 = e1
  block1 = block1
  block2 = block2
  NoPath = NoPath
  Unit <- UnitsWhole
  Chunk <- ChunksWhole
  Path = {p1}
  BadPath = {}
  EthPath = {}
  BadEthPath = {}
  Declared <- MCDeclared
  BufferSize = 1
  Parse <- MCParse
  SignIns = {"ed25519"}
  Cautious = FALSE
  MaxRestart = 0
INVARIANTS
  SignatureBindsMessage
