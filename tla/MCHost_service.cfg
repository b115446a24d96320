\* Signatures, Ethereum packets and addresses, one call after the other.
SPECIFICATION HostSpec
CONSTANTS
  o = o
  k = k
  f = f
  x = x
  p1 = p1
  e1 = e1
  bad1 = bad1
  NoPath = NoPath
  Unit <- Units
  Chunk <- EthChunks
  Path = {p1}
  BadPath = {bad1}
  EthPath = {e1}
  BadEthPath = {}
  BufferSize = 3
  Declared <- MCDeclared
  Parse <- MCParse
  Scheme = {"ed25519", "secp256k1"}
  Payload <- Payloads
  CHUNK_SIZE = 1
INVARIANTS
  HostTypeOK
  ShowsRequest
PROPERTIES
  ImplementsService
