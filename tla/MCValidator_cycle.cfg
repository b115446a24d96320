\* Two power cycles, messages in one or two chunks, an operator who confirms no
\* vote older than a signed one.
SPECIFICATION Spec
CONSTANTS
  p1 = p1
  e1 = e1
  block1 = block1
  block2 = block2
  NoPath = NoPath
  Unit <- UnitsChunked
  Chunk <- ChunksChunked
  Path = {p1}
  BadPath = {}
  EthPath = {e1}
  BadEthPath = {}
  Declared <- MCDeclared
  BufferSize = 2
  Parse <- MCParse
  SignIns = {"ed25519", "sr25519"}
  Cautious = TRUE
  MaxRestart = 1
SYMMETRY Blocks
VIEW Decisive
INVARIANTS
  TypeOK
  SignedBelowWatermark
  NoDoubleSign
  NoDoubleSignEver
  SignedBytesCarryVote
  ReviewShowsBuffer
PROPERTIES
  ArmedByOperator
  ImplementsVoteGuard
CHECK_DEADLOCK FALSE
