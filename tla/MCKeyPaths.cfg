\* Accepted and refused paths of both protocols, one after the other.
SPECIFICATION Spec
CONSTANTS
  p44 = p44
  c474 = c474
  c60 = c60
  h0 = h0
  z = z
  n = n
  Component <- Components
  Hardened <- HardenedOnes
  Zero = z
  Purpose = p44
  Coin = {c474, c60}
  EthCoin = c60
  OasisPath <- OasisPaths
  EthPath <- EthPaths
INVARIANTS
  TypeOK
  SignsAskedPath
  SignerHasAddress
  PathShownIsDerived
