--------------------------- MODULE MCHostConsumer ---------------------------
(***************************************************************************)
(* HostConsumer on small instances, with the payloads of MCConsumerApp.    *)
(***************************************************************************)
EXTENDS HostConsumer

CONSTANTS o, k, f, x, p1, bad1, e1

MCDeclared(m) ==
  IF m # <<>> /\ m[1] = f THEN 2 ELSE 0

\* An Oasis transaction is its head and one more unit at least.
MCParse(type, m) ==
  IF type = "eth"
  THEN IF Len(m) = 2 /\ m[1] = f THEN "eth" ELSE "invalid"
  ELSE IF Len(m) < 2 THEN "invalid"
  ELSE CASE m[1] = o -> "consensus"
         [] m[1] = k -> "contract"
         [] OTHER    -> "invalid"

Units == {o, k, f, x}

\* One to three chunks, and one too long for the device; one is invalid.
Payloads == {<<o, x>>, <<k, x>>, <<o, x, x>>, <<o, x, x, x, x>>, <<x>>}

\* Parts of an Ethereum transaction.
EthChunks == {<<>>, <<f>>, <<x>>}
=============================================================================
