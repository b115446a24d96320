--------------------------- MODULE MCConsumerApp ---------------------------
(***************************************************************************)
(* ConsumerApp on small instances.  The first unit of a payload says what  *)
(* the payload is: o begins a consensus transaction, r a ParaTime          *)
(* transaction, k a ParaTime contract call, b and d these two without      *)
(* metadata, e and f the RLP list of an Ethereum transaction of one and of *)
(* two units; x is any other content.                                      *)
(***************************************************************************)
EXTENDS ConsumerApp

CONSTANTS o, r, k, b, d, e, f, x, p1, bad1, e1, bad2

\* An Oasis transaction has at least one more unit; the CBOR reader accepts more.
\* An Ethereum one has the units its header declares, at least.
MCDeclared(m) ==
  IF m = <<>> THEN 0
  ELSE CASE m[1] = e -> 1
         [] m[1] = f -> 2
         [] OTHER    -> 0

MCParse(type, m) ==
  IF type = "eth"
  THEN IF MCDeclared(m) \in 1..Len(m) THEN "eth" ELSE "invalid"
  ELSE IF Len(m) < 2 THEN "invalid"
  ELSE CASE m[1] = o -> "consensus"
         [] m[1] = r -> "runtime"
         [] m[1] = k -> "contract"
         [] m[1] = b -> "bare"
         [] m[1] = d -> "bare contract"
         [] OTHER    -> "invalid"

Units == {o, r, k, b, d, e, f, x}

\* Heads and tails, whole transactions, an empty payload and one with a surplus.
Chunks == {<<>>, <<o>>, <<k>>, <<r, x>>, <<b, x>>, <<d, x>>, <<e>>, <<f>>, <<x>>, <<e, x>>}

FewChunks == {<<>>, <<o, x>>, <<e>>, <<f>>, <<x>>}
=============================================================================
