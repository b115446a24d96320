----------------------------- MODULE EthSession -----------------------------
(***************************************************************************)
(* process_chunk_eth and extract_eth_path: the chunks of an Ethereum       *)
(* transaction, collected in the same buffer and under the same flag as    *)
(* the Oasis ones.  The end of the transaction is not marked by the host   *)
(* but computed from the length its RLP header declares.                   *)
(***************************************************************************)
EXTENDS ChunkSession

CONSTANTS
  EthPath,      \* paths extract_eth_path accepts
  BadEthPath,   \* paths of a good length it refuses
  Declared(_)   \* get_tx_rlp_len: the units its header declares, 0 without one

ASSUME EthAssumption ==
  /\ NoPath \notin EthPath \cup BadEthPath
  /\ EthPath \cap BadEthPath = {}
  /\ \A b \in Buffers : Declared(b) \in Nat

\* The header comes first and in one unit: what follows does not change the
\* length it declares.
ASSUME HeaderDecides ==
  \A b, c \in Buffers :
    Declared(b) # 0 /\ Len(b) + Len(c) <= BufferSize
      => Declared(b \o c) = Declared(b)

AnyEthPath == EthPath \cup BadEthPath \cup {NoPath}

SessionTypeOK ==
  /\ tx_initialized \in BOOLEAN
  /\ tx_type \in {"oasis", "eth"}
  /\ buffer \in Buffers
  /\ hdPath \in AnyPath \cup AnyEthPath

EthPathCode(p) ==
  CASE p \in EthPath    -> "OK"
    [] p \in BadEthPath -> "DATA_INVALID"
    [] OTHER            -> "WRONG_LENGTH"

\* extract_eth_path: the session is closed first; a path of a bad length is not
\* copied, a refused one stays in hdPath.
extract_eth_path(p) == hdPath' = IF p = NoPath THEN hdPath ELSE p

\* The first n units of a payload.
Take(c, n) == SubSeq(c, 1, IF n < Len(c) THEN n ELSE Len(c))

-----------------------------------------------------------------------------
\* P1 = first: a path and the beginning of the transaction.  What exceeds the
\* declared length is dropped.
EthFirstCode(p, c) ==
  IF p \notin EthPath THEN EthPathCode(p)
  ELSE IF Declared(c) = 0 THEN "DATA_INVALID"
  ELSE IF Len(Take(c, Declared(c))) > BufferSize THEN "OUTPUT_BUFFER_TOO_SMALL"
  ELSE "OK"

EthFirst(p, c) ==
  LET ok == EthFirstCode(p, c) = "OK" IN
  /\ tx_type' = "eth"
  /\ extract_eth_path(p)
  /\ tx_initialized' = ok
  /\ buffer' = IF ok THEN Take(c, Declared(c)) ELSE <<>>

EthFirstComplete(p, c) ==
  EthFirstCode(p, c) = "OK" /\ Declared(c) = Len(c)

\* P1 = more.  Missing is an unsigned difference: for a buffer that is longer
\* than its header declares it is huge, and the transaction never complete.
Missing == Declared(buffer) - Len(buffer)

Kept(c) == IF Missing < 0 THEN c ELSE Take(c, Missing)

EthMoreCode(c) ==
  IF ~tx_initialized THEN "TX_NOT_INITIALIZED"
  ELSE IF Declared(buffer) = 0 THEN "DATA_INVALID"
  ELSE IF ~Fits(Kept(c)) THEN "OUTPUT_BUFFER_TOO_SMALL"
  ELSE "OK"

\* Mutant: "nothing is missing any more" with signed numbers.
EthMoreNoneMissing(c) == EthMoreCode(c) = "OK" /\ Missing <= Len(c)

EthMoreComplete(c) == EthMoreCode(c) = "OK" /\ Missing = Len(c)

EthMore(c) ==
  /\ buffer' = IF EthMoreCode(c) = "OK" THEN buffer \o Kept(c) ELSE buffer
  /\ tx_initialized' = (/\ tx_initialized
                        /\ EthMoreCode(c) # "OUTPUT_BUFFER_TOO_SMALL"
                        /\ ~EthMoreComplete(c))
  /\ UNCHANGED <<tx_type, hdPath>>

\* Any other P1, or a P2 other than 0: refused, the session stays as it is.
EthBadP == UNCHANGED sessionVars
=============================================================================
