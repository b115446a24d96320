---------------------------- MODULE ChunkSession ----------------------------
(***************************************************************************)
(* The signing session of apdu_handler.c that both builds share: the       *)
(* static tx_initialized, the transaction buffer, the derivation path and  *)
(* the transaction type, and what process_chunk and extractHDPath do to    *)
(* them.  A payload is a sequence of units; a unit stands for any number   *)
(* of bytes the parser reads as one item.  A derivation path request is a  *)
(* path the build accepts, one of the right length that it refuses, or     *)
(* NoPath, a payload of a length that is no path.                          *)
(***************************************************************************)
EXTENDS Integers, Sequences

CONSTANTS
  Unit,        \* units of payload
  Path,        \* derivation paths extractHDPath accepts
  BadPath,     \* paths of the right length it refuses
  NoPath,      \* a payload that is no path; also the zeroed hdPath
  BufferSize   \* capacity of the transaction buffer, in units

ASSUME SessionAssumption ==
  /\ BufferSize \in Nat
  /\ NoPath \notin Path \cup BadPath
  /\ Path \cap BadPath = {}

VARIABLES
  tx_initialized,  \* the session flag
  tx_type,         \* ctx_parsed_tx.tx_type: which parser reads the buffer
  buffer,          \* the transaction collected so far
  hdPath           \* the derivation path of the next key operation

sessionVars == <<tx_initialized, tx_type, buffer, hdPath>>

\* What the transaction buffer can hold.
Buffers == UNION {[1..n -> Unit] : n \in 0..BufferSize}

AnyPath == Path \cup BadPath \cup {NoPath}

\* Zeroed globals at power on; oasis_tx is the first enumerator.
SessionInit ==
  /\ tx_initialized = FALSE
  /\ tx_type = "oasis"
  /\ buffer = <<>>
  /\ hdPath = NoPath

SessionReset ==
  /\ tx_initialized' = FALSE
  /\ tx_type' = "oasis"
  /\ buffer' = <<>>
  /\ hdPath' = NoPath

-----------------------------------------------------------------------------
\* extractHDPath: the path is copied before it is checked, so a refused path
\* stays in hdPath.  PathCode is the status word of the check.
extractHDPath(p) == hdPath' = p

PathCode(p) ==
  CASE p \in Path    -> "OK"
    [] p \in BadPath -> "DATA_INVALID"
    [] OTHER         -> "WRONG_LENGTH"

\* Mutant: process_chunk without tx_reset.
ChunkInitKeepsBuffer(p) ==
  /\ tx_type' = "oasis"
  /\ extractHDPath(p)
  /\ tx_initialized' = (tx_initialized \/ p \in Path)
  /\ UNCHANGED buffer

\* process_chunk, P1 = 0: the buffer restarts; a refused path throws before
\* tx_initialized is written, which leaves the flag of the previous session.
ChunkInit(p) ==
  /\ tx_type' = "oasis"
  /\ buffer' = <<>>
  /\ extractHDPath(p)
  /\ tx_initialized' = (tx_initialized \/ p \in Path)

\* Mutant: the room is checked before the payload is counted.
FitsBefore(c) == Len(buffer) < BufferSize

Fits(c) == Len(buffer) + Len(c) <= BufferSize

\* process_chunk, P1 = 1 or 2, in an open session with room for the payload.
\* The last chunk does not close the session.
ChunkAppend(c) ==
  /\ tx_initialized
  /\ Fits(c)
  /\ buffer' = buffer \o c
  /\ UNCHANGED <<tx_initialized, tx_type, hdPath>>

\* The same without room: nothing is appended and the session is closed.
ChunkOverflow(c) ==
  /\ tx_initialized
  /\ ~Fits(c)
  /\ tx_initialized' = FALSE
  /\ UNCHANGED <<tx_type, buffer, hdPath>>

\* The same without an open session.
ChunkUninitialized ==
  /\ ~tx_initialized
  /\ UNCHANGED sessionVars

\* Any other P1 closes the session; a P2 other than 0 is refused before.
ChunkBadP1 ==
  /\ tx_initialized' = FALSE
  /\ UNCHANGED <<tx_type, buffer, hdPath>>

ChunkBadP2 == UNCHANGED sessionVars
=============================================================================
