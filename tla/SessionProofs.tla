--------------------------- MODULE SessionProofs ---------------------------
(***************************************************************************)
(* Lemmas about the transaction buffer that the proofs of both builds use. *)
(***************************************************************************)
EXTENDS EthSession, SequenceTheorems, TLAPS

\* A buffer is a sequence of units within the capacity.
LEMMA BufferIsSeq ==
  ASSUME NEW b \in Buffers
  PROVE  b \in Seq(Unit) /\ Len(b) \in Nat /\ Len(b) <= BufferSize
BY SessionAssumption DEF Buffers

\* A sequence of units that is not too long is a buffer.
LEMMA ShortIsBuffer ==
  ASSUME NEW c \in Seq(Unit), Len(c) <= BufferSize
  PROVE  c \in Buffers
<1>1. Len(c) \in 0..BufferSize /\ c \in [1..Len(c) -> Unit]
  BY LenProperties, SessionAssumption
<1>2. QED
  BY <1>1 DEF Buffers

\* A payload that fits leaves a buffer, of the sum of the lengths.
LEMMA AppendFits ==
  ASSUME NEW b \in Buffers, NEW c \in Seq(Unit), Len(b) + Len(c) <= BufferSize
  PROVE  b \o c \in Buffers /\ Len(b \o c) = Len(b) + Len(c)
<1>1. b \in Seq(Unit) /\ Len(b) \in Nat /\ Len(c) \in Nat
  BY BufferIsSeq
<1> DEFINE d == b \o c
<1>2. d \in Seq(Unit) /\ Len(d) = Len(b) + Len(c)
  BY <1>1
<1>3. d \in Buffers
  <2> HIDE DEF d
  <2> QED BY <1>2, ShortIsBuffer
<1>4. QED
  BY <1>2, <1>3

\* So is a buffer with nothing in it.
LEMMA EmptyIsBuffer == <<>> \in Buffers /\ <<>> \in Seq(Unit) /\ Len(<<>>) = 0
<1> DEFINE s == <<>>
<1>1. s \in Seq(Unit) /\ Len(s) = 0 /\ Len(s) <= BufferSize
  BY SessionAssumption
<1>2. s \in Buffers
  <2> HIDE DEF s
  <2> QED BY <1>1, ShortIsBuffer
<1>3. QED
  BY <1>1, <1>2

-----------------------------------------------------------------------------
(* Headers and payloads.                                                   *)

\* A header keeps its declared length when a payload that fits is appended.
LEMMA AppendKeepsHeader ==
  ASSUME NEW b \in Buffers, NEW c \in Seq(Unit), Len(b) + Len(c) <= BufferSize,
         Declared(b) # 0
  PROVE  Declared(b \o c) = Declared(b)
<1>1. Len(b) \in Nat /\ Len(c) \in Nat
  BY BufferIsSeq
<1>2. c \in Buffers
  BY <1>1, ShortIsBuffer, SessionAssumption
<1>3. QED
  BY <1>2, HeaderDecides

\* The first n units of a payload, or all of it.
LEMMA TakeProperties ==
  ASSUME NEW c \in Seq(Unit), NEW n \in Nat
  PROVE  /\ Take(c, n) \in Seq(Unit)
         /\ Len(Take(c, n)) = IF n < Len(c) THEN n ELSE Len(c)
         /\ Len(c) <= n => Take(c, n) = c
<1> DEFINE k == IF n < Len(c) THEN n ELSE Len(c)
<1>1. Len(c) \in Nat /\ k \in 0..Len(c)
  BY DEF k
<1>2. SubSeq(c, 1, k) \in Seq(Unit) /\ Len(SubSeq(c, 1, k)) = k
  BY <1>1, SubSeqProperties
<1>3. Len(c) <= n => SubSeq(c, 1, k) = c
  BY <1>1, SubSeqFull
<1>4. QED
  BY <1>2, <1>3 DEF Take

-----------------------------------------------------------------------------
(* The steps of a session.                                                 *)

\* An Ethereum packet that follows another leaves a session of the same kind.
LEMMA EthMoreType ==
  ASSUME SessionTypeOK, NEW c \in Seq(Unit), EthMore(c)
  PROVE  SessionTypeOK'
<1>1. buffer \in Buffers /\ Len(buffer) \in Nat /\ Declared(buffer) \in Nat
  BY EthAssumption, BufferIsSeq DEF SessionTypeOK
<1>2. Kept(c) \in Seq(Unit)
  BY <1>1, TakeProperties DEF Kept, Missing
<1>3. tx_initialized' \in BOOLEAN /\ UNCHANGED <<tx_type, hdPath>>
  BY DEF EthMore
<1>4. buffer' \in Buffers
  <2>1. CASE EthMoreCode(c) = "OK"
    <3>1. Len(buffer) + Len(Kept(c)) <= BufferSize
      BY <2>1 DEF EthMoreCode, Fits
    <3>2. QED
      BY <1>1, <1>2, <2>1, <3>1, AppendFits DEF EthMore
  <2>2. CASE EthMoreCode(c) # "OK"
    BY <1>1, <2>2 DEF EthMore
  <2>3. QED
    BY <2>1, <2>2
<1>5. QED
  BY <1>3, <1>4 DEF SessionTypeOK, AnyPath, AnyEthPath

\* The first packet of an Ethereum transaction leaves a buffer.
LEMMA EthFirstType ==
  ASSUME SessionTypeOK, NEW p \in AnyEthPath, NEW c \in Seq(Unit),
         Declared(c) \in Nat, EthFirst(p, c)
  PROVE  SessionTypeOK'
<1>1. tx_type' = "eth" /\ tx_initialized' \in BOOLEAN
  BY DEF EthFirst
<1>2. hdPath' \in AnyPath \cup AnyEthPath
  BY DEF EthFirst, extract_eth_path, SessionTypeOK
<1>3. buffer' \in Buffers
  <2>1. CASE EthFirstCode(p, c) = "OK"
    <3> DEFINE t == Take(c, Declared(c))
    <3>1. buffer' = t
      BY <2>1 DEF EthFirst
    <3>2. t \in Seq(Unit)
      BY TakeProperties
    <3>3. Len(t) <= BufferSize
      <4> HIDE DEF t
      <4>1. EthFirstCode(p, c) =
              IF p \notin EthPath THEN EthPathCode(p)
              ELSE IF Declared(c) = 0 THEN "DATA_INVALID"
              ELSE IF Len(t) > BufferSize THEN "OUTPUT_BUFFER_TOO_SMALL"
              ELSE "OK"
        BY DEF EthFirstCode, t
      <4>2. Len(t) \in Nat /\ BufferSize \in Nat
        BY <3>2, SessionAssumption
      <4>3. QED
        BY <2>1, <4>1, <4>2 DEF EthPathCode
    <3>4. QED
      BY <3>1, <3>2, <3>3, ShortIsBuffer
  <2>2. CASE EthFirstCode(p, c) # "OK"
    BY <2>2, EmptyIsBuffer DEF EthFirst
  <2>3. QED
    BY <2>1, <2>2
<1>4. QED
  BY <1>1, <1>2, <1>3 DEF SessionTypeOK
=============================================================================
