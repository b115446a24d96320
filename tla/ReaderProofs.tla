---------------------------- MODULE ReaderProofs ----------------------------
(***************************************************************************)
(* The byte loop of VoteReader, for any messages and any memory behind     *)
(* them: it stays close to its buffer, and over a whole message it         *)
(* computes what AminoVote computes on the fields.                         *)
(***************************************************************************)
EXTENDS VoteReader, SequenceTheorems, WellFoundedInduction, TLAPS

-----------------------------------------------------------------------------
(* Positions.                                                              *)

Less == {ss \in Nat \X Nat : ss[1] < ss[2]}

\* A set of naturals that is not empty has a least element.
LEMMA LeastExists ==
  ASSUME NEW S, S \subseteq Nat, S # {}
  PROVE  \E n \in S : \A m \in S : n <= m
<1>0. IsWellFoundedOn(Less, Nat)
  BY NatLessThanWellFounded DEF OpToRel, Less
<1>1. PICK n \in S : \A m \in S : ~(<<m, n>> \in Less)
  BY <1>0, WFMin
<1>2. ASSUME NEW m \in S PROVE n <= m
  <2>1. m \in Nat /\ n \in Nat
    OBVIOUS
  <2>2. m < n => <<m, n>> \in Less
    BY <2>1 DEF Less
  <2> QED BY <1>1, <2>1, <2>2
<1> QED BY <1>2

ByteVotes == [Type : Byte, Height : [1..8 -> Byte], Round : [1..8 -> Byte]]

\* The types, the loop's distance from the buffer, and memory for it to read.
RInv ==
  /\ ReaderTypeOK
  /\ voteTx \in ByteVotes
  /\ offset \in Nat
  /\ ReadsStayClose
  /\ bufferLen + 9 <= Len(mem)

\* Memory the loop may read holds bytes.
LEMMA BytesAt ==
  ASSUME RInv, NEW i \in Nat, 1 <= i, i <= bufferLen + 9
  PROVE  mem[i] \in Nat /\ mem[i] \in Byte
<1>1. mem \in Seq(Byte) /\ Len(mem) \in Nat /\ bufferLen \in Nat
  BY DEF RInv, ReaderTypeOK
<1>2. i \in 1..Len(mem)
  BY <1>1 DEF RInv
<1>3. mem[i] \in Byte
  BY <1>1, <1>2, ElementOfSeq
<1> QED BY <1>3 DEF Byte

\* A varint that can be read is in the buffer but for one byte, and takes one
\* byte at least.
LEMMA VarintStays ==
  ASSUME RInv, NEW at \in Nat
  PROVE  LET r == readRawVarint(at) IN
         /\ r.ok \in BOOLEAN
         /\ r.ok => /\ r.next \in Nat /\ at < r.next /\ r.next <= bufferLen + 1
                    /\ r.val \in Nat
<1> DEFINE last == {i \in at..bufferLen : EndsVarint(i, at)}
           n == CHOOSE i \in last : \A j \in last : i <= j
           r == readRawVarint(at)
<1>1. bufferLen \in Nat
  BY DEF RInv, ReaderTypeOK
<1>2. CASE last = {}
  <2>1. r = [ok |-> FALSE, val |-> 0, next |-> at]
    BY <1>2 DEF readRawVarint
  <2> QED BY <2>1
<1>3. CASE last # {}
  <2>1. last \subseteq Nat
    BY <1>1
  <2>2. \E i \in last : \A j \in last : i <= j
    BY <1>3, <2>1, LeastExists
  <2>3. n \in last
    BY <2>2
  <2>4. n \in Nat /\ at <= n /\ n <= bufferLen
    BY <1>1, <2>3
  <2>5. r = [ok   |-> TRUE,
             val  |-> (mem[at + 1] % 128) + (IF n = at THEN 0 ELSE 128 * (mem[at + 2] % 128)),
             next |-> n + 1]
    BY <1>3 DEF readRawVarint
  <2> HIDE DEF n, last, r
  <2>6. mem[at + 1] \in Nat
    BY <1>1, <2>4, BytesAt
  <2>7. n # at => mem[at + 2] \in Nat
    BY <1>1, <2>4, BytesAt
  <2>8. r.val \in Nat
    <3>1. CASE n = at
      BY <2>5, <2>6, <3>1
    <3>2. CASE n # at
      BY <2>5, <2>6, <2>7, <3>2
    <3> QED BY <3>1, <3>2
  <2> QED BY <1>1, <2>4, <2>5, <2>8 DEF r
<1> QED BY <1>2, <1>3

\* Eight bytes behind a key that was read are in memory.
LEMMA WordStays ==
  ASSUME RInv, NEW at \in Nat, at <= bufferLen + 1
  PROVE  /\ read_amino_64bits(at).val \in [1..8 -> Byte]
         /\ read_amino_64bits(at).next = at + 8
<1>1. bufferLen \in Nat
  BY DEF RInv, ReaderTypeOK
<1>2. ASSUME NEW i \in 1..8 PROVE mem[at + i] \in Byte
  <2>1. at + i \in Nat /\ 1 <= at + i /\ at + i <= bufferLen + 9
    BY <1>1
  <2> QED BY <2>1, BytesAt
<1> QED BY <1>2 DEF read_amino_64bits

-----------------------------------------------------------------------------
(* The invariant.                                                          *)

LEMMA ConcatBytes ==
  ASSUME NEW S, NEW s \in Seq(S), NEW t \in Seq(S)
  PROVE  s \o t \in Seq(S) /\ Len(s \o t) = Len(s) + Len(t)
OBVIOUS

LEMMA ZeroWord == Int64Bytes(0) \in [1..8 -> Byte]
<1> DEFINE low == <<0, 0>>
           high == [i \in 1..6 |-> 0]
<1>1. Int64Bytes(0) = low \o high
  BY DEF Int64Bytes
<1>2. low \in Seq(Byte) /\ Len(low) = 2
  BY DEF Byte
<1>3. high \in Seq(Byte) /\ Len(high) = 6
  BY DEF Byte
<1> HIDE DEF low, high
<1>4. low \o high \in Seq(Byte) /\ Len(low \o high) = Len(low) + Len(high)
  BY <1>2, <1>3, ConcatBytes, Zenon
<1>5. Len(low \o high) = 8
  BY <1>2, <1>3, <1>4
<1> QED BY <1>1, <1>4, <1>5, LenProperties

\* The message ends where the older memory begins.
LEMMA InitMemory ==
  ASSUME ReaderInit
  PROVE  mem \in Seq(Byte) /\ bufferLen \in Nat /\ bufferLen + 9 <= Len(mem)
<1> DEFINE bytes == MessageBytes(message)
<1>1. PICK old \in Previous :
        mem = SubSeq(bytes, 1, bufferLen) \o SubSeq(old, bufferLen + 1, Len(old))
  BY DEF ReaderInit
<1>2. /\ bytes \in Seq(Byte) /\ Len(bytes) \in Nat
      /\ old \in Seq(Byte) /\ Len(old) \in Nat /\ Len(old) >= Len(bytes) + 9
  BY ReaderAssumption DEF ReaderInit
<1>3. bufferLen \in 0..Len(bytes)
  BY DEF ReaderInit
<1> HIDE DEF bytes
<1> DEFINE front == SubSeq(bytes, 1, bufferLen)
           back  == SubSeq(old, bufferLen + 1, Len(old))
<1>4. front \in Seq(Byte) /\ Len(front) = bufferLen
  <2>1. \A i \in 1..bufferLen : bytes[i] \in Byte
    BY <1>2, <1>3, ElementOfSeq
  <2> QED BY <1>2, <1>3, <2>1, SubSeqProperties
<1>5. back \in Seq(Byte) /\ Len(back) = Len(old) - bufferLen
  <2>1. \A i \in (bufferLen + 1)..Len(old) : old[i] \in Byte
    BY <1>2, <1>3, ElementOfSeq
  <2> QED BY <1>2, <1>3, <2>1, SubSeqProperties
<1> HIDE DEF front, back
<1>6. front \o back \in Seq(Byte) /\ Len(front \o back) = Len(front) + Len(back)
  BY <1>4, <1>5, ConcatBytes, Zenon
<1>7. mem = front \o back
  BY <1>1 DEF front, back
<1>8. Len(mem) = Len(old)
  <2>1. Len(front) + Len(back) = Len(old)
    BY <1>2, <1>3, <1>4, <1>5
  <2> QED BY <1>6, <1>7, <2>1, Zenon
<1> QED BY <1>2, <1>3, <1>6, <1>7, <1>8

LEMMA InitRInv == ReaderInit => RInv
<1> SUFFICES ASSUME ReaderInit PROVE RInv
  OBVIOUS
<1>1. mem \in Seq(Byte) /\ bufferLen \in Nat /\ bufferLen + 9 <= Len(mem)
  BY InitMemory
<1>2. voteTx \in ByteVotes
  BY ZeroWord DEF ReaderInit, ByteVote, NoVote, Byte, ByteVotes
<1>3. expected_field \in 1..4 /\ offset = 0 /\ status = "more" /\ message \in Message
  BY DEF ReaderInit, FIELD_TYPE
<1>4. bufferLen \in 0..Len(mem)
  BY <1>1, LenProperties
<1> QED BY <1>1, <1>2, <1>3, <1>4 DEF RInv, ReaderTypeOK, ReadsStayClose, ByteVotes

\* What a turn may do: consume bytes up to nine behind the buffer, or stop.
Consumes(v) ==
  /\ offset' \in Nat /\ offset < offset' /\ offset' <= bufferLen + 9
  /\ voteTx' = v
  /\ v \in ByteVotes
  /\ expected_field' \in 1..4
  /\ status' = status

Stops == \E code : Stop(code) /\ code \in
  {"unexpected_buffer_end", "unexpected_field", "unexpected_round_value",
   "unexpected_wire_type"}

\* A turn behind a key of a known field.
LEMMA KnownKey ==
  ASSUME RInv, NEW n, NEW wire, Known(n, wire)
  PROVE  /\ Turn /\ Key.next \in Nat
         /\ offset < Key.next /\ Key.next <= bufferLen + 1
BY VarintStays DEF RInv, Known, Key

LEMMA ReadTypeTurn ==
  ASSUME RInv, ReadType
  PROVE  Turn /\ (Stops \/ \E v : Consumes(v))
<1> DEFINE t == readRawVarint(Key.next)
<1>1. /\ Turn /\ Key.next \in Nat
      /\ offset < Key.next /\ Key.next <= bufferLen + 1
  BY KnownKey DEF ReadType
<1>2. IF t.ok THEN Continue(t.next, [voteTx EXCEPT !.Type = t.val % 256], FIELD_HEIGHT)
      ELSE Stop("unexpected_buffer_end")
  BY DEF ReadType
<1>3. t.ok => t.next \in Nat /\ Key.next < t.next /\ t.next <= bufferLen + 1 /\ t.val \in Nat
  BY <1>1, VarintStays
<1> HIDE DEF t
<1>4. CASE t.ok
  <2> DEFINE v == [voteTx EXCEPT !.Type = t.val % 256]
  <2>1. v \in ByteVotes
    <3>1. t.val % 256 \in Byte
      BY <1>3, <1>4 DEF Byte
    <3> QED BY <3>1 DEF RInv, ByteVotes
  <2>2. Consumes(v)
    BY <1>1, <1>2, <1>3, <1>4, <2>1
       DEF Consumes, Continue, FIELD_HEIGHT, RInv, ReaderTypeOK
  <2> QED BY <1>1, <2>2
<1>5. CASE ~t.ok
  BY <1>1, <1>2, <1>5 DEF Stops
<1> QED BY <1>4, <1>5

LEMMA ReadHeightTurn ==
  ASSUME RInv, ReadHeight
  PROVE  Turn /\ \E v : Consumes(v)
<1> DEFINE h == read_amino_64bits(Key.next)
           v == [voteTx EXCEPT !.Height = h.val]
<1>1. /\ Turn /\ Key.next \in Nat
      /\ offset < Key.next /\ Key.next <= bufferLen + 1
  BY KnownKey DEF ReadHeight
<1>2. Continue(h.next, v, FIELD_ROUND)
  BY DEF ReadHeight
<1>3. h.val \in [1..8 -> Byte] /\ h.next = Key.next + 8
  BY <1>1, WordStays
<1> HIDE DEF h
<1>4. v \in ByteVotes
  BY <1>3 DEF RInv, ByteVotes
<1>5. Consumes(v)
  BY <1>1, <1>2, <1>3, <1>4 DEF Consumes, Continue, FIELD_ROUND, RInv, ReaderTypeOK
<1> QED BY <1>1, <1>5

LEMMA ReadRoundTurn ==
  ASSUME RInv, ReadRound
  PROVE  Turn /\ (Stops \/ \E v : Consumes(v))
<1> DEFINE r == read_amino_64bits(Key.next)
           v == [voteTx EXCEPT !.Round = r.val]
           fits == \A i \in 2..8 : r.val[i] = 0
<1>1. /\ Turn /\ Key.next \in Nat
      /\ offset < Key.next /\ Key.next <= bufferLen + 1
  BY KnownKey DEF ReadRound
<1>2. IF fits THEN Continue(r.next, v, FIELD_ROUND + 1)
      ELSE Stop("unexpected_round_value")
  BY DEF ReadRound
<1>3. r.val \in [1..8 -> Byte] /\ r.next = Key.next + 8
  BY <1>1, WordStays
<1> HIDE DEF r, fits
<1>4. v \in ByteVotes
  BY <1>3 DEF RInv, ByteVotes
<1>5. CASE fits
  <2>1. Consumes(v)
    BY <1>1, <1>2, <1>3, <1>4, <1>5
       DEF Consumes, Continue, FIELD_ROUND, RInv, ReaderTypeOK
  <2> QED BY <1>1, <2>1
<1>6. CASE ~fits
  BY <1>1, <1>2, <1>6 DEF Stops
<1> QED BY <1>5, <1>6

LEMMA StepKeepsRInv == RInv /\ [ReaderNext]_readerVars => RInv'
<1> SUFFICES ASSUME RInv, [ReaderNext]_readerVars PROVE RInv'
  OBVIOUS
<1>1. ASSUME Turn, NEW v, Consumes(v) PROVE RInv'
  BY <1>1 DEF Turn, Consumes, RInv, ReaderTypeOK, ReadsStayClose, ByteVotes
<1>2. ASSUME Turn, Stops PROVE RInv'
  BY <1>2 DEF Turn, Stops, Stop, RInv, ReaderTypeOK, ReadsStayClose, ByteVotes
<1>3. CASE ReadType
  BY <1>1, <1>2, <1>3, ReadTypeTurn
<1>4. CASE ReadHeight
  BY <1>1, <1>4, ReadHeightTurn
<1>5. CASE ReadRound
  BY <1>1, <1>2, <1>5, ReadRoundTurn
<1>6. CASE ReadBad
  <2>1. Turn /\ Stops
    BY <1>6 DEF ReadBad, Stops
  <2> QED BY <1>2, <2>1
<1>7. CASE ReadOther
  <2>1. /\ status' = "ok" /\ offset' = Key.next
        /\ UNCHANGED <<message, mem, bufferLen, voteTx, expected_field>>
    BY <1>7 DEF ReadOther, Turn
  <2>2. Key.next \in Nat /\ Key.next <= bufferLen + 1
    BY <1>7, VarintStays DEF ReadOther, Key, RInv
  <2> QED BY <2>1, <2>2 DEF RInv, ReaderTypeOK, ReadsStayClose, ByteVotes
<1>8. CASE AtEnd
  BY <1>8 DEF AtEnd, RInv, ReaderTypeOK, ReadsStayClose, ByteVotes
<1>9. CASE UNCHANGED readerVars
  BY <1>9 DEF readerVars, RInv, ReaderTypeOK, ReadsStayClose, ByteVotes
<1> QED BY <1>3, <1>4, <1>5, <1>6, <1>7, <1>8, <1>9 DEF ReaderNext

LEMMA ReaderInvariant == ReaderSpec => []RInv
<1> QED BY InitRInv, StepKeepsRInv, PTL DEF ReaderSpec

\* The vote the parser holds is one of bytes, whatever the host sends.
THEOREM ReaderTypeCorrect == ReaderSpec => []ReaderTypeOK
<1>1. RInv => ReaderTypeOK
  BY DEF RInv
<1> QED BY <1>1, ReaderInvariant, PTL

\* No message makes the loop read more than nine bytes behind the buffer.
THEOREM ReaderStaysClose == ReaderSpec => []ReadsStayClose
<1>1. RInv => ReadsStayClose
  BY DEF RInv
<1> QED BY <1>1, ReaderInvariant, PTL

\* Every turn that does not end the loop consumes a byte or more.
TurnsConsume == [][status' = "more" => offset < offset']_readerVars

\* So it does for any message: with the bound of ReaderStaysClose no message
\* keeps the loop running for more turns than the buffer has bytes.
THEOREM ReaderConsumes == ReaderSpec => TurnsConsume
<1>1. RInv /\ [ReaderNext]_readerVars => [status' = "more" => offset < offset']_readerVars
  <2> SUFFICES ASSUME RInv, ReaderNext PROVE status' = "more" => offset < offset'
    BY DEF readerVars
  <2>1. ASSUME Stops PROVE status' # "more"
    BY <2>1 DEF Stops, Stop
  <2>2. ASSUME NEW v, Consumes(v) PROVE offset < offset'
    BY <2>2 DEF Consumes
  <2>3. CASE ReadType
    BY <2>1, <2>2, <2>3, ReadTypeTurn
  <2>4. CASE ReadHeight
    BY <2>2, <2>4, ReadHeightTurn
  <2>5. CASE ReadRound
    BY <2>1, <2>2, <2>5, ReadRoundTurn
  <2>6. CASE ReadBad
    <3>1. Stops
      BY <2>6 DEF ReadBad, Stops
    <3> QED BY <2>1, <3>1
  <2>7. CASE ReadOther \/ AtEnd
    BY <2>7 DEF ReadOther, AtEnd
  <2> QED BY <2>3, <2>4, <2>5, <2>6, <2>7 DEF ReaderNext
<1> QED BY <1>1, ReaderInvariant, PTL DEF ReaderSpec, TurnsConsume

-----------------------------------------------------------------------------
(* What AminoVote makes of the first fields, and where their bytes end.    *)

\* A set that holds 0, and with a position the next, holds all up to the last.
LEMMA UpTo ==
  ASSUME NEW n \in Nat, NEW S, 0 \in S,
         \A k \in 0..n : k + 1 \in 0..n /\ k \in S => k + 1 \in S
  PROVE  \A k \in 0..n : k \in S
<1> DEFINE Left == {k \in 0..n : k \notin S}
<1>1. SUFFICES ASSUME Left # {} PROVE FALSE
  OBVIOUS
<1>2. PICK m \in Left : \A k \in Left : m <= k
  <2>1. Left \subseteq Nat
    OBVIOUS
  <2> HIDE DEF Left
  <2> QED BY ONLY <1>1, <2>1, LeastExists
<1>3. m \in Nat /\ m # 0 /\ m <= n /\ m \notin S
  BY <1>2
<1>4. m - 1 \in 0..n /\ m - 1 \notin Left
  <2>1. m - 1 \in 0..n /\ ~(m <= m - 1)
    BY <1>3
  <2> QED BY ONLY <1>2, <2>1
<1>5. m - 1 \in S
  BY <1>4
<1>6. (m - 1) + 1 \in 0..n /\ (m - 1) + 1 = m
  BY <1>3
<1> QED BY <1>3, <1>4, <1>5, <1>6

\* g[k] is what vote_amino_parse has read of the first k fields of m.
IsReading(m, g) ==
  /\ g[0] = Start
  /\ \A k \in 1..Len(m) : g[k] = Consume(g[k - 1], m[k])
  /\ vote_amino_parse(m) = g[Len(m)]

ReadOf(m) == CHOOSE g : IsReading(m, g)

LEMMA ReadingExists ==
  ASSUME NEW m, Len(m) \in Nat
  PROVE  IsReading(m, ReadOf(m))
<1> DEFINE n == Len(m)
           Solves(k, g) ==
             g = [j \in 0..k |-> IF j = 0 THEN Start ELSE Consume(g[j - 1], m[j])]
           Solved == {k \in 0..n : \E g : Solves(k, g)}
           read == CHOOSE g : Solves(n, g)
<1>1. 0 \in Solved
  <2> DEFINE g == [j \in 0..0 |-> Start]
  <2>1. \A j \in 0..0 : j = 0
    OBVIOUS
  <2>2. Solves(0, g)
    BY <2>1
  <2> HIDE DEF g, Solves
  <2> QED BY <2>2
<1>2. ASSUME NEW k \in 0..n, k + 1 \in 0..n, k \in Solved PROVE k + 1 \in Solved
  <2>1. PICK g : Solves(k, g)
    BY <1>2
  <2> DEFINE h == [j \in 0..k + 1 |-> IF j <= k THEN g[j] ELSE Consume(g[k], m[k + 1])]
  <2>2. \A j \in 0..k : g[j] = IF j = 0 THEN Start ELSE Consume(g[j - 1], m[j])
    BY ONLY <2>1
  <2>3. ASSUME NEW j \in 0..k + 1
        PROVE  h[j] = IF j = 0 THEN Start ELSE Consume(h[j - 1], m[j])
    <3>1. CASE j <= k
      <4>1. j \in 0..k /\ (j # 0 => j - 1 \in 0..k + 1 /\ j - 1 <= k)
        BY <3>1
      <4>2. h[j] = g[j] /\ (j # 0 => h[j - 1] = g[j - 1])
        BY <3>1, <4>1
      <4> HIDE DEF h
      <4> QED BY ONLY <2>2, <4>1, <4>2
    <3>2. CASE ~(j <= k)
      <4>1. j = k + 1 /\ j # 0 /\ k \in 0..k + 1 /\ k <= k /\ j - 1 = k
        BY <3>2
      <4>2. h[j] = Consume(g[k], m[k + 1]) /\ h[k] = g[k]
        BY <3>2, <4>1
      <4> HIDE DEF h
      <4> QED BY ONLY <4>1, <4>2
    <3> QED BY <3>1, <3>2
  <2>4. h = [j \in 0..k + 1 |-> h[j]]
    OBVIOUS
  <2>5. Solves(k + 1, h)
    <3> HIDE DEF h
    <3> QED BY ONLY <2>3, <2>4
  <2> HIDE DEF h, Solves
  <2> QED BY <1>2, <2>5
<1>3. n \in Solved
  <2> HIDE DEF Solved
  <2>1. \A k \in 0..n : k + 1 \in 0..n /\ k \in Solved => k + 1 \in Solved
    BY ONLY <1>2
  <2>2. n \in 0..n
    OBVIOUS
  <2> QED BY ONLY <1>1, <2>1, <2>2, n \in Nat, UpTo
<1>4. Solves(n, read)
  <2>1. PICK g : Solves(n, g)
    BY <1>3
  <2> HIDE DEF Solves
  <2> QED BY ONLY <2>1
<1>5. vote_amino_parse(m) = read[n]
  BY DEF vote_amino_parse
<1>6. \A j \in 0..n : read[j] = IF j = 0 THEN Start ELSE Consume(read[j - 1], m[j])
  <2> HIDE DEF read
  <2> QED BY ONLY <1>4
<1> HIDE DEF read, n
<1>7. IsReading(m, read)
  <2>1. 0 \in 0..n /\ \A k \in 1..n : k \in 0..n /\ k # 0
    BY DEF n
  <2> QED BY ONLY <1>5, <1>6, <2>1 DEF IsReading, n
<1> QED BY ONLY <1>7 DEF ReadOf

\* g[k] is the bytes of the first k of the sequences s.
IsWriting(s, g) ==
  /\ g \in [0..Len(s) -> Seq(Byte)]
  /\ g[0] = <<>>
  /\ \A k \in 1..Len(s) : g[k] = g[k - 1] \o s[k]
  /\ FlattenSeq(s) = g[Len(s)]

WrittenOf(s) == CHOOSE g : IsWriting(s, g)

\* u is s and then t.
Joins(u, s, t) ==
  /\ Len(u) = Len(s) + Len(t)
  /\ \A j \in 1..Len(s) : u[j] = s[j]
  /\ \A j \in 1..Len(t) : u[Len(s) + j] = t[j]

LEMMA ConcatIs ==
  ASSUME NEW S, NEW s \in Seq(S), NEW t \in Seq(S)
  PROVE  s \o t \in Seq(S) /\ Joins(s \o t, s, t)
<1>1. s \o t \in Seq(S) /\ Len(s \o t) = Len(s) + Len(t)
  OBVIOUS
<1>2. Len(s) \in Nat /\ Len(t) \in Nat
  OBVIOUS
<1>3. \A j \in 1..Len(s) + Len(t) :
        (s \o t)[j] = IF j <= Len(s) THEN s[j] ELSE t[j - Len(s)]
  OBVIOUS
<1>4. \A j \in 1..Len(s) : (s \o t)[j] = s[j]
  <2>1. \A j \in 1..Len(s) : j \in 1..Len(s) + Len(t) /\ j <= Len(s)
    BY ONLY <1>2
  <2> QED BY ONLY <1>3, <2>1
<1>5. ASSUME NEW j \in 1..Len(t) PROVE (s \o t)[Len(s) + j] = t[j]
  <2>1. /\ Len(s) + j \in 1..Len(s) + Len(t) /\ ~(Len(s) + j <= Len(s))
        /\ (Len(s) + j) - Len(s) = j
    BY ONLY <1>2, j \in 1..Len(t)
  <2> QED BY ONLY <1>3, <2>1
<1> QED BY <1>1, <1>4, <1>5 DEF Joins

LEMMA WritingExists ==
  ASSUME NEW s \in Seq(Seq(Byte))
  PROVE  IsWriting(s, WrittenOf(s))
<1> DEFINE n == Len(s)
           Solves(k, g) ==
             g = [j \in 1..k |-> IF j = 1 THEN s[j] ELSE g[j - 1] \o s[j]]
           Solved == {k \in 0..n : \E g : Solves(k, g)}
           flat == CHOOSE g : Solves(n, g)
           all == [k \in 0..n |-> IF k = 0 THEN <<>> ELSE flat[k]]
           Bytes == {k \in 0..n : all[k] \in Seq(Byte)}
<1>0. n \in Nat /\ 0 \in 0..n /\ n \in 0..n /\ \A k \in 1..n : s[k] \in Seq(Byte)
  BY ElementOfSeq
<1>1. 0 \in Solved
  <2> DEFINE g == [j \in 1..0 |-> s[j]]
  <2>1. \A j \in 1..0 : FALSE
    OBVIOUS
  <2>2. Solves(0, g)
    BY <2>1
  <2> HIDE DEF g, Solves
  <2> QED BY <1>0, <2>2
<1>2. ASSUME NEW k \in 0..n, k + 1 \in 0..n, k \in Solved PROVE k + 1 \in Solved
  <2>1. PICK g : Solves(k, g)
    BY <1>2
  <2> DEFINE last == IF k = 0 THEN s[1] ELSE g[k] \o s[k + 1]
             h == [j \in 1..k + 1 |-> IF j <= k THEN g[j] ELSE last]
  <2>2. \A j \in 1..k : g[j] = IF j = 1 THEN s[j] ELSE g[j - 1] \o s[j]
    BY ONLY <2>1
  <2>3. ASSUME NEW j \in 1..k + 1
        PROVE  h[j] = IF j = 1 THEN s[j] ELSE h[j - 1] \o s[j]
    <3>1. CASE j <= k
      <4>1. j \in 1..k /\ (j # 1 => j - 1 \in 1..k + 1 /\ j - 1 <= k)
        BY <3>1
      <4>2. h[j] = g[j] /\ (j # 1 => h[j - 1] = g[j - 1])
        BY <3>1, <4>1
      <4> HIDE DEF h
      <4> QED BY ONLY <2>2, <4>1, <4>2
    <3>2. CASE ~(j <= k)
      <4>1. /\ j = k + 1 /\ (j = 1 <=> k = 0) /\ j - 1 = k
            /\ k # 0 => k \in 1..k + 1 /\ k <= k
        BY <3>2
      <4>2. h[j] = last /\ (k # 0 => h[k] = g[k])
        BY <3>2, <4>1
      <4> HIDE DEF h
      <4> QED BY ONLY <4>1, <4>2
    <3> QED BY <3>1, <3>2
  <2>4. h = [j \in 1..k + 1 |-> h[j]]
    OBVIOUS
  <2>5. Solves(k + 1, h)
    <3> HIDE DEF h
    <3> QED BY ONLY <2>3, <2>4
  <2> HIDE DEF h, Solves
  <2> QED BY <1>2, <2>5
<1>3. n \in Solved
  <2> HIDE DEF Solved
  <2>1. \A k \in 0..n : k + 1 \in 0..n /\ k \in Solved => k + 1 \in Solved
    BY ONLY <1>2
  <2> QED BY ONLY <1>0, <1>1, <2>1, UpTo
<1>4. Solves(n, flat)
  <2>1. PICK g : Solves(n, g)
    BY <1>3
  <2> HIDE DEF Solves
  <2> QED BY ONLY <2>1
<1>5. n # 0 => FlattenSeq(s) = flat[n]
  BY DEF FlattenSeq
<1>6. n = 0 => FlattenSeq(s) = <<>>
  BY EmptySeq DEF FlattenSeq
<1>7. FlattenSeq(s) = all[n]
  <2>1. all[n] = IF n = 0 THEN <<>> ELSE flat[n]
    BY ONLY <1>0
  <2> QED BY ONLY <1>5, <1>6, <2>1
<1>8. \A j \in 1..n : flat[j] = IF j = 1 THEN s[j] ELSE flat[j - 1] \o s[j]
  <2> HIDE DEF flat
  <2> QED BY ONLY <1>4
<1> HIDE DEF flat, n
<1>9. ASSUME NEW k \in 1..n PROVE all[k] = all[k - 1] \o s[k]
  <2>1. k \in 0..n /\ k - 1 \in 0..n /\ k # 0 /\ (k = 1 <=> k - 1 = 0)
    BY ONLY <1>0, k \in 1..n
  <2>2. all[k] = flat[k] /\ all[k - 1] = IF k = 1 THEN <<>> ELSE flat[k - 1]
    BY ONLY <2>1
  <2>3. <<>> \o s[k] = s[k]
    BY <1>0
  <2> HIDE DEF all
  <2> QED BY ONLY <1>8, <2>2, <2>3, k \in 1..n
<1>10. all[0] = <<>>
  BY <1>0
<1>11. \A k \in 0..n : all[k] \in Seq(Byte)
  <2>1. 0 \in Bytes
    BY <1>0, <1>10
  <2>2. ASSUME NEW k \in 0..n, k + 1 \in 0..n, k \in Bytes PROVE k + 1 \in Bytes
    <3>1. k + 1 \in 1..n /\ (k + 1) - 1 = k
      BY <1>0, <2>2
    <3>2. all[k + 1] = all[k] \o s[k + 1]
      BY <1>9, <3>1
    <3>3. all[k] \in Seq(Byte) /\ s[k + 1] \in Seq(Byte)
      BY <1>0, <2>2, <3>1
    <3> HIDE DEF all
    <3>4. all[k] \o s[k + 1] \in Seq(Byte)
      BY ONLY <3>3, ConcatIs
    <3> QED BY <2>2, <3>2, <3>4
  <2> HIDE DEF all
  <2>3. \A k \in 0..n : k \in Bytes
    <3>1. \A k \in 0..n : k + 1 \in 0..n /\ k \in Bytes => k + 1 \in Bytes
      BY ONLY <2>2
    <3> HIDE DEF Bytes
    <3> QED BY ONLY <1>0, <2>1, <3>1, UpTo
  <2> QED BY <2>3
<1>12. all \in [0..n -> Seq(Byte)]
  BY <1>11
<1> HIDE DEF all
<1>13. IsWriting(s, all)
  BY ONLY <1>7, <1>9, <1>10, <1>12 DEF IsWriting, n
<1> QED BY ONLY <1>13 DEF WrittenOf

\* The bytes of the first sequences begin those of all.
LEMMA WrittenBegins ==
  ASSUME NEW s \in Seq(Seq(Byte)), NEW k \in 0..Len(s)
  PROVE  LET g == WrittenOf(s) IN
         /\ g[k] \in Seq(Byte)
         /\ Len(g[k]) <= Len(FlattenSeq(s))
         /\ \A j \in 1..Len(g[k]) : FlattenSeq(s)[j] = g[k][j]
<1> DEFINE g == WrittenOf(s)
           n == Len(s)
           Begins(u) == /\ Len(g[k]) <= Len(g[u])
                        /\ \A j \in 1..Len(g[k]) : g[u][j] = g[k][j]
           Longer == {u \in 0..n : k <= u => Begins(u)}
<1>1. /\ g \in [0..n -> Seq(Byte)]
      /\ g[0] = <<>>
      /\ \A u \in 1..n : g[u] = g[u - 1] \o s[u]
      /\ FlattenSeq(s) = g[n]
  BY WritingExists DEF IsWriting
<1>2. n \in Nat /\ k \in 0..n /\ k \in Nat /\ k <= n /\ n \in 0..n /\ 0 \in 0..n
  OBVIOUS
<1>3. \A u \in 1..n : s[u] \in Seq(Byte)
  BY ElementOfSeq
<1> HIDE DEF g, n
<1>4. \A u \in 0..n : g[u] \in Seq(Byte) /\ Len(g[u]) \in Nat
  BY <1>1
<1>5. Begins(k)
  BY <1>4 DEF n
<1>6. 0 \in Longer
  BY <1>2, <1>5
<1>7. ASSUME NEW u \in 0..n, u + 1 \in 0..n, u \in Longer PROVE u + 1 \in Longer
  <2>1. CASE k <= u
    <3>1. u + 1 \in 1..n /\ (u + 1) - 1 = u
      BY <1>7, <1>2
    <3>2. g[u + 1] = g[u] \o s[u + 1]
      BY ONLY <1>1, <3>1
    <3>3. g[u] \in Seq(Byte) /\ s[u + 1] \in Seq(Byte)
      BY ONLY <1>3, <1>4, <3>1, u \in 0..n
    <3>4. /\ Len(g[u + 1]) = Len(g[u]) + Len(s[u + 1])
          /\ \A j \in 1..Len(g[u]) : g[u + 1][j] = g[u][j]
      <4>1. Joins(g[u] \o s[u + 1], g[u], s[u + 1])
        BY ONLY <3>3, ConcatIs, Zenon
      <4>2. Joins(g[u + 1], g[u], s[u + 1])
        BY ONLY <3>2, <4>1, Zenon
      <4> QED BY ONLY <4>2, Zenon DEF Joins
    <3>5. Len(g[u]) \in Nat /\ Len(s[u + 1]) \in Nat /\ Len(g[k]) \in Nat
      BY ONLY <3>3, <1>2, <1>4, LenProperties
    <3>6. Begins(u)
      BY <1>7, <2>1
    <3>7. \A j \in 1..Len(g[k]) : j \in 1..Len(g[u])
      BY ONLY <3>5, <3>6
    <3>8. Begins(u + 1)
      <4>1. Len(g[k]) <= Len(g[u + 1])
        <5>1. Len(g[k]) <= Len(g[u])
          BY ONLY <3>6
        <5>2. Len(g[u + 1]) = Len(g[u]) + Len(s[u + 1])
          BY ONLY <3>4
        <5>3. \A x, y, z \in Nat : x <= y => x <= y + z
          OBVIOUS
        <5>4. Len(g[k]) <= Len(g[u]) + Len(s[u + 1])
          BY ONLY <3>5, <5>1, <5>3
        <5> QED BY ONLY <5>2, <5>4, Zenon
      <4>2. \A j \in 1..Len(g[k]) : g[u + 1][j] = g[k][j]
        BY ONLY <3>4, <3>6, <3>7
      <4> QED BY ONLY <4>1, <4>2
    <3> HIDE DEF Begins
    <3> QED BY <1>7, <3>8
  <2>2. CASE k = u + 1
    <3>1. Begins(u + 1)
      BY <1>5, <2>2
    <3> HIDE DEF Begins
    <3> QED BY <1>7, <3>1
  <2>3. CASE ~(k <= u + 1)
    BY <1>7, <2>3
  <2> QED BY <1>2, <2>1, <2>2, <2>3
<1>8. \A u \in 0..n : u \in Longer
  <2> HIDE DEF Longer
  <2>1. \A u \in 0..n : u + 1 \in 0..n /\ u \in Longer => u + 1 \in Longer
    BY ONLY <1>7
  <2> QED BY ONLY <1>2, <1>6, <2>1, UpTo
<1>9. Begins(n)
  BY <1>2, <1>8
<1> QED BY ONLY <1>1, <1>2, <1>4, <1>9 DEF g

-----------------------------------------------------------------------------
(* What the loop finds at a field.                                         *)

\* These bytes are in memory at this position.
Holds(at, bytes) == \A j \in 1..Len(bytes) : mem[at + j] = bytes[j]

LEMMA HoldsParts ==
  ASSUME NEW at \in Nat, NEW s \in Seq(Byte), NEW t \in Seq(Byte), Holds(at, s \o t)
  PROVE  Holds(at, s) /\ Holds(at + Len(s), t)
<1>1. /\ Len(s \o t) = Len(s) + Len(t)
      /\ \A j \in 1..Len(s) : (s \o t)[j] = s[j]
      /\ \A j \in 1..Len(t) : (s \o t)[Len(s) + j] = t[j]
      /\ Len(s) \in Nat /\ Len(t) \in Nat
  BY ConcatIs, LenProperties DEF Joins
<1>2. \A j \in 1..Len(s) + Len(t) : mem[at + j] = (s \o t)[j]
  BY <1>1 DEF Holds
<1>3. \A j \in 1..Len(s) : mem[at + j] = s[j]
  <2>1. \A j \in 1..Len(s) : j \in 1..Len(s) + Len(t)
    BY ONLY <1>1
  <2> QED BY ONLY <1>1, <1>2, <2>1
<1>4. ASSUME NEW j \in 1..Len(t) PROVE mem[(at + Len(s)) + j] = t[j]
  <2>1. Len(s) + j \in 1..Len(s) + Len(t) /\ at + (Len(s) + j) = (at + Len(s)) + j
    BY ONLY <1>1, at \in Nat, j \in 1..Len(t)
  <2>2. mem[at + (Len(s) + j)] = t[j]
    BY ONLY <1>1, <1>2, <2>1, j \in 1..Len(t)
  <2> QED BY ONLY <2>1, <2>2
<1> QED BY <1>3, <1>4 DEF Holds

Short == {n \in Nat : n < 16384}

\* One byte below 128, or one that goes on and one that does not.
LEMMA VarintBytesAre ==
  ASSUME NEW n \in Short
  PROVE  /\ VarintBytes(n) \in Seq(Byte)
         /\ n < 128 => Len(VarintBytes(n)) = 1 /\ VarintBytes(n)[1] = n
         /\ ~(n < 128) => /\ Len(VarintBytes(n)) = 2
                        /\ VarintBytes(n)[1] = 128 + (n % 128)
                        /\ VarintBytes(n)[2] = n \div 128
<1>0. n \in Nat /\ n < 16384
  BY DEF Short
<1>1. CASE n < 128
  <2>1. VarintBytes(n) = <<n>>
    BY <1>1 DEF VarintBytes
  <2>2. n \in Byte
    BY ONLY <1>0, <1>1 DEF Byte
  <2> QED BY <1>1, <2>1, <2>2
<1>2. CASE ~(n < 128)
  <2>1. 128 + (n % 128) \in Byte /\ n \div 128 \in Byte
    BY ONLY <1>0 DEF Byte
  <2>2. VarintBytes(n) = <<128 + (n % 128), n \div 128>>
    BY <1>2 DEF VarintBytes
  <2> QED BY <1>2, <2>1, <2>2
<1> QED BY <1>1, <1>2

\* readRawVarint reads back what was written.
LEMMA VarintRead ==
  ASSUME bufferLen \in Nat, NEW at \in Nat, NEW n \in Short,
         Holds(at, VarintBytes(n)), at + Len(VarintBytes(n)) <= bufferLen
  PROVE  readRawVarint(at) = [ok |-> TRUE, val |-> n, next |-> at + Len(VarintBytes(n))]
<1> DEFINE last == {i \in at..bufferLen : EndsVarint(i, at)}
           e == CHOOSE i \in last : \A j \in last : i <= j
<1>0. n \in Nat /\ n < 16384
  BY DEF Short
<1>1. CASE n < 128
  <2>1. Len(VarintBytes(n)) = 1 /\ mem[at + 1] = n
    <3>1. Len(VarintBytes(n)) = 1 /\ VarintBytes(n)[1] = n
      BY ONLY <1>1, VarintBytesAre, n \in Short, Zenon
    <3>2. \A j \in 1..1 : mem[at + j] = VarintBytes(n)[j]
      BY <3>1 DEF Holds
    <3> QED BY ONLY <3>1, <3>2
  <2>2. at \in last /\ \A j \in last : at <= j
    BY <1>1, <2>1 DEF EndsVarint
  <2>3. e = at
    <3>1. \A j \in last : j \in Int
      OBVIOUS
    <3> HIDE DEF last
    <3>2. e \in last /\ \A j \in last : e <= j
      <4>1. \E i \in last : \A j \in last : i <= j
        BY ONLY <2>2
      <4> QED BY ONLY <4>1
    <3> HIDE DEF e
    <3> QED BY <2>2, <3>1, <3>2
  <2>4. n % 128 = n /\ n + 0 = n
    BY ONLY <1>0, <1>1
  <2>5. readRawVarint(at) = [ok |-> TRUE, val |-> (mem[at + 1] % 128) + 0, next |-> e + 1]
    <3>1. last # {}
      BY <2>2
    <3>2. readRawVarint(at) =
            [ok   |-> TRUE,
             val  |-> (mem[at + 1] % 128) + (IF e = at THEN 0 ELSE 128 * (mem[at + 2] % 128)),
             next |-> e + 1]
      BY <3>1 DEF readRawVarint
    <3> HIDE DEF e, last
    <3> QED BY <2>3, <3>2
  <2> HIDE DEF e, last
  <2>6. (mem[at + 1] % 128) + 0 = n /\ e + 1 = at + Len(VarintBytes(n))
    BY ONLY <2>1, <2>3, <2>4
  <2> DEFINE val == (mem[at + 1] % 128) + 0
             next == e + 1
  <2>7. readRawVarint(at) = [ok |-> TRUE, val |-> val, next |-> next]
    BY <2>5
  <2>8. val = n /\ next = at + Len(VarintBytes(n))
    BY <2>6
  <2> HIDE DEF val, next
  <2> QED BY ONLY <2>7, <2>8
<1>2. CASE ~(n < 128)
  <2>1. /\ Len(VarintBytes(n)) = 2
        /\ mem[at + 1] = 128 + (n % 128)
        /\ mem[at + 2] = n \div 128
    <3>1. /\ Len(VarintBytes(n)) = 2
          /\ VarintBytes(n)[1] = 128 + (n % 128)
          /\ VarintBytes(n)[2] = n \div 128
      BY ONLY <1>2, VarintBytesAre, n \in Short, Zenon
    <3>2. \A j \in 1..2 : mem[at + j] = VarintBytes(n)[j]
      BY <3>1 DEF Holds
    <3>3. mem[at + 1] = VarintBytes(n)[1] /\ mem[at + 2] = VarintBytes(n)[2]
      BY ONLY <3>2
    <3> QED BY ONLY <3>1, <3>3
  <2>2. /\ mem[at + 1] \in Nat /\ ~(mem[at + 1] < 128) /\ mem[at + 1] % 128 = n % 128
        /\ mem[at + 2] \in Nat /\ mem[at + 2] < 128 /\ mem[at + 2] % 128 = n \div 128
        /\ (n % 128) + 128 * (n \div 128) = n
    BY ONLY <1>0, <1>2, <2>1
  <2>3. at + 1 \in at..bufferLen /\ (at + 1) + 1 = at + 2
    BY <2>1
  <2>4. at + 1 \in last
    BY <2>2, <2>3 DEF EndsVarint
  <2>5. at \notin last
    BY <2>2 DEF EndsVarint
  <2>6. e = at + 1
    <3>1. \A j \in last : j \in Int /\ at <= j
      OBVIOUS
    <3> HIDE DEF last
    <3>2. \A j \in last : at + 1 <= j
      BY <2>5, <3>1
    <3>3. e \in last /\ \A j \in last : e <= j
      BY <2>4, <3>2
    <3> HIDE DEF e
    <3> QED BY <2>4, <3>1, <3>2, <3>3
  <2>7. readRawVarint(at) =
          [ok   |-> TRUE,
           val  |-> (mem[at + 1] % 128) + 128 * (mem[at + 2] % 128),
           next |-> e + 1]
    <3>1. last # {}
      BY <2>4
    <3>2. readRawVarint(at) =
            [ok   |-> TRUE,
             val  |-> (mem[at + 1] % 128) + (IF e = at THEN 0 ELSE 128 * (mem[at + 2] % 128)),
             next |-> e + 1]
      BY <3>1 DEF readRawVarint
    <3>3. e # at
      <4> HIDE DEF e
      <4> QED BY <2>6
    <3> HIDE DEF e, last
    <3> QED BY <3>2, <3>3
  <2> HIDE DEF e, last
  <2>8. (mem[at + 1] % 128) + 128 * (mem[at + 2] % 128) = n
    BY ONLY <2>2
  <2>9. e + 1 = at + Len(VarintBytes(n))
    BY <2>1, <2>6
  <2> DEFINE val == (mem[at + 1] % 128) + 128 * (mem[at + 2] % 128)
             next == e + 1
  <2>10. readRawVarint(at) = [ok |-> TRUE, val |-> val, next |-> next]
    BY <2>7
  <2>11. val = n /\ next = at + Len(VarintBytes(n))
    BY <2>8, <2>9
  <2> HIDE DEF val, next
  <2> QED BY ONLY <2>10, <2>11
<1> QED BY <1>1, <1>2

Word == {v \in Int : v < 65536}

\* Eight bytes, of which only the first is not zero when the value fits in one.
LEMMA WordBytesAre ==
  ASSUME NEW v \in Word
  PROVE  /\ Int64Bytes(v) \in Seq(Byte)
         /\ Len(Int64Bytes(v)) = 8
         /\ Int64Bytes(v) \in [1..8 -> Byte]
         /\ (\A i \in 2..8 : Int64Bytes(v)[i] = 0) <=> v \in 0..255
<1> DEFINE low == v % 65536
           front == <<low % 256, low \div 256>>
           back == [i \in 1..6 |-> IF v < 0 THEN 255 ELSE 0]
<1>0. /\ v \in Int /\ v < 65536
      /\ low \in Nat /\ low < 65536
      /\ v >= 0 => low = v
  <2>1. v \in Int /\ v < 65536
    BY ONLY v \in Word DEF Word
  <2>2. \A x \in Int : x % 65536 \in Nat /\ x % 65536 < 65536
    OBVIOUS
  <2>3. \A x \in Int : x >= 0 /\ x < 65536 => x % 65536 = x
    OBVIOUS
  <2> QED BY ONLY <2>1, <2>2, <2>3
<1>1. low % 256 \in Byte /\ low \div 256 \in Byte
  <2> HIDE DEF low
  <2> QED BY ONLY <1>0 DEF Byte
<1>2. front \in Seq(Byte) /\ Len(front) = 2 /\ front[2] = low \div 256
  <2> HIDE DEF low
  <2> QED BY ONLY <1>1
<1>3. back \in [1..6 -> Byte] /\ \A i \in 1..6 : back[i] = IF v < 0 THEN 255 ELSE 0
  BY DEF Byte
<1> HIDE DEF front, back
<1>4. back \in Seq(Byte) /\ Len(back) = 6
  <2> HIDE DEF low
  <2> QED BY ONLY <1>3
<1>5. Int64Bytes(v) = front \o back
  BY DEF Int64Bytes, front, back
<1>6. Int64Bytes(v) \in Seq(Byte) /\ Joins(Int64Bytes(v), front, back)
  <2>1. front \in Seq(Byte) /\ back \in Seq(Byte)
    BY <1>2, <1>4
  <2>2. front \o back \in Seq(Byte) /\ Joins(front \o back, front, back)
    BY ONLY <2>1, ConcatIs, Zenon
  <2> QED BY ONLY <1>5, <2>2, Zenon
<1>7. /\ Len(Int64Bytes(v)) = 8
      /\ Int64Bytes(v)[2] = low \div 256
      /\ \A j \in 1..6 : Int64Bytes(v)[2 + j] = IF v < 0 THEN 255 ELSE 0
  <2> HIDE DEF low
  <2>1. /\ Len(Int64Bytes(v)) = 2 + 6
        /\ \A j \in 1..2 : Int64Bytes(v)[j] = front[j]
        /\ \A j \in 1..6 : Int64Bytes(v)[2 + j] = back[j]
    BY ONLY <1>2, <1>4, <1>6 DEF Joins
  <2> QED BY ONLY <1>2, <1>3, <2>1
<1>8. Int64Bytes(v) \in [1..8 -> Byte]
  <2> HIDE DEF low
  <2> QED BY ONLY <1>6, <1>7, LenProperties
<1>9. ASSUME v \in 0..255, NEW i \in 2..8 PROVE Int64Bytes(v)[i] = 0
  <2>1. low \div 256 = 0 /\ ~(v < 0)
    BY ONLY <1>0, <1>9
  <2>2. i = 2 \/ (i - 2 \in 1..6 /\ 2 + (i - 2) = i)
    OBVIOUS
  <2> HIDE DEF low
  <2> QED BY ONLY <1>7, <2>1, <2>2
<1>10. ASSUME \A i \in 2..8 : Int64Bytes(v)[i] = 0 PROVE v \in 0..255
  <2>1. 2 \in 2..8 /\ 3 \in 2..8 /\ 1 \in 1..6 /\ 2 + 1 = 3
    OBVIOUS
  <2>2. low \div 256 = 0 /\ (IF v < 0 THEN 255 ELSE 0) = 0
    <3> HIDE DEF low
    <3> QED BY ONLY <1>7, <1>10, <2>1
  <2>3. v >= 0
    BY ONLY <1>0, <2>2
  <2> QED BY ONLY <1>0, <2>2, <2>3
<1> QED BY ONLY <1>6, <1>7, <1>8, <1>9, <1>10

LEMMA WordRead ==
  ASSUME NEW at \in Nat, NEW v \in Word, Holds(at, Int64Bytes(v))
  PROVE  read_amino_64bits(at) = [val |-> Int64Bytes(v), next |-> at + 8]
<1>1. Int64Bytes(v) \in [1..8 -> Byte] /\ Len(Int64Bytes(v)) = 8
  BY ONLY WordBytesAre, v \in Word
<1>2. \A i \in 1..8 : mem[at + i] = Int64Bytes(v)[i]
  BY ONLY <1>1, Holds(at, Int64Bytes(v)) DEF Holds
<1>3. Int64Bytes(v) = [i \in 1..8 |-> Int64Bytes(v)[i]]
  BY ONLY <1>1
<1>4. [i \in 1..8 |-> mem[at + i]] = Int64Bytes(v)
  BY ONLY <1>2, <1>3
<1> QED BY <1>4 DEF read_amino_64bits

-----------------------------------------------------------------------------
(* One field.                                                              *)

Encodable(f) ==
  /\ f.num \in Nat /\ f.num < 2048
  /\ f.wire \in 0..7
  /\ f.val \in Word
  /\ f.wire = WIRE_VARINT => f.val \in Short

KeyOf(f) == 8 * f.num + f.wire

ValueBytes(f) ==
  CASE f.wire = WIRE_VARINT -> VarintBytes(f.val)
    [] f.wire = WIRE_64BIT  -> Int64Bytes(f.val)
    [] OTHER                -> <<0>>

LEMMA KeyIs ==
  ASSUME NEW f, Encodable(f)
  PROVE  /\ KeyOf(f) \in Short
         /\ (KeyOf(f) \div 8) % 256 = FIELD_NUM(f)
         /\ KeyOf(f) % 8 = f.wire
         /\ FIELD_NUM(f) \in Nat
<1>1. f.num \in Nat /\ f.num < 2048 /\ f.wire \in 0..7
  BY DEF Encodable
<1> DEFINE n == f.num
           w == f.wire
<1>2. n \in Nat /\ n < 2048 /\ w \in 0..7
  BY <1>1
<1> HIDE DEF n, w
<1>3. /\ 8 * n + w \in Nat /\ 8 * n + w < 16384
      /\ (8 * n + w) \div 8 = n
      /\ (8 * n + w) % 8 = w
      /\ n % 256 \in Nat
  BY ONLY <1>2
<1>4. KeyOf(f) = 8 * n + w /\ FIELD_NUM(f) = n % 256 /\ f.wire = w
  BY DEF KeyOf, FIELD_NUM, n, w
<1> QED BY ONLY <1>3, <1>4 DEF Short

LEMMA FieldBytesAre ==
  ASSUME NEW f, Encodable(f)
  PROVE  /\ FieldBytes(f) = VarintBytes(KeyOf(f)) \o ValueBytes(f)
         /\ VarintBytes(KeyOf(f)) \in Seq(Byte)
         /\ ValueBytes(f) \in Seq(Byte)
         /\ FieldBytes(f) \in Seq(Byte)
         /\ Len(FieldBytes(f)) = Len(VarintBytes(KeyOf(f))) + Len(ValueBytes(f))
         /\ Len(VarintBytes(KeyOf(f))) >= 1
<1>1. FieldBytes(f) = VarintBytes(KeyOf(f)) \o ValueBytes(f)
  BY DEF FieldBytes, KeyOf, ValueBytes
<1>2. KeyOf(f) \in Short
  BY KeyIs
<1>3. VarintBytes(KeyOf(f)) \in Seq(Byte) /\ Len(VarintBytes(KeyOf(f))) >= 1
  <2>1. \A n \in Short : VarintBytes(n) \in Seq(Byte) /\ Len(VarintBytes(n)) >= 1
    <3>1. TAKE n \in Short
    <3>2. VarintBytes(n) \in Seq(Byte) /\ (Len(VarintBytes(n)) = 1 \/ Len(VarintBytes(n)) = 2)
      BY VarintBytesAre
    <3>3. \A x : x = 1 \/ x = 2 => x >= 1
      OBVIOUS
    <3> QED BY ONLY <3>2, <3>3, Zenon
  <2> QED BY ONLY <1>2, <2>1
<1>4. ValueBytes(f) \in Seq(Byte)
  <2>1. f.wire = WIRE_VARINT => VarintBytes(f.val) \in Seq(Byte)
    BY VarintBytesAre DEF Encodable
  <2>2. Int64Bytes(f.val) \in Seq(Byte)
    BY WordBytesAre DEF Encodable
  <2>3. <<0>> \in Seq(Byte)
    BY DEF Byte
  <2> QED BY ONLY <2>1, <2>2, <2>3 DEF ValueBytes
<1>5. FieldBytes(f) \in Seq(Byte) /\ Joins(FieldBytes(f), VarintBytes(KeyOf(f)), ValueBytes(f))
  BY ONLY <1>1, <1>3, <1>4, ConcatIs, Zenon
<1> QED BY ONLY <1>1, <1>3, <1>4, <1>5 DEF Joins

\* The loop reads the key of the field at its position.
LEMMA KeyRead ==
  ASSUME RInv, NEW f, Encodable(f), Holds(offset, FieldBytes(f)),
         offset + Len(FieldBytes(f)) <= bufferLen
  PROVE  /\ Key.ok /\ FieldNum = FIELD_NUM(f) /\ WireType = f.wire
         /\ Key.next \in Nat
         /\ Holds(Key.next, ValueBytes(f))
         /\ Key.next + Len(ValueBytes(f)) = offset + Len(FieldBytes(f))
         /\ offset < bufferLen
<1> DEFINE k == VarintBytes(KeyOf(f))
<1>1. offset \in Nat /\ bufferLen \in Nat
  BY DEF RInv, ReaderTypeOK
<1>2. /\ FieldBytes(f) = k \o ValueBytes(f)
      /\ k \in Seq(Byte) /\ ValueBytes(f) \in Seq(Byte)
      /\ Len(FieldBytes(f)) = Len(k) + Len(ValueBytes(f))
      /\ Len(k) >= 1 /\ Len(k) \in Nat /\ Len(ValueBytes(f)) \in Nat
  BY FieldBytesAre, LenProperties
<1>3. Holds(offset, k) /\ Holds(offset + Len(k), ValueBytes(f))
  <2>1. Holds(offset, k \o ValueBytes(f))
    BY <1>2
  <2>2. k \in Seq(Byte) /\ ValueBytes(f) \in Seq(Byte) /\ offset \in Nat
    BY <1>1, <1>2
  <2> HIDE DEF k
  <2> QED BY ONLY <2>1, <2>2, HoldsParts, Zenon
<1>4. offset + Len(k) <= bufferLen /\ offset < bufferLen
      /\ (offset + Len(k)) + Len(ValueBytes(f)) = offset + Len(FieldBytes(f))
      /\ offset + Len(k) \in Nat
  <2>1. offset + Len(FieldBytes(f)) <= bufferLen
    OBVIOUS
  <2> HIDE DEF k
  <2> QED BY ONLY <1>1, <1>2, <2>1
<1>5. Key = [ok |-> TRUE, val |-> KeyOf(f), next |-> offset + Len(k)]
  <2>1. KeyOf(f) \in Short
    BY KeyIs
  <2>2. readRawVarint(offset) = [ok |-> TRUE, val |-> KeyOf(f), next |-> offset + Len(k)]
    BY ONLY <1>1, <1>3, <1>4, <2>1, VarintRead
  <2> QED BY <2>2 DEF Key
<1> HIDE DEF k
<1>6. Key.ok /\ Key.val = KeyOf(f) /\ Key.next = offset + Len(k)
  BY ONLY <1>5
<1> QED BY <1>3, <1>4, <1>6, KeyIs DEF FieldNum, WireType

\* What AminoVote has read so far: a vote, and whether it goes on.
ReadVotes == [Type : Int, Height : Int, Round : Int]

Readings == [vote : ReadVotes, status : {"more", "error", "stop"}]

LEMMA ByteVoteIs ==
  ASSUME NEW v \in ReadVotes, NEW x \in Int
  PROVE  /\ [v EXCEPT !.Type = x] \in ReadVotes
         /\ ByteVote([v EXCEPT !.Type = x]) = [ByteVote(v) EXCEPT !.Type = x]
         /\ [v EXCEPT !.Height = x] \in ReadVotes
         /\ ByteVote([v EXCEPT !.Height = x]) = [ByteVote(v) EXCEPT !.Height = Int64Bytes(x)]
         /\ [v EXCEPT !.Round = x] \in ReadVotes
         /\ ByteVote([v EXCEPT !.Round = x]) = [ByteVote(v) EXCEPT !.Round = Int64Bytes(x)]
BY DEF ReadVotes, ByteVote

\* The type a field carries.
TypeOf(f) == f.val % 256

\* Consume, by cases.
LEMMA ConsumeIs ==
  ASSUME NEW acc \in Readings, acc.status = "more", NEW f, Encodable(f)
  PROVE  LET r == Consume(acc, f)
             n == FIELD_NUM(f) IN
         /\ r \in Readings
         /\ n = 1 /\ f.wire = 0 => r = [acc EXCEPT !.vote = [acc.vote EXCEPT !.Type = TypeOf(f)]]
         /\ n = 2 /\ f.wire = 1 => r = [acc EXCEPT !.vote = [acc.vote EXCEPT !.Height = f.val]]
         /\ n = 3 /\ f.wire = 1 =>
              /\ r.vote = [acc.vote EXCEPT !.Round = f.val]
              /\ r.status = IF f.val \in 0..255 THEN "more" ELSE "error"
         /\ n > 3 => r.status = "stop" /\ r.vote = acc.vote
         /\ \/ n = 0
            \/ n = 1 /\ f.wire # 0
            \/ n \in {2, 3} /\ f.wire # 1
            => r.status = "error"
<1> DEFINE n == FIELD_NUM(f)
           r == Consume(acc, f)
<1>0. n \in Nat /\ acc.vote \in ReadVotes /\ f.val \in Int
  BY KeyIs DEF Readings, Encodable, Word
<1>1. r = CASE n = 0 -> [acc EXCEPT !.status = "error"]
            [] n = 1 -> IF f.wire = 0 THEN [acc EXCEPT !.vote.Type = TypeOf(f)]
                        ELSE [acc EXCEPT !.status = "error"]
            [] n = 2 -> IF f.wire = 1 THEN [acc EXCEPT !.vote.Height = f.val]
                        ELSE [acc EXCEPT !.status = "error"]
            [] n = 3 -> IF f.wire = 1
                        THEN [vote |-> [acc.vote EXCEPT !.Round = f.val],
                              status |-> IF f.val \in 0..255 THEN "more" ELSE "error"]
                        ELSE [acc EXCEPT !.status = "error"]
            [] OTHER -> [acc EXCEPT !.status = "stop"]
  BY DEF TypeOf, Consume, FIELD_ZERO, FIELD_TYPE, FIELD_HEIGHT, FIELD_ROUND, WIRE_VARINT, WIRE_64BIT
<1> HIDE DEF n, r
<1>2. \A s \in {"error", "stop"} :
        LET a == [acc EXCEPT !.status = s]
        IN a \in Readings /\ a.status = s /\ a.vote = acc.vote
  BY DEF Readings
<1>3. \A v \in ReadVotes : [acc EXCEPT !.vote = v] \in Readings
  BY DEF Readings
<1>4. \A v \in ReadVotes : \A s \in {"more", "error"} : [vote |-> v, status |-> s] \in Readings
  BY DEF Readings
<1>5. /\ [acc.vote EXCEPT !.Type = TypeOf(f)] \in ReadVotes
      /\ [acc.vote EXCEPT !.Height = f.val] \in ReadVotes
      /\ [acc.vote EXCEPT !.Round = f.val] \in ReadVotes
  <2>1. TypeOf(f) \in Int
    BY <1>0 DEF TypeOf
  <2> QED BY <1>0, <2>1, ByteVoteIs
<1>6. CASE n = 0 \/ (n = 1 /\ f.wire # 0) \/ (n \in {2, 3} /\ f.wire # 1)
  <2>1. r = [acc EXCEPT !.status = "error"]
    BY ONLY <1>1, <1>6
  <2> QED BY ONLY <1>0, <1>2, <1>6, <2>1 DEF n, r
<1>7. CASE n = 1 /\ f.wire = 0
  <2>1. r = [acc EXCEPT !.vote = [acc.vote EXCEPT !.Type = TypeOf(f)]]
    BY ONLY <1>1, <1>7
  <2> QED BY ONLY <1>3, <1>5, <1>7, <2>1 DEF n, r
<1>8. CASE n = 2 /\ f.wire = 1
  <2>1. r = [acc EXCEPT !.vote = [acc.vote EXCEPT !.Height = f.val]]
    BY ONLY <1>1, <1>8
  <2> QED BY ONLY <1>3, <1>5, <1>8, <2>1 DEF n, r
<1>9. CASE n = 3 /\ f.wire = 1
  <2>1. r = [vote |-> [acc.vote EXCEPT !.Round = f.val],
             status |-> IF f.val \in 0..255 THEN "more" ELSE "error"]
    BY ONLY <1>1, <1>9
  <2> DEFINE goes == IF f.val \in 0..255 THEN "more" ELSE "error"
             vote == [acc.vote EXCEPT !.Round = f.val]
  <2>2. goes \in {"more", "error"} /\ vote \in ReadVotes
    BY <1>5
  <2>3. r = [vote |-> vote, status |-> goes]
    BY ONLY <2>1
  <2>4. r \in Readings /\ r.vote = vote /\ r.status = goes
    <3> HIDE DEF goes, vote
    <3> QED BY ONLY <1>4, <2>2, <2>3
  <2>5. n # 0 /\ n # 1 /\ n # 2 /\ ~(n > 3)
    BY ONLY <1>9
  <2> HIDE DEF goes, vote
  <2>6. /\ r \in Readings /\ r.vote = vote /\ r.status = goes
        /\ n = 3 /\ f.wire = 1 /\ n # 0 /\ n # 1 /\ n # 2 /\ ~(n > 3)
    BY ONLY <1>9, <2>4, <2>5
  <2> QED BY ONLY <2>6, Zenon DEF n, r, goes, vote
<1>10. CASE n > 3
  <2>1. n # 0 /\ n # 1 /\ n # 2 /\ n # 3
    BY ONLY <1>0, <1>10
  <2>2. r = [acc EXCEPT !.status = "stop"]
    BY ONLY <1>1, <2>1
  <2> QED BY ONLY <1>2, <1>10, <2>1, <2>2 DEF n, r
<1>11. n = 0 \/ n = 1 \/ n = 2 \/ n = 3 \/ n > 3
  BY ONLY <1>0
<1> QED BY ONLY <1>6, <1>7, <1>8, <1>9, <1>10, <1>11 DEF n, r

\* The loop stands at a field, and has read so far what AminoVote has.
AtField(acc, f) ==
  /\ RInv
  /\ status = "more"
  /\ Encodable(f)
  /\ Holds(offset, FieldBytes(f))
  /\ offset + Len(FieldBytes(f)) <= bufferLen
  /\ acc \in Readings
  /\ acc.status = "more"
  /\ voteTx = ByteVote(acc.vote)

\* A turn does with the field what Consume does.
Reads(acc, f) ==
  LET r == Consume(acc, f) IN
  /\ status' = "more" => /\ r.status = "more"
                         /\ offset' = offset + Len(FieldBytes(f))
                         /\ voteTx' = ByteVote(r.vote)
  /\ status' = "ok" => r.status = "stop" /\ voteTx' = ByteVote(r.vote)
  /\ status' \notin {"more", "ok"} => r.status = "error"

LEMMA AtFieldKey ==
  ASSUME NEW acc, NEW f, AtField(acc, f)
  PROVE  /\ Key.ok /\ FieldNum = FIELD_NUM(f) /\ WireType = f.wire
         /\ Key.next \in Nat
         /\ Holds(Key.next, ValueBytes(f))
         /\ Key.next + Len(ValueBytes(f)) = offset + Len(FieldBytes(f))
         /\ offset < bufferLen
BY KeyRead DEF AtField

\* Moving on with the vote that Consume has read.
LEMMA ContinueReads ==
  ASSUME NEW acc, NEW f, NEW next, NEW v, NEW expect,
         status = "more", Continue(next, v, expect),
         next = offset + Len(FieldBytes(f)),
         Consume(acc, f).status = "more",
         v = ByteVote(Consume(acc, f).vote)
  PROVE  Reads(acc, f)
BY DEF Reads, Continue

LEMMA StopReads ==
  ASSUME NEW acc, NEW f, NEW code, code \notin {"more", "ok"}, Stop(code),
         Consume(acc, f).status = "error"
  PROVE  Reads(acc, f)
BY DEF Reads, Stop

LEMMA TypeReads ==
  ASSUME NEW acc, NEW f, AtField(acc, f), ReadType
  PROVE  Reads(acc, f)
<1> DEFINE r == Consume(acc, f)
<1>1. FIELD_NUM(f) = 1 /\ f.wire = 0
  BY AtFieldKey DEF ReadType, Known, FIELD_TYPE, WIRE_VARINT
<1>2. /\ acc \in Readings /\ acc.status = "more" /\ acc.vote \in ReadVotes
      /\ Encodable(f) /\ f.val \in Short /\ f.val \in Nat
  BY <1>1 DEF AtField, Readings, Encodable, WIRE_VARINT, Short
<1>3. r = [acc EXCEPT !.vote = [acc.vote EXCEPT !.Type = TypeOf(f)]]
  BY ONLY <1>1, <1>2, ConsumeIs, Zenon
<1>4. r.status = "more" /\ r.vote = [acc.vote EXCEPT !.Type = TypeOf(f)]
  <2> HIDE DEF r
  <2> QED BY ONLY <1>2, <1>3 DEF Readings
<1>5. readRawVarint(Key.next)
        = [ok |-> TRUE, val |-> f.val, next |-> offset + Len(FieldBytes(f))]
  <2>1. ValueBytes(f) = VarintBytes(f.val)
    BY ONLY <1>1 DEF ValueBytes, WIRE_VARINT, WIRE_64BIT
  <2>2. /\ bufferLen \in Nat /\ Key.next \in Nat
        /\ Holds(Key.next, VarintBytes(f.val))
        /\ Key.next + Len(VarintBytes(f.val)) = offset + Len(FieldBytes(f))
        /\ Key.next + Len(VarintBytes(f.val)) <= bufferLen
    BY <2>1, AtFieldKey DEF AtField, RInv, ReaderTypeOK
  <2>3. readRawVarint(Key.next)
          = [ok |-> TRUE, val |-> f.val, next |-> Key.next + Len(VarintBytes(f.val))]
    BY ONLY <1>2, <2>2, VarintRead
  <2> QED BY ONLY <2>2, <2>3
<1>6. Continue(offset + Len(FieldBytes(f)), [voteTx EXCEPT !.Type = TypeOf(f)], FIELD_HEIGHT)
  <2> DEFINE t == readRawVarint(Key.next)
  <2>1. IF t.ok
        THEN Continue(t.next, [voteTx EXCEPT !.Type = t.val % 256], FIELD_HEIGHT)
        ELSE Stop("unexpected_buffer_end")
    BY DEF ReadType
  <2>2. t.ok /\ t.val = f.val /\ t.next = offset + Len(FieldBytes(f))
    BY <1>5
  <2> HIDE DEF t
  <2> QED BY ONLY <2>1, <2>2 DEF TypeOf
<1>7. [voteTx EXCEPT !.Type = TypeOf(f)] = ByteVote(r.vote)
  <2>1. TypeOf(f) \in Int /\ voteTx = ByteVote(acc.vote)
    BY <1>2 DEF AtField, TypeOf
  <2>2. ByteVote([acc.vote EXCEPT !.Type = TypeOf(f)])
          = [ByteVote(acc.vote) EXCEPT !.Type = TypeOf(f)]
    BY ONLY <1>2, <2>1, ByteVoteIs
  <2> HIDE DEF r
  <2> QED BY ONLY <1>4, <2>1, <2>2
<1>8. status = "more"
  BY DEF AtField
<1> QED BY ONLY <1>4, <1>6, <1>7, <1>8, ContinueReads

LEMMA WordField ==
  ASSUME NEW acc, NEW f, AtField(acc, f), f.wire = 1
  PROVE  /\ f.val \in Word /\ f.val \in Int
         /\ read_amino_64bits(Key.next)
              = [val |-> Int64Bytes(f.val), next |-> offset + Len(FieldBytes(f))]
<1>1. f.val \in Word /\ f.val \in Int
  BY DEF AtField, Encodable, Word
<1>2. ValueBytes(f) = Int64Bytes(f.val)
  BY DEF ValueBytes, WIRE_VARINT, WIRE_64BIT
<1>3. /\ Key.next \in Nat /\ Holds(Key.next, Int64Bytes(f.val))
      /\ Key.next + Len(Int64Bytes(f.val)) = offset + Len(FieldBytes(f))
  BY <1>2, AtFieldKey
<1>4. Len(Int64Bytes(f.val)) = 8
  BY ONLY <1>1, WordBytesAre, Zenon
<1>5. read_amino_64bits(Key.next) = [val |-> Int64Bytes(f.val), next |-> Key.next + 8]
  BY ONLY <1>1, <1>3, WordRead, Zenon
<1> QED BY ONLY <1>1, <1>3, <1>4, <1>5

LEMMA HeightReads ==
  ASSUME NEW acc, NEW f, AtField(acc, f), ReadHeight
  PROVE  Reads(acc, f)
<1> DEFINE r == Consume(acc, f)
<1>1. FIELD_NUM(f) = 2 /\ f.wire = 1
  BY AtFieldKey DEF ReadHeight, Known, FIELD_HEIGHT, WIRE_64BIT
<1>2. acc \in Readings /\ acc.status = "more" /\ acc.vote \in ReadVotes /\ Encodable(f)
  BY DEF AtField, Readings
<1>3. r = [acc EXCEPT !.vote = [acc.vote EXCEPT !.Height = f.val]]
  BY ONLY <1>1, <1>2, ConsumeIs, Zenon
<1>4. r.status = "more" /\ r.vote = [acc.vote EXCEPT !.Height = f.val]
  <2> HIDE DEF r
  <2> QED BY ONLY <1>2, <1>3 DEF Readings
<1>5. /\ f.val \in Int
      /\ read_amino_64bits(Key.next)
           = [val |-> Int64Bytes(f.val), next |-> offset + Len(FieldBytes(f))]
  BY <1>1, WordField
<1>6. Continue(offset + Len(FieldBytes(f)), [voteTx EXCEPT !.Height = Int64Bytes(f.val)], FIELD_ROUND)
  <2> DEFINE h == read_amino_64bits(Key.next)
  <2>1. Continue(h.next, [voteTx EXCEPT !.Height = h.val], FIELD_ROUND)
    BY DEF ReadHeight
  <2>2. h.val = Int64Bytes(f.val) /\ h.next = offset + Len(FieldBytes(f))
    BY <1>5
  <2> HIDE DEF h
  <2> QED BY ONLY <2>1, <2>2
<1>7. [voteTx EXCEPT !.Height = Int64Bytes(f.val)] = ByteVote(r.vote)
  <2>1. voteTx = ByteVote(acc.vote)
    BY DEF AtField
  <2>2. ByteVote([acc.vote EXCEPT !.Height = f.val])
          = [ByteVote(acc.vote) EXCEPT !.Height = Int64Bytes(f.val)]
    BY ONLY <1>2, <1>5, ByteVoteIs
  <2> HIDE DEF r
  <2> QED BY ONLY <1>4, <2>1, <2>2
<1>8. status = "more"
  BY DEF AtField
<1> QED BY ONLY <1>4, <1>6, <1>7, <1>8, ContinueReads

LEMMA RoundReads ==
  ASSUME NEW acc, NEW f, AtField(acc, f), ReadRound
  PROVE  Reads(acc, f)
<1> DEFINE r == Consume(acc, f)
           small == \A i \in 2..8 : Int64Bytes(f.val)[i] = 0
<1>1. FIELD_NUM(f) = 3 /\ f.wire = 1
  BY AtFieldKey DEF ReadRound, Known, FIELD_ROUND, WIRE_64BIT
<1>2. acc \in Readings /\ acc.status = "more" /\ acc.vote \in ReadVotes /\ Encodable(f)
  BY DEF AtField, Readings
<1>3. /\ r.vote = [acc.vote EXCEPT !.Round = f.val]
      /\ r.status = IF f.val \in 0..255 THEN "more" ELSE "error"
  BY ONLY <1>1, <1>2, ConsumeIs, Zenon
<1>4. /\ f.val \in Word /\ f.val \in Int
      /\ read_amino_64bits(Key.next)
           = [val |-> Int64Bytes(f.val), next |-> offset + Len(FieldBytes(f))]
  BY <1>1, WordField
<1>5. small <=> f.val \in 0..255
  BY ONLY <1>4, WordBytesAre, Zenon
<1> HIDE DEF small
<1>6. r.status = IF small THEN "more" ELSE "error"
  <2> HIDE DEF r
  <2> QED BY ONLY <1>3, <1>5, Zenon
<1>7. IF small
      THEN Continue(offset + Len(FieldBytes(f)), [voteTx EXCEPT !.Round = Int64Bytes(f.val)],
                    FIELD_ROUND + 1)
      ELSE Stop("unexpected_round_value")
  <2> DEFINE w == read_amino_64bits(Key.next)
  <2>1. IF \A i \in 2..8 : w.val[i] = 0
        THEN Continue(w.next, [voteTx EXCEPT !.Round = w.val], FIELD_ROUND + 1)
        ELSE Stop("unexpected_round_value")
    BY DEF ReadRound
  <2>2. w.val = Int64Bytes(f.val) /\ w.next = offset + Len(FieldBytes(f))
    BY <1>4
  <2> HIDE DEF w
  <2> QED BY ONLY <2>1, <2>2 DEF small
<1>8. [voteTx EXCEPT !.Round = Int64Bytes(f.val)] = ByteVote(r.vote)
  <2>1. voteTx = ByteVote(acc.vote)
    BY DEF AtField
  <2>2. ByteVote([acc.vote EXCEPT !.Round = f.val])
          = [ByteVote(acc.vote) EXCEPT !.Round = Int64Bytes(f.val)]
    BY ONLY <1>2, <1>4, ByteVoteIs
  <2> HIDE DEF r
  <2> QED BY ONLY <1>3, <2>1, <2>2
<1>9. status = "more"
  BY DEF AtField
<1>10. CASE small
  BY ONLY <1>6, <1>7, <1>8, <1>9, <1>10, ContinueReads
<1>11. CASE ~small
  <2>1. Stop("unexpected_round_value") /\ r.status = "error"
    BY ONLY <1>6, <1>7, <1>11
  <2>2. "unexpected_round_value" \notin {"more", "ok"}
    OBVIOUS
  <2> QED BY ONLY <2>1, <2>2, StopReads
<1> QED BY <1>10, <1>11

LEMMA BadReads ==
  ASSUME NEW acc, NEW f, AtField(acc, f), ReadBad
  PROVE  Reads(acc, f)
<1>1. acc \in Readings /\ acc.status = "more" /\ Encodable(f)
  BY DEF AtField
<1>2. /\ \/ FIELD_NUM(f) = 0
         \/ FIELD_NUM(f) = 1 /\ f.wire # 0
         \/ FIELD_NUM(f) \in {2, 3} /\ f.wire # 1
      /\ \E code \in {"unexpected_field", "unexpected_wire_type"} : Stop(code)
  BY AtFieldKey DEF ReadBad, FIELD_ZERO, FIELD_TYPE, FIELD_HEIGHT, FIELD_ROUND,
                    WIRE_VARINT, WIRE_64BIT
<1>3. Consume(acc, f).status = "error"
  BY ONLY <1>1, <1>2, ConsumeIs, Zenon
<1>4. PICK code \in {"unexpected_field", "unexpected_wire_type"} : Stop(code)
  BY ONLY <1>2
<1>5. code \notin {"more", "ok"}
  OBVIOUS
<1> QED BY ONLY <1>3, <1>4, <1>5, StopReads

LEMMA OtherReads ==
  ASSUME NEW acc, NEW f, AtField(acc, f), ReadOther
  PROVE  Reads(acc, f)
<1>1. acc \in Readings /\ acc.status = "more" /\ Encodable(f) /\ voteTx = ByteVote(acc.vote)
  BY DEF AtField
<1>2. FIELD_NUM(f) > 3 /\ status' = "ok" /\ voteTx' = voteTx
  BY AtFieldKey DEF ReadOther, FIELD_ROUND
<1>3. Consume(acc, f).status = "stop" /\ Consume(acc, f).vote = acc.vote
  BY ONLY <1>1, <1>2, ConsumeIs, Zenon
<1> QED BY ONLY <1>1, <1>2, <1>3 DEF Reads

LEMMA TurnReads ==
  ASSUME NEW acc, NEW f, AtField(acc, f), ReaderNext
  PROVE  Reads(acc, f)
<1>1. ~AtEnd
  <2>1. offset < bufferLen /\ offset \in Nat /\ bufferLen \in Nat
    BY AtFieldKey DEF AtField, RInv, ReaderTypeOK
  <2> QED BY <2>1 DEF AtEnd
<1> QED BY <1>1, TypeReads, HeightReads, RoundReads, BadReads, OtherReads DEF ReaderNext

-----------------------------------------------------------------------------
(* Where the fields of a message lie.                                      *)

BytesOf(m) == [i \in DOMAIN m |-> FieldBytes(m[i])]

\* The position behind the first k fields.
Pos(m, k) == Len(WrittenOf(BytesOf(m))[k])

LEMMA FieldsAre ==
  ASSUME NEW m \in Message
  PROVE  /\ Len(m) \in Nat /\ DOMAIN m = 1..Len(m)
         /\ \A i \in 1..Len(m) : Encodable(m[i])
<1> DEFINE F == [ctx : {"-"}, num : Nat, wire : 0..7, val : Int]
<1>1. /\ m \in Seq(F)
      /\ \A i \in 1..Len(m) :
           /\ m[i].num < 2048
           /\ m[i].val < 65536
           /\ m[i].wire = WIRE_VARINT => 0 <= m[i].val /\ m[i].val < 16384
  BY ONLY FieldAssumption, m \in Message
<1>2. ASSUME NEW i \in 1..Len(m) PROVE Encodable(m[i])
  <2>1. m[i] \in F
    <3>1. m \in Seq(F)
      BY ONLY <1>1
    <3> HIDE DEF F
    <3> QED BY ONLY <3>1, i \in 1..Len(m), ElementOfSeq
  <2>2. m[i].num \in Nat /\ m[i].wire \in 0..7 /\ m[i].val \in Int
    BY ONLY <2>1
  <2> DEFINE v == m[i].val
  <2>3. v \in Int /\ v < 65536 /\ (m[i].wire = WIRE_VARINT => 0 <= v /\ v < 16384)
    BY ONLY <1>1, <2>2, i \in 1..Len(m)
  <2>4. v \in Word /\ (m[i].wire = WIRE_VARINT => v \in Short)
    <3> HIDE DEF v
    <3> QED BY ONLY <2>3 DEF Word, Short
  <2>5. m[i].num < 2048
    BY ONLY <1>1, i \in 1..Len(m)
  <2> QED BY ONLY <2>2, <2>4, <2>5 DEF Encodable
<1>3. Len(m) \in Nat /\ DOMAIN m = 1..Len(m)
  <2> HIDE DEF F
  <2> QED BY ONLY <1>1, LenProperties
<1> QED BY ONLY <1>2, <1>3

LEMMA BytesOfAre ==
  ASSUME NEW m \in Message
  PROVE  /\ BytesOf(m) \in Seq(Seq(Byte))
         /\ Len(BytesOf(m)) = Len(m)
         /\ \A i \in 1..Len(m) : BytesOf(m)[i] = FieldBytes(m[i])
         /\ MessageBytes(m) = FlattenSeq(BytesOf(m))
<1> DEFINE b == [i \in 1..Len(m) |-> FieldBytes(m[i])]
           B == Seq(Byte)
<1>1. Len(m) \in Nat /\ DOMAIN m = 1..Len(m)
  BY FieldsAre
<1>2. \A i \in 1..Len(m) : FieldBytes(m[i]) \in B
  BY FieldsAre, FieldBytesAre
<1>3. BytesOf(m) = b
  BY <1>1 DEF BytesOf
<1>4. b \in Seq(B) /\ Len(b) = Len(m) /\ \A i \in 1..Len(m) : b[i] = FieldBytes(m[i])
  <2> HIDE DEF B
  <2> QED BY ONLY <1>1, <1>2
<1>5. MessageBytes(m) = FlattenSeq(BytesOf(m))
  BY DEF MessageBytes, BytesOf
<1> HIDE DEF b
<1> QED BY ONLY <1>3, <1>4, <1>5

\* Each field lies behind the ones before it.
LEMMA Positions ==
  ASSUME NEW m \in Message, Holds(0, MessageBytes(m))
  PROVE  /\ Pos(m, 0) = 0
         /\ Pos(m, Len(m)) = Len(MessageBytes(m))
         /\ \A k \in 1..Len(m) :
              /\ Pos(m, k) = Pos(m, k - 1) + Len(FieldBytes(m[k]))
              /\ Pos(m, k) <= Len(MessageBytes(m))
              /\ Holds(Pos(m, k - 1), FieldBytes(m[k]))
<1> DEFINE b == BytesOf(m)
           g == WrittenOf(b)
           all == FlattenSeq(b)
<1>1. /\ b \in Seq(Seq(Byte)) /\ Len(b) = Len(m) /\ Len(m) \in Nat
      /\ \A i \in 1..Len(m) : b[i] = FieldBytes(m[i]) /\ b[i] \in Seq(Byte)
      /\ MessageBytes(m) = all
  BY BytesOfAre, FieldsAre, FieldBytesAre
<1>2. /\ g \in [0..Len(m) -> Seq(Byte)]
      /\ g[0] = <<>>
      /\ \A k \in 1..Len(m) : g[k] = g[k - 1] \o b[k]
      /\ all = g[Len(m)]
  <2>1. IsWriting(b, g)
    BY <1>1, WritingExists
  <2> HIDE DEF g, b
  <2> QED BY ONLY <1>1, <2>1 DEF IsWriting, all
<1>3. \A k : Pos(m, k) = Len(g[k])
  BY DEF Pos
<1>4. \A k \in 0..Len(m) : /\ Len(g[k]) <= Len(all)
                           /\ \A j \in 1..Len(g[k]) : all[j] = g[k][j]
  <2>1. \A s \in Seq(Seq(Byte)) : \A k \in 0..Len(s) :
          /\ Len(WrittenOf(s)[k]) <= Len(FlattenSeq(s))
          /\ \A j \in 1..Len(WrittenOf(s)[k]) : FlattenSeq(s)[j] = WrittenOf(s)[k][j]
    BY WrittenBegins
  <2> HIDE DEF b
  <2> QED BY ONLY <1>1, <2>1 DEF g, all
<1>5. \A j \in 1..Len(all) : mem[0 + j] = all[j]
  BY <1>1 DEF Holds
<1>6. Len(all) \in Nat
  <2> HIDE DEF b, g
  <2>1. Len(m) \in 0..Len(m)
    BY ONLY <1>1
  <2> QED BY ONLY <1>2, <2>1, LenProperties
<1> HIDE DEF g, all, b
<1>7. ASSUME NEW k \in 1..Len(m)
      PROVE  /\ Len(g[k]) = Len(g[k - 1]) + Len(b[k])
             /\ Len(g[k]) <= Len(all)
             /\ Holds(Len(g[k - 1]), b[k])
  <2>1. k \in 0..Len(m) /\ k - 1 \in 0..Len(m)
    BY ONLY <1>1, k \in 1..Len(m)
  <2>2. g[k - 1] \in Seq(Byte) /\ g[k] \in Seq(Byte) /\ b[k] \in Seq(Byte)
    BY ONLY <1>1, <1>2, <2>1, k \in 1..Len(m)
  <2>3. g[k] = g[k - 1] \o b[k]
    BY ONLY <1>2, k \in 1..Len(m)
  <2>4. Joins(g[k - 1] \o b[k], g[k - 1], b[k])
    BY ONLY <2>2, ConcatIs, Zenon
  <2>5. Len(g[k]) = Len(g[k - 1]) + Len(b[k])
    BY ONLY <2>3, <2>4 DEF Joins
  <2>6. Len(g[k]) <= Len(all) /\ \A j \in 1..Len(g[k]) : all[j] = g[k][j]
    BY ONLY <1>4, <2>1
  <2>7. Len(g[k]) \in Nat /\ Len(g[k - 1]) \in Nat /\ Len(b[k]) \in Nat
    BY ONLY <2>2, LenProperties
  <2>8. ASSUME NEW j \in 1..Len(g[k]) PROVE mem[0 + j] = g[k][j]
    <3>1. j \in 1..Len(all)
      BY ONLY <1>6, <2>6, <2>7, j \in 1..Len(g[k])
    <3> QED BY ONLY <1>5, <2>6, <3>1, j \in 1..Len(g[k])
  <2>9. Holds(0, g[k - 1] \o b[k])
    BY ONLY <2>3, <2>8 DEF Holds
  <2>10. Holds(0 + Len(g[k - 1]), b[k])
    <3>1. 0 \in Nat
      OBVIOUS
    <3> QED BY ONLY <2>2, <2>9, <3>1, HoldsParts, Zenon
  <2>11. 0 + Len(g[k - 1]) = Len(g[k - 1])
    BY ONLY <2>7
  <2> QED BY ONLY <2>5, <2>6, <2>10, <2>11
<1>8. Len(g[0]) = 0
  BY ONLY <1>2
<1> QED BY ONLY <1>1, <1>2, <1>3, <1>7, <1>8

-----------------------------------------------------------------------------
(* What AminoVote reads of a message.                                      *)

LEMMA ReadingsAre ==
  ASSUME NEW m \in Message
  PROVE  \A k \in 0..Len(m) : ReadOf(m)[k] \in Readings
<1> DEFINE g == ReadOf(m)
           Read == {k \in 0..Len(m) : g[k] \in Readings}
<1>1. Len(m) \in Nat /\ \A i \in 1..Len(m) : Encodable(m[i])
  BY FieldsAre
<1>2. g[0] = Start /\ \A k \in 1..Len(m) : g[k] = Consume(g[k - 1], m[k])
  BY <1>1, ReadingExists DEF IsReading
<1>3. Start \in Readings
  BY DEF Start, NoVote, Readings, ReadVotes
<1> HIDE DEF g
<1>4. 0 \in Read
  BY <1>1, <1>2, <1>3
<1>5. ASSUME NEW k \in 0..Len(m), k + 1 \in 0..Len(m), k \in Read PROVE k + 1 \in Read
  <2>1. k + 1 \in 1..Len(m) /\ (k + 1) - 1 = k
    BY ONLY <1>1, <1>5, k \in 0..Len(m)
  <2>2. g[k + 1] = Consume(g[k], m[k + 1]) /\ Encodable(m[k + 1]) /\ g[k] \in Readings
    BY ONLY <1>1, <1>2, <1>5, <2>1
  <2>3. CASE g[k].status = "more"
    <3>1. Consume(g[k], m[k + 1]) \in Readings
      BY ONLY <2>2, <2>3, ConsumeIs, Zenon
    <3> QED BY <1>5, <2>2, <3>1
  <2>4. CASE g[k].status # "more"
    <3>1. Consume(g[k], m[k + 1]) = g[k]
      BY <2>4 DEF Consume
    <3> QED BY <1>5, <2>2, <3>1
  <2> QED BY <2>3, <2>4
<1>6. \A k \in 0..Len(m) : k \in Read
  <2> HIDE DEF Read
  <2>1. \A k \in 0..Len(m) : k + 1 \in 0..Len(m) /\ k \in Read => k + 1 \in Read
    BY ONLY <1>5
  <2> QED BY ONLY <1>1, <1>4, <2>1, UpTo
<1> QED BY <1>6 DEF g

\* A reading that has ended stays what it was.
LEMMA EndedStays ==
  ASSUME NEW m \in Message, NEW k \in 0..Len(m), ReadOf(m)[k].status # "more"
  PROVE  vote_amino_parse(m) = ReadOf(m)[k]
<1> DEFINE g == ReadOf(m)
           Same == {i \in 0..Len(m) : k <= i => g[i] = g[k]}
<1>1. Len(m) \in Nat
  BY FieldsAre
<1>2. /\ \A i \in 1..Len(m) : g[i] = Consume(g[i - 1], m[i])
      /\ vote_amino_parse(m) = g[Len(m)]
  BY <1>1, ReadingExists DEF IsReading
<1>3. g[k].status # "more"
  OBVIOUS
<1> HIDE DEF g
<1>4. 0 \in Same
  BY <1>1
<1>5. ASSUME NEW i \in 0..Len(m), i + 1 \in 0..Len(m), i \in Same PROVE i + 1 \in Same
  <2>1. CASE k <= i
    <3>1. i + 1 \in 1..Len(m) /\ (i + 1) - 1 = i
      BY ONLY <1>1, <1>5, i \in 0..Len(m)
    <3>2. g[i + 1] = Consume(g[i], m[i + 1]) /\ g[i] = g[k]
      BY ONLY <1>2, <1>5, <2>1, <3>1
    <3>3. Consume(g[i], m[i + 1]) = g[i]
      BY <1>3, <3>2 DEF Consume
    <3> QED BY ONLY <1>5, <3>2, <3>3
  <2>2. CASE k = i + 1
    BY <1>5, <2>2
  <2>3. CASE ~(k <= i + 1)
    BY <1>5, <2>3
  <2> QED BY <1>1, <2>1, <2>2, <2>3
<1>6. \A i \in 0..Len(m) : i \in Same
  <2> HIDE DEF Same
  <2>1. \A i \in 0..Len(m) : i + 1 \in 0..Len(m) /\ i \in Same => i + 1 \in Same
    BY ONLY <1>5
  <2> QED BY ONLY <1>1, <1>4, <2>1, UpTo
<1>7. Len(m) \in 0..Len(m) /\ k <= Len(m)
  BY ONLY <1>1, k \in 0..Len(m)
<1>8. g[Len(m)] = g[k]
  BY ONLY <1>6, <1>7
<1> QED BY ONLY <1>2, <1>8 DEF g

-----------------------------------------------------------------------------
(* The loop and AminoVote.                                                 *)

\* The loop has read the first k fields, as AminoVote reads them.
HasRead(k) ==
  LET r == ReadOf(message)[k] IN
  /\ offset = Pos(message, k)
  /\ r.status = "more"
  /\ voteTx = ByteVote(r.vote)

\* Over a whole message the loop is at the end of some first fields.
WInv ==
  bufferLen = Len(MessageBytes(message)) =>
    /\ Holds(0, MessageBytes(message))
    /\ status = "more" => \E k \in 0..Len(message) : HasRead(k)
    /\ ReadsItems

LEMMA InitHolds ==
  ASSUME ReaderInit, bufferLen = Len(MessageBytes(message))
  PROVE  Holds(0, MessageBytes(message))
<1> DEFINE bytes == MessageBytes(message)
<1>1. PICK old \in Previous :
        mem = SubSeq(bytes, 1, bufferLen) \o SubSeq(old, bufferLen + 1, Len(old))
  BY DEF ReaderInit
<1>2. /\ bytes \in Seq(Byte) /\ Len(bytes) \in Nat
      /\ old \in Seq(Byte) /\ Len(old) \in Nat /\ Len(old) >= Len(bytes) + 9
      /\ bufferLen = Len(bytes)
  BY ReaderAssumption DEF ReaderInit
<1> HIDE DEF bytes
<1> DEFINE front == SubSeq(bytes, 1, bufferLen)
           back  == SubSeq(old, bufferLen + 1, Len(old))
<1>3. /\ front \in Seq(Byte) /\ Len(front) = Len(bytes)
      /\ \A j \in 1..Len(bytes) : front[j] = bytes[j]
  <2>1. \A i \in 1..bufferLen : bytes[i] \in Byte
    BY <1>2, ElementOfSeq
  <2> QED BY <1>2, <2>1, SubSeqProperties
<1>4. back \in Seq(Byte)
  <2>1. \A i \in (bufferLen + 1)..Len(old) : old[i] \in Byte
    BY <1>2, ElementOfSeq
  <2> QED BY <1>2, <2>1, SubSeqProperties
<1> HIDE DEF front, back
<1>5. Joins(front \o back, front, back)
  BY ONLY <1>3, <1>4, ConcatIs, Zenon
<1>6. mem = front \o back
  BY <1>1 DEF front, back
<1>7. \A j \in 1..Len(bytes) : mem[j] = bytes[j]
  BY ONLY <1>3, <1>5, <1>6 DEF Joins
<1>8. \A j \in 1..Len(bytes) : 0 + j = j
  BY ONLY <1>2
<1> QED BY ONLY <1>7, <1>8 DEF Holds, bytes

LEMMA InitWInv == ReaderInit => WInv
<1> SUFFICES ASSUME ReaderInit, bufferLen = Len(MessageBytes(message))
             PROVE  /\ Holds(0, MessageBytes(message))
                    /\ status = "more" => \E k \in 0..Len(message) : HasRead(k)
                    /\ ReadsItems
  BY DEF WInv
<1>1. Holds(0, MessageBytes(message))
  BY InitHolds
<1>2. message \in Message /\ status = "more" /\ offset = 0 /\ voteTx = ByteVote(NoVote)
  BY DEF ReaderInit
<1>3. Len(message) \in Nat /\ 0 \in 0..Len(message)
  BY <1>2, FieldsAre
<1>4. ReadOf(message)[0] = Start
  BY <1>3, ReadingExists DEF IsReading
<1>5. HasRead(0)
  BY <1>1, <1>2, <1>4, Positions DEF HasRead, Start
<1> QED BY <1>1, <1>2, <1>3, <1>5 DEF ReadsItems

\* Behind the first k fields the loop is at the next, or at the end.
LEMMA EndReads ==
  ASSUME RInv, Holds(0, MessageBytes(message)), bufferLen = Len(MessageBytes(message)),
         NEW k \in 0..Len(message), HasRead(k), status = "more"
  PROVE  /\ k # Len(message) => AtField(ReadOf(message)[k], message[k + 1])
         /\ k = Len(message) => offset = bufferLen
<1>1. message \in Message /\ Len(message) \in Nat
  BY FieldsAre DEF RInv, ReaderTypeOK
<1>2. ASSUME k = Len(message) PROVE offset = bufferLen
  <2>1. Pos(message, Len(message)) = Len(MessageBytes(message))
    BY <1>1, Positions
  <2> QED BY <1>2, <2>1 DEF HasRead
<1>3. ASSUME k # Len(message) PROVE AtField(ReadOf(message)[k], message[k + 1])
  <2>1. k + 1 \in 1..Len(message) /\ (k + 1) - 1 = k
    BY ONLY <1>1, <1>3, k \in 0..Len(message)
  <2>2. \A i \in 1..Len(message) :
          /\ Pos(message, i) = Pos(message, i - 1) + Len(FieldBytes(message[i]))
          /\ Pos(message, i) <= Len(MessageBytes(message))
          /\ Holds(Pos(message, i - 1), FieldBytes(message[i]))
    BY <1>1, Positions
  <2>3. /\ Pos(message, k + 1) = offset + Len(FieldBytes(message[k + 1]))
        /\ Pos(message, k + 1) <= bufferLen
        /\ Holds(offset, FieldBytes(message[k + 1]))
    <3>1. offset = Pos(message, k) /\ bufferLen = Len(MessageBytes(message))
      BY DEF HasRead
    <3> QED BY ONLY <2>1, <2>2, <3>1
  <2>4. Encodable(message[k + 1])
    BY <1>1, <2>1, FieldsAre
  <2>5. ReadOf(message)[k] \in Readings
    BY <1>1, ReadingsAre
  <2>6. /\ ReadOf(message)[k].status = "more"
        /\ voteTx = ByteVote(ReadOf(message)[k].vote)
    BY DEF HasRead
  <2>7. offset + Len(FieldBytes(message[k + 1])) <= bufferLen
    BY ONLY <2>3
  <2> QED BY ONLY RInv, status = "more", <2>3, <2>4, <2>5, <2>6, <2>7 DEF AtField
<1> QED BY <1>2, <1>3

LEMMA TurnKeepsWInv ==
  ASSUME RInv, WInv, ReaderNext
  PROVE  WInv'
<1>1. /\ status = "more"
      /\ message' = message /\ mem' = mem /\ bufferLen' = bufferLen
  BY DEF ReaderNext, ReadType, ReadHeight, ReadRound, ReadBad, ReadOther, AtEnd, Known, Turn
<1> SUFFICES ASSUME bufferLen = Len(MessageBytes(message))
             PROVE  /\ Holds(0, MessageBytes(message))'
                    /\ status' = "more" => \E k \in 0..Len(message) : HasRead(k)'
                    /\ ReadsItems'
  BY <1>1 DEF WInv
<1>2. message \in Message /\ Len(message) \in Nat
  BY FieldsAre DEF RInv, ReaderTypeOK
<1>3. Holds(0, MessageBytes(message)) /\ Holds(0, MessageBytes(message))'
  BY <1>1 DEF WInv, Holds
<1>4. PICK k \in 0..Len(message) : HasRead(k)
  BY <1>1 DEF WInv
<1>5. /\ \A i \in 1..Len(message) : ReadOf(message)[i] = Consume(ReadOf(message)[i - 1], message[i])
      /\ vote_amino_parse(message) = ReadOf(message)[Len(message)]
  BY <1>2, ReadingExists DEF IsReading
<1>6. CASE k = Len(message)
  <2>1. offset = bufferLen /\ bufferLen \in Nat
    BY <1>1, <1>3, <1>4, <1>6, EndReads DEF RInv, ReaderTypeOK
  <2>2. ~Turn
    BY <2>1 DEF Turn
  <2>3. AtEnd
    BY <2>2 DEF ReaderNext, ReadType, ReadHeight, ReadRound, ReadBad, ReadOther, Known
  <2>4. status' = "ok" /\ voteTx' = voteTx
    BY <2>3 DEF AtEnd
  <2>5. /\ vote_amino_parse(message).status = "more"
        /\ voteTx = ByteVote(vote_amino_parse(message).vote)
    BY <1>4, <1>5, <1>6 DEF HasRead
  <2>6. ReadsItems'
    BY <1>1, <2>4, <2>5 DEF ReadsItems
  <2> QED BY <1>3, <2>4, <2>6
<1>7. CASE k # Len(message)
  <2> DEFINE r == ReadOf(message)[k + 1]
  <2>1. /\ k + 1 \in 1..Len(message) /\ k + 1 \in 0..Len(message) /\ (k + 1) - 1 = k
    BY ONLY <1>2, <1>7, k \in 0..Len(message)
  <2>2. Reads(ReadOf(message)[k], message[k + 1])
    BY <1>1, <1>3, <1>4, <1>7, EndReads, TurnReads
  <2>3. r = Consume(ReadOf(message)[k], message[k + 1])
    BY ONLY <1>5, <2>1
  <2>4. /\ status' = "more" => /\ r.status = "more"
                               /\ offset' = offset + Len(FieldBytes(message[k + 1]))
                               /\ voteTx' = ByteVote(r.vote)
        /\ status' = "ok" => r.status = "stop" /\ voteTx' = ByteVote(r.vote)
        /\ status' \notin {"more", "ok"} => r.status = "error"
    BY ONLY <2>2, <2>3 DEF Reads
  <2>5. ASSUME status' = "more" PROVE HasRead(k + 1)'
    <3>1. offset' = Pos(message, k + 1)
      <4>1. \A i \in 1..Len(message) :
              Pos(message, i) = Pos(message, i - 1) + Len(FieldBytes(message[i]))
        BY <1>2, <1>3, Positions
      <4>2. offset = Pos(message, k)
        BY <1>4 DEF HasRead
      <4> HIDE DEF r
      <4> QED BY ONLY <2>1, <2>4, <2>5, <4>1, <4>2
    <3> QED BY <1>1, <2>4, <2>5, <3>1 DEF HasRead
  <2>6. ASSUME status' # "more" PROVE ReadsItems'
    <3>1. r.status # "more"
      BY <2>4, <2>6
    <3>2. vote_amino_parse(message) = r
      BY <1>2, <2>1, <3>1, EndedStays
    <3> HIDE DEF r
    <3>3. /\ status' = "ok" <=> r.status # "error"
          /\ status' = "ok" => voteTx' = ByteVote(r.vote)
      BY <2>4, <2>6
    <3> QED BY <1>1, <3>2, <3>3 DEF ReadsItems
  <2>7. ASSUME status' = "more" PROVE ReadsItems'
    BY <2>7 DEF ReadsItems
  <2> QED BY <1>3, <2>1, <2>5, <2>6, <2>7
<1> QED BY <1>6, <1>7

\* On every message, whole in the buffer, the loop over bytes computes what
\* AminoVote computes on fields: the same vote, and an error in the same cases
\* (parser_validator.c:157-241).
THEOREM LoopReadsFields == ReaderSpec => []ReadsItems
<1>1. RInv /\ WInv /\ [ReaderNext]_readerVars => WInv'
  <2> SUFFICES ASSUME RInv, WInv, [ReaderNext]_readerVars PROVE WInv'
    OBVIOUS
  <2>1. CASE ReaderNext
    BY <2>1, TurnKeepsWInv
  <2>2. CASE UNCHANGED readerVars
    BY <2>2 DEF WInv, Holds, HasRead, ReadsItems, readerVars
  <2> QED BY <2>1, <2>2
<1>2. RInv /\ WInv => ReadsItems
  BY DEF WInv, ReadsItems
<1> QED BY <1>1, <1>2, InitWInv, ReaderInvariant, PTL DEF ReaderSpec
=============================================================================
