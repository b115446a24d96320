----------------------------- MODULE VoteReader -----------------------------
(***************************************************************************)
(* The loop of vote_amino_parse over the bytes of the transaction buffer,  *)
(* one step per field.  The buffer lies in memory that an earlier, longer  *)
(* transaction was collected in: buffering_append overwrites its beginning *)
(* and clears nothing behind it.                                           *)
(***************************************************************************)
EXTENDS AminoVote

CONSTANTS
  Message,   \* sequences of amino fields
  Previous   \* what the earlier transaction left in memory, in bytes

VARIABLES
  message,         \* the fields the host sent
  mem,             \* the memory from the first field on
  bufferLen,       \* length of the buffer from there; the rest is older
  offset,          \* ctx->offset
  expected_field,  \* written in every turn
  voteTx,          \* the vote read so far, its 64-bit fields as bytes
  status           \* "more" while the loop runs, then the error code

readerVars == <<message, mem, bufferLen, offset, expected_field, voteTx, status>>

-----------------------------------------------------------------------------
\* The wire format: base-128 varints, 64-bit values low byte first.
Byte == 0..255

VarintBytes(n) ==
  IF n < 128 THEN <<n>> ELSE <<128 + (n % 128), n \div 128>>

Int64Bytes(n) ==
  LET low == n % 65536
  IN <<low % 256, low \div 256>> \o [i \in 1..6 |-> IF n < 0 THEN 255 ELSE 0]

ZeroBytes == Int64Bytes(0)

FieldBytes(f) ==
  VarintBytes(8 * f.num + f.wire)
  \o CASE f.wire = WIRE_VARINT -> VarintBytes(f.val)
       [] f.wire = WIRE_64BIT  -> Int64Bytes(f.val)
       [] OTHER                -> <<0>>

MessageBytes(m) == FlattenSeq([i \in DOMAIN m |-> FieldBytes(m[i])])

\* A vote as vote_amino_parse holds it.
ByteVote(v) ==
  [Type |-> v.Type, Height |-> Int64Bytes(v.Height), Round |-> Int64Bytes(v.Round)]

-----------------------------------------------------------------------------
\* A varint has at most ten bytes, and its tenth at most one bit.
EndsVarint(i, at) ==
  \/ i < at + 9 /\ mem[i + 1] < 128
  \/ i = at + 9 /\ mem[i + 1] < 2

\* Mutant of readRawVarint: a continuation byte ends the value as well.
readOneByte(at) ==
  IF at > bufferLen THEN [ok |-> FALSE, val |-> 0, next |-> at]
  ELSE [ok |-> TRUE, val |-> mem[at + 1] % 128, next |-> at + 1]

\* Mutant of readRawVarint: the bound is another byte further.
readTwoPast(at) ==
  LET last == {i \in at..(bufferLen + 1) : EndsVarint(i, at)}
  IN IF last = {} THEN [ok |-> FALSE, val |-> 0, next |-> at]
     ELSE LET n == CHOOSE i \in last : \A j \in last : i <= j
          IN [ok   |-> TRUE,
              val  |-> (mem[at + 1] % 128)
                       + (IF n = at THEN 0 ELSE 128 * (mem[at + 2] % 128)),
              next |-> n + 1]

\* readRawVarint at a position: `end` is one past the end of the buffer, so the
\* byte behind the buffer is read too.  Fields and types are read from the low
\* 14 bits, so the value is kept modulo 2^14.
readRawVarint(at) ==
  LET last == {i \in at..bufferLen : EndsVarint(i, at)}
  IN IF last = {} THEN [ok |-> FALSE, val |-> 0, next |-> at]
     ELSE LET n == CHOOSE i \in last : \A j \in last : i <= j
          IN [ok   |-> TRUE,
              val  |-> (mem[at + 1] % 128)
                       + (IF n = at THEN 0 ELSE 128 * (mem[at + 2] % 128)),
              next |-> n + 1]

\* Mutant of read_amino_64bits: the value is looked at, not consumed.
peek_amino_64bits(at) ==
  [val |-> [i \in 1..8 |-> mem[at + i]], next |-> 0]

\* read_amino_64bits: eight bytes, whatever is left of the buffer.
read_amino_64bits(at) ==
  [val |-> [i \in 1..8 |-> mem[at + i]], next |-> at + 8]

-----------------------------------------------------------------------------
Continue(next, v, expect) ==
  /\ offset' = next
  /\ voteTx' = v
  /\ expected_field' = expect
  /\ UNCHANGED status

\* An error: parser_parse fails, and the vote read so far is not used.
Stop(code) ==
  /\ status' = code
  /\ UNCHANGED <<offset, voteTx, expected_field>>

\* The loop's head: the field's key.
Key == readRawVarint(offset)
FieldNum == (Key.val \div 8) % 256
WireType == Key.val % 8

Turn ==
  /\ status = "more"
  /\ offset < bufferLen
  /\ UNCHANGED <<message, mem, bufferLen>>

\* A field of number n, of the wire type it must have.
Known(n, wire) ==
  /\ Turn
  /\ Key.ok
  /\ FieldNum = n
  /\ WireType = wire

\* Mutant of ReadType: the type is not cut to a byte.
ReadTypeWide ==
  /\ Known(FIELD_TYPE, WIRE_VARINT)
  /\ LET t == readRawVarint(Key.next) IN
     IF t.ok
     THEN Continue(t.next, [voteTx EXCEPT !.Type = t.val], FIELD_HEIGHT)
     ELSE Stop("unexpected_buffer_end")

ReadType ==
  /\ Known(FIELD_TYPE, WIRE_VARINT)
  /\ LET t == readRawVarint(Key.next) IN
     IF t.ok
     THEN Continue(t.next, [voteTx EXCEPT !.Type = t.val % 256], FIELD_HEIGHT)
     ELSE Stop("unexpected_buffer_end")

ReadHeight ==
  /\ Known(FIELD_HEIGHT, WIRE_64BIT)
  /\ LET h == read_amino_64bits(Key.next) IN
     Continue(h.next, [voteTx EXCEPT !.Height = h.val], FIELD_ROUND)

ReadRound ==
  /\ Known(FIELD_ROUND, WIRE_64BIT)
  /\ LET r == read_amino_64bits(Key.next) IN
     IF \A i \in 2..8 : r.val[i] = 0
     THEN Continue(r.next, [voteTx EXCEPT !.Round = r.val], FIELD_ROUND + 1)
     ELSE Stop("unexpected_round_value")

\* A key that cannot be read, field 0, or a known field of another wire type.
ReadBad ==
  /\ Turn
  /\ \/ ~Key.ok /\ Stop("unexpected_buffer_end")
     \/ Key.ok /\ FieldNum = FIELD_ZERO /\ Stop("unexpected_field")
     \/ /\ Key.ok
        /\ \/ FieldNum = FIELD_TYPE /\ WireType # WIRE_VARINT
           \/ FieldNum \in {FIELD_HEIGHT, FIELD_ROUND} /\ WireType # WIRE_64BIT
        /\ Stop("unexpected_wire_type")

\* Any other field ends the reading, and so does the end of the buffer.
ReadOther ==
  /\ Turn
  /\ Key.ok
  /\ FieldNum > FIELD_ROUND
  /\ offset' = Key.next
  /\ status' = "ok"
  /\ UNCHANGED <<voteTx, expected_field>>

AtEnd ==
  /\ status = "more"
  /\ offset >= bufferLen
  /\ status' = "ok"
  /\ UNCHANGED <<message, mem, bufferLen, offset, voteTx, expected_field>>

ReaderNext ==
  ReadType \/ ReadHeight \/ ReadRound \/ ReadBad \/ ReadOther \/ AtEnd

\* The memory goes on behind the message: the transaction buffer is longer than a
\* vote, and it is followed by the rest of RAM.
ASSUME ReaderAssumption ==
  \A m \in Message :
    /\ MessageBytes(m) \in Seq(Byte)
    /\ \A old \in Previous : old \in Seq(Byte) /\ Len(old) >= Len(MessageBytes(m)) + 9

\* Keys and varints of two bytes at most, which VarintBytes writes in full, and
\* values below 2^16.
ASSUME FieldAssumption ==
  \A m \in Message :
    /\ m \in Seq([ctx : {"-"}, num : Nat, wire : 0..7, val : Int])
    /\ \A i \in 1..Len(m) :
         /\ m[i].num < 2048
         /\ m[i].val < 65536
         /\ m[i].wire = WIRE_VARINT => 0 <= m[i].val /\ m[i].val < 16384

\* The message, or a first part of it, over what an earlier one left behind.
ReaderInit ==
  /\ message \in Message
  /\ bufferLen \in 0..Len(MessageBytes(message))
  /\ \E old \in Previous :
       mem = SubSeq(MessageBytes(message), 1, bufferLen)
             \o SubSeq(old, bufferLen + 1, Len(old))
  /\ offset = 0
  /\ expected_field = FIELD_TYPE
  /\ voteTx = ByteVote(NoVote)
  /\ status = "more"

\* The loop runs until it ends: it waits for nothing.
ReaderSpec == ReaderInit /\ [][ReaderNext]_readerVars /\ WF_readerVars(ReaderNext)

-----------------------------------------------------------------------------
ReaderTypeOK ==
  /\ message \in Message
  /\ mem \in Seq(Byte)
  /\ bufferLen \in 0..Len(mem)
  /\ expected_field \in 1..4
  /\ voteTx.Type \in Byte
  /\ voteTx.Height \in [1..8 -> Byte]
  /\ voteTx.Round \in [1..8 -> Byte]
  /\ status \in {"more", "ok", "unexpected_buffer_end", "unexpected_field",
                 "unexpected_round_value", "unexpected_wire_type"}

\* Over a whole message the loop computes what AminoVote computes on its
\* fields: no field is skipped, read twice or read at a shifted position, and
\* the error cases are the same (parser_validator.c:157-241).
ReadsItems ==
  status # "more" /\ bufferLen = Len(MessageBytes(message)) =>
    LET r == vote_amino_parse(message) IN
    /\ status = "ok" <=> r.status # "error"
    /\ status = "ok" => voteTx = ByteVote(r.vote)

\* However the message is cut, the loop reads no more than nine bytes behind
\* the buffer: the byte readRawVarint allows itself and one 64-bit value.
ReadsStayClose == offset <= bufferLen + 9

\* The loop ends on every input: each turn consumes at least one byte.
ReaderTerminates == <>(status # "more")
=============================================================================
