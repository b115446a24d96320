----------------------------- MODULE EthProofs -----------------------------
(***************************************************************************)
(* From the bytes to the review and the signature.  A transaction whose    *)
(* end the session has found has a header that the parser reads; what the  *)
(* parser takes from the buffer by its place is in the buffer; and the     *)
(* object under review is of the bytes under review.  All of this for any  *)
(* bytes, packets and buffer.  For bytes that encode a transaction, the    *)
(* fields are those sent, and the host recovers the signature's parity.    *)
(***************************************************************************)
EXTENDS EthReader, SequenceTheorems, TLAPS

-----------------------------------------------------------------------------
(* Headers. *)

LEMMA ByteType == \A x \in Byte : x \in Nat /\ x <= 255
BY DEF Byte

\* Any bytes are a number, or stand for one.
LEMMA NumberType ==
  ASSUME NEW bytes \in Seq(Byte)
  PROVE  be_bytes_to_u64(bytes) \in Int
<1> DEFINE n == Len(bytes)
           Last(k) == IF k < n THEN bytes[n - k] ELSE 0
<1>1. n \in Nat
  OBVIOUS
<1>2. \A k \in 0..2 : Last(k) \in Int
  <2> SUFFICES ASSUME NEW k \in 0..2, k < n PROVE bytes[n - k] \in Int
    OBVIOUS
  <2>1. n - k \in 1..n
    BY <1>1
  <2>2. bytes[n - k] \in Byte
    BY <2>1
  <2> QED BY <2>2, ByteType
<1>3. 256 * Last(1) + Last(0) - 65536 \in Int /\ 65536 * Last(2) + 256 * Last(1) + Last(0) \in Int
  <2> HIDE DEF Last
  <2> QED BY <1>2
<1>4. Huge \in Int
  BY DEF Huge
<1> HIDE DEF n
<1> QED BY <1>3, <1>4 DEF be_bytes_to_u64, n

\* The header of a sequence of bytes.
LEMMA HeaderType ==
  ASSUME NEW d \in Seq(Byte), WholeHeader(d)
  PROVE  /\ Version(d) \in 0..1
         /\ Marker(d) \in Byte
         /\ LengthBytes(d) \in 0..8
         /\ HeaderLength(d) \in 1..10 /\ HeaderLength(d) <= Len(d)
         /\ HeaderLength(d) = Version(d) + 1 + LengthBytes(d)
         /\ ListLength(d) \in Int
         /\ SubSeq(d, Version(d) + 2, HeaderLength(d)) \in Seq(Byte)
<1>1. Version(d) \in 0..1
  BY DEF Version
<1>2. Version(d) + 1 \in 1..Len(d)
  BY <1>1 DEF WholeHeader
<1>3. Marker(d) \in Byte
  BY <1>2 DEF Marker
<1>4. LengthBytes(d) \in 0..8
  <2>1. Marker(d) \in Nat /\ Marker(d) <= 255
    BY <1>3, ByteType
  <2> QED BY <2>1 DEF LengthBytes
<1>5. HeaderLength(d) \in 1..10 /\ HeaderLength(d) <= Len(d)
  BY <1>1, <1>4 DEF HeaderLength, WholeHeader
<1>6. SubSeq(d, Version(d) + 2, HeaderLength(d)) \in Seq(Byte)
  BY <1>1, <1>5, SubSeqProperties
<1>7. ListLength(d) \in Int
  <2>1. be_bytes_to_u64(SubSeq(d, Version(d) + 2, HeaderLength(d))) \in Int
    BY <1>6, NumberType
  <2>2. Marker(d) \in Int
    BY <1>3, ByteType
  <2> QED BY <2>1, <2>2 DEF ListLength
<1> QED BY <1>1, <1>3, <1>4, <1>5, <1>6, <1>7 DEF HeaderLength

\* What follows a header does not change it.
LEMMA SameHeader ==
  ASSUME NEW d \in Seq(Byte), NEW e \in Seq(Byte), WholeHeader(d),
         HeaderLength(d) <= Len(e), \A i \in 1..HeaderLength(d) : e[i] = d[i]
  PROVE  WholeHeader(e) /\ get_tx_rlp_len(e) = get_tx_rlp_len(d)
<1>1. e[1] = d[1]
  BY HeaderType
<1>2. Version(e) = Version(d)
  BY <1>1 DEF Version
<1>3. Marker(e) = Marker(d)
  <2>1. Version(d) + 1 \in 1..HeaderLength(d)
    BY HeaderType
  <2> QED BY <2>1, <1>2 DEF Marker
<1>4. LengthBytes(e) = LengthBytes(d) /\ HeaderLength(e) = HeaderLength(d)
  BY <1>2, <1>3 DEF LengthBytes, HeaderLength
<1>5. WholeHeader(e)
  BY <1>2, <1>4, HeaderType DEF WholeHeader
<1>6. SubSeq(e, Version(d) + 2, HeaderLength(d)) = SubSeq(d, Version(d) + 2, HeaderLength(d))
  <2> DEFINE m == Version(d) + 2
             n == HeaderLength(d)
             s == SubSeq(d, m, n)
             t == SubSeq(e, m, n)
  <2>0. m \in 2..3 /\ n \in 1..10 /\ m <= n + 1 /\ n <= Len(d) /\ n <= Len(e)
        /\ \A i \in 1..n : e[i] = d[i]
    BY HeaderType
  <2> HIDE DEF m, n
  <2>1. /\ s \in Seq(Byte) /\ Len(s) = (IF m <= n THEN n - m + 1 ELSE 0)
        /\ \A i \in 1..(n - m + 1) : s[i] = d[m + i - 1]
    BY <2>0
  <2>2. /\ t \in Seq(Byte) /\ Len(t) = (IF m <= n THEN n - m + 1 ELSE 0)
        /\ \A i \in 1..(n - m + 1) : t[i] = e[m + i - 1]
    BY <2>0
  <2> HIDE DEF s, t
  <2>3. Len(s) = n - m + 1 /\ Len(t) = n - m + 1
    BY <2>0, <2>1, <2>2
  <2>4. \A i \in 1..Len(s) : s[i] = t[i]
    <3> TAKE i \in 1..Len(s)
    <3>1. m + i - 1 \in 1..n
      BY <2>0, <2>3
    <3> QED BY <3>1, <2>0, <2>1, <2>2, <2>3
  <2>5. s = t
    BY <2>1, <2>2, <2>3, <2>4, SeqEqual
  <2> QED BY <2>5 DEF s, t, m, n
<1> QED BY <1>2, <1>3, <1>4, <1>5, <1>6 DEF get_tx_rlp_len, ListLength

\* A declared length of at least the header's, or none.
LEMMA DeclaredType ==
  ASSUME NEW d \in Seq(Byte), WholeHeader(d)
  PROVE  /\ DeclaredBytes(d) \in Nat
         /\ DeclaredBytes(d) # 0 =>
              get_tx_rlp_len(d).ok /\ DeclaredBytes(d) >= HeaderLength(d)
<1>1. d # <<>>
  BY DEF WholeHeader
<1>2. HeaderLength(d) \in 1..10 /\ ListLength(d) \in Int /\ Huge \in Nat /\ Huge > 10
  BY HeaderType DEF Huge
<1>3. CASE Marker(d) < 192
  BY <1>1, <1>3 DEF DeclaredBytes, get_tx_rlp_len
<1>4. CASE ~(Marker(d) < 192)
  BY <1>1, <1>2, <1>4 DEF DeclaredBytes, get_tx_rlp_len
<1> QED BY <1>3, <1>4

-----------------------------------------------------------------------------
(* Items. *)

\* An item with a length that is no wrapped one is in the data, and a wrapped one
\* is longer than any number that is cut to a byte.
LEMMA ItemInData ==
  ASSUME NEW d \in Seq(Byte)
  PROVE  LET item == parse_rlp_item(d) IN
         /\ item.read \in 0..9 /\ item.len \in Int /\ item.len >= -9
         /\ item.ok => item.read + item.len \in Nat
         /\ item.ok => item.read + item.len <= Len(d)
<1> DEFINE item == parse_rlp_item(d)
           Fine(x) == /\ x.read \in 0..9 /\ x.len \in Int /\ x.len >= -9
                      /\ x.ok => x.read + x.len \in Nat
                      /\ x.ok => x.read + x.len <= Len(d)
<1>1. Fine(NoItem)
  BY DEF NoItem
<1>2. SUFFICES ASSUME d # <<>> PROVE Fine(item)
  BY <1>1 DEF parse_rlp_item
<1>3. Len(d) \in Nat /\ Len(d) >= 1 /\ d[1] \in Nat /\ d[1] <= 255
  <2>1. Len(d) # 0
    BY <1>2, EmptySeq
  <2>2. d[1] \in Byte
    BY <2>1
  <2> QED BY <2>1, <2>2, ByteType
<1>4. ASSUME d[1] <= 127 PROVE Fine(item)
  <2> DEFINE one == [ok |-> TRUE, read |-> 0, len |-> 1]
  <2>1. item = one
    BY <1>2, <1>4 DEF parse_rlp_item
  <2>2. Fine(one)
    BY <1>3
  <2> HIDE DEF Fine, item, one
  <2> QED BY <2>1, <2>2
<1>5. ASSUME NEW base \in Nat, d[1] >= base PROVE Fine(ShortItem(d, base))
  BY <1>1, <1>3, <1>5 DEF ShortItem, Below
<1>6. ASSUME NEW base \in Nat, d[1] - base \in 1..8 PROVE Fine(LongItem(d, base))
  <2> DEFINE n == d[1] - base
             len == be_bytes_to_u64(SubSeq(d, 2, n + 1))
  <2>1. n \in 1..8
    BY <1>6
  <2>2. CASE Len(d) < n + 1
    BY <1>1, <2>2 DEF LongItem, LengthItem
  <2>3. CASE ~(Len(d) < n + 1)
    <3>1. SubSeq(d, 2, n + 1) \in Seq(Byte)
      BY <1>3, <2>1, <2>3, SubSeqProperties
    <3>2. len \in Int
      BY <3>1, NumberType
    <3>3. LongItem(d, base) = IF Below(Len(d), len + 1 + n) THEN NoItem
                              ELSE [ok |-> TRUE, read |-> n + 1, len |-> len]
      BY <2>3 DEF LongItem, LengthItem
    <3> HIDE DEF n, len
    <3> QED BY <1>1, <1>3, <2>1, <3>2, <3>3 DEF Below
  <2> QED BY <2>2, <2>3
<1>7. ASSUME 128 <= d[1] /\ d[1] <= 183 PROVE Fine(item)
  <2>1. item = ShortItem(d, 128)
    BY <1>2, <1>3, <1>7, ~(d[1] <= 127) DEF parse_rlp_item
  <2>2. Fine(ShortItem(d, 128))
    <3> HIDE DEF Fine
    <3> QED BY <1>3, <1>5, <1>7
  <2> HIDE DEF Fine, item
  <2> QED BY <2>1, <2>2
<1>8. ASSUME 184 <= d[1] /\ d[1] <= 191 PROVE Fine(item)
  <2>1. item = LongItem(d, 183)
    BY <1>2, <1>3, <1>8, ~(d[1] <= 127), ~(d[1] <= 183) DEF parse_rlp_item
  <2>2. Fine(LongItem(d, 183))
    <3> HIDE DEF Fine
    <3> QED BY <1>3, <1>6, <1>8
  <2> HIDE DEF Fine, item
  <2> QED BY <2>1, <2>2
<1>9. ASSUME 192 <= d[1] /\ d[1] <= 247 PROVE Fine(item)
  <2>1. item = ShortItem(d, 192)
    BY <1>2, <1>3, <1>9, ~(d[1] <= 127), ~(d[1] <= 183), ~(d[1] <= 191) DEF parse_rlp_item
  <2>2. Fine(ShortItem(d, 192))
    <3> HIDE DEF Fine
    <3> QED BY <1>3, <1>5, <1>9
  <2> HIDE DEF Fine, item
  <2> QED BY <2>1, <2>2
<1>10. ASSUME 248 <= d[1] PROVE Fine(item)
  <2>1. item = LongItem(d, 247)
    BY <1>2, <1>3, <1>10, ~(d[1] <= 127), ~(d[1] <= 183), ~(d[1] <= 191), ~(d[1] <= 247) DEF parse_rlp_item
  <2>2. Fine(LongItem(d, 247))
    <3> HIDE DEF Fine
    <3> QED BY <1>3, <1>6, <1>10
  <2> HIDE DEF Fine, item
  <2> QED BY <2>1, <2>2
<1>11. \/ d[1] <= 127
       \/ 128 <= d[1] /\ d[1] <= 183
       \/ 184 <= d[1] /\ d[1] <= 191
       \/ 192 <= d[1] /\ d[1] <= 247
       \/ 248 <= d[1]
  BY <1>3
<1> HIDE DEF Fine, item
<1> QED BY <1>4, <1>7, <1>8, <1>9, <1>10, <1>11

\* What begins behind an offset.
LEMMA TailType ==
  ASSUME NEW b \in Seq(Byte), NEW at \in Nat, at < Len(b)
  PROVE  LET t == SubSeq(b, at + 1, Len(b)) IN
         /\ t \in Seq(Byte) /\ Len(t) = Len(b) - at
         /\ \A i \in 1..(Len(b) - at) : t[i] = b[at + i]
<1>1. at + 1 \in 1..(Len(b) + 1) /\ Len(b) \in Nat
  OBVIOUS
<1>2. SubSeq(b, at + 1, Len(b)) \in Seq(Byte)
  BY <1>1, SubSeqProperties
<1>3. Len(SubSeq(b, at + 1, Len(b))) = Len(b) - at
  BY <1>1, SubSeqProperties
<1>4. \A i \in 1..(Len(b) - at) : SubSeq(b, at + 1, Len(b))[i] = b[at + i]
  BY <1>1, SubSeqProperties
<1> QED BY <1>2, <1>3, <1>4

\* A field that can be read ends in the buffer, where the next one begins.
LEMMA FieldType ==
  ASSUME NEW b \in Seq(Byte), NEW at \in Nat
  PROVE  LET f == Field(b, at) IN
         /\ f.next \in Nat /\ f.len \in Int /\ f.len >= -9
         /\ f.offset \in Nat
         /\ f.ok => f.offset + f.len <= Len(b)
<1> DEFINE item == parse_rlp_item(SubSeq(b, at + 1, Len(b)))
<1>1. Len(b) \in Nat
  OBVIOUS
<1>2. CASE at < Len(b)
  <2>1. /\ item.read \in 0..9 /\ item.len \in Int /\ item.len >= -9
        /\ item.ok => item.read + item.len \in Nat
        /\ item.ok => item.read + item.len <= Len(b) - at
    BY <1>2, TailType, ItemInData
  <2>2. Field(b, at).ok => item.ok
    BY DEF Field, FieldOf
  <2>3. Field(b, at).offset = at + item.read /\ Field(b, at).len = item.len
    BY DEF Field, FieldOf
  <2>4. Field(b, at).next = IF item.ok THEN at + item.read + item.len ELSE Len(b)
    BY <1>2 DEF Field, FieldOf
  <2> DEFINE r == item.read
             n == item.len
             f == Field(b, at)
  <2>5. /\ r \in Nat /\ n \in Int /\ n >= -9 /\ f.offset = at + r /\ f.len = n
        /\ f.ok => r + n \in Nat /\ r + n <= Len(b) - at
        /\ f.next = at + r + n \/ f.next = Len(b)
        /\ f.next = Len(b) \/ r + n \in Nat
    BY <2>1, <2>2, <2>3, <2>4
  <2> HIDE DEF r, n, f
  <2>6. /\ f.next \in Nat /\ f.len \in Int /\ f.len >= -9 /\ f.offset \in Nat
        /\ f.ok => f.offset + f.len <= Len(b)
    BY <1>1, <2>5
  <2> QED BY <2>6 DEF f
<1>3. CASE ~(at < Len(b))
  <2>1. SubSeq(b, at + 1, Len(b)) = <<>>
    BY <1>1, <1>3, SubSeqEmpty
  <2>2. item = NoItem
    BY <2>1 DEF parse_rlp_item
  <2>3. item.read = 0 /\ item.len = 0
    BY <2>2 DEF NoItem
  <2>4. ~Field(b, at).ok
    BY <1>3 DEF Field, FieldOf
  <2>5. Field(b, at).offset = at + item.read /\ Field(b, at).len = item.len
    BY DEF Field, FieldOf
  <2>6. Field(b, at).next = Len(b)
    BY <1>3 DEF Field, FieldOf
  <2> HIDE DEF item
  <2> QED BY <1>1, <2>3, <2>4, <2>5, <2>6
<1> QED BY <1>2, <1>3

\* All fields of a legacy transaction, wherever it begins.
LEMMA FieldsType ==
  ASSUME NEW b \in Seq(Byte), NEW start \in Nat
  PROVE  LET f == Fields(b, start) IN
         \A i \in 1..9 : /\ f[i].next \in Nat /\ f[i].len \in Int /\ f[i].len >= -9
                         /\ f[i].offset \in Nat
                         /\ f[i].ok => f[i].offset + f[i].len <= Len(b)
<1> DEFINE Fine(g) == /\ g.next \in Nat /\ g.len \in Int /\ g.len >= -9
                      /\ g.offset \in Nat
                      /\ g.ok => g.offset + g.len <= Len(b)
<1>0. \A at \in Nat : Fine(Field(b, at)) /\ Field(b, at).next \in Nat
  BY FieldType
<1> HIDE DEF Fine
<1>1. Fine(NonceIn(b, start)) /\ NonceIn(b, start).next \in Nat
  BY <1>0 DEF NonceIn
<1>2. Fine(GasPriceIn(b, start)) /\ GasPriceIn(b, start).next \in Nat
  BY <1>0, <1>1 DEF GasPriceIn
<1>3. Fine(GasLimitIn(b, start)) /\ GasLimitIn(b, start).next \in Nat
  BY <1>0, <1>2 DEF GasLimitIn
<1>4. Fine(AddressIn(b, start)) /\ AddressIn(b, start).next \in Nat
  BY <1>0, <1>3 DEF AddressIn
<1>5. Fine(ValueIn(b, start)) /\ ValueIn(b, start).next \in Nat
  BY <1>0, <1>4 DEF ValueIn
<1>6. Fine(DataIn(b, start)) /\ DataIn(b, start).next \in Nat
  BY <1>0, <1>5 DEF DataIn
<1>7. Fine(ChainIdIn(b, start)) /\ ChainIdIn(b, start).next \in Nat
  BY <1>0, <1>6 DEF ChainIdIn
<1>8. Fine(RIn(b, start)) /\ RIn(b, start).next \in Nat
  BY <1>0, <1>7 DEF RIn
<1>9. Fine(SIn(b, start)) /\ SIn(b, start).next \in Nat
  BY <1>0, <1>8 DEF SIn
<1>10. \A i \in 1..9 : Fine(Fields(b, start)[i])
  BY <1>1, <1>2, <1>3, <1>4, <1>5, <1>6, <1>7, <1>8, <1>9 DEF Fields
<1> QED BY <1>10 DEF Fine

\* The header of an accepted transaction is in it.
LEMMA FirstFieldType ==
  ASSUME NEW b \in Seq(Byte), b # <<>>, HeaderOk(b)
  PROVE  FirstField(b) \in Nat /\ FirstField(b) <= Len(b)
<1>1. Start(b) \in 0..1
  BY DEF Start
<1>2. Len(b) \in Nat /\ Len(b) # 0
  BY EmptySeq
<1>3. Header(b).read \in 0..9
  <2>1. SubSeq(b, Start(b) + 1, Len(b)) \in Seq(Byte)
    BY <1>1, <1>2, SubSeqProperties
  <2> QED BY <2>1, ItemInData DEF Header
<1> QED BY <1>1, <1>3 DEF HeaderOk, FirstField

\* The object has the parts of a transaction.
Shape(o) ==
  /\ o.chain_id \in [offset : Nat, len : Int]
  /\ o = [tx_type |-> o.tx_type, chain_id |-> o.chain_id, address |-> o.address,
          places |-> o.places]

\* What is kept of a place.
LEMMA PlaceType ==
  ASSUME NEW b \in Seq(Byte), NEW at \in Nat, NEW old \in [offset : Nat, len : Int]
  PROVE  PlaceAfter(old, b, at, Field(b, at)) \in [offset : Nat, len : Int]
BY FieldType DEF PlaceAfter, Place

\* A reader of a chain takes one to eight bytes, which are in the buffer.
LEMMA ChainInBuffer ==
  ASSUME NEW b \in Seq(Byte), NEW at \in Nat, ChainOk(b, Field(b, at)),
         NEW old \in [offset : Nat, len : Int]
  PROVE  LET chain == PlaceAfter(old, b, at, Field(b, at)) IN
         chain.offset + (chain.len % 256) <= Len(b)
<1> DEFINE f == Field(b, at)
<1>1. f.ok /\ f.len % 256 \in 1..8
  BY DEF ChainOk
<1>2. f.len \in Int /\ f.len >= -9 /\ f.offset \in Nat /\ f.offset + f.len <= Len(b)
  BY <1>1, FieldType
<1>3. at < Len(b)
  BY <1>1 DEF Field, FieldOf
<1>4. PlaceAfter(old, b, at, f) = [offset |-> f.offset, len |-> f.len]
  BY <1>1, <1>3 DEF PlaceAfter, Place
<1>5. f.offset + (f.len % 256) <= Len(b)
  <2> DEFINE n == f.len
             o == f.offset
  <2>1. n \in Int /\ n >= -9 /\ n % 256 \in 1..8 /\ o \in Nat /\ o + n <= Len(b) /\ Len(b) \in Nat
    BY <1>1, <1>2
  <2> HIDE DEF n, o
  <2>2. n >= 0
    BY <2>1
  <2>3. n % 256 <= n
    BY <2>1, <2>2
  <2> QED BY <2>1, <2>3 DEF n, o
<1>6. PlaceAfter(old, b, at, f).offset = f.offset /\ PlaceAfter(old, b, at, f).len = f.len
  BY <1>4
<1> QED BY <1>5, <1>6

\* Where the chain of a legacy transaction is read from.
LEMMA LegacyChain ==
  ASSUME NEW b \in Seq(Byte), NEW start \in Nat, NEW old, Shape(old)
  PROVE  LET new == LegacyAfter(old, b, start, Fields(b, start))
             at  == Fields(b, start)[6].next IN
         /\ Shape(new) /\ new.tx_type = old.tx_type
         /\ parse_legacy_tx(b, Fields(b, start)) =>
              \/ new.chain_id.len = 0
              \/ ChainOk(b, Field(b, at)) /\ at \in Nat
                 /\ new.chain_id = PlaceAfter(old.chain_id, b, at, Field(b, at))
<1> DEFINE f    == Fields(b, start)
           new  == LegacyAfter(old, b, start, f)
           last == Reached(b, f)
           at   == f[6].next
           seen == IF 7 > last THEN old.chain_id ELSE PlaceAfter(old.chain_id, b, at, f[7])
<1>1. at \in Nat /\ f[7] = Field(b, at)
  <2>1. at \in Nat
    BY FieldsType
  <2> QED BY <2>1 DEF Fields, ChainIdIn
<1>2. new.chain_id = IF LegacyPlain(b, f) /\ LegacyEnds(b, f)
                     THEN [old.chain_id EXCEPT !.len = 0] ELSE seen
  BY DEF LegacyAfter, Shape
<1>3. seen \in [offset : Nat, len : Int]
  <2> HIDE DEF last, at, f
  <2> QED BY <1>1, PlaceType DEF Shape
<1>4. new.chain_id \in [offset : Nat, len : Int]
  <2> HIDE DEF seen, f, new
  <2> QED BY <1>2, <1>3 DEF Shape
<1>5. new = [tx_type |-> new.tx_type, chain_id |-> new.chain_id, address |-> new.address,
             places |-> new.places] /\ new.tx_type = old.tx_type
  BY DEF LegacyAfter
<1>6. ASSUME parse_legacy_tx(b, f), LegacyEnds(b, f) PROVE new.chain_id.len = 0
  <2> HIDE DEF seen, f, new
  <2> QED BY <1>2, <1>6 DEF parse_legacy_tx, Shape
<1>7. ASSUME parse_legacy_tx(b, f), ~LegacyEnds(b, f)
      PROVE  ChainOk(b, f[7]) /\ new.chain_id = PlaceAfter(old.chain_id, b, at, f[7])
  <2>1. LegacyPlain(b, f) /\ ChainOk(b, f[7])
    BY <1>7 DEF parse_legacy_tx
  <2>2. \A j \in 1..6 : ~Stops(b, f, j)
    <3> HIDE DEF f
    <3> QED BY <1>7, <2>1 DEF LegacyPlain, Stops
  <2>3. \E i \in 1..7 : Stops(b, f, i) /\ \A j \in 1..(i - 1) : ~Stops(b, f, j)
    <3>1. Stops(b, f, 7)
      BY DEF Stops
    <3> HIDE DEF f
    <3> QED BY <2>2, <3>1
  <2>4. last \in 1..7 /\ Stops(b, f, last)
    <3> HIDE DEF f
    <3> QED BY <2>3 DEF Reached
  <2>5. last = 7
    <3> HIDE DEF f, last
    <3> QED BY <2>2, <2>4
  <2>6. seen = PlaceAfter(old.chain_id, b, at, f[7])
    <3> HIDE DEF f, last, at
    <3> QED BY <2>5
  <2> HIDE DEF f, new, seen, at
  <2> QED BY <1>2, <1>7, <2>1, <2>6
<1> HIDE DEF f, new, at
<1>8. Shape(new)
  BY <1>4, <1>5 DEF Shape
<1>9. parse_legacy_tx(b, f) =>
        \/ new.chain_id.len = 0
        \/ ChainOk(b, Field(b, at)) /\ at \in Nat
           /\ new.chain_id = PlaceAfter(old.chain_id, b, at, Field(b, at))
  BY <1>1, <1>6, <1>7
<1> QED BY <1>5, <1>8, <1>9 DEF f, new, at

\* The steps of reading keep the parts.
LEMMA StepShape ==
  ASSUME NEW b \in Seq(Byte), NEW old, Shape(old)
  PROVE  /\ Shape(TypeRead(old, b)) /\ TypeRead(old, b).tx_type = b[1]
         /\ FirstField(b) \in Nat =>
              /\ Shape(ChainRead(old, b)) /\ ChainRead(old, b).tx_type = old.tx_type
              /\ ChainRead(old, b).chain_id =
                   PlaceAfter(old.chain_id, b, FirstField(b), Field(b, FirstField(b)))
<1>1. Shape(TypeRead(old, b)) /\ TypeRead(old, b).tx_type = b[1]
  BY DEF TypeRead, Shape
<1>2. ASSUME FirstField(b) \in Nat
      PROVE  PlaceAfter(old.chain_id, b, FirstField(b), Field(b, FirstField(b)))
               \in [offset : Nat, len : Int]
  BY <1>2, PlaceType DEF Shape
<1> DEFINE place == PlaceAfter(old.chain_id, b, FirstField(b), Field(b, FirstField(b)))
<1>3. ChainRead(old, b) = [old EXCEPT !.chain_id = place]
  BY DEF ChainRead
<1> HIDE DEF place
<1>4. ASSUME place \in [offset : Nat, len : Int]
      PROVE  /\ Shape(ChainRead(old, b)) /\ ChainRead(old, b).tx_type = old.tx_type
             /\ ChainRead(old, b).chain_id = place
  BY <1>3, <1>4 DEF Shape
<1> QED BY <1>1, <1>2, <1>4 DEF place

\* What is read from the buffer later is in it.
InBuffer(o, b) ==
  /\ o.chain_id.len # 0 => o.chain_id.offset + (o.chain_id.len % 256) <= Len(b)
  /\ o.tx_type >= 192 =>
       LET address == Fields(b, FirstField(b))[4] IN
       address.len # 0 => address.offset + ETH_ADDRESS_LEN <= Len(b)

\* A transaction that is read leaves an object whose places are in the buffer.
LEMMA ReadInBuffer ==
  ASSUME NEW b \in Seq(Byte), NEW old, Shape(old)
  PROVE  /\ Shape(ReadEthAfter(old, b))
         /\ _readEth(b) = "ok" => InBuffer(ReadEthAfter(old, b), b)
<1> DEFINE new == ReadEthAfter(old, b)
           typed == TypeRead(old, b)
<1>1. Shape(typed) /\ typed.tx_type = b[1]
  BY StepShape
<1>2. CASE b = <<>> \/ (~Typed(b) /\ b[1] < 192)
  <2>1. _readEth(b) \in {"init_context_empty", "unsupported_tx"}
    BY <1>2 DEF _readEth
  <2>2. new = old
    BY <2>1 DEF ReadEthAfter
  <2> QED BY <2>1, <2>2
<1>3. ASSUME b # <<>>, Typed(b) \/ ~(b[1] < 192)
      PROVE  _readEth(b) \notin {"init_context_empty", "unsupported_tx"}
  BY <1>3 DEF _readEth
<1>4. CASE b # <<>> /\ (Typed(b) \/ ~(b[1] < 192)) /\ ~HeaderOk(b)
  <2>1. _readEth(b) = "unexpected_error"
    BY <1>4 DEF _readEth
  <2>2. new = typed
    BY <1>3, <1>4 DEF ReadEthAfter
  <2> QED BY <1>1, <2>1, <2>2
<1>5. CASE b # <<>> /\ Typed(b) /\ HeaderOk(b)
  <2>1. FirstField(b) \in Nat
    BY <1>5, FirstFieldType
  <2>2. new = ChainRead(typed, b)
    BY <1>3, <1>5 DEF ReadEthAfter
  <2>3. /\ Shape(new) /\ new.tx_type = b[1]
        /\ new.chain_id = PlaceAfter(typed.chain_id, b, FirstField(b), Field(b, FirstField(b)))
    <3> HIDE DEF typed, new
    <3> QED BY <1>1, <2>1, <2>2, StepShape
  <2>4. ASSUME _readEth(b) = "ok" PROVE InBuffer(new, b)
    <3>1. ChainOk(b, Field(b, FirstField(b)))
      BY <1>5, <2>4 DEF _readEth
    <3>2. new.chain_id.offset + (new.chain_id.len % 256) <= Len(b)
      <4> HIDE DEF typed, new
      <4> QED BY <1>1, <2>1, <2>3, <3>1, ChainInBuffer DEF Shape
    <3>3. ~(new.tx_type >= 192)
      <4> HIDE DEF new
      <4> QED BY <1>5, <2>3 DEF Typed
    <3> HIDE DEF new
    <3> QED BY <3>2, <3>3 DEF InBuffer
  <2> QED BY <2>3, <2>4
<1>6. CASE b # <<>> /\ ~Typed(b) /\ ~(b[1] < 192) /\ HeaderOk(b)
  <2>1. FirstField(b) \in Nat
    BY <1>6, FirstFieldType
  <2> DEFINE start == FirstField(b)
             at == Fields(b, start)[6].next
  <2>2. new = LegacyAfter(typed, b, start, Fields(b, start))
    BY <1>3, <1>6 DEF ReadEthAfter
  <2>3. /\ Shape(new)
        /\ parse_legacy_tx(b, Fields(b, start)) =>
             \/ new.chain_id.len = 0
             \/ ChainOk(b, Field(b, at)) /\ at \in Nat
                /\ new.chain_id = PlaceAfter(typed.chain_id, b, at, Field(b, at))
    <3> HIDE DEF typed, new, start
    <3> QED BY <1>1, <2>1, <2>2, LegacyChain DEF start
  <2>4. ASSUME _readEth(b) = "ok" PROVE InBuffer(new, b)
    <3>1. parse_legacy_tx(b, Fields(b, start))
      BY <1>6, <2>4 DEF _readEth
    <3>2. new.chain_id.len # 0 => new.chain_id.offset + (new.chain_id.len % 256) <= Len(b)
      <4> HIDE DEF typed, new, at
      <4> QED BY <1>1, <2>3, <3>1, ChainInBuffer DEF Shape
    <3>3. LET address == Fields(b, start)[4] IN
          address.len # 0 => address.offset + ETH_ADDRESS_LEN <= Len(b)
      <4> DEFINE f == Fields(b, start)
      <4>1. f[4].ok /\ AddressOk(b, f[4])
        BY <3>1 DEF parse_legacy_tx, LegacyPlain
      <4>2. f[4].offset + f[4].len <= Len(b)
        BY <2>1, <4>1, FieldsType
      <4> HIDE DEF f
      <4>3. f[4].len # 0 => f[4].offset + ETH_ADDRESS_LEN <= Len(b)
        BY <4>1, <4>2 DEF AddressOk
      <4> QED BY <4>3 DEF f
    <3> HIDE DEF new
    <3> QED BY <3>2, <3>3 DEF InBuffer
  <2> QED BY <2>3, <2>4
<1> HIDE DEF new
<1> QED BY <1>2, <1>4, <1>5, <1>6

-----------------------------------------------------------------------------
(* The session's reading of the header and the parser's. *)

\* A buffer of the length its header declares has a header the parser reads.
LEMMA HeaderReadable ==
  ASSUME NEW b \in Seq(Byte), WholeHeader(b), DeclaredBytes(b) = Len(b), Len(b) < Huge
  PROVE  _readEth(b) \in {"ok", "invalid"}
<1> DEFINE data == SubSeq(b, Version(b) + 1, Len(b))
           mark == Marker(b)
<1>1. /\ b # <<>> /\ Len(b) \in Nat /\ Len(b) # 0
      /\ Version(b) \in 0..1 /\ mark \in Nat /\ mark <= 255 /\ Version(b) < Len(b)
      /\ ListLength(b) \in Int /\ Huge \in Nat
      /\ HeaderLength(b) <= Len(b)
  BY HeaderType, ByteType DEF WholeHeader, Huge
<1>2. get_tx_rlp_len(b).ok
  BY <1>1, DeclaredType
<1>3. mark >= 192
  <2>1. ~(mark < 192)
    BY <1>2 DEF get_tx_rlp_len
  <2> QED BY <1>1, <2>1
<1>4. Start(b) = Version(b)
  BY DEF Start, Version, Typed
<1>5. Typed(b) \/ ~(b[1] < 192)
  <2>1. CASE Typed(b)
    BY <2>1
  <2>2. CASE ~Typed(b)
    <3>1. mark = b[1]
      BY <2>2 DEF Marker, Version, Typed
    <3> QED BY <1>1, <1>3, <3>1
  <2> QED BY <2>1, <2>2
<1>6. /\ data \in Seq(Byte) /\ Len(data) = Len(b) - Version(b)
      /\ data[1] = mark /\ data # <<>>
  <2>1. /\ data \in Seq(Byte) /\ Len(data) = Len(b) - Version(b)
        /\ \A i \in 1..(Len(b) - Version(b)) : data[i] = b[Version(b) + i]
    BY <1>1, TailType
  <2>2. data[1] = mark
    BY <1>1, <2>1 DEF Marker
  <2>3. data # <<>>
    BY <1>1, <2>1, EmptySeq
  <2> QED BY <2>1, <2>2, <2>3
<1>7. IF ListLength(b) < 0 THEN Len(b) = Huge ELSE Len(b) = HeaderLength(b) + ListLength(b)
  BY <1>1, <1>2, <1>3 DEF DeclaredBytes, get_tx_rlp_len
<1>8. ListLength(b) >= 0 /\ Len(b) = HeaderLength(b) + ListLength(b)
  BY <1>1, <1>7
<1>9. Header(b) = parse_rlp_item(data)
  BY <1>4 DEF Header
<1>10. CASE mark <= 247
  <2>1. parse_rlp_item(data) = ShortItem(data, 192)
    <3> HIDE DEF data, mark
    <3> QED BY <1>1, <1>3, <1>6, <1>10 DEF parse_rlp_item
  <2>2. HeaderLength(b) = Version(b) + 1 /\ ListLength(b) = mark - 192
    BY <1>1, <1>10 DEF HeaderLength, LengthBytes, ListLength
  <2>3. Len(data) = 1 + (mark - 192)
    <3> HIDE DEF data, mark
    <3> QED BY <1>1, <1>6, <1>8, <2>2
  <2>4. ShortItem(data, 192) = [ok |-> TRUE, read |-> 1, len |-> mark - 192]
    <3> HIDE DEF data, mark
    <3> QED BY <1>1, <1>3, <1>6, <2>3 DEF ShortItem, Below
  <2>5. Header(b).ok /\ Header(b).read = 1
    BY <1>9, <2>1, <2>4
  <2>6. HeaderOk(b)
    BY <1>1, <1>4, <2>5 DEF HeaderOk
  <2> QED BY <1>1, <1>5, <2>6 DEF _readEth
<1>11. CASE mark >= 248
  <2> DEFINE n == mark - 247
             len == ListLength(b)
  <2>1. n \in 1..8
    <3> HIDE DEF mark
    <3> QED BY <1>1, <1>11
  <2>2. parse_rlp_item(data) = LongItem(data, 247)
    <3> HIDE DEF data, mark
    <3> QED BY <1>1, <1>6, <1>11 DEF parse_rlp_item
  <2>3. HeaderLength(b) = Version(b) + 1 + n
    BY <1>11 DEF HeaderLength, LengthBytes
  <2>4. len = be_bytes_to_u64(SubSeq(b, Version(b) + 2, HeaderLength(b)))
    <3>1. ~(mark <= 247)
      <4> HIDE DEF mark
      <4> QED BY <1>1, <1>11
    <3> QED BY <3>1 DEF ListLength
  <2>5. Len(data) = n + 1 + len /\ len \in Nat
    <3> HIDE DEF data, mark, n
    <3> QED BY <1>1, <1>6, <1>8, <2>1, <2>3
  <2>6. SubSeq(data, 2, n + 1) = SubSeq(b, Version(b) + 2, HeaderLength(b))
    <3> DEFINE v0 == Version(b)
               l  == Len(b)
    <3>1. /\ v0 + 1 \in 1..l /\ l \in 1..l /\ 2 \in 1..(l - (v0 + 1) + 1)
          /\ n + 1 \in 1..(l - (v0 + 1) + 1)
      <4>1. v0 \in 0..1 /\ l \in Nat /\ v0 < l /\ n \in 1..8 /\ len \in Nat
            /\ l - v0 = n + 1 + len
        BY <1>1, <1>6, <2>1, <2>5
      <4> HIDE DEF v0, l, n, len
      <4> QED BY <4>1
    <3>2. SubSeq(SubSeq(b, v0 + 1, l), 2, n + 1) = SubSeq(b, v0 + 1 + 2 - 1, v0 + 1 + (n + 1) - 1)
      <4>1. \A i \in 1..Len(b), j \in 1..Len(b) :
              \A m \in 1..(j - i + 1), k \in 1..(j - i + 1) :
                SubSeq(SubSeq(b, i, j), m, k) = SubSeq(b, i + m - 1, i + k - 1)
        BY SubSeqOfSubSeq
      <4> HIDE DEF v0, l, n
      <4> QED BY <3>1, <4>1 DEF l
    <3>3. v0 + 1 + 2 - 1 = v0 + 2 /\ v0 + 1 + (n + 1) - 1 = HeaderLength(b)
      <4>1. v0 \in 0..1 /\ n \in 1..8 /\ HeaderLength(b) = v0 + 1 + n
        BY <1>1, <2>1, <2>3
      <4> HIDE DEF v0, n
      <4> QED BY <4>1
    <3> HIDE DEF n
    <3> QED BY <3>2, <3>3
  <2>7. LongItem(data, 247) = [ok |-> TRUE, read |-> n + 1, len |-> len]
    <3>1. be_bytes_to_u64(SubSeq(data, 2, n + 1)) = len
      BY <2>4, <2>6
    <3>2. ~(Len(data) < n + 1) /\ ~Below(Len(data), len + 1 + n)
      <4> HIDE DEF data, n, len
      <4> QED BY <2>1, <2>5 DEF Below
    <3>3. data[1] - 247 = n
      BY <1>6
    <3> DEFINE m == data[1] - 247
    <3>4. LongItem(data, 247) =
            IF Len(data) < m + 1 THEN NoItem
            ELSE IF Below(Len(data), be_bytes_to_u64(SubSeq(data, 2, m + 1)) + 1 + m) THEN NoItem
            ELSE [ok |-> TRUE, read |-> m + 1, len |-> be_bytes_to_u64(SubSeq(data, 2, m + 1))]
      BY DEF LongItem, LengthItem
    <3> HIDE DEF data, n, len, m
    <3>5. m = n
      BY <3>3 DEF m
    <3> QED BY <3>1, <3>2, <3>4, <3>5
  <2>8. Header(b).ok /\ Header(b).read = n + 1
    <3> HIDE DEF data, n, len
    <3> QED BY <1>9, <2>2, <2>7
  <2>9. HeaderOk(b)
    <3> HIDE DEF n
    <3> QED BY <1>1, <1>4, <2>1, <2>3, <2>8 DEF HeaderOk
  <2> QED BY <1>1, <1>5, <2>9 DEF _readEth
<1> HIDE DEF mark
<1> QED BY <1>1, <1>10, <1>11

-----------------------------------------------------------------------------
(* Packets. *)

\* The bytes of a packet: those of the transaction from an offset on.
LEMMA PacketType ==
  ASSUME NEW m \in Message, NEW from \in Nat, NEW size \in PacketSize
  PROVE  LET e == IF from + size < Len(m.bytes) THEN from + size ELSE Len(m.bytes)
             c == SubSeq(m.bytes, from + 1, e)
         IN /\ c \in Seq(Byte)
            /\ from = 0 => WholeHeader(c)
<1> DEFINE d == m.bytes
           e == IF from + size < Len(d) THEN from + size ELSE Len(d)
           c == SubSeq(d, from + 1, e)
<1>1. d \in Seq(Byte) /\ WholeHeader(d) /\ size \in Nat /\ size >= 10
  BY EthReaderAssumption DEF AnyMessage
<1>2. e \in Nat /\ e <= Len(d)
  <2> HIDE DEF d
  <2> QED BY <1>1
<1>3. c \in Seq(Byte)
  <2>1. \A i \in (from + 1)..e : d[i] \in Byte
    <3> HIDE DEF d, e
    <3> QED BY <1>1, <1>2
  <2> HIDE DEF d, e
  <2> QED BY <1>2, <2>1, SubSeqProperties
<1>4. ASSUME from = 0 PROVE WholeHeader(c)
  <2>1. /\ Len(c) = (IF 1 <= e THEN e ELSE 0)
        /\ \A i \in 1..e : c[i] = d[i]
    <3>1. \A i \in 1..e : d[i] \in Byte
      <4> HIDE DEF d, e
      <4> QED BY <1>1, <1>2
    <3>2. c = SubSeq(d, 1, e)
      BY <1>4
    <3> HIDE DEF d, e, c
    <3>3. /\ Len(SubSeq(d, 1, e)) = (IF 1 <= e THEN e - 1 + 1 ELSE 0)
          /\ \A i \in 1..(e - 1 + 1) : SubSeq(d, 1, e)[i] = d[1 + i - 1]
      BY <1>2, <3>1, SubSeqProperties
    <3>4. e - 1 + 1 = e /\ \A i \in 1..e : 1 + i - 1 = i
      BY <1>2
    <3> QED BY <3>2, <3>3, <3>4
  <2>2. HeaderLength(d) \in 1..10 /\ HeaderLength(d) <= Len(d)
    <3> HIDE DEF d
    <3> QED BY <1>1, HeaderType
  <2>3. HeaderLength(d) <= e
    <3> HIDE DEF d
    <3> QED BY <1>1, <1>4, <2>2
  <2>4. HeaderLength(d) <= Len(c)
    <3> HIDE DEF c, d, e
    <3> QED BY <1>2, <2>1, <2>2, <2>3
  <2>5. \A i \in 1..HeaderLength(d) : c[i] = d[i]
    <3> HIDE DEF c, d, e
    <3> QED BY <1>2, <2>1, <2>2, <2>3
  <2> HIDE DEF c, d
  <2> QED BY <1>1, <1>3, <2>4, <2>5, SameHeader
<1> QED BY <1>3, <1>4

\* The beginning of a payload.
LEMMA TakeType ==
  ASSUME NEW c \in Seq(Byte), NEW n \in Nat
  PROVE  /\ Session!Take(c, n) \in Seq(Byte)
         /\ Len(Session!Take(c, n)) = IF n < Len(c) THEN n ELSE Len(c)
         /\ \A i \in 1..Len(Session!Take(c, n)) : Session!Take(c, n)[i] = c[i]
         /\ n >= Len(c) => Session!Take(c, n) = c
<1> DEFINE k == IF n < Len(c) THEN n ELSE Len(c)
           t == Session!Take(c, n)
<1>1. t = SubSeq(c, 1, k)
  BY DEF Session!Take
<1>2. k \in Nat /\ k <= Len(c) /\ Len(c) \in Nat /\ (n >= Len(c) => k = Len(c))
  OBVIOUS
<1>3. \A i \in 1..k : c[i] \in Byte
  BY <1>2
<1> HIDE DEF k, t
<1>4. /\ SubSeq(c, 1, k) \in Seq(Byte)
      /\ Len(SubSeq(c, 1, k)) = (IF 1 <= k THEN k - 1 + 1 ELSE 0)
      /\ \A i \in 1..(k - 1 + 1) : SubSeq(c, 1, k)[i] = c[1 + i - 1]
  BY <1>2, <1>3, SubSeqProperties
<1>5. Len(t) = k
  BY <1>1, <1>2, <1>4
<1>6. \A i \in 1..k : t[i] = c[i]
  <2>1. k - 1 + 1 = k /\ \A i \in 1..k : 1 + i - 1 = i
    BY <1>2
  <2> QED BY <1>1, <1>4, <2>1
<1>7. n >= Len(c) => t = c
  BY <1>1, <1>2, SubSeqFull
<1> QED BY <1>1, <1>4, <1>5, <1>6, <1>7 DEF k, t

\* A header keeps its length when bytes follow it, or are taken away behind it.
LEMMA SameDeclared ==
  ASSUME NEW d \in Seq(Byte), NEW e \in Seq(Byte), WholeHeader(d), DeclaredBytes(d) # 0,
         HeaderLength(d) <= Len(e), \A i \in 1..HeaderLength(d) : e[i] = d[i]
  PROVE  WholeHeader(e) /\ DeclaredBytes(e) = DeclaredBytes(d)
<1>1. WholeHeader(e) /\ get_tx_rlp_len(e) = get_tx_rlp_len(d)
  BY SameHeader
<1>2. d # <<>> /\ e # <<>>
  BY <1>1 DEF WholeHeader
<1> QED BY <1>1, <1>2 DEF DeclaredBytes

\* The first packet.
LEMMA FirstStep ==
  ASSUME NEW c \in Seq(Byte), WholeHeader(c), Session!EthFirst("path", c)
  PROVE  /\ buffer' \in Seq(Byte)
         /\ Session!EthFirstCode("path", c) = "OK" =>
              /\ WholeHeader(buffer') /\ DeclaredBytes(buffer') # 0
              /\ Len(buffer') <= BufferSize
              /\ Session!EthFirstComplete("path", c) =>
                   DeclaredBytes(buffer') = Len(buffer')
<1> DEFINE t == Session!Take(c, DeclaredBytes(c))
           ok == Session!EthFirstCode("path", c) = "OK"
<1>1. DeclaredBytes(c) \in Nat
  BY DeclaredType
<1>2. buffer' = IF ok THEN t ELSE <<>>
  BY DEF Session!EthFirst
<1>3. /\ t \in Seq(Byte) /\ Len(t) = IF DeclaredBytes(c) < Len(c) THEN DeclaredBytes(c) ELSE Len(c)
      /\ \A i \in 1..Len(t) : t[i] = c[i]
      /\ DeclaredBytes(c) >= Len(c) => t = c
  BY <1>1, TakeType
<1>4. <<>> \in Seq(Byte)
  BY EmptySeq
<1>5. buffer' \in Seq(Byte)
  <2> HIDE DEF t, ok
  <2> QED BY <1>2, <1>3, <1>4
<1>6. ASSUME ok
      PROVE  /\ WholeHeader(buffer') /\ DeclaredBytes(buffer') # 0
             /\ Len(buffer') <= BufferSize
             /\ Session!EthFirstComplete("path", c) => DeclaredBytes(buffer') = Len(buffer')
  <2>1. DeclaredBytes(c) # 0 /\ ~(Len(t) > BufferSize)
    BY <1>6 DEF Session!EthFirstCode
  <2>2. /\ HeaderLength(c) \in 1..10 /\ HeaderLength(c) <= Len(c)
        /\ DeclaredBytes(c) >= HeaderLength(c)
    BY <2>1, HeaderType, DeclaredType
  <2>3. HeaderLength(c) <= Len(t) /\ \A i \in 1..HeaderLength(c) : t[i] = c[i]
    <3> HIDE DEF t
    <3> QED BY <1>1, <1>3, <2>2
  <2>4. WholeHeader(t) /\ DeclaredBytes(t) = DeclaredBytes(c)
    <3> HIDE DEF t
    <3> QED BY <1>3, <2>1, <2>3, SameDeclared
  <2>5. buffer' = t
    <3> HIDE DEF t
    <3> QED BY <1>2, <1>6
  <2>6. Len(t) <= BufferSize
    <3>1. Len(t) \in Nat /\ BufferSize \in Nat
      <4> HIDE DEF t
      <4> QED BY <1>3, EthReaderAssumption
    <3> HIDE DEF t
    <3> QED BY <2>1, <3>1
  <2>7. ASSUME Session!EthFirstComplete("path", c) PROVE DeclaredBytes(t) = Len(t)
    <3>1. DeclaredBytes(c) = Len(c)
      BY <2>7 DEF Session!EthFirstComplete
    <3> HIDE DEF t
    <3> QED BY <1>1, <1>3, <2>4, <3>1
  <2> HIDE DEF t
  <2> QED BY <2>1, <2>4, <2>5, <2>6, <2>7
<1> QED BY <1>5, <1>6

\* The packets behind it.
LEMMA MoreStep ==
  ASSUME NEW c \in Seq(Byte), Session!EthMore(c),
         buffer \in Seq(Byte), WholeHeader(buffer), DeclaredBytes(buffer) # 0
  PROVE  /\ buffer' \in Seq(Byte)
         /\ Session!EthMoreCode(c) = "OK" =>
              /\ WholeHeader(buffer') /\ DeclaredBytes(buffer') # 0
              /\ Len(buffer') <= BufferSize
              /\ Session!EthMoreComplete(c) => DeclaredBytes(buffer') = Len(buffer')
<1> DEFINE missing == DeclaredBytes(buffer) - Len(buffer)
           kept == Session!Kept(c)
<1>1. missing \in Int /\ DeclaredBytes(buffer) \in Nat /\ Len(buffer) \in Nat
  BY DeclaredType
<1>2. kept \in Seq(Byte) /\ (missing >= Len(c) => kept = c)
  <2>1. kept = IF missing < 0 THEN c ELSE Session!Take(c, missing)
    BY DEF Session!Kept, Session!Missing
  <2> HIDE DEF missing, kept
  <2>2. CASE missing < 0
    BY <2>1, <2>2
  <2>3. CASE ~(missing < 0)
    <3>1. missing \in Nat
      BY <1>1, <2>3
    <3> QED BY <2>1, <2>3, <3>1, TakeType
  <2> QED BY <2>2, <2>3
<1>3. buffer' = IF Session!EthMoreCode(c) = "OK" THEN buffer \o kept ELSE buffer
  BY DEF Session!EthMore
<1> HIDE DEF kept
<1>4. /\ buffer \o kept \in Seq(Byte)
      /\ Len(buffer \o kept) = Len(buffer) + Len(kept)
      /\ \A i \in 1..Len(buffer) : (buffer \o kept)[i] = buffer[i]
  BY <1>2
<1>5. ASSUME Session!EthMoreCode(c) = "OK"
      PROVE  /\ WholeHeader(buffer') /\ DeclaredBytes(buffer') # 0
             /\ Len(buffer') <= BufferSize
             /\ Session!EthMoreComplete(c) => DeclaredBytes(buffer') = Len(buffer')
  <2>1. HeaderLength(buffer) \in 1..10 /\ HeaderLength(buffer) <= Len(buffer)
    BY HeaderType
  <2>2. HeaderLength(buffer) <= Len(buffer \o kept)
    BY <1>2, <1>4, <2>1
  <2>3. \A i \in 1..HeaderLength(buffer) : (buffer \o kept)[i] = buffer[i]
    BY <1>1, <1>4, <2>1
  <2>4. WholeHeader(buffer \o kept) /\ DeclaredBytes(buffer \o kept) = DeclaredBytes(buffer)
    <3> DEFINE e == buffer \o kept
    <3>1. e \in Seq(Byte) /\ HeaderLength(buffer) <= Len(e)
          /\ \A i \in 1..HeaderLength(buffer) : e[i] = buffer[i]
      BY <1>4, <2>2, <2>3
    <3> HIDE DEF e
    <3>2. WholeHeader(e) /\ DeclaredBytes(e) = DeclaredBytes(buffer)
      BY <3>1, SameDeclared
    <3> QED BY <3>2 DEF e
  <2>5. Session!Fits(kept)
    BY <1>5 DEF Session!EthMoreCode, kept
  <2>6. Len(buffer \o kept) <= BufferSize
    BY <1>4, <2>5 DEF Session!Fits
  <2>7. ASSUME Session!EthMoreComplete(c)
        PROVE  DeclaredBytes(buffer) = Len(buffer \o kept)
    <3>1. missing = Len(c)
      BY <2>7 DEF Session!EthMoreComplete, Session!Missing
    <3>2. kept = c
      <4> HIDE DEF missing
      <4> QED BY <1>1, <1>2, <3>1
    <3>3. Len(c) \in Nat
      OBVIOUS
    <3> QED BY <1>1, <1>4, <3>1, <3>2, <3>3
  <2> QED BY <1>3, <1>5, <2>4, <2>6, <2>7
<1> QED BY <1>3, <1>4, <1>5

-----------------------------------------------------------------------------
(* The invariant. *)

Collecting == status = "more" => WholeHeader(buffer) /\ DeclaredBytes(buffer) # 0

\* Whatever is between two packets of a transaction begins with its whole header;
\* whatever is under review has been read into an object of places in the buffer.
EthInv ==
  /\ message \in Message /\ sent \in Nat
  /\ buffer \in Seq(Byte)
  /\ Shape(eth_tx_obj)
  /\ Collecting
  /\ status = "review" => InBuffer(eth_tx_obj, buffer)
  /\ HeaderWasChecked

LEMMA EthInvInit == Init => EthInv
<1> SUFFICES ASSUME Init PROVE EthInv
  OBVIOUS
<1>1. message \in Message
  BY EthReaderAssumption DEF Init
<1>2. sent \in Nat /\ status = "refused" /\ refusal = "none"
  BY DEF Init
<1>3. buffer = <<>>
  BY DEF Init, Session!SessionInit
<1>4. buffer \in Seq(Byte)
  BY <1>3, EmptySeq
<1>5. Shape(eth_tx_obj)
  <2>1. eth_tx_obj = Zeroed
    BY DEF Init
  <2> QED BY <2>1 DEF Zeroed, Shape, NoField
<1> QED BY <1>1, <1>2, <1>4, <1>5 DEF EthInv, Collecting, HeaderWasChecked

\* What handleSignEth makes of the buffer.
LEMMA HandleStep ==
  ASSUME EthInv, NEW complete, Handle(complete), buffer' \in Seq(Byte),
         WholeHeader(buffer'), DeclaredBytes(buffer') # 0, Len(buffer') <= BufferSize,
         complete => DeclaredBytes(buffer') = Len(buffer')
  PROVE  /\ Shape(eth_tx_obj')
         /\ Collecting'
         /\ status' = "review" => InBuffer(eth_tx_obj', buffer')
         /\ HeaderWasChecked'
<1>1. CASE ~complete
  <2>1. status' = "more" /\ eth_tx_obj' = eth_tx_obj /\ refusal' = refusal
    BY <1>1 DEF Handle
  <2> QED BY <2>1 DEF EthInv, Collecting, HeaderWasChecked
<1>2. CASE complete
  <2>1. /\ eth_tx_obj' = ReadEthAfter(eth_tx_obj, buffer')
        /\ refusal' = _readEth(buffer')
        /\ status' = IF refusal' = "ok" THEN "review" ELSE "refused"
    BY <1>2 DEF Handle
  <2>2. Len(buffer') < Huge
    <3>1. Len(buffer') \in Nat /\ BufferSize \in Nat /\ BufferSize < Huge /\ Huge \in Nat
      BY EthReaderAssumption DEF Huge
    <3> QED BY <3>1
  <2>3. _readEth(buffer') \in {"ok", "invalid"}
    BY <1>2, <2>2, HeaderReadable
  <2>4. Shape(eth_tx_obj)
    BY DEF EthInv
  <2>5. /\ Shape(eth_tx_obj')
        /\ _readEth(buffer') = "ok" => InBuffer(eth_tx_obj', buffer')
    BY <2>1, <2>4, ReadInBuffer
  <2>6. status' # "more" /\ (status' = "review" => _readEth(buffer') = "ok")
    BY <2>1
  <2> QED BY <2>1, <2>3, <2>5, <2>6 DEF Collecting, HeaderWasChecked
<1> QED BY <1>1, <1>2

LEMMA EthInvNext == EthInv /\ [Next]_vars => EthInv'
<1> SUFFICES ASSUME EthInv, [Next]_vars PROVE EthInv'
  OBVIOUS
<1>1. ASSUME NEW m \in Message, NEW size \in PacketSize, SignFirst(m, size)
      PROVE  EthInv'
  <2> DEFINE c == Packet(0, size)
  <2>1. message' = m /\ sent' = Len(c) /\ Session!EthFirst("path", c)
    BY <1>1 DEF SignFirst
  <2>2. c \in Seq(Byte) /\ WholeHeader(c)
    <3>1. c = SubSeq(m.bytes, 0 + 1, IF 0 + size < Len(m.bytes) THEN 0 + size ELSE Len(m.bytes))
      BY <2>1 DEF Packet
    <3> HIDE DEF c
    <3> QED BY <3>1, PacketType
  <2>3. CASE Session!EthFirstCode("path", c) = "OK"
    <3>1. Handle(Session!EthFirstComplete("path", c))
      BY <1>1, <2>3 DEF SignFirst
    <3> HIDE DEF c
    <3>2. /\ buffer' \in Seq(Byte) /\ WholeHeader(buffer') /\ DeclaredBytes(buffer') # 0
          /\ Len(buffer') <= BufferSize
          /\ Session!EthFirstComplete("path", c) => DeclaredBytes(buffer') = Len(buffer')
      BY <2>1, <2>2, <2>3, FirstStep
    <3>3. /\ Shape(eth_tx_obj') /\ Collecting' /\ HeaderWasChecked'
          /\ status' = "review" => InBuffer(eth_tx_obj', buffer')
      BY <3>1, <3>2, HandleStep
    <3>4. sent' \in Nat
      BY <2>1, <2>2
    <3> QED BY <2>1, <3>2, <3>3, <3>4 DEF EthInv
  <2>4. CASE Session!EthFirstCode("path", c) # "OK"
    <3>1. status' = "refused" /\ refusal' = "none" /\ eth_tx_obj' = eth_tx_obj
      BY <1>1, <2>4 DEF SignFirst
    <3> HIDE DEF c
    <3>2. buffer' \in Seq(Byte)
      BY <2>1, <2>2, FirstStep
    <3>3. sent' \in Nat
      BY <2>1, <2>2
    <3> QED BY <2>1, <3>1, <3>2, <3>3 DEF EthInv, Collecting, HeaderWasChecked
  <2> QED BY <2>3, <2>4
<1>2. ASSUME NEW size \in PacketSize, SignMore(size)
      PROVE  EthInv'
  <2> DEFINE c == Packet(sent, size)
  <2>1. /\ status = "more" /\ message' = message /\ sent' = sent + Len(c)
        /\ Session!EthMore(c)
    BY <1>2 DEF SignMore
  <2>2. message \in Message /\ sent \in Nat /\ buffer \in Seq(Byte)
        /\ WholeHeader(buffer) /\ DeclaredBytes(buffer) # 0
    BY <2>1 DEF EthInv, Collecting
  <2>3. c \in Seq(Byte)
    <3>1. c = SubSeq(message.bytes, sent + 1,
                     IF sent + size < Len(message.bytes) THEN sent + size
                     ELSE Len(message.bytes))
      BY <2>1 DEF Packet
    <3> HIDE DEF c
    <3> QED BY <2>2, <3>1, PacketType
  <2>4. CASE Session!EthMoreCode(c) = "OK"
    <3>1. Handle(Session!EthMoreComplete(c))
      BY <1>2, <2>4 DEF SignMore
    <3> HIDE DEF c
    <3>2. /\ buffer' \in Seq(Byte) /\ WholeHeader(buffer') /\ DeclaredBytes(buffer') # 0
          /\ Len(buffer') <= BufferSize
          /\ Session!EthMoreComplete(c) => DeclaredBytes(buffer') = Len(buffer')
      BY <2>1, <2>2, <2>3, <2>4, MoreStep
    <3>3. /\ Shape(eth_tx_obj') /\ Collecting' /\ HeaderWasChecked'
          /\ status' = "review" => InBuffer(eth_tx_obj', buffer')
      BY <3>1, <3>2, HandleStep
    <3>4. sent' \in Nat
      BY <2>1, <2>2, <2>3
    <3> QED BY <2>1, <2>2, <3>2, <3>3, <3>4 DEF EthInv
  <2>5. CASE Session!EthMoreCode(c) # "OK"
    <3>1. status' = "refused" /\ refusal' = "none" /\ eth_tx_obj' = eth_tx_obj
      BY <1>2, <2>5 DEF SignMore
    <3> HIDE DEF c
    <3>2. buffer' \in Seq(Byte)
      BY <2>1, <2>2, <2>3, MoreStep
    <3>3. sent' \in Nat
      BY <2>1, <2>2, <2>3
    <3>4. Shape(eth_tx_obj)
      BY DEF EthInv
    <3> QED BY <2>1, <2>2, <3>1, <3>2, <3>3, <3>4 DEF EthInv, Collecting, HeaderWasChecked
  <2> QED BY <2>4, <2>5
<1>3. ASSUME status' # "more", status' # "review",
             UNCHANGED <<session, eth_tx_obj, refusal, message, sent>>
      PROVE  EthInv'
  <2>1. buffer' = buffer
    BY <1>3 DEF session
  <2> QED BY <1>3, <2>1 DEF EthInv, Collecting, HeaderWasChecked
<1>4. CASE Approve
  <2>1. status' \in {"failed", "signed"}
    BY <1>4 DEF Approve
  <2> QED BY <1>3, <1>4, <2>1 DEF Approve
<1>5. CASE Reject
  BY <1>3, <1>5 DEF Reject
<1>6. CASE UNCHANGED vars
  <2>1. buffer' = buffer
    BY <1>6 DEF vars, session
  <2> QED BY <1>6, <2>1 DEF vars, EthInv, Collecting, HeaderWasChecked, InBuffer
<1> QED BY <1>1, <1>2, <1>4, <1>5, <1>6 DEF Next

LEMMA EthInvariant == Spec => []EthInv
BY EthInvInit, EthInvNext, PTL DEF Spec

\* Whatever bytes the host sends, in whatever packets, a transaction whose end the
\* session finds has a header the parser can read.
THEOREM EthHeaderWasChecked == Spec => []HeaderWasChecked
<1>1. EthInv => HeaderWasChecked
  BY DEF EthInv
<1> QED BY <1>1, EthInvariant, PTL

\* What is copied or made a number of by its place in the buffer is in it.
THEOREM EthReadsInBuffer == Spec => []ReadsInBuffer
<1>1. EthInv => ReadsInBuffer
  BY DEF EthInv, InBuffer, ReadsInBuffer
<1> QED BY <1>1, EthInvariant, PTL

-----------------------------------------------------------------------------
(* Types. *)

\* An object as the device holds it.
Object(o) == o \in EthTx /\ Len(o.address) = ETH_ADDRESS_LEN

PlaceNames == {"nonce", "gas_price", "gas_limit", "value", "data"}

AnyPlace == [offset : Nat, len : Int]

\* What a field leaves of a place.
LEMMA PlaceKept ==
  ASSUME NEW b, NEW at, NEW old \in AnyPlace, NEW f, f.offset \in Nat, f.len \in Int
  PROVE  PlaceAfter(old, b, at, f) \in AnyPlace
BY DEF PlaceAfter, Place, AnyPlace

\* Twenty bytes are copied, whatever is behind the buffer.
LEMMA CopiedType ==
  ASSUME NEW b \in Seq(Byte), NEW offset \in Nat
  PROVE  /\ Copied(b, offset, ETH_ADDRESS_LEN) \in Seq(Byte)
         /\ Len(Copied(b, offset, ETH_ADDRESS_LEN)) = ETH_ADDRESS_LEN
<1> DEFINE n == ETH_ADDRESS_LEN
           c == [i \in 1..n |-> IF offset + i \in DOMAIN b THEN b[offset + i] ELSE 0]
<1>1. n \in Nat
  BY DEF ETH_ADDRESS_LEN
<1>2. \A i \in 1..n : (IF offset + i \in DOMAIN b THEN b[offset + i] ELSE 0) \in Byte
  <2> TAKE i \in 1..n
  <2>1. 0 \in Byte
    BY DEF Byte
  <2>2. \A j \in DOMAIN b : b[j] \in Byte
    OBVIOUS
  <2> QED BY <2>1, <2>2
<1> HIDE DEF n
<1>3. c \in [1..n -> Byte]
  BY <1>2
<1>4. c \in Seq(Byte) /\ Len(c) = n
  <2> HIDE DEF c
  <2> QED BY <1>1, <1>3
<1> QED BY <1>4 DEF n, Copied

\* Every place has its field.
LEMMA NameIndex ==
  ASSUME NEW n \in PlaceNames
  PROVE  (CHOOSE i \in DOMAIN Names : Names[i] = n) \in 1..9
<1>1. DOMAIN Names = 1..9
  BY DEF Names
<1>2. \E i \in 1..9 : Names[i] = n
  <2>1. /\ Names[1] = "nonce" /\ Names[2] = "gas_price" /\ Names[3] = "gas_limit"
        /\ Names[5] = "value" /\ Names[6] = "data"
    BY DEF Names
  <2>2. n \in {Names[1], Names[2], Names[3], Names[5], Names[6]}
    BY <2>1 DEF PlaceNames
  <2>3. 1 \in 1..9 /\ 2 \in 1..9 /\ 3 \in 1..9 /\ 5 \in 1..9 /\ 6 \in 1..9
    OBVIOUS
  <2> QED BY <2>2, <2>3
<1> QED BY <1>1, <1>2

LEMMA ObjectParts ==
  ASSUME NEW o, Object(o)
  PROVE  /\ Shape(o) /\ o.tx_type \in Byte /\ o.chain_id \in AnyPlace
         /\ o.address \in Seq(Byte) /\ Len(o.address) = ETH_ADDRESS_LEN
         /\ o.places \in [PlaceNames -> AnyPlace]
BY DEF Object, EthTx, Shape, AnyPlace, PlaceNames

LEMMA PartsObject ==
  ASSUME NEW type \in Byte, NEW chain \in AnyPlace, NEW address \in Seq(Byte),
         Len(address) = ETH_ADDRESS_LEN, NEW places \in [PlaceNames -> AnyPlace]
  PROVE  Object([tx_type |-> type, chain_id |-> chain, address |-> address,
                 places |-> places])
<1> DEFINE o == [tx_type |-> type, chain_id |-> chain, address |-> address,
                 places |-> places]
<1>1. o \in EthTx
  BY DEF EthTx, AnyPlace, PlaceNames
<1>2. o.address = address
  OBVIOUS
<1> QED BY <1>1, <1>2 DEF Object

\* A legacy transaction is read into an object, wherever reading stops.
LEMMA LegacyObject ==
  ASSUME NEW b \in Seq(Byte), NEW start \in Nat, NEW old, Object(old)
  PROVE  Object(LegacyAfter(old, b, start, Fields(b, start)))
<1> DEFINE f     == Fields(b, start)
           last  == Reached(b, f)
           At(i) == IF i = 1 THEN start ELSE f[i - 1].next
           After(i, place) == IF i > last THEN place ELSE PlaceAfter(place, b, At(i), f[i])
           Index(n) == CHOOSE i \in DOMAIN Names : Names[i] = n
           read  == 4 <= last /\ f[4].ok /\ f[4].len # 0 /\ AddressOk(b, f[4])
           to    == IF read THEN Copied(b, f[4].offset, ETH_ADDRESS_LEN) ELSE old.address
           none  == LegacyPlain(b, f) /\ LegacyEnds(b, f)
           chain == IF none THEN [old.chain_id EXCEPT !.len = 0] ELSE After(7, old.chain_id)
           places == [n \in DOMAIN old.places |-> After(Index(n), old.places[n])]
<1>1. /\ old.tx_type \in Byte /\ old.chain_id \in AnyPlace
      /\ old.address \in Seq(Byte) /\ Len(old.address) = ETH_ADDRESS_LEN
      /\ old.places \in [PlaceNames -> AnyPlace]
  BY ObjectParts
<1>2. \A i \in 1..9 : f[i].offset \in Nat /\ f[i].len \in Int
  BY FieldsType
<1>3. ASSUME NEW i \in 1..9, NEW place \in AnyPlace PROVE After(i, place) \in AnyPlace
  <2>1. f[i].offset \in Nat /\ f[i].len \in Int
    BY <1>2
  <2> HIDE DEF f, last, At
  <2>2. PlaceAfter(place, b, At(i), f[i]) \in AnyPlace
    BY <2>1, PlaceKept
  <2> QED BY <2>2
<1>4. chain \in AnyPlace
  <2>1. [old.chain_id EXCEPT !.len = 0] \in AnyPlace
    BY <1>1 DEF AnyPlace
  <2>2. After(7, old.chain_id) \in AnyPlace
    <3> HIDE DEF After
    <3> QED BY <1>1, <1>3
  <2> HIDE DEF After, none
  <2> QED BY <2>1, <2>2
<1>5. to \in Seq(Byte) /\ Len(to) = ETH_ADDRESS_LEN
  <2>1. f[4].offset \in Nat
    BY <1>2
  <2> HIDE DEF f, read
  <2>2. /\ Copied(b, f[4].offset, ETH_ADDRESS_LEN) \in Seq(Byte)
        /\ Len(Copied(b, f[4].offset, ETH_ADDRESS_LEN)) = ETH_ADDRESS_LEN
    BY <2>1, CopiedType
  <2> QED BY <1>1, <2>2
<1>6. places \in [PlaceNames -> AnyPlace]
  <2>1. DOMAIN old.places = PlaceNames /\ \A n \in PlaceNames : old.places[n] \in AnyPlace
    BY <1>1
  <2>2. ASSUME NEW n \in PlaceNames PROVE After(Index(n), old.places[n]) \in AnyPlace
    <3>1. Index(n) \in 1..9
      BY NameIndex
    <3> HIDE DEF After, Index
    <3> QED BY <1>3, <2>1, <3>1
  <2> HIDE DEF After, Index
  <2> QED BY <2>1, <2>2
<1>7. LegacyAfter(old, b, start, f) =
        [tx_type |-> old.tx_type, chain_id |-> chain, address |-> to, places |-> places]
  BY DEF LegacyAfter
<1> HIDE DEF f, chain, to, places
<1>8. Object([tx_type |-> old.tx_type, chain_id |-> chain, address |-> to, places |-> places])
  BY <1>1, <1>4, <1>5, <1>6, PartsObject
<1> QED BY <1>7, <1>8 DEF f

\* So is any other.
LEMMA ReadObject ==
  ASSUME NEW b \in Seq(Byte), NEW old, Object(old)
  PROVE  Object(ReadEthAfter(old, b))
<1> DEFINE typed == TypeRead(old, b)
<1>1. /\ old.tx_type \in Byte /\ old.chain_id \in AnyPlace
      /\ old.address \in Seq(Byte) /\ Len(old.address) = ETH_ADDRESS_LEN
      /\ old.places \in [PlaceNames -> AnyPlace] /\ Shape(old)
  BY ObjectParts
<1>2. CASE _readEth(b) \in {"init_context_empty", "unsupported_tx"}
  <2>1. ReadEthAfter(old, b) = old
    BY <1>2 DEF ReadEthAfter
  <2> QED BY <2>1
<1>3. CASE ~(_readEth(b) \in {"init_context_empty", "unsupported_tx"})
  <2>1. b # <<>>
    BY <1>3 DEF _readEth
  <2>2. b[1] \in Byte
    <3>1. Len(b) # 0 /\ Len(b) \in Nat
      BY <2>1, EmptySeq
    <3> QED BY <3>1
  <2>3. Object(typed)
    <3>1. typed = [tx_type |-> b[1], chain_id |-> old.chain_id, address |-> old.address,
                   places |-> old.places]
      BY <1>1 DEF TypeRead, Shape
    <3>2. Object([tx_type |-> b[1], chain_id |-> old.chain_id, address |-> old.address,
                  places |-> old.places])
      BY <1>1, <2>2, PartsObject
    <3> HIDE DEF typed
    <3> QED BY <3>1, <3>2
  <2>4. CASE ~HeaderOk(b)
    <3>1. ReadEthAfter(old, b) = typed
      BY <1>3, <2>4 DEF ReadEthAfter
    <3> HIDE DEF typed
    <3> QED BY <2>3, <3>1
  <2>5. CASE HeaderOk(b)
    <3>1. FirstField(b) \in Nat
      BY <2>1, <2>5, FirstFieldType
    <3>2. CASE Typed(b)
      <4> DEFINE place == PlaceAfter(typed.chain_id, b, FirstField(b), Field(b, FirstField(b)))
      <4>1. ReadEthAfter(old, b) = ChainRead(typed, b)
        BY <1>3, <2>5, <3>2 DEF ReadEthAfter
      <4>2. ChainRead(typed, b) = [typed EXCEPT !.chain_id = place]
        BY DEF ChainRead
      <4> HIDE DEF typed
      <4>3. /\ typed.tx_type \in Byte /\ typed.chain_id \in AnyPlace
            /\ typed.address \in Seq(Byte) /\ Len(typed.address) = ETH_ADDRESS_LEN
            /\ typed.places \in [PlaceNames -> AnyPlace] /\ Shape(typed)
        BY <2>3, ObjectParts
      <4>4. place \in AnyPlace
        BY <3>1, <4>3, PlaceType DEF AnyPlace
      <4> HIDE DEF place
      <4>5. [typed EXCEPT !.chain_id = place] =
              [tx_type |-> typed.tx_type, chain_id |-> place, address |-> typed.address,
               places |-> typed.places]
        BY <4>3 DEF Shape
      <4>6. Object([tx_type |-> typed.tx_type, chain_id |-> place,
                    address |-> typed.address, places |-> typed.places])
        BY <4>3, <4>4, PartsObject
      <4> QED BY <4>1, <4>2, <4>5, <4>6
    <3>3. CASE ~Typed(b)
      <4>1. ReadEthAfter(old, b) =
              LegacyAfter(typed, b, FirstField(b), Fields(b, FirstField(b)))
        BY <1>3, <2>5, <3>3 DEF ReadEthAfter
      <4> HIDE DEF typed
      <4>2. Object(LegacyAfter(typed, b, FirstField(b), Fields(b, FirstField(b))))
        BY <2>3, <3>1, LegacyObject
      <4> QED BY <4>1, <4>2
    <3> QED BY <3>2, <3>3
  <2> QED BY <2>4, <2>5
<1> QED BY <1>2, <1>3

\* The recovery value is a byte.
LEMMA RecoveryByte ==
  ASSUME NEW b \in Seq(Byte), NEW o, Object(o), InBuffer(o, b), NEW odd \in {0, 1}
  PROVE  _computeV(o, b, odd) \in 0..255 \cup {NoV}
<1> DEFINE chain == o.chain_id
           sum == 35 + odd + 2 * be_bytes_to_u64(Bytes(b, chain))
<1>1. chain \in AnyPlace
  BY ObjectParts
<1>2. chain.offset \in Nat /\ chain.len \in Int
  BY <1>1 DEF AnyPlace
<1>3. CASE o.tx_type \in {1, 2}
  <2>1. _computeV(o, b, odd) = odd
    BY <1>3 DEF _computeV
  <2> QED BY <2>1
<1>4. CASE o.tx_type \notin {1, 2} /\ chain.len = 0
  <2>1. _computeV(o, b, odd) = 27 + odd
    BY <1>4 DEF _computeV
  <2> QED BY <2>1
<1>5. CASE o.tx_type \notin {1, 2} /\ chain.len \notin 0..8
  <2>1. chain.len # 0
    BY <1>2, <1>5
  <2>2. _computeV(o, b, odd) = NoV
    BY <1>5, <2>1 DEF _computeV
  <2> QED BY <2>2
<1>6. CASE o.tx_type \notin {1, 2} /\ chain.len \in 1..8
  <2>1. chain.len # 0 /\ chain.len \in 0..8
    BY <1>6
  <2>2. _computeV(o, b, odd) = sum % 256
    BY <1>6, <2>1 DEF _computeV
  <2>3. chain.len % 256 = chain.len
    BY <1>6
  <2>4. chain.offset + chain.len <= Len(b)
    BY <2>1, <2>3 DEF InBuffer
  <2>5. Bytes(b, chain) \in Seq(Byte)
    <3> DEFINE first == chain.offset + 1
               last  == chain.offset + chain.len
    <3>1. first \in 1..Len(b) /\ last \in 1..Len(b) /\ first <= last
      <4> DEFINE k == chain.len
                 p == chain.offset
                 l == Len(b)
      <4>1. k \in 1..8 /\ p \in Nat /\ l \in Nat /\ p + k <= l
        BY <1>2, <1>6, <2>4
      <4> HIDE DEF k, p, l
      <4>2. p + 1 \in 1..l /\ p + k \in 1..l /\ p + 1 <= p + k
        BY <4>1
      <4> QED BY <4>2 DEF k, p, l
    <3>2. Bytes(b, chain) = SubSeq(b, first, last)
      BY DEF Bytes
    <3> HIDE DEF first, last, chain
    <3>3. SubSeq(b, first, last) \in Seq(Byte)
      BY <3>1, SubSeqProperties
    <3> QED BY <3>2, <3>3
  <2>6. be_bytes_to_u64(Bytes(b, chain)) \in Int
    BY <2>5, NumberType
  <2>7. sum \in Int
    <3> HIDE DEF chain
    <3> QED BY <2>6
  <2>8. sum % 256 \in 0..255
    <3> HIDE DEF sum
    <3> QED BY <2>7
  <2> QED BY <2>2, <2>8
<1>7. chain.len \in 1..8 \/ chain.len = 0 \/ chain.len \notin 0..8
  BY <1>2
<1> QED BY <1>3, <1>4, <1>5, <1>6, <1>7

-----------------------------------------------------------------------------
(* Types, continued: the steps. *)

\* How long a packet is, and what it holds.
LEMMA PacketBytes ==
  ASSUME NEW d \in Seq(Byte), NEW from \in 0..Len(d), NEW size \in PacketSize
  PROVE  LET e == IF from + size < Len(d) THEN from + size ELSE Len(d)
             c == SubSeq(d, from + 1, e)
         IN /\ c \in Seq(Byte) /\ from + Len(c) = e
            /\ \A i \in 1..Len(c) : c[i] = d[from + i]
<1> DEFINE e == IF from + size < Len(d) THEN from + size ELSE Len(d)
           c == SubSeq(d, from + 1, e)
<1>1. /\ size \in Nat /\ size >= 10 /\ Len(d) \in Nat
      /\ from \in Nat /\ from <= Len(d)
  BY EthReaderAssumption
<1>2. e \in Nat /\ e <= Len(d) /\ from <= e
  BY <1>1
<1>3. \A i \in (from + 1)..e : d[i] \in Byte
  <2> HIDE DEF e
  <2> QED BY <1>1, <1>2
<1> HIDE DEF e
<1>4. /\ SubSeq(d, from + 1, e) \in Seq(Byte)
      /\ Len(SubSeq(d, from + 1, e)) = (IF from + 1 <= e THEN e - (from + 1) + 1 ELSE 0)
      /\ \A i \in 1..(e - (from + 1) + 1) : SubSeq(d, from + 1, e)[i] = d[from + 1 + i - 1]
  BY <1>1, <1>2, <1>3, SubSeqProperties
<1> HIDE DEF c
<1>5. Len(c) = e - from
  BY <1>1, <1>2, <1>4 DEF c
<1>6. e - (from + 1) + 1 = e - from /\ \A i \in 1..(e - from) : from + 1 + i - 1 = from + i
  BY <1>1, <1>2
<1>7. \A i \in 1..Len(c) : c[i] = d[from + i]
  BY <1>4, <1>5, <1>6 DEF c
<1>8. from + Len(c) = e
  BY <1>1, <1>2, <1>5
<1> QED BY <1>4, <1>7, <1>8 DEF c, e

LEMMA MessageBytes ==
  ASSUME NEW m \in Message
  PROVE  m.bytes \in Seq(Byte) /\ WholeHeader(m.bytes) /\ Len(m.bytes) \in Nat
BY EthReaderAssumption DEF AnyMessage

LEMMA EthTypeInit == Init => ReaderTypeOK
<1> SUFFICES ASSUME Init PROVE ReaderTypeOK
  OBVIOUS
<1>1. /\ tx_initialized = FALSE /\ tx_type = "oasis" /\ buffer = <<>> /\ hdPath = "none"
  BY DEF Init, Session!SessionInit
<1>2. /\ eth_tx_obj = Zeroed /\ status = "refused" /\ v = NoV /\ parity = 0
      /\ sent = 0 /\ received = 0
  BY DEF Init
<1>3. message \in Message
  BY EthReaderAssumption DEF Init
<1>4. Object(Zeroed)
  <2> DEFINE zeros == [i \in 1..ETH_ADDRESS_LEN |-> 0]
             none == [n \in PlaceNames |-> NoField]
  <2>1. 0 \in Byte
    BY DEF Byte
  <2>2. NoField \in AnyPlace
    BY DEF NoField, AnyPlace
  <2>3. ETH_ADDRESS_LEN \in Nat
    BY DEF ETH_ADDRESS_LEN
  <2>4. zeros \in [1..ETH_ADDRESS_LEN -> Byte]
    BY <2>1
  <2>5. zeros \in Seq(Byte) /\ Len(zeros) = ETH_ADDRESS_LEN
    <3> HIDE DEF zeros
    <3> QED BY <2>3, <2>4
  <2>6. none \in [PlaceNames -> AnyPlace]
    BY <2>2
  <2>7. Zeroed = [tx_type |-> 0, chain_id |-> NoField, address |-> zeros, places |-> none]
    BY DEF Zeroed, PlaceNames
  <2> HIDE DEF zeros, none
  <2>8. Object([tx_type |-> 0, chain_id |-> NoField, address |-> zeros, places |-> none])
    BY <2>1, <2>2, <2>5, <2>6, PartsObject
  <2> QED BY <2>7, <2>8
<1>5. buffer \in Seq(Byte) /\ Len(buffer) = 0
  BY <1>1, EmptySeq
<1>6. Len(buffer) <= BufferSize
  BY <1>5, EthReaderAssumption
<1>7. received \in 0..MaxMessages
  BY <1>2, EthReaderAssumption
<1>8. sent \in 0..Len(message.bytes)
  BY <1>2, <1>3, MessageBytes
<1>9. tx_initialized \in BOOLEAN /\ tx_type \in {"oasis", "eth"} /\ hdPath \in {"none", "path"}
  BY <1>1
<1>10. status \in Status /\ v \in 0..255 \cup {NoV} /\ parity \in {0, 1}
  BY <1>2 DEF Status
<1> QED BY <1>2, <1>4, <1>5, <1>6, <1>7, <1>8, <1>9, <1>10 DEF ReaderTypeOK, Object

\* What handleSignEth leaves.
LEMMA HandleType ==
  ASSUME Object(eth_tx_obj), NEW complete, Handle(complete), buffer' \in Seq(Byte)
  PROVE  Object(eth_tx_obj') /\ status' \in Status
<1>1. CASE ~complete
  BY <1>1 DEF Handle, Status
<1>2. CASE complete
  <2>1. eth_tx_obj' = ReadEthAfter(eth_tx_obj, buffer')
    BY <1>2 DEF Handle
  <2>2. Object(eth_tx_obj')
    BY <2>1, ReadObject
  <2>3. status' \in Status
    BY <1>2 DEF Handle, Status
  <2> QED BY <2>2, <2>3
<1> QED BY <1>1, <1>2

LEMMA EthTypeNext == EthInv /\ ReaderTypeOK /\ [Next]_vars => ReaderTypeOK'
<1> SUFFICES ASSUME EthInv, ReaderTypeOK, [Next]_vars PROVE ReaderTypeOK'
  OBVIOUS
<1>0. Object(eth_tx_obj)
  BY DEF ReaderTypeOK, Object
<1>1. ASSUME NEW m \in Message, NEW size \in PacketSize, SignFirst(m, size)
      PROVE  ReaderTypeOK'
  <2> DEFINE c == Packet(0, size)
             code == Session!EthFirstCode("path", c)
  <2>1. /\ message' = m /\ sent' = Len(c) /\ Session!EthFirst("path", c)
        /\ received < MaxMessages /\ received' = received + 1
        /\ v' = NoV /\ parity' = parity
    BY <1>1 DEF SignFirst
  <2>2. m.bytes \in Seq(Byte) /\ Len(m.bytes) \in Nat
    BY MessageBytes
  <2>3. c = SubSeq(m.bytes, 0 + 1, IF 0 + size < Len(m.bytes) THEN 0 + size ELSE Len(m.bytes))
    BY <2>1 DEF Packet
  <2>4. c \in Seq(Byte) /\ WholeHeader(c)
    <3> HIDE DEF c
    <3> QED BY <2>3, PacketType
  <2>5. sent' \in 0..Len(message'.bytes)
    <3>1. 0 \in 0..Len(m.bytes)
      BY <2>2
    <3> HIDE DEF c
    <3>2. 0 + Len(c) = IF 0 + size < Len(m.bytes) THEN 0 + size ELSE Len(m.bytes)
      BY <2>2, <2>3, <3>1, PacketBytes
    <3>3. size \in Nat
      BY EthReaderAssumption
    <3>4. Len(c) \in Nat
      BY <2>4
    <3> QED BY <2>1, <2>2, <3>2, <3>3, <3>4
  <2>6. received' \in 0..MaxMessages
    BY <2>1, EthReaderAssumption DEF ReaderTypeOK
  <2>7. tx_type' = "eth" /\ hdPath' = "path" /\ tx_initialized' \in BOOLEAN
    BY <2>1 DEF Session!EthFirst, Session!extract_eth_path
  <2>8. buffer' \in Seq(Byte)
    <3> HIDE DEF c
    <3> QED BY <2>1, <2>4, FirstStep
  <2>9. Len(buffer') <= BufferSize
    <3>1. CASE code = "OK"
      <4> HIDE DEF c
      <4> QED BY <2>1, <2>4, <3>1, FirstStep
    <3>2. CASE code # "OK"
      <4>1. buffer' = <<>>
        BY <2>1, <3>2 DEF Session!EthFirst
      <4>2. Len(buffer') = 0
        BY <4>1, EmptySeq
      <4> QED BY <4>2, EthReaderAssumption
    <3> QED BY <3>1, <3>2
  <2>10. Object(eth_tx_obj') /\ status' \in Status
    <3>1. CASE code = "OK"
      <4>1. Handle(Session!EthFirstComplete("path", c))
        BY <1>1, <3>1 DEF SignFirst
      <4> HIDE DEF c, code
      <4> QED BY <1>0, <2>8, <4>1, HandleType
    <3>2. CASE code # "OK"
      <4>1. status' = "refused" /\ eth_tx_obj' = eth_tx_obj
        BY <1>1, <3>2 DEF SignFirst
      <4> QED BY <1>0, <4>1 DEF Status
    <3> QED BY <3>1, <3>2
  <2>11. v' \in 0..255 \cup {NoV} /\ parity' \in {0, 1}
    BY <2>1 DEF ReaderTypeOK
  <2> QED BY <2>5, <2>6, <2>7, <2>8, <2>9, <2>10, <2>11 DEF ReaderTypeOK, Object
<1>2. ASSUME NEW size \in PacketSize, SignMore(size)
      PROVE  ReaderTypeOK'
  <2> DEFINE c == Packet(sent, size)
             code == Session!EthMoreCode(c)
  <2>1. /\ status = "more" /\ message' = message /\ sent' = sent + Len(c)
        /\ Session!EthMore(c) /\ received' = received /\ v' = v /\ parity' = parity
    BY <1>2 DEF SignMore, signing
  <2>2. message \in Message /\ buffer \in Seq(Byte)
        /\ WholeHeader(buffer) /\ DeclaredBytes(buffer) # 0
    BY <2>1 DEF EthInv, Collecting
  <2>3. message.bytes \in Seq(Byte) /\ Len(message.bytes) \in Nat
        /\ sent \in 0..Len(message.bytes)
    BY <2>2, MessageBytes DEF ReaderTypeOK
  <2>4. c = SubSeq(message.bytes, sent + 1,
                   IF sent + size < Len(message.bytes) THEN sent + size
                   ELSE Len(message.bytes))
    BY <2>1 DEF Packet
  <2>5. /\ c \in Seq(Byte)
        /\ sent + Len(c) = IF sent + size < Len(message.bytes) THEN sent + size
                           ELSE Len(message.bytes)
    <3> HIDE DEF c
    <3> QED BY <2>3, <2>4, PacketBytes
  <2>6. sent' \in 0..Len(message'.bytes)
    <3>1. size \in Nat
      BY EthReaderAssumption
    <3> HIDE DEF c
    <3> QED BY <2>1, <2>3, <2>5, <3>1
  <2>7. tx_type' = tx_type /\ hdPath' = hdPath /\ tx_initialized' \in BOOLEAN
    BY <2>1 DEF Session!EthMore
  <2>8. buffer' \in Seq(Byte)
    <3> HIDE DEF c
    <3> QED BY <2>1, <2>2, <2>5, MoreStep
  <2>9. Len(buffer') <= BufferSize
    <3>1. CASE code = "OK"
      <4> HIDE DEF c
      <4> QED BY <2>1, <2>2, <2>5, <3>1, MoreStep
    <3>2. CASE code # "OK"
      <4>1. buffer' = buffer
        BY <2>1, <3>2 DEF Session!EthMore
      <4> QED BY <4>1 DEF ReaderTypeOK
    <3> QED BY <3>1, <3>2
  <2>10. Object(eth_tx_obj') /\ status' \in Status
    <3>1. CASE code = "OK"
      <4>1. Handle(Session!EthMoreComplete(c))
        BY <1>2, <3>1 DEF SignMore
      <4> HIDE DEF c, code
      <4> QED BY <1>0, <2>8, <4>1, HandleType
    <3>2. CASE code # "OK"
      <4>1. status' = "refused" /\ eth_tx_obj' = eth_tx_obj
        BY <1>2, <3>2 DEF SignMore
      <4> QED BY <1>0, <4>1 DEF Status
    <3> QED BY <3>1, <3>2
  <2> HIDE DEF c, code
  <2> QED BY <2>1, <2>6, <2>7, <2>8, <2>9, <2>10 DEF ReaderTypeOK, Object
<1>3. CASE Approve
  <2>1. status = "review"
    BY <1>3 DEF Approve
  <2>2. PICK odd \in {0, 1} : parity' = odd /\ v' = _computeV(eth_tx_obj, buffer, odd)
    BY <1>3 DEF Approve
  <2>3. v' \in 0..255 \cup {NoV}
    <3>1. buffer \in Seq(Byte) /\ InBuffer(eth_tx_obj, buffer)
      BY <2>1 DEF EthInv
    <3> QED BY <1>0, <2>2, <3>1, RecoveryByte
  <2>4. status' \in Status
    BY <1>3 DEF Approve, Status
  <2>5. UNCHANGED <<tx_initialized, tx_type, buffer, hdPath, eth_tx_obj, message, sent, received>>
    BY <1>3 DEF Approve, session
  <2> QED BY <2>2, <2>3, <2>4, <2>5 DEF ReaderTypeOK
<1>4. CASE Reject
  <2>1. UNCHANGED <<tx_initialized, tx_type, buffer, hdPath, eth_tx_obj, v, parity, message,
                    sent, received>>
    BY <1>4 DEF Reject, session, signing
  <2>2. status' \in Status
    BY <1>4 DEF Reject, Status
  <2> QED BY <2>1, <2>2 DEF ReaderTypeOK
<1>5. CASE UNCHANGED vars
  BY <1>5 DEF vars, session, signing, ReaderTypeOK
<1> QED BY <1>1, <1>2, <1>3, <1>4, <1>5 DEF Next

\* The type invariant of parser and session: what is kept of a field is a place,
\* the address has its length, and the recovery value is a byte.
THEOREM EthTypeCorrect == Spec => []ReaderTypeOK
BY EthTypeInit, EthTypeNext, EthInvariant, PTL DEF Spec

-----------------------------------------------------------------------------
(* What the object holds is of the bytes under review. *)

FieldIndex(n) == CHOOSE i \in DOMAIN Names : Names[i] = n

\* What the object holds of a transaction of this kind is what the buffer says.  A
\* typed one has its type and chain read and leaves the rest as it was, and so does
\* one without an address with the address.
ReadFrom(o, b) ==
  LET f == Fields(b, FirstField(b)) IN
  /\ o.tx_type = b[1]
  /\ Typed(b) => ChainOk(b, f[1]) /\ o.chain_id = Place(f[1])
  /\ ~Typed(b) =>
       /\ b[1] >= 192 /\ LegacyPlain(b, f)
       /\ \A n \in PlaceNames : o.places[n] = Place(f[FieldIndex(n)])
       /\ f[4].len # 0 => o.address = Copied(b, f[4].offset, ETH_ADDRESS_LEN)
       /\ LegacyEnds(b, f) => o.chain_id.len = 0
       /\ ~LegacyEnds(b, f) => ChainOk(b, f[7]) /\ o.chain_id = Place(f[7])

\* Each of the five places has a field before the chain.
LEMMA PlaceIndex ==
  ASSUME NEW n \in PlaceNames
  PROVE  FieldIndex(n) \in 1..6
<1>1. DOMAIN Names = 1..9
  BY DEF Names
<1>2. /\ Names[1] = "nonce" /\ Names[2] = "gas_price" /\ Names[3] = "gas_limit"
      /\ Names[4] = "address" /\ Names[5] = "value" /\ Names[6] = "data"
      /\ Names[7] = "chain_id" /\ Names[8] = "r" /\ Names[9] = "s"
  BY DEF Names
<1>3. \E i \in 1..9 : Names[i] = n
  <2>1. n \in {Names[1], Names[2], Names[3], Names[5], Names[6]}
    BY <1>2 DEF PlaceNames
  <2>2. 1 \in 1..9 /\ 2 \in 1..9 /\ 3 \in 1..9 /\ 5 \in 1..9 /\ 6 \in 1..9
    OBVIOUS
  <2> QED BY <2>1, <2>2
<1>4. FieldIndex(n) \in 1..9 /\ Names[FieldIndex(n)] = n
  BY <1>1, <1>3 DEF FieldIndex
<1>5. n # Names[7] /\ n # Names[8] /\ n # Names[9]
  BY <1>2 DEF PlaceNames
<1>6. FieldIndex(n) # 7 /\ FieldIndex(n) # 8 /\ FieldIndex(n) # 9
  BY <1>4, <1>5
<1> QED BY <1>4, <1>6

\* A field that is read is kept with its place.
LEMMA FieldPlace ==
  ASSUME NEW b \in Seq(Byte), NEW at \in Nat, NEW old, Field(b, at).ok
  PROVE  PlaceAfter(old, b, at, Field(b, at)) = Place(Field(b, at))
<1>1. at < Len(b)
  BY DEF Field, FieldOf
<1>2. ~(at >= Len(b))
  BY <1>1
<1> QED BY <1>2 DEF PlaceAfter

\* Where each field of a legacy transaction begins.
LEMMA FieldStarts ==
  ASSUME NEW b \in Seq(Byte), NEW start \in Nat, NEW i \in 1..7
  PROVE  LET f  == Fields(b, start)
             at == IF i = 1 THEN start ELSE f[i - 1].next
         IN at \in Nat /\ f[i] = Field(b, at)
<1> DEFINE f == Fields(b, start)
           at(k) == IF k = 1 THEN start ELSE f[k - 1].next
<1>1. at(i) \in Nat
  <2>1. i # 1 => i - 1 \in 1..9
    OBVIOUS
  <2>2. \A j \in 1..9 : f[j].next \in Nat
    BY FieldsType
  <2> HIDE DEF f
  <2> QED BY <2>1, <2>2
<1>2. f[i] = Field(b, at(i))
  <2>0. /\ f[1] = NonceIn(b, start) /\ f[2] = GasPriceIn(b, start)
        /\ f[3] = GasLimitIn(b, start) /\ f[4] = AddressIn(b, start)
        /\ f[5] = ValueIn(b, start) /\ f[6] = DataIn(b, start) /\ f[7] = ChainIdIn(b, start)
    BY DEF Fields
  <2> HIDE DEF f
  <2>1. /\ f[1] = Field(b, start) /\ f[2] = Field(b, f[1].next)
        /\ f[3] = Field(b, f[2].next) /\ f[4] = Field(b, f[3].next)
        /\ f[5] = Field(b, f[4].next) /\ f[6] = Field(b, f[5].next)
        /\ f[7] = Field(b, f[6].next)
    BY <2>0 DEF NonceIn, GasPriceIn, GasLimitIn, AddressIn, ValueIn, DataIn, ChainIdIn
  <2>2. i = 1 \/ i = 2 \/ i = 3 \/ i = 4 \/ i = 5 \/ i = 6 \/ i = 7
    OBVIOUS
  <2>3. /\ at(1) = start /\ at(2) = f[1].next /\ at(3) = f[2].next /\ at(4) = f[3].next
        /\ at(5) = f[4].next /\ at(6) = f[5].next /\ at(7) = f[6].next
    OBVIOUS
  <2> HIDE DEF at
  <2> QED BY <2>1, <2>2, <2>3
<1> QED BY <1>1, <1>2

\* A legacy transaction that is accepted has been read to its data or its chain.
LEMMA LegacyReached ==
  ASSUME NEW b \in Seq(Byte), NEW f, LegacyPlain(b, f)
  PROVE  Reached(b, f) = IF LegacyEnds(b, f) THEN 6 ELSE 7
<1>1. \A j \in 1..5 : ~Stops(b, f, j)
  BY DEF LegacyPlain, Stops
<1>2. Stops(b, f, 6) <=> LegacyEnds(b, f)
  BY DEF LegacyPlain, Stops
<1>3. Stops(b, f, 7)
  BY DEF Stops
<1>4. \E i \in 1..7 : Stops(b, f, i) /\ \A j \in 1..(i - 1) : ~Stops(b, f, j)
  <2>1. CASE LegacyEnds(b, f)
    <3>1. Stops(b, f, 6) /\ \A j \in 1..(6 - 1) : ~Stops(b, f, j)
      BY <1>1, <1>2, <2>1
    <3> QED BY <3>1
  <2>2. CASE ~LegacyEnds(b, f)
    <3>1. \A j \in 1..(7 - 1) : ~Stops(b, f, j)
      <4> TAKE j \in 1..(7 - 1)
      <4>1. j \in 1..5 \/ j = 6
        OBVIOUS
      <4> QED BY <1>1, <1>2, <2>2, <4>1
    <3> QED BY <1>3, <3>1
  <2> QED BY <2>1, <2>2
<1> DEFINE last == Reached(b, f)
<1>5. last \in 1..7 /\ Stops(b, f, last) /\ \A j \in 1..(last - 1) : ~Stops(b, f, j)
  BY <1>4 DEF Reached
<1> HIDE DEF last
<1>6. last \notin 1..5
  BY <1>1, <1>5
<1>7. last \in {6, 7}
  BY <1>5, <1>6
<1>8. LegacyEnds(b, f) => last # 7
  <2> SUFFICES ASSUME LegacyEnds(b, f), last = 7 PROVE FALSE
    OBVIOUS
  <2>1. 6 \in 1..(last - 1)
    OBVIOUS
  <2> QED BY <1>2, <1>5, <2>1
<1>9. ~LegacyEnds(b, f) => last # 6
  BY <1>2, <1>5
<1> QED BY <1>7, <1>8, <1>9 DEF last

\* All of it is kept.
LEMMA LegacyRead ==
  ASSUME NEW b \in Seq(Byte), NEW start \in Nat, NEW old, Object(old),
         parse_legacy_tx(b, Fields(b, start))
  PROVE  LET f   == Fields(b, start)
             new == LegacyAfter(old, b, start, f)
         IN /\ new.tx_type = old.tx_type /\ LegacyPlain(b, f)
            /\ \A n \in PlaceNames : new.places[n] = Place(f[FieldIndex(n)])
            /\ f[4].len # 0 => new.address = Copied(b, f[4].offset, ETH_ADDRESS_LEN)
            /\ LegacyEnds(b, f) => new.chain_id.len = 0
            /\ ~LegacyEnds(b, f) => ChainOk(b, f[7]) /\ new.chain_id = Place(f[7])
<1> DEFINE f     == Fields(b, start)
           new   == LegacyAfter(old, b, start, f)
           last  == Reached(b, f)
           At(i) == IF i = 1 THEN start ELSE f[i - 1].next
           After(i, place) == IF i > last THEN place ELSE PlaceAfter(place, b, At(i), f[i])
           read  == 4 <= last /\ f[4].ok /\ f[4].len # 0 /\ AddressOk(b, f[4])
           none  == LegacyPlain(b, f) /\ LegacyEnds(b, f)
<1>1. LegacyPlain(b, f) /\ (~LegacyEnds(b, f) => ChainOk(b, f[7]))
  BY DEF parse_legacy_tx
<1>2. last = IF LegacyEnds(b, f) THEN 6 ELSE 7
  <2> HIDE DEF f
  <2> QED BY <1>1, LegacyReached
<1>3. \A i \in 1..6 : f[i].ok
  BY <1>1 DEF LegacyPlain
<1>4. ~LegacyEnds(b, f) => f[7].ok
  BY <1>1 DEF ChainOk
<1>5. DOMAIN old.places = PlaceNames /\ old.chain_id \in AnyPlace
  BY ObjectParts
<1>6. /\ new.tx_type = old.tx_type
      /\ new.places = [n \in DOMAIN old.places |-> After(FieldIndex(n), old.places[n])]
      /\ new.address = IF read THEN Copied(b, f[4].offset, ETH_ADDRESS_LEN) ELSE old.address
      /\ new.chain_id = IF none THEN [old.chain_id EXCEPT !.len = 0] ELSE After(7, old.chain_id)
  BY DEF LegacyAfter, FieldIndex
<1> HIDE DEF new
<1>7. ASSUME NEW i \in 1..7, i <= last, NEW place PROVE After(i, place) = Place(f[i])
  <2>1. f[i].ok
    <3>1. i \in 1..6 \/ (i = 7 /\ ~LegacyEnds(b, f))
      <4> HIDE DEF last, f
      <4> QED BY <1>2, <1>7
    <3> HIDE DEF f
    <3> QED BY <1>3, <1>4, <3>1
  <2>2. At(i) \in Nat /\ f[i] = Field(b, At(i))
    BY FieldStarts
  <2>3. ~(i > last)
    <3> HIDE DEF last
    <3> QED BY <1>2, <1>7
  <2> HIDE DEF f, last, At
  <2> QED BY <2>1, <2>2, <2>3, FieldPlace
<1>8. ASSUME NEW n \in PlaceNames PROVE new.places[n] = Place(f[FieldIndex(n)])
  <2>1. FieldIndex(n) \in 1..6
    BY PlaceIndex
  <2>2. FieldIndex(n) \in 1..7 /\ FieldIndex(n) <= last
    <3> HIDE DEF last, f
    <3> QED BY <1>2, <2>1
  <2> HIDE DEF After, f
  <2> QED BY <1>5, <1>6, <1>7, <2>2
<1>9. f[4].len # 0 => new.address = Copied(b, f[4].offset, ETH_ADDRESS_LEN)
  <2>1. f[4].ok /\ AddressOk(b, f[4])
    BY <1>1 DEF LegacyPlain
  <2>2. 4 <= last
    <3> HIDE DEF last, f
    <3> QED BY <1>2
  <2> HIDE DEF f, last
  <2> QED BY <1>6, <2>1, <2>2
<1>10. LegacyEnds(b, f) => new.chain_id.len = 0
  <2>1. none => new.chain_id.len = 0
    <3> HIDE DEF none, After
    <3> QED BY <1>5, <1>6 DEF AnyPlace
  <2> QED BY <1>1, <2>1
<1>11. ~LegacyEnds(b, f) => new.chain_id = Place(f[7])
  <2> SUFFICES ASSUME ~LegacyEnds(b, f) PROVE new.chain_id = Place(f[7])
    OBVIOUS
  <2>1. ~none
    OBVIOUS
  <2>2. 7 \in 1..7 /\ 7 <= last
    <3> HIDE DEF last, f
    <3> QED BY <1>2
  <2> HIDE DEF none, After, f
  <2> QED BY <1>6, <1>7, <2>1, <2>2
<1> QED BY <1>1, <1>6, <1>8, <1>9, <1>10, <1>11 DEF new

\* A transaction that is read leaves an object of its own.
LEMMA ReadIsFrom ==
  ASSUME NEW b \in Seq(Byte), NEW old, Object(old), _readEth(b) = "ok"
  PROVE  ReadFrom(ReadEthAfter(old, b), b)
<1> DEFINE new   == ReadEthAfter(old, b)
           typed == TypeRead(old, b)
           start == FirstField(b)
           f     == Fields(b, start)
<1>1. b # <<>> /\ (Typed(b) \/ ~(b[1] < 192)) /\ HeaderOk(b)
  BY DEF _readEth
<1>2. _readEth(b) \notin {"init_context_empty", "unsupported_tx"}
  OBVIOUS
<1>3. start \in Nat /\ b[1] \in Byte
  <2>1. Len(b) # 0 /\ Len(b) \in Nat
    BY <1>1, EmptySeq
  <2> QED BY <1>1, <2>1, FirstFieldType
<1>4. Shape(old)
  BY ObjectParts
<1>5. Object(typed) /\ Shape(typed) /\ typed.tx_type = b[1]
  <2>1. /\ old.chain_id \in AnyPlace
        /\ old.address \in Seq(Byte) /\ Len(old.address) = ETH_ADDRESS_LEN
        /\ old.places \in [PlaceNames -> AnyPlace]
    BY ObjectParts
  <2>2. typed = [tx_type |-> b[1], chain_id |-> old.chain_id, address |-> old.address,
                 places |-> old.places]
    BY <1>4 DEF TypeRead, Shape
  <2>3. Object([tx_type |-> b[1], chain_id |-> old.chain_id, address |-> old.address,
                places |-> old.places])
    BY <1>3, <2>1, PartsObject
  <2>4. Shape(typed) /\ typed.tx_type = b[1]
    BY <1>4, StepShape
  <2> HIDE DEF typed
  <2> QED BY <2>2, <2>3, <2>4
<1>6. CASE Typed(b)
  <2>1. new = ChainRead(typed, b)
    BY <1>1, <1>2, <1>6 DEF ReadEthAfter
  <2>2. ChainOk(b, Field(b, start))
    BY <1>1, <1>6 DEF _readEth
  <2>3. /\ new.tx_type = b[1]
        /\ new.chain_id = PlaceAfter(typed.chain_id, b, start, Field(b, start))
    <3> HIDE DEF typed, new
    <3> QED BY <1>3, <1>5, <2>1, StepShape
  <2>4. Field(b, start).ok
    BY <2>2 DEF ChainOk
  <2>5. new.chain_id = Place(Field(b, start))
    <3> HIDE DEF typed, new, start
    <3> QED BY <1>3, <2>3, <2>4, FieldPlace
  <2>6. f[1] = Field(b, start)
    BY DEF Fields, NonceIn
  <2> HIDE DEF typed, new, f
  <2> QED BY <1>6, <2>2, <2>3, <2>5, <2>6 DEF ReadFrom, f, new
<1>7. CASE ~Typed(b)
  <2>1. new = LegacyAfter(typed, b, start, f)
    BY <1>1, <1>2, <1>7 DEF ReadEthAfter
  <2>2. parse_legacy_tx(b, f)
    BY <1>1, <1>7 DEF _readEth
  <2> HIDE DEF typed, new, start
  <2>3. /\ new.tx_type = typed.tx_type /\ LegacyPlain(b, f)
        /\ \A n \in PlaceNames : new.places[n] = Place(f[FieldIndex(n)])
        /\ f[4].len # 0 => new.address = Copied(b, f[4].offset, ETH_ADDRESS_LEN)
        /\ LegacyEnds(b, f) => new.chain_id.len = 0
        /\ ~LegacyEnds(b, f) => ChainOk(b, f[7]) /\ new.chain_id = Place(f[7])
    BY <1>3, <1>5, <2>1, <2>2, LegacyRead
  <2>4. b[1] >= 192
    <3>1. b[1] \in Nat
      BY <1>3, ByteType
    <3> QED BY <1>1, <1>7, <3>1
  <2> HIDE DEF f
  <2> QED BY <1>5, <1>7, <2>3, <2>4 DEF ReadFrom, f, start, new
<1> QED BY <1>6, <1>7

-----------------------------------------------------------------------------
(* A transaction in packets. *)

\* As long as its header says, and not longer than the buffer.
Whole(m) == DeclaredBytes(m.bytes) = Len(m.bytes) /\ Len(m.bytes) <= BufferSize

\* Between two packets the buffer is what has been sent, and not all of it; behind
\* the last one it is the transaction, which has been read once.
InPackets ==
  /\ Len(buffer) = sent
  /\ \A i \in 1..sent : buffer[i] = message.bytes[i]
  /\ status = "more" => tx_initialized /\ sent < Len(message.bytes)
  /\ status # "more" => sent = Len(message.bytes) /\ refusal = _readEth(buffer)

Answered == {"signed", "failed"}

\* What was read at its last byte is what is reviewed, and what the recovery value
\* is made from.
WholeInv ==
  /\ status \in Answered \cup {"more", "review"} => received > 0
  /\ status \in Answered \cup {"review"} =>
       refusal = "ok" /\ ReadFrom(eth_tx_obj, buffer) /\ InBuffer(eth_tx_obj, buffer)
  /\ status \in Answered =>
       v = _computeV(eth_tx_obj, buffer, parity) /\ (status = "failed" <=> v = NoV)
  /\ received > 0 /\ Whole(message) => InPackets

LEMMA WholeInvInit == Init => WholeInv
<1> SUFFICES ASSUME Init PROVE WholeInv
  OBVIOUS
<1>1. status = "refused" /\ received = 0
  BY DEF Init
<1>2. ~(received > 0)
  BY <1>1
<1> QED BY <1>1, <1>2 DEF WholeInv, Answered

\* What handleSignEth leaves of an accepted transaction.
LEMMA HandleReads ==
  ASSUME Object(eth_tx_obj), NEW complete, Handle(complete), buffer' \in Seq(Byte)
  PROVE  /\ complete => status' # "more" /\ refusal' = _readEth(buffer')
         /\ ~complete => status' = "more"
         /\ status' \in {"more", "review", "refused"}
         /\ status' = "review" => refusal' = "ok" /\ ReadFrom(eth_tx_obj', buffer')
                                  /\ InBuffer(eth_tx_obj', buffer')
<1>1. CASE ~complete
  BY <1>1 DEF Handle
<1>2. CASE complete
  <2>1. /\ eth_tx_obj' = ReadEthAfter(eth_tx_obj, buffer')
        /\ refusal' = _readEth(buffer')
        /\ status' = IF refusal' = "ok" THEN "review" ELSE "refused"
    BY <1>2 DEF Handle
  <2>2. _readEth(buffer') = "ok" =>
          ReadFrom(eth_tx_obj', buffer') /\ InBuffer(eth_tx_obj', buffer')
    <3>1. Shape(eth_tx_obj)
      BY ObjectParts
    <3> QED BY <2>1, <3>1, ReadIsFrom, ReadInBuffer
  <2> QED BY <1>2, <2>1, <2>2
<1> QED BY <1>1, <1>2

\* The header that comes with a part of a transaction is the transaction's.
LEMMA PartDeclared ==
  ASSUME NEW d \in Seq(Byte), NEW e \in Seq(Byte), WholeHeader(e), DeclaredBytes(e) # 0,
         Len(e) <= Len(d), \A i \in 1..Len(e) : e[i] = d[i]
  PROVE  DeclaredBytes(e) = DeclaredBytes(d)
<1>1. HeaderLength(e) \in 1..10 /\ HeaderLength(e) <= Len(e)
  BY HeaderType
<1>2. Len(e) \in Nat /\ Len(d) \in Nat
  OBVIOUS
<1>3. HeaderLength(e) <= Len(d)
  BY <1>1, <1>2
<1>4. \A i \in 1..HeaderLength(e) : d[i] = e[i]
  BY <1>1, <1>2
<1> QED BY <1>3, <1>4, SameDeclared

\* The first packet of a whole transaction is taken, and ends it if it is all of it.
LEMMA FirstWhole ==
  ASSUME NEW m \in Message, Whole(m), NEW size \in PacketSize, NEW c,
         c = SubSeq(m.bytes, 0 + 1, IF 0 + size < Len(m.bytes) THEN 0 + size ELSE Len(m.bytes)),
         Session!EthFirst("path", c)
  PROVE  /\ Session!EthFirstCode("path", c) = "OK"
         /\ buffer' = c /\ tx_initialized' = TRUE
         /\ Len(c) <= Len(m.bytes) /\ \A i \in 1..Len(c) : c[i] = m.bytes[i]
         /\ Session!EthFirstComplete("path", c) <=> Len(c) = Len(m.bytes)
<1> DEFINE d == m.bytes
           e == IF 0 + size < Len(d) THEN 0 + size ELSE Len(d)
<1>1. d \in Seq(Byte) /\ WholeHeader(d) /\ Len(d) \in Nat /\ size \in Nat /\ size >= 10
      /\ 0 \in 0..Len(d)
  BY MessageBytes, EthReaderAssumption
<1>2. c \in Seq(Byte) /\ WholeHeader(c) /\ Len(c) \in Nat
  <2>1. c \in Seq(Byte) /\ WholeHeader(c)
    BY PacketType
  <2> QED BY <2>1
<1>3. 0 + Len(c) = e /\ \A i \in 1..Len(c) : c[i] = d[0 + i]
  <2> HIDE DEF d
  <2> QED BY <1>1, PacketBytes DEF d
<1>4. Len(c) <= Len(d) /\ \A i \in 1..Len(c) : c[i] = d[i]
  <2>1. \A i \in 1..Len(c) : 0 + i = i
    OBVIOUS
  <2> HIDE DEF d
  <2> QED BY <1>1, <1>2, <1>3, <2>1
<1>5. HeaderLength(d) \in 1..10 /\ HeaderLength(d) <= Len(d)
  BY <1>1, HeaderType
<1>6. HeaderLength(d) <= Len(c)
  <2> HIDE DEF d
  <2> QED BY <1>1, <1>2, <1>3, <1>5
<1>7. DeclaredBytes(d) = Len(d) /\ DeclaredBytes(d) # 0
  <2>1. DeclaredBytes(d) = Len(d)
    BY DEF Whole
  <2> HIDE DEF d
  <2> QED BY <1>1, <1>5, <2>1
<1>8. DeclaredBytes(c) = Len(d)
  <2>1. \A i \in 1..HeaderLength(d) : c[i] = d[i]
    <3> TAKE i \in 1..HeaderLength(d)
    <3>1. i \in 1..Len(c)
      <4> HIDE DEF d
      <4> QED BY ONLY <1>2, <1>5, <1>6, i \in 1..HeaderLength(d)
    <3> QED BY ONLY <1>4, <3>1
  <2> HIDE DEF d
  <2> QED BY <1>1, <1>2, <1>6, <1>7, <2>1, SameDeclared
<1>9. Session!Take(c, DeclaredBytes(c)) = c
  <2> DEFINE n == DeclaredBytes(c)
  <2>1. n \in Nat /\ n >= Len(c)
    <3> HIDE DEF d
    <3> QED BY <1>1, <1>2, <1>4, <1>8
  <2> HIDE DEF n
  <2>2. Session!Take(c, n) = c
    BY <1>2, <2>1, TakeType
  <2> QED BY <2>2 DEF n
<1>10. Len(c) <= BufferSize
  <2>1. Len(d) <= BufferSize
    BY DEF Whole
  <2> HIDE DEF d
  <2> QED BY <1>1, <1>2, <1>4, <2>1, EthReaderAssumption
<1>11. Session!EthFirstCode("path", c) = "OK"
  <2>1. "path" \in {"path"} /\ DeclaredBytes(c) # 0
    BY <1>7, <1>8
  <2>2. ~(Len(Session!Take(c, DeclaredBytes(c))) > BufferSize)
    <3>1. ~(Len(c) > BufferSize)
      BY <1>2, <1>10, EthReaderAssumption
    <3> QED BY <1>9, <3>1
  <2> QED BY <2>1, <2>2 DEF Session!EthFirstCode
<1>12. buffer' = c /\ tx_initialized' = TRUE
  BY <1>9, <1>11 DEF Session!EthFirst
<1>13. Session!EthFirstComplete("path", c) <=> Len(c) = Len(d)
  <2>1. Session!EthFirstComplete("path", c) <=> DeclaredBytes(c) = Len(c)
    BY <1>11 DEF Session!EthFirstComplete
  <2> HIDE DEF d
  <2> QED BY <1>8, <2>1
<1> QED BY <1>4, <1>11, <1>12, <1>13

\* So is every other.
LEMMA MoreWhole ==
  ASSUME message \in Message, Whole(message), NEW size \in PacketSize, NEW c,
         sent \in 0..Len(message.bytes),
         c = SubSeq(message.bytes, sent + 1,
                    IF sent + size < Len(message.bytes) THEN sent + size ELSE Len(message.bytes)),
         Session!EthMore(c), tx_initialized = TRUE, InPackets,
         buffer \in Seq(Byte), WholeHeader(buffer), DeclaredBytes(buffer) # 0
  PROVE  /\ Session!EthMoreCode(c) = "OK"
         /\ Len(buffer') = sent + Len(c) /\ sent + Len(c) <= Len(message.bytes)
         /\ \A i \in 1..(sent + Len(c)) : buffer'[i] = message.bytes[i]
         /\ Session!EthMoreComplete(c) => sent + Len(c) = Len(message.bytes)
         /\ ~Session!EthMoreComplete(c) => sent + Len(c) < Len(message.bytes) /\ tx_initialized' = TRUE
<1> DEFINE d == message.bytes
           e == IF sent + size < Len(d) THEN sent + size ELSE Len(d)
           missing == DeclaredBytes(buffer) - Len(buffer)
           kept == Session!Kept(c)
<1>0. Len(buffer) = sent /\ \A i \in 1..sent : buffer[i] = message.bytes[i]
  BY DEF InPackets
<1>1. d \in Seq(Byte) /\ Len(d) \in Nat /\ size \in Nat /\ sent \in Nat /\ sent <= Len(d)
  BY MessageBytes, EthReaderAssumption
<1>2. c \in Seq(Byte) /\ sent + Len(c) = e /\ \A i \in 1..Len(c) : c[i] = d[sent + i]
  <2>1. sent \in 0..Len(d)
    OBVIOUS
  <2> HIDE DEF d
  <2> QED BY <1>1, <2>1, PacketBytes DEF d
<1>3. Len(c) \in Nat /\ sent + Len(c) <= Len(d)
  <2>1. Len(c) \in Nat
    BY <1>2
  <2> HIDE DEF d
  <2> QED BY <1>1, <1>2, <2>1
<1>4. DeclaredBytes(buffer) = Len(d)
  <2>1. DeclaredBytes(buffer) = DeclaredBytes(d)
    <3>1. Len(buffer) <= Len(d) /\ \A i \in 1..Len(buffer) : buffer[i] = d[i]
      BY <1>0, <1>1
    <3> HIDE DEF d
    <3> QED BY <1>1, <3>1, PartDeclared
  <2> QED BY <2>1 DEF Whole
<1>5. missing = Len(d) - sent
  BY <1>0, <1>4
<1>6. kept = c
  <2>1. kept = IF missing < 0 THEN c ELSE Session!Take(c, missing)
    BY DEF Session!Kept, Session!Missing
  <2> HIDE DEF missing, kept, d
  <2>2. missing \in Nat /\ missing >= Len(c)
    BY <1>1, <1>3, <1>5
  <2>3. ~(missing < 0)
    BY <2>2
  <2> QED BY <1>2, <2>1, <2>2, <2>3, TakeType
<1>7. Session!Fits(kept)
  <2>1. Len(d) <= BufferSize /\ BufferSize \in Nat
    BY EthReaderAssumption DEF Whole
  <2>2. sent + Len(c) <= BufferSize
    <3> DEFINE l == Len(d)
               k == Len(c)
    <3>1. sent + k <= l /\ l <= BufferSize /\ l \in Nat /\ k \in Nat /\ sent \in Nat
          /\ BufferSize \in Nat
      BY <1>1, <1>3, <2>1
    <3> HIDE DEF l, k
    <3>2. sent + k <= BufferSize
      BY ONLY <3>1
    <3> QED BY <3>2 DEF k
  <2> HIDE DEF kept
  <2> QED BY <1>0, <1>6, <2>2 DEF Session!Fits
<1>8. Session!EthMoreCode(c) = "OK"
  BY <1>7 DEF Session!EthMoreCode
<1>9. buffer' = buffer \o c
  <2> HIDE DEF kept
  <2> QED BY <1>6, <1>8 DEF Session!EthMore, kept
<1>10. Len(buffer') = sent + Len(c)
  BY <1>0, <1>2, <1>9
<1>11. \A i \in 1..(sent + Len(c)) : buffer'[i] = d[i]
  <2> TAKE i \in 1..(sent + Len(c))
  <2> HIDE DEF d
  <2>1. CASE i <= sent
    BY <1>0, <1>1, <1>2, <1>3, <1>9, <2>1 DEF d
  <2>2. CASE ~(i <= sent)
    <3>1. i - sent \in 1..Len(c) /\ sent + (i - sent) = i
      BY <1>1, <1>3, <2>2
    <3>2. (buffer \o c)[i] = c[i - sent]
      <4>1. buffer \in Seq(Byte) /\ Len(buffer) = sent /\ c \in Seq(Byte)
            /\ i \in 1..(Len(buffer) + Len(c)) /\ ~(i <= Len(buffer))
        BY <1>0, <1>2, <2>2
      <4>2. (buffer \o c)[i] = c[i - Len(buffer)]
        BY ONLY <4>1
      <4> QED BY ONLY <4>1, <4>2
    <3> QED BY <1>2, <1>9, <3>1, <3>2
  <2> QED BY <2>1, <2>2
<1>12. Session!EthMoreComplete(c) <=> Len(d) - sent = Len(c)
  <2>1. Session!EthMoreComplete(c) <=> missing = Len(c)
    BY <1>8 DEF Session!EthMoreComplete, Session!Missing
  <2> HIDE DEF missing
  <2> QED BY <1>5, <2>1
<1>13. Session!EthMoreComplete(c) => sent + Len(c) = Len(d)
  <2> HIDE DEF d
  <2> QED BY <1>1, <1>3, <1>12
<1>14. ASSUME ~Session!EthMoreComplete(c)
       PROVE  sent + Len(c) < Len(d) /\ tx_initialized' = TRUE
  <2>1. sent + Len(c) < Len(d)
    <3> HIDE DEF d
    <3> QED BY <1>1, <1>3, <1>12, <1>14
  <2>2. tx_initialized' = TRUE
    BY <1>8, <1>14 DEF Session!EthMore
  <2> QED BY <2>1, <2>2
<1> QED BY <1>3, <1>8, <1>10, <1>11, <1>13, <1>14

LEMMA WholeInvNext == EthInv /\ ReaderTypeOK /\ WholeInv /\ [Next]_vars => WholeInv'
<1> SUFFICES ASSUME EthInv, ReaderTypeOK, WholeInv, [Next]_vars PROVE WholeInv'
  OBVIOUS
<1>0. Object(eth_tx_obj) /\ received \in Nat
  BY EthReaderAssumption DEF ReaderTypeOK, Object
<1>1. ASSUME NEW m \in Message, NEW size \in PacketSize, SignFirst(m, size)
      PROVE  WholeInv'
  <2> DEFINE c == Packet(0, size)
             code == Session!EthFirstCode("path", c)
             complete == Session!EthFirstComplete("path", c)
  <2>1. /\ message' = m /\ sent' = Len(c) /\ Session!EthFirst("path", c)
        /\ received' = received + 1
    BY <1>1 DEF SignFirst
  <2>2. c = SubSeq(m.bytes, 0 + 1, IF 0 + size < Len(m.bytes) THEN 0 + size ELSE Len(m.bytes))
    BY <2>1 DEF Packet
  <2>3. c \in Seq(Byte) /\ WholeHeader(c) /\ Len(c) \in Nat
    <3> HIDE DEF c
    <3>1. c \in Seq(Byte) /\ WholeHeader(c)
      BY <2>2, PacketType
    <3> QED BY <3>1
  <2>4. received' > 0
    BY <1>0, <2>1
  <2>5. code # "OK" => status' = "refused"
    BY <1>1 DEF SignFirst
  <2>6. code = "OK" => Handle(complete)
    BY <1>1 DEF SignFirst
  <2> HIDE DEF c, code, complete
  <2>7. buffer' \in Seq(Byte)
    BY <2>1, <2>3, FirstStep
  <2>8. code = "OK" =>
          /\ complete => status' # "more" /\ refusal' = _readEth(buffer')
          /\ ~complete => status' = "more"
          /\ status' \in {"more", "review", "refused"}
          /\ status' = "review" => refusal' = "ok" /\ ReadFrom(eth_tx_obj', buffer')
                                   /\ InBuffer(eth_tx_obj', buffer')
    BY <1>0, <2>6, <2>7, HandleReads
  <2>9. status' \in {"more", "review", "refused"}
    BY <2>5, <2>8
  <2>10. status' = "review" => refusal' = "ok" /\ ReadFrom(eth_tx_obj', buffer')
                               /\ InBuffer(eth_tx_obj', buffer')
    BY <2>5, <2>8
  <2>11. ASSUME Whole(m) PROVE InPackets'
    <3>1. /\ code = "OK" /\ buffer' = c /\ tx_initialized' = TRUE
          /\ Len(c) <= Len(m.bytes) /\ \A i \in 1..Len(c) : c[i] = m.bytes[i]
          /\ complete <=> Len(c) = Len(m.bytes)
      BY <2>1, <2>2, <2>11, FirstWhole DEF code, complete
    <3>2. Len(buffer') = sent' /\ \A i \in 1..sent' : buffer'[i] = message'.bytes[i]
      BY <2>1, <3>1
    <3>3. status' = "more" => tx_initialized' /\ sent' < Len(message'.bytes)
      <4>1. status' = "more" => ~complete
        BY <2>8, <3>1
      <4>2. Len(m.bytes) \in Nat
        BY MessageBytes
      <4> QED BY <2>1, <2>3, <3>1, <4>1, <4>2
    <3>4. status' # "more" => sent' = Len(message'.bytes) /\ refusal' = _readEth(buffer')
      BY <2>1, <2>8, <3>1
    <3> QED BY <3>2, <3>3, <3>4 DEF InPackets
  <2>12. status' \notin Answered
    BY <2>9 DEF Answered
  <2> QED BY <2>1, <2>4, <2>10, <2>11, <2>12 DEF WholeInv
<1>2. ASSUME NEW size \in PacketSize, SignMore(size)
      PROVE  WholeInv'
  <2> DEFINE c == Packet(sent, size)
             code == Session!EthMoreCode(c)
             complete == Session!EthMoreComplete(c)
  <2>1. /\ status = "more" /\ message' = message /\ sent' = sent + Len(c)
        /\ Session!EthMore(c) /\ received' = received
    BY <1>2 DEF SignMore
  <2>2. message \in Message /\ buffer \in Seq(Byte)
        /\ WholeHeader(buffer) /\ DeclaredBytes(buffer) # 0
    BY <2>1 DEF EthInv, Collecting
  <2>3. message.bytes \in Seq(Byte) /\ Len(message.bytes) \in Nat
        /\ sent \in 0..Len(message.bytes)
    BY <2>2, MessageBytes DEF ReaderTypeOK
  <2>4. c = SubSeq(message.bytes, sent + 1,
                   IF sent + size < Len(message.bytes) THEN sent + size
                   ELSE Len(message.bytes))
    BY <2>1 DEF Packet
  <2>5. received' > 0
    BY <2>1 DEF WholeInv
  <2>6. code # "OK" => status' = "refused"
    BY <1>2 DEF SignMore
  <2>7. code = "OK" => Handle(complete)
    BY <1>2 DEF SignMore
  <2> HIDE DEF c, code, complete
  <2>8. c \in Seq(Byte) /\ buffer' \in Seq(Byte)
    <3>1. c \in Seq(Byte)
      BY <2>3, <2>4, PacketBytes
    <3> QED BY <2>1, <2>2, <3>1, MoreStep
  <2>9. code = "OK" =>
          /\ complete => status' # "more" /\ refusal' = _readEth(buffer')
          /\ ~complete => status' = "more"
          /\ status' \in {"more", "review", "refused"}
          /\ status' = "review" => refusal' = "ok" /\ ReadFrom(eth_tx_obj', buffer')
                                   /\ InBuffer(eth_tx_obj', buffer')
    BY <1>0, <2>7, <2>8, HandleReads
  <2>10. status' \notin Answered
    BY <2>6, <2>9 DEF Answered
  <2>11. status' = "review" => refusal' = "ok" /\ ReadFrom(eth_tx_obj', buffer')
                               /\ InBuffer(eth_tx_obj', buffer')
    BY <2>6, <2>9
  <2>12. ASSUME Whole(message) PROVE InPackets'
    <3>0. InPackets
      BY <2>1, <2>5, <2>12 DEF WholeInv
    <3>1. tx_initialized = TRUE
      BY <2>1, <3>0 DEF InPackets, ReaderTypeOK
    <3>2. /\ code = "OK"
          /\ Len(buffer') = sent + Len(c)
          /\ \A i \in 1..(sent + Len(c)) : buffer'[i] = message.bytes[i]
          /\ complete => sent + Len(c) = Len(message.bytes)
          /\ ~complete => sent + Len(c) < Len(message.bytes) /\ tx_initialized' = TRUE
      <4>1. /\ Session!EthMoreCode(c) = "OK"
            /\ Len(buffer') = sent + Len(c) /\ sent + Len(c) <= Len(message.bytes)
            /\ \A i \in 1..(sent + Len(c)) : buffer'[i] = message.bytes[i]
            /\ Session!EthMoreComplete(c) => sent + Len(c) = Len(message.bytes)
            /\ ~Session!EthMoreComplete(c) =>
                 sent + Len(c) < Len(message.bytes) /\ tx_initialized' = TRUE
        <5>1. Session!EthMore(c)
          BY <2>1
        <5>2. message \in Message /\ Whole(message) /\ sent \in 0..Len(message.bytes)
          BY <2>2, <2>3, <2>12
        <5> HIDE DEF code, complete
        <5> QED BY <2>2, <2>4, <3>0, <3>1, <5>1, <5>2, MoreWhole
      <4> QED BY <4>1 DEF code, complete
    <3>3. Len(buffer') = sent' /\ \A i \in 1..sent' : buffer'[i] = message'.bytes[i]
      BY <2>1, <3>2
    <3>4. status' = "more" => tx_initialized' /\ sent' < Len(message'.bytes)
      BY <2>1, <2>9, <3>2
    <3>5. status' # "more" => sent' = Len(message'.bytes) /\ refusal' = _readEth(buffer')
      BY <2>1, <2>9, <3>2
    <3> QED BY <3>3, <3>4, <3>5 DEF InPackets
  <2> QED BY <2>1, <2>5, <2>10, <2>11, <2>12 DEF WholeInv
<1>3. CASE Approve
  <2>1. /\ status = "review" /\ status' = IF v' = NoV THEN "failed" ELSE "signed"
        /\ UNCHANGED <<tx_initialized, buffer, eth_tx_obj, refusal, message, sent, received>>
    BY <1>3 DEF Approve, session
  <2>2. v' = _computeV(eth_tx_obj', buffer', parity')
    BY <1>3, <2>1 DEF Approve
  <2>3. received > 0 /\ refusal = "ok" /\ ReadFrom(eth_tx_obj, buffer)
        /\ InBuffer(eth_tx_obj, buffer)
    BY <2>1 DEF WholeInv
  <2>4. Whole(message) => InPackets
    BY <2>3 DEF WholeInv
  <2>5. InPackets => InPackets'
    BY <2>1 DEF InPackets
  <2>6. status' = "failed" <=> v' = NoV
    BY <2>1
  <2>7. /\ received' > 0 /\ refusal' = "ok" /\ ReadFrom(eth_tx_obj', buffer')
        /\ InBuffer(eth_tx_obj', buffer') /\ (Whole(message') => InPackets')
    BY <2>1, <2>3, <2>4, <2>5
  <2> QED BY <2>2, <2>6, <2>7 DEF WholeInv
<1>4. CASE Reject
  <2>1. /\ status = "review" /\ status' = "refused"
        /\ UNCHANGED <<tx_initialized, buffer, eth_tx_obj, refusal, message, sent, received>>
    BY <1>4 DEF Reject, session
  <2>2. received > 0
    BY <2>1 DEF WholeInv
  <2>3. Whole(message) => InPackets
    BY <2>2 DEF WholeInv
  <2>4. InPackets => InPackets'
    BY <2>1 DEF InPackets
  <2>5. status' \notin Answered \cup {"more", "review"}
    BY <2>1 DEF Answered
  <2> QED BY <2>1, <2>3, <2>4, <2>5 DEF WholeInv
<1>5. CASE UNCHANGED vars
  <2>1. UNCHANGED <<tx_initialized, buffer, eth_tx_obj, status, refusal, v, parity, message,
                    sent, received>>
    BY <1>5 DEF vars, session, signing
  <2>2. InPackets => InPackets'
    BY <2>1 DEF InPackets
  <2> QED BY <2>1, <2>2 DEF WholeInv
<1> QED BY <1>1, <1>2, <1>3, <1>4, <1>5 DEF Next

LEMMA WholeInvariant == Spec => []WholeInv
BY WholeInvInit, WholeInvNext, EthInvariant, EthTypeCorrect, PTL DEF Spec

\* Behind its last packet a whole transaction is in the buffer.
LEMMA BufferIsMessage ==
  ASSUME EthInv, InPackets, status # "more"
  PROVE  buffer = message.bytes
<1>1. buffer \in Seq(Byte) /\ message \in Message
  BY DEF EthInv
<1>2. message.bytes \in Seq(Byte)
  BY <1>1, MessageBytes
<1>3. Len(buffer) = Len(message.bytes) /\ \A i \in 1..Len(buffer) : buffer[i] = message.bytes[i]
  BY DEF InPackets
<1> QED BY <1>1, <1>2, <1>3, SeqEqual

\* Whatever the packets, a whole transaction that the parser takes is reviewed when
\* its last byte has been sent, and no earlier (process_chunk_eth).
THEOREM WholeIsReviewed ==
  Spec => []((Whole(message) /\ _readEth(message.bytes) = "ok") => ReviewedAtEnd)
<1>1. ASSUME EthInv, WholeInv, Whole(message), _readEth(message.bytes) = "ok"
      PROVE  ReviewedAtEnd
  <2> SUFFICES ASSUME received > 0
               PROVE  /\ status = "more" <=> sent < Len(message.bytes)
                      /\ status # "more" => refusal = "ok" /\ buffer = message.bytes
    BY DEF ReviewedAtEnd
  <2>1. InPackets
    BY <1>1 DEF WholeInv
  <2>2. status = "more" => sent < Len(message.bytes)
    BY <2>1 DEF InPackets
  <2>3. ASSUME status # "more"
        PROVE  ~(sent < Len(message.bytes)) /\ refusal = "ok" /\ buffer = message.bytes
    <3>1. buffer = message.bytes
      BY <1>1, <2>1, <2>3, BufferIsMessage
    <3>2. sent = Len(message.bytes) /\ refusal = _readEth(buffer)
      BY <2>1, <2>3 DEF InPackets
    <3>3. Len(message.bytes) \in Nat
      BY <1>1, MessageBytes DEF EthInv
    <3> QED BY <1>1, <3>1, <3>2, <3>3
  <2> QED BY <2>2, <2>3
<1> QED BY <1>1, EthInvariant, WholeInvariant, PTL

\* Whatever lengths its items declare, a transaction under review is the one the
\* object was read from: type and chain, and the places and the address of a legacy
\* one, are of no transaction before it (eth_tx_obj is never cleared).
THEOREM ObjectIsOfReview ==
  Spec => [](status = "review" => ReadFrom(eth_tx_obj, buffer))
<1>1. WholeInv => (status = "review" => ReadFrom(eth_tx_obj, buffer))
  BY DEF WholeInv
<1> QED BY <1>1, WholeInvariant, PTL

-----------------------------------------------------------------------------
(* What the library encodes. *)

\* The bytes of a message are an encoding of its fields, in RLP as the parser reads
\* it, and of a transaction it takes.
Encodes(m) ==
  LET b == m.bytes
      f == Fields(b, FirstField(b))
  IN /\ Whole(m) /\ _readEth(b) = "ok"
     /\ m.type = "typed" <=> Typed(b)
     /\ Typed(b) => Bytes(b, f[1]) = m.fields[1]
     /\ ~Typed(b) =>
          /\ \A i \in 1..6 : Bytes(b, f[i]) = m.fields[i]
          /\ LegacyEnds(b, f) <=> Len(m.fields) < 7
          /\ ~LegacyEnds(b, f) => Bytes(b, f[7]) = m.fields[7] /\ Len(m.fields[7]) <= 8

\* Under review is the message.
LEMMA ReviewedMessage ==
  ASSUME EthInv, ReaderTypeOK, WholeInv, Encodes(message),
         status \in Answered \cup {"review"}
  PROVE  /\ buffer = message.bytes /\ buffer \in Seq(Byte) /\ FirstField(buffer) \in Nat
         /\ Object(eth_tx_obj)
         /\ ReadFrom(eth_tx_obj, buffer)
<1>1. status # "more" /\ received > 0 /\ Whole(message)
  BY DEF WholeInv, Encodes, Answered
<1>2. InPackets /\ ReadFrom(eth_tx_obj, buffer)
  BY <1>1 DEF WholeInv
<1>3. buffer = message.bytes /\ buffer \in Seq(Byte)
  BY <1>1, <1>2, BufferIsMessage DEF EthInv
<1>4. _readEth(buffer) = "ok"
  BY <1>3 DEF Encodes
<1>5. buffer # <<>> /\ HeaderOk(buffer)
  BY <1>4 DEF _readEth
<1>6. FirstField(buffer) \in Nat
  BY <1>3, <1>5, FirstFieldType
<1> QED BY <1>2, <1>3, <1>6 DEF ReaderTypeOK, Object

\* The bytes of a field are those of its place.
LEMMA PlaceBytes ==
  ASSUME NEW b, NEW field
  PROVE  Bytes(b, Place(field)) = Bytes(b, field)
<1>1. Place(field).offset = field.offset /\ Place(field).len = field.len
  BY DEF Place
<1> QED BY <1>1 DEF Bytes

\* No bytes behind any place.
LEMMA NoBytes ==
  ASSUME NEW b \in Seq(Byte), NEW place, place.offset \in Nat, place.len = 0
  PROVE  Bytes(b, place) = <<>>
<1> DEFINE p == place.offset
<1>1. Bytes(b, place) = SubSeq(b, p + 1, p + 0)
  BY DEF Bytes
<1>2. p \in Nat /\ p + 0 < p + 1 /\ p + 0 \in Int /\ p + 1 \in Int
  OBVIOUS
<1> HIDE DEF p
<1> QED BY <1>1, <1>2, SubSeqEmpty

\* An address that is copied is the one that is there.
LEMMA CopiedBytes ==
  ASSUME NEW b \in Seq(Byte), NEW field, field.offset \in Nat,
         field.len = ETH_ADDRESS_LEN, field.offset + ETH_ADDRESS_LEN <= Len(b)
  PROVE  Copied(b, field.offset, ETH_ADDRESS_LEN) = Bytes(b, field)
<1> DEFINE p == field.offset
           n == ETH_ADDRESS_LEN
           s == SubSeq(b, p + 1, p + n)
           c == Copied(b, p, n)
<1>1. p \in Nat /\ n \in Nat /\ n >= 1 /\ p + n <= Len(b) /\ Len(b) \in Nat
  BY DEF ETH_ADDRESS_LEN
<1>2. Bytes(b, field) = s
  BY DEF Bytes
<1>3. c \in Seq(Byte) /\ Len(c) = n
  BY CopiedType
<1>4. \A i \in 1..n : c[i] = b[p + i]
  <2> TAKE i \in 1..n
  <2>1. p + i \in DOMAIN b
    <3> HIDE DEF p, n
    <3> QED BY <1>1
  <2>2. c[i] = IF p + i \in DOMAIN b THEN b[p + i] ELSE 0
    BY DEF Copied
  <2> QED BY <2>1, <2>2
<1> HIDE DEF p, n, c
<1>5. \A i \in (p + 1)..(p + n) : b[i] \in Byte
  BY <1>1
<1>6. /\ s \in Seq(Byte) /\ Len(s) = (IF p + 1 <= p + n THEN p + n - (p + 1) + 1 ELSE 0)
      /\ \A i \in 1..(p + n - (p + 1) + 1) : s[i] = b[p + 1 + i - 1]
  BY <1>1, <1>5, SubSeqProperties
<1> HIDE DEF s
<1>7. Len(s) = n /\ \A i \in 1..n : s[i] = b[p + i]
  <2>1. p + n - (p + 1) + 1 = n /\ p + 1 <= p + n /\ \A i \in 1..n : p + 1 + i - 1 = p + i
    BY <1>1
  <2> QED BY <1>6, <2>1
<1>8. s = c
  <2>1. Len(s) = Len(c) /\ \A i \in 1..Len(s) : s[i] = c[i]
    BY <1>3, <1>4, <1>7
  <2> QED BY <1>3, <1>6, <2>1, SeqEqual
<1> QED BY <1>2, <1>8 DEF c, p, n

\* The fields in the object are those of the message.
LEMMA ObjectIsMessage ==
  ASSUME EthInv, ReaderTypeOK, WholeInv, Encodes(message), status = "review"
  PROVE  FieldsAreSent
<1> DEFINE f     == Fields(buffer, FirstField(buffer))
           chain == IF message.type = "typed" THEN message.fields[1]
                    ELSE IF Len(message.fields) < 7 THEN <<>> ELSE message.fields[7]
           to    == IF message.type = "legacy" THEN message.fields[4] ELSE <<>>
<1>1. /\ buffer = message.bytes /\ buffer \in Seq(Byte) /\ FirstField(buffer) \in Nat
      /\ Object(eth_tx_obj) /\ ReadFrom(eth_tx_obj, buffer)
  BY ReviewedMessage
<1>2. /\ message.type = "typed" <=> Typed(buffer)
      /\ Typed(buffer) => Bytes(buffer, f[1]) = message.fields[1]
      /\ ~Typed(buffer) =>
           /\ \A i \in 1..6 : Bytes(buffer, f[i]) = message.fields[i]
           /\ LegacyEnds(buffer, f) <=> Len(message.fields) < 7
           /\ ~LegacyEnds(buffer, f) => Bytes(buffer, f[7]) = message.fields[7]
  BY <1>1 DEF Encodes
<1>3. message.type = "legacy" <=> ~Typed(buffer)
  <2>1. message.type \in {"legacy", "typed"}
    BY EthReaderAssumption DEF EthInv, AnyMessage
  <2> QED BY <1>2, <2>1
<1>4. /\ Typed(buffer) => eth_tx_obj.chain_id = Place(f[1])
      /\ ~Typed(buffer) =>
           /\ LegacyPlain(buffer, f)
           /\ \A n \in PlaceNames : eth_tx_obj.places[n] = Place(f[FieldIndex(n)])
           /\ f[4].len # 0 =>
                eth_tx_obj.address = Copied(buffer, f[4].offset, ETH_ADDRESS_LEN)
           /\ LegacyEnds(buffer, f) => eth_tx_obj.chain_id.len = 0
           /\ ~LegacyEnds(buffer, f) => eth_tx_obj.chain_id = Place(f[7])
  BY <1>1 DEF ReadFrom
<1>5. eth_tx_obj.chain_id \in AnyPlace /\ DOMAIN eth_tx_obj.places = PlaceNames
  BY <1>1, ObjectParts
<1>6. f[4].offset \in Nat /\ f[4].len \in Int /\ (f[4].ok => f[4].offset + f[4].len <= Len(buffer))
  BY <1>1, FieldsType
<1> HIDE DEF f
<1>7. Bytes(buffer, eth_tx_obj.chain_id) = chain
  <2>1. CASE Typed(buffer)
    BY <1>2, <1>4, <2>1, PlaceBytes
  <2>2. CASE ~Typed(buffer) /\ LegacyEnds(buffer, f)
    <3>1. Bytes(buffer, eth_tx_obj.chain_id) = <<>>
      BY <1>1, <1>4, <1>5, <2>2, NoBytes DEF AnyPlace
    <3> QED BY <1>2, <2>2, <3>1
  <2>3. CASE ~Typed(buffer) /\ ~LegacyEnds(buffer, f)
    <3>1. Bytes(buffer, eth_tx_obj.chain_id) = message.fields[7]
      BY <1>2, <1>4, <2>3, PlaceBytes
    <3> QED BY <1>2, <2>3, <3>1
  <2> QED BY <2>1, <2>2, <2>3
<1>8. ASSUME message.type = "legacy", NEW n \in DOMAIN eth_tx_obj.places
      PROVE  Bytes(buffer, eth_tx_obj.places[n])
               = message.fields[CHOOSE i \in DOMAIN Names : Names[i] = n]
  <2>1. n \in PlaceNames /\ ~Typed(buffer)
    BY <1>3, <1>5, <1>8
  <2>2. FieldIndex(n) \in 1..6
    BY <2>1, PlaceIndex
  <2>3. Bytes(buffer, eth_tx_obj.places[n]) = message.fields[FieldIndex(n)]
    BY <1>2, <1>4, <2>1, <2>2, PlaceBytes
  <2> QED BY <2>3 DEF FieldIndex
<1>9. ASSUME to # <<>> PROVE eth_tx_obj.address = to
  <2>1. ~Typed(buffer) /\ to = Bytes(buffer, f[4])
    <3>1. message.type = "legacy" /\ to = message.fields[4]
      BY <1>9
    <3>2. 4 \in 1..6
      OBVIOUS
    <3> QED BY <1>2, <1>3, <3>1, <3>2
  <2>2. f[4].len # 0
    <3> SUFFICES ASSUME f[4].len = 0 PROVE FALSE
      OBVIOUS
    <3>1. Bytes(buffer, f[4]) = <<>>
      BY <1>1, <1>6, NoBytes
    <3> QED BY <1>9, <2>1, <3>1
  <2>3. f[4].ok /\ AddressOk(buffer, f[4])
    BY <1>4, <2>1 DEF LegacyPlain
  <2>4. f[4].len = ETH_ADDRESS_LEN
    BY <2>2, <2>3 DEF AddressOk
  <2>5. f[4].offset + ETH_ADDRESS_LEN <= Len(buffer)
    BY <1>6, <2>3, <2>4
  <2>6. Copied(buffer, f[4].offset, ETH_ADDRESS_LEN) = Bytes(buffer, f[4])
    BY <1>1, <1>6, <2>4, <2>5, CopiedBytes
  <2> QED BY <1>4, <2>1, <2>2, <2>6
<1> QED BY <1>7, <1>8, <1>9 DEF FieldsAreSent

\* The fields of a transaction that encodes them are the fields under review,
\* whatever was read before it and in whatever packets it comes.
THEOREM FieldsAreThoseSent == Spec => [](Encodes(message) => FieldsAreSent)
<1>1. EthInv /\ ReaderTypeOK /\ WholeInv => (Encodes(message) => FieldsAreSent)
  <2>1. status # "review" => FieldsAreSent
    BY DEF FieldsAreSent
  <2> QED BY <2>1, ObjectIsMessage
<1> QED BY <1>1, EthInvariant, EthTypeCorrect, WholeInvariant, PTL

-----------------------------------------------------------------------------
(* The host's half. *)

Bit == {0, 1}

\* A chain modulo 256 leaves room for the parity.
LEMMA ParityFits ==
  ASSUME NEW id \in ChainIds, NEW odd \in Bit
  PROVE  /\ (35 + 2 * id) % 256 \in Nat
         /\ (35 + odd + 2 * id) % 256 = ((35 + 2 * id) % 256) + odd
<1>1. id = 26863 \/ id = 23294 \/ id = 23295 \/ id = 42262 \/ id = 42261
  BY DEF ChainIds
<1>2. odd = 0 \/ odd = 1
  BY DEF Bit
<1>3. CASE id = 26863
  BY <1>2, <1>3
<1>4. CASE id = 23294
  BY <1>2, <1>4
<1>5. CASE id = 23295
  BY <1>2, <1>5
<1>6. CASE id = 42262
  BY <1>2, <1>6
<1>7. CASE id = 42261
  BY <1>2, <1>7
<1> QED BY <1>1, <1>3, <1>4, <1>5, <1>6, <1>7

\* A chain id of at most eight bytes is as long as its field says.
LEMMA ChainLength ==
  ASSUME NEW b \in Seq(Byte), NEW f, f.offset \in Nat, f.len \in Int, f.len >= -9,
         f.offset + f.len <= Len(b), ChainOk(b, f), Len(Bytes(b, f)) <= 8
  PROVE  f.len \in 1..8 /\ be_bytes_to_u64(Bytes(b, f)) \in ChainIds
<1> DEFINE n == f.len
           p == f.offset
           s == SubSeq(b, p + 1, p + n)
<1>1. n \in Int /\ n >= -9 /\ n % 256 \in 1..8 /\ p \in Nat /\ p + n <= Len(b) /\ Len(b) \in Nat
  BY DEF ChainOk
<1>2. Bytes(b, f) = s
  BY DEF Bytes
<1> HIDE DEF n, p
<1>3. n >= 1
  BY <1>1
<1>4. \A i \in (p + 1)..(p + n) : b[i] \in Byte
  <2> TAKE i \in (p + 1)..(p + n)
  <2>1. i \in 1..Len(b)
    BY <1>1
  <2> QED BY <2>1
<1>5. Len(s) = n
  <2> DEFINE first == p + 1
             last  == p + n
  <2>1. first \in Nat /\ last \in Nat /\ \A i \in first..last : b[i] \in Byte
    BY <1>1, <1>3, <1>4
  <2>2. s = SubSeq(b, first, last)
    OBVIOUS
  <2>3. first <= last /\ last - first + 1 = n
    BY <1>1, <1>3
  <2> HIDE DEF first, last, s
  <2>4. Len(SubSeq(b, first, last)) = IF first <= last THEN last - first + 1 ELSE 0
    BY <2>1, SubSeqProperties
  <2> QED BY <2>2, <2>3, <2>4
<1> HIDE DEF s
<1>6. n \in 1..8
  BY <1>1, <1>2, <1>3, <1>5
<1>7. n % 256 = n
  BY <1>6
<1>8. [f EXCEPT !.len = @ % 256].offset = p /\ [f EXCEPT !.len = @ % 256].len = n
  BY <1>7 DEF n, p
<1>9. ChainBytes(b, f) = Bytes(b, f)
  BY <1>2, <1>8 DEF ChainBytes, Bytes, s
<1>10. be_bytes_to_u64(Bytes(b, f)) \in ChainIds
  BY <1>9 DEF ChainOk
<1> QED BY <1>6, <1>10 DEF n

\* From the recovery value of a message the host recovers the parity.
LEMMA ParityOfMessage ==
  ASSUME EthInv, ReaderTypeOK, WholeInv, Encodes(message), status \in Answered
  PROVE  v # NoV /\ Recovered(message, v) = parity
<1> DEFINE f == Fields(buffer, FirstField(buffer))
           o == eth_tx_obj
<1>1. /\ buffer = message.bytes /\ buffer \in Seq(Byte) /\ FirstField(buffer) \in Nat
      /\ Object(o) /\ ReadFrom(o, buffer)
  BY ReviewedMessage
<1>2. v = _computeV(o, buffer, parity) /\ parity \in {0, 1}
  BY DEF WholeInv, ReaderTypeOK
<1>3. /\ message.type = "typed" <=> Typed(buffer)
      /\ ~Typed(buffer) =>
           /\ LegacyEnds(buffer, f) <=> Len(message.fields) < 7
           /\ ~LegacyEnds(buffer, f) =>
                Bytes(buffer, f[7]) = message.fields[7] /\ Len(message.fields[7]) <= 8
  BY <1>1 DEF Encodes
<1>4. o.tx_type = buffer[1]
  BY <1>1 DEF ReadFrom
<1>5. CASE Typed(buffer)
  <2>1. o.tx_type \in {1, 2}
    BY <1>4, <1>5 DEF Typed
  <2>2. v = parity
    BY <1>2, <2>1 DEF _computeV
  <2>3. Recovered(message, v) = v % 2
    BY <1>3, <1>5 DEF Recovered
  <2>4. v # NoV /\ v % 2 = parity
    <3>1. parity # NoV /\ parity % 2 = parity
      <4>1. parity = 0 \/ parity = 1
        BY <1>2
      <4>2. NoV < 0
        BY DEF NoV
      <4> QED BY <4>1, <4>2
    <3> QED BY <2>2, <3>1
  <2> QED BY <2>3, <2>4
<1>6. ASSUME ~Typed(buffer) PROVE o.tx_type \notin {1, 2} /\ message.type # "typed"
  BY <1>3, <1>4, <1>6 DEF Typed
<1>7. ASSUME ~Typed(buffer), LegacyEnds(buffer, f)
      PROVE  v # NoV /\ Recovered(message, v) = parity
  <2>1. o.chain_id.len = 0
    BY <1>1, <1>7 DEF ReadFrom
  <2>2. v = 27 + parity
    BY <1>2, <1>6, <1>7, <2>1 DEF _computeV
  <2>3. Len(message.fields) < 7
    BY <1>3, <1>7
  <2>4. Recovered(message, v) = IF v >= 27 THEN v - 27 ELSE 27 - v
    BY <1>6, <1>7, <2>3 DEF Recovered
  <2>5. v # NoV /\ v >= 27 /\ v - 27 = parity
    <3>1. parity = 0 \/ parity = 1
      BY <1>2
    <3> QED BY <2>2, <3>1 DEF NoV
  <2> QED BY <2>4, <2>5
<1>8. ASSUME ~Typed(buffer), ~LegacyEnds(buffer, f)
      PROVE  v # NoV /\ Recovered(message, v) = parity
  <2> DEFINE id   == be_bytes_to_u64(message.fields[7])
             even == (35 + 2 * id) % 256
  <2>1. ChainOk(buffer, f[7]) /\ o.chain_id = Place(f[7])
    BY <1>1, <1>8 DEF ReadFrom
  <2>2. Bytes(buffer, f[7]) = message.fields[7] /\ Len(message.fields[7]) <= 8
    BY <1>3, <1>8
  <2>3. /\ f[7].offset \in Nat /\ f[7].len \in Int /\ f[7].len >= -9
        /\ f[7].offset + f[7].len <= Len(buffer)
    <3>1. f[7].ok
      BY <2>1 DEF ChainOk
    <3> QED BY <1>1, <3>1, FieldsType
  <2> HIDE DEF f
  <2>4. f[7].len \in 1..8 /\ id \in ChainIds
    BY <1>1, <2>1, <2>2, <2>3, ChainLength
  <2>5. o.chain_id.len = f[7].len /\ Bytes(buffer, o.chain_id) = message.fields[7]
    <3>1. Place(f[7]).len = f[7].len
      BY DEF Place
    <3> QED BY <2>1, <2>2, <3>1, PlaceBytes
  <2>6. o.chain_id.len # 0 /\ o.chain_id.len \in 0..8
    BY <2>4, <2>5
  <2>7. v = (35 + parity + 2 * id) % 256
    BY <1>2, <1>6, <1>8, <2>5, <2>6 DEF _computeV
  <2>8. ~(Len(message.fields) < 7)
    BY <1>3, <1>8
  <2>9. Recovered(message, v) = IF v >= even THEN v - even ELSE even - v
    BY <1>6, <1>8, <2>8 DEF Recovered
  <2>10. even \in Nat /\ v = even + parity
    <3> HIDE DEF id
    <3>1. parity \in Bit
      BY <1>2 DEF Bit
    <3>2. /\ (35 + 2 * id) % 256 \in Nat
          /\ (35 + parity + 2 * id) % 256 = ((35 + 2 * id) % 256) + parity
      BY ONLY <2>4, <3>1, ParityFits, Zenon
    <3> QED BY <2>7, <3>2, Zenon
  <2> HIDE DEF even
  <2>11. parity \in Nat /\ parity >= 0
    BY <1>2
  <2>12. v # NoV /\ v >= even /\ v - even = parity
    BY <2>10, <2>11 DEF NoV
  <2> QED BY <2>9, <2>12
<1> QED BY <1>5, <1>7, <1>8

\* From every signature over a transaction that encodes its fields the host recovers
\* the parity, although the byte holds the chain modulo 256 only.
THEOREM ParityIsRecovered == Spec => [](Encodes(message) => ParityRecovered)
<1>1. EthInv /\ ReaderTypeOK /\ WholeInv => (Encodes(message) => ParityRecovered)
  <2> SUFFICES ASSUME EthInv, ReaderTypeOK, WholeInv, Encodes(message)
               PROVE  /\ status # "failed"
                      /\ status = "signed" => Recovered(message, v) = parity
    BY DEF ParityRecovered
  <2>1. CASE status \in Answered
    <3>1. v # NoV /\ Recovered(message, v) = parity
      BY <2>1, ParityOfMessage
    <3>2. status # "failed"
      BY <2>1, <3>1 DEF WholeInv
    <3> QED BY <3>1, <3>2
  <2>2. CASE status \notin Answered
    BY <2>2 DEF Answered
  <2> QED BY <2>1, <2>2
<1> QED BY <1>1, EthInvariant, EthTypeCorrect, WholeInvariant, PTL
=============================================================================
