------------------------------ MODULE EthReader ------------------------------
(***************************************************************************)
(* An Ethereum transaction from the host's packets to its signature, byte  *)
(* by byte: process_chunk_eth collects it until the length of its header   *)
(* is reached, _readEth of parser_impl_eth.c reads it into eth_tx_obj,     *)
(* which keeps what the transaction before it left, and after the approval *)
(* _computeV makes the recovery value from the object and the buffer.      *)
(***************************************************************************)
EXTENDS Rlp

CONSTANTS
  Message,      \* what the host sends, records of AnyMessage
  PacketSize,   \* bytes of a transaction the host puts into a packet
  BufferSize,   \* capacity of the transaction buffer
  MaxMessages   \* bound on the transactions sent one after the other

\* The bytes of a transaction and what they stand for: `fields` as the host's
\* library encoded them, empty for bytes of another origin.
AnyMessage == [bytes : Seq(Byte), type : {"legacy", "typed"}, fields : Seq(Seq(Byte))]

\* The host sends a transaction's header, ten bytes at most, in the first packet:
\* process_chunk_eth would read the rest of a header that is cut from what is
\* behind it in memory.
ASSUME EthReaderAssumption ==
  /\ Message # {} /\ Message \subseteq AnyMessage
  /\ \A m \in Message : WholeHeader(m.bytes)
  /\ PacketSize \subseteq Nat /\ \A size \in PacketSize : size >= 10
  /\ BufferSize \in Nat /\ BufferSize < Huge
  /\ MaxMessages \in Nat

VARIABLES
  tx_initialized, tx_type, buffer, hdPath,   \* as in ChunkSession
  eth_tx_obj,   \* the object _readEth fills
  status,       \* "more", "review", "refused", "signed", "failed"
  refusal,      \* what parser_parse said of a refused transaction
  v,            \* the first byte of the last signature, NoV without one
  parity,       \* that signature's parity of y
  message,      \* the transaction the host is sending
  sent,         \* how many of its bytes
  received      \* transactions begun

session == <<tx_initialized, tx_type, buffer, hdPath>>
signing == <<v, parity>>
vars == <<session, eth_tx_obj, status, refusal, signing, message, sent, received>>

Session == INSTANCE EthSession WITH
  Unit <- Byte, Path <- {}, BadPath <- {}, NoPath <- "none", EthPath <- {"path"},
  BadEthPath <- {}, Declared <- DeclaredBytes

NoV == -1

-----------------------------------------------------------------------------
(* Fields. *)

Bytes(b, field) == SubSeq(b, field.offset + 1, field.offset + field.len)

\* Mutant of FieldOf: the header of the item is not skipped.
FieldWithHeader(b, at, item) ==
  [ok |-> at < Len(b) /\ item.ok, offset |-> at, len |-> item.len,
   next |-> IF at < Len(b) /\ item.ok THEN at + item.read + item.len ELSE Len(b)]

\* Where the value of an item is and where the next field begins.
FieldOf(b, at, item) ==
  [ok |-> at < Len(b) /\ item.ok, offset |-> at + item.read, len |-> item.len,
   next |-> IF at < Len(b) /\ item.ok THEN at + item.read + item.len ELSE Len(b)]

\* parse_field at an offset.
Field(b, at) == FieldOf(b, at, parse_rlp_item(SubSeq(b, at + 1, Len(b))))

Names == <<"nonce", "gas_price", "gas_limit", "address", "value", "data",
           "chain_id", "r", "s">>

\* The fields of a legacy transaction, each behind the one before.
NonceIn(b, start)     == Field(b, start)
GasPriceIn(b, start)  == Field(b, NonceIn(b, start).next)
GasLimitIn(b, start)  == Field(b, GasPriceIn(b, start).next)
AddressIn(b, start)   == Field(b, GasLimitIn(b, start).next)
ValueIn(b, start)     == Field(b, AddressIn(b, start).next)
DataIn(b, start)      == Field(b, ValueIn(b, start).next)
ChainIdIn(b, start)   == Field(b, DataIn(b, start).next)
RIn(b, start)         == Field(b, ChainIdIn(b, start).next)
SIn(b, start)         == Field(b, RIn(b, start).next)

Fields(b, start) ==
  <<NonceIn(b, start), GasPriceIn(b, start), GasLimitIn(b, start), AddressIn(b, start),
    ValueIn(b, start), DataIn(b, start), ChainIdIn(b, start), RIn(b, start), SIn(b, start)>>

ETH_ADDRESS_LEN == 20

\* Mutant of AddressOk: any length is copied.
AddressOfAnyLength(b, field) == field.offset <= Len(b)

\* readAddress
AddressOk(b, field) ==
  field.len = 0 \/ (field.len = ETH_ADDRESS_LEN /\ field.offset < Len(b))

\* MEMCPY from the buffer; what is behind it reads as zero.
Copied(b, offset, n) ==
  [i \in 1..n |-> IF offset + i \in DOMAIN b THEN b[offset + i] ELSE 0]

ChainIds == {26863, 23294, 23295, 42262, 42261}

\* The length is cut to a byte when the number is made of it.
ChainBytes(b, field) == Bytes(b, [field EXCEPT !.len = @ % 256])

\* readChainID
ChainOk(b, field) ==
  /\ field.ok
  /\ field.len % 256 \in 1..8
  /\ be_bytes_to_u64(ChainBytes(b, field)) \in ChainIds

-----------------------------------------------------------------------------
(* Transactions. *)

NoField == [offset |-> 0, len |-> 0]

Place(field) == [offset |-> field.offset, len |-> field.len]

\* eth_tx_obj.  Of the legacy fields only their places are kept, of the address
\* its bytes.
EthTx ==
  [tx_type : Byte, chain_id : [offset : Nat, len : Int],
   address : Seq(Byte), places : [{"nonce", "gas_price", "gas_limit", "value", "data"}
                                  -> [offset : Nat, len : Int]]]

Zeroed ==
  [tx_type |-> 0, chain_id |-> NoField, address |-> [i \in 1..ETH_ADDRESS_LEN |-> 0],
   places |-> [n \in {"nonce", "gas_price", "gas_limit", "value", "data"} |-> NoField]]

\* What is written of a place: all of it if the field is read, no length if it is
\* malformed, nothing at the end of the buffer.
PlaceAfter(old, b, at, field) ==
  IF at >= Len(b) THEN old ELSE IF field.ok THEN Place(field) ELSE [old EXCEPT !.len = 0]

\* parse_legacy_tx
LegacyEnds(b, f) == f[6].next >= Len(b)

LegacyPlain(b, f) == (\A i \in 1..6 : f[i].ok) /\ AddressOk(b, f[4])

\* r and s: one byte each is refused whatever it is, although only a value that is
\* not zero is compared for.
parse_legacy_tx(b, f) ==
  /\ LegacyPlain(b, f)
  /\ \/ LegacyEnds(b, f)
     \/ ChainOk(b, f[7]) /\ f[8].ok /\ f[9].ok /\ f[8].len = 0 /\ f[9].len = 0

\* How far reading gets: the field it stops at, behind which nothing is written.
Stops(b, f, i) ==
  \/ ~f[i].ok
  \/ i = 4 /\ ~AddressOk(b, f[4])
  \/ i = 6 /\ LegacyEnds(b, f)
  \/ i = 7

Reached(b, f) == CHOOSE i \in 1..7 : Stops(b, f, i) /\ \A j \in 1..(i - 1) : ~Stops(b, f, j)

LegacyAfter(old, b, start, f) ==
  LET last     == Reached(b, f)
      At(i)    == IF i = 1 THEN start ELSE f[i - 1].next
      After(i, place) == IF i > last THEN place ELSE PlaceAfter(place, b, At(i), f[i])
      Index(n) == CHOOSE i \in DOMAIN Names : Names[i] = n
  IN [tx_type  |-> old.tx_type,
      places   |-> [n \in DOMAIN old.places |-> After(Index(n), old.places[n])],
      address  |-> IF 4 <= last /\ f[4].ok /\ f[4].len # 0 /\ AddressOk(b, f[4])
                   THEN Copied(b, f[4].offset, ETH_ADDRESS_LEN) ELSE old.address,
      chain_id |-> IF LegacyPlain(b, f) /\ LegacyEnds(b, f)
                   THEN [old.chain_id EXCEPT !.len = 0] ELSE After(7, old.chain_id)]

Typed(b) == b[1] \in {1, 2}

\* _readEth: the type, the header of the list, then the fields.  Of a typed
\* transaction only the first field is read, its chain.
Start(b) == IF Typed(b) THEN 1 ELSE 0

Header(b) == parse_rlp_item(SubSeq(b, Start(b) + 1, Len(b)))

HeaderOk(b) == Header(b).ok /\ Start(b) + Header(b).read <= Len(b)

FirstField(b) == Start(b) + Header(b).read

_readEth(b) ==
  IF b = <<>> THEN "init_context_empty"
  ELSE IF ~Typed(b) /\ b[1] < 192 THEN "unsupported_tx"
  ELSE IF ~HeaderOk(b) THEN "unexpected_error"
  ELSE IF IF Typed(b) THEN ChainOk(b, Field(b, FirstField(b)))
          ELSE parse_legacy_tx(b, Fields(b, FirstField(b)))
  THEN "ok" ELSE "invalid"

TypeRead(old, b) == [old EXCEPT !.tx_type = b[1]]

ChainRead(old, b) ==
  [old EXCEPT !.chain_id = PlaceAfter(@, b, FirstField(b), Field(b, FirstField(b)))]

\* Mutant of ReadEthAfter: a typed transaction leaves the type of the last one.
ReadEthKeepsType(old, b) ==
  IF _readEth(b) \in {"init_context_empty", "unsupported_tx"} THEN old
  ELSE IF ~HeaderOk(b) THEN TypeRead(old, b)
  ELSE IF Typed(b) THEN ChainRead(old, b)
  ELSE LegacyAfter(TypeRead(old, b), b, FirstField(b), Fields(b, FirstField(b)))

\* What it leaves in the object.
ReadEthAfter(old, b) ==
  IF _readEth(b) \in {"init_context_empty", "unsupported_tx"} THEN old
  ELSE IF ~HeaderOk(b) THEN TypeRead(old, b)
  ELSE IF Typed(b) THEN ChainRead(TypeRead(old, b), b)
  ELSE LegacyAfter(TypeRead(old, b), b, FirstField(b), Fields(b, FirstField(b)))

-----------------------------------------------------------------------------
(* The recovery value. *)

\* Mutant of _computeV: the sum is not cut to a byte.
ComputeWideV(obj, b, odd) ==
  CASE obj.tx_type \in {1, 2} -> odd
    [] obj.tx_type \notin {1, 2} /\ obj.chain_id.len = 0 -> 27 + odd
    [] obj.tx_type \notin {1, 2} /\ obj.chain_id.len \notin 0..8 -> NoV
    [] OTHER -> 35 + odd + 2 * be_bytes_to_u64(Bytes(b, obj.chain_id))

\* _computeV; NoV where it fails.
_computeV(obj, b, odd) ==
  CASE obj.tx_type \in {1, 2} -> odd
    [] obj.tx_type \notin {1, 2} /\ obj.chain_id.len = 0 -> 27 + odd
    [] obj.tx_type \notin {1, 2} /\ obj.chain_id.len \notin 0..8 -> NoV
    [] OTHER -> (35 + odd + 2 * be_bytes_to_u64(Bytes(b, obj.chain_id))) % 256

\* What hw-app-eth makes of the first byte of an answer: the parity for a typed
\* transaction, for others the distance to the even value of the chain.
Recovered(m, answer) ==
  LET chain == be_bytes_to_u64(m.fields[7])
      even  == IF Len(m.fields) < 7 THEN 27 ELSE (35 + 2 * chain) % 256
  IN IF m.type = "typed" THEN answer % 2
     ELSE IF answer >= even THEN answer - even ELSE even - answer

-----------------------------------------------------------------------------
(* Packets and buttons. *)

Init ==
  /\ Session!SessionInit
  /\ eth_tx_obj = Zeroed
  /\ status = "refused" /\ refusal = "none"
  /\ v = NoV /\ parity = 0
  /\ message = (CHOOSE m \in Message : TRUE) /\ sent = 0 /\ received = 0

\* handleSignEth behind process_chunk_eth.  parser_validate has nothing to refuse:
\* there are two items, a warning and the hash of the buffer.
Handle(complete) ==
  IF ~complete
  THEN status' = "more" /\ UNCHANGED <<eth_tx_obj, refusal>>
  ELSE /\ eth_tx_obj' = ReadEthAfter(eth_tx_obj, buffer')
       /\ refusal' = _readEth(buffer')
       /\ status' = IF refusal' = "ok" THEN "review" ELSE "refused"

Packet(from, size) ==
  SubSeq(message'.bytes, from + 1,
         IF from + size < Len(message'.bytes) THEN from + size ELSE Len(message'.bytes))

SignFirst(m, size) ==
  /\ status # "review"
  /\ received < MaxMessages
  /\ received' = received + 1
  /\ message' = m
  /\ LET c == Packet(0, size) IN
     /\ sent' = Len(c)
     /\ Session!EthFirst("path", c)
     /\ IF Session!EthFirstCode("path", c) = "OK"
        THEN Handle(Session!EthFirstComplete("path", c))
        ELSE status' = "refused" /\ refusal' = "none" /\ UNCHANGED eth_tx_obj
  /\ v' = NoV /\ UNCHANGED parity

\* The rest in packets, the last of which may have been sent already: then the
\* packet is empty.
SignMore(size) ==
  /\ status = "more"
  /\ UNCHANGED <<message, received>>
  /\ LET c == Packet(sent, size) IN
     /\ sent' = sent + Len(c)
     /\ Session!EthMore(c)
     /\ IF Session!EthMoreCode(c) = "OK"
        THEN Handle(Session!EthMoreComplete(c))
        ELSE status' = "refused" /\ refusal' = "none" /\ UNCHANGED eth_tx_obj
  /\ UNCHANGED signing

\* app_sign_eth: the signature's parity is the curve's.
Approve ==
  /\ status = "review"
  /\ \E odd \in {0, 1} :
       /\ parity' = odd
       /\ v' = _computeV(eth_tx_obj, buffer, odd)
  /\ status' = IF v' = NoV THEN "failed" ELSE "signed"
  /\ UNCHANGED <<session, eth_tx_obj, refusal, message, sent, received>>

Reject ==
  /\ status = "review"
  /\ status' = "refused"
  /\ UNCHANGED <<session, eth_tx_obj, refusal, signing, message, sent, received>>

Next ==
  \/ \E m \in Message, size \in PacketSize : SignFirst(m, size)
  \/ \E size \in PacketSize : SignMore(size)
  \/ Approve \/ Reject

Spec == Init /\ [][Next]_vars

-----------------------------------------------------------------------------
Status == {"more", "review", "refused", "signed", "failed"}

ReaderTypeOK ==
  /\ tx_initialized \in BOOLEAN /\ tx_type \in {"oasis", "eth"}
  /\ buffer \in Seq(Byte) /\ Len(buffer) <= BufferSize
  /\ hdPath \in {"none", "path"}
  /\ eth_tx_obj \in EthTx /\ Len(eth_tx_obj.address) = ETH_ADDRESS_LEN
  /\ status \in Status
  /\ v \in 0..255 \cup {NoV}
  /\ parity \in {0, 1}
  /\ sent \in 0..Len(message.bytes) /\ received \in 0..MaxMessages

FromLibrary == message.fields # <<>>

\* A transaction the host's library has encoded is reviewed when its last byte has
\* been sent, in whatever packets, and no earlier; it is never refused, unless by
\* the user (process_chunk_eth, get_tx_rlp_len).
ReviewedAtEnd ==
  FromLibrary /\ received > 0 =>
    /\ status = "more" <=> sent < Len(message.bytes)
    /\ status # "more" => refusal = "ok" /\ buffer = message.bytes

\* A transaction whose end process_chunk_eth has found is one whose header
\* _readEth can read ("should not happen as this was check before",
\* parser_impl_eth.c:222): the two read the header with different code.
HeaderWasChecked == refusal \notin {"unexpected_error", "unsupported_tx", "init_context_empty"}

\* The fields in the object are the fields of the transaction under review, and
\* nothing of the one before: no header is mistaken for a value, and none of
\* another kind stays.
FieldsAreSent ==
  FromLibrary /\ status = "review" =>
    LET SentAs(n) == message.fields[CHOOSE i \in DOMAIN Names : Names[i] = n]
        chain == IF message.type = "typed" THEN message.fields[1]
                 ELSE IF Len(message.fields) < 7 THEN <<>> ELSE message.fields[7]
        to == IF message.type = "legacy" THEN message.fields[4] ELSE <<>>
    IN /\ Bytes(buffer, eth_tx_obj.chain_id) = chain
       /\ message.type = "legacy" =>
            \A n \in DOMAIN eth_tx_obj.places :
              Bytes(buffer, eth_tx_obj.places[n]) = SentAs(n)
       /\ to # <<>> => eth_tx_obj.address = to

\* What is taken from the buffer by its place is in the buffer, also where the sum
\* of a length and its header has passed 2^64 (CHECK_RLP_LEN).
ReadsInBuffer ==
  status = "review" =>
    LET chain == eth_tx_obj.chain_id IN
    /\ chain.len # 0 => chain.offset + (chain.len % 256) <= Len(buffer)
    /\ eth_tx_obj.tx_type >= 192 =>
         LET address == Fields(buffer, FirstField(buffer))[4] IN
         address.len # 0 => address.offset + ETH_ADDRESS_LEN <= Len(buffer)

\* The host recovers the parity of every signature from the byte in front of it,
\* although the byte holds the chain modulo 256 only, and the byte is of the
\* transaction signed ("to recover the right chain_id from the V component",
\* parser_impl_eth.c:311).
ParityRecovered ==
  FromLibrary =>
    /\ status # "failed"
    /\ status = "signed" => Recovered(message, v) = parity
=============================================================================
