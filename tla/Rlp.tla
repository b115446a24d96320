--------------------------------- MODULE Rlp ---------------------------------
(***************************************************************************)
(* The RLP of eth_utils.c: the headers of a transaction and of its items.  *)
(*                                                                         *)
(* A uint64_t is held in two's complement: -k stands for 2^64 - k.  Of the *)
(* others all from Huge on are one number, which no buffer is as long as   *)
(* and no chain has as its id.                                             *)
(***************************************************************************)
EXTENDS Integers, Sequences

Byte == 0..255

Huge == 4194304

\* CHECK_RLP_LEN's comparison of unsigned numbers.
Below(a, b) == b < 0 \/ (0 <= a /\ a < b)

\* be_bytes_to_u64 on one to eight bytes; it refuses other lengths.
be_bytes_to_u64(bytes) ==
  LET n       == Len(bytes)
      Last(k) == IF k < n THEN bytes[n - k] ELSE 0
  IN IF n = 8 /\ \A i \in 1..6 : bytes[i] = 255
     THEN 256 * Last(1) + Last(0) - 65536
     ELSE IF Last(2) >= 64 \/ \E i \in 1..(n - 3) : bytes[i] # 0
     THEN Huge
     ELSE 65536 * Last(2) + 256 * Last(1) + Last(0)

-----------------------------------------------------------------------------
\* An item: whether it can be read, the bytes of its header, its length.
Item == [ok : BOOLEAN, read : 0..9, len : Int]

NoItem == [ok |-> FALSE, read |-> 0, len |-> 0]

\* A length in the marker: a string of up to 55 bytes, a list of as many.
ShortItem(data, base) ==
  LET len == data[1] - base IN
  IF Below(Len(data), len + 1) THEN NoItem ELSE [ok |-> TRUE, read |-> 1, len |-> len]

\* A length behind the marker.  The sum that is compared with the data may pass
\* 2^64, and then the length is taken although it is not in the data.
LengthItem(data, n, len) ==
  IF Len(data) < n + 1 THEN NoItem
  ELSE IF Below(Len(data), len + 1 + n) THEN NoItem
  ELSE [ok |-> TRUE, read |-> n + 1, len |-> len]

LongItem(data, base) ==
  LET n == data[1] - base IN LengthItem(data, n, be_bytes_to_u64(SubSeq(data, 2, n + 1)))

\* The item at the beginning of the data.  Its length is cut to 32 bits, which
\* two's complement does not show.
parse_rlp_item(data) ==
  IF data = <<>> THEN NoItem
  ELSE IF data[1] <= 127 THEN [ok |-> TRUE, read |-> 0, len |-> 1]
  ELSE IF data[1] <= 183 THEN ShortItem(data, 128)
  ELSE IF data[1] <= 191 THEN LongItem(data, 183)
  ELSE IF data[1] <= 247 THEN ShortItem(data, 192)
  ELSE LongItem(data, 247)

-----------------------------------------------------------------------------
\* A transaction's header: an optional version, then the marker of a list, then
\* the bytes of its length if that is not in the marker.
Version(data) == IF data[1] \in {1, 2} THEN 1 ELSE 0

Marker(data) == data[Version(data) + 1]

LengthBytes(data) == IF Marker(data) >= 248 THEN Marker(data) - 247 ELSE 0

HeaderLength(data) == Version(data) + 1 + LengthBytes(data)

WholeHeader(data) ==
  Len(data) > 0 /\ Len(data) > Version(data) /\ Len(data) >= HeaderLength(data)

ListLength(data) ==
  IF Marker(data) <= 247 THEN Marker(data) - 192
  ELSE be_bytes_to_u64(SubSeq(data, Version(data) + 2, HeaderLength(data)))

\* Mutant of get_tx_rlp_len: a string passes for a list.
tx_rlp_len_of_strings(data) ==
  [ok |-> Marker(data) >= 128, read |-> HeaderLength(data),
   to_read |-> IF Marker(data) < 192 THEN Marker(data) - 128 ELSE ListLength(data)]

\* `read` is the length of the header, `to_read` of the list.
get_tx_rlp_len(data) ==
  IF Marker(data) < 192 THEN [ok |-> FALSE, read |-> 0, to_read |-> 0]
  ELSE [ok |-> TRUE, read |-> HeaderLength(data), to_read |-> ListLength(data)]

\* Mutant of DeclaredBytes: the version is not counted.
DeclaredUnversioned(data) ==
  LET h == get_tx_rlp_len(data) IN
  IF data = <<>> \/ ~h.ok THEN 0
  ELSE IF h.to_read < 0 THEN Huge ELSE h.read - Version(data) + h.to_read

\* saturating_add of both, zero without a header.
DeclaredBytes(data) ==
  LET h == get_tx_rlp_len(data) IN
  IF data = <<>> \/ ~h.ok THEN 0
  ELSE IF h.to_read < 0 THEN Huge ELSE h.read + h.to_read
=============================================================================
