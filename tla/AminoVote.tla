----------------------------- MODULE AminoVote -----------------------------
(***************************************************************************)
(* The validator's reading of a transaction: the context, then the amino   *)
(* fields of a canonical Tendermint vote.  A buffer is a sequence of       *)
(* items; an item is one key with its value, or the context header (its    *)
(* length byte, its text and the vote's length varint).                    *)
(***************************************************************************)
EXTENDS Votes, SequencesExt

WIRE_VARINT == 0
WIRE_64BIT  == 1

FIELD_ZERO   == 0
FIELD_TYPE   == 1
FIELD_HEIGHT == 2
FIELD_ROUND  == 3

\* An amino field: the key's field number and wire type, and the value.
Field(num, wire, val) == [ctx |-> "-", num |-> num, wire |-> wire, val |-> val]

\* A context header.  In the middle of a vote its length byte (0x15 for
\* oasis-core/tendermint) reads as the key of field 2 with wire type 5.
Context(kind) == [ctx |-> kind, num |-> 2, wire |-> 5, val |-> 0]

\* FIELD_NUM keeps the low byte of the field number.
FIELD_NUM(f) == f.num % 256

-----------------------------------------------------------------------------
\* One turn of the loop of vote_amino_parse.  A field of a known number is
\* stored whatever came before: the comparison of expected_field with
\* FIELD_TYPE is never true.  An unknown field ends the reading.
Start == [vote |-> NoVote, status |-> "more"]

Consume(acc, f) ==
  IF acc.status # "more" THEN acc ELSE
  CASE FIELD_NUM(f) = FIELD_ZERO -> [acc EXCEPT !.status = "error"]
    [] FIELD_NUM(f) = FIELD_TYPE ->
         IF f.wire = WIRE_VARINT THEN [acc EXCEPT !.vote.Type = f.val % 256]
                                 ELSE [acc EXCEPT !.status = "error"]
    [] FIELD_NUM(f) = FIELD_HEIGHT ->
         IF f.wire = WIRE_64BIT THEN [acc EXCEPT !.vote.Height = f.val]
                                ELSE [acc EXCEPT !.status = "error"]
    [] FIELD_NUM(f) = FIELD_ROUND ->
         IF f.wire = WIRE_64BIT
         THEN [vote |-> [acc.vote EXCEPT !.Round = f.val],
               status |-> IF f.val \in 0..255 THEN "more" ELSE "error"]
         ELSE [acc EXCEPT !.status = "error"]
    [] OTHER -> [acc EXCEPT !.status = "stop"]

\* vote_amino_parse on a sequence of fields.
vote_amino_parse(fields) ==
  LET read[k \in 0..Len(fields)] ==
        IF k = 0 THEN Start ELSE Consume(read[k - 1], fields[k])
  IN read[Len(fields)]

\* parser_parse: the context decides what follows it.
parser_parse(b) ==
  IF b = <<>> \/ Head(b).ctx \notin {"consensus", "node"}
  THEN [err |-> TRUE, type |-> "none", vote |-> NoVote]
  ELSE IF Head(b).ctx = "node"
  THEN [err |-> FALSE, type |-> "node", vote |-> NoVote]
  ELSE LET r == vote_amino_parse(Tail(b)) IN
       [err |-> r.status = "error", type |-> "consensus", vote |-> r.vote]

-----------------------------------------------------------------------------
\* The canonical encoding a Tendermint validator signs: fields by number, the
\* zero ones left out, then the fields the device does not read (block or
\* POL round, timestamp, chain), here one item with its number.
Canonical(v, rest) ==
  <<Field(FIELD_TYPE, WIRE_VARINT, v.Type)>>
  \o (IF v.Height = 0 THEN <<>> ELSE <<Field(FIELD_HEIGHT, WIRE_64BIT, v.Height)>>)
  \o (IF v.Round = 0 THEN <<>> ELSE <<Field(FIELD_ROUND, WIRE_64BIT, v.Round)>>)
  \o <<Field(rest, 2, 0)>>
=============================================================================
