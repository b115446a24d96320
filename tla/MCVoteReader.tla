---------------------------- MODULE MCVoteReader ----------------------------
(***************************************************************************)
(* VoteReader on messages of up to three fields, whole and cut anywhere,   *)
(* over zeroed memory and over the rest of an earlier vote.                *)
(***************************************************************************)
EXTENDS VoteReader

\* Known fields with values on both sides of a byte and of zero, a field 0, a
\* wrong wire type, a field the device does not read, and fields 257 and 258,
\* which FIELD_NUM takes for fields 1 and 2.
Fields ==
  {Field(FIELD_TYPE, WIRE_VARINT, t) : t \in {TYPE_PREVOTE, TYPE_PROPOSAL, 258}}
  \cup {Field(FIELD_HEIGHT, WIRE_64BIT, h) : h \in {1, 300, -1}}
  \cup {Field(FIELD_ROUND, WIRE_64BIT, r) : r \in {1, 255, 256, -1}}
  \cup {Field(0, WIRE_VARINT, 0), Field(FIELD_HEIGHT, WIRE_VARINT, 1),
        Field(4, 2, 0), Field(257, WIRE_VARINT, TYPE_PRECOMMIT),
        Field(258, WIRE_64BIT, 1)}

MessagesTo(n) == UNION {[1..k -> Fields] : k \in 0..n}

ShortMessages == MessagesTo(2)

\* All messages of a vote as a validator sends it, and of up to two fields.
VoteMessages ==
  ShortMessages
  \cup {Canonical([Type |-> t, Height |-> h, Round |-> r], 4) :
          t \in {TYPE_PREVOTE, TYPE_PRECOMMIT, TYPE_PROPOSAL},
          h \in {0, 1, 300}, r \in {0, 1, 255, 256}}

Padding == [i \in 1..16 |-> 0]

Old(v) == MessageBytes(Canonical(v, 4)) \o Padding

\* Zeroes, an earlier vote, a varint that never ends, and one that ends two bytes
\* behind the buffer.
Memories ==
  {[i \in 1..48 |-> 0],
   Old([Type |-> TYPE_PRECOMMIT, Height |-> 2, Round |-> 1]) \o Padding,
   [i \in 1..48 |-> 255],
   [i \in 1..48 |-> IF i % 2 = 0 THEN 144 ELSE 0]}
=============================================================================
