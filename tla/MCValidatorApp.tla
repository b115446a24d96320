--------------------------- MODULE MCValidatorApp ---------------------------
(***************************************************************************)
(* ValidatorApp on small instances, with the parser of AminoVote.  A unit  *)
(* of payload is a run of amino items that travels in one chunk.           *)
(***************************************************************************)
EXTENDS ValidatorApp, AminoVote

CONSTANTS p1, e1, block1, block2

V(t, h, r) == [Type |-> t, Height |-> h, Round |-> r]

\* The first part of a consensus message, up to the fields the device reads.
HeadOf(v) == <<Context("consensus"), Field(FIELD_TYPE, WIRE_VARINT, v.Type),
               Field(FIELD_HEIGHT, WIRE_64BIT, v.Height),
               Field(FIELD_ROUND, WIRE_64BIT, v.Round)>>

\* The rest of it: two different blocks, which the device does not read.
Rest(block) == <<Field(4, 2, block)>>

Blocks == Permutations({block1, block2})

NodeMessage == <<Context("node")>>

\* The header of an Ethereum transaction of two units.
Rlp == <<[ctx |-> "none", num |-> 0, wire |-> 0, val |-> 0]>>

MCDeclared(b) == IF b # <<>> /\ b[1] = Rlp THEN 2 ELSE 0

MCParse(b) == parser_parse(FlattenSeq(b))

\* Two steps of one round and one of the next height.
Steps == {V(TYPE_PREVOTE, 1, 0), V(TYPE_PRECOMMIT, 1, 0), V(TYPE_PROPOSAL, 2, 0)}

\* A vote parser_validate refuses.
Refusable == {V(TYPE_PREVOTE, -1, 0)}

\* Chunked: a message is a head and a block, or a head alone.
UnitsChunked == {HeadOf(v) : v \in Steps \cup Refusable}
                \cup {Rest(block1), Rest(block2), NodeMessage, Rlp}

\* Whole: each unit is a whole message.
UnitsWhole == {HeadOf(v) \o Rest(k) : v \in Steps, k \in {block1, block2}}

ChunksChunked == {<<u>> : u \in UnitsChunked} \cup {<<Rlp, Rlp>>}
ChunksWhole   == {<<u>> : u \in UnitsWhole}

\* Of the session, no guard and no property but TypeOK reads the path and the
\* type of transaction, and none the status word of the last answer.
Decisive == <<tx_initialized, buffer, guard, ui, waiting, history>>
=============================================================================
