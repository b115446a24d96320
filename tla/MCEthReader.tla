---------------------------- MODULE MCEthReader ----------------------------
(***************************************************************************)
(* EthReader on transactions as the host's library encodes them, and on    *)
(* others: lengths at every boundary of RLP, malformed and surplus fields. *)
(***************************************************************************)
EXTENDS EthReader, SequencesExt

-----------------------------------------------------------------------------
(* The library's encoding. *)

Zeroes(n) == [i \in 1..n |-> 0]
Ones(n) == [i \in 1..n |-> 1]

Number(n) == IF n < 256 THEN <<n>> ELSE <<n \div 256, n % 256>>

Prefixed(base, content) ==
  IF Len(content) <= 55 THEN <<base + Len(content)>> \o content
  ELSE <<base + 55 + Len(Number(Len(content)))>> \o Number(Len(content)) \o content

Encoded(string) ==
  IF Len(string) = 1 /\ string[1] < 128 THEN string ELSE Prefixed(128, string)

List(fields) == Prefixed(192, FlattenSeq([i \in DOMAIN fields |-> Encoded(fields[i])]))

Legacy(fields) == [bytes |-> List(fields), type |-> "legacy", fields |-> fields]

TypedMessage(n, fields) ==
  [bytes |-> <<n>> \o List(fields), type |-> "typed", fields |-> fields]

Raw(bytes) == [bytes |-> bytes, type |-> "legacy", fields |-> <<>>]

-----------------------------------------------------------------------------
To == [i \in 1..ETH_ADDRESS_LEN |-> 200 + i]

Plain(to, data) == <<<<>>, <<109, 110>>, <<45, 198, 192>>, to, <<1>>, data>>

Eip155(plain, id) == plain \o <<id, <<>>, <<>>>>

Data == {<<>>, <<5>>, Ones(4), Ones(56)}

Ids == {Number(id) : id \in ChainIds}

LibraryMessages ==
  {Legacy(Plain(to, d)) : to \in {<<>>, To}, d \in Data \cup {Ones(256)}}
  \cup {Legacy(Eip155(Plain(to, d), id)) :
          to \in {<<>>, To}, d \in Data, id \in {Number(26863)}}
  \cup {Legacy(Eip155(Plain(To, <<128>>), id)) : id \in Ids}
  \cup {TypedMessage(n, <<id>> \o Plain(To, d)) :
          n \in {1, 2}, id \in Ids, d \in {<<>>, Ones(60)}}

\* A field whose declared length is 2^64 - k.
Wrapped(k) == <<191, 255, 255, 255, 255, 255, 255, 255, 256 - k>>

Emerald == Number(42262)

PaddedId(n) == Zeroes(n) \o Emerald

\* Other fields of a transaction with the right list header, and other headers.
OtherFields ==
  {Eip155(Plain(To, <<>>), id) : id \in
     {<<>>, <<1>>, PaddedId(6), PaddedId(7), Emerald \o Zeroes(1), Emerald \o Zeroes(256)}}
  \cup {Eip155(Plain(Ones(n), <<>>), Emerald) : n \in {1, 19, 21, 55, 56}}
  \cup {Plain(To, <<>>) \o <<Emerald>> \o rs :
          rs \in {<<<<0>>, <<0>>>>, <<<<1>>, <<>>>>, <<<<>>>>, <<>>, <<<<>>, <<>>, <<7>>>>}}
  \cup {SubSeq(Plain(To, <<>>), 1, n) : n \in 0..5}

Content(fields) == FlattenSeq([i \in DOMAIN fields |-> Encoded(fields[i])])

\* An item of a legacy transaction replaced by bytes.
WithItem(i, bytes) ==
  LET fields == Eip155(Plain(To, <<>>), Emerald)
      before == Content(SubSeq(fields, 1, i - 1))
      after  == Content(SubSeq(fields, i + 1, Len(fields)))
  IN Prefixed(192, before \o bytes \o after)

OtherMessages ==
  {Raw(List(f)) : f \in OtherFields}
  \cup {Raw(WithItem(i, Wrapped(k))) : i \in {1, 4, 6, 7, 8}, k \in {1, 2, 9, 10}}
  \cup {Raw(WithItem(i, <<bytes>>)) : i \in {4, 7, 9}, bytes \in {183, 191, 247, 248, 255}}
  \cup {Raw(WithItem(i, Prefixed(192, Ones(2)))) : i \in {1, 7}}
  \cup {Raw(<<n>> \o List(<<id>>)) : n \in {1, 2}, id \in {<<>>, <<1>>, PaddedId(3)}}
  \cup {Raw(<<2>> \o Prefixed(128, Emerald)), Raw(<<3>> \o List(<<Emerald>>)),
        Raw(<<127>>), Raw(<<128>>), Raw(<<255>> \o Tail(Wrapped(1)) \o Ones(40))}
  \cup {Raw(m.bytes \o Ones(n)) :
          m \in {Legacy(Plain(To, <<>>)), TypedMessage(1, <<Emerald>>)}, n \in {1, 3}}

Messages == LibraryMessages \cup OtherMessages
=============================================================================
