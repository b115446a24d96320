# Verification of ledger-oasis

TLA+ models, model checking and proofs for the Oasis application of Ledger
devices (version 2.7.0) and its JavaScript host library. Paths are relative to
the repository; `app/src` holds the C code, `js/src` the library.

The application is built in two ways from one source tree. The **consumer**
build (`APP_CONSUMER`, class 0x05) signs transactions a user has reviewed on
the screen. The **validator** build (`APP_VALIDATOR`, class 0xF5) signs the
consensus votes of a validator node without asking, after one confirmation, and
must never sign two different messages for one height, round and step. Both
also accept the Ethereum class 0xE0.

## The system

| Part | State | Operations | Models |
|---|---|---|---|
| Oasis chunk session (`apdu_handler.c:53-160`, `common/tx.c`) | `tx_initialized`, `tx_type`, the buffer, `hdPath` | first, next and last packet, each with its refusals | `ChunkSession` |
| Ethereum chunk session (`apdu_handler.c:86-111,162-259`) | the same variables | first and following packets, completed by the length the RLP header declares | `EthSession` |
| Vote guard (`validator/vote_fsm.c`, `common/actions.c:55-100`) | `vote`, `vote_state` | compare and move, arm on the first vote | `Votes`, `VoteGuard`, `ValidatorApp` |
| Vote parser (`validator/parser_*.c`) | position in the buffer, vote read so far | the loop over amino fields | `AminoVote`, `VoteReader` |
| Command handling, validator | all of the above, a question on the screen, the unanswered command | `handleSign*`, `handleGetAddr`, the Ethereum commands, approve, reject, power cycle | `ValidatorApp` |
| Command handling, consumer | the session, `parser_tx_obj.type`, expert mode, the review on the screen, the pending answer | the same for both protocols, address commands, approve, reject | `ConsumerApp` |
| Review items (`consumer/parser_consumer.c`, `parser_impl_con.c:1867-2010`) | loop index | item count, the switches over the index, `parser_validate` | `ReviewItems` |
| Data of a contract call (`consumer/parser_consumer.c:132-361,802-910`, `parser_impl_con.c:1253-1279`) | two counts and two flags, kept across transactions | count, item, open a container, and the pages around them | `InnerData` |
| Host library (`js/src/appBase.js`) | chunk index of the call in progress | `sign`, `signRtEd25519`, `signRtSecp256k1`, `signRtSr25519` | `HostConsumer`, `SigningService` |
| Consumer transaction reader (`consumer/parser_impl_con.c`) | `parser_tx_obj` | context, one reader per method, ParaTime calls | `TxReader` |
| Ethereum parser (`parser_impl_eth.c`, `eth_utils.c`) | `eth_tx_obj` | header, fields, recovery value | `Rlp`, `EthReader` |
| Keys and addresses (`crypto.c`, `addr.c`, `eth_addr.c`, `apdu_handler.c:46-110`) | `hdPath`, `hdPathLen` | which slots each derivation, signature and screen reads | `KeyPaths` |
| Hashes, Sr25519 arithmetic (`ristretto.c`, `app/rust`) | none that outlives a call | | outcomes only |
| Screens (`view_custom.c`), `deps/` | | | external or not modelled |

**How they interact.** The SDK gives `handleApdu` one command at a time. A
handler collects the packet into the buffer the two protocols share; with the
last packet it parses the buffer into the global `parser_tx_obj` (and, in the
validator, releases the global `vote`). Then it answers, or starts a review,
sets `IO_ASYNCH_REPLY` and returns: the answer is written when the user presses
a button. Between the packet and the button the handler's knowledge lives in
globals: the buffer, the path, the transaction type, `vote`. The library on the
host awaits each answer before it sends the next packet.

**What is hard.**

- *State read later than it was checked.* A review and a signature read
  globals that any earlier command has written: another session's packets, an
  address command's path, a failed parse's transaction type.
- *Sequences of legal commands.* Nothing closes a session after a signature; a
  refused first packet may leave the earlier session open; the two protocols
  share a flag and a buffer.
- *Loss of state.* The guard is RAM only. After a power cycle the next vote the
  operator confirms arms it.
- *Step that half succeeds.* The guard moves before the signature is computed.
  The loop over items ignores the result of one reader.
- *One object for all transactions.* `parser_tx_obj` is a union of which a
  transaction clears or writes a part; the review may show what another left.
  `eth_tx_obj` and the counts of the data walk are never cleared either.
- *One path for all commands.* Ten slots and a length are written by four
  commands, each in its own way, and read by functions that disagree on how many
  of the slots they read.
- *Bytes and indices.* Item counts are `uint8_t`, indices pass through
  `int8_t`, field numbers are cut to a byte, a cut message is read past its end;
  an RLP length has up to eight bytes, the recovery value one.

`PROJECT.json` lists every such hazard with its line and the properties for it.

**What makes each part correct.** Sessions: what is signed is what was sent
since the first packet, and all of it. Guard: signatures are strictly
increasing, and the signed bytes carry the judged vote. Vote parser: the fields
read are the fields sent, and the loop ends. Transaction reader: bodies are read
by position, so entries out of place must be refused, every value must show
under its own name, and nothing of an earlier transaction. Ethereum parser: the
session and the parser find the same header, the fields are those sent, nothing
is read behind the buffer, and the host can recover the signature's parity. Data
walk: what is shown and counted is the level the user walked to. Keys: a
signature is of the path asked for, and of the address shown for it. Consumer: the screen
shows what an approval signs, and the digest covers what was shown. Items: every
field is shown exactly once and malformed ones are refused. Library: a call gets
its own request signed or an error, and ends.

## The modules

`Votes` has votes, their order (`Precedes`) and the code's comparison
(`validate_state_transition`), with the range checks of `parser_validate`
(`Acceptable`). `VoteGuard` is the abstract guard: a watermark and a set of
votes cast, each above the ones before.

`ChunkSession` is `process_chunk` and `extractHDPath`, one disjunct per return
or throw: `ChunkInit` (P1 = 0), `ChunkAppend`, `ChunkOverflow` (the chunk does
not fit and nothing of it is kept), `ChunkUninitialized`, `ChunkBadP1`,
`ChunkBadP2`. A path is good, refused after it was written (`BadPath`), or
shorter than it should be, which leaves `hdPath` zeroed (`NoPath`). `EthSession`
extends it with `process_chunk_eth`, where the missing length is an unsigned
difference. How a buffer declares its length is a parameter of it, `Declared`.

`ValidatorApp` composes these with `app_sign_ed25519` and the operator.
`LastFirstVote`, `LastVote`, `LastNode`, `LastInvalid` and `LastOtherCurve` are
the paths through the sign handlers on a last packet. `EthPart`, `EthMorePart`,
`EthLastFirst`, `EthLastMore` and `GetEthAddr` are the Ethereum commands, which
this build takes too: they collect into the buffer of the votes, a complete
transaction is parsed as an Oasis one, which may release a vote into `vote`, and
stays unanswered if it parses. `ApproveVote`, `Reject` and `ApproveAddress` are
the buttons; `Restart` is a power cycle, or leaving the
application. `vote` and `parser_tx_obj` keep their old contents where the code
does not write them (`TxParse`). `signed` and `past` are history: what was
signed since power on and before.

`AminoVote` says what `parser_parse` computes on a vote message as a list of
items. `VoteReader` is the loop of `vote_amino_parse` over bytes, in memory that
goes on behind the message; the run `reader` shows that on whole messages both
agree. `ValidatorApp` uses `AminoVote`: a unit of payload is a run of items that
travels in one packet. Packets that split an item lead to the same buffers.

`ConsumerApp` has both protocols, address commands and the reviews. A
transaction is abstracted to its *kind*: invalid, consensus, ParaTime, one that
needs expert mode (contract, encrypted or EVM call), either of these two after a
plain context (`Bare`), Ethereum. `Covers` says which bytes the digest is over;
`blob_type` is the global it depends on. `sig` and `reply` hold what the last
step produced and nothing older; `sent` is capped one unit above the buffer.

`ReviewItems` is `parser_validate`'s loop over `_getNumItems` and
`parser_getItem`: each method's count and its switch over the index, with the
widths of the counters, against `Content`, the fields a transaction has. The
items are keys and, in lists, positions; their text is not modelled.

`TxReader` puts the reader before that loop: `Receive` reads a message into
`parser_tx_obj` (`parser_parse`: the context, then the CBOR map of the method)
and `Walk` is `ReviewItems`' step. A CBOR map is the set or, where it is read in
order, the sequence of its keys, and one value of a message may be bad. Two
parts of the union outlive a transaction: `meta`, the metadata of a ParaTime
transaction, and `left`, the method and the list lengths of a consensus one
(`LeftAfter`: also one that was refused half read; metadata overwrites them with
the signature context, a plain ParaTime context does not). The switch over the
consensus methods in `_getNumItems` runs for ParaTime transactions too, and what
it adds for `left` is `stale` in the record of `ReviewItems`. `Source` says which
entries an item's value comes from, by position as the reader does it; `Sent`
says it by the names of the keys.

`InnerData` is the walk through the data of a contract call, which is a CBOR
tree (`Datum`: a kind and the data inside, to any depth): `parser_getInnerField` follows the trace of the levels entered,
`parser_printInnerField` and `parser_canInspectItem` each follow it again with a
loop of their own. The view that calls them (ledger-zxlib) is external: it is
taken to turn the pages one by one, to count the data before it asks for an item,
to show the data's page again when the user comes back to it, and to go down
`MaxDepth - 1` levels. `Receive` is the loop of `parser_validate` over the pages,
which moves the flags as turning pages does; the number of pages has the tokens,
and the new code of an Upgrade. What an earlier transaction adds to the count of
a ParaTime transaction after a plain context is in `TxReader` only.

`Rlp` is the RLP of `eth_utils.c` over bytes: `get_tx_rlp_len`, which the session
uses, and `parse_rlp_item`, which the parser uses. Lengths keep their 64 bits (in
two's complement, all large ones one value). `EthReader` puts `process_chunk_eth`
(an instance of `EthSession` with bytes for units and `Declared` given by `Rlp`),
`_readEth` and `_computeV` behind each other: a host sends a transaction in
packets, the parser fills `eth_tx_obj` with places in the buffer, and the
approval makes the recovery value from both. `Recovered` is what hw-app-eth makes
of that byte.

`KeyPaths` has the paths of both protocols and every function that derives a key
from them. A key is its curve, its derivation mode and its path; the payload of
the session is left out. `known` is an address the host has been told and
remembers.

`HostConsumer` puts the library's chunk loop on top of `ConsumerApp`, with other
calls of the host (addresses, the Ethereum library) between two signatures.
`SigningService` is what a caller sees: a request, then its signature or an
error.

`SessionProofs` (lemmas on buffers, packets and paths), `ValidatorProofs`,
`ConsumerProofs` (the consumer, and the host library on top of it), `KeyProofs`,
`EthProofs`, `ReaderProofs`, `ItemProofs` and `InnerProofs` hold the theorems.

The `MC*` modules choose the small instances. The map from definitions to
source lines is in `PROJECT.json`. An operator marked as a mutant is a variant
of the definition below it with a plausible mistake; no specification uses it.

## The runs

| Run | Instance | Shows |
|---|---|---|
| `cycle` | two power cycles under a cautious operator; votes for two steps of one round and one of the next height, two blocks each, a refusable vote, a node message and an Ethereum header, in one or two packets; both transaction classes | `NoDoubleSign`, `NoDoubleSignEver`, `SignedBelowWatermark`, `SignedBytesCarryVote`, `ReviewShowsBuffer`, `ArmedByOperator`, `ImplementsVoteGuard`, types |
| `reader` | every message of up to two fields from 14 (good, wrong wire type, field 0, fields 257 and 258, unread field), votes as validators send them, cut anywhere, over zeroes, endless and long varints and an earlier vote | `ReadsItems`, `ReadsStayClose`, `ReaderTerminates`, types |
| `items` | three transactions, the last of every method and kind: well formed, with each entry missing, misplaced, surplus or bad, with and without fee and data, every set of optional fields; lists from empty to the longest the byte counts, a malformed first or last element; before that, metadata whole or cut short or nothing that writes it, and consensus transactions whole, cut short or with lists that wrap the next count | `AllShown`, `MalformedRefused`, `ShownAsSent`, `BodyShown`, `WellFormedAccepted`, types |
| `host` | payloads of one to three chunks and one too long; a good and a refused path; two schemes; Ethereum parts and addresses between calls | `ShowsRequest`, `ImplementsService` (safety and liveness), types |
| `review` | all commands of both protocols in any order, buffers of two units, all kinds of transaction, two schemes, good and refused paths | `ReviewIsCurrent`, `OasisSignsAllSent`, `EthSignsOneTransaction`, `DigestFollowsKind`, types |
| `keys` | six Oasis paths (both lengths, two coins, some not hardened, one too short) and six Ethereum paths (one to eleven components, one of the wrong coin), all commands with a path in any order, expert mode on and off | `SignsAskedPath`, `SignerHasAddress`, `PathShownIsDerived`, types |
| `eth` | two transactions one after the other: legacy, EIP-155, EIP-2930 and EIP-1559 as the library encodes them, for every chain, with data on both sides of each length class, and others with a wrong, missing or surplus field or header; in packets of three sizes | `ReviewedAtEnd`, `HeaderWasChecked`, `FieldsAreSent`, `ReadsInBuffer`, `ParityRecovered`, types |
| `inner` | calls, instantiations and upgrades one after the other; data of three levels with maps and arrays on each, arrays of 256 and 257 entries, data that is no map, no data | `ItemIsOfLevel`, `CountIsOfLevel`, `OpensDataOnly`, types |
| `digest`, `items_unfreeze`, `items_network`, `address` | | the four disagreements below |

**Bounds.** A double signature takes one step signed twice, in one cycle or in
two: two blocks per step, three steps and one restart have every such case, and
the proofs below lift the bounds. `BufferSize` counts units: two (three for
`host`) hold a transaction of several packets, one that overflows and an
Ethereum transaction with a surplus. A session depends on earlier ones only
through the variables it leaves, so two units are enough to leave all of them
stale. A vote's round and height are below and above one byte in `reader`, so
that shifted reads show.

In `items`, one list of each length class (empty, one, several, the longest)
meets every branch of the index arithmetic. Longer lists are there for what they
leave behind only, and `AllShown` leaves them out: 127 amendment rates make the
count wrap to few or no items, and behind 121 tokens the `int8_t` index makes a
token of what follows. The counts of the code are modelled
with their widths, so the module has that behaviour. Whether such a transaction
fits in the device's buffer depends on its encoding, which the module leaves out.
Two transactions before the last are enough: what the object keeps is what the
last metadata wrote, or the last but one where the last stopped early, and the
method and lengths of the last consensus transaction, if no metadata came after it.

In `eth`, packets of 30, 150 and 400 bytes cut a transaction inside every field
or nowhere, and a buffer of 500 bytes refuses none of the library's; lengths lie
at 55 and 56, 255 and 256, and within ten of 2^64. Every packet size is at least
10, so that the first has the whole header, as hw-app-eth's packets do: the code's
`get_tx_rlp_len` would read the rest of a header that is split from behind the
buffer. Two transactions show what the object keeps. In `keys` each path has
a component by which a stale slot can be told from a zeroed one. In `inner`,
three levels meet every loop of the walk with an array and a map, and `Index` has
a position behind the end of every container of less than 255 entries.

**View and symmetry.** `cycle` compares states without the path, the transaction
type and the last status word (`Decisive`): in `ValidatorApp` no guard reads them,
and no property but `TypeOK`, for which the proof stands. The two blocks are
interchangeable.

**Deadlock.** Of the runs that pass, `cycle` allows it: a validator build leaves
secp256k1 and sr25519 sign commands and complete Ethereum transactions unanswered
(`LastOtherCurve`, `EthComplete`), and the restarts are bounded. The runs
`reader`, `items` and `eth` end when their last transaction has been read.

**Fairness.** `VoteReader` and the walk over the items are loops that wait for
nothing: weak fairness of the loop's step (`Walk` in `TxReader`). In
`HostConsumer` the library awaits each answer and goes on at once (weak fairness
of `Send` and `Receive`), and the user is assumed to answer what is shown (weak
fairness of `Decide`). Without the last, a call lasts as long as the user looks
at the screen. `ValidatorApp` and `ConsumerApp` have no fairness and claim no
liveness.

## What the checks found

1. `digest`: `crypto_getBytesToSign` (`crypto_helper.c:26`) has its body in
   `#if defined(APP_CONSUMER)`. The validator build signs a zeroed digest,
   the same for every message, although `APDUSPEC.md:117` says the packets
   contain the message to sign.
2. `items_unfreeze`: `UnfreezeNode` without a fee shows a fee it does not have
   and not its node (`parser_consumer.c:1591`).
3. `items_network`: the network item is compared not only with the context's
   suffix but also with `runtime.meta.chain_context`
   (`parser_consumer.c:1861-1864`; the condition on the size is always true). A
   consensus transaction neither writes nor clears that field. After a ParaTime
   transaction for Mainnet was read, signed or not, a transfer on Testnet is
   reviewed as Mainnet.
4. `address`: `handleApdu` has no `break` between the Ethereum address command
   and the Oasis sign command of the same number. After a confirmed address
   has been prepared, the second handler's error is written over its first two
   bytes.

The models also have behaviours that no document calls right or wrong, and no
property is about them.

*Sessions and library.* `GET_ADDR` replaces the path of an open session, whose
signature is then made with it (`SignsAskedPath` says "the path sent last"). A
path the device refuses has been stored when the refusal is thrown, and `sign()`
does not look at the answer to the first packet: with a session left open by an
earlier call, the call returns a signature made with the refused path.
`SIGN_ED25519` packets may complete an Ethereum session, which is then reviewed
as an Ethereum transaction and signed with ed25519. An Ethereum first packet with
a surplus can be completed by an empty packet only. The library returns what
comes with a 0x6984 answer as the signature as well as in the error message.

*Digests.* A ParaTime transaction after a plain context gets a digest that starts
at a stale `metaLen` (`crypto_helper.c:37`), and so does an sr25519 signature of a
consensus transaction.

*Votes.* A vote cut inside its last 64-bit field parses, with bytes an earlier
transaction left behind the end (`parser_validator.c:94`). The fields of a vote
are accepted in any order (`expected_field` is never compared).

*Review.* On the devices `_readRuntimeEvmBody` writes the hash of the call's data
to `body.encrypted.data_hash` (`parser_impl_con.c:1435`), another member of the
union, and the review shows `body.evm.data_hash`, which is zero; the unit tests
compile the other branch, which is right. The result of `_getTokenAtIndex` is
ignored, so a contract call with a malformed token passes
(`parser_consumer.c:840`). The count of every ParaTime transaction also has the
items of the consensus method that lies in the union (`parser_impl_con.c:1870`).
Metadata leaves no method there. After a plain context what the last consensus
transaction left is counted: a well-formed ParaTime transaction is then refused,
because the items too many cannot be read; and where the sum passes the byte, items
are missing from the review. An amendment of 125 rates and one bound counts as 253,
so a Deposit after a plain context that follows it has four items in place of seven.
That amendment itself has 256 and the network, of which only the network is left.
`WellFormedAccepted` leaves out the first (`CountsEarlier`), `AllShown` the second
(`ItemsFit`); between them they show that nothing else read before makes a
difference. Data of a contract call that is not a map, or an empty
one, is no item: it is signed and not shown (`parser_impl_con.c:1270`). The data
of an Upgrade is opened with the counts of the data walked through last, also that
of an earlier transaction: its first level is cut to that length (`CountsOfEarlier`;
for Call and Instantiate the properties show that the counts are fresh). A count
is a byte: of a container of 256 entries none can be turned to.

*Keys.* An Ethereum address is derived from five slots (`crypto.c:170`), an
Ethereum signature from as many components as were sent: for a path of another
length the address is not the signer's. Packets of `SIGN_RT_SECP256K1` may
complete an Ethereum session; their signature reads five slots as well
(`crypto.c:221`), of which a path of three components has written three, and the
others are those of an earlier command. `SignerHasAddress` leaves these paths out
(`ReadsFiveSlots`). Screen and key may also differ in length: an Oasis path of
three components (ADR 0008) is shown as five, with two zeros at the end
(`addr.c:54`), while Ed25519 and Sr25519 addresses are derived from the three; the
screen of an Ethereum address shows `hdPathLen` components of the five it is
derived from (`eth_addr.c:59`). `PathShownIsDerived` says which components are shown
and that each that is shown and derived is the same.

*Ethereum.* A field's header and length are added in 64 bits before they are
compared with the buffer, so the sum may wrap and a length that is not in the
buffer is taken; `ReadsInBuffer` shows that nothing is read with it. A chain id's
length is cut to a byte, so one of 258 bytes is read as one of two, and then
`_computeV` fails after the approval. An `r` or `s` of one zero byte is refused,
although the comment at `parser_impl_eth.c:132` allows it. What follows the last
field is not looked at; the hash that is shown and signed is of the whole buffer.

*Encodings.* The reader of transactions takes some encodings for which `ShownAsSent` makes an
exception (`Canonical`): the shares of an Undelegate come from the place behind
the address whatever key is there (`parser_impl_con.c:1335`); the address of a
consensus call that does not come first is not read, and shows as "Self"
(1309); of the components of a version only those in the order major, minor,
patch are read (303); after a plain ParaTime context the ParaTime item is that
of an earlier transaction, or empty. Some behaviours are outside the model:
`parser_printVote` takes one byte of the vote, so that 257 shows as "yes"; a
version's components are cut to four digits; the end of the metadata is searched
as the next byte that begins a map (1633), which is right while the metadata is
ASCII; what follows the transaction's map is not looked at.

## What is proved

`ValidatorProofs` proves, for every set of votes, payloads and paths, every
buffer size, every header format of the Ethereum packets that share the buffer, every parser with the declared result type and any number of
restarts, that `ValidatorApp!Spec` implies `TypeOK` (`TypeCorrect`),
`ReviewShowsBuffer` (`ReviewIsFresh`), `SignedBelowWatermark`
(`WatermarkHolds`), `NoDoubleSign` (`NoDoubleSignature`), `NoDoubleSignEver`
(`NoDoubleSignatureEver`), `SignedBytesCarryVote` (`SignaturesCarryVote`),
`ArmedByOperator` (`OperatorArms`) and that it implements `VoteGuard`
(`DeviceImplementsGuard`). `TransitionCheckIsOrder` proves that
`validate_state_transition` is the strict order by height, round and step; all
of the above rest on it.

*The argument.* `NoDoubleSign` is not inductive: whether a new signature repeats
an old one's vote depends on what the guard remembers. The strengthening is
`SignedBelowWatermark`: every signature since power on is at or below the vote
in `vote_state`. The guard signs strictly above that vote, so a new signature's
vote differs from all old ones. Nothing else changes `signed` or lowers
`vote_state` but a restart, which empties both. The approval is the step that
needs more: it signs with `buffer` and `vote` as they are *then*, which are
those of the review because while a question is on the screen the command is
unanswered and no handler runs (`ReviewShowsBuffer`). Across restarts the
watermark is lost, and what stands in for it is the operator: `Cautious` makes
`ApproveVote` arm the guard only with a vote that no signed one is above. Its
invariant is that an initialised guard is at or above `signed` and `past`.
Without `Cautious` the property does not hold, and `NoDoubleSignEver` says so in
its premise. `DeviceImplementsGuard` maps the watermark to the vote of an
initialised `vote_state` and proves one step simulation per action.

`ConsumerProofs` proves, for every set of units, payloads and paths, every
buffer size, every parser of the declared type and every header format, that
`ConsumerApp!Spec` implies `TypeOK` (`TypeCorrect`), `ReviewIsCurrent`
(`ReviewStaysCurrent`), `OasisSignsAllSent` (`OasisSignatureIsComplete`),
`EthSignsOneTransaction` (`EthSignatureIsOneTransaction`) and
`DigestFollowsKind` (`DigestIsOfKindShown`). `SessionProofs` has the lemmas on
buffers and sequences that both rest on.

*The argument.* That a signature covers all that was sent is not inductive: the
two protocols share the buffer, and Ethereum packets may be added to an open
Oasis session. The invariant (`Collected`) is that an open Oasis session holds
exactly what was acknowledged since its first packet, *or* has an RLP header: an
Ethereum packet is only added to a buffer with one (`Declared`), the header stays
what it is when more is appended (`HeaderDecides`), and no Oasis transaction
has one (`FormatsDisjoint`), so such a buffer never reaches a review. From the
review to the button, `GoodReview` keeps buffer, renderer, kind and digest type
together; it is preserved because while a question is on the screen the command is
unanswered (`Asking`) and no handler runs. The type of the digest is set by the
same parse that starts the review. `IInv` is the conjunction with `TypeOK` and
was checked as an invariant of the instance of `review` first.

`KeyProofs` proves for every set of components and paths that every signature is
made with the key of the path sent last, in full (`SignedPathIsAsked`). Its
invariant is not about signatures but about the slots (`SlotsAreAsked`): while a
session or a review is open, the slots are zeroed, or they hold the last path and
`hdPathLen` is its length, with zeros behind it for an Oasis path. Refused paths
fit in: an Oasis path is stored before it is refused or leaves zeros, and a refused
Ethereum path closes the session. No key can be derived from zeroed slots, so a
derivation that succeeds read the path (`DerivableKey`). On top of it, `AInv` says
that the address the host remembers and the one on the screen have the key that
the path alone determines (`AddressKey`), which gives `SignerHasAddress`
(`AddressIsSigners`) and, for paths of every length, `PathShownIsDerived`
(`PathOnScreenIsDerived`: what is shown is the path asked, and `GoodScreen` keeps with
it that key and screen were both taken from the slots that hold it); the types
are `PathTypeCorrect`. The exception in `SignerHasAddress` was too narrow at first:
the step of the approval could not be proved for a secp256k1 signature over an
Ethereum session, and with one more path TLC found the counterexample.

`EthProofs` proves for all bytes, in packets of every size that has the header in
the first, that a transaction whose end the session has found has a header the
parser reads (`EthHeaderWasChecked`), and that the chain id and the address of a
reviewed transaction are in the buffer whatever lengths its items declare
(`EthReadsInBuffer`). Session and parser read the header with different code, so
the first rests on their agreement for a whole header (`HeaderReadable`). The
invariant is that the buffer between two packets begins with its whole header and
that its declared length does not change (`SameDeclared`). For the second,
`ItemInData` says which lengths `parse_rlp_item` lets pass, the wrapped ones
included, and `ReadInBuffer` that `readAddress` and `readChainID` do not use the
latter. `EthTypeCorrect` is the type invariant.

*What is reviewed.* `eth_tx_obj` is never cleared. `ObjectIsOfReview` proves, for
any bytes, that during a review the type and the chain, and for a legacy
transaction the places of its fields and its address if it has one, were
nevertheless read from the bytes under review (`ReadFrom`). What a typed
transaction leaves of an earlier one is not used. `WholeInv` carries this to the signature: after a button has
been pressed object and buffer are those of the review, and the recovery value is
`_computeV` of them. Its other part (`InPackets`) is that the buffer is what has been
sent, less than all while more is expected, and that behind the last packet it has
been read once. So a message that is as long as its header says and fits the
buffer (`Whole`) is reviewed at its last byte and no earlier (`WholeIsReviewed`).

For messages that encode a transaction (`Encodes`: whole, taken by the parser,
each RLP field holding the value meant, a chain id of at most eight bytes) the
fields under review are those sent (`FieldsAreThoseSent`) and the host recovers the
parity (`ParityIsRecovered`). That every encoding of hw-app-eth in the run `eth` is
such a message was evaluated with TLC. The parity needs a fact about numbers
(`ParityFits`): for none of the chains the parser takes is the even value 255, where
the odd one would become 0. `FieldsAreSent` and `ParityRecovered` speak of the
library's messages only, so the premise restricts those to the ones that are
encodings at all.

`ReaderProofs` proves for every set of messages, cut anywhere, and for everything
an earlier one may have left behind them, that the loop of `vote_amino_parse`
reads at most nine bytes behind the buffer (`ReaderStaysClose`), keeps a vote of
bytes (`ReaderTypeCorrect`), and consumes a byte in every turn that goes on
(`ReaderConsumes`). So it has no more turns than the buffer has bytes.
The invariant (`RInv`) adds to the types and that bound that there is memory up to
it. A field's key is a varint, which ends at the least place that may end it
(`LeastExists`, from the well-foundedness of the naturals) and leaves the offset
one behind the buffer at most (`VarintStays`); a 64-bit field takes eight bytes
from there without a check.

*The loop reads the fields.* `LoopReadsFields` says that over a whole message the
loop on bytes computes what `vote_amino_parse` of `AminoVote` computes on the
fields (`ReadsItems`), for messages of any length: no field is skipped, read twice or
read at a shifted place, and the errors are the same. The invariant (`WInv`) is that
the bytes of the message are in memory (`Holds`) and that, while the loop runs, it
stands behind the first k fields, for some k, with the vote that `AminoVote` has read
of these (`HasRead`). A turn does with the next field what `Consume` does
(`TurnReads`, from one lemma per action), because a varint and a 64-bit value read
back as they were written (`VarintRead`, `WordRead`) and a key gives number and wire
type (`KeyRead`). A field that ends the reading ends it for the fields behind it too
(`EndedStays`). Where the fields lie (`Positions`) and what has been read of the first
ones (`ReadingsAre`) are facts about two functions defined by recursion over the
message. They rest on `UpTo`: a set that holds 0, and with a position the next, holds
all up to the last, or there would be a least one that it does not hold. That such a
function exists at all, for TLA+ defines it by `CHOOSE`, is shown by extending one
for k fields to k + 1 (`ReadingExists`, `WritingExists`).

`ItemProofs` proves for every set of messages of the shape `AnyMessage`, lists of
any length among them, and any number of transactions before the last, that
`TxReader!Spec` implies

- `ReaderTypeOK` (`ReaderTypeCorrect`);
- `MalformedRefused` (`ReviewIsReadable`);
- `AllShown` (`ReviewIsComplete`), where the fee is there if it has to be
  (`FeeThere`: the node of an unfreezing without one is not shown, finding 2) and the
  count fits the byte that holds it and the `int8_t` that an index becomes
  (`ItemsFit`, a premise of `AllShown`: at most 251 items of a consensus method, 125
  of a ParaTime call *and* of the consensus method an earlier transaction left
  there; beyond that items are hidden, see above);
- `BodyShown` (`BodyIsShown`), under `FeeThere` only;
- `ShownAsSent` (`NoValueIsMisnamed`), under neither.

*The argument.* The invariant (`ReaderInv`) says that the items shown so far are the
first ones of the transaction in the order of the index, each of them readable
(`ShownInOrder`), and that the transaction was read from the message in the buffer
over *some* earlier content of the object (`ReadFromMessage`), so that how many
transactions came before does not matter. The rest is about a finished walk. For
`AllShown`, each method's items are a sequence that lists its content without
repetition (`Lists`), the count is that sequence's length plus the network, and the
switches over the index enumerate it; the index arithmetic of the lists (rates
and bounds, nodes, tokens) is done under `ItemsFit`. A ParaTime transaction that is
counted for an earlier one too does not end its walk: the index behind its last item
shows none and the loop stops there, so in an accepted review whose count fits,
nothing of an earlier transaction was counted (`NoneBehind`). `BodyShown` compares the
number of entries with the number of keys a reader looked up: as many entries as
different keys, and each key present, leaves no other entry. For `ShownAsSent`,
`TxNames` and `RuntimeNames` say which names can be shown whatever the counts do,
and each is led by its position to its key: a body in which every looked-up key is
at its place is determined by the keys.

*What the attempts corrected.* Several definitions used `CASE` with guards that
overlap, of which TLC takes the first and TLA+ any one: the first match of the
code's `if`/`else` chains is now written as such (`Method`, `Source`,
`MetadataItem`, `ContractItem`, `parser_getItem`, `Title`, `TxParse`, `Consume`).
`ElementItems` counted tokens for methods that have none, and `dataValid` was
possible for calls without data. `Sent` took a key from whichever map has it; now
it says which map a name belongs to (`MapOf`).

`InnerProofs` proves for data of any depth and width, any transactions and any
number of levels that `InnerData!Spec` implies `ItemIsOfLevel` (`ItemsAreOfLevel`),
`CountIsOfLevel` (`CountsAreOfLevel`), `OpensDataOnly` (`OnlyDataOpens`) and `TypeOK`
(`InnerTypeCorrect`).

*The argument.* The invariant (`IInv`, checked with TLC on the instance of `inner`
first) says that the trace leads to a container at each of its levels (`Leads`,
`Walking`), that the counts are those of the data from the first count on, and that
where the data can be opened its counts are due (`DueAtOpening`), but for an Upgrade.
`OpensDataOnly` alone is not inductive: a walk returns to the page it was opened from,
which `Walking` keeps. Two facts are about traces of any length, by induction with
`UpTo` (see above): the place that `parser_getInnerField` has reached at the end of a
trace is the container that `Below` finds by the structure of the data (`LevelIs`),
and what `parser_printInnerField` and `parser_canInspectItem` find from there is the
entry at the index (`PrintedIs`, `ContainerIs`). Both need that a map has a value for
every name (`DataAssumption`). The loop of `parser_validate` over the pages is the
third (`ValidatedIs`): behind its last page no flag of an earlier transaction is left.

The second part of `ConsumerProofs` proves for every set of payloads and every size of the chunks that
the library's calls are what they seem: the review during a call shows its payload
(`RequestIsShown`), `HostTypeCorrect`, and each step of library, device and user is
a step of `SigningService` or none (`HostServes`: a signature that `sign()` returns
is of the scheme, path and payload it was called with).

*The argument.* The invariant (`HInv`) follows a call through its chunks: before
each one the buffer is what the earlier ones hold together (`Sent`), after an
acknowledged one it is one chunk longer, and behind the last one there is a
signature, an error or a review of the whole payload. That the chunks of
`prepareChunks` join to the payload is `SentGrows`. An earlier session's leavings
do not matter because the packet with the path empties the buffer; an error does
not because the call ends there. The answer to the path needs care, for the library
ignores it: a refused path leaves the session closed, so that the next chunk is
refused, or an earlier one open over an emptied buffer.

*The assumptions* are about the constants, and TLC evaluates them in every run
of these modules: `SessionAssumption`, `ValidatorAssumption`, `EthAssumption`,
`ConsumerAssumption`, `PathAssumption`, `HostAssumption`, `MessageAssumption`,
`InnerAssumption` and
`EthReaderAssumption` give types (what the host sends is sequences of units, not an empty one through the
library; the parser returns a result of the declared shape, a parse without error has
a type). Six say more. `DataAssumption`: the data of a call is well-formed, a map has
as many values as names, and its tokens are fewer than 249, so that its items fit
their count. `FieldAssumption`: the key and the varint of a field take two
bytes at most and a 64-bit value is less than 2^16, which is as far as `VarintBytes`
and `Int64Bytes` write them in full. `ReaderAssumption`: the memory behind a message has nine
more bytes, which the buffer's capacity and what lies behind it in the device give.
`EthReaderAssumption`: the first packet has the whole
header (see the bounds). `HeaderDecides`: the RLP header travels in one unit, so a
buffer has it from the start or not at all; the code's `get_tx_rlp_len` may read
behind a header that is split. `FormatsDisjoint` is discussed below.

*Only model-checked.* All liveness (`ReaderTerminates`, `WellFormedAccepted`, the
service's promise to end, and with it `ImplementsService` as a whole), which the
prover does not do. Every invariant that a run checks is also proved.

## Assumptions about the outside

- The SDK is half duplex: it takes no command while one is unanswered, and does
  not send the handler's buffer when `IO_ASYNCH_REPLY` is set. `app_main`,
  `io_exchange`, the buffering and the review loop are in `deps/ledger-zxlib`,
  a submodule that is not in the repository; they are modelled from their use.
- The operating system derives no key for the zeroed path, but does for some
  paths that `extractHDPath` refuses: `app/Makefile:57` grants 44'/474', 44'/60'
  and 44'/354'.
- `FormatsDisjoint`: a buffer with an RLP header is no Oasis transaction,
  because its first byte read as a context length would be 192 or more. The
  consumer's parser does not enforce `MAX_CONTEXT_SIZE` (`coin_consumer.h:78`);
  the assumption is about the contexts that exist.
- One exchange at a time on the host. The lock is in `@ledgerhq/hw-transport`.
  The list of locked methods (`appBase.js:80`) names a `getAddressAndPubKey` that
  does not exist and none of the `signRt*` methods.
- `sign()` is called with a message or a context that is not empty.
- The consumer is not restarted in the model: all it keeps is a setting.

## Not modelled

Key derivation, hashes, Sr25519 and address encodings are arithmetic without
state of their own: their outcomes (success or failure) are choices, and `KeyPaths`
says from which path a key is. Drawing and text formatting are left out. In
`TxReader` CBOR is what the reader asks of it: keys present, their order where it
matters, one bad value at most; the encoding of lengths, duplicate keys and the
text limits of metadata fields are not in it. In `InnerData` the data is
well-formed: the reader checks the CBOR of the whole transaction and the walk
ignores the errors of `cbor_value_advance`. Bytes and kinds are not joined:
`ConsumerApp` takes the kind of a buffer as a parameter, and so does `ValidatorApp`
what a buffer says. Address and version calls of the library are decoding.

## Plan

In order of importance; 1 to 12 are done.

1. `Votes`, `VoteGuard`, `ChunkSession`, `ValidatorApp`, `AminoVote`: the guard,
   with its refinement and its proofs.
2. `VoteReader`: the byte loop.
3. `EthSession`, `ConsumerApp`: the shared session and the reviews.
4. `ReviewItems`: the item arithmetic of every method.
5. `HostConsumer`, `SigningService`: the library end to end.
6. `TxReader`: contexts, bodies and what one transaction leaves for the next.
7. `KeyPaths`: which key an address and a signature are of.
8. `Rlp`, `EthReader`: Ethereum transactions byte by byte.
9. The Ethereum class in `ValidatorApp`, and the guard proved again against it.
10. `InnerData`: the walk through the data of a contract call.
11. Proofs of the remaining invariants of `KeyPaths`, `EthReader`, `TxReader` and
    `ReviewItems`.
12. Proofs about data of any length: `InnerData`, and `ReadsItems` of `VoteReader`.
13. Open: the hazards of `PROJECT.json` that no property covers; bytes and kinds in
    one model, with the CBOR encoding of a transaction.
